---------------------------- MODULE MCPlaybooks ----------------------------
(***************************************************************************)
(* Small instances of Playbooks.                                           *)
(***************************************************************************)
EXTENDS Playbooks, TLC

TwoPlays == 1..2

ThreePlays == 1..3
============================================================================
