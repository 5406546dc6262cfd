-------------------------- MODULE MCExtensionTasks --------------------------
(***************************************************************************)
(* Small instances of ExtensionTasks.                                      *)
(***************************************************************************)
EXTENDS ExtensionTasks, TLC

ClientSymmetry == Permutations(Clients)
============================================================================
