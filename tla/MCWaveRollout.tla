--------------------------- MODULE MCWaveRollout ---------------------------
(***************************************************************************)
(* Small instances of WaveRollout: a canary wave of two devices, a wave of *)
(* two, and a wave that is still an empty placeholder.                     *)
(***************************************************************************)
EXTENDS WaveRollout, TLC

Inventory ==
    "canary" :> {"c1", "c2"} @@ "wave_1" :> {"w1", "w2"} @@ "wave_2" :> {}
============================================================================
