---------------------------- MODULE EagerDevice ----------------------------
(***************************************************************************)
(* What the mock device promises: a device that settles every install,     *)
(* reboot and task in the very second it runs out, whether or not anyone   *)
(* is looking.  mock-f5/app/state.py settles lazily, "at the top of every  *)
(* handler ... so state is always current when a response is built".       *)
(***************************************************************************)
EXTENDS DeviceState

VARIABLE dev

Init == dev = Fresh

\* A request changes the device only outside the reboot window.
Request(effect) == ~IsRebooting(dev) /\ dev' = Advance(effect)

Next ==
    \/ dev' = Advance(Elapse(dev))
    \/ Request([dev EXCEPT !.backups = @ + 1])
    \/ \E v \in Volumes, version \in Versions : Request(StartInstall(dev, v, version))
    \/ \E v \in Volumes : Request(ActivateVolume(dev, v))
    \/ Request(StartReboot(dev))
    \/ \E ha \in {"ACTIVE", "STANDBY"} : ha # dev.ha /\ Request([dev EXCEPT !.ha = ha])
    \/ \E flags \in SUBSET Flags : dev' = [dev EXCEPT !.chaos = flags]
    \/ dev' = FreshWith("16.1.3")

Spec == Init /\ [][Next]_dev
============================================================================
