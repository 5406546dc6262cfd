--------------------------- MODULE PlaybooksProofs ---------------------------
(***************************************************************************)
(* Theorems of Playbooks, for any number of plays, any poll budgets and    *)
(* any duration of installs and reboots.                                   *)
(***************************************************************************)
EXTENDS Playbooks, DeviceStateProofs, FiniteSetTheorems

----------------------------------------------------------------------------
(***************************************************************************)
(* Types.                                                                  *)
(***************************************************************************)
Places == Requests \cup Ended \cup {"idle"}

LEMMA ActiveVolumeType ==
    ASSUME NEW d
    PROVE  ActiveVolume(d) \in Volumes /\ InactiveVolume(d) \in Volumes
BY DEF ActiveVolume, InactiveVolume, Volumes

LEMMA BootsType ==
    ASSUME NEW d \in Device
    PROVE  Boots(d) \in [running : Versions, volume : Volumes, image : Versions]
BY ActiveVolumeType DEF Boots, Device

\* What a poller can read of a volume.
LEMMA StatusType ==
    ASSUME NEW d \in Device, NEW v
    PROVE  VolumeStatus(d, v) \in {"complete", "failed", "in progress"}
<1>1. OpsOn(d, v) # {} => Newest(OpsOn(d, v)) \in DOMAIN d.ops
  BY NewestOp
<1>2. \A i \in DOMAIN d.ops : d.ops[i].status \in {"in progress", "complete", "failed"}
  BY OpTypes DEF Operation
<1>3. QED
  BY <1>1, <1>2 DEF VolumeStatus

\* The operators of a play's state keep its type.
LEMMA PlayFields ==
    ASSUME NEW s \in PlayState
    PROVE  /\ \A pc \in Places : [s EXCEPT !.pc = pc] \in PlayState
           /\ \A v \in Volumes : [s EXCEPT !.volume = v] \in PlayState
           /\ \A v \in Versions : [s EXCEPT !.version = v] \in PlayState
           /\ \A v \in Versions : [s EXCEPT !.sawVersion = v] \in PlayState
           /\ \A h \in HAStates : [s EXCEPT !.sawHA = h] \in PlayState
           /\ \A h \in SyncStates : [s EXCEPT !.sawSync = h] \in PlayState
           /\ \A n \in Nat : [s EXCEPT !.tries = n] \in PlayState
           /\ \A n \in Nat : [s EXCEPT !.sleep = n] \in PlayState
           /\ \A b \in [running : Versions, volume : Volumes, image : Versions] :
                 [s EXCEPT !.before = b] \in PlayState
           /\ [s EXCEPT !.activated = TRUE] \in PlayState
           /\ \A k \in {"upgrade", "rollback", "failover"} : [s EXCEPT !.kind = k] \in PlayState
BY DEF PlayState, Places

LEMMA FreshType == Fresh \in Device
BY FreshWithType, VersionsAssumption DEF Fresh

LEMMA IdleType == Idle \in PlayState
BY FreshType, BootsType, VersionsAssumption
   DEF Idle, PlayState, Volumes, HAStates, SyncStates

LEMMA GotoType ==
    ASSUME play \in [Plays -> PlayState], NEW p \in Plays
    PROVE  /\ play[p] \in PlayState
           /\ \A pc \in Places : Goto(p, pc) \in PlayState
BY PlayFields DEF Goto

\* An attempt of an until loop that failed leaves a play in a state of its type.
LEMMA AgainType ==
    ASSUME play \in [Plays -> PlayState], NEW p \in Plays
    PROVE  Again(p) \in PlayState
<1> DEFINE s == play[p]
           once == [s EXCEPT !.tries = s.tries - 1]
<1>1. s \in PlayState
  OBVIOUS
<1>2. s.tries \in Nat
  BY <1>1 DEF PlayState
<1>3. CASE s.tries = 0
  BY <1>3, GotoType DEF Again, Places, Ended
<1>4. CASE s.tries # 0
  <2>1. s.tries - 1 \in Nat
    BY <1>2, <1>4
  <2>2. once \in PlayState
    BY <1>1, <2>1, PlayFields
  <2>3. Again(p) = [once EXCEPT !.sleep = PollDelay]
    BY <1>4 DEF Again
  <2>4. PollDelay \in Nat
    BY PlaysAssumption
  <2> HIDE DEF once
  <2>5. [once EXCEPT !.sleep = PollDelay] \in PlayState
    BY <2>2, <2>4, PlayFields
  <2>6. QED
    BY <2>3, <2>5
<1>5. QED
  BY <1>3, <1>4

\* A request of a play, answered or lost.
LEMMA UriType ==
    ASSUME TypeOK, NEW p \in Plays, NEW after \in Device, NEW next \in PlayState, Uri(p, after, next)
    PROVE  TypeOK'
<1>1. Advance(dev) \in Device
  BY AdvanceType DEF TypeOK
<1>2. "failed" \in Places
  BY DEF Places, Ended
<1>3. [play[p] EXCEPT !.pc = "failed"] \in PlayState /\ [next EXCEPT !.pc = "failed"] \in PlayState
  BY <1>2, PlayFields DEF TypeOK
<1>4. dev' \in Device
  BY <1>1 DEF Uri, TypeOK
<1>5. \E s \in PlayState : play' = [play EXCEPT ![p] = s]
  BY <1>3 DEF Uri, Become
<1>6. play' \in [Plays -> PlayState]
  BY <1>5 DEF TypeOK
<1>7. QED
  BY <1>4, <1>6 DEF TypeOK

LEMMA BecomeType ==
    ASSUME TypeOK, NEW p \in Plays, NEW s \in PlayState, Become(p, s), dev' \in Device
    PROVE  TypeOK'
BY DEF TypeOK, Become

\* A play of any kind is launched.
LEMMA LaunchType ==
    ASSUME TypeOK, NEW p \in Plays, NEW kind \in Kinds, NEW target \in Targets, Launch(p, kind, target)
    PROVE  TypeOK'
<1> DEFINE first == CASE kind = "upgrade" -> "version"
                      [] kind = "rollback" -> "rb_volumes"
                      [] kind = "failover" -> "fo_status"
           budget == IF kind = "rollback" THEN BootRetries ELSE 0
           s == [Idle EXCEPT !.kind = kind, !.version = target, !.before = Boots(dev),
                             !.tries = budget, !.pc = first]
<1>1. kind \in {"upgrade", "rollback", "failover"} /\ target \in Versions /\ budget \in Nat
  BY PlaysAssumption
<1>2. first \in Places
  BY <1>1 DEF Places, Requests
<1>3. Boots(dev) \in [running : Versions, volume : Volumes, image : Versions]
  BY BootsType DEF TypeOK
<1> HIDE DEF first, budget
<1>4. s \in PlayState
  <2> DEFINE a == [Idle EXCEPT !.kind = kind]
             b == [a EXCEPT !.version = target]
             c == [b EXCEPT !.before = Boots(dev)]
             e == [c EXCEPT !.tries = budget]
  <2>1. a \in PlayState
    BY <1>1, IdleType, PlayFields
  <2> HIDE DEF a
  <2>2. b \in PlayState
    BY <1>1, <2>1, PlayFields
  <2> HIDE DEF b
  <2>3. c \in PlayState
    BY <1>3, <2>2, PlayFields
  <2> HIDE DEF c
  <2>4. e \in PlayState
    BY <1>1, <2>3, PlayFields
  <2> HIDE DEF e
  <2>5. [e EXCEPT !.pc = first] \in PlayState
    BY <1>2, <2>4, PlayFields
  <2>6. QED
    BY <2>5 DEF a, b, c, e
<1>5. Become(p, s) /\ dev' = dev
  BY DEF Launch, first, budget
<1> HIDE DEF s
<1>6. QED
  BY <1>4, <1>5, BecomeType DEF TypeOK

\* Every task of a play keeps the types.
LEMMA TaskType ==
    ASSUME TypeOK, NEW p \in Plays, Task(p)
    PROVE  TypeOK'
<1> DEFINE d == Advance(dev)
<1>a. d \in Device /\ play \in [Plays -> PlayState] /\ play[p] \in PlayState
  BY AdvanceType DEF TypeOK
<1>b. d.running \in Versions /\ d.ha \in HAStates /\ d.sync \in SyncStates /\ d.backups \in Nat
  BY <1>a DEF Device
<1>c. play[p].volume \in Volumes /\ play[p].version \in Versions
  BY <1>a DEF PlayState
<1>d. \A pc \in Places : Goto(p, pc) \in PlayState
  BY <1>a, GotoType
<1>e. Requests \cup Ended \subseteq Places
  BY DEF Places
<1>f. Again(p) \in PlayState
  BY <1>a, AgainType
<1>g. dev \in Device
  BY DEF TypeOK
<1> HIDE DEF d
<1>1. CASE PreflightVersion(p)
  <2>1. Boots(d) \in [running : Versions, volume : Volumes, image : Versions]
    BY <1>a, BootsType
  <2>2. Goto(p, "failover") \in PlayState
    BY <1>d, <1>e DEF Requests
  <2>3. [Goto(p, "failover") EXCEPT !.before = Boots(d)] \in PlayState
    BY <2>1, <2>2, PlayFields
  <2>4. QED
    BY <1>1, <1>a, <2>3, UriType DEF PreflightVersion, d
<1>2. CASE PreflightFailover(p)
  <2>1. Goto(p, "sync") \in PlayState
    BY <1>d, <1>e DEF Requests
  <2>2. [Goto(p, "sync") EXCEPT !.sawHA = d.ha] \in PlayState
    BY <1>b, <2>1, PlayFields
  <2>3. QED
    BY <1>2, <1>a, <2>2, UriType DEF PreflightFailover, d
<1>3. CASE PreflightSync(p)
  <2>1. Goto(p, "perf") \in PlayState
    BY <1>d, <1>e DEF Requests
  <2>2. [Goto(p, "perf") EXCEPT !.sawSync = d.sync] \in PlayState
    BY <1>b, <2>1, PlayFields
  <2>3. QED
    BY <1>3, <1>a, <2>2, UriType DEF PreflightSync, d
<1>4. CASE PreflightPerf(p)
  <2>1. Goto(p, "ucs") \in PlayState /\ Goto(p, "failed") \in PlayState
    BY <1>d, <1>e DEF Requests, Ended
  <2>2. Either(play[p].sawHA # "FORCED OFFLINE" /\ play[p].sawSync = "In Sync", p, "ucs") \in PlayState
    BY <2>1 DEF Either
  <2>3. QED
    BY <1>4, <1>a, <2>2, UriType DEF PreflightPerf, d
<1>5. CASE Backup(p)
  <2>1. [d EXCEPT !.backups = d.backups + 1] \in Device
    <3>1. d.backups + 1 \in Nat
      BY <1>b
    <3>2. QED
      BY <1>a, <3>1 DEF Device
  <2>2. Goto(p, "volumes") \in PlayState
    BY <1>d, <1>e DEF Requests
  <2>3. QED
    BY <1>5, <2>1, <2>2, UriType DEF Backup, d
<1>6. CASE DiscoverVolume(p)
  <2>1. Goto(p, "image") \in PlayState
    BY <1>d, <1>e DEF Requests
  <2>2. [Goto(p, "image") EXCEPT !.volume = InactiveVolume(d)] \in PlayState
    BY <2>1, ActiveVolumeType, PlayFields
  <2>3. QED
    BY <1>6, <1>a, <2>2, UriType DEF DiscoverVolume, d
<1>7. CASE RegisterImage(p)
  <2>1. Goto(p, "install") \in PlayState
    BY <1>d, <1>e DEF Requests
  <2>2. QED
    BY <1>7, <1>a, <2>1, UriType DEF RegisterImage, d
<1>8. CASE KickOffInstall(p)
  <2>1. StartInstall(d, play[p].volume, play[p].version) \in Device
    BY <1>a, <1>c, StartInstallType
  <2>2. Goto(p, "poll_install") \in PlayState
    BY <1>d, <1>e DEF Requests
  <2>3. [Goto(p, "poll_install") EXCEPT !.tries = InstallRetries] \in PlayState
    BY <2>2, PlayFields, PlaysAssumption
  <2>4. QED
    BY <1>8, <2>1, <2>3, UriType DEF KickOffInstall, d
<1>9. CASE PollInstall(p)
  <2>1. Goto(p, "activate") \in PlayState /\ Goto(p, "failed") \in PlayState
    BY <1>d, <1>e DEF Requests, Ended
  <2> DEFINE status == VolumeStatus(d, play[p].volume)
             next == CASE status = "complete"    -> Goto(p, "activate")
                       [] status = "failed"      -> Goto(p, "failed")
                       [] status = "in progress" -> Again(p)
  <2>2. status \in {"complete", "failed", "in progress"}
    BY <1>a, StatusType
  <2> HIDE DEF status
  <2>3. next \in PlayState
    BY <1>f, <2>1, <2>2
  <2>4. Uri(p, d, next)
    BY <1>9 DEF PollInstall, d, status
  <2>5. QED
    BY <1>a, <2>3, <2>4, UriType
<1>10. CASE Activate(p)
  <2>1. ActivateVolume(d, play[p].volume) \in Device
    BY <1>a, <1>c, ActivateVolumeType
  <2>2. Goto(p, "reboot") \in PlayState
    BY <1>d, <1>e DEF Requests
  <2>3. [Goto(p, "reboot") EXCEPT !.activated = TRUE] \in PlayState
    BY <2>2, PlayFields
  <2>4. QED
    BY <1>10, <2>1, <2>3, UriType DEF Activate, d
<1>11. CASE Reboot(p)
  <2>1. StartReboot(d) \in Device
    BY <1>a, StartRebootType
  <2>2. Goto(p, "poll_version") \in PlayState
    BY <1>d, <1>e DEF Requests
  <2>3. [Goto(p, "poll_version") EXCEPT !.tries = BootRetries] \in PlayState
    BY <2>2, PlayFields, PlaysAssumption
  <2>4. QED
    BY <1>11, <2>1, <2>3, UriType DEF Reboot, d
<1>12. CASE PollVersion(p)
  <2>1. Goto(p, "gate_version") \in PlayState
    BY <1>d, <1>e DEF Requests
  <2>2. dev' \in Device /\ \E s \in PlayState : Become(p, s)
    BY <1>12, <1>a, <1>f, <1>g, <2>1 DEF PollVersion, d
  <2>3. QED
    BY <2>2, BecomeType
<1>13. CASE GateVersion(p)
  <2>1. Goto(p, "gate_failover") \in PlayState
    BY <1>d, <1>e DEF Requests
  <2>2. [Goto(p, "gate_failover") EXCEPT !.sawVersion = d.running] \in PlayState
    BY <1>b, <2>1, PlayFields
  <2>3. QED
    BY <1>13, <1>a, <2>2, UriType DEF GateVersion, d
<1>14. CASE GateFailover(p)
  <2>1. Goto(p, "gate_sync") \in PlayState
    BY <1>d, <1>e DEF Requests
  <2>2. [Goto(p, "gate_sync") EXCEPT !.sawHA = d.ha] \in PlayState
    BY <1>b, <2>1, PlayFields
  <2>3. QED
    BY <1>14, <1>a, <2>2, UriType DEF GateFailover, d
<1>15. CASE GateSync(p)
  <2>1. /\ Goto(p, "post_version") \in PlayState /\ Goto(p, "ok") \in PlayState
        /\ Goto(p, "failed") \in PlayState
    BY <1>d, <1>e DEF Requests, Ended
  <2>2. Either(HealthGate(p, d.sync), p,
               IF play[p].kind = "upgrade" THEN "post_version" ELSE "ok") \in PlayState
    BY <2>1 DEF Either
  <2>3. QED
    BY <1>15, <1>a, <2>2, UriType DEF GateSync, d
<1>16. CASE PostcheckVersion(p)
  <2>1. Goto(p, "plan") \in PlayState /\ Goto(p, "failed") \in PlayState
    BY <1>d, <1>e DEF Requests, Ended
  <2>2. Either(d.running = play[p].version, p, "plan") \in PlayState
    BY <2>1 DEF Either
  <2>3. QED
    BY <1>16, <1>a, <2>2, UriType DEF PostcheckVersion, d
<1>17. CASE PostcheckPlan(p)
  <2>1. Goto(p, "ok") \in PlayState /\ Goto(p, "failed") \in PlayState
    BY <1>d, <1>e DEF Ended
  <2>2. Either("drift_postcheck" \notin dev.chaos, p, "ok") \in PlayState
    BY <2>1 DEF Either
  <2>3. QED
    BY <1>17, <1>a, <2>2, UriType DEF PostcheckPlan, d
<1>18. CASE RollbackVolumes(p)
  <2> DEFINE v == InactiveVolume(d)
             next == [Goto(p, "activate") EXCEPT !.volume = v, !.version = d.image[v]]
  <2>1. v \in Volumes /\ d.image[v] \in Versions
    BY <1>a, ActiveVolumeType DEF Device
  <2>2. Goto(p, "activate") \in PlayState
    BY <1>d, <1>e DEF Requests
  <2>3. next \in PlayState
    <3> DEFINE one == [Goto(p, "activate") EXCEPT !.volume = v]
    <3>1. one \in PlayState
      BY <2>1, <2>2, PlayFields
    <3>2. next = [one EXCEPT !.version = d.image[v]]
      OBVIOUS
    <3> HIDE DEF one, next
    <3>3. QED
      BY <2>1, <3>1, <3>2, PlayFields
  <2>4. dev' \in Device /\ \E s \in PlayState : Become(p, s)
    <3>1. \/ dev' = d /\ Become(p, IF IsRebooting(d) THEN Again(p) ELSE next)
          \/ dev' \in {dev, d} /\ Become(p, Again(p))
      BY <1>18 DEF RollbackVolumes, d
    <3> HIDE DEF next
    <3>2. QED
      BY <1>a, <1>f, <1>g, <2>3, <3>1
  <2>5. QED
    BY <2>4, BecomeType
<1>19. CASE FailoverStatus(p)
  <2>1. Goto(p, "fo_trigger") \in PlayState /\ Goto(p, "ok") \in PlayState
    BY <1>d, <1>e DEF Requests, Ended
  <2>2. Goto(p, IF d.ha = "ACTIVE" THEN "fo_trigger" ELSE "ok") \in PlayState
    BY <2>1
  <2>3. QED
    BY <1>19, <1>a, <2>2, UriType DEF FailoverStatus, d
<1>20. CASE FailoverTrigger(p)
  <2>1. [d EXCEPT !.ha = IF d.ha = "ACTIVE" THEN "STANDBY" ELSE "ACTIVE"] \in Device
    BY <1>a DEF Device, HAStates
  <2>2. Goto(p, "ok") \in PlayState
    BY <1>d, <1>e DEF Ended
  <2>3. QED
    BY <1>20, <2>1, <2>2, UriType DEF FailoverTrigger, d
<1>21. QED
  BY <1>1, <1>2, <1>3, <1>4, <1>5, <1>6, <1>7, <1>8, <1>9, <1>10, <1>11, <1>12, <1>13, <1>14,
     <1>15, <1>16, <1>17, <1>18, <1>19, <1>20
  DEF Task, Preflight, ImageInstall, BootSwitch, Gate, Postcheck, Failover

\* A second passes for the device and for the pauses of the plays.
LEMMA TickType == ASSUME TypeOK, Tick PROVE TypeOK'
<1>1. dev' \in Device
  BY ElapseType DEF Tick, TypeOK
<1>2. ASSUME NEW p \in Plays PROVE [play[p] EXCEPT !.sleep = Less(play[p].sleep)] \in PlayState
  <2>1. play[p] \in PlayState /\ play[p].sleep \in Nat
    BY DEF TypeOK, PlayState
  <2>2. QED
    BY <2>1, LessType, PlayFields
<1>3. QED
  BY <1>1, <1>2 DEF Tick, TypeOK

LEMMA InjectType == ASSUME TypeOK, NEW flag \in Injected, Inject(flag) PROVE TypeOK'
BY PlaysAssumption DEF Inject, TypeOK, Device

LEMMA InitType == Init => TypeOK
BY FreshType, IdleType DEF Init, TypeOK

LEMMA NextType == ASSUME TypeOK, [Next]_vars PROVE TypeOK'
<1>1. CASE UNCHANGED vars
  BY <1>1 DEF vars, TypeOK
<1>2. QED
  BY <1>1, LaunchType, TaskType, TickType, InjectType DEF Next

\* Registered facts and loop counters keep their types, and the attempts left in an
\* until loop never fall below zero, whatever the plays and whatever gets lost.
THEOREM PlaysTypeCorrect == Spec => []TypeOK
BY InitType, NextType, PTL DEF Spec

----------------------------------------------------------------------------
(***************************************************************************)
(* Plays one after the other.  While a play runs, the ones before it are   *)
(* over and the ones after it have not begun, so that between two of its   *)
(* requests nothing but the clock and a raised chaos flag touches the      *)
(* device.                                                                 *)
(***************************************************************************)
Turns == \A p, q \in Plays : p < q /\ play[q].pc # "idle" => play[p].pc \in Ended

\* What a request makes of the play that sends it and of the device.
LEMMA UriMoves ==
    ASSUME TypeOK, NEW p \in Plays, NEW after, NEW next, Uri(p, after, next)
    PROVE  /\ \A q \in Plays : q # p => play'[q] = play[q]
           /\ \/ /\ ~IsRebooting(Advance(dev)) /\ dev' = after
                 /\ play'[p] = next \/ play'[p] = [next EXCEPT !.pc = "failed"]
              \/ /\ dev' \in {dev, Advance(dev)}
                 /\ play'[p] = [play[p] EXCEPT !.pc = "failed"]
<1>1. \A s : Become(p, s) => play'[p] = s /\ \A q \in Plays : q # p => play'[q] = play[q]
  BY DEF Become, TypeOK
<1>2. QED
  BY <1>1 DEF Uri

\* A task changes its own play only, and takes it to a request or to its end.
LEMMA TaskMoves ==
    ASSUME TypeOK, NEW p \in Plays, Task(p)
    PROVE  /\ play[p].pc \in Requests
           /\ \A q \in Plays : q # p => play'[q] = play[q]
<1>1. play[p].pc \in Requests
  BY DEF Task, Preflight, ImageInstall, BootSwitch, Gate, Postcheck, Failover, At, Requests,
     PreflightVersion, PreflightFailover, PreflightSync, PreflightPerf, Backup, DiscoverVolume,
     RegisterImage, KickOffInstall, PollInstall, Activate, Reboot, PollVersion, GateVersion,
     GateFailover, GateSync, PostcheckVersion, PostcheckPlan, RollbackVolumes, FailoverStatus,
     FailoverTrigger
<1>2. (\E after, next : Uri(p, after, next)) \/ (\E s : Become(p, s))
  BY DEF Task, Preflight, ImageInstall, BootSwitch, Gate, Postcheck, Failover,
     PreflightVersion, PreflightFailover, PreflightSync, PreflightPerf, Backup, DiscoverVolume,
     RegisterImage, KickOffInstall, PollInstall, Activate, Reboot, PollVersion, GateVersion,
     GateFailover, GateSync, PostcheckVersion, PostcheckPlan, RollbackVolumes, FailoverStatus,
     FailoverTrigger
<1>3. \A s : Become(p, s) => \A q \in Plays : q # p => play'[q] = play[q]
  BY DEF Become, TypeOK
<1>4. QED
  BY <1>1, <1>2, <1>3, UriMoves

\* Plays are numbered from 1.
LEMMA PlayNumbers ==
    /\ Cardinality(Plays) \in Nat
    /\ \A p : p \in Plays <=> p \in Nat /\ 1 <= p /\ p <= Cardinality(Plays)
<1> DEFINE n == Cardinality(Plays)
<1>1. n \in Nat
  BY PlaysAssumption, FS_CardinalityType
<1>2. Plays = 1..n
  BY PlaysAssumption
<1> HIDE DEF n
<1>3. \A p : p \in 1..n <=> p \in Nat /\ 1 <= p /\ p <= n
  BY <1>1
<1>4. QED
  BY <1>1, <1>2, <1>3 DEF n

\* What a launch changes, and when it may happen.
LEMMA LaunchMoves ==
    ASSUME TypeOK, Serial, Turns, NEW p \in Plays, NEW kind \in Kinds, NEW target \in Targets,
           Launch(p, kind, target)
    PROVE  /\ dev' = dev
           /\ play[p].pc = "idle"
           /\ \A q \in Plays : q # p => play'[q] = play[q]
           /\ \A q \in Plays : q < p => play[q].pc \in Ended
           /\ \A q \in Plays : p < q => play[q].pc = "idle"
<1>1. /\ dev' = dev /\ play[p].pc = "idle" /\ "idle" \notin Ended
      /\ p > 1 => play[p - 1].pc \in Ended
  BY DEF Launch, Ended
<1>2. \A q \in Plays : q # p => play'[q] = play[q]
  BY DEF Launch, Become, TypeOK
<1>3. ASSUME NEW q \in Plays, p < q PROVE play[q].pc = "idle"
  BY <1>1, <1>3 DEF Turns
<1>4. ASSUME NEW q \in Plays, q < p PROVE play[q].pc \in Ended
  <2>1. p \in Nat /\ q \in Nat /\ q >= 1 /\ p <= Cardinality(Plays) /\ Cardinality(Plays) \in Nat
    BY PlayNumbers
  <2>2. p - 1 \in Plays /\ q <= p - 1 /\ p > 1
    BY <1>4, <2>1, PlayNumbers
  <2>3. play[p - 1].pc \in Ended
    BY <1>1, <2>2
  <2>4. CASE q = p - 1
    BY <2>3, <2>4
  <2>5. CASE q # p - 1
    <3>1. q < p - 1
      BY <2>1, <2>2, <2>5
    <3>2. QED
      BY <1>1, <2>2, <2>3, <3>1 DEF Turns
  <2>6. QED
    BY <2>4, <2>5
<1>5. QED
  BY <1>1, <1>2, <1>3, <1>4

\* While a task of one play runs, no other play is under way.
LEMMA OthersAreAside ==
    ASSUME Turns, NEW p \in Plays, play[p].pc \in Requests
    PROVE  /\ \A q \in Plays : q < p => play[q].pc \in Ended
           /\ \A q \in Plays : p < q => play[q].pc = "idle"
<1>1. play[p].pc # "idle" /\ play[p].pc \notin Ended
  BY DEF Requests, Ended
<1>2. QED
  BY <1>1 DEF Turns

\* The plays take turns.
LEMMA TurnsStep == ASSUME TypeOK, Serial, Turns, [Next]_vars PROVE Turns'
<1>a. \A p \in Plays : p \in Int
  BY PlayNumbers
<1>1. ASSUME NEW p \in Plays, NEW kind \in Kinds, NEW target \in Targets, Launch(p, kind, target)
      PROVE  Turns'
  <2>1. /\ \A q \in Plays : q # p => play'[q] = play[q]
        /\ \A q \in Plays : q < p => play[q].pc \in Ended
        /\ \A q \in Plays : p < q => play[q].pc = "idle"
    BY <1>1, LaunchMoves
  <2>2. QED
    BY <1>a, <2>1 DEF Turns
<1>2. ASSUME NEW p \in Plays, Task(p) PROVE Turns'
  <2>1. play[p].pc \in Requests /\ \A q \in Plays : q # p => play'[q] = play[q]
    BY <1>2, TaskMoves
  <2>2. /\ \A q \in Plays : q < p => play[q].pc \in Ended
        /\ \A q \in Plays : p < q => play[q].pc = "idle"
    BY <2>1, OthersAreAside
  <2>3. QED
    BY <1>a, <2>1, <2>2 DEF Turns
<1>3. CASE Tick
  <2>1. \A p \in Plays : play'[p].pc = play[p].pc
    BY <1>3 DEF Tick, TypeOK, PlayState
  <2>2. QED
    BY <2>1 DEF Turns
<1>4. ASSUME NEW flag \in Injected, Inject(flag) PROVE Turns'
  BY <1>4 DEF Inject, Turns
<1>5. CASE UNCHANGED vars
  BY <1>5 DEF vars, Turns
<1>6. QED
  BY <1>1, <1>2, <1>3, <1>4, <1>5 DEF Next

LEMMA TurnsInit == Init => Turns
<1>1. Idle.pc = "idle"
  BY DEF Idle
<1>2. QED
  BY <1>1 DEF Init, Turns

----------------------------------------------------------------------------
(***************************************************************************)
(* What a play that is past its boot switch, or about to toggle the HA     *)
(* state, knows of the device: what it has read is still true, because no  *)
(* reboot is under way and nobody else is at work.                         *)
(***************************************************************************)
FailoverSteps == {"fo_status", "fo_trigger"}

GateSteps == {"gate_version", "gate_failover", "gate_sync", "post_version", "plan"}

KnowsDevice(s, d) ==
    /\ s.pc \in FailoverSteps => s.kind = "failover"
    /\ s.pc \in Requests \ FailoverSteps => s.kind # "failover"
    /\ s.pc \in GateSteps \cup {"fo_trigger"} => d.reboot = NoReboot
    /\ s.pc \in GateSteps => d.running = s.version
    /\ s.pc = "gate_sync" => s.sawHA = d.ha
    /\ s.pc \in {"post_version", "plan"} => Healthy(d)
    /\ s.pc = "fo_trigger" => d.ha = "ACTIVE"

\* What success of a play promises.
Delivers(s, d) ==
    s.pc = "ok" /\ s.kind # "failover" =>
        d.running = s.version /\ ~IsRebooting(d) /\ Healthy(d)

Good(s, d) == KnowsDevice(s, d) /\ Delivers(s, d)

Known == Quiet(dev) /\ \A p \in Plays : KnowsDevice(play[p], dev)

\* A device that does not reboot is settled but for its installs.
LEMMA NotRebooting ==
    ASSUME NEW d \in Device, Quiet(d)
    PROVE  LET a == Advance(d)
           IN /\ a \in Device /\ Quiet(a) /\ a.reboot # 0
              /\ ~IsRebooting(a) => a.reboot = NoReboot
              /\ d.reboot = NoReboot => /\ a.reboot = NoReboot /\ a.running = d.running
                                        /\ a.ha = d.ha /\ a.sync = d.sync
<1> DEFINE a == Advance(d)
<1>1. a \in Device /\ Quiet(a)
  BY AdvanceType, QuietAdvance DEF Quiet
<1>2. NoReboot # 0
  BY DEF NoReboot
<1>3. a.reboot # 0
  BY <1>2, QuietAdvance
<1>4. d.reboot = NoReboot => /\ a.reboot = NoReboot /\ a.running = d.running
                             /\ a.ha = d.ha /\ a.sync = d.sync
  BY <1>2, QuietAdvance
<1> HIDE DEF a
<1>5. a.reboot \in Nat \/ a.reboot = NoReboot
  BY <1>1 DEF Device
<1>6. ~IsRebooting(a) => a.reboot = NoReboot
  BY <1>3, <1>5 DEF IsRebooting
<1>7. QED
  BY <1>1, <1>3, <1>4, <1>6 DEF a

\* No request of a play starts a DO or AS3 task.
LEMMA StaysQuiet ==
    ASSUME NEW d \in Device, Quiet(d)
    PROVE  /\ \A v, version : Quiet(StartInstall(d, v, version))
           /\ \A v : Quiet(ActivateVolume(d, v))
           /\ Quiet(StartReboot(d))
           /\ \A x : Quiet([d EXCEPT !.backups = x])
           /\ \A x : Quiet([d EXCEPT !.ha = x])
           /\ \A x : Quiet([d EXCEPT !.chaos = x])
           /\ Quiet(Elapse(d))
BY ElapsedFields DEF Quiet, StartInstall, ActivateVolume, StartReboot, Device

\* A request that is answered takes the play where it should go, one that is lost
\* to its end.
LEMMA UriGood ==
    ASSUME TypeOK, Quiet(dev), NEW p \in Plays, NEW after, Quiet(after), NEW next \in PlayState,
           Uri(p, after, next), ~IsRebooting(Advance(dev)) => Good(next, after)
    PROVE  Quiet(dev') /\ Good(play'[p], dev')
<1>1. \A d : \A s \in PlayState : Good([s EXCEPT !.pc = "failed"], d)
  BY DEF Good, KnowsDevice, Delivers, PlayState, Requests, FailoverSteps, GateSteps
<1>2. play[p] \in PlayState
  BY DEF TypeOK
<1>3. Quiet(Advance(dev))
  BY NotRebooting DEF TypeOK
<1>4. ASSUME NEW r \in PlayState, play'[p] = [r EXCEPT !.pc = "failed"]
      PROVE  Good(play'[p], dev')
  BY <1>1, <1>4
<1>5. CASE ~IsRebooting(Advance(dev)) /\ dev' = after /\ play'[p] = next
  BY <1>5
<1>6. QED
  BY <1>2, <1>3, <1>4, <1>5, UriMoves

\* Where a play goes on, nothing but its place changes.
LEMMA GotoFields ==
    ASSUME TypeOK, NEW p \in Plays, NEW pc \in Places
    PROVE  LET s == Goto(p, pc)
           IN /\ s \in PlayState /\ s.pc = pc /\ s.kind = play[p].kind
              /\ s.version = play[p].version /\ s.sawHA = play[p].sawHA
              /\ s.volume = play[p].volume /\ s.before = play[p].before
              /\ s.activated = play[p].activated
<1>1. play[p] \in PlayState
  BY DEF TypeOK
<1>2. QED
  BY <1>1, GotoType DEF Goto, PlayState, TypeOK

\* At the requests before the health gate a play of the right kind knows nothing yet.
LEMMA BeforeGate ==
    ASSUME NEW s, NEW d, s.pc \in Places \ (GateSteps \cup FailoverSteps \cup {"ok"}),
           s.kind # "failover"
    PROVE  Good(s, d)
BY DEF Good, KnowsDevice, Delivers, GateSteps, FailoverSteps

LEMMA AgainFields ==
    ASSUME TypeOK, NEW p \in Plays
    PROVE  Again(p).pc \in {play[p].pc, "failed"} /\ Again(p).kind = play[p].kind
<1>1. play[p] \in PlayState
  BY DEF TypeOK
<1>2. QED
  BY <1>1 DEF Again, Goto, PlayState

\* Every task keeps what its play knows, and succeeds only with what it promises.
LEMMA TaskGood ==
    ASSUME TypeOK, Quiet(dev), NEW p \in Plays, KnowsDevice(play[p], dev), Task(p)
    PROVE  Quiet(dev') /\ Good(play'[p], dev')
<1> DEFINE d == Advance(dev)
           s == play[p]
<1>a. d \in Device /\ Quiet(d) /\ s \in PlayState /\ dev \in Device
  BY NotRebooting DEF TypeOK
<1>b. /\ ~IsRebooting(d) => d.reboot = NoReboot
      /\ dev.reboot = NoReboot => /\ d.reboot = NoReboot /\ d.running = dev.running
                                  /\ d.ha = dev.ha /\ d.sync = dev.sync
  BY NotRebooting DEF TypeOK
<1>c. \A pc \in Places : /\ Goto(p, pc) \in PlayState /\ Goto(p, pc).pc = pc
                         /\ Goto(p, pc).kind = s.kind /\ Goto(p, pc).version = s.version
                         /\ Goto(p, pc).sawHA = s.sawHA
  BY GotoFields
<1>d. Requests \subseteq Places /\ Ended \subseteq Places
  BY DEF Places
<1>e. s.pc \in FailoverSteps => s.kind = "failover"
  BY DEF KnowsDevice
<1>f. s.pc \in Requests \ FailoverSteps => s.kind # "failover"
  BY DEF KnowsDevice
<1>g. \A e : Good(Goto(p, "failed"), e)
  BY <1>c, <1>d DEF Good, KnowsDevice, Delivers, Ended, Requests, FailoverSteps, GateSteps
<1> HIDE DEF d, s
<1>1. CASE PreflightVersion(p)
  <2> DEFINE next == [Goto(p, "failover") EXCEPT !.before = Boots(d)]
  <2>1. Goto(p, "failover") \in PlayState /\ Goto(p, "failover").pc = "failover" /\ Goto(p, "failover").kind = s.kind
    BY <1>c, <1>d DEF Requests
  <2>2. next \in PlayState /\ next.pc = "failover" /\ next.kind = s.kind
    BY <1>a, <2>1, PlayFields, BootsType DEF PlayState
  <2>3. s.kind # "failover"
    BY <1>1, <1>f DEF PreflightVersion, At, Requests, FailoverSteps, s
  <2>4. Uri(p, d, next)
    BY <1>1 DEF PreflightVersion, d
  <2> HIDE DEF next
  <2>5. Good(next, d)
    BY <2>2, <2>3, BeforeGate DEF Places, Requests, GateSteps, FailoverSteps
  <2>6. QED
    BY <1>a, <2>2, <2>4, <2>5, UriGood
<1>2. CASE PreflightFailover(p)
  <2> DEFINE next == [Goto(p, "sync") EXCEPT !.sawHA = d.ha]
  <2>1. Goto(p, "sync") \in PlayState /\ Goto(p, "sync").pc = "sync" /\ Goto(p, "sync").kind = s.kind
    BY <1>c, <1>d DEF Requests
  <2>2. next \in PlayState /\ next.pc = "sync" /\ next.kind = s.kind
    <3>1. d.ha \in HAStates
      BY <1>a DEF Device
    <3>2. next \in PlayState
      BY <2>1, <3>1, PlayFields
    <3>3. next.pc = "sync" /\ next.kind = s.kind
      BY <2>1 DEF PlayState
    <3>4. QED
      BY <3>2, <3>3
  <2>3. s.kind # "failover"
    BY <1>2, <1>f DEF PreflightFailover, At, Requests, FailoverSteps, s
  <2>4. Uri(p, d, next)
    BY <1>2 DEF PreflightFailover, d
  <2> HIDE DEF next
  <2>5. Good(next, d)
    BY <2>2, <2>3, BeforeGate DEF Places, Requests, GateSteps, FailoverSteps
  <2>6. QED
    BY <1>a, <2>2, <2>4, <2>5, UriGood
<1>3. CASE PreflightSync(p)
  <2> DEFINE next == [Goto(p, "perf") EXCEPT !.sawSync = d.sync]
  <2>1. Goto(p, "perf") \in PlayState /\ Goto(p, "perf").pc = "perf" /\ Goto(p, "perf").kind = s.kind
    BY <1>c, <1>d DEF Requests
  <2>2. next \in PlayState /\ next.pc = "perf" /\ next.kind = s.kind
    <3>1. d.sync \in SyncStates
      BY <1>a DEF Device
    <3>2. next \in PlayState
      BY <2>1, <3>1, PlayFields
    <3>3. next.pc = "perf" /\ next.kind = s.kind
      BY <2>1 DEF PlayState
    <3>4. QED
      BY <3>2, <3>3
  <2>3. s.kind # "failover"
    BY <1>3, <1>f DEF PreflightSync, At, Requests, FailoverSteps, s
  <2>4. Uri(p, d, next)
    BY <1>3 DEF PreflightSync, d
  <2> HIDE DEF next
  <2>5. Good(next, d)
    BY <2>2, <2>3, BeforeGate DEF Places, Requests, GateSteps, FailoverSteps
  <2>6. QED
    BY <1>a, <2>2, <2>4, <2>5, UriGood
<1>4. CASE PreflightPerf(p)
  <2> DEFINE next == Either(s.sawHA # "FORCED OFFLINE" /\ s.sawSync = "In Sync", p, "ucs")
  <2>1. next \in PlayState /\ next.pc \in {"ucs", "failed"} /\ next.kind = s.kind
    BY <1>c, <1>d DEF Requests, Ended, Either
  <2>2. s.kind # "failover"
    BY <1>4, <1>f DEF PreflightPerf, At, Requests, FailoverSteps, s
  <2>3. Uri(p, d, next)
    BY <1>4 DEF PreflightPerf, d, s
  <2> HIDE DEF next
  <2>4. Good(next, d)
    BY <2>1, <2>2, BeforeGate DEF Places, Requests, Ended, GateSteps, FailoverSteps
  <2>5. QED
    BY <1>a, <2>1, <2>3, <2>4, UriGood
<1>5. CASE Backup(p)
  <2> DEFINE after == [d EXCEPT !.backups = @ + 1]
             next == Goto(p, "volumes")
  <2>1. next \in PlayState /\ next.pc = "volumes" /\ next.kind = s.kind
    BY <1>c, <1>d DEF Requests
  <2>2. s.kind # "failover"
    BY <1>5, <1>f DEF Backup, At, Requests, FailoverSteps, s
  <2>3. Uri(p, after, next) /\ Quiet(after)
    BY <1>5, <1>a, StaysQuiet DEF Backup, d
  <2> HIDE DEF after, next
  <2>4. Good(next, after)
    BY <2>1, <2>2, BeforeGate DEF Places, Requests, GateSteps, FailoverSteps
  <2>5. QED
    BY <1>a, <2>1, <2>3, <2>4, UriGood
<1>6. CASE DiscoverVolume(p)
  <2> DEFINE next == [Goto(p, "image") EXCEPT !.volume = InactiveVolume(d)]
  <2>1. Goto(p, "image") \in PlayState /\ Goto(p, "image").pc = "image" /\ Goto(p, "image").kind = s.kind
    BY <1>c, <1>d DEF Requests
  <2>2. next \in PlayState /\ next.pc = "image" /\ next.kind = s.kind
    BY <2>1, ActiveVolumeType, PlayFields DEF PlayState
  <2>3. s.kind # "failover"
    BY <1>6, <1>f DEF DiscoverVolume, At, Requests, FailoverSteps, s
  <2>4. Uri(p, d, next)
    BY <1>6 DEF DiscoverVolume, d
  <2> HIDE DEF next
  <2>5. Good(next, d)
    BY <2>2, <2>3, BeforeGate DEF Places, Requests, GateSteps, FailoverSteps
  <2>6. QED
    BY <1>a, <2>2, <2>4, <2>5, UriGood
<1>7. CASE RegisterImage(p)
  <2> DEFINE next == Goto(p, "install")
  <2>1. next \in PlayState /\ next.pc = "install" /\ next.kind = s.kind
    BY <1>c, <1>d DEF Requests
  <2>2. s.kind # "failover"
    BY <1>7, <1>f DEF RegisterImage, At, Requests, FailoverSteps, s
  <2>3. Uri(p, d, next)
    BY <1>7 DEF RegisterImage, d
  <2> HIDE DEF next
  <2>4. Good(next, d)
    BY <2>1, <2>2, BeforeGate DEF Places, Requests, GateSteps, FailoverSteps
  <2>5. QED
    BY <1>a, <2>1, <2>3, <2>4, UriGood
<1>8. CASE KickOffInstall(p)
  <2> DEFINE after == StartInstall(d, s.volume, s.version)
             next == [Goto(p, "poll_install") EXCEPT !.tries = InstallRetries]
  <2>1. /\ Goto(p, "poll_install") \in PlayState /\ Goto(p, "poll_install").pc = "poll_install"
        /\ Goto(p, "poll_install").kind = s.kind
    BY <1>c, <1>d DEF Requests
  <2>2. InstallRetries \in Nat
    BY PlaysAssumption
  <2>3. next \in PlayState /\ next.pc = "poll_install" /\ next.kind = s.kind
    BY <2>1, <2>2, PlayFields DEF PlayState
  <2>4. s.kind # "failover"
    BY <1>8, <1>f DEF KickOffInstall, At, Requests, FailoverSteps, s
  <2>5. Uri(p, after, next) /\ Quiet(after)
    BY <1>8, <1>a, StaysQuiet DEF KickOffInstall, d, s
  <2> HIDE DEF after, next
  <2>6. Good(next, after)
    BY <2>3, <2>4, BeforeGate DEF Places, Requests, GateSteps, FailoverSteps
  <2>7. QED
    BY <1>a, <2>3, <2>5, <2>6, UriGood
<1>9. CASE PollInstall(p)
  <2> DEFINE status == VolumeStatus(d, s.volume)
             next == CASE status = "complete"    -> Goto(p, "activate")
                       [] status = "failed"      -> Goto(p, "failed")
                       [] status = "in progress" -> Again(p)
  <2>1. status \in {"complete", "failed", "in progress"}
    BY <1>a, StatusType
  <2>2. Again(p).pc \in {s.pc, "failed"} /\ Again(p).kind = s.kind /\ Again(p) \in PlayState
    BY AgainFields, AgainType DEF TypeOK, s
  <2>3. s.pc = "poll_install"
    BY <1>9 DEF PollInstall, At, s
  <2> HIDE DEF status
  <2>4. next \in PlayState /\ next.pc \in {"activate", "poll_install", "failed"} /\ next.kind = s.kind
    BY <1>c, <1>d, <2>1, <2>2, <2>3 DEF Requests, Ended
  <2>5. s.kind # "failover"
    BY <1>f, <2>3 DEF Requests, FailoverSteps
  <2>6. Uri(p, d, next)
    BY <1>9 DEF PollInstall, d, s, status
  <2> HIDE DEF next
  <2>7. Good(next, d)
    BY <2>4, <2>5, BeforeGate DEF Places, Requests, Ended, GateSteps, FailoverSteps
  <2>8. QED
    BY <1>a, <2>4, <2>6, <2>7, UriGood
<1>10. CASE Activate(p)
  <2> DEFINE after == ActivateVolume(d, s.volume)
             next == [Goto(p, "reboot") EXCEPT !.activated = TRUE]
  <2>1. Goto(p, "reboot") \in PlayState /\ Goto(p, "reboot").pc = "reboot" /\ Goto(p, "reboot").kind = s.kind
    BY <1>c, <1>d DEF Requests
  <2>2. next \in PlayState /\ next.pc = "reboot" /\ next.kind = s.kind
    <3>1. next \in PlayState
      BY <2>1, PlayFields
    <3>2. next.pc = "reboot" /\ next.kind = s.kind
      BY <2>1 DEF PlayState
    <3>3. QED
      BY <3>1, <3>2
  <2>3. s.kind # "failover"
    BY <1>10, <1>f DEF Activate, At, Requests, FailoverSteps, s
  <2>4. Uri(p, after, next) /\ Quiet(after)
    BY <1>10, <1>a, StaysQuiet DEF Activate, d, s
  <2> HIDE DEF after, next
  <2>5. Good(next, after)
    BY <2>2, <2>3, BeforeGate DEF Places, Requests, GateSteps, FailoverSteps
  <2>6. QED
    BY <1>a, <2>2, <2>4, <2>5, UriGood
<1>11. CASE Reboot(p)
  <2> DEFINE after == StartReboot(d)
             next == [Goto(p, "poll_version") EXCEPT !.tries = BootRetries]
  <2>1. /\ Goto(p, "poll_version") \in PlayState /\ Goto(p, "poll_version").pc = "poll_version"
        /\ Goto(p, "poll_version").kind = s.kind
    BY <1>c, <1>d DEF Requests
  <2>2. BootRetries \in Nat
    BY PlaysAssumption
  <2>3. next \in PlayState /\ next.pc = "poll_version" /\ next.kind = s.kind
    BY <2>1, <2>2, PlayFields DEF PlayState
  <2>4. s.kind # "failover"
    BY <1>11, <1>f DEF Reboot, At, Requests, FailoverSteps, s
  <2>5. Uri(p, after, next) /\ Quiet(after)
    BY <1>11, <1>a, StaysQuiet DEF Reboot, d
  <2> HIDE DEF after, next
  <2>6. Good(next, after)
    BY <2>3, <2>4, BeforeGate DEF Places, Requests, GateSteps, FailoverSteps
  <2>7. QED
    BY <1>a, <2>3, <2>5, <2>6, UriGood
<1>12. CASE PollVersion(p)
  <2>1. s.pc = "poll_version"
    BY <1>12 DEF PollVersion, At, s
  <2>2. s.kind # "failover"
    BY <1>f, <2>1 DEF Requests, FailoverSteps
  <2>3. \A e : Good(Again(p), e)
    <3>1. Again(p).pc \in {"poll_version", "failed"} /\ Again(p).kind = s.kind
      BY <2>1, AgainFields DEF s
    <3>2. QED
      BY <2>2, <3>1, BeforeGate DEF Places, Requests, Ended, GateSteps, FailoverSteps
  <2>4. ~IsRebooting(d) /\ d.running = s.version => Good(Goto(p, "gate_version"), d)
    <3>1. /\ Goto(p, "gate_version").pc = "gate_version" /\ Goto(p, "gate_version").kind = s.kind
          /\ Goto(p, "gate_version").version = s.version
      BY <1>c, <1>d DEF Requests
    <3>2. QED
      BY <1>b, <2>2, <3>1 DEF Good, KnowsDevice, Delivers, GateSteps, FailoverSteps
  <2>5. \/ dev' = d /\ Become(p, IF ~IsRebooting(d) /\ d.running = s.version
                                   THEN Goto(p, "gate_version") ELSE Again(p))
        \/ dev' \in {dev, d} /\ Become(p, Again(p))
    BY <1>12 DEF PollVersion, d, s
  <2>6. \A x : Become(p, x) => play'[p] = x
    BY DEF Become, TypeOK
  <2>7. QED
    BY <1>a, <2>3, <2>4, <2>5, <2>6
<1>13. CASE GateVersion(p)
  <2> DEFINE next == [Goto(p, "gate_failover") EXCEPT !.sawVersion = d.running]
  <2>1. /\ Goto(p, "gate_failover") \in PlayState /\ Goto(p, "gate_failover").pc = "gate_failover"
        /\ Goto(p, "gate_failover").kind = s.kind /\ Goto(p, "gate_failover").version = s.version
    BY <1>c, <1>d DEF Requests
  <2>2. next \in PlayState /\ next.pc = "gate_failover" /\ next.kind = s.kind /\ next.version = s.version
    <3>1. d.running \in Versions
      BY <1>a DEF Device
    <3>2. next \in PlayState
      BY <2>1, <3>1, PlayFields
    <3>3. next.pc = "gate_failover" /\ next.kind = s.kind /\ next.version = s.version
      BY <2>1 DEF PlayState
    <3>4. QED
      BY <3>2, <3>3
  <2>3. s.pc = "gate_version" /\ s.kind # "failover"
    BY <1>13, <1>f DEF GateVersion, At, Requests, FailoverSteps, s
  <2>4. dev.reboot = NoReboot /\ dev.running = s.version
    BY <2>3 DEF KnowsDevice, GateSteps, s
  <2>5. Uri(p, d, next)
    BY <1>13 DEF GateVersion, d
  <2> HIDE DEF next
  <2>6. Good(next, d)
    BY <1>b, <2>2, <2>3, <2>4 DEF Good, KnowsDevice, Delivers, GateSteps, FailoverSteps
  <2>7. QED
    BY <1>a, <2>2, <2>5, <2>6, UriGood
<1>14. CASE GateFailover(p)
  <2> DEFINE next == [Goto(p, "gate_sync") EXCEPT !.sawHA = d.ha]
  <2>1. /\ Goto(p, "gate_sync") \in PlayState /\ Goto(p, "gate_sync").pc = "gate_sync"
        /\ Goto(p, "gate_sync").kind = s.kind /\ Goto(p, "gate_sync").version = s.version
    BY <1>c, <1>d DEF Requests
  <2>2. /\ next \in PlayState /\ next.pc = "gate_sync" /\ next.kind = s.kind
        /\ next.version = s.version /\ next.sawHA = d.ha
    <3>1. d.ha \in HAStates
      BY <1>a DEF Device
    <3>2. next \in PlayState
      BY <2>1, <3>1, PlayFields
    <3>3. /\ next.pc = "gate_sync" /\ next.kind = s.kind
          /\ next.version = s.version /\ next.sawHA = d.ha
      BY <2>1 DEF PlayState
    <3>4. QED
      BY <3>2, <3>3
  <2>3. s.pc = "gate_failover" /\ s.kind # "failover"
    BY <1>14, <1>f DEF GateFailover, At, Requests, FailoverSteps, s
  <2>4. dev.reboot = NoReboot /\ dev.running = s.version
    BY <2>3 DEF KnowsDevice, GateSteps, s
  <2>5. Uri(p, d, next)
    BY <1>14 DEF GateFailover, d
  <2> HIDE DEF next
  <2>6. Good(next, d)
    BY <1>b, <2>2, <2>3, <2>4 DEF Good, KnowsDevice, Delivers, GateSteps, FailoverSteps
  <2>7. QED
    BY <1>a, <2>2, <2>5, <2>6, UriGood
<1>15. CASE GateSync(p)
  <2> DEFINE end == IF s.kind = "upgrade" THEN "post_version" ELSE "ok"
             next == Either(HealthGate(p, d.sync), p, end)
  <2>1. s.pc = "gate_sync" /\ s.kind # "failover"
    BY <1>15, <1>f DEF GateSync, At, Requests, FailoverSteps, s
  <2>2. dev.reboot = NoReboot /\ dev.running = s.version /\ s.sawHA = dev.ha
    BY <2>1 DEF KnowsDevice, GateSteps, s
  <2>3. Uri(p, d, next)
    BY <1>15 DEF GateSync, d, s
  <2>4. end \in Places /\ end \in {"post_version", "ok"} /\ "failed" \in Places
    BY <1>d DEF Requests, Ended
  <2> HIDE DEF end
  <2>5. next \in PlayState
    BY <1>c, <2>4 DEF Either
  <2>6. CASE HealthGate(p, d.sync)
    <3>1. next = Goto(p, end)
      BY <2>6 DEF Either
    <3>2. Healthy(d) /\ d.reboot = NoReboot /\ d.running = s.version
      BY <1>b, <2>2, <2>6 DEF Healthy, HealthGate, s
    <3>3. ~IsRebooting(d)
      BY <3>2 DEF IsRebooting, NoReboot
    <3> HIDE DEF next
    <3>4. Good(next, d)
      BY <1>c, <2>1, <2>4, <3>1, <3>2, <3>3
      DEF Good, KnowsDevice, Delivers, GateSteps, FailoverSteps, Requests
    <3>5. QED
      BY <1>a, <2>3, <2>5, <3>4, UriGood
  <2>7. CASE ~HealthGate(p, d.sync)
    <3>1. next = Goto(p, "failed")
      BY <2>7 DEF Either
    <3> HIDE DEF next
    <3>2. QED
      BY <1>a, <1>g, <2>3, <2>5, <3>1, UriGood
  <2>8. QED
    BY <2>6, <2>7
<1>16. CASE PostcheckVersion(p)
  <2> DEFINE next == Either(d.running = s.version, p, "plan")
  <2>1. s.pc = "post_version" /\ s.kind # "failover"
    BY <1>16, <1>f DEF PostcheckVersion, At, Requests, FailoverSteps, s
  <2>2. dev.reboot = NoReboot /\ dev.running = s.version /\ Healthy(dev)
    BY <2>1 DEF KnowsDevice, GateSteps, s
  <2>3. Uri(p, d, next)
    BY <1>16 DEF PostcheckVersion, d, s
  <2>4. /\ next \in PlayState /\ next.pc \in {"plan", "failed"}
        /\ next.kind = s.kind /\ next.version = s.version
    BY <1>c, <1>d DEF Either, Requests, Ended
  <2> HIDE DEF next
  <2>5. Good(next, d)
    BY <1>b, <2>1, <2>2, <2>4
    DEF Good, KnowsDevice, Delivers, GateSteps, FailoverSteps, Healthy, Requests
  <2>6. QED
    BY <1>a, <2>3, <2>4, <2>5, UriGood
<1>17. CASE PostcheckPlan(p)
  <2> DEFINE next == Either("drift_postcheck" \notin dev.chaos, p, "ok")
  <2>1. s.pc = "plan" /\ s.kind # "failover"
    BY <1>17, <1>f DEF PostcheckPlan, At, Requests, FailoverSteps, s
  <2>2. dev.reboot = NoReboot /\ dev.running = s.version /\ Healthy(dev)
    BY <2>1 DEF KnowsDevice, GateSteps, s
  <2>3. Uri(p, d, next)
    BY <1>17 DEF PostcheckPlan, d
  <2>4. /\ next \in PlayState /\ next.pc \in {"ok", "failed"}
        /\ next.kind = s.kind /\ next.version = s.version
    BY <1>c, <1>d DEF Either, Ended
  <2>5. ~IsRebooting(d)
    BY <1>b, <2>2 DEF IsRebooting, NoReboot
  <2> HIDE DEF next
  <2>6. Good(next, d)
    BY <1>b, <2>1, <2>2, <2>4, <2>5
    DEF Good, KnowsDevice, Delivers, GateSteps, FailoverSteps, Healthy, Requests
  <2>7. QED
    BY <1>a, <2>3, <2>4, <2>6, UriGood
<1>18. CASE RollbackVolumes(p)
  <2> DEFINE v == InactiveVolume(d)
             next == [Goto(p, "activate") EXCEPT !.volume = v, !.version = d.image[v]]
  <2>1. s.pc = "rb_volumes" /\ s.kind # "failover"
    BY <1>18, <1>f DEF RollbackVolumes, At, Requests, FailoverSteps, s
  <2>2. \A e : Good(Again(p), e)
    <3>1. Again(p).pc \in {"rb_volumes", "failed"} /\ Again(p).kind = s.kind
      BY <2>1, AgainFields DEF s
    <3>2. QED
      BY <2>1, <3>1, BeforeGate DEF Places, Requests, Ended, GateSteps, FailoverSteps
  <2>3. Goto(p, "activate") \in PlayState /\ Goto(p, "activate").pc = "activate" /\ Goto(p, "activate").kind = s.kind
    BY <1>c, <1>d DEF Requests
  <2>4. next.pc = "activate" /\ next.kind = s.kind
    BY <2>3 DEF PlayState
  <2>5. \/ dev' = d /\ Become(p, IF IsRebooting(d) THEN Again(p) ELSE next)
        \/ dev' \in {dev, d} /\ Become(p, Again(p))
    BY <1>18 DEF RollbackVolumes, d
  <2> HIDE DEF next
  <2>6. \A e : Good(next, e)
    BY <2>1, <2>4, BeforeGate DEF Places, Requests, GateSteps, FailoverSteps
  <2>7. \A x : Become(p, x) => play'[p] = x
    BY DEF Become, TypeOK
  <2>8. QED
    BY <1>a, <2>2, <2>5, <2>6, <2>7
<1>19. CASE FailoverStatus(p)
  <2> DEFINE next == Goto(p, IF d.ha = "ACTIVE" THEN "fo_trigger" ELSE "ok")
  <2>1. s.pc = "fo_status" /\ s.kind = "failover"
    BY <1>19, <1>e DEF FailoverStatus, At, FailoverSteps, s
  <2>2. /\ next \in PlayState /\ next.kind = s.kind
        /\ next.pc = IF d.ha = "ACTIVE" THEN "fo_trigger" ELSE "ok"
    BY <1>c, <1>d DEF Requests, Ended
  <2>3. Uri(p, d, next)
    BY <1>19 DEF FailoverStatus, d
  <2> HIDE DEF next
  <2>5. ~IsRebooting(d) => Good(next, d)
    BY <1>b, <2>1, <2>2 DEF Good, KnowsDevice, Delivers, GateSteps, FailoverSteps, Requests
  <2>6. QED
    BY <1>a, <2>2, <2>3, <2>5, UriGood DEF d
<1>20. CASE FailoverTrigger(p)
  <2> DEFINE after == [d EXCEPT !.ha = IF @ = "ACTIVE" THEN "STANDBY" ELSE "ACTIVE"]
             next == Goto(p, "ok")
  <2>1. s.pc = "fo_trigger" /\ s.kind = "failover"
    BY <1>20, <1>e DEF FailoverTrigger, At, FailoverSteps, s
  <2>2. dev.reboot = NoReboot /\ dev.ha = "ACTIVE"
    BY <2>1 DEF KnowsDevice, s
  <2>3. next \in PlayState /\ next.pc = "ok" /\ next.kind = s.kind
    BY <1>c, <1>d DEF Ended
  <2>4. Uri(p, after, next)
    BY <1>20 DEF FailoverTrigger, d
  <2>5. after = [d EXCEPT !.ha = "STANDBY"]
    BY <1>b, <2>2
  <2>6. Quiet(after)
    BY <1>a, <1>b, <2>2, <2>5, StaysQuiet DEF Device
  <2> HIDE DEF after, next
  <2>8. Good(next, after)
    BY <2>1, <2>3 DEF Good, KnowsDevice, Delivers, GateSteps, FailoverSteps, Requests
  <2>9. QED
    BY <1>a, <2>3, <2>4, <2>6, <2>8, UriGood
<1>21. QED
  BY <1>1, <1>2, <1>3, <1>4, <1>5, <1>6, <1>7, <1>8, <1>9, <1>10, <1>11, <1>12, <1>13, <1>14,
     <1>15, <1>16, <1>17, <1>18, <1>19, <1>20
  DEF Task, Preflight, ImageInstall, BootSwitch, Gate, Postcheck, Failover

\* The answer with which a play succeeds takes it where the task goes on.
LEMMA UriSucceeds ==
    ASSUME TypeOK, NEW p \in Plays, NEW after, NEW next \in PlayState, Uri(p, after, next),
           play'[p].pc = "ok"
    PROVE  play'[p] = next
<1>1. \A s \in PlayState : [s EXCEPT !.pc = "failed"].pc = "failed"
  BY DEF PlayState
<1>2. play[p] \in PlayState
  BY DEF TypeOK
<1>3. QED
  BY <1>1, <1>2, UriMoves

\* The task with which a play succeeds leaves its kind and its version.
LEMMA TaskKeeps ==
    ASSUME TypeOK, NEW p \in Plays, Task(p), play'[p].pc = "ok"
    PROVE  play'[p].kind = play[p].kind /\ play'[p].version = play[p].version
<1> DEFINE d == Advance(dev)
           s == play[p]
           kept == play'[p].kind = s.kind /\ play'[p].version = s.version
<1>a. d \in Device /\ s \in PlayState /\ s.volume \in Volumes /\ s.version \in Versions
  BY AdvanceType DEF TypeOK, PlayState
<1>b. \A pc \in Places : /\ Goto(p, pc).pc = pc /\ Goto(p, pc).kind = s.kind
                         /\ Goto(p, pc).version = s.version /\ Goto(p, pc) \in PlayState
  BY GotoFields
<1>c. Requests \subseteq Places /\ Ended \subseteq Places
  BY DEF Places
<1>d. Again(p).pc # "ok" /\ Again(p) \in PlayState
  BY AgainFields, AgainType, TaskMoves DEF Requests, TypeOK
<1>e. \A x : Become(p, x) => play'[p] = x
  BY DEF Become, TypeOK
<1>f. ASSUME NEW r \in PlayState
      PROVE  /\ \A x \in [running : Versions, volume : Volumes, image : Versions] :
                   [r EXCEPT !.before = x] \in PlayState /\ [r EXCEPT !.before = x].pc = r.pc
             /\ \A x \in HAStates :
                   [r EXCEPT !.sawHA = x] \in PlayState /\ [r EXCEPT !.sawHA = x].pc = r.pc
             /\ \A x \in SyncStates :
                   [r EXCEPT !.sawSync = x] \in PlayState /\ [r EXCEPT !.sawSync = x].pc = r.pc
             /\ \A x \in Versions :
                   [r EXCEPT !.sawVersion = x] \in PlayState /\ [r EXCEPT !.sawVersion = x].pc = r.pc
             /\ \A x \in Volumes :
                   [r EXCEPT !.volume = x] \in PlayState /\ [r EXCEPT !.volume = x].pc = r.pc
             /\ \A x \in Nat :
                   [r EXCEPT !.tries = x] \in PlayState /\ [r EXCEPT !.tries = x].pc = r.pc
             /\ [r EXCEPT !.activated = TRUE] \in PlayState /\ [r EXCEPT !.activated = TRUE].pc = r.pc
  <2>1. /\ \A x : [r EXCEPT !.before = x].pc = r.pc
        /\ \A x : [r EXCEPT !.sawHA = x].pc = r.pc
        /\ \A x : [r EXCEPT !.sawSync = x].pc = r.pc
        /\ \A x : [r EXCEPT !.sawVersion = x].pc = r.pc
        /\ \A x : [r EXCEPT !.volume = x].pc = r.pc
        /\ \A x : [r EXCEPT !.tries = x].pc = r.pc
        /\ \A x : [r EXCEPT !.activated = x].pc = r.pc
    BY DEF PlayState
  <2>2. QED
    BY <2>1, PlayFields
<1>g. /\ d.running \in Versions /\ d.ha \in HAStates /\ d.sync \in SyncStates
      /\ InstallRetries \in Nat /\ BootRetries \in Nat
      /\ Boots(d) \in [running : Versions, volume : Volumes, image : Versions]
      /\ InactiveVolume(d) \in Volumes
  BY <1>a, BootsType, ActiveVolumeType, PlaysAssumption DEF Device
<1>h. ASSUME NEW after, NEW next \in PlayState, Uri(p, after, next), next.pc # "ok" PROVE FALSE
  BY <1>h, UriSucceeds
<1> HIDE DEF d, s
<1>1. CASE PreflightVersion(p)
  <2> DEFINE next == [Goto(p, "failover") EXCEPT !.before = Boots(d)]
  <2>1. Goto(p, "failover") \in PlayState /\ Goto(p, "failover").pc = "failover"
    BY <1>b, <1>c DEF Requests
  <2>2. next \in PlayState /\ next.pc # "ok"
    BY <1>f, <1>g, <2>1
  <2>3. Uri(p, d, next)
    BY <1>1 DEF PreflightVersion, d, s
  <2> HIDE DEF next
  <2>4. QED
    BY <1>h, <2>2, <2>3
<1>2. CASE PreflightFailover(p)
  <2> DEFINE next == [Goto(p, "sync") EXCEPT !.sawHA = d.ha]
  <2>1. Goto(p, "sync") \in PlayState /\ Goto(p, "sync").pc = "sync"
    BY <1>b, <1>c DEF Requests
  <2>2. next \in PlayState /\ next.pc # "ok"
    BY <1>f, <1>g, <2>1
  <2>3. Uri(p, d, next)
    BY <1>2 DEF PreflightFailover, d, s
  <2> HIDE DEF next
  <2>4. QED
    BY <1>h, <2>2, <2>3
<1>3. CASE PreflightSync(p)
  <2> DEFINE next == [Goto(p, "perf") EXCEPT !.sawSync = d.sync]
  <2>1. Goto(p, "perf") \in PlayState /\ Goto(p, "perf").pc = "perf"
    BY <1>b, <1>c DEF Requests
  <2>2. next \in PlayState /\ next.pc # "ok"
    BY <1>f, <1>g, <2>1
  <2>3. Uri(p, d, next)
    BY <1>3 DEF PreflightSync, d, s
  <2> HIDE DEF next
  <2>4. QED
    BY <1>h, <2>2, <2>3
<1>4. CASE PreflightPerf(p)
  <2> DEFINE next == Either(s.sawHA # "FORCED OFFLINE" /\ s.sawSync = "In Sync", p, "ucs")
  <2>1. next \in PlayState /\ next.pc # "ok"
    BY <1>b, <1>c DEF Requests, Ended, Either
  <2>2. Uri(p, d, next)
    BY <1>4 DEF PreflightPerf, d, s
  <2> HIDE DEF next
  <2>3. QED
    BY <1>h, <2>1, <2>2
<1>5. CASE Backup(p)
  <2>1. Goto(p, "volumes") \in PlayState /\ Goto(p, "volumes").pc # "ok"
    BY <1>b, <1>c DEF Requests
  <2>2. Uri(p, [d EXCEPT !.backups = @ + 1], Goto(p, "volumes"))
    BY <1>5 DEF Backup, d, s
  <2>3. QED
    BY <1>h, <2>1, <2>2
<1>6. CASE DiscoverVolume(p)
  <2> DEFINE next == [Goto(p, "image") EXCEPT !.volume = InactiveVolume(d)]
  <2>1. Goto(p, "image") \in PlayState /\ Goto(p, "image").pc = "image"
    BY <1>b, <1>c DEF Requests
  <2>2. next \in PlayState /\ next.pc # "ok"
    BY <1>f, <1>g, <2>1
  <2>3. Uri(p, d, next)
    BY <1>6 DEF DiscoverVolume, d, s
  <2> HIDE DEF next
  <2>4. QED
    BY <1>h, <2>2, <2>3
<1>7. CASE RegisterImage(p)
  <2>1. Goto(p, "install") \in PlayState /\ Goto(p, "install").pc # "ok"
    BY <1>b, <1>c DEF Requests
  <2>2. Uri(p, d, Goto(p, "install"))
    BY <1>7 DEF RegisterImage, d, s
  <2>3. QED
    BY <1>h, <2>1, <2>2
<1>8. CASE KickOffInstall(p)
  <2> DEFINE next == [Goto(p, "poll_install") EXCEPT !.tries = InstallRetries]
  <2>1. Goto(p, "poll_install") \in PlayState /\ Goto(p, "poll_install").pc = "poll_install"
    BY <1>b, <1>c DEF Requests
  <2>2. next \in PlayState /\ next.pc # "ok"
    BY <1>f, <1>g, <2>1
  <2>3. Uri(p, StartInstall(d, s.volume, s.version), next)
    BY <1>8 DEF KickOffInstall, d, s
  <2> HIDE DEF next
  <2>4. QED
    BY <1>h, <2>2, <2>3
<1>9. CASE PollInstall(p)
  <2> DEFINE status == VolumeStatus(d, s.volume)
             next == CASE status = "complete"    -> Goto(p, "activate")
                       [] status = "failed"      -> Goto(p, "failed")
                       [] status = "in progress" -> Again(p)
  <2>1. status \in {"complete", "failed", "in progress"}
    BY <1>a, StatusType
  <2> HIDE DEF status
  <2>2. next \in PlayState /\ next.pc # "ok"
    BY <1>b, <1>c, <1>d, <2>1 DEF Requests, Ended
  <2>3. Uri(p, d, next)
    BY <1>9 DEF PollInstall, d, s, status
  <2> HIDE DEF next
  <2>4. QED
    BY <1>h, <2>2, <2>3
<1>10. CASE Activate(p)
  <2> DEFINE next == [Goto(p, "reboot") EXCEPT !.activated = TRUE]
  <2>1. Goto(p, "reboot") \in PlayState /\ Goto(p, "reboot").pc = "reboot"
    BY <1>b, <1>c DEF Requests
  <2>2. next \in PlayState /\ next.pc # "ok"
    BY <1>f, <1>g, <2>1
  <2>3. Uri(p, ActivateVolume(d, s.volume), next)
    BY <1>10 DEF Activate, d, s
  <2> HIDE DEF next
  <2>4. QED
    BY <1>h, <2>2, <2>3
<1>11. CASE Reboot(p)
  <2> DEFINE next == [Goto(p, "poll_version") EXCEPT !.tries = BootRetries]
  <2>1. Goto(p, "poll_version") \in PlayState /\ Goto(p, "poll_version").pc = "poll_version"
    BY <1>b, <1>c DEF Requests
  <2>2. next \in PlayState /\ next.pc # "ok"
    BY <1>f, <1>g, <2>1
  <2>3. Uri(p, StartReboot(d), next)
    BY <1>11 DEF Reboot, d, s
  <2> HIDE DEF next
  <2>4. QED
    BY <1>h, <2>2, <2>3
<1>12. CASE PollVersion(p)
  <2>1. Goto(p, "gate_version").pc # "ok"
    BY <1>b, <1>c DEF Requests
  <2>2. Become(p, Goto(p, "gate_version")) \/ Become(p, Again(p))
    BY <1>12 DEF PollVersion
  <2>3. QED
    BY <1>d, <1>e, <2>1, <2>2
<1>13. CASE GateVersion(p)
  <2> DEFINE next == [Goto(p, "gate_failover") EXCEPT !.sawVersion = d.running]
  <2>1. Goto(p, "gate_failover") \in PlayState /\ Goto(p, "gate_failover").pc = "gate_failover"
    BY <1>b, <1>c DEF Requests
  <2>2. next \in PlayState /\ next.pc # "ok"
    BY <1>f, <1>g, <2>1
  <2>3. Uri(p, d, next)
    BY <1>13 DEF GateVersion, d, s
  <2> HIDE DEF next
  <2>4. QED
    BY <1>h, <2>2, <2>3
<1>14. CASE GateFailover(p)
  <2> DEFINE next == [Goto(p, "gate_sync") EXCEPT !.sawHA = d.ha]
  <2>1. Goto(p, "gate_sync") \in PlayState /\ Goto(p, "gate_sync").pc = "gate_sync"
    BY <1>b, <1>c DEF Requests
  <2>2. next \in PlayState /\ next.pc # "ok"
    BY <1>f, <1>g, <2>1
  <2>3. Uri(p, d, next)
    BY <1>14 DEF GateFailover, d, s
  <2> HIDE DEF next
  <2>4. QED
    BY <1>h, <2>2, <2>3
<1>15. CASE GateSync(p)
  <2> DEFINE after == d
             next == Either(HealthGate(p, d.sync), p, IF s.kind = "upgrade" THEN "post_version" ELSE "ok")
  <2>1. next \in PlayState /\ next.kind = s.kind /\ next.version = s.version
    BY <1>b, <1>c DEF Requests, Ended, Either
  <2>2. Uri(p, after, next)
    BY <1>15 DEF GateSync, d, s
  <2> HIDE DEF after, next
  <2>3. QED
    BY <2>1, <2>2, UriSucceeds DEF s
<1>16. CASE PostcheckVersion(p)
  <2> DEFINE after == d
             next == Either(d.running = s.version, p, "plan")
  <2>1. next \in PlayState /\ next.kind = s.kind /\ next.version = s.version
    BY <1>b, <1>c DEF Requests, Ended, Either
  <2>2. Uri(p, after, next)
    BY <1>16 DEF PostcheckVersion, d, s
  <2> HIDE DEF after, next
  <2>3. QED
    BY <2>1, <2>2, UriSucceeds DEF s
<1>17. CASE PostcheckPlan(p)
  <2> DEFINE after == d
             next == Either("drift_postcheck" \notin dev.chaos, p, "ok")
  <2>1. next \in PlayState /\ next.kind = s.kind /\ next.version = s.version
    BY <1>b, <1>c DEF Requests, Ended, Either
  <2>2. Uri(p, after, next)
    BY <1>17 DEF PostcheckPlan, d, s
  <2> HIDE DEF after, next
  <2>3. QED
    BY <2>1, <2>2, UriSucceeds DEF s
<1>18. CASE FailoverStatus(p)
  <2> DEFINE after == d
             next == Goto(p, IF d.ha = "ACTIVE" THEN "fo_trigger" ELSE "ok")
  <2>1. next \in PlayState /\ next.kind = s.kind /\ next.version = s.version
    BY <1>b, <1>c DEF Requests, Ended, Either
  <2>2. Uri(p, after, next)
    BY <1>18 DEF FailoverStatus, d, s
  <2> HIDE DEF after, next
  <2>3. QED
    BY <2>1, <2>2, UriSucceeds DEF s
<1>19. CASE FailoverTrigger(p)
  <2> DEFINE after == [d EXCEPT !.ha = IF @ = "ACTIVE" THEN "STANDBY" ELSE "ACTIVE"]
             next == Goto(p, "ok")
  <2>1. next \in PlayState /\ next.kind = s.kind /\ next.version = s.version
    BY <1>b, <1>c DEF Requests, Ended, Either
  <2>2. Uri(p, after, next)
    BY <1>19 DEF FailoverTrigger, d, s
  <2> HIDE DEF after, next
  <2>3. QED
    BY <2>1, <2>2, UriSucceeds DEF s
<1>20. CASE RollbackVolumes(p)
  <2> DEFINE v == InactiveVolume(d)
             next == [Goto(p, "activate") EXCEPT !.volume = v, !.version = d.image[v]]
  <2>1. next.pc # "ok"
    <3>1. Goto(p, "activate") \in PlayState /\ Goto(p, "activate").pc = "activate"
      BY <1>b, <1>c DEF Requests
    <3>2. QED
      BY <3>1 DEF PlayState
  <2> HIDE DEF next
  <2>2. Become(p, next) \/ Become(p, Again(p))
    BY <1>20 DEF RollbackVolumes, d, next
  <2>3. QED
    BY <1>d, <1>e, <2>1, <2>2
<1>21. QED
  BY <1>1, <1>2, <1>3, <1>4, <1>5, <1>6, <1>7, <1>8, <1>9, <1>10, <1>11, <1>12,
     <1>13, <1>14, <1>15, <1>16, <1>17, <1>18, <1>19, <1>20
  DEF Task, Preflight, ImageInstall, BootSwitch, Gate, Postcheck, Failover, s

\* Plays that are not under way know nothing.
LEMMA Aside ==
    ASSUME NEW s, NEW d, s.pc \in Ended \cup {"idle"}
    PROVE  KnowsDevice(s, d)
BY DEF KnowsDevice, Requests, Ended, FailoverSteps, GateSteps

\* A second, and a chaos flag, change nothing that a play knows.
LEMMA ClockGood ==
    ASSUME TypeOK, Known, Tick \/ \E flag \in Injected : Inject(flag)
    PROVE  Known' /\ \A p \in Plays : play'[p].pc = play[p].pc
<1>a. dev \in Device /\ Quiet(dev)
  BY DEF TypeOK, Known
<1> DEFINE kept == /\ Quiet(dev') /\ dev'.running = dev.running /\ dev'.ha = dev.ha
                   /\ dev'.sync = dev.sync
                   /\ dev.reboot = NoReboot => dev'.reboot = NoReboot
<1>1. kept
  <2>1. CASE Tick
    <3>1. Less(NoReboot) = NoReboot
      BY DEF Less, NoReboot
    <3>2. dev' = Elapse(dev)
      BY <2>1 DEF Tick
    <3>3. QED
      BY <1>a, <3>1, <3>2, ElapsedFields, StaysQuiet
  <2>2. ASSUME NEW flag \in Injected, Inject(flag) PROVE kept
    BY <1>a, <2>2, StaysQuiet DEF Inject, Device
  <2>3. QED
    BY <2>1, <2>2
<1>2. ASSUME NEW p \in Plays
      PROVE  /\ play'[p].pc = play[p].pc /\ play'[p].kind = play[p].kind
             /\ play'[p].version = play[p].version /\ play'[p].sawHA = play[p].sawHA
  <2>1. play[p] \in PlayState
    BY DEF TypeOK
  <2>2. QED
    BY <2>1 DEF Tick, Inject, PlayState
<1>3. ASSUME NEW p \in Plays PROVE KnowsDevice(play'[p], dev')
  <2>1. KnowsDevice(play[p], dev)
    BY DEF Known
  <2>2. QED
    BY <1>1, <1>2, <2>1 DEF KnowsDevice, Healthy
<1>4. QED
  BY <1>1, <1>2, <1>3 DEF Known

\* A play that is launched knows nothing yet.
LEMMA LaunchGood ==
    ASSUME TypeOK, NEW p \in Plays, NEW kind \in Kinds, NEW target \in Targets, Launch(p, kind, target)
    PROVE  KnowsDevice(play'[p], dev') /\ play'[p].pc # "ok"
<1>1. kind \in {"upgrade", "rollback", "failover"}
  BY PlaysAssumption
<1>2. /\ play'[p].kind = kind
      /\ play'[p].pc = CASE kind = "upgrade" -> "version"
                         [] kind = "rollback" -> "rb_volumes"
                         [] kind = "failover" -> "fo_status"
  BY IdleType DEF Launch, Become, TypeOK, PlayState
<1>3. QED
  BY <1>1, <1>2 DEF KnowsDevice, Requests, FailoverSteps, GateSteps

\* What plays know stays true, and what they promise is true when they end.
LEMMA KnownStep ==
    ASSUME TypeOK, Serial, Turns, Known, [Next]_vars
    PROVE  /\ Known'
           /\ \A p \in Plays : play[p].pc # "ok" /\ play'[p].pc = "ok" => Delivers(play'[p], dev')
<1> DEFINE goal == /\ Known'
                   /\ \A p \in Plays :
                         play[p].pc # "ok" /\ play'[p].pc = "ok" => Delivers(play'[p], dev')
<1>a. \A p \in Plays : p \in Int
  BY PlayNumbers
<1>1. ASSUME NEW p \in Plays, NEW kind \in Kinds, NEW target \in Targets, Launch(p, kind, target)
      PROVE  goal
  <2>1. dev' = dev /\ \A q \in Plays : q # p => play'[q] = play[q]
    BY <1>1, LaunchMoves
  <2>2. KnowsDevice(play'[p], dev') /\ play'[p].pc # "ok"
    BY <1>1, LaunchGood
  <2>3. QED
    BY <2>1, <2>2 DEF Known
<1>2. ASSUME NEW p \in Plays, Task(p) PROVE goal
  <2>1. Quiet(dev') /\ Good(play'[p], dev')
    BY <1>2, TaskGood DEF Known
  <2>2. play[p].pc \in Requests /\ \A q \in Plays : q # p => play'[q] = play[q]
    BY <1>2, TaskMoves
  <2>3. /\ \A q \in Plays : q < p => play[q].pc \in Ended
        /\ \A q \in Plays : p < q => play[q].pc = "idle"
    BY <2>2, OthersAreAside
  <2>4. \A q \in Plays : q # p => play[q].pc \in Ended \cup {"idle"}
    BY <1>a, <2>3
  <2>5. \A q \in Plays : q # p => KnowsDevice(play'[q], dev')
    BY <2>2, <2>4, Aside
  <2>6. QED
    BY <2>1, <2>2, <2>5 DEF Known, Good
<1>3. CASE Tick
  BY <1>3, ClockGood
<1>4. ASSUME NEW flag \in Injected, Inject(flag) PROVE goal
  BY <1>4, ClockGood
<1>5. CASE UNCHANGED vars
  BY <1>5 DEF vars, Known
<1>6. QED
  BY <1>1, <1>2, <1>3, <1>4, <1>5 DEF Next

\* The step with which a play succeeds leaves what it was launched for.
LEMMA SuccessKeeps ==
    ASSUME TypeOK, [Next]_vars, NEW p \in Plays, play[p].pc # "ok", play'[p].pc = "ok"
    PROVE  play'[p].kind = play[p].kind /\ play'[p].version = play[p].version
<1>a. play[p] \in PlayState
  BY DEF TypeOK
<1>1. ASSUME NEW q \in Plays, NEW kind \in Kinds, NEW target \in Targets, Launch(q, kind, target)
      PROVE  FALSE
  <2>1. play'[q].pc # "ok"
    BY <1>1, LaunchGood
  <2>2. p # q => play'[p] = play[p]
    BY <1>1 DEF Launch, Become, TypeOK
  <2>3. QED
    BY <2>1, <2>2
<1>2. ASSUME NEW q \in Plays, Task(q) PROVE  play'[p].kind = play[p].kind /\ play'[p].version = play[p].version
  <2>1. q = p
    BY <1>2, TaskMoves
  <2>2. Task(p)
    BY <1>2, <2>1
  <2>3. QED
    BY <2>2, TaskKeeps
<1>3. CASE Tick
  BY <1>3, <1>a DEF Tick, PlayState
<1>4. ASSUME NEW flag \in Injected, Inject(flag) PROVE FALSE
  BY <1>4 DEF Inject
<1>5. CASE UNCHANGED vars
  BY <1>5 DEF vars
<1>6. QED
  BY <1>1, <1>2, <1>3, <1>4, <1>5 DEF Next

LEMMA KnownInit == Init => Known
<1>1. Idle.pc = "idle" /\ Fresh.doTasks = << >> /\ Fresh.as3Tasks = << >>
  BY DEF Idle, Fresh, FreshWith
<1>2. QED
  BY <1>1, Aside DEF Init, Known, Quiet

\* Plays that run one after the other report success only of a healthy device at the
\* right version: the three requests of the gate and those of the postcheck see one
\* and the same device, whatever was lost or injected before.
THEOREM SuccessIsHealthy ==
    ASSUME Serial
    PROVE  Spec => SuccessMeansHealthy
<1> DEFINE Healthily == \A p \in Plays : Ends(p, "upgrade", "ok") \/ Ends(p, "rollback", "ok") =>
                          /\ dev'.running = play[p].version
                          /\ ~IsRebooting(dev')
                          /\ Healthy(dev')
<1>1. TypeOK /\ Turns /\ [Next]_vars => Turns'
  BY TurnsStep
<1>2. TypeOK /\ Turns /\ Known /\ [Next]_vars => Known'
  BY KnownStep
<1>3. TypeOK /\ Turns /\ Known /\ [Next]_vars => [Healthily]_vars
  <2> SUFFICES ASSUME TypeOK, Turns, Known, [Next]_vars, NEW p \in Plays,
                      Ends(p, "upgrade", "ok") \/ Ends(p, "rollback", "ok")
               PROVE  dev'.running = play[p].version /\ ~IsRebooting(dev') /\ Healthy(dev')
    OBVIOUS
  <2>1. play[p].pc # "ok" /\ play'[p].pc = "ok" /\ play[p].kind # "failover"
    BY DEF Ends
  <2>2. Delivers(play'[p], dev')
    BY <2>1, KnownStep
  <2>3. play'[p].kind = play[p].kind /\ play'[p].version = play[p].version
    BY <2>1, SuccessKeeps
  <2>4. QED
    BY <2>1, <2>2, <2>3 DEF Delivers
<1> HIDE DEF Healthily
<1>4. Spec => [][Healthily]_vars
  BY <1>1, <1>2, <1>3, TurnsInit, KnownInit, PlaysTypeCorrect, PTL DEF Spec
<1>5. QED
  BY <1>4 DEF SuccessMeansHealthy, Healthily

\* The step with which a play succeeds is one of its tasks.
LEMMA SuccessIsTask ==
    ASSUME TypeOK, [Next]_vars, NEW p \in Plays, play[p].pc # "ok", play'[p].pc = "ok"
    PROVE  Task(p)
<1>1. ASSUME NEW q \in Plays, NEW kind \in Kinds, NEW target \in Targets, Launch(q, kind, target)
      PROVE  FALSE
  <2>1. play'[q].pc # "ok"
    BY <1>1, LaunchGood
  <2>2. p # q => play'[p] = play[p]
    BY <1>1 DEF Launch, Become, TypeOK
  <2>3. QED
    BY <2>1, <2>2
<1>2. ASSUME NEW q \in Plays, Task(q) PROVE Task(p)
  BY <1>2, TaskMoves
<1>3. CASE Tick
  <2>1. play[p] \in PlayState
    BY DEF TypeOK
  <2>2. QED
    BY <1>3, <2>1 DEF Tick, PlayState
<1>4. ASSUME NEW flag \in Injected, Inject(flag) PROVE FALSE
  BY <1>4 DEF Inject
<1>5. CASE UNCHANGED vars
  BY <1>5 DEF vars
<1>6. QED
  BY <1>1, <1>2, <1>3, <1>4, <1>5 DEF Next

\* A request that takes a play to its success has been answered.
LEMMA UriAnswered ==
    ASSUME TypeOK, NEW p \in Plays, NEW after, NEW next \in PlayState, Uri(p, after, next),
           play'[p].pc = "ok"
    PROVE  ~IsRebooting(Advance(dev)) /\ dev' = after /\ play'[p] = next
<1>1. \A s \in PlayState : [s EXCEPT !.pc = "failed"].pc = "failed"
  BY DEF PlayState
<1>2. play[p] \in PlayState
  BY DEF TypeOK
<1>3. QED
  BY <1>1, <1>2, UriMoves

\* The step with which a failover succeeds: the role read STANDBY or FORCED OFFLINE and
\* left it at that, or it read ACTIVE, and nothing but its own request changed it since.
LEMMA FailoverRelieves ==
    ASSUME TypeOK, Known, NEW p \in Plays, Task(p), play[p].kind = "failover", play'[p].pc = "ok"
    PROVE  Relieved(dev, dev')
<1> DEFINE d == Advance(dev)
<1>a. d \in Device /\ Quiet(d) /\ (~IsRebooting(d) => d.reboot = NoReboot)
  BY NotRebooting DEF TypeOK, Known
<1>b. KnowsDevice(play[p], dev)
  BY DEF Known
<1>c. play[p].pc \in FailoverSteps
  <2>1. play[p].pc \in Requests
    BY TaskMoves
  <2>2. QED
    BY <1>b, <2>1 DEF KnowsDevice
<1>d. \A pc \in Places : Goto(p, pc) \in PlayState
  BY GotoFields
<1>e. ~(Preflight(p) \/ Backup(p) \/ RollbackVolumes(p))
  BY <1>c DEF Preflight, PreflightVersion, PreflightFailover, PreflightSync, PreflightPerf,
              Backup, RollbackVolumes, At, FailoverSteps
<1>f. ~(ImageInstall(p) \/ BootSwitch(p))
  BY <1>c DEF ImageInstall, DiscoverVolume, RegisterImage, KickOffInstall, PollInstall,
              BootSwitch, Activate, Reboot, PollVersion, At, FailoverSteps
<1>g. ~(Gate(p) \/ Postcheck(p))
  BY <1>c DEF Gate, GateVersion, GateFailover, GateSync, Postcheck, PostcheckVersion,
              PostcheckPlan, At, FailoverSteps
<1>1. CASE FailoverStatus(p)
  <2> DEFINE next == Goto(p, IF d.ha = "ACTIVE" THEN "fo_trigger" ELSE "ok")
  <2>1. next \in PlayState /\ next.pc = IF d.ha = "ACTIVE" THEN "fo_trigger" ELSE "ok"
    BY GotoFields DEF Places, Requests, Ended
  <2>2. Uri(p, d, next)
    BY <1>1 DEF FailoverStatus, d
  <2> HIDE DEF next
  <2>3. ~IsRebooting(d) /\ dev' = d /\ play'[p] = next
    BY <2>1, <2>2, UriAnswered
  <2>4. d.ha # "ACTIVE"
    BY <2>1, <2>3
  <2>5. Advance(d).ha = d.ha
    BY <1>a, <2>3, NotRebooting
  <2>6. QED
    BY <1>a, <2>3, <2>4, <2>5 DEF Relieved, Device, HAStates
<1>2. CASE FailoverTrigger(p)
  <2> DEFINE after == [d EXCEPT !.ha = IF @ = "ACTIVE" THEN "STANDBY" ELSE "ACTIVE"]
  <2>1. dev.reboot = NoReboot /\ dev.ha = "ACTIVE"
    BY <1>2, <1>b DEF FailoverTrigger, At, KnowsDevice
  <2>2. d.reboot = NoReboot /\ d.ha = "ACTIVE"
    BY <2>1, NotRebooting DEF TypeOK, Known
  <2>3. Uri(p, after, Goto(p, "ok"))
    BY <1>2 DEF FailoverTrigger, d
  <2>4. after = [d EXCEPT !.ha = "STANDBY"]
    BY <2>2
  <2>5. after \in Device /\ Quiet(after) /\ after.ha = "STANDBY" /\ after.reboot = NoReboot
    BY <1>a, <2>2, <2>4, StaysQuiet DEF Device, HAStates
  <2> HIDE DEF after
  <2>6. dev' = after
    BY <2>3, UriAnswered, GotoFields DEF Places, Ended
  <2>7. Advance(after).ha = "STANDBY"
    BY <2>5, NotRebooting
  <2>8. QED
    BY <2>2, <2>6, <2>7 DEF Relieved
<1>3. QED
  BY <1>e, <1>f, <1>g, <1>1, <1>2 DEF Task, Failover

\* A failover play that succeeds leaves the device STANDBY, or FORCED OFFLINE as it
\* found it, also when it is run again after one whose answer was lost.
THEOREM FailoverIsIdempotent ==
    ASSUME Serial
    PROVE  Spec => FailoverEndsStandby
<1> DEFINE Standby == \A p \in Plays : Ends(p, "failover", "ok") => Relieved(dev, dev')
<1>1. TypeOK /\ Turns /\ [Next]_vars => Turns'
  BY TurnsStep
<1>2. TypeOK /\ Turns /\ Known /\ [Next]_vars => Known'
  BY KnownStep
<1>3. TypeOK /\ Turns /\ Known /\ [Next]_vars => [Standby]_vars
  <2> SUFFICES ASSUME TypeOK, Turns, Known, [Next]_vars, NEW p \in Plays, Ends(p, "failover", "ok")
               PROVE  Relieved(dev, dev')
    OBVIOUS
  <2>1. play[p].pc # "ok" /\ play'[p].pc = "ok" /\ play[p].kind = "failover"
    BY DEF Ends
  <2>2. Task(p)
    BY <2>1, SuccessIsTask
  <2>3. QED
    BY <2>1, <2>2, FailoverRelieves
<1> HIDE DEF Standby
<1>4. Spec => [][Standby]_vars
  BY <1>1, <1>2, <1>3, TurnsInit, KnownInit, PlaysTypeCorrect, PTL DEF Spec
<1>5. QED
  BY <1>4 DEF FailoverEndsStandby, Standby

----------------------------------------------------------------------------
(***************************************************************************)
(* Outcome(p) is what a task of play p can do to the device and to the     *)
(* facts that decide what the play does next: the request is not heard or  *)
(* takes the play nowhere, or it is answered, and then the play ends only  *)
(* where an answer can get lost.                                           *)
(***************************************************************************)
Late == FailoverSteps \cup GateSteps \cup Ended \cup {"poll_version"}

\* Tasks that write and have nothing to assert: only an unheard request fails them.
Writing == {"install", "activate", "reboot"}

Kept(s, t) ==
    /\ t.kind = s.kind /\ t.volume = s.volume /\ t.version = s.version
    /\ t.before = s.before /\ t.activated = s.activated

Unheard(p, d) ==
    /\ dev' \in {dev, d}
    /\ Kept(play[p], play'[p])
    /\ \/ play'[p].pc = "failed" /\ (play[p].pc \in Writing => Lossy \/ IsRebooting(d))
       \/ play[p].pc \in {"poll_install", "rb_volumes"} /\ play'[p].pc = play[p].pc
       \/ play[p].pc \in Late /\ play'[p].pc \in Late

Answered(p, d, from, after, to) ==
    /\ play[p].pc \in from /\ ~IsRebooting(d)
    /\ dev' = after
    /\ play'[p].pc \in to \/ (Lossy /\ play'[p].pc = "failed")

Early == {"version", "failover", "sync", "perf", "ucs", "volumes"}

AnsweredFirst(p, d) ==
    /\ Answered(p, d, {"version"}, d, {"failover"})
    /\ play'[p].kind = play[p].kind /\ play'[p].version = play[p].version
    /\ play'[p].activated = play[p].activated
    /\ play'[p].before = Boots(d)

AnsweredVolumes(p, d) ==
    /\ Answered(p, d, {"volumes"}, d, {"image"})
    /\ play'[p].kind = play[p].kind /\ play'[p].version = play[p].version
    /\ play'[p].before = play[p].before /\ play'[p].activated = play[p].activated
    /\ play'[p].volume = InactiveVolume(d)

AnsweredRollback(p, d) ==
    /\ Answered(p, d, {"rb_volumes"}, d, {"activate"})
    /\ play'[p].kind = play[p].kind
    /\ play'[p].before = play[p].before /\ play'[p].activated = play[p].activated
    /\ play'[p].volume = InactiveVolume(d)
    /\ play'[p].version = d.image[InactiveVolume(d)]

AnsweredActivate(p, d) ==
    /\ Answered(p, d, {"activate"}, ActivateVolume(d, play[p].volume), {"reboot"})
    /\ play'[p].kind = play[p].kind /\ play'[p].version = play[p].version
    /\ play'[p].before = play[p].before /\ play'[p].volume = play[p].volume
    /\ play'[p].activated

AnsweredKept(p, d) ==
    /\ Kept(play[p], play'[p])
    /\ \/ Answered(p, d, {"failover", "sync", "perf"}, d, {"sync", "perf", "ucs"})
       \/ Answered(p, d, {"ucs"}, [d EXCEPT !.backups = @ + 1], {"volumes"})
       \/ Answered(p, d, {"image"}, d, {"install"})
       \/ Answered(p, d, {"install"}, StartInstall(d, play[p].volume, play[p].version),
                   {"poll_install"})
       \/ /\ Answered(p, d, {"poll_install"}, d, {"activate"})
          /\ VolumeStatus(d, play[p].volume) = "complete"
       \/ Answered(p, d, {"reboot"}, StartReboot(d), {"poll_version"})
       \/ Answered(p, d, {"fo_trigger"},
                   [d EXCEPT !.ha = IF @ = "ACTIVE" THEN "STANDBY" ELSE "ACTIVE"], {"ok"})

Outcome(p) ==
    LET d == Advance(dev)
    IN \/ Unheard(p, d) \/ AnsweredFirst(p, d) \/ AnsweredVolumes(p, d)
       \/ AnsweredRollback(p, d) \/ AnsweredActivate(p, d) \/ AnsweredKept(p, d)

LEMMA KeptTwice ==
    ASSUME NEW r, NEW s, NEW t, Kept(r, s), Kept(s, t)
    PROVE  Kept(r, t)
BY DEF Kept

\* A request is not answered, or the play goes on with what it says unless the
\* answer gets lost.
LEMMA UriOutcome ==
    ASSUME TypeOK, NEW p \in Plays, NEW after, NEW next \in PlayState, Uri(p, after, next)
    PROVE  LET t == play'[p]
           IN \/ /\ dev' \in {dev, Advance(dev)} /\ Kept(play[p], t) /\ t.pc = "failed"
                 /\ Lossy \/ IsRebooting(Advance(dev))
              \/ /\ ~IsRebooting(Advance(dev)) /\ dev' = after /\ Kept(next, t)
                 /\ t.pc = next.pc \/ (Lossy /\ t.pc = "failed")
<1> DEFINE fails(s) == [s EXCEPT !.pc = "failed"]
           moves == \/ ~IsRebooting(Advance(dev)) /\ dev' = after /\ play'[p] = next
                    \/ IsRebooting(Advance(dev)) /\ dev' = Advance(dev) /\ play'[p] = fails(play[p])
                    \/ Lossy /\ dev' = dev /\ play'[p] = fails(play[p])
                    \/ Lossy /\ ~IsRebooting(Advance(dev)) /\ dev' = after /\ play'[p] = fails(next)
<1>1. \A s \in PlayState : Kept(s, fails(s)) /\ fails(s).pc = "failed"
  BY DEF Kept, PlayState
<1>2. play[p] \in PlayState
  BY DEF TypeOK
<1>3. \A s : Become(p, s) => play'[p] = s
  BY DEF Become, TypeOK
<1>4. moves
  BY <1>3 DEF Uri
<1>5. Kept(next, next)
  BY DEF Kept
<1> HIDE DEF fails
<1>6. QED
  BY <1>1, <1>2, <1>4, <1>5

\* Every task has one of these outcomes.
LEMMA TaskOutcome ==
    ASSUME TypeOK, NEW p \in Plays, Task(p)
    PROVE  Outcome(p)
<1> DEFINE d == Advance(dev)
           s == play[p]
           t == play'[p]
<1>a. d \in Device /\ s \in PlayState /\ s.volume \in Volumes /\ s.version \in Versions
  BY AdvanceType DEF TypeOK, PlayState
<1>b. \A pc \in Places : Goto(p, pc) \in PlayState /\ Goto(p, pc).pc = pc /\ Kept(s, Goto(p, pc))
  BY GotoFields DEF Kept
<1>c. Requests \subseteq Places /\ Ended \subseteq Places
  BY DEF Places
<1>d. /\ d.running \in Versions /\ d.ha \in HAStates /\ d.sync \in SyncStates
      /\ InstallRetries \in Nat /\ BootRetries \in Nat
      /\ Boots(d) \in [running : Versions, volume : Volumes, image : Versions]
      /\ InactiveVolume(d) \in Volumes
  BY <1>a, BootsType, ActiveVolumeType, PlaysAssumption DEF Device
<1>e. Again(p) \in PlayState /\ Again(p).pc \in {s.pc, "failed"} /\ Kept(s, Again(p))
  <2>1. Again(p) \in PlayState
    BY <1>a, AgainType DEF TypeOK
  <2>2. Again(p).pc \in {s.pc, "failed"} /\ Kept(s, Again(p))
    BY <1>a DEF Again, Goto, PlayState, Kept
  <2>3. QED
    BY <2>1, <2>2
<1>f. \A x : Become(p, x) => t = x
  BY DEF Become, TypeOK
<1>g. ASSUME NEW after, NEW next \in PlayState, Uri(p, after, next)
      PROVE  \/ Unheard(p, d)
             \/ /\ ~IsRebooting(d) /\ dev' = after /\ Kept(next, t)
                /\ t.pc = next.pc \/ (Lossy /\ t.pc = "failed")
  BY <1>g, UriOutcome DEF Unheard
<1>h. ASSUME NEW r \in PlayState, NEW x
      PROVE  /\ LET u == [r EXCEPT !.sawHA = x] IN u.pc = r.pc /\ Kept(r, u)
             /\ LET u == [r EXCEPT !.sawSync = x] IN u.pc = r.pc /\ Kept(r, u)
             /\ LET u == [r EXCEPT !.sawVersion = x] IN u.pc = r.pc /\ Kept(r, u)
             /\ LET u == [r EXCEPT !.tries = x] IN u.pc = r.pc /\ Kept(r, u)
             /\ LET u == [r EXCEPT !.activated = x]
                IN /\ u.pc = r.pc /\ u.kind = r.kind /\ u.volume = r.volume
                   /\ u.version = r.version /\ u.before = r.before /\ u.activated = x
             /\ LET u == [r EXCEPT !.before = x]
                IN /\ u.pc = r.pc /\ u.kind = r.kind /\ u.volume = r.volume
                   /\ u.version = r.version /\ u.before = x /\ u.activated = r.activated
             /\ LET u == [r EXCEPT !.volume = x]
                IN /\ u.pc = r.pc /\ u.kind = r.kind /\ u.volume = x
                   /\ u.version = r.version /\ u.before = r.before /\ u.activated = r.activated
             /\ LET u == [r EXCEPT !.version = x]
                IN /\ u.pc = r.pc /\ u.kind = r.kind /\ u.volume = r.volume
                   /\ u.version = x /\ u.before = r.before /\ u.activated = r.activated
  BY DEF PlayState, Kept
<1> HIDE DEF d, s, t
<1>1. CASE PreflightVersion(p)
  <2> DEFINE after == d
             g == Goto(p, "failover")
             next == [g EXCEPT !.before = Boots(d)]
  <2>1. s.pc = "version" /\ Uri(p, after, next)
    BY <1>1 DEF PreflightVersion, At, d, s
  <2>2. g \in PlayState /\ g.pc = "failover" /\ Kept(s, g)
    BY <1>b, <1>c DEF Requests
  <2> HIDE DEF after, g
  <2>3. next \in PlayState
    BY <1>d, <2>2, PlayFields
  <2>4. /\ next.pc = "failover" /\ next.before = Boots(d)
        /\ next.kind = s.kind /\ next.version = s.version /\ next.activated = s.activated
    BY <1>h, <2>2 DEF Kept
  <2> HIDE DEF next
  <2>5. QED
    BY <1>g, <2>1, <2>3, <2>4
    DEF Outcome, AnsweredFirst, Answered, Kept, d, s, t, after
<1>2. CASE PreflightFailover(p)
  <2> DEFINE after == d
             g == Goto(p, "sync")
             next == [g EXCEPT !.sawHA = d.ha]
  <2>1. s.pc = "failover" /\ Uri(p, after, next)
    BY <1>2 DEF PreflightFailover, At, d, s
  <2>2. g \in PlayState /\ g.pc = "sync" /\ Kept(s, g)
    BY <1>b, <1>c DEF Requests
  <2> HIDE DEF after, g
  <2>3. next \in PlayState
    BY <1>d, <2>2, PlayFields
  <2>4. next.pc = "sync" /\ Kept(g, next)
    BY <1>h, <2>2 DEF Kept
  <2> HIDE DEF next
  <2>5. Kept(s, next)
    BY <2>2, <2>4, KeptTwice
  <2>6. Kept(next, t) => Kept(s, t)
    BY <2>5, KeptTwice
  <2>7. QED
    BY <1>g, <2>1, <2>3, <2>4, <2>6
    DEF Outcome, AnsweredKept, Answered, d, s, t, after
<1>3. CASE PreflightSync(p)
  <2> DEFINE after == d
             g == Goto(p, "perf")
             next == [g EXCEPT !.sawSync = d.sync]
  <2>1. s.pc = "sync" /\ Uri(p, after, next)
    BY <1>3 DEF PreflightSync, At, d, s
  <2>2. g \in PlayState /\ g.pc = "perf" /\ Kept(s, g)
    BY <1>b, <1>c DEF Requests
  <2> HIDE DEF after, g
  <2>3. next \in PlayState
    BY <1>d, <2>2, PlayFields
  <2>4. next.pc = "perf" /\ Kept(g, next)
    BY <1>h, <2>2 DEF Kept
  <2> HIDE DEF next
  <2>5. Kept(s, next)
    BY <2>2, <2>4, KeptTwice
  <2>6. Kept(next, t) => Kept(s, t)
    BY <2>5, KeptTwice
  <2>7. QED
    BY <1>g, <2>1, <2>3, <2>4, <2>6
    DEF Outcome, AnsweredKept, Answered, d, s, t, after
<1>4. CASE PreflightPerf(p)
  <2> DEFINE next == Either(s.sawHA # "FORCED OFFLINE" /\ s.sawSync = "In Sync", p, "ucs")
  <2>1. s.pc = "perf" /\ Uri(p, d, next)
    BY <1>4 DEF PreflightPerf, At, d, s
  <2>2. next \in PlayState /\ next.pc \in {"ucs", "failed"} /\ Kept(s, next)
    BY <1>b, <1>c DEF Either, Requests, Ended
  <2> HIDE DEF next
  <2>3. Kept(next, t) => Kept(s, t)
    BY <2>2, KeptTwice
  <2>4. QED
    BY <1>g, <2>1, <2>2, <2>3
    DEF Outcome, Unheard, Writing, AnsweredKept, Answered, d, s, t
<1>5. CASE Backup(p)
  <2> DEFINE after == [d EXCEPT !.backups = @ + 1]
             next == Goto(p, "volumes")
  <2>1. s.pc = "ucs" /\ Uri(p, after, next)
    BY <1>5 DEF Backup, At, d, s
  <2>2. next \in PlayState /\ next.pc = "volumes" /\ Kept(s, next)
    BY <1>b, <1>c DEF Requests, Ended
  <2> HIDE DEF after, next
  <2>3. Kept(next, t) => Kept(s, t)
    BY <2>2, KeptTwice
  <2>4. QED
    BY <1>g, <2>1, <2>2, <2>3
    DEF Outcome, AnsweredKept, Answered, d, s, t, after
<1>6. CASE DiscoverVolume(p)
  <2> DEFINE after == d
             g == Goto(p, "image")
             next == [g EXCEPT !.volume = InactiveVolume(d)]
  <2>1. s.pc = "volumes" /\ Uri(p, after, next)
    BY <1>6 DEF DiscoverVolume, At, d, s
  <2>2. g \in PlayState /\ g.pc = "image" /\ Kept(s, g)
    BY <1>b, <1>c DEF Requests
  <2> HIDE DEF after, g
  <2>3. next \in PlayState
    BY <1>d, <2>2, PlayFields
  <2>4. /\ next.pc = "image" /\ next.volume = InactiveVolume(d)
        /\ next.kind = s.kind /\ next.version = s.version /\ next.before = s.before /\ next.activated = s.activated
    BY <1>h, <2>2 DEF Kept
  <2> HIDE DEF next
  <2>5. QED
    BY <1>g, <2>1, <2>3, <2>4
    DEF Outcome, AnsweredVolumes, Answered, Kept, d, s, t, after
<1>7. CASE RegisterImage(p)
  <2> DEFINE after == d
             next == Goto(p, "install")
  <2>1. s.pc = "image" /\ Uri(p, after, next)
    BY <1>7 DEF RegisterImage, At, d, s
  <2>2. next \in PlayState /\ next.pc = "install" /\ Kept(s, next)
    BY <1>b, <1>c DEF Requests, Ended
  <2> HIDE DEF after, next
  <2>3. Kept(next, t) => Kept(s, t)
    BY <2>2, KeptTwice
  <2>4. QED
    BY <1>g, <2>1, <2>2, <2>3
    DEF Outcome, AnsweredKept, Answered, d, s, t, after
<1>8. CASE KickOffInstall(p)
  <2> DEFINE after == StartInstall(d, s.volume, s.version)
             g == Goto(p, "poll_install")
             next == [g EXCEPT !.tries = InstallRetries]
  <2>1. s.pc = "install" /\ Uri(p, after, next)
    BY <1>8 DEF KickOffInstall, At, d, s
  <2>2. g \in PlayState /\ g.pc = "poll_install" /\ Kept(s, g)
    BY <1>b, <1>c DEF Requests
  <2> HIDE DEF after, g
  <2>3. next \in PlayState
    BY <1>d, <2>2, PlayFields
  <2>4. next.pc = "poll_install" /\ Kept(g, next)
    BY <1>h, <2>2 DEF Kept
  <2> HIDE DEF next
  <2>5. Kept(s, next)
    BY <2>2, <2>4, KeptTwice
  <2>6. Kept(next, t) => Kept(s, t)
    BY <2>5, KeptTwice
  <2>7. QED
    BY <1>g, <2>1, <2>3, <2>4, <2>6
    DEF Outcome, AnsweredKept, Answered, d, s, t, after
<1>9. CASE PollInstall(p)
  <2> DEFINE status == VolumeStatus(d, s.volume)
             next == CASE status = "complete"    -> Goto(p, "activate")
                       [] status = "failed"      -> Goto(p, "failed")
                       [] status = "in progress" -> Again(p)
  <2>1. status \in {"complete", "failed", "in progress"}
    BY <1>a, StatusType
  <2>2. s.pc = "poll_install" /\ Uri(p, d, next)
    BY <1>9 DEF PollInstall, At, d, s, status
  <2> HIDE DEF status
  <2>3. /\ next \in PlayState /\ Kept(s, next)
        /\ \/ next.pc \in {"failed", "poll_install"}
           \/ next.pc = "activate" /\ status = "complete"
    BY <1>b, <1>c, <1>e, <2>1, <2>2 DEF Requests, Ended
  <2> HIDE DEF next
  <2>4. Kept(next, t) => Kept(s, t)
    BY <2>3, KeptTwice
  <2>5. QED
    BY <1>g, <2>2, <2>3, <2>4
    DEF Outcome, AnsweredKept, Answered, Unheard, Writing, d, s, t, status
<1>10. CASE Activate(p)
  <2> DEFINE after == ActivateVolume(d, s.volume)
             g == Goto(p, "reboot")
             next == [g EXCEPT !.activated = TRUE]
  <2>1. s.pc = "activate" /\ Uri(p, after, next)
    BY <1>10 DEF Activate, At, d, s
  <2>2. g \in PlayState /\ g.pc = "reboot" /\ Kept(s, g)
    BY <1>b, <1>c DEF Requests
  <2> HIDE DEF after, g
  <2>3. next \in PlayState
    BY <1>d, <2>2, PlayFields
  <2>4. /\ next.pc = "reboot" /\ next.activated = TRUE
        /\ next.kind = s.kind /\ next.version = s.version /\ next.before = s.before /\ next.volume = s.volume
    BY <1>h, <2>2 DEF Kept
  <2> HIDE DEF next
  <2>5. QED
    BY <1>g, <2>1, <2>3, <2>4
    DEF Outcome, AnsweredActivate, Answered, Kept, d, s, t, after
<1>11. CASE Reboot(p)
  <2> DEFINE after == StartReboot(d)
             g == Goto(p, "poll_version")
             next == [g EXCEPT !.tries = BootRetries]
  <2>1. s.pc = "reboot" /\ Uri(p, after, next)
    BY <1>11 DEF Reboot, At, d, s
  <2>2. g \in PlayState /\ g.pc = "poll_version" /\ Kept(s, g)
    BY <1>b, <1>c DEF Requests
  <2> HIDE DEF after, g
  <2>3. next \in PlayState
    BY <1>d, <2>2, PlayFields
  <2>4. next.pc = "poll_version" /\ Kept(g, next)
    BY <1>h, <2>2 DEF Kept
  <2> HIDE DEF next
  <2>5. Kept(s, next)
    BY <2>2, <2>4, KeptTwice
  <2>6. Kept(next, t) => Kept(s, t)
    BY <2>5, KeptTwice
  <2>7. QED
    BY <1>g, <2>1, <2>3, <2>4, <2>6
    DEF Outcome, AnsweredKept, Answered, d, s, t, after
<1>12. CASE PollVersion(p)
  <2>1. s.pc = "poll_version" /\ dev' \in {dev, d}
    BY <1>12 DEF PollVersion, At, d, s
  <2>2. Become(p, Goto(p, "gate_version")) \/ Become(p, Again(p))
    BY <1>12 DEF PollVersion
  <2>3. Goto(p, "gate_version").pc = "gate_version" /\ Kept(s, Goto(p, "gate_version"))
    BY <1>b, <1>c DEF Requests
  <2>4. t.pc \in {"gate_version", "poll_version", "failed"} /\ Kept(s, t)
    BY <1>e, <1>f, <2>1, <2>2, <2>3
  <2>5. s.pc \in Late /\ t.pc \in Late
    BY <2>1, <2>4 DEF Late, GateSteps, Ended
  <2>6. QED
    BY <2>1, <2>4, <2>5 DEF Outcome, Unheard, d, s, t
<1>13. CASE GateVersion(p)
  <2> DEFINE after == d
             g == Goto(p, "gate_failover")
             next == [g EXCEPT !.sawVersion = d.running]
  <2>1. s.pc = "gate_version" /\ Uri(p, after, next)
    BY <1>13 DEF GateVersion, At, d, s
  <2>2. g \in PlayState /\ g.pc = "gate_failover" /\ Kept(s, g)
    BY <1>b, <1>c DEF Requests
  <2> HIDE DEF after, g
  <2>3. next \in PlayState
    BY <1>d, <2>2, PlayFields
  <2>4. next.pc = "gate_failover" /\ Kept(g, next)
    BY <1>h, <2>2 DEF Kept
  <2> HIDE DEF next
  <2>5. Kept(s, next)
    BY <2>2, <2>4, KeptTwice
  <2>6. Kept(next, t) => Kept(s, t)
    BY <2>5, KeptTwice
  <2>7. QED
    BY <1>g, <2>1, <2>3, <2>4, <2>6
    DEF Outcome, Unheard, Late, FailoverSteps, GateSteps, Ended, d, s, t, after
<1>14. CASE GateFailover(p)
  <2> DEFINE after == d
             g == Goto(p, "gate_sync")
             next == [g EXCEPT !.sawHA = d.ha]
  <2>1. s.pc = "gate_failover" /\ Uri(p, after, next)
    BY <1>14 DEF GateFailover, At, d, s
  <2>2. g \in PlayState /\ g.pc = "gate_sync" /\ Kept(s, g)
    BY <1>b, <1>c DEF Requests
  <2> HIDE DEF after, g
  <2>3. next \in PlayState
    BY <1>d, <2>2, PlayFields
  <2>4. next.pc = "gate_sync" /\ Kept(g, next)
    BY <1>h, <2>2 DEF Kept
  <2> HIDE DEF next
  <2>5. Kept(s, next)
    BY <2>2, <2>4, KeptTwice
  <2>6. Kept(next, t) => Kept(s, t)
    BY <2>5, KeptTwice
  <2>7. QED
    BY <1>g, <2>1, <2>3, <2>4, <2>6
    DEF Outcome, Unheard, Late, FailoverSteps, GateSteps, Ended, d, s, t, after
<1>15. CASE GateSync(p)
  <2> DEFINE next == Either(HealthGate(p, d.sync), p, IF s.kind = "upgrade" THEN "post_version" ELSE "ok")
  <2>1. s.pc = "gate_sync" /\ Uri(p, d, next)
    BY <1>15 DEF GateSync, At, d, s
  <2>2. next \in PlayState /\ next.pc \in {"post_version", "ok", "failed"} /\ Kept(s, next)
    BY <1>b, <1>c DEF Either, Requests, Ended
  <2> HIDE DEF next
  <2>3. Kept(next, t) => Kept(s, t)
    BY <2>2, KeptTwice
  <2>4. QED
    BY <1>g, <2>1, <2>2, <2>3
    DEF Outcome, Unheard, Late, FailoverSteps, GateSteps, Ended, d, s, t
<1>16. CASE PostcheckVersion(p)
  <2> DEFINE next == Either(d.running = s.version, p, "plan")
  <2>1. s.pc = "post_version" /\ Uri(p, d, next)
    BY <1>16 DEF PostcheckVersion, At, d, s
  <2>2. next \in PlayState /\ next.pc \in {"plan", "failed"} /\ Kept(s, next)
    BY <1>b, <1>c DEF Either, Requests, Ended
  <2> HIDE DEF next
  <2>3. Kept(next, t) => Kept(s, t)
    BY <2>2, KeptTwice
  <2>4. QED
    BY <1>g, <2>1, <2>2, <2>3
    DEF Outcome, Unheard, Late, FailoverSteps, GateSteps, Ended, d, s, t
<1>17. CASE PostcheckPlan(p)
  <2> DEFINE next == Either("drift_postcheck" \notin dev.chaos, p, "ok")
  <2>1. s.pc = "plan" /\ Uri(p, d, next)
    BY <1>17 DEF PostcheckPlan, At, d, s
  <2>2. next \in PlayState /\ next.pc \in {"ok", "failed"} /\ Kept(s, next)
    BY <1>b, <1>c DEF Either, Requests, Ended
  <2> HIDE DEF next
  <2>3. Kept(next, t) => Kept(s, t)
    BY <2>2, KeptTwice
  <2>4. QED
    BY <1>g, <2>1, <2>2, <2>3
    DEF Outcome, Unheard, Late, FailoverSteps, GateSteps, Ended, d, s, t
<1>18. CASE FailoverStatus(p)
  <2> DEFINE next == Goto(p, IF d.ha = "ACTIVE" THEN "fo_trigger" ELSE "ok")
  <2>1. s.pc = "fo_status" /\ Uri(p, d, next)
    BY <1>18 DEF FailoverStatus, At, d, s
  <2>2. next \in PlayState /\ next.pc \in {"fo_trigger", "ok"} /\ Kept(s, next)
    BY <1>b, <1>c DEF Either, Requests, Ended
  <2> HIDE DEF next
  <2>3. Kept(next, t) => Kept(s, t)
    BY <2>2, KeptTwice
  <2>4. QED
    BY <1>g, <2>1, <2>2, <2>3
    DEF Outcome, Unheard, Late, FailoverSteps, GateSteps, Ended, d, s, t
<1>19. CASE FailoverTrigger(p)
  <2> DEFINE after == [d EXCEPT !.ha = IF @ = "ACTIVE" THEN "STANDBY" ELSE "ACTIVE"]
             next == Goto(p, "ok")
  <2>1. s.pc = "fo_trigger" /\ Uri(p, after, next)
    BY <1>19 DEF FailoverTrigger, At, d, s
  <2>2. next \in PlayState /\ next.pc = "ok" /\ Kept(s, next)
    BY <1>b, <1>c DEF Requests, Ended
  <2> HIDE DEF after, next
  <2>3. Kept(next, t) => Kept(s, t)
    BY <2>2, KeptTwice
  <2>4. QED
    BY <1>g, <2>1, <2>2, <2>3
    DEF Outcome, AnsweredKept, Answered, d, s, t, after
<1>20. CASE RollbackVolumes(p)
  <2> DEFINE v == InactiveVolume(d)
             g == Goto(p, "activate")
             h == [g EXCEPT !.volume = v]
             next == [h EXCEPT !.version = d.image[v]]
  <2>1. /\ s.pc = "rb_volumes"
        /\ \/ dev' = d /\ ~IsRebooting(d) /\ t = next
           \/ dev' \in {dev, d} /\ t = Again(p)
    BY <1>20, <1>f DEF RollbackVolumes, At, d, s
  <2>2. g \in PlayState /\ g.pc = "activate" /\ Kept(s, g)
    BY <1>b, <1>c DEF Requests
  <2> HIDE DEF g
  <2>3. h \in PlayState
    BY <1>d, <2>2, PlayFields
  <2>4. /\ h.pc = "activate" /\ h.volume = v
        /\ h.kind = s.kind /\ h.before = s.before /\ h.activated = s.activated
    BY <1>h, <2>2 DEF Kept
  <2> HIDE DEF h
  <2>5. /\ next.pc = "activate" /\ next.volume = v /\ next.version = d.image[v]
        /\ next.kind = s.kind /\ next.before = s.before /\ next.activated = s.activated
    BY <1>h, <2>3, <2>4
  <2> HIDE DEF next
  <2>6. CASE dev' = d /\ ~IsRebooting(d) /\ t = next
    BY <2>1, <2>5, <2>6 DEF Outcome, AnsweredRollback, Answered, d, s, t
  <2>7. CASE dev' \in {dev, d} /\ t = Again(p)
    BY <1>e, <2>1, <2>7 DEF Outcome, Unheard, Writing, d, s, t
  <2>8. QED
    BY <2>1, <2>6, <2>7
<1>21. QED
  BY <1>1, <1>2, <1>3, <1>4, <1>5, <1>6, <1>7, <1>8, <1>9, <1>10, <1>11, <1>12, <1>13, <1>14,
     <1>15, <1>16, <1>17, <1>18, <1>19, <1>20
  DEF Task, Preflight, ImageInstall, BootSwitch, Gate, Postcheck, Failover

----------------------------------------------------------------------------
(***************************************************************************)
(* What plays keep true of the device that never boot a volume which is    *)
(* being written.                                                          *)
(***************************************************************************)
Sound(d) ==
    /\ d \in Device /\ Quiet(d) /\ Installs(d) /\ Shielded(d)
    /\ \E v \in Volumes : d.active = {v}

\* No install is in progress; none is on a volume.
Settled(d) == \A i \in DOMAIN d.ops : d.ops[i].status # "in progress"

NoneOn(d, v) == \A i \in DOMAIN d.ops : d.ops[i].status = "in progress" => d.ops[i].volume # v

\* The newest of all installs is on volume v.
LastOn(d, v) == Len(d.ops) > 0 /\ d.ops[Len(d.ops)].volume = v

LEMMA SoundAdvance ==
    ASSUME NEW d, Sound(d)
    PROVE  /\ Sound(Advance(d)) /\ Sound(Elapse(d))
           /\ Len(Advance(d).ops) = Len(d.ops) /\ Len(Elapse(d).ops) = Len(d.ops)
<1>a. d \in Device
  BY DEF Sound
<1>1. Advance(d) \in Device /\ Elapse(d) \in Device
  BY <1>a, AdvanceType, ElapseType
<1>2. Advance(d).active = d.active /\ Elapse(d).active = d.active
  BY <1>a, AdvanceActive, ElapseActive
<1>3. Quiet(Advance(d)) /\ Quiet(Elapse(d))
  BY <1>a, NotRebooting, StaysQuiet DEF Sound
<1>4. Installs(Advance(d)) /\ Installs(Elapse(d))
  BY <1>a, InstallsKept DEF Sound
<1>5. Shielded(Advance(d)) /\ Shielded(Elapse(d))
  BY <1>a, ShieldedKept DEF Sound
<1>6. DOMAIN Advance(d).ops = DOMAIN d.ops /\ DOMAIN Elapse(d).ops = DOMAIN d.ops
  BY <1>a, SettledOps, ElapsedOps
<1>7. ASSUME NEW e \in Device, DOMAIN e.ops = DOMAIN d.ops PROVE Len(e.ops) = Len(d.ops)
  <2>1. e.ops \in Seq(Operation) /\ d.ops \in Seq(Operation)
    BY <1>a, OpTypes
  <2>2. QED
    BY <1>7, <2>1
<1>8. QED
  BY <1>1, <1>2, <1>3, <1>4, <1>5, <1>6, <1>7 DEF Sound

\* What leaves installs, tasks and the active volume alone leaves a device sound.
LEMMA SoundKept ==
    ASSUME NEW d, NEW e \in Device, Sound(d), e.ops = d.ops, e.image = d.image,
           e.active = d.active, e.doTasks = d.doTasks, e.as3Tasks = d.as3Tasks
    PROVE  Sound(e)
BY SameInstalls DEF Sound, Quiet, Shielded

\* An install into a volume that is not active leaves a device sound.
LEMMA SoundInstall ==
    ASSUME NEW d, Sound(d), NEW v \in Volumes, NEW version \in Versions, v \notin d.active
    PROVE  LET e == StartInstall(d, v, version)
           IN /\ Sound(e) /\ Len(e.ops) = Len(d.ops) + 1 /\ LastOn(e, v)
              /\ \A w : w # v /\ NoneOn(d, w) => NoneOn(e, w)
<1> DEFINE e == StartInstall(d, v, version)
           n == Len(d.ops)
           o == [volume |-> v, version |-> version, left |-> InstallTime,
                 willFail |-> "fail_next_install" \in d.chaos, status |-> "in progress"]
<1>a. d \in Device
  BY DEF Sound
<1>1. e \in Device /\ Installs(e) /\ Quiet(e)
  BY <1>a, StartInstallType, InstallsKept, StaysQuiet DEF Sound
<1>2. e.active = d.active
  BY <1>a DEF StartInstall, Device
<1>3. DOMAIN e.ops = 1..(n + 1) /\ (\A i \in DOMAIN d.ops : e.ops[i] = d.ops[i]) /\ e.ops[n + 1] = o
  BY <1>a, StartedOps
<1>4. n \in Nat /\ DOMAIN d.ops = 1..n
  BY <1>a, OpTypes
<1>5. o.volume = v
  OBVIOUS
<1>6. e.ops \in Seq(Operation)
  BY <1>1, OpTypes
<1> HIDE DEF e, n, o
<1>7. \A i \in 1..(n + 1) : i \in 1..n \/ i = n + 1
  BY <1>4
<1>8. \A i \in DOMAIN e.ops : (i \in DOMAIN d.ops /\ e.ops[i] = d.ops[i]) \/ e.ops[i] = o
  BY <1>3, <1>4, <1>7
<1>9. Shielded(e)
  BY <1>2, <1>5, <1>8 DEF Shielded, Sound
<1>10. \A w : w # v /\ NoneOn(d, w) => NoneOn(e, w)
  BY <1>5, <1>8 DEF NoneOn
<1>11. Len(e.ops) = n + 1
  BY <1>3, <1>4, <1>6
<1>12. LastOn(e, v)
  BY <1>3, <1>4, <1>5, <1>11 DEF LastOn
<1>13. QED
  BY <1>1, <1>2, <1>9, <1>10, <1>11, <1>12 DEF Sound, e, n

\* Activating a volume while no install is in progress leaves a device sound.
LEMMA SoundActivate ==
    ASSUME NEW d, Sound(d), Settled(d), NEW v \in Volumes
    PROVE  Sound(ActivateVolume(d, v))
<1> DEFINE e == ActivateVolume(d, v)
<1>1. /\ e \in Device /\ e.ops = d.ops /\ e.image = d.image /\ e.active = {v}
      /\ e.doTasks = d.doTasks /\ e.as3Tasks = d.as3Tasks
  BY ActivateVolumeType DEF ActivateVolume, Device, Sound
<1> HIDE DEF e
<1>2. Installs(e)
  BY <1>1, SameInstalls DEF Sound
<1>3. QED
  BY <1>1, <1>2 DEF Sound, Quiet, Shielded, Settled, e

\* Settling, and the clock, start no install and move none.
LEMMA InstallsPass ==
    ASSUME NEW d, Sound(d)
    PROVE  /\ \A v : LastOn(d, v) => LastOn(Advance(d), v) /\ LastOn(Elapse(d), v)
           /\ \A v : NoneOn(d, v) => NoneOn(Advance(d), v) /\ NoneOn(Elapse(d), v)
           /\ Settled(d) => Settled(Advance(d)) /\ Settled(Elapse(d))
<1>a. d \in Device
  BY DEF Sound
<1>1. /\ DOMAIN Advance(d).ops = DOMAIN d.ops
      /\ \A i \in DOMAIN d.ops :
           /\ Advance(d).ops[i].volume = d.ops[i].volume
           /\ Advance(d).ops[i].status = "in progress" => d.ops[i].status = "in progress"
  BY <1>a, SettledOps
<1>2. /\ DOMAIN Elapse(d).ops = DOMAIN d.ops
      /\ \A i \in DOMAIN d.ops :
           /\ Elapse(d).ops[i].volume = d.ops[i].volume
           /\ Elapse(d).ops[i].status = d.ops[i].status
  BY <1>a, ElapsedOps
<1>3. Len(Advance(d).ops) = Len(d.ops) /\ Len(Elapse(d).ops) = Len(d.ops)
  BY SoundAdvance
<1>4. Len(d.ops) > 0 => Len(d.ops) \in DOMAIN d.ops
  BY <1>a, OpTypes
<1>5. QED
  BY <1>1, <1>2, <1>3, <1>4 DEF LastOn, NoneOn, Settled

\* Settling leaves the image of a volume alone on which no install is in progress.
LEMMA ImageKept ==
    ASSUME NEW d, Sound(d), NEW v \in Volumes, NoneOn(d, v)
    PROVE  Advance(d).image[v] = d.image[v] /\ Elapse(d).image[v] = d.image[v]
<1>1. Installed(d, v) = {}
  BY DEF Installed, DueOps, NoneOn
<1>2. Advance(d).image[v] = d.image[v]
  BY <1>1, AdvanceImage DEF Sound
<1>3. Elapse(d).image = d.image
  BY ElapsedFields DEF Sound
<1>4. QED
  BY <1>2, <1>3

\* The active volume of a sound device, on which no install is in progress, and the
\* other one.
LEMMA SoundActive ==
    ASSUME NEW d, Sound(d)
    PROVE  /\ d.active = {ActiveVolume(d)} /\ ActiveVolume(d) \in Volumes
           /\ NoneOn(d, ActiveVolume(d))
           /\ InactiveVolume(d) \in Volumes \ d.active
<1>1. d.active = {ActiveVolume(d)} /\ InactiveVolume(d) \in Volumes \ d.active
  BY DEF Sound, ActiveVolume, InactiveVolume, Volumes
<1>2. QED
  BY <1>1, ActiveVolumeType DEF NoneOn, Shielded, Sound

\* The status of a volume is that of the newest of all installs if it is on it.
LEMMA LastIsNewest ==
    ASSUME NEW d, Sound(d), NEW v, LastOn(d, v)
    PROVE  /\ OpsOn(d, v) # {} /\ Newest(OpsOn(d, v)) = Len(d.ops)
           /\ VolumeStatus(d, v) = d.ops[Len(d.ops)].status
           /\ Len(d.ops) \in Nat /\ DOMAIN d.ops = 1..Len(d.ops) /\ Len(d.ops) > 0
<1> DEFINE n == Len(d.ops)
<1>a. d \in Device
  BY DEF Sound
<1>1. n \in Nat /\ DOMAIN d.ops = 1..n /\ n > 0 /\ d.ops[n].volume = v
  BY <1>a, OpTypes DEF LastOn
<1>2. n \in OpsOn(d, v)
  BY <1>1 DEF OpsOn
<1>3. Newest(OpsOn(d, v)) \in 1..n /\ n <= Newest(OpsOn(d, v))
  BY <1>a, <1>1, <1>2, NewestOp
<1> HIDE DEF n
<1>4. Newest(OpsOn(d, v)) = n
  BY <1>1, <1>3
<1>5. QED
  BY <1>1, <1>2, <1>4 DEF VolumeStatus, n

\* Once the newest of all installs is over, all are.
LEMMA LastSettles ==
    ASSUME NEW d, Sound(d), NEW v, LastOn(d, v), VolumeStatus(d, v) \in {"complete", "failed"}
    PROVE  Settled(d)
<1> DEFINE n == Len(d.ops)
<1>a. InOrder(d)
  BY DEF Sound, Installs
<1>1. n \in Nat /\ DOMAIN d.ops = 1..n /\ n > 0
  BY LastIsNewest
<1>2. d.ops[n].status \in {"complete", "failed"}
  BY LastIsNewest
<1> HIDE DEF n
<1>3. ASSUME NEW i \in DOMAIN d.ops, d.ops[i].status = "in progress" PROVE FALSE
  <2>1. i < n \/ i = n
    BY <1>1
  <2>2. n \in DOMAIN d.ops
    BY <1>1
  <2>3. QED
    BY <1>a, <1>2, <1>3, <2>1, <2>2 DEF InOrder
<1>4. QED
  BY <1>3 DEF Settled

----------------------------------------------------------------------------
(***************************************************************************)
(* Where a play is tells what is true of the device: an install goes to    *)
(* the volume that is not active, the poll waits for the newest of all     *)
(* installs, and the activation at the end of an upgrade finds none in     *)
(* progress.  A rollback installs nothing and waits for no install.        *)
(***************************************************************************)
BeforeUcs == {"idle", "version", "failover", "sync", "perf", "ucs"}

BeforeInstall == BeforeUcs \cup {"volumes", "image", "install"}

Route(s, d) ==
    /\ s.pc = "rb_volumes" => s.kind = "rollback"
    /\ s.kind = "rollback" /\ s.pc # "idle" => s.pc \notin BeforeInstall \cup {"poll_install"}
    /\ s.pc \in {"image", "install"} => s.volume \notin d.active
    /\ s.pc = "poll_install" => LastOn(d, s.volume)
    /\ s.pc = "activate" /\ s.kind # "rollback" => Settled(d)

\* Settling, and the clock, lead no play astray.
LEMMA RoutePasses ==
    ASSUME NEW s, NEW d, Sound(d), Route(s, d)
    PROVE  Route(s, Advance(d)) /\ Route(s, Elapse(d))
<1>1. Advance(d).active = d.active /\ Elapse(d).active = d.active
  BY AdvanceActive, ElapseActive DEF Sound
<1>2. QED
  BY <1>1, InstallsPass DEF Route

\* Every outcome leaves the device sound and the play on its route, if a volume is
\* activated while no install is in progress only.
LEMMA OutcomeRoute ==
    ASSUME TypeOK, NEW p \in Plays, Sound(dev), Route(play[p], dev), Outcome(p),
           play[p].pc = "activate" /\ play'[p].activated => Settled(dev)
    PROVE  Sound(dev') /\ Route(play'[p], dev')
<1> DEFINE d == Advance(dev)
           s == play[p]
           t == play'[p]
<1>a. Sound(d) /\ d \in Device /\ Route(s, d)
  BY SoundAdvance, RoutePasses DEF Sound
<1>b. s.volume \in Volumes /\ s.version \in Versions
  BY DEF TypeOK, PlayState
<1>c. s.pc = "activate" /\ t.activated => Settled(d)
  BY InstallsPass
<1> HIDE DEF d, s, t
<1> USE DEF BeforeInstall, BeforeUcs
<1>1. CASE Unheard(p, d)
  <2>1. Sound(dev') /\ Route(s, dev')
    BY <1>1, <1>a DEF Unheard, s
  <2>2. /\ t.kind = s.kind /\ t.volume = s.volume
        /\ \/ t.pc \in Late \cup {"failed"}
           \/ s.pc \in {"poll_install", "rb_volumes"} /\ t.pc = s.pc
    BY <1>1 DEF Unheard, Kept, s, t
  <2>3. QED
    BY <2>1, <2>2 DEF Route, Late, FailoverSteps, GateSteps, Ended, t
<1>2. CASE AnsweredFirst(p, d)
  <2>1. dev' = d /\ s.pc = "version" /\ t.pc \in {"failover", "failed"} /\ t.kind = s.kind
    BY <1>2 DEF AnsweredFirst, Answered, s, t
  <2>2. QED
    BY <1>a, <2>1 DEF Route, t
<1>3. CASE AnsweredVolumes(p, d)
  <2>1. /\ dev' = d /\ s.pc = "volumes" /\ t.pc \in {"image", "failed"} /\ t.kind = s.kind
        /\ t.volume = InactiveVolume(d)
    BY <1>3 DEF AnsweredVolumes, Answered, s, t
  <2>2. QED
    BY <1>a, <2>1, SoundActive DEF Route, t
<1>4. CASE AnsweredRollback(p, d)
  <2>1. dev' = d /\ s.pc = "rb_volumes" /\ t.pc \in {"activate", "failed"} /\ t.kind = s.kind
    BY <1>4 DEF AnsweredRollback, Answered, s, t
  <2>2. QED
    BY <1>a, <2>1 DEF Route, t
<1>5. CASE AnsweredActivate(p, d)
  <2>1. /\ s.pc = "activate" /\ dev' = ActivateVolume(d, s.volume)
        /\ t.pc \in {"reboot", "failed"} /\ t.activated
    BY <1>5 DEF AnsweredActivate, Answered, s, t
  <2>2. Sound(dev')
    BY <1>a, <1>b, <1>c, <2>1, SoundActivate
  <2>3. QED
    BY <2>1, <2>2 DEF Route, t
<1>6. CASE AnsweredKept(p, d)
  <2>a. t.volume = s.volume /\ t.kind = s.kind
    BY <1>6 DEF AnsweredKept, Kept, s, t
  <2>1. CASE Answered(p, d, {"failover", "sync", "perf"}, d, {"sync", "perf", "ucs"})
    <3>1. /\ s.pc \in {"failover", "sync", "perf"} /\ dev' = d
          /\ t.pc \in {"sync", "perf", "ucs", "failed"}
      BY <2>1 DEF Answered, s, t
    <3>2. QED
      BY <1>a, <2>a, <3>1 DEF Route, t
  <2>2. CASE Answered(p, d, {"ucs"}, [d EXCEPT !.backups = @ + 1], {"volumes"})
    <3> DEFINE e == [d EXCEPT !.backups = d.backups + 1]
    <3>1. s.pc = "ucs" /\ dev' = e /\ t.pc \in {"volumes", "failed"}
      BY <2>2 DEF Answered, s, t
    <3>2. d.backups + 1 \in Nat
      BY <1>a DEF Device
    <3>3. /\ e \in Device /\ e.ops = d.ops /\ e.image = d.image /\ e.active = d.active
          /\ e.doTasks = d.doTasks /\ e.as3Tasks = d.as3Tasks
      BY <1>a, <3>2 DEF Device
    <3> HIDE DEF e
    <3>4. Sound(dev')
      BY <1>a, <3>1, <3>3, SoundKept
    <3>5. QED
      BY <1>a, <2>a, <3>1, <3>4 DEF Route, t
  <2>3. CASE Answered(p, d, {"image"}, d, {"install"})
    <3>1. s.pc = "image" /\ dev' = d /\ t.pc \in {"install", "failed"}
      BY <2>3 DEF Answered, s, t
    <3>2. QED
      BY <1>a, <2>a, <3>1 DEF Route, t
  <2>4. CASE Answered(p, d, {"install"}, StartInstall(d, s.volume, s.version), {"poll_install"})
    <3>1. /\ s.pc = "install" /\ dev' = StartInstall(d, s.volume, s.version)
          /\ t.pc \in {"poll_install", "failed"}
      BY <2>4 DEF Answered, s, t
    <3>2. s.volume \notin d.active
      BY <1>a, <3>1 DEF Route
    <3>3. Sound(dev') /\ LastOn(dev', s.volume)
      BY <1>a, <1>b, <3>1, <3>2, SoundInstall
    <3>4. QED
      BY <1>a, <2>a, <3>1, <3>3 DEF Route, t
  <2>5. CASE /\ Answered(p, d, {"poll_install"}, d, {"activate"})
             /\ VolumeStatus(d, s.volume) = "complete"
    <3>1. s.pc = "poll_install" /\ dev' = d /\ t.pc \in {"activate", "failed"}
      BY <2>5 DEF Answered, s, t
    <3>2. LastOn(d, s.volume)
      BY <1>a, <3>1 DEF Route
    <3>3. Settled(d)
      BY <1>a, <2>5, <3>2, LastSettles
    <3>4. QED
      BY <1>a, <3>1, <3>3 DEF Route, t
  <2>6. CASE Answered(p, d, {"reboot"}, StartReboot(d), {"poll_version"})
    <3>1. dev' = StartReboot(d) /\ t.pc \in {"poll_version", "failed"}
      BY <2>6 DEF Answered, t
    <3>2. /\ dev' \in Device /\ dev'.ops = d.ops /\ dev'.image = d.image
          /\ dev'.active = d.active /\ dev'.doTasks = d.doTasks /\ dev'.as3Tasks = d.as3Tasks
      BY <1>a, <3>1, StartRebootType DEF StartReboot, Device
    <3>3. Sound(dev')
      BY <1>a, <3>2, SoundKept
    <3>4. QED
      BY <3>1, <3>3 DEF Route, t
  <2>7. CASE Answered(p, d, {"fo_trigger"},
                      [d EXCEPT !.ha = IF @ = "ACTIVE" THEN "STANDBY" ELSE "ACTIVE"], {"ok"})
    <3> DEFINE h == IF d.ha = "ACTIVE" THEN "STANDBY" ELSE "ACTIVE"
               e == [d EXCEPT !.ha = h]
    <3>1. dev' = e /\ t.pc \in {"ok", "failed"}
      BY <2>7 DEF Answered, t
    <3>2. h \in HAStates
      BY DEF HAStates
    <3> HIDE DEF h
    <3>3. /\ e \in Device /\ e.ops = d.ops /\ e.image = d.image /\ e.active = d.active
          /\ e.doTasks = d.doTasks /\ e.as3Tasks = d.as3Tasks
      BY <1>a, <3>2 DEF Device
    <3> HIDE DEF e
    <3>4. Sound(dev')
      BY <1>a, <3>1, <3>3, SoundKept
    <3>5. QED
      BY <3>1, <3>4 DEF Route, t
  <2>8. QED
    BY <1>6, <2>1, <2>2, <2>3, <2>4, <2>5, <2>6, <2>7 DEF AnsweredKept, s
<1>7. QED
  BY <1>1, <1>2, <1>3, <1>4, <1>5, <1>6 DEF Outcome, d

----------------------------------------------------------------------------
(***************************************************************************)
(* A play takes at most one archive and starts at most one install: of the *)
(* plays up to p, those before it only, until p has done so itself.        *)
(***************************************************************************)
NoInstallYet(s) == s.pc \in BeforeInstall \/ (s.kind = "rollback" /\ s.pc \in Requests)

Counted ==
    \A p \in Plays : /\ play[p].pc \in BeforeUcs => dev.backups < p
                     /\ NoInstallYet(play[p]) => Len(dev.ops) < p

\* What each outcome adds to the archives and to the installs.
LEMMA OutcomeCounts ==
    ASSUME TypeOK, NEW p \in Plays, Sound(dev), Route(play[p], dev), Outcome(p)
    PROVE  /\ play'[p].pc \in BeforeUcs => play[p].pc \in BeforeUcs
           /\ play'[p].pc \in BeforeInstall => play[p].pc \in BeforeInstall
           /\ \/ dev'.backups = dev.backups
              \/ /\ play[p].pc \in BeforeUcs /\ play'[p].pc \notin BeforeUcs
                 /\ dev'.backups = dev.backups + 1
           /\ \/ Len(dev'.ops) = Len(dev.ops)
              \/ /\ play[p].pc \in BeforeInstall /\ play'[p].pc \notin BeforeInstall
                 /\ Len(dev'.ops) = Len(dev.ops) + 1
<1> DEFINE d == Advance(dev)
           s == play[p]
           t == play'[p]
           goal == /\ t.pc \in BeforeUcs => s.pc \in BeforeUcs
                   /\ t.pc \in BeforeInstall => s.pc \in BeforeInstall
                   /\ \/ dev'.backups = dev.backups
                      \/ /\ s.pc \in BeforeUcs /\ t.pc \notin BeforeUcs
                         /\ dev'.backups = dev.backups + 1
                   /\ \/ Len(dev'.ops) = Len(dev.ops)
                      \/ /\ s.pc \in BeforeInstall /\ t.pc \notin BeforeInstall
                         /\ Len(dev'.ops) = Len(dev.ops) + 1
<1>a. Sound(d) /\ d \in Device /\ Route(s, d) /\ Len(d.ops) = Len(dev.ops)
  BY SoundAdvance, RoutePasses DEF Sound
<1>b. d.backups = dev.backups
  BY QuietAdvance DEF Sound
<1>c. s.volume \in Volumes /\ s.version \in Versions
  BY DEF TypeOK, PlayState
<1>d. ASSUME dev'.backups = d.backups, dev'.ops = d.ops
      PROVE  dev'.backups = dev.backups /\ Len(dev'.ops) = Len(dev.ops)
  BY <1>a, <1>b, <1>d
<1> HIDE DEF d, s, t
<1> SUFFICES goal
  BY DEF s, t
<1>1. CASE Unheard(p, d)
  <2>1. dev'.backups = dev.backups /\ Len(dev'.ops) = Len(dev.ops)
    BY <1>1, <1>a, <1>b DEF Unheard
  <2>2. t.pc \in Late \cup {"failed", "poll_install", "rb_volumes"}
    BY <1>1 DEF Unheard, t
  <2>3. t.pc \notin BeforeInstall
    BY <2>2 DEF Late, FailoverSteps, GateSteps, Ended, BeforeInstall, BeforeUcs
  <2>4. QED
    BY <2>1, <2>3 DEF BeforeInstall
<1>2. CASE AnsweredFirst(p, d)
  <2>1. dev' = d /\ s.pc = "version"
    BY <1>2 DEF AnsweredFirst, Answered, s
  <2>2. QED
    BY <1>d, <2>1 DEF BeforeInstall, BeforeUcs
<1>3. CASE AnsweredVolumes(p, d)
  <2>1. dev' = d /\ s.pc = "volumes" /\ t.pc \in {"image", "failed"}
    BY <1>3 DEF AnsweredVolumes, Answered, s, t
  <2>2. QED
    BY <1>d, <2>1 DEF BeforeInstall, BeforeUcs
<1>4. CASE AnsweredRollback(p, d)
  <2>1. dev' = d /\ t.pc \in {"activate", "failed"}
    BY <1>4 DEF AnsweredRollback, Answered, t
  <2>2. QED
    BY <1>d, <2>1 DEF BeforeInstall, BeforeUcs
<1>5. CASE AnsweredActivate(p, d)
  <2>1. dev' = ActivateVolume(d, s.volume) /\ t.pc \in {"reboot", "failed"}
    BY <1>5 DEF AnsweredActivate, Answered, s, t
  <2>2. dev'.backups = d.backups /\ dev'.ops = d.ops
    BY <1>a, <2>1 DEF ActivateVolume, Device
  <2>3. QED
    BY <1>d, <2>1, <2>2 DEF BeforeInstall, BeforeUcs
<1>6. CASE AnsweredKept(p, d)
  <2>1. CASE Answered(p, d, {"failover", "sync", "perf"}, d, {"sync", "perf", "ucs"})
    <3>1. dev' = d /\ s.pc \in {"failover", "sync", "perf"}
      BY <2>1 DEF Answered, s
    <3>2. QED
      BY <1>d, <3>1 DEF BeforeInstall, BeforeUcs
  <2>2. CASE Answered(p, d, {"ucs"}, [d EXCEPT !.backups = @ + 1], {"volumes"})
    <3>1. /\ s.pc = "ucs" /\ dev' = [d EXCEPT !.backups = d.backups + 1]
          /\ t.pc \in {"volumes", "failed"}
      BY <2>2 DEF Answered, s, t
    <3>2. dev'.backups = d.backups + 1 /\ dev'.ops = d.ops
      BY <1>a, <3>1 DEF Device
    <3>3. QED
      BY <1>a, <1>b, <3>1, <3>2 DEF BeforeInstall, BeforeUcs
  <2>3. CASE Answered(p, d, {"image"}, d, {"install"})
    <3>1. s.pc = "image" /\ dev' = d /\ t.pc \in {"install", "failed"}
      BY <2>3 DEF Answered, s, t
    <3>2. QED
      BY <1>d, <3>1 DEF BeforeInstall, BeforeUcs
  <2>4. CASE Answered(p, d, {"install"}, StartInstall(d, s.volume, s.version), {"poll_install"})
    <3>1. /\ s.pc = "install" /\ dev' = StartInstall(d, s.volume, s.version)
          /\ t.pc \in {"poll_install", "failed"}
      BY <2>4 DEF Answered, s, t
    <3>2. s.volume \notin d.active
      BY <1>a, <3>1 DEF Route
    <3>3. Len(dev'.ops) = Len(d.ops) + 1
      BY <1>a, <1>c, <3>1, <3>2, SoundInstall
    <3>4. dev'.backups = d.backups
      BY <1>a, <3>1 DEF StartInstall, Device
    <3>5. QED
      BY <1>a, <1>b, <3>1, <3>3, <3>4 DEF BeforeInstall, BeforeUcs
  <2>5. CASE Answered(p, d, {"poll_install"}, d, {"activate"})
    <3>1. dev' = d /\ t.pc \in {"activate", "failed"}
      BY <2>5 DEF Answered, t
    <3>2. QED
      BY <1>d, <3>1 DEF BeforeInstall, BeforeUcs
  <2>6. CASE Answered(p, d, {"reboot"}, StartReboot(d), {"poll_version"})
    <3>1. dev' = StartReboot(d) /\ t.pc \in {"poll_version", "failed"}
      BY <2>6 DEF Answered, t
    <3>2. dev'.backups = d.backups /\ dev'.ops = d.ops
      BY <1>a, <3>1 DEF StartReboot, Device
    <3>3. QED
      BY <1>d, <3>1, <3>2 DEF BeforeInstall, BeforeUcs
  <2>7. CASE Answered(p, d, {"fo_trigger"},
                      [d EXCEPT !.ha = IF @ = "ACTIVE" THEN "STANDBY" ELSE "ACTIVE"], {"ok"})
    <3> DEFINE h == IF d.ha = "ACTIVE" THEN "STANDBY" ELSE "ACTIVE"
    <3>1. dev' = [d EXCEPT !.ha = h] /\ t.pc \in {"ok", "failed"}
      BY <2>7 DEF Answered, t
    <3> HIDE DEF h
    <3>2. dev'.backups = d.backups /\ dev'.ops = d.ops
      BY <1>a, <3>1 DEF Device
    <3>3. QED
      BY <1>d, <3>1, <3>2 DEF BeforeInstall, BeforeUcs
  <2>8. QED
    BY <1>6, <2>1, <2>2, <2>3, <2>4, <2>5, <2>6, <2>7 DEF AnsweredKept, s
<1>7. QED
  BY <1>1, <1>2, <1>3, <1>4, <1>5, <1>6 DEF Outcome, d

----------------------------------------------------------------------------
(***************************************************************************)
(* The operators of the device are the same in MockDevice as here.         *)
(***************************************************************************)
\* Its helpers.
LEMMA SameHelpers ==
    ASSUME NEW d
    PROVE  /\ Mock!SettleInstalls(d) = SettleInstalls(d)
           /\ Mock!SettleReboot(d) = SettleReboot(d)
           /\ Mock!SettleDo(d) = SettleDo(d)
           /\ Mock!SettleAs3(d) = SettleAs3(d)
           /\ Mock!TimersRunning(d) = TimersRunning(d)
           /\ Mock!IsRebooting(d) = IsRebooting(d)
<1>1. \A I : Mock!Newest(I) = Newest(I)
  BY DEF Mock!Newest, Newest
<1>2. Mock!SettleInstalls(d) = SettleInstalls(d)
  BY <1>1 DEF Mock!SettleInstalls, Mock!DueOps, Mock!Installed, Mock!Volumes,
              SettleInstalls, DueOps, Installed, Volumes
<1>3. Mock!SettleReboot(d) = SettleReboot(d)
  BY DEF Mock!SettleReboot, Mock!Boot, Mock!ActiveVolume, Mock!NoReboot,
         SettleReboot, Boot, ActiveVolume, NoReboot
<1>4. Mock!SettleDo(d) = SettleDo(d)
  BY <1>1 DEF Mock!SettleDo, Mock!DueDo, Mock!AppliedDo, SettleDo, DueDo, AppliedDo
<1>5. Mock!SettleAs3(d) = SettleAs3(d)
  BY <1>1 DEF Mock!SettleAs3, Mock!DueAs3, Mock!AppliedAs3, SettleAs3, DueAs3, AppliedAs3
<1>6. Mock!TimersRunning(d) = TimersRunning(d) /\ Mock!IsRebooting(d) = IsRebooting(d)
  BY DEF Mock!TimersRunning, TimersRunning, Mock!IsRebooting, IsRebooting
<1>7. QED
  BY <1>2, <1>3, <1>4, <1>5, <1>6

\* Its operations.
LEMMA SameOperations ==
    ASSUME NEW d
    PROVE  /\ Mock!Advance(d) = Advance(d)
           /\ Mock!Elapse(d) = Elapse(d)
           /\ Mock!StartReboot(d) = StartReboot(d)
           /\ \A v : Mock!ActivateVolume(d, v) = ActivateVolume(d, v)
           /\ \A v, version : Mock!StartInstall(d, v, version) = StartInstall(d, v, version)
           /\ Mock!Fresh = Fresh
<1>1. Mock!Advance(d) = Advance(d)
  BY SameHelpers DEF Mock!Advance, Advance
<1>2. Mock!Elapse(d) = Elapse(d)
  BY DEF Mock!Elapse, Mock!Less, Elapse, Less
<1>3. Mock!StartReboot(d) = StartReboot(d)
  BY DEF Mock!StartReboot, StartReboot
<1>4. \A v : Mock!ActivateVolume(d, v) = ActivateVolume(d, v)
  BY DEF Mock!ActivateVolume, ActivateVolume
<1>5. \A v, version : Mock!StartInstall(d, v, version) = StartInstall(d, v, version)
  BY DEF Mock!StartInstall, StartInstall
<1>6. Mock!Fresh = Fresh
  BY DEF Mock!Fresh, Mock!FreshWith, Mock!Volumes, Mock!NoReboot, Fresh, FreshWith, Volumes, NoReboot
<1>7. QED
  BY <1>1, <1>2, <1>3, <1>4, <1>5, <1>6

\* Every outcome is a step of the device under role clients.
LEMMA OutcomeMock ==
    ASSUME TypeOK, NEW p \in Plays, Sound(dev), Route(play[p], dev), Counted, Outcome(p),
           play[p].pc = "activate" /\ play'[p].activated => Settled(dev)
    PROVE  Mock!Next \/ dev' = dev
<1> DEFINE d == Advance(dev)
           s == play[p]
<1>a. Sound(d) /\ Route(s, d) /\ d.backups = dev.backups /\ Len(d.ops) = Len(dev.ops)
  BY SoundAdvance, RoutePasses, QuietAdvance DEF Sound
<1>b. s.volume \in Volumes /\ s.version \in Versions
  BY DEF TypeOK, PlayState
<1>c. /\ Mock!Advance(dev) = d /\ Mock!StartReboot(d) = StartReboot(d)
      /\ Mock!IsRebooting(d) = IsRebooting(d)
      /\ \A v : Mock!ActivateVolume(d, v) = ActivateVolume(d, v)
      /\ \A v, version : Mock!StartInstall(d, v, version) = StartInstall(d, v, version)
  BY SameOperations, SameHelpers
<1>d. Mock!Volumes = Volumes
  BY DEF Mock!Volumes, Volumes
<1>e. /\ p \in Nat /\ p <= Cardinality(Plays) /\ Cardinality(Plays) \in Nat
      /\ d.backups \in Nat /\ Len(d.ops) \in Nat
  <2>1. p \in Nat /\ p <= Cardinality(Plays) /\ Cardinality(Plays) \in Nat
    BY PlayNumbers
  <2>2. d.backups \in Nat
    BY <1>a DEF Sound, Device
  <2>3. Len(d.ops) \in Nat
    BY <1>a, OpTypes DEF Sound
  <2>4. QED
    BY <2>1, <2>2, <2>3
<1> HIDE DEF d, s
<1>1. dev' = d => Mock!Next
  BY <1>c DEF Mock!Next, Mock!Handler, Mock!Query
<1>2. CASE Answered(p, d, {"ucs"}, [d EXCEPT !.backups = @ + 1], {"volumes"})
  <2>1. s.pc = "ucs" /\ ~IsRebooting(d) /\ dev' = [d EXCEPT !.backups = @ + 1]
    BY <1>2 DEF Answered, s
  <2>2. dev.backups < p
    BY <2>1 DEF Counted, BeforeUcs, s
  <2>3. d.backups < Cardinality(Plays)
    BY <1>a, <1>e, <2>2
  <2>4. QED
    BY <1>c, <2>1, <2>3 DEF Mock!Next, Mock!Handler, Mock!SysUcs, Mock!Admitted
<1>3. CASE Answered(p, d, {"install"}, StartInstall(d, s.volume, s.version), {"poll_install"})
  <2>1. s.pc = "install" /\ ~IsRebooting(d) /\ dev' = StartInstall(d, s.volume, s.version)
    BY <1>3 DEF Answered, s
  <2>2. Len(dev.ops) < p
    BY <2>1 DEF Counted, NoInstallYet, BeforeInstall, s
  <2>3. Len(d.ops) < Cardinality(Plays)
    BY <1>a, <1>e, <2>2
  <2>4. s.volume \notin d.active
    BY <1>a, <2>1 DEF Route
  <2>5. Mock!VolumeInstall(s.volume, s.version)
    BY <1>c, <2>1, <2>3, <2>4 DEF Mock!VolumeInstall, Mock!Admitted, Mock!MayInstall
  <2>6. QED
    BY <1>b, <1>d, <2>5 DEF Mock!Next, Mock!Handler
<1>4. CASE AnsweredActivate(p, d)
  <2>1. /\ s.pc = "activate" /\ ~IsRebooting(d) /\ dev' = ActivateVolume(d, s.volume)
        /\ play'[p].activated
    BY <1>4 DEF AnsweredActivate, Answered, s
  <2>2. Settled(d)
    BY <2>1, InstallsPass DEF s, d
  <2>3. Mock!VolumePatch(s.volume)
    BY <1>c, <2>1, <2>2 DEF Mock!VolumePatch, Mock!Admitted, Mock!MayActivate, Settled
  <2>4. QED
    BY <1>b, <1>d, <2>3 DEF Mock!Next, Mock!Handler
<1>5. CASE Answered(p, d, {"reboot"}, StartReboot(d), {"poll_version"})
  BY <1>5, <1>c DEF Answered, Mock!Next, Mock!Handler, Mock!UtilBashReboot, Mock!Admitted
<1>6. CASE Answered(p, d, {"fo_trigger"},
                    [d EXCEPT !.ha = IF @ = "ACTIVE" THEN "STANDBY" ELSE "ACTIVE"], {"ok"})
  BY <1>6, <1>c DEF Answered, Mock!Next, Mock!Handler, Mock!SysFailover, Mock!Admitted
<1>7. \/ dev' \in {dev, d}
      \/ Answered(p, d, {"ucs"}, [d EXCEPT !.backups = @ + 1], {"volumes"})
      \/ Answered(p, d, {"install"}, StartInstall(d, s.volume, s.version), {"poll_install"})
      \/ AnsweredActivate(p, d)
      \/ Answered(p, d, {"reboot"}, StartReboot(d), {"poll_version"})
      \/ Answered(p, d, {"fo_trigger"},
                  [d EXCEPT !.ha = IF @ = "ACTIVE" THEN "STANDBY" ELSE "ACTIVE"], {"ok"})
  <2>1. \A from, to : Answered(p, d, from, d, to) => dev' = d
    BY DEF Answered
  <2>2. QED
    BY <2>1 DEF Outcome, Unheard, AnsweredFirst, AnsweredVolumes, AnsweredRollback, AnsweredKept, d, s
<1>8. QED
  BY <1>1, <1>2, <1>3, <1>4, <1>5, <1>6, <1>7

----------------------------------------------------------------------------
(***************************************************************************)
(* The way back of an upgrade: the volume the device ran from holds what   *)
(* it held, nothing is written to it, and until the play has chosen its    *)
(* target it is the active one, so the target is the other.  Once the play *)
(* has flipped the boot volume it is not active, so that a rollback takes  *)
(* it; a rollback that still asks for the volumes changes none of this.    *)
(***************************************************************************)
Targeting == {"image", "install", "poll_install", "activate"}

Way(s, d) ==
    /\ d.image[s.before.volume] = s.before.image
    /\ NoneOn(d, s.before.volume)
    /\ s.pc \in Early => s.before.volume \in d.active
    /\ s.pc \in Targeting => s.volume # s.before.volume
    /\ s.pc \in Early \cup Targeting => ~s.activated
    /\ s.activated => s.before.volume \notin d.active

Upgrading(p) ==
    /\ play[p].kind = "upgrade" /\ play[p].pc # "idle"
    /\ \A q \in Plays : q > p => play[q].pc \in {"idle", "rb_volumes"}

WaysBack == \A p \in Plays : Upgrading(p) => Way(play[p], dev)

\* Settling, and the clock, touch no way back.
LEMMA WayPasses ==
    ASSUME NEW s, NEW d, Sound(d), s.before.volume \in Volumes, Way(s, d)
    PROVE  Way(s, Advance(d)) /\ Way(s, Elapse(d))
<1>1. Advance(d).active = d.active /\ Elapse(d).active = d.active
  BY AdvanceActive, ElapseActive DEF Sound
<1>2. QED
  BY <1>1, ImageKept, InstallsPass DEF Way

\* What a play begins with is its way back.
LEMMA WayBegins ==
    ASSUME NEW s, NEW d, Sound(d), s.before = Boots(d), s.pc \notin Targeting,
           ~s.activated
    PROVE  Way(s, d)
<1>1. s.before.volume = ActiveVolume(d) /\ s.before.image = d.image[ActiveVolume(d)]
  BY DEF Boots
<1>2. QED
  BY <1>1, SoundActive DEF Way

\* What leaves installs, images and the active volume alone touches no way back.
LEMMA WayKept ==
    ASSUME NEW s, NEW t, NEW d, NEW e, Way(s, d), Kept(s, t), e.image = d.image, e.ops = d.ops,
           e.active = d.active, t.pc = s.pc \/ t.pc \notin Early \cup Targeting
    PROVE  Way(t, e)
BY DEF Way, Kept, NoneOn

\* No outcome touches the way back of its play.
LEMMA OutcomeWay ==
    ASSUME TypeOK, NEW p \in Plays, Sound(dev), Route(play[p], dev), Way(play[p], dev), Outcome(p),
           play[p].kind # "rollback"
    PROVE  Way(play'[p], dev')
<1> DEFINE d == Advance(dev)
           s == play[p]
           t == play'[p]
<1>a. s.volume \in Volumes /\ s.version \in Versions /\ s.before.volume \in Volumes
  BY DEF TypeOK, PlayState
<1>b. Sound(d) /\ d \in Device /\ Route(s, d) /\ Way(s, d)
  BY <1>a, SoundAdvance, RoutePasses, WayPasses DEF Sound
<1> HIDE DEF d, s, t
<1> SUFFICES Way(t, dev')
  BY DEF t
<1>1. CASE Unheard(p, d)
  <2>1. dev' \in {dev, d} /\ Kept(s, t) /\ (t.pc \in Late \cup {"failed"} \/ t.pc = s.pc)
    BY <1>1 DEF Unheard, s, t
  <2>2. t.pc = s.pc \/ t.pc \notin Early \cup Targeting
    BY <2>1 DEF Late, FailoverSteps, GateSteps, Ended, Early, Targeting
  <2>3. Way(s, dev')
    BY <1>b, <2>1 DEF s
  <2>4. QED
    BY <2>1, <2>2, <2>3, WayKept
<1>2. CASE AnsweredFirst(p, d)
  <2>1. /\ dev' = d /\ s.pc = "version" /\ t.pc \in {"failover", "failed"}
        /\ t.before = Boots(d) /\ t.activated = s.activated
    BY <1>2 DEF AnsweredFirst, Answered, s, t
  <2>2. ~t.activated /\ t.pc \notin Targeting
    BY <1>b, <2>1 DEF Way, Early, Targeting
  <2>3. QED
    BY <1>b, <2>1, <2>2, WayBegins
<1>3. CASE AnsweredVolumes(p, d)
  <2>1. /\ s.pc = "volumes" /\ dev' = d /\ t.pc \in {"image", "failed"}
        /\ t.before = s.before /\ t.volume = InactiveVolume(d) /\ t.activated = s.activated
    BY <1>3 DEF AnsweredVolumes, Answered, s, t
  <2>2. s.before.volume \in d.active
    BY <1>b, <2>1 DEF Way, Early
  <2>3. t.volume # s.before.volume
    BY <1>b, <2>1, <2>2, SoundActive
  <2>4. QED
    BY <1>b, <2>1, <2>3 DEF Way, Early, Targeting
<1>4. CASE AnsweredRollback(p, d)
  BY <1>4, <1>b DEF AnsweredRollback, Answered, Route, s
<1>5. CASE AnsweredActivate(p, d)
  <2>1. /\ s.pc = "activate" /\ t.pc \in {"reboot", "failed"} /\ t.before = s.before
        /\ dev' = ActivateVolume(d, s.volume)
    BY <1>5 DEF AnsweredActivate, Answered, s, t
  <2>2. dev'.image = d.image /\ dev'.ops = d.ops /\ dev'.active = {s.volume}
    BY <1>b, <2>1 DEF ActivateVolume, Device
  <2>3. s.volume # s.before.volume
    BY <1>b, <2>1 DEF Way, Targeting
  <2>4. QED
    BY <1>b, <2>1, <2>2, <2>3 DEF Way, NoneOn, Early, Targeting
<1>6. CASE AnsweredKept(p, d)
  <2>a. Kept(s, t)
    BY <1>6 DEF AnsweredKept, s, t
  <2>1. CASE Answered(p, d, {"failover", "sync", "perf"}, d, {"sync", "perf", "ucs"})
    <3>1. /\ s.pc \in {"failover", "sync", "perf"} /\ dev' = d
          /\ t.pc \in {"sync", "perf", "ucs", "failed"}
      BY <2>1 DEF Answered, s, t
    <3>2. QED
      BY <1>b, <2>a, <3>1 DEF Way, Kept, Early, Targeting
  <2>2. CASE Answered(p, d, {"ucs"}, [d EXCEPT !.backups = @ + 1], {"volumes"})
    <3>1. /\ s.pc = "ucs" /\ dev' = [d EXCEPT !.backups = d.backups + 1]
          /\ t.pc \in {"volumes", "failed"}
      BY <2>2 DEF Answered, s, t
    <3>2. dev'.image = d.image /\ dev'.ops = d.ops /\ dev'.active = d.active
      BY <1>b, <3>1 DEF Device
    <3>3. QED
      BY <1>b, <2>a, <3>1, <3>2 DEF Way, Kept, Early, Targeting, NoneOn
  <2>3. CASE Answered(p, d, {"image"}, d, {"install"})
    <3>1. s.pc = "image" /\ dev' = d /\ t.pc \in {"install", "failed"}
      BY <2>3 DEF Answered, s, t
    <3>2. QED
      BY <1>b, <2>a, <3>1 DEF Way, Kept, Early, Targeting
  <2>4. CASE Answered(p, d, {"install"}, StartInstall(d, s.volume, s.version), {"poll_install"})
    <3>1. /\ s.pc = "install" /\ dev' = StartInstall(d, s.volume, s.version)
          /\ t.pc \in {"poll_install", "failed"}
      BY <2>4 DEF Answered, s, t
    <3>2. s.volume \notin d.active /\ s.before.volume # s.volume
      BY <1>b, <3>1 DEF Route, Way, Targeting
    <3>3. NoneOn(dev', s.before.volume)
      BY <1>a, <1>b, <3>1, <3>2, SoundInstall DEF Way
    <3>4. dev'.image = d.image
      BY <1>a, <1>b, <3>1, StartedOps
    <3>5. QED
      BY <1>b, <2>a, <3>1, <3>3, <3>4 DEF Way, Kept, Early, Targeting
  <2>5. CASE Answered(p, d, {"poll_install"}, d, {"activate"})
    <3>1. s.pc = "poll_install" /\ dev' = d /\ t.pc \in {"activate", "failed"}
      BY <2>5 DEF Answered, s, t
    <3>2. QED
      BY <1>b, <2>a, <3>1 DEF Way, Kept, Early, Targeting
  <2>6. CASE Answered(p, d, {"reboot"}, StartReboot(d), {"poll_version"})
    <3>1. dev' = StartReboot(d) /\ t.pc \in {"poll_version", "failed"}
      BY <2>6 DEF Answered, t
    <3>2. dev'.image = d.image /\ dev'.ops = d.ops /\ dev'.active = d.active
      BY <1>b, <3>1 DEF StartReboot, Device
    <3>3. QED
      BY <1>b, <2>a, <3>1, <3>2, WayKept DEF Early, Targeting
  <2>7. CASE Answered(p, d, {"fo_trigger"},
                      [d EXCEPT !.ha = IF @ = "ACTIVE" THEN "STANDBY" ELSE "ACTIVE"], {"ok"})
    <3> DEFINE h == IF d.ha = "ACTIVE" THEN "STANDBY" ELSE "ACTIVE"
    <3>1. dev' = [d EXCEPT !.ha = h] /\ t.pc \in {"ok", "failed"}
      BY <2>7 DEF Answered, t
    <3> HIDE DEF h
    <3>2. dev'.image = d.image /\ dev'.ops = d.ops /\ dev'.active = d.active
      BY <1>b, <3>1 DEF Device
    <3>3. QED
      BY <1>b, <2>a, <3>1, <3>2, WayKept DEF Early, Targeting
  <2>8. QED
    BY <1>6, <2>1, <2>2, <2>3, <2>4, <2>5, <2>6, <2>7 DEF AnsweredKept, s
<1>7. QED
  BY <1>1, <1>2, <1>3, <1>4, <1>5, <1>6 DEF Outcome, d

----------------------------------------------------------------------------
(***************************************************************************)
(* When the poll budget covers the install time and no request gets lost,  *)
(* an upgrade gives up polling only once its install is over, so that      *)
(* whatever is launched next, a rollback too, finds none in progress.      *)
(***************************************************************************)
Patient == ~Lossy /\ InstallTime <= InstallRetries * PollDelay

Answering == (Early \ {"version"}) \cup Targeting \cup {"reboot"}

InProgress(d) == {i \in DOMAIN d.ops : d.ops[i].status = "in progress"}

Waits(s, d) ==
    /\ s.pc \in Answering => d.reboot = NoReboot
    /\ s.pc = "poll_install" =>
         \A i \in InProgress(d) : d.ops[i].left <= s.tries * PollDelay + s.sleep

Patience ==
    /\ \A p \in Plays : Waits(play[p], dev)
    /\ Settled(dev) \/ \E p \in Plays : play[p].pc = "poll_install"

\* Settling, and the clock, on the installs in progress: what has run out is over.
LEMMA InProgressPasses ==
    ASSUME NEW d \in Device
    PROVE  /\ Settled(d) <=> InProgress(d) = {}
           /\ \A i \in InProgress(d) : d.ops[i].left \in Nat
           /\ InProgress(Advance(d)) = {i \in InProgress(d) : d.ops[i].left # 0}
           /\ \A i \in InProgress(d) : Advance(d).ops[i].left = d.ops[i].left
           /\ InProgress(Elapse(d)) = InProgress(d)
           /\ \A i \in InProgress(d) : Elapse(d).ops[i].left = Less(d.ops[i].left)
<1>1. Settled(d) <=> InProgress(d) = {}
  BY DEF Settled, InProgress
<1>2. \A i \in DOMAIN d.ops : d.ops[i].left \in Nat
  BY OpTypes
<1>3. InProgress(Advance(d)) = {i \in InProgress(d) : d.ops[i].left # 0}
  <2>1. ASSUME NEW i \in DOMAIN d.ops
        PROVE  Advance(d).ops[i].status = "in progress"
                 <=> d.ops[i].status = "in progress" /\ i \notin DueOps(d)
    <3>1. i \in DueOps(d) => Advance(d).ops[i].status \in {"failed", "complete"}
      BY SettledOps
    <3>2. i \notin DueOps(d) => Advance(d).ops[i].status = d.ops[i].status
      BY SettledOps
    <3>3. QED
      BY <3>1, <3>2
  <2>2. DOMAIN Advance(d).ops = DOMAIN d.ops
    BY SettledOps
  <2>3. QED
    BY <2>1, <2>2 DEF InProgress, DueOps
<1>4. InProgress(Elapse(d)) = InProgress(d)
  BY ElapsedOps DEF InProgress
<1>5. \A i \in InProgress(d) : i \in DOMAIN d.ops
  BY DEF InProgress
<1>6. QED
  BY <1>1, <1>2, <1>3, <1>4, <1>5, SettledOps, ElapsedOps

\* How a play begins.
LEMMA LaunchFields ==
    ASSUME TypeOK, NEW p \in Plays, NEW kind \in Kinds, NEW target \in Targets,
           Launch(p, kind, target)
    PROVE  /\ play'[p].kind = kind /\ play'[p].before = Boots(dev) /\ ~play'[p].activated
           /\ play'[p].pc \in {"version", "rb_volumes", "fo_status"}
           /\ play'[p].pc = "version" <=> kind = "upgrade"
           /\ play'[p].pc = "rb_volumes" <=> kind = "rollback"
<1> DEFINE pc == CASE kind = "upgrade" -> "version"
                   [] kind = "rollback" -> "rb_volumes"
                   [] kind = "failover" -> "fo_status"
           tries == IF kind = "rollback" THEN BootRetries ELSE 0
<1>1. kind \in {"upgrade", "rollback", "failover"}
  BY PlaysAssumption
<1>2. pc \in {"version", "rb_volumes", "fo_status"} /\ (pc = "version" <=> kind = "upgrade")
      /\ (pc = "rb_volumes" <=> kind = "rollback")
  BY <1>1
<1>3. play'[p] = [Idle EXCEPT !.kind = kind, !.version = target, !.before = Boots(dev),
                              !.tries = tries, !.pc = pc]
  BY DEF Launch, Become, TypeOK
<1>4. ~Idle.activated
  BY DEF Idle
<1> HIDE DEF pc, tries
<1>5. QED
  BY <1>2, <1>3, <1>4, IdleType DEF PlayState

\* The clock and a chaos flag leave a play where it is.
LEMMA ClockFields ==
    ASSUME TypeOK, NEW p \in Plays, Tick \/ \E flag \in Injected : Inject(flag)
    PROVE  /\ play'[p].pc = play[p].pc /\ Kept(play[p], play'[p])
           /\ play'[p].tries = play[p].tries
<1>1. play[p] \in PlayState
  BY DEF TypeOK
<1>2. QED
  BY <1>1 DEF Tick, Inject, PlayState, Kept

\* A device that answers takes the play where it should go if nothing gets lost.
LEMMA UriAnswers ==
    ASSUME TypeOK, Quiet(dev), ~Lossy, dev.reboot = NoReboot,
           NEW p \in Plays, NEW after, NEW next, Uri(p, after, next)
    PROVE  dev' = after /\ play'[p] = next
<1>1. ~IsRebooting(Advance(dev))
  BY NotRebooting DEF TypeOK, IsRebooting, NoReboot
<1>2. QED
  BY <1>1 DEF Uri, Become, TypeOK

\* One attempt less and its pause make up for one another.
LEMMA OneAttempt ==
    ASSUME NEW tries \in Nat
    PROVE  /\ tries * PollDelay \in Nat /\ 0 * PollDelay = 0
           /\ tries > 0 => (tries - 1) * PollDelay + PollDelay = tries * PollDelay
BY PlaysAssumption

\* What another attempt does to the loop.
LEMMA AgainCounts ==
    ASSUME TypeOK, NEW p \in Plays, play[p].sleep = 0
    PROVE  LET t == Again(p)
           IN \/ t.pc = "failed" /\ play[p].tries = 0
              \/ /\ t.pc = play[p].pc /\ play[p].tries > 0
                 /\ t.tries * PollDelay + t.sleep = play[p].tries * PollDelay
                 /\ t.version = play[p].version /\ t.volume = play[p].volume
<1>1. play[p] \in PlayState /\ play[p].tries \in Nat
  BY DEF TypeOK, PlayState
<1>2. CASE play[p].tries = 0
  BY <1>1, <1>2 DEF Again, Goto, PlayState
<1>3. CASE play[p].tries # 0
  <2>1. /\ Again(p).pc = play[p].pc /\ Again(p).tries = play[p].tries - 1
        /\ Again(p).sleep = PollDelay /\ Again(p).version = play[p].version
        /\ Again(p).volume = play[p].volume
    BY <1>1, <1>3 DEF Again, PlayState
  <2>2. play[p].tries > 0
    BY <1>1, <1>3
  <2>3. QED
    BY <1>1, <2>1, <2>2, OneAttempt
<1>4. QED
  BY <1>2, <1>3

\* The install is the only one in progress, and the poll outlasts it.
LEMMA InstallWaits ==
    ASSUME TypeOK, Sound(dev), Settled(dev), Patient, NEW p \in Plays, Waits(play[p], dev),
           KickOffInstall(p)
    PROVE  Waits(play'[p], dev') /\ play'[p].pc = "poll_install"
<1> DEFINE d == Advance(dev)
           s == play[p]
           t == play'[p]
           n == Len(d.ops)
<1>a. s \in PlayState /\ s.volume \in Volumes /\ s.version \in Versions
  BY DEF TypeOK, PlayState
<1>b. d \in Device /\ Sound(d) /\ Settled(d)
  BY SoundAdvance, InstallsPass DEF Sound
<1>1. s.pc = "install" /\ s.sleep = 0 /\ dev.reboot = NoReboot
  BY DEF KickOffInstall, At, Waits, Answering, Targeting
<1>2. /\ dev' = StartInstall(d, s.volume, s.version)
      /\ t = [Goto(p, "poll_install") EXCEPT !.tries = InstallRetries]
  BY <1>1, UriAnswers DEF KickOffInstall, Sound, Patient
<1>3. t.pc = "poll_install" /\ t.tries = InstallRetries /\ t.sleep = 0
  BY <1>a, <1>1, <1>2 DEF Goto, PlayState
<1>4. d.reboot = NoReboot
  BY <1>1, NotRebooting DEF Sound
<1> HIDE DEF d, s, t
<1>5. dev'.reboot = NoReboot
  BY <1>b, <1>2, <1>4 DEF StartInstall, Device
<1>6. n \in Nat /\ DOMAIN d.ops = 1..n
  BY <1>b, OpTypes
<1>7. /\ DOMAIN dev'.ops = 1..(n + 1) /\ \A j \in DOMAIN d.ops : dev'.ops[j] = d.ops[j]
      /\ dev'.ops[n + 1].left = InstallTime
  <2>1. \A left : [volume |-> s.volume, version |-> s.version, left |-> left,
                   willFail |-> "fail_next_install" \in d.chaos,
                   status |-> "in progress"].left = left
    OBVIOUS
  <2>2. QED
    BY <1>a, <1>b, <1>2, <2>1, StartedOps
<1>8. ASSUME NEW i \in InProgress(dev') PROVE dev'.ops[i].left <= InstallRetries * PollDelay
  <2>1. i \in DOMAIN dev'.ops /\ (i \in DOMAIN d.ops => i \in InProgress(d))
    BY <1>7 DEF InProgress
  <2>2. i \notin DOMAIN d.ops
    BY <1>b, <2>1, InProgressPasses
  <2>3. i = n + 1
    BY <1>6, <1>7, <2>1, <2>2
  <2>4. QED
    BY <1>7, <2>3 DEF Patient
<1>9. InstallRetries * PollDelay + 0 = InstallRetries * PollDelay
  BY OneAttempt, PlaysAssumption
<1>10. QED
  BY <1>3, <1>5, <1>8, <1>9 DEF Waits, t

\* The poll ends, one way or another, only once no install is in progress.
LEMMA PollWaits ==
    ASSUME TypeOK, Sound(dev), ~Lossy, NEW p \in Plays, Waits(play[p], dev),
           Route(play[p], dev), PollInstall(p)
    PROVE  Waits(play'[p], dev') /\ (Settled(dev') \/ play'[p].pc = "poll_install")
<1> DEFINE d == Advance(dev)
           s == play[p]
           t == play'[p]
           status == VolumeStatus(d, s.volume)
           budget == s.tries * PollDelay
<1>a. s \in PlayState /\ s.volume \in Volumes /\ s.tries \in Nat /\ budget \in Nat
  BY OneAttempt DEF TypeOK, PlayState
<1>b. d \in Device /\ Sound(d) /\ Route(s, d) /\ dev \in Device
  BY SoundAdvance, RoutePasses DEF Sound
<1>1. s.pc = "poll_install" /\ s.sleep = 0 /\ dev.reboot = NoReboot
  BY DEF PollInstall, At, Waits, Answering, Targeting
<1>2. /\ dev' = d
      /\ t = CASE status = "complete"    -> Goto(p, "activate")
               [] status = "failed"      -> Goto(p, "failed")
               [] status = "in progress" -> Again(p)
  BY <1>1, UriAnswers DEF PollInstall, Sound
<1>3. d.reboot = NoReboot
  BY <1>1, NotRebooting DEF Sound
<1>4. LastOn(d, s.volume)
  BY <1>b, <1>1 DEF Route
<1>5. status \in {"complete", "failed", "in progress"}
  BY <1>a, <1>b, StatusType
<1>6. ASSUME NEW i \in InProgress(d)
      PROVE  d.ops[i].left > 0 /\ d.ops[i].left <= budget
  <2>1. /\ i \in InProgress(dev) /\ dev.ops[i].left \in Nat /\ dev.ops[i].left # 0
        /\ d.ops[i].left = dev.ops[i].left
    BY <1>b, InProgressPasses
  <2>2. dev.ops[i].left <= budget + 0
    BY <1>1, <2>1 DEF Waits
  <2>3. QED
    BY <1>a, <2>1, <2>2
<1>7. Goto(p, "activate").pc = "activate" /\ Goto(p, "failed").pc = "failed"
  BY <1>a DEF Goto, PlayState
<1>8. \/ Again(p).pc = "failed" /\ s.tries = 0
      \/ /\ Again(p).pc = "poll_install"
         /\ Again(p).tries * PollDelay + Again(p).sleep = budget
  BY <1>1, AgainCounts
<1> HIDE DEF d, t, status
<1>9. CASE status \in {"complete", "failed"}
  <2>1. Settled(dev')
    BY <1>b, <1>2, <1>4, <1>9, LastSettles DEF status
  <2>2. t.pc \in {"activate", "failed"}
    BY <1>2, <1>7, <1>9
  <2>3. QED
    BY <1>2, <1>3, <2>1, <2>2 DEF Waits, t
<1>10. CASE status = "in progress"
  <2>1. t = Again(p)
    BY <1>2, <1>10
  <2>2. CASE t.pc = "failed" /\ s.tries = 0
    <3>1. budget = 0
      BY <2>2, OneAttempt
    <3>2. \A i \in InProgress(d) : d.ops[i].left \in Nat
      BY <1>b, InProgressPasses
    <3>3. Settled(d)
      BY <1>b, <1>6, <3>1, <3>2, InProgressPasses
    <3>4. QED
      BY <1>2, <2>2, <3>3 DEF Waits, Answering, Early, Targeting, t
  <2>3. CASE t.pc = "poll_install" /\ t.tries * PollDelay + t.sleep = budget
    BY <1>2, <1>3, <1>6, <2>3 DEF Waits, t
  <2>4. QED
    BY <1>8, <2>1, <2>2, <2>3
<1>11. QED
  BY <1>5, <1>9, <1>10

\* No other task starts an install, and only the end of a play, or its reboot, leaves
\* it without an answer.
LEMMA OutcomePatience ==
    ASSUME TypeOK, Sound(dev), Settled(dev), NEW p \in Plays, Waits(play[p], dev), Outcome(p),
           play[p].pc \notin {"install", "poll_install"}
    PROVE  Waits(play'[p], dev') /\ Settled(dev')
<1> DEFINE d == Advance(dev)
           s == play[p]
           t == play'[p]
           silent == t.pc \notin Answering
           answers == dev'.reboot = NoReboot /\ t.pc # "poll_install"
<1>a. d \in Device /\ Settled(d) /\ (~IsRebooting(d) => d.reboot = NoReboot)
  BY SoundAdvance, InstallsPass, NotRebooting DEF Sound
<1>b. s.pc # "install" /\ s.pc # "poll_install"
  OBVIOUS
<1>c. "poll_install" \in Answering
  BY DEF Answering, Targeting
<1>d. ASSUME silent \/ answers, dev'.ops = dev.ops \/ dev'.ops = d.ops
      PROVE  Waits(t, dev') /\ Settled(dev')
  BY <1>a, <1>c, <1>d DEF Waits, Settled, InProgress
<1> HIDE DEF d, s, t
<1> SUFFICES Waits(t, dev') /\ Settled(dev')
  BY DEF t
<1>1. CASE Unheard(p, d)
  <2>1. dev' \in {dev, d} /\ t.pc \in Late \cup {"failed", "rb_volumes"}
    BY <1>1, <1>b DEF Unheard, s, t
  <2>2. silent
    BY <2>1 DEF Late, FailoverSteps, GateSteps, Ended, Answering, Early, Targeting
  <2>3. QED
    BY <1>d, <2>1, <2>2
<1>2. CASE AnsweredFirst(p, d)
  <2>1. dev' = d /\ ~IsRebooting(d) /\ t.pc \in {"failover", "failed"}
    BY <1>2 DEF AnsweredFirst, Answered, t
  <2>2. QED
    BY <1>a, <1>d, <2>1
<1>3. CASE AnsweredVolumes(p, d)
  <2>1. dev' = d /\ ~IsRebooting(d) /\ t.pc \in {"image", "failed"}
    BY <1>3 DEF AnsweredVolumes, Answered, t
  <2>2. QED
    BY <1>a, <1>d, <2>1
<1>4. CASE AnsweredRollback(p, d)
  <2>1. dev' = d /\ ~IsRebooting(d) /\ t.pc \in {"activate", "failed"}
    BY <1>4 DEF AnsweredRollback, Answered, t
  <2>2. QED
    BY <1>a, <1>d, <2>1
<1>5. CASE AnsweredActivate(p, d)
  <2>1. dev' = ActivateVolume(d, s.volume) /\ ~IsRebooting(d) /\ t.pc \in {"reboot", "failed"}
    BY <1>5 DEF AnsweredActivate, Answered, s, t
  <2>2. dev'.reboot = d.reboot /\ dev'.ops = d.ops
    BY <1>a, <2>1 DEF ActivateVolume, Device
  <2>3. QED
    BY <1>a, <1>d, <2>1, <2>2
<1>6. CASE AnsweredKept(p, d)
  <2>1. CASE Answered(p, d, {"failover", "sync", "perf"}, d, {"sync", "perf", "ucs"})
    <3>1. dev' = d /\ ~IsRebooting(d) /\ t.pc \in {"sync", "perf", "ucs", "failed"}
      BY <2>1 DEF Answered, t
    <3>2. QED
      BY <1>a, <1>d, <3>1
  <2>2. CASE Answered(p, d, {"ucs"}, [d EXCEPT !.backups = @ + 1], {"volumes"})
    <3>1. /\ ~IsRebooting(d) /\ dev' = [d EXCEPT !.backups = d.backups + 1]
          /\ t.pc \in {"volumes", "failed"}
      BY <2>2 DEF Answered, t
    <3>2. dev'.reboot = d.reboot /\ dev'.ops = d.ops
      BY <1>a, <3>1 DEF Device
    <3>3. QED
      BY <1>a, <1>d, <3>1, <3>2
  <2>3. CASE Answered(p, d, {"image"}, d, {"install"})
    <3>1. dev' = d /\ ~IsRebooting(d) /\ t.pc \in {"install", "failed"}
      BY <2>3 DEF Answered, t
    <3>2. QED
      BY <1>a, <1>d, <3>1
  <2>4. CASE Answered(p, d, {"reboot"}, StartReboot(d), {"poll_version"})
    <3>1. dev' = StartReboot(d) /\ t.pc \in {"poll_version", "failed"}
      BY <2>4 DEF Answered, t
    <3>2. dev'.ops = d.ops
      BY <1>a, <3>1 DEF StartReboot, Device
    <3>3. silent
      BY <3>1 DEF Answering, Early, Targeting
    <3>4. QED
      BY <1>d, <3>2, <3>3
  <2>5. CASE Answered(p, d, {"fo_trigger"},
                      [d EXCEPT !.ha = IF @ = "ACTIVE" THEN "STANDBY" ELSE "ACTIVE"], {"ok"})
    <3> DEFINE h == IF d.ha = "ACTIVE" THEN "STANDBY" ELSE "ACTIVE"
    <3>1. dev' = [d EXCEPT !.ha = h] /\ t.pc \in {"ok", "failed"}
      BY <2>5 DEF Answered, t
    <3> HIDE DEF h
    <3>2. dev'.ops = d.ops
      BY <1>a, <3>1 DEF Device
    <3>3. silent
      BY <3>1 DEF Answering, Early, Targeting
    <3>4. QED
      BY <1>d, <3>2, <3>3
  <2>6. QED
    <3>1. ~Answered(p, d, {"install"}, StartInstall(d, s.volume, s.version), {"poll_install"})
      BY <1>b DEF Answered, s
    <3>2. ~Answered(p, d, {"poll_install"}, d, {"activate"})
      BY <1>b DEF Answered, s
    <3>3. QED
      BY <1>6, <2>1, <2>2, <2>3, <2>4, <2>5, <3>1, <3>2 DEF AnsweredKept, s
<1>7. QED
  BY <1>1, <1>2, <1>3, <1>4, <1>5, <1>6 DEF Outcome, d

\* A second, or a chaos flag, makes no play wait longer than it can.
LEMMA ClockPatience ==
    ASSUME TypeOK, Sound(dev), NEW p \in Plays, Waits(play[p], dev),
           Tick \/ \E flag \in Injected : Inject(flag)
    PROVE  Waits(play'[p], dev') /\ (Settled(dev) => Settled(dev'))
<1> DEFINE s == play[p]
           t == play'[p]
           budget == s.tries * PollDelay
<1>a. dev \in Device /\ Elapse(dev) \in Device
  BY ElapseType DEF Sound
<1>b. s \in PlayState /\ s.sleep \in Nat /\ budget \in Nat
  BY OneAttempt DEF TypeOK, PlayState
<1>c. t.pc = s.pc /\ t.tries = s.tries
  BY ClockFields
<1>1. CASE Tick
  <2>1. dev' = Elapse(dev) /\ t.sleep = Less(s.sleep)
    BY <1>1, <1>b DEF Tick, PlayState
  <2>2. dev'.reboot = Less(dev.reboot)
    BY <2>1, ElapsedFields DEF Sound
  <2>3. dev.reboot = NoReboot => dev'.reboot = NoReboot
    BY <2>2 DEF Less, NoReboot
  <2>4. /\ InProgress(dev') = InProgress(dev)
        /\ \A i \in InProgress(dev) : /\ dev.ops[i].left \in Nat
                                      /\ dev'.ops[i].left = Less(dev.ops[i].left)
    BY <1>a, <2>1, InProgressPasses
  <2>5. Settled(dev) => Settled(dev')
    BY <1>a, <2>1, InstallsPass
  <2> HIDE DEF s, t, budget
  <2>6. \A n \in Nat : n <= budget + s.sleep => Less(n) <= budget + Less(s.sleep)
    BY <1>b DEF Less
  <2>7. \A i \in InProgress(dev') :
           dev.ops[i].left <= budget + s.sleep => dev'.ops[i].left <= budget + Less(s.sleep)
    BY <2>4, <2>6
  <2>8. Waits(s, dev)
    BY DEF s
  <2>9. Waits(t, dev')
    BY <1>c, <2>1, <2>3, <2>4, <2>7, <2>8 DEF Waits, budget
  <2>10. QED
    BY <2>5, <2>9 DEF t
<1>2. CASE \E flag \in Injected : Inject(flag)
  <2>1. dev'.ops = dev.ops /\ dev'.reboot = dev.reboot /\ t = s
    BY <1>2, <1>a DEF Inject, Device
  <2>2. QED
    BY <2>1 DEF Waits, Settled, InProgress
<1>3. QED
  BY <1>1, <1>2

\* So plays that take turns are patient.
LEMMA PatienceStep ==
    ASSUME TypeOK, Serial, Turns, Patient, Sound(dev), \A p \in Plays : Route(play[p], dev),
           Patience, [Next]_vars
    PROVE  Patience'
<1>a. \A p \in Plays : p \in Int
  BY PlayNumbers
<1>1. ASSUME NEW p \in Plays, NEW kind \in Kinds, NEW target \in Targets, Launch(p, kind, target)
      PROVE  Patience'
  <2>1. dev' = dev /\ play[p].pc = "idle" /\ \A q \in Plays : q # p => play'[q] = play[q]
    BY <1>1, LaunchMoves
  <2>2. play'[p].pc \in {"version", "rb_volumes", "fo_status"}
    BY <1>1, LaunchFields
  <2>3. Waits(play'[p], dev')
    BY <2>2 DEF Waits, Answering, Early, Targeting
  <2>4. \A q \in Plays : play[q].pc = "poll_install" => play'[q].pc = "poll_install"
    BY <2>1
  <2>5. QED
    BY <2>1, <2>3, <2>4 DEF Patience
<1>2. ASSUME NEW p \in Plays, Task(p) PROVE Patience'
  <2>1. play[p].pc \in Requests /\ \A q \in Plays : q # p => play'[q] = play[q]
    BY <1>2, TaskMoves
  <2>2. \A q \in Plays : q # p => play[q].pc \in Ended \cup {"idle"}
    BY <1>a, <2>1, OthersAreAside
  <2>3. play[p].pc # "poll_install" => Settled(dev)
    BY <2>2 DEF Patience, Ended
  <2>4. Waits(play[p], dev)
    BY DEF Patience
  <2>5. Waits(play'[p], dev') /\ (Settled(dev') \/ play'[p].pc = "poll_install")
    <3>1. play[p].pc = "install" => KickOffInstall(p)
      BY <1>2 DEF Task, Preflight, ImageInstall, BootSwitch, Gate, Postcheck, Failover, At,
         PreflightVersion, PreflightFailover, PreflightSync, PreflightPerf, Backup,
         DiscoverVolume, RegisterImage, KickOffInstall, PollInstall, Activate, Reboot,
         PollVersion, GateVersion, GateFailover, GateSync, PostcheckVersion, PostcheckPlan,
         RollbackVolumes, FailoverStatus, FailoverTrigger
    <3>2. play[p].pc = "poll_install" => PollInstall(p)
      BY <1>2 DEF Task, Preflight, ImageInstall, BootSwitch, Gate, Postcheck, Failover, At,
         PreflightVersion, PreflightFailover, PreflightSync, PreflightPerf, Backup,
         DiscoverVolume, RegisterImage, KickOffInstall, PollInstall, Activate, Reboot,
         PollVersion, GateVersion, GateFailover, GateSync, PostcheckVersion, PostcheckPlan,
         RollbackVolumes, FailoverStatus, FailoverTrigger
    <3>3. CASE play[p].pc = "install"
      BY <2>3, <2>4, <3>1, <3>3, InstallWaits
    <3>4. CASE play[p].pc = "poll_install"
      BY <2>4, <3>2, <3>4, PollWaits DEF Patient
    <3>5. CASE play[p].pc \notin {"install", "poll_install"}
      BY <1>2, <2>3, <2>4, <3>5, TaskOutcome, OutcomePatience
    <3>6. QED
      BY <3>3, <3>4, <3>5
  <2>6. \A s, d : s.pc \in Ended \cup {"idle"} => Waits(s, d)
    BY DEF Waits, Ended, Answering, Early, Targeting
  <2>7. \A q \in Plays : Waits(play'[q], dev')
    BY <2>1, <2>2, <2>5, <2>6
  <2>8. QED
    BY <2>5, <2>7 DEF Patience
<1>3. CASE Tick \/ \E flag \in Injected : Inject(flag)
  <2>1. \A q \in Plays : Waits(play'[q], dev') /\ (Settled(dev) => Settled(dev'))
    BY <1>3, ClockPatience DEF Patience
  <2>2. \A q \in Plays : play'[q].pc = play[q].pc
    BY <1>3, ClockFields
  <2>3. Settled(dev) => Settled(dev')
    <3>1. CASE Tick
      BY <3>1, InstallsPass DEF Tick
    <3>2. CASE \E flag \in Injected : Inject(flag)
      <4>1. dev'.ops = dev.ops
        BY <3>2 DEF Inject, Sound, Device
      <4>2. QED
        BY <4>1 DEF Settled
    <3>3. QED
      BY <1>3, <3>1, <3>2
  <2>4. QED
    BY <2>1, <2>2, <2>3 DEF Patience
<1>4. CASE UNCHANGED vars
  BY <1>4 DEF vars, Patience
<1>5. QED
  BY <1>1, <1>2, <1>3, <1>4 DEF Next

LEMMA PatienceInit == Init => Patience
<1>1. Idle.pc = "idle" /\ Fresh.ops = << >>
  BY DEF Idle, Fresh, FreshWith
<1>2. DOMAIN Fresh.ops = {}
  BY <1>1
<1>3. Settled(Fresh)
  BY <1>2 DEF Settled
<1>4. QED
  BY <1>1, <1>3 DEF Init, Patience, Waits, Answering, Early, Targeting

----------------------------------------------------------------------------
(***************************************************************************)
(* The invariant of plays one after the other.  It breaks where a rollback *)
(* boots a volume that is being written: when an upgrade before it gave up *)
(* the poll, or lost the answer to the request that started the install,   *)
(* and the install goes on.  Until a rollback flips the boot volume all is *)
(* calm, and so it stays when plays are patient, or when the rollback is   *)
(* the first play of all and finds no install.                             *)
(***************************************************************************)
Disciplined ==
    /\ Sound(dev)
    /\ \A p \in Plays : Route(play[p], dev)
    /\ Counted
    /\ WaysBack

Flipped(p) == play[p].kind = "rollback" /\ play[p].pc # "idle" /\ play[p].activated

Calm == Patient \/ \A p \in Plays : Flipped(p) => p = 1

\* A play that is over, or has not begun, is on no route.
LEMMA AsideRoute ==
    ASSUME NEW s, NEW d, s.pc \in Ended \cup {"idle"}
    PROVE  Route(s, d)
BY DEF Route, Ended, BeforeInstall, BeforeUcs

\* What no task undoes; a rollback that still asks for the volumes has changed nothing.
LEMMA OutcomeKeeps ==
    ASSUME NEW p \in Plays, play[p].pc # "idle", Outcome(p)
    PROVE  /\ play'[p].kind = play[p].kind
           /\ play'[p].pc \notin {"idle", "version"}
           /\ play[p].activated => play'[p].activated
           /\ play'[p].pc = "rb_volumes" =>
                /\ play[p].pc = "rb_volumes" /\ dev' \in {dev, Advance(dev)}
                /\ play'[p].activated = play[p].activated
           /\ play[p].pc # "version" => play'[p].before = play[p].before
           /\ play[p].pc # "rb_volumes" => play'[p].version = play[p].version
<1> DEFINE d == Advance(dev)
           s == play[p]
           t == play'[p]
<1> HIDE DEF d, s, t
<1> USE DEF Late, FailoverSteps, GateSteps, Ended
<1>1. CASE Unheard(p, d)
  <2>1. /\ dev' \in {dev, d} /\ Kept(s, t)
        /\ t.pc = "failed" \/ (s.pc \in {"poll_install", "rb_volumes"} /\ t.pc = s.pc) \/ t.pc \in Late
    BY <1>1 DEF Unheard, s, t
  <2>2. QED
    BY <2>1 DEF Kept, d, s, t
<1>2. CASE AnsweredFirst(p, d)
  BY <1>2 DEF AnsweredFirst, Answered
<1>3. CASE AnsweredVolumes(p, d)
  BY <1>3 DEF AnsweredVolumes, Answered
<1>4. CASE AnsweredRollback(p, d)
  BY <1>4 DEF AnsweredRollback, Answered
<1>5. CASE AnsweredActivate(p, d)
  BY <1>5 DEF AnsweredActivate, Answered
<1>6. CASE AnsweredKept(p, d)
  <2>1. Kept(s, t)
    BY <1>6 DEF AnsweredKept, s, t
  <2>2. t.pc \in {"sync", "perf", "ucs", "volumes", "install", "poll_install", "activate",
                  "poll_version", "ok", "failed"}
    BY <1>6 DEF AnsweredKept, Answered, t
  <2>3. QED
    BY <2>1, <2>2 DEF Kept, s, t
<1>7. QED
  BY <1>1, <1>2, <1>3, <1>4, <1>5, <1>6 DEF Outcome, d

\* A task keeps the discipline, and is a step of the device under role clients, if it
\* activates a volume while no install is in progress only.
LEMMA TaskDisciplined ==
    ASSUME TypeOK, Turns, Disciplined, NEW p \in Plays, Task(p),
           play[p].pc = "activate" /\ play'[p].activated => Settled(dev)
    PROVE  Disciplined' /\ (Mock!Next \/ dev' = dev)
<1>a. Sound(dev) /\ Route(play[p], dev) /\ Counted
  BY DEF Disciplined
<1>b. /\ play[p].pc \in Requests /\ play[p].pc # "idle"
      /\ \A q \in Plays : q # p => play'[q] = play[q]
  BY TaskMoves DEF Requests
<1>c. /\ \A q \in Plays : q < p => play[q].pc \in Ended
      /\ \A q \in Plays : p < q => play[q].pc = "idle"
  BY <1>b, OthersAreAside
<1>d. Outcome(p)
  BY TaskOutcome
<1>e. \A q \in Plays : q \in Nat
  BY PlayNumbers
<1>f. dev.backups \in Nat /\ Len(dev.ops) \in Nat
  BY OpTypes DEF TypeOK, Device
<1>g. play'[p].kind = play[p].kind
  BY <1>b, <1>d, OutcomeKeeps
<1>1. Sound(dev') /\ Route(play'[p], dev')
  BY <1>a, <1>d, OutcomeRoute
<1>2. \A q \in Plays : Route(play'[q], dev')
  BY <1>1, <1>b, <1>c, <1>e, AsideRoute
<1>3. /\ play'[p].pc \in BeforeUcs => play[p].pc \in BeforeUcs
      /\ play'[p].pc \in BeforeInstall => play[p].pc \in BeforeInstall
      /\ \/ dev'.backups = dev.backups
         \/ /\ play[p].pc \in BeforeUcs /\ play'[p].pc \notin BeforeUcs
            /\ dev'.backups = dev.backups + 1
      /\ \/ Len(dev'.ops) = Len(dev.ops)
         \/ /\ play[p].pc \in BeforeInstall /\ play'[p].pc \notin BeforeInstall
            /\ Len(dev'.ops) = Len(dev.ops) + 1
  BY <1>a, <1>d, OutcomeCounts
<1>4. NoInstallYet(play'[p]) => NoInstallYet(play[p]) /\ Len(dev'.ops) = Len(dev.ops)
  <2>1. play[p].kind = "rollback" => play[p].pc \notin BeforeInstall
    BY <1>a, <1>b DEF Route
  <2>2. QED
    BY <1>3, <1>b, <1>g, <2>1 DEF NoInstallYet
<1>5. ASSUME NEW q \in Plays
      PROVE  /\ play'[q].pc \in BeforeUcs => dev'.backups < q
             /\ NoInstallYet(play'[q]) => Len(dev'.ops) < q
  <2>1. CASE q = p
    BY <1>a, <1>3, <1>4, <2>1 DEF Counted
  <2>2. CASE q < p
    <3>1. play'[q].pc \in Ended
      BY <1>b, <1>c, <1>e, <2>2
    <3>2. QED
      BY <3>1 DEF NoInstallYet, Ended, Requests, BeforeUcs, BeforeInstall
  <2>3. CASE p < q
    <3>1. play'[q] = play[q] /\ play[q].pc = "idle"
      BY <1>b, <1>c, <1>e, <2>3
    <3>2. dev.backups < q /\ Len(dev.ops) < q
      BY <1>a, <3>1 DEF Counted, NoInstallYet, BeforeUcs, BeforeInstall
    <3>3. dev.backups + 1 < q \/ dev'.backups = dev.backups
      BY <1>a, <1>3, <1>e, <1>f, <2>3 DEF Counted
    <3>4. Len(dev.ops) + 1 < q \/ Len(dev'.ops) = Len(dev.ops)
      BY <1>a, <1>3, <1>e, <1>f, <2>3 DEF Counted, NoInstallYet
    <3>5. QED
      BY <1>3, <3>2, <3>3, <3>4
  <2>4. QED
    BY <1>e, <2>1, <2>2, <2>3
<1>6. WaysBack'
  <2> SUFFICES ASSUME NEW q \in Plays, Upgrading(q)' PROVE Way(play'[q], dev')
    BY DEF WaysBack
  <2>1. ~(p < q)
    BY <1>b, <1>c, <1>e DEF Upgrading
  <2>2. CASE q = p
    <3>1. play[p].kind = "upgrade"
      BY <1>g, <2>2 DEF Upgrading
    <3>2. Upgrading(p)
      BY <1>b, <1>c, <3>1 DEF Upgrading
    <3>3. Way(play[p], dev)
      BY <3>2 DEF Disciplined, WaysBack
    <3>4. QED
      BY <1>a, <1>d, <2>2, <3>1, <3>3, OutcomeWay
  <2>3. CASE q < p
    <3>1. play'[p].pc \in {"idle", "rb_volumes"} /\ play'[q] = play[q]
      BY <1>b, <1>e, <2>3 DEF Upgrading
    <3>2. play[p].pc = "rb_volumes" /\ dev' \in {dev, Advance(dev)}
      BY <1>b, <1>d, <3>1, OutcomeKeeps
    <3>3. Upgrading(q)
      BY <1>b, <1>c, <1>e, <3>1, <3>2 DEF Upgrading
    <3>4. Way(play[q], dev) /\ play[q].before.volume \in Volumes
      BY <3>3 DEF Disciplined, WaysBack, TypeOK, PlayState
    <3>5. QED
      BY <1>a, <3>1, <3>2, <3>4, WayPasses
  <2>4. QED
    BY <1>e, <2>1, <2>2, <2>3
<1>7. Mock!Next \/ dev' = dev
  BY <1>a, <1>d, OutcomeMock
<1>8. QED
  BY <1>1, <1>2, <1>5, <1>6, <1>7 DEF Disciplined, Counted

\* So does the launch of a play.
LEMMA LaunchDisciplined ==
    ASSUME TypeOK, Serial, Turns, Disciplined,
           NEW p \in Plays, NEW kind \in Kinds, NEW target \in Targets, Launch(p, kind, target)
    PROVE  Disciplined'
<1> DEFINE t == play'[p]
<1>a. /\ dev' = dev /\ play[p].pc = "idle"
      /\ \A q \in Plays : q # p => play'[q] = play[q]
      /\ \A q \in Plays : q < p => play[q].pc \in Ended
      /\ \A q \in Plays : p < q => play[q].pc = "idle"
  BY LaunchMoves
<1>b. /\ t.kind = kind /\ t.before = Boots(dev) /\ ~t.activated
      /\ t.pc \in {"version", "rb_volumes", "fo_status"}
      /\ t.pc = "version" <=> kind = "upgrade"
      /\ t.pc = "rb_volumes" <=> kind = "rollback"
  BY LaunchFields
<1>c. \A q \in Plays : q \in Nat
  BY PlayNumbers
<1> HIDE DEF t
<1>1. Sound(dev')
  BY <1>a DEF Disciplined
<1>2. \A q \in Plays : Route(play'[q], dev')
  <2>1. Route(play'[p], dev')
    BY <1>b DEF Route, BeforeInstall, BeforeUcs, t
  <2>2. QED
    BY <1>a, <2>1 DEF Disciplined
<1>3. Counted'
  <2>1. dev.backups < p /\ Len(dev.ops) < p
    BY <1>a DEF Disciplined, Counted, NoInstallYet, BeforeUcs, BeforeInstall
  <2>2. QED
    BY <1>a, <2>1 DEF Disciplined, Counted
<1>4. WaysBack'
  <2> SUFFICES ASSUME NEW q \in Plays, Upgrading(q)' PROVE Way(play'[q], dev')
    BY DEF WaysBack
  <2>1. ~(p < q)
    BY <1>a, <1>c DEF Upgrading
  <2>2. CASE q < p
    <3>1. Upgrading(q)
      BY <1>a, <1>c, <2>2 DEF Upgrading
    <3>2. play'[q] = play[q]
      BY <1>a, <1>c, <2>2
    <3>3. QED
      BY <1>a, <3>1, <3>2 DEF Disciplined, WaysBack
  <2>3. CASE q = p
    <3>1. t.pc \notin Targeting
      BY <1>b DEF Targeting
    <3>2. QED
      BY <1>1, <1>a, <1>b, <2>3, <3>1, WayBegins DEF t
  <2>4. QED
    BY <1>c, <2>1, <2>2, <2>3
<1>5. QED
  BY <1>1, <1>2, <1>3, <1>4 DEF Disciplined

\* A device none of whose deadlines is running does not notice the time.
LEMMA NothingElapses ==
    ASSUME NEW d, Sound(d), ~TimersRunning(d)
    PROVE  Elapse(d) = d
<1> DEFINE e == Elapse(d)
<1>a. d \in Device /\ Quiet(d) /\ e \in Device
  BY ElapseType DEF Sound
<1>1. ASSUME NEW n, n \in Nat \/ n = NoReboot, ~(n > 0) PROVE Less(n) = n
  BY <1>1 DEF Less
<1>2. d.reboot \in Nat \/ d.reboot = NoReboot
  BY <1>a DEF Device
<1>3. Less(d.reboot) = d.reboot
  BY <1>1, <1>2 DEF TimersRunning
<1>4. DOMAIN e.ops = DOMAIN d.ops /\ \A i \in DOMAIN d.ops : d.ops[i].left \in Nat
  BY <1>a, ElapsedOps, OpTypes
<1>5. ASSUME NEW i \in DOMAIN d.ops
      PROVE  /\ d.ops[i].volume = e.ops[i].volume /\ d.ops[i].version = e.ops[i].version
             /\ d.ops[i].left = e.ops[i].left /\ d.ops[i].willFail = e.ops[i].willFail
             /\ d.ops[i].status = e.ops[i].status
  <2>1. Less(d.ops[i].left) = d.ops[i].left
    BY <1>1, <1>4 DEF TimersRunning
  <2>2. QED
    BY <1>a, <2>1, ElapsedOps
<1>6. d.ops = e.ops
  BY <1>a, <1>4, <1>5, SameOps
<1>7. QED
  BY <1>a, <1>3, <1>6, ElapsedFields, SameDevice

\* A second, and a chaos flag, keep the discipline and are steps of the device.
LEMMA ClockDisciplined ==
    ASSUME TypeOK, Disciplined, Tick \/ \E flag \in Injected : Inject(flag)
    PROVE  Disciplined' /\ (Mock!Next \/ dev' = dev)
<1>a. Sound(dev) /\ dev \in Device
  BY DEF Disciplined, Sound
<1>1. ASSUME NEW q \in Plays
      PROVE  /\ play'[q].pc = play[q].pc /\ play'[q].kind = play[q].kind
             /\ play'[q].volume = play[q].volume /\ play'[q].before = play[q].before
             /\ play'[q].activated = play[q].activated
  BY ClockFields DEF Kept
<1>b. \A q \in Plays : play[q].before.volume \in Volumes
  BY DEF TypeOK, PlayState
<1>2. /\ Sound(dev') /\ dev'.backups = dev.backups /\ Len(dev'.ops) = Len(dev.ops)
      /\ \A s : Route(s, dev) => Route(s, dev')
      /\ \A s : s.before.volume \in Volumes /\ Way(s, dev) => Way(s, dev')
      /\ Mock!Next \/ dev' = dev
  <2>1. CASE Tick
    <3>1. dev' = Elapse(dev)
      BY <2>1 DEF Tick
    <3>2. dev'.backups = dev.backups
      BY <1>a, <3>1, ElapsedFields DEF Sound
    <3>3. TimersRunning(dev) => Mock!Next
      BY <3>1, SameOperations, SameHelpers DEF Mock!Next, Mock!Tick
    <3>4. ~TimersRunning(dev) => dev' = dev
      BY <1>a, <3>1, NothingElapses
    <3>5. QED
      BY <1>a, <3>1, <3>2, <3>3, <3>4, SoundAdvance, RoutePasses, WayPasses
  <2>2. CASE \E flag \in Injected : Inject(flag)
    <3>1. PICK flag \in Injected : Inject(flag)
      BY <2>2
    <3>2. /\ dev' \in Device /\ dev'.ops = dev.ops /\ dev'.image = dev.image
          /\ dev'.active = dev.active /\ dev'.doTasks = dev.doTasks
          /\ dev'.as3Tasks = dev.as3Tasks /\ dev'.backups = dev.backups
      BY <1>a, <3>1, PlaysAssumption DEF Inject, Device
    <3>3. Sound(dev')
      BY <1>a, <3>2, SoundKept
    <3>4. Mock!ChaosSet(flag)
      BY <3>1 DEF Inject, Mock!ChaosSet, Mock!MayInject, Mock!NoReboot, NoReboot
    <3>5. Mock!Next
      BY <3>4 DEF Mock!Next, Mock!Chaos
    <3>6. QED
      BY <3>2, <3>3, <3>5 DEF Route, Way, LastOn, NoneOn, Settled
  <2>3. QED
    BY <2>1, <2>2
<1>3. \A q \in Plays : Route(play'[q], dev')
  <2>1. \A s, t, d : t.pc = s.pc /\ t.kind = s.kind /\ t.volume = s.volume /\ Route(s, d) => Route(t, d)
    BY DEF Route
  <2>2. QED
    BY <1>1, <1>2, <2>1 DEF Disciplined
<1>4. Counted'
  BY <1>1, <1>2 DEF Disciplined, Counted, NoInstallYet
<1>5. WaysBack'
  <2> SUFFICES ASSUME NEW q \in Plays, Upgrading(q)' PROVE Way(play'[q], dev')
    BY DEF WaysBack
  <2>1. Upgrading(q)
    BY <1>1 DEF Upgrading
  <2>2. Way(play[q], dev')
    BY <1>2, <1>b, <2>1 DEF Disciplined, WaysBack
  <2>3. QED
    BY <1>1, <2>2 DEF Way
<1>6. QED
  BY <1>2, <1>3, <1>4, <1>5 DEF Disciplined

\* While all is calm, no volume is activated while an install is in progress.
LEMMA CalmActivates ==
    ASSUME TypeOK, Turns, Disciplined, Patient => Patience, NEW p \in Plays, Task(p), Calm',
           play[p].pc = "activate", play'[p].activated
    PROVE  Settled(dev)
<1>a. \A q \in Plays : q \in Int
  BY PlayNumbers
<1>b. \A q \in Plays : q # p => play[q].pc \in Ended \cup {"idle"}
  BY <1>a, TaskMoves, OthersAreAside
<1>c. Route(play[p], dev) /\ Counted /\ dev \in Device
  BY DEF Disciplined, Sound
<1>1. CASE play[p].kind # "rollback"
  BY <1>1, <1>c DEF Route
<1>2. CASE Patient
  BY <1>2, <1>b DEF Patience, Ended
<1>3. CASE play[p].kind = "rollback" /\ ~Patient
  <2>1. play'[p].kind = "rollback" /\ play'[p].pc # "idle"
    BY <1>3, TaskOutcome, OutcomeKeeps
  <2>2. p = 1
    BY <1>3, <2>1 DEF Calm, Flipped
  <2>3. Len(dev.ops) < 1
    BY <1>3, <1>c, <2>2 DEF Counted, NoInstallYet, Requests
  <2>4. DOMAIN dev.ops = {}
    BY <1>c, <2>3, OpTypes
  <2>5. QED
    BY <2>4 DEF Settled
<1>4. QED
  BY <1>1, <1>2, <1>3

\* A rollback that has flipped the boot volume has done so for good.
LEMMA CalmBefore ==
    ASSUME TypeOK, [Next]_vars, NEW p \in Plays, Flipped(p)
    PROVE  Flipped(p)'
<1>1. ASSUME NEW q \in Plays, NEW kind \in Kinds, NEW target \in Targets, Launch(q, kind, target)
      PROVE  Flipped(p)'
  BY <1>1 DEF Launch, Become, TypeOK, Flipped
<1>2. ASSUME NEW q \in Plays, Task(q) PROVE Flipped(p)'
  <2>1. CASE q = p
    <3>1. Outcome(p) /\ play[p].pc # "idle"
      BY <1>2, <2>1, TaskOutcome DEF Flipped
    <3>2. QED
      BY <3>1, OutcomeKeeps DEF Flipped
  <2>2. CASE q # p
    BY <1>2, <2>2, TaskMoves DEF Flipped
  <2>3. QED
    BY <2>1, <2>2
<1>3. CASE Tick \/ \E flag \in Injected : Inject(flag)
  BY <1>3, ClockFields DEF Flipped, Kept
<1>4. CASE UNCHANGED vars
  BY <1>4 DEF vars, Flipped
<1>5. QED
  BY <1>1, <1>2, <1>3, <1>4 DEF Next

Ordered == (Calm => Disciplined) /\ (Patient => Patience)

\* Every step keeps the discipline while all is calm, and then it is a step of the
\* device under role clients.
LEMMA OrderedStep ==
    ASSUME TypeOK, Serial, Turns, Ordered, [Next]_vars
    PROVE  Ordered' /\ (Calm' => Mock!Next \/ dev' = dev)
<1>1. Calm' => Calm
  BY CalmBefore DEF Calm
<1>2. ASSUME Calm' PROVE Disciplined' /\ (Mock!Next \/ dev' = dev)
  <2>a. Disciplined /\ (Patient => Patience)
    BY <1>1, <1>2 DEF Ordered
  <2>1. ASSUME NEW p \in Plays, NEW kind \in Kinds, NEW target \in Targets, Launch(p, kind, target)
        PROVE  Disciplined' /\ dev' = dev
    BY <2>1, <2>a, LaunchDisciplined DEF Launch
  <2>2. ASSUME NEW p \in Plays, Task(p) PROVE Disciplined' /\ (Mock!Next \/ dev' = dev)
    <3>1. play[p].pc = "activate" /\ play'[p].activated => Settled(dev)
      BY <1>2, <2>2, <2>a, CalmActivates
    <3>2. QED
      BY <2>2, <2>a, <3>1, TaskDisciplined
  <2>3. CASE Tick \/ \E flag \in Injected : Inject(flag)
    BY <2>3, <2>a, ClockDisciplined
  <2>4. CASE UNCHANGED vars
    BY <2>4, <2>a DEF vars, Disciplined, Counted, WaysBack, Upgrading
  <2>5. QED
    BY <2>1, <2>2, <2>3, <2>4 DEF Next
<1>3. ASSUME Patient PROVE Patience'
  <2>1. Disciplined /\ Patience
    BY <1>3 DEF Ordered, Calm
  <2>2. QED
    BY <1>3, <2>1, PatienceStep DEF Disciplined
<1>4. QED
  BY <1>2, <1>3 DEF Ordered

LEMMA OrderedInit == Init => Ordered
<1> SUFFICES ASSUME Init PROVE Disciplined
  BY PatienceInit DEF Ordered
<1>1. /\ Fresh.ops = << >> /\ Fresh.doTasks = << >> /\ Fresh.as3Tasks = << >>
      /\ Fresh.active = {"HD1.1"} /\ Fresh.backups = 0 /\ Idle.pc = "idle"
      /\ Idle.kind = "upgrade"
  BY DEF Fresh, FreshWith, Idle
<1>2. Sound(Fresh)
  BY <1>1, FreshType, NoInstalls DEF Sound, Quiet, Shielded, Volumes
<1>3. Len(Fresh.ops) = 0
  BY <1>1
<1>4. \A p \in Plays : 0 < p
  BY PlayNumbers
<1>5. Counted
  BY <1>1, <1>3, <1>4 DEF Init, Counted
<1>6. \A p \in Plays : Route(play[p], dev)
  BY <1>1, AsideRoute DEF Init
<1>7. WaysBack
  BY <1>1 DEF Init, WaysBack, Upgrading
<1>8. QED
  BY <1>2, <1>5, <1>6, <1>7 DEF Init, Disciplined

\* Where no rollback is launched there is none.
NoRollbacks == \A p \in Plays : play[p].kind # "rollback"

LEMMA NoRollbacksStep ==
    ASSUME TypeOK, "rollback" \notin Kinds, NoRollbacks, [Next]_vars
    PROVE  NoRollbacks'
<1>1. ASSUME NEW p \in Plays, NEW kind \in Kinds, NEW target \in Targets, Launch(p, kind, target)
      PROVE  NoRollbacks'
  <2>1. play'[p].kind = kind /\ \A q \in Plays : q # p => play'[q] = play[q]
    BY <1>1, LaunchFields DEF Launch, Become, TypeOK
  <2>2. QED
    BY <2>1 DEF NoRollbacks
<1>2. ASSUME NEW p \in Plays, Task(p) PROVE NoRollbacks'
  <2>1. play[p].pc # "idle" /\ \A q \in Plays : q # p => play'[q] = play[q]
    BY <1>2, TaskMoves DEF Requests
  <2>2. play'[p].kind = play[p].kind
    BY <1>2, <2>1, TaskOutcome, OutcomeKeeps
  <2>3. QED
    BY <2>1, <2>2 DEF NoRollbacks
<1>3. CASE Tick \/ \E flag \in Injected : Inject(flag)
  BY <1>3, ClockFields DEF NoRollbacks, Kept
<1>4. CASE UNCHANGED vars
  BY <1>4 DEF vars, NoRollbacks
<1>5. QED
  BY <1>1, <1>2, <1>3, <1>4 DEF Next

LEMMA NoRollbacksInit == Init => NoRollbacks
<1>1. Idle.kind = "upgrade"
  BY DEF Idle
<1>2. QED
  BY <1>1 DEF Init, NoRollbacks

\* From its launch to the next play an upgrade leaves the volume the device ran from
\* as it was, wherever it fails and whatever gets lost: when no play is a rollback,
\* when there are two plays, or when none gives up an install that goes on.  Three
\* plays that may lose requests are one too many: see WayBackKept.
THEOREM WayBackIsKept ==
    ASSUME Serial, "rollback" \notin Kinds \/ Patient \/ Cardinality(Plays) <= 2
    PROVE  Spec => []WayBackKept
<1>1. TypeOK /\ Turns /\ [Next]_vars => Turns'
  BY TurnsStep
<1>2. TypeOK /\ Turns /\ Ordered /\ [Next]_vars => Ordered'
  BY OrderedStep
<1>3. ASSUME Ordered, "rollback" \notin Kinds => NoRollbacks PROVE WayBackKept
  <2> SUFFICES ASSUME NEW p \in Plays, play[p].kind = "upgrade", play[p].pc # "idle",
                      \A q \in Plays : q > p => play[q].pc = "idle"
               PROVE  dev.image[play[p].before.volume] = play[p].before.image
    BY DEF WayBackKept
  <2>1. ASSUME NEW q \in Plays, Flipped(q), "rollback" \in Kinds, Cardinality(Plays) <= 2
        PROVE  q = 1
    <3>1. q # p /\ ~(q > p)
      BY <2>1 DEF Flipped
    <3>2. /\ p \in Nat /\ p <= Cardinality(Plays) /\ q \in Nat /\ 1 <= q
          /\ Cardinality(Plays) \in Nat
      BY PlayNumbers
    <3>3. QED
      BY <2>1, <3>1, <3>2
  <2>2. Calm
    BY <1>3, <2>1 DEF Calm, NoRollbacks, Flipped
  <2>3. Upgrading(p) /\ WaysBack
    BY <1>3, <2>2 DEF Upgrading, Ordered, Disciplined
  <2>4. QED
    BY <2>3 DEF WaysBack, Way
<1>4. TypeOK /\ ("rollback" \notin Kinds => NoRollbacks) /\ [Next]_vars
        => ("rollback" \notin Kinds => NoRollbacks)'
  BY NoRollbacksStep
<1>5. Init => ("rollback" \notin Kinds => NoRollbacks)
  BY NoRollbacksInit
<1>6. QED
  BY <1>1, <1>2, <1>3, <1>4, <1>5, TurnsInit, OrderedInit, PlaysTypeCorrect, PTL DEF Spec

\* What MockDevice assumes of role clients, one play after the other guarantees: the
\* plays and the clock drive the device as MockDevice does, so that what is proved of
\* it under role clients holds of the device the plays drive.  Rollbacks keep to it
\* where no upgrade before them gives up an install that goes on.
THEOREM RolesAreRoleClients ==
    ASSUME Serial, "rollback" \notin Kinds \/ Patient
    PROVE  Spec => RolesAreDisciplined
<1> DEFINE Tame == "rollback" \notin Kinds => NoRollbacks
<1>1. TypeOK /\ Turns /\ [Next]_vars => Turns'
  BY TurnsStep
<1>2. TypeOK /\ Turns /\ Ordered /\ [Next]_vars => Ordered'
  BY OrderedStep
<1>3. TypeOK /\ Tame /\ [Next]_vars => Tame'
  BY NoRollbacksStep
<1>4. TypeOK /\ Turns /\ Ordered /\ Tame /\ [Next]_vars => [Mock!Next]_dev
  <2> SUFFICES ASSUME TypeOK, Turns, Ordered, Tame, [Next]_vars PROVE Mock!Next \/ dev' = dev
    OBVIOUS
  <2>1. Tame'
    BY <1>3
  <2>2. Calm'
    BY <2>1 DEF Calm, NoRollbacks, Flipped
  <2>3. QED
    BY <2>2, OrderedStep
<1>5. Init => Mock!Init
  BY SameOperations DEF Init, Mock!Init
<1>6. Init => Tame
  BY NoRollbacksInit
<1> HIDE DEF Tame
<1>7. QED
  BY <1>1, <1>2, <1>3, <1>4, <1>5, <1>6, TurnsInit, OrderedInit, PlaysTypeCorrect, PTL
  DEF Spec, Mock!Spec, RolesAreDisciplined

----------------------------------------------------------------------------
(***************************************************************************)
(* What a rollback brings back.  It takes the volume that is not active    *)
(* when it asks, which after an upgrade that flipped the boot volume is    *)
(* the way back of that upgrade.                                           *)
(***************************************************************************)
\* No rollback before play q has flipped the boot volume under an install.
First(q) == Patient \/ \A r \in Plays : r < q /\ Flipped(r) => r = 1

\* Where a rollback has chosen its volume.
Chosen == (Requests \ {"rb_volumes"}) \cup {"ok"}

FlippedBy(p, q) == q = p + 1 /\ play[p].kind = "upgrade" /\ play[p].activated

Returning ==
    /\ \A q \in Plays : play[q].pc = "rb_volumes" => ~play[q].activated
    /\ \A p, q \in Plays :
          /\ FlippedBy(p, q) /\ First(q)
          /\ play[q].kind = "rollback" /\ play[q].pc \in Chosen
          => play[q].version = play[p].before.image

\* The volume that is not active, once an upgrade has flipped it, is its way back.
LEMMA InactiveIsWayBack ==
    ASSUME NEW s, s.before.volume \in Volumes, Sound(dev), Way(s, dev), s.activated
    PROVE  Advance(dev).image[InactiveVolume(Advance(dev))] = s.before.image
<1> DEFINE d == Advance(dev)
<1>1. Sound(d) /\ Way(s, d)
  BY SoundAdvance, WayPasses
<1> HIDE DEF d
<1>2. s.before.volume \in Volumes \ d.active /\ InactiveVolume(d) \in Volumes \ d.active
  BY <1>1, SoundActive DEF Way
<1>3. \E v \in Volumes : d.active = {v}
  BY <1>1 DEF Sound
<1>4. InactiveVolume(d) = s.before.volume
  BY <1>2, <1>3 DEF Volumes
<1>5. QED
  BY <1>1, <1>4 DEF Way, d

\* What becomes of a rollback that asks for the volumes.
LEMMA AskingOutcome ==
    ASSUME NEW p \in Plays, Outcome(p), play[p].pc = "rb_volumes"
    PROVE  play'[p].pc \in {"failed", "rb_volumes"} \/ AnsweredRollback(p, Advance(dev))
<1> DEFINE d == Advance(dev)
<1>1. "rb_volumes" \notin Late
  BY DEF Late, FailoverSteps, GateSteps, Ended
<1>2. Unheard(p, d) => play'[p].pc \in {"failed", "rb_volumes"}
  BY <1>1 DEF Unheard
<1>3. ~AnsweredFirst(p, d) /\ ~AnsweredVolumes(p, d) /\ ~AnsweredActivate(p, d)
  BY DEF AnsweredFirst, AnsweredVolumes, AnsweredActivate, Answered
<1>4. ~AnsweredKept(p, d)
  BY DEF AnsweredKept, Answered
<1>5. QED
  BY <1>2, <1>3, <1>4 DEF Outcome

\* Every step keeps what rollbacks bring back.
LEMMA ReturningStep ==
    ASSUME TypeOK, Serial, Turns, Ordered, Returning, [Next]_vars
    PROVE  Returning'
<1>a. \A q \in Plays : q \in Int
  BY PlayNumbers
<1>b. \A q \in Plays : First(q)' => First(q)
  BY CalmBefore DEF First
<1>1. ASSUME NEW r \in Plays, NEW kind \in Kinds, NEW target \in Targets, Launch(r, kind, target)
      PROVE  Returning'
  <2>1. /\ play'[r].kind = kind /\ ~play'[r].activated
        /\ play'[r].pc \in {"version", "rb_volumes", "fo_status"}
        /\ play'[r].pc = "rb_volumes" <=> kind = "rollback"
    BY <1>1, LaunchFields
  <2>2. \A q \in Plays : q # r => play'[q] = play[q]
    BY <1>1, LaunchMoves
  <2>3. "rb_volumes" \notin Chosen
    BY DEF Chosen, Requests
  <2>4. \A p \in Plays : play'[p].activated => play'[p] = play[p]
    BY <2>1, <2>2
  <2>5. \A q \in Plays : play'[q].kind = "rollback" /\ play'[q].pc \in Chosen => play'[q] = play[q]
    BY <2>1, <2>2, <2>3
  <2>6. \A q \in Plays : play'[q].pc = "rb_volumes" => ~play'[q].activated
    BY <2>1, <2>2 DEF Returning
  <2>7. QED
    BY <1>b, <2>4, <2>5, <2>6 DEF Returning, FlippedBy
<1>2. ASSUME NEW r \in Plays, Task(r) PROVE Returning'
  <2>1. play[r].pc \in Requests /\ play[r].pc # "idle" /\ \A q \in Plays : q # r => play'[q] = play[q]
    BY <1>2, TaskMoves DEF Requests
  <2>2. /\ \A q \in Plays : q < r => play[q].pc \in Ended
        /\ \A q \in Plays : r < q => play[q].pc = "idle"
    BY <2>1, OthersAreAside
  <2>3. Outcome(r)
    BY <1>2, TaskOutcome
  <2>4. \A q \in Plays : play'[q].pc = "rb_volumes" => ~play'[q].activated
    BY <2>1, <2>3, OutcomeKeeps DEF Returning
  <2>5. ASSUME NEW p \in Plays, NEW q \in Plays, FlippedBy(p, q)', First(q),
               play'[q].kind = "rollback", play'[q].pc \in Chosen
        PROVE  play'[q].version = play'[p].before.image
    <3>1. q = p + 1 /\ p < q
      BY <1>a, <2>5 DEF FlippedBy
    <3>2. "idle" \notin Chosen
      BY DEF Chosen, Requests
    <3>3. ~(r < q)
      BY <1>a, <2>1, <2>2, <2>5, <3>2
    <3>4. play'[p] = play[p] /\ FlippedBy(p, q)
      BY <1>a, <2>1, <2>5, <3>1, <3>3 DEF FlippedBy
    <3>5. CASE q < r
      <4>1. play'[q] = play[q]
        BY <1>a, <2>1, <3>5
      <4>2. QED
        BY <2>5, <3>4, <4>1 DEF Returning
    <3>6. CASE q = r /\ play[q].pc # "rb_volumes"
      <4>1. play[q].pc \in Chosen
        BY <2>1, <3>6 DEF Chosen
      <4>2. play'[q].version = play[q].version /\ play'[q].kind = play[q].kind
        BY <2>1, <2>3, <3>6, OutcomeKeeps
      <4>3. QED
        BY <2>5, <3>4, <4>1, <4>2 DEF Returning
    <3>7. CASE q = r /\ play[q].pc = "rb_volumes"
      <4>1. AnsweredRollback(q, Advance(dev))
        <5>1. play'[q].pc \notin {"failed", "rb_volumes"}
          BY <2>5 DEF Chosen, Requests
        <5>2. QED
          BY <2>3, <3>7, <5>1, AskingOutcome
      <4>2. play'[q].version = Advance(dev).image[InactiveVolume(Advance(dev))]
        BY <4>1 DEF AnsweredRollback
      <4>3. ASSUME ~Patient, NEW o \in Plays, Flipped(o) PROVE o = 1
        <5>1. ~(q < o)
          BY <2>2, <3>7, <4>3 DEF Flipped
        <5>2. o # q
          BY <3>7, <4>3 DEF Returning, Flipped
        <5>3. o < q
          BY <1>a, <5>1, <5>2
        <5>4. QED
          BY <2>5, <4>3, <5>3 DEF First
      <4>4. Disciplined
        BY <4>3 DEF Ordered, Calm
      <4>5. play[p].pc # "idle"
        BY <2>2, <3>1, <3>7 DEF Ended
      <4>6. \A o \in Plays : o > p => play[o].pc \in {"idle", "rb_volumes"}
        <5>1. \A o \in Plays : o > p => o = q \/ q < o
          BY <1>a, <3>1
        <5>2. QED
          BY <2>2, <3>7, <5>1
      <4>7. Upgrading(p)
        BY <3>4, <4>5, <4>6 DEF Upgrading, FlippedBy
      <4>8. /\ Sound(dev) /\ Way(play[p], dev) /\ play[p].activated
            /\ play[p].before.volume \in Volumes
        BY <3>4, <4>4, <4>7 DEF Disciplined, WaysBack, FlippedBy, TypeOK, PlayState
      <4>9. QED
        BY <3>4, <4>2, <4>8, InactiveIsWayBack
    <3>8. QED
      BY <1>a, <3>3, <3>5, <3>6, <3>7
  <2>6. QED
    BY <1>b, <2>4, <2>5 DEF Returning
<1>3. CASE Tick \/ \E flag \in Injected : Inject(flag)
  <2>1. \A q \in Plays : play'[q].pc = play[q].pc /\ Kept(play[q], play'[q])
    BY <1>3, ClockFields
  <2>2. QED
    BY <1>b, <2>1 DEF Returning, FlippedBy, Kept
<1>4. CASE UNCHANGED vars
  BY <1>4 DEF vars, Returning, FlippedBy, First, Flipped
<1>5. QED
  BY <1>1, <1>2, <1>3, <1>4 DEF Next

LEMMA ReturningInit == Init => Returning
<1>1. Idle.pc = "idle" /\ ~Idle.activated
  BY DEF Idle
<1>2. QED
  BY <1>1 DEF Init, Returning, FlippedBy

\* A rollback that succeeds runs what it chose, the image of the way back.
LEMMA RollbackBoots ==
    ASSUME TypeOK, Serial, Turns, Known, Returning, [Next]_vars, NEW p \in Plays, NEW q \in Plays,
           FlippedBy(p, q), First(q), Ends(q, "rollback", "ok")
    PROVE  dev'.running = play[p].before.image
<1>1. play[q].kind = "rollback" /\ play[q].pc # "ok" /\ play'[q].pc = "ok"
  BY DEF Ends
<1>2. Task(q)
  BY <1>1, SuccessIsTask
<1>3. play[q].pc # "rb_volumes"
  BY <1>1, <1>2, TaskOutcome, AskingOutcome DEF AnsweredRollback, Answered
<1>4. play[q].version = play[p].before.image
  BY <1>1, <1>2, <1>3, TaskMoves DEF Returning, Chosen
<1>5. Delivers(play'[q], dev')
  BY <1>1, KnownStep
<1>6. play'[q].kind = play[q].kind /\ play'[q].version = play[q].version
  BY <1>1, SuccessKeeps
<1>7. QED
  BY <1>1, <1>4, <1>5, <1>6 DEF Delivers

\* A rollback that succeeds right after an upgrade that flipped the boot volume runs
\* what that volume held when the upgrade began, also where requests get lost and
\* installs are given up, unless a rollback before it flipped the volume under such
\* an install.
THEOREM RollbackBootsPriorImage ==
    ASSUME Serial
    PROVE  Spec => [][\A p, q \in Plays :
                        FlippedBy(p, q) /\ First(q) /\ Ends(q, "rollback", "ok") =>
                            dev'.running = play[p].before.image]_vars
<1> DEFINE Brings == \A p, q \in Plays :
                       FlippedBy(p, q) /\ First(q) /\ Ends(q, "rollback", "ok") =>
                           dev'.running = play[p].before.image
<1>1. TypeOK /\ Turns /\ [Next]_vars => Turns'
  BY TurnsStep
<1>2. TypeOK /\ Turns /\ Known /\ [Next]_vars => Known'
  BY KnownStep
<1>3. TypeOK /\ Turns /\ Ordered /\ [Next]_vars => Ordered'
  BY OrderedStep
<1>4. TypeOK /\ Turns /\ Ordered /\ Returning /\ [Next]_vars => Returning'
  BY ReturningStep
<1>5. TypeOK /\ Turns /\ Known /\ Returning /\ [Next]_vars => [Brings]_vars
  BY RollbackBoots
<1> HIDE DEF Brings
<1>6. Spec => [][Brings]_vars
  BY <1>1, <1>2, <1>3, <1>4, <1>5, TurnsInit, KnownInit, OrderedInit, ReturningInit,
     PlaysTypeCorrect, PTL DEF Spec
<1>7. QED
  BY <1>6 DEF Brings

(***************************************************************************)
(* That is the version the device ran before, not only the image it would  *)
(* boot: an upgrade begins on a device that runs what its active volume    *)
(* holds.  A play whose reboot request is lost breaks this for the plays   *)
(* that follow, so it holds of the first play, or where none is lost.      *)
(***************************************************************************)
Level(d) == d.reboot = NoReboot => d.running = d.image[ActiveVolume(d)]

Starting ==
    \A p \in Plays : play[p].pc = "idle" \/ (play[p].pc = "version" /\ play[p].kind = "upgrade")

Leveled ==
    (Patient \/ Starting) /\ (\A p \in Plays : play[p].pc # "reboot") => Level(dev)

Began ==
    \A p \in Plays :
        /\ Patient \/ p = 1
        /\ play[p].kind = "upgrade"
        /\ play[p].activated \/ play[p].pc \in Requests \ {"version"}
        => play[p].before.running = play[p].before.image

\* Settling, and the clock, keep a device level: a reboot that is over has booted the
\* active volume, and nothing is written to it.
LEMMA LevelPasses ==
    ASSUME NEW d, Sound(d), Level(d)
    PROVE  Level(Advance(d)) /\ Level(Elapse(d))
<1> DEFINE a == Advance(d)
           e == Elapse(d)
<1>a. d \in Device /\ Quiet(d)
  BY DEF Sound
<1>b. NoReboot # 0 /\ (Less(d.reboot) = NoReboot => d.reboot = NoReboot)
  <2>1. d.reboot \in Nat \/ d.reboot = NoReboot
    BY <1>a DEF Device
  <2>2. QED
    BY <2>1 DEF Less, NoReboot
<1>1. ActiveVolume(a) = ActiveVolume(d) /\ ActiveVolume(e) = ActiveVolume(d)
  BY <1>a, AdvanceActive, ElapseActive DEF ActiveVolume
<1>2. a.image[ActiveVolume(d)] = d.image[ActiveVolume(d)] /\ e.image = d.image
  BY <1>a, SoundActive, ImageKept, ElapsedFields
<1>3. /\ d.reboot = 0 => a.running = a.image[ActiveVolume(d)]
      /\ d.reboot # 0 => a.running = d.running /\ a.reboot = d.reboot
  BY <1>a, QuietAdvance
<1>4. e.running = d.running /\ e.reboot = Less(d.reboot)
  BY <1>a, ElapsedFields
<1> HIDE DEF a, e
<1>5. Level(a)
  BY <1>1, <1>2, <1>3 DEF Level
<1>6. Level(e)
  BY <1>b, <1>1, <1>2, <1>4 DEF Level
<1>7. QED
  BY <1>5, <1>6 DEF a, e

\* What leaves these four fields alone leaves a device level.
LEMMA SameLevel ==
    ASSUME NEW d, NEW e, Level(d), e.reboot = d.reboot, e.running = d.running,
           e.image = d.image, e.active = d.active
    PROVE  Level(e)
BY DEF Level, ActiveVolume

\* A patient play whose reboot is not due leaves a device level.
LEMMA OutcomeLevel ==
    ASSUME TypeOK, Sound(dev), Patient, NEW p \in Plays, Waits(play[p], dev), Outcome(p),
           play[p].pc # "reboot" => Level(dev), play'[p].pc # "reboot"
    PROVE  Level(dev')
<1> DEFINE d == Advance(dev)
           s == play[p]
           t == play'[p]
<1>a. Sound(d) /\ d \in Device
  BY SoundAdvance DEF Sound
<1>b. s.pc # "reboot" => Level(dev) /\ Level(d)
  BY LevelPasses
<1>c. s.pc = "reboot" => ~IsRebooting(d)
  BY NotRebooting DEF Waits, Answering, IsRebooting, NoReboot, Sound
<1>d. s.volume \in Volumes /\ s.version \in Versions
  BY DEF TypeOK, PlayState
<1>e. t.pc # "reboot" /\ ~Lossy
  BY DEF Patient
<1> HIDE DEF d, s, t
<1>1. CASE Unheard(p, d)
  <2>1. dev' \in {dev, d}
    BY <1>1 DEF Unheard
  <2>2. s.pc # "reboot"
    BY <1>1, <1>c, <1>e DEF Unheard, Writing, Late, FailoverSteps, GateSteps, Ended, s, t
  <2>3. QED
    BY <1>b, <2>1, <2>2
<1>2. CASE AnsweredFirst(p, d)
  BY <1>2, <1>b DEF AnsweredFirst, Answered, s
<1>3. CASE AnsweredVolumes(p, d)
  BY <1>3, <1>b DEF AnsweredVolumes, Answered, s
<1>4. CASE AnsweredRollback(p, d)
  BY <1>4, <1>b DEF AnsweredRollback, Answered, s
<1>5. CASE AnsweredActivate(p, d)
  BY <1>5, <1>e DEF AnsweredActivate, Answered, t
<1>6. CASE AnsweredKept(p, d)
  <2>1. CASE Answered(p, d, {"failover", "sync", "perf"}, d, {"sync", "perf", "ucs"})
    BY <2>1, <1>b DEF Answered, s
  <2>2. CASE Answered(p, d, {"ucs"}, [d EXCEPT !.backups = @ + 1], {"volumes"})
    <3>1. s.pc = "ucs" /\ dev' = [d EXCEPT !.backups = d.backups + 1]
      BY <2>2 DEF Answered, s
    <3>2. /\ dev'.reboot = d.reboot /\ dev'.running = d.running
          /\ dev'.image = d.image /\ dev'.active = d.active
      BY <1>a, <3>1 DEF Device
    <3>3. QED
      BY <1>b, <3>1, <3>2, SameLevel
  <2>3. CASE Answered(p, d, {"image"}, d, {"install"})
    BY <2>3, <1>b DEF Answered, s
  <2>4. CASE Answered(p, d, {"install"}, StartInstall(d, s.volume, s.version), {"poll_install"})
    <3>1. s.pc = "install" /\ dev' = StartInstall(d, s.volume, s.version)
      BY <2>4 DEF Answered, s
    <3>2. /\ dev'.reboot = d.reboot /\ dev'.running = d.running
          /\ dev'.image = d.image /\ dev'.active = d.active
      BY <1>a, <3>1 DEF StartInstall, Device
    <3>3. QED
      BY <1>b, <3>1, <3>2, SameLevel
  <2>5. CASE Answered(p, d, {"poll_install"}, d, {"activate"})
    BY <2>5, <1>b DEF Answered, s
  <2>6. CASE Answered(p, d, {"reboot"}, StartReboot(d), {"poll_version"})
    <3>1. dev' = StartReboot(d)
      BY <2>6 DEF Answered
    <3>2. dev'.reboot \in {RebootTime * SlowRebootFactor, RebootTime}
      BY <1>a, <3>1 DEF StartReboot, Device
    <3>3. RebootTime * SlowRebootFactor \in Nat /\ RebootTime \in Nat
      BY TimingAssumption
    <3>4. dev'.reboot # NoReboot
      BY <3>2, <3>3 DEF NoReboot
    <3>5. QED
      BY <3>4 DEF Level
  <2>7. CASE Answered(p, d, {"fo_trigger"},
                      [d EXCEPT !.ha = IF @ = "ACTIVE" THEN "STANDBY" ELSE "ACTIVE"], {"ok"})
    <3> DEFINE h == IF d.ha = "ACTIVE" THEN "STANDBY" ELSE "ACTIVE"
    <3>1. s.pc = "fo_trigger" /\ dev' = [d EXCEPT !.ha = h]
      BY <2>7 DEF Answered, s
    <3> HIDE DEF h
    <3>2. /\ dev'.reboot = d.reboot /\ dev'.running = d.running
          /\ dev'.image = d.image /\ dev'.active = d.active
      BY <1>a, <3>1 DEF Device
    <3>3. QED
      BY <1>b, <3>1, <3>2, SameLevel
  <2>8. QED
    BY <1>6, <2>1, <2>2, <2>3, <2>4, <2>5, <2>6, <2>7 DEF AnsweredKept, s
<1>7. QED
  BY <1>1, <1>2, <1>3, <1>4, <1>5, <1>6 DEF Outcome, d

\* The first play of all, until its first request is answered, finds a sound device.
LEMMA StartsCalm ==
    ASSUME Ordered, Patient \/ Starting
    PROVE  Disciplined
BY DEF Ordered, Calm, Starting, Flipped

\* Every step keeps the device level.
LEMMA LeveledStep ==
    ASSUME TypeOK, Serial, Turns, Ordered, Leveled, [Next]_vars
    PROVE  Leveled'
<1> SUFFICES ASSUME (Patient \/ Starting)', \A p \in Plays : play'[p].pc # "reboot"
             PROVE  Level(dev')
  BY DEF Leveled
<1>a. \A p \in Plays : p \in Int
  BY PlayNumbers
<1>1. ASSUME NEW p \in Plays, NEW kind \in Kinds, NEW target \in Targets, Launch(p, kind, target)
      PROVE  Level(dev')
  <2>1. dev' = dev /\ play[p].pc = "idle" /\ \A q \in Plays : q # p => play'[q] = play[q]
    BY <1>1, LaunchMoves
  <2>2. (Patient \/ Starting) /\ \A q \in Plays : play[q].pc # "reboot"
    BY <2>1 DEF Starting
  <2>3. QED
    BY <2>1, <2>2 DEF Leveled
<1>2. ASSUME NEW p \in Plays, Task(p) PROVE Level(dev')
  <2>1. Outcome(p) /\ play[p].pc # "idle" /\ \A q \in Plays : q # p => play'[q] = play[q]
    BY <1>2, TaskOutcome, TaskMoves DEF Requests
  <2>2. Patient
    BY <2>1, OutcomeKeeps DEF Starting
  <2>3. Sound(dev) /\ Waits(play[p], dev)
    BY <2>2, StartsCalm DEF Ordered, Patience, Disciplined
  <2>4. play[p].pc # "reboot" => Level(dev)
    BY <2>1, <2>2 DEF Leveled
  <2>5. QED
    BY <2>1, <2>2, <2>3, <2>4, OutcomeLevel
<1>3. CASE Tick \/ \E flag \in Injected : Inject(flag)
  <2>1. \A q \in Plays : play'[q].pc = play[q].pc /\ play'[q].kind = play[q].kind
    BY <1>3, ClockFields DEF Kept
  <2>2. (Patient \/ Starting) /\ \A q \in Plays : play[q].pc # "reboot"
    BY <2>1 DEF Starting
  <2>3. Sound(dev) /\ Level(dev)
    BY <2>2, StartsCalm DEF Leveled, Disciplined
  <2>4. CASE Tick
    BY <2>3, <2>4, LevelPasses DEF Tick
  <2>5. CASE \E flag \in Injected : Inject(flag)
    <3>1. /\ dev'.reboot = dev.reboot /\ dev'.running = dev.running
          /\ dev'.image = dev.image /\ dev'.active = dev.active
      BY <2>3, <2>5 DEF Inject, Device, Sound
    <3>2. QED
      BY <2>3, <3>1, SameLevel
  <2>6. QED
    BY <1>3, <2>4, <2>5
<1>4. CASE UNCHANGED vars
  BY <1>4 DEF vars, Leveled, Starting
<1>5. QED
  BY <1>1, <1>2, <1>3, <1>4 DEF Next

\* Every step keeps what an upgrade began with.
LEMMA BeganStep ==
    ASSUME TypeOK, Serial, Turns, Ordered, Leveled, Began, [Next]_vars
    PROVE  Began'
<1>a. \A p \in Plays : p \in Int
  BY PlayNumbers
<1>1. ASSUME NEW p \in Plays, NEW kind \in Kinds, NEW target \in Targets, Launch(p, kind, target)
      PROVE  Began'
  <2>1. /\ play'[p].kind = kind /\ ~play'[p].activated
        /\ kind = "upgrade" => play'[p].pc = "version"
    BY <1>1, LaunchFields
  <2>2. \A q \in Plays : q # p => play'[q] = play[q]
    BY <1>1, LaunchMoves
  <2>3. QED
    BY <2>1, <2>2 DEF Began
<1>2. ASSUME NEW p \in Plays, Task(p) PROVE Began'
  <2>1. /\ play[p].pc \in Requests /\ play[p].pc # "idle"
        /\ \A q \in Plays : q # p => play'[q] = play[q]
    BY <1>2, TaskMoves DEF Requests
  <2>2. \A q \in Plays : q # p => play[q].pc \in Ended \cup {"idle"}
    BY <1>a, <2>1, OthersAreAside
  <2>3. Outcome(p)
    BY <1>2, TaskOutcome
  <2>4. ASSUME Patient \/ p = 1, play'[p].kind = "upgrade",
               play'[p].activated \/ play'[p].pc \in Requests \ {"version"}
        PROVE  play'[p].before.running = play'[p].before.image
    <3>1. play[p].kind = "upgrade"
      BY <2>1, <2>3, <2>4, OutcomeKeeps
    <3>2. CASE play[p].pc # "version"
      <4>1. play'[p].before = play[p].before
        BY <2>1, <2>3, <3>2, OutcomeKeeps
      <4>2. QED
        BY <2>1, <2>4, <3>1, <3>2, <4>1 DEF Began
    <3>3. CASE play[p].pc = "version"
      <4>1. CASE Unheard(p, Advance(dev))
        <5>1. play'[p].pc = "failed" /\ Kept(play[p], play'[p])
          BY <3>3, <4>1 DEF Unheard, Late, FailoverSteps, GateSteps, Ended
        <5>2. play[p].activated /\ play'[p].before = play[p].before
          BY <2>4, <5>1 DEF Kept, Requests
        <5>3. QED
          BY <2>4, <3>1, <5>2 DEF Began
      <4>2. CASE AnsweredFirst(p, Advance(dev))
        <5>1. ~IsRebooting(Advance(dev)) /\ play'[p].before = Boots(Advance(dev))
          BY <4>2 DEF AnsweredFirst, Answered
        <5>2. Patient \/ Starting
          <6>1. ASSUME p = 1, NEW q \in Plays, q # p PROVE play[q].pc = "idle"
            <7>1. p < q
              BY <1>a, <6>1, PlayNumbers
            <7>2. QED
              BY <2>1, <7>1, OthersAreAside
          <6>2. QED
            BY <2>4, <3>1, <3>3, <6>1 DEF Starting
        <5>3. \A q \in Plays : play[q].pc # "reboot"
          BY <2>2, <3>3 DEF Ended
        <5>4. Sound(dev) /\ Level(dev)
          BY <5>2, <5>3, StartsCalm DEF Leveled, Disciplined
        <5>5. Level(Advance(dev)) /\ Advance(dev).reboot = NoReboot
          BY <5>1, <5>4, LevelPasses, NotRebooting DEF Sound
        <5>6. QED
          BY <5>1, <5>5 DEF Level, Boots
      <4>3. QED
        BY <2>3, <3>3, <4>1, <4>2 DEF Outcome, AnsweredVolumes, AnsweredRollback,
           AnsweredActivate, AnsweredKept, Answered
    <3>4. QED
      BY <3>2, <3>3
  <2>5. QED
    BY <2>1, <2>4 DEF Began
<1>3. CASE Tick \/ \E flag \in Injected : Inject(flag)
  BY <1>3, ClockFields DEF Began, Kept
<1>4. CASE UNCHANGED vars
  BY <1>4 DEF vars, Began
<1>5. QED
  BY <1>1, <1>2, <1>3, <1>4 DEF Next

LEMMA LeveledInit == Init => Leveled /\ Began
<1>1. /\ Idle.pc = "idle" /\ ~Idle.activated /\ Fresh.running = InitialVersion
      /\ Fresh.image["HD1.1"] = InitialVersion /\ ActiveVolume(Fresh) = "HD1.1"
  BY DEF Idle, Fresh, FreshWith, ActiveVolume, Volumes
<1>2. "idle" \notin Requests
  BY DEF Requests
<1>3. QED
  BY <1>1, <1>2 DEF Init, Leveled, Level, Began

\* A rollback that succeeds right after an upgrade that flipped the boot volume brings
\* back the version the device ran before: with two plays whatever gets lost, with any
\* number where no request is lost and the poll budget covers the install.
THEOREM RollbackReturns ==
    ASSUME Serial, Patient \/ Cardinality(Plays) <= 2
    PROVE  Spec => RollbackReturnsToPrior
<1> DEFINE Back == \A p, q \in Plays :
                      /\ q = p + 1 /\ Ends(q, "rollback", "ok")
                      /\ play[p].kind = "upgrade" /\ play[p].activated
                      => dev'.running = play[p].before.running
<1>1. TypeOK /\ Turns /\ [Next]_vars => Turns'
  BY TurnsStep
<1>2. TypeOK /\ Turns /\ Known /\ [Next]_vars => Known'
  BY KnownStep
<1>3. TypeOK /\ Turns /\ Ordered /\ [Next]_vars => Ordered'
  BY OrderedStep
<1>4. TypeOK /\ Turns /\ Ordered /\ Returning /\ [Next]_vars => Returning'
  BY ReturningStep
<1>5. TypeOK /\ Turns /\ Ordered /\ Leveled /\ [Next]_vars => Leveled'
  BY LeveledStep
<1>6. TypeOK /\ Turns /\ Ordered /\ Leveled /\ Began /\ [Next]_vars => Began'
  BY BeganStep
<1>7. TypeOK /\ Turns /\ Known /\ Returning /\ Began /\ [Next]_vars => [Back]_vars
  <2> SUFFICES ASSUME TypeOK, Turns, Known, Returning, Began, [Next]_vars,
                      NEW p \in Plays, NEW q \in Plays, q = p + 1, Ends(q, "rollback", "ok"),
                      play[p].kind = "upgrade", play[p].activated
               PROVE  dev'.running = play[p].before.running
    OBVIOUS
  <2>1. /\ p \in Nat /\ 1 <= p /\ q <= Cardinality(Plays) /\ Cardinality(Plays) \in Nat
        /\ \A r \in Plays : r \in Nat /\ 1 <= r
    BY PlayNumbers
  <2>2. Patient \/ p = 1
    BY <2>1
  <2>3. First(q)
    BY <2>1, <2>2 DEF First
  <2>4. dev'.running = play[p].before.image
    BY <2>3, RollbackBoots DEF FlippedBy
  <2>5. play[p].before.running = play[p].before.image
    BY <2>2 DEF Began
  <2>6. QED
    BY <2>4, <2>5
<1> HIDE DEF Back
<1>8. Spec => [][Back]_vars
  BY <1>1, <1>2, <1>3, <1>4, <1>5, <1>6, <1>7, TurnsInit, KnownInit, OrderedInit,
     ReturningInit, LeveledInit, PlaysTypeCorrect, PTL DEF Spec
<1>9. QED
  BY <1>8 DEF RollbackReturnsToPrior, Back

----------------------------------------------------------------------------
(***************************************************************************)
(* Without faults no play is aborted.  Where no request is lost, no chaos  *)
(* flag is raised and both poll budgets cover what they wait for, to the   *)
(* second, every assertion of every play finds what it asks for: the       *)
(* device is spotless, each play is right about the volume and the version *)
(* it works on, and a reboot is waited for until it is over.               *)
(***************************************************************************)
Budgeted ==
    /\ ~Lossy /\ Injected = {}
    /\ InstallTime <= InstallRetries * PollDelay
    /\ RebootTime <= BootRetries * PollDelay

Serving == {"ACTIVE", "STANDBY"}

InSync == "In Sync"

Spotless(d) ==
    /\ d.chaos = {} /\ d.sync = InSync /\ d.ha \in Serving
    /\ \A i \in DOMAIN d.ops : ~d.ops[i].willFail /\ d.ops[i].status # "failed"

Confident(s, d) ==
    /\ s.pc # "failed"
    /\ s.pc \in {"sync", "perf"} => s.sawHA \in Serving
    /\ s.pc = "perf" => s.sawSync = InSync
    /\ s.pc = "poll_install" => d.ops[Len(d.ops)].version = s.version
    /\ s.pc = "activate" => d.image[s.volume] = s.version
    /\ s.pc \in {"reboot", "poll_version"} => d.image[ActiveVolume(d)] = s.version
    /\ s.pc \in {"gate_failover", "gate_sync"} => s.sawVersion = s.version

Reboots(s, d) ==
    s.pc = "poll_version" => /\ d.reboot <= s.tries * PollDelay + s.sleep
                             /\ d.reboot = NoReboot => d.running = s.version

Awaited(s, d) == d.reboot = NoReboot \/ s.pc = "poll_version"

Faultless ==
    /\ Spotless(dev)
    /\ \A p \in Plays : Confident(play[p], dev) /\ Reboots(play[p], dev)
    /\ dev.reboot = NoReboot \/ \E p \in Plays : Awaited(play[p], dev)

\* Settling, and the clock, leave no spot on a device.
LEMMA SpotlessPasses ==
    ASSUME NEW d, Sound(d), Spotless(d)
    PROVE  Spotless(Advance(d)) /\ Spotless(Elapse(d))
<1> DEFINE a == Advance(d)
           e == Elapse(d)
<1>a. d \in Device /\ Quiet(d) /\ "post_boot_unhealthy" \notin d.chaos
  BY DEF Sound, Spotless
<1>1. /\ a.chaos = {} /\ a.ha \in Serving /\ (d.reboot # 0 => a.sync = d.sync)
  BY <1>a, QuietAdvance DEF Spotless, Serving
<1>2. d.reboot = 0 => a.sync = "In Sync"
  BY <1>a, QuietAdvance, Zenon
<1>3. a.sync = InSync
  BY <1>1, <1>2, Zenon DEF InSync, Spotless
<1>4. \A i \in DOMAIN a.ops : ~a.ops[i].willFail /\ a.ops[i].status # "failed"
  BY <1>a, SettledOps DEF Spotless
<1>5. /\ e.chaos = d.chaos /\ e.ha = d.ha /\ e.sync = d.sync
  BY <1>a, ElapsedFields
<1>6. \A i \in DOMAIN e.ops : ~e.ops[i].willFail /\ e.ops[i].status # "failed"
  BY <1>a, ElapsedOps DEF Spotless
<1> HIDE DEF a, e
<1>7. QED
  BY <1>1, <1>3, <1>4, <1>5, <1>6 DEF Spotless, a, e

\* What leaves these fields alone leaves a device spotless.
LEMMA SameSpotless ==
    ASSUME NEW d, NEW e, Spotless(d), e.chaos = d.chaos, e.sync = d.sync, e.ops = d.ops,
           e.ha \in Serving
    PROVE  Spotless(e)
BY DEF Spotless

\* Settling, and the clock, leave a play confident.
LEMMA ConfidentPasses ==
    ASSUME NEW s \in PlayState, NEW d, Sound(d), Settled(d) \/ s.pc # "activate", Confident(s, d),
           s.pc = "poll_install" => LastOn(d, s.volume)
    PROVE  Confident(s, Advance(d)) /\ Confident(s, Elapse(d))
<1> DEFINE a == Advance(d)
           e == Elapse(d)
           n == Len(d.ops)
<1>a. d \in Device /\ s.volume \in Volumes
  BY DEF Sound, PlayState
<1>1. Len(a.ops) = n /\ Len(e.ops) = n
  BY SoundAdvance
<1>2. s.pc = "poll_install" => n \in DOMAIN d.ops
  BY <1>a, OpTypes DEF LastOn
<1>3. \A i \in DOMAIN d.ops : a.ops[i].version = d.ops[i].version /\ e.ops[i].version = d.ops[i].version
  BY <1>a, SettledOps, ElapsedOps
<1>4. s.pc = "activate" => NoneOn(d, s.volume)
  BY DEF Settled, NoneOn
<1>5. s.pc = "activate" => a.image[s.volume] = d.image[s.volume] /\ e.image[s.volume] = d.image[s.volume]
  BY <1>a, <1>4, ImageKept
<1>6. ActiveVolume(a) = ActiveVolume(d) /\ ActiveVolume(e) = ActiveVolume(d)
  BY <1>a, AdvanceActive, ElapseActive DEF ActiveVolume
<1>7. a.image[ActiveVolume(d)] = d.image[ActiveVolume(d)] /\ e.image[ActiveVolume(d)] = d.image[ActiveVolume(d)]
  BY SoundActive, ImageKept
<1> HIDE DEF a, e, n
<1>8. /\ s.pc = "poll_install" => a.ops[Len(a.ops)].version = s.version
      /\ s.pc = "poll_install" => e.ops[Len(e.ops)].version = s.version
  BY <1>1, <1>2, <1>3 DEF Confident, n
<1>9. Confident(s, a)
  BY <1>5, <1>6, <1>7, <1>8 DEF Confident
<1>10. Confident(s, e)
  BY <1>5, <1>6, <1>7, <1>8 DEF Confident
<1>11. QED
  BY <1>9, <1>10 DEF a, e

(***************************************************************************)
(* A play that is about to send its next request, and what it has reached  *)
(* when the request is answered.                                           *)
(***************************************************************************)
Ready(p) ==
    /\ TypeOK /\ Budgeted /\ p \in Plays
    /\ Sound(dev) /\ Spotless(dev) /\ Awaited(play[p], dev)
    /\ Settled(dev) \/ play[p].pc = "poll_install"
    /\ Route(play[p], dev) /\ Waits(play[p], dev) /\ KnowsDevice(play[p], dev)
    /\ Confident(play[p], dev) /\ Reboots(play[p], dev)

Reached(p) ==
    /\ Spotless(dev') /\ Awaited(play'[p], dev')
    /\ Confident(play'[p], dev') /\ Reboots(play'[p], dev')

\* What a request finds.
LEMMA ReadyFields ==
    ASSUME NEW p, Ready(p)
    PROVE  LET d == Advance(dev)
               s == play[p]
           IN /\ s \in PlayState /\ s.volume \in Volumes /\ s.version \in Versions
              /\ Sound(d) /\ d \in Device /\ Spotless(d) /\ Confident(s, d)
              /\ s.pc # "poll_version" => /\ dev.reboot = NoReboot /\ d.reboot = NoReboot
                                          /\ ~IsRebooting(d)
                                          /\ d.running = dev.running /\ d.ha = dev.ha
<1>1. play[p] \in PlayState /\ dev \in Device /\ Sound(dev) /\ Quiet(dev)
  BY DEF Ready, TypeOK, Sound
<1>2. Sound(Advance(dev)) /\ Advance(dev) \in Device
  BY <1>1, SoundAdvance DEF Sound
<1>3. Spotless(Advance(dev))
  BY SpotlessPasses DEF Ready
<1>4. Confident(play[p], Advance(dev))
  BY <1>1, ConfidentPasses DEF Ready, Route
<1>5. play[p].pc # "poll_version" => dev.reboot = NoReboot
  BY DEF Ready, Awaited
<1>6. dev.reboot = NoReboot => /\ Advance(dev).reboot = NoReboot
                               /\ Advance(dev).running = dev.running /\ Advance(dev).ha = dev.ha
  BY <1>1, NotRebooting
<1>7. NoReboot <= 0
  BY DEF NoReboot
<1>8. Advance(dev).reboot = NoReboot => ~IsRebooting(Advance(dev))
  BY <1>7 DEF IsRebooting, NoReboot
<1>9. QED
  BY <1>1, <1>2, <1>3, <1>4, <1>5, <1>6, <1>8 DEF PlayState

\* Every request but the version poll is answered.
LEMMA ReadyAnswers ==
    ASSUME NEW p, Ready(p), play[p].pc # "poll_version", NEW after, NEW next, Uri(p, after, next)
    PROVE  dev' = after /\ play'[p] = next
<1>1. TypeOK /\ Quiet(dev) /\ ~Lossy /\ dev.reboot = NoReboot /\ p \in Plays
  BY ReadyFields DEF Ready, Sound, Budgeted
<1>2. QED
  BY <1>1, UriAnswers

\* Places at which a play counts on nothing it has read.
Plain == {"failover", "ucs", "volumes", "image", "install", "gate_version", "post_version",
          "plan", "ok", "fo_trigger"}

LEMMA PlainReached ==
    ASSUME NEW p, play'[p].pc \in Plain, Spotless(dev'), dev'.reboot = NoReboot
    PROVE  Reached(p)
BY DEF Reached, Plain, Confident, Reboots, Awaited

LEMMA PreflightReaches ==
    ASSUME NEW p, Ready(p), Preflight(p) \/ Backup(p)
    PROVE  Reached(p)
<1> DEFINE d == Advance(dev)
           s == play[p]
           t == play'[p]
<1>a. /\ s \in PlayState /\ d \in Device /\ Spotless(d)
      /\ s.pc # "poll_version" => d.reboot = NoReboot
      /\ Confident(s, d)
  BY ReadyFields
<1>b. s.pc # "poll_version"
  BY DEF Preflight, PreflightVersion, PreflightFailover, PreflightSync, PreflightPerf, Backup, At
<1>c. /\ Goto(p, "failover") \in PlayState /\ Goto(p, "sync") \in PlayState
      /\ Goto(p, "perf") \in PlayState
      /\ Goto(p, "failover").pc = "failover" /\ Goto(p, "sync").pc = "sync"
      /\ Goto(p, "perf").pc = "perf" /\ Goto(p, "perf").sawHA = s.sawHA
      /\ Goto(p, "ucs").pc = "ucs" /\ Goto(p, "volumes").pc = "volumes"
  BY <1>a DEF Goto, PlayState, Requests
<1>d. d.ha \in Serving /\ d.sync = InSync
  BY <1>a DEF Spotless
<1>e. "failover" \in Plain /\ "ucs" \in Plain /\ "volumes" \in Plain
  BY DEF Plain
<1>1. CASE PreflightVersion(p)
  <2>1. dev' = d /\ t = [Goto(p, "failover") EXCEPT !.before = Boots(d)]
    BY <1>1, <1>b, ReadyAnswers DEF PreflightVersion
  <2>2. t.pc = "failover"
    BY <1>c, <2>1 DEF PlayState
  <2>3. QED
    BY <1>a, <1>b, <1>e, <2>1, <2>2, PlainReached
<1>2. CASE PreflightFailover(p)
  <2>1. dev' = d /\ t = [Goto(p, "sync") EXCEPT !.sawHA = d.ha]
    BY <1>2, <1>b, ReadyAnswers DEF PreflightFailover
  <2>2. t.pc = "sync" /\ t.sawHA = d.ha
    BY <1>c, <2>1 DEF PlayState
  <2> HIDE DEF d, s, t
  <2>3. Confident(t, d) /\ Reboots(t, d) /\ Awaited(t, d)
    BY <1>a, <1>b, <1>d, <2>2 DEF Confident, Reboots, Awaited
  <2>4. QED
    BY <1>a, <2>1, <2>3 DEF Reached, t
<1>3. CASE PreflightSync(p)
  <2>1. dev' = d /\ t = [Goto(p, "perf") EXCEPT !.sawSync = d.sync]
    BY <1>3, <1>b, ReadyAnswers DEF PreflightSync
  <2>2. t.pc = "perf" /\ t.sawHA = s.sawHA /\ t.sawSync = d.sync
    BY <1>c, <2>1 DEF PlayState
  <2>3. s.sawHA \in Serving
    BY <1>3, <1>a DEF PreflightSync, At, Confident
  <2> HIDE DEF d, s, t
  <2>4. Confident(t, d) /\ Reboots(t, d) /\ Awaited(t, d)
    BY <1>a, <1>b, <1>d, <2>2, <2>3 DEF Confident, Reboots, Awaited
  <2>5. QED
    BY <1>a, <2>1, <2>4 DEF Reached, t
<1>4. CASE PreflightPerf(p)
  <2> DEFINE passed == s.sawHA # "FORCED OFFLINE" /\ s.sawSync = "In Sync"
  <2>1. dev' = d /\ t = Either(passed, p, "ucs")
    BY <1>4, <1>b, ReadyAnswers DEF PreflightPerf
  <2>2. s.sawHA \in Serving /\ s.sawSync = InSync
    BY <1>4, <1>a DEF PreflightPerf, At, Confident
  <2>3. passed
    BY <2>2, Zenon DEF Serving, InSync
  <2> HIDE DEF passed
  <2>4. t.pc = "ucs"
    BY <1>c, <2>1, <2>3 DEF Either
  <2>5. QED
    BY <1>a, <1>b, <1>e, <2>1, <2>4, PlainReached
<1>5. CASE Backup(p)
  <2>1. dev' = [d EXCEPT !.backups = d.backups + 1] /\ t = Goto(p, "volumes")
    BY <1>5, <1>b, ReadyAnswers DEF Backup
  <2> HIDE DEF d
  <2>2. /\ dev'.chaos = d.chaos /\ dev'.sync = d.sync /\ dev'.ops = d.ops /\ dev'.ha = d.ha
        /\ dev'.reboot = d.reboot
    BY <1>a, <2>1 DEF Device
  <2>3. Spotless(dev')
    BY <1>a, <1>d, <2>2, SameSpotless
  <2>4. QED
    BY <1>a, <1>b, <1>c, <1>e, <2>1, <2>2, <2>3, PlainReached
<1>6. QED
  BY <1>1, <1>2, <1>3, <1>4, <1>5 DEF Preflight

\* The newest operation of a device on which an install has just been started.
LEMMA InstallStarted ==
    ASSUME NEW d, Sound(d), Spotless(d), NEW v \in Volumes, NEW version \in Versions
    PROVE  LET e == StartInstall(d, v, version)
           IN Spotless(e) /\ e.reboot = d.reboot /\ e.ops[Len(e.ops)].version = version
<1> DEFINE e == StartInstall(d, v, version)
           n == Len(d.ops)
           o == [volume |-> v, version |-> version, left |-> InstallTime,
                 willFail |-> "fail_next_install" \in d.chaos, status |-> "in progress"]
<1>a. d \in Device
  BY DEF Sound
<1>1. e \in Device
  BY <1>a, StartInstallType
<1>2. DOMAIN e.ops = 1..(n + 1) /\ (\A i \in DOMAIN d.ops : e.ops[i] = d.ops[i]) /\ e.ops[n + 1] = o
  BY <1>a, StartedOps
<1>3. n \in Nat /\ DOMAIN d.ops = 1..n /\ e.ops \in Seq(Operation)
  BY <1>a, <1>1, OpTypes
<1>4. o.version = version /\ ~o.willFail /\ o.status # "failed"
  BY DEF Spotless
<1>5. e.reboot = d.reboot /\ e.sync = d.sync /\ e.ha = d.ha /\ e.chaos = d.chaos \ {"fail_next_install"}
  BY <1>a DEF StartInstall, Device
<1> HIDE DEF e, n, o
<1>6. Len(e.ops) = n + 1
  BY <1>2, <1>3
<1>7. \A i \in DOMAIN e.ops : (i \in DOMAIN d.ops /\ e.ops[i] = d.ops[i]) \/ e.ops[i] = o
  BY <1>2, <1>3
<1>8. Spotless(e)
  BY <1>4, <1>5, <1>7 DEF Spotless
<1>9. QED
  BY <1>2, <1>4, <1>5, <1>6, <1>8 DEF e

LEMMA InstallReaches ==
    ASSUME NEW p, Ready(p), ImageInstall(p)
    PROVE  Reached(p)
<1> DEFINE d == Advance(dev)
           s == play[p]
           t == play'[p]
<1>a. /\ s \in PlayState /\ d \in Device /\ Sound(d) /\ Spotless(d)
      /\ s.volume \in Volumes /\ s.version \in Versions
      /\ s.pc # "poll_version" => d.reboot = NoReboot
      /\ Confident(s, d)
  BY ReadyFields
<1>b. s.pc # "poll_version"
  BY DEF ImageInstall, DiscoverVolume, RegisterImage, KickOffInstall, PollInstall, At
<1>c. /\ Goto(p, "image") \in PlayState /\ Goto(p, "poll_install") \in PlayState
      /\ Goto(p, "image").pc = "image" /\ Goto(p, "install").pc = "install"
      /\ Goto(p, "poll_install").pc = "poll_install"
      /\ Goto(p, "poll_install").version = s.version
      /\ Goto(p, "activate").pc = "activate"
      /\ Goto(p, "activate").volume = s.volume /\ Goto(p, "activate").version = s.version
  BY <1>a DEF Goto, PlayState, Requests
<1>d. "image" \in Plain /\ "install" \in Plain
  BY DEF Plain
<1>1. CASE DiscoverVolume(p)
  <2>1. dev' = d /\ t = [Goto(p, "image") EXCEPT !.volume = InactiveVolume(d)]
    BY <1>1, <1>b, ReadyAnswers DEF DiscoverVolume
  <2>2. t.pc = "image"
    BY <1>c, <2>1 DEF PlayState
  <2>3. QED
    BY <1>a, <1>b, <1>d, <2>1, <2>2, PlainReached
<1>2. CASE RegisterImage(p)
  <2>1. dev' = d /\ t = Goto(p, "install")
    BY <1>2, <1>b, ReadyAnswers DEF RegisterImage
  <2>2. QED
    BY <1>a, <1>b, <1>c, <1>d, <2>1, PlainReached
<1>3. CASE KickOffInstall(p)
  <2>1. /\ dev' = StartInstall(d, s.volume, s.version)
        /\ t = [Goto(p, "poll_install") EXCEPT !.tries = InstallRetries]
    BY <1>3, <1>b, ReadyAnswers DEF KickOffInstall
  <2>2. t.pc = "poll_install" /\ t.version = s.version
    BY <1>c, <2>1 DEF PlayState
  <2>3. /\ Spotless(dev') /\ dev'.reboot = d.reboot
        /\ dev'.ops[Len(dev'.ops)].version = s.version
    BY <1>a, <2>1, InstallStarted
  <2> HIDE DEF d, s, t
  <2>4. Confident(t, dev') /\ Reboots(t, dev') /\ Awaited(t, dev')
    BY <1>a, <1>b, <2>2, <2>3 DEF Confident, Reboots, Awaited
  <2>5. QED
    BY <2>3, <2>4 DEF Reached, t
<1>4. CASE PollInstall(p)
  <2> DEFINE n == Len(d.ops)
             status == VolumeStatus(d, s.volume)
  <2>1. /\ dev' = d
        /\ t = CASE status = "complete"    -> Goto(p, "activate")
                 [] status = "failed"      -> Goto(p, "failed")
                 [] status = "in progress" -> Again(p)
    BY <1>4, <1>b, ReadyAnswers DEF PollInstall
  <2>2. s.pc = "poll_install" /\ s.sleep = 0
    BY <1>4 DEF PollInstall, At
  <2>3. LastOn(d, s.volume)
    BY <2>2, InstallsPass DEF Ready, Route
  <2>4. /\ OpsOn(d, s.volume) # {} /\ Newest(OpsOn(d, s.volume)) = n
        /\ status = d.ops[n].status /\ n \in DOMAIN d.ops
    BY <1>a, <2>3, LastIsNewest
  <2>5. status \in {"complete", "in progress"}
    BY <1>a, <2>4, StatusType DEF Spotless
  <2>6. d.ops[n].version = s.version
    BY <1>a, <2>2 DEF Confident
  <2>7. CASE status = "complete"
    <3>1. d.image[s.volume] = s.version
      BY <1>a, <2>4, <2>6, <2>7 DEF Sound, Installs, ImagesMatch
    <3>2. t = Goto(p, "activate")
      BY <2>1, <2>7
    <3>3. t.pc = "activate" /\ t.volume = s.volume /\ t.version = s.version
      BY <1>c, <3>2
    <3> HIDE DEF d, s, t
    <3>4. Confident(t, d) /\ Reboots(t, d) /\ Awaited(t, d)
      BY <1>a, <1>b, <3>1, <3>3 DEF Confident, Reboots, Awaited
    <3>5. QED
      BY <1>a, <2>1, <3>4 DEF Reached, t
  <2>8. CASE status # "complete"
    <3>1. t = Again(p)
      <4> HIDE DEF d, s, t, status
      <4>1. QED
        BY <2>1, <2>5, <2>8
    <3>2. Settled(dev') \/ t.pc = "poll_install"
      BY <1>4, PollWaits DEF Ready, Budgeted
    <3>3. ~Settled(d)
      BY <2>4, <2>5, <2>8 DEF Settled
    <3>4. t.pc = "poll_install"
      BY <2>1, <3>2, <3>3
    <3>5. t.version = s.version
      BY <2>2, <3>1, <3>4, AgainCounts DEF Ready
    <3> HIDE DEF d, s, t, n
    <3>6. Confident(t, d) /\ Reboots(t, d) /\ Awaited(t, d)
      BY <1>a, <1>b, <2>6, <3>4, <3>5 DEF Confident, Reboots, Awaited, n
    <3>7. QED
      BY <1>a, <2>1, <3>6 DEF Reached, t
  <2>9. QED
    BY <2>7, <2>8
<1>5. QED
  BY <1>1, <1>2, <1>3, <1>4 DEF ImageInstall

LEMMA BootSwitchReaches ==
    ASSUME NEW p, Ready(p), BootSwitch(p)
    PROVE  Reached(p)
<1> DEFINE d == Advance(dev)
           s == play[p]
           t == play'[p]
<1>a. /\ s \in PlayState /\ d \in Device /\ Sound(d) /\ Spotless(d)
      /\ s.volume \in Volumes /\ s.version \in Versions
      /\ s.pc # "poll_version" => d.reboot = NoReboot
      /\ Confident(s, d)
  BY ReadyFields
<1>b. Budgeted /\ TypeOK /\ p \in Plays
  BY DEF Ready
<1>c. /\ Goto(p, "reboot") \in PlayState /\ Goto(p, "poll_version") \in PlayState
      /\ Goto(p, "reboot").pc = "reboot" /\ Goto(p, "reboot").version = s.version
      /\ Goto(p, "poll_version").pc = "poll_version"
      /\ Goto(p, "poll_version").version = s.version /\ Goto(p, "poll_version").sleep = s.sleep
      /\ Goto(p, "gate_version").pc = "gate_version"
  BY <1>a DEF Goto, PlayState, Requests
<1>d. d.ha \in Serving
  BY <1>a DEF Spotless
<1>1. CASE Activate(p)
  <2>0. s.pc = "activate"
    BY <1>1 DEF Activate, At
  <2>1. /\ dev' = ActivateVolume(d, s.volume)
        /\ t = [Goto(p, "reboot") EXCEPT !.activated = TRUE]
    BY <1>1, <2>0, ReadyAnswers DEF Activate
  <2>2. t.pc = "reboot" /\ t.version = s.version
    BY <1>c, <2>1 DEF PlayState
  <2> HIDE DEF d, s, t
  <2>3. /\ dev'.chaos = d.chaos /\ dev'.sync = d.sync /\ dev'.ops = d.ops /\ dev'.ha = d.ha
        /\ dev'.reboot = d.reboot /\ dev'.image = d.image /\ dev'.active = {s.volume}
    BY <1>a, <2>1 DEF ActivateVolume, Device
  <2>4. Spotless(dev')
    BY <1>a, <1>d, <2>3, SameSpotless
  <2>5. ActiveVolume(dev') = s.volume
    BY <1>a, <2>3 DEF ActiveVolume, Volumes
  <2>6. d.image[s.volume] = s.version
    BY <1>a, <2>0 DEF Confident
  <2>7. Confident(t, dev') /\ Reboots(t, dev') /\ Awaited(t, dev')
    BY <1>a, <2>0, <2>2, <2>3, <2>5, <2>6 DEF Confident, Reboots, Awaited
  <2>8. QED
    BY <2>4, <2>7 DEF Reached, t
<1>2. CASE Reboot(p)
  <2>0. s.pc = "reboot" /\ s.sleep = 0
    BY <1>2 DEF Reboot, At
  <2>1. /\ dev' = StartReboot(d)
        /\ t = [Goto(p, "poll_version") EXCEPT !.tries = BootRetries]
    BY <1>2, <2>0, ReadyAnswers DEF Reboot
  <2>2. t.pc = "poll_version" /\ t.version = s.version /\ t.tries = BootRetries /\ t.sleep = 0
    BY <1>c, <2>0, <2>1 DEF PlayState
  <2> HIDE DEF d, s, t
  <2>3. "slow_reboot" \notin d.chaos /\ d.chaos = {}
    BY <1>a DEF Spotless
  <2>4. /\ dev'.chaos = d.chaos \ {"slow_reboot"} /\ dev'.sync = d.sync /\ dev'.ops = d.ops
        /\ dev'.ha = d.ha /\ dev'.image = d.image /\ dev'.active = d.active
        /\ dev'.reboot = RebootTime
    BY <1>a, <2>1, <2>3 DEF StartReboot, Device
  <2>5. Spotless(dev')
    BY <1>a, <1>d, <2>3, <2>4, SameSpotless
  <2>6. dev'.image[ActiveVolume(dev')] = s.version
    BY <1>a, <2>0, <2>4 DEF ActiveVolume, Confident
  <2>7. /\ BootRetries * PollDelay \in Nat /\ RebootTime \in Nat
        /\ RebootTime <= BootRetries * PollDelay
    BY <1>b, OneAttempt, PlaysAssumption, TimingAssumption DEF Budgeted
  <2>8. /\ dev'.reboot <= t.tries * PollDelay + t.sleep /\ dev'.reboot # NoReboot
    BY <2>2, <2>4, <2>7 DEF NoReboot
  <2>9. Confident(t, dev') /\ Reboots(t, dev') /\ Awaited(t, dev')
    BY <2>2, <2>6, <2>8 DEF Confident, Reboots, Awaited
  <2>10. QED
    BY <2>5, <2>9 DEF Reached, t
<1>3. CASE PollVersion(p)
  <2> DEFINE budget == s.tries * PollDelay
  <2>0. s.pc = "poll_version" /\ s.sleep = 0
    BY <1>3 DEF PollVersion, At
  <2>1. /\ dev' = d
        /\ t = IF ~IsRebooting(d) /\ d.running = s.version
                 THEN Goto(p, "gate_version") ELSE Again(p)
    BY <1>3, <1>b DEF PollVersion, Become, Budgeted, TypeOK
  <2>2. d.image[ActiveVolume(d)] = s.version
    BY <1>a, <2>0 DEF Confident
  <2>3. ActiveVolume(d) = ActiveVolume(dev) /\ dev \in Device /\ Quiet(dev) /\ dev.reboot \in Int
    BY AdvanceActive DEF Ready, Sound, ActiveVolume, Device, NoReboot
  <2>4. /\ dev.reboot = 0 => d.reboot = NoReboot /\ d.running = s.version
        /\ dev.reboot # 0 => d.reboot = dev.reboot /\ d.running = dev.running
    BY <2>2, <2>3, QuietAdvance
  <2>5. s.tries \in Nat /\ budget \in Nat /\ (s.tries = 0 => budget = 0)
    BY <1>a, OneAttempt DEF PlayState
  <2>6. dev.reboot <= budget /\ (dev.reboot = NoReboot => dev.running = s.version)
    BY <2>0, <2>3, <2>5 DEF Ready, Reboots
  <2>7. dev.reboot > 0 \/ dev.reboot = 0 \/ dev.reboot = NoReboot
    BY <2>3 DEF Device, NoReboot
  <2>8. d.reboot = dev.reboot \/ d.reboot = NoReboot
    BY <2>4
  <2> HIDE DEF d, t, budget
  <2>9. CASE ~IsRebooting(d)
    <3>1. d.reboot = NoReboot /\ d.running = s.version
      BY <2>4, <2>6, <2>7, <2>9 DEF IsRebooting, NoReboot
    <3>2. t = Goto(p, "gate_version")
      BY <2>1, <2>9, <3>1
    <3>3. t.pc \in Plain
      BY <1>c, <3>2 DEF Plain
    <3>4. QED
      BY <1>a, <2>1, <3>1, <3>3, PlainReached DEF t
  <2>10. CASE IsRebooting(d)
    <3>1. d.reboot > 0 /\ d.reboot = dev.reboot
      BY <2>8, <2>10 DEF IsRebooting, NoReboot
    <3>2. s.tries # 0
      <4>1. dev.reboot \in Int /\ dev.reboot > 0 /\ dev.reboot <= budget
        BY <2>3, <2>6, <3>1
      <4>2. budget # 0
        BY <4>1
      <4>3. QED
        BY <2>5, <4>2
    <3>3. t = Again(p)
      BY <2>1, <2>10
    <3>4. t.pc = "poll_version" /\ t.tries * PollDelay + t.sleep = budget /\ t.version = s.version
      BY <1>b, <2>0, <3>2, <3>3, AgainCounts DEF budget
    <3>5. d.reboot <= t.tries * PollDelay + t.sleep /\ d.reboot # NoReboot
      BY <2>6, <3>1, <3>4 DEF NoReboot
    <3>6. Confident(t, d) /\ Reboots(t, d) /\ Awaited(t, d)
      BY <2>2, <3>4, <3>5 DEF Confident, Reboots, Awaited
    <3>7. QED
      BY <1>a, <2>1, <3>6 DEF Reached, t
  <2>11. QED
    BY <2>9, <2>10
<1>4. QED
  BY <1>1, <1>2, <1>3 DEF BootSwitch

\* The gate and the postcheck find the version the play has waited for, on a device
\* that is healthy and reports no drift.
LEMMA GateReaches ==
    ASSUME NEW p, Ready(p), Gate(p) \/ Postcheck(p)
    PROVE  Reached(p)
<1> DEFINE d == Advance(dev)
           s == play[p]
           t == play'[p]
<1>a. /\ s \in PlayState /\ d \in Device /\ Spotless(d) /\ Confident(s, d)
      /\ s.pc # "poll_version" => /\ d.reboot = NoReboot
                                  /\ d.running = dev.running /\ d.ha = dev.ha
  BY ReadyFields
<1>b. s.pc \in GateSteps
  BY DEF Gate, GateVersion, GateFailover, GateSync, Postcheck, PostcheckVersion, PostcheckPlan,
     At, GateSteps
<1>c. s.pc # "poll_version"
  BY <1>b DEF GateSteps
<1>d. d.running = s.version /\ (s.pc = "gate_sync" => s.sawHA = d.ha)
  BY <1>a, <1>b, <1>c DEF Ready, KnowsDevice
<1>e. d.ha \in Serving /\ d.sync = InSync /\ d.chaos = {}
  BY <1>a DEF Spotless
<1>f. /\ Goto(p, "gate_failover") \in PlayState /\ Goto(p, "gate_sync") \in PlayState
      /\ Goto(p, "gate_failover").pc = "gate_failover"
      /\ Goto(p, "gate_failover").version = s.version
      /\ Goto(p, "gate_sync").pc = "gate_sync" /\ Goto(p, "gate_sync").version = s.version
      /\ Goto(p, "gate_sync").sawVersion = s.sawVersion
      /\ Goto(p, "post_version").pc = "post_version" /\ Goto(p, "plan").pc = "plan"
      /\ Goto(p, "ok").pc = "ok"
  BY <1>a DEF Goto, PlayState, Requests
<1>1. CASE GateVersion(p)
  <2>1. dev' = d /\ t = [Goto(p, "gate_failover") EXCEPT !.sawVersion = d.running]
    BY <1>1, <1>c, ReadyAnswers DEF GateVersion
  <2>2. t.pc = "gate_failover" /\ t.sawVersion = d.running /\ t.version = s.version
    BY <1>f, <2>1 DEF PlayState
  <2> HIDE DEF d, s, t
  <2>3. Confident(t, d) /\ Reboots(t, d) /\ Awaited(t, d)
    BY <1>a, <1>c, <1>d, <2>2 DEF Confident, Reboots, Awaited
  <2>4. QED
    BY <1>a, <2>1, <2>3 DEF Reached, t
<1>2. CASE GateFailover(p)
  <2>1. dev' = d /\ t = [Goto(p, "gate_sync") EXCEPT !.sawHA = d.ha]
    BY <1>2, <1>c, ReadyAnswers DEF GateFailover
  <2>2. t.pc = "gate_sync" /\ t.sawVersion = s.sawVersion /\ t.version = s.version
    BY <1>f, <2>1 DEF PlayState
  <2>3. s.sawVersion = s.version
    BY <1>2, <1>a DEF GateFailover, At, Confident
  <2> HIDE DEF d, s, t
  <2>4. Confident(t, d) /\ Reboots(t, d) /\ Awaited(t, d)
    BY <1>a, <1>c, <2>2, <2>3 DEF Confident, Reboots, Awaited
  <2>5. QED
    BY <1>a, <2>1, <2>4 DEF Reached, t
<1>3. CASE GateSync(p)
  <2> DEFINE next == IF s.kind = "upgrade" THEN "post_version" ELSE "ok"
  <2>1. dev' = d /\ t = Either(HealthGate(p, d.sync), p, next)
    BY <1>3, <1>c, ReadyAnswers DEF GateSync
  <2>2. s.sawVersion = s.version /\ s.sawHA \in Serving
    BY <1>3, <1>a, <1>d, <1>e DEF GateSync, At, Confident
  <2>3. s.sawHA # "FORCED OFFLINE" /\ d.sync # "Disconnected"
    BY <1>e, <2>2, Zenon DEF Serving, InSync
  <2>4. HealthGate(p, d.sync)
    BY <2>2, <2>3, Zenon DEF HealthGate
  <2>5. t.pc \in Plain
    BY <1>f, <2>1, <2>4 DEF Either, Plain
  <2>6. QED
    BY <1>a, <1>c, <2>1, <2>5, PlainReached
<1>4. CASE PostcheckVersion(p)
  <2>1. dev' = d /\ t = Either(d.running = s.version, p, "plan")
    BY <1>4, <1>c, ReadyAnswers DEF PostcheckVersion
  <2>2. t.pc \in Plain
    BY <1>d, <1>f, <2>1 DEF Either, Plain
  <2>3. QED
    BY <1>a, <1>c, <2>1, <2>2, PlainReached
<1>5. CASE PostcheckPlan(p)
  <2>1. dev' = d /\ t = Either("drift_postcheck" \notin dev.chaos, p, "ok")
    BY <1>5, <1>c, ReadyAnswers DEF PostcheckPlan
  <2>2. dev.chaos = {}
    BY DEF Ready, Spotless
  <2>3. t.pc \in Plain
    BY <1>f, <2>1, <2>2 DEF Either, Plain
  <2>4. QED
    BY <1>a, <1>c, <2>1, <2>3, PlainReached
<1>6. QED
  BY <1>1, <1>2, <1>3, <1>4, <1>5 DEF Gate, Postcheck

\* rollback.yml waits for nobody, and a failover toggles between the two serving states.
LEMMA RestReaches ==
    ASSUME NEW p, Ready(p), RollbackVolumes(p) \/ Failover(p)
    PROVE  Reached(p)
<1> DEFINE d == Advance(dev)
           s == play[p]
           t == play'[p]
<1>a. /\ s \in PlayState /\ d \in Device /\ Spotless(d) /\ Confident(s, d)
      /\ s.pc # "poll_version" => d.reboot = NoReboot /\ ~IsRebooting(d)
  BY ReadyFields
<1>b. s.pc # "poll_version"
  BY DEF RollbackVolumes, Failover, FailoverStatus, FailoverTrigger, At
<1>c. /\ Goto(p, "activate") \in PlayState /\ Goto(p, "activate").pc = "activate"
      /\ Goto(p, "fo_trigger").pc = "fo_trigger" /\ Goto(p, "ok").pc = "ok"
  BY <1>a DEF Goto, PlayState, Requests
<1>1. CASE RollbackVolumes(p)
  <2> DEFINE v == InactiveVolume(d)
  <2>1. /\ dev' = d
        /\ t = [Goto(p, "activate") EXCEPT !.volume = v, !.version = d.image[v]]
    BY <1>1, <1>a, <1>b DEF RollbackVolumes, Become, Ready, TypeOK, Budgeted
  <2>2. t.pc = "activate" /\ t.volume = v /\ t.version = d.image[v]
    BY <1>c, <2>1 DEF PlayState
  <2> HIDE DEF d, s, t, v
  <2>3. Confident(t, d) /\ Reboots(t, d) /\ Awaited(t, d)
    BY <1>a, <1>b, <2>2 DEF Confident, Reboots, Awaited
  <2>4. QED
    BY <1>a, <2>1, <2>3 DEF Reached, t
<1>2. CASE FailoverStatus(p)
  <2>1. dev' = d /\ t = Goto(p, IF d.ha = "ACTIVE" THEN "fo_trigger" ELSE "ok")
    BY <1>2, <1>b, ReadyAnswers DEF FailoverStatus
  <2>2. t.pc \in Plain
    BY <1>c, <2>1 DEF Plain
  <2>3. QED
    BY <1>a, <1>b, <2>1, <2>2, PlainReached
<1>3. CASE FailoverTrigger(p)
  <2> DEFINE h == IF d.ha = "ACTIVE" THEN "STANDBY" ELSE "ACTIVE"
  <2>1. dev' = [d EXCEPT !.ha = h] /\ t = Goto(p, "ok")
    BY <1>3, <1>b, ReadyAnswers DEF FailoverTrigger
  <2>2. h \in Serving /\ t.pc \in Plain
    BY <1>c, <2>1 DEF Serving, Plain
  <2> HIDE DEF d, h
  <2>3. /\ dev'.chaos = d.chaos /\ dev'.sync = d.sync /\ dev'.ops = d.ops /\ dev'.ha = h
        /\ dev'.reboot = d.reboot
    BY <1>a, <2>1 DEF Device
  <2>4. Spotless(dev')
    BY <1>a, <2>2, <2>3, SameSpotless
  <2>5. QED
    BY <1>a, <1>b, <2>2, <2>3, <2>4, PlainReached
<1>4. QED
  BY <1>1, <1>2, <1>3 DEF Failover

\* A second brings a reboot and the pause of its poll nearer to their ends alike.
LEMMA RebootsElapse ==
    ASSUME TypeOK, Sound(dev), NEW p \in Plays, Tick, Reboots(play[p], dev)
    PROVE  Reboots(play'[p], dev')
<1> DEFINE s == play[p]
           t == play'[p]
           budget == s.tries * PollDelay
<1>a. s \in PlayState /\ s.sleep \in Nat /\ s.tries \in Nat /\ budget \in Nat
  BY OneAttempt DEF TypeOK, PlayState
<1>1. /\ t.pc = s.pc /\ t.tries = s.tries /\ t.version = s.version /\ t.sleep = Less(s.sleep)
  BY <1>a DEF Tick, PlayState
<1>2. dev'.reboot = Less(dev.reboot) /\ dev'.running = dev.running
  BY ElapsedFields DEF Tick, Sound
<1>3. dev.reboot \in Nat \/ dev.reboot = NoReboot
  BY DEF Sound, Device
<1>4. dev.reboot <= budget + s.sleep => Less(dev.reboot) <= budget + Less(s.sleep)
  BY <1>a, <1>3 DEF Less, NoReboot
<1>5. Less(dev.reboot) = NoReboot => dev.reboot = NoReboot
  BY <1>3 DEF Less, NoReboot
<1> HIDE DEF s, t
<1>6. Reboots(s, dev)
  BY DEF s
<1>7. Reboots(t, dev')
  BY <1>1, <1>2, <1>4, <1>5, <1>6 DEF Reboots, budget
<1>8. QED
  BY <1>7 DEF t

\* So nothing goes wrong.
LEMMA FaultlessStep ==
    ASSUME TypeOK, Serial, Budgeted, Turns, Known, Disciplined, Patience, Faultless, [Next]_vars
    PROVE  Faultless'
<1>a. \A p \in Plays : p \in Int
  BY PlayNumbers
<1>b. Sound(dev) /\ Spotless(dev)
  BY DEF Disciplined, Faultless
<1>1. ASSUME NEW p \in Plays, NEW kind \in Kinds, NEW target \in Targets, Launch(p, kind, target)
      PROVE  Faultless'
  <2>1. dev' = dev /\ play[p].pc = "idle" /\ \A q \in Plays : q # p => play'[q] = play[q]
    BY <1>1, LaunchMoves
  <2>2. play'[p].pc \in {"version", "rb_volumes", "fo_status"}
    BY <1>1, LaunchFields
  <2>3. Confident(play'[p], dev') /\ Reboots(play'[p], dev')
    BY <2>2 DEF Confident, Reboots
  <2>4. \A q \in Plays : Awaited(play[q], dev) => Awaited(play'[q], dev')
    BY <2>1 DEF Awaited
  <2>5. QED
    BY <2>1, <2>3, <2>4 DEF Faultless
<1>2. ASSUME NEW p \in Plays, Task(p) PROVE Faultless'
  <2>1. play[p].pc \in Requests /\ \A q \in Plays : q # p => play'[q] = play[q]
    BY <1>2, TaskMoves
  <2>2. \A q \in Plays : q # p => play[q].pc \in Ended \cup {"idle"}
    BY <1>a, <2>1, OthersAreAside
  <2>3. Awaited(play[p], dev)
    BY <2>2 DEF Faultless, Awaited, Ended
  <2>4. Settled(dev) \/ play[p].pc = "poll_install"
    BY <2>2 DEF Patience, Ended
  <2>5. Ready(p)
    BY <2>3, <2>4 DEF Ready, Faultless, Disciplined, Patience, Known
  <2>6. Reached(p)
    BY <1>2, <2>5, PreflightReaches, InstallReaches, BootSwitchReaches, GateReaches, RestReaches
    DEF Task
  <2>7. ASSUME NEW q \in Plays, q # p
        PROVE  Confident(play'[q], dev') /\ Reboots(play'[q], dev')
    <3>1. play'[q] = play[q] /\ play[q].pc \in {"ok", "failed", "idle"} /\ play[q].pc # "failed"
      BY <2>1, <2>2, <2>7 DEF Faultless, Confident, Ended
    <3>2. QED
      BY <3>1 DEF Confident, Reboots
  <2>8. QED
    BY <2>6, <2>7 DEF Reached, Faultless
<1>3. CASE Tick
  <2>1. dev' = Elapse(dev)
    BY <1>3 DEF Tick
  <2>2. Spotless(dev')
    BY <1>b, <2>1, SpotlessPasses
  <2>3. ASSUME NEW p \in Plays
        PROVE  /\ Confident(play'[p], dev') /\ Reboots(play'[p], dev')
               /\ Awaited(play[p], dev) => Awaited(play'[p], dev')
    <3>1. /\ play[p] \in PlayState /\ Confident(play[p], dev) /\ Reboots(play[p], dev)
          /\ Route(play[p], dev)
      BY DEF TypeOK, Faultless, Disciplined
    <3>2. play[p].pc = "activate" => Settled(dev)
      <4>1. SUFFICES ASSUME play[p].pc = "activate", NEW q \in Plays, play[q].pc = "poll_install"
                     PROVE  FALSE
        BY DEF Patience
      <4>2. q # p /\ play[p].pc \in Requests
        BY <4>1 DEF Requests
      <4>3. play[q].pc \in Ended \cup {"idle"}
        BY <1>a, <4>2, OthersAreAside
      <4>4. QED
        BY <4>1, <4>3 DEF Ended
    <3>3. Confident(play[p], dev')
      BY <1>b, <2>1, <3>1, <3>2, ConfidentPasses DEF Route
    <3>4. play'[p].pc = play[p].pc /\ Kept(play[p], play'[p])
      BY <1>3, ClockFields
    <3>5. /\ play'[p].sawHA = play[p].sawHA /\ play'[p].sawSync = play[p].sawSync
          /\ play'[p].sawVersion = play[p].sawVersion
      BY <1>3, <3>1 DEF Tick, PlayState
    <3>6. Confident(play'[p], dev')
      BY <3>3, <3>4, <3>5 DEF Confident, Kept
    <3>7. dev.reboot = NoReboot => dev'.reboot = NoReboot
      BY <1>b, <2>1, ElapsedFields DEF Sound, Less, NoReboot
    <3>8. QED
      BY <1>3, <1>b, <3>1, <3>4, <3>6, <3>7, RebootsElapse DEF Awaited
  <2>4. dev.reboot = NoReboot => dev'.reboot = NoReboot
    BY <1>b, <2>1, ElapsedFields DEF Sound, Less, NoReboot
  <2>5. QED
    BY <2>2, <2>3, <2>4 DEF Faultless
<1>4. ASSUME NEW flag \in Injected, Inject(flag) PROVE Faultless'
  BY DEF Budgeted
<1>5. CASE UNCHANGED vars
  BY <1>5 DEF vars, Faultless, Awaited
<1>6. QED
  BY <1>1, <1>2, <1>3, <1>4, <1>5 DEF Next

LEMMA FaultlessInit == Init => Faultless
<1>1. /\ Idle.pc = "idle" /\ Fresh.chaos = {} /\ Fresh.ha = "ACTIVE" /\ Fresh.reboot = NoReboot
      /\ Fresh.ops = << >>
  BY DEF Idle, Fresh, FreshWith
<1>2. Fresh.sync = InSync
  BY Zenon DEF Fresh, FreshWith, InSync
<1>3. DOMAIN Fresh.ops = {}
  BY <1>1
<1>4. Spotless(Fresh)
  BY <1>1, <1>2, <1>3 DEF Spotless, Serving
<1>5. QED
  BY <1>1, <1>4 DEF Init, Faultless, Confident, Reboots

\* Plays that run one after the other are never aborted where no request is lost, no
\* chaos flag is raised and the poll budgets cover the install and the reboot: a
\* budget of exactly that many seconds is enough, wherever the attempts fall.
THEOREM NoFalseAborts ==
    ASSUME Serial, Budgeted
    PROVE  Spec => []NoFalseAbort
<1>1. Patient /\ Calm
  BY DEF Budgeted, Patient, Calm
<1>2. TypeOK /\ Turns /\ [Next]_vars => Turns'
  BY TurnsStep
<1>3. TypeOK /\ Turns /\ Known /\ [Next]_vars => Known'
  BY KnownStep
<1>4. TypeOK /\ Turns /\ Ordered /\ [Next]_vars => Ordered'
  BY OrderedStep
<1>5. TypeOK /\ Turns /\ Known /\ Ordered /\ Faultless /\ [Next]_vars => Faultless'
  BY <1>1, FaultlessStep DEF Ordered
<1>6. Faultless => NoFalseAbort
  BY DEF Faultless, Confident, NoFalseAbort
<1>7. QED
  BY <1>2, <1>3, <1>4, <1>5, <1>6, TurnsInit, KnownInit, OrderedInit, FaultlessInit,
     PlaysTypeCorrect, PTL DEF Spec

----------------------------------------------------------------------------
(***************************************************************************)
(* The bounded half of PlaysEnd.  Whatever a play does, and whatever the   *)
(* clock and other plays do meanwhile, it has less to do afterwards: fewer *)
(* requests to go, or as many and fewer attempts, or as many of both and a *)
(* shorter pause.  What is left for fairness is that it goes on at all.    *)
(***************************************************************************)
Togo ==
    [idle |-> 18, version |-> 17, fo_status |-> 17, failover |-> 16, fo_trigger |-> 16,
     sync |-> 15, perf |-> 14, ucs |-> 13, volumes |-> 12, image |-> 11, install |-> 10,
     poll_install |-> 9, rb_volumes |-> 9, activate |-> 8, reboot |-> 7, poll_version |-> 6,
     gate_version |-> 5, gate_failover |-> 4, gate_sync |-> 3, post_version |-> 2, plan |-> 1,
     ok |-> 0, failed |-> 0]

GetsOn(s, t) ==
    \/ Togo[t.pc] < Togo[s.pc]
    \/ t.pc = s.pc /\ t.tries < s.tries /\ t.sleep = PollDelay
    \/ t.pc = s.pc /\ t.tries = s.tries /\ t.sleep < s.sleep

\* From every request it is fewer to the end of the play, and to the request after it.
LEMMA TogoFalls ==
    /\ \A pc \in Requests : Togo["ok"] < Togo[pc] /\ Togo["failed"] < Togo[pc]
    /\ \A pc \in Requests : Togo[pc] < Togo["idle"]
    /\ Togo["failover"] < Togo["version"] /\ Togo["sync"] < Togo["failover"]
    /\ Togo["perf"] < Togo["sync"] /\ Togo["ucs"] < Togo["perf"]
    /\ Togo["volumes"] < Togo["ucs"] /\ Togo["image"] < Togo["volumes"]
    /\ Togo["install"] < Togo["image"] /\ Togo["poll_install"] < Togo["install"]
    /\ Togo["activate"] < Togo["poll_install"] /\ Togo["activate"] < Togo["rb_volumes"]
    /\ Togo["reboot"] < Togo["activate"] /\ Togo["poll_version"] < Togo["reboot"]
    /\ Togo["gate_version"] < Togo["poll_version"]
    /\ Togo["gate_failover"] < Togo["gate_version"]
    /\ Togo["gate_sync"] < Togo["gate_failover"] /\ Togo["post_version"] < Togo["gate_sync"]
    /\ Togo["plan"] < Togo["post_version"] /\ Togo["fo_trigger"] < Togo["fo_status"]
BY DEF Togo, Requests

\* A play that fails has nothing to do any more.
LEMMA FailingGetsOn ==
    ASSUME NEW s, s.pc \in Requests, NEW next, "pc" \in DOMAIN next
    PROVE  GetsOn(s, [next EXCEPT !.pc = "failed"])
<1>1. [next EXCEPT !.pc = "failed"].pc = "failed"
  OBVIOUS
<1>2. Togo["failed"] < Togo[s.pc]
  BY TogoFalls
<1> HIDE DEF Togo
<1>3. QED
  BY <1>1, <1>2 DEF GetsOn

\* A request gets a play on if its answer does.
LEMMA UriGetsOn ==
    ASSUME TypeOK, NEW p \in Plays, play[p].pc \in Requests, NEW after, NEW next,
           "pc" \in DOMAIN next, GetsOn(play[p], next), Uri(p, after, next)
    PROVE  GetsOn(play[p], play'[p])
<1>1. "pc" \in DOMAIN play[p]
  BY DEF TypeOK, PlayState
<1>2. /\ GetsOn(play[p], [play[p] EXCEPT !.pc = "failed"])
      /\ GetsOn(play[p], [next EXCEPT !.pc = "failed"])
  BY <1>1, FailingGetsOn
<1>3. \/ play'[p] = next \/ play'[p] = [next EXCEPT !.pc = "failed"]
      \/ play'[p] = [play[p] EXCEPT !.pc = "failed"]
  BY UriMoves
<1>4. QED
  BY <1>2, <1>3

\* So does another attempt.
LEMMA AgainGetsOn ==
    ASSUME TypeOK, NEW p \in Plays, play[p].pc \in Requests
    PROVE  GetsOn(play[p], Again(p))
<1>1. play[p] \in PlayState /\ play[p].tries \in Nat
  BY DEF TypeOK, PlayState
<1>2. CASE play[p].tries = 0
  <2>1. "pc" \in DOMAIN play[p]
    BY <1>1 DEF PlayState
  <2>2. QED
    BY <1>2, <2>1, FailingGetsOn DEF Again, Goto
<1>3. CASE play[p].tries # 0
  <2>1. /\ Again(p).pc = play[p].pc /\ Again(p).tries = play[p].tries - 1
        /\ Again(p).sleep = PollDelay
    BY <1>1, <1>3 DEF Again, PlayState
  <2>2. play[p].tries - 1 < play[p].tries
    BY <1>1
  <2>3. QED
    BY <2>1, <2>2 DEF GetsOn
<1>4. QED
  BY <1>2, <1>3

\* And so does going on to a place from which it is fewer to the end.
LEMMA OnwardGetsOn ==
    ASSUME TypeOK, NEW p \in Plays, play[p].pc \in Requests, NEW after, NEW next,
           Uri(p, after, next), "pc" \in DOMAIN next, Togo[next.pc] < Togo[play[p].pc]
    PROVE  GetsOn(play[p], play'[p])
BY UriGetsOn DEF GetsOn

LEMMA TaskGetsOn ==
    ASSUME TypeOK, NEW p \in Plays, Task(p)
    PROVE  GetsOn(play[p], play'[p])
<1> DEFINE d == Advance(dev)
           s == play[p]
<1>a. s \in PlayState /\ s.pc \in Requests
  BY TaskMoves DEF TypeOK
<1>b. \A pc : Goto(p, pc).pc = pc /\ "pc" \in DOMAIN Goto(p, pc)
  BY <1>a DEF Goto, PlayState
<1>c. \A pc : /\ \A x : /\ [Goto(p, pc) EXCEPT !.before = x].pc = pc
                        /\ [Goto(p, pc) EXCEPT !.sawHA = x].pc = pc
                        /\ [Goto(p, pc) EXCEPT !.sawSync = x].pc = pc
                        /\ [Goto(p, pc) EXCEPT !.sawVersion = x].pc = pc
                        /\ [Goto(p, pc) EXCEPT !.volume = x].pc = pc
                        /\ [Goto(p, pc) EXCEPT !.tries = x].pc = pc
                        /\ [Goto(p, pc) EXCEPT !.activated = x].pc = pc
  BY <1>a DEF Goto, PlayState
<1>d. \A pc : /\ \A x : /\ "pc" \in DOMAIN [Goto(p, pc) EXCEPT !.before = x]
                        /\ "pc" \in DOMAIN [Goto(p, pc) EXCEPT !.sawHA = x]
                        /\ "pc" \in DOMAIN [Goto(p, pc) EXCEPT !.sawSync = x]
                        /\ "pc" \in DOMAIN [Goto(p, pc) EXCEPT !.sawVersion = x]
                        /\ "pc" \in DOMAIN [Goto(p, pc) EXCEPT !.volume = x]
                        /\ "pc" \in DOMAIN [Goto(p, pc) EXCEPT !.tries = x]
                        /\ "pc" \in DOMAIN [Goto(p, pc) EXCEPT !.activated = x]
  BY <1>b
<1>e. \A pc : \A passed \in BOOLEAN :
        /\ Either(passed, p, pc).pc \in {pc, "failed"} /\ "pc" \in DOMAIN Either(passed, p, pc)
  BY <1>b DEF Either
<1>f. Togo["failed"] < Togo[s.pc] /\ Togo["ok"] < Togo[s.pc]
  BY <1>a, TogoFalls
<1>g. /\ s.pc = "rb_volumes" => Togo["activate"] < Togo[s.pc]
      /\ s.pc = "poll_install" => Togo["activate"] < Togo[s.pc]
      /\ s.pc = "poll_version" => Togo["gate_version"] < Togo[s.pc]
  BY TogoFalls
<1> HIDE DEF d, s
<1>1. CASE PreflightVersion(p)
  <2>1. s.pc = "version" /\ Uri(p, d, [Goto(p, "failover") EXCEPT !.before = Boots(d)])
    BY <1>1 DEF PreflightVersion, At, d, s
  <2>2. QED
    BY <1>a, <1>b, <1>c, <1>d, <2>1, TogoFalls, OnwardGetsOn DEF s
<1>2. CASE PreflightFailover(p)
  <2>1. s.pc = "failover" /\ Uri(p, d, [Goto(p, "sync") EXCEPT !.sawHA = d.ha])
    BY <1>2 DEF PreflightFailover, At, d, s
  <2>2. QED
    BY <1>a, <1>b, <1>c, <1>d, <2>1, TogoFalls, OnwardGetsOn DEF s
<1>3. CASE PreflightSync(p)
  <2>1. s.pc = "sync" /\ Uri(p, d, [Goto(p, "perf") EXCEPT !.sawSync = d.sync])
    BY <1>3 DEF PreflightSync, At, d, s
  <2>2. QED
    BY <1>a, <1>b, <1>c, <1>d, <2>1, TogoFalls, OnwardGetsOn DEF s
<1>4. CASE PreflightPerf(p)
  <2> DEFINE passed == s.sawHA # "FORCED OFFLINE" /\ s.sawSync = "In Sync"
             to == "ucs"
             next == Either(passed, p, to)
  <2>1. s.pc = "perf" /\ Uri(p, d, next)
    BY <1>4 DEF PreflightPerf, At, d, s
  <2>2. to \in {"ucs"} /\ passed \in BOOLEAN
    BY DEF HealthGate
  <2> HIDE DEF passed, to
  <2>3. next.pc \in {to, "failed"} /\ "pc" \in DOMAIN next
    BY <1>e, <2>2
  <2>4. Togo[next.pc] < Togo[s.pc]
    BY <1>f, <2>1, <2>2, <2>3, TogoFalls
  <2> HIDE DEF next
  <2>5. QED
    BY <1>a, <2>1, <2>3, <2>4, OnwardGetsOn DEF s
<1>5. CASE Backup(p)
  <2>1. s.pc = "ucs" /\ Uri(p, [d EXCEPT !.backups = @ + 1], Goto(p, "volumes"))
    BY <1>5 DEF Backup, At, d, s
  <2>2. QED
    BY <1>a, <1>b, <1>c, <1>d, <2>1, TogoFalls, OnwardGetsOn DEF s
<1>6. CASE DiscoverVolume(p)
  <2>1. s.pc = "volumes" /\ Uri(p, d, [Goto(p, "image") EXCEPT !.volume = InactiveVolume(d)])
    BY <1>6 DEF DiscoverVolume, At, d, s
  <2>2. QED
    BY <1>a, <1>b, <1>c, <1>d, <2>1, TogoFalls, OnwardGetsOn DEF s
<1>7. CASE RegisterImage(p)
  <2>1. s.pc = "image" /\ Uri(p, d, Goto(p, "install"))
    BY <1>7 DEF RegisterImage, At, d, s
  <2>2. QED
    BY <1>a, <1>b, <1>c, <1>d, <2>1, TogoFalls, OnwardGetsOn DEF s
<1>8. CASE KickOffInstall(p)
  <2>1. s.pc = "install" /\ Uri(p, StartInstall(d, s.volume, s.version), [Goto(p, "poll_install") EXCEPT !.tries = InstallRetries])
    BY <1>8 DEF KickOffInstall, At, d, s
  <2>2. QED
    BY <1>a, <1>b, <1>c, <1>d, <2>1, TogoFalls, OnwardGetsOn DEF s
<1>9. CASE PollInstall(p)
  <2> DEFINE status == VolumeStatus(d, s.volume)
             next == CASE status = "complete"    -> Goto(p, "activate")
                       [] status = "failed"      -> Goto(p, "failed")
                       [] status = "in progress" -> Again(p)
  <2>1. s.pc = "poll_install" /\ Uri(p, d, next)
    BY <1>9 DEF PollInstall, At, d, s
  <2>2. status \in {"complete", "failed", "in progress"}
    BY AdvanceType, StatusType DEF TypeOK, d
  <2> HIDE DEF status
  <2>3. GetsOn(s, Goto(p, "activate")) /\ GetsOn(s, Goto(p, "failed"))
    BY <1>b, <1>f, <1>g, <2>1 DEF GetsOn
  <2>4. GetsOn(s, Again(p)) /\ "pc" \in DOMAIN Again(p)
    BY <1>a, <1>b, AgainGetsOn DEF Again, PlayState, s
  <2>5. next \in {Goto(p, "activate"), Goto(p, "failed"), Again(p)}
    BY <2>2
  <2> HIDE DEF next
  <2>6. GetsOn(s, next) /\ "pc" \in DOMAIN next
    BY <1>b, <2>3, <2>4, <2>5
  <2>7. QED
    BY <1>a, <2>1, <2>6, UriGetsOn DEF s
<1>10. CASE Activate(p)
  <2>1. s.pc = "activate" /\ Uri(p, ActivateVolume(d, s.volume), [Goto(p, "reboot") EXCEPT !.activated = TRUE])
    BY <1>10 DEF Activate, At, d, s
  <2>2. QED
    BY <1>a, <1>b, <1>c, <1>d, <2>1, TogoFalls, OnwardGetsOn DEF s
<1>11. CASE Reboot(p)
  <2>1. s.pc = "reboot" /\ Uri(p, StartReboot(d), [Goto(p, "poll_version") EXCEPT !.tries = BootRetries])
    BY <1>11 DEF Reboot, At, d, s
  <2>2. QED
    BY <1>a, <1>b, <1>c, <1>d, <2>1, TogoFalls, OnwardGetsOn DEF s
<1>12. CASE PollVersion(p)
  <2>1. s.pc = "poll_version" /\ play'[p] \in {Goto(p, "gate_version"), Again(p)}
    BY <1>12 DEF PollVersion, At, Become, TypeOK, s
  <2>2. GetsOn(s, Goto(p, "gate_version"))
    BY <1>b, <1>g, <2>1 DEF GetsOn
  <2>3. QED
    BY <1>a, <2>1, <2>2, AgainGetsOn DEF s
<1>13. CASE GateVersion(p)
  <2>1. s.pc = "gate_version" /\ Uri(p, d, [Goto(p, "gate_failover") EXCEPT !.sawVersion = d.running])
    BY <1>13 DEF GateVersion, At, d, s
  <2>2. QED
    BY <1>a, <1>b, <1>c, <1>d, <2>1, TogoFalls, OnwardGetsOn DEF s
<1>14. CASE GateFailover(p)
  <2>1. s.pc = "gate_failover" /\ Uri(p, d, [Goto(p, "gate_sync") EXCEPT !.sawHA = d.ha])
    BY <1>14 DEF GateFailover, At, d, s
  <2>2. QED
    BY <1>a, <1>b, <1>c, <1>d, <2>1, TogoFalls, OnwardGetsOn DEF s
<1>15. CASE GateSync(p)
  <2> DEFINE passed == HealthGate(p, d.sync)
             to == IF s.kind = "upgrade" THEN "post_version" ELSE "ok"
             next == Either(passed, p, to)
  <2>1. s.pc = "gate_sync" /\ Uri(p, d, next)
    BY <1>15 DEF GateSync, At, d, s
  <2>2. to \in {"post_version", "ok"} /\ passed \in BOOLEAN
    BY DEF HealthGate
  <2> HIDE DEF passed, to
  <2>3. next.pc \in {to, "failed"} /\ "pc" \in DOMAIN next
    BY <1>e, <2>2
  <2>4. Togo[next.pc] < Togo[s.pc]
    BY <1>f, <2>1, <2>2, <2>3, TogoFalls
  <2> HIDE DEF next
  <2>5. QED
    BY <1>a, <2>1, <2>3, <2>4, OnwardGetsOn DEF s
<1>16. CASE PostcheckVersion(p)
  <2> DEFINE passed == d.running = s.version
             to == "plan"
             next == Either(passed, p, to)
  <2>1. s.pc = "post_version" /\ Uri(p, d, next)
    BY <1>16 DEF PostcheckVersion, At, d, s
  <2>2. to \in {"plan"} /\ passed \in BOOLEAN
    BY DEF HealthGate
  <2> HIDE DEF passed, to
  <2>3. next.pc \in {to, "failed"} /\ "pc" \in DOMAIN next
    BY <1>e, <2>2
  <2>4. Togo[next.pc] < Togo[s.pc]
    BY <1>f, <2>1, <2>2, <2>3, TogoFalls
  <2> HIDE DEF next
  <2>5. QED
    BY <1>a, <2>1, <2>3, <2>4, OnwardGetsOn DEF s
<1>17. CASE PostcheckPlan(p)
  <2> DEFINE passed == "drift_postcheck" \notin dev.chaos
             to == "ok"
             next == Either(passed, p, to)
  <2>1. s.pc = "plan" /\ Uri(p, d, next)
    BY <1>17 DEF PostcheckPlan, At, d, s
  <2>2. to \in {"ok"} /\ passed \in BOOLEAN
    BY DEF HealthGate
  <2> HIDE DEF passed, to
  <2>3. next.pc \in {to, "failed"} /\ "pc" \in DOMAIN next
    BY <1>e, <2>2
  <2>4. Togo[next.pc] < Togo[s.pc]
    BY <1>f, <2>1, <2>2, <2>3, TogoFalls
  <2> HIDE DEF next
  <2>5. QED
    BY <1>a, <2>1, <2>3, <2>4, OnwardGetsOn DEF s
<1>18. CASE RollbackVolumes(p)
  <2> DEFINE v == InactiveVolume(d)
             next == [Goto(p, "activate") EXCEPT !.volume = v, !.version = d.image[v]]
  <2>1. s.pc = "rb_volumes" /\ play'[p] \in {next, Again(p)}
    BY <1>18 DEF RollbackVolumes, At, Become, TypeOK, d, s
  <2>2. next.pc = "activate"
    BY <1>b
  <2> HIDE DEF next
  <2>3. GetsOn(s, next)
    BY <1>g, <2>1, <2>2 DEF GetsOn
  <2>4. QED
    BY <1>a, <2>1, <2>3, AgainGetsOn DEF s
<1>19. CASE FailoverStatus(p)
  <2> DEFINE to == IF d.ha = "ACTIVE" THEN "fo_trigger" ELSE "ok"
  <2>1. s.pc = "fo_status" /\ Uri(p, d, Goto(p, to)) /\ to \in {"fo_trigger", "ok"}
    BY <1>19 DEF FailoverStatus, At, d, s
  <2>2. Togo[to] < Togo[s.pc]
    BY <1>f, <2>1, TogoFalls
  <2> HIDE DEF to
  <2>3. QED
    BY <1>a, <1>b, <2>1, <2>2, OnwardGetsOn DEF s
<1>20. CASE FailoverTrigger(p)
  <2>1. \E after : Uri(p, after, Goto(p, "ok"))
    BY <1>20 DEF FailoverTrigger
  <2>2. QED
    BY <1>a, <1>b, <1>f, <2>1, OnwardGetsOn DEF s
<1>21. QED
  BY <1>1, <1>2, <1>3, <1>4, <1>5, <1>6, <1>7, <1>8, <1>9, <1>10, <1>11, <1>12, <1>13, <1>14,
     <1>15, <1>16, <1>17, <1>18, <1>19, <1>20
  DEF Task, Preflight, ImageInstall, BootSwitch, Gate, Postcheck, Failover, s

\* Every step that changes a play gets it on, a launch and a second too, also when plays
\* overlap, requests get lost and flags are raised: no play goes back to an earlier
\* request, starts a loop again or waits without using up an attempt, so that each of
\* them takes finitely many steps.
THEOREM PlaysGetOn ==
    Spec => [][\A p \in Plays : play'[p] = play[p] \/ GetsOn(play[p], play'[p])]_vars
<1> DEFINE Onward == \A p \in Plays : play'[p] = play[p] \/ GetsOn(play[p], play'[p])
<1>1. TypeOK /\ [Next]_vars => [Onward]_vars
  <2> SUFFICES ASSUME TypeOK, Next, NEW p \in Plays, play'[p] # play[p]
               PROVE  GetsOn(play[p], play'[p])
    OBVIOUS
  <2>a. play[p] \in PlayState
    BY DEF TypeOK
  <2>1. ASSUME NEW q \in Plays, NEW kind \in Kinds, NEW target \in Targets, Launch(q, kind, target)
        PROVE  GetsOn(play[p], play'[p])
    <3>1. q = p /\ play[q].pc = "idle"
      BY <2>1 DEF Launch, Become, TypeOK
    <3>2. play'[p].pc \in Requests
      BY <2>1, <3>1, LaunchFields DEF Requests
    <3>3. Togo[play'[p].pc] < Togo["idle"]
      BY <3>2, TogoFalls
    <3>4. QED
      BY <3>1, <3>3 DEF GetsOn
  <2>2. ASSUME NEW q \in Plays, Task(q) PROVE GetsOn(play[p], play'[p])
    <3>1. q = p
      BY <2>2, TaskMoves
    <3>2. QED
      BY <2>2, <3>1, TaskGetsOn
  <2>3. CASE Tick
    <3>1. play'[p] = [play[p] EXCEPT !.sleep = Less(play[p].sleep)] /\ play[p].sleep \in Nat
      BY <2>3, <2>a DEF Tick, PlayState
    <3>2. CASE play[p].sleep = 0
      BY <2>a, <3>1, <3>2 DEF Less, PlayState
    <3>3. CASE play[p].sleep # 0
      <4>1. /\ play'[p].pc = play[p].pc /\ play'[p].tries = play[p].tries
            /\ play'[p].sleep = Less(play[p].sleep)
        BY <2>a, <3>1 DEF PlayState
      <4>2. Less(play[p].sleep) < play[p].sleep
        BY <3>1, <3>3 DEF Less
      <4>3. QED
        BY <4>1, <4>2 DEF GetsOn
    <3>4. QED
      BY <3>2, <3>3
  <2>4. ASSUME NEW flag \in Injected, Inject(flag) PROVE FALSE
    BY <2>4 DEF Inject
  <2>5. QED
    BY <2>1, <2>2, <2>3, <2>4 DEF Next
<1> HIDE DEF Onward
<1>2. Spec => [][Onward]_vars
  BY <1>1, PlaysTypeCorrect, PTL DEF Spec
<1>3. QED
  BY <1>2 DEF Onward

=============================================================================
