-------------------------- MODULE MockDeviceProofs --------------------------
(***************************************************************************)
(* Theorems of MockDevice, for every choice of its constants.              *)
(***************************************************************************)
EXTENDS MockDevice, DeviceStateProofs

----------------------------------------------------------------------------
(***************************************************************************)
(* A request, a fault or a second of time keeps the device well typed.     *)
(***************************************************************************)
LEMMA TypeStep ==
  ASSUME TypeOK, [Next]_dev PROVE TypeOK'
<1> USE DEF TypeOK
<1>a. Advance(dev) \in Device
  BY AdvanceType
<1>1. CASE Query
  BY <1>1, <1>a DEF Query
<1>2. CASE SysUcs
  <2>1. Advance(dev).backups + 1 \in Nat
    BY <1>a DEF Device
  <2>2. QED
    BY <1>2, <1>a, <2>1 DEF SysUcs, Device
<1>3. ASSUME NEW v \in Volumes, NEW version \in Versions, VolumeInstall(v, version)
      PROVE  TypeOK'
  BY <1>3, <1>a, StartInstallType DEF VolumeInstall
<1>4. ASSUME NEW v \in Volumes, VolumePatch(v) PROVE TypeOK'
  BY <1>4, <1>a, ActivateVolumeType DEF VolumePatch
<1>5. CASE UtilBashReboot
  BY <1>5, <1>a, StartRebootType DEF UtilBashReboot
<1>6. CASE SysFailover
  BY <1>6, <1>a DEF SysFailover, Device, HAStates
<1>7. ASSUME NEW flag \in Injected, ChaosSet(flag) PROVE TypeOK'
  BY <1>7, ClientsAssumption DEF ChaosSet, Device
<1>8. CASE ChaosReset
  BY <1>8 DEF ChaosReset, Device
<1>9. CASE ChaosResetDevice
  BY <1>9, FreshWithType, VersionsAssumption DEF ChaosResetDevice
<1>10. CASE Tick
  BY <1>10, ElapseType DEF Tick
<1>11. CASE UNCHANGED dev
  BY <1>11
<1>12. QED
  BY <1>1, <1>2, <1>3, <1>4, <1>5, <1>6, <1>7, <1>8, <1>9, <1>10, <1>11
  DEF Next, Handler, Chaos

\* Every field of the DeviceState object keeps a value of its declared type
\* under every handler of icontrol.py and chaos.py.
THEOREM DeviceTypeCorrect == Spec => []TypeOK
<1>1. Init => TypeOK
  BY FreshWithType, VersionsAssumption DEF Init, TypeOK, Fresh
<1>2. TypeOK /\ [Next]_dev => TypeOK'
  BY TypeStep
<1>3. QED
  BY <1>1, <1>2, PTL DEF Spec

----------------------------------------------------------------------------
\* "exactly one active volume at any time" (icontrol.py:293), so that
\* active_volume() and inactive_volume() never raise.
THEOREM ExactlyOneActiveVolume == Spec => []OneActiveVolume
<1>1. Init => OneActiveVolume
  <2>1. Fresh.active = {"HD1.1"}
    BY DEF Fresh, FreshWith
  <2>2. QED
    BY <2>1 DEF Init, OneActiveVolume, Volumes
<1>2. ASSUME TypeOK, OneActiveVolume, [Next]_dev PROVE OneActiveVolume'
  <2> USE DEF TypeOK, OneActiveVolume
  <2>a. Advance(dev) \in Device /\ Advance(dev).active = dev.active
    BY <1>2, AdvanceType, AdvanceActive
  <2>1. CASE Query
    BY <1>2, <2>1, <2>a DEF Query
  <2>2. CASE SysUcs
    BY <1>2, <2>2, <2>a DEF SysUcs, Device
  <2>3. ASSUME NEW v \in Volumes, NEW version \in Versions, VolumeInstall(v, version)
        PROVE  OneActiveVolume'
    BY <1>2, <2>3, <2>a DEF VolumeInstall, StartInstall, Device
  <2>4. ASSUME NEW v \in Volumes, VolumePatch(v) PROVE OneActiveVolume'
    BY <2>4, <2>a DEF VolumePatch, ActivateVolume, Device
  <2>5. CASE UtilBashReboot
    BY <1>2, <2>5, <2>a DEF UtilBashReboot, StartReboot, Device
  <2>6. CASE SysFailover
    BY <1>2, <2>6, <2>a DEF SysFailover, Device
  <2>7. ASSUME NEW flag \in Injected, ChaosSet(flag) PROVE OneActiveVolume'
    BY <1>2, <2>7 DEF ChaosSet, Device
  <2>8. CASE ChaosReset
    BY <1>2, <2>8 DEF ChaosReset, Device
  <2>9. CASE ChaosResetDevice
    BY <2>9 DEF ChaosResetDevice, FreshWith, Volumes
  <2>10. CASE Tick
    BY <1>2, <2>10, ElapseActive DEF Tick
  <2>11. CASE UNCHANGED dev
    BY <1>2, <2>11
  <2>12. QED
    BY <1>2, <2>1, <2>2, <2>3, <2>4, <2>5, <2>6, <2>7, <2>8, <2>9, <2>10, <2>11
    DEF Next, Handler, Chaos
<1>3. QED
  BY <1>1, <1>2, DeviceTypeCorrect, PTL DEF Spec

----------------------------------------------------------------------------
(***************************************************************************)
(* The inductive invariant about installs.  InstallsSettleInOrder needs to *)
(* know that no install in progress is due later than a new one would be;  *)
(* CompleteMeansInstalled needs the order, so that an install which is     *)
(* over is never overwritten by an older one that settles after it.        *)
(***************************************************************************)
LEMMA InstallsStep ==
  ASSUME TypeOK, Installs(dev), [Next]_dev PROVE Installs(dev')
<1> DEFINE a == Advance(dev)
<1>a. a \in Device /\ Installs(a)
  BY AdvanceType, InstallsKept DEF TypeOK
<1> HIDE DEF a
<1>1. CASE Query
  BY <1>1, <1>a DEF Query, a
<1>2. CASE SysUcs
  <2>1. dev'.ops = a.ops /\ dev'.image = a.image
    BY <1>2, <1>a DEF SysUcs, Device, a
  <2>2. QED
    BY <1>a, <2>1, SameInstalls
<1>3. ASSUME NEW v \in Volumes, NEW version \in Versions, VolumeInstall(v, version)
      PROVE  Installs(dev')
  BY <1>3, <1>a, InstallsKept DEF VolumeInstall, a
<1>4. ASSUME NEW v \in Volumes, VolumePatch(v) PROVE Installs(dev')
  <2>1. dev'.ops = a.ops /\ dev'.image = a.image
    BY <1>4, <1>a DEF VolumePatch, ActivateVolume, Device, a
  <2>2. QED
    BY <1>a, <2>1, SameInstalls
<1>5. CASE UtilBashReboot
  <2>1. dev'.ops = a.ops /\ dev'.image = a.image
    BY <1>5, <1>a DEF UtilBashReboot, StartReboot, Device, a
  <2>2. QED
    BY <1>a, <2>1, SameInstalls
<1>6. CASE SysFailover
  <2>1. dev'.ops = a.ops /\ dev'.image = a.image
    BY <1>6, <1>a DEF SysFailover, Device, a
  <2>2. QED
    BY <1>a, <2>1, SameInstalls
<1>7. ASSUME NEW flag \in Injected, ChaosSet(flag) PROVE Installs(dev')
  <2>1. dev'.ops = dev.ops /\ dev'.image = dev.image
    BY <1>7 DEF ChaosSet, TypeOK, Device
  <2>2. QED
    BY <2>1, SameInstalls
<1>8. CASE ChaosReset
  <2>1. dev'.ops = dev.ops /\ dev'.image = dev.image
    BY <1>8 DEF ChaosReset, TypeOK, Device
  <2>2. QED
    BY <2>1, SameInstalls
<1>9. CASE ChaosResetDevice
  <2>1. dev'.ops = << >>
    BY <1>9 DEF ChaosResetDevice, FreshWith
  <2>2. QED
    BY <2>1, NoInstalls
<1>10. CASE Tick
  BY <1>10, InstallsKept DEF Tick, TypeOK
<1>11. CASE UNCHANGED dev
  BY <1>11
<1>12. QED
  BY <1>1, <1>2, <1>3, <1>4, <1>5, <1>6, <1>7, <1>8, <1>9, <1>10, <1>11
  DEF Next, Handler, Chaos

\* The invariant of the installs, together with the types, in every state.
LEMMA InstallsInvariant == Spec => [](TypeOK /\ Installs(dev))
<1>1. Init => Installs(dev)
  <2>1. Fresh.ops = << >>
    BY DEF Fresh, FreshWith
  <2>2. QED
    BY <2>1, NoInstalls DEF Init
<1>2. TypeOK /\ Installs(dev) /\ [Next]_dev => Installs(dev)'
  BY InstallsStep
<1>3. QED
  BY <1>1, <1>2, DeviceTypeCorrect, PTL DEF Spec

\* advance() settles overlapping installs in the order they were asked for,
\* for every duration of an install and every history of requests.
THEOREM InstallsEndInOrder == Spec => []InstallsSettleInOrder
<1>1. Installs(dev) => InstallsSettleInOrder
  BY DEF Installs, InOrder, InstallsSettleInOrder
<1>2. QED
  BY <1>1, InstallsInvariant, PTL

\* A volume that a poller reads as "complete" holds the version the newest
\* install on it asked for, however many installs overlap or fail.
THEOREM CompleteIsInstalled == Spec => []CompleteMeansInstalled
<1>1. TypeOK /\ Installs(dev) => CompleteMeansInstalled
  <2> SUFFICES ASSUME TypeOK, Installs(dev) PROVE CompleteMeansInstalled
    OBVIOUS
  <2>1. ImagesMatch(Advance(dev))
    BY InstallsKept DEF TypeOK, Installs
  <2>2. QED
    BY <2>1 DEF ImagesMatch, CompleteMeansInstalled
<1>2. QED
  BY <1>1, InstallsInvariant, PTL

----------------------------------------------------------------------------
(***************************************************************************)
(* The clients of the roles.  A poller sees no DO or AS3 task, because no  *)
(* handler of this module starts one, and no install that is in progress   *)
(* goes to the active volume: f5_image_install asks for the inactive one,  *)
(* and f5_boot_switch waits for the end of the install.                    *)
(***************************************************************************)
Guarded(d) == Quiet(d) /\ Shielded(d)

\* What leaves installs, tasks and the active volume alone leaves a device guarded.
LEMMA SameGuarded ==
  ASSUME NEW d, NEW e, Guarded(d), e.ops = d.ops, e.active = d.active,
         e.doTasks = d.doTasks, e.as3Tasks = d.as3Tasks
  PROVE  Guarded(e)
BY DEF Guarded, Quiet, Shielded

\* A device without installs and tasks is guarded.
LEMMA NothingStarted ==
  ASSUME NEW d, d.ops = << >>, d.doTasks = << >>, d.as3Tasks = << >>
  PROVE  Guarded(d)
BY DEF Guarded, Quiet, Shielded

\* Settling, and the clock, keep a device guarded.
LEMMA GuardedKept ==
  ASSUME NEW d \in Device, Guarded(d)
  PROVE  Guarded(Advance(d)) /\ Guarded(Elapse(d))
<1>1. Quiet(Advance(d))
  BY QuietAdvance DEF Guarded, Quiet
<1>2. Quiet(Elapse(d))
  BY ElapsedFields DEF Guarded, Quiet
<1>3. QED
  BY <1>1, <1>2, ShieldedKept DEF Guarded

\* Every step of the roles keeps the device guarded.
LEMMA GuardedStep ==
  ASSUME RoleClients, TypeOK, Guarded(dev), [Next]_dev PROVE Guarded(dev')
<1> DEFINE a == Advance(dev)
<1>a. a \in Device /\ Guarded(a)
  BY AdvanceType, GuardedKept DEF TypeOK
<1> HIDE DEF a
<1>1. CASE Query
  BY <1>1, <1>a DEF Query, a
<1>2. CASE SysUcs
  <2>1. /\ dev'.ops = a.ops /\ dev'.active = a.active
        /\ dev'.doTasks = a.doTasks /\ dev'.as3Tasks = a.as3Tasks
    BY <1>2, <1>a DEF SysUcs, Device, a
  <2>2. QED
    BY <1>a, <2>1, SameGuarded
<1>3. ASSUME NEW v \in Volumes, NEW version \in Versions, VolumeInstall(v, version)
      PROVE  Guarded(dev')
  <2>1. dev' = StartInstall(a, v, version) /\ v \notin a.active
    BY <1>3 DEF VolumeInstall, MayInstall, a
  <2>2. dev'.active = a.active /\ dev'.doTasks = a.doTasks /\ dev'.as3Tasks = a.as3Tasks
    BY <1>a, <2>1 DEF StartInstall, Device
  <2> DEFINE n == Len(a.ops)
             o == [volume |-> v, version |-> version, left |-> InstallTime,
                   willFail |-> "fail_next_install" \in a.chaos, status |-> "in progress"]
  <2>3. /\ DOMAIN dev'.ops = 1..(n + 1)
        /\ \A i \in DOMAIN a.ops : dev'.ops[i] = a.ops[i]
        /\ dev'.ops[n + 1] = o
    BY <1>a, <2>1, StartedOps
  <2>4. n \in Nat /\ DOMAIN a.ops = 1..n
    BY <1>a, OpTypes
  <2>5. o.volume = v
    OBVIOUS
  <2> HIDE DEF n, o
  <2>6. \A i \in 1..(n + 1) : i \in 1..n \/ i = n + 1
    BY <2>4
  <2>7. ASSUME NEW i \in DOMAIN dev'.ops, dev'.ops[i].status = "in progress"
        PROVE  dev'.ops[i].volume \notin dev'.active
    <3>1. CASE i \in DOMAIN a.ops
      BY <1>a, <2>2, <2>3, <2>7, <3>1 DEF Guarded, Shielded
    <3>2. CASE i = n + 1
      BY <2>1, <2>2, <2>3, <2>5, <3>2
    <3>3. QED
      BY <2>3, <2>4, <2>6, <3>1, <3>2
  <2>8. QED
    BY <1>a, <2>2, <2>7 DEF Guarded, Quiet, Shielded
<1>4. ASSUME NEW v \in Volumes, VolumePatch(v) PROVE Guarded(dev')
  <2>1. \A i \in DOMAIN a.ops : a.ops[i].status # "in progress"
    BY <1>4 DEF VolumePatch, MayActivate, a
  <2>2. dev'.ops = a.ops /\ dev'.doTasks = a.doTasks /\ dev'.as3Tasks = a.as3Tasks
    BY <1>4, <1>a DEF VolumePatch, ActivateVolume, Device, a
  <2>3. QED
    BY <1>a, <2>1, <2>2 DEF Guarded, Quiet, Shielded
<1>5. CASE UtilBashReboot
  <2>1. /\ dev'.ops = a.ops /\ dev'.active = a.active
        /\ dev'.doTasks = a.doTasks /\ dev'.as3Tasks = a.as3Tasks
    BY <1>5, <1>a DEF UtilBashReboot, StartReboot, Device, a
  <2>2. QED
    BY <1>a, <2>1, SameGuarded
<1>6. CASE SysFailover
  <2>1. /\ dev'.ops = a.ops /\ dev'.active = a.active
        /\ dev'.doTasks = a.doTasks /\ dev'.as3Tasks = a.as3Tasks
    BY <1>6, <1>a DEF SysFailover, Device, a
  <2>2. QED
    BY <1>a, <2>1, SameGuarded
<1>7. ASSUME NEW f, dev' = [dev EXCEPT !.chaos = f] PROVE Guarded(dev')
  <2>1. /\ dev'.ops = dev.ops /\ dev'.active = dev.active
        /\ dev'.doTasks = dev.doTasks /\ dev'.as3Tasks = dev.as3Tasks
    BY <1>7 DEF TypeOK, Device
  <2>2. QED
    BY <2>1, SameGuarded
<1>8. CASE ChaosResetDevice
  <2>1. dev'.ops = << >> /\ dev'.doTasks = << >> /\ dev'.as3Tasks = << >>
    BY <1>8 DEF ChaosResetDevice, FreshWith
  <2>2. QED
    BY <2>1, NothingStarted
<1>9. CASE Tick
  BY <1>9, GuardedKept DEF Tick, TypeOK
<1>10. CASE UNCHANGED dev
  BY <1>10
<1>11. QED
  BY <1>1, <1>2, <1>3, <1>4, <1>5, <1>6, <1>7, <1>8, <1>9, <1>10
  DEF Next, Handler, Chaos, ChaosSet, ChaosReset

\* A device is guarded from its start on.
LEMMA GuardedInit == Init => Guarded(dev)
<1>1. Fresh.ops = << >> /\ Fresh.doTasks = << >> /\ Fresh.as3Tasks = << >>
  BY DEF Fresh, FreshWith
<1>2. QED
  BY <1>1, NothingStarted DEF Init

----------------------------------------------------------------------------
(***************************************************************************)
(* The operators of the eager device are those of this one.                *)
(***************************************************************************)
LEMMA SameNewest == \A I : Eager!Newest(I) = Newest(I)
BY DEF Eager!Newest, Newest

LEMMA SameSettleInstalls ==
  ASSUME NEW d PROVE Eager!SettleInstalls(d) = SettleInstalls(d)
BY SameNewest
   DEF Eager!SettleInstalls, SettleInstalls, Eager!DueOps, DueOps, Eager!Installed, Installed,
       Eager!Volumes, Volumes

LEMMA SameSettleReboot ==
  ASSUME NEW d PROVE Eager!SettleReboot(d) = SettleReboot(d)
BY DEF Eager!SettleReboot, SettleReboot, Eager!Boot, Boot, Eager!ActiveVolume, ActiveVolume,
       Eager!NoReboot, NoReboot

LEMMA SameSettleDo ==
  ASSUME NEW d PROVE Eager!SettleDo(d) = SettleDo(d)
BY SameNewest DEF Eager!SettleDo, SettleDo, Eager!DueDo, DueDo, Eager!AppliedDo, AppliedDo

LEMMA SameSettleAs3 ==
  ASSUME NEW d PROVE Eager!SettleAs3(d) = SettleAs3(d)
BY SameNewest DEF Eager!SettleAs3, SettleAs3, Eager!DueAs3, DueAs3, Eager!AppliedAs3, AppliedAs3

LEMMA SameAdvance == ASSUME NEW d PROVE Eager!Advance(d) = Advance(d)
BY SameSettleInstalls, SameSettleReboot, SameSettleDo, SameSettleAs3 DEF Eager!Advance, Advance

LEMMA SameElapse == ASSUME NEW d PROVE Eager!Elapse(d) = Elapse(d)
BY DEF Eager!Elapse, Elapse, Eager!Less, Less

LEMMA SameFresh == ASSUME NEW version PROVE Eager!FreshWith(version) = FreshWith(version)
BY DEF Eager!FreshWith, FreshWith, Eager!Volumes, Volumes, Eager!NoReboot, NoReboot

LEMMA SameReboot == ASSUME NEW d PROVE Eager!StartReboot(d) = StartReboot(d)
BY DEF Eager!StartReboot, StartReboot

LEMMA SameStartInstall ==
  ASSUME NEW d, NEW v, NEW version
  PROVE  Eager!StartInstall(d, v, version) = StartInstall(d, v, version)
BY DEF Eager!StartInstall, StartInstall

LEMMA SameActivate == ASSUME NEW d, NEW v PROVE Eager!ActivateVolume(d, v) = ActivateVolume(d, v)
BY DEF Eager!ActivateVolume, ActivateVolume

\* The steps of the eager device, in the terms of this module.
LEMMA EagerNext ==
  ASSUME \/ Advance(dev') = Advance(Elapse(Advance(dev)))
         \/ /\ Admitted(Advance(dev))
            /\ \/ Advance(dev') = Advance([Advance(dev) EXCEPT !.backups = @ + 1])
               \/ \E v \in Volumes, version \in Versions :
                     Advance(dev') = Advance(StartInstall(Advance(dev), v, version))
               \/ \E v \in Volumes : Advance(dev') = Advance(ActivateVolume(Advance(dev), v))
               \/ Advance(dev') = Advance(StartReboot(Advance(dev)))
               \/ \E ha \in {"ACTIVE", "STANDBY"} :
                     /\ ha # Advance(dev).ha
                     /\ Advance(dev') = Advance([Advance(dev) EXCEPT !.ha = ha])
         \/ \E flags \in SUBSET Flags : Advance(dev') = [Advance(dev) EXCEPT !.chaos = flags]
         \/ Advance(dev') = FreshWith("16.1.3")
  PROVE  Eager!Next
BY SameAdvance, SameElapse, SameFresh, SameReboot, SameStartInstall, SameActivate
   DEF Eager!Next, Eager!Request, Eager!IsRebooting, IsRebooting, Admitted, Eager!Volumes, Volumes,
       Eager!Flags, Flags

(***************************************************************************)
(* One step of the lazy device is one step of the eager one, or none.      *)
(***************************************************************************)
LEMMA EagerStep ==
  ASSUME RoleClients, TypeOK, Installs(dev), OneActiveVolume, Guarded(dev), [Next]_dev
  PROVE  Eager!Next \/ Advance(dev') = Advance(dev)
<1> DEFINE a == Advance(dev)
<1>a. dev \in Device /\ Quiet(dev) /\ Shielded(dev) /\ InOrder(dev) /\ a \in Device
  BY AdvanceType DEF TypeOK, Guarded, Installs
<1>1. CASE Query
  BY <1>1, <1>a, AdvanceTwice DEF Query
<1>2. CASE SysUcs
  BY <1>2, EagerNext DEF SysUcs
<1>3. ASSUME NEW v \in Volumes, NEW version \in Versions, VolumeInstall(v, version)
      PROVE  Eager!Next
  BY <1>3, EagerNext DEF VolumeInstall
<1>4. ASSUME NEW v \in Volumes, VolumePatch(v) PROVE Eager!Next
  BY <1>4, EagerNext DEF VolumePatch
<1>5. CASE UtilBashReboot
  BY <1>5, EagerNext DEF UtilBashReboot
<1>6. CASE SysFailover
  <2> DEFINE ha == IF a.ha = "ACTIVE" THEN "STANDBY" ELSE "ACTIVE"
  <2>1. Admitted(a) /\ dev' = [a EXCEPT !.ha = ha]
    BY <1>6 DEF SysFailover
  <2>2. ha \in {"ACTIVE", "STANDBY"} /\ ha # a.ha
    OBVIOUS
  <2> HIDE DEF ha
  <2>3. QED
    BY <2>1, <2>2, EagerNext
<1>7. ASSUME NEW flag \in Injected, ChaosSet(flag) PROVE Eager!Next
  <2> DEFINE f == dev.chaos \cup {flag}
  <2>1. f \in SUBSET Flags
    BY <1>a, ClientsAssumption DEF Device
  <2>2. dev' = [dev EXCEPT !.chaos = f]
    BY <1>7 DEF ChaosSet
  <2>3. dev.reboot = 0 => ("post_boot_unhealthy" \in f <=> "post_boot_unhealthy" \in dev.chaos)
    BY <1>7 DEF ChaosSet, MayInject, NoReboot
  <2> HIDE DEF f
  <2>4. QED
    BY <1>a, <2>1, <2>2, <2>3, AdvanceChaos, EagerNext
<1>8. CASE ChaosReset
  <2>1. dev' = [dev EXCEPT !.chaos = {}]
    BY <1>8 DEF ChaosReset
  <2>2. dev.reboot = 0 => ("post_boot_unhealthy" \in {} <=> "post_boot_unhealthy" \in dev.chaos)
    BY <1>8 DEF ChaosReset, MayInject, NoReboot
  <2>3. {} \in SUBSET Flags
    OBVIOUS
  <2>4. QED
    BY <1>a, <2>1, <2>2, <2>3, AdvanceChaos, EagerNext
<1>9. CASE ChaosResetDevice
  BY <1>9, AdvanceFresh, VersionsAssumption, EagerNext DEF ChaosResetDevice
<1>10. CASE Tick
  <2>1. PICK w \in Volumes : dev.active = {w}
    BY DEF OneActiveVolume
  <2>2. Advance(Elapse(dev)) = Advance(Elapse(Advance(dev)))
    BY <1>a, <2>1, ElapseAdvance
  <2>3. QED
    BY <1>10, <2>2, EagerNext DEF Tick
<1>11. CASE UNCHANGED dev
  BY <1>11
<1>12. QED
  BY <1>1, <1>2, <1>3, <1>4, <1>5, <1>6, <1>7, <1>8, <1>9, <1>10, <1>11
  DEF Next, Handler, Chaos

\* "advance() runs at the top of every handler ... so state is always current": seen
\* through advance(), the device that settles lazily is one that settles every
\* install and reboot in the second it runs out, for the clients of the roles.
THEOREM LazyIsEager ==
  ASSUME RoleClients
  PROVE  Spec => ImplementsEager
<1>1. Init => Eager!Init
  BY AdvanceFresh, SameFresh, VersionsAssumption DEF Init, Eager!Init, Fresh, Eager!Fresh
<1>2. TypeOK /\ Guarded(dev) /\ [Next]_dev => Guarded(dev)'
  BY GuardedStep
<1>3. TypeOK /\ Installs(dev) /\ OneActiveVolume /\ Guarded(dev) /\ [Next]_dev
         => [Eager!Next]_(Advance(dev))
  BY EagerStep
<1>4. QED
  BY <1>1, <1>2, <1>3, GuardedInit, InstallsInvariant, ExactlyOneActiveVolume, PTL
  DEF Spec, ImplementsEager, Eager!Spec

\* The volume that stays active keeps its image, whatever is installed meanwhile and
\* whenever it settles, as long as clients install and boot as the roles do.
THEOREM WayBackUntouched ==
  ASSUME RoleClients
  PROVE  Spec => ActiveImageUntouched
<1> DEFINE Untouched == \A v \in dev.active \cap dev'.active :
                          dev'.image[v] # dev.image[v] => dev' = FreshWith("16.1.3")
<1>1. ASSUME TypeOK, Guarded(dev), [Next]_dev PROVE Untouched
  <2> DEFINE a == Advance(dev)
  <2>a. dev \in Device /\ a \in Device /\ a.active = dev.active
    BY <1>1, AdvanceType, AdvanceActive DEF TypeOK
  <2>b. \A v \in Volumes \cap dev.active : a.image[v] = dev.image[v]
    BY <1>1, <2>a, ShieldedImages DEF Guarded
  <2>c. dev.active \subseteq Volumes
    BY <2>a DEF Device
  <2> HIDE DEF a
  <2>1. CASE dev'.image = a.image
    BY <2>1, <2>b, <2>c
  <2>2. CASE dev'.image = dev.image
    BY <2>2
  <2>3. CASE dev' = FreshWith("16.1.3")
    BY <2>3
  <2>4. CASE Query
    BY <2>1, <2>4 DEF Query, a
  <2>5. CASE SysUcs
    BY <2>1, <2>5, <2>a DEF SysUcs, Device, a
  <2>6. ASSUME NEW v \in Volumes, NEW version \in Versions, VolumeInstall(v, version)
        PROVE  Untouched
    BY <2>1, <2>6, <2>a DEF VolumeInstall, StartInstall, Device, a
  <2>7. ASSUME NEW v \in Volumes, VolumePatch(v) PROVE Untouched
    BY <2>1, <2>7, <2>a DEF VolumePatch, ActivateVolume, Device, a
  <2>8. CASE UtilBashReboot
    BY <2>1, <2>8, <2>a DEF UtilBashReboot, StartReboot, Device, a
  <2>9. CASE SysFailover
    BY <2>1, <2>9, <2>a DEF SysFailover, Device, a
  <2>10. ASSUME NEW flag \in Injected, ChaosSet(flag) PROVE Untouched
    BY <2>2, <2>10, <2>a DEF ChaosSet, Device
  <2>11. CASE ChaosReset
    BY <2>2, <2>11, <2>a DEF ChaosReset, Device
  <2>12. CASE Tick
    BY <2>2, <2>12, <2>a DEF Tick, Elapse, Device
  <2>13. CASE UNCHANGED dev
    BY <2>2, <2>13
  <2>14. QED
    BY <1>1, <2>3, <2>4, <2>5, <2>6, <2>7, <2>8, <2>9, <2>10, <2>11, <2>12, <2>13
    DEF Next, Handler, Chaos, ChaosResetDevice
<1>2. TypeOK /\ Guarded(dev) /\ [Next]_dev => Guarded(dev)'
  BY GuardedStep
<1>3. TypeOK /\ Guarded(dev) /\ [Next]_dev => [Untouched]_dev
  BY <1>1
<1> HIDE DEF Untouched
<1>4. Spec => [][Untouched]_dev
  BY <1>2, <1>3, GuardedInit, DeviceTypeCorrect, PTL DEF Spec
<1>5. QED
  BY <1>4 DEF ActiveImageUntouched, Untouched
============================================================================
