-------------------------- MODULE DeviceStateProofs --------------------------
(***************************************************************************)
(* Lemmas about the operators of DeviceState: each method maps a device    *)
(* value to a device value and leaves exactly one volume active.           *)
(***************************************************************************)
EXTENDS DeviceState, WellFoundedInduction, SequenceTheorems, TLAPS

----------------------------------------------------------------------------
(***************************************************************************)
(* The newest of a nonempty set of list indices is one of them.            *)
(***************************************************************************)
LEMMA NewestIsLast ==
  ASSUME NEW n \in Nat, NEW I \in SUBSET (1..n), I # {}
  PROVE  Newest(I) \in I /\ \A j \in I : j <= Newest(I)
<1> DEFINE T == {n - i : i \in I}
<1>1. T \subseteq Nat
  OBVIOUS
<1>2. T # {}
  BY I # {}
<1> DEFINE R == OpToRel(<, Nat)
<1>3. IsWellFoundedOn(R, Nat)
  BY NatLessThanWellFounded
<1>4. \E m \in T : \A k \in T : <<k, m>> \notin R
  <2> HIDE DEF T, R
  <2> QED
    BY <1>1, <1>2, <1>3, WFMin
<1>5. PICK m \in T : \A k \in T : <<k, m>> \notin R
  BY <1>4
<1>6. \A k \in T : ~ (k < m)
  BY <1>1, <1>5 DEF OpToRel
<1> HIDE DEF R
<1>7. PICK i \in I : m = n - i
  OBVIOUS
<1>8. \A j \in I : j <= i
  <2> TAKE j \in I
  <2>1. n - j \in T
    OBVIOUS
  <2> HIDE DEF T
  <2>2. ~ (n - j < n - i)
    BY <1>6, <1>7, <2>1
  <2>3. i \in Int /\ j \in Int
    OBVIOUS
  <2>4. QED
    BY <2>2, <2>3
<1>9. QED
  BY <1>8 DEF Newest

\* Of two groups of items, all of one younger than those of the other, the newest
\* is the newest of the younger group.
LEMMA NewestOfBoth ==
  ASSUME NEW n \in Nat, NEW G \in SUBSET (1..n), NEW A \in SUBSET (1..n), A # {},
         \A g \in G, a \in A : g < a
  PROVE  Newest(G \cup A) = Newest(A)
<1>1. Newest(A) \in A /\ \A a \in A : a <= Newest(A)
  BY NewestIsLast
<1>2. G \cup A \in SUBSET (1..n) /\ G \cup A # {}
  OBVIOUS
<1>3. Newest(G \cup A) \in G \cup A /\ \A i \in G \cup A : i <= Newest(G \cup A)
  <2> DEFINE B == G \cup A
  <2>1. B \in SUBSET (1..n) /\ B # {}
    BY <1>2
  <2> HIDE DEF B
  <2>2. Newest(B) \in B /\ \A i \in B : i <= Newest(B)
    BY <2>1, NewestIsLast
  <2>3. QED
    BY <2>2 DEF B
<1>4. Newest(A) \in Nat /\ Newest(G \cup A) \in Nat
  <2>1. \A i \in G \cup A : i \in Nat
    OBVIOUS
  <2>2. Newest(A) \in G \cup A
    BY <1>1
  <2>3. QED
    BY <1>3, <2>1, <2>2
<1>5. Newest(A) <= Newest(G \cup A)
  BY <1>1, <1>3
<1>6. Newest(G \cup A) <= Newest(A)
  <2>1. CASE Newest(G \cup A) \in A
    BY <1>1, <2>1
  <2>2. CASE Newest(G \cup A) \in G
    BY <1>1, <1>4, <2>2
  <2>3. QED
    BY <1>3, <2>1, <2>2
<1>7. QED
  BY <1>4, <1>5, <1>6

----------------------------------------------------------------------------
(***************************************************************************)
(* The methods of DeviceState keep every field in its type.                *)
(***************************************************************************)
LEMMA SettleInstallsType ==
  ASSUME NEW d \in Device PROVE SettleInstalls(d) \in Device
<1> DEFINE o == [i \in DOMAIN d.ops |->
                   IF i \notin DueOps(d) THEN d.ops[i]
                   ELSE [d.ops[i] EXCEPT !.status =
                           IF d.ops[i].willFail THEN "failed" ELSE "complete"]]
           m == [v \in Volumes |->
                   IF Installed(d, v) = {} THEN d.image[v]
                   ELSE d.ops[Newest(Installed(d, v))].version]
<1>1. d.ops \in Seq(Operation) /\ d.image \in [Volumes -> Versions]
  BY DEF Device
<1>2. Len(d.ops) \in Nat /\ DOMAIN d.ops = 1..Len(d.ops)
  BY <1>1
<1>3. \A i \in DOMAIN d.ops : d.ops[i] \in Operation
  BY <1>1
<1>4. o \in Seq(Operation)
  <2>1. \A i \in DOMAIN d.ops : o[i] \in Operation
    BY <1>3 DEF Operation
  <2>2. o \in [1..Len(d.ops) -> Operation]
    BY <2>1, <1>2
  <2>3. QED
    BY <2>2, <1>2, SeqDef
<1>5. m \in [Volumes -> Versions]
  <2>1. ASSUME NEW v \in Volumes, Installed(d, v) # {}
        PROVE  Newest(Installed(d, v)) \in DOMAIN d.ops
    <3>1. Installed(d, v) \subseteq 1..Len(d.ops)
      BY <1>2 DEF Installed, DueOps
    <3>2. QED
      BY <3>1, <2>1, <1>2, NewestIsLast
  <2>2. QED
    BY <2>1, <1>1, <1>3 DEF Operation
<1>6. QED
  BY <1>4, <1>5 DEF SettleInstalls, Device

\* Booting into the active volume (the end of a reboot window) yields a device.
LEMMA BootType ==
  ASSUME NEW d \in Device PROVE Boot(d) \in Device
<1>1. ActiveVolume(d) \in Volumes
  BY DEF ActiveVolume, Volumes
<1>2. d.image[ActiveVolume(d)] \in Versions
  BY <1>1 DEF Device
<1>3. QED
  BY <1>2 DEF Boot, Device, HAStates, SyncStates, NoReboot

\* Settling a reboot, due or not, yields a device.
LEMMA SettleRebootType ==
  ASSUME NEW d \in Device PROVE SettleReboot(d) \in Device
BY BootType DEF SettleReboot

\* Settling the DO tasks keeps the types of the tasks and of what they applied.
LEMMA SettleDoType ==
  ASSUME NEW d \in Device PROVE SettleDo(d) \in Device
<1> DEFINE t == [i \in DOMAIN d.doTasks |->
                   IF i \notin DueDo(d) THEN d.doTasks[i]
                   ELSE [d.doTasks[i] EXCEPT !.status =
                           IF d.doTasks[i].willFail THEN "ERROR" ELSE "OK"]]
           a == IF AppliedDo(d) = {} THEN d.doState
                ELSE d.doTasks[Newest(AppliedDo(d))].declaration
<1>1. d.doTasks \in Seq(DOTask) /\ d.doState \in Applied
  BY DEF Device
<1>2. Len(d.doTasks) \in Nat /\ DOMAIN d.doTasks = 1..Len(d.doTasks)
  BY <1>1
<1>3. \A i \in DOMAIN d.doTasks : d.doTasks[i] \in DOTask
  BY <1>1
<1>4. t \in Seq(DOTask)
  <2>1. \A i \in DOMAIN d.doTasks : t[i] \in DOTask
    BY <1>3 DEF DOTask
  <2>2. t \in [1..Len(d.doTasks) -> DOTask]
    BY <2>1, <1>2
  <2>3. QED
    BY <2>2, <1>2, SeqDef
<1>5. a \in Applied
  <2>1. CASE AppliedDo(d) = {}
    BY <2>1, <1>1
  <2>2. CASE AppliedDo(d) # {}
    <3>1. AppliedDo(d) \subseteq 1..Len(d.doTasks)
      BY <1>2 DEF AppliedDo, DueDo
    <3>2. Newest(AppliedDo(d)) \in DOMAIN d.doTasks
      BY <3>1, <2>2, <1>2, NewestIsLast
    <3>3. QED
      BY <3>2, <2>2, <1>3 DEF DOTask, Applied
  <2>3. QED
    BY <2>1, <2>2
<1>6. QED
  BY <1>4, <1>5 DEF SettleDo, Device

\* Settling the AS3 tasks keeps their types and those of each tenant's state.
LEMMA SettleAs3Type ==
  ASSUME NEW d \in Device PROVE SettleAs3(d) \in Device
<1> DEFINE t == [i \in DOMAIN d.as3Tasks |->
                   IF i \notin DueAs3(d) THEN d.as3Tasks[i]
                   ELSE [d.as3Tasks[i] EXCEPT !.code =
                           IF d.as3Tasks[i].willFail THEN 422 ELSE 200]]
           a == [n \in Tenants |->
                   IF AppliedAs3(d, n) = {} THEN d.as3State[n]
                   ELSE d.as3Tasks[Newest(AppliedAs3(d, n))].declaration]
<1>1. d.as3Tasks \in Seq(AS3Task) /\ d.as3State \in [Tenants -> Applied]
  BY DEF Device
<1>2. Len(d.as3Tasks) \in Nat /\ DOMAIN d.as3Tasks = 1..Len(d.as3Tasks)
  BY <1>1
<1>3. \A i \in DOMAIN d.as3Tasks : d.as3Tasks[i] \in AS3Task
  BY <1>1
<1>4. t \in Seq(AS3Task)
  <2>1. \A i \in DOMAIN d.as3Tasks : t[i] \in AS3Task
    BY <1>3 DEF AS3Task
  <2>2. t \in [1..Len(d.as3Tasks) -> AS3Task]
    BY <2>1, <1>2
  <2>3. QED
    BY <2>2, <1>2, SeqDef
<1>5. a \in [Tenants -> Applied]
  <2>1. ASSUME NEW n \in Tenants, AppliedAs3(d, n) # {}
        PROVE  Newest(AppliedAs3(d, n)) \in DOMAIN d.as3Tasks
    <3>1. AppliedAs3(d, n) \subseteq 1..Len(d.as3Tasks)
      BY <1>2 DEF AppliedAs3, DueAs3
    <3>2. QED
      BY <3>1, <2>1, <1>2, NewestIsLast
  <2>2. \A i \in DOMAIN d.as3Tasks : d.as3Tasks[i].declaration \in Applied
    BY <1>3 DEF AS3Task, Applied
  <2>3. QED
    BY <2>1, <2>2, <1>1
<1>6. QED
  BY <1>4, <1>5 DEF SettleAs3, Device

\* advance() maps a device to a device.
LEMMA AdvanceType ==
  ASSUME NEW d \in Device PROVE Advance(d) \in Device
BY SettleInstallsType, SettleRebootType, SettleDoType, SettleAs3Type DEF Advance

\* start_install() appends a well-formed operation.
LEMMA StartInstallType ==
  ASSUME NEW d \in Device, NEW v \in Volumes, NEW version \in Versions
  PROVE  StartInstall(d, v, version) \in Device
<1> DEFINE op == [volume |-> v, version |-> version, left |-> InstallTime,
                  willFail |-> "fail_next_install" \in d.chaos,
                  status |-> "in progress"]
<1>1. op \in Operation
  BY TimingAssumption DEF Operation
<1>2. d.ops \in Seq(Operation)
  BY DEF Device
<1>3. Append(d.ops, op) \in Seq(Operation)
  BY <1>1, <1>2, AppendProperties
<1>4. d.chaos \ {"fail_next_install"} \in SUBSET Flags
  BY DEF Device
<1>5. QED
  BY <1>3, <1>4 DEF StartInstall, Device

\* start_reboot() opens a window of a natural number of seconds.
LEMMA StartRebootType ==
  ASSUME NEW d \in Device PROVE StartReboot(d) \in Device
<1>1. RebootTime * SlowRebootFactor \in Nat
  BY TimingAssumption
<1>2. QED
  BY <1>1, TimingAssumption DEF StartReboot, Device

\* activate_volume() leaves a set of volumes active.
LEMMA ActivateVolumeType ==
  ASSUME NEW d \in Device, NEW v \in Volumes PROVE ActivateVolume(d, v) \in Device
BY DEF ActivateVolume, Device

\* DeviceState.fresh() makes a device, whatever the version.
LEMMA FreshWithType ==
  ASSUME NEW version \in Versions PROVE FreshWith(version) \in Device
BY VersionsAssumption
   DEF FreshWith, Device, Volumes, HAStates, SyncStates, NoReboot, Applied

\* Time runs out at zero; no reboot stays no reboot.
LEMMA LessType ==
  /\ \A n \in Nat : Less(n) \in Nat
  /\ \A n \in Nat \cup {NoReboot} : Less(n) \in Nat \cup {NoReboot}
BY DEF Less, NoReboot

\* A second of clock time maps a device to a device.
LEMMA ElapseType ==
  ASSUME NEW d \in Device PROVE Elapse(d) \in Device
<1> DEFINE o == [i \in DOMAIN d.ops |-> [d.ops[i] EXCEPT !.left = Less(@)]]
           t == [i \in DOMAIN d.doTasks |-> [d.doTasks[i] EXCEPT !.left = Less(@)]]
           a == [i \in DOMAIN d.as3Tasks |-> [d.as3Tasks[i] EXCEPT !.left = Less(@)]]
<1>1. o \in Seq(Operation)
  <2>1. d.ops \in Seq(Operation)
    BY DEF Device
  <2>2. Len(d.ops) \in Nat /\ DOMAIN d.ops = 1..Len(d.ops)
    BY <2>1
  <2>3. \A i \in DOMAIN d.ops : o[i] \in Operation
    <3> TAKE i \in DOMAIN d.ops
    <3>1. d.ops[i] \in Operation
      BY <2>1
    <3>2. d.ops[i].left \in Nat
      BY <3>1 DEF Operation
    <3>3. Less(d.ops[i].left) \in Nat
      BY <3>2, LessType
    <3>4. QED
      BY <3>1, <3>3 DEF Operation
  <2>4. o \in [1..Len(d.ops) -> Operation]
    BY <2>2, <2>3
  <2>5. QED
    BY <2>2, <2>4, SeqDef
<1>2. t \in Seq(DOTask)
  <2>1. d.doTasks \in Seq(DOTask)
    BY DEF Device
  <2>2. Len(d.doTasks) \in Nat /\ DOMAIN d.doTasks = 1..Len(d.doTasks)
    BY <2>1
  <2>3. \A i \in DOMAIN d.doTasks : t[i] \in DOTask
    <3> TAKE i \in DOMAIN d.doTasks
    <3>1. d.doTasks[i] \in DOTask
      BY <2>1
    <3>2. d.doTasks[i].left \in Nat
      BY <3>1 DEF DOTask
    <3>3. Less(d.doTasks[i].left) \in Nat
      BY <3>2, LessType
    <3>4. QED
      BY <3>1, <3>3 DEF DOTask
  <2>4. t \in [1..Len(d.doTasks) -> DOTask]
    BY <2>2, <2>3
  <2>5. QED
    BY <2>2, <2>4, SeqDef
<1>3. a \in Seq(AS3Task)
  <2>1. d.as3Tasks \in Seq(AS3Task)
    BY DEF Device
  <2>2. Len(d.as3Tasks) \in Nat /\ DOMAIN d.as3Tasks = 1..Len(d.as3Tasks)
    BY <2>1
  <2>3. \A i \in DOMAIN d.as3Tasks : a[i] \in AS3Task
    <3> TAKE i \in DOMAIN d.as3Tasks
    <3>1. d.as3Tasks[i] \in AS3Task
      BY <2>1
    <3>2. d.as3Tasks[i].left \in Nat
      BY <3>1 DEF AS3Task
    <3>3. Less(d.as3Tasks[i].left) \in Nat
      BY <3>2, LessType
    <3>4. QED
      BY <3>1, <3>3 DEF AS3Task
  <2>4. a \in [1..Len(d.as3Tasks) -> AS3Task]
    BY <2>2, <2>3
  <2>5. QED
    BY <2>2, <2>4, SeqDef
<1>4. Less(d.reboot) \in Nat \cup {NoReboot}
  BY LessType DEF Device
<1>5. QED
  BY <1>1, <1>2, <1>3, <1>4 DEF Elapse, Device

----------------------------------------------------------------------------
(***************************************************************************)
(* Settling and waiting never touch which volume is active.                *)
(***************************************************************************)
\* advance() does not touch which volume is active.
LEMMA AdvanceActive ==
  ASSUME NEW d \in Device PROVE Advance(d).active = d.active
<1>1. SettleInstalls(d).active = d.active
  BY DEF SettleInstalls, Device
<1>2. \A e \in Device : SettleReboot(e).active = e.active
  BY DEF SettleReboot, Boot, Device
<1>3. \A e \in Device : SettleDo(e).active = e.active
  BY DEF SettleDo, Device
<1>4. \A e \in Device : SettleAs3(e).active = e.active
  BY DEF SettleAs3, Device
<1>5. QED
  BY <1>1, <1>2, <1>3, <1>4, SettleInstallsType, SettleRebootType, SettleDoType
  DEF Advance

\* Clock time does not touch which volume is active.
LEMMA ElapseActive ==
  ASSUME NEW d \in Device PROVE Elapse(d).active = d.active
BY DEF Elapse, Device

----------------------------------------------------------------------------
(***************************************************************************)
(* The list of installs: only the first part of advance() changes it.      *)
(***************************************************************************)
LEMMA AdvanceOps ==
  ASSUME NEW d \in Device
  PROVE  /\ Advance(d).ops = SettleInstalls(d).ops
         /\ Advance(d).image = SettleInstalls(d).image
<1>1. \A e \in Device : SettleReboot(e).ops = e.ops /\ SettleReboot(e).image = e.image
  BY DEF SettleReboot, Boot, Device
<1>2. \A e \in Device : SettleDo(e).ops = e.ops /\ SettleDo(e).image = e.image
  BY DEF SettleDo, Device
<1>3. \A e \in Device : SettleAs3(e).ops = e.ops /\ SettleAs3(e).image = e.image
  BY DEF SettleAs3, Device
<1>4. QED
  BY <1>1, <1>2, <1>3, SettleInstallsType, SettleRebootType, SettleDoType DEF Advance

\* The image of a volume after advance() is that of the newest install that it settles.
LEMMA AdvanceImage ==
  ASSUME NEW d \in Device, NEW v \in Volumes
  PROVE  Advance(d).image[v] = IF Installed(d, v) = {} THEN d.image[v]
                               ELSE d.ops[Newest(Installed(d, v))].version
<1> DEFINE image == [w \in Volumes |->
                       IF Installed(d, w) = {} THEN d.image[w]
                       ELSE d.ops[Newest(Installed(d, w))].version]
<1>1. SettleInstalls(d).image = image
  BY DEF SettleInstalls, Device
<1>2. image[v] = IF Installed(d, v) = {} THEN d.image[v]
                 ELSE d.ops[Newest(Installed(d, v))].version
  OBVIOUS
<1> HIDE DEF image
<1>3. QED
  BY <1>1, <1>2, AdvanceOps

(***************************************************************************)
(* What a settled, an elapsed and an extended list of installs hold.       *)
(***************************************************************************)
LEMMA OpTypes ==
  ASSUME NEW d \in Device
  PROVE  /\ d.ops \in Seq(Operation)
         /\ DOMAIN d.ops = 1..Len(d.ops) /\ Len(d.ops) \in Nat
         /\ \A i \in DOMAIN d.ops : /\ d.ops[i] \in Operation
                                    /\ d.ops[i].left \in Nat
<1>1. d.ops \in Seq(Operation)
  BY DEF Device
<1>2. DOMAIN d.ops = 1..Len(d.ops) /\ Len(d.ops) \in Nat
  BY <1>1
<1>3. \A i \in DOMAIN d.ops : d.ops[i] \in Operation
  BY <1>1
<1>4. \A i \in DOMAIN d.ops : d.ops[i].left \in Nat
  BY <1>3 DEF Operation
<1>5. QED
  BY <1>1, <1>2, <1>3, <1>4

\* advance() changes nothing of an operation but its status, and that only
\* when the operation is in progress and due.
LEMMA SettledOps ==
  ASSUME NEW d \in Device
  PROVE  /\ DOMAIN Advance(d).ops = DOMAIN d.ops
         /\ \A i \in DOMAIN d.ops :
              /\ Advance(d).ops[i].left = d.ops[i].left
              /\ Advance(d).ops[i].volume = d.ops[i].volume
              /\ Advance(d).ops[i].version = d.ops[i].version
              /\ Advance(d).ops[i].willFail = d.ops[i].willFail
              /\ Advance(d).ops[i].status =
                   IF i \in DueOps(d)
                     THEN IF d.ops[i].willFail THEN "failed" ELSE "complete"
                     ELSE d.ops[i].status
<1> DEFINE o == [i \in DOMAIN d.ops |->
                   IF i \notin DueOps(d) THEN d.ops[i]
                   ELSE [d.ops[i] EXCEPT !.status =
                           IF d.ops[i].willFail THEN "failed" ELSE "complete"]]
<1>1. Advance(d).ops = o
  BY AdvanceOps DEF SettleInstalls, Device
<1>2. DOMAIN o = DOMAIN d.ops
  OBVIOUS
<1>3. ASSUME NEW i \in DOMAIN d.ops
      PROVE  /\ o[i].left = d.ops[i].left
             /\ o[i].volume = d.ops[i].volume
             /\ o[i].version = d.ops[i].version
             /\ o[i].willFail = d.ops[i].willFail
             /\ o[i].status =
                  IF i \in DueOps(d)
                    THEN IF d.ops[i].willFail THEN "failed" ELSE "complete"
                    ELSE d.ops[i].status
  <2>1. d.ops[i] \in Operation
    BY OpTypes
  <2>2. CASE i \notin DueOps(d)
    BY <2>2
  <2>3. CASE i \in DueOps(d)
    BY <2>1, <2>3 DEF Operation
  <2>4. QED
    BY <2>2, <2>3
<1> HIDE DEF o
<1>4. QED
  BY <1>1, <1>2, <1>3

\* A second changes nothing of an operation but the time it has left.
LEMMA ElapsedOps ==
  ASSUME NEW d \in Device
  PROVE  /\ DOMAIN Elapse(d).ops = DOMAIN d.ops
         /\ \A i \in DOMAIN d.ops :
              /\ Elapse(d).ops[i].left = Less(d.ops[i].left)
              /\ Elapse(d).ops[i].volume = d.ops[i].volume
              /\ Elapse(d).ops[i].version = d.ops[i].version
              /\ Elapse(d).ops[i].willFail = d.ops[i].willFail
              /\ Elapse(d).ops[i].status = d.ops[i].status
<1> DEFINE o == [i \in DOMAIN d.ops |-> [d.ops[i] EXCEPT !.left = Less(@)]]
<1>1. Elapse(d).ops = o
  BY DEF Elapse, Device
<1>2. DOMAIN o = DOMAIN d.ops
  OBVIOUS
<1>3. ASSUME NEW i \in DOMAIN d.ops
      PROVE  /\ o[i].left = Less(d.ops[i].left)
             /\ o[i].volume = d.ops[i].volume
             /\ o[i].version = d.ops[i].version
             /\ o[i].willFail = d.ops[i].willFail
             /\ o[i].status = d.ops[i].status
  <2>1. d.ops[i] \in Operation
    BY OpTypes
  <2>2. QED
    BY <2>1 DEF Operation
<1> HIDE DEF o
<1>4. QED
  BY <1>1, <1>2, <1>3

\* start_install() leaves the older operations alone and adds one in progress.
LEMMA StartedOps ==
  ASSUME NEW d \in Device, NEW v \in Volumes, NEW version \in Versions
  PROVE  /\ DOMAIN StartInstall(d, v, version).ops = 1..(Len(d.ops) + 1)
         /\ \A i \in DOMAIN d.ops : StartInstall(d, v, version).ops[i] = d.ops[i]
         /\ StartInstall(d, v, version).ops[Len(d.ops) + 1] =
              [volume |-> v, version |-> version, left |-> InstallTime,
               willFail |-> "fail_next_install" \in d.chaos, status |-> "in progress"]
         /\ StartInstall(d, v, version).image = d.image
<1> DEFINE o == [volume |-> v, version |-> version, left |-> InstallTime,
                 willFail |-> "fail_next_install" \in d.chaos, status |-> "in progress"]
<1>1. StartInstall(d, v, version).ops = Append(d.ops, o)
  BY DEF StartInstall, Device
<1>2. StartInstall(d, v, version).image = d.image
  BY DEF StartInstall, Device
<1>3. d.ops \in Seq(Operation) /\ DOMAIN d.ops = 1..Len(d.ops) /\ Len(d.ops) \in Nat
  BY OpTypes
<1> HIDE DEF o
<1>4. /\ DOMAIN Append(d.ops, o) = 1..(Len(d.ops) + 1)
      /\ \A i \in 1..Len(d.ops) : Append(d.ops, o)[i] = d.ops[i]
      /\ Append(d.ops, o)[Len(d.ops) + 1] = o
  BY <1>3
<1>5. QED
  BY <1>1, <1>2, <1>3, <1>4 DEF o

----------------------------------------------------------------------------
(***************************************************************************)
(* Installs that end in the order they were started.                       *)
(***************************************************************************)
InOrder(d) ==
    \A i, j \in DOMAIN d.ops : i < j /\ d.ops[i].status = "in progress" =>
        d.ops[j].status = "in progress" /\ d.ops[i].left <= d.ops[j].left

Within(d) == \A i \in DOMAIN d.ops : d.ops[i].left <= InstallTime

\* Settling keeps the installs in order: what is due is a prefix of what is open.
LEMMA AdvanceInOrder ==
  ASSUME NEW d \in Device, InOrder(d), Within(d)
  PROVE  InOrder(Advance(d)) /\ Within(Advance(d))
<1> DEFINE a == Advance(d)
<1>a. \A m, n \in Nat : m # 0 /\ m <= n => n # 0
  OBVIOUS
<1>1. Within(a)
  BY SettledOps DEF Within
<1>2. ASSUME NEW i \in DOMAIN a.ops, NEW j \in DOMAIN a.ops,
             i < j, a.ops[i].status = "in progress"
      PROVE  a.ops[j].status = "in progress" /\ a.ops[i].left <= a.ops[j].left
  <2>1. i \in DOMAIN d.ops /\ j \in DOMAIN d.ops
    BY SettledOps
  <2>2. i \notin DueOps(d) /\ d.ops[i].status = "in progress"
    BY <1>2, <2>1, SettledOps
  <2>3. d.ops[i].left # 0
    BY <2>1, <2>2 DEF DueOps
  <2>4. d.ops[j].status = "in progress" /\ d.ops[i].left <= d.ops[j].left
    BY <1>2, <2>1, <2>2 DEF InOrder
  <2>a. d.ops[i].left \in Nat /\ d.ops[j].left \in Nat
    BY <2>1, OpTypes
  <2>b. d.ops[j].left # 0
    BY <1>a, <2>3, <2>4, <2>a
  <2>5. j \notin DueOps(d)
    BY <2>b DEF DueOps
  <2>6. QED
    BY <2>1, <2>4, <2>5, SettledOps
<1>3. QED
  BY <1>1, <1>2 DEF InOrder

\* The clock keeps the installs in order: it counts all deadlines down together.
LEMMA ElapseInOrder ==
  ASSUME NEW d \in Device, InOrder(d), Within(d)
  PROVE  InOrder(Elapse(d)) /\ Within(Elapse(d))
<1>1. \A m, n \in Nat : m <= n => Less(m) <= Less(n)
  BY DEF Less
<1>2. \A m \in Nat : Less(m) <= m
  BY DEF Less
<1>3. Within(Elapse(d))
  <2> SUFFICES ASSUME NEW i \in DOMAIN Elapse(d).ops
               PROVE  Elapse(d).ops[i].left <= InstallTime
    BY DEF Within
  <2>1. i \in DOMAIN d.ops
    BY ElapsedOps
  <2>2. d.ops[i].left \in Nat /\ d.ops[i].left <= InstallTime
    BY <2>1, OpTypes DEF Within
  <2>3. Less(d.ops[i].left) \in Nat /\ Less(d.ops[i].left) <= d.ops[i].left
    BY <2>2, <1>2, LessType
  <2>4. QED
    BY <2>1, <2>2, <2>3, ElapsedOps, TimingAssumption
<1>4. InOrder(Elapse(d))
  <2> SUFFICES ASSUME NEW i \in DOMAIN Elapse(d).ops, NEW j \in DOMAIN Elapse(d).ops,
                      i < j, Elapse(d).ops[i].status = "in progress"
               PROVE  /\ Elapse(d).ops[j].status = "in progress"
                      /\ Elapse(d).ops[i].left <= Elapse(d).ops[j].left
    BY DEF InOrder
  <2>1. i \in DOMAIN d.ops /\ j \in DOMAIN d.ops
    BY ElapsedOps
  <2>2. d.ops[i].status = "in progress"
    BY <2>1, ElapsedOps
  <2>3. d.ops[j].status = "in progress" /\ d.ops[i].left <= d.ops[j].left
    BY <2>1, <2>2 DEF InOrder
  <2>4. d.ops[i].left \in Nat /\ d.ops[j].left \in Nat
    BY <2>1, OpTypes
  <2>5. Less(d.ops[i].left) <= Less(d.ops[j].left)
    BY <1>1, <2>3, <2>4
  <2>6. QED
    BY <2>1, <2>3, <2>5, ElapsedOps
<1>5. QED
  BY <1>3, <1>4

\* A new install is due last, since no older one has more than InstallTime left.
LEMMA StartInstallInOrder ==
  ASSUME NEW d \in Device, NEW v \in Volumes, NEW version \in Versions,
         InOrder(d), Within(d)
  PROVE  InOrder(StartInstall(d, v, version)) /\ Within(StartInstall(d, v, version))
<1> DEFINE s == StartInstall(d, v, version)
           n == Len(d.ops)
           o == [volume |-> v, version |-> version, left |-> InstallTime,
                 willFail |-> "fail_next_install" \in d.chaos, status |-> "in progress"]
<1>a. o.left = InstallTime /\ o.status = "in progress"
  OBVIOUS
<1>b. /\ DOMAIN s.ops = 1..(n + 1)
      /\ \A i \in DOMAIN d.ops : s.ops[i] = d.ops[i]
      /\ s.ops[n + 1] = o
  BY StartedOps
<1>1. n \in Nat /\ DOMAIN d.ops = 1..n
  BY OpTypes
<1> HIDE DEF s, n, o
<1>2. s.ops[n + 1].left = InstallTime /\ s.ops[n + 1].status = "in progress"
  BY <1>a, <1>b
<1>3. \A i \in 1..n : s.ops[i] = d.ops[i]
  BY <1>1, <1>b
<1>4. \A i \in 1..n : d.ops[i].left <= InstallTime
  BY <1>1 DEF Within
<1>c. InstallTime <= InstallTime
  BY TimingAssumption
<1>d. \A i \in 1..(n + 1) : i \in 1..n \/ i = n + 1
  BY <1>1
<1>e. \A i, j \in 1..(n + 1) : i < j => i \in 1..n
  BY <1>1
<1>5. Within(s)
  <2> SUFFICES ASSUME NEW i \in DOMAIN s.ops PROVE s.ops[i].left <= InstallTime
    BY DEF Within
  <2>1. CASE i \in 1..n
    BY <1>3, <1>4, <2>1
  <2>2. CASE i = n + 1
    BY <1>2, <1>c, <2>2
  <2>3. QED
    BY <1>b, <1>d, <2>1, <2>2
<1>6. ASSUME NEW i \in DOMAIN s.ops, NEW j \in DOMAIN s.ops,
             i < j, s.ops[i].status = "in progress"
      PROVE  s.ops[j].status = "in progress" /\ s.ops[i].left <= s.ops[j].left
  <2>a. i \in 1..(n + 1) /\ j \in 1..(n + 1)
    BY <1>b
  <2>1. i \in 1..n
    BY <1>e, <1>6, <2>a
  <2>2. CASE j \in 1..n
    BY <1>1, <1>3, <1>6, <2>1, <2>2 DEF InOrder
  <2>3. CASE j = n + 1
    BY <1>2, <1>3, <1>4, <2>1, <2>3
  <2>4. QED
    BY <1>d, <2>a, <2>2, <2>3
<1>7. InOrder(s)
  BY <1>6 DEF InOrder
<1>8. QED
  BY <1>5, <1>7 DEF s
----------------------------------------------------------------------------
(***************************************************************************)
(* A volume whose newest install is reported complete holds what that      *)
(* install asked for.                                                      *)
(***************************************************************************)
ImagesMatch(d) ==
    \A v \in Volumes :
      OpsOn(d, v) # {} /\ VolumeStatus(d, v) = "complete" =>
          d.image[v] = d.ops[Newest(OpsOn(d, v))].version

\* The newest operation on a volume exists and is one of its operations.
LEMMA NewestOp ==
  ASSUME NEW d \in Device, NEW v, OpsOn(d, v) # {}
  PROVE  /\ Newest(OpsOn(d, v)) \in DOMAIN d.ops
         /\ d.ops[Newest(OpsOn(d, v))].volume = v
         /\ \A i \in DOMAIN d.ops : d.ops[i].volume = v => i <= Newest(OpsOn(d, v))
<1>1. OpsOn(d, v) \subseteq 1..Len(d.ops) /\ Len(d.ops) \in Nat
  BY OpTypes DEF OpsOn
<1>2. /\ Newest(OpsOn(d, v)) \in OpsOn(d, v)
      /\ \A i \in OpsOn(d, v) : i <= Newest(OpsOn(d, v))
  BY <1>1, NewestIsLast
<1>3. QED
  BY <1>2 DEF OpsOn

\* A volume that turns complete has just been given the version of its newest
\* install, and one that was complete is not overwritten by an older one.
LEMMA AdvanceMatch ==
  ASSUME NEW d \in Device, InOrder(d), ImagesMatch(d)
  PROVE  ImagesMatch(Advance(d))
<1> DEFINE a == Advance(d)
<1>1. \A v \in Volumes : OpsOn(a, v) = OpsOn(d, v)
  BY SettledOps DEF OpsOn
<1> SUFFICES ASSUME NEW v \in Volumes, OpsOn(a, v) # {}, VolumeStatus(a, v) = "complete"
             PROVE  a.image[v] = a.ops[Newest(OpsOn(a, v))].version
  BY DEF ImagesMatch
<1> DEFINE n == Newest(OpsOn(d, v))
<1>2. /\ n \in DOMAIN d.ops
      /\ d.ops[n].volume = v
      /\ \A i \in DOMAIN d.ops : d.ops[i].volume = v => i <= n
  BY <1>1, NewestOp
<1>3. a.ops[n].status = "complete" /\ a.ops[Newest(OpsOn(a, v))].version = d.ops[n].version
  BY <1>1, <1>2, SettledOps DEF VolumeStatus
<1>4. a.image[v] = IF Installed(d, v) = {} THEN d.image[v]
                   ELSE d.ops[Newest(Installed(d, v))].version
  BY AdvanceImage
<1> HIDE DEF a, n
<1>5. CASE n \in DueOps(d)
  <2>1. n \in Installed(d, v)
    BY <1>2, <1>3, <1>5, SettledOps DEF Installed, a
  <2>2. Installed(d, v) \subseteq 1..Len(d.ops) /\ Len(d.ops) \in Nat
    BY OpTypes DEF Installed, DueOps
  <2>3. \A i \in Installed(d, v) : i <= n
    BY <1>2 DEF Installed, DueOps
  <2>4. /\ Newest(Installed(d, v)) \in Installed(d, v)
        /\ n <= Newest(Installed(d, v))
    BY <2>1, <2>2, NewestIsLast
  <2>5. Newest(Installed(d, v)) = n
    BY <2>1, <2>2, <2>3, <2>4
  <2>6. QED
    BY <1>3, <1>4, <2>1, <2>5
<1>6. CASE n \notin DueOps(d)
  <2>1. d.ops[n].status = "complete"
    BY <1>2, <1>3, <1>6, SettledOps DEF a
  <2>2. Installed(d, v) = {}
    <3> SUFFICES ASSUME NEW i \in Installed(d, v) PROVE FALSE
      OBVIOUS
    <3>1. i \in DOMAIN d.ops /\ d.ops[i].volume = v /\ d.ops[i].status = "in progress"
      BY DEF Installed, DueOps
    <3>2. i <= n /\ i # n
      BY <1>2, <2>1, <3>1
    <3>a. \A k, m \in Nat : k <= m /\ k # m => k < m
      OBVIOUS
    <3>b. \A k \in 1..Len(d.ops) : k \in Nat
      BY OpTypes
    <3>3. i < n
      BY <1>2, <3>1, <3>2, <3>a, <3>b, OpTypes
    <3>4. QED
      BY <1>2, <2>1, <3>1, <3>3 DEF InOrder
  <2>3. d.image[v] = d.ops[n].version
    BY <1>1, <1>2, <2>1 DEF ImagesMatch, VolumeStatus, n
  <2>4. QED
    BY <1>3, <1>4, <2>2, <2>3
<1>7. QED
  BY <1>5, <1>6

\* The clock changes neither images nor statuses.
LEMMA ElapseMatch ==
  ASSUME NEW d \in Device, ImagesMatch(d)
  PROVE  ImagesMatch(Elapse(d))
<1> DEFINE e == Elapse(d)
<1>1. e.image = d.image
  BY DEF Elapse, Device
<1>2. \A v \in Volumes : OpsOn(e, v) = OpsOn(d, v)
  BY ElapsedOps DEF OpsOn
<1> SUFFICES ASSUME NEW v \in Volumes, OpsOn(e, v) # {}, VolumeStatus(e, v) = "complete"
             PROVE  e.image[v] = e.ops[Newest(OpsOn(e, v))].version
  BY DEF ImagesMatch
<1>3. Newest(OpsOn(d, v)) \in DOMAIN d.ops
  BY <1>2, NewestOp
<1>4. VolumeStatus(d, v) = "complete"
  BY <1>2, <1>3, ElapsedOps DEF VolumeStatus
<1>5. QED
  BY <1>1, <1>2, <1>3, <1>4, ElapsedOps DEF ImagesMatch

\* A volume with a new install is not complete, the other one is as it was.
LEMMA StartInstallMatch ==
  ASSUME NEW d \in Device, NEW u \in Volumes, NEW version \in Versions, ImagesMatch(d)
  PROVE  ImagesMatch(StartInstall(d, u, version))
<1> DEFINE s == StartInstall(d, u, version)
           n == Len(d.ops)
           o == [volume |-> u, version |-> version, left |-> InstallTime,
                 willFail |-> "fail_next_install" \in d.chaos, status |-> "in progress"]
<1>1. s \in Device
  BY StartInstallType
<1>2. o.volume = u /\ o.status = "in progress"
  OBVIOUS
<1>3. /\ DOMAIN s.ops = 1..(n + 1)
      /\ \A i \in DOMAIN d.ops : s.ops[i] = d.ops[i]
      /\ s.ops[n + 1] = o
      /\ s.image = d.image
  BY StartedOps
<1>4. n \in Nat /\ DOMAIN d.ops = 1..n
  BY OpTypes
<1> SUFFICES ASSUME NEW v \in Volumes, OpsOn(s, v) # {}, VolumeStatus(s, v) = "complete"
             PROVE  s.image[v] = s.ops[Newest(OpsOn(s, v))].version
  BY DEF ImagesMatch
<1>5. /\ Newest(OpsOn(s, v)) \in DOMAIN s.ops
      /\ s.ops[Newest(OpsOn(s, v))].volume = v
      /\ \A i \in DOMAIN s.ops : s.ops[i].volume = v => i <= Newest(OpsOn(s, v))
  BY <1>1, NewestOp
<1>6. s.ops[Newest(OpsOn(s, v))].status = "complete"
  BY DEF VolumeStatus
<1> HIDE DEF s, n, o
<1>7. n + 1 \in 1..(n + 1) /\ \A i \in 1..(n + 1) : n + 1 <= i => i = n + 1
  BY <1>4
<1>8. v # u
  BY <1>2, <1>3, <1>5, <1>6, <1>7
<1>9. OpsOn(s, v) = OpsOn(d, v)
  <2>1. \A i : i \in 1..(n + 1) <=> i \in 1..n \/ i = n + 1
    BY <1>4
  <2>2. \A i \in 1..n : s.ops[i] = d.ops[i]
    BY <1>3, <1>4
  <2>3. s.ops[n + 1].volume # v
    BY <1>2, <1>3, <1>8
  <2>4. QED
    BY <1>3, <1>4, <2>1, <2>2, <2>3 DEF OpsOn
<1>10. Newest(OpsOn(d, v)) \in DOMAIN d.ops
  BY <1>9, NewestOp
<1>11. s.ops[Newest(OpsOn(s, v))] = d.ops[Newest(OpsOn(d, v))]
  BY <1>3, <1>9, <1>10
<1>12. VolumeStatus(d, v) = "complete"
  BY <1>6, <1>9, <1>11 DEF VolumeStatus
<1>13. QED
  BY <1>3, <1>9, <1>11, <1>12 DEF ImagesMatch

----------------------------------------------------------------------------
(***************************************************************************)
(* The inductive invariant about installs, and the operators under it.     *)
(***************************************************************************)
Installs(d) == InOrder(d) /\ Within(d) /\ ImagesMatch(d)

\* The invariant of the installs is kept by settling, the clock and new installs.
LEMMA InstallsKept ==
  ASSUME NEW d \in Device, Installs(d)
  PROVE  /\ Installs(Advance(d))
         /\ Installs(Elapse(d))
         /\ \A v \in Volumes, version \in Versions : Installs(StartInstall(d, v, version))
<1>1. Installs(Advance(d))
  BY AdvanceInOrder, AdvanceMatch DEF Installs
<1>2. Installs(Elapse(d))
  BY ElapseInOrder, ElapseMatch DEF Installs
<1>3. ASSUME NEW v \in Volumes, NEW version \in Versions
      PROVE  Installs(StartInstall(d, v, version))
  BY StartInstallInOrder, StartInstallMatch DEF Installs
<1>4. QED
  BY <1>1, <1>2, <1>3

\* Whatever leaves installs and images alone keeps the invariant of the installs.
LEMMA SameInstalls ==
  ASSUME NEW d, NEW e, Installs(d), e.ops = d.ops, e.image = d.image
  PROVE  Installs(e)
BY ZenonT(30) DEF Installs, InOrder, Within, ImagesMatch, OpsOn, VolumeStatus

\* A device without installs satisfies the invariant of the installs.
LEMMA NoInstalls ==
  ASSUME NEW d, d.ops = << >>
  PROVE  Installs(d)
BY DEF Installs, InOrder, Within, ImagesMatch, OpsOn

----------------------------------------------------------------------------
(***************************************************************************)
(* A device of which nothing but installs and a reboot has to settle.      *)
(***************************************************************************)
Quiet(d) == d.doTasks = << >> /\ d.as3Tasks = << >>

\* Two devices that agree on every field are the same device.
LEMMA SameDevice ==
  ASSUME NEW d \in Device, NEW e \in Device,
         d.running = e.running, d.ha = e.ha, d.sync = e.sync, d.active = e.active,
         d.image = e.image, d.ops = e.ops, d.backups = e.backups, d.reboot = e.reboot,
         d.chaos = e.chaos, d.doState = e.doState, d.as3State = e.as3State,
         d.doTasks = e.doTasks, d.as3Tasks = e.as3Tasks
  PROVE  d = e
BY DEF Device

\* Without tasks that are due the last two parts of advance() do nothing.
LEMMA QuietSettles ==
  ASSUME NEW d \in Device, Quiet(d)
  PROVE  SettleAs3(SettleDo(d)) = d
<1>1. SettleDo(d) = d
  <2>1. DueDo(d) = {} /\ AppliedDo(d) = {}
    BY DEF Quiet, DueDo, AppliedDo
  <2>2. [i \in DOMAIN d.doTasks |->
           IF i \notin DueDo(d) THEN d.doTasks[i]
           ELSE [d.doTasks[i] EXCEPT !.status =
                   IF d.doTasks[i].willFail THEN "ERROR" ELSE "OK"]] = d.doTasks
    BY <2>1 DEF Quiet
  <2>3. SettleDo(d) = [d EXCEPT !.doTasks = d.doTasks, !.doState = d.doState]
    BY <2>1, <2>2 DEF SettleDo
  <2>4. QED
    BY <2>3 DEF Device
<1>2. SettleAs3(d) = d
  <2>1. DueAs3(d) = {} /\ \A t \in Tenants : AppliedAs3(d, t) = {}
    BY DEF Quiet, DueAs3, AppliedAs3
  <2>2. [i \in DOMAIN d.as3Tasks |->
           IF i \notin DueAs3(d) THEN d.as3Tasks[i]
           ELSE [d.as3Tasks[i] EXCEPT !.code =
                   IF d.as3Tasks[i].willFail THEN 422 ELSE 200]] = d.as3Tasks
    BY <2>1 DEF Quiet
  <2>3. [t \in Tenants |-> IF AppliedAs3(d, t) = {} THEN d.as3State[t]
                          ELSE d.as3Tasks[Newest(AppliedAs3(d, t))].declaration] = d.as3State
    BY <2>1 DEF Device
  <2>4. SettleAs3(d) = [d EXCEPT !.as3Tasks = d.as3Tasks, !.as3State = d.as3State]
    BY <2>2, <2>3 DEF SettleAs3
  <2>5. QED
    BY <2>4 DEF Device
<1>3. QED
  BY <1>1, <1>2

\* What advance() makes of the fields of a quiet device.
LEMMA QuietAdvance ==
  ASSUME NEW d \in Device, Quiet(d)
  PROVE  LET a == Advance(d)
             unhealthy == "post_boot_unhealthy" \in d.chaos
         IN /\ a.active = d.active /\ a.backups = d.backups
            /\ a.doState = d.doState /\ a.as3State = d.as3State
            /\ a.doTasks = d.doTasks /\ a.as3Tasks = d.as3Tasks
            /\ d.reboot = 0 =>
                  /\ a.running = a.image[ActiveVolume(d)]
                  /\ a.ha = IF unhealthy THEN "FORCED OFFLINE" ELSE "ACTIVE"
                  /\ a.sync = IF unhealthy THEN "Disconnected" ELSE "In Sync"
                  /\ a.chaos = d.chaos \ {"post_boot_unhealthy"}
                  /\ a.reboot = NoReboot
            /\ d.reboot # 0 => /\ a.running = d.running /\ a.ha = d.ha /\ a.sync = d.sync
                               /\ a.chaos = d.chaos /\ a.reboot = d.reboot
<1> DEFINE s == SettleInstalls(d)
           r == SettleReboot(s)
<1>1. /\ s \in Device /\ Quiet(s)
      /\ s.active = d.active /\ s.backups = d.backups /\ s.doState = d.doState
      /\ s.as3State = d.as3State /\ s.doTasks = d.doTasks /\ s.as3Tasks = d.as3Tasks
      /\ s.running = d.running /\ s.ha = d.ha /\ s.sync = d.sync /\ s.chaos = d.chaos
      /\ s.reboot = d.reboot
  BY SettleInstallsType DEF SettleInstalls, Device, Quiet
<1>2. Advance(d) = SettleAs3(SettleDo(r))
  BY DEF Advance
<1> HIDE DEF s
<1>3. CASE d.reboot = 0
  <2>1. r = Boot(s)
    BY <1>1, <1>3 DEF SettleReboot
  <2>2. r \in Device
    BY <1>1, SettleRebootType
  <2> HIDE DEF r
  <2>3. /\ r.active = s.active /\ r.backups = s.backups /\ r.doState = s.doState
        /\ r.as3State = s.as3State /\ r.doTasks = s.doTasks /\ r.as3Tasks = s.as3Tasks
        /\ r.image = s.image
        /\ r.running = s.image[ActiveVolume(s)]
        /\ r.ha = IF "post_boot_unhealthy" \in s.chaos THEN "FORCED OFFLINE" ELSE "ACTIVE"
        /\ r.sync = IF "post_boot_unhealthy" \in s.chaos THEN "Disconnected" ELSE "In Sync"
        /\ r.chaos = s.chaos \ {"post_boot_unhealthy"}
        /\ r.reboot = NoReboot
    BY <1>1, <2>1 DEF Boot, Device
  <2>4. Advance(d) = r
    BY <1>1, <1>2, <2>2, <2>3, QuietSettles DEF Quiet
  <2>5. ActiveVolume(s) = ActiveVolume(d)
    BY <1>1 DEF ActiveVolume
  <2>6. QED
    BY <1>1, <1>3, <2>3, <2>4, <2>5
<1>4. CASE d.reboot # 0
  <2>1. r = s
    BY <1>1, <1>4 DEF SettleReboot
  <2>2. Advance(d) = s
    BY <1>1, <1>2, <2>1, QuietSettles
  <2>3. QED
    BY <1>1, <1>4, <2>2
<1>5. QED
  BY <1>3, <1>4

\* Two lists of installs that agree on every field of every install are the same list.
LEMMA SameOps ==
  ASSUME NEW d \in Device, NEW e \in Device, DOMAIN d.ops = DOMAIN e.ops,
         \A i \in DOMAIN d.ops : /\ d.ops[i].volume = e.ops[i].volume
                                 /\ d.ops[i].version = e.ops[i].version
                                 /\ d.ops[i].left = e.ops[i].left
                                 /\ d.ops[i].willFail = e.ops[i].willFail
                                 /\ d.ops[i].status = e.ops[i].status
  PROVE  d.ops = e.ops
<1>1. ASSUME NEW x \in Operation, NEW y \in Operation,
             x.volume = y.volume, x.version = y.version, x.left = y.left,
             x.willFail = y.willFail, x.status = y.status
      PROVE  x = y
  <2> DEFINE Fields == {"volume", "version", "left", "willFail", "status"}
  <2>1. \A f \in Fields : x[f] = y[f]
    BY <1>1, Zenon
  <2>2. x = [f \in Fields |-> x[f]] /\ y = [f \in Fields |-> y[f]]
    BY DEF Operation
  <2>3. QED
    BY <2>1, <2>2, Zenon
<1>2. \A i \in DOMAIN d.ops : d.ops[i] \in Operation /\ e.ops[i] \in Operation
  BY OpTypes
<1>3. \A i \in DOMAIN d.ops : d.ops[i] = e.ops[i]
  BY <1>1, <1>2
<1>4. d.ops = [i \in DOMAIN d.ops |-> d.ops[i]] /\ e.ops = [i \in DOMAIN e.ops |-> e.ops[i]]
  BY OpTypes
<1>5. QED
  BY <1>3, <1>4

\* A device with nothing to settle is as advance() leaves it.
LEMMA NothingDue ==
  ASSUME NEW d \in Device, Quiet(d), DueOps(d) = {}, d.reboot # 0
  PROVE  Advance(d) = d
<1> DEFINE a == Advance(d)
<1>1. a \in Device
  BY AdvanceType
<1>2. a.ops = d.ops
  BY <1>1, SettledOps, SameOps
<1>3. a.image = d.image
  <2>1. \A v \in Volumes : a.image[v] = d.image[v]
    BY AdvanceImage DEF Installed
  <2> HIDE DEF a
  <2>2. d.image \in [Volumes -> Versions] /\ a.image \in [Volumes -> Versions]
    BY <1>1 DEF Device
  <2>3. QED
    BY <2>1, <2>2
<1>4. /\ a.running = d.running /\ a.ha = d.ha /\ a.sync = d.sync /\ a.active = d.active
      /\ a.backups = d.backups /\ a.reboot = d.reboot /\ a.chaos = d.chaos
      /\ a.doState = d.doState /\ a.as3State = d.as3State
      /\ a.doTasks = d.doTasks /\ a.as3Tasks = d.as3Tasks
  BY QuietAdvance
<1> HIDE DEF a
<1>5. a = d
  BY <1>1, <1>2, <1>3, <1>4, SameDevice
<1>6. QED
  BY <1>5 DEF a

\* advance() called twice in one second does nothing the second time.
LEMMA AdvanceTwice ==
  ASSUME NEW d \in Device, Quiet(d)
  PROVE  Advance(Advance(d)) = Advance(d)
<1> DEFINE a == Advance(d)
<1>1. a \in Device /\ Quiet(a)
  BY AdvanceType, QuietAdvance DEF Quiet
<1>2. DueOps(a) = {}
  <2> SUFFICES ASSUME NEW i \in DueOps(a) PROVE FALSE
    OBVIOUS
  <2>1. i \in DOMAIN d.ops /\ a.ops[i].status = "in progress" /\ a.ops[i].left = 0
    BY SettledOps DEF DueOps
  <2>2. i \notin DueOps(d)
    BY <2>1, SettledOps
  <2>3. d.ops[i].status = "in progress" /\ d.ops[i].left = 0
    BY <2>1, <2>2, SettledOps
  <2>4. QED
    BY <2>1, <2>2, <2>3 DEF DueOps
<1>3. a.reboot # 0
  <2>1. a.reboot = NoReboot \/ (a.reboot = d.reboot /\ d.reboot # 0)
    BY QuietAdvance
  <2>2. QED
    BY <2>1 DEF NoReboot
<1> HIDE DEF a
<1>4. Advance(a) = a
  BY <1>1, <1>2, <1>3, NothingDue
<1>5. QED
  BY <1>4 DEF a

\* A device that starts afresh has nothing to settle.
LEMMA AdvanceFresh ==
  ASSUME NEW version \in Versions
  PROVE  Advance(FreshWith(version)) = FreshWith(version)
<1> DEFINE f == FreshWith(version)
<1>1. f \in Device
  BY FreshWithType
<1>2. f.ops = << >> /\ f.doTasks = << >> /\ f.as3Tasks = << >> /\ f.reboot = -1
  BY DEF FreshWith, NoReboot
<1> HIDE DEF f
<1>3. Quiet(f) /\ DueOps(f) = {} /\ f.reboot # 0
  BY <1>2 DEF Quiet, DueOps
<1>4. Advance(f) = f
  BY <1>1, <1>3, NothingDue
<1>5. QED
  BY <1>4 DEF f

\* Flags that are raised or cleared make no difference to what advance() settles, as
\* long as the health of a device that waits for its boot is left alone.
LEMMA AdvanceChaos ==
  ASSUME NEW d \in Device, Quiet(d), NEW f \in SUBSET Flags,
         d.reboot = 0 => ("post_boot_unhealthy" \in f <=> "post_boot_unhealthy" \in d.chaos)
  PROVE  \E g \in SUBSET Flags :
            Advance([d EXCEPT !.chaos = f]) = [Advance(d) EXCEPT !.chaos = g]
<1> DEFINE e == [d EXCEPT !.chaos = f]
           a == Advance(d)
           b == Advance(e)
           c == [a EXCEPT !.chaos = b.chaos]
<1>1. /\ e \in Device /\ Quiet(e) /\ e.chaos = f
      /\ e.ops = d.ops /\ e.image = d.image /\ e.running = d.running /\ e.ha = d.ha
      /\ e.sync = d.sync /\ e.active = d.active /\ e.backups = d.backups
      /\ e.reboot = d.reboot /\ e.doState = d.doState /\ e.as3State = d.as3State
      /\ e.doTasks = d.doTasks /\ e.as3Tasks = d.as3Tasks
  BY DEF Device, Quiet
<1> HIDE DEF e
<1>2. a \in Device /\ b \in Device
  BY <1>1, AdvanceType
<1>3. b.chaos \in SUBSET Flags
  BY <1>2 DEF Device
<1>4. DueOps(e) = DueOps(d) /\ \A v : Installed(e, v) = Installed(d, v)
  BY <1>1 DEF DueOps, Installed
<1>5. b.ops = a.ops
  <2>1. DOMAIN b.ops = DOMAIN a.ops
    BY <1>1, SettledOps
  <2>2. \A i \in DOMAIN a.ops :
           /\ b.ops[i].volume = a.ops[i].volume /\ b.ops[i].version = a.ops[i].version
           /\ b.ops[i].left = a.ops[i].left /\ b.ops[i].willFail = a.ops[i].willFail
           /\ b.ops[i].status = a.ops[i].status
    BY <1>1, <1>4, SettledOps
  <2>3. QED
    BY <1>2, <2>1, <2>2, SameOps
<1>6. b.image = a.image
  <2>1. \A v \in Volumes : b.image[v] = a.image[v]
    BY <1>1, <1>4, AdvanceImage
  <2>2. b.image \in [Volumes -> Versions] /\ a.image \in [Volumes -> Versions]
    BY <1>2 DEF Device
  <2>3. QED
    BY <2>1, <2>2
<1>7. ActiveVolume(e) = ActiveVolume(d)
  BY <1>1 DEF ActiveVolume
<1>8. /\ b.running = a.running /\ b.ha = a.ha /\ b.sync = a.sync /\ b.active = a.active
      /\ b.backups = a.backups /\ b.reboot = a.reboot
      /\ b.doState = a.doState /\ b.as3State = a.as3State
      /\ b.doTasks = a.doTasks /\ b.as3Tasks = a.as3Tasks
  <2>1. CASE d.reboot = 0
    <3>1. /\ b.running = b.image[ActiveVolume(e)]
          /\ b.ha = IF "post_boot_unhealthy" \in e.chaos THEN "FORCED OFFLINE" ELSE "ACTIVE"
          /\ b.sync = IF "post_boot_unhealthy" \in e.chaos THEN "Disconnected" ELSE "In Sync"
          /\ b.reboot = NoReboot
      BY <1>1, <2>1, QuietAdvance
    <3>2. /\ a.running = a.image[ActiveVolume(d)]
          /\ a.ha = IF "post_boot_unhealthy" \in d.chaos THEN "FORCED OFFLINE" ELSE "ACTIVE"
          /\ a.sync = IF "post_boot_unhealthy" \in d.chaos THEN "Disconnected" ELSE "In Sync"
          /\ a.reboot = NoReboot
      BY <2>1, QuietAdvance
    <3>3. b.running = a.running /\ b.ha = a.ha /\ b.sync = a.sync /\ b.reboot = a.reboot
      BY <1>1, <1>6, <1>7, <2>1, <3>1, <3>2
    <3>4. QED
      BY <1>1, <3>3, QuietAdvance
  <2>2. CASE d.reboot # 0
    BY <1>1, <2>2, QuietAdvance
  <2>3. QED
    BY <2>1, <2>2
<1> HIDE DEF a, b
<1>9. /\ c \in Device /\ c.chaos = b.chaos
      /\ c.ops = a.ops /\ c.image = a.image /\ c.running = a.running /\ c.ha = a.ha
      /\ c.sync = a.sync /\ c.active = a.active /\ c.backups = a.backups
      /\ c.reboot = a.reboot /\ c.doState = a.doState /\ c.as3State = a.as3State
      /\ c.doTasks = a.doTasks /\ c.as3Tasks = a.as3Tasks
  BY <1>2, <1>3 DEF Device
<1> HIDE DEF c
<1>10. b = c
  BY <1>2, <1>5, <1>6, <1>8, <1>9, SameDevice
<1>11. QED
  BY <1>3, <1>10 DEF a, b, c, e

(***************************************************************************)
(* The clients of the roles never install into the volume that is active.  *)
(***************************************************************************)
Shielded(d) == \A i \in DOMAIN d.ops : d.ops[i].status = "in progress" => d.ops[i].volume \notin d.active

\* Settling leaves the images of the active volumes of a shielded device alone.
LEMMA ShieldedImages ==
  ASSUME NEW d \in Device, Shielded(d), NEW v \in Volumes \cap d.active
  PROVE  Advance(d).image[v] = d.image[v]
<1>1. Installed(d, v) = {}
  BY DEF Installed, DueOps, Shielded
<1>2. QED
  BY <1>1, AdvanceImage

\* Settling, and the clock, keep a device shielded.
LEMMA ShieldedKept ==
  ASSUME NEW d \in Device, Shielded(d)
  PROVE  Shielded(Advance(d)) /\ Shielded(Elapse(d))
<1>1. Shielded(Advance(d))
  <2> SUFFICES ASSUME NEW i \in DOMAIN Advance(d).ops, Advance(d).ops[i].status = "in progress"
               PROVE  Advance(d).ops[i].volume \notin Advance(d).active
    BY DEF Shielded
  <2>1. i \in DOMAIN d.ops /\ d.ops[i].status = "in progress"
    BY SettledOps
  <2>2. Advance(d).ops[i].volume = d.ops[i].volume /\ Advance(d).active = d.active
    BY <2>1, SettledOps, AdvanceActive
  <2>3. QED
    BY <2>1, <2>2 DEF Shielded
<1>2. Shielded(Elapse(d))
  BY ElapsedOps, ElapseActive, ZenonT(30) DEF Shielded
<1>3. QED
  BY <1>1, <1>2

\* Nothing but the deadlines changes in a second.
LEMMA ElapsedFields ==
  ASSUME NEW d \in Device, Quiet(d)
  PROVE  LET e == Elapse(d)
         IN /\ e.running = d.running /\ e.ha = d.ha /\ e.sync = d.sync /\ e.active = d.active
            /\ e.image = d.image /\ e.backups = d.backups /\ e.reboot = Less(d.reboot)
            /\ e.chaos = d.chaos /\ e.doState = d.doState /\ e.as3State = d.as3State
            /\ e.doTasks = d.doTasks /\ e.as3Tasks = d.as3Tasks
BY DEF Quiet, Elapse, Device

(***************************************************************************)
(* The installs that settle within a second of a settled device are those  *)
(* that are not settled yet and run out in that second; oldest first, they *)
(* come after all that settled before.                                     *)
(***************************************************************************)
LEMMA DueInASecond ==
  ASSUME NEW d \in Device
  PROVE  DueOps(Elapse(d)) = DueOps(d) \cup DueOps(Elapse(Advance(d)))
<1> DEFINE a == Advance(d)
           e == Elapse(d)
           f == Elapse(a)
<1>1. a \in Device
  BY AdvanceType
<1>2. DOMAIN e.ops = DOMAIN d.ops /\ DOMAIN f.ops = DOMAIN d.ops
  BY <1>1, SettledOps, ElapsedOps
<1>3. \A i \in DOMAIN d.ops : e.ops[i].status = d.ops[i].status /\ e.ops[i].left = Less(d.ops[i].left)
  BY ElapsedOps
<1>4. \A i \in DOMAIN d.ops : f.ops[i].status = a.ops[i].status /\ f.ops[i].left = Less(d.ops[i].left)
  BY <1>1, SettledOps, ElapsedOps
<1>5. \A i \in DOMAIN d.ops : /\ i \in DueOps(d) => a.ops[i].status # "in progress"
                              /\ i \notin DueOps(d) => a.ops[i].status = d.ops[i].status
  BY SettledOps
<1>6. Less(0) = 0
  BY DEF Less
<1>7. \A i \in DOMAIN d.ops : i \in DueOps(d) => i \in DueOps(e)
  BY <1>2, <1>3, <1>6 DEF DueOps
<1>8. \A i \in DOMAIN d.ops : i \in DueOps(f) => i \in DueOps(e) /\ i \notin DueOps(d)
  BY <1>2, <1>3, <1>4, <1>5 DEF DueOps
<1>9. \A i \in DOMAIN d.ops : i \in DueOps(e) => i \in DueOps(d) \/ i \in DueOps(f)
  BY <1>2, <1>3, <1>4, <1>5 DEF DueOps
<1>10. DueOps(d) \subseteq DOMAIN d.ops /\ DueOps(e) \subseteq DOMAIN d.ops /\ DueOps(f) \subseteq DOMAIN d.ops
  BY <1>2 DEF DueOps
<1> HIDE DEF a, e, f
<1>11. DueOps(e) = DueOps(d) \cup DueOps(f)
  BY <1>7, <1>8, <1>9, <1>10
<1>12. QED
  BY <1>11 DEF a, e, f

\* The newest install that settles is one of the list.
LEMMA NewestInstalled ==
  ASSUME NEW d \in Device, NEW v, Installed(d, v) # {}
  PROVE  Newest(Installed(d, v)) \in DOMAIN d.ops
<1>1. Installed(d, v) \in SUBSET (1..Len(d.ops)) /\ Len(d.ops) \in Nat /\ DOMAIN d.ops = 1..Len(d.ops)
  BY OpTypes DEF Installed, DueOps
<1>2. Newest(Installed(d, v)) \in Installed(d, v)
  BY <1>1, NewestIsLast
<1>3. QED
  BY <1>1, <1>2

\* The installs, by volume, that a second of a settled device lets settle: the newest
\* of them is the newest of all that settle when nobody asked for a while.
LEMMA NewestInASecond ==
  ASSUME NEW d \in Device, InOrder(d), NEW v
  PROVE  LET e == Elapse(d)
             f == Elapse(Advance(d))
         IN /\ Installed(f, v) = {} => Installed(e, v) = Installed(d, v)
            /\ Installed(f, v) # {} => /\ Installed(e, v) # {}
                                      /\ Newest(Installed(e, v)) = Newest(Installed(f, v))
<1> DEFINE a == Advance(d)
           e == Elapse(d)
           f == Elapse(a)
<1>1. a \in Device
  BY AdvanceType
<1>2. \A i \in DOMAIN d.ops : /\ e.ops[i].volume = d.ops[i].volume /\ f.ops[i].volume = d.ops[i].volume
                              /\ e.ops[i].willFail = d.ops[i].willFail
                              /\ f.ops[i].willFail = d.ops[i].willFail
  BY <1>1, SettledOps, ElapsedOps
<1>3. DueOps(e) = DueOps(d) \cup DueOps(f)
  BY DueInASecond
<1>4. DueOps(d) \subseteq DOMAIN d.ops /\ DueOps(f) \subseteq DOMAIN d.ops
  <2>1. DOMAIN f.ops = DOMAIN d.ops
    BY <1>1, SettledOps, ElapsedOps
  <2>2. QED
    BY <2>1 DEF DueOps
<1>5. Installed(e, v) = Installed(d, v) \cup Installed(f, v)
  <2> HIDE DEF a, e, f
  <2>1. \A i \in DOMAIN d.ops : i \in Installed(e, v) <=> i \in Installed(d, v) \/ i \in Installed(f, v)
    BY <1>2, <1>3, <1>4 DEF Installed
  <2>2. \A i : i \in Installed(e, v) \/ i \in Installed(d, v) \/ i \in Installed(f, v) => i \in DOMAIN d.ops
    BY <1>3, <1>4 DEF Installed
  <2>3. QED
    BY <2>1, <2>2
<1>6. ASSUME NEW g \in Installed(d, v), NEW h \in Installed(f, v) PROVE g < h
  <2>1. g \in DOMAIN d.ops /\ h \in DOMAIN d.ops
    BY <1>4 DEF Installed
  <2>2. d.ops[g].status = "in progress" /\ d.ops[g].left = 0
    BY DEF Installed, DueOps
  <2>3. f.ops[h].status = "in progress"
    BY DEF Installed, DueOps
  <2>4. f.ops[h].status = a.ops[h].status
    BY <1>1, <2>1, SettledOps, ElapsedOps
  <2>5. h \notin DueOps(d) /\ d.ops[h].status = "in progress"
    <3> HIDE DEF f
    <3>1. a.ops[h].status = "in progress"
      BY <2>3, <2>4
    <3>2. QED
      BY <2>1, <3>1, SettledOps
  <2>6. d.ops[h].left \in Nat /\ d.ops[h].left # 0
    BY <2>1, <2>5, OpTypes DEF DueOps
  <2>7. ~(h < g)
    <3> SUFFICES ASSUME h < g PROVE FALSE
      OBVIOUS
    <3>1. d.ops[h].left <= d.ops[g].left
      BY <2>1, <2>5 DEF InOrder
    <3>2. \A m \in Nat : m <= 0 => m = 0
      OBVIOUS
    <3>3. QED
      BY <2>2, <2>6, <3>1, <3>2
  <2>8. h # g
    BY <2>2, <2>6
  <2>9. g \in Int /\ h \in Int
    BY <2>1, OpTypes
  <2>10. QED
    BY <2>7, <2>8, <2>9
<1>7. Installed(f, v) # {} => Newest(Installed(e, v)) = Newest(Installed(f, v))
  <2> SUFFICES ASSUME Installed(f, v) # {} PROVE Newest(Installed(e, v)) = Newest(Installed(f, v))
    OBVIOUS
  <2> DEFINE G == Installed(d, v)
             H == Installed(f, v)
  <2>1. G \in SUBSET (1..Len(d.ops)) /\ H \in SUBSET (1..Len(d.ops)) /\ Len(d.ops) \in Nat
    BY <1>4, OpTypes DEF Installed
  <2>2. H # {} /\ \A g \in G, h \in H : g < h
    BY <1>6
  <2>3. Installed(e, v) = G \cup H
    BY <1>5
  <2> HIDE DEF G, H
  <2>4. Newest(G \cup H) = Newest(H)
    BY <2>1, <2>2, NewestOfBoth
  <2>5. QED
    BY <2>3, <2>4 DEF H
<1> HIDE DEF a, e, f
<1>8. QED
  BY <1>5, <1>7 DEF a, e, f

\* A second that passes on a device that nobody looked at, and on one that was settled
\* first, come to the same: nothing is lost by settling only when a request arrives.
LEMMA ElapseAdvance ==
  ASSUME NEW d \in Device, Quiet(d), InOrder(d), Shielded(d), NEW w \in Volumes, d.active = {w}
  PROVE  Advance(Elapse(d)) = Advance(Elapse(Advance(d)))
<1> DEFINE a == Advance(d)
           e == Elapse(d)
           f == Elapse(a)
           p == Advance(e)
           q == Advance(f)
<1>1. a \in Device /\ e \in Device /\ f \in Device /\ p \in Device /\ q \in Device
  BY AdvanceType, ElapseType
<1>2. /\ e.running = d.running /\ e.ha = d.ha /\ e.sync = d.sync /\ e.active = d.active
      /\ e.image = d.image /\ e.backups = d.backups /\ e.reboot = Less(d.reboot)
      /\ e.chaos = d.chaos /\ e.doState = d.doState /\ e.as3State = d.as3State
      /\ e.doTasks = d.doTasks /\ e.as3Tasks = d.as3Tasks
  BY ElapsedFields
<1>3. Quiet(a) /\ Quiet(e)
  BY <1>2, QuietAdvance DEF Quiet
<1>4. /\ f.running = a.running /\ f.ha = a.ha /\ f.sync = a.sync /\ f.active = a.active
      /\ f.image = a.image /\ f.backups = a.backups /\ f.reboot = Less(a.reboot)
      /\ f.chaos = a.chaos /\ f.doState = a.doState /\ f.as3State = a.as3State
      /\ f.doTasks = a.doTasks /\ f.as3Tasks = a.as3Tasks
  <2> HIDE DEF a
  <2>1. QED
    BY <1>1, <1>3, ElapsedFields
<1>5. Quiet(f)
  BY <1>3, <1>4 DEF Quiet
<1>6. DueOps(e) = DueOps(d) \cup DueOps(f)
  BY DueInASecond
<1>7. p.ops = q.ops
  <2>1. DOMAIN p.ops = DOMAIN d.ops /\ DOMAIN q.ops = DOMAIN d.ops
    BY <1>1, SettledOps, ElapsedOps
  <2> SUFFICES \A i \in DOMAIN d.ops : /\ p.ops[i].volume = q.ops[i].volume
                                       /\ p.ops[i].version = q.ops[i].version
                                       /\ p.ops[i].left = q.ops[i].left
                                       /\ p.ops[i].willFail = q.ops[i].willFail
                                       /\ p.ops[i].status = q.ops[i].status
    <3> HIDE DEF a, e, f, p, q
    <3>1. QED
      BY <1>1, <2>1, SameOps
  <2> TAKE i \in DOMAIN d.ops
  <2>2. /\ e.ops[i].volume = d.ops[i].volume /\ e.ops[i].version = d.ops[i].version
        /\ e.ops[i].left = Less(d.ops[i].left) /\ e.ops[i].willFail = d.ops[i].willFail
        /\ e.ops[i].status = d.ops[i].status
    BY ElapsedOps
  <2>3. /\ a.ops[i].volume = d.ops[i].volume /\ a.ops[i].version = d.ops[i].version
        /\ a.ops[i].left = d.ops[i].left /\ a.ops[i].willFail = d.ops[i].willFail
        /\ a.ops[i].status = IF i \in DueOps(d)
                               THEN IF d.ops[i].willFail THEN "failed" ELSE "complete"
                               ELSE d.ops[i].status
        /\ i \in DOMAIN a.ops
    BY SettledOps
  <2>4. /\ f.ops[i].volume = a.ops[i].volume /\ f.ops[i].version = a.ops[i].version
        /\ f.ops[i].left = Less(a.ops[i].left) /\ f.ops[i].willFail = a.ops[i].willFail
        /\ f.ops[i].status = a.ops[i].status
        /\ i \in DOMAIN f.ops /\ i \in DOMAIN e.ops
    <3>1. i \in DOMAIN a.ops /\ i \in DOMAIN e.ops
      BY <2>3, ElapsedOps
    <3> HIDE DEF a
    <3>2. QED
      BY <1>1, <3>1, ElapsedOps
  <2> HIDE DEF a, e, f
  <2>5. /\ p.ops[i].volume = e.ops[i].volume /\ p.ops[i].version = e.ops[i].version
        /\ p.ops[i].left = e.ops[i].left /\ p.ops[i].willFail = e.ops[i].willFail
        /\ p.ops[i].status = IF i \in DueOps(e)
                               THEN IF e.ops[i].willFail THEN "failed" ELSE "complete"
                               ELSE e.ops[i].status
    BY <1>1, <2>4, SettledOps
  <2>6. /\ q.ops[i].volume = f.ops[i].volume /\ q.ops[i].version = f.ops[i].version
        /\ q.ops[i].left = f.ops[i].left /\ q.ops[i].willFail = f.ops[i].willFail
        /\ q.ops[i].status = IF i \in DueOps(f)
                               THEN IF f.ops[i].willFail THEN "failed" ELSE "complete"
                               ELSE f.ops[i].status
    BY <1>1, <2>4, SettledOps
  <2> HIDE DEF p, q
  <2>7. p.ops[i].status = q.ops[i].status
    BY <1>6, <2>2, <2>3, <2>4, <2>5, <2>6
  <2>8. QED
    BY <2>2, <2>3, <2>4, <2>5, <2>6, <2>7
<1>8. p.image = q.image
  <2>1. ASSUME NEW v \in Volumes PROVE p.image[v] = q.image[v]
    <3>1. /\ Installed(f, v) = {} => Installed(e, v) = Installed(d, v)
          /\ Installed(f, v) # {} => /\ Installed(e, v) # {}
                                    /\ Newest(Installed(e, v)) = Newest(Installed(f, v))
      BY NewestInASecond
    <3>2. a.image[v] = IF Installed(d, v) = {} THEN d.image[v]
                       ELSE d.ops[Newest(Installed(d, v))].version
      BY AdvanceImage
    <3>3. \A i \in DOMAIN d.ops : e.ops[i].version = d.ops[i].version
      BY ElapsedOps
    <3>4. \A i \in DOMAIN d.ops : f.ops[i].version = d.ops[i].version
      BY <1>1, SettledOps, ElapsedOps
    <3>5. DOMAIN f.ops = DOMAIN d.ops
      BY <1>1, SettledOps, ElapsedOps
    <3> HIDE DEF a, e, f
    <3>6. p.image[v] = IF Installed(e, v) = {} THEN e.image[v]
                       ELSE e.ops[Newest(Installed(e, v))].version
      BY <1>1, AdvanceImage
    <3>7. q.image[v] = IF Installed(f, v) = {} THEN f.image[v]
                       ELSE f.ops[Newest(Installed(f, v))].version
      BY <1>1, AdvanceImage
    <3>8. Installed(d, v) # {} => Newest(Installed(d, v)) \in DOMAIN d.ops
      BY NewestInstalled
    <3>9. Installed(f, v) # {} => Newest(Installed(f, v)) \in DOMAIN d.ops
      BY <1>1, <3>5, NewestInstalled
    <3> HIDE DEF p, q
    <3>10. CASE Installed(f, v) = {}
      BY <1>2, <1>4, <3>1, <3>2, <3>3, <3>6, <3>7, <3>8, <3>10
    <3>11. CASE Installed(f, v) # {}
      BY <3>1, <3>3, <3>4, <3>6, <3>7, <3>9, <3>11
    <3>12. QED
      BY <3>10, <3>11
  <2>2. p.image \in [Volumes -> Versions] /\ q.image \in [Volumes -> Versions]
    <3> HIDE DEF p, q
    <3>1. QED
      BY <1>1 DEF Device
  <2> HIDE DEF p, q
  <2>3. QED
    BY <2>1, <2>2
<1>9. ActiveVolume(e) = w /\ ActiveVolume(f) = w /\ ActiveVolume(d) = w /\ f.active = {w}
  <2>1. e.active = {w} /\ f.active = {w}
    BY <1>2, <1>4, AdvanceActive
  <2>2. QED
    BY <2>1 DEF ActiveVolume, Volumes
<1>10. q.image[w] = a.image[w]
  <2>1. Shielded(a)
    BY ShieldedKept
  <2>2. Shielded(f)
    BY <1>1, <2>1, ShieldedKept
  <2> HIDE DEF f, a
  <2>3. q.image[w] = f.image[w]
    BY <1>1, <1>9, <2>2, ShieldedImages
  <2>4. QED
    BY <1>4, <2>3
<1>11. /\ a.active = d.active /\ a.backups = d.backups
       /\ a.doState = d.doState /\ a.as3State = d.as3State
       /\ a.doTasks = d.doTasks /\ a.as3Tasks = d.as3Tasks
       /\ d.reboot = 0 => /\ a.running = a.image[w]
                          /\ a.ha = IF "post_boot_unhealthy" \in d.chaos THEN "FORCED OFFLINE" ELSE "ACTIVE"
                          /\ a.sync = IF "post_boot_unhealthy" \in d.chaos THEN "Disconnected" ELSE "In Sync"
                          /\ a.chaos = d.chaos \ {"post_boot_unhealthy"}
                          /\ a.reboot = NoReboot
       /\ d.reboot # 0 => /\ a.running = d.running /\ a.ha = d.ha /\ a.sync = d.sync
                          /\ a.chaos = d.chaos /\ a.reboot = d.reboot
  BY <1>9, QuietAdvance
<1> HIDE DEF a, e, f
<1>12. /\ p.active = e.active /\ p.backups = e.backups
       /\ p.doState = e.doState /\ p.as3State = e.as3State
       /\ p.doTasks = e.doTasks /\ p.as3Tasks = e.as3Tasks
       /\ e.reboot = 0 => /\ p.running = p.image[w]
                          /\ p.ha = IF "post_boot_unhealthy" \in e.chaos THEN "FORCED OFFLINE" ELSE "ACTIVE"
                          /\ p.sync = IF "post_boot_unhealthy" \in e.chaos THEN "Disconnected" ELSE "In Sync"
                          /\ p.chaos = e.chaos \ {"post_boot_unhealthy"}
                          /\ p.reboot = NoReboot
       /\ e.reboot # 0 => /\ p.running = e.running /\ p.ha = e.ha /\ p.sync = e.sync
                          /\ p.chaos = e.chaos /\ p.reboot = e.reboot
  <2>1. e \in Device /\ Quiet(e) /\ ActiveVolume(e) = w
    BY <1>1, <1>3, <1>9
  <2>2. QED
    BY <2>1, QuietAdvance
<1>13. /\ q.active = f.active /\ q.backups = f.backups
       /\ q.doState = f.doState /\ q.as3State = f.as3State
       /\ q.doTasks = f.doTasks /\ q.as3Tasks = f.as3Tasks
       /\ f.reboot = 0 => /\ q.running = q.image[w]
                          /\ q.ha = IF "post_boot_unhealthy" \in f.chaos THEN "FORCED OFFLINE" ELSE "ACTIVE"
                          /\ q.sync = IF "post_boot_unhealthy" \in f.chaos THEN "Disconnected" ELSE "In Sync"
                          /\ q.chaos = f.chaos \ {"post_boot_unhealthy"}
                          /\ q.reboot = NoReboot
       /\ f.reboot # 0 => /\ q.running = f.running /\ q.ha = f.ha /\ q.sync = f.sync
                          /\ q.chaos = f.chaos /\ q.reboot = f.reboot
  BY <1>1, <1>5, <1>9, QuietAdvance, ZenonT(30)
<1> HIDE DEF p, q
<1>14. /\ p.active = q.active /\ p.backups = q.backups /\ p.doState = q.doState
       /\ p.as3State = q.as3State /\ p.doTasks = q.doTasks /\ p.as3Tasks = q.as3Tasks
  BY <1>2, <1>4, <1>11, <1>12, <1>13, ZenonT(30)
<1>15. /\ p.running = q.running /\ p.ha = q.ha /\ p.sync = q.sync /\ p.chaos = q.chaos
       /\ p.reboot = q.reboot
  <2>1. Less(0) = 0 /\ Less(NoReboot) = NoReboot /\ NoReboot # 0
    BY DEF Less, NoReboot
  <2>2. CASE d.reboot = 0
    <3>1. e.reboot = 0 /\ f.reboot # 0
      BY <1>2, <1>4, <1>11, <2>1, <2>2
    <3>2. /\ q.running = a.running /\ q.ha = a.ha /\ q.sync = a.sync /\ q.chaos = a.chaos
          /\ q.reboot = NoReboot
      BY <1>4, <1>11, <1>13, <2>1, <2>2, <3>1
    <3>3. /\ p.running = p.image[w] /\ p.reboot = NoReboot
          /\ p.ha = IF "post_boot_unhealthy" \in d.chaos THEN "FORCED OFFLINE" ELSE "ACTIVE"
          /\ p.sync = IF "post_boot_unhealthy" \in d.chaos THEN "Disconnected" ELSE "In Sync"
          /\ p.chaos = d.chaos \ {"post_boot_unhealthy"}
      BY <1>2, <1>12, <3>1
    <3>4. /\ a.running = p.image[w]
          /\ a.ha = IF "post_boot_unhealthy" \in d.chaos THEN "FORCED OFFLINE" ELSE "ACTIVE"
          /\ a.sync = IF "post_boot_unhealthy" \in d.chaos THEN "Disconnected" ELSE "In Sync"
          /\ a.chaos = d.chaos \ {"post_boot_unhealthy"}
      BY <1>8, <1>10, <1>11, <2>2
    <3>5. QED
      BY <3>2, <3>3, <3>4
  <2>3. CASE d.reboot # 0
    <3>1. f.reboot = e.reboot /\ f.chaos = e.chaos /\ f.running = e.running /\ f.ha = e.ha /\ f.sync = e.sync
      BY <1>2, <1>4, <1>11, <2>3
    <3>2. CASE e.reboot = 0
      BY <1>8, <1>12, <1>13, <3>1, <3>2
    <3>3. CASE e.reboot # 0
      BY <1>12, <1>13, <3>1, <3>3
    <3>4. QED
      BY <3>2, <3>3
  <2>4. QED
    BY <2>2, <2>3
<1>16. p = q
  BY <1>1, <1>7, <1>8, <1>14, <1>15, SameDevice
<1>17. QED
  BY <1>16 DEF a, e, f, p, q
=============================================================================
