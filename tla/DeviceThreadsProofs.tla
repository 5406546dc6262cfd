------------------------ MODULE DeviceThreadsProofs ------------------------
(***************************************************************************)
(* Theorems of DeviceThreads, for any number of threads and requests.      *)
(***************************************************************************)
EXTENDS DeviceThreads, DeviceStateProofs

----------------------------------------------------------------------------
(***************************************************************************)
(* Types.  A thread that is about to write an image points at the          *)
(* operation it settled.                                                   *)
(***************************************************************************)
Object == [running : Versions, active : SUBSET Volumes, image : [Volumes -> Versions],
           ops : Seq(Install), window : BOOLEAN, left : Int]

ThreadsOK ==
    \A t \in Threads :
        /\ th[t].op.left >= -MaxLate
        /\ At(t, "image") => th[t].at <= Len(dev.ops)
        /\ At(t, "append") => th[t].op.volume = th[t].volume /\ th[t].op.status = "in progress"

Inv == TypeOK /\ ThreadsOK

\* What a step needs to know of the operations.
LEMMA OpsAre ==
    ASSUME TypeOK
    PROVE  /\ dev.ops \in Seq(Install) /\ Len(dev.ops) \in Nat
           /\ DOMAIN dev.ops = 1..Len(dev.ops)
           /\ \A i \in DOMAIN dev.ops : dev.ops[i] \in Install
<1>1. dev.ops \in Seq(Install)
  BY DEF TypeOK
<1>2. QED
  BY <1>1, LenProperties, ElementOfSeq

LEMMA IdleThreadType == IdleThread \in Thread /\ IdleThread.op.left >= -MaxLate
BY VersionsAssumption, ThreadsAssumption
   DEF IdleThread, Thread, Steps, Settling, Kinds, Volumes, Install

\* A thread moves on.
LEMMA ThreadFields ==
    ASSUME NEW rec \in Thread
    PROVE  /\ \A s \in Steps : [rec EXCEPT !.pc = s] \in Thread
           /\ [rec EXCEPT !.at = @ + 1] \in Thread
           /\ [rec EXCEPT !.at = @ + 1, !.pc = "settle"] \in Thread
           /\ \A s \in Steps : [rec EXCEPT !.pc = s, !.at = 1, !.late = 0] \in Thread
           /\ \A o \in Install : [rec EXCEPT !.pc = "append", !.op = o] \in Thread
<1>1. 0 \in 0..MaxLate /\ "settle" \in Steps /\ "append" \in Steps
  BY ThreadsAssumption DEF Steps, Settling
<1>2. rec.at + 1 \in Nat \ {0}
  BY DEF Thread
<1>3. \A s \in Steps : [rec EXCEPT !.pc = s] \in Thread
  BY DEF Thread
<1>4. [rec EXCEPT !.at = @ + 1] \in Thread
  BY <1>2 DEF Thread
<1>5. [rec EXCEPT !.at = @ + 1, !.pc = "settle"] \in Thread
  BY <1>1, <1>2 DEF Thread
<1>6. \A s \in Steps : [rec EXCEPT !.pc = s, !.at = 1, !.late = 0] \in Thread
  <2> SUFFICES ASSUME NEW s \in Steps
               PROVE  [rec EXCEPT !.pc = s, !.at = 1, !.late = 0] \in Thread
    OBVIOUS
  <2> DEFINE one == [rec EXCEPT !.pc = s]
             two == [one EXCEPT !.at = 1]
  <2>1. one \in Thread
    BY DEF Thread
  <2> HIDE DEF one
  <2>2. two \in Thread
    BY <2>1 DEF Thread
  <2> HIDE DEF two
  <2>3. [two EXCEPT !.late = 0] \in Thread
    BY <1>1, <2>2 DEF Thread
  <2>4. QED
    BY <2>3 DEF one, two
<1>7. \A o \in Install : [rec EXCEPT !.pc = "append", !.op = o] \in Thread
  BY <1>1 DEF Thread
<1>8. QED
  BY <1>3, <1>4, <1>5, <1>6, <1>7

LEMMA InitInv == Init => Inv
<1> SUFFICES ASSUME Init PROVE Inv
  OBVIOUS
<1>1. Fresh.image \in [Volumes -> Versions]
  BY VersionsAssumption DEF Fresh, FreshWith
<1>2. dev.ops = << >> /\ dev.ops \in Seq(Install) /\ DOMAIN dev.ops = {}
  BY DEF Init
<1>3. dev \in Object /\ dev.left = 0
  <2> DEFINE m == Fresh.image
             o == << >>
  <2>1. dev = [running |-> InitialVersion, active |-> {"HD1.1"}, image |-> m, ops |-> o,
               window |-> FALSE, left |-> 0]
    BY DEF Init
  <2>2. o \in Seq(Install)
    OBVIOUS
  <2> HIDE DEF m, o
  <2>3. m \in [Volumes -> Versions]
    BY <1>1 DEF m
  <2>4. QED
    BY <2>1, <2>2, <2>3, VersionsAssumption DEF Object, Volumes
<1>4. th \in [Threads -> Thread]
  BY IdleThreadType DEF Init
<1>5. TypeOK
  <2>1. workload \in Workloads /\ owed = 0 /\ contended = FALSE /\ overlapped = {}
    BY DEF Init
  <2>2. dev.left >= -MaxLate
    BY <1>3, ThreadsAssumption
  <2>3. QED
    BY <1>2, <1>3, <1>4, <2>1, <2>2 DEF TypeOK, Object
<1>6. ThreadsOK
  BY IdleThreadType DEF Init, ThreadsOK, At, IdleThread
<1>7. QED
  BY <1>5, <1>6 DEF Inv

\* The object after a step: its operations are those it had, one of them changed.
DevOK(d) == d \in Object /\ d.left >= -MaxLate /\ \A i \in DOMAIN d.ops : d.ops[i].left >= -MaxLate

LEMMA DevIsOK == TypeOK <=> /\ DevOK(dev) /\ workload \in Workloads
                            /\ th \in [Threads -> Thread]
                            /\ owed \in Int /\ contended \in BOOLEAN /\ overlapped \subseteq Volumes
BY DEF TypeOK, DevOK, Object

\* A thread that moves, alone, to a step that is neither "image" nor "append".
LEMMA MoveOK ==
    ASSUME Inv, NEW t \in Threads, NEW rec \in Thread, th' = [th EXCEPT ![t] = rec],
           rec.op.left >= -MaxLate, rec.pc \notin {"image", "append"},
           Len(dev'.ops) >= Len(dev.ops), Len(dev'.ops) \in Nat
    PROVE  th' \in [Threads -> Thread] /\ ThreadsOK'
<1>1. th \in [Threads -> Thread] /\ Len(dev.ops) \in Nat
  BY OpsAre DEF Inv, TypeOK
<1>2. th' \in [Threads -> Thread]
  BY <1>1
<1>3. ASSUME NEW u \in Threads
      PROVE  /\ th'[u].op.left >= -MaxLate
             /\ At(u, "image")' => th'[u].at <= Len(dev'.ops)
             /\ At(u, "append")' =>
                   th'[u].op.volume = th'[u].volume /\ th'[u].op.status = "in progress"
  <2>1. CASE u = t
    BY <1>1, <2>1 DEF At
  <2>2. CASE u # t
    <3>1. th'[u] = th[u] /\ th[u].at \in Nat
      BY <1>1, <2>2 DEF Thread
    <3>2. /\ th[u].op.left >= -MaxLate
          /\ th[u].pc = "image" => th[u].at <= Len(dev.ops)
          /\ th[u].pc = "append" =>
                th[u].op.volume = th[u].volume /\ th[u].op.status = "in progress"
      BY DEF Inv, ThreadsOK, At
    <3>3. th[u].pc = "image" => th[u].at <= Len(dev'.ops)
      BY <1>1, <3>1, <3>2
    <3>4. QED
      BY <3>1, <3>2, <3>3 DEF At
  <2>3. QED
    BY <2>1, <2>2
<1>4. QED
  BY <1>2, <1>3 DEF ThreadsOK

LEMMA ReplyOK ==
    ASSUME Inv, NEW t \in Threads, Reply(t),
           Len(dev'.ops) >= Len(dev.ops), Len(dev'.ops) \in Nat
    PROVE  th' \in [Threads -> Thread] /\ ThreadsOK'
<1>1. IdleThread.pc \notin {"image", "append"}
  BY DEF IdleThread
<1>2. QED
  BY <1>1, IdleThreadType, MoveOK DEF Reply

LEMMA GotoOK ==
    ASSUME Inv, NEW t \in Threads, NEW step \in Steps \ {"image", "append"}, Goto(t, step),
           Len(dev'.ops) >= Len(dev.ops), Len(dev'.ops) \in Nat
    PROVE  th' \in [Threads -> Thread] /\ ThreadsOK'
<1> DEFINE rec == [th[t] EXCEPT !.pc = step]
<1>1. th[t] \in Thread /\ th[t].op.left >= -MaxLate
  BY DEF Inv, TypeOK, ThreadsOK
<1>2. rec \in Thread /\ rec.pc = step /\ rec.op = th[t].op
  BY <1>1, ThreadFields DEF Thread
<1>3. th' = [th EXCEPT ![t] = rec]
  BY DEF Goto
<1> HIDE DEF rec
<1>4. QED
  BY <1>1, <1>2, <1>3, MoveOK

LEMMA LeaveOK ==
    ASSUME Inv, NEW t \in Threads, NEW step \in Steps \ {"image", "append"}, Leave(t, step),
           Len(dev'.ops) >= Len(dev.ops), Len(dev'.ops) \in Nat
    PROVE  th' \in [Threads -> Thread] /\ ThreadsOK'
<1> DEFINE rec == [th[t] EXCEPT !.pc = step, !.at = 1, !.late = 0]
<1>1. th[t] \in Thread /\ th[t].op.left >= -MaxLate
  BY DEF Inv, TypeOK, ThreadsOK
<1>2. rec \in Thread
  BY <1>1, ThreadFields
<1>3. rec.pc = step /\ rec.op = th[t].op
  BY <1>1 DEF Thread
<1>4. th' = [th EXCEPT ![t] = rec]
  BY DEF Leave
<1> HIDE DEF rec
<1>5. QED
  BY <1>1, <1>2, <1>3, <1>4, MoveOK

\* The fields of the object that a step may set.
LEMMA DevFields ==
    ASSUME DevOK(dev)
    PROVE  /\ \A A \in SUBSET Volumes : DevOK([dev EXCEPT !.active = A])
           /\ \A v \in Versions : DevOK([dev EXCEPT !.running = v])
           /\ \A v \in Volumes, x \in Versions : DevOK([dev EXCEPT !.image[v] = x])
           /\ \A w \in BOOLEAN, n \in Nat : DevOK([dev EXCEPT !.window = w, !.left = n])
<1>1. \A A \in SUBSET Volumes : DevOK([dev EXCEPT !.active = A])
  BY DEF DevOK, Object
<1>2. \A v \in Versions : DevOK([dev EXCEPT !.running = v])
  BY DEF DevOK, Object
<1>3. \A v \in Volumes, x \in Versions : DevOK([dev EXCEPT !.image[v] = x])
  BY DEF DevOK, Object
<1>4. \A w \in BOOLEAN, n \in Nat : DevOK([dev EXCEPT !.window = w, !.left = n])
  <2> SUFFICES ASSUME NEW w \in BOOLEAN, NEW n \in Nat
               PROVE  DevOK([dev EXCEPT !.window = w, !.left = n])
    OBVIOUS
  <2> DEFINE d == [dev EXCEPT !.window = w]
  <2>1. DevOK(d)
    BY DEF DevOK, Object
  <2> HIDE DEF d
  <2>2. n >= -MaxLate
    BY ThreadsAssumption
  <2>3. DevOK([d EXCEPT !.left = n])
    BY <2>1, <2>2 DEF DevOK, Object
  <2>4. QED
    BY <2>3 DEF d
<1>5. QED
  BY <1>1, <1>2, <1>3, <1>4

\* A list of as many installs, and the flags and images it had.
LEMMA DevOps ==
    ASSUME DevOK(dev), NEW ops \in Seq(Install), NEW n \in Int, n >= -MaxLate,
           \A i \in DOMAIN ops : ops[i].left >= -MaxLate
    PROVE  DevOK([dev EXCEPT !.left = n, !.ops = ops])
BY DEF DevOK, Object

LEMMA DevOpsOnly ==
    ASSUME DevOK(dev), NEW ops \in Seq(Install), \A i \in DOMAIN ops : ops[i].left >= -MaxLate
    PROVE  DevOK([dev EXCEPT !.ops = ops])
BY DEF DevOK, Object

LEMMA InstallFields ==
    ASSUME NEW o \in Install, NEW n \in Int
    PROVE  /\ [o EXCEPT !.left = n] \in Install
           /\ [o EXCEPT !.left = n].left = n
           /\ [o EXCEPT !.left = n].volume = o.volume
           /\ [o EXCEPT !.left = n].version = o.version
           /\ [o EXCEPT !.left = n].status = o.status
<1>1. [o EXCEPT !.left = n] \in Install
  BY DEF Install
<1>2. QED
  BY DEF Install

LEMMA Completed ==
    ASSUME NEW o \in Install
    PROVE  /\ [o EXCEPT !.status = "complete", !.left = 0] \in Install
           /\ [o EXCEPT !.status = "complete", !.left = 0].left = 0
           /\ [o EXCEPT !.status = "complete", !.left = 0].status = "complete"
           /\ [o EXCEPT !.status = "complete", !.left = 0].volume = o.volume
           /\ [o EXCEPT !.status = "complete", !.left = 0].version = o.version
<1> DEFINE over == [o EXCEPT !.status = "complete"]
<1>1. /\ over \in Install /\ over.status = "complete"
      /\ over.volume = o.volume /\ over.version = o.version
  BY DEF Install
<1> HIDE DEF over
<1>2. /\ [over EXCEPT !.left = 0] \in Install /\ [over EXCEPT !.left = 0].left = 0
      /\ [over EXCEPT !.left = 0].status = over.status
      /\ [over EXCEPT !.left = 0].volume = over.volume
      /\ [over EXCEPT !.left = 0].version = over.version
  BY <1>1, InstallFields
<1>3. QED
  BY <1>1, <1>2 DEF over

LEMMA SettleOpType ==
    ASSUME Inv, NEW t \in Threads, SettleOp(t)
    PROVE  DevOK(dev') /\ th' \in [Threads -> Thread] /\ ThreadsOK'
<1> DEFINE i == th[t].at
<1>0. /\ th[t] \in Thread /\ i \in Nat \ {0} /\ i <= Len(dev.ops) /\ th[t].op.left >= -MaxLate
      /\ th \in [Threads -> Thread] /\ th[t].pc = "settle" /\ DevOK(dev)
  BY DevIsOK DEF Inv, TypeOK, SettleOp, Thread, At, ThreadsOK
<1>1. i \in DOMAIN dev.ops /\ dev.ops[i] \in Install /\ Len(dev.ops) \in Nat
  BY <1>0, OpsAre DEF Inv
<1>2. CASE UNCHANGED dev /\ th' = [th EXCEPT ![t].at = @ + 1]
  <2> DEFINE rec == [th[t] EXCEPT !.at = @ + 1]
  <2>1. rec \in Thread /\ th' = [th EXCEPT ![t] = rec]
    BY <1>0, <1>2, ThreadFields
  <2>2. rec.op = th[t].op /\ rec.pc = "settle"
    BY <1>0 DEF Thread
  <2> HIDE DEF rec
  <2>3. /\ rec.op.left >= -MaxLate /\ rec.pc \notin {"image", "append"}
        /\ Len(dev'.ops) >= Len(dev.ops) /\ Len(dev'.ops) \in Nat
    BY <1>0, <1>1, <1>2, <2>2
  <2>4. QED
    BY <1>0, <1>2, <2>1, <2>3, MoveOK
<1>3. CASE dev' = [dev EXCEPT !.ops[i].status = "complete", !.ops[i].left = 0] /\ Goto(t, "image")
  <2> DEFINE op == [dev.ops[i] EXCEPT !.status = "complete", !.left = 0]
             ops == [dev.ops EXCEPT ![i] = op]
  <2>1. op \in Install /\ op.left = 0
    BY <1>1, Completed
  <2>2. dev' = [dev EXCEPT !.ops = ops]
    BY <1>3
  <2> HIDE DEF op
  <2>3. ops \in Seq(Install) /\ Len(ops) = Len(dev.ops) /\ DOMAIN ops = DOMAIN dev.ops
    BY <1>1, <2>1, OpsAre, ExceptSeq DEF Inv
  <2>4. \A j \in DOMAIN ops : ops[j].left >= -MaxLate
    BY <1>0, <1>1, <2>1, <2>3, ThreadsAssumption DEF DevOK
  <2> HIDE DEF ops
  <2>5. DevOK(dev') /\ dev'.ops = ops
    BY <1>0, <2>2, <2>3, <2>4, DevOpsOnly DEF DevOK, Object
  <2> DEFINE rec == [th[t] EXCEPT !.pc = "image"]
  <2>6. rec \in Thread /\ th' = [th EXCEPT ![t] = rec]
    BY <1>0, <1>3, ThreadFields DEF Goto, Steps, Settling
  <2>7. rec.op = th[t].op /\ rec.pc = "image" /\ rec.at = i
    BY <1>0 DEF Thread
  <2> HIDE DEF rec, i
  <2>8. th' \in [Threads -> Thread]
    BY <1>0, <2>6
  <2>9. \A u \in Threads : th'[u] = IF u = t THEN rec ELSE th[u]
    BY <1>0, <2>6
  <2>10. ThreadsOK'
    BY <1>0, <2>3, <2>5, <2>7, <2>9 DEF Inv, ThreadsOK, At
  <2>11. QED
    BY <2>5, <2>8, <2>10
<1>4. QED
  BY <1>2, <1>3 DEF SettleOp

LEMMA WriteImageType ==
    ASSUME Inv, NEW t \in Threads, WriteImage(t)
    PROVE  DevOK(dev') /\ th' \in [Threads -> Thread] /\ ThreadsOK'
<1> DEFINE op == dev.ops[th[t].at]
           rec == [th[t] EXCEPT !.at = @ + 1, !.pc = "settle"]
<1>0. /\ th[t] \in Thread /\ th[t].at \in Nat \ {0} /\ th[t].at <= Len(dev.ops)
      /\ th[t].op.left >= -MaxLate /\ th \in [Threads -> Thread] /\ DevOK(dev)
  <2>1. th[t] \in Thread /\ th \in [Threads -> Thread] /\ DevOK(dev)
    BY DevIsOK DEF Inv, TypeOK
  <2>2. th[t].at <= Len(dev.ops) /\ th[t].op.left >= -MaxLate
    BY DEF Inv, ThreadsOK, WriteImage
  <2>3. QED
    BY <2>1, <2>2 DEF Thread
<1>1. op.volume \in Volumes /\ op.version \in Versions /\ Len(dev.ops) \in Nat
  <2>1. th[t].at \in DOMAIN dev.ops /\ Len(dev.ops) \in Nat
    BY <1>0, OpsAre DEF Inv
  <2>2. op \in Install
    BY <2>1, OpsAre DEF Inv
  <2>3. QED
    BY <2>1, <2>2 DEF Install
<1>2. DevOK(dev') /\ dev'.ops = dev.ops
  <2>1. dev' = [dev EXCEPT !.image[op.volume] = op.version]
    BY DEF WriteImage
  <2> HIDE DEF op
  <2>2. DevOK(dev')
    BY <1>0, <1>1, <2>1, DevFields
  <2>3. QED
    BY <1>0, <2>1, <2>2 DEF DevOK, Object
<1>3. rec \in Thread /\ th' = [th EXCEPT ![t] = rec]
  BY <1>0, ThreadFields DEF WriteImage
<1>4. rec.op = th[t].op /\ rec.pc = "settle"
  BY <1>0 DEF Thread
<1> HIDE DEF rec
<1>5. Len(dev'.ops) >= Len(dev.ops) /\ Len(dev'.ops) \in Nat
  BY <1>1, <1>2
<1>6. rec.op.left >= -MaxLate /\ rec.pc \notin {"image", "append"}
  BY <1>0, <1>4
<1>7. QED
  BY <1>2, <1>3, <1>5, <1>6, MoveOK

LEMMA BootFromType ==
    ASSUME Inv, NEW t \in Threads, NEW v \in Volumes, BootFrom(t, v)
    PROVE  DevOK(dev') /\ th' \in [Threads -> Thread] /\ ThreadsOK'
<1>1. DevOK(dev) /\ dev.image[v] \in Versions
  BY DevIsOK DEF Inv, DevOK, Object
<1>2. DevOK(dev') /\ dev'.ops = dev.ops
  BY <1>1, DevFields DEF BootFrom, DevOK, Object
<1>3. Goto(t, "guard") /\ "guard" \in Steps \ {"image", "append"} /\ Len(dev.ops) \in Nat
  BY OpsAre DEF BootFrom, Steps, Inv
<1>4. QED
  BY <1>2, <1>3, GotoOK

LEMMA MakeOperationType ==
    ASSUME Inv, NEW t \in Threads, MakeOperation(t)
    PROVE  DevOK(dev') /\ th' \in [Threads -> Thread] /\ ThreadsOK'
<1> DEFINE o == [volume |-> th[t].volume, version |-> th[t].version,
                 left |-> InstallTime, status |-> "in progress"]
           rec == [th[t] EXCEPT !.pc = "append", !.op = o]
<1>0. /\ th[t] \in Thread /\ th \in [Threads -> Thread] /\ DevOK(dev) /\ Len(dev.ops) \in Nat
      /\ dev' = dev
  BY DevIsOK, OpsAre DEF Inv, TypeOK, MakeOperation
<1>1. o \in Install /\ o.left >= -MaxLate
  <2>1. th[t].volume \in Volumes /\ th[t].version \in Versions
    BY <1>0 DEF Thread
  <2>2. InstallTime \in Int /\ InstallTime >= -MaxLate
    BY TimingAssumption, ThreadsAssumption
  <2>3. QED
    BY <2>1, <2>2 DEF Install
<1>2. rec \in Thread /\ th' = [th EXCEPT ![t] = rec]
  <2>1. th' = [th EXCEPT ![t] = rec]
    BY DEF MakeOperation
  <2> HIDE DEF o
  <2>2. QED
    BY <1>0, <1>1, <2>1, ThreadFields
<1>3. rec.pc = "append" /\ rec.op = o /\ rec.volume = th[t].volume
  BY <1>0 DEF Thread
<1>4. o.volume = th[t].volume /\ o.status = "in progress"
  OBVIOUS
<1> HIDE DEF rec, o
<1>5. \A u \in Threads : th'[u] = IF u = t THEN rec ELSE th[u]
  BY <1>0, <1>2
<1>6. ThreadsOK'
  BY <1>0, <1>1, <1>3, <1>4, <1>5 DEF Inv, ThreadsOK, At
<1>7. QED
  BY <1>0, <1>2, <1>6

LEMMA AppendOperationType ==
    ASSUME Inv, NEW t \in Threads, AppendOperation(t)
    PROVE  /\ DevOK(dev') /\ th' \in [Threads -> Thread] /\ ThreadsOK'
           /\ dev'.ops = Append(dev.ops, th[t].op)
<1>0. /\ th[t].op \in Install /\ th[t].op.left >= -MaxLate /\ DevOK(dev)
      /\ dev.ops \in Seq(Install) /\ Len(dev.ops) \in Nat /\ DOMAIN dev.ops = 1..Len(dev.ops)
  BY DevIsOK, OpsAre DEF Inv, TypeOK, ThreadsOK, Thread
<1> DEFINE ops == Append(dev.ops, th[t].op)
<1>1. /\ ops \in Seq(Install) /\ Len(ops) = Len(dev.ops) + 1
      /\ DOMAIN ops = 1..(Len(dev.ops) + 1)
      /\ \A i \in 1..Len(dev.ops) : ops[i] = dev.ops[i]
      /\ ops[Len(dev.ops) + 1] = th[t].op
  BY <1>0, AppendProperties
<1>2. dev' = [dev EXCEPT !.ops = ops]
  BY DEF AppendOperation
<1> HIDE DEF ops
<1>3. \A i \in DOMAIN ops : ops[i].left >= -MaxLate
  <2> SUFFICES ASSUME NEW i \in DOMAIN ops PROVE ops[i].left >= -MaxLate
    OBVIOUS
  <2>1. i \in 1..Len(dev.ops) \/ i = Len(dev.ops) + 1
    BY <1>0, <1>1
  <2>2. QED
    BY <1>0, <1>1, <2>1 DEF DevOK
<1>4. DevOK(dev') /\ dev'.ops = ops
  BY <1>0, <1>1, <1>2, <1>3, DevOpsOnly DEF DevOK, Object
<1>5. Reply(t) /\ Len(dev'.ops) >= Len(dev.ops) /\ Len(dev'.ops) \in Nat
  BY <1>0, <1>1, <1>4 DEF AppendOperation
<1>6. QED
  BY <1>4, <1>5, ReplyOK DEF ops

LEMMA LaterType == ASSUME NEW n \in Int, n >= -MaxLate PROVE Later(n) \in Int /\ Later(n) >= -MaxLate
BY ThreadsAssumption DEF Later

LEMMA TickType ==
    ASSUME Inv, Tick
    PROVE  /\ DevOK(dev') /\ th' \in [Threads -> Thread] /\ ThreadsOK'
           /\ Len(dev'.ops) = Len(dev.ops) /\ DOMAIN dev'.ops = DOMAIN dev.ops
           /\ \A i \in DOMAIN dev.ops :
                 dev'.ops[i] = IF dev.ops[i].status # "in progress" THEN dev.ops[i]
                               ELSE [dev.ops[i] EXCEPT !.left = Later(dev.ops[i].left)]
           /\ dev'.active = dev.active /\ dev'.image = dev.image /\ dev'.window = dev.window
           /\ \A u \in Threads :
                 /\ th'[u].pc = th[u].pc /\ th'[u].at = th[u].at /\ th'[u].volume = th[u].volume
                 /\ th'[u].late = IF th[u].pc \in Settling THEN th[u].late + 1 ELSE th[u].late
                 /\ th'[u].op.left = IF th[u].pc = "append" THEN Later(th[u].op.left)
                                     ELSE th[u].op.left
<1> DEFINE left == IF dev.window THEN Later(dev.left) ELSE dev.left
           ops == Aged(dev.ops)
<1>0. DevOK(dev) /\ th \in [Threads -> Thread]
  BY DevIsOK DEF Inv, TypeOK
<1>1. dev' = [dev EXCEPT !.left = left, !.ops = ops]
  BY DEF Tick
<1>2. left \in Int /\ left >= -MaxLate
  BY <1>0, LaterType DEF DevOK, Object
<1>3. ASSUME NEW i \in DOMAIN dev.ops
      PROVE  ops[i] \in Install /\ ops[i].left >= -MaxLate
  <2>1. dev.ops[i] \in Install /\ dev.ops[i].left \in Int /\ dev.ops[i].left >= -MaxLate
    BY <1>0, OpsAre DEF Inv, DevOK, Install
  <2>2. /\ [dev.ops[i] EXCEPT !.left = Later(dev.ops[i].left)] \in Install
        /\ [dev.ops[i] EXCEPT !.left = Later(dev.ops[i].left)].left = Later(dev.ops[i].left)
        /\ Later(dev.ops[i].left) >= -MaxLate
    BY <2>1, LaterType, InstallFields
  <2>3. QED
    BY <2>1, <2>2 DEF Aged
<1>4. /\ ops \in Seq(Install) /\ Len(ops) = Len(dev.ops) /\ DOMAIN ops = DOMAIN dev.ops
      /\ \A i \in DOMAIN ops : ops[i].left >= -MaxLate
  <2>1. DOMAIN dev.ops = 1..Len(dev.ops) /\ Len(dev.ops) \in Nat
    BY OpsAre DEF Inv
  <2>2. ops \in [1..Len(dev.ops) -> Install]
    BY <1>3, <2>1 DEF Aged
  <2> HIDE DEF ops
  <2>3. ops \in Seq(Install) /\ Len(ops) = Len(dev.ops)
    BY <2>1, <2>2, SeqDef, LenProperties
  <2>4. QED
    BY <1>3, <2>1, <2>2, <2>3
<1>5. \A i \in DOMAIN dev.ops :
         ops[i] = IF dev.ops[i].status # "in progress" THEN dev.ops[i]
                  ELSE [dev.ops[i] EXCEPT !.left = Later(dev.ops[i].left)]
  BY DEF Aged
<1> HIDE DEF ops, left
<1>6. DevOK(dev')
  BY <1>0, <1>1, <1>2, <1>4, DevOps
<1>7. /\ dev'.ops = ops /\ dev'.active = dev.active /\ dev'.image = dev.image
      /\ dev'.window = dev.window
  BY <1>0, <1>1 DEF DevOK, Object
<1>8. ASSUME NEW u \in Threads
      PROVE  /\ th'[u] \in Thread /\ th'[u].op.left >= -MaxLate
             /\ th'[u].pc = th[u].pc /\ th'[u].at = th[u].at /\ th'[u].volume = th[u].volume
             /\ th'[u].op.volume = th[u].op.volume /\ th'[u].op.status = th[u].op.status
             /\ th'[u].late = IF th[u].pc \in Settling THEN th[u].late + 1 ELSE th[u].late
             /\ th'[u].op.left = IF th[u].pc = "append" THEN Later(th[u].op.left)
                                 ELSE th[u].op.left
  <2> DEFINE late == IF th[u].pc \in Settling THEN th[u].late + 1 ELSE th[u].late
             n == IF th[u].pc = "append" THEN Later(th[u].op.left) ELSE th[u].op.left
             o == [th[u].op EXCEPT !.left = n]
  <2>1. /\ th[u] \in Thread /\ th[u].op \in Install /\ th[u].op.left \in Int
        /\ th[u].op.left >= -MaxLate
    BY <1>0 DEF Thread, Install, Inv, ThreadsOK
  <2>2. th'[u] = [th[u] EXCEPT !.late = late, !.op = o]
    BY <1>0, <2>1 DEF Tick, At, Thread, Install
  <2>3. late \in 0..MaxLate
    <3>1. th[u].pc \in Settling => th[u].late < MaxLate
      BY DEF Tick
    <3>2. th[u].late \in 0..MaxLate
      BY <2>1 DEF Thread
    <3>3. QED
      BY <3>1, <3>2, ThreadsAssumption
  <2>4. n \in Int /\ n >= -MaxLate
    BY <2>1, LaterType
  <2> HIDE DEF n, late
  <2>5. /\ o \in Install /\ o.left = n /\ o.volume = th[u].op.volume
        /\ o.status = th[u].op.status
    BY <2>1, <2>4, InstallFields
  <2> HIDE DEF o
  <2>6. th'[u].late = late /\ th'[u].op.left = n
    BY <2>1, <2>2, <2>5 DEF Thread
  <2>7. /\ th'[u] \in Thread /\ th'[u].op.left >= -MaxLate
        /\ th'[u].pc = th[u].pc /\ th'[u].at = th[u].at /\ th'[u].volume = th[u].volume
        /\ th'[u].op.volume = th[u].op.volume /\ th'[u].op.status = th[u].op.status
    BY <2>1, <2>2, <2>3, <2>4, <2>5 DEF Thread
  <2>8. QED
    BY <2>6, <2>7 DEF n, late
<1>9. th' \in [Threads -> Thread]
  <2>1. th' = [u \in Threads |-> th'[u]]
    BY DEF Tick
  <2>2. QED
    BY <1>8, <2>1
<1>10. ThreadsOK'
  BY <1>4, <1>7, <1>8, ZenonT(30) DEF Inv, ThreadsOK, At
<1>11. /\ Len(dev'.ops) = Len(dev.ops) /\ DOMAIN dev'.ops = DOMAIN dev.ops
       /\ \A i \in DOMAIN dev.ops :
             dev'.ops[i] = IF dev.ops[i].status # "in progress" THEN dev.ops[i]
                           ELSE [dev.ops[i] EXCEPT !.left = Later(dev.ops[i].left)]
  BY <1>4, <1>5, <1>7
<1>12. QED
  BY <1>6, <1>7, <1>8, <1>9, <1>10, <1>11

LEMMA RequestType ==
    ASSUME Inv, NEW t \in Threads, NEW r \in [kind : Kinds, volume : Volumes, version : Versions],
           Request(t, r)
    PROVE  th' \in [Threads -> Thread] /\ ThreadsOK'
<1> DEFINE rec == [IdleThread EXCEPT !.pc = "settle", !.kind = r.kind, !.volume = r.volume,
                                     !.version = r.version]
<1>1. rec \in Thread /\ rec.pc = "settle" /\ rec.op.left >= -MaxLate
  BY IdleThreadType DEF IdleThread, Thread, Steps, Settling
<1>2. th' = [th EXCEPT ![t] = rec] /\ dev' = dev
  BY DEF Request
<1> HIDE DEF rec
<1>3. Len(dev'.ops) >= Len(dev.ops) /\ Len(dev'.ops) \in Nat
  BY <1>2, OpsAre DEF Inv
<1>4. QED
  BY <1>1, <1>2, <1>3, MoveOK

LEMMA StepType ==
    ASSUME Inv, NEW t \in Threads, Step(t)
    PROVE  DevOK(dev') /\ th' \in [Threads -> Thread] /\ ThreadsOK'
<1>0. DevOK(dev) /\ Len(dev.ops) \in Nat /\ (dev' = dev => DevOK(dev'))
  BY DevIsOK, OpsAre DEF Inv
<1>s. {"idle", "first", "second", "guard", "clock", "act", "flip"} \subseteq
         Steps \ {"image", "append"}
  BY DEF Steps
<1>r. ASSUME DevOK(dev'), dev'.ops = dev.ops, Reply(t)
      PROVE  th' \in [Threads -> Thread] /\ ThreadsOK'
  BY <1>0, <1>r, ReplyOK
<1>g. ASSUME DevOK(dev'), dev'.ops = dev.ops,
             NEW step \in {"first", "second", "guard", "clock", "act", "flip"}, Goto(t, step)
      PROVE  th' \in [Threads -> Thread] /\ ThreadsOK'
  BY <1>0, <1>g, <1>s, GotoOK
<1>1. CASE SettleOp(t)
  BY <1>1, SettleOpType
<1>2. CASE WriteImage(t)
  BY <1>2, WriteImageType
<1>3. CASE ClaimReboot(t)
  <2>1. DevOK(dev') /\ dev'.ops = dev.ops
    <3>1. DevOK([dev EXCEPT !.window = FALSE, !.left = 0])
      BY <1>0, DevFields
    <3>2. [dev EXCEPT !.window = FALSE, !.left = 0].ops = dev.ops
      BY <1>0 DEF DevOK, Object
    <3>3. dev' = dev \/ dev' = [dev EXCEPT !.window = FALSE, !.left = 0]
      BY <1>3 DEF ClaimReboot
    <3>4. QED
      BY <1>0, <3>1, <3>2, <3>3
  <2>2. Leave(t, "first") \/ Leave(t, "guard")
    BY <1>3 DEF ClaimReboot
  <2>3. QED
    BY <1>0, <1>s, <2>1, <2>2, LeaveOK
<1>4. CASE LookFirst(t) \/ LookSecond(t)
  <2>1. \/ BootFrom(t, "HD1.1") \/ BootFrom(t, "HD1.2")
        \/ dev' = dev /\ (Goto(t, "second") \/ Reply(t))
    BY <1>4 DEF LookFirst, LookSecond
  <2>2. QED
    BY <1>0, <1>r, <1>g, <2>1, BootFromType DEF Volumes
<1>5. CASE Guard(t) \/ Clock(t) \/ Answer(t)
  <2>1. dev' = dev /\ (Goto(t, "clock") \/ Goto(t, "act") \/ Reply(t))
    BY <1>5 DEF Guard, Clock, Answer
  <2>2. QED
    BY <1>0, <1>r, <1>g, <2>1
<1>6. CASE MakeOperation(t)
  BY <1>6, MakeOperationType
<1>7. CASE AppendOperation(t)
  BY <1>7, AppendOperationType
<1>8. CASE FlipFirst(t) \/ FlipSecond(t)
  <2>1. PICK v \in Volumes : dev' = [dev EXCEPT !.active = Flip(t, v)]
    BY <1>8 DEF FlipFirst, FlipSecond, Volumes
  <2>2. Flip(t, v) \in SUBSET Volumes
    BY <1>0 DEF Flip, DevOK, Object
  <2>3. DevOK(dev')
    BY <1>0, <2>1, <2>2, DevFields
  <2>4. dev'.ops = dev.ops
    BY <1>0, <2>1 DEF DevOK, Object
  <2>5. Goto(t, "flip") \/ Reply(t)
    BY <1>8 DEF FlipFirst, FlipSecond
  <2>6. QED
    BY <1>r, <1>g, <2>3, <2>4, <2>5
<1>9. CASE OpenWindow(t)
  <2>1. DevOK(dev')
    BY <1>0, <1>9, DevFields, TimingAssumption DEF OpenWindow
  <2>2. dev'.ops = dev.ops /\ Reply(t)
    BY <1>0, <1>9 DEF OpenWindow, DevOK, Object
  <2>3. QED
    BY <1>r, <2>1, <2>2
<1>10. QED
  BY <1>1, <1>2, <1>3, <1>4, <1>5, <1>6, <1>7, <1>8, <1>9 DEF Step

LEMMA RequestsOf ==
    ASSUME TypeOK
    PROVE  /\ workload \subseteq [kind : Kinds, volume : Volumes, version : Versions]
           /\ Query \in [kind : Kinds, volume : Volumes, version : Versions]
BY VersionsAssumption, ThreadsAssumption DEF TypeOK, Query, Kinds, Volumes

LEMMA InvStep == Inv /\ [Next]_vars => Inv'
<1> SUFFICES ASSUME Inv, [Next]_vars PROVE Inv'
  OBVIOUS
<1>0. /\ workload \in Workloads /\ owed \in Int /\ contended \in BOOLEAN
      /\ overlapped \subseteq Volumes /\ DevOK(dev) /\ th \in [Threads -> Thread] /\ ThreadsOK
  BY DevIsOK DEF Inv, TypeOK
<1>1. ASSUME NEW t \in Threads, NEW r, r \in workload \/ r = Query, Request(t, r) PROVE Inv'
  <2>1. r \in [kind : Kinds, volume : Volumes, version : Versions]
    BY <1>1, RequestsOf DEF Inv
  <2>2. th' \in [Threads -> Thread] /\ ThreadsOK'
    BY <1>1, <2>1, RequestType
  <2>3. UNCHANGED <<workload, dev, History>>
    BY <1>1 DEF Request
  <2>4. QED
    BY <1>0, <2>2, <2>3, DevIsOK DEF Inv, TypeOK, History
<1>2. ASSUME NEW t \in Threads, Step(t) PROVE Inv'
  <2>1. DevOK(dev') /\ th' \in [Threads -> Thread] /\ ThreadsOK'
    BY <1>2, StepType
  <2>2. workload' = workload /\ owed' \in Int /\ contended' \in BOOLEAN
    <3>1. workload' = workload
      BY <1>2 DEF Step
    <3>2. CASE FlipFirst(t)
      BY <1>0, <3>1, <3>2 DEF FlipFirst
    <3>3. CASE ClaimReboot(t)
      BY <1>0, <3>1, <3>3 DEF ClaimReboot
    <3>4. CASE ~FlipFirst(t) /\ ~ClaimReboot(t)
      <4>1. contended' = contended /\ (owed' = owed \/ owed' = 1)
        BY <1>2, <3>4 DEF Step, SettleOp, WriteImage, LookFirst, LookSecond, Guard, Clock,
           Answer, MakeOperation, AppendOperation, FlipSecond, OpenWindow, History
      <4>2. QED
        BY <1>0, <3>1, <4>1
    <3>5. QED
      BY <3>2, <3>3, <3>4
  <2>3. overlapped' \subseteq Volumes
    <3>1. th[t].volume \in Volumes
      BY <1>0 DEF Thread
    <3>2. overlapped' \in {overlapped, overlapped \cup {th[t].volume}}
      BY <1>2 DEF Step, SettleOp, WriteImage, ClaimReboot, LookFirst, LookSecond, Guard, Clock,
         Answer, MakeOperation, AppendOperation, FlipFirst, FlipSecond, OpenWindow, History
    <3>3. QED
      BY <1>0, <3>1, <3>2
  <2>4. QED
    BY <1>0, <2>1, <2>2, <2>3 DEF Inv, TypeOK, DevOK, Object
<1>3. CASE Tick
  <2>1. DevOK(dev') /\ th' \in [Threads -> Thread] /\ ThreadsOK'
    BY <1>3, TickType
  <2>2. UNCHANGED <<workload, History>>
    BY <1>3 DEF Tick
  <2>3. QED
    BY <1>0, <2>1, <2>2 DEF Inv, TypeOK, DevOK, Object, History
<1>4. CASE UNCHANGED vars
  BY <1>4 DEF vars, Inv, TypeOK, ThreadsOK, At
<1>5. QED
  BY <1>1, <1>2, <1>3, <1>4 DEF Next, Poll

LEMMA SpecInv == Spec => []Inv
BY InitInv, InvStep, PTL DEF Spec

\* The object and the threads keep their types, however many threads are inside the
\* handlers and however long each of them takes.
THEOREM ThreadsTypeCorrect == Spec => []TypeOK
<1>1. Inv => TypeOK
  BY DEF Inv
<1>2. QED
  BY SpecInv, <1>1, PTL

----------------------------------------------------------------------------
(***************************************************************************)
(* Reboot windows: an open one is owed, and at most one is open.           *)
(***************************************************************************)
Owed == owed \in {0, 1} /\ (dev.window => owed = 1)

LEMMA OwedStep == Inv /\ Owed /\ [Next]_vars => Owed'
<1> SUFFICES ASSUME Inv, Owed, [Next]_vars PROVE Owed'
  OBVIOUS
<1>0. DevOK(dev)
  BY DevIsOK DEF Inv, TypeOK
<1>1. CASE owed' = owed /\ dev'.window = dev.window
  BY <1>1 DEF Owed
<1>2. ASSUME NEW t \in Threads, Step(t) PROVE Owed'
  <2>1. CASE ClaimReboot(t)
    <3>1. CASE dev.window /\ Due(t, dev.left)
      <4>1. dev' = [dev EXCEPT !.window = FALSE, !.left = 0] /\ owed' = owed - 1
        BY <2>1, <3>1 DEF ClaimReboot
      <4>2. dev'.window = FALSE
        BY <1>0, <4>1 DEF DevOK, Object
      <4>3. QED
        BY <3>1, <4>1, <4>2 DEF Owed
    <3>2. CASE ~(dev.window /\ Due(t, dev.left))
      BY <1>1, <2>1, <3>2 DEF ClaimReboot
    <3>3. QED
      BY <3>1, <3>2
  <2>2. CASE OpenWindow(t)
    BY <2>2 DEF OpenWindow, Owed
  <2>3. CASE SettleOp(t) \/ WriteImage(t) \/ AppendOperation(t)
    <3>1. dev'.window = dev.window
      BY <1>0, <2>3 DEF SettleOp, WriteImage, AppendOperation, DevOK, Object
    <3>2. QED
      BY <1>1, <2>3, <3>1 DEF SettleOp, WriteImage, AppendOperation, History
  <2>4. CASE LookFirst(t) \/ LookSecond(t) \/ FlipFirst(t) \/ FlipSecond(t)
    <3>1. dev'.window = dev.window
      BY <1>0, <2>4 DEF LookFirst, LookSecond, BootFrom, FlipFirst, FlipSecond, DevOK, Object
    <3>2. QED
      BY <1>1, <2>4, <3>1 DEF LookFirst, LookSecond, FlipFirst, FlipSecond, History
  <2>5. CASE Guard(t) \/ Clock(t) \/ Answer(t) \/ MakeOperation(t)
    BY <1>1, <2>5 DEF Guard, Clock, Answer, MakeOperation, History
  <2>6. QED
    BY <1>2, <2>1, <2>2, <2>3, <2>4, <2>5 DEF Step
<1>3. CASE Tick
  BY <1>0, <1>1, <1>3 DEF Tick, History, DevOK, Object
<1>4. ASSUME NEW t \in Threads, NEW r, Request(t, r) PROVE Owed'
  BY <1>1, <1>4 DEF Request, History
<1>5. CASE UNCHANGED vars
  BY <1>1, <1>5 DEF vars
<1>6. QED
  BY <1>2, <1>3, <1>4, <1>5 DEF Next, Poll

\* However many threads see the deadline pass in advance(), one of them boots.
THEOREM RebootBootsOnce == Spec => []OneBootPerReboot
<1>1. Init => Owed
  BY DEF Init, Owed
<1>2. Owed => OneBootPerReboot
  BY DEF Owed, OneBootPerReboot
<1>3. QED
  BY SpecInv, <1>1, <1>2, OwedStep, PTL DEF Spec

----------------------------------------------------------------------------
(***************************************************************************)
(* Active volumes: while the PATCHes between their two assignments all     *)
(* name one volume, they have dealt with the first flag alike.             *)
(***************************************************************************)
Flipping == {t \in Threads : At(t, "flip")}

Held ==
    ~contended =>
      /\ \A t, u \in Flipping : th[t].volume = th[u].volume
      /\ Flipping = {} => \E v \in Volumes : dev.active = {v}
      /\ \A t \in Flipping : "HD1.1" \in dev.active <=> th[t].volume = "HD1.1"

\* A step of a thread that is not at the flags.
LEMMA HeldElsewhere ==
    ASSUME Inv, Held, NEW t \in Threads, NEW rec, th' = [th EXCEPT ![t] = rec],
           th[t].pc # "flip", rec.pc # "flip",
           dev'.active = dev.active, contended' = contended
    PROVE  Held'
<1>1. th \in [Threads -> Thread]
  BY DEF Inv, TypeOK
<1>2. \A u \in Threads \ {t} : th'[u] = th[u]
  BY <1>1
<1>3. th'[t] = rec
  BY <1>1
<1>4. Flipping' = Flipping /\ t \notin Flipping
  BY <1>2, <1>3 DEF Flipping, At
<1>5. \A u \in Flipping : th'[u] = th[u]
  BY <1>2, <1>4 DEF Flipping
<1>6. QED
  BY <1>4, <1>5 DEF Held

\* The ways in which the pc of one thread changes.
LEMMA Moves ==
    ASSUME Inv, NEW t \in Threads
    PROVE  /\ \A s \in Steps : Goto(t, s) =>
                  \E rec \in Thread : th' = [th EXCEPT ![t] = rec] /\ rec.pc = s
           /\ \A s \in Steps : Leave(t, s) =>
                  \E rec \in Thread : th' = [th EXCEPT ![t] = rec] /\ rec.pc = s
           /\ Reply(t) => \E rec \in Thread : th' = [th EXCEPT ![t] = rec] /\ rec.pc = "idle"
<1>1. th[t] \in Thread
  BY DEF Inv, TypeOK
<1>2. ASSUME NEW s \in Steps, Goto(t, s)
      PROVE  \E rec \in Thread : th' = [th EXCEPT ![t] = rec] /\ rec.pc = s
  <2>1. [th[t] EXCEPT !.pc = s] \in Thread /\ [th[t] EXCEPT !.pc = s].pc = s
    BY <1>1, ThreadFields DEF Thread
  <2>2. QED
    BY <1>2, <2>1 DEF Goto
<1>3. ASSUME NEW s \in Steps, Leave(t, s)
      PROVE  \E rec \in Thread : th' = [th EXCEPT ![t] = rec] /\ rec.pc = s
  <2>1. [th[t] EXCEPT !.pc = s, !.at = 1, !.late = 0] \in Thread
    BY <1>1, ThreadFields
  <2>2. [th[t] EXCEPT !.pc = s, !.at = 1, !.late = 0].pc = s
    BY <1>1 DEF Thread
  <2>3. QED
    BY <1>3, <2>1, <2>2 DEF Leave
<1>4. Reply(t) => \E rec \in Thread : th' = [th EXCEPT ![t] = rec] /\ rec.pc = "idle"
  BY IdleThreadType DEF Reply, IdleThread
<1>5. QED
  BY <1>2, <1>3, <1>4

LEMMA HeldFlips ==
    ASSUME Inv, Held, NEW t \in Threads, FlipFirst(t) \/ FlipSecond(t)
    PROVE  Held'
<1>0. th \in [Threads -> Thread] /\ th[t].volume \in Volumes /\ dev.active \subseteq Volumes
      /\ contended \in BOOLEAN /\ DevOK(dev)
  BY DevIsOK DEF Inv, TypeOK, Thread
<1>1. CASE FlipFirst(t)
  <2> SUFFICES ASSUME ~contended'
               PROVE  /\ Flipping' # {}
                      /\ \A u \in Flipping' : th'[u].volume = th[t].volume
                      /\ "HD1.1" \in dev'.active <=> th[t].volume = "HD1.1"
    BY DEF Held
  <2>1. \A u \in Flipping \ {t} : th[u].volume = th[t].volume
    BY <1>1 DEF FlipFirst, Flipping
  <2>2. \A u \in Threads \ {t} : th'[u] = th[u]
    BY <1>0, <1>1 DEF FlipFirst, Goto
  <2>3. th'[t].pc = "flip" /\ th'[t].volume = th[t].volume
    BY <1>0, <1>1 DEF FlipFirst, Goto, Thread
  <2>4. Flipping' = Flipping \cup {t}
    BY <2>2, <2>3 DEF Flipping, At
  <2>5. dev'.active = Flip(t, "HD1.1")
    BY <1>0, <1>1 DEF FlipFirst, DevOK, Object
  <2>6. \A u \in Flipping' : th'[u].volume = th[t].volume
    BY <2>1, <2>2, <2>3, <2>4 DEF Flipping
  <2>7. QED
    BY <1>0, <2>4, <2>5, <2>6 DEF Flip
<1>2. CASE FlipSecond(t)
  <2> SUFFICES ASSUME ~contended'
               PROVE  /\ dev'.active = {th[t].volume}
                      /\ \A u \in Flipping' : th'[u].volume = th[t].volume
    BY <1>0 DEF Held
  <2>1. ~contended /\ t \in Flipping
    BY <1>2 DEF FlipSecond, History, Flipping
  <2>2. /\ \A u \in Flipping : th[u].volume = th[t].volume
        /\ "HD1.1" \in dev.active <=> th[t].volume = "HD1.1"
    BY <2>1 DEF Held
  <2>3. \A u \in Threads \ {t} : th'[u] = th[u]
    BY <1>0, <1>2 DEF FlipSecond, Reply
  <2>4. th'[t].pc = "idle"
    BY <1>0, <1>2 DEF FlipSecond, Reply, IdleThread
  <2>5. Flipping' = Flipping \ {t}
    BY <2>3, <2>4 DEF Flipping, At
  <2>6. dev'.active = Flip(t, "HD1.2")
    BY <1>0, <1>2 DEF FlipSecond, DevOK, Object
  <2>7. dev'.active = {th[t].volume}
    BY <1>0, <2>2, <2>6 DEF Flip, Volumes
  <2>8. \A u \in Flipping' : th'[u].volume = th[t].volume
    BY <2>2, <2>3, <2>5 DEF Flipping
  <2>9. QED
    BY <2>7, <2>8
<1>3. QED
  BY <1>1, <1>2

LEMMA HeldStep == Inv /\ Held /\ [Next]_vars => Held'
<1> SUFFICES ASSUME Inv, Held, [Next]_vars PROVE Held'
  OBVIOUS
<1>0. DevOK(dev) /\ th \in [Threads -> Thread]
  BY DevIsOK DEF Inv, TypeOK
<1>1. ASSUME NEW t \in Threads, Step(t) PROVE Held'
  <2>1. th[t] \in Thread /\ {"image", "settle", "first", "guard", "second", "clock", "act", "idle",
                             "append"} \subseteq Steps
    BY <1>0 DEF Steps, Settling
  <2>2. CASE FlipFirst(t) \/ FlipSecond(t)
    BY <2>2, HeldFlips
  <2>3. CASE SettleOp(t) \/ WriteImage(t)
    <3>1. dev'.active = dev.active /\ contended' = contended /\ th[t].pc # "flip"
      BY <1>0, <2>3 DEF SettleOp, WriteImage, History, At, DevOK, Object
    <3>2. CASE Goto(t, "image")
      BY <2>1, <3>1, <3>2, Moves, HeldElsewhere
    <3>3. CASE th' = [th EXCEPT ![t].at = @ + 1]
      <4>1. th' = [th EXCEPT ![t] = [th[t] EXCEPT !.at = @ + 1]]
        BY <3>3
      <4>2. [th[t] EXCEPT !.at = @ + 1].pc = th[t].pc
        BY <2>1 DEF Thread
      <4>3. QED
        BY <3>1, <4>1, <4>2, HeldElsewhere
    <3>4. CASE th' = [th EXCEPT ![t].at = @ + 1, ![t].pc = "settle"]
      <4>1. th' = [th EXCEPT ![t] = [th[t] EXCEPT !.at = @ + 1, !.pc = "settle"]]
        BY <1>0, <3>4
      <4>2. [th[t] EXCEPT !.at = @ + 1, !.pc = "settle"].pc = "settle"
        BY <2>1 DEF Thread
      <4>3. QED
        BY <3>1, <4>1, <4>2, HeldElsewhere
    <3>5. QED
      BY <2>3, <3>2, <3>3, <3>4 DEF SettleOp, WriteImage
  <2>4. CASE ClaimReboot(t)
    <3>1. dev'.active = dev.active /\ contended' = contended /\ th[t].pc # "flip"
      BY <1>0, <2>4 DEF ClaimReboot, At, DevOK, Object
    <3>2. Leave(t, "first") \/ Leave(t, "guard")
      BY <2>4 DEF ClaimReboot
    <3>3. QED
      BY <2>1, <3>1, <3>2, Moves, HeldElsewhere
  <2>5. CASE LookFirst(t) \/ LookSecond(t)
    <3>1. dev'.active = dev.active /\ contended' = contended /\ th[t].pc # "flip"
      BY <1>0, <2>5 DEF LookFirst, LookSecond, BootFrom, At, History, DevOK, Object
    <3>2. Goto(t, "second") \/ Goto(t, "guard") \/ Reply(t)
      BY <2>5 DEF LookFirst, LookSecond, BootFrom
    <3>3. QED
      BY <2>1, <3>1, <3>2, Moves, HeldElsewhere
  <2>6. CASE Guard(t) \/ Clock(t) \/ Answer(t) \/ OpenWindow(t) \/ AppendOperation(t)
    <3>1. dev'.active = dev.active /\ contended' = contended /\ th[t].pc # "flip"
      BY <1>0, <2>6 DEF Guard, Clock, Answer, OpenWindow, AppendOperation, Acts, At, History,
                        DevOK, Object
    <3>2. Goto(t, "clock") \/ Goto(t, "act") \/ Reply(t)
      BY <2>6 DEF Guard, Clock, Answer, OpenWindow, AppendOperation
    <3>3. QED
      BY <2>1, <3>1, <3>2, Moves, HeldElsewhere
  <2>7. CASE MakeOperation(t)
    <3> DEFINE new == [volume |-> th[t].volume, version |-> th[t].version,
                       left |-> InstallTime, status |-> "in progress"]
               rec == [th[t] EXCEPT !.pc = "append", !.op = new]
    <3>1. th' = [th EXCEPT ![t] = rec]
      BY <1>0, <2>7 DEF MakeOperation
    <3>2. rec.pc = "append"
      BY <2>1 DEF Thread
    <3>3. dev'.active = dev.active /\ contended' = contended /\ th[t].pc # "flip"
      BY <2>7 DEF MakeOperation, Acts, At
    <3>4. QED
      BY <3>1, <3>2, <3>3, HeldElsewhere
  <2>8. QED
    BY <1>1, <2>2, <2>3, <2>4, <2>5, <2>6, <2>7 DEF Step
<1>2. ASSUME NEW t \in Threads, NEW r, Request(t, r) PROVE Held'
  <2> DEFINE rec == [IdleThread EXCEPT !.pc = "settle", !.kind = r.kind,
                                       !.volume = r.volume, !.version = r.version]
  <2>1. rec.pc = "settle"
    BY DEF IdleThread
  <2>2. QED
    BY <1>2, <2>1, HeldElsewhere DEF Request, At, History
<1>3. CASE Tick
  <2>1. \A t \in Threads : th'[t].pc = th[t].pc /\ th'[t].volume = th[t].volume
    BY <1>0, <1>3 DEF Tick, Thread
  <2>2. dev'.active = dev.active /\ contended' = contended
    BY <1>0, <1>3 DEF Tick, History, DevOK, Object
  <2>3. Flipping' = Flipping
    BY <2>1 DEF Flipping, At
  <2>4. QED
    BY <2>1, <2>2, <2>3 DEF Held, Flipping
<1>4. CASE UNCHANGED vars
  BY <1>4 DEF vars, Held, Flipping, At
<1>5. QED
  BY <1>1, <1>2, <1>3, <1>4 DEF Next, Poll

\* Between PATCHes one volume is active, unless the last PATCH to begin met one that
\* names the other volume.
THEOREM OneActiveVolume == Spec => []ActiveVolumeAtRest
<1>1. Init => Held
  BY DEF Init, Held, Flipping, At, IdleThread, Volumes
<1>2. Held => ActiveVolumeAtRest
  BY DEF Held, ActiveVolumeAtRest, Flipping
<1>3. QED
  BY SpecInv, <1>1, <1>2, HeldStep, PTL DEF Spec

----------------------------------------------------------------------------
(***************************************************************************)
(* Images.  On a volume where installs come one at a time, a thread that   *)
(* has settled an install and not yet written its image finds any younger  *)
(* install of the volume with most of its time to run.                     *)
(***************************************************************************)
Writes(t, v) == At(t, "image") /\ dev.ops[th[t].at].volume = v

Makes(t, v) == At(t, "append") /\ th[t].volume = v

OneAtATime(v) ==
    /\ \A i, j \in OpsOn(dev, v) : i < j => dev.ops[i].status = "complete"
    /\ \A t \in Threads : Makes(t, v) => \A i \in OpsOn(dev, v) : dev.ops[i].status = "complete"
    /\ \A t, u \in Threads : Makes(t, v) /\ Makes(u, v) => t = u

LateWriters(v) ==
    \A t \in Threads : Writes(t, v) =>
        /\ dev.ops[th[t].at].status = "complete"
        /\ \A j \in OpsOn(dev, v) : j > th[t].at =>
               /\ dev.ops[j].status = "in progress"
               /\ dev.ops[j].left >= InstallTime - th[t].late
        /\ \A u \in Threads : Makes(u, v) => th[u].op.left >= InstallTime - th[t].late

WrittenOrWriting(v) ==
    \A i \in OpsOn(dev, v) :
        dev.ops[i].status = "complete" /\ (\A j \in OpsOn(dev, v) : j <= i) =>
            \/ dev.image[v] = dev.ops[i].version
            \/ \E t \in Threads : Writes(t, v) /\ th[t].at = i

Orderly(v) == OneAtATime(v) /\ LateWriters(v) /\ WrittenOrWriting(v)

Images == \A v \in Volumes \ overlapped : Orderly(v)

\* What the steps below start from.
LEMMA ListFact ==
    ASSUME Inv PROVE Len(dev.ops) \in Nat /\ DOMAIN dev.ops = 1..Len(dev.ops)
BY OpsAre DEF Inv

LEMMA ThreadFact ==
    ASSUME Inv, NEW t \in Threads
    PROVE  /\ th[t].at \in Nat \ {0} /\ th[t].late \in 0..MaxLate
           /\ th[t].op.left \in Int /\ th[t].volume \in Volumes
           /\ At(t, "image") => th[t].at \in DOMAIN dev.ops
<1>1. th[t] \in Thread
  BY DEF Inv, TypeOK
<1>2. th[t].at \in Nat \ {0} /\ th[t].late \in 0..MaxLate /\ th[t].volume \in Volumes
      /\ th[t].op \in Install
  BY <1>1 DEF Thread
<1>3. At(t, "image") => th[t].at <= Len(dev.ops)
  BY DEF Inv, ThreadsOK
<1>4. th[t].op.left \in Int
  BY <1>2 DEF Install
<1>5. QED
  BY <1>2, <1>3, <1>4, ListFact

LEMMA ThreadFacts ==
    ASSUME Inv
    PROVE  /\ th \in [Threads -> Thread] /\ DevOK(dev)
           /\ \A i \in DOMAIN dev.ops : /\ dev.ops[i] \in Install /\ dev.ops[i].left \in Int
                                         /\ dev.ops[i].volume \in Volumes
                                         /\ dev.ops[i].status \in {"in progress", "complete"}
<1>1. th \in [Threads -> Thread] /\ DevOK(dev)
  BY DevIsOK DEF Inv, TypeOK
<1>2. \A i \in DOMAIN dev.ops : dev.ops[i] \in Install
  BY OpsAre DEF Inv
<1>3. QED
  BY <1>1, <1>2 DEF Install

\* A step of a thread that touches neither installs nor images.
LEMMA ImagesElsewhere ==
    ASSUME Inv, Images, NEW t \in Threads, NEW rec, th' = [th EXCEPT ![t] = rec],
           th[t].pc \notin {"image", "append"}, rec.pc \notin {"image", "append"},
           dev'.ops = dev.ops, dev'.image = dev.image, overlapped' = overlapped
    PROVE  Images'
<1>0. \A u \in Threads : th'[u] = IF u = t THEN rec ELSE th[u]
  BY ThreadFacts
<1>1. \A u \in Threads, v \in Volumes : /\ Writes(u, v)' <=> Writes(u, v)
                                        /\ Makes(u, v)' <=> Makes(u, v)
                                        /\ Writes(u, v) \/ Makes(u, v) => th'[u] = th[u]
  BY <1>0 DEF Writes, Makes, At
<1>2. \A v \in Volumes : OpsOn(dev, v)' = OpsOn(dev, v)
  BY DEF OpsOn
<1>3. ASSUME NEW v \in Volumes \ overlapped' PROVE Orderly(v)'
  <2>1. Orderly(v)
    BY <1>3 DEF Images
  <2>2. OneAtATime(v)'
    BY <1>1, <1>2, <2>1 DEF Orderly, OneAtATime
  <2>3. LateWriters(v)'
    <3> SUFFICES ASSUME NEW u \in Threads, Writes(u, v)'
                 PROVE  /\ dev.ops[th[u].at].status = "complete"
                        /\ \A j \in OpsOn(dev, v) : j > th[u].at =>
                               /\ dev.ops[j].status = "in progress"
                               /\ dev.ops[j].left >= InstallTime - th[u].late
                        /\ \A w \in Threads : Makes(w, v) => th[w].op.left >= InstallTime - th[u].late
      BY <1>1, <1>2, ZenonT(30) DEF LateWriters
    <3>1. Writes(u, v)
      BY <1>1
    <3>2. QED
      BY <2>1, <3>1 DEF Orderly, LateWriters
  <2>4. WrittenOrWriting(v)'
    BY <1>1, <1>2, <2>1 DEF Orderly, WrittenOrWriting
  <2>5. QED
    BY <2>2, <2>3, <2>4 DEF Orderly
<1>4. QED
  BY <1>3 DEF Images

\* An install is settled: no younger one exists on its volume, and the threads that
\* write images there write those of older installs.
LEMMA ImagesSettle ==
    ASSUME MaxLate < InstallTime, Inv, Images, NEW t \in Threads, SettleOp(t),
           Goto(t, "image"),
           dev' = [dev EXCEPT !.ops[th[t].at].status = "complete", !.ops[th[t].at].left = 0]
    PROVE  Images'
<1> DEFINE i == th[t].at
           op == [dev.ops[i] EXCEPT !.status = "complete", !.left = 0]
<1>0. /\ i \in DOMAIN dev.ops /\ dev.ops[i] \in Install /\ dev.ops[i].volume \in Volumes
      /\ At(t, "settle") /\ dev.ops[i].left \in Int /\ th[t].late \in 0..MaxLate
      /\ th[t] \in Thread /\ i \in Nat
  <2>1. i <= Len(dev.ops) /\ At(t, "settle")
    BY DEF SettleOp
  <2>2. i \in Nat \ {0} /\ th[t].late \in 0..MaxLate /\ Len(dev.ops) \in Nat
        /\ DOMAIN dev.ops = 1..Len(dev.ops)
    BY ThreadFact, ListFact
  <2> HIDE DEF i
  <2>3. i \in DOMAIN dev.ops
    BY <2>1, <2>2
  <2>4. dev.ops[i] \in Install /\ dev.ops[i].volume \in Volumes /\ dev.ops[i].left \in Int
    BY <2>3, ThreadFacts
  <2>5. th[t] \in Thread
    BY ThreadFacts
  <2>6. QED
    BY <2>1, <2>2, <2>3, <2>4, <2>5
<1>1. dev.ops[i].status = "in progress" /\ dev.ops[i].left <= 0
  <2>1. CASE dev.ops[i].status = "in progress" /\ Due(t, dev.ops[i].left)
    <3>1. dev.ops[i].left + th[t].late <= 0
      BY <2>1 DEF Due
    <3>2. \A m \in Int, n \in 0..MaxLate : m + n <= 0 => m <= 0
      BY ThreadsAssumption
    <3>3. QED
      BY <1>0, <2>1, <3>1, <3>2
  <2>2. CASE ~(dev.ops[i].status = "in progress" /\ Due(t, dev.ops[i].left))
    <3>1. th' = [th EXCEPT ![t].at = @ + 1]
      BY <2>2 DEF SettleOp
    <3>2. th'[t].pc = "settle" /\ th'[t].pc = "image"
      BY <1>0, <3>1, ThreadFacts DEF Goto, At, Thread
    <3>3. QED
      BY <3>2
  <2>3. QED
    BY <2>1, <2>2
<1>2. /\ op.status = "complete" /\ op.volume = dev.ops[i].volume /\ op.version = dev.ops[i].version
  BY <1>0, Completed
<1>3. /\ dev'.ops = [dev.ops EXCEPT ![i] = op] /\ dev'.image = dev.image
  BY ThreadFacts DEF DevOK, Object
<1>4. overlapped' = overlapped
  BY DEF SettleOp, History
<1>5. \A u \in Threads \ {t} : th'[u] = th[u]
  BY ThreadFacts DEF Goto
<1>6. th'[t].pc = "image" /\ th'[t].at = i
  BY <1>0, ThreadFacts DEF Goto, Thread
<1> HIDE DEF op
<1>7. /\ DOMAIN dev'.ops = DOMAIN dev.ops /\ dev'.ops[i] = op
      /\ \A j \in DOMAIN dev.ops : j # i => dev'.ops[j] = dev.ops[j]
  BY <1>0, <1>3
<1>8. \A v \in Volumes : OpsOn(dev, v)' = OpsOn(dev, v)
  BY <1>2, <1>7 DEF OpsOn
<1>9. \A v \in Volumes : OpsOn(dev, v) \subseteq 1..Len(dev.ops) /\ Len(dev.ops) \in Nat
  BY ListFact DEF OpsOn
<1>10. \A u \in Threads, v \in Volumes : Makes(u, v)' <=> Makes(u, v)
  BY <1>0, <1>5, <1>6 DEF Makes, At
<1> HIDE DEF i
<1>11. ASSUME NEW v \in Volumes \ overlapped' PROVE Orderly(v)'
  <2>1. Orderly(v)
    BY <1>4, <1>11 DEF Images
  <2>2. \A j \in OpsOn(dev, v) : dev.ops[j].status = "complete" => dev'.ops[j].status = "complete"
    BY <1>2, <1>7 DEF OpsOn
  <2>3. ASSUME i \in OpsOn(dev, v)
        PROVE  /\ \A j \in OpsOn(dev, v) : j <= i
               /\ \A u \in Threads : ~Makes(u, v)
               /\ \A u \in Threads : Writes(u, v) => ~(i > th[u].at) /\ th[u].at # i
    <3>1. \A j \in OpsOn(dev, v) : ~(i < j)
      BY <1>1, <2>1, <2>3 DEF Orderly, OneAtATime
    <3>2. \A u \in Threads : ~Makes(u, v)
      BY <1>1, <2>1, <2>3 DEF Orderly, OneAtATime
    <3>3. \A u \in Threads : Writes(u, v) => ~(i > th[u].at) /\ th[u].at # i
      <4> SUFFICES ASSUME NEW u \in Threads, Writes(u, v) PROVE ~(i > th[u].at) /\ th[u].at # i
        OBVIOUS
      <4>1. dev.ops[th[u].at].status = "complete"
        BY <2>1 DEF Orderly, LateWriters
      <4>2. i > th[u].at => dev.ops[i].left >= InstallTime - th[u].late
        BY <2>1, <2>3 DEF Orderly, LateWriters
      <4>3. th[u].late \in 0..MaxLate
        BY ThreadFact
      <4>4. \A m \in Int, n \in 0..MaxLate : m >= InstallTime - n => ~(m <= 0)
        BY TimingAssumption, ThreadsAssumption
      <4>5. dev.ops[i].left \in Int
        BY <1>0
      <4>6. QED
        BY <1>1, <4>1, <4>2, <4>3, <4>4, <4>5
    <3>4. QED
      BY <1>0, <1>9, <3>1, <3>2, <3>3
  <2>4. OneAtATime(v)'
    BY <1>8, <1>10, <2>1, <2>2 DEF Orderly, OneAtATime
  <2>5. LateWriters(v)'
    <3> SUFFICES ASSUME NEW u \in Threads, Writes(u, v)'
                 PROVE  /\ dev'.ops[th'[u].at].status = "complete"
                        /\ \A j \in OpsOn(dev, v) : j > th'[u].at =>
                               /\ dev'.ops[j].status = "in progress"
                               /\ dev'.ops[j].left >= InstallTime - th'[u].late
                        /\ \A w \in Threads : Makes(w, v) =>
                               th'[w].op.left >= InstallTime - th'[u].late
      BY <1>8, <1>10 DEF LateWriters
    <3>1. CASE u = t
      <4>1. i \in OpsOn(dev, v)
        BY <1>0, <1>2, <1>6, <1>7, <3>1 DEF Writes, OpsOn, i
      <4>2. dev'.ops[th'[u].at].status = "complete" /\ th'[u].at = i
        BY <1>2, <1>6, <1>7, <3>1
      <4>3. \A j \in OpsOn(dev, v) : ~(j > i)
        BY <1>0, <1>9, <2>3, <4>1
      <4>4. \A w \in Threads : ~Makes(w, v)
        BY <2>3, <4>1
      <4>5. QED
        BY <4>2, <4>3, <4>4
    <3>2. CASE u # t
      <4>1. th'[u] = th[u]
        BY <1>5, <3>2
      <4>2. th[u].at \in DOMAIN dev.ops
        <5>1. At(u, "image")
          BY <4>1 DEF Writes, At
        <5>2. QED
          BY <5>1, ThreadFact
      <4>3. Writes(u, v)
        BY <1>2, <1>7, <4>1, <4>2 DEF Writes, At
      <4>4. \A j \in OpsOn(dev, v) : j > th[u].at => j # i
        BY <1>9, <2>3, <4>3
      <4>5. \A w \in Threads : Makes(w, v) => th'[w] = th[w]
        BY <1>0, <1>5 DEF Makes, At
      <4>6. dev'.ops[th[u].at].status = "complete"
        BY <1>2, <1>7, <2>1, <4>2, <4>3 DEF Orderly, LateWriters
      <4>7. QED
        BY <1>7, <2>1, <4>1, <4>3, <4>4, <4>5, <4>6 DEF Orderly, LateWriters, OpsOn
    <3>3. QED
      BY <3>1, <3>2
  <2>6. WrittenOrWriting(v)'
    <3> SUFFICES ASSUME NEW k \in OpsOn(dev, v), dev'.ops[k].status = "complete",
                        \A j \in OpsOn(dev, v) : j <= k
                 PROVE  \/ dev'.image[v] = dev'.ops[k].version
                        \/ \E u \in Threads : Writes(u, v)' /\ th'[u].at = k
      BY <1>8 DEF WrittenOrWriting
    <3>1. CASE k = i
      BY <1>2, <1>6, <1>7, <3>1 DEF Writes, At, OpsOn
    <3>2. CASE k # i
      <4>1. dev'.ops[k] = dev.ops[k]
        BY <1>7, <3>2 DEF OpsOn
      <4>2. \/ dev.image[v] = dev.ops[k].version
            \/ \E u \in Threads : Writes(u, v) /\ th[u].at = k
        BY <2>1, <4>1 DEF Orderly, WrittenOrWriting
      <4>3. ASSUME NEW u \in Threads, Writes(u, v), th[u].at = k
            PROVE  Writes(u, v)' /\ th'[u].at = k
        BY <1>0, <1>5, <4>1, <4>3 DEF Writes, At
      <4>4. QED
        BY <1>3, <4>1, <4>2, <4>3
    <3>3. QED
      BY <3>1, <3>2
  <2>7. QED
    BY <2>4, <2>5, <2>6 DEF Orderly
<1>12. QED
  BY <1>11 DEF Images

\* An image is written: if its install is no longer the newest of the volume, the
\* newest is still in progress.
LEMMA ImagesWrite ==
    ASSUME Inv, Images, NEW t \in Threads, WriteImage(t)
    PROVE  Images'
<1> DEFINE i == th[t].at
           w == dev.ops[i].volume
           rec == [th[t] EXCEPT !.at = @ + 1, !.pc = "settle"]
<1>0. i \in DOMAIN dev.ops /\ At(t, "image") /\ th[t] \in Thread
  <2>1. At(t, "image")
    BY DEF WriteImage
  <2>2. QED
    BY <2>1, ThreadFact, ThreadFacts
<1>1. w \in Volumes
  BY <1>0, ThreadFacts
<1>2. dev'.ops = dev.ops /\ dev'.image = [dev.image EXCEPT ![w] = dev.ops[i].version]
  BY ThreadFacts DEF WriteImage, DevOK, Object
<1>3. overlapped' = overlapped
  BY DEF WriteImage, History
<1>4. \A u \in Threads \ {t} : th'[u] = th[u]
  BY ThreadFacts DEF WriteImage
<1>5. th'[t].pc = "settle"
  <2>1. th' = [th EXCEPT ![t] = rec]
    BY ThreadFacts DEF WriteImage
  <2>2. rec.pc = "settle"
    BY <1>0 DEF Thread
  <2> HIDE DEF rec
  <2>3. QED
    BY <2>1, <2>2, ThreadFacts
<1> HIDE DEF i
<1>6. \A v \in Volumes : /\ dev'.image[v] = IF v = w THEN dev.ops[i].version ELSE dev.image[v]
                        /\ OpsOn(dev, v)' = OpsOn(dev, v)
  BY <1>1, <1>2, ThreadFacts DEF OpsOn, DevOK, Object
<1>7. \A u \in Threads, v \in Volumes : /\ Makes(u, v)' <=> Makes(u, v)
                                        /\ Makes(u, v) => th'[u] = th[u]
                                        /\ Writes(u, v)' <=> Writes(u, v) /\ u # t
                                        /\ Writes(u, v)' => th'[u] = th[u]
  BY <1>0, <1>2, <1>4, <1>5 DEF Makes, Writes, At
<1>8. ASSUME NEW v \in Volumes \ overlapped' PROVE Orderly(v)'
  <2>1. Orderly(v)
    BY <1>3, <1>8 DEF Images
  <2>2. OneAtATime(v)'
    BY <1>2, <1>6, <1>7, <2>1 DEF Orderly, OneAtATime
  <2>3. LateWriters(v)'
    <3> SUFFICES ASSUME NEW u \in Threads, Writes(u, v)'
                 PROVE  /\ dev.ops[th[u].at].status = "complete"
                        /\ \A j \in OpsOn(dev, v) : j > th[u].at =>
                               /\ dev.ops[j].status = "in progress"
                               /\ dev.ops[j].left >= InstallTime - th[u].late
                        /\ \A x \in Threads : Makes(x, v) => th[x].op.left >= InstallTime - th[u].late
      BY <1>2, <1>6, <1>7 DEF LateWriters
    <3>1. Writes(u, v)
      BY <1>7
    <3>2. QED
      BY <2>1, <3>1 DEF Orderly, LateWriters
  <2>4. WrittenOrWriting(v)'
    <3> SUFFICES ASSUME NEW k \in OpsOn(dev, v), dev.ops[k].status = "complete",
                        \A j \in OpsOn(dev, v) : j <= k
                 PROVE  \/ dev'.image[v] = dev.ops[k].version
                        \/ \E u \in Threads : Writes(u, v)' /\ th'[u].at = k
      BY <1>2, <1>6 DEF WrittenOrWriting
    <3>0. \/ dev.image[v] = dev.ops[k].version
          \/ \E u \in Threads : Writes(u, v) /\ th[u].at = k
      BY <2>1 DEF Orderly, WrittenOrWriting
    <3>1. CASE v # w
      <4>1. ~Writes(t, v)
        BY <3>1 DEF Writes, i
      <4>2. QED
        BY <1>6, <1>7, <3>0, <3>1, <4>1
    <3>2. CASE v = w
      <4>1. Writes(t, v)
        BY <1>0, <3>2 DEF Writes, i
      <4>2. \A j \in OpsOn(dev, v) : j > i => dev.ops[j].status = "in progress"
        BY <2>1, <4>1 DEF Orderly, LateWriters, i
      <4>3. ~(k > i)
        BY <4>2
      <4>4. i \in OpsOn(dev, v)
        BY <1>0, <3>2 DEF OpsOn
      <4>5. i \in Nat /\ k \in Nat
        BY <4>4, ListFact DEF OpsOn
      <4>6. i = k
        BY <4>3, <4>4, <4>5
      <4>7. QED
        BY <1>6, <3>2, <4>6
    <3>3. QED
      BY <3>1, <3>2
  <2>5. QED
    BY <2>2, <2>3, <2>4 DEF Orderly
<1>9. QED
  BY <1>8 DEF Images

\* A thread makes an operation: nothing else is under way on its volume, or the
\* volume is one of those where installs have overlapped from here on.
LEMMA ImagesMake ==
    ASSUME Inv, Images, NEW t \in Threads, MakeOperation(t)
    PROVE  Images'
<1> DEFINE new == [volume |-> th[t].volume, version |-> th[t].version,
                   left |-> InstallTime, status |-> "in progress"]
           rec == [th[t] EXCEPT !.pc = "append", !.op = new]
           w == th[t].volume
           busy == \/ \E k \in OpsOn(dev, w) : dev.ops[k].status = "in progress"
                   \/ \E u \in Threads : At(u, "append") /\ th[u].volume = w
<1>0. th[t] \in Thread /\ At(t, "act") /\ dev' = dev
  BY ThreadFacts DEF MakeOperation, Acts
<1>1. th' = [th EXCEPT ![t] = rec]
  BY ThreadFacts DEF MakeOperation
<1>2. rec.pc = "append" /\ rec.volume = w /\ rec.op = new /\ new.left = InstallTime
  BY <1>0 DEF Thread
<1>3. overlapped' = IF busy THEN overlapped \cup {w} ELSE overlapped
  BY DEF MakeOperation
<1> HIDE DEF rec, new
<1>4. \A u \in Threads : th'[u] = IF u = t THEN rec ELSE th[u]
  BY <1>1, ThreadFacts
<1>5. \A u \in Threads, v \in Volumes : /\ Writes(u, v)' <=> Writes(u, v)
                                        /\ Writes(u, v) => th'[u] = th[u] /\ u # t
                                        /\ u # t => (Makes(u, v)' <=> Makes(u, v))
                                        /\ Makes(t, v)' <=> v = w
  BY <1>0, <1>2, <1>4 DEF Makes, Writes, At
<1>6. ASSUME NEW v \in Volumes \ overlapped' PROVE Orderly(v)'
  <2>1. Orderly(v) /\ (v = w => ~busy)
    BY <1>3, <1>6 DEF Images
  <2>2. v = w => /\ \A k \in OpsOn(dev, v) : dev.ops[k].status = "complete"
                 /\ \A u \in Threads : ~Makes(u, v)
    <3> SUFFICES ASSUME v = w PROVE /\ \A k \in OpsOn(dev, v) : dev.ops[k].status = "complete"
                                    /\ \A u \in Threads : ~Makes(u, v)
      OBVIOUS
    <3>1. \A k \in OpsOn(dev, v) : dev.ops[k].status # "in progress"
      BY <2>1
    <3>2. \A k \in OpsOn(dev, v) : dev.ops[k].status \in {"in progress", "complete"}
      BY ThreadFacts DEF OpsOn
    <3>3. \A u \in Threads : ~Makes(u, v)
      BY <2>1 DEF Makes
    <3>4. QED
      BY <3>1, <3>2, <3>3
  <2>3. OpsOn(dev', v) = OpsOn(dev, v) /\ dev' = dev
    BY <1>0
  <2>4. OneAtATime(v)'
    <3>1. \A a, b \in OpsOn(dev', v) : a < b => dev'.ops[a].status = "complete"
      BY <2>1, <2>3 DEF Orderly, OneAtATime
    <3>2. \A u \in Threads : Makes(u, v)' =>
             \A a \in OpsOn(dev', v) : dev'.ops[a].status = "complete"
      BY <1>5, <2>1, <2>2, <2>3 DEF Orderly, OneAtATime
    <3>3. \A a, b \in Threads : Makes(a, v)' /\ Makes(b, v)' => a = b
      BY <1>5, <2>1, <2>2 DEF Orderly, OneAtATime
    <3>4. QED
      BY <3>1, <3>2, <3>3 DEF OneAtATime
  <2>5. LateWriters(v)'
    <3> SUFFICES ASSUME NEW u \in Threads, Writes(u, v)
                 PROVE  /\ dev.ops[th[u].at].status = "complete"
                        /\ \A j \in OpsOn(dev, v) : j > th[u].at =>
                               /\ dev.ops[j].status = "in progress"
                               /\ dev.ops[j].left >= InstallTime - th[u].late
                        /\ \A x \in Threads : Makes(x, v)' =>
                               th'[x].op.left >= InstallTime - th[u].late
      BY <1>5, <2>3 DEF LateWriters
    <3>1. \A x \in Threads : Makes(x, v)' => th'[x].op.left >= InstallTime - th[u].late
      <4> SUFFICES ASSUME NEW x \in Threads, Makes(x, v)'
                   PROVE  th'[x].op.left >= InstallTime - th[u].late
        OBVIOUS
      <4>1. CASE x = t
        <5>1. th'[x].op.left = InstallTime
          BY <1>2, <1>4, <4>1
        <5>2. th[u].late \in 0..MaxLate
          BY ThreadFact
        <5>3. QED
          BY <5>1, <5>2, TimingAssumption, ThreadsAssumption
      <4>2. CASE x # t
        BY <1>4, <1>5, <2>1, <4>2 DEF Orderly, LateWriters
      <4>3. QED
        BY <4>1, <4>2
    <3>2. QED
      BY <2>1, <3>1 DEF Orderly, LateWriters
  <2>6. WrittenOrWriting(v)'
    BY <1>5, <2>1, <2>3, ZenonT(30) DEF Orderly, WrittenOrWriting
  <2>7. QED
    BY <2>4, <2>5, <2>6 DEF Orderly
<1>7. QED
  BY <1>6 DEF Images

\* An operation joins the list: it is the newest of its volume, the only one in
\* progress, and has the time left that late writers need.
LEMMA ImagesAppend ==
    ASSUME Inv, Images, NEW t \in Threads, AppendOperation(t)
    PROVE  Images'
<1> DEFINE n == Len(dev.ops) + 1
           w == th[t].volume
<1>0. /\ At(t, "append") /\ Makes(t, w)
      /\ th[t].op.volume = w /\ th[t].op.status = "in progress"
  BY DEF AppendOperation, Makes, Inv, ThreadsOK
<1>1. dev'.ops = Append(dev.ops, th[t].op)
  BY AppendOperationType
<1>2. /\ DOMAIN dev'.ops = 1..n /\ dev'.ops[n] = th[t].op
      /\ \A k \in DOMAIN dev.ops : k # n /\ dev'.ops[k] = dev.ops[k]
      /\ DOMAIN dev.ops = 1..Len(dev.ops) /\ Len(dev.ops) \in Nat
  <2>1. dev.ops \in Seq(Install) /\ th[t].op \in Install
    BY OpsAre DEF Inv, TypeOK, Thread
  <2>2. Len(Append(dev.ops, th[t].op)) = n
        /\ DOMAIN Append(dev.ops, th[t].op) = 1..n
        /\ Append(dev.ops, th[t].op)[n] = th[t].op
        /\ \A k \in 1..Len(dev.ops) : Append(dev.ops, th[t].op)[k] = dev.ops[k]
    BY <2>1, AppendProperties
  <2>3. QED
    BY <1>1, <2>2, ListFact
<1>3. dev'.image = dev.image /\ overlapped' = overlapped
  BY ThreadFacts DEF AppendOperation, History, DevOK, Object
<1>4. \A u \in Threads \ {t} : th'[u] = th[u]
  BY ThreadFacts DEF AppendOperation, Reply
<1>5. th'[t].pc = "idle"
  BY ThreadFacts DEF AppendOperation, Reply, IdleThread
<1>6. \A v \in Volumes :
         /\ OpsOn(dev, v)' = IF v = w THEN OpsOn(dev, v) \cup {n} ELSE OpsOn(dev, v)
         /\ OpsOn(dev, v) \subseteq DOMAIN dev.ops
  <2> SUFFICES ASSUME NEW v \in Volumes
               PROVE  OpsOn(dev', v) = IF v = w THEN OpsOn(dev, v) \cup {n} ELSE OpsOn(dev, v)
    BY DEF OpsOn
  <2>1. DOMAIN dev'.ops = DOMAIN dev.ops \cup {n}
    BY <1>2
  <2>2. dev'.ops[n].volume = w
    BY <1>0, <1>2
  <2> HIDE DEF n, w
  <2>3. QED
    BY <1>2, <2>1, <2>2 DEF OpsOn
<1>7. \A u \in Threads, v \in Volumes : /\ Makes(u, v)' <=> Makes(u, v) /\ u # t
                                        /\ Makes(u, v)' => th'[u] = th[u]
                                        /\ Writes(u, v)' <=> Writes(u, v)
                                        /\ Writes(u, v) => u # t /\ th'[u] = th[u]
                                                          /\ th[u].at \in DOMAIN dev.ops
  <2> SUFFICES ASSUME NEW u \in Threads, NEW v \in Volumes
               PROVE  /\ Makes(u, v)' <=> Makes(u, v) /\ u # t
                      /\ Makes(u, v)' => th'[u] = th[u]
                      /\ Writes(u, v)' <=> Writes(u, v)
                      /\ Writes(u, v) => u # t /\ th'[u] = th[u] /\ th[u].at \in DOMAIN dev.ops
    OBVIOUS
  <2>1. CASE u = t
    BY <1>0, <1>5, <2>1 DEF Makes, Writes, At
  <2>2. CASE u # t
    <3>1. th'[u] = th[u]
      BY <1>4, <2>2
    <3>2. At(u, "image") => th[u].at \in DOMAIN dev.ops
      BY ThreadFact
    <3>3. QED
      BY <1>2, <2>2, <3>1, <3>2 DEF Makes, Writes, At
  <2>3. QED
    BY <2>1, <2>2
<1> HIDE DEF n
<1>8. \A k \in DOMAIN dev.ops : k < n /\ ~(n < k)
  BY <1>2 DEF n
<1>9. ASSUME NEW v \in Volumes \ overlapped' PROVE Orderly(v)'
  <2>1. Orderly(v)
    BY <1>3, <1>9 DEF Images
  <2>2. v = w => /\ \A k \in OpsOn(dev, v) : dev.ops[k].status = "complete"
                 /\ \A u \in Threads : Makes(u, v) => u = t
    BY <1>0, <2>1 DEF Orderly, OneAtATime
  <2>3. OneAtATime(v)'
    <3>1. \A a, b \in OpsOn(dev, v)' : a < b => dev'.ops[a].status = "complete"
      <4>1. CASE v # w
        BY <1>2, <1>6, <2>1, <4>1 DEF Orderly, OneAtATime
      <4>2. CASE v = w
        <5> SUFFICES ASSUME NEW a \in OpsOn(dev, v)', NEW b \in OpsOn(dev, v)', a < b
                     PROVE  dev'.ops[a].status = "complete"
          OBVIOUS
        <5>1. a \in OpsOn(dev, v)
          BY <1>2, <1>6, <1>8, <4>2 DEF n
        <5>2. QED
          BY <1>2, <1>6, <2>2, <4>2, <5>1
      <4>3. QED
        BY <4>1, <4>2
    <3>2. \A u \in Threads : Makes(u, v)' =>
             \A a \in OpsOn(dev, v)' : dev'.ops[a].status = "complete"
      <4> SUFFICES ASSUME NEW u \in Threads, Makes(u, v)'
                   PROVE  \A a \in OpsOn(dev, v)' : dev'.ops[a].status = "complete"
        OBVIOUS
      <4>1. Makes(u, v) /\ u # t
        BY <1>7
      <4>2. v # w
        BY <2>2, <4>1
      <4>3. QED
        BY <1>2, <1>6, <2>1, <4>1, <4>2 DEF Orderly, OneAtATime
    <3>3. \A a, b \in Threads : Makes(a, v)' /\ Makes(b, v)' => a = b
      BY <1>7, <2>1 DEF Orderly, OneAtATime
    <3>4. QED
      BY <3>1, <3>2, <3>3 DEF OneAtATime
  <2>4. LateWriters(v)'
    <3> SUFFICES ASSUME NEW u \in Threads, Writes(u, v)'
                 PROVE  /\ dev'.ops[th'[u].at].status = "complete"
                        /\ \A j \in OpsOn(dev, v)' : j > th'[u].at =>
                               /\ dev'.ops[j].status = "in progress"
                               /\ dev'.ops[j].left >= InstallTime - th'[u].late
                        /\ \A x \in Threads : Makes(x, v)' =>
                               th'[x].op.left >= InstallTime - th'[u].late
      BY DEF LateWriters
    <3>1. Writes(u, v) /\ th'[u] = th[u] /\ th[u].at \in DOMAIN dev.ops
      BY <1>7
    <3>2. dev'.ops[th[u].at].status = "complete"
      BY <1>2, <2>1, <3>1 DEF Orderly, LateWriters
    <3>3. \A x \in Threads : Makes(x, v)' => th'[x].op.left >= InstallTime - th'[u].late
      BY <1>7, <2>1, <3>1 DEF Orderly, LateWriters
    <3>4. \A j \in OpsOn(dev, v) : j > th[u].at =>
             /\ dev'.ops[j].status = "in progress"
             /\ dev'.ops[j].left >= InstallTime - th[u].late
      BY <1>2, <1>6, <2>1, <3>1 DEF Orderly, LateWriters
    <3>5. v = w => /\ dev'.ops[n].status = "in progress"
                   /\ dev'.ops[n].left >= InstallTime - th[u].late
      BY <1>0, <1>2, <2>1, <3>1 DEF Orderly, LateWriters
    <3>6. QED
      BY <1>6, <3>1, <3>2, <3>3, <3>4, <3>5
  <2>5. WrittenOrWriting(v)'
    <3> SUFFICES ASSUME NEW k \in OpsOn(dev, v)', dev'.ops[k].status = "complete",
                        \A j \in OpsOn(dev, v)' : j <= k
                 PROVE  \/ dev'.image[v] = dev'.ops[k].version
                        \/ \E u \in Threads : Writes(u, v)' /\ th'[u].at = k
      BY DEF WrittenOrWriting
    <3>1. v # w
      <4> SUFFICES ASSUME v = w PROVE FALSE
        OBVIOUS
      <4>1. n \in OpsOn(dev, v)'
        BY <1>6
      <4>2. n <= k
        BY <4>1
      <4>3. k \notin DOMAIN dev.ops
        BY <1>2, <1>8, <4>2 DEF n
      <4>4. k = n
        BY <1>6, <4>3
      <4>5. QED
        BY <1>0, <1>2, <4>4
    <3>2. OpsOn(dev, v)' = OpsOn(dev, v) /\ dev'.ops[k] = dev.ops[k]
      BY <1>2, <1>6, <3>1
    <3>3. \/ dev.image[v] = dev.ops[k].version
          \/ \E u \in Threads : Writes(u, v) /\ th[u].at = k
      BY <2>1, <3>2 DEF Orderly, WrittenOrWriting
    <3>4. QED
      BY <1>3, <1>7, <3>2, <3>3
  <2>6. QED
    BY <2>3, <2>4, <2>5 DEF Orderly
<1>10. QED
  BY <1>9 DEF Images

\* A second passes: a late writer gets a second later as the younger install gets a
\* second nearer.
LEMMA ImagesTick ==
    ASSUME Inv, Images, Tick
    PROVE  Images'
<1>1. DOMAIN dev'.ops = DOMAIN dev.ops /\ dev'.image = dev.image
  BY TickType
<1>2. ASSUME NEW k \in DOMAIN dev.ops
      PROVE  /\ dev'.ops[k].volume = dev.ops[k].volume /\ dev'.ops[k].version = dev.ops[k].version
             /\ dev'.ops[k].status = dev.ops[k].status
             /\ dev'.ops[k].left \in Int /\ dev'.ops[k].left >= dev.ops[k].left - 1
  <2>1. dev.ops[k] \in Install /\ dev.ops[k].left \in Int
    BY ThreadFacts
  <2>2. Later(dev.ops[k].left) \in Int /\ Later(dev.ops[k].left) >= dev.ops[k].left - 1
    BY <2>1 DEF Later
  <2>3. CASE dev.ops[k].status # "in progress"
    <3>1. dev'.ops[k] = dev.ops[k]
      BY <2>3, TickType
    <3>2. QED
      BY <2>1, <3>1
  <2>4. CASE dev.ops[k].status = "in progress"
    <3>1. dev'.ops[k] = [dev.ops[k] EXCEPT !.left = Later(dev.ops[k].left)]
      BY <2>4, TickType
    <3>2. QED
      BY <2>1, <2>2, <3>1, InstallFields
  <2>5. QED
    BY <2>3, <2>4
<1>3. overlapped' = overlapped
  BY DEF Tick, History
<1>4. \A v \in Volumes : OpsOn(dev, v)' = OpsOn(dev, v) /\ OpsOn(dev, v) \subseteq DOMAIN dev.ops
  BY <1>1, <1>2 DEF OpsOn
<1>5. \A u \in Threads : /\ th'[u].pc = th[u].pc /\ th'[u].at = th[u].at
                         /\ th'[u].volume = th[u].volume
                         /\ At(u, "image") => th'[u].late = th[u].late + 1
                         /\ At(u, "append") => th'[u].op.left = Later(th[u].op.left)
  BY TickType DEF Settling, At
<1>6. \A u \in Threads, v \in Volumes : /\ Makes(u, v)' <=> Makes(u, v)
                                        /\ Writes(u, v)' <=> Writes(u, v)
  <2> SUFFICES ASSUME NEW u \in Threads, NEW v \in Volumes
               PROVE  (Makes(u, v)' <=> Makes(u, v)) /\ (Writes(u, v)' <=> Writes(u, v))
    OBVIOUS
  <2>1. At(u, "image") => th[u].at \in DOMAIN dev.ops
    BY ThreadFact
  <2>2. QED
    BY <1>2, <1>5, <2>1 DEF Makes, Writes, At
<1>7. \A a, b \in Int : a >= InstallTime - b => \A c \in Int : c >= a - 1 => c >= InstallTime - (b + 1)
  BY TimingAssumption
<1>8. ASSUME NEW v \in Volumes \ overlapped' PROVE Orderly(v)'
  <2>1. Orderly(v)
    BY <1>3, <1>8 DEF Images
  <2>2. OneAtATime(v)'
    BY <1>2, <1>4, <1>6, <2>1 DEF Orderly, OneAtATime
  <2>3. LateWriters(v)'
    <3> SUFFICES ASSUME NEW u \in Threads, Writes(u, v)
                 PROVE  /\ dev'.ops[th'[u].at].status = "complete"
                        /\ \A j \in OpsOn(dev, v) : j > th'[u].at =>
                               /\ dev'.ops[j].status = "in progress"
                               /\ dev'.ops[j].left >= InstallTime - th'[u].late
                        /\ \A x \in Threads : Makes(x, v) =>
                               th'[x].op.left >= InstallTime - th'[u].late
      BY <1>4, <1>6 DEF LateWriters
    <3>1. /\ th'[u].at = th[u].at /\ th'[u].late = th[u].late + 1 /\ th[u].late \in Int
          /\ th[u].at \in DOMAIN dev.ops
      BY <1>5, ThreadFact, ThreadsAssumption DEF Writes
    <3>2. dev'.ops[th'[u].at].status = "complete"
      BY <1>2, <2>1, <3>1, ZenonT(30) DEF Orderly, LateWriters
    <3>3. ASSUME NEW j \in OpsOn(dev, v), j > th'[u].at
          PROVE  dev'.ops[j].status = "in progress" /\ dev'.ops[j].left >= InstallTime - th'[u].late
      <4>1. /\ dev.ops[j].status = "in progress" /\ dev.ops[j].left >= InstallTime - th[u].late
        BY <2>1, <3>1, <3>3 DEF Orderly, LateWriters
      <4>2. j \in DOMAIN dev.ops /\ dev.ops[j].left \in Int
        BY <1>4, ThreadFacts
      <4>3. /\ dev'.ops[j].status = "in progress" /\ dev'.ops[j].left \in Int
            /\ dev'.ops[j].left >= dev.ops[j].left - 1
        BY <1>2, <4>1, <4>2
      <4>4. QED
        BY <1>7, <3>1, <4>1, <4>2, <4>3
    <3>4. ASSUME NEW x \in Threads, Makes(x, v)
          PROVE  th'[x].op.left >= InstallTime - th'[u].late
      <4>1. th[x].op.left \in Int /\ th[x].op.left >= InstallTime - th[u].late
        BY <2>1, <3>4, ThreadFact DEF Orderly, LateWriters
      <4>2. /\ th'[x].op.left = Later(th[x].op.left) /\ Later(th[x].op.left) \in Int
            /\ Later(th[x].op.left) >= th[x].op.left - 1
        BY <1>5, <3>4, <4>1 DEF Makes, Later
      <4>3. QED
        BY <1>7, <3>1, <4>1, <4>2
    <3>5. QED
      BY <3>2, <3>3, <3>4
  <2>4. WrittenOrWriting(v)'
    BY <1>1, <1>2, <1>4, <1>5, <1>6, <2>1 DEF Orderly, WrittenOrWriting
  <2>5. QED
    BY <2>2, <2>3, <2>4 DEF Orderly
<1>9. QED
  BY <1>8 DEF Images

LEMMA ImagesStep ==
    ASSUME MaxLate < InstallTime
    PROVE  Inv /\ Images /\ [Next]_vars => Images'
<1> SUFFICES ASSUME Inv, Images, [Next]_vars PROVE Images'
  OBVIOUS
<1>0. DevOK(dev) /\ th \in [Threads -> Thread]
  BY ThreadFacts
<1>1. ASSUME NEW t \in Threads, Step(t) PROVE Images'
  <2>1. th[t] \in Thread /\ {"settle", "first", "guard", "second", "clock", "act", "idle", "flip"}
                             \subseteq Steps
    BY <1>0 DEF Steps, Settling
  <2>2. CASE SettleOp(t)
    <3>1. CASE Goto(t, "image")
               /\ dev' = [dev EXCEPT !.ops[th[t].at].status = "complete", !.ops[th[t].at].left = 0]
      BY <2>2, <3>1, ImagesSettle
    <3>2. CASE th' = [th EXCEPT ![t].at = @ + 1] /\ UNCHANGED dev
      <4>1. th' = [th EXCEPT ![t] = [th[t] EXCEPT !.at = @ + 1]]
        BY <3>2
      <4>2. [th[t] EXCEPT !.at = @ + 1].pc = th[t].pc /\ th[t].pc = "settle"
        BY <2>1, <2>2 DEF Thread, SettleOp, At
      <4>3. UNCHANGED <<dev, overlapped>>
        BY <2>2, <3>2 DEF SettleOp, History
      <4>4. QED
        BY <4>1, <4>2, <4>3, ImagesElsewhere
    <3>3. QED
      BY <2>2, <3>1, <3>2 DEF SettleOp
  <2>3. CASE WriteImage(t)
    BY <2>3, ImagesWrite
  <2>4. CASE ClaimReboot(t)
    <3>1. dev'.ops = dev.ops /\ dev'.image = dev.image /\ overlapped' = overlapped
      BY <1>0, <2>4 DEF ClaimReboot, DevOK, Object
    <3>2. Leave(t, "first") \/ Leave(t, "guard")
      BY <2>4 DEF ClaimReboot
    <3>3. th[t].pc = "settle"
      BY <2>4 DEF ClaimReboot, At
    <3>4. QED
      BY <2>1, <3>1, <3>2, <3>3, Moves, ImagesElsewhere
  <2>5. CASE LookFirst(t) \/ LookSecond(t)
    <3>1. dev'.ops = dev.ops /\ dev'.image = dev.image /\ overlapped' = overlapped
      BY <1>0, <2>5 DEF LookFirst, LookSecond, BootFrom, History, DevOK, Object
    <3>2. Goto(t, "second") \/ Goto(t, "guard") \/ Reply(t)
      BY <2>5 DEF LookFirst, LookSecond, BootFrom
    <3>3. th[t].pc \notin {"image", "append"}
      BY <2>5 DEF LookFirst, LookSecond, At
    <3>4. QED
      BY <2>1, <3>1, <3>2, <3>3, Moves, ImagesElsewhere
  <2>6. CASE Guard(t) \/ Clock(t) \/ Answer(t) \/ OpenWindow(t)
    <3>1. dev'.ops = dev.ops /\ dev'.image = dev.image /\ overlapped' = overlapped
      BY <1>0, <2>6 DEF Guard, Clock, Answer, OpenWindow, History, DevOK, Object
    <3>2. Goto(t, "clock") \/ Goto(t, "act") \/ Reply(t)
      BY <2>6 DEF Guard, Clock, Answer, OpenWindow
    <3>3. th[t].pc \notin {"image", "append"}
      BY <2>6 DEF Guard, Clock, Answer, OpenWindow, Acts, At
    <3>4. QED
      BY <2>1, <3>1, <3>2, <3>3, Moves, ImagesElsewhere
  <2>7. CASE FlipFirst(t) \/ FlipSecond(t)
    <3>1. dev'.ops = dev.ops /\ dev'.image = dev.image /\ overlapped' = overlapped
      BY <1>0, <2>7 DEF FlipFirst, FlipSecond, History, DevOK, Object
    <3>2. Goto(t, "flip") \/ Reply(t)
      BY <2>7 DEF FlipFirst, FlipSecond
    <3>3. th[t].pc \notin {"image", "append"}
      BY <2>7 DEF FlipFirst, FlipSecond, Acts, At
    <3>4. QED
      BY <2>1, <3>1, <3>2, <3>3, Moves, ImagesElsewhere
  <2>8. CASE MakeOperation(t)
    BY <2>8, ImagesMake
  <2>9. CASE AppendOperation(t)
    BY <2>9, ImagesAppend
  <2>10. QED
    BY <1>1, <2>2, <2>3, <2>4, <2>5, <2>6, <2>7, <2>8, <2>9 DEF Step
<1>2. ASSUME NEW t \in Threads, NEW r, Request(t, r) PROVE Images'
  <2> DEFINE rec == [IdleThread EXCEPT !.pc = "settle", !.kind = r.kind,
                                       !.volume = r.volume, !.version = r.version]
  <2>1. rec.pc = "settle" /\ th' = [th EXCEPT ![t] = rec]
    BY <1>2 DEF IdleThread, Request
  <2>2. th[t].pc = "idle" /\ dev' = dev /\ overlapped' = overlapped
    BY <1>2 DEF Request, At, History
  <2> HIDE DEF rec
  <2>3. QED
    BY <2>1, <2>2, ImagesElsewhere
<1>3. CASE Tick
  BY <1>3, ImagesTick
<1>4. CASE UNCHANGED vars
  <2>1. dev' = dev /\ th' = th /\ overlapped' = overlapped
    BY <1>4 DEF vars
  <2>2. \A u \in Threads, v \in Volumes : /\ Writes(u, v)' <=> Writes(u, v)
                                          /\ Makes(u, v)' <=> Makes(u, v)
    BY <2>1 DEF Writes, Makes, At
  <2>3. ASSUME NEW v \in Volumes \ overlapped' PROVE Orderly(v)'
    <3>1. Orderly(v) /\ OpsOn(dev, v)' = OpsOn(dev, v)
      BY <2>1, <2>3 DEF Images
    <3>2. OneAtATime(v)'
      BY <2>1, <2>2, <3>1 DEF Orderly, OneAtATime
    <3>3. LateWriters(v)'
      BY <2>1, <2>2, <3>1 DEF Orderly, LateWriters
    <3>4. WrittenOrWriting(v)'
      BY <2>1, <2>2, <3>1 DEF Orderly, WrittenOrWriting
    <3>5. QED
      BY <3>2, <3>3, <3>4 DEF Orderly
  <2>4. QED
    BY <2>3 DEF Images
<1>5. QED
  BY <1>1, <1>2, <1>3, <1>4 DEF Next, Poll

LEMMA ImagesSettled == Inv /\ Images => InstalledAtRest
<1> SUFFICES ASSUME Inv, Images, NEW v \in Volumes \ overlapped,
                    OpsOn(dev, v) # {}, VolumeStatus(dev, v) = "complete",
                    \A t \in Threads : At(t, "image") => dev.ops[th[t].at].volume # v
             PROVE  dev.image[v] = dev.ops[Newest(OpsOn(dev, v))].version
  BY DEF InstalledAtRest
<1>1. OpsOn(dev, v) \in SUBSET (1..Len(dev.ops)) /\ Len(dev.ops) \in Nat
  BY ListFact DEF OpsOn
<1>2. /\ Newest(OpsOn(dev, v)) \in OpsOn(dev, v)
      /\ \A j \in OpsOn(dev, v) : j <= Newest(OpsOn(dev, v))
  BY <1>1, NewestIsLast
<1>3. dev.ops[Newest(OpsOn(dev, v))].status = "complete"
  BY DEF VolumeStatus
<1>4. WrittenOrWriting(v)
  BY DEF Images, Orderly
<1>5. QED
  BY <1>2, <1>3, <1>4 DEF WrittenOrWriting, Writes

\* However the threads interleave: once the newest install of a volume is complete and
\* nobody is about to write the volume's image, the image is that install's version, on
\* every volume where installs have not overlapped, if advance() is quicker than an install.
THEOREM InstallsSurviveLateThreads ==
    ASSUME MaxLate < InstallTime
    PROVE  Spec => []InstalledAtRest
<1>1. Init => Images
  BY DEF Init, Images, Orderly, OneAtATime, LateWriters, WrittenOrWriting, Writes, Makes, At,
         OpsOn, IdleThread
<1>2. Inv /\ Images /\ [Next]_vars => Images'
  BY ImagesStep
<1>3. QED
  BY SpecInv, <1>1, <1>2, ImagesSettled, PTL DEF Spec
=============================================================================
