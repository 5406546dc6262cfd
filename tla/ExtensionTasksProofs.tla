------------------------ MODULE ExtensionTasksProofs ------------------------
(***************************************************************************)
(* Theorems of ExtensionTasks, for any number of clients and tasks.        *)
(***************************************************************************)
EXTENDS ExtensionTasks, DeviceStateProofs

----------------------------------------------------------------------------
(***************************************************************************)
(* The device that the instance of MockDevice talks about is this one.     *)
(***************************************************************************)
LEMMA SameNewest == \A I : Mock!Newest(I) = Newest(I)
BY DEF Mock!Newest, Newest

LEMMA SameSettleInstalls ==
  ASSUME NEW d PROVE Mock!SettleInstalls(d) = SettleInstalls(d)
BY SameNewest
   DEF Mock!SettleInstalls, SettleInstalls, Mock!DueOps, DueOps, Mock!Installed, Installed,
       Mock!Volumes, Volumes

LEMMA SameSettleReboot ==
  ASSUME NEW d PROVE Mock!SettleReboot(d) = SettleReboot(d)
BY DEF Mock!SettleReboot, SettleReboot, Mock!Boot, Boot, Mock!ActiveVolume, ActiveVolume,
       Mock!NoReboot, NoReboot

LEMMA SameSettleDo ==
  ASSUME NEW d PROVE Mock!SettleDo(d) = SettleDo(d)
BY SameNewest DEF Mock!SettleDo, SettleDo, Mock!DueDo, DueDo, Mock!AppliedDo, AppliedDo

LEMMA SameSettleAs3 ==
  ASSUME NEW d PROVE Mock!SettleAs3(d) = SettleAs3(d)
BY SameNewest DEF Mock!SettleAs3, SettleAs3, Mock!DueAs3, DueAs3, Mock!AppliedAs3, AppliedAs3

LEMMA SameAdvance == ASSUME NEW d PROVE Mock!Advance(d) = Advance(d)
BY SameSettleInstalls, SameSettleReboot, SameSettleDo, SameSettleAs3 DEF Mock!Advance, Advance

LEMMA SameElapse == ASSUME NEW d PROVE Mock!Elapse(d) = Elapse(d)
BY DEF Mock!Elapse, Elapse, Mock!Less, Less

LEMMA SameFresh == ASSUME NEW version PROVE Mock!FreshWith(version) = FreshWith(version)
BY DEF Mock!FreshWith, FreshWith, Mock!Volumes, Volumes, Mock!NoReboot, NoReboot

LEMMA SameReboot == ASSUME NEW d PROVE Mock!StartReboot(d) = StartReboot(d)
BY DEF Mock!StartReboot, StartReboot

\* The steps that the instance takes, in terms of the operators of this module.
LEMMA MockSteps ==
  /\ Query => dev' = Advance(dev) /\ UNCHANGED awaiting
  /\ UtilBashReboot => dev' = StartReboot(Advance(dev)) /\ UNCHANGED awaiting
  /\ Chaos => /\ \/ \E flag \in Injected : dev' = [dev EXCEPT !.chaos = @ \cup {flag}]
                 \/ dev' = [dev EXCEPT !.chaos = {}]
                 \/ dev' = FreshWith("16.1.3")
              /\ UNCHANGED awaiting
  /\ Tick => dev' = Elapse(dev) /\ UNCHANGED awaiting
<1>1. Query => dev' = Advance(dev) /\ UNCHANGED awaiting
  BY SameAdvance DEF Query, Mock!Query
<1>2. UtilBashReboot => dev' = StartReboot(Advance(dev)) /\ UNCHANGED awaiting
  BY SameAdvance, SameReboot DEF UtilBashReboot, Mock!UtilBashReboot
<1>3. Chaos => /\ \/ \E flag \in Injected : dev' = [dev EXCEPT !.chaos = @ \cup {flag}]
                  \/ dev' = [dev EXCEPT !.chaos = {}]
                  \/ dev' = FreshWith("16.1.3")
               /\ UNCHANGED awaiting
  BY SameFresh DEF Chaos, Mock!Chaos, Mock!ChaosSet, Mock!ChaosReset, Mock!ChaosResetDevice
<1>4. Tick => dev' = Elapse(dev) /\ UNCHANGED awaiting
  BY SameElapse DEF Tick, Mock!Tick
<1>5. QED
  BY <1>1, <1>2, <1>3, <1>4

----------------------------------------------------------------------------
(***************************************************************************)
(* Types.                                                                  *)
(***************************************************************************)
LEMMA StartDoType ==
  ASSUME NEW d \in Device, NEW x \in Declarations PROVE StartDoTask(d, x) \in Device
<1> DEFINE task == [declaration |-> x, left |-> DoTaskTime,
                    willFail |-> "fail_next_do" \in d.chaos \/ x \in BadHostname,
                    status |-> "RUNNING"]
<1>1. task \in DOTask
  BY TimingAssumption DEF DOTask
<1> HIDE DEF task
<1>2. Append(d.doTasks, task) \in Seq(DOTask)
  BY <1>1 DEF Device
<1>3. d.chaos \ {"fail_next_do"} \in SUBSET Flags
  BY DEF Device
<1>4. StartDoTask(d, x) = [d EXCEPT !.doTasks = Append(d.doTasks, task),
                                    !.chaos = d.chaos \ {"fail_next_do"}]
  BY DEF StartDoTask, task
<1> DEFINE one == [d EXCEPT !.doTasks = Append(d.doTasks, task)]
<1>5. one \in Device
  BY <1>2 DEF Device
<1> HIDE DEF one
<1>6. [one EXCEPT !.chaos = d.chaos \ {"fail_next_do"}] \in Device
  BY <1>3, <1>5 DEF Device
<1>7. QED
  BY <1>4, <1>6 DEF one

LEMMA StartAs3Type ==
  ASSUME NEW d \in Device, NEW t \in Tenants, NEW x \in Declarations
  PROVE  StartAs3Task(d, t, x) \in Device
<1> DEFINE task == [tenant |-> t, declaration |-> x, left |-> As3TaskTime,
                    willFail |-> "fail_next_as3" \in d.chaos, code |-> 0]
<1>1. task \in AS3Task
  BY TimingAssumption DEF AS3Task
<1> HIDE DEF task
<1>2. Append(d.as3Tasks, task) \in Seq(AS3Task)
  BY <1>1 DEF Device
<1>3. d.chaos \ {"fail_next_as3"} \in SUBSET Flags
  BY DEF Device
<1>4. StartAs3Task(d, t, x) = [d EXCEPT !.as3Tasks = Append(d.as3Tasks, task),
                                        !.chaos = d.chaos \ {"fail_next_as3"}]
  BY DEF StartAs3Task, task
<1> DEFINE one == [d EXCEPT !.as3Tasks = Append(d.as3Tasks, task)]
<1>5. one \in Device
  BY <1>2 DEF Device
<1> HIDE DEF one
<1>6. [one EXCEPT !.chaos = d.chaos \ {"fail_next_as3"}] \in Device
  BY <1>3, <1>5 DEF Device
<1>7. QED
  BY <1>4, <1>6 DEF one

\* The request behind a body: it has a declaration, and an AS3 one a tenant.
LEMMA Awaited ==
  ASSUME TypeOK, NEW c \in Clients
  PROVE  /\ awaiting[c].post = "do" => awaiting[c].declaration \in Declarations
         /\ awaiting[c].post = "as3" => /\ awaiting[c].declaration \in Declarations
                                        /\ awaiting[c].tenant \in Tenants
<1>1. \/ awaiting[c] = Nothing
      \/ awaiting[c] \in [post : {"do"}, declaration : Declarations]
      \/ awaiting[c] \in [post : {"as3"}, declaration : Declarations, tenant : Tenants]
  BY DEF TypeOK, Posts
<1>2. Nothing.post = "none"
  BY DEF Nothing
<1>3. QED
  BY <1>1, <1>2

\* What the device becomes in a step.
Successors ==
    {Advance(dev), StartReboot(Advance(dev)), Elapse(dev), FreshWith("16.1.3"), dev}
    \cup {StartDoTask(dev, x) : x \in Declarations}
    \cup {StartAs3Task(dev, p[1], p[2]) : p \in Tenants \X Declarations}
    \cup {[dev EXCEPT !.chaos = f] : f \in SUBSET Flags}

LEMMA DeviceSteps ==
  ASSUME TypeOK, [Next]_vars
  PROVE  dev' \in Successors /\ awaiting' \in [Clients -> Posts]
<1>0. dev \in Device /\ awaiting \in [Clients -> Posts] /\ Nothing \in Posts
  BY DEF TypeOK, Posts
<1>1. ASSUME NEW c \in Clients, NEW r \in Posts, Admit(c, r)
      PROVE  dev' \in Successors /\ awaiting' \in [Clients -> Posts]
  BY <1>0, <1>1 DEF Admit, Successors
<1>2. ASSUME NEW c \in Clients, NEW x \in Declarations, DoPost(c, x)
      PROVE  dev' \in Successors /\ awaiting' \in [Clients -> Posts]
  <2>1. [post |-> "do", declaration |-> x] \in Posts
    BY DEF Posts
  <2>2. QED
    BY <1>1, <1>2, <2>1 DEF DoPost
<1>3. ASSUME NEW c \in Clients, NEW t \in Tenants, NEW x \in Declarations, As3Post(c, t, x)
      PROVE  dev' \in Successors /\ awaiting' \in [Clients -> Posts]
  <2>1. [post |-> "as3", declaration |-> x, tenant |-> t] \in Posts
    BY DEF Posts
  <2>2. QED
    BY <1>1, <1>3, <2>1 DEF As3Post
<1>4. ASSUME NEW c \in Clients, DoBody(c)
      PROVE  dev' \in Successors /\ awaiting' \in [Clients -> Posts]
  <2>1. awaiting[c].declaration \in Declarations
    BY <1>4, Awaited DEF DoBody
  <2>2. QED
    BY <1>0, <1>4, <2>1 DEF DoBody, Successors
<1>5. ASSUME NEW c \in Clients, As3Body(c)
      PROVE  dev' \in Successors /\ awaiting' \in [Clients -> Posts]
  <2> DEFINE p == <<awaiting[c].tenant, awaiting[c].declaration>>
  <2>1. p \in Tenants \X Declarations
    BY <1>5, Awaited DEF As3Body
  <2>2. dev' = StartAs3Task(dev, p[1], p[2])
    BY <1>5 DEF As3Body
  <2> HIDE DEF p
  <2>3. dev' \in Successors
    BY <2>1, <2>2 DEF Successors
  <2>4. QED
    BY <1>0, <1>5, <2>3 DEF As3Body
<1>6. ASSUME NEW c \in Clients, Refuse(c)
      PROVE  dev' \in Successors /\ awaiting' \in [Clients -> Posts]
  BY <1>0, <1>6 DEF Refuse, Successors
<1>7. CASE Query \/ UtilBashReboot \/ Tick
  BY <1>0, <1>7, MockSteps DEF Successors
<1>8. CASE Chaos
  <2>1. \A flag \in Injected : dev.chaos \cup {flag} \in SUBSET Flags
    BY <1>0, TasksAssumption DEF Device
  <2>2. \/ \E flag \in Injected : dev' = [dev EXCEPT !.chaos = dev.chaos \cup {flag}]
        \/ dev' = [dev EXCEPT !.chaos = {}]
        \/ dev' = FreshWith("16.1.3")
    BY <1>8, MockSteps
  <2>3. dev' \in Successors
    BY <2>1, <2>2 DEF Successors
  <2>4. QED
    BY <1>0, <1>8, <2>3, MockSteps
<1>9. CASE UNCHANGED vars
  BY <1>0, <1>9 DEF vars, Successors
<1>10. QED
  BY <1>2, <1>3, <1>4, <1>5, <1>6, <1>7, <1>8, <1>9 DEF Next

LEMMA TypeStep == TypeOK /\ [Next]_vars => TypeOK'
<1> SUFFICES ASSUME TypeOK, [Next]_vars PROVE TypeOK'
  OBVIOUS
<1>0. dev \in Device
  BY DEF TypeOK
<1>1. dev' \in Successors /\ awaiting' \in [Clients -> Posts]
  BY DeviceSteps
<1>2. \A x \in Declarations : StartDoTask(dev, x) \in Device
  BY <1>0, StartDoType
<1>3. \A p \in Tenants \X Declarations : StartAs3Task(dev, p[1], p[2]) \in Device
  BY <1>0, StartAs3Type
<1>4. \A f \in SUBSET Flags : [dev EXCEPT !.chaos = f] \in Device
  BY <1>0 DEF Device
<1>5. /\ Advance(dev) \in Device /\ StartReboot(Advance(dev)) \in Device
      /\ Elapse(dev) \in Device /\ FreshWith("16.1.3") \in Device
  BY <1>0, AdvanceType, StartRebootType, ElapseType, FreshWithType, VersionsAssumption
<1>6. QED
  BY <1>0, <1>1, <1>2, <1>3, <1>4, <1>5 DEF TypeOK, Successors

\* The device and the requests that await their bodies keep their types.
THEOREM TasksTypeCorrect == Spec => []TypeOK
<1>1. Init => TypeOK
  BY FreshWithType, VersionsAssumption DEF Init, TypeOK, Fresh, Posts
<1>2. QED
  BY <1>1, TypeStep, PTL DEF Spec

----------------------------------------------------------------------------
(***************************************************************************)
(* DO tasks settle in the order in which they were started.               *)
(***************************************************************************)
OpenDo(d) == {i \in DOMAIN d.doTasks : d.doTasks[i].status = "RUNNING"}

DoInOrder(d) ==
    \A i \in OpenDo(d), j \in DOMAIN d.doTasks : i < j =>
        j \in OpenDo(d) /\ d.doTasks[i].left <= d.doTasks[j].left

DoWithin(d) == \A i \in DOMAIN d.doTasks : d.doTasks[i].left <= DoTaskTime

GoodDo(d) == {i \in DOMAIN d.doTasks : d.doTasks[i].status = "OK"}

DoIsLast(d) ==
    d.doState = IF GoodDo(d) = {} THEN NoDeclaration ELSE d.doTasks[Newest(GoodDo(d))].declaration

DoKept(d) == DoInOrder(d) /\ DoWithin(d) /\ DoIsLast(d)

LEMMA DoTaskTypes ==
  ASSUME NEW d \in Device
  PROVE  /\ d.doTasks \in Seq(DOTask)
         /\ DOMAIN d.doTasks = 1..Len(d.doTasks) /\ Len(d.doTasks) \in Nat
         /\ \A i \in DOMAIN d.doTasks : /\ d.doTasks[i] \in DOTask
                                        /\ d.doTasks[i].left \in Nat
<1>1. d.doTasks \in Seq(DOTask)
  BY DEF Device
<1>2. DOMAIN d.doTasks = 1..Len(d.doTasks) /\ Len(d.doTasks) \in Nat
  BY <1>1
<1>3. \A i \in DOMAIN d.doTasks : d.doTasks[i] \in DOTask
  BY <1>1
<1>4. \A i \in DOMAIN d.doTasks : d.doTasks[i].left \in Nat
  BY <1>3 DEF DOTask
<1>5. QED
  BY <1>1, <1>2, <1>3, <1>4

\* Devices with the same tasks and the same result agree on what is kept.
LEMMA DoSame ==
  ASSUME NEW d \in Device, NEW e \in Device, DoKept(d), e.doTasks = d.doTasks, e.doState = d.doState
  PROVE  DoKept(e)
BY DEF DoKept, DoInOrder, DoWithin, DoIsLast, OpenDo, GoodDo

\* A device without tasks and without a declaration.
LEMMA DoNothing ==
  ASSUME NEW d \in Device, d.doTasks = << >>, d.doState = NoDeclaration
  PROVE  DoKept(d)
BY DEF DoKept, DoInOrder, DoWithin, DoIsLast, OpenDo, GoodDo

\* advance() changes nothing of a task but its status, and that when it is due.
LEMMA DoSettled ==
  ASSUME NEW d \in Device
  PROVE  /\ DOMAIN Advance(d).doTasks = DOMAIN d.doTasks
         /\ \A i \in DOMAIN d.doTasks :
              /\ Advance(d).doTasks[i].left = d.doTasks[i].left
              /\ Advance(d).doTasks[i].declaration = d.doTasks[i].declaration
              /\ Advance(d).doTasks[i].status =
                   IF i \in DueDo(d)
                     THEN IF d.doTasks[i].willFail THEN "ERROR" ELSE "OK"
                     ELSE d.doTasks[i].status
         /\ Advance(d).doState = IF AppliedDo(d) = {} THEN d.doState
                               ELSE d.doTasks[Newest(AppliedDo(d))].declaration
<1> DEFINE o == [i \in DOMAIN d.doTasks |->
                   IF i \notin DueDo(d) THEN d.doTasks[i]
                   ELSE [d.doTasks[i] EXCEPT !.status =
                           IF d.doTasks[i].willFail THEN "ERROR" ELSE "OK"]]
           e == SettleReboot(SettleInstalls(d))
<1>a. e \in Device /\ e.doTasks = d.doTasks /\ e.doState = d.doState
  <2>1. SettleInstalls(d) \in Device
    BY SettleInstallsType
  <2>2. SettleInstalls(d).doTasks = d.doTasks /\ SettleInstalls(d).doState = d.doState
    BY DEF SettleInstalls, Device
  <2>3. \A f \in Device : SettleReboot(f).doTasks = f.doTasks /\ SettleReboot(f).doState = f.doState
    BY DEF SettleReboot, Boot, Device
  <2>4. QED
    BY <2>1, <2>2, <2>3, SettleRebootType
<1>b. \A f \in Device : SettleAs3(f).doTasks = f.doTasks /\ SettleAs3(f).doState = f.doState
  BY DEF SettleAs3, Device
<1>c. Advance(d) = SettleAs3(SettleDo(e)) /\ SettleDo(e) \in Device
  BY <1>a, SettleDoType DEF Advance
<1> HIDE DEF e
<1>d. DueDo(e) = DueDo(d) /\ AppliedDo(e) = AppliedDo(d)
  BY <1>a DEF DueDo, AppliedDo
<1>1. /\ Advance(d).doTasks = o
      /\ Advance(d).doState = IF AppliedDo(d) = {} THEN d.doState
                              ELSE d.doTasks[Newest(AppliedDo(d))].declaration
  <2>1. SettleDo(e).doTasks = o
    BY <1>a, <1>d DEF SettleDo, Device
  <2>2. SettleDo(e).doState = IF AppliedDo(d) = {} THEN d.doState
                              ELSE d.doTasks[Newest(AppliedDo(d))].declaration
    BY <1>a, <1>d DEF SettleDo, Device
  <2>3. QED
    BY <1>b, <1>c, <2>1, <2>2
<1>2. DOMAIN o = DOMAIN d.doTasks
  OBVIOUS
<1>3. ASSUME NEW i \in DOMAIN d.doTasks
      PROVE  /\ o[i].left = d.doTasks[i].left
             /\ o[i].declaration = d.doTasks[i].declaration
             /\ o[i].status = IF i \in DueDo(d)
                              THEN IF d.doTasks[i].willFail THEN "ERROR" ELSE "OK"
                              ELSE d.doTasks[i].status
  <2>1. d.doTasks[i] \in DOTask
    BY DoTaskTypes
  <2>2. CASE i \notin DueDo(d)
    BY <2>2
  <2>3. CASE i \in DueDo(d)
    BY <2>1, <2>3 DEF DOTask
  <2>4. QED
    BY <2>2, <2>3
<1> HIDE DEF o
<1>4. QED
  BY <1>1, <1>2, <1>3

LEMMA DoAdvanceKept ==
  ASSUME NEW d \in Device, DoKept(d) PROVE DoKept(Advance(d))
<1> DEFINE a == Advance(d)
<1>0. OpenDo(a) = OpenDo(d) \ DueDo(d) /\ DueDo(d) \subseteq OpenDo(d)
  BY DoSettled DEF OpenDo, DueDo
<1>1. DoWithin(a)
  BY DoSettled DEF DoKept, DoWithin
<1>2. ASSUME NEW i \in OpenDo(a), NEW j \in DOMAIN a.doTasks, i < j
      PROVE  j \in OpenDo(a) /\ a.doTasks[i].left <= a.doTasks[j].left
  <2>1. i \in OpenDo(d) \ DueDo(d) /\ i \in DOMAIN d.doTasks /\ j \in DOMAIN d.doTasks
    BY <1>0, DoSettled DEF OpenDo
  <2>2. j \in OpenDo(d) /\ d.doTasks[i].left <= d.doTasks[j].left
    BY <1>2, <2>1 DEF DoKept, DoInOrder
  <2>3. d.doTasks[i].left # 0
    BY <2>1 DEF OpenDo, DueDo
  <2>4. d.doTasks[i].left \in Nat /\ d.doTasks[j].left \in Nat
    BY <2>1, DoTaskTypes
  <2>5. d.doTasks[j].left # 0
    BY <2>2, <2>3, <2>4
  <2>6. j \notin DueDo(d)
    BY <2>5 DEF DueDo
  <2>7. QED
    BY <1>0, <2>1, <2>2, <2>6, DoSettled
<1>3. Len(d.doTasks) \in Nat /\ DOMAIN d.doTasks = 1..Len(d.doTasks)
  BY DoTaskTypes
<1>4. GoodDo(a) = GoodDo(d) \cup AppliedDo(d)
  BY DoSettled DEF GoodDo, AppliedDo, DueDo
<1>5. GoodDo(d) \in SUBSET (1..Len(d.doTasks)) /\ AppliedDo(d) \in SUBSET (1..Len(d.doTasks))
  BY <1>3 DEF GoodDo, AppliedDo, DueDo
<1>6. \A g \in GoodDo(d), i \in AppliedDo(d) : g < i
  <2> SUFFICES ASSUME NEW g \in GoodDo(d), NEW i \in AppliedDo(d) PROVE g < i
    OBVIOUS
  <2>1. i \in OpenDo(d) /\ g \in DOMAIN d.doTasks /\ g \notin OpenDo(d)
    BY DEF AppliedDo, DueDo, OpenDo, GoodDo
  <2>2. ~(i < g) /\ i # g
    BY <2>1 DEF DoKept, DoInOrder
  <2>3. i \in Nat /\ g \in Nat
    BY <1>5
  <2>4. QED
    BY <2>2, <2>3
<1>7. DoIsLast(a)
  <2>1. CASE AppliedDo(d) = {}
    <3>1. GoodDo(a) = GoodDo(d) /\ a.doState = d.doState
      BY <1>4, <2>1, DoSettled
    <3>2. GoodDo(d) # {} => Newest(GoodDo(d)) \in DOMAIN d.doTasks
      BY <1>3, <1>5, NewestIsLast
    <3>3. QED
      BY <3>1, <3>2, DoSettled DEF DoKept, DoIsLast
  <2>2. CASE AppliedDo(d) # {}
    <3>1. Newest(GoodDo(d) \cup AppliedDo(d)) = Newest(AppliedDo(d))
      BY <1>3, <1>5, <1>6, <2>2, NewestOfBoth
    <3>2. Newest(AppliedDo(d)) \in DOMAIN d.doTasks
      BY <1>3, <1>5, <2>2, NewestIsLast
    <3>3. a.doState = d.doTasks[Newest(AppliedDo(d))].declaration
      BY <2>2, DoSettled
    <3>4. GoodDo(a) # {} /\ Newest(GoodDo(a)) = Newest(AppliedDo(d))
      BY <1>4, <2>2, <3>1
    <3>5. QED
      BY <3>2, <3>3, <3>4, DoSettled DEF DoIsLast
  <2>3. QED
    BY <2>1, <2>2
<1>8. QED
  BY <1>1, <1>2, <1>7 DEF DoKept, DoInOrder

\* A second changes nothing of a task but the time it has left.
LEMMA DoElapsed ==
  ASSUME NEW d \in Device
  PROVE  /\ DOMAIN Elapse(d).doTasks = DOMAIN d.doTasks /\ Elapse(d).doState = d.doState
         /\ \A i \in DOMAIN d.doTasks :
              /\ Elapse(d).doTasks[i].left = Less(d.doTasks[i].left)
              /\ Elapse(d).doTasks[i].declaration = d.doTasks[i].declaration
              /\ Elapse(d).doTasks[i].status = d.doTasks[i].status
<1> DEFINE o == [i \in DOMAIN d.doTasks |-> [d.doTasks[i] EXCEPT !.left = Less(@)]]
<1>1. Elapse(d).doTasks = o /\ Elapse(d).doState = d.doState
  BY DEF Elapse, Device
<1>2. DOMAIN o = DOMAIN d.doTasks
  OBVIOUS
<1>3. ASSUME NEW i \in DOMAIN d.doTasks
      PROVE  /\ o[i].left = Less(d.doTasks[i].left)
             /\ o[i].declaration = d.doTasks[i].declaration
             /\ o[i].status = d.doTasks[i].status
  <2>1. d.doTasks[i] \in DOTask
    BY DoTaskTypes
  <2>2. QED
    BY <2>1 DEF DOTask
<1> HIDE DEF o
<1>4. QED
  BY <1>1, <1>2, <1>3

LEMMA DoElapseKept ==
  ASSUME NEW d \in Device, DoKept(d) PROVE DoKept(Elapse(d))
<1> DEFINE e == Elapse(d)
<1>1. \A m, n \in Nat : m <= n => Less(m) <= Less(n)
  BY DEF Less
<1>2. \A m \in Nat : Less(m) <= m /\ Less(m) \in Nat
  BY DEF Less
<1>3. OpenDo(e) = OpenDo(d)
  BY DoElapsed DEF OpenDo
<1>4. DoWithin(e)
  <2> SUFFICES ASSUME NEW i \in DOMAIN d.doTasks PROVE e.doTasks[i].left <= DoTaskTime
    BY DoElapsed DEF DoWithin
  <2>1. d.doTasks[i].left \in Nat /\ d.doTasks[i].left <= DoTaskTime
    BY DoTaskTypes DEF DoKept, DoWithin
  <2>2. Less(d.doTasks[i].left) \in Nat /\ Less(d.doTasks[i].left) <= d.doTasks[i].left
    BY <1>2, <2>1
  <2>3. QED
    BY <2>1, <2>2, DoElapsed, TimingAssumption
<1>5. ASSUME NEW i \in OpenDo(e), NEW j \in DOMAIN e.doTasks, i < j
      PROVE  j \in OpenDo(e) /\ e.doTasks[i].left <= e.doTasks[j].left
  <2>1. i \in OpenDo(d) /\ i \in DOMAIN d.doTasks /\ j \in DOMAIN d.doTasks
    BY <1>3, DoElapsed DEF OpenDo
  <2>2. j \in OpenDo(d) /\ d.doTasks[i].left <= d.doTasks[j].left
    BY <1>5, <2>1 DEF DoKept, DoInOrder
  <2>3. d.doTasks[i].left \in Nat /\ d.doTasks[j].left \in Nat
    BY <2>1, DoTaskTypes
  <2>4. Less(d.doTasks[i].left) <= Less(d.doTasks[j].left)
    BY <1>1, <2>2, <2>3
  <2>5. QED
    BY <1>3, <2>1, <2>2, <2>4, DoElapsed
<1>6. GoodDo(e) = GoodDo(d) /\ (GoodDo(d) # {} => Newest(GoodDo(d)) \in DOMAIN d.doTasks)
  <2>1. GoodDo(e) = GoodDo(d)
    BY DoElapsed DEF GoodDo
  <2>2. GoodDo(d) \in SUBSET (1..Len(d.doTasks)) /\ Len(d.doTasks) \in Nat
    BY DoTaskTypes DEF GoodDo
  <2>3. QED
    BY <2>1, <2>2, NewestIsLast DEF GoodDo
<1>7. DoIsLast(e)
  BY <1>6, DoElapsed DEF DoKept, DoIsLast
<1>8. QED
  BY <1>4, <1>5, <1>7 DEF DoKept, DoInOrder

\* A new task is due last, and has not been applied.
LEMMA DoStartKept ==
  ASSUME NEW d \in Device, NEW x \in Declarations, DoKept(d)
  PROVE  DoKept(StartDoTask(d, x))
<1> DEFINE s == StartDoTask(d, x)
           n == Len(d.doTasks)
           task == [declaration |-> x, left |-> DoTaskTime,
                    willFail |-> "fail_next_do" \in d.chaos \/ x \in BadHostname,
                    status |-> "RUNNING"]
<1>1. s.doTasks = Append(d.doTasks, task) /\ s.doState = d.doState
  BY DEF StartDoTask, Device
<1>2. n \in Nat /\ DOMAIN d.doTasks = 1..n /\ d.doTasks \in Seq(DOTask)
  BY DoTaskTypes
<1>3. task.left = DoTaskTime /\ task.status = "RUNNING"
  OBVIOUS
<1> HIDE DEF s, task
<1>4. /\ DOMAIN s.doTasks = 1..(n + 1) /\ s.doTasks[n + 1] = task
      /\ \A i \in 1..n : s.doTasks[i] = d.doTasks[i]
  BY <1>1, <1>2
<1> HIDE DEF n
<1>5. \A i \in 1..(n + 1) : i \in 1..n \/ i = n + 1
  BY <1>2
<1>6. DoWithin(s)
  <2> SUFFICES ASSUME NEW i \in 1..(n + 1) PROVE s.doTasks[i].left <= DoTaskTime
    BY <1>4 DEF DoWithin
  <2>1. CASE i \in 1..n
    BY <1>2, <1>4, <2>1 DEF DoKept, DoWithin
  <2>2. CASE i = n + 1
    BY <1>3, <1>4, <2>2, TimingAssumption
  <2>3. QED
    BY <1>5, <2>1, <2>2
<1>7. ASSUME NEW i \in OpenDo(s), NEW j \in DOMAIN s.doTasks, i < j
      PROVE  j \in OpenDo(s) /\ s.doTasks[i].left <= s.doTasks[j].left
  <2>1. i \in 1..(n + 1) /\ j \in 1..(n + 1)
    BY <1>4 DEF OpenDo
  <2>2. i \in 1..n
    BY <1>2, <1>7, <2>1
  <2>3. i \in OpenDo(d)
    BY <1>2, <1>4, <2>2 DEF OpenDo
  <2>4. CASE j \in 1..n
    <3>1. j \in OpenDo(d) /\ d.doTasks[i].left <= d.doTasks[j].left
      BY <1>2, <1>7, <2>3, <2>4 DEF DoKept, DoInOrder
    <3>2. QED
      BY <1>2, <1>4, <2>1, <2>2, <2>4, <3>1 DEF OpenDo
  <2>5. CASE j = n + 1
    <3>1. d.doTasks[i].left <= DoTaskTime
      BY <1>2, <2>2 DEF DoKept, DoWithin
    <3>2. QED
      BY <1>3, <1>4, <2>1, <2>2, <2>5, <3>1 DEF OpenDo
  <2>6. QED
    BY <1>5, <2>1, <2>4, <2>5
<1>8. GoodDo(s) = GoodDo(d) /\ (GoodDo(d) # {} => Newest(GoodDo(d)) \in 1..n)
  <2>1. GoodDo(s) = GoodDo(d)
    BY <1>2, <1>3, <1>4, <1>5 DEF GoodDo
  <2>2. GoodDo(d) \in SUBSET (1..n)
    BY <1>2 DEF GoodDo
  <2>3. QED
    BY <1>2, <2>1, <2>2, NewestIsLast
<1>9. DoIsLast(s)
  BY <1>1, <1>4, <1>8 DEF DoKept, DoIsLast
<1>10. QED
  BY <1>6, <1>7, <1>9 DEF DoKept, DoInOrder, s

----------------------------------------------------------------------------
(***************************************************************************)
(* AS3 tasks settle in the order in which they were started, each tenant  *)
(* seeing only its own.                                                    *)
(***************************************************************************)
OpenAs3(d) == {i \in DOMAIN d.as3Tasks : d.as3Tasks[i].code = 0}

As3InOrder(d) ==
    \A i \in OpenAs3(d), j \in DOMAIN d.as3Tasks : i < j =>
        j \in OpenAs3(d) /\ d.as3Tasks[i].left <= d.as3Tasks[j].left

As3Within(d) == \A i \in DOMAIN d.as3Tasks : d.as3Tasks[i].left <= As3TaskTime

GoodAs3(d, t) == {i \in DOMAIN d.as3Tasks : d.as3Tasks[i].tenant = t /\ d.as3Tasks[i].code = 200}

As3IsLast(d) ==
    \A t \in Tenants :
        d.as3State[t] = IF GoodAs3(d, t) = {} THEN NoDeclaration
                        ELSE d.as3Tasks[Newest(GoodAs3(d, t))].declaration

As3Kept(d) == As3InOrder(d) /\ As3Within(d) /\ As3IsLast(d)

LEMMA As3TaskTypes ==
  ASSUME NEW d \in Device
  PROVE  /\ d.as3Tasks \in Seq(AS3Task)
         /\ DOMAIN d.as3Tasks = 1..Len(d.as3Tasks) /\ Len(d.as3Tasks) \in Nat
         /\ \A i \in DOMAIN d.as3Tasks : /\ d.as3Tasks[i] \in AS3Task
                                        /\ d.as3Tasks[i].left \in Nat
<1>1. d.as3Tasks \in Seq(AS3Task)
  BY DEF Device
<1>2. DOMAIN d.as3Tasks = 1..Len(d.as3Tasks) /\ Len(d.as3Tasks) \in Nat
  BY <1>1
<1>3. \A i \in DOMAIN d.as3Tasks : d.as3Tasks[i] \in AS3Task
  BY <1>1
<1>4. \A i \in DOMAIN d.as3Tasks : d.as3Tasks[i].left \in Nat
  BY <1>3 DEF AS3Task
<1>5. QED
  BY <1>1, <1>2, <1>3, <1>4

\* Devices with the same tasks and the same result agree on what is kept.
LEMMA As3Same ==
  ASSUME NEW d \in Device, NEW e \in Device, As3Kept(d), e.as3Tasks = d.as3Tasks, e.as3State = d.as3State
  PROVE  As3Kept(e)
<1>1. As3InOrder(e) /\ As3Within(e)
  BY DEF As3Kept, As3InOrder, As3Within, OpenAs3
<1>2. \A t \in Tenants : GoodAs3(e, t) = GoodAs3(d, t)
  BY DEF GoodAs3
<1>3. As3IsLast(e)
  BY <1>2 DEF As3Kept, As3IsLast
<1>4. QED
  BY <1>1, <1>3 DEF As3Kept

\* A device without tasks and without a declaration.
LEMMA As3Nothing ==
  ASSUME NEW d \in Device, d.as3Tasks = << >>, \A t \in Tenants : d.as3State[t] = NoDeclaration
  PROVE  As3Kept(d)
BY DEF As3Kept, As3InOrder, As3Within, As3IsLast, OpenAs3, GoodAs3

\* advance() changes nothing of a task but its status, and that when it is due.
LEMMA As3Settled ==
  ASSUME NEW d \in Device
  PROVE  /\ DOMAIN Advance(d).as3Tasks = DOMAIN d.as3Tasks
         /\ \A i \in DOMAIN d.as3Tasks :
              /\ Advance(d).as3Tasks[i].left = d.as3Tasks[i].left
              /\ Advance(d).as3Tasks[i].declaration = d.as3Tasks[i].declaration
              /\ Advance(d).as3Tasks[i].tenant = d.as3Tasks[i].tenant
              /\ Advance(d).as3Tasks[i].code =
                   IF i \in DueAs3(d)
                     THEN IF d.as3Tasks[i].willFail THEN 422 ELSE 200
                     ELSE d.as3Tasks[i].code
         /\ \A t \in Tenants :
               Advance(d).as3State[t] = IF AppliedAs3(d, t) = {} THEN d.as3State[t]
                                        ELSE d.as3Tasks[Newest(AppliedAs3(d, t))].declaration
<1> DEFINE o == [i \in DOMAIN d.as3Tasks |->
                   IF i \notin DueAs3(d) THEN d.as3Tasks[i]
                   ELSE [d.as3Tasks[i] EXCEPT !.code =
                           IF d.as3Tasks[i].willFail THEN 422 ELSE 200]]
           e == SettleDo(SettleReboot(SettleInstalls(d)))
<1>a. e \in Device /\ e.as3Tasks = d.as3Tasks /\ e.as3State = d.as3State
  <2>1. SettleInstalls(d) \in Device
    BY SettleInstallsType
  <2>2. SettleInstalls(d).as3Tasks = d.as3Tasks /\ SettleInstalls(d).as3State = d.as3State
    BY DEF SettleInstalls, Device
  <2>3. \A f \in Device : /\ SettleReboot(f).as3Tasks = f.as3Tasks
                          /\ SettleReboot(f).as3State = f.as3State
    BY DEF SettleReboot, Boot, Device
  <2>4. \A f \in Device : SettleDo(f).as3Tasks = f.as3Tasks /\ SettleDo(f).as3State = f.as3State
    BY DEF SettleDo, Device
  <2>5. QED
    BY <2>1, <2>2, <2>3, <2>4, SettleRebootType, SettleDoType
<1>c. Advance(d) = SettleAs3(e)
  BY DEF Advance
<1> HIDE DEF e
<1>d. DueAs3(e) = DueAs3(d) /\ \A t \in Tenants : AppliedAs3(e, t) = AppliedAs3(d, t)
  BY <1>a DEF DueAs3, AppliedAs3
<1>1. /\ Advance(d).as3Tasks = o
      /\ \A t \in Tenants :
            Advance(d).as3State[t] = IF AppliedAs3(d, t) = {} THEN d.as3State[t]
                                     ELSE d.as3Tasks[Newest(AppliedAs3(d, t))].declaration
  <2>1. SettleAs3(e).as3Tasks = o
    BY <1>a, <1>d DEF SettleAs3, Device
  <2> DEFINE state == [t \in Tenants |-> IF AppliedAs3(e, t) = {} THEN e.as3State[t]
                                        ELSE e.as3Tasks[Newest(AppliedAs3(e, t))].declaration]
  <2>2. SettleAs3(e).as3State = state
    BY <1>a DEF SettleAs3, Device
  <2>3. \A t \in Tenants : state[t] = IF AppliedAs3(d, t) = {} THEN d.as3State[t]
                                     ELSE d.as3Tasks[Newest(AppliedAs3(d, t))].declaration
    BY <1>a, <1>d
  <2> HIDE DEF state
  <2>4. QED
    BY <1>c, <2>1, <2>2, <2>3
<1>2. DOMAIN o = DOMAIN d.as3Tasks
  OBVIOUS
<1>3. ASSUME NEW i \in DOMAIN d.as3Tasks
      PROVE  /\ o[i].left = d.as3Tasks[i].left
             /\ o[i].declaration = d.as3Tasks[i].declaration
             /\ o[i].tenant = d.as3Tasks[i].tenant
             /\ o[i].code = IF i \in DueAs3(d)
                              THEN IF d.as3Tasks[i].willFail THEN 422 ELSE 200
                              ELSE d.as3Tasks[i].code
  <2>1. d.as3Tasks[i] \in AS3Task
    BY As3TaskTypes
  <2>2. CASE i \notin DueAs3(d)
    BY <2>2
  <2>3. CASE i \in DueAs3(d)
    BY <2>1, <2>3 DEF AS3Task
  <2>4. QED
    BY <2>2, <2>3
<1> HIDE DEF o
<1>4. QED
  BY <1>1, <1>2, <1>3

LEMMA As3AdvanceKept ==
  ASSUME NEW d \in Device, As3Kept(d) PROVE As3Kept(Advance(d))
<1> DEFINE a == Advance(d)
<1>0. OpenAs3(a) = OpenAs3(d) \ DueAs3(d) /\ DueAs3(d) \subseteq OpenAs3(d)
  BY As3Settled DEF OpenAs3, DueAs3
<1>1. As3Within(a)
  BY As3Settled DEF As3Kept, As3Within
<1>2. ASSUME NEW i \in OpenAs3(a), NEW j \in DOMAIN a.as3Tasks, i < j
      PROVE  j \in OpenAs3(a) /\ a.as3Tasks[i].left <= a.as3Tasks[j].left
  <2>1. i \in OpenAs3(d) \ DueAs3(d) /\ i \in DOMAIN d.as3Tasks /\ j \in DOMAIN d.as3Tasks
    BY <1>0, As3Settled DEF OpenAs3
  <2>2. j \in OpenAs3(d) /\ d.as3Tasks[i].left <= d.as3Tasks[j].left
    BY <1>2, <2>1 DEF As3Kept, As3InOrder
  <2>3. d.as3Tasks[i].left # 0
    BY <2>1 DEF OpenAs3, DueAs3
  <2>4. d.as3Tasks[i].left \in Nat /\ d.as3Tasks[j].left \in Nat
    BY <2>1, As3TaskTypes
  <2>5. d.as3Tasks[j].left # 0
    BY <2>2, <2>3, <2>4
  <2>6. j \notin DueAs3(d)
    BY <2>5 DEF DueAs3
  <2>7. QED
    BY <1>0, <2>1, <2>2, <2>6, As3Settled
<1>3. Len(d.as3Tasks) \in Nat /\ DOMAIN d.as3Tasks = 1..Len(d.as3Tasks)
  BY As3TaskTypes
<1>7. As3IsLast(a)
  <2> SUFFICES ASSUME NEW t \in Tenants
               PROVE  a.as3State[t] = IF GoodAs3(a, t) = {} THEN NoDeclaration
                                      ELSE a.as3Tasks[Newest(GoodAs3(a, t))].declaration
    BY DEF As3IsLast
  <2> DEFINE good == GoodAs3(d, t)
             new == AppliedAs3(d, t)
  <2>1. GoodAs3(a, t) = good \cup new
    BY As3Settled DEF GoodAs3, AppliedAs3, DueAs3
  <2>2. good \in SUBSET (1..Len(d.as3Tasks)) /\ new \in SUBSET (1..Len(d.as3Tasks))
    BY <1>3 DEF GoodAs3, AppliedAs3, DueAs3
  <2>3. \A g \in good, i \in new : g < i
    <3> SUFFICES ASSUME NEW g \in good, NEW i \in new PROVE g < i
      OBVIOUS
    <3>1. i \in OpenAs3(d) /\ g \in DOMAIN d.as3Tasks /\ g \notin OpenAs3(d)
      BY DEF AppliedAs3, DueAs3, OpenAs3, GoodAs3
    <3>2. ~(i < g) /\ i # g
      BY <3>1 DEF As3Kept, As3InOrder
    <3>3. i \in Nat /\ g \in Nat
      BY <2>2
    <3>4. QED
      BY <3>2, <3>3
  <2>4. d.as3State[t] = IF good = {} THEN NoDeclaration ELSE d.as3Tasks[Newest(good)].declaration
    BY DEF As3Kept, As3IsLast
  <2>5. a.as3State[t] = IF new = {} THEN d.as3State[t] ELSE d.as3Tasks[Newest(new)].declaration
    BY As3Settled
  <2> HIDE DEF good, new
  <2>6. CASE new = {}
    <3>1. good # {} => Newest(good) \in DOMAIN d.as3Tasks
      BY <1>3, <2>2, NewestIsLast
    <3>2. GoodAs3(a, t) = good
      BY <2>1, <2>6
    <3>3. QED
      BY <2>4, <2>5, <2>6, <3>1, <3>2, As3Settled
  <2>7. CASE new # {}
    <3>1. Newest(good \cup new) = Newest(new)
      BY <1>3, <2>2, <2>3, <2>7, NewestOfBoth
    <3>2. Newest(new) \in DOMAIN d.as3Tasks
      BY <1>3, <2>2, <2>7, NewestIsLast
    <3>3. GoodAs3(a, t) # {} /\ Newest(GoodAs3(a, t)) = Newest(new)
      BY <2>1, <2>7, <3>1
    <3>4. QED
      BY <2>5, <2>7, <3>2, <3>3, As3Settled
  <2>8. QED
    BY <2>6, <2>7
<1>8. QED
  BY <1>1, <1>2, <1>7 DEF As3Kept, As3InOrder

\* A second changes nothing of a task but the time it has left.
LEMMA As3Elapsed ==
  ASSUME NEW d \in Device
  PROVE  /\ DOMAIN Elapse(d).as3Tasks = DOMAIN d.as3Tasks /\ Elapse(d).as3State = d.as3State
         /\ \A i \in DOMAIN d.as3Tasks :
              /\ Elapse(d).as3Tasks[i].left = Less(d.as3Tasks[i].left)
              /\ Elapse(d).as3Tasks[i].declaration = d.as3Tasks[i].declaration
              /\ Elapse(d).as3Tasks[i].tenant = d.as3Tasks[i].tenant
              /\ Elapse(d).as3Tasks[i].code = d.as3Tasks[i].code
<1> DEFINE o == [i \in DOMAIN d.as3Tasks |-> [d.as3Tasks[i] EXCEPT !.left = Less(@)]]
<1>1. Elapse(d).as3Tasks = o /\ Elapse(d).as3State = d.as3State
  BY DEF Elapse, Device
<1>2. DOMAIN o = DOMAIN d.as3Tasks
  OBVIOUS
<1>3. ASSUME NEW i \in DOMAIN d.as3Tasks
      PROVE  /\ o[i].left = Less(d.as3Tasks[i].left)
             /\ o[i].declaration = d.as3Tasks[i].declaration
             /\ o[i].tenant = d.as3Tasks[i].tenant
             /\ o[i].code = d.as3Tasks[i].code
  <2>1. d.as3Tasks[i] \in AS3Task
    BY As3TaskTypes
  <2>2. QED
    BY <2>1 DEF AS3Task
<1> HIDE DEF o
<1>4. QED
  BY <1>1, <1>2, <1>3

LEMMA As3ElapseKept ==
  ASSUME NEW d \in Device, As3Kept(d) PROVE As3Kept(Elapse(d))
<1> DEFINE e == Elapse(d)
<1>1. \A m, n \in Nat : m <= n => Less(m) <= Less(n)
  BY DEF Less
<1>2. \A m \in Nat : Less(m) <= m /\ Less(m) \in Nat
  BY DEF Less
<1>3. OpenAs3(e) = OpenAs3(d)
  BY As3Elapsed DEF OpenAs3
<1>4. As3Within(e)
  <2> SUFFICES ASSUME NEW i \in DOMAIN d.as3Tasks PROVE e.as3Tasks[i].left <= As3TaskTime
    BY As3Elapsed DEF As3Within
  <2>1. d.as3Tasks[i].left \in Nat /\ d.as3Tasks[i].left <= As3TaskTime
    BY As3TaskTypes DEF As3Kept, As3Within
  <2>2. Less(d.as3Tasks[i].left) \in Nat /\ Less(d.as3Tasks[i].left) <= d.as3Tasks[i].left
    BY <1>2, <2>1
  <2>3. QED
    BY <2>1, <2>2, As3Elapsed, TimingAssumption
<1>5. ASSUME NEW i \in OpenAs3(e), NEW j \in DOMAIN e.as3Tasks, i < j
      PROVE  j \in OpenAs3(e) /\ e.as3Tasks[i].left <= e.as3Tasks[j].left
  <2>1. i \in OpenAs3(d) /\ i \in DOMAIN d.as3Tasks /\ j \in DOMAIN d.as3Tasks
    BY <1>3, As3Elapsed DEF OpenAs3
  <2>2. j \in OpenAs3(d) /\ d.as3Tasks[i].left <= d.as3Tasks[j].left
    BY <1>5, <2>1 DEF As3Kept, As3InOrder
  <2>3. d.as3Tasks[i].left \in Nat /\ d.as3Tasks[j].left \in Nat
    BY <2>1, As3TaskTypes
  <2>4. Less(d.as3Tasks[i].left) <= Less(d.as3Tasks[j].left)
    BY <1>1, <2>2, <2>3
  <2>5. QED
    BY <1>3, <2>1, <2>2, <2>4, As3Elapsed
<1>7. As3IsLast(e)
  <2> SUFFICES ASSUME NEW t \in Tenants
               PROVE  e.as3State[t] = IF GoodAs3(e, t) = {} THEN NoDeclaration
                                      ELSE e.as3Tasks[Newest(GoodAs3(e, t))].declaration
    BY DEF As3IsLast
  <2>1. GoodAs3(e, t) = GoodAs3(d, t)
    BY As3Elapsed DEF GoodAs3
  <2>2. GoodAs3(d, t) \in SUBSET (1..Len(d.as3Tasks)) /\ Len(d.as3Tasks) \in Nat
    BY As3TaskTypes DEF GoodAs3
  <2>3. GoodAs3(d, t) # {} => Newest(GoodAs3(d, t)) \in DOMAIN d.as3Tasks
    BY <2>2, NewestIsLast DEF GoodAs3
  <2>4. QED
    BY <2>1, <2>3, As3Elapsed DEF As3Kept, As3IsLast
<1>8. QED
  BY <1>4, <1>5, <1>7 DEF As3Kept, As3InOrder

\* A new task is due last, and has not been applied.
LEMMA As3StartKept ==
  ASSUME NEW d \in Device, NEW v \in Tenants, NEW x \in Declarations, As3Kept(d)
  PROVE  As3Kept(StartAs3Task(d, v, x))
<1> DEFINE s == StartAs3Task(d, v, x)
           n == Len(d.as3Tasks)
           task == [tenant |-> v, declaration |-> x, left |-> As3TaskTime,
                    willFail |-> "fail_next_as3" \in d.chaos, code |-> 0]
<1>1. s.as3Tasks = Append(d.as3Tasks, task) /\ s.as3State = d.as3State
  BY DEF StartAs3Task, Device
<1>2. n \in Nat /\ DOMAIN d.as3Tasks = 1..n /\ d.as3Tasks \in Seq(AS3Task)
  BY As3TaskTypes
<1>3. task.left = As3TaskTime /\ task.code = 0
  OBVIOUS
<1> HIDE DEF s, task
<1>4. /\ DOMAIN s.as3Tasks = 1..(n + 1) /\ s.as3Tasks[n + 1] = task
      /\ \A i \in 1..n : s.as3Tasks[i] = d.as3Tasks[i]
  BY <1>1, <1>2
<1> HIDE DEF n
<1>5. \A i \in 1..(n + 1) : i \in 1..n \/ i = n + 1
  BY <1>2
<1>6. As3Within(s)
  <2> SUFFICES ASSUME NEW i \in 1..(n + 1) PROVE s.as3Tasks[i].left <= As3TaskTime
    BY <1>4 DEF As3Within
  <2>1. CASE i \in 1..n
    BY <1>2, <1>4, <2>1 DEF As3Kept, As3Within
  <2>2. CASE i = n + 1
    BY <1>3, <1>4, <2>2, TimingAssumption
  <2>3. QED
    BY <1>5, <2>1, <2>2
<1>7. ASSUME NEW i \in OpenAs3(s), NEW j \in DOMAIN s.as3Tasks, i < j
      PROVE  j \in OpenAs3(s) /\ s.as3Tasks[i].left <= s.as3Tasks[j].left
  <2>1. i \in 1..(n + 1) /\ j \in 1..(n + 1)
    BY <1>4 DEF OpenAs3
  <2>2. i \in 1..n
    BY <1>2, <1>7, <2>1
  <2>3. i \in OpenAs3(d)
    BY <1>2, <1>4, <2>2 DEF OpenAs3
  <2>4. CASE j \in 1..n
    <3>1. j \in OpenAs3(d) /\ d.as3Tasks[i].left <= d.as3Tasks[j].left
      BY <1>2, <1>7, <2>3, <2>4 DEF As3Kept, As3InOrder
    <3>2. QED
      BY <1>2, <1>4, <2>1, <2>2, <2>4, <3>1 DEF OpenAs3
  <2>5. CASE j = n + 1
    <3>1. d.as3Tasks[i].left <= As3TaskTime
      BY <1>2, <2>2 DEF As3Kept, As3Within
    <3>2. QED
      BY <1>3, <1>4, <2>1, <2>2, <2>5, <3>1 DEF OpenAs3
  <2>6. QED
    BY <1>5, <2>1, <2>4, <2>5
<1>9. As3IsLast(s)
  <2> SUFFICES ASSUME NEW t \in Tenants
               PROVE  s.as3State[t] = IF GoodAs3(s, t) = {} THEN NoDeclaration
                                      ELSE s.as3Tasks[Newest(GoodAs3(s, t))].declaration
    BY DEF As3IsLast
  <2>1. GoodAs3(s, t) = GoodAs3(d, t)
    BY <1>2, <1>3, <1>4, <1>5 DEF GoodAs3
  <2>2. GoodAs3(d, t) \in SUBSET (1..n)
    BY <1>2 DEF GoodAs3
  <2>3. GoodAs3(d, t) # {} => Newest(GoodAs3(d, t)) \in 1..n
    BY <1>2, <2>2, NewestIsLast
  <2>4. QED
    BY <1>1, <1>4, <2>1, <2>3 DEF As3Kept, As3IsLast
<1>10. QED
  BY <1>6, <1>7, <1>9 DEF As3Kept, As3InOrder, s

----------------------------------------------------------------------------
(***************************************************************************)
(* What GET answers.                                                       *)
(***************************************************************************)
Kept(d) == DoKept(d) /\ As3Kept(d)

\* Nothing but advance(), the clock and a new task concerns the tasks of a device.
LEMMA KeptElsewhere ==
  ASSUME NEW d \in Device, Kept(d)
  PROVE  /\ Kept(StartReboot(d))
         /\ \A f \in SUBSET Flags : Kept([d EXCEPT !.chaos = f])
         /\ \A x \in Declarations : As3Kept(StartDoTask(d, x))
         /\ \A v \in Tenants, x \in Declarations : DoKept(StartAs3Task(d, v, x))
<1> USE DEF Kept
<1>1. Kept(StartReboot(d))
  <2>1. /\ StartReboot(d).doTasks = d.doTasks /\ StartReboot(d).doState = d.doState
        /\ StartReboot(d).as3Tasks = d.as3Tasks /\ StartReboot(d).as3State = d.as3State
    BY DEF StartReboot, Device
  <2>2. StartReboot(d) \in Device
    BY StartRebootType
  <2>3. QED
    BY <2>1, <2>2, DoSame, As3Same
<1>2. ASSUME NEW f \in SUBSET Flags PROVE Kept([d EXCEPT !.chaos = f])
  <2> DEFINE e == [d EXCEPT !.chaos = f]
  <2>1. e \in Device /\ e.doTasks = d.doTasks /\ e.doState = d.doState
        /\ e.as3Tasks = d.as3Tasks /\ e.as3State = d.as3State
    BY DEF Device
  <2> HIDE DEF e
  <2>2. Kept(e)
    BY <2>1, DoSame, As3Same
  <2>3. QED
    BY <2>2 DEF e
<1>3. ASSUME NEW x \in Declarations PROVE As3Kept(StartDoTask(d, x))
  <2>1. StartDoTask(d, x).as3Tasks = d.as3Tasks /\ StartDoTask(d, x).as3State = d.as3State
    BY DEF StartDoTask, Device
  <2>2. QED
    BY <2>1, StartDoType, As3Same
<1>4. ASSUME NEW v \in Tenants, NEW x \in Declarations PROVE DoKept(StartAs3Task(d, v, x))
  <2>1. /\ StartAs3Task(d, v, x).doTasks = d.doTasks
        /\ StartAs3Task(d, v, x).doState = d.doState
    BY DEF StartAs3Task, Device
  <2>2. QED
    BY <2>1, StartAs3Type, DoSame
<1>5. QED
  BY <1>1, <1>2, <1>3, <1>4

LEMMA FreshKept == ASSUME NEW version \in Versions PROVE Kept(FreshWith(version))
<1> DEFINE d == FreshWith(version)
<1>1. d \in Device
  BY FreshWithType
<1>2. /\ d.doTasks = << >> /\ d.as3Tasks = << >> /\ d.doState = NoDeclaration
      /\ \A t \in Tenants : d.as3State[t] = NoDeclaration
  BY DEF FreshWith
<1> HIDE DEF d
<1>3. QED
  BY <1>1, <1>2, DoNothing, As3Nothing DEF Kept, d

LEMMA KeptStep == TypeOK /\ Kept(dev) /\ [Next]_vars => Kept(dev')
<1> SUFFICES ASSUME TypeOK, Kept(dev), [Next]_vars PROVE Kept(dev')
  OBVIOUS
<1>0. dev \in Device /\ dev' \in Successors
  BY DeviceSteps DEF TypeOK
<1>1. Kept(Advance(dev)) /\ Advance(dev) \in Device
  BY <1>0, AdvanceType, DoAdvanceKept, As3AdvanceKept DEF Kept
<1>2. Kept(StartReboot(Advance(dev)))
  BY <1>1, KeptElsewhere
<1>3. Kept(Elapse(dev))
  BY <1>0, DoElapseKept, As3ElapseKept DEF Kept
<1>4. Kept(FreshWith("16.1.3"))
  BY FreshKept, VersionsAssumption
<1>5. \A x \in Declarations : Kept(StartDoTask(dev, x))
  BY <1>0, DoStartKept, KeptElsewhere DEF Kept
<1>6. \A p \in Tenants \X Declarations : Kept(StartAs3Task(dev, p[1], p[2]))
  BY <1>0, As3StartKept, KeptElsewhere DEF Kept
<1>7. \A f \in SUBSET Flags : Kept([dev EXCEPT !.chaos = f])
  BY <1>0, KeptElsewhere
<1>8. QED
  BY <1>0, <1>1, <1>2, <1>3, <1>4, <1>5, <1>6, <1>7 DEF Successors

LEMMA SpecKept == Spec => []Kept(dev)
<1>1. Init => Kept(dev)
  BY FreshKept, VersionsAssumption DEF Init, Fresh
<1>2. TypeOK /\ Kept(dev) /\ [Next]_vars => Kept(dev)'
  BY KeptStep
<1>3. QED
  BY <1>1, <1>2, TasksTypeCorrect, PTL DEF Spec

\* GET of the DO declaration answers what the last DO task that ended OK declared, for
\* any number of tasks, whenever they are observed and whatever reboots fall in between.
THEOREM DoAnswersLastApplied == Spec => []DoStateIsLastApplied
<1>1. Kept(dev) => DoStateIsLastApplied
  BY DEF Kept, DoKept, DoIsLast, GoodDo, DoStateIsLastApplied, LastOk
<1>2. QED
  BY SpecKept, <1>1, PTL

\* The same for the AS3 declaration of each tenant, for any number of tenants.
THEOREM As3AnswersLastApplied == Spec => []As3StateIsLastApplied
<1>1. Kept(dev) => As3StateIsLastApplied
  BY DEF Kept, As3Kept, As3IsLast, GoodAs3, As3StateIsLastApplied, LastOk
<1>2. QED
  BY SpecKept, <1>1, PTL
=============================================================================
