--------------------------- MODULE ExtensionTasks ---------------------------
(***************************************************************************)
(* The DO and AS3 endpoints, mock-f5/app/routers/extensions.py: a POST     *)
(* starts a task that settles later, a GET reads the task or what was last *)
(* applied.  The two POST handlers are coroutines: they check the reboot   *)
(* guard, await the request body, and only then start the task, so other   *)
(* requests and clock time fall in between.  All other handlers are one    *)
(* step.                                                                   *)
(***************************************************************************)
EXTENDS DeviceState, FiniteSets

CONSTANTS
    Clients,    \* those who POST declarations
    Injected,   \* the chaos flags that are raised
    MaxTasks    \* bound: DO and AS3 tasks since the last reset-device

ASSUME TasksAssumption == Injected \subseteq Flags /\ MaxTasks \in Nat

VARIABLES
    dev,        \* the device
    awaiting    \* awaiting[c]: the POST of c that is past the guard and awaits its body

vars == <<dev, awaiting>>

Nothing == [post |-> "none"]

Posts ==
    {Nothing}
    \cup [post : {"do"}, declaration : Declarations]
    \cup [post : {"as3"}, declaration : Declarations, tenant : Tenants]

Init == dev = Fresh /\ awaiting = [c \in Clients |-> Nothing]

----------------------------------------------------------------------------
(***************************************************************************)
(* The first half of do_post and as3_post: advance, then 503 or await.     *)
(***************************************************************************)
Admit(c, request) ==
    /\ awaiting[c] = Nothing
    /\ dev' = Advance(dev)
    /\ awaiting' = IF IsRebooting(dev') THEN awaiting ELSE [awaiting EXCEPT ![c] = request]

DoPost(c, declaration) == Admit(c, [post |-> "do", declaration |-> declaration])

As3Post(c, tenant, declaration) ==
    Admit(c, [post |-> "as3", declaration |-> declaration, tenant |-> tenant])

(***************************************************************************)
(* The second half, once the body is there.  Nothing is advanced and the   *)
(* guard is not asked again.                                               *)
(***************************************************************************)
Tasks == Len(dev.doTasks) + Len(dev.as3Tasks)

DoBody(c) ==
    /\ awaiting[c].post = "do"
    /\ Tasks < MaxTasks
    /\ dev' = StartDoTask(dev, awaiting[c].declaration)
    /\ awaiting' = [awaiting EXCEPT ![c] = Nothing]

As3Body(c) ==
    /\ awaiting[c].post = "as3"
    /\ Tasks < MaxTasks
    /\ dev' = StartAs3Task(dev, awaiting[c].tenant, awaiting[c].declaration)
    /\ awaiting' = [awaiting EXCEPT ![c] = Nothing]

\* A body that is not JSON or does not satisfy the schema: 400.
Refuse(c) ==
    /\ awaiting[c] # Nothing
    /\ awaiting' = [awaiting EXCEPT ![c] = Nothing]
    /\ UNCHANGED dev

(***************************************************************************)
(* The other requests that matter to tasks are those of MockDevice:  Query *)
(* is every GET here too (do_task_get, as3_task_get, do_get, as3_get,      *)
(* do_inspect and the probes).                                             *)
(***************************************************************************)
Mock == INSTANCE MockDevice WITH RoleClients <- FALSE, MaxOps <- 0, MaxBackups <- 0

Query == Mock!Query /\ UNCHANGED awaiting

UtilBashReboot == Mock!UtilBashReboot /\ UNCHANGED awaiting

Chaos == Mock!Chaos /\ UNCHANGED awaiting

Tick == Mock!Tick /\ UNCHANGED awaiting

Next ==
    \/ \E c \in Clients, declaration \in Declarations : DoPost(c, declaration)
    \/ \E c \in Clients, tenant \in Tenants, declaration \in Declarations :
          As3Post(c, tenant, declaration)
    \/ \E c \in Clients : DoBody(c) \/ As3Body(c) \/ Refuse(c)
    \/ Query
    \/ UtilBashReboot
    \/ Chaos
    \/ Tick

Spec == Init /\ [][Next]_vars

\* Time passes and the Terraform provider polls its tasks.
FairSpec == Spec /\ WF_vars(Tick) /\ WF_vars(Query)

----------------------------------------------------------------------------
(***************************************************************************)
(* Properties.                                                             *)
(***************************************************************************)

\* The device and the requests under way have their declared types.
TypeOK == dev \in Device /\ awaiting \in [Clients -> Posts]

LastOk(tasks, Ok(_)) ==
    LET good == {i \in DOMAIN tasks : Ok(tasks[i])}
    IN IF good = {} THEN NoDeclaration ELSE tasks[Newest(good)].declaration

\* What GET answers is the declaration of the last DO task that ended OK: no
\* failed task touches it and no older task overwrites a younger one, however
\* many run at once and whenever they are observed.
DoStateIsLastApplied ==
    dev.doState = LastOk(dev.doTasks, LAMBDA t : t.status = "OK")

\* The same for each AS3 tenant, and no tenant's task touches another's state.
As3StateIsLastApplied ==
    \A tenant \in Tenants :
        dev.as3State[tenant] = LastOk(dev.as3Tasks, LAMBDA t : t.tenant = tenant /\ t.code = 200)

\* A task that was answered 202 does not stay RUNNING for ever, whatever
\* reboots and further tasks come in between.
TasksEnd ==
    \A n \in 1..MaxTasks :
        /\ (n \in DOMAIN dev.doTasks /\ dev.doTasks[n].status = "RUNNING")
             ~> (n \in DOMAIN dev.doTasks => dev.doTasks[n].status # "RUNNING")
        /\ (n \in DOMAIN dev.as3Tasks /\ dev.as3Tasks[n].code = 0)
             ~> (n \in DOMAIN dev.as3Tasks => dev.as3Tasks[n].code # 0)
============================================================================
