---------------------------- MODULE DeviceState ----------------------------
(***************************************************************************)
(* One device of the mock iControl server, mock-f5/app/state.py: the value *)
(* a DeviceState object holds and, for each of its methods, an operator    *)
(* from the object's value before the call to its value after it.          *)
(*                                                                         *)
(* An absolute deadline (completes_at, rebooting_until) is kept as the     *)
(* number of seconds still to run, 0 once it has passed; Elapse lets one   *)
(* second go by.  The code compares a deadline with the clock only by      *)
(* "now() >= deadline", so nothing else about it can be observed.          *)
(***************************************************************************)
EXTENDS Integers, Sequences

CONSTANTS
    Versions,           \* software versions that occur
    InitialVersion,     \* version of the device in the manifest or MOCK_F5_VERSION
    InstallTime,        \* MOCK_INSTALL_SECONDS
    RebootTime,         \* MOCK_REBOOT_SECONDS
    SlowRebootFactor,   \* MOCK_SLOW_REBOOT_MULTIPLIER
    DoTaskTime,         \* MOCK_DO_TASK_SECONDS
    As3TaskTime,        \* MOCK_AS3_TASK_SECONDS
    Declarations,       \* DO and AS3 declarations that are submitted
    BadHostname,        \* the DO declarations whose hostname is not an FQDN
    NoDeclaration,      \* nothing applied yet
    Tenants             \* AS3 tenants

ASSUME VersionsAssumption ==
    /\ {"16.1.2", "16.1.3"} \subseteq Versions
    /\ InitialVersion \in Versions

ASSUME TimingAssumption ==
    /\ InstallTime \in Nat
    /\ RebootTime \in Nat
    /\ SlowRebootFactor \in Nat
    /\ DoTaskTime \in Nat
    /\ As3TaskTime \in Nat

ASSUME DeclarationsAssumption ==
    /\ NoDeclaration \notin Declarations
    /\ BadHostname \subseteq Declarations

----------------------------------------------------------------------------
(***************************************************************************)
(* Values.                                                                 *)
(***************************************************************************)
Volumes == {"HD1.1", "HD1.2"}

HAStates == {"ACTIVE", "STANDBY", "FORCED OFFLINE"}

SyncStates == {"In Sync", "Changes Pending", "Disconnected"}

Flags == {"fail_next_install", "slow_reboot", "drift_postcheck",
          "post_boot_unhealthy", "fail_next_do", "fail_next_as3"}

\* rebooting_until = None
NoReboot == -1

Operation == [volume : Volumes, version : Versions, left : Nat,
              willFail : BOOLEAN,
              status : {"in progress", "complete", "failed"}]

DOTask == [declaration : Declarations, left : Nat, willFail : BOOLEAN,
           status : {"RUNNING", "OK", "ERROR"}]

AS3Task == [tenant : Tenants, declaration : Declarations, left : Nat,
            willFail : BOOLEAN, code : {0, 200, 422}]

Applied == Declarations \cup {NoDeclaration}

(***************************************************************************)
(* active is the set of volumes whose flag is set, image the version each  *)
(* volume holds, running the version the device reports.                   *)
(***************************************************************************)
Device == [running  : Versions,
           ha       : HAStates,
           sync     : SyncStates,
           active   : SUBSET Volumes,
           image    : [Volumes -> Versions],
           ops      : Seq(Operation),
           backups  : Nat,
           reboot   : Nat \cup {NoReboot},
           chaos    : SUBSET Flags,
           doState  : Applied,
           as3State : [Tenants -> Applied],
           doTasks  : Seq(DOTask),
           as3Tasks : Seq(AS3Task)]

FreshWith(version) ==
    [running  |-> version,
     ha       |-> "ACTIVE",
     sync     |-> "In Sync",
     active   |-> {"HD1.1"},
     image    |-> [v \in Volumes |-> IF v = "HD1.1" THEN version ELSE "16.1.2"],
     ops      |-> << >>,
     backups  |-> 0,
     reboot   |-> NoReboot,
     chaos    |-> {},
     doState  |-> NoDeclaration,
     as3State |-> [t \in Tenants |-> NoDeclaration],
     doTasks  |-> << >>,
     as3Tasks |-> << >>]

Fresh == FreshWith(InitialVersion)

----------------------------------------------------------------------------
(***************************************************************************)
(* Reading the object.  active_volume and inactive_volume take the first   *)
(* match of a list that is always << HD1.1, HD1.2 >>.                      *)
(***************************************************************************)
ActiveVolume(d) == IF "HD1.1" \in d.active THEN "HD1.1" ELSE "HD1.2"

InactiveVolume(d) == IF "HD1.1" \notin d.active THEN "HD1.1" ELSE "HD1.2"

IsRebooting(d) == d.reboot > 0

Newest(I) == CHOOSE i \in I : \A j \in I : j <= i

OpsOn(d, v) == {i \in DOMAIN d.ops : d.ops[i].volume = v}

(***************************************************************************)
(* The status GET .../volume/{volume} reports: that of the newest          *)
(* operation on the volume, "complete" when there is none.                 *)
(***************************************************************************)
\* Mutant of VolumeStatus: the oldest operation instead of the newest.
OldestVolumeStatus(d, v) ==
    IF OpsOn(d, v) = {} THEN "complete"
    ELSE d.ops[CHOOSE i \in OpsOn(d, v) : \A j \in OpsOn(d, v) : i <= j].status

VolumeStatus(d, v) ==
    IF OpsOn(d, v) = {} THEN "complete" ELSE d.ops[Newest(OpsOn(d, v))].status

----------------------------------------------------------------------------
(***************************************************************************)
(* Methods that start something.                                           *)
(***************************************************************************)
\* Mutant of ActivateVolume: the flag of the other volume is not cleared.
AddActiveVolume(d, v) == [d EXCEPT !.active = @ \cup {v}]

ActivateVolume(d, v) == [d EXCEPT !.active = {v}]

\* Mutant of StartInstall: the operation goes to the front of the list.
StartInstallAtFront(d, v, version) ==
    [d EXCEPT !.ops = << [volume |-> v, version |-> version, left |-> InstallTime,
                          willFail |-> "fail_next_install" \in d.chaos,
                          status |-> "in progress"] >> \o @,
              !.chaos = @ \ {"fail_next_install"}]

StartInstall(d, v, version) ==
    [d EXCEPT !.ops = Append(@, [volume   |-> v,
                                 version  |-> version,
                                 left     |-> InstallTime,
                                 willFail |-> "fail_next_install" \in d.chaos,
                                 status   |-> "in progress"]),
              !.chaos = @ \ {"fail_next_install"}]

StartReboot(d) ==
    [d EXCEPT !.reboot = IF "slow_reboot" \in d.chaos
                           THEN RebootTime * SlowRebootFactor ELSE RebootTime,
              !.chaos = @ \ {"slow_reboot"}]

StartDoTask(d, declaration) ==
    [d EXCEPT !.doTasks = Append(@, [declaration |-> declaration,
                                     left        |-> DoTaskTime,
                                     willFail    |-> \/ "fail_next_do" \in d.chaos
                                                     \/ declaration \in BadHostname,
                                     status      |-> "RUNNING"]),
              !.chaos = @ \ {"fail_next_do"}]

StartAs3Task(d, tenant, declaration) ==
    [d EXCEPT !.as3Tasks = Append(@, [tenant      |-> tenant,
                                      declaration |-> declaration,
                                      left        |-> As3TaskTime,
                                      willFail    |-> "fail_next_as3" \in d.chaos,
                                      code        |-> 0]),
              !.chaos = @ \ {"fail_next_as3"}]

----------------------------------------------------------------------------
(***************************************************************************)
(* advance(): settle what has run out, in the order of the method's four   *)
(* parts.  Each loop goes through its collection oldest first, so of       *)
(* several items that settle together the newest is written last.          *)
(***************************************************************************)
\* Mutant of DueOps: a failing install is never taken out of its progress.
DueOpsThatSucceed(d) ==
    {i \in DOMAIN d.ops : /\ d.ops[i].status = "in progress" /\ d.ops[i].left = 0
                          /\ ~d.ops[i].willFail}

DueOps(d) == {i \in DOMAIN d.ops : d.ops[i].status = "in progress" /\ d.ops[i].left = 0}

Installed(d, v) == {i \in DueOps(d) : d.ops[i].volume = v /\ ~d.ops[i].willFail}

SettleInstalls(d) ==
    [d EXCEPT !.ops = [i \in DOMAIN d.ops |->
                         IF i \notin DueOps(d) THEN d.ops[i]
                         ELSE [d.ops[i] EXCEPT !.status =
                                 IF d.ops[i].willFail THEN "failed" ELSE "complete"]],
              !.image = [v \in Volumes |->
                           IF Installed(d, v) = {} THEN d.image[v]
                           ELSE d.ops[Newest(Installed(d, v))].version]]

Boot(d) ==
    LET unhealthy == "post_boot_unhealthy" \in d.chaos
    IN [d EXCEPT !.reboot  = NoReboot,
                 !.running = d.image[ActiveVolume(d)],
                 !.ha      = IF unhealthy THEN "FORCED OFFLINE" ELSE "ACTIVE",
                 !.sync    = IF unhealthy THEN "Disconnected" ELSE "In Sync",
                 !.chaos   = @ \ {"post_boot_unhealthy"}]

SettleReboot(d) == IF d.reboot = 0 THEN Boot(d) ELSE d

\* Mutant of DueDo: a failing task stays RUNNING.
DueDoThatSucceed(d) ==
    {i \in DOMAIN d.doTasks : /\ d.doTasks[i].status = "RUNNING" /\ d.doTasks[i].left = 0
                              /\ ~d.doTasks[i].willFail}

DueDo(d) == {i \in DOMAIN d.doTasks : d.doTasks[i].status = "RUNNING" /\ d.doTasks[i].left = 0}

\* Mutant of AppliedDo: a failing declaration is applied all the same.
AppliedOrFailedDo(d) == DueDo(d)

AppliedDo(d) == {i \in DueDo(d) : ~d.doTasks[i].willFail}

SettleDo(d) ==
    [d EXCEPT !.doTasks = [i \in DOMAIN d.doTasks |->
                             IF i \notin DueDo(d) THEN d.doTasks[i]
                             ELSE [d.doTasks[i] EXCEPT !.status =
                                     IF d.doTasks[i].willFail THEN "ERROR" ELSE "OK"]],
              !.doState = IF AppliedDo(d) = {} THEN d.doState
                          ELSE d.doTasks[Newest(AppliedDo(d))].declaration]

DueAs3(d) == {i \in DOMAIN d.as3Tasks : d.as3Tasks[i].code = 0 /\ d.as3Tasks[i].left = 0}

\* Mutant of AppliedAs3: a declaration is applied to every tenant.
AppliedToAnyAs3(d, t) == {i \in DueAs3(d) : ~d.as3Tasks[i].willFail}

AppliedAs3(d, t) == {i \in DueAs3(d) : d.as3Tasks[i].tenant = t /\ ~d.as3Tasks[i].willFail}

SettleAs3(d) ==
    [d EXCEPT !.as3Tasks = [i \in DOMAIN d.as3Tasks |->
                              IF i \notin DueAs3(d) THEN d.as3Tasks[i]
                              ELSE [d.as3Tasks[i] EXCEPT !.code =
                                      IF d.as3Tasks[i].willFail THEN 422 ELSE 200]],
              !.as3State = [t \in Tenants |->
                              IF AppliedAs3(d, t) = {} THEN d.as3State[t]
                              ELSE d.as3Tasks[Newest(AppliedAs3(d, t))].declaration]]

Advance(d) == SettleAs3(SettleDo(SettleReboot(SettleInstalls(d))))

(***************************************************************************)
(* One second of clock time.                                               *)
(***************************************************************************)
\* Mutant of Less: a deadline that has passed keeps running.
LessUnclamped(n) == n - 1

Less(n) == IF n > 0 THEN n - 1 ELSE n

Elapse(d) ==
    [d EXCEPT !.ops      = [i \in DOMAIN d.ops |->
                              [d.ops[i] EXCEPT !.left = Less(@)]],
              !.reboot   = Less(@),
              !.doTasks  = [i \in DOMAIN d.doTasks |->
                              [d.doTasks[i] EXCEPT !.left = Less(@)]],
              !.as3Tasks = [i \in DOMAIN d.as3Tasks |->
                              [d.as3Tasks[i] EXCEPT !.left = Less(@)]]]

TimersRunning(d) ==
    \/ d.reboot > 0
    \/ \E i \in DOMAIN d.ops : d.ops[i].left > 0
    \/ \E i \in DOMAIN d.doTasks : d.doTasks[i].left > 0
    \/ \E i \in DOMAIN d.as3Tasks : d.as3Tasks[i].left > 0
============================================================================
