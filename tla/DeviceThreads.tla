--------------------------- MODULE DeviceThreads ---------------------------
(***************************************************************************)
(* The synchronous handlers of mock-f5/app/routers/icontrol.py as FastAPI  *)
(* runs them: on a pool of threads that share the DeviceState object and   *)
(* take no lock.  A step ends where CPython may give another thread its    *)
(* turn, at a call or when a loop goes round; what lies between two such   *)
(* points is one step.                                                     *)
(*                                                                         *)
(* Kept are the fields that several steps of a request hang together by:   *)
(* the two volumes, the installs, the reboot window and the running        *)
(* version.  HA and sync status, UCS archives, DO and AS3 tasks and chaos  *)
(* flags are left out, and so is reset-device, which its docstring         *)
(* (chaos.py:123-127) places between scenarios.                            *)
(***************************************************************************)
EXTENDS DeviceState, FiniteSets

CONSTANTS
    Threads,    \* threads of the pool
    Workloads,  \* sets of requests; a behaviour makes those of one, and polls
    MaxOps,     \* bound: installs
    MaxLate     \* bound: seconds that advance() may take

Kinds == {"query", "install", "patch", "reboot"}

ASSUME ThreadsAssumption ==
    /\ \A W \in Workloads : W \subseteq [kind : Kinds, volume : Volumes, version : Versions]
    /\ MaxOps \in Nat
    /\ MaxLate \in Nat

VARIABLES
    workload,   \* the requests that clients make
    dev,        \* the DeviceState object
    th,         \* the request each thread works on
    owed,       \* history: reboot windows opened that nobody settled yet
    contended,  \* history: the last PATCH to begin met one that names the other volume
    overlapped  \* history: volumes onto which two installs have overlapped

vars == <<workload, dev, th, owed, contended, overlapped>>

\* Inside the operations loop of advance(), which compares with one value of the clock.
Settling == {"settle", "image"}

Steps == Settling \cup {"idle", "first", "second", "guard", "clock", "act", "append", "flip"}

(***************************************************************************)
(* left is the deadline minus the clock, as long as something waits for    *)
(* it.  It is kept down to -MaxLate, because a thread inside advance()     *)
(* compares the deadline with a clock it read up to MaxLate seconds ago.   *)
(***************************************************************************)
Install == [volume : Volumes, version : Versions, left : Int,
            status : {"in progress", "complete"}]

Thread == [pc : Steps, kind : Kinds, volume : Volumes, version : Versions,
           at : Nat \ {0}, late : 0..MaxLate, op : Install]

IdleThread == [pc |-> "idle", kind |-> "query", volume |-> "HD1.1", version |-> InitialVersion,
               at |-> 1, late |-> 0,
               op |-> [volume |-> "HD1.1", version |-> InitialVersion, left |-> 0,
                       status |-> "complete"]]

Query == [kind |-> "query", volume |-> "HD1.1", version |-> InitialVersion]

Init ==
    /\ workload \in Workloads
    /\ dev = [running |-> InitialVersion, active |-> {"HD1.1"}, image |-> Fresh.image,
              ops |-> << >>, window |-> FALSE, left |-> 0]
    /\ th = [t \in Threads |-> IdleThread]
    /\ owed = 0
    /\ contended = FALSE
    /\ overlapped = {}

----------------------------------------------------------------------------
At(t, step) == th[t].pc = step

Goto(t, step) == th' = [th EXCEPT ![t].pc = step]

\* The request is answered, with a payload, a 503 or an uncaught exception.
Reply(t) == th' = [th EXCEPT ![t] = IdleThread]

History == <<owed, contended, overlapped>>

(***************************************************************************)
(* _reboot_guard calls advance(), which reads the clock once.              *)
(***************************************************************************)
Request(t, r) ==
    /\ At(t, "idle")
    /\ r.kind = "install" =>
          Len(dev.ops) + Cardinality({u \in Threads : th[u].kind = "install"}) < MaxOps
    /\ th' = [th EXCEPT ![t] = [IdleThread EXCEPT !.pc = "settle", !.kind = r.kind,
                                                  !.volume = r.volume, !.version = r.version]]
    /\ UNCHANGED <<workload, dev, History>>

\* current >= deadline, for the clock that thread t read.
Due(t, left) == left + th[t].late <= 0

(***************************************************************************)
(* One turn of the loop over operations, in two steps: the status is set   *)
(* before volume_by_name is called and the image written after it.         *)
(***************************************************************************)
\* Mutant of SettleOp: an operation that is complete is settled again.
SettleAgain(t) ==
    LET i == th[t].at
        due == Due(t, dev.ops[i].left)
    IN /\ At(t, "settle")
       /\ i <= Len(dev.ops)
       /\ IF due
            THEN /\ dev' = [dev EXCEPT !.ops[i].status = "complete", !.ops[i].left = 0]
                 /\ Goto(t, "image")
            ELSE /\ th' = [th EXCEPT ![t].at = @ + 1]
                 /\ UNCHANGED dev
       /\ UNCHANGED History

SettleOp(t) ==
    LET i == th[t].at
        due == dev.ops[i].status = "in progress" /\ Due(t, dev.ops[i].left)
    IN /\ At(t, "settle")
       /\ i <= Len(dev.ops)
       /\ IF due
            THEN /\ dev' = [dev EXCEPT !.ops[i].status = "complete", !.ops[i].left = 0]
                 /\ Goto(t, "image")
            ELSE /\ th' = [th EXCEPT ![t].at = @ + 1]
                 /\ UNCHANGED dev
       /\ UNCHANGED History

WriteImage(t) ==
    LET op == dev.ops[th[t].at]
    IN /\ At(t, "image")
       /\ dev' = [dev EXCEPT !.image[op.volume] = op.version]
       /\ th' = [th EXCEPT ![t].at = @ + 1, ![t].pc = "settle"]
       /\ UNCHANGED History

(***************************************************************************)
(* The end of the window: no call lies between the comparison and the      *)
(* assignment of None, but active_volume() is called after both.           *)
(***************************************************************************)
Leave(t, step) == th' = [th EXCEPT ![t].pc = step, ![t].at = 1, ![t].late = 0]

\* Mutant of ClaimReboot: None is not assigned before the boot.
ClaimNothing(t) ==
    /\ At(t, "settle")
    /\ th[t].at > Len(dev.ops)
    /\ IF dev.window /\ Due(t, dev.left)
         THEN owed' = owed - 1 /\ Leave(t, "first")
         ELSE UNCHANGED owed /\ Leave(t, "guard")
    /\ UNCHANGED <<dev, contended, overlapped>>

ClaimReboot(t) ==
    /\ At(t, "settle")
    /\ th[t].at > Len(dev.ops)
    /\ IF dev.window /\ Due(t, dev.left)
         THEN /\ dev' = [dev EXCEPT !.window = FALSE, !.left = 0]
              /\ owed' = owed - 1
              /\ Leave(t, "first")
         ELSE Leave(t, "guard") /\ UNCHANGED <<dev, owed>>
    /\ UNCHANGED <<contended, overlapped>>

BootFrom(t, v) ==
    /\ dev' = [dev EXCEPT !.running = dev.image[v]]
    /\ Goto(t, "guard")

(***************************************************************************)
(* active_volume() looks at one volume after the other, and raises when    *)
(* neither is active; the rest of the boot is lost then.                   *)
(***************************************************************************)
LookFirst(t) ==
    /\ At(t, "first")
    /\ IF "HD1.1" \in dev.active THEN BootFrom(t, "HD1.1")
                                 ELSE Goto(t, "second") /\ UNCHANGED dev
    /\ UNCHANGED History

LookSecond(t) ==
    /\ At(t, "second")
    /\ IF "HD1.2" \in dev.active THEN BootFrom(t, "HD1.2")
                                 ELSE Reply(t) /\ UNCHANGED dev
    /\ UNCHANGED History

----------------------------------------------------------------------------
(***************************************************************************)
(* is_rebooting() tests the deadline for None, calls now(), then compares: *)
(* if the window was settled during the call it compares with None and     *)
(* raises.                                                                 *)
(***************************************************************************)
Guard(t) ==
    /\ At(t, "guard")
    /\ Goto(t, IF dev.window THEN "clock" ELSE "act")
    /\ UNCHANGED <<dev, History>>

\* Mutant of Clock: the answer of is_rebooting() is not looked at.
ClockIgnored(t) ==
    /\ At(t, "clock")
    /\ Goto(t, "act")
    /\ UNCHANGED <<dev, History>>

Clock(t) ==
    /\ At(t, "clock")
    /\ IF dev.window /\ dev.left <= 0 THEN Goto(t, "act") ELSE Reply(t)
    /\ UNCHANGED <<dev, History>>

Acts(t, kind) == At(t, "act") /\ th[t].kind = kind

Answer(t) == Acts(t, "query") /\ Reply(t) /\ UNCHANGED <<dev, History>>

(***************************************************************************)
(* start_install: the deadline is computed for the new Operation, which is *)
(* appended after it has been made.                                        *)
(***************************************************************************)
MakeOperation(t) ==
    /\ Acts(t, "install")
    /\ th' = [th EXCEPT ![t].pc = "append",
                        ![t].op = [volume |-> th[t].volume, version |-> th[t].version,
                                   left |-> InstallTime, status |-> "in progress"]]
    /\ overlapped' =
          IF \/ \E i \in OpsOn(dev, th[t].volume) : dev.ops[i].status = "in progress"
             \/ \E u \in Threads : At(u, "append") /\ th[u].volume = th[t].volume
          THEN overlapped \cup {th[t].volume} ELSE overlapped
    /\ UNCHANGED <<dev, owed, contended>>

AppendOperation(t) ==
    /\ At(t, "append")
    /\ dev' = [dev EXCEPT !.ops = Append(@, th[t].op)]
    /\ Reply(t)
    /\ UNCHANGED History

(***************************************************************************)
(* activate_volume: v.active = (v.name == name), volume after volume.      *)
(***************************************************************************)
\* Mutant of Flip: the flag of the other volume is left set.
FlipOn(t, v) == IF th[t].volume = v THEN dev.active \cup {v} ELSE dev.active

Flip(t, v) == IF th[t].volume = v THEN dev.active \cup {v} ELSE dev.active \ {v}

FlipFirst(t) ==
    /\ Acts(t, "patch")
    /\ dev' = [dev EXCEPT !.active = Flip(t, "HD1.1")]
    /\ contended' = \E u \in Threads \ {t} : At(u, "flip") /\ th[u].volume # th[t].volume
    /\ Goto(t, "flip")
    /\ UNCHANGED <<owed, overlapped>>

FlipSecond(t) ==
    /\ At(t, "flip")
    /\ dev' = [dev EXCEPT !.active = Flip(t, "HD1.2")]
    /\ Reply(t)
    /\ UNCHANGED History

OpenWindow(t) ==
    /\ Acts(t, "reboot")
    /\ dev' = [dev EXCEPT !.window = TRUE, !.left = RebootTime]
    /\ owed' = 1
    /\ Reply(t)
    /\ UNCHANGED <<contended, overlapped>>

----------------------------------------------------------------------------
\* Mutant of Later: a deadline that has passed keeps running.
LaterUnbounded(left) == left - 1

Later(left) == IF left > -MaxLate THEN left - 1 ELSE left

\* The installs that are waited for come a second closer.
Aged(ops) ==
    [i \in DOMAIN ops |->
       IF ops[i].status # "in progress" THEN ops[i]
       ELSE [ops[i] EXCEPT !.left = Later(ops[i].left)]]

Tick ==
    /\ \A t \in Threads : th[t].pc \in Settling => th[t].late < MaxLate
    /\ dev' = [dev EXCEPT !.left = IF dev.window THEN Later(@) ELSE @,
                          !.ops = Aged(dev.ops)]
    /\ th' = [t \in Threads |->
                [th[t] EXCEPT !.late = IF th[t].pc \in Settling THEN @ + 1 ELSE @,
                              !.op.left = IF th[t].pc = "append" THEN Later(@) ELSE @]]
    /\ UNCHANGED <<workload, History>>

Step(t) ==
  /\ UNCHANGED workload
  /\ \/ SettleOp(t) \/ WriteImage(t) \/ ClaimReboot(t) \/ LookFirst(t) \/ LookSecond(t)
     \/ Guard(t) \/ Clock(t)
     \/ Answer(t) \/ MakeOperation(t) \/ AppendOperation(t)
     \/ FlipFirst(t) \/ FlipSecond(t) \/ OpenWindow(t)

Poll == \E t \in Threads : Request(t, Query)

Next ==
    \/ Poll
    \/ \E t \in Threads, r \in workload : Request(t, r)
    \/ \E t \in Threads : Step(t)
    \/ Tick

Spec == Init /\ [][Next]_vars

(***************************************************************************)
(* The scheduler runs every thread, time passes, and some client polls.    *)
(***************************************************************************)
FairSpec ==
    /\ Spec
    /\ \A t \in Threads : WF_vars(Step(t))
    /\ WF_vars(Poll)
    /\ WF_vars(Tick)

----------------------------------------------------------------------------
(***************************************************************************)
(* Properties.                                                             *)
(***************************************************************************)

\* The object and the threads keep their types, and no deadline lies further
\* back than a thread inside advance() can be late.
TypeOK ==
    /\ workload \in Workloads
    /\ dev \in [running : Versions, active : SUBSET Volumes, image : [Volumes -> Versions],
               ops : Seq(Install), window : BOOLEAN, left : Int]
    /\ th \in [Threads -> Thread]
    /\ owed \in Int /\ contended \in BOOLEAN /\ overlapped \subseteq Volumes
    /\ dev.left >= -MaxLate
    /\ \A i \in DOMAIN dev.ops : dev.ops[i].left >= -MaxLate

\* Of the threads that see a reboot window run out only one boots the device
\* (state.py:300-301): no boot happens that no reboot request stands behind, and
\* no second thread consumes the post_boot_unhealthy flag of the same reboot.
OneBootPerReboot == owed >= 0

\* Exactly one volume is active whenever no PATCH is inside activate_volume, unless
\* the last one to begin met another that names the other volume: then both volumes
\* may stay active, or neither (icontrol.py:293 says "exactly one active volume at
\* any time").  PATCHes that overlap and name one volume do no harm, and the next
\* PATCH that meets no other heals what such a pair left.
ActiveVolumeAtRest ==
    (~contended /\ \A t \in Threads : ~At(t, "flip")) => \E v \in Volumes : dev.active = {v}

\* A volume whose newest install is complete holds the version of that install,
\* once no thread is about to write it: a thread that settles an older install and
\* falls behind does not undo a younger one, unless two installs overlapped on the
\* volume or advance() takes as long as an install.
InstalledAtRest ==
    \A v \in Volumes \ overlapped :
        (/\ OpsOn(dev, v) # {} /\ VolumeStatus(dev, v) = "complete"
         /\ \A t \in Threads : At(t, "image") => dev.ops[th[t].at].volume # v)
        => dev.image[v] = dev.ops[Newest(OpsOn(dev, v))].version

\* A reboot request that passed the guard before the window was opened may open it
\* again, but only so often: the device does not stay unreachable, and it is booted
\* unless yet another reboot request comes in.  (One that looks at the clock before
\* the deadline in advance() and after it in is_rebooting() swallows the boot.)
RebootEnds ==
    /\ dev.window /\ dev.left > 0 ~> ~(dev.window /\ dev.left > 0)
    /\ dev.window ~> ~dev.window \/ \E t \in Threads : th[t].kind = "reboot"
============================================================================
