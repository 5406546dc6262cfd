----------------------------- MODULE Playbooks -----------------------------
(***************************************************************************)
(* The Ansible plays of ansible/playbooks and the roles they include, run  *)
(* against one device.  A play is a sequence of tasks; a task that sends a *)
(* request is one step together with the handler that answers it and with  *)
(* the set_fact and assert tasks up to the next request.  Clock time and   *)
(* the steps of other plays fall between any two steps.                    *)
(***************************************************************************)
EXTENDS DeviceState, FiniteSets

CONSTANTS
    Plays,          \* 1..n: the plays that are launched against the device
    Serial,         \* TRUE: a play is launched only after the one before ended
    Kinds,          \* the playbooks that are launched
    Targets,        \* values of f5_target_version
    InstallRetries, \* f5_image_install_poll_retries
    BootRetries,    \* f5_boot_switch_poll_retries
    PollDelay,      \* f5_*_poll_delay, in seconds
    Lossy,          \* TRUE: a request or its answer may get lost
    Injected        \* chaos flags raised while no reboot is under way

ASSUME PlaysAssumption ==
    /\ IsFiniteSet(Plays) /\ Plays = 1..Cardinality(Plays)
    /\ Kinds \subseteq {"upgrade", "rollback", "failover"}
    /\ Targets \subseteq Versions
    /\ InstallRetries \in Nat /\ BootRetries \in Nat /\ PollDelay \in Nat
    /\ Serial \in BOOLEAN /\ Lossy \in BOOLEAN
    /\ Injected \subseteq Flags

VARIABLES
    dev,    \* the device
    play    \* play[p]: where play p is, its registered facts and loop state

vars == <<dev, play>>

Ended == {"ok", "failed"}

Requests ==
    {"version", "failover", "sync", "perf", "ucs", "volumes", "image", "install",
     "poll_install", "activate", "reboot", "poll_version", "gate_version",
     "gate_failover", "gate_sync", "post_version", "plan",
     "rb_volumes", "fo_status", "fo_trigger"}

(***************************************************************************)
(* before and activated are history variables: what the device ran when    *)
(* the play began (an upgrade: when preflight read the version), and       *)
(* whether the play has flipped the boot volume.                           *)
(***************************************************************************)
PlayState ==
    [kind      : {"upgrade", "rollback", "failover"},
     pc        : Requests \cup Ended \cup {"idle"},
     volume    : Volumes,       \* f5_boot_switch_target_volume
     version   : Versions,      \* f5_boot_switch_target_version
     sawVersion: Versions,      \* f5_health_gate_fact_version
     sawHA     : HAStates,      \* ..._fact_ha_status
     sawSync   : SyncStates,    \* f5_preflight_fact_sync_status
     tries     : Nat,           \* attempts left in the current until loop
     sleep     : Nat,           \* seconds to the next attempt
     before    : [running : Versions, volume : Volumes, image : Versions],
     activated : BOOLEAN]

\* What a device runs and what it would boot again.
Boots(d) ==
    [running |-> d.running, volume |-> ActiveVolume(d), image |-> d.image[ActiveVolume(d)]]

Idle ==
    [kind |-> "upgrade", pc |-> "idle", volume |-> "HD1.1", version |-> InitialVersion,
     sawVersion |-> InitialVersion, sawHA |-> "ACTIVE", sawSync |-> "In Sync",
     tries |-> 0, sleep |-> 0, before |-> Boots(Fresh), activated |-> FALSE]

Init == dev = Fresh /\ play = [p \in Plays |-> Idle]

----------------------------------------------------------------------------
At(p, request) == play[p].pc = request /\ play[p].sleep = 0

Become(p, state) == play' = [play EXCEPT ![p] = state]

(***************************************************************************)
(* A uri task that expects status 200: the handler does `after` to the     *)
(* advanced device and the play goes on as `next`; a 503, or no answer,    *)
(* fails the task and with it the play (any_errors_fatal).                 *)
(***************************************************************************)
Uri(p, after, next) ==
    LET d      == Advance(dev)
        failed == [play[p] EXCEPT !.pc = "failed"]
    IN \/ ~IsRebooting(d) /\ dev' = after /\ Become(p, next)
       \/ IsRebooting(d) /\ dev' = d /\ Become(p, failed)
       \/ Lossy /\ dev' = dev /\ Become(p, failed)
       \/ Lossy /\ ~IsRebooting(d) /\ dev' = after /\ Become(p, [next EXCEPT !.pc = "failed"])

Goto(p, pc) == [play[p] EXCEPT !.pc = pc]

Either(passed, p, pc) == Goto(p, IF passed THEN pc ELSE "failed")

(***************************************************************************)
(* An attempt of an until loop: success, another attempt after the delay,  *)
(* or, when the retries are used up, failure.                              *)
(***************************************************************************)
\* Mutants of Again: attempts are not bounded; not counted; one too few.
AgainBelowZero(p) == [play[p] EXCEPT !.tries = @ - 1, !.sleep = PollDelay]

AgainUncounted(p) == [play[p] EXCEPT !.sleep = PollDelay]

AgainOnceLess(p) ==
    IF play[p].tries <= 1 THEN Goto(p, "failed")
    ELSE [play[p] EXCEPT !.tries = @ - 1, !.sleep = PollDelay]

Again(p) ==
    IF play[p].tries = 0 THEN Goto(p, "failed")
    ELSE [play[p] EXCEPT !.tries = @ - 1, !.sleep = PollDelay]

----------------------------------------------------------------------------
(***************************************************************************)
(* Launching a play.                                                       *)
(***************************************************************************)
Launch(p, kind, target) ==
    /\ play[p].pc = "idle"
    /\ p > 1 => play[p - 1].pc # "idle"
    /\ Serial /\ p > 1 => play[p - 1].pc \in Ended
    /\ Become(p, [Idle EXCEPT !.kind = kind,
                              !.version = target,
                              !.before = Boots(dev),
                              !.tries = IF kind = "rollback" THEN BootRetries ELSE 0,
                              !.pc = CASE kind = "upgrade" -> "version"
                                       [] kind = "rollback" -> "rb_volumes"
                                       [] kind = "failover" -> "fo_status"])
    /\ UNCHANGED dev

(***************************************************************************)
(* f5_preflight: four requests, then the assertions.  CPU, memory and      *)
(* connections never change on the device and are under the thresholds.    *)
(***************************************************************************)
PreflightVersion(p) ==
    /\ At(p, "version")
    /\ Uri(p, Advance(dev), [Goto(p, "failover") EXCEPT !.before = Boots(Advance(dev))])

PreflightFailover(p) ==
    /\ At(p, "failover")
    /\ Uri(p, Advance(dev), [Goto(p, "sync") EXCEPT !.sawHA = Advance(dev).ha])

PreflightSync(p) ==
    /\ At(p, "sync")
    /\ Uri(p, Advance(dev), [Goto(p, "perf") EXCEPT !.sawSync = Advance(dev).sync])

PreflightPerf(p) ==
    /\ At(p, "perf")
    /\ Uri(p, Advance(dev),
           Either(play[p].sawHA # "FORCED OFFLINE" /\ play[p].sawSync = "In Sync", p, "ucs"))

\* f5_backup
Backup(p) ==
    /\ At(p, "ucs")
    /\ LET d == Advance(dev)
       IN Uri(p, [d EXCEPT !.backups = @ + 1], Goto(p, "volumes"))

(***************************************************************************)
(* f5_image_install.                                                       *)
(***************************************************************************)
\* Mutant of DiscoverVolume: the active volume is taken.
DiscoverActiveVolume(p) ==
    /\ At(p, "volumes")
    /\ LET d == Advance(dev)
       IN Uri(p, d, [Goto(p, "image") EXCEPT !.volume = ActiveVolume(d)])

DiscoverVolume(p) ==
    /\ At(p, "volumes")
    /\ LET d == Advance(dev)
       IN Uri(p, d, [Goto(p, "image") EXCEPT !.volume = InactiveVolume(d)])

RegisterImage(p) == At(p, "image") /\ Uri(p, Advance(dev), Goto(p, "install"))

\* Mutant of KickOffInstall: nobody polls for the end of the install.
KickOffAndGoOn(p) ==
    /\ At(p, "install")
    /\ Uri(p, StartInstall(Advance(dev), play[p].volume, play[p].version), Goto(p, "activate"))

KickOffInstall(p) ==
    /\ At(p, "install")
    /\ Uri(p, StartInstall(Advance(dev), play[p].volume, play[p].version),
           [Goto(p, "poll_install") EXCEPT !.tries = InstallRetries])

\* A 503 has no .json.status: the until condition itself fails.
PollInstall(p) ==
    /\ At(p, "poll_install")
    /\ LET d      == Advance(dev)
           status == VolumeStatus(d, play[p].volume)
       IN Uri(p, d, CASE status = "complete"    -> Goto(p, "activate")
                      [] status = "failed"      -> Goto(p, "failed")
                      [] status = "in progress" -> Again(p))

(***************************************************************************)
(* f5_boot_switch, included by upgrade.yml and by rollback.yml.            *)
(***************************************************************************)
Activate(p) ==
    /\ At(p, "activate")
    /\ Uri(p, ActivateVolume(Advance(dev), play[p].volume),
           [Goto(p, "reboot") EXCEPT !.activated = TRUE])

Reboot(p) ==
    /\ At(p, "reboot")
    /\ Uri(p, StartReboot(Advance(dev)), [Goto(p, "poll_version") EXCEPT !.tries = BootRetries])

\* status_code: [200, 503], so a rebooting or silent device is asked again.
PollVersion(p) ==
    /\ At(p, "poll_version")
    /\ LET d == Advance(dev)
       IN \/ /\ dev' = d
             /\ Become(p, IF ~IsRebooting(d) /\ d.running = play[p].version
                            THEN Goto(p, "gate_version") ELSE Again(p))
          \/ Lossy /\ dev' \in {dev, d} /\ Become(p, Again(p))

(***************************************************************************)
(* f5_health_gate: three requests, then the assertions.                    *)
(***************************************************************************)
GateVersion(p) ==
    /\ At(p, "gate_version")
    /\ Uri(p, Advance(dev), [Goto(p, "gate_failover") EXCEPT !.sawVersion = Advance(dev).running])

GateFailover(p) ==
    /\ At(p, "gate_failover")
    /\ Uri(p, Advance(dev), [Goto(p, "gate_sync") EXCEPT !.sawHA = Advance(dev).ha])

\* Mutant of HealthGate: only the version is asserted.
VersionGate(p, sync) == play[p].sawVersion = play[p].version

HealthGate(p, sync) ==
    /\ play[p].sawVersion = play[p].version
    /\ play[p].sawHA # "FORCED OFFLINE"
    /\ sync # "Disconnected"

GateSync(p) ==
    /\ At(p, "gate_sync")
    /\ LET d == Advance(dev)
       IN Uri(p, d, Either(HealthGate(p, d.sync), p,
                           IF play[p].kind = "upgrade" THEN "post_version" ELSE "ok"))

(***************************************************************************)
(* f5_postcheck.  terraform plan exits 2 on drift, which the device        *)
(* reports while drift_postcheck is raised, and 1 when it cannot refresh.  *)
(***************************************************************************)
PostcheckVersion(p) ==
    /\ At(p, "post_version")
    /\ LET d == Advance(dev)
       IN Uri(p, d, Either(d.running = play[p].version, p, "plan"))

PostcheckPlan(p) ==
    /\ At(p, "plan")
    /\ Uri(p, Advance(dev), Either("drift_postcheck" \notin dev.chaos, p, "ok"))

(***************************************************************************)
(* rollback.yml up to the boot switch: wait for an answer, take the first  *)
(* volume that is not active.                                              *)
(***************************************************************************)
\* Mutant of RollbackVolumes: it selects the active volume, not the other one.
RollbackActiveVolume(p) ==
    /\ At(p, "rb_volumes")
    /\ LET d      == Advance(dev)
           volume == ActiveVolume(d)
       IN /\ dev' = d
          /\ Become(p, IF IsRebooting(d) THEN Again(p)
                       ELSE [Goto(p, "activate") EXCEPT !.volume = volume,
                                                        !.version = d.image[volume]])

RollbackVolumes(p) ==
    /\ At(p, "rb_volumes")
    /\ LET d      == Advance(dev)
           volume == InactiveVolume(d)
       IN \/ /\ dev' = d
             /\ Become(p, IF IsRebooting(d) THEN Again(p)
                          ELSE [Goto(p, "activate") EXCEPT !.volume = volume,
                                                           !.version = d.image[volume]])
          \/ Lossy /\ dev' \in {dev, d} /\ Become(p, Again(p))

(***************************************************************************)
(* f5_failover: trigger only when ACTIVE was read.                         *)
(***************************************************************************)
\* Mutant of FailoverStatus: the trigger task has no "when".
FailoverUnchecked(p) == At(p, "fo_status") /\ Uri(p, Advance(dev), Goto(p, "fo_trigger"))

FailoverStatus(p) ==
    /\ At(p, "fo_status")
    /\ LET d == Advance(dev)
       IN Uri(p, d, Goto(p, IF d.ha = "ACTIVE" THEN "fo_trigger" ELSE "ok"))

FailoverTrigger(p) ==
    /\ At(p, "fo_trigger")
    /\ LET d == Advance(dev)
       IN Uri(p, [d EXCEPT !.ha = IF @ = "ACTIVE" THEN "STANDBY" ELSE "ACTIVE"], Goto(p, "ok"))

----------------------------------------------------------------------------
Preflight(p) ==
    PreflightVersion(p) \/ PreflightFailover(p) \/ PreflightSync(p) \/ PreflightPerf(p)

ImageInstall(p) == DiscoverVolume(p) \/ RegisterImage(p) \/ KickOffInstall(p) \/ PollInstall(p)

BootSwitch(p) == Activate(p) \/ Reboot(p) \/ PollVersion(p)

Gate(p) == GateVersion(p) \/ GateFailover(p) \/ GateSync(p)

Postcheck(p) == PostcheckVersion(p) \/ PostcheckPlan(p)

Failover(p) == FailoverStatus(p) \/ FailoverTrigger(p)

Task(p) ==
    \/ Preflight(p)
    \/ Backup(p)
    \/ ImageInstall(p)
    \/ BootSwitch(p)
    \/ Gate(p)
    \/ Postcheck(p)
    \/ RollbackVolumes(p)
    \/ Failover(p)

\* One second: the device's deadlines and the pauses of the until loops.
Tick ==
    /\ TimersRunning(dev) \/ \E p \in Plays : play[p].sleep > 0
    /\ dev' = Elapse(dev)
    /\ play' = [p \in Plays |-> [play[p] EXCEPT !.sleep = Less(@)]]

\* A test or an operator raises a chaos flag.
Inject(flag) ==
    /\ dev.reboot = NoReboot
    /\ flag \notin dev.chaos
    /\ dev' = [dev EXCEPT !.chaos = @ \cup {flag}]
    /\ UNCHANGED play

Next ==
    \/ \E p \in Plays, kind \in Kinds, target \in Targets : Launch(p, kind, target)
    \/ \E p \in Plays : Task(p)
    \/ Tick
    \/ \E flag \in Injected : Inject(flag)

Spec == Init /\ [][Next]_vars

\* ansible-playbook runs each launched play to its end, and time passes.
FairSpec == Spec /\ WF_vars(Tick) /\ \A p \in Plays : WF_vars(Task(p))

----------------------------------------------------------------------------
(***************************************************************************)
(* Properties.                                                             *)
(***************************************************************************)

\* Registered facts, loop counters and the device keep their types; the
\* attempts left in an until loop never fall below zero.
TypeOK == dev \in Device /\ play \in [Plays -> PlayState]

Ends(p, kind, pc) == play[p].kind = kind /\ play[p].pc # pc /\ play'[p].pc = pc

Healthy(d) == d.ha # "FORCED OFFLINE" /\ d.sync # "Disconnected"

\* The health gate "either blocks bad upgrades or it does not exist": when a
\* play with a gate reports success, the device runs the version the play was
\* to bring up and is healthy, although the gate read its three facts at
\* different times.
SuccessMeansHealthy ==
    [][\A p \in Plays : Ends(p, "upgrade", "ok") \/ Ends(p, "rollback", "ok") =>
          /\ dev'.running = play[p].version
          /\ ~IsRebooting(dev')
          /\ Healthy(dev')]_vars

\* "The two-volume boot model is the safety net": from its launch until the
\* next play, an upgrade leaves the volume the device ran from as it was.  With
\* three plays it fails if a rollback comes in between: after an upgrade that gave
\* up while its install went on, the rollback boots the volume being written, and
\* its image changes under the upgrade that follows.
WayBackKept ==
    \A p \in Plays :
        /\ play[p].kind = "upgrade" /\ play[p].pc # "idle"
        /\ \A q \in Plays : q > p => play[q].pc = "idle"
        => dev.image[play[p].before.volume] = play[p].before.image

\* A rollback that succeeds right after an upgrade that got as far as flipping
\* the boot volume, whatever then went wrong with it, brings back the version
\* the device ran before that upgrade.
RollbackReturnsToPrior ==
    [][\A p, q \in Plays :
          /\ q = p + 1 /\ Ends(q, "rollback", "ok")
          /\ play[p].kind = "upgrade" /\ play[p].activated
          => dev'.running = play[p].before.running]_vars

\* d is relieved of its traffic in e; one that is out of service stays that way.
Relieved(d, e) ==
    Advance(e).ha = IF Advance(d).ha = "FORCED OFFLINE" THEN "FORCED OFFLINE" ELSE "STANDBY"

\* A failover play that succeeds leaves the device STANDBY, also when it repeats
\* one whose answer was lost; only one that is FORCED OFFLINE is left as it was
\* found, which the role reports as skipped.
FailoverEndsStandby ==
    [][\A p \in Plays : Ends(p, "failover", "ok") => Relieved(dev, dev')]_vars

\* No play is aborted unless something is wrong: without faults the poll
\* budgets (retries * delay) suffice, to the second.
NoFalseAbort == \A p \in Plays : play[p].pc # "failed"

\* Every launched play ends: the until loops are bounded whatever else happens
\* to the device meanwhile.
PlaysEnd == \A p \in Plays : play[p].pc \notin Ended \cup {"idle"} ~> play[p].pc \in Ended

(***************************************************************************)
(* What MockDevice assumes of role clients is what these plays do.         *)
(***************************************************************************)
Mock == INSTANCE MockDevice
          WITH RoleClients <- TRUE, MaxOps <- Cardinality(Plays), MaxBackups <- Cardinality(Plays)

\* One play at a time keeps to the discipline: installs go to the inactive
\* volume and no volume is activated while an install is in progress.
RolesAreDisciplined == Mock!Spec

(***************************************************************************)
(* What the runbooks say of running a play again.                          *)
(***************************************************************************)

\* Rolling back a device whose upgrade did not get as far as the boot switch:
\* "the active volume is already correct" (runbooks/04-rollback.md:37).
RollbackAfterAbortKeepsVolume ==
    [][\A p, q \in Plays :
          /\ q = p + 1 /\ Ends(q, "rollback", "ok")
          /\ play[p].kind = "upgrade" /\ ~play[p].activated
          => ActiveVolume(dev') = play[p].before.volume]_vars
============================================================================
