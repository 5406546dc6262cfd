---------------------------- MODULE WaveRollout ----------------------------
(***************************************************************************)
(* Fleet upgrades in waves: .github/workflows/_upgrade-wave-reusable.yml   *)
(* called by upgrade-canary.yml and upgrade-wave.yml, the gate             *)
(* observability/ingest/gate.py between two waves, the artifacts that      *)
(* observability/ingest/writer.py emits for it, and the metrics that       *)
(* observability/ingest/pusher.py makes of them.  A step is one step of a  *)
(* job; jobs of one run and of several runs interleave.                    *)
(***************************************************************************)
EXTENDS Integers, FiniteSets

CONSTANTS
    Waves,          \* inventory groups
    Canary,         \* the wave that no other one gates
    DevicesOf,      \* DevicesOf[w]: hosts of the group in ansible/inventory
    Thresholds,     \* values of gate_threshold, in percent
    Parallelism,    \* max-parallel
    WaitsForPrior,  \* TRUE: a wave is dispatched when the run that gates it is over
    SetupBreaks,    \* TRUE: a job may fail before its start time is recorded
    EmitBreaks,     \* TRUE: a job may fail to write or to upload its artifact
    MaxRuns         \* bound: workflow runs

ASSUME WavesAssumption ==
    /\ Canary \in Waves
    /\ IsFiniteSet(Waves)
    /\ \A w \in Waves : IsFiniteSet(DevicesOf[w])
    /\ \A v, w \in Waves : v # w => DevicesOf[v] \cap DevicesOf[w] = {}
    /\ Thresholds \subseteq 0..100 /\ Thresholds # {}
    /\ Parallelism \in Nat /\ MaxRuns \in Nat
    /\ {WaitsForPrior, SetupBreaks, EmitBreaks} \subseteq BOOLEAN

Runs == 1..MaxRuns

Devices == UNION {DevicesOf[w] : w \in Waves}

VARIABLES
    run,        \* run[r]: inputs and state of a workflow run
    job,        \* job[r][d]: how far the matrix job of device d is
    outcome,    \* outcome[r][d]: outcome of the job's upgrade step
    artifact,   \* artifact[r][d]: status in the uploaded JSON, or "none"
    metrics     \* metrics[w]: the Pushgateway group of wave w

vars == <<run, job, outcome, artifact, metrics>>

RunState ==
    [wave      : Waves,
     priorWave : Waves,
     prior     : Runs \cup {0},     \* prior_wave_run_id, 0 when there is none
     threshold : Thresholds,
     status    : {"none", "queued", "active", "over", "cancelled"},
     gate      : {"pending", "success", "failure", "broken", "skipped", "cancelled"},
     discover  : {"pending", "success", "failure", "cancelled"},
     push      : {"pending", "success", "failure"}]

JobStates == {"waiting", "setup", "started", "emitting", "over"}

Outcomes == {"none", "success", "failure", "skipped"}

\* nexusf5_upgrade_total by status, and the run that pushed it (0: nobody did).
Group == [run : Runs \cup {0}, success : Nat, failed : Nat]

Init ==
    /\ run = [r \in Runs |-> [wave |-> Canary, priorWave |-> Canary, prior |-> 0,
                              threshold |-> CHOOSE t \in Thresholds : TRUE,
                              status |-> "none", gate |-> "pending",
                              discover |-> "pending", push |-> "pending"]]
    /\ job = [r \in Runs |-> [d \in Devices |-> "waiting"]]
    /\ outcome = [r \in Runs |-> [d \in Devices |-> "none"]]
    /\ artifact = [r \in Runs |-> [d \in Devices |-> "none"]]
    /\ metrics = [w \in Waves |-> [run |-> 0, success |-> 0, failed |-> 0]]

----------------------------------------------------------------------------
(***************************************************************************)
(* Runs.  The concurrency group lets one run per wave go on at a time; of  *)
(* those that wait for it GitHub keeps the newest only.                    *)
(***************************************************************************)
Dispatch(r, wave, priorWave, prior, threshold) ==
    /\ run[r].status = "none"
    /\ r > 1 => run[r - 1].status # "none"
    /\ IF wave = Canary THEN prior = 0 ELSE prior # 0 /\ run[prior].status # "none"
    /\ WaitsForPrior /\ prior # 0 => run[prior].status \in {"over", "cancelled"}
    /\ run' = [run EXCEPT ![r] = [wave |-> wave, priorWave |-> priorWave, prior |-> prior,
                                  threshold |-> threshold, status |-> "queued",
                                  gate |-> IF prior = 0 THEN "skipped" ELSE "pending",
                                  discover |-> "pending", push |-> "pending"]]
    /\ UNCHANGED <<job, outcome, artifact, metrics>>

SameGroup(r, status) == {s \in Runs : run[s].wave = run[r].wave /\ run[s].status = status}

\* Mutant of Start: no concurrency group.
StartAtOnce(r) ==
    /\ run[r].status = "queued"
    /\ run' = [run EXCEPT ![r].status = "active"]
    /\ UNCHANGED <<job, outcome, artifact, metrics>>

Start(r) ==
    /\ run[r].status = "queued"
    /\ SameGroup(r, "active") = {}
    /\ \A s \in SameGroup(r, "queued") : r <= s
    /\ run' = [run EXCEPT ![r].status = "active"]
    /\ UNCHANGED <<job, outcome, artifact, metrics>>

Supersede(r) ==
    /\ run[r].status = "queued"
    /\ \E s \in SameGroup(r, "queued") : r < s
    /\ run' = [run EXCEPT ![r].status = "cancelled"]
    /\ UNCHANGED <<job, outcome, artifact, metrics>>

\* Cancelled by hand: gate and discover stop; the matrix and the push do not,
\* because their condition says always().
Cancel(r) ==
    /\ run[r].status = "active"
    /\ run[r].gate = "pending" \/ run[r].discover = "pending"
    /\ run' = [run EXCEPT ![r].gate = IF @ = "pending" THEN "cancelled" ELSE @,
                          ![r].discover = IF @ = "pending" THEN "cancelled" ELSE @]
    /\ UNCHANGED <<job, outcome, artifact, metrics>>

----------------------------------------------------------------------------
(***************************************************************************)
(* The gate job: download the artifacts named after the prior wave from    *)
(* the prior run, whatever there is of them, and evaluate.  writer.py      *)
(* emits only what the schema admits, so each of them validates.           *)
(***************************************************************************)
Downloaded(r) ==
    LET q == run[r].prior
    IN IF run[q].wave # run[r].priorWave THEN {} ELSE {d \in Devices : artifact[q][d] # "none"}

\* rate = succeeded / total is not below the threshold.
Meets(succeeded, total, threshold) == 100 * succeeded >= threshold * total

\* Mutant of Evaluate: the threshold itself does not pass.
EvaluateAbove(files, status, threshold) ==
    100 * Cardinality({d \in files : status[d] = "success"}) > threshold * Cardinality(files)

Evaluate(files, status, threshold) ==
    /\ files # {}
    /\ Meets(Cardinality({d \in files : status[d] = "success"}), Cardinality(files), threshold)

Gate(r) ==
    /\ run[r].status = "active" /\ run[r].gate = "pending"
    /\ run' = [run EXCEPT ![r].gate =
                 IF Evaluate(Downloaded(r), artifact[run[r].prior], run[r].threshold)
                   THEN "success" ELSE "failure"]
    /\ UNCHANGED <<job, outcome, artifact, metrics>>

\* Checkout, the download or uv fails before evaluate: the job fails all the same.
BreakGate(r) ==
    /\ run[r].status = "active" /\ run[r].gate = "pending"
    /\ run' = [run EXCEPT ![r].gate = "broken"]
    /\ UNCHANGED <<job, outcome, artifact, metrics>>

----------------------------------------------------------------------------
(***************************************************************************)
(* The upgrade matrix.                                                     *)
(***************************************************************************)
\* list_wave_devices refuses to emit an empty matrix.
Discover(r) ==
    /\ run[r].status = "active" /\ run[r].discover = "pending"
    /\ run' = [run EXCEPT ![r].discover = IF DevicesOf[run[r].wave] # {}
                                            THEN "success" ELSE "failure"]
    /\ UNCHANGED <<job, outcome, artifact, metrics>>

Admits(r) == run[r].discover = "success" /\ run[r].gate \in {"success", "skipped"}

MayUpgrade(r) == run[r].status = "active" /\ Admits(r)

InProgress(r) == {d \in Devices : job[r][d] \in {"setup", "started", "emitting"}}

Move(r, d, from, to) == job[r][d] = from /\ job' = [job EXCEPT ![r][d] = to]

\* Mutant of StartJob: fail-fast, a failure stops the rest of the matrix.
StartJobFailFast(r, d) ==
    /\ MayUpgrade(r) /\ d \in DevicesOf[run[r].wave]
    /\ Cardinality(InProgress(r)) < Parallelism
    /\ \A e \in Devices : outcome[r][e] # "failure"
    /\ Move(r, d, "waiting", "setup")
    /\ UNCHANGED <<run, outcome, artifact, metrics>>

StartJob(r, d) ==
    /\ MayUpgrade(r) /\ d \in DevicesOf[run[r].wave]
    /\ Cardinality(InProgress(r)) < Parallelism
    /\ Move(r, d, "waiting", "setup")
    /\ UNCHANGED <<run, outcome, artifact, metrics>>

\* Checkout, installs and mock-up went well: the start time is recorded.
RecordStart(r, d) == Move(r, d, "setup", "started") /\ UNCHANGED <<run, outcome, artifact, metrics>>

\* One of them failed: START_ISO stays empty and the upgrade step is skipped,
\* but the emit step runs (if: always()).
BreakSetup(r, d) ==
    /\ SetupBreaks
    /\ Move(r, d, "setup", "over")
    /\ outcome' = [outcome EXCEPT ![r][d] = "skipped"]
    /\ UNCHANGED <<run, artifact, metrics>>

\* The preflight and upgrade steps: "skipped" when preflight failed.
Upgrade(r, d, result) ==
    /\ Move(r, d, "started", "emitting")
    /\ outcome' = [outcome EXCEPT ![r][d] = result]
    /\ UNCHANGED <<run, artifact, metrics>>

\* Mutant of Status: GitHub's word for it instead of the schema's.
StatusUnmapped(result) == result

Status(result) == IF result = "success" THEN "success" ELSE "failed"

\* What the job leaves for the gate.
Emit(r, d) ==
    /\ Move(r, d, "emitting", "over")
    /\ artifact' = [artifact EXCEPT ![r][d] = Status(outcome[r][d])]
    /\ UNCHANGED <<run, outcome, metrics>>

\* uv, the writer or the upload fails, or the runner is lost: no artifact, and the
\* outcome of the upgrade is known to nobody.
BreakEmit(r, d) ==
    /\ EmitBreaks
    /\ Move(r, d, "emitting", "over")
    /\ UNCHANGED <<run, outcome, artifact, metrics>>

----------------------------------------------------------------------------
(***************************************************************************)
(* push-metrics: when every job of the matrix is over, one PUT replaces    *)
(* the wave's group by the counts of this run's artifacts.  Without any    *)
(* artifact the pusher refuses, and the PUT may fail; "failure" stands for *)
(* a run without a Pushgateway too, which pushes nothing.                  *)
(***************************************************************************)
With(r, status) == Cardinality({d \in Devices : artifact[r][d] = status})

AllOver(r) == \A d \in DevicesOf[run[r].wave] : job[r][d] = "over"

PushResult(r, result) ==
    /\ MayUpgrade(r) /\ run[r].push = "pending"
    /\ result = "success" => \E d \in Devices : artifact[r][d] # "none"
    /\ run' = [run EXCEPT ![r].push = result]
    /\ metrics' = IF result # "success" THEN metrics
                  ELSE [metrics EXCEPT ![run[r].wave] =
                          [run |-> r, success |-> With(r, "success"), failed |-> With(r, "failed")]]
    /\ UNCHANGED <<job, outcome, artifact>>

\* Mutant of Push: the push does not need the matrix.
PushEarly(r, result) == PushResult(r, result)

Push(r, result) == AllOver(r) /\ PushResult(r, result)

\* All jobs are over or skipped.
Finish(r) ==
    /\ run[r].status = "active"
    /\ run[r].gate # "pending" /\ run[r].discover # "pending"
    /\ Admits(r) => run[r].push # "pending"
    /\ run' = [run EXCEPT ![r].status = "over"]
    /\ UNCHANGED <<job, outcome, artifact, metrics>>

Job(r, d) ==
    \/ StartJob(r, d)
    \/ RecordStart(r, d)
    \/ BreakSetup(r, d)
    \/ \E result \in {"success", "failure", "skipped"} : Upgrade(r, d, result)
    \/ Emit(r, d)
    \/ BreakEmit(r, d)

Next ==
    \/ \E r \in Runs, wave, priorWave \in Waves, prior \in Runs \cup {0}, t \in Thresholds :
          Dispatch(r, wave, priorWave, prior, t)
    \/ \E r \in Runs :
          \/ Start(r) \/ Supersede(r) \/ Cancel(r) \/ Gate(r) \/ BreakGate(r) \/ Discover(r) \/ Finish(r)
          \/ \E result \in {"success", "failure"} : Push(r, result)
    \/ \E r \in Runs, d \in Devices : Job(r, d)

Spec == Init /\ [][Next]_vars

\* GitHub schedules what can run, reviewers approve, every step ends.  Nobody has
\* to dispatch or to cancel.
FairSpec ==
    /\ Spec
    /\ \A r \in Runs : /\ WF_vars(Start(r)) /\ WF_vars(Gate(r)) /\ WF_vars(Discover(r))
                      /\ WF_vars(Finish(r)) /\ WF_vars(\E result \in {"success", "failure"} :
                                                          Push(r, result))
    /\ \A r \in Runs, d \in Devices : WF_vars(Job(r, d))

----------------------------------------------------------------------------
(***************************************************************************)
(* Properties.                                                             *)
(***************************************************************************)

\* Runs, jobs and step outcomes take their declared values only, and what is
\* uploaded satisfies the schema of gate.py: "success" or "failed".
TypeOK ==
    /\ run \in [Runs -> RunState]
    /\ job \in [Runs -> [Devices -> JobStates]]
    /\ outcome \in [Runs -> [Devices -> Outcomes]]
    /\ artifact \in [Runs -> [Devices -> {"none", "success", "failed"}]]
    /\ metrics \in [Waves -> Group]

\* A gated run touches devices.
Promoted(r) == run[r].prior # 0 /\ \E d \in Devices : job[r][d] # "waiting"

\* The devices whose job is over and has left no artifact: it broke before it
\* recorded a start time, or the artifact could not be written or uploaded.
Unrecorded(q) == {d \in Devices : job[q][d] = "over" /\ artifact[q][d] = "none"}

\* Run q earned wave w the promotion: of its devices, except those that left no
\* artifact, and there are others, no larger share failed than the threshold
\* tolerates ("0.95 would tolerate up to 5% device failures", gate.py:72-73).
Earned(q, w, threshold) ==
    LET counted == DevicesOf[w] \ Unrecorded(q)
        failed == {d \in counted : outcome[q][d] # "success"}
    IN /\ counted # {}
       /\ 100 * Cardinality(failed) <= (100 - threshold) * Cardinality(counted)

\* A wave starts only when the wave before it earned it: devices of that wave that
\* are still under way, or that nobody has started, count as failed ("to prevent a
\* partially-run or skipped prior wave from silently unlocking the next one",
\* gate.py:12-13).  Devices whose job left no artifact are not counted, whatever
\* became of their upgrade: the gate does not know how many it should find.
PromotionEarned ==
    \A r \in Runs : Promoted(r) => Earned(run[r].prior, run[r].priorWave, run[r].threshold)

\* And a gate that was evaluated on a wave that ran to its end refuses only one that
\* did not earn it: a rate of exactly the threshold passes (gate.py:121).
GateIsExact ==
    /\ PromotionEarned
    /\ \A r \in Runs :
          LET q == run[r].prior
              w == run[r].priorWave
          IN q # 0 /\ run[r].gate = "failure" /\ (\A d \in DevicesOf[w] : job[q][d] = "over")
                => ~ Earned(q, w, run[r].threshold)

\* A device is in the hands of one job at a time, however often its wave is kicked
\* ("Two kicks of the same wave serialize", _upgrade-wave-reusable.yml:63-64).
OneJobPerDevice ==
    \A r, s \in Runs, d \in Devices :
        d \in InProgress(r) /\ d \in InProgress(s) => r = s

\* What the dashboard shows of a wave is one run, whole: the newest one whose push
\* went through, with all the artifacts it will ever have.
MetricsAreOfNewestRun ==
    \A w \in Waves :
        LET pushed == {r \in Runs : run[r].wave = w /\ run[r].push = "success"}
            q == metrics[w].run
        IN IF pushed = {} THEN q = 0
           ELSE /\ q \in pushed /\ \A r \in pushed : r <= q
                /\ metrics[w].success = With(q, "success")
                /\ metrics[w].failed = With(q, "failed")

\* One failing device does not keep the others of its wave waiting
\* (fail-fast: false), and the slots of the matrix are handed on; also when the run
\* is cancelled by hand, for always() keeps the matrix going.
EveryDeviceAttempted ==
    \A r \in Runs : MayUpgrade(r) ~> \A d \in DevicesOf[run[r].wave] : outcome[r][d] # "none"
============================================================================
