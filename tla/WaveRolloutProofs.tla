------------------------- MODULE WaveRolloutProofs -------------------------
(***************************************************************************)
(* Theorems of WaveRollout, for any number of waves, devices and runs.     *)
(***************************************************************************)
EXTENDS WaveRollout, FiniteSetTheorems, TLAPS

----------------------------------------------------------------------------
(***************************************************************************)
(* What a run's own jobs have in common.  Only a breakage leaves none of   *)
(* the artifacts.                                                          *)
(***************************************************************************)
JobOK(r, d) ==
    /\ job[r][d] \in {"waiting", "setup", "started"} =>
          outcome[r][d] = "none" /\ artifact[r][d] = "none"
    /\ job[r][d] = "emitting" => outcome[r][d] # "none" /\ artifact[r][d] = "none"
    /\ job[r][d] = "over" =>
          /\ outcome[r][d] # "none"
          /\ \/ artifact[r][d] = Status(outcome[r][d])
             \/ artifact[r][d] = "none" /\ (SetupBreaks \/ EmitBreaks)
    /\ job[r][d] # "waiting" =>
          /\ d \in DevicesOf[run[r].wave]
          /\ Admits(r) /\ run[r].status \in {"active", "over"}

\* The push comes after the matrix, and a run that had a matrix ends after the push.
PushOK(r) ==
    /\ run[r].push # "pending" =>
          AllOver(r) /\ Admits(r) /\ run[r].status \in {"active", "over"}
    /\ run[r].status = "over" /\ Admits(r) => run[r].push # "pending"

\* Nothing has become of a run before it is dispatched.
FreshOK(r) == run[r].status = "none" => run[r].gate = "pending"

JobsOK ==
    /\ \A r \in Runs, d \in Devices : JobOK(r, d)
    /\ \A r \in Runs : PushOK(r) /\ FreshOK(r)

Ended(r) == run[r].status \in {"over", "cancelled"}

\* Runs are numbered as they are dispatched, and those of one wave take their turn.
Ordered ==
    \A r, s \in Runs : r < s =>
        /\ run[s].status # "none" => run[r].status # "none"
        /\ run[s].wave = run[r].wave /\ run[s].status \in {"active", "over"} => Ended(r)

Inv == TypeOK /\ JobsOK /\ Ordered

\* A run waits for the end of the one that gates it, and the gate was passed, or
\* refused, on what that run left behind.
GateOK(r) ==
    run[r].status # "none" =>
        /\ run[r].prior = 0 => run[r].gate = "skipped"
        /\ run[r].prior # 0 => Ended(run[r].prior) /\ run[r].gate # "skipped"
        /\ run[r].gate = "success" =>
              Evaluate(Downloaded(r), artifact[run[r].prior], run[r].threshold)
        /\ run[r].gate = "failure" =>
              ~ Evaluate(Downloaded(r), artifact[run[r].prior], run[r].threshold)

Gated == \A r \in Runs : GateOK(r)

----------------------------------------------------------------------------
LEMMA DevicesFinite == IsFiniteSet(Devices)
<1> DEFINE Groups == {DevicesOf[w] : w \in Waves}
           f == [w \in Waves |-> DevicesOf[w]]
<1>1. f \in Surjection(Waves, Groups)
  BY DEF Surjection
<1>2. IsFiniteSet(Groups)
  BY <1>1, FS_Surjection, WavesAssumption
<1>3. \A S \in Groups : IsFiniteSet(S)
  BY WavesAssumption
<1> HIDE DEF Groups
<1>4. IsFiniteSet(UNION Groups)
  BY <1>2, <1>3, FS_UNION
<1>5. QED
  BY <1>4 DEF Devices, Groups

LEMMA WithNat == ASSUME NEW r, NEW status PROVE With(r, status) \in Nat
<1>1. IsFiniteSet({d \in Devices : artifact[r][d] = status})
  BY DevicesFinite, FS_Subset
<1>2. QED
  BY <1>1, FS_CardinalityType DEF With

LEMMA DevicesOfDevices == ASSUME NEW w \in Waves PROVE DevicesOf[w] \subseteq Devices
BY DEF Devices

\* A device belongs to one wave.
LEMMA OneWave ==
    ASSUME NEW v \in Waves, NEW w \in Waves, NEW d,
           d \in DevicesOf[v], d \in DevicesOf[w]
    PROVE  v = w
BY WavesAssumption

----------------------------------------------------------------------------
(***************************************************************************)
(* Types.                                                                  *)
(***************************************************************************)
LEMMA InitInv == Init => Inv
<1> SUFFICES ASSUME Init PROVE Inv
  OBVIOUS
<1>1. (CHOOSE t \in Thresholds : TRUE) \in Thresholds
  BY WavesAssumption
<1>2. TypeOK
  BY <1>1, WavesAssumption DEF Init, TypeOK, RunState, JobStates, Outcomes, Group
<1>3. JobsOK
  BY DEF Init, JobsOK, JobOK, PushOK, FreshOK
<1>4. Ordered
  BY DEF Init, Ordered
<1>5. QED
  BY <1>2, <1>3, <1>4 DEF Inv

LEMMA RunFields ==
    ASSUME NEW rec \in RunState
    PROVE  /\ [rec EXCEPT !.status = "active"] \in RunState
           /\ [rec EXCEPT !.status = "over"] \in RunState
           /\ [rec EXCEPT !.status = "cancelled"] \in RunState
           /\ [rec EXCEPT !.gate = "broken"] \in RunState
           /\ \A x \in {"success", "failure"} : /\ [rec EXCEPT !.gate = x] \in RunState
                                               /\ [rec EXCEPT !.discover = x] \in RunState
                                               /\ [rec EXCEPT !.push = x] \in RunState
BY DEF RunState

LEMMA TypeStep == TypeOK /\ [Next]_vars => TypeOK'
<1> SUFFICES ASSUME TypeOK, [Next]_vars PROVE TypeOK'
  OBVIOUS
<1> USE DEF TypeOK
<1>1. ASSUME NEW r \in Runs, NEW wave \in Waves, NEW priorWave \in Waves,
             NEW prior \in Runs \cup {0}, NEW t \in Thresholds,
             Dispatch(r, wave, priorWave, prior, t)
      PROVE  TypeOK'
  <2>1. [wave |-> wave, priorWave |-> priorWave, prior |-> prior, threshold |-> t,
         status |-> "queued", gate |-> IF prior = 0 THEN "skipped" ELSE "pending",
         discover |-> "pending", push |-> "pending"] \in RunState
    BY DEF RunState
  <2>2. QED
    BY <1>1, <2>1 DEF Dispatch
<1>2. ASSUME NEW r \in Runs, Start(r) PROVE TypeOK'
  <2>1. run' = [run EXCEPT ![r] = [run[r] EXCEPT !.status = "active"]]
    BY <1>2 DEF Start
  <2>2. [run[r] EXCEPT !.status = "active"] \in RunState
    BY RunFields
  <2>3. QED
    BY <1>2, <2>1, <2>2 DEF Start
<1>3. ASSUME NEW r \in Runs, Supersede(r) PROVE TypeOK'
  <2>1. run' = [run EXCEPT ![r] = [run[r] EXCEPT !.status = "cancelled"]]
    BY <1>3 DEF Supersede
  <2>2. [run[r] EXCEPT !.status = "cancelled"] \in RunState
    BY RunFields
  <2>3. QED
    BY <1>3, <2>1, <2>2 DEF Supersede
<1>4. ASSUME NEW r \in Runs, Cancel(r) PROVE TypeOK'
  <2> DEFINE gate == IF run[r].gate = "pending" THEN "cancelled" ELSE run[r].gate
             discover == IF run[r].discover = "pending" THEN "cancelled" ELSE run[r].discover
  <2>1. run' = [run EXCEPT ![r] = [run[r] EXCEPT !.gate = gate, !.discover = discover]]
    BY <1>4 DEF Cancel, RunState
  <2>2. run[r] \in RunState
    OBVIOUS
  <2>3. /\ gate \in {"pending", "success", "failure", "broken", "skipped", "cancelled"}
        /\ discover \in {"pending", "success", "failure", "cancelled"}
    BY <2>2 DEF RunState
  <2> HIDE DEF gate, discover, TypeOK
  <2>4. [run[r] EXCEPT !.gate = gate, !.discover = discover] \in RunState
    BY <2>2, <2>3 DEF RunState
  <2>5. run \in [Runs -> RunState]
    BY DEF TypeOK
  <2>6. run' \in [Runs -> RunState]
    BY <2>1, <2>4, <2>5
  <2>7. job' = job /\ outcome' = outcome /\ artifact' = artifact /\ metrics' = metrics
    BY <1>4 DEF Cancel
  <2>8. QED
    BY <2>6, <2>7 DEF TypeOK
<1>5. ASSUME NEW r \in Runs, Gate(r) PROVE TypeOK'
  <2> DEFINE passes == Evaluate(Downloaded(r), artifact[run[r].prior], run[r].threshold)
  <2>1. run' = [run EXCEPT ![r] = [run[r] EXCEPT !.gate = IF passes THEN "success"
                                                                    ELSE "failure"]]
    BY <1>5 DEF Gate
  <2> HIDE DEF passes
  <2>2. [run[r] EXCEPT !.gate = IF passes THEN "success" ELSE "failure"] \in RunState
    <3>1. (IF passes THEN "success" ELSE "failure") \in {"success", "failure"}
      OBVIOUS
    <3>2. run[r] \in RunState
      OBVIOUS
    <3> HIDE DEF TypeOK
    <3>3. QED
      BY <3>1, <3>2, RunFields
  <2>3. run' \in [Runs -> RunState]
    BY <2>1, <2>2
  <2>4. job' = job /\ outcome' = outcome /\ artifact' = artifact /\ metrics' = metrics
    BY <1>5 DEF Gate
  <2>5. QED
    BY <2>3, <2>4
<1>6. ASSUME NEW r \in Runs, Discover(r) PROVE TypeOK'
  <2> DEFINE some == DevicesOf[run[r].wave] # {}
  <2>1. run' = [run EXCEPT ![r] = [run[r] EXCEPT !.discover = IF some THEN "success"
                                                                      ELSE "failure"]]
    BY <1>6 DEF Discover
  <2> HIDE DEF some
  <2>2. [run[r] EXCEPT !.discover = IF some THEN "success" ELSE "failure"] \in RunState
    <3>1. (IF some THEN "success" ELSE "failure") \in {"success", "failure"}
      OBVIOUS
    <3>2. run[r] \in RunState
      OBVIOUS
    <3> HIDE DEF TypeOK
    <3>3. QED
      BY <3>1, <3>2, RunFields
  <2>3. run' \in [Runs -> RunState]
    BY <2>1, <2>2
  <2>4. job' = job /\ outcome' = outcome /\ artifact' = artifact /\ metrics' = metrics
    BY <1>6 DEF Discover
  <2>5. QED
    BY <2>3, <2>4
<1>7. ASSUME NEW r \in Runs, Finish(r) PROVE TypeOK'
  <2>1. run' = [run EXCEPT ![r] = [run[r] EXCEPT !.status = "over"]]
    BY <1>7 DEF Finish
  <2>2. [run[r] EXCEPT !.status = "over"] \in RunState
    BY RunFields
  <2>3. QED
    BY <1>7, <2>1, <2>2 DEF Finish
<1>8. ASSUME NEW r \in Runs, NEW result \in {"success", "failure"}, Push(r, result)
      PROVE  TypeOK'
  <2>0. run' = [run EXCEPT ![r] = [run[r] EXCEPT !.push = result]]
    BY <1>8 DEF Push, PushResult
  <2>1. [run[r] EXCEPT !.push = result] \in RunState
    BY RunFields
  <2>2. [run |-> r, success |-> With(r, "success"), failed |-> With(r, "failed")] \in Group
    BY WithNat DEF Group
  <2>3. metrics' \in [Waves -> Group]
    BY <1>8, <2>2 DEF Push, PushResult
  <2>4. QED
    BY <1>8, <2>0, <2>1, <2>3 DEF Push, PushResult
<1>9. ASSUME NEW r \in Runs, NEW d \in Devices, Job(r, d) PROVE TypeOK'
  <2> USE DEF JobStates, Outcomes, Move
  <2>1. CASE StartJob(r, d)
    BY <2>1 DEF StartJob
  <2>2. CASE RecordStart(r, d)
    BY <2>2 DEF RecordStart
  <2>3. CASE BreakSetup(r, d)
    BY <2>3 DEF BreakSetup
  <2>4. ASSUME NEW result \in {"success", "failure", "skipped"}, Upgrade(r, d, result)
        PROVE  TypeOK'
    BY <2>4 DEF Upgrade
  <2>5. CASE Emit(r, d)
    BY <2>5 DEF Emit, Status
  <2>6. CASE BreakEmit(r, d)
    BY <2>6 DEF BreakEmit
  <2>7. QED
    BY <1>9, <2>1, <2>2, <2>3, <2>4, <2>5, <2>6 DEF Job
<1>10. CASE UNCHANGED vars
  BY <1>10 DEF vars
<1>11. ASSUME NEW r \in Runs, BreakGate(r) PROVE TypeOK'
  <2>1. run' = [run EXCEPT ![r] = [run[r] EXCEPT !.gate = "broken"]]
    BY <1>11 DEF BreakGate
  <2>2. [run[r] EXCEPT !.gate = "broken"] \in RunState
    BY RunFields
  <2>3. QED
    BY <1>11, <2>1, <2>2 DEF BreakGate
<1>12. QED
  BY <1>1, <1>2, <1>3, <1>4, <1>5, <1>6, <1>7, <1>8, <1>9, <1>10, <1>11 DEF Next

----------------------------------------------------------------------------
(***************************************************************************)
(* Jobs and pushes.                                                        *)
(***************************************************************************)
LEMMA JobsStep == Inv /\ [Next]_vars => JobsOK'
<1> SUFFICES ASSUME Inv, [Next]_vars PROVE JobsOK'
  OBVIOUS
<1>0. TypeOK /\ JobsOK
  BY DEF Inv
<1> USE DEF JobsOK, JobOK, PushOK, FreshOK, Admits, AllOver
<1>1. ASSUME NEW r \in Runs, NEW wave \in Waves, NEW priorWave \in Waves,
             NEW prior \in Runs \cup {0}, NEW t \in Thresholds,
             Dispatch(r, wave, priorWave, prior, t)
      PROVE  JobsOK'
  BY <1>0, <1>1 DEF Dispatch, TypeOK, RunState
<1>2. ASSUME NEW r \in Runs, Start(r) PROVE JobsOK'
  BY <1>0, <1>2 DEF Start, TypeOK, RunState
<1>3. ASSUME NEW r \in Runs, Supersede(r) PROVE JobsOK'
  BY <1>0, <1>3 DEF Supersede, TypeOK, RunState
<1>4. ASSUME NEW r \in Runs, Cancel(r) PROVE JobsOK'
  BY <1>0, <1>4 DEF Cancel, TypeOK, RunState
<1>5. ASSUME NEW r \in Runs, Gate(r) PROVE JobsOK'
  BY <1>0, <1>5 DEF Gate, TypeOK, RunState
<1>6. ASSUME NEW r \in Runs, Discover(r) PROVE JobsOK'
  BY <1>0, <1>6 DEF Discover, TypeOK, RunState
<1>7. ASSUME NEW r \in Runs, Finish(r) PROVE JobsOK'
  BY <1>0, <1>7 DEF Finish, TypeOK, RunState
<1>8. ASSUME NEW r \in Runs, NEW result \in {"success", "failure"}, Push(r, result)
      PROVE  JobsOK'
  BY <1>0, <1>8 DEF Push, PushResult, MayUpgrade, TypeOK, RunState
<1>9. ASSUME NEW r \in Runs, NEW d \in Devices, Job(r, d) PROVE JobsOK'
  <2> USE <1>0 DEF TypeOK, RunState, Move
  <2>1. CASE StartJob(r, d)
    BY <2>1 DEF StartJob, MayUpgrade
  <2>2. CASE RecordStart(r, d)
    BY <2>2 DEF RecordStart
  <2>3. CASE BreakSetup(r, d)
    BY <2>3 DEF BreakSetup
  <2>4. ASSUME NEW result \in {"success", "failure", "skipped"}, Upgrade(r, d, result)
        PROVE  JobsOK'
    BY <2>4 DEF Upgrade
  <2>5. CASE Emit(r, d)
    BY <2>5 DEF Emit
  <2>6. CASE BreakEmit(r, d)
    BY <2>6 DEF BreakEmit
  <2>7. QED
    BY <1>9, <2>1, <2>2, <2>3, <2>4, <2>5, <2>6 DEF Job
<1>10. CASE UNCHANGED vars
  BY <1>0, <1>10 DEF vars
<1>11. ASSUME NEW r \in Runs, BreakGate(r) PROVE JobsOK'
  BY <1>0, <1>11 DEF BreakGate, TypeOK, RunState
<1>12. QED
  BY <1>1, <1>2, <1>3, <1>4, <1>5, <1>6, <1>7, <1>8, <1>9, <1>10, <1>11 DEF Next

----------------------------------------------------------------------------
(***************************************************************************)
(* The order of runs.                                                      *)
(***************************************************************************)
LEMMA OrderedStep == Inv /\ [Next]_vars => Ordered'
<1> SUFFICES ASSUME Inv, [Next]_vars PROVE Ordered'
  OBVIOUS
<1>0. TypeOK /\ Ordered /\ (\A r \in Runs : r \in Int)
  BY WavesAssumption DEF Inv, Runs
<1> USE DEF Ordered, Ended
<1>1. ASSUME NEW r \in Runs, NEW wave \in Waves, NEW priorWave \in Waves,
             NEW prior \in Runs \cup {0}, NEW t \in Thresholds,
             Dispatch(r, wave, priorWave, prior, t)
      PROVE  Ordered'
  <2>1. \A s \in Runs : s < r => run[s].status # "none"
    <3> SUFFICES ASSUME NEW s \in Runs, s < r PROVE run[s].status # "none"
      OBVIOUS
    <3>1. r - 1 \in Runs /\ run[r - 1].status # "none" /\ (s = r - 1 \/ s < r - 1)
      BY <1>1, WavesAssumption DEF Dispatch, Runs
    <3>2. QED
      BY <1>0, <3>1
  <2>2. \A s \in Runs : r < s => run[s].status = "none"
    BY <1>0, <1>1 DEF Dispatch
  <2>3. /\ run[r].status = "none" /\ run'[r].status = "queued"
        /\ \A s \in Runs : s # r => run'[s] = run[s]
    BY <1>0, <1>1 DEF Dispatch, TypeOK
  <2>4. QED
    BY <1>0, <2>1, <2>2, <2>3
<1>2. ASSUME NEW r \in Runs, Start(r) PROVE Ordered'
  <2>1. /\ run'[r].status = "active" /\ run'[r].wave = run[r].wave
        /\ \A s \in Runs : s # r => run'[s] = run[s]
    BY <1>0, <1>2 DEF Start, TypeOK, RunState
  <2>2. ASSUME NEW s \in Runs, s < r, run[s].wave = run[r].wave
        PROVE  Ended(s)
    <3>1. run[s].status \notin {"queued", "active"}
      BY <1>0, <1>2, <2>2 DEF Start, SameGroup
    <3>2. run[s].status # "none"
      BY <1>0, <1>2, <2>2 DEF Start
    <3>3. QED
      BY <1>0, <3>1, <3>2 DEF TypeOK, RunState
  <2>3. run[r].status = "queued"
    BY <1>2 DEF Start
  <2>4. QED
    BY <1>0, <2>1, <2>2, <2>3
<1>3. ASSUME NEW r \in Runs, Supersede(r) PROVE Ordered'
  BY <1>0, <1>3 DEF Supersede, TypeOK, RunState
<1>4. ASSUME NEW r \in Runs, Cancel(r) PROVE Ordered'
  BY <1>0, <1>4 DEF Cancel, TypeOK, RunState
<1>5. ASSUME NEW r \in Runs, Gate(r) PROVE Ordered'
  BY <1>0, <1>5 DEF Gate, TypeOK, RunState
<1>6. ASSUME NEW r \in Runs, Discover(r) PROVE Ordered'
  BY <1>0, <1>6 DEF Discover, TypeOK, RunState
<1>7. ASSUME NEW r \in Runs, Finish(r) PROVE Ordered'
  BY <1>0, <1>7 DEF Finish, TypeOK, RunState
<1>8. ASSUME NEW r \in Runs, NEW result \in {"success", "failure"}, Push(r, result)
      PROVE  Ordered'
  BY <1>0, <1>8 DEF Push, PushResult, TypeOK, RunState
<1>9. ASSUME NEW r \in Runs, NEW d \in Devices, Job(r, d) PROVE Ordered'
  BY <1>0, <1>9 DEF Job, StartJob, RecordStart, BreakSetup, Upgrade, Emit, BreakEmit
<1>10. CASE UNCHANGED vars
  BY <1>0, <1>10 DEF vars
<1>11. ASSUME NEW r \in Runs, BreakGate(r) PROVE Ordered'
  BY <1>0, <1>11 DEF BreakGate, TypeOK, RunState
<1>12. QED
  BY <1>1, <1>2, <1>3, <1>4, <1>5, <1>6, <1>7, <1>8, <1>9, <1>10, <1>11 DEF Next

LEMMA SpecInv == Spec => []Inv
<1>1. Inv /\ [Next]_vars => Inv'
  BY TypeStep, JobsStep, OrderedStep DEF Inv
<1>2. QED
  BY InitInv, <1>1, PTL DEF Spec

\* Runs, jobs, outcomes, artifacts and metrics are of their types, and what is
\* uploaded satisfies the schema, whatever jobs break and whatever is cancelled.
THEOREM TypeCorrect == Spec => []TypeOK
<1>1. Inv => TypeOK
  BY DEF Inv
<1>2. QED
  BY SpecInv, <1>1, PTL

----------------------------------------------------------------------------
(***************************************************************************)
(* One job per device.                                                     *)
(***************************************************************************)
\* A job is in progress only while its run is active: a run ends after its push,
\* and the push waits for the matrix.
LEMMA InProgressActive ==
    ASSUME Inv, NEW r \in Runs, NEW d \in InProgress(r)
    PROVE  run[r].status = "active" /\ d \in DevicesOf[run[r].wave]
<1>1. d \in Devices /\ job[r][d] \notin {"waiting", "over"} /\ JobOK(r, d) /\ PushOK(r)
  BY DEF InProgress, Inv, JobsOK
<1>2. QED
  BY <1>1 DEF JobOK, PushOK, AllOver

\* However often a wave is kicked, a device is in the hands of one job at a time:
\* the groups of two waves share no device, and the runs of one wave take turns.
THEOREM DevicesAreHeldOnce == Spec => []OneJobPerDevice
<1>1. Inv => OneJobPerDevice
  <2> SUFFICES ASSUME Inv, NEW r \in Runs, NEW s \in Runs, NEW d \in Devices,
                      d \in InProgress(r), d \in InProgress(s), r # s
               PROVE  FALSE
    BY DEF OneJobPerDevice
  <2>1. run[r].status = "active" /\ run[s].status = "active"
    BY InProgressActive
  <2>2. run[r].wave \in Waves /\ run[s].wave \in Waves
    BY DEF Inv, TypeOK, RunState
  <2>3. run[r].wave = run[s].wave
    BY <2>2, InProgressActive, OneWave
  <2>4. r < s \/ s < r
    BY WavesAssumption DEF Runs
  <2>5. QED
    BY <2>1, <2>3, <2>4 DEF Inv, Ordered, Ended
<1>2. QED
  BY SpecInv, <1>1, PTL

----------------------------------------------------------------------------
(***************************************************************************)
(* The metrics of a wave.                                                  *)
(***************************************************************************)
\* A step leaves the artifacts of a run alone when all the jobs of its wave are over,
\* and its wave and prior run once it is dispatched.
LEMMA ArtifactsFrozen ==
    ASSUME Inv, [Next]_vars, NEW q \in Runs,
           run[q].status \in {"over", "cancelled"} \/ run[q].push # "pending"
    PROVE  artifact'[q] = artifact[q] /\ outcome'[q] = outcome[q]
<1>1. ASSUME NEW r \in Runs, NEW d \in Devices, Job(r, d)
      PROVE  artifact'[q] = artifact[q] /\ outcome'[q] = outcome[q]
  <2>1. CASE StartJob(r, d)
    BY <2>1 DEF StartJob
  <2>2. CASE RecordStart(r, d)
    BY <2>2 DEF RecordStart
  <2>3. CASE job[r][d] \in {"setup", "started", "emitting"}
    <3>1. d \in InProgress(r)
      BY <2>3 DEF InProgress
    <3>2. run[r].status = "active" /\ d \in DevicesOf[run[r].wave]
      BY <3>1, InProgressActive
    <3>3. run[r].push = "pending"
      BY <2>3, <3>2 DEF Inv, JobsOK, PushOK, AllOver
    <3>4. r # q
      BY <3>2, <3>3
    <3>5. QED
      BY <1>1, <3>4 DEF Inv, TypeOK, Job, StartJob, RecordStart, BreakSetup, Upgrade, Emit, BreakEmit
  <2>4. QED
    BY <1>1, <2>1, <2>2, <2>3 DEF Job, Move, BreakSetup, Upgrade, Emit, BreakEmit
<1>2. CASE ~(\E r \in Runs, d \in Devices : Job(r, d))
  BY <1>2 DEF Next, vars, Dispatch, Start, Supersede, Cancel, Gate, BreakGate, Discover, Finish,
              Push, PushResult
<1>3. QED
  BY <1>1, <1>2

LEMMA RunFrozen ==
    ASSUME Inv, [Next]_vars, NEW q \in Runs, run[q].status # "none"
    PROVE  /\ run'[q].wave = run[q].wave
           /\ run'[q].priorWave = run[q].priorWave
           /\ run'[q].prior = run[q].prior
           /\ run'[q].threshold = run[q].threshold
           /\ run'[q].status # "none"
           /\ Ended(q) => run'[q].status = run[q].status
<1> USE DEF Inv, TypeOK, RunState, Ended
<1>1. ASSUME NEW r \in Runs, NEW wave \in Waves, NEW priorWave \in Waves,
             NEW prior \in Runs \cup {0}, NEW t \in Thresholds,
             Dispatch(r, wave, priorWave, prior, t)
      PROVE  run'[q] = run[q]
  BY <1>1 DEF Dispatch
<1>2. ASSUME NEW r \in Runs,
             Start(r) \/ Supersede(r) \/ Cancel(r) \/ Gate(r) \/ BreakGate(r) \/ Discover(r) \/ Finish(r)
                \/ \E result \in {"success", "failure"} : Push(r, result)
      PROVE  /\ run'[q].wave = run[q].wave
             /\ run'[q].priorWave = run[q].priorWave
             /\ run'[q].prior = run[q].prior
             /\ run'[q].threshold = run[q].threshold
             /\ run'[q].status # "none"
             /\ Ended(q) => run'[q].status = run[q].status
  <2>1. CASE Start(r)
    BY <2>1 DEF Start
  <2>2. CASE Supersede(r)
    BY <2>2 DEF Supersede
  <2>3. CASE Cancel(r)
    BY <2>3 DEF Cancel
  <2>4. CASE Gate(r)
    BY <2>4 DEF Gate
  <2>0. CASE BreakGate(r)
    BY <2>0 DEF BreakGate
  <2>5. CASE Discover(r)
    BY <2>5 DEF Discover
  <2>6. CASE Finish(r)
    BY <2>6 DEF Finish
  <2>7. ASSUME NEW result \in {"success", "failure"}, Push(r, result)
        PROVE  /\ run'[q].wave = run[q].wave
               /\ run'[q].priorWave = run[q].priorWave
               /\ run'[q].prior = run[q].prior
               /\ run'[q].threshold = run[q].threshold
               /\ run'[q].status = run[q].status
    BY <2>7 DEF Push, PushResult
  <2>8. QED
    BY <1>2, <2>1, <2>2, <2>3, <2>4, <2>5, <2>6, <2>7, <2>0
<1>3. ASSUME NEW r \in Runs, NEW d \in Devices, Job(r, d) PROVE run' = run
  BY <1>3 DEF Job, StartJob, RecordStart, BreakSetup, Upgrade, Emit, BreakEmit
<1>4. CASE UNCHANGED vars
  BY <1>4 DEF vars
<1>5. QED
  BY <1>1, <1>2, <1>3, <1>4 DEF Next

\* Pushes change by Push only.
LEMMA PushFrozen ==
    ASSUME Inv, Next, ~(\E r \in Runs, result \in {"success", "failure"} : Push(r, result))
    PROVE  metrics' = metrics /\ \A q \in Runs : run'[q].push = run[q].push
<1> USE DEF Inv, TypeOK, RunState
<1>1. ASSUME NEW r \in Runs, NEW wave \in Waves, NEW priorWave \in Waves,
             NEW prior \in Runs \cup {0}, NEW t \in Thresholds,
             Dispatch(r, wave, priorWave, prior, t)
      PROVE  metrics' = metrics /\ \A q \in Runs : run'[q].push = run[q].push
  BY <1>1 DEF Dispatch, JobsOK, PushOK
<1>2. ASSUME NEW r \in Runs,
             Start(r) \/ Supersede(r) \/ Cancel(r) \/ Gate(r) \/ BreakGate(r) \/ Discover(r) \/ Finish(r)
      PROVE  metrics' = metrics /\ \A q \in Runs : run'[q].push = run[q].push
  <2>1. CASE Start(r)
    BY <2>1 DEF Start
  <2>2. CASE Supersede(r)
    BY <2>2 DEF Supersede
  <2>3. CASE Cancel(r)
    BY <2>3 DEF Cancel
  <2>4. CASE Gate(r)
    BY <2>4 DEF Gate
  <2>0. CASE BreakGate(r)
    BY <2>0 DEF BreakGate
  <2>5. CASE Discover(r)
    BY <2>5 DEF Discover
  <2>6. CASE Finish(r)
    BY <2>6 DEF Finish
  <2>7. QED
    BY <1>2, <2>1, <2>2, <2>3, <2>4, <2>5, <2>6, <2>0
<1>3. ASSUME NEW r \in Runs, NEW d \in Devices, Job(r, d)
      PROVE  run' = run /\ metrics' = metrics
  BY <1>3 DEF Job, StartJob, RecordStart, BreakSetup, Upgrade, Emit, BreakEmit
<1>4. QED
  BY <1>1, <1>2, <1>3 DEF Next

Pushed(w) == {r \in Runs : run[r].wave = w /\ run[r].push = "success"}

\* The push of an active run is newer than all pushes of its wave before it.
LEMMA PushStep ==
    ASSUME Inv, Next, MetricsAreOfNewestRun,
           NEW r \in Runs, NEW result \in {"success", "failure"}, Push(r, result)
    PROVE  MetricsAreOfNewestRun'
<1>1. /\ run[r].status = "active" /\ run[r].push = "pending" /\ artifact' = artifact
      /\ run'[r].push = result /\ \A s \in Runs : run'[s].wave = run[s].wave
      /\ \A s \in Runs : s # r => run'[s].push = run[s].push
  BY DEF Push, PushResult, MayUpgrade, Inv, TypeOK, RunState
<1>2. /\ run[r].wave \in Waves
      /\ metrics' = IF result # "success" THEN metrics
                    ELSE [metrics EXCEPT ![run[r].wave] =
                            [run |-> r, success |-> With(r, "success"),
                                        failed |-> With(r, "failed")]]
      /\ metrics \in [Waves -> Group]
  BY DEF Push, PushResult, Inv, TypeOK, RunState
<1>3. \A q, status : With(q, status)' = With(q, status)
  BY <1>1 DEF With
<1>4. ASSUME NEW p \in Pushed(run[r].wave) PROVE p < r
  <2>1. p # r /\ p \in Runs /\ run[p].wave = run[r].wave /\ ~Ended(r)
    BY <1>1, <1>4 DEF Pushed, Ended
  <2>2. run[p].status \in {"active", "over"}
    BY <1>4, <2>1 DEF Pushed, Inv, JobsOK, PushOK
  <2>3. ~(r < p)
    BY <2>1, <2>2 DEF Inv, Ordered
  <2>4. QED
    BY <2>1, <2>3, WavesAssumption DEF Runs
<1>5. SUFFICES ASSUME NEW w \in Waves
               PROVE  IF Pushed(w)' = {} THEN metrics'[w].run = 0
                      ELSE /\ metrics'[w].run \in Pushed(w)'
                           /\ \A s \in Pushed(w)' : s <= metrics'[w].run
                           /\ metrics'[w].success = With(metrics'[w].run, "success")
                           /\ metrics'[w].failed = With(metrics'[w].run, "failed")
  BY <1>3 DEF MetricsAreOfNewestRun, Pushed
<1>6. IF Pushed(w) = {} THEN metrics[w].run = 0
      ELSE /\ metrics[w].run \in Pushed(w)
           /\ \A s \in Pushed(w) : s <= metrics[w].run
           /\ metrics[w].success = With(metrics[w].run, "success")
           /\ metrics[w].failed = With(metrics[w].run, "failed")
  BY DEF MetricsAreOfNewestRun, Pushed
<1>7. CASE result = "success" /\ w = run[r].wave
  <2>1. Pushed(w)' = Pushed(w) \cup {r}
    BY <1>1, <1>7 DEF Pushed
  <2>2. metrics'[w] = [run |-> r, success |-> With(r, "success"), failed |-> With(r, "failed")]
    BY <1>2, <1>7
  <2>3. r <= r /\ \A s \in Pushed(w) : s <= r
    BY <1>4, <1>7, WavesAssumption DEF Runs, Pushed
  <2>4. QED
    BY <2>1, <2>2, <2>3
<1>8. CASE result # "success" \/ w # run[r].wave
  <2>1. Pushed(w)' = Pushed(w)
    BY <1>1, <1>8 DEF Pushed
  <2>2. metrics'[w] = metrics[w]
    BY <1>2, <1>8
  <2>3. QED
    BY <1>6, <2>1, <2>2
<1>9. QED
  BY <1>7, <1>8

\* What the dashboard shows of a wave is one run, whole and final: the newest one
\* whose push went through.
THEOREM DashboardIsOfNewestRun == Spec => []MetricsAreOfNewestRun
<1>1. Init => MetricsAreOfNewestRun
  BY DEF Init, MetricsAreOfNewestRun
<1>2. Inv /\ MetricsAreOfNewestRun /\ [Next]_vars => MetricsAreOfNewestRun'
  <2> SUFFICES ASSUME Inv, MetricsAreOfNewestRun, [Next]_vars
               PROVE  MetricsAreOfNewestRun'
    OBVIOUS
  <2>1. CASE \E r \in Runs, result \in {"success", "failure"} : Next /\ Push(r, result)
    BY <2>1, PushStep
  <2>2. CASE Next /\ ~(\E r \in Runs, result \in {"success", "failure"} : Push(r, result))
    <3>1. metrics' = metrics /\ \A q \in Runs : run'[q].push = run[q].push
      BY <2>2, PushFrozen
    <3>2. \A q \in Runs : run[q].push # "pending" =>
             run'[q].wave = run[q].wave /\ artifact'[q] = artifact[q]
      BY <2>2, RunFrozen, ArtifactsFrozen DEF Inv, JobsOK, PushOK
    <3>3. \A w \in Waves : Pushed(w)' = Pushed(w)
      BY <3>1, <3>2 DEF Pushed
    <3>4. \A w \in Waves : \A q \in Pushed(w) : \A status : With(q, status)' = With(q, status)
      BY <3>2 DEF Pushed, With
    <3>5. QED
      BY <3>1, <3>3, <3>4 DEF MetricsAreOfNewestRun, Pushed
  <2>3. CASE UNCHANGED vars
    <3>1. run' = run /\ metrics' = metrics /\ artifact' = artifact
      BY <2>3 DEF vars
    <3>2. \A r \in Runs : \A status : With(r, status)' = With(r, status)
      BY <3>1 DEF With
    <3>3. QED
      BY <3>1, <3>2 DEF MetricsAreOfNewestRun, Pushed
  <2>4. QED
    BY <2>1, <2>2, <2>3
<1>3. QED
  BY SpecInv, <1>1, <1>2, PTL DEF Spec

----------------------------------------------------------------------------
(***************************************************************************)
(* The gate, when a wave waits for the end of the run that gates it.       *)
(***************************************************************************)
\* What the gate read stays as it was.
LEMMA GatePassedStays ==
    ASSUME Inv, [Next]_vars, NEW r \in Runs, run[r].status # "none",
           run[r].prior # 0, Ended(run[r].prior)
    PROVE  /\ Ended(run[r].prior)'
           /\ Downloaded(r)' = Downloaded(r)
           /\ artifact'[run'[r].prior] = artifact[run[r].prior]
           /\ run'[r].threshold = run[r].threshold
<1> DEFINE q == run[r].prior
<1>1. q \in Runs /\ run[q].status \in {"over", "cancelled"}
  BY DEF Inv, TypeOK, RunState, Ended
<1>2. run'[r].prior = q /\ run'[r].priorWave = run[r].priorWave
         /\ run'[r].threshold = run[r].threshold
  BY RunFrozen
<1> HIDE DEF q
<1>3. run'[q].wave = run[q].wave /\ run'[q].status = run[q].status
  BY <1>1, RunFrozen DEF Ended
<1>4. artifact'[q] = artifact[q]
  BY <1>1, ArtifactsFrozen
<1>5. QED
  BY <1>1, <1>2, <1>3, <1>4 DEF Downloaded, Ended, q

LEMMA GatedStep == ASSUME WaitsForPrior PROVE Inv /\ Gated /\ [Next]_vars => Gated'
<1> SUFFICES ASSUME Inv, Gated, [Next]_vars, NEW s \in Runs PROVE GateOK(s)'
  BY DEF Gated
<1>0. TypeOK /\ GateOK(s)
  BY DEF Inv, Gated
<1>1. ASSUME run[s].status # "none", run'[s].gate = run[s].gate PROVE GateOK(s)'
  <2>1. run'[s].prior = run[s].prior
    BY <1>1, RunFrozen
  <2>2. CASE run[s].prior = 0
    BY <1>0, <1>1, <2>1, <2>2 DEF GateOK
  <2>3. CASE run[s].prior # 0
    <3>1. Ended(run[s].prior) /\ run[s].gate # "skipped"
      BY <1>0, <1>1, <2>3 DEF GateOK
    <3>2. /\ Ended(run[s].prior)'
          /\ Downloaded(s)' = Downloaded(s)
          /\ artifact'[run'[s].prior] = artifact[run[s].prior]
          /\ run'[s].threshold = run[s].threshold
      BY <1>1, <2>3, <3>1, GatePassedStays
    <3>3. Evaluate(Downloaded(s), artifact[run[s].prior], run[s].threshold)' =
             Evaluate(Downloaded(s), artifact[run[s].prior], run[s].threshold)
      BY <3>2 DEF Evaluate
    <3>4. QED
      BY <1>0, <1>1, <2>1, <2>3, <3>1, <3>2, <3>3 DEF GateOK
  <2>4. QED
    BY <2>2, <2>3
<1>2. ASSUME run[s].status # "none", run[s].gate = "pending",
             run'[s].gate \in {"cancelled", "broken"}
      PROVE  GateOK(s)'
  <2>1. run'[s].prior = run[s].prior
    BY <1>2, RunFrozen
  <2>2. run[s].prior # 0 => Ended(run[s].prior)'
    BY <1>0, <1>2, GatePassedStays DEF GateOK
  <2>3. run[s].prior # 0
    BY <1>0, <1>2 DEF GateOK
  <2>4. QED
    BY <1>2, <2>1, <2>2, <2>3 DEF GateOK
<1>3. ASSUME NEW wave \in Waves, NEW priorWave \in Waves,
             NEW prior \in Runs \cup {0}, NEW t \in Thresholds,
             Dispatch(s, wave, priorWave, prior, t)
      PROVE  GateOK(s)'
  <2>1. /\ run'[s].prior = prior
        /\ prior = 0 => run'[s].gate = "skipped"
        /\ prior # 0 => /\ run'[s].gate = "pending"
                        /\ run[prior].status \in {"over", "cancelled"}
                        /\ run'[prior] = run[prior]
    BY <1>0, <1>3 DEF Dispatch, TypeOK
  <2>2. QED
    BY <2>1 DEF GateOK, Ended
<1>4. ASSUME Gate(s) PROVE GateOK(s)'
  <2> DEFINE passes == Evaluate(Downloaded(s), artifact[run[s].prior], run[s].threshold)
  <2>1. /\ run[s].status = "active" /\ run[s].gate = "pending" /\ artifact' = artifact
        /\ run'[s].gate = IF passes THEN "success" ELSE "failure"
        /\ run'[s].prior = run[s].prior
    BY <1>0, <1>4 DEF Gate, TypeOK, RunState
  <2>2. run[s].prior # 0 /\ Ended(run[s].prior)
    BY <1>0, <2>1 DEF GateOK
  <2>3. /\ Ended(run[s].prior)'
        /\ Downloaded(s)' = Downloaded(s)
        /\ artifact'[run'[s].prior] = artifact[run[s].prior]
        /\ run'[s].threshold = run[s].threshold
    BY <2>1, <2>2, GatePassedStays
  <2>4. Evaluate(Downloaded(s), artifact[run[s].prior], run[s].threshold)' = passes
    BY <2>3 DEF Evaluate
  <2> HIDE DEF passes
  <2>5. QED
    BY <2>1, <2>2, <2>3, <2>4 DEF GateOK
<1>5. CASE ~Gate(s) /\ ~(\E wave, priorWave \in Waves, prior \in Runs \cup {0},
                             t \in Thresholds : Dispatch(s, wave, priorWave, prior, t))
  <2> USE DEF TypeOK, RunState
  <2>1. ASSUME NEW r \in Runs, NEW wave \in Waves, NEW priorWave \in Waves,
               NEW prior \in Runs \cup {0}, NEW t \in Thresholds,
               Dispatch(r, wave, priorWave, prior, t)
        PROVE  run'[s] = run[s]
    BY <1>0, <1>5, <2>1 DEF Dispatch
  <2>2. ASSUME NEW r \in Runs,
               \/ Start(r) \/ Supersede(r) \/ Discover(r) \/ Finish(r) \/ Gate(r)
               \/ \E result \in {"success", "failure"} : Push(r, result)
        PROVE  /\ run'[s].gate = run[s].gate
               /\ run[s].status = "none" => run'[s].status = "none"
    <3>1. CASE Start(r)
      BY <1>0, <3>1 DEF Start
    <3>2. CASE Supersede(r)
      BY <1>0, <3>2 DEF Supersede
    <3>3. CASE Discover(r)
      BY <1>0, <3>3 DEF Discover
    <3>4. CASE Finish(r)
      BY <1>0, <3>4 DEF Finish
    <3>5. CASE Gate(r)
      BY <1>0, <1>5, <3>5 DEF Gate
    <3>6. ASSUME NEW result \in {"success", "failure"}, Push(r, result)
          PROVE  run'[s].gate = run[s].gate /\ run'[s].status = run[s].status
      BY <1>0, <3>6 DEF Push, PushResult
    <3>7. QED
      BY <2>2, <3>1, <3>2, <3>3, <3>4, <3>5, <3>6
  <2>3. ASSUME NEW r \in Runs, Cancel(r) \/ BreakGate(r)
        PROVE  /\ \/ run'[s].gate = run[s].gate
                  \/ run[s].gate = "pending" /\ run'[s].gate \in {"cancelled", "broken"}
               /\ run'[s].status = run[s].status
    <3>1. CASE Cancel(r)
      BY <1>0, <3>1 DEF Cancel
    <3>2. CASE BreakGate(r)
      BY <1>0, <3>2 DEF BreakGate
    <3> QED
      BY <2>3, <3>1, <3>2
  <2>4. ASSUME NEW r \in Runs, NEW d \in Devices, Job(r, d) PROVE run' = run
    BY <2>4 DEF Job, StartJob, RecordStart, BreakSetup, Upgrade, Emit, BreakEmit
  <2>5. /\ \/ run'[s].gate = run[s].gate
           \/ run[s].gate = "pending" /\ run'[s].gate \in {"cancelled", "broken"}
        /\ run[s].status = "none" => run'[s].status = "none"
    BY <2>1, <2>2, <2>3, <2>4 DEF Next, vars
  <2>6. QED
    BY <1>1, <1>2, <2>5 DEF GateOK
<1>6. QED
  BY <1>3, <1>4, <1>5

\* evaluate counts successes, Earned the failures: for a finite set of devices, and
\* outcomes that the artifacts tell truly, it is the same.
LEMMA RateOfFailures ==
    ASSUME NEW files, IsFiniteSet(files), NEW t \in Int,
           NEW succeeded \in SUBSET files
    PROVE  100 * Cardinality(succeeded) >= t * Cardinality(files) <=>
              100 * Cardinality(files \ succeeded) <= (100 - t) * Cardinality(files)
<1> DEFINE n == Cardinality(files)
           k == Cardinality(succeeded)
<1>1. IsFiniteSet(succeeded) /\ files \cap succeeded = succeeded
  BY FS_Subset
<1>2. n \in Nat /\ k \in Nat
  BY <1>1, FS_CardinalityType
<1>3. Cardinality(files \ succeeded) = n - k
  BY <1>1, FS_Difference
<1> HIDE DEF n, k
<1>4. (100 - t) * n = 100 * n - t * n /\ t * n \in Int
  BY <1>2
<1>5. 100 * k >= t * n <=> 100 * (n - k) <= (100 - t) * n
  BY <1>2, <1>4
<1> QED
  BY <1>3, <1>5 DEF n, k

\* The artifacts of a wave that ran to its end in run q are those that count, and
\* they tell the outcomes: evaluate decides what Earned says.
LEMMA GateDecides ==
    ASSUME Inv, NEW r \in Runs, run[r].prior # 0,
           run[run[r].prior].wave = run[r].priorWave,
           \A d \in DevicesOf[run[r].priorWave] : job[run[r].prior][d] = "over"
    PROVE  Evaluate(Downloaded(r), artifact[run[r].prior], run[r].threshold) <=>
              Earned(run[r].prior, run[r].priorWave, run[r].threshold)
<1> DEFINE q == run[r].prior
           w == run[r].priorWave
           t == run[r].threshold
           files == Downloaded(r)
           counted == DevicesOf[w] \ Unrecorded(q)
           succeeded == {d \in files : artifact[q][d] = "success"}
           failed == {d \in counted : outcome[q][d] # "success"}
<1>1. q \in Runs /\ w \in Waves /\ t \in Int /\ run[q].wave = w
  <2>1. run[r] \in RunState
    BY DEF Inv, TypeOK
  <2>2. q \in Runs /\ w \in Waves /\ t \in Thresholds
    BY <2>1 DEF RunState
  <2> HIDE DEF q, w, t
  <2>3. t \in Int
    BY <2>2, WavesAssumption
  <2> QED
    BY <2>2, <2>3 DEF q, w
<1>2. \A d \in DevicesOf[w] : job[q][d] = "over"
  OBVIOUS
<1>3. files = {d \in Devices : artifact[q][d] # "none"}
  BY <1>1 DEF Downloaded
<1> HIDE DEF q, w, t
<1>4. \A d \in Devices : JobOK(q, d)
  BY <1>1 DEF Inv, JobsOK
<1>5. \A d \in Devices : job[q][d] \in {"waiting", "over"}
  BY <1>1, <1>2, <1>4 DEF JobOK, Inv, TypeOK
<1>6. files = counted
  BY <1>1, <1>2, <1>3, <1>4, <1>5, DevicesOfDevices DEF JobOK, Unrecorded
<1>7. \A d \in files : artifact[q][d] = "success" <=> outcome[q][d] = "success"
  BY <1>3, <1>4, <1>5 DEF JobOK, Status
<1>8. failed = files \ succeeded
  BY <1>6, <1>7
<1>9. IsFiniteSet(files)
  BY <1>3, DevicesFinite, FS_Subset
<1> HIDE DEF files, counted, succeeded, failed
<1>10. succeeded \subseteq files
  BY DEF succeeded
<1>11. 100 * Cardinality(succeeded) >= t * Cardinality(files) <=>
          100 * Cardinality(failed) <= (100 - t) * Cardinality(counted)
  BY <1>1, <1>6, <1>8, <1>9, <1>10, RateOfFailures
<1>12. Evaluate(files, artifact[q], t) <=>
          files # {} /\ 100 * Cardinality(succeeded) >= t * Cardinality(files)
  BY DEF Evaluate, Meets, succeeded
<1>13. Earned(q, w, t) <=>
          counted # {} /\ 100 * Cardinality(failed) <= (100 - t) * Cardinality(counted)
  BY DEF Earned, counted, failed
<1> QED
  BY <1>6, <1>11, <1>12, <1>13 DEF files, q, w, t

\* A wave that the gate let start: the run before it is over, with all its jobs.
LEMMA PromotedAfterAll ==
    ASSUME Inv, Gated, NEW r \in Runs, Promoted(r)
    PROVE  /\ run[r].gate = "success" /\ run[r].prior # 0
           /\ Evaluate(Downloaded(r), artifact[run[r].prior], run[r].threshold)
           /\ run[run[r].prior].wave = run[r].priorWave
           /\ \A d \in DevicesOf[run[r].priorWave] : job[run[r].prior][d] = "over"
<1> DEFINE q == run[r].prior
<1>1. q \in Runs /\ run[r].priorWave \in Waves
  BY DEF Promoted, Inv, TypeOK, RunState
<1>2. run[r].gate = "success" /\ run[r].status # "none" /\ run[r].prior # 0
  BY DEF Promoted, Gated, GateOK, Inv, JobsOK, JobOK, Admits
<1>3. Ended(q) /\ Evaluate(Downloaded(r), artifact[q], run[r].threshold)
  BY <1>2 DEF Gated, GateOK
<1> HIDE DEF q
<1>4. \A d \in Devices : JobOK(q, d) /\ PushOK(q)
  BY <1>1 DEF Inv, JobsOK
<1>5. /\ Downloaded(r) # {} /\ run[q].wave = run[r].priorWave
      /\ Downloaded(r) = {d \in Devices : artifact[q][d] # "none"}
  BY <1>3 DEF Evaluate, Downloaded, q
<1>6. run[q].status = "over" /\ Admits(q)
  BY <1>3, <1>4, <1>5 DEF JobOK, Ended
<1>7. \A d \in DevicesOf[run[r].priorWave] : job[q][d] = "over"
  BY <1>4, <1>5, <1>6 DEF PushOK, AllOver
<1> QED
  BY <1>2, <1>3, <1>5, <1>7 DEF q

LEMMA InitGated == Init => Gated
BY DEF Init, Gated, GateOK

\* A wave whose run waits for the end of the one that gates it starts only when no
\* larger share of the devices that left an artifact failed than its threshold
\* tolerates, all others of that wave being over without one, and never without
\* any; and a gate that was evaluated on a whole wave refuses no other.
THEOREM PromotionsAreEarned == ASSUME WaitsForPrior PROVE Spec => []GateIsExact
<1>1. Inv /\ Gated => GateIsExact
  <2> SUFFICES ASSUME Inv, Gated, NEW r \in Runs
               PROVE  /\ Promoted(r) => Earned(run[r].prior, run[r].priorWave, run[r].threshold)
                      /\ \/ run[r].prior = 0 \/ run[r].gate # "failure"
                         \/ \E d \in DevicesOf[run[r].priorWave] : job[run[r].prior][d] # "over"
                         \/ ~ Earned(run[r].prior, run[r].priorWave, run[r].threshold)
    BY DEF GateIsExact, PromotionEarned
  <2>1. Promoted(r) => Earned(run[r].prior, run[r].priorWave, run[r].threshold)
    BY PromotedAfterAll, GateDecides
  <2>2. ASSUME run[r].prior # 0, run[r].gate = "failure",
               \A d \in DevicesOf[run[r].priorWave] : job[run[r].prior][d] = "over",
               Earned(run[r].prior, run[r].priorWave, run[r].threshold)
        PROVE  FALSE
    <3> DEFINE q == run[r].prior
    <3>1. q \in Runs /\ run[r].priorWave \in Waves
      BY <2>2 DEF Inv, TypeOK, RunState
    <3>2. run[r].status # "none"
      BY <2>2 DEF Inv, JobsOK, FreshOK
    <3>3. ~ Evaluate(Downloaded(r), artifact[q], run[r].threshold)
      BY <2>2, <3>2 DEF Gated, GateOK
    <3>4. PICK d \in DevicesOf[run[r].priorWave] : TRUE
      BY <2>2 DEF Earned
    <3>5. job[q][d] = "over" /\ d \in Devices
      BY <2>2, <3>1, <3>4, DevicesOfDevices
    <3>6. d \in DevicesOf[run[q].wave] /\ run[q].wave \in Waves
      BY <3>1, <3>5 DEF Inv, JobsOK, JobOK, TypeOK, RunState
    <3>7. run[q].wave = run[r].priorWave
      BY <3>1, <3>4, <3>6, OneWave
    <3> QED
      BY <2>2, <3>3, <3>7, GateDecides
  <2> QED
    BY <2>1, <2>2
<1> QED
  BY SpecInv, InitGated, GatedStep, <1>1, PTL DEF Spec

\* Of all the devices of the wave before no larger share failed than is tolerated.
AllCounted ==
    \A r \in Runs : Promoted(r) =>
        LET q == run[r].prior
            all == DevicesOf[run[r].priorWave]
            failed == {d \in all : outcome[q][d] # "success"}
        IN 100 * Cardinality(failed) <= (100 - run[r].threshold) * Cardinality(all)

\* Where no job breaks before its start or in the emit step, every device of the
\* wave before is counted.
THEOREM AllDevicesAreCounted ==
    ASSUME WaitsForPrior, ~ SetupBreaks, ~ EmitBreaks PROVE Spec => []AllCounted
<1>1. Inv /\ Gated => AllCounted
  <2> SUFFICES ASSUME Inv, Gated, NEW r \in Runs, Promoted(r)
               PROVE  LET q == run[r].prior
                          all == DevicesOf[run[r].priorWave]
                          failed == {d \in all : outcome[q][d] # "success"}
                      IN 100 * Cardinality(failed) <= (100 - run[r].threshold) * Cardinality(all)
    BY DEF AllCounted
  <2>1. Earned(run[r].prior, run[r].priorWave, run[r].threshold)
    BY PromotedAfterAll, GateDecides
  <2>2. run[r].prior \in Runs
    BY PromotedAfterAll DEF Inv, TypeOK, RunState
  <2>3. \A d \in Devices : JobOK(run[r].prior, d)
    BY <2>2 DEF Inv, JobsOK
  <2>4. Unrecorded(run[r].prior) = {}
    BY <2>3 DEF Unrecorded, JobOK, Status
  <2>5. DevicesOf[run[r].priorWave] \ Unrecorded(run[r].prior) = DevicesOf[run[r].priorWave]
    BY <2>4
  <2> QED
    BY <2>1, <2>5 DEF Earned
<1> QED
  BY SpecInv, InitGated, GatedStep, <1>1, PTL DEF Spec

----------------------------------------------------------------------------
(***************************************************************************)
(* What an ended run leaves behind.                                        *)
(***************************************************************************)
\* A run that was admitted ends only with a result of every device of its wave, of
\* those too whose turn came after a failure or after a cancellation by hand: the
\* bounded half of EveryDeviceAttempted.
THEOREM NobodyForgotten ==
    Spec => [](\A r \in Runs : run[r].status = "over" /\ Admits(r) =>
                  \A d \in DevicesOf[run[r].wave] : outcome[r][d] # "none")
<1>1. Inv => \A r \in Runs : run[r].status = "over" /\ Admits(r) =>
                \A d \in DevicesOf[run[r].wave] : outcome[r][d] # "none"
  <2> SUFFICES ASSUME Inv, NEW r \in Runs, run[r].status = "over", Admits(r),
                      NEW d \in DevicesOf[run[r].wave]
               PROVE  outcome[r][d] # "none"
    OBVIOUS
  <2>1. d \in Devices
    BY DevicesOfDevices DEF Inv, TypeOK, RunState
  <2>2. job[r][d] = "over"
    BY DEF Inv, JobsOK, PushOK, AllOver
  <2>3. QED
    BY <2>1, <2>2 DEF Inv, JobsOK, JobOK
<1>2. QED
  BY SpecInv, <1>1, PTL

\* A run that has ended is left alone by every step: by the jobs, which do not ask
\* whether their run still goes on, by later runs of its wave, and by the gates that
\* read it, so that a second gate on it reads what the first one read.
Final(r) == UNCHANGED <<run[r], job[r], outcome[r], artifact[r]>>

LEMMA FinalStep ==
    ASSUME Inv, Next, NEW q \in Runs, Ended(q)
    PROVE  Final(q)
<1>0. /\ run \in [Runs -> RunState]
      /\ job \in [Runs -> [Devices -> JobStates]]
      /\ outcome \in [Runs -> [Devices -> Outcomes]]
      /\ artifact \in [Runs -> [Devices -> {"none", "success", "failed"}]]
  BY DEF Inv, TypeOK
<1>1. ASSUME NEW r \in Runs, NEW wave \in Waves, NEW priorWave \in Waves,
             NEW prior \in Runs \cup {0}, NEW t \in Thresholds,
             Dispatch(r, wave, priorWave, prior, t)
      PROVE  Final(q)
  BY <1>0, <1>1 DEF Dispatch, Ended, Final
<1>2. ASSUME NEW r \in Runs, Start(r) \/ Supersede(r) \/ Cancel(r) PROVE Final(q)
  BY <1>0, <1>2 DEF Start, Supersede, Cancel, Ended, Final
<1>3. ASSUME NEW r \in Runs, Gate(r) \/ BreakGate(r) \/ Discover(r) \/ Finish(r) PROVE Final(q)
  BY <1>0, <1>3 DEF Gate, BreakGate, Discover, Finish, Ended, Final
<1>4. ASSUME NEW r \in Runs, NEW result \in {"success", "failure"}, Push(r, result)
      PROVE  Final(q)
  BY <1>0, <1>4 DEF Push, PushResult, MayUpgrade, Ended, Final
<1>5. ASSUME NEW r \in Runs, NEW d \in Devices, Job(r, d) PROVE Final(q)
  <2>1. r # q
    <3>1. MayUpgrade(r) \/ d \in InProgress(r)
      BY <1>5 DEF Job, StartJob, RecordStart, BreakSetup, Upgrade, Emit, BreakEmit, Move, InProgress
    <3>2. run[r].status = "active"
      BY <3>1, InProgressActive DEF MayUpgrade
    <3>3. QED
      BY <3>2 DEF Ended
  <2>2. QED
    BY <1>0, <1>5, <2>1 DEF Job, StartJob, RecordStart, BreakSetup, Upgrade, Emit, BreakEmit, Move, Final
<1>6. QED
  BY <1>1, <1>2, <1>3, <1>4, <1>5 DEF Next

\* What a run leaves behind is final: artifacts, outcomes and its own state.
THEOREM EndedRunsAreFinal == Spec => [][\A r \in Runs : Ended(r) => Final(r)]_vars
<1>1. Inv /\ [Next]_vars => [\A r \in Runs : Ended(r) => Final(r)]_vars
  BY FinalStep
<1>2. QED
  BY SpecInv, <1>1, PTL DEF Spec
=============================================================================
