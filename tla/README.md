# Verification of NexusF5

NexusF5 upgrades fleets of F5 BIG-IP devices: Ansible plays do the work on one
device, GitHub workflows do it wave by wave with a gate in between, a stateful mock
of the iControl REST API stands in for the devices, and a Python wrapper runs the
same plays against real VEs in AWS. This directory holds TLA+ models of these
parts, TLC configurations that check them on small instances, and proofs of their
main invariants for all parameters. Paths below are relative to the repository.

## The system

| component | state it keeps | operations |
|---|---|---|
| device state (`mock-f5/app/state.py`) | two volumes with image and active flag, running version, HA and sync status, list of installs, reboot deadline, DO and AS3 tasks and what they applied, six chaos flags, UCS names | `start_install`, `activate_volume`, `start_reboot`, `start_do_task`, `start_as3_task`, `advance` |
| iControl handlers (`mock-f5/app/routers/icontrol.py`) | none of their own | GETs, `sys_ucs`, `sys_software_volume_install`, `..._patch`, `util_bash`, `sys_failover` |
| chaos endpoints (`routers/chaos.py`) | none | set a flag, clear all, `reset-device` |
| DO and AS3 endpoints (`routers/extensions.py`) | a request between its guard and its body | POST, task GET, read-back |
| request threads (FastAPI's thread pool) | how far each handler is, the clock it read | the synchronous handlers, without a lock |
| plays and roles (`ansible/`) | registered facts, position in the play, retries left | preflight, backup, install, boot switch, health gate, postcheck, rollback, failover |
| wave workflows (`.github/workflows/`) | runs, jobs, step outcomes, artifacts | dispatch, replacing of queued runs, cancellation, gate, discovery, matrix jobs, push |
| gate and artifacts (`observability/ingest/{gate,writer,schema}.py`) | artifact files | `evaluate`, emit |
| lab wrapper (`tools/integration_wrapper.py`) | VEs, terraform's state, key and inventory files, alarm, `failed` | `main` phase by phase, SIGALRM, SIGINT |
| brownfield extractor (`tools/brownfield`) | what it has read so far, the declaration, five files | `extract`: walk, emit, write; `validate` |
| metrics pusher (`observability/ingest/pusher.py`) | the Pushgateway group of a wave | one PUT that replaces it |
| LTM fixtures, Terraform, nginx generator | none that lasts | text to text |

How they interact. A role task is one HTTP request; the handler first calls
`advance()`, which settles whatever fell due since the last request (installs, then
the reboot, then DO tasks, then AS3 tasks), then refuses with 503 inside a reboot
window, then acts. Time alone changes nothing that is stored: **the device settles
lazily**. A workflow job runs the plays for one device; its last step emits an
artifact whatever happened; the gate job of the next wave downloads the artifacts of
the run it was given, and the last job of a run pushes the counts of its own artifacts to
the dashboard. The Terraform lab posts DO and AS3 declarations to the mock.
The wrapper drives terraform and the preflight play. The extractor reads a device
collection by collection and writes declarations for Terraform.

What is hard here:

- lazy settlement: two installs, a reboot and a task may settle in one call or in
  several, in an order that is not the one in which they fell due;
- the synchronous handlers run on several threads that share the device and take no
  lock, so that a second request may fall into the middle of the first;
- requests of different clients interleave, and with them chaos flags, reset-device
  and the clock; a coroutine handler awaits between its guard and its effect;
- plays read facts in separate requests and act on them later; requests and answers
  get lost; a play that failed anywhere is followed by a rollback or by a new try;
- poll budgets (`retries * delay`) race against install and reboot durations;
- jobs of one wave share slots, fail on their own, or break before they can record
  that they failed, and the gate sees artifacts only; a wave is kicked twice,
  replaced while it is queued, or cancelled while it runs;
- a signal or the hard timeout may be raised between any two steps of the wrapper,
  within `except` and `finally` too, and AWS resources outlive the process;
- the extractor's picture of a device is put together from requests of different
  moments, and its files from writes of which any may be the last.

What makes each part correct:

- device: one active volume, installs settle oldest first, "complete" means
  installed, windows and installs end, lazy settlement cannot be noticed;
- threads: a reboot request boots the device once, and what interleaved requests leave
  behind is what some order of them would have left, wherever the code keeps that;
- plays: success means a healthy device at the right version, the way back is kept
  and a rollback finds it, no abort without a fault, every play ends;
- tasks: read-back is the last good declaration per tenant, accepted tasks settle;
- waves: a gate passes exactly when the share of failures among the devices that left a
  result is tolerated, unfinished ones count as failed, one failure starves nobody, a
  device is in the hands of one job, the dashboard shows one whole run;
- wrapper: nothing recorded is left behind, "passed" means ready and undisturbed, no
  secret stays but one that cannot be removed, it ends;
- extractor: what was read is declared, no edit of the device makes a reference dangle,
  files are of one extract.

## Modules

| module | models | actions |
|---|---|---|
| `DeviceState` | the `DeviceState` object as a record, one operator per method; `Advance` is `SettleAs3(SettleDo(SettleReboot(SettleInstalls(d))))` in the code's order | none: values and functions |
| `MockDevice` | the handlers of `icontrol.py` and `chaos.py`, each one atomic | `Query` (every GET and every refused request), `SysUcs`, `VolumeInstall`, `VolumePatch`, `UtilBashReboot`, `SysFailover`, `ChaosSet`, `ChaosReset`, `ChaosResetDevice`, `Tick` |
| `EagerDevice` | the promise: a device that settles everything in the second it runs out | one disjunct per request |
| `DeviceThreads` | the synchronous handlers on several threads, cut where CPython may switch | `Request` and `Poll`; of a thread `SettleOp`, `WriteImage`, `ClaimReboot`, `LookFirst`, `LookSecond`, `Guard`, `Clock`, then `Answer`, `MakeOperation` and `AppendOperation`, `FlipFirst` and `FlipSecond`, or `OpenWindow`; `Tick` |
| `Playbooks` | `upgrade.yml`, `rollback.yml`, `failover` role and all roles they include | one action per `uri` task, together with the handler that answers it and the `assert` and `set_fact` up to the next request; `Launch`, `Inject`, `Tick` |
| `ExtensionTasks` | `extensions.py`: the POST handlers in two steps with the `await` in between | `DoPost`, `As3Post`, `DoBody`, `As3Body`, `Refuse`, and the device's other steps taken from `MockDevice` by INSTANCE |
| `WaveRollout` | the reusable workflow, its two callers, gate, writer and pusher | `Dispatch`, `Start`, `Supersede`, `Cancel`, `Gate`, `BreakGate`, `Discover`, `StartJob`, `RecordStart`, `BreakSetup`, `Upgrade`, `Emit`, `BreakEmit`, `Push`, `Finish` |
| `IntegrationWrapper` | the wrapper's `main` | one action per phase or turn of the waiting loop; terraform creates, records and destroys VE by VE and writes the secrets file by file, `CleanupLocalSecrets` removes them so; `Sigint`, `Sigalrm` |
| `Extraction` | `brownfield extract` and the device it reads | `Begin`, `WalkFamily`, `FollowMembers`, `WalkInspect`, `Emit`, `WriteFile`, `FailWalk`, `FailEmit`, `Kill`; the device: `Create`, `Delete`, `Modify` |
| `*Proofs` | the theorems of the module they are named after | |
| `MC*` | instances for TLC | |

`Playbooks` and `ExtensionTasks` are built on the operators of `DeviceState`, not on
a copy of them, so one definition of `Advance` stands behind all of them.
`Playbooks` instantiates `MockDevice` with `RoleClients <- TRUE` and shows that the
plays are such clients; `MockDevice` under that assumption implements
`EagerDevice` by the refinement mapping `dev <- Advance(dev)`: what a client sees is
what a device that settles at once would show. `DeviceThreads` looks inside the
handlers that `MockDevice` takes as one step. It has a record of its own, with the
fields that several steps of one request hang together by, and takes from
`DeviceState` what it can (`OpsOn`, `VolumeStatus`, `Newest`).

Definitions named as mutants (`LessUnclamped`, `EvaluateAbove`, ...) stand next to the
operator they vary. They are plausible slips in the code; no behaviour uses them.
Each property is violated when its mutant replaces the definition.

### Abstractions that run through the models

- A deadline is the number of seconds left, 0 when it has passed; the code compares
  deadlines with the clock by `>=` only. `Tick` counts all of them down together.
  Any number of requests fit between two ticks.
- Names, payload layout and UCS names are left out; versions, declarations and
  tenants are members of small sets; a declaration is bad when its hostname is not
  an FQDN.
- A synchronous handler is one step everywhere but in `DeviceThreads`. There a step
  ends at a call and when a loop goes round, which is where CPython hands over the
  interpreter (and nowhere else in 3.12, which the image of the mock runs). A comparison
  and an assignment with no call between them are one step, so a thread
  that finds `rebooting_until` due also clears it. `advance()` reads the clock once;
  the thread may be up to `MaxLate` seconds behind when it compares. An uncaught
  exception (`active_volume()` finding no active volume, `is_rebooting()` comparing with
  None) answers 500 and ends the request there.
- `Playbooks` drives one device; the plays of different devices share nothing. The
  CPU, memory and connection thresholds of preflight always hold, because the mock
  reports constants. `terraform plan` of the postcheck answers with drift exactly
  when `drift_postcheck` is raised; the drift gate is on, as it is by default.
  `before` and `activated` in a play's state are history variables.
- `WaveRollout` leaves a job's play to a choice of outcome and compares rates as exact
  percentages (`gate.py` allows 1e-9 of slack, which no fleet size can tell apart).
  A job may break before it records its start (`BreakSetup`) and, after the upgrade, in
  `uv`, the writer or the upload (`BreakEmit`); either way it leaves no artifact. The gate
  job may break before `evaluate` (`BreakGate`, gate `"broken"`), which is not a verdict.
  A run cancelled by hand loses its gate and discovery if they are pending; matrix and
  push go on, since their conditions begin with `always()`. The metrics are the two
  counts and the run they came from; durations are left out. A push that fails stands
  also for one without a gateway configured.
- In `IntegrationWrapper` a timer of the code is a number of turns; terraform, aws,
  ssh and ansible may fail anywhere. The secrets are the ssh key and the inventory:
  terraform writes each when it has what goes into it, may remove either with the lab,
  and the clean-up takes one after the other, any of which may be refused and is logged
  and passed over. `stuck` (the refused ones) and `mishaps` (the phases that an exception
  hit, and `"swallowed"` for the one the early fetch forgets) are history variables.
- In `Extraction` an object is its kind, partition, name and the paths it refers to;
  a file is known by the extract that opened it last and whether it is complete. The
  device keeps references intact, as TMOS does: what is referred to cannot be
  deleted, nor can the vendor's own objects (`Stock`). Objects of `KindsNotRead` (monitors
  other than http, profiles other than client-ssl, persistence other than cookie) may be
  referred to, but no request reads them; pools in `MinOf` have a "min N of" monitor
  string. A request that succeeds may give any part of a collection, because
  `_items` takes a body of another shape for an empty one; `FollowMembers` likewise. An
  emitter may refuse a virtual (`BadDestination`) or a member of any pool. The list of
  vendor paths (`Listed`) and what the vendor ships (`Stock`) are independent of each
  other. `before`, `removed` and `lacked` (what an answer should have had) are history
  variables. The declaration is the object that each name stands for; within a kind the
  order of the device's answer decides, so any. `validate` changes nothing and is left out.

## Runs

Every run finishes within two minutes on two cores.

| run | bounds | shows |
|---|---|---|
| `mock_any` | 2 versions, 2 installs, install 2 s, reboot 1 s (slow: 2 s), flags `fail_next_install`, `slow_reboot`; any request at any time | `TypeOK`, `OneActiveVolume`, `InstallsSettleInOrder`, `CompleteMeansInstalled`, and under fairness `InstallsSettle` |
| `mock_roles` | requests in the order of the roles, 2 installs, 1 backup, `post_boot_unhealthy` | `ImplementsEager`, `ActiveImageUntouched` |
| `threads_pool` | 2 threads, 2 installs, install and reboot 2 s, a handler at most 1 s behind its clock; installs and reboots, or boot switches and reboots, always with polls | `TypeOK`, `OneBootPerReboot`, `ActiveVolumeAtRest`, `InstalledAtRest`, and under fairness `RebootEnds` |
| `playbooks_lossy` | 2 plays of any kind, one after the other, any request or answer lost, four flags | `TypeOK`, `WayBackKept`, `SuccessMeansHealthy`, `RollbackReturnsToPrior`, `FailoverEndsStandby`, `PlaysEnd` |
| `playbooks_faultless` | 3 plays, budgets equal to the durations | `NoFalseAbort`, `RolesAreDisciplined` |
| `extension_tasks` | 1 client, 2 tenants, 2 tasks, DO 2 s, AS3 1 s, reboots, `fail_next_as3` | `TypeOK`, `DoStateIsLastApplied`, `As3StateIsLastApplied`, `TasksEnd` |
| `waves` | 2 runs, waves of 2, 2 and 0 devices, one slot, 50 %, jobs that break before or after the upgrade, gates that break, cancellation, failing pushes | `TypeOK`, `GateIsExact` (`PromotionEarned` and its converse), `OneJobPerDevice`, `MetricsAreOfNewestRun`, `EveryDeviceAttempted` |
| `wrapper_lab` | 2 VEs, 2 turns to the deadline, alarm, 2 Ctrl-C, either secret refused | `TypeOK`, `NothingStranded`, `PassedMeansClean`, `SecretsRemoved`, `KeptWhenAsked`, `WrapperEnds` |
| `extraction_edited` | 8 objects in 2 partitions, among them one of a kind that is not read, one of the operator's at a path on the list, a namesake of it in another partition, a "min N of" pool and a virtual in two forms, one of which is refused; any consistent device to begin with, 2 extracts, 2 edits, answers that lack 1 object a walk | `TypeOK`, `NothingLost`, `ReferencesResolve`, `FailureKeepsFiles`, `SuccessWritesAll` |
| `playbooks_rollback_after_abort` | violated | `RollbackAfterAbortKeepsVolume` |
| `waves_partial` | violated | `PromotionEarned` |
| `wrapper_timeout` | violated | `HardTimeout` |

Why these bounds are enough. Two installs are the least that can overlap, share a
volume, settle in one pass or in two, and fail one without the other; the proofs
below cover any number. Durations of 1 and 2 seconds let an install outlast a
reboot and a reboot outlast an install. Two threads are the least that race, and one
second is the least by which a deadline can pass while a handler is under way; no
property of the threads relates images to flags, so the two kinds of writers are
raced one at a time. Two plays are an upgrade and what follows
it; without faults a third fits in, the rollback of a repeated upgrade. Two devices
are the least for
a rate that is neither 0 nor 100 %, and 50 % lies exactly on such a rate (`waves_partial`
uses 100 %, which one early success reaches); two runs are
a wave and the one it gates, or one wave kicked twice, replaced in the queue, or
overtaken by its own repetition. Two turns of the wrapper's loop separate the
first, the last and a middle probe. Two Ctrl-C suffice to interrupt the handling of
the first; a third finds the process gone. In `extension_tasks` one client is
enough for tasks that overlap, since a POST does not wait for its task; several
requests that await their bodies at once add orders of the same steps. Two edits
during a walk are the least that break a reference (an object and what it refers
to), two extracts the least that mix files. Waves, threads, tasks, wrapper and
extractor are proved for any number of each; what the proofs do not reach is named at
their end.

Deadlock is checked for the mock, its threads and its tasks, whose clients can always ask
again. Plays,
workflow runs, extracts and the wrapper really come to an end, so their configurations turn
the check off.

### Fairness

- `MockDevice`: weak fairness of `Tick`, since the clock does not stop, and of
  `Query`, since every role and every Terraform task polls. No fairness is assumed
  of any request that changes the device, and none of chaos.
- `DeviceThreads`: `Step(t)` of every thread, since the scheduler runs each of them;
  `Poll` and `Tick` for the reasons above. No fairness is assumed of an install, a
  boot switch or a reboot.
- `Playbooks`: `Tick`, and `Task(p)` for each play: ansible-playbook goes on when it
  can. Launching is not fair.
- `ExtensionTasks`: `Tick` and `Query`, for the same reasons; a POST may await its
  body for ever.
- `WaveRollout`: each run's start, gate, discovery, push and finish and each job: the
  scheduler hands out slots, approvals are given, steps end. Dispatching and
  cancelling are not fair.
- `IntegrationWrapper`: terraform's and the wrapper's own steps, because every
  command ends; the alarm and Ctrl-C need never come, so `WrapperEnds` does not rest
  on the hard timeout.

## What is proved

`tlapm` checks the following for every value of the constants that satisfies the
named assumptions (durations are naturals, the versions include the two that
`DeviceState.fresh` hard-codes, ...).

`MockDeviceProofs`, from the lemmas of `DeviceStateProofs` about each operator:

- `DeviceTypeCorrect`: `Spec => []TypeOK`. `TypeOK` is inductive; the lemmas say of
  each method that it maps a device to a device. The work is in `SettleInstalls`,
  `SettleDo` and `SettleAs3`, where the newest of a finite set of indices has to
  exist (`NewestIsLast`).
- `ExactlyOneActiveVolume`: the code checks this with an exception in
  `active_volume()`; the theorem says it is never raised as long as handlers do not
  overlap.
- `InstallsEndInOrder` and `CompleteIsInstalled`. Neither is inductive. The invariant
  is `Installs`: installs are in order (`InOrder`: unfinished ones are the youngest
  and due in sequence), their remaining times are within what `start_install`
  grants (`Within`: so a new install is never due before an older one), and a
  volume whose newest install is complete holds that install's version
  (`ImagesMatch`). `Within` is needed because "due last" must hold for the install
  that is added; `ImagesMatch` speaks of the device as it is stored, because what a
  poller reads after `Advance` depends on what was settled before. `InstallsStep` shows
  that every handler keeps it; handlers that do not touch installs are covered by
  `SameInstalls`.
- `LazyIsEager` (the refinement of `EagerDevice`) and `WayBackUntouched`, for clients
  that behave like the roles (`RoleClients`). The invariant `Guarded` says that no
  install in progress goes to the active volume and that no extension task is there.
  From it follows what the refinement needs: settling late and settling at once give
  the same device (`AdvanceTwice`, `ElapseAdvance`), because the order of
  installs and reboots matters only through the active volume. Without `Guarded` it is
  false, see below.

`PlaybooksProofs`, for any number of plays, any budgets and durations, lossy or not,
with any chaos, as long as plays of one device come one after the other (`Serial`):

- `PlaysTypeCorrect`, also for plays that overlap.
- `SuccessIsHealthy` and `FailoverIsIdempotent` (a successful failover leaves the device
  STANDBY, or FORCED OFFLINE where that is how it was found; `FailoverRelieves` is the
  step of the role that may toggle), from two invariants. `Turns`: the plays
  before the one that runs are over, the ones after it have not begun. `Known`: what the
  play has read and still relies on is true, for from the boot switch on no reboot is
  under way but its own.
- `WayBackIsKept` and `RolesAreRoleClients`. The invariant `Disciplined` has four parts:
  the device is sound (`Sound`,
  taken over from `MockDeviceProofs`), the place of a play tells what is true of
  the device (`Route`: the install goes to the volume that is not active, the poll waits
  for the newest install, the activation finds none in progress), a play makes at most
  one archive and one install (`Counted`), and nothing is written to the volume an
  upgrade came from (`WaysBack`). `Outcome` sums up what the twenty tasks do to the
  device, so that each part is proved once for each kind of outcome. With it the plays
  refine `MockDevice` under role clients, and what is proved there holds of them.

  What can break it is a rollback that boots the volume a given-up install is still
  writing. That is impossible without rollbacks; when plays are `Patient`, that is, no
  request is lost and the poll budget covers the install (`Patience`: while a play
  polls, no install has longer to go than the attempts that are left, so that a play
  gives up only once all are over); and, for `WayBackIsKept`, with two plays, because
  the damage needs a third to be seen. `Calm` and `Ordered` carry this through the
  induction. Three plays that may lose requests are one too many, see below.
- `RollbackBootsPriorImage`: a rollback that succeeds right after an upgrade that
  flipped the boot volume runs what that volume held when the upgrade began, lossy or
  not, unless a rollback came before that upgrade. From `Returning`, which remembers
  that image from the moment the rollback has chosen its volume.
- `RollbackReturns` (`RollbackReturnsToPrior`): that is the version the device *ran*.
  It needs more, since an image may differ from what was booted from it: `Leveled` says
  that a device that no play is rebooting runs the image of its active volume, `Began`
  that each upgrade began on such a device. Proved for patient plays, any number of
  them, and for two plays whatever gets lost.
- `NoFalseAborts`: plays are never aborted when no request is lost, no flag is raised and
  the budgets cover the durations (`InstallTime <= InstallRetries * PollDelay`,
  `RebootTime <= BootRetries * PollDelay`): exactly enough is enough, wherever between
  two attempts the deadline falls. From `Faultless`: the device shows no fault
  (`Spotless`), each play is right about the volume and the version it works on
  (`Confident`), and the reboot it waits for ends within the attempts that are left
  (`Reboots`). This is the converse of `SuccessIsHealthy`: the gates let through nothing
  bad, and here they stop nothing good.
- `PlaysGetOn`, the bounded half of `PlaysEnd`, without any hypothesis (plays may
  overlap, lose requests, meet chaos): every step that changes a play lowers
  its measure, the requests to go (`Togo`), then the attempts, then the rest of the
  pause. No loop starts again; only that a play goes on at all is left to fairness.

`ExtensionTasksProofs`, for any clients, tenants, declarations and durations:

- `TasksTypeCorrect`.
- `DoAnswersLastApplied`, `As3AnswersLastApplied`: from `Kept`, which for either kind
  says that tasks settle in the order in which they were started (`DoInOrder`,
  with `DoWithin` for the one that is added, as for installs) and that what is read
  back is of the newest good one.

`DeviceThreadsProofs`, for any number of threads and requests:

- `ThreadsTypeCorrect`: from `Inv`, which adds that a thread about to write an image
  points at an install.
- `RebootBootsOnce`: from `Owed`, an open window is owed exactly one boot.
- `OneActiveVolume` (`ActiveVolumeAtRest`): from `Held`, as long as the last PATCH to begin
  met none that names the other volume, all that are between their two assignments name
  one volume, and what they have written so far agrees. PATCHes that meet and name one
  volume do no harm, and the next PATCH that meets no other heals what two left.
- `InstallsSurviveLateThreads`, if no handler lasts as long as an install
  (`MaxLate < InstallTime`): from `Images`. A thread that has settled an install and
  has not written its image yet finds any younger install of the volume with at least
  `InstallTime - late` seconds to go (`LateWriters`), so the younger image comes later.

`WaveRolloutProofs`, for any waves, devices, thresholds and runs:

- `TypeCorrect` and `DevicesAreHeldOnce` from `Inv`: what each job has left behind
  agrees with how far it is (`JobsOK`), and runs of one wave take turns (`Ordered`).
- `DashboardIsOfNewestRun`: from the same, since a push comes after the whole matrix.
- `PromotionsAreEarned` (`GateIsExact`, both directions), if waves are dispatched when the
  run that gates them is over (`WaitsForPrior`): from `Gated`, the verdict of a gate was
  reached on what the prior run left behind for good. Of the devices that left an artifact,
  and there are some, no larger share failed than the threshold tolerates; and a gate that
  refused a finished wave refused one of which that is not true.
- `AllDevicesAreCounted`: these are all the devices of the wave, if jobs break neither before
  their start is recorded nor in the emission (`SetupBreaks`, `EmitBreaks`). Where they do,
  a device without an artifact goes uncounted whatever became of it, see below.
- `NobodyForgotten`, the safe half of `EveryDeviceAttempted`: a run that was admitted does
  not end without a result of every device of its wave, after failures and
  cancellation too. From `JobsOK`: the run ends after its push, the push follows the matrix.
- `EndedRunsAreFinal`: no step touches what an ended run left behind. The jobs do not
  ask whether their run goes on; that none is under way any more is again the push's
  place in the order.

`IntegrationWrapperProofs`, for any number of VEs, deadlines and interrupts:

- `WrapperTypeCorrect`: types are not inductive here, because a probe counts `left`
  down after the loop looked at the deadline. `LoopOK` adds that a probe is under way
  only while `left > 0`, and that the VEs before `turn` have answered.
- `PassedIsClean` (`PassedMeansClean`): from `LoopOK` and `VerdictOK`, which carries through
  every phase that `failed` or `escaping` is set exactly if an exception hit the run that
  nobody swallowed, and that behind the loop every VE has answered unless one did.
- `NoVEStranded`, `NoSecretsLeft`: from `TornDown`, which holds from the clean-up on. The
  secrets that outlive it are those whose own unlink was refused.
- `LabIsKept` (`KeptWhenAsked`): from `NotTorn`, a lab that is to be kept never gets to
  the teardown phases, by whatever handler or signal.
- `WrapperGetsOn`, the bounded half of `WrapperEnds`: every step, a signal too, leads to
  a later phase or shortens the loop it is in: VEs and files to create, to wait for or to
  destroy, turns to the deadline. It rests on `LoopOK`: a probe that counts a turn down
  has one left, and a fresh deadline comes with the next VE only.

`ExtractionProofs`, for any set of objects and any number of edits and extracts: all
five properties of the run.

- `ExtractionTypeCorrect`: from `Inv`, which adds to the types how far the walk is.
- `NoFileTouchedByFailure`, `AllFilesWritten`: from `FilesOK`, which says which files
  are of the newest extract.
- `NoDanglingReference`, `WholeWalkIsKept`: from `DeviceOK` (whatever was read and not
  touched since is still on the device, and so is what it refers to) and `ReadOK` (of
  the families read so far nothing of that is missing but what an answer lacked). What
  remains is named in the properties: references to kinds that are not read, to paths on
  the list, to what an answer lacked, and "min N of" strings dangle without any edit; an
  object that is on the list, or that an answer lacked, is not declared. The argument needs the
  walk's order, referring kinds before the ones they refer to (`ReferredLater`):
  `walker.py` gives readable logs as the reason for its order, but it is the order
  that keeps references whole.

Every invariant and every action property of a passing run is stated by one of these
theorems. Only model-checked, and why:

- Liveness, which is out of the prover's reach: `InstallsSettle`, `RebootEnds`,
  `TasksEnd`, `PlaysEnd`, `EveryDeviceAttempted`, `WrapperEnds`. Of the last three the
  theorems above prove what does not need fairness.
- `WayBackKept` when rollbacks are among three or more plays that are not patient,
  `RolesAreDisciplined` when rollbacks are among plays that are not patient, and
  `RollbackReturnsToPrior` of three or more such plays. These are not gaps of the
  proofs: outside these hypotheses they are false, and TLC finds the counterexamples
  with no more plays than that. A rollback may boot the volume that the install of a failed upgrade
  is still writing, which is not what role clients do, and a further play
  then starts from a device whose image and running version part ways.

## Where code and documents disagree

The three violated runs, each with the line it contradicts:

1. `runbooks/04-rollback.md:35-38` calls a rollback idempotent, "the active volume is
   already correct". After an upgrade that failed before the boot switch
   `rollback.yml` boots the other volume, with whatever the failed install left.
2. `gate.py:12-13` says the gate keeps a partially run wave from unlocking the next.
   It divides by the artifacts that are there: gated on a run that is still going,
   one early success is 100 %. `PromotionEarned` holds when the operator waits
   (`WaitsForPrior`).
3. `integration_wrapper.py:4` promises a hard timeout. `IntegrationTimeout` is an
   `Exception`; raised during the early diagnostic fetch it is swallowed by the
   `except Exception` at line 245, and the alarm is spent.

Met while modelling, without a run of their own:

- `reset-device` (`chaos.py:130`) restores version 16.1.3 and not the manifest's.
- Two PATCHes inside `activate_volume` at once can leave both volumes active, or none,
  until a later PATCH meets no other (`state.py:246`), against "exactly one active volume
  at any time" (`icontrol.py:293`). `ActiveVolumeAtRest` excepts such a pair, and only as
  long as none followed.
- A thread that settles a reboot clears `rebooting_until` before it calls
  `active_volume()` (`state.py:300-302`). A PATCH in between makes it boot a volume
  that was activated after the reboot ended, or find none active; it raises then, and
  the boot is lost.
- `is_rebooting()` (`state.py:251`) reads `rebooting_until` twice with a call in
  between; cleared by another thread meanwhile, the comparison with None raises, and the
  client gets a 500 where the guard's docstring promises a 503 or an answer.
- A reboot request that looks at the clock before a deadline in `advance()` and after it in
  `is_rebooting()` opens a new window over the one that ran out: the boot in between
  never takes place. `RebootEnds` says that the device does not stay away all the same.
- The status of an install becomes complete before its image is written
  (`state.py:295-298`): a poller on another thread may read the new status and the old
  version.
- `start_do_task` (`state.py:367`) spends `fail_next_do` also on a declaration that
  fails by its own hostname, against the comment one line above.
- The one-shot chaos flags are tested and cleared in two steps; of two requests that see
  one raised both fail, and a flag raised in between is lost.
- A POST of DO or AS3 that awaits its body is accepted by a device that began to
  reboot meanwhile (`extensions.py:168`), against the guard's docstring (line 33).
- An install into the active volume that ends after a reboot nobody observed is
  settled before that reboot (`state.py:287`), and the device reports its version.
  `ImplementsEager` therefore holds for clients that behave like the roles only.
- A second upgrade of an upgraded device installs and reboots again, into the volume
  that held the way back; `runbooks/01-preflight-failure.md:29-30` calls it a no-op.
- Upgrade and rollback are in different concurrency groups
  (`rollback.yml:26-28`, `_upgrade-wave-reusable.yml:68-70`); with `Serial = FALSE`
  `SuccessMeansHealthy` fails.
- A job that breaks before "Record upgrade start time" leaves no artifact
  (`_upgrade-wave-reusable.yml:209`), although the emit step always runs; nor does one in
  which `uv`, the writer or the upload fails after the upgrade (lines 203-252). Its device
  goes uncounted even if its upgrade failed, and the next wave may start at 100 %.
  `runbooks/05-running-a-wave.md:132-134` knows of such artifacts, but the gate notices only
  when none is left. `PromotionEarned` is about the devices that are counted.
- `f5_failover` succeeds on a device that is FORCED OFFLINE and reports "skipped"
  (`tasks/main.yml:44-48`), though its header knows only ACTIVE and "already STANDBY".
- "Two kicks of the same wave serialize (the second waits in queue)"
  (`_upgrade-wave-reusable.yml:63-64`): a third kick replaces the second, which never
  runs.
- `runbooks/06-postcheck-drift.md:95` stops a wave by cancelling its workflow. Matrix and
  push are conditioned on `always()` (`_upgrade-wave-reusable.yml:151`): once discovery
  has succeeded and the gate is passed, a cancelled run upgrades the rest of its devices.
- An upgrade that gave up while its install went on, followed by a rollback: the device
  boots the volume that is being written (`rollback.yml:39`), and the image under the
  running system changes. `WayBackKept` fails then, and so does `RolesAreDisciplined`.
- `integration_wrapper.py:32-35` says that the nuclear teardown runs with
  `INTEGRATION_SKIP_DESTROY` too; lines 605-610 skip it.
- "Teardown runs unconditionally" (`integration_wrapper.py:4-7`): a Ctrl-C in the
  `finally` block, or the alarm before line 579, ends it; the model's exit is "cut_off". A
  terraform killed by a signal may have created a VE it did not record; destroy
  then succeeds, and the fallback by tag does not run. `NothingStranded` is stated
  for recorded VEs.
- The wrapper exits with 0 although the key or the passwords are still on disk when their
  removal is refused (`integration_wrapper.py:515-516`).
- `_items` (`walker.py:178-192`) takes a 200 answer without a list of `items` for an empty
  collection: the extract succeeds, and a whole family is missing from the declaration.
- `is_builtin` (`builtins.py:298-313`) looks up a path without its kind: an operator's object
  in /Common that has the name of a vendor's object of another kind is dropped, and a vendor
  object that is not on the list is declared.
- The walker reads http monitors, client-ssl profiles and cookie persistence
  (`walker.py:106-116`); the emitters pass on references to any monitor or persistence
  (`as3.py:241-243`, `304-305`), which nothing in the declaration answers. Of "min 1 of
  { ... }" they keep a text that is nobody's name (`as3.py:252-260`, whose docstring leaves
  it to the operator).
- `as3.py:94` promises "one AS3 Application containing every extracted object"; the
  application is keyed by simple names (lines 107-123), and of a pool and a virtual
  with one name only the virtual is left. `NothingLost` excepts these.
- `cli.py:82` offers `--partition` as the "F5 partition to extract"; it names the
  tenant, and objects of every partition go into it. Nothing filters by it.
- References are cut down to simple names (`as3.py:294`), so one to an object of another
  partition, or to one that is not declared, resolves to a namesake.
- After a kill between two files an older `do.json` stays beside a newer `as3.json`,
  and `validate` accepts the pair (`cli.py:159-189`).

## Not modelled

- In `DeviceThreads`: HA and sync status, UCS archives, chaos flags and `reset-device`
  (which its docstring places between scenarios), and the tasks of the extensions, whose
  POST handlers are coroutines on the event loop; an install that is to fail. Builds of
  CPython without a global lock, where any two steps may overlap.
- `DeviceThreads` and `MockDevice` are not tied by a refinement: as the list above shows,
  overlapping handlers are not always equal to some order of whole ones. The properties
  of `threads_pool` say what is left.
- The extractor's `validate`, which changes nothing, and the text of the DO, Terraform
  and README files.
- The nginx generator: one pass from a manifest to text, no state.
- LTM endpoints and fixtures: constants.
- Terraform code: declarative; its effect on the mock is a client of
  `ExtensionTasks`, its effect on AWS is in `IntegrationWrapper`.
- `rollback.yml` as a workflow of its own: it runs one play of `Playbooks`, without gate
  or artifacts. The plays of two devices share nothing.

## Plan

Done, in this order: the device and its handlers, the plays on top of it, the extension
tasks, the waves, the wrapper and the extractor; then the threads of the mock server, and
cancellation, replaced runs and metrics of the waves; then the proofs, which now cover
every invariant and action property of a passing run and both refinements, some of them
under an assumption named above. What is left:

1. A two-phase view of the plays, "device upgraded or unchanged, never in between",
   which `Playbooks` implements; and a wave specification that `WaveRollout`
   implements.
2. The bounded halves of `InstallsSettle`, `TasksEnd` and `RebootEnds`, as done for plays
   and wrapper.
3. Overlapping plays (`Serial = FALSE`): what the health gate still promises then.
