------------------------- MODULE IntegrationWrapper -------------------------
(***************************************************************************)
(* One run of tools/integration_wrapper.py: a lab of BIG-IP VEs is created *)
(* in AWS, checked, and torn down again.  A step is one phase of main() or *)
(* one turn of its waiting loop; the hard timeout (SIGALRM) and Ctrl-C     *)
(* (SIGINT) are exceptions that may be raised between any two of them.     *)
(***************************************************************************)
EXTENDS Naturals

CONSTANTS
    NumVEs,         \* VEs of the lab
    Attempts,       \* bound: turns of the waiting loop before its deadline
    MaxInterrupts   \* bound: Ctrl-C

ASSUME WrapperAssumption ==
    /\ NumVEs \in Nat \ {0}
    /\ Attempts \in Nat
    /\ MaxInterrupts \in Nat

\* In the order of ve_endpoints.
VEs == 1..NumVEs

\* What terraform writes to build/integration: the key of the lab, and the
\* inventory with the admin passwords.
Secrets == {"ssh_key", "inventory"}

VARIABLES
    pc,         \* the phase that is running
    skip,       \* SKIP_DESTROY
    failed,     \* failed
    escaping,   \* an exception was raised in an except clause
    alarm,      \* the SIGALRM timer: "armed", "spent" or "off"
    interrupts, \* how often Ctrl-C was hit
    endpoints,  \* ve_endpoints # {}
    turn,       \* the VE that wait_for_all_ves waits for
    left,       \* turns left before the deadline of wait_for_icontrol
    fetched,    \* early_fetch_done
    ready,      \* VEs that answered 200
    up,         \* VEs that exist in AWS
    known,      \* VEs in terraform's state
    secrets,    \* those that are on disk
    tore,       \* the teardowns that were begun, and whether AWS refused the last one
    stuck,      \* history: secrets whose unlink was refused
    mishaps     \* history: where exceptions hit, "swallowed" if the run went on

lab == <<up, known, secrets, stuck>>
loop == <<turn, left, fetched, ready>>
verdict == <<failed, mishaps>>
control == <<verdict, escaping, alarm, interrupts, tore>>
vars == <<pc, skip, endpoints, loop, lab, control>>

TryBody == {"apply", "outputs", "probe", "early_fetch", "http", "preflight"}

FinallyBlock == {"disarm", "diagnose", "destroy", "nuclear", "cleanup"}

\* sys.exit(0), sys.exit(1), an exception after the finally block, and one
\* that left the finally block itself.
Exits == {"passed", "failed", "crashed", "cut_off"}

Init ==
    /\ pc = "apply" /\ skip \in BOOLEAN /\ failed = FALSE /\ escaping = FALSE
    /\ alarm = "armed" /\ interrupts = 0 /\ endpoints = FALSE
    /\ turn = 1 /\ left = Attempts /\ fetched = FALSE /\ ready = {}
    /\ up = {} /\ known = {} /\ secrets = {} /\ tore = {}
    /\ stuck = {} /\ mishaps = {}

----------------------------------------------------------------------------
Goto(phase) == pc' = phase

\* An exception hits the phase that is running.
Mishap == mishaps' = mishaps \cup {pc}

\* One that leaves the try body: an except clause sets failed.
Raise == Goto("handler") /\ failed' = TRUE /\ Mishap

(***************************************************************************)
(* terraform init, apply and output.  A VE exists before it is recorded; a  *)
(* terraform that fails has recorded what it made, one that is killed has   *)
(* not.                                                                     *)
(***************************************************************************)
CreateVE(v) ==
    /\ pc = "apply" /\ v \notin up
    /\ up' = up \cup {v}
    /\ UNCHANGED <<pc, skip, endpoints, loop, known, secrets, stuck, control>>

RecordVE(v) ==
    /\ pc = "apply" /\ v \in up \ known
    /\ known' = known \cup {v}
    /\ UNCHANGED <<pc, skip, endpoints, loop, up, secrets, stuck, control>>

\* The inventory names the addresses of all VEs.
WriteSecret(file) ==
    /\ pc = "apply" /\ file \notin secrets
    /\ file = "inventory" => known = VEs
    /\ secrets' = secrets \cup {file}
    /\ UNCHANGED <<pc, skip, endpoints, loop, up, known, stuck, control>>

TerraformApply ==
    /\ pc = "apply" /\ up = known
    /\ \/ known = VEs /\ secrets = Secrets /\ Goto("outputs") /\ UNCHANGED verdict
       \/ Raise
    /\ UNCHANGED <<skip, endpoints, loop, lab, escaping, alarm, interrupts, tore>>

TerraformOutputs ==
    /\ pc = "outputs"
    /\ \/ endpoints' = TRUE /\ Goto("probe") /\ UNCHANGED verdict
       \/ endpoints' \in BOOLEAN /\ Raise
    /\ UNCHANGED <<skip, loop, lab, escaping, alarm, interrupts, tore>>

(***************************************************************************)
(* wait_for_all_ves: one VE after the other, a fresh deadline for each.    *)
(***************************************************************************)
\* Mutants of ProbePorts: the loop looks at its deadline too late; it takes a
\* new one in every turn.
ProbePastDeadline ==
    /\ pc = "probe"
    /\ \/ left' = left - 1 /\ UNCHANGED <<pc, verdict, fetched>>
       \/ Goto("http") /\ UNCHANGED <<left, verdict, fetched>>
    /\ UNCHANGED <<skip, endpoints, turn, ready, lab, escaping, alarm, interrupts, tore>>

ProbeNewDeadline ==
    /\ pc = "probe"
    /\ \/ left' = Attempts /\ UNCHANGED <<pc, verdict, fetched>>
       \/ left' = Attempts /\ Goto("http") /\ UNCHANGED <<verdict, fetched>>
    /\ UNCHANGED <<skip, endpoints, turn, ready, lab, escaping, alarm, interrupts, tore>>

ProbePorts ==
    /\ pc = "probe"
    /\ \/ left = 0 /\ Raise /\ UNCHANGED <<left, fetched>>
       \/ left > 0 /\ left' = left - 1 /\ UNCHANGED <<pc, verdict, fetched>>
       \/ left > 0 /\ Goto("http") /\ UNCHANGED <<left, verdict, fetched>>
       \/ left > 0 /\ ~fetched /\ Goto("early_fetch") /\ fetched' = TRUE /\ UNCHANGED <<left, verdict>>
    /\ UNCHANGED <<skip, endpoints, turn, ready, lab, escaping, alarm, interrupts, tore>>

\* ssh_fetch_diagnostics; whatever it raises is logged and forgotten.
EarlyFetch ==
    /\ pc = "early_fetch"
    /\ Goto("http")
    /\ UNCHANGED <<skip, endpoints, loop, lab, control>>

ProbeHttp ==
    /\ pc = "http"
    /\ \/ left' = left - 1 /\ Goto("probe") /\ UNCHANGED <<verdict, turn, fetched, ready>>
       \/ /\ ready' = ready \cup {turn}
          /\ turn' = turn + 1 /\ left' = Attempts /\ fetched' = FALSE
          /\ Goto(IF turn < NumVEs THEN "probe" ELSE "preflight")
          /\ UNCHANGED verdict
       \/ Raise /\ UNCHANGED loop
    /\ UNCHANGED <<skip, endpoints, lab, escaping, alarm, interrupts, tore>>

RunPreflight ==
    /\ pc = "preflight"
    /\ \/ Goto("disarm") /\ UNCHANGED verdict
       \/ Raise
    /\ UNCHANGED <<skip, endpoints, loop, lab, escaping, alarm, interrupts, tore>>

----------------------------------------------------------------------------
(***************************************************************************)
(* The except clauses log, then the finally block runs.                    *)
(***************************************************************************)
Handler ==
    /\ pc = "handler"
    /\ Goto("disarm")
    /\ UNCHANGED <<skip, endpoints, loop, lab, control>>

Exit == IF escaping THEN "crashed" ELSE IF failed THEN "failed" ELSE "passed"

\* Mutant of Teardown: SKIP_DESTROY counts for runs that pass only.
TeardownFailures ==
    /\ Goto(IF skip /\ ~failed THEN Exit ELSE "destroy")
    /\ tore' = IF skip /\ ~failed THEN tore ELSE tore \cup {"destroy"}

Teardown ==
    /\ Goto(IF skip THEN Exit ELSE "destroy")
    /\ tore' = IF skip THEN tore ELSE tore \cup {"destroy"}

Disarm ==
    /\ pc = "disarm"
    /\ alarm' = "off"
    /\ IF failed /\ endpoints THEN Goto("diagnose") /\ UNCHANGED tore ELSE Teardown
    /\ UNCHANGED <<skip, endpoints, loop, lab, verdict, escaping, interrupts>>

Diagnose ==
    /\ pc = "diagnose"
    /\ Teardown
    /\ UNCHANGED <<skip, endpoints, loop, lab, verdict, escaping, alarm, interrupts>>

DestroyVE(v) ==
    /\ pc = "destroy" /\ v \in known
    /\ up' = up \ {v} /\ known' = known \ {v}
    /\ UNCHANGED <<pc, skip, endpoints, loop, secrets, stuck, control>>

\* The files go with the lab, where terraform has them on record.
DestroySecret(file) ==
    /\ pc = "destroy" /\ file \in secrets
    /\ secrets' = secrets \ {file}
    /\ UNCHANGED <<pc, skip, endpoints, loop, up, known, stuck, control>>

\* Mutant of TerraformDestroy: its exit status is ignored.
DestroyUnchecked ==
    /\ pc = "destroy"
    /\ Goto("cleanup")
    /\ UNCHANGED <<skip, endpoints, loop, lab, verdict, escaping, alarm, interrupts, tore>>

TerraformDestroy ==
    /\ pc = "destroy"
    /\ \/ known = {} /\ Goto("cleanup") /\ UNCHANGED tore
       \/ Goto("nuclear") /\ tore' = tore \cup {"nuclear"}
    /\ UNCHANGED <<skip, endpoints, loop, lab, verdict, escaping, alarm, interrupts>>

\* Everything that is tagged goes, in terraform's state or not; an AWS call
\* that fails is logged and forgotten.
NuclearTeardown ==
    /\ pc = "nuclear"
    /\ \/ up' = {} /\ UNCHANGED tore
       \/ tore' = tore \cup {"refused"} /\ UNCHANGED up
    /\ Goto("cleanup")
    /\ UNCHANGED <<skip, endpoints, loop, known, secrets, stuck, verdict, escaping, alarm, interrupts>>

\* A turn of the loop over the two files: unlinking one may be refused, which is
\* logged.  Mutant of CleanupLocalSecrets: the try is around the loop.
CleanupInOneTry ==
    /\ pc = "cleanup"
    /\ \/ \E file \in secrets :
             \/ secrets' = secrets \ {file} /\ UNCHANGED <<pc, stuck>>
             \/ stuck' = stuck \cup {file} /\ Goto(Exit) /\ UNCHANGED secrets
       \/ secrets = {} /\ Goto(Exit) /\ UNCHANGED <<secrets, stuck>>
    /\ UNCHANGED <<skip, endpoints, loop, up, known, control>>

CleanupLocalSecrets ==
    /\ pc = "cleanup"
    /\ \/ \E file \in secrets \ stuck :
             /\ \/ secrets' = secrets \ {file} /\ UNCHANGED stuck
                \/ stuck' = stuck \cup {file} /\ UNCHANGED secrets
             /\ UNCHANGED pc
       \/ secrets \subseteq stuck /\ Goto(Exit) /\ UNCHANGED <<secrets, stuck>>
    /\ UNCHANGED <<skip, endpoints, loop, up, known, control>>

----------------------------------------------------------------------------
(***************************************************************************)
(* A signal at the current phase: an exception that an except clause       *)
(* catches, that leaves the except clause after the finally block, or that *)
(* leaves the finally block itself.  The process is gone after that.       *)
(***************************************************************************)
\* Mutant of Caught: an except clause that does not say the run failed.
CaughtSilently == Goto("handler") /\ Mishap /\ UNCHANGED failed

Caught == Raise

Signalled ==
    \/ pc \in TryBody /\ Caught /\ UNCHANGED escaping
    \/ pc = "handler" /\ Goto("disarm") /\ escaping' = TRUE /\ Mishap /\ UNCHANGED failed
    \/ pc \in FinallyBlock /\ Goto("cut_off") /\ Mishap /\ UNCHANGED <<failed, escaping>>

Sigint ==
    /\ interrupts < MaxInterrupts
    /\ interrupts' = interrupts + 1
    /\ Signalled
    /\ UNCHANGED <<skip, endpoints, loop, lab, alarm, tore>>

(***************************************************************************)
(* IntegrationTimeout is an Exception: the early fetch forgets it too.     *)
(***************************************************************************)
Swallowed ==
    /\ Goto("http")
    /\ mishaps' = mishaps \cup {"swallowed"}
    /\ UNCHANGED <<failed, escaping>>

Sigalrm ==
    /\ alarm = "armed"
    /\ alarm' = "spent"
    /\ IF pc = "early_fetch" THEN Swallowed ELSE Signalled
    /\ UNCHANGED <<skip, endpoints, loop, lab, interrupts, tore>>

----------------------------------------------------------------------------
Terraform ==
    \/ \E v \in VEs : CreateVE(v) \/ RecordVE(v) \/ DestroyVE(v)
    \/ \E file \in Secrets : WriteSecret(file) \/ DestroySecret(file)
    \/ TerraformApply
    \/ TerraformOutputs
    \/ TerraformDestroy

Wrapper ==
    \/ ProbePorts
    \/ EarlyFetch
    \/ ProbeHttp
    \/ RunPreflight
    \/ Handler
    \/ Disarm
    \/ Diagnose
    \/ NuclearTeardown
    \/ CleanupLocalSecrets

Next == Terraform \/ Wrapper \/ Sigint \/ Sigalrm

Spec == Init /\ [][Next]_vars

\* Commands come to an end and the wrapper goes on; nobody has to press Ctrl-C.
FairSpec == Spec /\ WF_vars(Terraform) /\ WF_vars(Wrapper)

----------------------------------------------------------------------------
(***************************************************************************)
(* Properties.                                                             *)
(***************************************************************************)

\* Phases, flags and counters keep their types; the turns that are left to the
\* deadline never fall below zero.
TypeOK ==
    /\ pc \in TryBody \cup {"handler"} \cup FinallyBlock \cup Exits
    /\ skip \in BOOLEAN /\ failed \in BOOLEAN /\ escaping \in BOOLEAN
    /\ endpoints \in BOOLEAN /\ fetched \in BOOLEAN
    /\ alarm \in {"armed", "spent", "off"} /\ interrupts \in 0..MaxInterrupts
    /\ turn \in Nat /\ left \in 0..Attempts
    /\ ready \subseteq VEs /\ known \subseteq VEs /\ up \subseteq VEs
    /\ tore \subseteq {"destroy", "nuclear", "refused"}
    /\ secrets \subseteq Secrets /\ stuck \subseteq Secrets
    /\ mishaps \subseteq TryBody \cup {"handler", "swallowed"} \cup FinallyBlock

\* "No resources stranded" (integration_wrapper.py:585): whatever fails, and
\* whenever the timeout or Ctrl-C cut the work short, no VE that terraform
\* recorded is left when the wrapper is gone, unless the operator asked for
\* it, AWS refused to terminate it, or a signal cut the teardown itself off.
NothingStranded ==
    pc \in Exits \ {"cut_off"} /\ ~skip => up \cap known = {} \/ "refused" \in tore

\* A run is reported as passed if every VE answered and no exception hit it on
\* the way, neither a deadline nor the timeout nor Ctrl-C, in whatever phase and
\* with however many VEs ready by then; and only if so, but for a timeout that
\* the early fetch swallowed, of which the exit status says nothing.
PassedMeansClean ==
    pc \in Exits =>
        (pc = "passed" <=> ready = VEs /\ mishaps \subseteq {"swallowed"})

\* After a teardown that no signal cut off, no secret is on disk but one whose
\* own unlink was refused, which exit status 0 does not exclude: a file that
\* cannot be removed does not keep the other one there.
SecretsRemoved == pc \in Exits \ {"cut_off"} /\ ~skip => secrets \subseteq stuck

\* INTEGRATION_SKIP_DESTROY keeps the lab for the operator, also when the run
\* failed: no VE goes away by the wrapper's doing.
KeptWhenAsked == [][skip => up \subseteq up']_vars

\* The wrapper comes to an end, a VE that never answers or not.
WrapperEnds == <>(pc \in Exits)

\* "Hard 45-minute wall-clock timeout" (integration_wrapper.py:4): once it has
\* fired the wrapper does nothing more than clean up.
HardTimeout == alarm = "spent" => pc \notin TryBody
============================================================================
