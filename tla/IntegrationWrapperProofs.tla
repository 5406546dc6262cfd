---------------------- MODULE IntegrationWrapperProofs ----------------------
(***************************************************************************)
(* Safety of tools/integration_wrapper.py for a lab of any size and any    *)
(* number of interrupts: what is torn down, and what "passed" means.       *)
(***************************************************************************)
EXTENDS IntegrationWrapper, TLAPS

----------------------------------------------------------------------------
(***************************************************************************)
(* The inductive invariant.  Types alone are not inductive: that the       *)
(* waiting loop keeps to its deadline rests on where the loop is.          *)
(***************************************************************************)
\* The flags.
FlagsOK ==
    /\ skip \in BOOLEAN /\ failed \in BOOLEAN /\ escaping \in BOOLEAN
    /\ endpoints \in BOOLEAN /\ fetched \in BOOLEAN

\* Phases and sets.
PhasesOK ==
    /\ pc \in TryBody \cup {"handler"} \cup FinallyBlock \cup Exits
    /\ alarm \in {"armed", "spent", "off"} /\ interrupts \in 0..MaxInterrupts
    /\ known \subseteq VEs /\ up \subseteq VEs
    /\ tore \subseteq {"destroy", "nuclear", "refused"}
    /\ secrets \subseteq Secrets /\ stuck \subseteq Secrets
    /\ mishaps \subseteq TryBody \cup {"handler", "swallowed"} \cup FinallyBlock

\* The waiting loop: a probe is under way only before the deadline, and the
\* VEs before the one that is waited for have answered.
LoopOK ==
    /\ turn \in Nat /\ left \in 0..Attempts /\ ready \subseteq VEs
    /\ pc \in {"early_fetch", "http"} => left > 0
    /\ pc \in TryBody \ {"preflight"} => turn \in VEs /\ ready = 1..(turn - 1)

\* No exception but those that the early fetch swallowed.
Clean == mishaps \subseteq {"swallowed"}

\* The flags tell of every other exception, and from the loop's end on a run that
\* has not failed has heard of every VE.
VerdictOK ==
    /\ Clean <=> ~failed /\ ~escaping /\ pc # "cut_off"
    /\ pc = "preflight" => ready = VEs
    /\ pc = "handler" => failed
    /\ pc \in FinallyBlock \cup {"passed"} /\ ~failed => ready = VEs
    /\ pc = "passed" => ~failed /\ ~escaping
    /\ pc \in {"failed", "crashed"} => failed \/ escaping

\* Where the teardown is over, it left nothing it knew of and no secret it could remove.
TornDown ==
    /\ pc \in {"cleanup"} \cup (Exits \ {"cut_off"}) /\ ~skip =>
          up \cap known = {} \/ "refused" \in tore
    /\ pc \in Exits \ {"cut_off"} /\ ~skip => secrets \subseteq stuck

\* A lab that is to be kept never gets as far as its teardown.
NotTorn == skip => pc \notin {"destroy", "nuclear", "cleanup"}

----------------------------------------------------------------------------
\* One more VE that answered.
LEMMA OneMore ==
  ASSUME NEW n \in Nat \ {0}
  PROVE  1..(n - 1) \cup {n} = 1..((n + 1) - 1)
OBVIOUS

\* A step keeps the flags Boolean.
LEMMA FlagsStep ==
  ASSUME FlagsOK, [Next]_vars
  PROVE  FlagsOK'
<1> USE WrapperAssumption DEF FlagsOK, TryBody, FinallyBlock,
        Exits, Goto, Raise, Mishap, loop, lab, verdict, control
<1>1. ASSUME NEW v \in VEs, CreateVE(v) \/ RecordVE(v) \/ DestroyVE(v)
      PROVE  FlagsOK'
  BY <1>1 DEF CreateVE, RecordVE, DestroyVE
<1>2. ASSUME NEW file \in Secrets, WriteSecret(file) \/ DestroySecret(file)
      PROVE  FlagsOK'
  BY <1>2 DEF WriteSecret, DestroySecret
<1>3. CASE TerraformApply
  BY <1>3 DEF TerraformApply
<1>4. CASE TerraformOutputs
  BY <1>4 DEF TerraformOutputs
<1>5. CASE TerraformDestroy
  BY <1>5 DEF TerraformDestroy
<1>6. CASE ProbePorts
  BY <1>6 DEF ProbePorts
<1>7. CASE EarlyFetch
  BY <1>7 DEF EarlyFetch
<1>8. CASE ProbeHttp
  BY <1>8 DEF ProbeHttp
<1>9. CASE RunPreflight
  BY <1>9 DEF RunPreflight
<1>10. CASE Handler
  BY <1>10 DEF Handler
<1>11. CASE Disarm
  BY <1>11 DEF Disarm, Teardown, Exit
<1>12. CASE Diagnose
  BY <1>12 DEF Diagnose, Teardown, Exit
<1>13. CASE NuclearTeardown
  BY <1>13 DEF NuclearTeardown
<1>14. CASE CleanupLocalSecrets
  BY <1>14 DEF CleanupLocalSecrets, Exit
<1>15. CASE Sigint
  BY <1>15 DEF Sigint, Signalled, Caught
<1>16. CASE Sigalrm
  BY <1>16 DEF Sigalrm, Swallowed, Signalled, Caught
<1>17. CASE UNCHANGED vars
  BY <1>17 DEF vars
<1> QED
  BY <1>1, <1>2, <1>3, <1>4, <1>5, <1>6, <1>7, <1>8, <1>9, <1>10,
     <1>11, <1>12, <1>13, <1>14, <1>15, <1>16, <1>17 DEF Next, Terraform, Wrapper

\* A step leads to a phase, and touches VEs of the lab only.
LEMMA PhasesStep ==
  ASSUME PhasesOK, [Next]_vars
  PROVE  PhasesOK'
<1> USE WrapperAssumption DEF PhasesOK, Secrets, TryBody, FinallyBlock,
        Exits, Goto, Raise, Mishap, loop, lab, verdict, control
<1>1. ASSUME NEW v \in VEs, CreateVE(v) \/ RecordVE(v) \/ DestroyVE(v)
      PROVE  PhasesOK'
  BY <1>1 DEF CreateVE, RecordVE, DestroyVE
<1>2. ASSUME NEW file \in Secrets, WriteSecret(file) \/ DestroySecret(file)
      PROVE  PhasesOK'
  BY <1>2 DEF WriteSecret, DestroySecret
<1>3. CASE TerraformApply
  BY <1>3 DEF TerraformApply
<1>4. CASE TerraformOutputs
  BY <1>4 DEF TerraformOutputs
<1>5. CASE TerraformDestroy
  BY <1>5 DEF TerraformDestroy
<1>6. CASE ProbePorts
  BY <1>6 DEF ProbePorts
<1>7. CASE EarlyFetch
  BY <1>7 DEF EarlyFetch
<1>8. CASE ProbeHttp
  BY <1>8 DEF ProbeHttp
<1>9. CASE RunPreflight
  BY <1>9 DEF RunPreflight
<1>10. CASE Handler
  BY <1>10 DEF Handler
<1>11. CASE Disarm
  BY <1>11 DEF Disarm, Teardown, Exit
<1>12. CASE Diagnose
  BY <1>12 DEF Diagnose, Teardown, Exit
<1>13. CASE NuclearTeardown
  BY <1>13 DEF NuclearTeardown
<1>14. CASE CleanupLocalSecrets
  BY <1>14 DEF CleanupLocalSecrets, Exit
<1>15. CASE Sigint
  <2>1. interrupts' \in 0..MaxInterrupts
    BY <1>15 DEF Sigint
  <2>2. /\ pc' \in TryBody \cup {"handler"} \cup FinallyBlock \cup Exits
        /\ mishaps' \subseteq TryBody \cup {"handler", "swallowed"} \cup FinallyBlock
    BY <1>15 DEF Sigint, Signalled, Caught
  <2>3. UNCHANGED <<alarm, known, up, tore, secrets, stuck>>
    BY <1>15 DEF Sigint
  <2>4. QED
    BY <2>1, <2>2, <2>3
<1>16. CASE Sigalrm
  BY <1>16 DEF Sigalrm, Swallowed, Signalled, Caught
<1>17. CASE UNCHANGED vars
  BY <1>17 DEF vars
<1> QED
  BY <1>1, <1>2, <1>3, <1>4, <1>5, <1>6, <1>7, <1>8, <1>9, <1>10,
     <1>11, <1>12, <1>13, <1>14, <1>15, <1>16, <1>17 DEF Next, Terraform, Wrapper

\* The loop keeps to its deadline and its order.
LEMMA LoopStep ==
  ASSUME LoopOK, [Next]_vars
  PROVE  LoopOK'
<1> USE WrapperAssumption DEF LoopOK, VEs, TryBody, FinallyBlock,
        Exits, Goto, Raise, Mishap, loop, lab, verdict, control
<1>1. ASSUME NEW v \in VEs, CreateVE(v) \/ RecordVE(v) \/ DestroyVE(v)
      PROVE  LoopOK'
  BY <1>1 DEF CreateVE, RecordVE, DestroyVE
<1>2. ASSUME NEW file \in Secrets, WriteSecret(file) \/ DestroySecret(file)
      PROVE  LoopOK'
  BY <1>2 DEF WriteSecret, DestroySecret
<1>3. CASE TerraformApply
  BY <1>3 DEF TerraformApply
<1>4. CASE TerraformOutputs
  BY <1>4 DEF TerraformOutputs
<1>5. CASE TerraformDestroy
  BY <1>5 DEF TerraformDestroy
<1>6. CASE ProbePorts
  BY <1>6 DEF ProbePorts
<1>7. CASE EarlyFetch
  BY <1>7 DEF EarlyFetch
<1>8. CASE ProbeHttp
  <2>1. CASE left' = left - 1 /\ Goto("probe") /\ UNCHANGED <<turn, fetched, ready>>
    BY <1>8, <2>1 DEF ProbeHttp
  <2>3. CASE Raise /\ UNCHANGED loop
    BY <1>8, <2>3 DEF ProbeHttp
  <2>2. CASE /\ ready' = ready \cup {turn}
             /\ turn' = turn + 1 /\ left' = Attempts /\ fetched' = FALSE
             /\ Goto(IF turn < NumVEs THEN "probe" ELSE "preflight")
    <3>1. turn \in 1..NumVEs /\ ready = 1..(turn - 1)
      BY <1>8 DEF ProbeHttp
    <3>2. ready' = 1..(turn' - 1)
      BY <2>2, <3>1, OneMore
    <3>3. turn' \in Nat /\ left' \in 0..Attempts /\ ready' \subseteq VEs
      BY <2>2, <3>1
    <3>4. pc' = "probe" => turn' \in VEs
      BY <2>2, <3>1
    <3> QED
      BY <2>2, <3>2, <3>3, <3>4
  <2> QED
    BY <1>8, <2>1, <2>2, <2>3 DEF ProbeHttp
<1>9. CASE RunPreflight
  BY <1>9 DEF RunPreflight
<1>10. CASE Handler
  BY <1>10 DEF Handler
<1>11. CASE Disarm
  BY <1>11 DEF Disarm, Teardown, Exit
<1>12. CASE Diagnose
  BY <1>12 DEF Diagnose, Teardown, Exit
<1>13. CASE NuclearTeardown
  BY <1>13 DEF NuclearTeardown
<1>14. CASE CleanupLocalSecrets
  BY <1>14 DEF CleanupLocalSecrets, Exit
<1>15. CASE Sigint
  BY <1>15 DEF Sigint, Signalled, Caught
<1>16. CASE Sigalrm
  BY <1>16 DEF Sigalrm, Swallowed, Signalled, Caught
<1>17. CASE UNCHANGED vars
  BY <1>17 DEF vars
<1> QED
  BY <1>1, <1>2, <1>3, <1>4, <1>5, <1>6, <1>7, <1>8, <1>9, <1>10,
     <1>11, <1>12, <1>13, <1>14, <1>15, <1>16, <1>17 DEF Next, Terraform, Wrapper

\* An exception shows in the flags, and a run without one has heard of every VE.
LEMMA VerdictStep ==
  ASSUME VerdictOK, [Next]_vars, LoopOK
  PROVE  VerdictOK'
<1> USE WrapperAssumption DEF VerdictOK, Clean, LoopOK, VEs, TryBody, FinallyBlock,
        Exits, Goto, Raise, Mishap, loop, lab, verdict, control
<1>1. ASSUME NEW v \in VEs, CreateVE(v) \/ RecordVE(v) \/ DestroyVE(v)
      PROVE  VerdictOK'
  BY <1>1 DEF CreateVE, RecordVE, DestroyVE
<1>2. ASSUME NEW file \in Secrets, WriteSecret(file) \/ DestroySecret(file)
      PROVE  VerdictOK'
  BY <1>2 DEF WriteSecret, DestroySecret
<1>3. CASE TerraformApply
  BY <1>3 DEF TerraformApply
<1>4. CASE TerraformOutputs
  BY <1>4 DEF TerraformOutputs
<1>5. CASE TerraformDestroy
  BY <1>5 DEF TerraformDestroy
<1>6. CASE ProbePorts
  BY <1>6 DEF ProbePorts
<1>7. CASE EarlyFetch
  BY <1>7 DEF EarlyFetch
<1>8. CASE ProbeHttp
  <2>1. CASE Goto("probe") \/ Raise
    BY <1>8, <2>1 DEF ProbeHttp
  <2>2. CASE /\ ready' = ready \cup {turn}
             /\ Goto(IF turn < NumVEs THEN "probe" ELSE "preflight")
             /\ UNCHANGED verdict
    <3>1. turn \in 1..NumVEs /\ ready = 1..(turn - 1)
      BY <1>8 DEF ProbeHttp
    <3>2. ready' = 1..((turn + 1) - 1)
      BY <2>2, <3>1, OneMore
    <3>3. pc' \in {"probe", "preflight"} /\ (pc' = "preflight" => ready' = VEs)
      BY <2>2, <3>1, <3>2
    <3>4. UNCHANGED <<mishaps, failed, escaping>>
      BY <1>8, <2>2 DEF ProbeHttp
    <3>5. pc = "http"
      BY <1>8 DEF ProbeHttp
    <3> QED
      BY <3>3, <3>4, <3>5
  <2> QED
    BY <1>8, <2>1, <2>2 DEF ProbeHttp
<1>9. CASE RunPreflight
  BY <1>9 DEF RunPreflight
<1>10. CASE Handler
  BY <1>10 DEF Handler
<1>11. CASE Disarm
  BY <1>11 DEF Disarm, Teardown, Exit
<1>12. CASE Diagnose
  BY <1>12 DEF Diagnose, Teardown, Exit
<1>13. CASE NuclearTeardown
  BY <1>13 DEF NuclearTeardown
<1>14. CASE CleanupLocalSecrets
  BY <1>14 DEF CleanupLocalSecrets, Exit
<1>15. CASE Sigint
  <2>1. CASE pc \in TryBody
    BY <1>15, <2>1 DEF Sigint, Signalled, Caught
  <2>2. CASE pc = "handler"
    BY <1>15, <2>2 DEF Sigint, Signalled
  <2>3. CASE pc \in FinallyBlock
    BY <1>15, <2>3 DEF Sigint, Signalled
  <2>4. QED
    BY <1>15, <2>1, <2>2, <2>3 DEF Sigint, Signalled
<1>16. CASE Sigalrm
  BY <1>16 DEF Sigalrm, Swallowed, Signalled, Caught
<1>17. CASE UNCHANGED vars
  BY <1>17 DEF vars
<1> QED
  BY <1>1, <1>2, <1>3, <1>4, <1>5, <1>6, <1>7, <1>8, <1>9, <1>10,
     <1>11, <1>12, <1>13, <1>14, <1>15, <1>16, <1>17 DEF Next, Terraform, Wrapper

\* The teardown ends with nothing left that terraform knows of.
LEMMA TornDownStep ==
  ASSUME TornDown, [Next]_vars, PhasesOK
  PROVE  TornDown'
<1> USE WrapperAssumption DEF TornDown, PhasesOK, TryBody, FinallyBlock,
        Exits, Goto, Raise, Mishap, loop, lab, verdict, control
<1>1. ASSUME NEW v \in VEs, CreateVE(v) \/ RecordVE(v) \/ DestroyVE(v)
      PROVE  TornDown'
  BY <1>1 DEF CreateVE, RecordVE, DestroyVE
<1>2. ASSUME NEW file \in Secrets, WriteSecret(file) \/ DestroySecret(file)
      PROVE  TornDown'
  BY <1>2 DEF WriteSecret, DestroySecret
<1>3. CASE TerraformApply
  BY <1>3 DEF TerraformApply
<1>4. CASE TerraformOutputs
  BY <1>4 DEF TerraformOutputs
<1>5. CASE TerraformDestroy
  BY <1>5 DEF TerraformDestroy
<1>6. CASE ProbePorts
  BY <1>6 DEF ProbePorts
<1>7. CASE EarlyFetch
  BY <1>7 DEF EarlyFetch
<1>8. CASE ProbeHttp
  BY <1>8 DEF ProbeHttp
<1>9. CASE RunPreflight
  BY <1>9 DEF RunPreflight
<1>10. CASE Handler
  BY <1>10 DEF Handler
<1>11. CASE Disarm
  BY <1>11 DEF Disarm, Teardown, Exit
<1>12. CASE Diagnose
  BY <1>12 DEF Diagnose, Teardown, Exit
<1>13. CASE NuclearTeardown
  BY <1>13 DEF NuclearTeardown
<1>14. CASE CleanupLocalSecrets
  BY <1>14 DEF CleanupLocalSecrets, Exit
<1>15. CASE Sigint
  BY <1>15 DEF Sigint, Signalled, Caught
<1>16. CASE Sigalrm
  BY <1>16 DEF Sigalrm, Swallowed, Signalled, Caught
<1>17. CASE UNCHANGED vars
  BY <1>17 DEF vars
<1> QED
  BY <1>1, <1>2, <1>3, <1>4, <1>5, <1>6, <1>7, <1>8, <1>9, <1>10,
     <1>11, <1>12, <1>13, <1>14, <1>15, <1>16, <1>17 DEF Next, Terraform, Wrapper

\* Only the two steps that begin a teardown lead to one, neither when the lab is to
\* be kept; and only a teardown takes a VE away.
LEMMA NotTornStep ==
  ASSUME NotTorn, [Next]_vars
  PROVE  NotTorn' /\ (skip => up \subseteq up')
<1> USE DEF NotTorn, TryBody, FinallyBlock, Goto, Raise, Mishap, loop, lab, verdict, control
<1>1. ASSUME NEW v \in VEs, CreateVE(v) \/ RecordVE(v) \/ DestroyVE(v)
      PROVE  NotTorn' /\ (skip => up \subseteq up')
  BY <1>1 DEF CreateVE, RecordVE, DestroyVE
<1>2. ASSUME NEW file \in Secrets, WriteSecret(file) \/ DestroySecret(file)
      PROVE  NotTorn' /\ (skip => up \subseteq up')
  BY <1>2 DEF WriteSecret, DestroySecret
<1>3. CASE TerraformApply
  BY <1>3 DEF TerraformApply
<1>4. CASE TerraformOutputs
  BY <1>4 DEF TerraformOutputs
<1>5. CASE TerraformDestroy
  BY <1>5 DEF TerraformDestroy
<1>6. CASE ProbePorts
  BY <1>6 DEF ProbePorts
<1>7. CASE EarlyFetch
  BY <1>7 DEF EarlyFetch
<1>8. CASE ProbeHttp
  BY <1>8 DEF ProbeHttp
<1>9. CASE RunPreflight
  BY <1>9 DEF RunPreflight
<1>10. CASE Handler
  BY <1>10 DEF Handler
<1>11. CASE Disarm
  BY <1>11 DEF Disarm, Teardown, Exit
<1>12. CASE Diagnose
  BY <1>12 DEF Diagnose, Teardown, Exit
<1>13. CASE NuclearTeardown
  BY <1>13 DEF NuclearTeardown
<1>14. CASE CleanupLocalSecrets
  BY <1>14 DEF CleanupLocalSecrets, Exit
<1>15. CASE Sigint
  BY <1>15 DEF Sigint, Signalled, Caught
<1>16. CASE Sigalrm
  BY <1>16 DEF Sigalrm, Swallowed, Signalled, Caught
<1>17. CASE UNCHANGED vars
  BY <1>17 DEF vars
<1> QED
  BY <1>1, <1>2, <1>3, <1>4, <1>5, <1>6, <1>7, <1>8, <1>9, <1>10,
     <1>11, <1>12, <1>13, <1>14, <1>15, <1>16, <1>17 DEF Next, Terraform, Wrapper

----------------------------------------------------------------------------
\* Phases, flags and counters keep their types, and the waiting loop never
\* runs past its deadline.
THEOREM WrapperTypeCorrect == Spec => []TypeOK
<1>1. Init => FlagsOK /\ PhasesOK /\ LoopOK
  <2> SUFFICES ASSUME Init PROVE FlagsOK /\ PhasesOK /\ LoopOK
    OBVIOUS
  <2>1. FlagsOK
    BY DEF Init, FlagsOK
  <2>2. PhasesOK
    BY WrapperAssumption DEF Init, PhasesOK, TryBody
  <2>3. LoopOK
    BY WrapperAssumption DEF Init, LoopOK, VEs
  <2> QED
    BY <2>1, <2>2, <2>3
<1>2. FlagsOK /\ PhasesOK /\ LoopOK /\ [Next]_vars => (FlagsOK /\ PhasesOK /\ LoopOK)'
  BY FlagsStep, PhasesStep, LoopStep
<1>3. FlagsOK /\ PhasesOK /\ LoopOK => TypeOK
  BY DEF FlagsOK, PhasesOK, LoopOK, TypeOK
<1> QED
  BY <1>1, <1>2, <1>3, PTL DEF Spec

\* A run is reported as passed if and only if every VE answered and no exception hit
\* it, swallowed timeouts apart.
THEOREM PassedIsClean == Spec => []PassedMeansClean
<1>1. Init => LoopOK /\ VerdictOK
  BY WrapperAssumption DEF Init, LoopOK, VerdictOK, Clean, VEs, FinallyBlock
<1>2. LoopOK /\ VerdictOK /\ [Next]_vars => (LoopOK /\ VerdictOK)'
  BY LoopStep, VerdictStep
<1>3. VerdictOK => PassedMeansClean
  BY DEF VerdictOK, Clean, PassedMeansClean, Exits, FinallyBlock
<1> QED
  BY <1>1, <1>2, <1>3, PTL DEF Spec

\* No VE that terraform recorded outlives a run that got through its teardown.
THEOREM NoVEStranded == Spec => []NothingStranded
<1>1. Init => PhasesOK /\ TornDown
  BY WrapperAssumption DEF Init, PhasesOK, TornDown, TryBody, Exits
<1>2. PhasesOK /\ TornDown /\ [Next]_vars => (PhasesOK /\ TornDown)'
  BY PhasesStep, TornDownStep
<1>3. TornDown => NothingStranded
  BY DEF TornDown, NothingStranded
<1> QED
  BY <1>1, <1>2, <1>3, PTL DEF Spec

\* Nor does the ssh key or the inventory with the passwords, but for one whose own
\* unlink was refused.
THEOREM NoSecretsLeft == Spec => []SecretsRemoved
<1>1. Init => PhasesOK /\ TornDown
  BY WrapperAssumption DEF Init, PhasesOK, TornDown, TryBody, Exits
<1>2. PhasesOK /\ TornDown /\ [Next]_vars => (PhasesOK /\ TornDown)'
  BY PhasesStep, TornDownStep
<1>3. TornDown => SecretsRemoved
  BY DEF TornDown, SecretsRemoved
<1> QED
  BY <1>1, <1>2, <1>3, PTL DEF Spec

\* INTEGRATION_SKIP_DESTROY keeps every VE, whatever fails and whatever signal comes.
THEOREM LabIsKept == Spec => KeptWhenAsked
<1>1. Init => NotTorn
  BY DEF Init, NotTorn
<1>2. NotTorn /\ [Next]_vars => NotTorn'
  BY NotTornStep
<1>3. NotTorn /\ [Next]_vars => [skip => up \subseteq up']_vars
  BY NotTornStep
<1> QED
  BY <1>1, <1>2, <1>3, PTL DEF Spec, KeptWhenAsked

----------------------------------------------------------------------------
(***************************************************************************)
(* The bounded half of WrapperEnds.  Every step, a signal too, leaves the  *)
(* wrapper less to do: a later phase, or a smaller rest of a loop.         *)
(***************************************************************************)
\* Phases in their order; the three of the waiting loop are one.
Phase ==
    [apply |-> 10, outputs |-> 9, probe |-> 8, early_fetch |-> 8, http |-> 8,
     preflight |-> 7, handler |-> 6, disarm |-> 5, diagnose |-> 4, destroy |-> 3,
     nuclear |-> 2, cleanup |-> 1, passed |-> 0, failed |-> 0, crashed |-> 0, cut_off |-> 0]

\* Within one turn of the waiting loop.
Within == [probe |-> 2, early_fetch |-> 1, http |-> 0]

WaitingLoop == {"probe", "early_fetch", "http"}

\* terraform apply has more VEs or files on disk, and loses none.
Applies ==
    /\ pc = "apply" /\ pc' = "apply"
    /\ up \subseteq up' /\ known \subseteq known' /\ secrets \subseteq secrets'
    /\ <<up, known, secrets>>' # <<up, known, secrets>>

\* The loop waits for a later VE of the lab, or for this one with fewer turns left,
\* or is further in its turn.
Waits ==
    /\ pc \in WaitingLoop /\ pc' \in WaitingLoop /\ turn' \in VEs
    /\ \/ turn < turn'
       \/ turn' = turn /\ left' < left
       \/ turn' = turn /\ left' = left /\ Within[pc'] < Within[pc]

\* terraform destroy has fewer VEs or files to go.
Destroys ==
    /\ pc = "destroy" /\ pc' = "destroy"
    /\ known' \subseteq known /\ secrets' \subseteq secrets
    /\ <<known, secrets>>' # <<known, secrets>>

\* The cleanup has fewer files to try.
Cleans ==
    /\ pc = "cleanup" /\ pc' = "cleanup"
    /\ secrets' \ stuck' \subseteq secrets \ stuck /\ secrets' \ stuck' # secrets \ stuck

Closer == Phase[pc'] < Phase[pc] \/ Applies \/ Waits \/ Destroys \/ Cleans

\* A signal ends the phase it hits.
LEMMA SignalledCloser ==
  ASSUME Signalled
  PROVE  Phase[pc'] < Phase[pc]
BY DEF Signalled, Caught, Raise, Goto, Phase, TryBody, FinallyBlock

\* Whatever the finally block goes on with comes later.
LEMMA TeardownCloser ==
  ASSUME pc \in {"disarm", "diagnose"}, Teardown
  PROVE  Phase[pc'] < Phase[pc]
BY DEF Teardown, Exit, Goto, Phase

LEMMA CloserStep ==
  ASSUME PhasesOK, LoopOK, LoopOK', Next
  PROVE  Closer
<1> USE DEF Closer
<1>1. ASSUME NEW v \in VEs, CreateVE(v) PROVE Closer
  BY <1>1 DEF CreateVE, Applies
<1>2. ASSUME NEW v \in VEs, RecordVE(v) PROVE Closer
  BY <1>2 DEF RecordVE, Applies
<1>3. ASSUME NEW v \in VEs, DestroyVE(v) PROVE Closer
  BY <1>3 DEF DestroyVE, Destroys
<1>4. ASSUME NEW file \in Secrets, WriteSecret(file) \/ DestroySecret(file) PROVE Closer
  BY <1>4 DEF WriteSecret, DestroySecret, Applies, Destroys
<1>5. CASE TerraformApply
  BY <1>5 DEF TerraformApply, Raise, Goto, Phase
<1>6. CASE TerraformOutputs
  BY <1>6 DEF TerraformOutputs, Raise, Goto, Phase
<1>7. CASE TerraformDestroy
  BY <1>7 DEF TerraformDestroy, Goto, Phase
<1>8. CASE ProbePorts
  <2>1. turn' = turn /\ turn \in VEs /\ left \in Nat /\ pc = "probe"
    BY <1>8, WrapperAssumption DEF ProbePorts, LoopOK, TryBody
  <2>2. CASE left > 0 /\ left' = left - 1 /\ pc' = pc
    BY <2>1, <2>2 DEF Waits, WaitingLoop
  <2>3. CASE left' = left /\ pc' \in {"http", "early_fetch"}
    BY <2>1, <2>3 DEF Waits, WaitingLoop, Within
  <2>4. CASE Raise
    BY <2>1, <2>4 DEF Raise, Goto, Phase
  <2>5. QED
    BY <1>8, <2>2, <2>3, <2>4 DEF ProbePorts, Goto
<1>9. CASE EarlyFetch
  BY <1>9 DEF EarlyFetch, Goto, loop, LoopOK, TryBody, Waits, WaitingLoop, Within
<1>10. CASE ProbeHttp
  <2>1. pc = "http" /\ turn \in VEs /\ turn \in Nat /\ left \in Nat /\ left > 0
    BY <1>10, WrapperAssumption DEF ProbeHttp, LoopOK, TryBody
  <2>2. CASE left' = left - 1 /\ pc' = "probe" /\ turn' = turn
    BY <2>1, <2>2 DEF Waits, WaitingLoop
  <2>3. CASE turn' = turn + 1 /\ pc' = "probe"
    <3>1. turn' \in VEs
      BY <2>3 DEF LoopOK, TryBody
    <3>2. QED
      BY <2>1, <2>3, <3>1 DEF Waits, WaitingLoop
  <2>4. CASE pc' = "preflight" \/ Raise
    BY <2>1, <2>4 DEF Raise, Goto, Phase
  <2>5. QED
    BY <1>10, <2>2, <2>3, <2>4 DEF ProbeHttp, Goto
<1>11. CASE RunPreflight
  BY <1>11 DEF RunPreflight, Raise, Goto, Phase
<1>12. CASE Handler
  BY <1>12 DEF Handler, Goto, Phase
<1>13. CASE Disarm
  <2>1. CASE Goto("diagnose")
    BY <1>13, <2>1 DEF Disarm, Goto, Phase
  <2>2. CASE Teardown
    BY <1>13, <2>2, TeardownCloser DEF Disarm
  <2>3. QED
    BY <1>13, <2>1, <2>2 DEF Disarm
<1>14. CASE Diagnose
  BY <1>14, TeardownCloser DEF Diagnose
<1>15. CASE NuclearTeardown
  BY <1>15 DEF NuclearTeardown, Goto, Phase
<1>16. CASE CleanupLocalSecrets
  <2>1. CASE Goto(Exit)
    BY <1>16, <2>1 DEF CleanupLocalSecrets, Exit, Goto, Phase
  <2>2. ASSUME NEW file \in secrets \ stuck, pc' = pc,
               \/ secrets' = secrets \ {file} /\ stuck' = stuck
               \/ stuck' = stuck \cup {file} /\ secrets' = secrets
        PROVE  Closer
    BY <1>16, <2>2 DEF CleanupLocalSecrets, Cleans
  <2>3. QED
    BY <1>16, <2>1, <2>2 DEF CleanupLocalSecrets
<1>17. CASE Sigint
  BY <1>17, SignalledCloser DEF Sigint
<1>18. CASE Sigalrm
  <2>1. CASE pc = "early_fetch"
    BY <1>18, <2>1 DEF Sigalrm, Swallowed, Goto, loop, LoopOK, TryBody, Waits, WaitingLoop, Within
  <2>2. CASE pc # "early_fetch"
    BY <1>18, <2>2, SignalledCloser DEF Sigalrm
  <2>3. QED
    BY <2>1, <2>2
<1>19. QED
  BY <1>1, <1>2, <1>3, <1>4, <1>5, <1>6, <1>7, <1>8, <1>9, <1>10, <1>11, <1>12,
     <1>13, <1>14, <1>15, <1>16, <1>17, <1>18 DEF Next, Terraform, Wrapper

\* Every step brings the wrapper closer to its exit, VEs that never answer and signals
\* at any time included: no loop of main() starts again, and no handler leads back.
\* What is left for fairness is that a command comes to an end at all.
THEOREM WrapperGetsOn == Spec => [][Closer]_vars
<1>1. Init => PhasesOK /\ LoopOK
  BY WrapperAssumption DEF Init, PhasesOK, LoopOK, VEs, TryBody
<1>2. PhasesOK /\ LoopOK /\ [Next]_vars => (PhasesOK /\ LoopOK)'
  BY PhasesStep, LoopStep
<1>3. PhasesOK /\ LoopOK /\ LoopOK' /\ [Next]_vars => [Closer]_vars
  BY CloserStep
<1>4. QED
  BY <1>1, <1>2, <1>3, PTL DEF Spec
=============================================================================
