------------------------ MODULE WorkerProcessProofs ------------------------
(***************************************************************************)
(* WorkerProcess for any set of environments: every invariant of WorkerLife *)
(* follows from one inductive invariant about the shutdown (Schedule), the *)
(* run it meets (Run) and the adapters (Placed).                           *)
(***************************************************************************)
EXTENDS WorkerProcess, TLAPS

\* Nothing has happened before the process is up, and no shutdown before SIGTERM.
Calm ==
    /\ proc \in {"boot", "refused"} =>
            adapters = "none" /\ run = "idle" /\ record = "none"
    /\ proc \notin {"boot", "refused"} => Valid /\ adapters # "none"
    /\ proc \in {"boot", "refused", "up"} => hook = "none"
    /\ proc = "stopping" => hook # "none"

\* The backstop is armed while the hook of the worker can hang, and no tick
\* passes over it.
Schedule ==
    /\ proc = "stopping" /\ hook \in {"drain", "force", "quit", "quitting"} =>
            backstop /\ clock <= graceMs + BackstopMargin
    /\ hook = "force" => clock >= graceMs
    /\ outcome = "forced" => clock >= graceMs

\* The client is the repository's until the race is decided, a drain leaves no
\* run, and what a run that is over left open or behind has its mishap.
Run ==
    /\ hook \in {"none", "drain", "force"} => redis = "ready" /\ outcome = "none"
    /\ hook \in {"quit", "quitting", "later", "over"} => outcome # "none"
    /\ record = "open" /\ run # "scanning" => "markFailed" \in mishaps
    /\ files =>
            run \in {"scanning", "cleaning"} \/ "removal" \in mishaps \/ "container" \in mishaps
    /\ outcome = "drained" => run = "idle"

\* A double is there because it was asked for outside production.
Placed ==
    adapters \notin {"none", "real"} =>
        /\ adapters = requested
        /\ nodeEnv # "production"
        /\ \/ record \in {"none", "open", adapters}
           \/ record = "clone" /\ "markScanning" \in mishaps

IInv == TypeOK /\ HookBeatsKill /\ Calm /\ Schedule /\ Run /\ Placed

-----------------------------------------------------------------------------

\* Times in ticks, as numbers.
LEMMA Ticks ==
    /\ MaxGrace = 18 /\ DefaultGrace = 16
    /\ BackstopMargin = 1 /\ StopGracePeriod = 20
BY DEF MaxGrace, DefaultGrace, BackstopMargin, StopGracePeriod, Tick

\* The grace is a number whatever the environment says.
LEMMA GraceIsNat ==
    ASSUME env \in Environments
    PROVE  graceMs \in Nat
<1>1. CASE env.SHUTDOWN_GRACE_MS = {}
  BY <1>1, Ticks DEF graceMs, Value
<1>2. CASE env.SHUTDOWN_GRACE_MS # {}
  BY <1>2, WorkerAssumption DEF graceMs, Value
<1> QED
  BY <1>1, <1>2

\* What is computed from the environment changes with it only.
LEMMA EnvDecides ==
    ASSUME env' = env
    PROVE  /\ graceMs' = graceMs
           /\ requested' = requested
           /\ nodeEnv' = nodeEnv
           /\ Valid' = Valid
BY DEF graceMs, requested, nodeEnv, Valid, validGitProtocols

\* An accepted environment keeps to the cap on the grace and to the faults.
LEMMA ValidBounds ==
    ASSUME Valid
    PROVE  /\ graceMs <= MaxGrace
           /\ requested \in {"none", "clone", "trivy", "disk-full", "parse"}
BY DEF Valid

LEMMA InitIInv == Init => IInv
<1> SUFFICES ASSUME Init
             PROVE  IInv
  OBVIOUS
<1>1. TypeOK
  <2>1. clock \in 0 .. StopGracePeriod
    BY Ticks DEF Init
  <2> QED
    BY <2>1 DEF Init, TypeOK
<1>2. HookBeatsKill /\ Calm
  BY DEF Init, HookBeatsKill, Calm
<1>3. Schedule /\ Run /\ Placed
  BY DEF Init, Schedule, Run, Placed
<1> QED
  BY <1>1, <1>2, <1>3 DEF IInv

\* The run of the engine goes on or stands still, or its container writes; the
\* shutdown is not touched.
LEMMA EngineStep ==
    ASSUME IInv, Take \/ ScanEnds \/ Clean \/ ContainerWrites \/ Settle
    PROVE  IInv'
<1>1. env' = env
  BY DEF Take, ScanEnds, Clean, ContainerWrites, Settle
<1>2. /\ graceMs' = graceMs /\ requested' = requested
      /\ nodeEnv' = nodeEnv /\ Valid' = Valid
  BY <1>1, EnvDecides
<1>3. CASE Take
  BY <1>2, <1>3 DEF Take, hookVars, IInv, TypeOK, HookBeatsKill, Calm, Schedule, Run, Placed
<1>4. CASE ScanEnds
  <2>1. PICK scanned \in Results, refused \in SUBSET {"markScanning", "markFailed"} :
          LET result == IF "markScanning" \in refused THEN "clone" ELSE scanned
          IN  /\ redis = "end" => "markFailed" \in refused
              /\ record' \in Written(result, refused)
              /\ mishaps' \in {refused} \cup
                     (IF MayOutlive(result) THEN {refused \cup {"container"}} ELSE {})
    BY <1>4 DEF ScanEnds
  <2> DEFINE result == IF "markScanning" \in refused THEN "clone" ELSE scanned
  <2>2. Valid /\ adapters # "none"
    BY <1>4 DEF ScanEnds, Alive, IInv, Calm
  <2>3. /\ scanned \in {"Finished"} \cup Categories
        /\ adapters # "real" => scanned = adapters
    BY <2>1, <2>2, ValidBounds DEF Results, FaultResult, Categories, IInv, Placed, TypeOK
  <2>4. /\ record' \in {result, "open"}
        /\ record' = "open" => "markFailed" \in refused
    BY <2>1, <2>3 DEF Written, Categories
  <2>5. /\ refused \subseteq mishaps'
        /\ mishaps' \subseteq Mishaps
    BY <2>1 DEF Mishaps
  <2>6. /\ result \in {"Finished"} \cup Categories
        /\ adapters # "real" =>
              result = adapters \/ (result = "clone" /\ "markScanning" \in refused)
    BY <2>3 DEF Categories
  <2>7. /\ record' \in {"none", "open", "Finished"} \cup Categories
        /\ record' = "open" => "markFailed" \in mishaps'
    BY <2>4, <2>5, <2>6
  <2>8. adapters # "real" =>
              \/ record' \in {"none", "open", adapters}
              \/ record' = "clone" /\ "markScanning" \in mishaps'
    BY <2>4, <2>5, <2>6
  <2> QED
    BY <1>2, <1>4, <2>5, <2>7, <2>8
    DEF ScanEnds, hookVars, IInv, TypeOK, HookBeatsKill, Calm, Schedule, Run, Placed
<1>5. CASE Clean
  <2>1. /\ mishaps' \subseteq Mishaps
        /\ mishaps \subseteq mishaps'
        /\ files' \in BOOLEAN
        /\ files' => "removal" \in mishaps'
    BY <1>5 DEF Clean, Mishaps, IInv, TypeOK
  <2> QED
    BY <1>2, <1>5, <2>1 DEF Clean, hookVars, Mishaps, IInv, TypeOK, HookBeatsKill, Calm, Schedule, Run, Placed
<1>6. CASE ContainerWrites
  BY <1>2, <1>6 DEF ContainerWrites, hookVars, IInv, TypeOK, HookBeatsKill, Calm, Schedule, Run, Placed
<1>7. CASE Settle
  BY <1>2, <1>7 DEF Settle, hookVars, IInv, TypeOK, HookBeatsKill, Calm, Schedule, Run, Placed
<1> QED
  BY <1>3, <1>4, <1>5, <1>6, <1>7

\* Start: refused, or up with the adapters the environment asks for.
LEMMA StartStep ==
    ASSUME IInv, Refuse \/ Boot
    PROVE  IInv'
<1>1. env' = env
  BY DEF Refuse, Boot
<1>2. /\ graceMs' = graceMs /\ requested' = requested
      /\ nodeEnv' = nodeEnv /\ Valid' = Valid
  BY <1>1, EnvDecides
<1>3. CASE Refuse
  BY <1>2, <1>3 DEF Refuse, engineVars, hookVars, IInv, TypeOK, HookBeatsKill, Calm, Schedule, Run, Placed
<1>4. CASE Boot
  <2>1. requested \in {"none", "clone", "trivy", "disk-full", "parse"}
    BY <1>4, ValidBounds DEF Boot
  <2>2. /\ adapters' \in {"real", "clone", "trivy", "disk-full", "parse"}
        /\ adapters' # "real" => adapters' = requested /\ nodeEnv # "production"
    BY <1>4, <2>1 DEF Boot, ActiveFault
  <2> QED
    BY <1>2, <1>4, <2>2
    DEF Boot, engineVars, hookVars, ENGINE_TEST_FAULTS, IInv, TypeOK, HookBeatsKill, Calm, Schedule, Run, Placed
<1> QED
  BY <1>3, <1>4

\* The steps of the shutdown, of its timers and of Docker.
LEMMA ShutdownStep ==
    ASSUME IInv,
           \/ Sigterm \/ Drained \/ GraceElapsed \/ Forced \/ CloseRejects
           \/ QuitRedis \/ QuitSettles \/ RepositoryHook \/ Exit
           \/ Backstop \/ TickPasses \/ Kill
    PROVE  IInv'
<1> USE Ticks DEF IInv, TypeOK, HookBeatsKill, Calm, Schedule, Run, Placed, engineVars, hookVars
<1>1. env' = env
  BY DEF Sigterm, Drained, GraceElapsed, Forced, CloseRejects, QuitRedis, QuitSettles,
         RepositoryHook, Exit, Backstop, TickPasses, Kill
<1>2. /\ graceMs' = graceMs /\ requested' = requested
      /\ nodeEnv' = nodeEnv /\ Valid' = Valid
  BY <1>1, EnvDecides
<1>3. graceMs \in Nat /\ (Valid => graceMs <= MaxGrace)
  BY GraceIsNat, ValidBounds
<1>4. CASE Sigterm
  BY <1>2, <1>3, <1>4 DEF Sigterm
<1>5. CASE Drained
  BY <1>2, <1>3, <1>5 DEF Drained
<1>6. CASE GraceElapsed
  BY <1>2, <1>3, <1>6 DEF GraceElapsed
<1>7. CASE Forced
  BY <1>2, <1>3, <1>7 DEF Forced
<1>8. CASE CloseRejects
  BY <1>2, <1>3, <1>8 DEF CloseRejects
<1>9. CASE QuitRedis
  BY <1>2, <1>3, <1>9 DEF QuitRedis
<1>10. CASE QuitSettles
  BY <1>2, <1>3, <1>10 DEF QuitSettles
<1>11. CASE RepositoryHook
  BY <1>2, <1>3, <1>11 DEF RepositoryHook
<1>12. CASE Exit
  BY <1>2, <1>3, <1>12 DEF Exit
<1>13. CASE Backstop
  BY <1>2, <1>3, <1>13 DEF Backstop
<1>14. CASE TickPasses
  <2>1. backstop => clock < graceMs + BackstopMargin
    BY <1>3, <1>14 DEF TickPasses, BackstopDue
  <2> QED
    BY <1>2, <1>3, <1>14, <2>1 DEF TickPasses
<1>15. CASE Kill
  <2>1. graceMs + BackstopMargin < clock
    BY <1>3, <1>15 DEF Kill
  <2>2. hook \in {"later", "over"}
    BY <1>15, <1>3, <2>1 DEF Kill
  <2> QED
    BY <1>2, <1>3, <1>15, <2>2 DEF Kill
<1> QED
  BY <1>4, <1>5, <1>6, <1>7, <1>8, <1>9, <1>10, <1>11, <1>12, <1>13, <1>14, <1>15

LEMMA NextIInv == IInv /\ [Next]_vars => IInv'
<1> SUFFICES ASSUME IInv, [Next]_vars
             PROVE  IInv'
  OBVIOUS
<1>1. CASE Next
  BY <1>1, StartStep, EngineStep, ShutdownStep DEF Next
<1>2. CASE UNCHANGED vars
  <2>1. env' = env
    BY <1>2 DEF vars
  <2> QED
    BY <1>2, <2>1, EnvDecides
    DEF vars, engineVars, hookVars, IInv, TypeOK, HookBeatsKill, Calm, Schedule, Run, Placed
<1> QED
  BY <1>1, <1>2

LEMMA Invariance == Spec => []IInv
BY InitIInv, NextIInv, PTL DEF Spec

-----------------------------------------------------------------------------

\* Every reachable state is well typed, whatever the environments.
THEOREM WorkerTypeCorrect == Spec => []TypeOK
<1>1. IInv => TypeOK
  BY DEF IInv
<1> QED
  BY <1>1, Invariance, PTL

\* For every grace the schema admits and whatever hangs in the hook, it is over
\* or the process gone before Docker's SIGKILL.
THEOREM ShutdownBeatsKill == Spec => []HookBeatsKill
<1>1. IInv => HookBeatsKill
  BY DEF IInv
<1> QED
  BY <1>1, Invariance, PTL

\* A worker that reports a drain has no run left, and what it leaves open or
\* behind is what a failure of the run left, not the shutdown.
THEOREM DrainLeavesNothing == Spec => []DrainedIsClean
<1>1. IInv => DrainedIsClean
  BY DEF IInv, Run, DrainedIsClean
<1> QED
  BY <1>1, Invariance, PTL

\* The shared client quits under a run only when the grace is over.
THEOREM RunsKeepTheirClient == Spec => []QuitWaitsForRun
<1>1. IInv => QuitWaitsForRun
  <2> SUFFICES ASSUME IInv, redis # "ready", run # "idle"
               PROVE  clock >= graceMs
    BY DEF QuitWaitsForRun
  <2>1. outcome = "forced"
    BY DEF IInv, TypeOK, Run
  <2> QED
    BY <2>1 DEF IInv, Schedule
<1> QED
  BY <1>1, Invariance, PTL

\* Doubles never pass for a scan, and production never sees one.
THEOREM NoDoubleScans == Spec => []ScansAreReal
<1>1. IInv => ScansAreReal
  <2> SUFFICES ASSUME IInv
               PROVE  ScansAreReal
    OBVIOUS
  <2>1. record # "none" => adapters # "none"
    BY DEF IInv, TypeOK, Calm
  <2>2. adapters # "Finished"
    BY DEF IInv, TypeOK, ENGINE_TEST_FAULTS
  <2> QED
    BY <2>1, <2>2 DEF IInv, Placed, ScansAreReal
<1> QED
  BY <1>1, Invariance, PTL

=============================================================================
