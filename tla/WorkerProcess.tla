--------------------------- MODULE WorkerProcess ---------------------------
(***************************************************************************)
(* One worker process from its environment to its exit: validation of the  *)
(* environment, the choice between real adapters and the doubles of the    *)
(* fault seam, runs of the engine as the shutdown sees them, and the       *)
(* shutdown on SIGTERM raced against its grace, its backstop and Docker.   *)
(*                                                                         *)
(* Time passes in ticks of 500 ms from the SIGTERM on.  Node runs a timer  *)
(* that is due before anything later, so no tick passes over one.          *)
(***************************************************************************)
EXTENDS Naturals

CONSTANTS
    Environments    \* what the process may be started with, times in ticks

\* A variable that is not set is the empty set, one that is set a singleton.
ASSUME WorkerAssumption ==
    \A e \in Environments : \A ms \in e.SHUTDOWN_GRACE_MS : ms \in Nat

VARIABLES
    env,        \* the environment
    proc,       \* "boot", "refused", "up", "stopping", "exited", "killed"
    adapters,   \* "none", "real", or the fault whose double is in place
    run,        \* the engine: "idle", "scanning", "cleaning", "returned"
    record,     \* the record of the run: "none", "open", "Finished", a category
    files,      \* whether the clone or the report of the run exists
    mishaps,    \* what went wrong in the run that the engine does not pass on
    redis,      \* the repository's client: "ready", "quitting", "end"
    hook,       \* how far the shutdown has come
    outcome,    \* of raceDrain: "none", "drained", "forced"
    backstop,   \* whether the backstop timer is armed
    clock       \* ticks since SIGTERM

engineVars == <<run, record, files, mishaps>>

hookVars == <<redis, hook, outcome, backstop>>

vars == <<env, proc, adapters, engineVars, hookVars, clock>>

Tick == 500     \* milliseconds

MaxGrace == 9000 \div Tick

DefaultGrace == 8000 \div Tick

BackstopMargin == 500 \div Tick

StopGracePeriod == 10000 \div Tick

Categories == {"clone", "trivy", "disk-full", "timeout", "parse", "unknown"}

\* Writes the repository refused, a removal that failed, and a container that
\* outlived its CLI: the engine or the cleaner logs them, or nobody knows.
Mishaps == {"markScanning", "markFailed", "removal", "container"}

ENGINE_TEST_FAULTS == {"none", "clone", "trivy", "disk-full", "parse", "cleanup"}

TypeOK ==
    /\ env \in Environments
    /\ proc \in {"boot", "refused", "up", "stopping", "exited", "killed"}
    /\ adapters \in {"none", "real"} \cup (ENGINE_TEST_FAULTS \ {"none", "cleanup"})
    /\ run \in {"idle", "scanning", "cleaning", "returned"}
    /\ record \in {"none", "open", "Finished"} \cup Categories
    /\ files \in BOOLEAN
    /\ mishaps \subseteq Mishaps
    /\ redis \in {"ready", "quitting", "end"}
    /\ hook \in {"none", "drain", "force", "quit", "quitting", "later", "over"}
    /\ outcome \in {"none", "drained", "forced"}
    /\ backstop \in BOOLEAN
    /\ clock \in 0 .. StopGracePeriod

Init ==
    /\ env \in Environments
    /\ proc = "boot"
    /\ adapters = "none"
    /\ run = "idle"
    /\ record = "none"
    /\ files = FALSE
    /\ mishaps = {}
    /\ redis = "ready"
    /\ hook = "none"
    /\ outcome = "none"
    /\ backstop = FALSE
    /\ clock = 0

-----------------------------------------------------------------------------
(* Start: the schema, then the adapters. *)

Value(variable, default) ==
    IF variable = {} THEN default ELSE CHOOSE v \in variable : TRUE

nodeEnv == Value(env.NODE_ENV, "development")

requested == Value(env.SCAN_ENGINE_TEST_FAULT, "none")

graceMs == Value(env.SHUTDOWN_GRACE_MS, DefaultGrace)

validGitProtocols ==
    LET tokens == Value(env.SCAN_GIT_ALLOWED_PROTOCOLS, {"https"})
    IN  tokens # {} /\ tokens \subseteq {"https", "file"}

\* Mutant: the schema takes the factory's list of faults, and any grace.
ValidWideSchema ==
    /\ nodeEnv \in {"development", "production", "test"}
    /\ requested \in ENGINE_TEST_FAULTS
    /\ validGitProtocols

\* The schema knows every fault but cleanup, which only tests may ask for.
Valid ==
    /\ nodeEnv \in {"development", "production", "test"}
    /\ requested \in {"none", "clone", "trivy", "disk-full", "parse"}
    /\ graceMs <= MaxGrace
    /\ validGitProtocols

Refuse ==
    /\ proc = "boot"
    /\ ~Valid
    /\ proc' = "refused"
    /\ UNCHANGED <<env, adapters, engineVars, hookVars, clock>>

\* Mutant: the test fault counts in production, too.
ActiveFaultEverywhere == requested

ActiveFault == IF nodeEnv = "production" THEN "none" ELSE requested

Boot ==
    /\ proc = "boot"
    /\ Valid
    /\ proc' = "up"
    /\ adapters' = IF ActiveFault = "none" THEN "real" ELSE ActiveFault
    /\ UNCHANGED <<env, engineVars, hookVars, clock>>

-----------------------------------------------------------------------------
(* Runs of the engine, one at a time. *)

Alive == proc \in {"up", "stopping"}

Take ==
    /\ proc = "up"
    /\ run = "idle"
    /\ run' = "scanning"
    /\ record' = "open"
    /\ files' = (adapters = "real")
    /\ mishaps' = {}
    /\ UNCHANGED <<env, proc, adapters, hookVars, clock>>

\* The double raises at its own stage, which names the category; the double for
\* a full disk raises ENOSPC at the clone, which is promoted.
FaultResult(fault) == IF fault = "cleanup" THEN {"Finished"} ELSE {fault}

Results ==
    IF adapters = "real"
    THEN {"Finished"} \cup (Categories \ {"unknown"})
    ELSE FaultResult(adapters)

\* What persistFailed and the write before it leave: a write that is refused,
\* as every write is by a client that has ended, may have taken effect all the
\* same, and persistFailed swallows the refusal of markFailed.
Written(result, refused) ==
    IF "markFailed" \notin refused THEN {result}
    ELSE IF redis = "end" THEN {"open"} ELSE {result, "open"}

\* A docker CLI that was killed at its deadline.
MayOutlive(result) == adapters = "real" /\ result \in {"timeout", "disk-full"}

\* The adapters are done and the engine closes the record.  Where markScanning
\* was refused nothing else was tried, and the category is that of the stage.
ScanEnds ==
    /\ Alive
    /\ run = "scanning"
    /\ run' = "cleaning"
    /\ \E scanned \in Results, refused \in SUBSET {"markScanning", "markFailed"} :
         LET result == IF "markScanning" \in refused THEN "clone" ELSE scanned
         IN  /\ redis = "end" => "markFailed" \in refused
             /\ record' \in Written(result, refused)
             /\ mishaps' \in {refused} \cup
                    (IF MayOutlive(result) THEN {refused \cup {"container"}} ELSE {})
    /\ UNCHANGED <<env, proc, adapters, files, hookVars, clock>>

\* A removal that fails is logged and swallowed, here as in the allocator.
Clean ==
    /\ Alive
    /\ run = "cleaning"
    /\ run' = "returned"
    /\ \/ files' = FALSE /\ UNCHANGED mishaps
       \/ files /\ mishaps' = mishaps \cup {"removal"} /\ UNCHANGED files
    /\ UNCHANGED <<env, proc, adapters, record, hookVars, clock>>

\* A container that outlived its CLI writes its report, whoever still waits.
ContainerWrites ==
    /\ "container" \in mishaps
    /\ run # "scanning"
    /\ ~files
    /\ files' = TRUE
    /\ UNCHANGED <<env, proc, adapters, run, record, mishaps, hookVars, clock>>

\* BullMQ settles the job, over a connection of its own.
Settle ==
    /\ Alive
    /\ run = "returned"
    /\ run' = "idle"
    /\ UNCHANGED <<env, proc, adapters, record, files, mishaps, hookVars, clock>>

-----------------------------------------------------------------------------
(* Shutdown: WorkerShutdown.onModuleDestroy, then the hooks after it. *)

\* Mutant: the shared client quits beside the drain.
SigtermQuitsAtOnce ==
    /\ proc = "up"
    /\ proc' = "stopping"
    /\ hook' = "drain"
    /\ redis' = "quitting"
    /\ backstop' = TRUE
    /\ clock' = 0
    /\ UNCHANGED <<env, adapters, engineVars, outcome>>

Sigterm ==
    /\ proc = "up"
    /\ proc' = "stopping"
    /\ hook' = "drain"
    /\ backstop' = TRUE
    /\ clock' = 0
    /\ UNCHANGED <<env, adapters, engineVars, redis, outcome>>

\* worker.close() resolves once the job in hand has settled.
Drained ==
    /\ proc = "stopping"
    /\ hook = "drain"
    /\ run = "idle"
    /\ hook' = "quit"
    /\ outcome' = "drained"
    /\ UNCHANGED <<env, proc, adapters, engineVars, redis, backstop, clock>>

GraceElapsed ==
    /\ proc = "stopping"
    /\ hook = "drain"
    /\ clock >= graceMs
    /\ hook' = "force"
    /\ UNCHANGED <<env, proc, adapters, engineVars, redis, outcome, backstop, clock>>

\* Mutant: the forced path reports a drain.
ForcedSaysDrained ==
    /\ proc = "stopping"
    /\ hook = "force"
    /\ hook' = "quit"
    /\ outcome' = "drained"
    /\ UNCHANGED <<env, proc, adapters, engineVars, redis, backstop, clock>>

\* close(true) does not wait for the run, which goes on; it need not resolve.
Forced ==
    /\ proc = "stopping"
    /\ hook = "force"
    /\ hook' = "quit"
    /\ outcome' = "forced"
    /\ UNCHANGED <<env, proc, adapters, engineVars, redis, backstop, clock>>

\* close rejects: the finally block runs, and Nest exits on a hook that threw.
CloseRejects ==
    /\ proc = "stopping"
    /\ hook \in {"drain", "force"}
    /\ proc' = "exited"
    /\ backstop' = FALSE
    /\ UNCHANGED <<env, adapters, engineVars, redis, hook, outcome, clock>>

QuitRedis ==
    /\ proc = "stopping"
    /\ hook = "quit"
    /\ redis # "end"
    /\ redis' = "quitting"
    /\ hook' = "quitting"
    /\ UNCHANGED <<env, proc, adapters, engineVars, outcome, backstop, clock>>

\* quit is answered or rejects, either is fine; the socket may close later.
QuitSettles ==
    /\ proc = "stopping"
    /\ hook = "quitting"
    /\ redis' \in {"quitting", "end"}
    /\ hook' = "later"
    /\ backstop' = FALSE
    /\ UNCHANGED <<env, proc, adapters, engineVars, outcome, clock>>

\* ScanRepositoryAdapter.onModuleDestroy skips an ended client, or quits again.
RepositoryHook ==
    /\ proc = "stopping"
    /\ hook = "later"
    /\ redis' = "end"
    /\ hook' = "over"
    /\ UNCHANGED <<env, proc, adapters, engineVars, outcome, backstop, clock>>

\* Nest raises the signal again, with nobody listening this time.
Exit ==
    /\ proc = "stopping"
    /\ hook = "over"
    /\ proc' = "exited"
    /\ UNCHANGED <<env, adapters, engineVars, hookVars, clock>>

\* Mutant: the backstop waits for twice the grace.
BackstopDueTwice == clock >= 2 * graceMs + BackstopMargin

BackstopDue == clock >= graceMs + BackstopMargin

Backstop ==
    /\ proc = "stopping"
    /\ backstop
    /\ BackstopDue
    /\ proc' = "exited"
    /\ UNCHANGED <<env, adapters, engineVars, hookVars, clock>>

\* After the hook of the worker no timer is left, and time may pass as it likes.
TickPasses ==
    /\ proc = "stopping"
    /\ clock < StopGracePeriod
    /\ ~(hook = "drain" /\ clock >= graceMs)
    /\ ~(backstop /\ BackstopDue)
    /\ clock' = clock + 1
    /\ UNCHANGED <<env, proc, adapters, engineVars, hookVars>>

Kill ==
    /\ proc = "stopping"
    /\ clock = StopGracePeriod
    /\ proc' = "killed"
    /\ UNCHANGED <<env, adapters, engineVars, hookVars, clock>>

Next ==
    \/ Refuse \/ Boot
    \/ Take \/ ScanEnds \/ Clean \/ ContainerWrites \/ Settle
    \/ Sigterm \/ Drained \/ GraceElapsed \/ Forced \/ CloseRejects
    \/ QuitRedis \/ QuitSettles \/ RepositoryHook \/ Exit
    \/ Backstop \/ TickPasses \/ Kill

Spec == Init /\ [][Next]_vars

-----------------------------------------------------------------------------
(* Properties. *)

\* Finished scans, and all scans in production, are run by the real tools, and
\* a double in place makes each scan fail for the reason that was asked for, or
\* for the stage at which markScanning was refused: the schema,
\* resolveActiveEngineFault, createFaultAdapters and the engine's
\* classification together keep the doubles from passing for scans.
ScansAreReal ==
    /\ record = "Finished" \/ (record # "none" /\ nodeEnv = "production")
            => adapters = "real"
    /\ adapters \notin {"none", "real"} =>
            \/ record \in {"none", "open", requested}
            \/ record = "clone" /\ "markScanning" \in mishaps

\* Whatever hangs in worker.close(), close(true) or quit(), and for every grace
\* the schema admits, the hook of the worker is over before Docker sends
\* SIGKILL.  What Nest does after it has no timer of the process above it.
HookBeatsKill == proc = "killed" => hook \in {"later", "over"}

\* A drain cuts nothing short (raceDrain resolving 'drained'): no run is left,
\* and what the last one leaves it leaves for a failure of its own and never for
\* the shutdown.  Its record is open only where the repository
\* refused markFailed, and files of it are there only where their removal
\* failed or a container outlived its CLI.
DrainedIsClean ==
    outcome = "drained" =>
        /\ run = "idle"
        /\ record = "open" => "markFailed" \in mishaps
        /\ files => mishaps \cap {"removal", "container"} # {}

\* The client is not taken from a run that still has time: it quits under a
\* run only when the whole grace has passed.
QuitWaitsForRun == redis # "ready" /\ run # "idle" => clock >= graceMs

=============================================================================
