---------------------------- MODULE HarnessTests ----------------------------
(***************************************************************************)
(* The tests of the process-level scripts in apps/api/scripts, each as the *)
(* steps it takes: setup runs outside its try, body inside, teardown in    *)
(* its finally.  TestHarness gives every step its meaning.                 *)
(***************************************************************************)
EXTENDS Sequences, TLC

\* What the worker of a test is started with, when nothing is said about it.
Plain == [fault |-> "none", env |-> "valid", closed |-> FALSE]

Script(setup, body, teardown) ==
    [setup |-> setup, body |-> body, teardown |-> teardown] @@ Plain

\* api-integration.mjs and acceptance.mjs: both processes may be started.
withHarness(body) ==
    Script(<<"build", "docker", "startRedis", "mkdtemp">>,
           <<"connect">> \o body,
           <<"killWorker", "killApi", "closeQueue", "disconnect", "removeRedis", "rmDir">>)

\* scan-engine-integration.mjs: a worker only.
withWorkerHarness(body) ==
    Script(<<"build", "docker", "startRedis", "mkdtemp">>,
           <<"connect">> \o body,
           <<"killWorker", "closeQueue", "disconnect", "removeRedis", "rmDir">>)

\* The soft check for Docker before anything else.
IfDocker(t) == [t EXCEPT !.setup = <<"gate">> \o @]

\* SCAN_ENGINE_TEST_FAULT under NODE_ENV=test.
Faulty(f, t) == [t EXCEPT !.fault = f]

Invalid(t) == [t EXCEPT !.env = "invalid"]

NoRedis(t) == [t EXCEPT !.closed = TRUE]

ApiUp == <<"spawnApi", "apiReady">>

WorkerUp == <<"spawnWorker", "workerReady">>

-----------------------------------------------------------------------------
(* api-integration.mjs *)

HealthSmoke == withHarness(ApiUp \o <<"health", "healthUp">>)

PostQueues == withHarness(ApiUp \o <<"post", "queued">>)

MalformedRejected == withHarness(ApiUp \o <<"postMalformed", "noRecords", "openQueue", "noJobs">>)

UnknownIsMissing == withHarness(ApiUp \o <<"getUnknown">>)

HealthTurns ==
    withHarness(ApiUp \o <<"health", "healthUp", "killRedis", "health", "healthDown">>)

FailsOffline ==
    Faulty("clone",
        withHarness(ApiUp \o <<"post", "queued", "observe">> \o WorkerUp
                    \o <<"failedByGet", "stopObserving", "sawFailed">>))

FinishesInDocker ==
    IfDocker(withHarness(<<"seed">> \o WorkerUp \o <<"openQueue", "addJob", "endsFinished">>
                         \o ApiUp \o <<"finishedByGet">>))

WorkerShutsDown == withHarness(WorkerUp \o <<"termWorker", "workerExit", "cleanWorker">>)

ApiShutsDown == withHarness(ApiUp \o <<"termApi", "apiExit", "cleanApi">>)

-----------------------------------------------------------------------------
(* acceptance.mjs *)

HappyPath ==
    IfDocker(withHarness(ApiUp \o <<"post", "queued", "seed">> \o WorkerUp
                         \o <<"openQueue", "addJob", "endsFinished", "finishedByGet",
                              "noArtifacts">>))

ForcedFailure ==
    IfDocker(Faulty("clone",
        withHarness(ApiUp \o <<"post", "observe">> \o WorkerUp
                    \o <<"failedByGet", "stopObserving", "sawFailed", "noArtifacts">>)))

Correlation ==
    IfDocker(Faulty("clone",
        withHarness(ApiUp \o <<"post">> \o WorkerUp
                    \o <<"failedByGet", "apiLogged", "workerLogged">>)))

BootsUnder150 ==
    IfDocker(withHarness(ApiUp \o <<"apiAlive">> \o WorkerUp \o <<"workerAlive">>))

ParsesLargeReport ==
    Script(<<"build", "mkdtemp">>, <<"genFixture", "memtest">>, <<"rmDir">>)

-----------------------------------------------------------------------------
(* scan-engine-integration.mjs *)

StoresCriticals ==
    withWorkerHarness(<<"seed", "observe">> \o WorkerUp
        \o <<"openQueue", "addJob", "report", "endsFinished", "jobCompleted",
             "stopObserving", "sawFinished", "noArtifacts">>)

FaultCase(f) ==
    Faulty(f, withWorkerHarness(<<"seed", "observe">> \o WorkerUp
        \o <<"openQueue", "addJob", "endsFailed", "stopObserving", "sawFailed",
             "jobFailed", "noArtifacts">>))

FAULT_CASES == {FaultCase(f) : f \in {"clone", "trivy", "disk-full", "parse"}}

TerminalGuard ==
    Faulty("clone", withWorkerHarness(<<"seedFinished", "observe">> \o WorkerUp
        \o <<"openQueue", "addJob", "jobFails", "stopObserving", "neverScanning",
             "stillFinished">>))

-----------------------------------------------------------------------------
(* selftest-index-boot.mjs, serve-static-routes.smoke.mjs: no Redis at all *)

BootsWithoutRedis ==
    NoRedis(Script(<<"build", "mkdtemp", "spawnApi">>,
                   <<"apiReadyOrGone", "apiAlive", "termApi", "apiExit", "cleanApi">>,
                   <<"killApi", "rmDir">>))

RoutesServed ==
    NoRedis(Script(<<"build", "mkdtemp", "spawnApi">>,
                   <<"apiReadyOrGone", "getStatic", "health", "healthAnswers", "getStatic",
                     "scanAnswers">>,
                   <<"killApi", "rmDir">>))

(* worker-process-contract.mjs: a Redis that accepts and never answers *)

Contract(body) ==
    NoRedis(Script(<<"build", "startStub", "mkdtemp">>, <<"runWorker", "settled">> \o body,
                   <<"closeStub", "rmDir">>))

StaysLongLived == Contract(<<"reachedMarker">>)

UnknownFaultRefused == Invalid(Contract(<<"exitedNonZero">>))

MissingTmpDirRefused ==
    Invalid(NoRedis(Script(<<"build", "startStub">>, <<"runWorker", "settled", "exitedNonZero">>,
                           <<"closeStub">>)))

(* docker-oom-proof.mjs *)

OomProof ==
    Script(<<"gate", "mkdtemp">>, <<"buildImage", "genFixture", "runContainer", "inspect">>,
           <<"removeContainer", "rmDir">>)

\* No timeout of node:test watches over these; docker-oom-proof.mjs is no test.
Untimed == {StaysLongLived, UnknownFaultRefused, MissingTmpDirRefused, OomProof}

Tests ==
    {HealthSmoke, PostQueues, MalformedRejected, UnknownIsMissing, HealthTurns, FailsOffline,
     FinishesInDocker, WorkerShutsDown, ApiShutsDown,
     HappyPath, ForcedFailure, Correlation, BootsUnder150, ParsesLargeReport,
     StoresCriticals, TerminalGuard,
     BootsWithoutRedis, RoutesServed,
     StaysLongLived, UnknownFaultRefused, MissingTmpDirRefused, OomProof}
    \cup FAULT_CASES

=============================================================================
