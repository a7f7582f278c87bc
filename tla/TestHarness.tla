---------------------------- MODULE TestHarness ----------------------------
(***************************************************************************)
(* One test of the process-level scripts in apps/api/scripts while it      *)
(* runs: the test drives compiled processes, a disposable Redis and a      *)
(* temporary directory, watches them from outside, and takes them down.    *)
(* The API and the worker go on at their own pace meanwhile; at most one   *)
(* thing, the trouble, is wrong with them or with the machine.             *)
(***************************************************************************)
EXTENDS HarnessTests, Naturals, SequencesExt

CONSTANTS
    Running,    \* the tests that may run
    Troubles    \* what may be wrong

VARIABLES
    test, trouble,
    phase,      \* "setup", "body", "finally", "over"
    at,         \* the step of the phase that is next
    outcome,    \* "open", "passed", "failed", "skipped"
    why,        \* the first thing that failed the test
    redis,      \* the disposable Redis: "none", "up", "gone"
    dir,        \* SCAN_TMP_DIR: "none", "made", "gone", "kept"
    box,        \* the container of the memory proof
    queueOpen, observing,
    seen,       \* what the observer has recorded
    kind,       \* what runWorker resolved with
    child,      \* child[p]: a process the test has spawned
    told,       \* what its output says, and what the test has made of it
    probe,      \* a request for /health: "none", "pinging", "up", "down"
    past,       \* past[i]: every status the record of i has had
    job,        \* job[i]: the state of its job
    line,       \* the jobs that wait
    hand, stage,\* the scan the worker has in hand, and how far it is
    files       \* the scans whose clone and report exist

testVars == <<test, trouble, phase, at, outcome, why>>

labVars == <<redis, dir, box, queueOpen, observing, seen, kind>>

scanVars == <<past, job, line, hand, stage, files>>

vars == <<testVars, labVars, child, told, probe, scanVars>>

Processes == {"api", "worker"}

\* The scan that is posted to the API, and the one a test seeds itself.
Scans == {"posted", "seeded"}

Alive == {"boot", "up", "stopping"}

TerminalStatus == {"Finished", "Failed"}

Status(i) == IF past[i] = <<>> THEN "none" ELSE past[i][Len(past[i])]

Steps(t) == Range(t.setup) \cup Range(t.body) \cup Range(t.teardown)

Does(t, s) == s \in Steps(t)

-----------------------------------------------------------------------------
(* How the scripts are written: what every test keeps to. *)

\* The steps of a setup, which nothing catches, and those of a finally, which
\* swallow their own errors.
Outside == {"gate", "build", "docker", "startRedis", "startStub", "mkdtemp", "spawnApi"}

Cleanups ==
    {"killWorker", "killApi", "closeQueue", "disconnect", "closeStub", "removeRedis",
     "removeContainer", "rmDir"}

\* What takes down what a step sets up.
CleanupOf ==
    [startRedis |-> "removeRedis", mkdtemp |-> "rmDir", openQueue |-> "closeQueue",
     spawnApi |-> "killApi", spawnWorker |-> "killWorker", runContainer |-> "removeContainer"]

\* s is taken once one of S has been; no step of S follows s; one of S at most.
OnlyAfter(t, s, S) ==
    \A j \in DOMAIN t.body : t.body[j] = s => \E i \in 1..(j - 1) : t.body[i] \in S

NoneAfter(t, s, S) ==
    \A i, j \in DOMAIN t.body : i < j /\ t.body[i] = s => t.body[j] \notin S

AtMostOne(t, S) ==
    \A i, j \in DOMAIN t.body : t.body[i] \in S /\ t.body[j] \in S => i = j

\* What is set up is taken down in the finally, Redis before the directory; a
\* setup that owns something cannot fail any more, but for the mkdtemp behind
\* Redis; the observer is stopped in the body, and runWorker settles its child.
Unwinds(t) ==
    /\ t.setup \in Seq(Outside) /\ t.body \in Seq(STRING) /\ t.teardown \in Seq(Cleanups)
    /\ Range(t.body) \cap (Cleanups \cup Outside) \subseteq {"spawnApi"}
    /\ \A s \in DOMAIN CleanupOf : Does(t, s) => CleanupOf[s] \in Range(t.teardown)
    /\ \A i, j \in DOMAIN t.setup :
           i < j /\ t.setup[i] \in DOMAIN CleanupOf =>
               t.setup[j] = "spawnApi" \/ (t.setup[i] = "startRedis" /\ t.setup[j] = "mkdtemp")
    /\ \A i \in DOMAIN t.teardown :
           t.teardown[i] = "rmDir" /\ Does(t, "startRedis") =>
               \E j \in 1..(i - 1) : t.teardown[j] = "removeRedis"
    /\ \A i \in DOMAIN t.body :
           t.body[i] = "observe" => \E j \in DOMAIN t.body : i < j /\ t.body[j] = "stopObserving"
    /\ Does(t, "runWorker") => ~Does(t, "spawnWorker")
    /\ \A i \in DOMAIN t.body :
           t.body[i] = "runWorker" => i + 1 \in DOMAIN t.body /\ t.body[i + 1] = "settled"

Posting == {"post", "postMalformed"}

Seeding == {"seed", "seedFinished"}

\* A test writes a record and adds its job once, the record first, and asserts
\* what its own steps have brought about.
Orders(t) ==
    /\ AtMostOne(t, Posting) /\ AtMostOne(t, Seeding) /\ AtMostOne(t, {"addJob"})
    /\ OnlyAfter(t, "addJob", Seeding)
    /\ NoneAfter(t, "cleanWorker", {"spawnWorker", "runWorker"})
    /\ NoneAfter(t, "cleanApi", {"spawnApi"})
    /\ Does(t, "workerExit") => t.env = "valid"
    /\ OnlyAfter(t, "noRecords", {"postMalformed"}) /\ NoneAfter(t, "noRecords", Posting)
    /\ Does(t, "noRecords") => Steps(t) \cap Seeding = {}
    /\ \A s \in {"sawFinished", "sawFailed", "endsFinished", "jobCompleted"} :
           Does(t, s) => ~Does(t, "seedFinished")
    /\ OnlyAfter(t, "jobCompleted", {"endsFinished"})
    /\ \A s \in {"jobFailed", "jobFails", "stillFinished"} : Does(t, s) => t.fault # "none"
    /\ Does(t, "neverScanning") => Does(t, "stillFinished")
    /\ Does(t, "stillFinished") => Does(t, "seedFinished")
    /\ OnlyAfter(t, "stillFinished", {"jobFails"})
    /\ Does(t, "post") /\ Does(t, "addJob") =>
           OnlyAfter(t, "addJob", {"post"}) /\ Does(t, "endsFinished")

Launches == {"spawnWorker", "runWorker"}

\* What is asked of the API or its process.
ApiSteps ==
    {"post", "postMalformed", "health", "getUnknown", "getStatic", "finishedByGet", "apiAlive"}

\* A process is started once, and asked for nothing before it is ready or after
\* it was told to stop; nothing is asserted that no step has brought about.
Expects(t) ==
    /\ AtMostOne(t, {"spawnApi"}) /\ AtMostOne(t, Launches) /\ AtMostOne(t, {"settled"})
    /\ \A i \in DOMAIN t.setup :
           t.setup[i] = "spawnApi" => i = Len(t.setup) /\ "spawnApi" \notin Range(t.body)
    /\ \A s \in ApiSteps : OnlyAfter(t, s, {"apiReady", "apiReadyOrGone"})
    /\ NoneAfter(t, "termApi", ApiSteps \cup {"apiReadyOrGone"})
    /\ "spawnApi" \in Range(t.setup) \/ OnlyAfter(t, "apiReadyOrGone", {"spawnApi"})
    /\ OnlyAfter(t, "workerAlive", {"workerReady"}) /\ NoneAfter(t, "termWorker", {"workerAlive"})
    /\ OnlyAfter(t, "settled", {"runWorker"})
    /\ Does(t, "settled") => Steps(t) \cap {"termWorker", "workerAlive"} = {}
    /\ OnlyAfter(t, "reachedMarker", {"settled"}) /\ OnlyAfter(t, "exitedNonZero", {"settled"})
    /\ Does(t, "reachedMarker") => t.env = "valid"
    /\ Does(t, "exitedNonZero") => t.env = "invalid"
    /\ OnlyAfter(t, "cleanWorker", {"workerExit"}) /\ OnlyAfter(t, "cleanApi", {"apiExit"})
    /\ OnlyAfter(t, "queued", {"post"}) /\ \A s \in Launches : NoneAfter(t, s, {"queued"})
    /\ OnlyAfter(t, "noJobs", {"noRecords"})
    /\ Does(t, "endsFinished") => t.fault = "none" /\ Does(t, "addJob")
    /\ Does(t, "endsFailed") => t.fault # "none" /\ ~Does(t, "seedFinished")
    /\ OnlyAfter(t, "finishedByGet", {"endsFinished"})
    /\ Does(t, "stillFinished") => Does(t, "addJob")
    /\ Does(t, "healthUp") => "startRedis" \in Range(t.setup)
    /\ NoneAfter(t, "killRedis", {"healthUp"})
    /\ OnlyAfter(t, "inspect", {"runContainer"})

ASSUME HarnessAssumption == \A t \in Running : Unwinds(t) /\ Orders(t) /\ Expects(t)

-----------------------------------------------------------------------------
\* The scan a test is about.
Subject == IF Does(test, "addJob") THEN "seeded" ELSE "posted"

Plan == CASE phase = "setup" -> test.setup
          [] phase = "body"  -> test.body
          [] OTHER           -> test.teardown

At(s) == phase # "over" /\ at <= Len(Plan) /\ Plan[at] = s

Init ==
    /\ test \in Running
    /\ trouble \in Troubles
    /\ phase = "setup" /\ at = 1 /\ outcome = "open" /\ why = "none"
    /\ redis = "none" /\ dir = "none" /\ box = "none"
    /\ queueOpen = FALSE /\ observing = FALSE /\ seen = <<>> /\ kind = "none"
    /\ child = [p \in Processes |-> "none"]
    /\ told = {}
    /\ probe = "none"
    /\ past = [i \in Scans |-> <<>>]
    /\ job = [i \in Scans |-> "none"]
    /\ line = <<>> /\ hand = "none" /\ stage = "idle"
    /\ files = {}

-----------------------------------------------------------------------------
(* The course of a test. *)

Go ==
    /\ at' = at + 1
    /\ UNCHANGED <<test, trouble, phase, outcome, why>>

\* Nothing catches what is thrown before the try; the observer is stopped in
\* a finally of its own.
Thrown(cause) ==
    /\ phase' = IF phase = "setup" THEN "over" ELSE "finally"
    /\ at' = 1
    /\ outcome' = IF outcome = "open" THEN "failed" ELSE outcome
    /\ why' = IF outcome = "open" THEN cause ELSE why
    /\ observing' = FALSE
    /\ UNCHANGED <<test, trouble, dir, box, queueOpen, seen, kind,
                   child, told, probe, scanVars>>

Throw(cause) == Thrown(cause) /\ UNCHANGED redis

PhaseEnds ==
    /\ phase # "over" /\ at = Len(Plan) + 1
    /\ phase' = CASE phase = "setup" -> "body"
                  [] phase = "body"  -> "finally"
                  [] OTHER           -> "over"
    /\ at' = 1
    /\ outcome' = IF phase = "body" /\ outcome = "open" THEN "passed" ELSE outcome
    /\ UNCHANGED <<test, trouble, why, labVars, child, told, probe, scanVars>>

\* The timeout of node:test fails a test and leaves its function running.
TestTimeout ==
    /\ test \notin Untimed
    /\ phase \in {"setup", "body"} /\ outcome = "open"
    /\ outcome' = "failed" /\ why' = "timer"
    /\ UNCHANGED <<test, trouble, phase, at, labVars, child, told, probe, scanVars>>

\* A step that changes the lab and may throw in the given trouble.
Lab(s, fails) == At(s) /\ trouble # fails /\ Go

LabFails(s, fails) == At(s) /\ trouble = fails /\ Throw("lab")

isDockerAvailable ==
    /\ At("gate")
    /\ IF trouble = "noDocker"
       THEN /\ phase' = "over" /\ at' = 1
            /\ outcome' = IF outcome = "open" THEN "skipped" ELSE outcome
            /\ UNCHANGED <<test, trouble, why>>
       ELSE Go
    /\ UNCHANGED <<labVars, child, told, probe, scanVars>>

ensureBuilt ==
    \/ Lab("build", "noBuild") /\ UNCHANGED <<labVars, child, told, probe, scanVars>>
    \/ LabFails("build", "noBuild")

assertDockerAvailable ==
    \/ Lab("docker", "noDocker") /\ UNCHANGED <<labVars, child, told, probe, scanVars>>
    \/ LabFails("docker", "noDocker")

\* docker run is cut off at its deadline, or fails; a container the daemon has
\* started all the same is nobody's, since its id was never read.
startDisposableRedis ==
    \/ /\ Lab("startRedis", "noRedis")
       /\ redis' = "up"
       /\ UNCHANGED <<dir, box, queueOpen, observing, seen, kind, child, told, probe, scanVars>>
    \/ /\ At("startRedis") /\ trouble = "noRedis"
       /\ Thrown("lab")
       /\ redis' \in {redis, "up"}

startRedisStub ==
    /\ At("startStub") /\ Go
    /\ UNCHANGED <<labVars, child, told, probe, scanVars>>

mkdtemp ==
    \/ /\ Lab("mkdtemp", "noTmp")
       /\ dir' = "made"
       /\ UNCHANGED <<redis, box, queueOpen, observing, seen, kind, child, told, probe, scanVars>>
    \/ LabFails("mkdtemp", "noTmp")

-----------------------------------------------------------------------------
(* What a test waits for, and what it asserts. *)

waitReady(p) == p \in told

\* The scripts without Docker also give up when the child has exited.
readyOrGone(p) == p \in told \/ child[p] \notin Alive

\* Mutant: the first status that is not Queued is taken for the end.
waitTerminalEager(i) == Status(i) \notin {"none", "Queued"}

waitTerminal(i) == Status(i) \in TerminalStatus

\* What a GET is answered with: the record, by an API that lives.
Answered(i) == IF child["api"] = "up" THEN Status(i) ELSE "none"

failedByGet(i) == Answered(i) = "Failed"

waitExit(p) == child[p] \in {"ended", "failed", "killed"}

waitReport == "report" \in told

Awaited ==
    [apiReady       |-> waitReady("api"),
     workerReady    |-> waitReady("worker"),
     apiReadyOrGone |-> readyOrGone("api"),
     connect        |-> redis = "up",
     report         |-> waitReport,
     endsFinished   |-> waitTerminal(Subject),
     endsFailed     |-> waitTerminal(Subject),
     failedByGet    |-> failedByGet(Subject),
     jobFails       |-> job[Subject] = "failed",
     workerExit     |-> waitExit("worker"),
     apiExit        |-> waitExit("api"),
     healthUp       |-> probe \in {"up", "down"},
     healthAnswers  |-> probe \in {"up", "down"}]

\* Mutant: waitExit arms no timer.
TimedButExit == DOMAIN Awaited \ {"connect", "healthUp", "healthAnswers", "workerExit", "apiExit"}

\* connectRedis looks at its deadline only when PING rejects, which it never
\* does without a limit of retries; a probe is bounded by its own timer.
Timed == DOMAIN Awaited \ {"connect", "healthUp", "healthAnswers"}

\* Mutant: any exit will do.
assertAnyExit(p) == waitExit(p)

\* A signal that was raised again, or exit 0.
assertCleanShutdown(p) == child[p] = "ended"

assertNoScanArtifacts == files = {}

\* The observer's list is compared as a whole.
sawLifecycle(end) == seen = <<"Queued", "Scanning", end>>

\* What a step asserts, the assertions on what it waited for included.
Asserted ==
    [apiReadyOrGone |-> waitReady("api"),
     report         |-> "existed" \in told,
     endsFinished   |-> Status(Subject) = "Finished",
     endsFailed     |-> Status(Subject) = "Failed",
     healthUp       |-> probe = "up",
     queued         |-> Status("posted") = "Queued",
     noRecords      |-> past["posted"] = <<>>,
     noJobs         |-> job["posted"] = "none",
     finishedByGet  |-> Answered(Subject) = "Finished",
     stillFinished  |-> Status(Subject) = "Finished",
     jobCompleted   |-> job[Subject] = "completed",
     jobFailed      |-> job[Subject] = "failed",
     sawFinished    |-> sawLifecycle("Finished"),
     sawFailed      |-> sawLifecycle("Failed"),
     neverScanning  |-> \A k \in DOMAIN seen : seen[k] # "Scanning",
     noArtifacts    |-> assertNoScanArtifacts,
     apiAlive       |-> child["api"] \in Alive,
     workerAlive    |-> child["worker"] \in Alive,
     cleanWorker    |-> assertCleanShutdown("worker"),
     cleanApi       |-> assertCleanShutdown("api"),
     apiLogged      |-> "apiLine" \in told,
     workerLogged   |-> "workerLine" \in told,
     getUnknown     |-> child["api"] = "up",
     getStatic      |-> child["api"] = "up",
     reachedMarker  |-> kind = "marker",
     exitedNonZero  |-> kind = "exit" /\ child["worker"] = "failed",
     memtest        |-> trouble # "overLimit",
     inspect        |-> box \in {"running", "done"}]

\* A wait is over, or an assertion is due: it holds or throws.
StepTaken ==
    \E s \in DOMAIN Awaited \cup DOMAIN Asserted :
        /\ At(s)
        /\ s \in DOMAIN Awaited => Awaited[s]
        /\ IF s \in DOMAIN Asserted => Asserted[s]
           THEN Go /\ UNCHANGED <<labVars, child, told, probe, scanVars>>
           ELSE Throw(s)

WaitExpires ==
    \E s \in Timed : At(s) /\ ~Awaited[s] /\ Throw("timer")

-----------------------------------------------------------------------------
(* What a test does. *)

restButChild == <<labVars, probe, scanVars>>

Launch(p) == child' = [child EXCEPT ![p] = "boot"]

spawnApi ==
    /\ At("spawnApi") /\ Go
    /\ Launch("api")
    /\ UNCHANGED <<restButChild, told>>

spawnWorker ==
    /\ At("spawnWorker") /\ Go
    /\ Launch("worker")
    /\ UNCHANGED <<restButChild, told>>

Signalled(p) == IF child[p] \in {"boot", "up"} THEN "stopping" ELSE child[p]

Term(s, p) ==
    /\ At(s) /\ Go
    /\ child' = [child EXCEPT ![p] = Signalled(p)]
    /\ UNCHANGED <<restButChild, told>>

runWorker ==
    /\ At("runWorker") /\ Go
    /\ Launch("worker")
    /\ UNCHANGED <<restButChild, told>>

\* The first of: the hold after the marker is over, the child has exited
\* without one, the timer has fired.  An exit during the hold goes unnoticed.
runWorkerFinish ==
    /\ At("settled") /\ Go
    /\ kind' = IF "worker" \in told THEN "marker"
               ELSE IF child["worker"] \in Alive THEN "timeout" ELSE "exit"
    /\ child' = [child EXCEPT !["worker"] = Signalled("worker")]
    /\ UNCHANGED <<redis, dir, box, queueOpen, observing, seen, told, probe, scanVars>>

Write(i, status) == past' = [past EXCEPT ![i] = Append(@, status)]

Enqueue(i) == job' = [job EXCEPT ![i] = "waiting"] /\ line' = Append(line, i)

post ==
    /\ At("post")
    /\ IF child["api"] = "up"
       THEN /\ Go
            /\ Write("posted", "Queued") /\ Enqueue("posted")
            /\ UNCHANGED <<hand, stage, files, labVars, child, told, probe>>
       ELSE Throw("post")

\* Every row is answered 400; in the trouble one of them is queued as well.
postMalformed ==
    /\ At("postMalformed")
    /\ IF child["api"] = "up"
       THEN /\ Go
            /\ IF trouble = "enqueues"
               THEN Write("posted", "Queued") /\ Enqueue("posted")
               ELSE UNCHANGED <<past, job, line>>
            /\ UNCHANGED <<hand, stage, files, labVars, child, told, probe>>
       ELSE Throw("postMalformed")

seedQueued ==
    /\ At("seed") /\ Go
    /\ Write("seeded", "Queued")
    /\ UNCHANGED <<job, line, hand, stage, files, labVars, child, told, probe>>

seedFinished ==
    /\ At("seedFinished") /\ Go
    /\ Write("seeded", "Finished")
    /\ UNCHANGED <<job, line, hand, stage, files, labVars, child, told, probe>>

openQueue ==
    /\ At("openQueue") /\ Go
    /\ queueOpen' = TRUE
    /\ UNCHANGED <<redis, dir, box, observing, seen, kind, child, told, probe, scanVars>>

addJob ==
    /\ At("addJob") /\ Go
    /\ Enqueue("seeded")
    /\ UNCHANGED <<past, hand, stage, files, labVars, child, told, probe>>

startStatusObserver ==
    /\ At("observe") /\ Go
    /\ observing' = TRUE
    /\ UNCHANGED <<redis, dir, box, queueOpen, seen, kind, child, told, probe, scanVars>>

stopObserving ==
    /\ At("stopObserving") /\ Go
    /\ observing' = FALSE
    /\ UNCHANGED <<redis, dir, box, queueOpen, seen, kind, child, told, probe, scanVars>>

\* docker rm -f, whose status nobody looks at.
Removed(container, gone) == {gone} \cup (IF trouble = "noRemove" THEN {container} ELSE {})

killRedis ==
    /\ At("killRedis") /\ Go
    /\ redis' \in Removed(redis, "gone")
    /\ UNCHANGED <<dir, box, queueOpen, observing, seen, kind, child, told, probe, scanVars>>

getHealth ==
    /\ At("health")
    /\ IF child["api"] = "up"
       THEN /\ Go
            /\ probe' = "pinging"
            /\ UNCHANGED <<labVars, child, told, scanVars>>
       ELSE Throw("health")

healthExpires == At("healthDown") /\ probe # "down" /\ Throw("timer")

\* Asked again until it says 503, or ten seconds are over.
healthDown ==
    \/ /\ At("healthDown") /\ probe = "down" /\ Go
       /\ UNCHANGED <<labVars, child, told, probe, scanVars>>
    \/ /\ At("healthDown") /\ probe = "up"
       /\ probe' = "pinging"
       /\ UNCHANGED <<testVars, labVars, child, told, scanVars>>
    \/ healthExpires

\* Without Redis the handler may answer with an error or not at all; both do.
scanAnswers ==
    /\ At("scanAnswers") /\ Go
    /\ UNCHANGED <<labVars, child, told, probe, scanVars>>

genFixture ==
    \/ Lab("genFixture", "noSpace") /\ UNCHANGED <<labVars, child, told, probe, scanVars>>
    \/ LabFails("genFixture", "noSpace")

buildImage ==
    \/ Lab("buildImage", "noBuild") /\ UNCHANGED <<labVars, child, told, probe, scanVars>>
    \/ LabFails("buildImage", "noBuild")

\* docker run is cut off at its deadline, which leaves the container running.
runContainer ==
    /\ At("runContainer") /\ Go
    /\ box' \in {"running", IF trouble = "overLimit" THEN "oomed" ELSE "done"}
    /\ UNCHANGED <<redis, dir, queueOpen, observing, seen, kind, child, told, probe, scanVars>>

-----------------------------------------------------------------------------
(* The finally of a test: every step is taken, whatever the others did. *)

\* Mutant: only the worker is killed.
killWorkerOnly ==
    \E s \in {"killWorker", "killApi"} :
        /\ At(s) /\ Go
        /\ child' = [child EXCEPT !["worker"] = IF @ \in Alive THEN "killed" ELSE @]
        /\ UNCHANGED <<restButChild, told>>

kill ==
    \E s \in {"killWorker", "killApi"} :
        LET p == IF s = "killApi" THEN "api" ELSE "worker"
        IN  /\ At(s) /\ Go
            /\ child' = [child EXCEPT ![p] = IF @ \in Alive THEN "killed" ELSE @]
            /\ UNCHANGED <<restButChild, told>>

closeQueue ==
    /\ At("closeQueue") /\ Go
    /\ queueOpen' = FALSE
    /\ UNCHANGED <<redis, dir, box, observing, seen, kind, child, told, probe, scanVars>>

\* disconnect() of the test's own client, close() of the stub.
disconnect ==
    /\ \E s \in {"disconnect", "closeStub"} : At(s)
    /\ Go
    /\ UNCHANGED <<labVars, child, told, probe, scanVars>>

remove ==
    /\ At("removeRedis") /\ Go
    /\ redis' \in Removed(redis, "gone")
    /\ UNCHANGED <<dir, box, queueOpen, observing, seen, kind, child, told, probe, scanVars>>

removeContainer ==
    /\ At("removeContainer") /\ Go
    /\ box' \in Removed(box, "none")
    /\ UNCHANGED <<redis, dir, queueOpen, observing, seen, kind, child, told, probe, scanVars>>

\* A failure is swallowed: tools that outlive a killed worker still write, or
\* something else is wrong with the directory.  (The scripts in Untimed do not
\* swallow it: there the rm is taken to succeed.)
rmDir ==
    /\ At("rmDir") /\ Go
    /\ \/ dir' = "gone"
       \/ /\ files # {} \/ (trouble = "noRemove" /\ test \notin Untimed)
          /\ dir' = "kept"
    /\ UNCHANGED <<redis, box, queueOpen, observing, seen, kind, child, told, probe, scanVars>>

Harness ==
    \/ PhaseEnds \/ TestTimeout \/ StepTaken \/ WaitExpires
    \/ isDockerAvailable \/ ensureBuilt \/ assertDockerAvailable
    \/ startDisposableRedis \/ startRedisStub \/ mkdtemp
    \/ spawnApi \/ spawnWorker \/ runWorker \/ runWorkerFinish
    \/ Term("termWorker", "worker") \/ Term("termApi", "api")
    \/ post \/ postMalformed \/ seedQueued \/ seedFinished \/ openQueue \/ addJob
    \/ startStatusObserver \/ stopObserving \/ killRedis \/ getHealth \/ healthDown
    \/ scanAnswers \/ genFixture \/ buildImage \/ runContainer
    \/ kill \/ closeQueue \/ disconnect \/ remove \/ removeContainer \/ rmDir

-----------------------------------------------------------------------------
(* The processes under test, as they look from outside. *)

Becomes(p, from, to) ==
    /\ child[p] \in from
    /\ child' = [child EXCEPT ![p] = to]
    /\ UNCHANGED <<testVars, labVars, probe, scanVars>>

\* The sentinel is written once the process is up, and read at once.
Boots(p) ==
    /\ p = "worker" => (test.env = "valid" \/ trouble = "anyEnv")
    /\ Becomes(p, {"boot"}, "up")
    /\ told' = told \cup {p}

Refuses ==
    /\ test.env = "invalid" /\ trouble # "anyEnv"
    /\ Becomes("worker", {"boot"}, "failed")
    /\ UNCHANGED told

Crashes(p) ==
    /\ trouble = "crashes"
    /\ Becomes(p, {"boot", "up"}, "failed")
    /\ UNCHANGED told

\* A process that shuts down raises the signal again, or exits with 0.
Ends(p) ==
    /\ trouble # "deaf"
    /\ Becomes(p, {"stopping"}, IF trouble = "dirtyExit" THEN "failed" ELSE "ended")
    /\ UNCHANGED told

Logs ==
    /\ \/ past["posted"] # <<>> /\ told' = told \cup {"apiLine"}
       \/ hand = "posted" /\ told' = told \cup {"workerLine"}
    /\ UNCHANGED <<testVars, labVars, child, probe, scanVars>>

LastSeen == IF seen = <<>> THEN "none" ELSE Last(seen)

\* Mutant: the observer notes every answer.
ObserveAll ==
    /\ observing /\ redis = "up" /\ Status(Subject) # "none"
    /\ seen' = Append(seen, Status(Subject))
    /\ UNCHANGED <<testVars, redis, dir, box, queueOpen, observing, kind,
                   child, told, probe, scanVars>>

\* One turn of the observer's loop, on a connection of its own.
Observe ==
    /\ observing /\ redis = "up" /\ Status(Subject) # "none"
    /\ LastSeen # Status(Subject)
    /\ seen' = Append(seen, Status(Subject))
    /\ UNCHANGED <<testVars, redis, dir, box, queueOpen, observing, kind,
                   child, told, probe, scanVars>>

\* HealthService.redisUp: PING against a timer of its own.
redisUp ==
    /\ probe = "pinging"
    /\ \/ redis = "up" /\ trouble # "slowPing" /\ probe' = "up"
       \/ (redis # "up" \/ trouble = "slowPing") /\ probe' = "down"
    /\ UNCHANGED <<testVars, labVars, child, told, scanVars>>

working == child["worker"] \in {"up", "stopping"} /\ redis = "up"

Take ==
    /\ child["worker"] = "up" /\ redis = "up"
    /\ hand = "none" /\ line # <<>>
    /\ hand' = Head(line) /\ line' = Tail(line) /\ stage' = "taken"
    /\ job' = [job EXCEPT ![Head(line)] = "active"]
    /\ UNCHANGED <<testVars, labVars, child, told, probe, past, files>>

MarkScanning ==
    /\ working /\ stage = "taken"
    /\ IF trouble = "skipsScanning" \/ (Status(hand) \in TerminalStatus /\ trouble # "overwrites")
       THEN UNCHANGED past
       ELSE Write(hand, "Scanning")
    /\ stage' = "scanning"
    /\ UNCHANGED <<testVars, labVars, child, told, probe, job, line, hand, files>>

\* The doubles of the fault seam leave nothing on disk.
Scan ==
    /\ working /\ stage = "scanning"
    /\ IF test.fault = "none"
       THEN files' = files \cup {hand} /\ told' = told \cup {"printed"}
       ELSE UNCHANGED <<files, told>>
    /\ stage' = "scanned"
    /\ UNCHANGED <<testVars, labVars, child, probe, past, job, line, hand>>

\* The line that announces the report is read, some time after the worker wrote
\* it, and the listener looks for the file at once.  (The test that awaits the
\* report lets its worker run no other scan.)
ReadReport ==
    /\ "printed" \in told /\ "report" \notin told
    /\ told' = told \cup {"report"} \cup (IF Subject \in files THEN {"existed"} ELSE {})
    /\ UNCHANGED <<testVars, labVars, child, probe, scanVars>>

\* A posted URL is cloned from the network, which may fail by itself.
EndsIn ==
    IF test.fault # "none" \/ trouble = "scanFails" THEN {"Failed"}
    ELSE IF hand = "posted" THEN TerminalStatus ELSE {"Finished"}

CloseRecord ==
    /\ working /\ stage = "scanned"
    /\ \E end \in EndsIn :
           /\ IF Status(hand) \in TerminalStatus THEN UNCHANGED past ELSE Write(hand, end)
           /\ stage' = end
    /\ UNCHANGED <<testVars, labVars, child, told, probe, job, line, hand, files>>

Clean ==
    /\ working /\ stage \in TerminalStatus /\ hand \in files /\ trouble # "keepsFiles"
    /\ files' = files \ {hand}
    /\ UNCHANGED <<testVars, labVars, child, told, probe, past, job, line, hand, stage>>

Settle ==
    /\ working /\ stage \in TerminalStatus
    /\ hand \notin files \/ trouble = "keepsFiles"
    /\ job' = [job EXCEPT ![hand] =
                  IF (stage = "Failed") # (trouble = "settlesWrong") THEN "failed" ELSE "completed"]
    /\ hand' = "none" /\ stage' = "idle"
    /\ UNCHANGED <<testVars, labVars, child, told, probe, past, line, files>>

Subjects ==
    \/ \E p \in Processes : Boots(p) \/ Crashes(p) \/ Ends(p)
    \/ Refuses \/ Logs \/ ReadReport \/ Observe \/ redisUp
    \/ Take \/ MarkScanning \/ Scan \/ CloseRecord \/ Clean \/ Settle

Next == Harness \/ Subjects

Spec == Init /\ [][Next]_vars

\* The steps of a test and its timers are taken, also where it asks again and
\* again; so is the probe's timer.  The processes under test need not do
\* anything.
FairSpec == Spec /\ WF_vars(Harness) /\ WF_vars(healthExpires) /\ WF_vars(redisUp)

-----------------------------------------------------------------------------
(* Properties *)

Statuses == {"Queued", "Scanning", "Finished", "Failed"}

\* The sentinels, the line that announces the report, once it was written and
\* once it was read, with what the listener found, and the lines of a scan.
Lines == Processes \cup {"printed", "report", "existed", "apiLine", "workerLine"}

\* Types; the observer never notes a status twice in a row.
TypeOK ==
    /\ test \in Running /\ trouble \in Troubles
    /\ phase \in {"setup", "body", "finally", "over"}
    /\ at \in 1..(Len(Plan) + 1)
    /\ outcome \in {"open", "passed", "failed", "skipped"}
    /\ why \in {"none", "timer", "lab"} \cup Steps(test)
    /\ redis \in {"none", "up", "gone"}
    /\ dir \in {"none", "made", "gone", "kept"}
    /\ box \in {"none", "running", "done", "oomed"}
    /\ queueOpen \in BOOLEAN /\ observing \in BOOLEAN
    /\ \A k \in DOMAIN seen : seen[k] \in Statuses /\ (k > 1 => seen[k] # seen[k - 1])
    /\ kind \in {"none", "marker", "exit", "timeout"}
    /\ child \in [Processes -> Alive \cup {"none", "ended", "failed", "killed"}]
    /\ told \subseteq Lines
    /\ probe \in {"none", "pinging", "up", "down"}
    /\ \A i \in Scans : \A k \in DOMAIN past[i] : past[i][k] \in Statuses
    /\ job \in [Scans -> {"none", "waiting", "active", "completed", "failed"}]
    /\ hand \in Scans \cup {"none"}
    /\ stage \in {"idle", "taken", "scanning", "scanned"} \cup TerminalStatus
    /\ files \subseteq Scans

\* A test that passed has seen what it claims: a lifecycle it compares was the
\* record's, though an observer that polls may miss a status; a terminal guard
\* it asserts was never broken, though only the last status is compared with
\* it; a clean exit was one.  And as jobs are worked off in order, a test that
\* posts before it adds its own job has had the posted URL scanned first.
PassedForCause ==
    outcome = "passed" =>
        /\ \A end \in TerminalStatus :
               Does(test, IF end = "Failed" THEN "sawFailed" ELSE "sawFinished") =>
                   past[Subject] = <<"Queued", "Scanning", end>>
        /\ Does(test, "neverScanning") => past[Subject] = <<"Finished">>
        /\ Does(test, "noRecords") => \A i \in Scans : past[i] = <<>> /\ job[i] = "none"
        /\ Does(test, "cleanWorker") => child["worker"] = "ended"
        /\ Does(test, "cleanApi") => child["api"] = "ended"
        /\ Does(test, "post") /\ Does(test, "addJob") => Status("posted") \in TerminalStatus

\* Which trouble is which tests' business.
Business ==
    [deaf          |-> {"workerExit", "apiExit"},
     dirtyExit     |-> {"cleanWorker", "cleanApi"},
     anyEnv        |-> {"exitedNonZero"},
     enqueues      |-> {"noRecords"},
     overwrites    |-> {"stillFinished"},
     skipsScanning |-> {"sawFinished", "sawFailed"},
     settlesWrong  |-> {"jobCompleted", "jobFailed", "jobFails"},
     scanFails     |-> {"endsFinished"},
     slowPing      |-> {"healthUp"},
     overLimit     |-> {"memtest"}]

\* No test passes over the trouble it is there to find.  (Not in the table:
\* files that are kept, which the tests with a fault cannot see, and a memory
\* proof whose docker run was cut off, which passes as well.)
TroubleCaught ==
    outcome = "passed" /\ trouble \in DOMAIN Business =>
        \A s \in Business[trouble] : ~Does(test, s)

\* The assertions a sound program may fail: what they look at is behind the
\* status the test has waited for, or gone before its listener looks for it.
Racy == {"jobCompleted", "jobFailed", "sawFinished", "sawFailed", "noArtifacts",
         "apiLogged", "workerLogged", "report"}

\* When nothing is wrong a test fails by a timer or in a race, never otherwise.
FailedForCause ==
    outcome = "failed" /\ trouble = "none" =>
        why \in {"timer"} \cup Racy \/ kind = "timeout"

\* Whatever a test met, its containers, processes, connections and directory
\* are gone when it is over.  The exceptions are the code's: Redis is started
\* before the try, so a failing mkdtemp leaves it, and so may a docker run that
\* was cut off; nobody looks whether docker rm and rm have done their work;
\* runWorker signals its child and does not wait; a directory others still
\* write to is left.
NothingLeft ==
    phase = "over" =>
        /\ redis = "up" => trouble \in {"noTmp", "noRedis", "noRemove"}
        /\ box # "none" => trouble = "noRemove"
        /\ ~queueOpen /\ ~observing
        /\ child["api"] \notin Alive
        /\ child["worker"] \in Alive => Does(test, "runWorker") /\ child["worker"] = "stopping"
        /\ dir # "made" /\ (dir = "kept" => files # {} \/ trouble = "noRemove")

\* Every test ends, whatever the processes under test do or fail to do.
EveryTestEnds == <>(phase = "over")

=============================================================================
