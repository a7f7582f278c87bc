------------------------- MODULE TestHarnessProofs -------------------------
(***************************************************************************)
(* What TestHarness promises of every test that is written as the scripts  *)
(* are (HarnessAssumption), whatever its steps are and whatever is wrong.  *)
(*                                                                         *)
(* Typed says where a test stands; the lemmas named Moves and so on say    *)
(* once which steps change what.  Holding: what a test has set up is there *)
(* only while the step that takes it down is ahead.  Earned: how far the   *)
(* record, its job and the test have come, and what each check has         *)
(* established for good.  Calm: what the processes are, when nothing is    *)
(* wrong, after the steps a test has taken.                                *)
(***************************************************************************)
EXTENDS TestHarness, TLAPS

-----------------------------------------------------------------------------
(* Where a step stands. *)

InSetup(s) == phase = "setup" /\ at \in DOMAIN test.setup /\ test.setup[at] = s

InBody(s) == phase = "body" /\ at \in DOMAIN test.body /\ test.body[at] = s

InFinally(s) == phase = "finally" /\ at \in DOMAIN test.teardown /\ test.teardown[at] = s

Placed ==
    /\ test \in Running
    /\ phase \in {"setup", "body", "finally", "over"}
    /\ at \in Nat \ {0} /\ at <= Len(Plan) + 1

LEMMA Scripts ==
    ASSUME Placed
    PROVE  /\ Unwinds(test) /\ Orders(test) /\ Expects(test)
           /\ test.setup \in Seq(Outside)
           /\ test.body \in Seq(STRING)
           /\ test.teardown \in Seq(Cleanups)
           /\ Len(Plan) \in Nat /\ DOMAIN Plan = 1..Len(Plan)
<1>1. Unwinds(test) /\ Orders(test) /\ Expects(test)
  BY HarnessAssumption DEF Placed
<1>2. Len(Plan) \in Nat /\ DOMAIN Plan = 1..Len(Plan)
  BY <1>1 DEF Unwinds, Plan, Placed
<1> QED
  BY <1>1, <1>2 DEF Unwinds

\* A step of the body is neither of the setup nor of the finally, but for the
\* start of an API.
LEMMA Where ==
    ASSUME Placed, NEW s, At(s)
    PROVE  /\ InSetup(s) \/ InBody(s) \/ InFinally(s)
           /\ InSetup(s) => s \in Outside
           /\ InBody(s) => s \notin Cleanups /\ (s \in Outside => s = "spawnApi")
           /\ InFinally(s) => s \in Cleanups
           /\ Does(test, s)
<1>1. /\ test.setup \in Seq(Outside)
      /\ test.body \in Seq(STRING)
      /\ test.teardown \in Seq(Cleanups)
      /\ Range(test.body) \cap (Cleanups \cup Outside) \subseteq {"spawnApi"}
  BY Scripts DEF Unwinds
<1>2. CASE phase = "setup"
  BY <1>1, <1>2 DEF At, Plan, InSetup, InBody, InFinally, Does, Steps, Range, Placed
<1>3. CASE phase = "body"
  <2>1. at \in DOMAIN test.body /\ test.body[at] = s
    BY <1>1, <1>3 DEF At, Plan, Placed
  <2>2. s \in Range(test.body)
    BY <2>1 DEF Range
  <2>3. s \in Cleanups \cup Outside => s = "spawnApi"
    BY <1>1, <2>2
  <2>4. "spawnApi" \notin Cleanups
    BY DEF Cleanups
  <2> QED
    BY <1>3, <2>1, <2>2, <2>3, <2>4 DEF InSetup, InBody, InFinally, Does, Steps
<1>4. CASE phase = "finally"
  BY <1>1, <1>4 DEF At, Plan, InSetup, InBody, InFinally, Does, Steps, Range, Placed
<1> QED
  BY <1>2, <1>3, <1>4 DEF Placed, At

-----------------------------------------------------------------------------
(* What a step may do. *)

\* A wait or an assertion; none of them sets anything up or takes it down.
Checks == DOMAIN Awaited \cup DOMAIN Asserted

LEMMA ChecksOnly ==
    /\ Checks \cap (Cleanups \cup Outside) = {}
    /\ Checks \cap (Posting \cup Seeding) = {}
    /\ Checks \cap {"settled", "addJob", "openQueue", "observe", "stopObserving", "runContainer",
                    "spawnWorker", "runWorker", "killRedis", "health", "termWorker", "termApi",
                    "healthDown", "scanAnswers", "genFixture", "buildImage"} = {}
    /\ Timed \subseteq Checks
  BY DEF Checks, Awaited, Asserted, Cleanups, Outside, Posting, Seeding, Timed

Fell ==
    /\ phase' = IF phase = "setup" THEN "over" ELSE "finally"
    /\ at' = 1
    /\ outcome' = IF outcome = "open" THEN "failed" ELSE outcome
    /\ observing' = FALSE
    /\ UNCHANGED <<dir, box, queueOpen, seen, kind, child, told, probe, scanVars>>

Skips ==
    /\ At("gate")
    /\ phase' = "over" /\ at' = 1
    /\ outcome' = IF outcome = "open" THEN "skipped" ELSE outcome
    /\ UNCHANGED <<labVars, child, told, probe, scanVars>>

Expires ==
    /\ phase \in {"setup", "body"} /\ outcome = "open"
    /\ outcome' = "failed"
    /\ UNCHANGED <<phase, at, labVars, child, told, probe, scanVars>>

\* The steps that cannot throw, in a setup or a finally.
Safe == Cleanups \cup {"spawnApi", "settled"}

LEMMA Moves ==
    ASSUME Next
    PROVE  /\ test' = test /\ trouble' = trouble
           /\ \/ UNCHANGED <<phase, at, outcome>>
              \/ Expires
              \/ PhaseEnds
              \/ Skips
              \/ \E s : At(s) /\ Go
              \/ \E s : At(s) /\ Fell /\ s \notin Safe /\ (s = "mkdtemp" => trouble = "noTmp")
<1> USE DEF testVars
<1>1. CASE StepTaken
  <2>1. PICK s \in Checks :
             /\ At(s)
             /\ IF s \in DOMAIN Asserted => Asserted[s]
                THEN Go /\ UNCHANGED <<labVars, child, told, probe, scanVars>>
                ELSE Throw(s)
    BY <1>1 DEF StepTaken, Checks
  <2>2. s \notin Safe /\ s # "mkdtemp"
    BY ChecksOnly DEF Safe, Outside
  <2> QED
    BY <2>1, <2>2 DEF Go, Throw, Thrown, Fell
<1>2. CASE WaitExpires
  <2>1. PICK s \in Timed : At(s) /\ Throw("timer")
    BY <1>2 DEF WaitExpires
  <2>2. s \notin Safe /\ s # "mkdtemp"
    BY ChecksOnly DEF Safe, Outside
  <2> QED
    BY <2>1, <2>2 DEF Throw, Thrown, Fell
<1>3. CASE PhaseEnds \/ TestTimeout
  BY <1>3 DEF PhaseEnds, TestTimeout, Expires
<1>4. CASE \/ isDockerAvailable \/ ensureBuilt \/ assertDockerAvailable
           \/ startDisposableRedis \/ startRedisStub \/ mkdtemp
  BY <1>4 DEF isDockerAvailable, ensureBuilt, assertDockerAvailable, startDisposableRedis,
              startRedisStub, mkdtemp, Lab, LabFails, Go, Throw, Thrown, Fell, Skips, Safe,
              Cleanups
<1>5. CASE \/ spawnApi \/ spawnWorker \/ runWorker \/ runWorkerFinish
           \/ Term("termWorker", "worker") \/ Term("termApi", "api")
           \/ seedQueued \/ seedFinished \/ openQueue \/ addJob
           \/ startStatusObserver \/ stopObserving \/ killRedis
  BY <1>5 DEF spawnApi, spawnWorker, runWorker, runWorkerFinish, Term, seedQueued, seedFinished,
              openQueue, addJob, startStatusObserver, stopObserving, killRedis, Go
<1>6. CASE post \/ postMalformed \/ getHealth \/ healthDown
  BY <1>6 DEF post, postMalformed, getHealth, healthDown, healthExpires, Go, Throw, Thrown, Fell,
              Safe, Cleanups
<1>7. CASE scanAnswers \/ genFixture \/ buildImage \/ runContainer
  BY <1>7 DEF scanAnswers, genFixture, buildImage, runContainer, Lab, LabFails, Go, Throw, Thrown,
              Fell, Safe, Cleanups
<1>8. CASE kill \/ closeQueue \/ disconnect \/ remove \/ removeContainer \/ rmDir
  BY <1>8 DEF kill, closeQueue, disconnect, remove, removeContainer, rmDir, Go
<1>9. CASE Subjects
  BY <1>9 DEF Subjects, Boots, Crashes, Ends, Refuses, Becomes, Logs, ReadReport, Observe, redisUp,
              Take, MarkScanning, Scan, CloseRecord, Clean, Settle
<1> QED
  BY <1>1, <1>2, <1>3, <1>4, <1>5, <1>6, <1>7, <1>8, <1>9 DEF Next, Harness

-----------------------------------------------------------------------------
(* Who changes what. *)

USE DEF Next, Harness, PhaseEnds, TestTimeout, StepTaken, WaitExpires, Throw, Thrown, Lab, LabFails,
        isDockerAvailable, ensureBuilt, assertDockerAvailable, startDisposableRedis,
        startRedisStub, mkdtemp, spawnApi, spawnWorker, runWorker, runWorkerFinish, Term,
        post, postMalformed, seedQueued, seedFinished, openQueue, addJob,
        startStatusObserver, stopObserving, killRedis, getHealth, healthDown, healthExpires, scanAnswers,
        genFixture, buildImage, runContainer, kill, closeQueue, disconnect, Removed, remove,
        removeContainer, rmDir, restButChild, labVars, testVars, scanVars,
        Subjects, Boots, Crashes, Ends, Refuses, Becomes, Logs, ReadReport, Observe, redisUp, Take,
        MarkScanning, Scan, CloseRecord, Clean, Settle

LEMMA RedisMoves ==
    ASSUME Next
    PROVE  \/ redis' = redis
           \/ At("startRedis") /\ Go /\ redis' = "up"
           \/ At("startRedis") /\ trouble = "noRedis" /\ Fell /\ redis' = "up"
           \/ (At("killRedis") \/ At("removeRedis")) /\ Go /\ redis' = "gone"
  BY DEF Fell

LEMMA DirMoves ==
    ASSUME Next
    PROVE  \/ dir' = dir
           \/ At("mkdtemp") /\ Go /\ dir' = "made"
           \/ /\ At("rmDir") /\ Go
              /\ \/ dir' = "gone"
                 \/ dir' = "kept" /\ (files # {} \/ trouble = "noRemove")
              /\ redis' = redis /\ files' = files
  OBVIOUS

LEMMA BoxMoves ==
    ASSUME Next
    PROVE  \/ box' = box
           \/ /\ At("runContainer") /\ Go
              /\ box' \in {"running", IF trouble = "overLimit" THEN "oomed" ELSE "done"}
           \/ At("removeContainer") /\ Go /\ box' = "none"
  OBVIOUS

LEMMA QueueMoves ==
    ASSUME Next
    PROVE  \/ queueOpen' = queueOpen
           \/ At("openQueue") /\ Go /\ queueOpen' = TRUE
           \/ At("closeQueue") /\ Go /\ queueOpen' = FALSE
  OBVIOUS

LEMMA ObserveMoves ==
    ASSUME Next
    PROVE  \/ observing' = observing
           \/ At("observe") /\ Go /\ observing' = TRUE
           \/ observing' = FALSE
  OBVIOUS

LEMMA SeenMoves ==
    ASSUME Next
    PROVE  \/ seen' = seen
           \/ /\ Status(Subject) # "none" /\ LastSeen # Status(Subject)
              /\ seen' = Append(seen, Status(Subject))
              /\ UNCHANGED <<testVars, scanVars>>
  OBVIOUS

LEMMA KindMoves ==
    ASSUME Next
    PROVE  \/ kind' = kind
           \/ /\ At("settled") /\ Go
              /\ kind' = IF "worker" \in told THEN "marker"
                         ELSE IF child["worker"] \in Alive THEN "timeout" ELSE "exit"
  OBVIOUS

LEMMA ProbeMoves ==
    ASSUME Next
    PROVE  \/ probe' = probe
           \/ probe' = "pinging" /\ (At("health") \/ At("healthDown"))
           \/ /\ probe = "pinging" /\ redis' = redis
              /\ probe' = IF redis = "up" /\ trouble # "slowPing" THEN "up" ELSE "down"
  OBVIOUS

LEMMA ToldMoves ==
    ASSUME Next
    PROVE  \/ told' = told
           \/ \E X \in SUBSET (Lines \ Processes) : told' = told \cup X /\ child' = child
           \/ \E p \in Processes :
                  /\ told' = told \cup {p}
                  /\ child[p] = "boot" /\ child' = [child EXCEPT ![p] = "up"]
                  /\ p = "worker" => test.env = "valid" \/ trouble = "anyEnv"
<1> DEFINE Heard(X) == told' = told \cup X /\ child' = child
<1>1. CASE ReadReport
  <2>1. Heard({"report"}) \/ Heard({"report", "existed"})
    BY <1>1
  <2>2. {"report"} \in SUBSET (Lines \ Processes)
    BY DEF Lines, Processes
  <2>3. {"report", "existed"} \in SUBSET (Lines \ Processes)
    BY DEF Lines, Processes
  <2> QED
    BY <2>1, <2>2, <2>3
<1>2. CASE Scan
  <2>1. told' = told \/ Heard({"printed"})
    BY <1>2
  <2>2. {"printed"} \in SUBSET (Lines \ Processes)
    BY DEF Lines, Processes
  <2> QED
    BY <2>1, <2>2
<1>3. CASE Logs
  <2>1. Heard({"apiLine"}) \/ Heard({"workerLine"})
    BY <1>3
  <2>2. {"apiLine"} \in SUBSET (Lines \ Processes)
    BY DEF Lines, Processes
  <2>3. {"workerLine"} \in SUBSET (Lines \ Processes)
    BY DEF Lines, Processes
  <2> QED
    BY <2>1, <2>2, <2>3
<1>4. CASE ~(ReadReport \/ Scan \/ Logs)
  BY <1>4 DEF Processes
<1> QED
  BY <1>1, <1>2, <1>3, <1>4

\* How a process comes from one state to another.
Turns(p, to) ==
    \/ /\ to = "boot" /\ Go
       /\ IF p = "api" THEN At("spawnApi") ELSE At("spawnWorker") \/ At("runWorker")
    \/ to = "up" /\ child[p] = "boot" /\ UNCHANGED testVars
    \/ /\ to = Signalled(p) /\ Go
       /\ IF p = "api" THEN At("termApi") ELSE At("termWorker") \/ At("settled")
    \/ /\ to = "failed" /\ UNCHANGED testVars
       /\ \/ child[p] \in {"boot", "up"} /\ trouble = "crashes"
          \/ child[p] = "boot" /\ p = "worker" /\ test.env = "invalid" /\ trouble # "anyEnv"
          \/ child[p] = "stopping" /\ trouble = "dirtyExit"
    \/ /\ to = "ended" /\ UNCHANGED testVars
       /\ child[p] = "stopping" /\ trouble \notin {"deaf", "dirtyExit"}
    \/ /\ to = (IF child[p] \in Alive THEN "killed" ELSE child[p]) /\ Go
       /\ IF p = "api" THEN At("killApi") ELSE At("killWorker")

LEMMA ChildMoves ==
    ASSUME Next
    PROVE  \/ child' = child
           \/ \E p \in Processes : \E to : child' = [child EXCEPT ![p] = to] /\ Turns(p, to)
  BY DEF Turns, Launch, Processes

LEMMA ScanMoves ==
    ASSUME Next
    PROVE  \/ UNCHANGED scanVars
           \/ /\ At("post") \/ (At("postMalformed") /\ trouble = "enqueues")
              /\ Go /\ Write("posted", "Queued") /\ Enqueue("posted")
              /\ UNCHANGED <<hand, stage, files>>
           \/ /\ \/ At("seed") /\ Write("seeded", "Queued")
                 \/ At("seedFinished") /\ Write("seeded", "Finished")
              /\ Go
              /\ UNCHANGED <<job, line, hand, stage, files>>
           \/ At("addJob") /\ Go /\ Enqueue("seeded") /\ UNCHANGED <<past, hand, stage, files>>
           \/ /\ UNCHANGED testVars
              /\ Take \/ MarkScanning \/ Scan \/ CloseRecord \/ Clean \/ Settle
  OBVIOUS

LEMMA NoCheck ==
    ASSUME Placed, StepTaken \/ WaitExpires \/ PhaseEnds \/ TestTimeout, Go,
           NEW s, At(s)
    PROVE  s \in Checks
  BY DEF Checks, At, Go, Placed

LEMMA Cleans ==
    ASSUME Placed, Next, Go
    PROVE  /\ At("removeRedis") => redis' = "gone" \/ trouble = "noRemove"
           /\ At("rmDir") => dir' # "made"
           /\ At("removeContainer") => box' = "none" \/ trouble = "noRemove"
           /\ At("closeQueue") => queueOpen' = FALSE
           /\ At("stopObserving") => observing' = FALSE
<1>1. CASE StepTaken \/ WaitExpires \/ PhaseEnds \/ TestTimeout
  BY <1>1, NoCheck, ChecksOnly DEF Cleanups
<1>2. CASE ~(StepTaken \/ WaitExpires \/ PhaseEnds \/ TestTimeout)
  BY <1>2 DEF At, Go, Placed
<1> QED
  BY <1>1, <1>2

LEMMA Kills ==
    ASSUME Placed, Next, Go
    PROVE  /\ At("killApi") => child' = [child EXCEPT !["api"] = IF @ \in Alive THEN "killed" ELSE @]
           /\ At("killWorker") =>
                 child' = [child EXCEPT !["worker"] = IF @ \in Alive THEN "killed" ELSE @]
           /\ At("settled") => child' = [child EXCEPT !["worker"] = Signalled("worker")]
<1>1. CASE StepTaken \/ WaitExpires \/ PhaseEnds \/ TestTimeout
  BY <1>1, NoCheck, ChecksOnly DEF Cleanups
<1>2. CASE ~(StepTaken \/ WaitExpires \/ PhaseEnds \/ TestTimeout)
  BY <1>2 DEF At, Go, Placed
<1> QED
  BY <1>1, <1>2

LEMMA Sets ==
    ASSUME Placed, Next, Go
    PROVE  /\ At("startRedis") => redis' = "up"
           /\ At("runContainer") =>
                 box' \in {"running", IF trouble = "overLimit" THEN "oomed" ELSE "done"}
           /\ At("spawnApi") => child' = [child EXCEPT !["api"] = "boot"]
           /\ At("spawnWorker") \/ At("runWorker") => child' = [child EXCEPT !["worker"] = "boot"]
           /\ At("settled") => kind' = IF "worker" \in told THEN "marker"
                                       ELSE IF child["worker"] \in Alive THEN "timeout" ELSE "exit"
<1>1. CASE StepTaken \/ WaitExpires \/ PhaseEnds \/ TestTimeout
  BY <1>1, NoCheck, ChecksOnly DEF Outside
<1>2. CASE ~(StepTaken \/ WaitExpires \/ PhaseEnds \/ TestTimeout)
  BY <1>2 DEF At, Go, Placed, Launch
<1> QED
  BY <1>1, <1>2

\* How a test comes to fail.
LEMMA Blames ==
    ASSUME Placed, Next, outcome # "failed", outcome' = "failed"
    PROVE  \/ why' = "timer" \/ trouble # "none"
           \/ \E s \in DOMAIN Asserted :
                  /\ At(s) /\ why' = s /\ kind' = kind /\ Fell
                  /\ s \in DOMAIN Awaited => Awaited[s]
                  /\ ~Asserted[s]
           \/ \E s \in {"post", "postMalformed", "health"} :
                  At(s) /\ why' = s /\ child["api"] # "up"
<1>1. CASE StepTaken
  <2>1. PICK s \in Checks :
             /\ At(s)
             /\ s \in DOMAIN Awaited => Awaited[s]
             /\ IF s \in DOMAIN Asserted => Asserted[s]
                THEN Go /\ UNCHANGED <<labVars, child, told, probe, scanVars>>
                ELSE Throw(s)
    BY <1>1 DEF Checks
  <2>2. ~(s \in DOMAIN Asserted => Asserted[s]) /\ Throw(s)
    BY <2>1 DEF Go
  <2>3. why' = s \/ outcome # "open"
    BY <2>2
  <2>4. outcome = "open"
    BY <2>2
  <2> QED
    BY <2>1, <2>2, <2>3, <2>4 DEF Fell
<1>2. CASE WaitExpires \/ TestTimeout \/ healthDown
  BY <1>2 DEF Go
<1>3. CASE post \/ postMalformed \/ getHealth
  BY <1>3 DEF Go
<1>4. CASE ~(StepTaken \/ WaitExpires \/ TestTimeout \/ healthDown \/ post \/ postMalformed \/ getHealth)
  BY <1>4 DEF Go
<1> QED
  BY <1>1, <1>2, <1>3, <1>4

LEMMA WhyStays ==
    ASSUME Placed, Next, outcome = "failed"
    PROVE  outcome' = "failed" /\ why' = why
<1>1. CASE StepTaken
  BY <1>1 DEF Go
<1>2. CASE ~StepTaken
  BY <1>2 DEF Go
<1> QED
  BY <1>1, <1>2

LEMMA Writes ==
    ASSUME Placed, Next, Go
    PROVE  /\ At("post") => Write("posted", "Queued")
           /\ At("postMalformed") /\ trouble = "enqueues" => Write("posted", "Queued")
           /\ At("seed") => Write("seeded", "Queued")
           /\ At("seedFinished") => Write("seeded", "Finished")
<1>1. CASE StepTaken \/ WaitExpires \/ PhaseEnds \/ TestTimeout
  BY <1>1, NoCheck, ChecksOnly DEF Posting, Seeding
<1>2. CASE ~(StepTaken \/ WaitExpires \/ PhaseEnds \/ TestTimeout)
  BY <1>2 DEF At, Go, Placed
<1> QED
  BY <1>1, <1>2

\* A check that is passed holds, and changes nothing but the place of the test.
LEMMA CheckHolds ==
    ASSUME Placed, Next, Go, NEW s \in Checks, At(s)
    PROVE  /\ s \in DOMAIN Awaited => Awaited[s]
           /\ s \in DOMAIN Asserted => Asserted[s]
           /\ UNCHANGED <<labVars, child, told, probe, scanVars>>
<1>1. CASE StepTaken
  <2>1. PICK c \in Checks :
             /\ At(c)
             /\ c \in DOMAIN Awaited => Awaited[c]
             /\ IF c \in DOMAIN Asserted => Asserted[c]
                THEN Go /\ UNCHANGED <<labVars, child, told, probe, scanVars>>
                ELSE Throw(c)
    BY <1>1 DEF Checks
  <2>2. c = s
    BY <2>1 DEF At
  <2>3. ~Throw(c)
    BY DEF Go, Placed
  <2> QED
    BY <2>1, <2>2, <2>3
<1>2. CASE ~StepTaken
  <2>1. ~(PhaseEnds \/ TestTimeout \/ WaitExpires \/ Subjects)
    BY DEF Go, Placed
  <2>2. \A x : At(x) => x = s
    BY DEF At
  <2> HIDE DEF PhaseEnds, TestTimeout, WaitExpires, StepTaken, Subjects
  <2> QED
    BY <1>2, <2>1, <2>2, ChecksOnly DEF Cleanups, Outside, Posting, Seeding
<1> QED
  BY <1>1, <1>2

HIDE DEF Next, Harness, PhaseEnds, TestTimeout, StepTaken, WaitExpires, Throw, Thrown, Lab, LabFails,
        isDockerAvailable, ensureBuilt, assertDockerAvailable, startDisposableRedis,
        startRedisStub, mkdtemp, spawnApi, spawnWorker, runWorker, runWorkerFinish, Term,
        post, postMalformed, seedQueued, seedFinished, openQueue, addJob,
        startStatusObserver, stopObserving, killRedis, getHealth, healthDown, healthExpires, scanAnswers,
        genFixture, buildImage, runContainer, kill, closeQueue, disconnect, Removed, remove,
        removeContainer, rmDir, restButChild, labVars, testVars, scanVars,
        Subjects, Boots, Crashes, Ends, Refuses, Becomes, Logs, ReadReport, Observe, redisUp, Take,
        MarkScanning, Scan, CloseRecord, Clean, Settle

-----------------------------------------------------------------------------
(* Types. *)

TestTyped ==
    /\ outcome \in {"open", "passed", "failed", "skipped"}
    /\ why \in {"none", "timer", "lab"} \cup Steps(test)
    /\ trouble \in Troubles

LabTyped ==
    /\ redis \in {"none", "up", "gone"}
    /\ dir \in {"none", "made", "gone", "kept"}
    /\ box \in {"none", "running", "done", "oomed"}
    /\ queueOpen \in BOOLEAN /\ observing \in BOOLEAN
    /\ kind \in {"none", "marker", "exit", "timeout"}
    /\ child \in [Processes -> Alive \cup {"none", "ended", "failed", "killed"}]
    /\ told \subseteq Lines
    /\ probe \in {"none", "pinging", "up", "down"}

ScanTyped ==
    /\ past \in [Scans -> Seq(Statuses)]
    /\ job \in [Scans -> {"none", "waiting", "active", "completed", "failed"}]
    /\ line \in Seq(Scans)
    /\ hand \in Scans \cup {"none"}
    /\ stage \in {"idle", "taken", "scanning", "scanned"} \cup TerminalStatus
    /\ stage = "idle" <=> hand = "none"
    /\ files \subseteq Scans

\* The observer never notes a status twice in a row.
SeenTyped ==
    /\ seen \in Seq(Statuses)
    /\ \A k \in DOMAIN seen : k > 1 => seen[k] # seen[k - 1]

Typed == Placed /\ TestTyped /\ LabTyped /\ ScanTyped /\ SeenTyped

LEMMA PlacedStep == ASSUME Placed, Next PROVE Placed'
<1>1. /\ Len(test.setup) \in Nat
      /\ Len(test.body) \in Nat
      /\ Len(test.teardown) \in Nat
  BY Scripts
<1>2. test' = test
  BY Moves
<1>3. CASE phase' \in {"setup", "body", "finally", "over"} /\ at' = 1
  BY <1>1, <1>2, <1>3 DEF Placed, Plan
<1>4. CASE UNCHANGED <<phase, at>>
  BY <1>2, <1>4 DEF Placed, Plan
<1>5. ASSUME NEW s, At(s), Go
      PROVE  Placed'
  BY <1>2, <1>5, Scripts DEF Placed, Plan, At, Go
<1> QED
  BY <1>3, <1>4, <1>5, Moves DEF Expires, PhaseEnds, Skips, Fell, Placed

LEMMA TestStep == ASSUME Placed, TestTyped, Next PROVE TestTyped'
<1> DEFINE Whys == {"none", "timer", "lab"} \cup Steps(test)
<1>1. test' = test /\ trouble' = trouble
  BY Moves
<1>2. ASSUME NEW s, At(s) PROVE s \in Steps(test)
  BY <1>2, Where DEF Does
<1>3. outcome' \in {"open", "passed", "failed", "skipped"}
  BY Moves DEF TestTyped, Expires, PhaseEnds, Skips, Fell, Go
<1>4. why' \in Whys
  <2> USE DEF TestTyped, testVars
  <2>1. CASE StepTaken \/ WaitExpires
    BY <1>2, <2>1 DEF StepTaken, WaitExpires, Go, Throw, Thrown
  <2>2. CASE PhaseEnds \/ TestTimeout
    BY <2>2 DEF PhaseEnds, TestTimeout
  <2>3. CASE \/ isDockerAvailable \/ ensureBuilt \/ assertDockerAvailable
             \/ startDisposableRedis \/ startRedisStub \/ mkdtemp
    BY <2>3 DEF isDockerAvailable, ensureBuilt, assertDockerAvailable, startDisposableRedis,
                startRedisStub, mkdtemp, Lab, LabFails, Go, Throw, Thrown
  <2>4. CASE \/ spawnApi \/ spawnWorker \/ runWorker \/ runWorkerFinish
             \/ Term("termWorker", "worker") \/ Term("termApi", "api")
             \/ seedQueued \/ seedFinished \/ openQueue \/ addJob
             \/ startStatusObserver \/ stopObserving \/ killRedis
    BY <2>4 DEF spawnApi, spawnWorker, runWorker, runWorkerFinish, Term, seedQueued, seedFinished,
                openQueue, addJob, startStatusObserver, stopObserving, killRedis, Go
  <2>5. CASE post \/ postMalformed \/ getHealth \/ healthDown
    BY <1>2, <2>5 DEF post, postMalformed, getHealth, healthDown, healthExpires, Go, Throw, Thrown
  <2>6. CASE scanAnswers \/ genFixture \/ buildImage \/ runContainer
    BY <2>6 DEF scanAnswers, genFixture, buildImage, runContainer, Lab, LabFails, Go, Throw, Thrown
  <2>7. CASE kill \/ closeQueue \/ disconnect \/ remove \/ removeContainer \/ rmDir
    BY <2>7 DEF kill, closeQueue, disconnect, remove, removeContainer, rmDir, Go
  <2>8. CASE Subjects
    BY <2>8 DEF Subjects, Boots, Crashes, Ends, Refuses, Becomes, Logs, ReadReport, Observe, redisUp,
                Take, MarkScanning, Scan, CloseRecord, Clean, Settle
  <2> QED
    BY <2>1, <2>2, <2>3, <2>4, <2>5, <2>6, <2>7, <2>8 DEF Next, Harness
<1> QED
  BY <1>1, <1>3, <1>4 DEF TestTyped

LEMMA LabStep == ASSUME LabTyped, Next PROVE LabTyped'
<1>1. redis' \in {"none", "up", "gone"}
  BY RedisMoves DEF LabTyped
<1>2. dir' \in {"none", "made", "gone", "kept"}
  BY DirMoves DEF LabTyped
<1>3. box' \in {"none", "running", "done", "oomed"}
  BY BoxMoves DEF LabTyped
<1>4. queueOpen' \in BOOLEAN /\ observing' \in BOOLEAN
  BY QueueMoves, ObserveMoves DEF LabTyped
<1>5. kind' \in {"none", "marker", "exit", "timeout"}
  BY KindMoves DEF LabTyped
<1>6. told' \subseteq Lines
  <2>1. Processes \subseteq Lines
    BY DEF Lines
  <2> QED
    BY <2>1, ToldMoves DEF LabTyped
<1>7. probe' \in {"none", "pinging", "up", "down"}
  BY ProbeMoves DEF LabTyped
<1>8. child' \in [Processes -> Alive \cup {"none", "ended", "failed", "killed"}]
  <2>1. ASSUME NEW p \in Processes, NEW to, Turns(p, to)
        PROVE  to \in Alive \cup {"none", "ended", "failed", "killed"}
    BY <2>1 DEF Turns, Signalled, LabTyped, Alive
  <2> QED
    BY <2>1, ChildMoves DEF LabTyped
<1> QED
  BY <1>1, <1>2, <1>3, <1>4, <1>5, <1>6, <1>7, <1>8 DEF LabTyped

LEMMA SeenStep == ASSUME LabTyped, ScanTyped, SeenTyped, Next PROVE SeenTyped'
<1>1. CASE UNCHANGED seen
  BY <1>1 DEF SeenTyped
<1>2. CASE /\ Status(Subject) # "none" /\ LastSeen # Status(Subject)
           /\ seen' = Append(seen, Status(Subject))
  <2>1. Subject \in Scans
    BY DEF Subject, Scans
  <2>2. Status(Subject) \in Statuses
    BY <1>2, <2>1 DEF Status, ScanTyped
  <2>3. seen # <<>> => LastSeen = seen[Len(seen)]
    BY DEF LastSeen, Last
  <2> QED
    BY <1>2, <2>2, <2>3 DEF SeenTyped
<1> QED
  BY <1>1, <1>2, SeenMoves

LEMMA ScanStep == ASSUME ScanTyped, Next PROVE ScanTyped'
<1> USE DEF ScanTyped
<1>1. CASE UNCHANGED scanVars
  BY <1>1 DEF scanVars
<1>2. ASSUME NEW i \in Scans, NEW s \in Statuses, Write(i, s)
      PROVE  past' \in [Scans -> Seq(Statuses)]
  <2>1. Append(past[i], s) \in Seq(Statuses)
    OBVIOUS
  <2> QED
    BY <1>2, <2>1 DEF Write
<1>3. ASSUME NEW i \in Scans, Enqueue(i)
      PROVE  /\ job' \in [Scans -> {"none", "waiting", "active", "completed", "failed"}]
             /\ line' \in Seq(Scans)
  BY <1>3 DEF Enqueue
<1>4. ASSUME Write("posted", "Queued"), Enqueue("posted"), UNCHANGED <<hand, stage, files>>
      PROVE  ScanTyped'
  BY <1>2, <1>3, <1>4 DEF Scans, Statuses
<1>5. ASSUME Write("seeded", "Queued") \/ Write("seeded", "Finished"),
             UNCHANGED <<job, line, hand, stage, files>>
      PROVE  ScanTyped'
  BY <1>2, <1>5 DEF Scans, Statuses
<1>6. ASSUME Enqueue("seeded"), UNCHANGED <<past, hand, stage, files>>
      PROVE  ScanTyped'
  BY <1>3, <1>6 DEF Scans
<1>7. CASE Take
  <2>1. Head(line) \in Scans /\ Tail(line) \in Seq(Scans) /\ "none" \notin Scans
    BY <1>7 DEF Take, Scans
  <2>2. /\ job' \in [Scans -> {"none", "waiting", "active", "completed", "failed"}]
        /\ past' = past /\ files' = files
    BY <1>7, <2>1 DEF Take
  <2> QED
    BY <1>7, <2>1, <2>2 DEF Take
<1>8. CASE MarkScanning
  <2>1. hand \in Scans
    BY <1>8 DEF MarkScanning
  <2>2. past' \in [Scans -> Seq(Statuses)]
    BY <1>2, <1>8, <2>1 DEF MarkScanning, Statuses
  <2> QED
    BY <1>8, <2>1, <2>2 DEF MarkScanning
<1>9. CASE Scan
  BY <1>9 DEF Scan
<1>10. CASE CloseRecord
  <2>1. hand \in Scans
    BY <1>10 DEF CloseRecord
  <2>2. EndsIn \subseteq TerminalStatus /\ TerminalStatus \subseteq Statuses
    BY DEF EndsIn, TerminalStatus, Statuses
  <2>3. past' \in [Scans -> Seq(Statuses)]
    BY <1>2, <1>10, <2>1, <2>2 DEF CloseRecord
  <2>4. stage' \in TerminalStatus
    BY <1>10, <2>2 DEF CloseRecord
  <2> QED
    BY <1>10, <2>1, <2>3, <2>4 DEF CloseRecord, TerminalStatus
<1>11. CASE Clean
  BY <1>11 DEF Clean
<1>12. CASE Settle
  BY <1>12 DEF Settle
<1> QED
  BY <1>1, <1>4, <1>5, <1>6, <1>7, <1>8, <1>9, <1>10, <1>11, <1>12, ScanMoves

LEMMA InitTyped == Init => Typed
<1> SUFFICES ASSUME Init PROVE Typed
  OBVIOUS
<1>1. Placed
  <2>1. Unwinds(test)
    BY HarnessAssumption DEF Init
  <2>2. Len(Plan) \in Nat
    BY <2>1 DEF Init, Unwinds, Plan
  <2> QED
    BY <2>2 DEF Init, Placed
<1>2. TestTyped /\ SeenTyped
  BY DEF Init, TestTyped, SeenTyped
<1>3. LabTyped
  BY DEF Init, LabTyped, Processes
<1>4. ScanTyped
  BY DEF Init, ScanTyped, Scans
<1> QED
  BY <1>1, <1>2, <1>3, <1>4 DEF Typed

LEMMA StepTyped == Typed /\ [Next]_vars => Typed'
<1>1. CASE UNCHANGED vars
  BY <1>1 DEF vars, testVars, labVars, scanVars, Typed, Placed, TestTyped, LabTyped, ScanTyped,
              SeenTyped, Plan
<1>2. CASE Next
  BY <1>2, PlacedStep, TestStep, LabStep, ScanStep, SeenStep DEF Typed
<1> QED
  BY <1>1, <1>2

LEMMA TypedAlways == Spec => []Typed
  BY InitTyped, StepTyped, PTL DEF Spec

\* Every variable keeps to its values, and the observer never notes a status
\* twice in a row, whichever test runs.
THEOREM HarnessTypeCorrect == Spec => []TypeOK
<1>1. Typed => TypeOK
  BY DEF Typed, Placed, TestTyped, LabTyped, ScanTyped, SeenTyped, TypeOK
<1> QED
  BY <1>1, TypedAlways, PTL

-----------------------------------------------------------------------------
(* What a test has set up and not yet taken down. *)

\* The setup is past s; the finally is not past c.
Did(s) == \E j \in 1..(at - 1) : test.setup[j] = s

Pending(c) == \A j \in 1..(at - 1) : test.teardown[j] # c

\* What s sets up is there, and will be taken down.
Owned(s) ==
    /\ Does(test, s)
    /\ phase = "setup" => Did(s)
    /\ phase = "finally" => Pending(CleanupOf[s])

LabHeld ==
    /\ redis = "up" =>
           \/ Owned("startRedis") /\ (phase = "over" => trouble = "noTmp")
           \/ trouble = "noRedis" /\ phase = "over"
           \/ trouble = "noRemove"
    /\ dir = "made" => Owned("mkdtemp") /\ phase # "over"
    /\ dir = "kept" =>
           /\ phase \in {"finally", "over"}
           /\ (files # {} /\ redis # "up") \/ trouble = "noRemove"
    /\ box # "none" => (Owned("runContainer") /\ phase # "over") \/ trouble = "noRemove"
    /\ queueOpen => Owned("openQueue") /\ phase # "over"

\* The observer is stopped before the body ends.
ObserverHeld ==
    observing => phase = "body" /\ \E j \in DOMAIN test.body : at <= j /\ test.body[j] = "stopObserving"

\* A child that runWorker has started is signalled by the next step.
ChildrenHeld ==
    /\ child["api"] \in Alive => Owned("spawnApi") /\ phase # "over"
    /\ child["worker"] \in Alive /\ ~Does(test, "runWorker") =>
           Owned("spawnWorker") /\ phase # "over"
    /\ child["worker"] \in {"boot", "up"} /\ Does(test, "runWorker") => InBody("settled")

Holding == LabHeld /\ ObserverHeld /\ ChildrenHeld

\* Only its own cleanup ends what is owned, and the end of the test does not
\* come before, but for a mkdtemp that fails behind Redis.
LEMMA OwnedKept ==
    ASSUME Placed, Next, NEW s \in DOMAIN CleanupOf, Owned(s), phase # "over",
           ~(At(CleanupOf[s]) /\ Go)
    PROVE  /\ Owned(s)'
           /\ phase' = "over" => s = "startRedis" /\ trouble = "noTmp"
<1> DEFINE c == CleanupOf[s]
<1>1. test' = test
  BY Moves
<1>2. /\ c \in Range(test.teardown)
      /\ \A i, j \in DOMAIN test.setup :
             i < j /\ test.setup[i] = s =>
                 test.setup[j] = "spawnApi" \/ (s = "startRedis" /\ test.setup[j] = "mkdtemp")
  BY Scripts DEF Unwinds, Owned
<1>3. /\ DOMAIN test.setup = 1..Len(test.setup) /\ Len(test.setup) \in Nat
      /\ DOMAIN test.teardown = 1..Len(test.teardown) /\ Len(test.teardown) \in Nat
  BY Scripts
<1> HIDE DEF c
<1>4. ASSUME NEW x, At(x), phase = "setup"
      PROVE  x = "spawnApi" \/ (s = "startRedis" /\ x = "mkdtemp")
  <2>1. InSetup(x)
    BY <1>4, Where DEF InBody, InFinally
  <2>2. PICK j \in 1..(at - 1) : test.setup[j] = s
    BY <1>4 DEF Owned, Did
  <2> QED
    BY <1>2, <1>3, <2>1, <2>2 DEF InSetup, Placed
<1>5. CASE UNCHANGED <<phase, at>>
  BY <1>1, <1>5 DEF Owned, Did, Pending
<1>6. CASE PhaseEnds
  <2>1. phase = "finally" => FALSE
    <3> SUFFICES ASSUME phase = "finally" PROVE FALSE
      OBVIOUS
    <3>1. at = Len(test.teardown) + 1
      BY <1>6 DEF PhaseEnds, Plan
    <3>2. \A j \in DOMAIN test.teardown : test.teardown[j] # c
      BY <1>3, <3>1 DEF Owned, Pending, c
    <3> QED
      BY <1>2, <3>2 DEF Range
  <2>2. phase' \in {"body", "finally"} /\ at' = 1
    BY <1>6, <2>1 DEF PhaseEnds, Placed
  <2> QED
    BY <1>1, <2>2 DEF Owned, Pending
<1>7. CASE Skips
  <2>1. phase = "setup"
    BY <1>7, Where DEF Skips, InSetup, InBody, InFinally, Outside, Cleanups
  <2> QED
    BY <1>4, <1>7, <2>1 DEF Skips
<1>8. ASSUME NEW x, At(x), Go
      PROVE  Owned(s)' /\ phase' # "over"
  <2>1. phase = "finally" => InFinally(x) /\ x # c
    BY <1>8, Where DEF InSetup, InBody, c
  <2>2. at' = at + 1 /\ phase' = phase /\ at \in Nat
    BY <1>8 DEF Go, Placed
  <2>3. phase = "setup" => Did(s)'
    BY <1>1, <2>2 DEF Owned, Did
  <2>4. phase = "finally" => \A j \in 1..at : test.teardown[j] # c
    BY <2>1, <2>2 DEF Owned, Pending, InFinally, c
  <2> QED
    BY <1>1, <2>2, <2>3, <2>4 DEF Owned, Pending, c
<1>9. ASSUME NEW x, At(x), Fell, x \notin Safe, x = "mkdtemp" => trouble = "noTmp"
      PROVE  Owned(s)' /\ (phase' = "over" => s = "startRedis" /\ trouble = "noTmp")
  <2>1. phase # "finally"
    BY <1>9, Where DEF InSetup, InBody, Safe
  <2>2. phase = "setup" => s = "startRedis" /\ trouble = "noTmp"
    BY <1>4, <1>9 DEF Safe
  <2> QED
    BY <1>1, <1>9, <2>1, <2>2 DEF Fell, Owned, Pending
<1> QED
  BY <1>5, <1>6, <1>7, <1>8, <1>9, Moves DEF Expires

\* A step that sets something up owns it.
LEMMA OwnedTaken ==
    ASSUME Placed, Next, NEW s \in DOMAIN CleanupOf, At(s), Go
    PROVE  Owned(s)' /\ phase' = phase /\ phase \in {"setup", "body"}
<1>1. test' = test /\ at' = at + 1 /\ phase' = phase /\ at \in Nat \ {0}
  BY Moves DEF Go, Placed
<1>2. s \notin Cleanups
  BY DEF CleanupOf, Cleanups
<1>3. InSetup(s) \/ InBody(s)
  BY <1>2, Where
<1> QED
  BY <1>1, <1>3, Where DEF Owned, Did, InSetup, InBody

LEMMA CleanupNames ==
    /\ CleanupOf["startRedis"] = "removeRedis" /\ CleanupOf["mkdtemp"] = "rmDir"
    /\ CleanupOf["openQueue"] = "closeQueue" /\ CleanupOf["runContainer"] = "removeContainer"
    /\ CleanupOf["spawnApi"] = "killApi" /\ CleanupOf["spawnWorker"] = "killWorker"
    /\ DOMAIN CleanupOf = {"startRedis", "mkdtemp", "openQueue", "spawnApi", "spawnWorker",
                           "runContainer"}
  BY DEF CleanupOf

LEMMA LabHeldStep ==
    ASSUME Typed, LabHeld, Next
    PROVE  LabHeld'
<1> USE DEF Typed
<1>0. trouble' = trouble
  BY Moves
<1>1. redis' = "up" => \/ Owned("startRedis")' /\ (phase' = "over" => trouble' = "noTmp")
                       \/ trouble' = "noRedis" /\ phase' = "over"
                       \/ trouble' = "noRemove"
  <2> SUFFICES ASSUME redis' = "up", trouble # "noRemove"
               PROVE  \/ Owned("startRedis")' /\ (phase' = "over" => trouble = "noTmp")
                      \/ trouble = "noRedis" /\ phase' = "over"
    BY <1>0
  <2>1. CASE phase = "over" /\ redis = "up"
    <3>1. UNCHANGED <<phase, at, test>>
      BY <2>1, Moves DEF Expires, PhaseEnds, Skips, At
    <3> QED
      BY <2>1, <3>1 DEF LabHeld, Owned, Did, Pending
  <2>2. CASE At("startRedis") /\ Go
    BY <2>2, OwnedTaken, CleanupNames
  <2>3. CASE At("startRedis") /\ trouble = "noRedis" /\ Fell
    <3>1. phase = "setup"
      BY <2>3, Where DEF InSetup, InBody, InFinally, Outside, Cleanups
    <3> QED
      BY <2>3, <3>1 DEF Fell
  <2>4. CASE redis = "up" /\ phase # "over" /\ ~(At("startRedis") /\ Go)
    <3>1. ~(At("removeRedis") /\ Go)
      BY Cleans
    <3>2. Owned("startRedis")
      BY <2>4 DEF LabHeld
    <3> QED
      BY <2>4, <3>1, <3>2, OwnedKept, CleanupNames
  <2> QED
    BY <2>1, <2>2, <2>3, <2>4, RedisMoves
<1>2. dir' = "made" => Owned("mkdtemp")' /\ phase' # "over"
  <2> SUFFICES ASSUME dir' = "made"
               PROVE  Owned("mkdtemp")' /\ phase' # "over"
    OBVIOUS
  <2>1. CASE At("mkdtemp") /\ Go
    BY <2>1, OwnedTaken, CleanupNames
  <2>2. CASE dir = "made"
    BY <2>2, Cleans, OwnedKept, CleanupNames DEF LabHeld
  <2> QED
    BY <2>1, <2>2, DirMoves
<1>3. dir' = "kept" => /\ phase' \in {"finally", "over"}
                       /\ (files' # {} /\ redis' # "up") \/ trouble' = "noRemove"
  <2> SUFFICES ASSUME dir' = "kept"
               PROVE  /\ phase' \in {"finally", "over"}
                      /\ (files' # {} /\ redis' # "up") \/ trouble = "noRemove"
    BY <1>0
  <2>1. CASE /\ At("rmDir") /\ Go /\ (files # {} \/ trouble = "noRemove")
             /\ redis' = redis /\ files' = files
    <3>1. InFinally("rmDir") /\ phase' = phase
      BY <2>1, Where DEF Go, Outside, Cleanups
    <3>2. redis # "up" \/ trouble = "noRemove"
      <4> SUFFICES ASSUME redis = "up", trouble # "noRemove" PROVE FALSE
        OBVIOUS
      <4>1. Does(test, "startRedis") /\ Pending("removeRedis")
        BY <3>1, CleanupNames DEF LabHeld, Owned, InFinally
      <4> QED
        BY <3>1, <4>1, Scripts DEF Unwinds, Pending, InFinally
    <3> QED
      BY <2>1, <3>1, <3>2 DEF InFinally
  <2>2. CASE dir = "kept"
    <3>1. /\ phase \in {"finally", "over"}
          /\ (files # {} /\ redis # "up") \/ trouble = "noRemove"
      BY <2>2 DEF LabHeld
    <3>2. ASSUME NEW s, At(s)
          PROVE  s \in Cleanups
      BY <3>1, <3>2, Where DEF InSetup, InBody
    <3>3. phase' \in {"finally", "over"}
      BY <3>1, Moves DEF Expires, PhaseEnds, Skips, Fell, Go
    <3>4. CASE files # {} /\ redis # "up"
      <4>1. redis' # "up"
        BY <3>2, <3>4, RedisMoves DEF Cleanups
      <4>2. files' # files => FALSE
        BY <3>1, <3>4, ScanMoves
           DEF scanVars, Take, MarkScanning, Scan, CloseRecord, Clean, Settle, working
      <4> QED
        BY <3>3, <3>4, <4>1, <4>2
    <3> QED
      BY <3>1, <3>3, <3>4
  <2> QED
    BY <2>1, <2>2, DirMoves
<1>4. box' # "none" => (Owned("runContainer")' /\ phase' # "over") \/ trouble' = "noRemove"
  <2> SUFFICES ASSUME box' # "none", trouble # "noRemove"
               PROVE  Owned("runContainer")' /\ phase' # "over"
    BY <1>0
  <2>1. CASE At("runContainer") /\ Go
    BY <2>1, OwnedTaken, CleanupNames
  <2>2. CASE box # "none"
    BY <2>2, Cleans, OwnedKept, CleanupNames DEF LabHeld
  <2> QED
    BY <2>1, <2>2, BoxMoves
<1>5. queueOpen' => Owned("openQueue")' /\ phase' # "over"
  <2> SUFFICES ASSUME queueOpen'
               PROVE  Owned("openQueue")' /\ phase' # "over"
    OBVIOUS
  <2>1. CASE At("openQueue") /\ Go
    BY <2>1, OwnedTaken, CleanupNames
  <2>2. CASE queueOpen
    BY <2>2, Cleans, OwnedKept, CleanupNames DEF LabHeld
  <2> QED
    BY <2>1, <2>2, QueueMoves
<1> QED
  BY <1>1, <1>2, <1>3, <1>4, <1>5 DEF LabHeld

LEMMA ObserverHeldStep ==
    ASSUME Typed, ObserverHeld, Next
    PROVE  ObserverHeld'
<1> SUFFICES ASSUME observing'
             PROVE  phase' = "body"
                    /\ \E j \in DOMAIN test'.body : at' <= j /\ test'.body[j] = "stopObserving"
  BY DEF ObserverHeld
<1> USE DEF Typed
<1>1. test' = test
  BY Moves
<1>2. DOMAIN test.body = 1..Len(test.body) /\ Len(test.body) \in Nat /\ at \in Nat
  BY Scripts DEF Placed
<1>3. CASE At("observe") /\ Go
  <2>1. InBody("observe")
    BY <1>3, Where DEF Outside, Cleanups
  <2>2. PICK j \in DOMAIN test.body : at < j /\ test.body[j] = "stopObserving"
    BY <2>1, Scripts DEF Unwinds, InBody
  <2> QED
    BY <1>1, <1>2, <1>3, <2>1, <2>2 DEF Go, InBody
<1>4. CASE observing
  <2>1. PICK j \in DOMAIN test.body : at <= j /\ test.body[j] = "stopObserving"
    BY <1>4 DEF ObserverHeld
  <2>2. phase = "body"
    BY <1>4 DEF ObserverHeld
  <2>3. CASE UNCHANGED <<phase, at>>
    BY <1>1, <2>1, <2>2, <2>3
  <2>4. ASSUME NEW s, At(s), Go
        PROVE  phase' = "body" /\ at' = at + 1 /\ at + 1 <= j
    <3>1. s # "stopObserving"
      BY <2>4, Cleans
    <3>2. test.body[at] = s
      BY <2>2, <2>4 DEF At, Plan
    <3> QED
      BY <1>2, <2>1, <2>2, <2>4, <3>1, <3>2 DEF Go
  <2>5. ~PhaseEnds
    BY <1>2, <2>1, <2>2 DEF PhaseEnds, Plan
  <2>6. ~Skips
    BY <2>2, Where DEF Skips, InSetup, InBody, InFinally, Outside, Cleanups
  <2>7. ~Fell
    BY DEF Fell
  <2> QED
    BY <1>1, <2>1, <2>3, <2>4, <2>5, <2>6, <2>7, Moves DEF Expires
<1> QED
  BY <1>3, <1>4, ObserveMoves

\* A process is alive because it was, or because the test has just started it.
LEMMA AliveStays ==
    ASSUME Typed, Next, NEW p \in Processes, child'[p] \in Alive
    PROVE  \/ child[p] \in Alive /\ (child'[p] \in {"boot", "up"} => child[p] \in {"boot", "up"})
           \/ /\ Go
              /\ IF p = "api" THEN At("spawnApi") ELSE At("spawnWorker") \/ At("runWorker")
<1>1. CASE child' = child
  BY <1>1
<1>2. ASSUME NEW q \in Processes, NEW to, child' = [child EXCEPT ![q] = to], Turns(q, to)
      PROVE  \/ child[p] \in Alive /\ (child'[p] \in {"boot", "up"} => child[p] \in {"boot", "up"})
             \/ /\ Go
                /\ IF p = "api" THEN At("spawnApi") ELSE At("spawnWorker") \/ At("runWorker")
  <2>1. q # p => child'[p] = child[p]
    BY <1>2
  <2>2. q = p => child'[p] = to
    BY <1>2 DEF Typed, LabTyped
  <2> QED
    BY <1>2, <2>1, <2>2 DEF Turns, Signalled, Alive
<1> QED
  BY <1>1, <1>2, ChildMoves

LEMMA ChildrenHeldStep ==
    ASSUME Typed, ChildrenHeld, Next
    PROVE  ChildrenHeld'
<1> USE DEF Typed
<1>1. test' = test /\ "api" \in Processes /\ "worker" \in Processes
  BY Moves DEF Processes
<1>2. child'["api"] \in Alive => Owned("spawnApi")' /\ phase' # "over"
  <2> SUFFICES ASSUME child'["api"] \in Alive
               PROVE  Owned("spawnApi")' /\ phase' # "over"
    OBVIOUS
  <2>1. CASE At("spawnApi") /\ Go
    BY <2>1, OwnedTaken, CleanupNames
  <2>2. CASE child["api"] \in Alive
    <3>1. At("killApi") /\ Go => child'["api"] = "killed"
      BY <1>1, <2>2, Kills DEF LabTyped
    <3>2. ~(At("killApi") /\ Go)
      BY <3>1 DEF Alive
    <3> QED
      BY <2>2, <3>2, OwnedKept, CleanupNames DEF ChildrenHeld
  <2> QED
    BY <1>1, <2>1, <2>2, AliveStays
<1>3. child'["worker"] \in Alive /\ ~Does(test', "runWorker")
      => Owned("spawnWorker")' /\ phase' # "over"
  <2> SUFFICES ASSUME child'["worker"] \in Alive, ~Does(test, "runWorker")
               PROVE  Owned("spawnWorker")' /\ phase' # "over"
    BY <1>1
  <2>1. CASE At("spawnWorker") /\ Go
    BY <2>1, OwnedTaken, CleanupNames
  <2>2. CASE child["worker"] \in Alive
    <3>1. At("killWorker") /\ Go => child'["worker"] = "killed"
      BY <1>1, <2>2, Kills DEF LabTyped
    <3>2. ~(At("killWorker") /\ Go)
      BY <3>1 DEF Alive
    <3> QED
      BY <2>2, <3>2, OwnedKept, CleanupNames DEF ChildrenHeld
  <2>3. ~At("runWorker")
    BY Where
  <2> QED
    BY <1>1, <2>1, <2>2, <2>3, AliveStays
<1>4. child'["worker"] \in {"boot", "up"} /\ Does(test', "runWorker") => InBody("settled")'
  <2> SUFFICES ASSUME child'["worker"] \in {"boot", "up"}, Does(test, "runWorker")
               PROVE  InBody("settled")'
    BY <1>1
  <2>1. CASE At("runWorker") /\ Go
    <3>1. InBody("runWorker")
      BY <2>1, Where DEF Outside, Cleanups
    <3>2. at + 1 \in DOMAIN test.body /\ test.body[at + 1] = "settled"
      BY <3>1, Scripts DEF Unwinds, InBody
    <3> QED
      BY <1>1, <2>1, <3>1, <3>2 DEF Go, InBody
  <2>2. CASE child["worker"] \in {"boot", "up"}
    <3>1. InBody("settled")
      BY <2>2 DEF ChildrenHeld
    <3>2. DOMAIN test.body = 1..Len(test.body) /\ Len(test.body) \in Nat /\ at \in Nat
      BY Scripts DEF Placed
    <3>3. ASSUME NEW s, At(s)
          PROVE  s = "settled"
      BY <3>1, <3>3 DEF At, Plan, InBody
    <3>4. ~PhaseEnds
      BY <3>1, <3>2 DEF PhaseEnds, Plan, InBody
    <3>5. ~Skips
      BY <3>3 DEF Skips
    <3>6. ASSUME NEW s, At(s), Go
          PROVE  FALSE
      <4>1. child'["worker"] = "stopping"
        BY <1>1, <2>2, <3>3, <3>6, Kills DEF Signalled, LabTyped
      <4> QED
        BY <4>1
    <3>7. \A s : At(s) => s \in Safe
      BY <3>3 DEF Safe
    <3>8. UNCHANGED <<phase, at>>
      BY <3>4, <3>5, <3>6, <3>7, Moves DEF Expires
    <3> QED
      BY <1>1, <3>1, <3>8 DEF InBody
  <2>3. ~At("spawnWorker")
    BY Where, Scripts DEF Unwinds
  <2>4. child'["worker"] \in Alive
    BY DEF Alive
  <2> QED
    BY <1>1, <2>1, <2>2, <2>3, <2>4, AliveStays
<1> QED
  BY <1>2, <1>3, <1>4 DEF ChildrenHeld

LEMMA InitHolding == Init => Holding
  BY DEF Init, Holding, LabHeld, ObserverHeld, ChildrenHeld, Processes, Alive

LEMMA StepHolding == Typed /\ Holding /\ [Next]_vars => Holding'
<1>1. CASE UNCHANGED vars
  <2>1. UNCHANGED <<test, trouble, phase, at, redis, dir, box, queueOpen, observing, child, files>>
    BY <1>1 DEF vars, testVars, labVars, scanVars
  <2> QED
    BY <2>1 DEF Holding, LabHeld, ObserverHeld, ChildrenHeld, Owned, Did, Pending, InBody
<1>2. CASE Next
  BY <1>2, LabHeldStep, ObserverHeldStep, ChildrenHeldStep DEF Holding
<1> QED
  BY <1>1, <1>2

\* Whatever goes wrong in it, a test leaves nothing behind but what NothingLeft
\* names: what is set up is taken down in the finally, whoever throws.
THEOREM NothingStays == Spec => []NothingLeft
<1>1. Typed /\ Holding => NothingLeft
  <2> SUFFICES ASSUME Typed, Holding, phase = "over"
               PROVE  NothingLeft
    BY DEF NothingLeft
  <2>1. child["worker"] \in Alive => Does(test, "runWorker") /\ child["worker"] = "stopping"
    BY DEF Holding, ChildrenHeld, InBody, Alive
  <2>2. child["api"] \notin Alive
    BY DEF Holding, ChildrenHeld
  <2>3. ~queueOpen /\ ~observing
    BY DEF Holding, LabHeld, ObserverHeld
  <2> QED
    BY <2>1, <2>2, <2>3 DEF NothingLeft, Holding, LabHeld
<1> QED
  BY <1>1, TypedAlways, InitHolding, StepHolding, PTL DEF Spec

-----------------------------------------------------------------------------
(* Which steps of its body a test has taken. *)

\* The body is past one of S.
Been(S) ==
    \/ phase \in {"finally", "over"}
    \/ phase = "body" /\ \E j \in 1..(at - 1) : test.body[j] \in S

\* The step s of the body has been taken, whatever threw later.
Done(s) ==
    \/ phase = "body" /\ \E j \in 1..(at - 1) : test.body[j] = s
    \/ outcome = "passed" /\ s \in Range(test.body)

PassedLate == outcome = "passed" => phase \in {"finally", "over"}

LEMMA BeenKept == ASSUME Placed, Next, NEW S, Been(S) PROVE Been(S)'
<1>1. test' = test /\ at \in Nat
  BY Moves DEF Placed
<1>2. ASSUME NEW s, At(s), Fell
      PROVE  phase' \in {"finally", "over"}
  BY <1>2 DEF Fell
<1> QED
  BY <1>1, <1>2, Moves DEF Been, Expires, PhaseEnds, Skips, Go

LEMMA BeenStep ==
    ASSUME Placed, Next, NEW S
    PROVE  Been(S)' => \/ Been(S)
                       \/ phase' \in {"finally", "over"}
                       \/ \E s \in S : InBody(s) /\ Go
<1> SUFFICES ASSUME Been(S)', ~Been(S), phase' \notin {"finally", "over"}
             PROVE  \E s \in S : InBody(s) /\ Go
  OBVIOUS
<1>1. test' = test /\ at \in Nat \ {0}
  BY Moves DEF Placed
<1>2. PICK j \in 1..(at' - 1) : test.body[j] \in S
  BY <1>1 DEF Been
<1>3. phase' = "body" /\ at' # 1
  BY <1>1, <1>2 DEF Been
<1>4. ~(phase = "body" /\ at' = at)
  BY <1>2 DEF Been
<1>5. PICK s : At(s) /\ Go
  BY <1>3, <1>4, Moves DEF Been, Expires, PhaseEnds, Skips, Fell
<1>6. phase = "body" /\ at' = at + 1
  BY <1>3, <1>5 DEF Go
<1>7. j = at
  BY <1>1, <1>2, <1>6 DEF Been
<1>8. InBody(s) /\ s \in S
  BY <1>2, <1>5, <1>6, <1>7, Where DEF InBody, InSetup, InFinally
<1> QED
  BY <1>5, <1>8

\* A step that is taken once at most has not been taken before.
LEMMA FirstTime ==
    ASSUME Placed, NEW S, AtMostOne(test, S), NEW s \in S, InBody(s)
    PROVE  ~Been(S)
<1>1. DOMAIN test.body = 1..Len(test.body) /\ Len(test.body) \in Nat /\ at \in Nat
  BY Scripts DEF Placed
<1> QED
  BY <1>1 DEF AtMostOne, InBody, Been

LEMMA AfterOne ==
    ASSUME Placed, NEW S, NEW s, OnlyAfter(test, s, S), InBody(s)
    PROVE  Been(S)
  BY DEF OnlyAfter, InBody, Been

LEMMA DoneStep ==
    ASSUME Placed, PassedLate, Next, NEW s
    PROVE  Done(s)' => Done(s) \/ (InBody(s) /\ Go)
<1> SUFFICES ASSUME Done(s)', ~Done(s)
             PROVE  InBody(s) /\ Go
  OBVIOUS
<1>1. test' = test /\ at \in Nat \ {0}
  BY Moves DEF Placed
<1>2. DOMAIN test.body = 1..Len(test.body) /\ Len(test.body) \in Nat
  BY Scripts
<1>3. CASE phase' = "body" /\ \E j \in 1..(at' - 1) : test'.body[j] = s
  <2>1. Been({s})' /\ ~Been({s})
    BY <1>3, Moves DEF Been, Done, Expires, PhaseEnds, Skips, Fell, Go
  <2> QED
    BY <1>3, <2>1, BeenStep
<1>4. CASE outcome' = "passed" /\ s \in Range(test'.body)
  <2>1. outcome # "passed"
    BY <1>1, <1>4 DEF Done
  <2>2. PhaseEnds /\ phase = "body"
    BY <1>4, <2>1, Moves DEF Expires, PhaseEnds, Skips, Fell, Go
  <2>3. PICK j \in DOMAIN test.body : test.body[j] = s
    BY <1>1, <1>4 DEF Range
  <2>4. at = Len(test.body) + 1
    BY <2>2 DEF PhaseEnds, Plan
  <2> QED
    BY <1>2, <2>2, <2>3, <2>4 DEF Done
<1> QED
  BY <1>3, <1>4 DEF Done

LEMMA PassedLateStep == ASSUME Placed, PassedLate, Next PROVE PassedLate'
  BY Moves DEF PassedLate, Placed, Expires, PhaseEnds, Skips, Fell, Go

\* What is no step of a setup or a finally is one of the body.
LEMMA BodyOnly ==
    ASSUME Placed, NEW s, s \notin Outside \cup Cleanups, Does(test, s)
    PROVE  s \in Range(test.body)
  BY Scripts DEF Does, Steps, Range

-----------------------------------------------------------------------------
(* The course of a record. *)

\* What a record starts with.  Nothing is written to one that is finished,
\* unless that is the trouble.
Base(i) == IF i = "seeded" /\ Does(test, "seedFinished") THEN "Finished" ELSE "Queued"

Frozen(i) == Base(i) = "Finished" /\ trouble # "overwrites"

Marked(i) == IF trouble = "skipsScanning" \/ Frozen(i) THEN <<Base(i)>> ELSE <<Base(i), "Scanning">>

Closed(i, end) == IF Frozen(i) THEN <<"Finished">> ELSE Append(Marked(i), end)

EndsOf(i) ==
    IF test.fault # "none" \/ trouble = "scanFails" THEN {"Failed"}
    ELSE IF i = "posted" THEN TerminalStatus ELSE {"Finished"}

\* What a record has been through, by the state of its job.
Course(i) ==
    /\ hand = i <=> job[i] = "active"
    /\ job[i] = "none" => past[i] \in {<<>>, <<Base(i)>>}
    /\ job[i] = "waiting" => past[i] = <<Base(i)>>
    /\ job[i] = "active" =>
           /\ stage = "taken" => past[i] = <<Base(i)>>
           /\ stage \in {"scanning", "scanned"} => past[i] = Marked(i)
           /\ stage \in TerminalStatus => stage \in EndsOf(i) /\ past[i] = Closed(i, stage)
    /\ job[i] \in {"completed", "failed"} =>
           \E end \in EndsOf(i) :
               /\ past[i] = Closed(i, end)
               /\ job[i] = "failed" <=> ((end = "Failed") # (trouble = "settlesWrong"))

Courses == \A i \in Scans : Course(i)

\* The queue holds a waiting job once.
Lined ==
    /\ \A a, b \in DOMAIN line : line[a] = line[b] => a = b
    /\ \A i \in Scans : job[i] = "waiting" <=> \E a \in DOMAIN line : line[a] = i

\* What has been written, and by which step of the test.
Written ==
    /\ past["posted"] # <<>> => Been(Posting) /\ Steps(test) \cap Posting # {}
    /\ past["seeded"] # <<>> => Been(Seeding) /\ Steps(test) \cap Seeding # {}
    /\ job["posted"] = "none" => past["posted"] = <<>>
    /\ job["seeded"] # "none" => Been({"addJob"}) /\ Does(test, "addJob")
    /\ phase = "body" =>
           /\ Been(Seeding) => past["seeded"] # <<>>
           /\ Been({"post"}) => past["posted"] # <<>>
           /\ Been({"postMalformed"}) /\ trouble = "enqueues" => past["posted"] # <<>>

\* A test that posts before it adds its own job: the posted one is first.
InTurn ==
    Does(test, "post") /\ Does(test, "addJob") =>
        /\ job["seeded"] # "none" => job["posted"] # "none"
        /\ job["seeded"] \in {"active", "completed", "failed"} =>
               job["posted"] \in {"completed", "failed"}
        /\ \A a, b \in DOMAIN line : line[a] = "seeded" /\ line[b] = "posted" => b < a

LEMMA SameSeq ==
    ASSUME NEW S, NEW s \in Seq(S), NEW t \in Seq(S), Len(s) = Len(t),
           \A k \in 1..Len(s) : s[k] = t[k]
    PROVE  s = t
  OBVIOUS

LEMMA AppendOne ==
    ASSUME NEW S, NEW x \in S, NEW y \in S
    PROVE  Append(<<x>>, y) = <<x, y>>
<1> DEFINE s == Append(<<x>>, y)
           t == <<x, y>>
<1>1. <<x>> \in Seq(S) /\ Len(<<x>>) = 1 /\ <<x>>[1] = x
  OBVIOUS
<1>2. s \in Seq(S) /\ Len(s) = 2 /\ s[1] = x /\ s[2] = y
  BY <1>1
<1>3. t \in Seq(S) /\ Len(t) = 2 /\ t[1] = x /\ t[2] = y
  OBVIOUS
<1> HIDE DEF s, t
<1>4. s = t
  BY <1>2, <1>3, SameSeq
<1> QED
  BY <1>4 DEF s, t

LEMMA AppendTwo ==
    ASSUME NEW S, NEW x \in S, NEW y \in S, NEW z \in S
    PROVE  Append(<<x, y>>, z) = <<x, y, z>>
<1> DEFINE s == Append(<<x, y>>, z)
           t == <<x, y, z>>
<1>1. <<x, y>> \in Seq(S) /\ Len(<<x, y>>) = 2 /\ <<x, y>>[1] = x /\ <<x, y>>[2] = y
  OBVIOUS
<1>2. s \in Seq(S) /\ Len(s) = 3 /\ s[1] = x /\ s[2] = y /\ s[3] = z
  BY <1>1
<1>3. t \in Seq(S) /\ Len(t) = 3 /\ t[1] = x /\ t[2] = y /\ t[3] = z
  OBVIOUS
<1> HIDE DEF s, t
<1>4. s = t
  BY <1>2, <1>3, SameSeq
<1> QED
  BY <1>4 DEF s, t

LEMMA TailPlaces ==
    ASSUME NEW S, NEW s \in Seq(S), s # <<>>
    PROVE  /\ 1 \in DOMAIN s /\ Head(s) = s[1]
           /\ \A a \in DOMAIN Tail(s) :
                  a \in Nat /\ a + 1 \in DOMAIN s /\ a + 1 # 1 /\ Tail(s)[a] = s[a + 1]
           /\ \A a \in DOMAIN s : a = 1 \/ (a - 1 \in DOMAIN Tail(s) /\ Tail(s)[a - 1] = s[a])
<1> DEFINE t == Tail(s)
<1>1. Len(s) \in Nat \ {0} /\ DOMAIN s = 1..Len(s)
  OBVIOUS
<1>2. DOMAIN t = 1..(Len(s) - 1) /\ \A a \in 1..(Len(s) - 1) : t[a] = s[a + 1]
  OBVIOUS
<1>3. Head(s) = s[1]
  OBVIOUS
<1> HIDE DEF t
<1>4. \A a \in DOMAIN t : a + 1 \in DOMAIN s /\ a + 1 # 1 /\ t[a] = s[a + 1] /\ a \in Nat
  BY <1>1, <1>2
<1>5. ASSUME NEW a \in DOMAIN s, a # 1
      PROVE  a - 1 \in DOMAIN t /\ t[a - 1] = s[a]
  <2>1. a \in 2..Len(s) /\ (a - 1) + 1 = a
    BY <1>1, <1>5
  <2>2. a - 1 \in 1..(Len(s) - 1)
    BY <2>1, <1>1
  <2> QED
    BY <1>2, <2>1, <2>2
<1> QED
  BY <1>1, <1>3, <1>4, <1>5 DEF t

LEMMA OneAndNone ==
    ASSUME NEW S, NEW x \in S
    PROVE  <<x>> # <<>> /\ Append(<<>>, x) = <<x>>
<1> DEFINE s == Append(<<>>, x)
           t == <<x>>
<1>1. <<>> \in Seq(S) /\ Len(<<>>) = 0
  OBVIOUS
<1>2. s \in Seq(S) /\ Len(s) = 1 /\ s[1] = x
  BY <1>1
<1>3. t \in Seq(S) /\ Len(t) = 1 /\ t[1] = x
  OBVIOUS
<1> HIDE DEF s, t
<1>4. s = t /\ t # <<>>
  BY <1>1, <1>2, <1>3, SameSeq
<1> QED
  BY <1>4 DEF s, t

\* What a record may look like, and its status.
LEMMA Shapes ==
    ASSUME Typed, NEW i \in Scans
    PROVE  /\ past[i] = <<Base(i)>> => Status(i) = Base(i)
           /\ past[i] = Marked(i) => Status(i) \in {Base(i), "Scanning"}
           /\ past[i] = Marked(i) => (Status(i) \in TerminalStatus <=> Frozen(i))
           /\ \A end \in TerminalStatus :
                  /\ Closed(i, end) # <<>>
                  /\ past[i] = Closed(i, end) => Status(i) = IF Frozen(i) THEN "Finished" ELSE end
           /\ Marked(i) # <<>> /\ <<Base(i)>> # <<>>
           /\ Frozen(i) => Marked(i) = <<Base(i)>> /\ Base(i) = "Finished"
           /\ EndsOf(i) \subseteq TerminalStatus
<1>1. \A x : <<x>> # <<>> /\ Len(<<x>>) = 1 /\ <<x>>[1] = x
  OBVIOUS
<1>2. \A x, y : <<x, y>> # <<>> /\ Len(<<x, y>>) = 2 /\ <<x, y>>[2] = y
  OBVIOUS
<1>3. \A x, y, z : <<x, y, z>> # <<>> /\ Len(<<x, y, z>>) = 3 /\ <<x, y, z>>[3] = z
  OBVIOUS
<1>4. Base(i) \in {"Queued", "Finished"}
  BY DEF Base
<1>5. past[i] = <<Base(i)>> => Status(i) = Base(i)
  BY <1>1 DEF Status
<1>6. past[i] = <<Base(i), "Scanning">> => Status(i) = "Scanning"
  BY <1>2 DEF Status
<1>7. \A end : /\ past[i] = <<Base(i), end>> => Status(i) = end
               /\ past[i] = <<Base(i), "Scanning", end>> => Status(i) = end
  BY <1>2, <1>3 DEF Status
<1>8. ASSUME NEW end \in TerminalStatus
      PROVE  Closed(i, end) = IF Frozen(i) THEN <<"Finished">>
                              ELSE IF trouble = "skipsScanning" THEN <<Base(i), end>>
                              ELSE <<Base(i), "Scanning", end>>
  <2>1. Base(i) \in Statuses /\ "Scanning" \in Statuses /\ end \in Statuses
    BY <1>4 DEF TerminalStatus, Statuses
  <2>2. /\ Append(<<Base(i)>>, end) = <<Base(i), end>>
        /\ Append(<<Base(i), "Scanning">>, end) = <<Base(i), "Scanning", end>>
    BY <2>1, AppendOne, AppendTwo
  <2> QED
    BY <2>2 DEF Closed, Marked
<1>9. Base(i) = "Finished" /\ trouble = "skipsScanning" => Frozen(i)
  BY DEF Frozen
<1>10. Base(i) = "Queued" => ~Frozen(i)
  BY DEF Frozen
<1>11. \A end \in TerminalStatus :
           /\ Closed(i, end) # <<>>
           /\ past[i] = Closed(i, end) => Status(i) = IF Frozen(i) THEN "Finished" ELSE end
  <2> TAKE end \in TerminalStatus
  <2>1. CASE Frozen(i)
    BY <1>1, <1>5, <1>8, <2>1 DEF Frozen
  <2>2. CASE ~Frozen(i)
    BY <1>2, <1>3, <1>7, <1>8, <2>2
  <2> QED
    BY <2>1, <2>2
<1>12. /\ past[i] = Marked(i) => Status(i) \in {Base(i), "Scanning"}
       /\ past[i] = Marked(i) => (Status(i) \in TerminalStatus <=> Frozen(i))
  BY <1>4, <1>5, <1>6, <1>9, <1>10 DEF Marked, TerminalStatus, Frozen
<1> QED
  BY <1>1, <1>2, <1>5, <1>11, <1>12 DEF Marked, EndsOf, TerminalStatus, Frozen

\* What has not been written has no job; what is closed is in hand or settled.
LEMMA Unwritten ==
    ASSUME Typed, Courses, NEW i \in Scans, past[i] = <<>>
    PROVE  job[i] = "none"
<1>1. job[i] # "waiting" /\ job[i] \notin {"completed", "failed"}
  BY Shapes DEF Courses, Course
<1>2. job[i] = "active" => stage # "idle"
  BY DEF Courses, Course, Typed, ScanTyped, Scans
<1>3. /\ <<Base(i)>> # <<>> /\ Marked(i) # <<>>
      /\ \A end \in TerminalStatus : Closed(i, end) # <<>>
  BY Shapes
<1>4. job[i] # "active"
  BY <1>2, <1>3 DEF Courses, Course, Typed, ScanTyped
<1> QED
  BY <1>1, <1>4 DEF Typed, ScanTyped

LEMMA ClosedIsMore ==
    ASSUME NEW i \in Scans, NEW end \in TerminalStatus, ~Frozen(i)
    PROVE  Closed(i, end) \notin {<<Base(i)>>, Marked(i)}
<1>1. Base(i) \in Statuses /\ "Scanning" \in Statuses /\ end \in Statuses
  BY DEF Base, Statuses, TerminalStatus
<1>2. /\ <<Base(i)>> \in Seq(Statuses) /\ Len(<<Base(i)>>) = 1
      /\ <<Base(i), "Scanning">> \in Seq(Statuses) /\ Len(<<Base(i), "Scanning">>) = 2
  BY <1>1
<1>3. Marked(i) \in Seq(Statuses) /\ Len(Marked(i)) \in Nat \ {0}
  BY <1>2 DEF Marked
<1>4. Closed(i, end) = Append(Marked(i), end)
  BY DEF Closed
<1>5. Len(Closed(i, end)) = Len(Marked(i)) + 1
  BY <1>1, <1>3, <1>4
<1> QED
  BY <1>2, <1>3, <1>5

LEMMA Unclosed ==
    ASSUME Typed, Courses, NEW i \in Scans, job[i] \in {"none", "waiting"}, ~Frozen(i),
           NEW end \in TerminalStatus
    PROVE  past[i] # Closed(i, end)
<1>1. past[i] \in {<<>>, <<Base(i)>>}
  BY DEF Courses, Course
<1> QED
  BY <1>1, Shapes, ClosedIsMore

\* The steps that write find nothing written.
LEMMA Fresh ==
    ASSUME Typed, Courses, Written
    PROVE  /\ \A s \in Posting : At(s) => past["posted"] = <<>> /\ job["posted"] = "none"
           /\ \A s \in Seeding : At(s) => past["seeded"] = <<>> /\ job["seeded"] = "none"
           /\ At("seed") => Base("seeded") = "Queued"
           /\ At("seedFinished") => Base("seeded") = "Finished"
           /\ At("addJob") => past["seeded"] = <<Base("seeded")>> /\ job["seeded"] = "none"
<1>1. Placed /\ Orders(test)
  BY Scripts DEF Typed
<1>2. ASSUME NEW s \in Posting \cup Seeding \cup {"addJob"}, At(s)
      PROVE  InBody(s)
  BY <1>1, <1>2, Where DEF Posting, Seeding, Outside, Cleanups
<1>3. \A i \in Scans : past[i] = <<>> => job[i] = "none"
  BY Unwritten
<1>4. "posted" \in Scans /\ "seeded" \in Scans
  BY DEF Scans
<1>5. ASSUME NEW s \in Posting, At(s)
      PROVE  past["posted"] = <<>> /\ job["posted"] = "none"
  <2>1. ~Been(Posting)
    BY <1>1, <1>2, <1>5, FirstTime DEF Orders
  <2> QED
    BY <1>3, <1>4, <2>1 DEF Written
<1>6. ASSUME NEW s \in Seeding, At(s)
      PROVE  past["seeded"] = <<>> /\ job["seeded"] = "none"
  <2>1. ~Been(Seeding)
    BY <1>1, <1>2, <1>6, FirstTime DEF Orders
  <2> QED
    BY <1>3, <1>4, <2>1 DEF Written
<1>7. ASSUME At("seed")
      PROVE  Base("seeded") = "Queued"
  <2>1. InBody("seed")
    BY <1>2, <1>7 DEF Seeding
  <2>2. ~Does(test, "seedFinished")
    <3> SUFFICES ASSUME Does(test, "seedFinished") PROVE FALSE
      OBVIOUS
    <3>1. "seedFinished" \in Range(test.body)
      BY <1>1, BodyOnly DEF Outside, Cleanups
    <3>2. PICK j \in DOMAIN test.body : test.body[j] = "seedFinished"
      BY <3>1 DEF Range
    <3>3. j = at
      BY <1>1, <2>1, <3>2 DEF Orders, AtMostOne, Seeding, InBody
    <3> QED
      BY <2>1, <3>2, <3>3 DEF InBody
  <2> QED
    BY <2>2 DEF Base
<1>8. At("seedFinished") => Base("seeded") = "Finished"
  BY <1>1, Where DEF Base
<1>9. ASSUME At("addJob")
      PROVE  past["seeded"] = <<Base("seeded")>> /\ job["seeded"] = "none"
  <2>1. InBody("addJob") /\ phase = "body"
    BY <1>2, <1>9 DEF InBody
  <2>2. Been(Seeding) /\ ~Been({"addJob"})
    BY <1>1, <2>1, FirstTime, AfterOne DEF Orders
  <2>3. past["seeded"] # <<>> /\ job["seeded"] = "none"
    BY <2>1, <2>2 DEF Written
  <2> QED
    BY <1>4, <2>3 DEF Courses, Course
<1> QED
  BY <1>5, <1>6, <1>7, <1>8, <1>9

LEMMA CourseStep ==
    ASSUME Typed, Courses, Lined, Written, Next
    PROVE  Courses'
<1> SUFFICES ASSUME NEW i \in Scans
             PROVE  Course(i)'
  BY DEF Courses
<1>1. test' = test /\ trouble' = trouble
  BY Moves
<1>2. /\ trouble' = trouble
      /\ Base(i)' = Base(i) /\ Marked(i)' = Marked(i)
      /\ \A end : Closed(i, end)' = Closed(i, end)
      /\ EndsOf(i)' = EndsOf(i)
  BY <1>1 DEF Base, Marked, Closed, Frozen, EndsOf
<1>3. "posted" \in Scans /\ "seeded" \in Scans /\ "none" \notin Scans /\ "posted" # "seeded"
  BY DEF Scans
<1>4. Course(i)
  BY DEF Courses
<1> USE DEF Typed, ScanTyped
<1>5. ASSUME UNCHANGED <<past[i], job[i], hand, stage>>
      PROVE  Course(i)'
  BY <1>2, <1>4, <1>5 DEF Course
<1>6. ASSUME job[i] = "none", job'[i] \in {"none", "waiting"}, past'[i] = <<Base(i)>>, hand' = hand
      PROVE  Course(i)'
  BY <1>2, <1>4, <1>6 DEF Course
<1>7. CASE UNCHANGED scanVars
  BY <1>5, <1>7 DEF scanVars
<1>8. CASE /\ At("post") \/ At("postMalformed")
           /\ Write("posted", "Queued") /\ Enqueue("posted")
           /\ UNCHANGED <<hand, stage, files>>
  <2>1. past["posted"] = <<>> /\ job["posted"] = "none"
    BY <1>8, Fresh DEF Posting
  <2>2. i = "posted" => past'[i] = <<Base(i)>> /\ job'[i] = "waiting"
    <3>1. Append(<<>>, "Queued") = <<"Queued">>
      BY OneAndNone
    <3> QED
      BY <1>3, <1>8, <2>1, <3>1 DEF Write, Enqueue, Base
  <2>3. i # "posted" => past'[i] = past[i] /\ job'[i] = job[i]
    BY <1>8 DEF Write, Enqueue
  <2> QED
    BY <1>5, <1>6, <1>8, <2>1, <2>2, <2>3
<1>9. CASE /\ \/ At("seed") /\ Write("seeded", "Queued")
              \/ At("seedFinished") /\ Write("seeded", "Finished")
           /\ UNCHANGED <<job, line, hand, stage, files>>
  <2>1. past["seeded"] = <<>> /\ job["seeded"] = "none"
    BY <1>9, Fresh DEF Seeding
  <2>2. i = "seeded" => past'[i] = <<Base(i)>>
    <3>1. Append(<<>>, Base("seeded")) = <<Base("seeded")>>
      BY OneAndNone
    <3> QED
      BY <1>3, <1>9, <2>1, <3>1, Fresh DEF Write
  <2>3. i # "seeded" => past'[i] = past[i]
    BY <1>9 DEF Write
  <2> QED
    BY <1>5, <1>6, <1>9, <2>1, <2>2, <2>3
<1>10. CASE At("addJob") /\ Enqueue("seeded") /\ UNCHANGED <<past, hand, stage, files>>
  <2>1. past["seeded"] = <<Base("seeded")>> /\ job["seeded"] = "none"
    BY <1>10, Fresh
  <2>2. i = "seeded" => job'[i] = "waiting"
    BY <1>3, <1>10 DEF Enqueue
  <2>3. i # "seeded" => job'[i] = job[i]
    BY <1>10 DEF Enqueue
  <2> QED
    BY <1>5, <1>6, <1>10, <2>1, <2>2, <2>3
<1>11. CASE Take
  <2>1. Head(line) = line[1] /\ 1 \in DOMAIN line
    BY <1>11 DEF Take
  <2>2. Head(line) \in Scans /\ job[Head(line)] = "waiting"
    BY <2>1 DEF Lined
  <2>3. i = Head(line) => job'[i] = "active"
    BY <1>11, <2>2 DEF Take
  <2>4. i # Head(line) => job'[i] = job[i]
    BY <1>11 DEF Take
  <2>5. hand = "none" /\ hand' = Head(line) /\ stage' = "taken" /\ past' = past
    BY <1>11 DEF Take
  <2> QED
    BY <1>2, <1>3, <1>4, <2>2, <2>3, <2>4, <2>5 DEF Course, TerminalStatus
<1>12. CASE MarkScanning
  <2>1. hand \in Scans /\ stage = "taken" /\ stage' = "scanning" /\ UNCHANGED <<job, hand>>
    BY <1>12 DEF MarkScanning
  <2>2. i # hand => past'[i] = past[i]
    BY <1>12 DEF MarkScanning, Write
  <2>3. i = hand => past'[i] = Marked(i)
    <3> SUFFICES ASSUME i = hand PROVE past'[i] = Marked(i)
      OBVIOUS
    <3>1. past[i] = <<Base(i)>>
      BY <1>4, <2>1 DEF Course
    <3>2. Status(i) = Base(i)
      BY <3>1, Shapes
    <3>3. Base(i) \in {"Queued", "Finished"} /\ Base(i) \in Statuses /\ "Scanning" \in Statuses
      BY DEF Base, Statuses
    <3>4. Append(<<Base(i)>>, "Scanning") = <<Base(i), "Scanning">>
      BY <3>3, AppendOne
    <3> QED
      BY <1>12, <3>1, <3>2, <3>3, <3>4 DEF MarkScanning, Write, Marked, Frozen, TerminalStatus
  <2> QED
    BY <1>2, <1>4, <2>1, <2>2, <2>3 DEF Course, TerminalStatus
<1>13. CASE Scan
  BY <1>2, <1>4, <1>13 DEF Scan, Course, TerminalStatus
<1>14. CASE CloseRecord
  <2>1. PICK end \in EndsIn :
            /\ IF Status(hand) \in TerminalStatus THEN UNCHANGED past ELSE Write(hand, end)
            /\ stage' = end
    BY <1>14 DEF CloseRecord
  <2>2. hand \in Scans /\ stage = "scanned" /\ UNCHANGED <<job, hand>>
    BY <1>14 DEF CloseRecord
  <2>3. i # hand => past'[i] = past[i]
    BY <2>1 DEF Write
  <2>4. EndsIn = EndsOf(hand)
    BY DEF EndsIn, EndsOf
  <2>5. i = hand => past'[i] = Closed(i, end)
    <3> SUFFICES ASSUME i = hand PROVE past'[i] = Closed(i, end)
      OBVIOUS
    <3>1. past[i] = Marked(i)
      BY <1>4, <2>2 DEF Course
    <3>2. Status(i) \in TerminalStatus <=> Frozen(i)
      BY <3>1, Shapes
    <3>3. CASE Frozen(i)
      BY <2>1, <3>1, <3>2, <3>3, Shapes DEF Closed
    <3>4. CASE ~Frozen(i)
      BY <2>1, <3>1, <3>2, <3>4 DEF Closed, Write
    <3> QED
      BY <3>3, <3>4
  <2>6. stage' \in TerminalStatus /\ TerminalStatus \cap {"taken", "scanning", "scanned"} = {}
    BY <2>1, <2>2, <2>4, Shapes DEF TerminalStatus
  <2> QED
    BY <1>2, <1>4, <2>1, <2>2, <2>3, <2>4, <2>5, <2>6 DEF Course
<1>15. CASE Clean
  BY <1>5, <1>15 DEF Clean
<1>16. CASE Settle
  <2>1. hand \in Scans /\ stage \in TerminalStatus /\ hand' = "none" /\ past' = past
    BY <1>16 DEF Settle, TerminalStatus
  <2>2. i # hand => job'[i] = job[i]
    BY <1>16 DEF Settle
  <2>3. i = hand => job'[i] = IF (stage = "Failed") # (trouble = "settlesWrong")
                              THEN "failed" ELSE "completed"
    BY <1>16, <2>1 DEF Settle
  <2>4. i = hand => stage \in EndsOf(i) /\ past[i] = Closed(i, stage)
    BY <1>4, <2>1 DEF Course
  <2>5. CASE i = hand
    <3>1. job'[i] \in {"completed", "failed"}
          /\ (job'[i] = "failed" <=> ((stage = "Failed") # (trouble = "settlesWrong")))
      BY <2>3, <2>5
    <3> QED
      BY <1>1, <1>2, <1>3, <2>1, <2>4, <2>5, <3>1 DEF Course
  <2>6. CASE i # hand
    BY <1>1, <1>2, <1>3, <1>4, <2>1, <2>2, <2>6 DEF Course
  <2> QED
    BY <2>5, <2>6
<1> QED
  BY <1>7, <1>8, <1>9, <1>10, <1>11, <1>12, <1>13, <1>14, <1>15, <1>16, ScanMoves

LEMMA LinedStep ==
    ASSUME Typed, Courses, Lined, Written, Next
    PROVE  Lined'
<1> USE DEF Typed, ScanTyped
<1>1. "posted" \in Scans /\ "seeded" \in Scans
  BY DEF Scans
<1>2. ASSUME NEW h \in Scans, job[h] = "none", Enqueue(h)
      PROVE  Lined'
  <2>1. \A a \in DOMAIN line : line[a] # h
    BY <1>2 DEF Lined
  <2>2. /\ DOMAIN line' = 1..(Len(line) + 1) /\ DOMAIN line = 1..Len(line) /\ Len(line) \in Nat
        /\ line'[Len(line) + 1] = h
        /\ \A a \in DOMAIN line : line'[a] = line[a]
    BY <1>2 DEF Enqueue
  <2>3. \A a, b \in DOMAIN line' : line'[a] = line'[b] => a = b
    BY <2>1, <2>2 DEF Lined
  <2>4. ASSUME NEW i \in Scans
        PROVE  job'[i] = "waiting" <=> \E a \in DOMAIN line' : line'[a] = i
    <3>1. CASE i = h
      <4>1. job'[h] = "waiting"
        BY <1>2 DEF Enqueue
      <4>2. Len(line) + 1 \in DOMAIN line'
        BY <2>2
      <4> QED
        BY <2>2, <3>1, <4>1, <4>2
    <3>2. CASE i # h
      <4>1. job'[i] = job[i]
        BY <1>2, <3>2 DEF Enqueue
      <4>2. \A a \in DOMAIN line : a \in DOMAIN line' /\ line'[a] = line[a]
        BY <2>2
      <4>3. \A a \in DOMAIN line' : line'[a] = i => a \in DOMAIN line
        BY <2>2, <3>2
      <4> QED
        BY <4>1, <4>2, <4>3 DEF Lined
    <3> QED
      BY <3>1, <3>2
  <2> QED
    BY <2>3, <2>4 DEF Lined
<1>3. ASSUME UNCHANGED <<job, line>>
      PROVE  Lined'
  BY <1>3 DEF Lined
<1>4. CASE Take
  <2> DEFINE h == Head(line)
             rest == Tail(line)
  <2>1. line # <<>> /\ line' = rest
    BY <1>4 DEF Take
  <2>2. /\ 1 \in DOMAIN line /\ h = line[1]
        /\ \A a \in DOMAIN rest : a \in Nat /\ a + 1 \in DOMAIN line /\ a + 1 # 1 /\ rest[a] = line[a + 1]
        /\ \A a \in DOMAIN line : a = 1 \/ (a - 1 \in DOMAIN rest /\ rest[a - 1] = line[a])
    BY <2>1, TailPlaces
  <2>3. \A i \in Scans : job'[i] = IF i = h THEN "active" ELSE job[i]
    BY <1>4 DEF Take
  <2> HIDE DEF h, rest
  <2>4. \A a, b \in DOMAIN rest : rest[a] = rest[b] => a = b
    <3> SUFFICES ASSUME NEW a \in DOMAIN rest, NEW b \in DOMAIN rest, rest[a] = rest[b]
                 PROVE  a = b
      OBVIOUS
    <3>1. a + 1 = b + 1 /\ a \in Nat /\ b \in Nat
      BY <2>2 DEF Lined
    <3> QED
      BY <3>1
  <2>5. ASSUME NEW i \in Scans
        PROVE  job'[i] = "waiting" <=> \E a \in DOMAIN rest : rest[a] = i
    <3>1. CASE i = h
      <4>1. \A a \in DOMAIN rest : rest[a] # h
        BY <2>2 DEF Lined
      <4> QED
        BY <2>3, <3>1, <4>1
    <3>2. CASE i # h
      <4>1. (\E a \in DOMAIN rest : rest[a] = i) <=> \E a \in DOMAIN line : line[a] = i
        BY <2>2, <3>2
      <4> QED
        BY <2>3, <3>2, <4>1 DEF Lined
    <3> QED
      BY <3>1, <3>2
  <2> QED
    BY <2>1, <2>4, <2>5 DEF Lined
<1>5. CASE Settle
  <2>1. hand \in Scans
    BY <1>5 DEF Settle, TerminalStatus
  <2>2. job[hand] = "active" /\ line' = line
    BY <1>5, <2>1 DEF Settle, Courses, Course
  <2>3. \A i \in Scans : job'[i] = "waiting" <=> job[i] = "waiting"
    BY <1>5, <2>1, <2>2 DEF Settle
  <2> QED
    BY <2>2, <2>3 DEF Lined
<1>6. CASE MarkScanning \/ Scan \/ CloseRecord \/ Clean
  BY <1>3, <1>6 DEF MarkScanning, Scan, CloseRecord, Clean
<1> QED
  BY <1>1, <1>2, <1>3, <1>4, <1>5, <1>6, Fresh, ScanMoves DEF scanVars, Posting

\* The first status of a record is written by a step of the test, the others by
\* the worker that has it in hand, and none to a frozen one.
LEMMA PastMoves ==
    ASSUME Typed, Courses, Written, Next, NEW i \in Scans
    PROVE  \/ past'[i] = past[i]
           \/ /\ past[i] \in {<<Base(i)>>, Marked(i)} /\ past[i] # <<>> /\ ~Frozen(i)
              /\ \E x \in Statuses : past'[i] = Append(past[i], x)
           \/ /\ Go /\ past[i] = <<>> /\ job[i] = "none"
              /\ \/ /\ i = "posted" /\ job'[i] = "waiting"
                    /\ At("post") \/ (At("postMalformed") /\ trouble = "enqueues")
                 \/ i = "seeded" /\ job'[i] = "none" /\ \E s \in Seeding : At(s)
<1> USE DEF Typed, ScanTyped
<1>1. "posted" \in Scans /\ "seeded" \in Scans /\ TerminalStatus \subseteq Statuses
  BY DEF Scans, TerminalStatus, Statuses
<1>2. ASSUME NEW h, NEW x, Write(h, x), i # h
      PROVE  past'[i] = past[i]
  BY <1>2 DEF Write
<1>3. CASE UNCHANGED past
  BY <1>3
<1>4. CASE /\ At("post") \/ (At("postMalformed") /\ trouble = "enqueues")
           /\ Go /\ Write("posted", "Queued") /\ Enqueue("posted")
  <2>1. past["posted"] = <<>> /\ job["posted"] = "none" /\ job'["posted"] = "waiting"
    BY <1>1, <1>4, Fresh DEF Posting, Enqueue
  <2> QED
    BY <1>2, <1>4, <2>1 DEF Posting
<1>5. CASE /\ \/ At("seed") /\ Write("seeded", "Queued")
              \/ At("seedFinished") /\ Write("seeded", "Finished")
           /\ Go /\ UNCHANGED <<job, line, hand, stage, files>>
  <2>1. past["seeded"] = <<>> /\ job["seeded"] = "none" /\ job'["seeded"] = "none"
    BY <1>1, <1>5, Fresh DEF Seeding
  <2> QED
    BY <1>2, <1>5, <2>1 DEF Seeding
<1>6. CASE MarkScanning
  <2>1. hand \in Scans /\ stage = "taken" /\ "Scanning" \in Statuses
    BY <1>6 DEF MarkScanning, Statuses
  <2>2. past[hand] = <<Base(hand)>>
    BY <2>1 DEF Courses, Course
  <2>3. Status(hand) = Base(hand)
    BY <2>1, <2>2, Shapes
  <2>4. \/ past' = past
        \/ ~Frozen(hand) /\ Write(hand, "Scanning")
    BY <1>6, <2>3 DEF MarkScanning, Frozen, TerminalStatus
  <2>5. past[hand] # <<>>
    BY <2>1, <2>2, Shapes
  <2> QED
    BY <1>2, <2>1, <2>2, <2>4, <2>5 DEF Write
<1>7. CASE CloseRecord
  <2>1. hand \in Scans /\ stage = "scanned" /\ EndsIn \subseteq Statuses
    BY <1>7 DEF CloseRecord, EndsIn, Statuses, TerminalStatus
  <2>2. past[hand] = Marked(hand)
    BY <2>1 DEF Courses, Course
  <2>3. Status(hand) \in TerminalStatus <=> Frozen(hand)
    BY <2>1, <2>2, Shapes
  <2>4. \/ past' = past
        \/ ~Frozen(hand) /\ \E end \in EndsIn : Write(hand, end)
    BY <1>7, <2>3 DEF CloseRecord
  <2>5. past[hand] # <<>>
    BY <2>1, <2>2, Shapes
  <2> QED
    BY <1>2, <2>1, <2>2, <2>4, <2>5 DEF Write
<1>8. CASE Take \/ Scan \/ Clean \/ Settle
  BY <1>3, <1>8 DEF Take, Scan, Clean, Settle
<1> QED
  BY <1>3, <1>4, <1>5, <1>6, <1>7, <1>8, ScanMoves DEF scanVars

\* Nothing that was written is gone again.
LEMMA PastStays ==
    ASSUME Typed, Courses, Written, Next, NEW i \in Scans, past[i] # <<>>
    PROVE  past'[i] # <<>> /\ (past'[i] = past[i] \/ \E x \in Statuses : past'[i] = Append(past[i], x))
<1>1. past[i] \in Seq(Statuses)
  BY DEF Typed, ScanTyped
<1>2. \A x \in Statuses : Append(past[i], x) # <<>>
  BY <1>1
<1> QED
  BY <1>2, PastMoves

LEMMA BeenBody ==
    ASSUME Placed, Next, NEW S, Been(S)', phase' = "body"
    PROVE  (phase = "body" /\ Been(S)) \/ \E s \in S : InBody(s) /\ Go
<1>1. phase \notin {"finally", "over"}
  BY Moves DEF Expires, PhaseEnds, Skips, Fell, Go, Placed, At
<1> QED
  BY <1>1, BeenStep DEF Been

LEMMA WrittenStep ==
    ASSUME Typed, Courses, Lined, Written, Next
    PROVE  Written'
<1> USE DEF Typed
<1>1. test' = test /\ trouble' = trouble /\ "posted" \in Scans /\ "seeded" \in Scans
  BY Moves DEF Scans
<1>2. ASSUME NEW s \in Posting \cup Seeding \cup {"addJob"}, At(s), Go
      PROVE  InBody(s) /\ s \in Steps(test) /\ \A S : s \in S => Been(S)'
  <2>1. InBody(s) /\ s \in Steps(test)
    BY <1>2, Where DEF Posting, Seeding, Outside, Cleanups, Does
  <2>2. phase' = "body" /\ at' = at + 1 /\ at \in Nat \ {0}
    BY <1>2, <2>1 DEF Go, InBody, Placed
  <2> QED
    BY <1>1, <2>1, <2>2 DEF Been, InBody
<1>3. past'["posted"] # <<>> => Been(Posting)' /\ Steps(test') \cap Posting # {}
  <2>1. CASE past["posted"] # <<>>
    BY <1>1, <2>1, BeenKept DEF Written
  <2>2. CASE past["posted"] = <<>>
    BY <1>1, <1>2, <2>2, PastMoves DEF Posting
  <2> QED
    BY <2>1, <2>2
<1>4. past'["seeded"] # <<>> => Been(Seeding)' /\ Steps(test') \cap Seeding # {}
  <2>1. CASE past["seeded"] # <<>>
    BY <1>1, <2>1, BeenKept DEF Written
  <2>2. CASE past["seeded"] = <<>>
    BY <1>1, <1>2, <2>2, PastMoves
  <2> QED
    BY <2>1, <2>2
<1>5. job'["posted"] = "none" => past'["posted"] = <<>>
  <2> SUFFICES ASSUME job'["posted"] = "none" PROVE past'["posted"] = <<>>
    OBVIOUS
  <2>1. job["posted"] = "none"
    BY <1>1, ScanMoves DEF scanVars, Enqueue, Typed, ScanTyped, Take, MarkScanning, Scan, CloseRecord, Clean, Settle
  <2>2. past["posted"] = <<>>
    BY <2>1 DEF Written
  <2> QED
    BY <1>1, <2>2, PastMoves
<1>6. job'["seeded"] # "none" => Been({"addJob"})' /\ Does(test', "addJob")
  <2> SUFFICES ASSUME job'["seeded"] # "none" PROVE Been({"addJob"})' /\ Does(test, "addJob")
    BY <1>1
  <2>1. CASE job["seeded"] # "none"
    BY <2>1, BeenKept DEF Written
  <2>2. CASE At("addJob") /\ Go
    BY <1>2, <2>2 DEF Does
  <2>3. CASE job["seeded"] = "none" /\ ~(At("addJob") /\ Go)
    <3>1. "seeded" # hand
      BY <1>1, <2>3 DEF Courses, Course
    <3>2. line # <<>> => Head(line) # "seeded"
      <4>1. line # <<>> => Head(line) = line[1] /\ 1 \in DOMAIN line
        BY DEF ScanTyped
      <4> QED
        BY <1>1, <2>3, <4>1 DEF Lined
    <3> QED
      BY <1>1, <2>3, <3>1, <3>2, ScanMoves
         DEF scanVars, Enqueue, ScanTyped, Take, MarkScanning, Scan, CloseRecord, Clean, Settle
  <2> QED
    BY <2>1, <2>2, <2>3
<1>7. ASSUME phase' = "body", Been(Seeding)'
      PROVE  past'["seeded"] # <<>>
  <2>1. CASE phase = "body" /\ Been(Seeding)
    BY <1>1, <2>1, PastStays DEF Written
  <2>2. ASSUME NEW s \in Seeding, InBody(s), Go
        PROVE  past'["seeded"] # <<>>
    <3>1. At(s)
      BY <2>2 DEF InBody, At, Plan
    <3>2. Write("seeded", "Queued") \/ Write("seeded", "Finished")
      BY <2>2, <3>1, Writes DEF Seeding
    <3> QED
      BY <1>1, <3>2 DEF Write, ScanTyped, Statuses
  <2> QED
    BY <1>7, <2>1, <2>2, BeenBody
<1>8. ASSUME phase' = "body", Been({"post"})'
      PROVE  past'["posted"] # <<>>
  <2>1. CASE phase = "body" /\ Been({"post"})
    BY <1>1, <2>1, PastStays DEF Written
  <2>2. ASSUME InBody("post"), Go
        PROVE  past'["posted"] # <<>>
    <3>1. At("post")
      BY <2>2 DEF InBody, At, Plan
    <3> QED
      BY <1>1, <2>2, <3>1, Writes DEF Write, ScanTyped, Statuses
  <2> QED
    BY <1>8, <2>1, <2>2, BeenBody
<1>9. ASSUME phase' = "body", Been({"postMalformed"})', trouble' = "enqueues"
      PROVE  past'["posted"] # <<>>
  <2>1. CASE phase = "body" /\ Been({"postMalformed"})
    BY <1>1, <1>9, <2>1, PastStays DEF Written
  <2>2. ASSUME InBody("postMalformed"), Go
        PROVE  past'["posted"] # <<>>
    <3>1. At("postMalformed")
      BY <2>2 DEF InBody, At, Plan
    <3> QED
      BY <1>1, <1>9, <2>2, <3>1, Writes DEF Write, ScanTyped, Statuses
  <2> QED
    BY <1>9, <2>1, <2>2, BeenBody
<1> QED
  BY <1>3, <1>4, <1>5, <1>6, <1>7, <1>8, <1>9 DEF Written

\* A closed record stays as it is.
LEMMA EndStays ==
    ASSUME Typed, Courses, Written, Next, NEW i \in Scans,
           NEW end \in TerminalStatus, past[i] = Closed(i, end)
    PROVE  past'[i] = past[i]
<1>1. past[i] # <<>>
  BY Shapes
<1>2. CASE Frozen(i)
  BY <1>1, <1>2, PastMoves
<1>3. CASE ~Frozen(i)
  BY <1>1, <1>3, ClosedIsMore, PastMoves
<1> QED
  BY <1>2, <1>3

\* The forms a record takes.
LEMMA Forms ==
    ASSUME Typed, Courses, NEW i \in Scans
    PROVE  \/ past[i] \in {<<>>, <<Base(i)>>, Marked(i)}
           \/ \E end \in EndsOf(i) : past[i] = Closed(i, end)
  BY DEF Courses, Course, Typed, ScanTyped, Scans

LEMMA HeadWaits ==
    ASSUME Typed, Lined, line # <<>>
    PROVE  Head(line) \in Scans /\ job[Head(line)] = "waiting"
<1>1. line \in Seq(Scans)
  BY DEF Typed, ScanTyped
<1>2. 1 \in DOMAIN line /\ Head(line) = line[1] /\ line[1] \in Scans
  BY <1>1
<1> QED
  BY <1>2 DEF Lined

LEMMA JobStays ==
    ASSUME Typed, Courses, Lined, Written, Next, NEW i \in Scans
    PROVE  /\ job[i] \in {"completed", "failed"} => job'[i] = job[i]
           /\ job[i] # "none" => job'[i] # "none"
<1> USE DEF Typed, ScanTyped
<1>1. CASE UNCHANGED job
  BY <1>1
<1>2. ASSUME NEW h \in Scans, Enqueue(h), job[h] = "none"
      PROVE  /\ job[i] \in {"completed", "failed"} => job'[i] = job[i]
             /\ job[i] # "none" => job'[i] # "none"
  BY <1>2 DEF Enqueue
<1>3. CASE Take
  <2>1. Head(line) \in Scans /\ job[Head(line)] = "waiting"
    BY <1>3, HeadWaits DEF Take
  <2> QED
    BY <1>3, <2>1 DEF Take
<1>4. CASE Settle
  <2>1. hand \in Scans
    BY <1>4 DEF Settle, TerminalStatus
  <2>2. job[hand] = "active"
    BY <2>1 DEF Courses, Course
  <2> QED
    BY <1>4, <2>1, <2>2 DEF Settle
<1>5. CASE MarkScanning \/ Scan \/ CloseRecord \/ Clean
  BY <1>1, <1>5 DEF MarkScanning, Scan, CloseRecord, Clean
<1>6. "posted" \in Scans /\ "seeded" \in Scans
  BY DEF Scans
<1> QED
  BY <1>1, <1>2, <1>3, <1>4, <1>5, <1>6, Fresh, ScanMoves DEF scanVars, Posting

LEMMA InTurnStep ==
    ASSUME Typed, Courses, Lined, Written, InTurn, Next
    PROVE  InTurn'
<1> SUFFICES ASSUME Does(test, "post"), Does(test, "addJob")
             PROVE  /\ job'["seeded"] # "none" => job'["posted"] # "none"
                    /\ job'["seeded"] \in {"active", "completed", "failed"} =>
                           job'["posted"] \in {"completed", "failed"}
                    /\ \A a, b \in DOMAIN line' : line'[a] = "seeded" /\ line'[b] = "posted" => b < a
  BY Moves DEF InTurn
<1> USE DEF Typed, ScanTyped
<1>1. "posted" \in Scans /\ "seeded" \in Scans /\ "posted" # "seeded"
  BY DEF Scans
<1>2. /\ job["seeded"] # "none" => job["posted"] # "none"
      /\ job["seeded"] \in {"active", "completed", "failed"} =>
             job["posted"] \in {"completed", "failed"}
      /\ \A a, b \in DOMAIN line : line[a] = "seeded" /\ line[b] = "posted" => b < a
  BY DEF InTurn
<1>3. CASE UNCHANGED <<job, line>>
  BY <1>2, <1>3
<1>4. CASE (At("post") \/ At("postMalformed")) /\ Enqueue("posted")
  <2>1. job["posted"] = "none" /\ job["seeded"] = "none"
    BY <1>2, <1>4, Fresh DEF Posting
  <2>2. \A a \in DOMAIN line : line[a] # "seeded"
    BY <1>1, <2>1 DEF Lined
  <2>3. \A a \in DOMAIN line' : line'[a] # "seeded"
    BY <1>1, <1>4, <2>2 DEF Enqueue
  <2>4. job'["seeded"] = "none"
    BY <1>1, <1>4, <2>1 DEF Enqueue
  <2> QED
    BY <2>3, <2>4
<1>5. CASE At("addJob") /\ Enqueue("seeded")
  <2>1. job["seeded"] = "none"
    BY <1>5, Fresh
  <2>2. InBody("addJob")
    BY <1>5, Where DEF Outside, Cleanups
  <2>3. Been({"post"}) /\ phase = "body"
    BY <2>2, Scripts, AfterOne DEF Orders, InBody
  <2>4. job["posted"] # "none"
    BY <2>3 DEF Written
  <2>5. job'["posted"] = job["posted"] /\ job'["seeded"] = "waiting"
    BY <1>1, <1>5 DEF Enqueue
  <2>6. \A a \in DOMAIN line : line[a] # "seeded"
    BY <1>1, <2>1 DEF Lined
  <2>7. /\ Len(line) \in Nat /\ DOMAIN line = 1..Len(line) /\ DOMAIN line' = 1..(Len(line) + 1)
        /\ line'[Len(line) + 1] = "seeded"
        /\ \A a \in DOMAIN line : line'[a] = line[a]
    BY <1>1, <1>5 DEF Enqueue
  <2>8. ASSUME NEW a \in DOMAIN line', NEW b \in DOMAIN line',
               line'[a] = "seeded", line'[b] = "posted"
        PROVE  b < a
    <3>1. a = Len(line) + 1
      BY <2>6, <2>7, <2>8
    <3> QED
      BY <1>1, <2>7, <2>8, <3>1
  <2> QED
    BY <2>4, <2>5, <2>8
<1>6. CASE Take
  <2> DEFINE h == Head(line)
             rest == Tail(line)
  <2>1. line # <<>> /\ line' = rest /\ hand = "none"
    BY <1>6 DEF Take
  <2>2. /\ 1 \in DOMAIN line /\ h = line[1] /\ DOMAIN line = 1..Len(line) /\ Len(line) \in Nat
        /\ \A a \in DOMAIN rest : a \in Nat /\ a + 1 \in DOMAIN line /\ a + 1 # 1 /\ rest[a] = line[a + 1]
    BY <2>1, TailPlaces
  <2>3. \A i \in Scans : job'[i] = IF i = h THEN "active" ELSE job[i]
    BY <1>6 DEF Take
  <2>4. h \in Scans /\ job[h] = "waiting"
    BY <2>1, HeadWaits
  <2> HIDE DEF h, rest
  <2>5. h = "seeded" => job["posted"] \in {"completed", "failed"}
    <3> SUFFICES ASSUME h = "seeded" PROVE job["posted"] \in {"completed", "failed"}
      OBVIOUS
    <3>1. job["posted"] # "none"
      BY <1>2, <2>4
    <3>2. job["posted"] # "active"
      BY <1>1, <2>1 DEF Courses, Course
    <3>3. \A b \in DOMAIN line : line[b] # "posted"
      BY <1>2, <2>2
    <3>4. job["posted"] # "waiting"
      BY <1>1, <3>3 DEF Lined
    <3> QED
      BY <1>1, <3>1, <3>2, <3>4
  <2>6. h = "posted" => job["seeded"] \notin {"active", "completed", "failed"}
    BY <1>2, <2>4
  <2>7. ASSUME NEW a \in DOMAIN rest, NEW b \in DOMAIN rest,
               rest[a] = "seeded", rest[b] = "posted"
        PROVE  b < a
    <3>1. b + 1 < a + 1 /\ a \in Nat /\ b \in Nat
      BY <1>2, <2>2, <2>7
    <3> QED
      BY <3>1
  <2> QED
    BY <1>1, <1>2, <2>1, <2>3, <2>4, <2>5, <2>6, <2>7
<1>7. CASE Settle
  <2>1. hand \in Scans /\ line' = line
    BY <1>7 DEF Settle, TerminalStatus
  <2>2. job[hand] = "active"
    BY <2>1 DEF Courses, Course
  <2>3. \A i \in Scans : IF i = hand THEN job'[i] \in {"completed", "failed"} ELSE job'[i] = job[i]
    BY <1>7 DEF Settle
  <2> QED
    BY <1>1, <1>2, <2>1, <2>2, <2>3
<1>8. CASE MarkScanning \/ Scan \/ CloseRecord \/ Clean
  BY <1>3, <1>8 DEF MarkScanning, Scan, CloseRecord, Clean
<1> QED
  BY <1>3, <1>4, <1>5, <1>6, <1>7, <1>8, ScanMoves DEF scanVars

-----------------------------------------------------------------------------
(* What a test has seen, and of what a process has died. *)

\* What the observer has recorded, the record has been.
Witnessed == \A k \in DOMAIN seen : seen[k] \in Range(past[Subject])

Deaths ==
    /\ \A p \in Processes :
           /\ child[p] = "ended" => trouble \notin {"deaf", "dirtyExit"}
           /\ child[p] = "failed" =>
                  \/ trouble \in {"crashes", "dirtyExit"}
                  \/ p = "worker" /\ test.env = "invalid" /\ trouble # "anyEnv"
           /\ child[p] = "killed" => phase \in {"finally", "over"}
    /\ probe = "up" => trouble # "slowPing"
    /\ PassedLate

LEMMA WitnessedStep ==
    ASSUME Typed, Courses, Written, Witnessed, Next
    PROVE  Witnessed'
<1> USE DEF Typed
<1>1. Subject' = Subject /\ Subject \in Scans
  BY Moves DEF Subject, Scans
<1>2. past[Subject] \in Seq(Statuses) /\ seen \in Seq(Statuses)
  BY <1>1 DEF ScanTyped, SeenTyped
<1>3. Range(past[Subject]) \subseteq Range(past'[Subject])
  <2>1. ASSUME past[Subject] # <<>>
        PROVE  past'[Subject] = past[Subject]
               \/ \E x \in Statuses : past'[Subject] = Append(past[Subject], x)
    BY <1>1, <2>1, PastStays
  <2>2. ASSUME NEW x \in Statuses
        PROVE  Range(past[Subject]) \subseteq Range(Append(past[Subject], x))
    BY <1>2 DEF Range
  <2>3. Range(<<>>) = {}
    BY DEF Range
  <2> QED
    BY <2>1, <2>2, <2>3
<1>4. CASE seen' = seen
  BY <1>1, <1>3, <1>4 DEF Witnessed
<1>5. CASE /\ Status(Subject) # "none" /\ seen' = Append(seen, Status(Subject))
  <2>1. Status(Subject) \in Range(past[Subject]) /\ Status(Subject) \in Statuses
    BY <1>2, <1>5 DEF Status, Range
  <2>2. ASSUME NEW k \in DOMAIN seen'
        PROVE  seen'[k] \in Range(past[Subject])
    <3>1. k \in DOMAIN seen \/ seen'[k] = Status(Subject)
      BY <1>2, <1>5, <2>1
    <3>2. k \in DOMAIN seen => seen'[k] = seen[k]
      BY <1>2, <1>5, <2>1
    <3> QED
      BY <2>1, <3>1, <3>2 DEF Witnessed
  <2> QED
    BY <1>1, <1>3, <2>2 DEF Witnessed
<1> QED
  BY <1>4, <1>5, SeenMoves

LEMMA LateStays ==
    ASSUME Placed, Next, phase \in {"finally", "over"}
    PROVE  phase' \in {"finally", "over"}
  BY Moves DEF Expires, PhaseEnds, Skips, Fell, Go

LEMMA DeathsStep ==
    ASSUME Typed, Deaths, Next
    PROVE  Deaths'
<1> USE DEF Typed
<1>1. test' = test /\ trouble' = trouble
  BY Moves
<1>2. PassedLate'
  BY PassedLateStep DEF Deaths
<1>3. probe' = "up" => trouble # "slowPing"
  BY ProbeMoves DEF Deaths
<1>4. ASSUME NEW p \in Processes
      PROVE  /\ child'[p] = "ended" => trouble \notin {"deaf", "dirtyExit"}
             /\ child'[p] = "failed" =>
                    \/ trouble \in {"crashes", "dirtyExit"}
                    \/ p = "worker" /\ test.env = "invalid" /\ trouble # "anyEnv"
             /\ child'[p] = "killed" => phase' \in {"finally", "over"}
  <2>1. CASE child'[p] = child[p]
    BY <2>1, LateStays DEF Deaths
  <2>2. ASSUME NEW to, Turns(p, to), child'[p] = to, to # child[p]
        PROVE  /\ to = "ended" => trouble \notin {"deaf", "dirtyExit"}
               /\ to = "failed" =>
                      \/ trouble \in {"crashes", "dirtyExit"}
                      \/ p = "worker" /\ test.env = "invalid" /\ trouble # "anyEnv"
               /\ to = "killed" => phase' \in {"finally", "over"}
    <3>1. Signalled(p) \in {"stopping", child[p]}
      BY DEF Signalled
    <3>2. At("killApi") \/ At("killWorker") => phase = "finally"
      BY Where DEF Outside, Cleanups, InSetup, InBody, InFinally
    <3> QED
      BY <2>2, <3>1, <3>2 DEF Turns, Go
  <2>3. \/ child'[p] = child[p]
        \/ \E to : child'[p] = to /\ Turns(p, to)
    BY ChildMoves DEF LabTyped
  <2> QED
    BY <2>1, <2>2, <2>3
<1> QED
  BY <1>1, <1>2, <1>3, <1>4 DEF Deaths

-----------------------------------------------------------------------------
(* What the checks of a test establish. *)

\* What holds once a check has been passed, as long as the test runs and after.
Lifecycle ==
    \A end \in TerminalStatus :
        Done(IF end = "Failed" THEN "sawFailed" ELSE "sawFinished") =>
            past[Subject] = <<"Queued", "Scanning", end>> /\ trouble # "skipsScanning"

Ending ==
    /\ Done("endsFinished") =>
           /\ past[Subject] = Closed(Subject, "Finished") /\ ~Frozen(Subject)
           /\ trouble # "scanFails"
    /\ Done("stillFinished") => past[Subject] = Closed(Subject, "Failed") /\ Frozen(Subject)
    /\ Done("noRecords") => past["posted"] = <<>> /\ trouble # "enqueues"

Settling ==
    /\ Done("jobFails") => job[Subject] = "failed" /\ trouble # "settlesWrong"
    /\ Done("jobFailed") \/ Done("jobCompleted") => trouble # "settlesWrong"

Exits ==
    /\ Done("cleanWorker") => child["worker"] = "ended"
    /\ Done("cleanApi") => child["api"] = "ended"
    /\ Done("workerExit") \/ Done("apiExit") => trouble # "deaf"
    /\ Done("exitedNonZero") => trouble # "anyEnv"
    /\ Done("healthUp") => trouble # "slowPing"
    /\ Done("memtest") => trouble # "overLimit"

Verdicts == Lifecycle /\ Ending /\ Settling /\ Exits

Earned ==
    /\ Typed /\ Courses /\ Lined /\ Written /\ InTurn /\ Witnessed /\ Deaths /\ Verdicts

LEMMA DoneDoes == ASSUME Placed, NEW s, Done(s) PROVE Does(test, s)
  BY Scripts DEF Done, Does, Steps, Range, Placed, Plan

LEMMA Passes ==
    ASSUME Placed, Next, NEW s \in Checks, InBody(s), Go
    PROVE  /\ s \in DOMAIN Awaited => Awaited[s]
           /\ s \in DOMAIN Asserted => Asserted[s]
           /\ UNCHANGED <<labVars, child, told, probe, scanVars>>
           /\ Does(test, s)
<1>1. At(s)
  BY DEF InBody, At, Plan
<1> QED
  BY <1>1, CheckHolds, Where

\* What does not follow a step is not due once it is taken.
LEMMA NotAgain ==
    ASSUME Placed, PassedLate, NEW s, Done(s), NEW S, NoneAfter(test, s, S),
           NEW x \in S, x \notin Cleanups
    PROVE  ~At(x)
<1> SUFFICES ASSUME At(x) PROVE FALSE
  OBVIOUS
<1>1. ~InFinally(x)
  BY Where
<1>2. phase = "body" => InBody(x)
  BY Where DEF InSetup, InBody, InFinally
<1>3. phase \in {"setup", "body"}
  BY <1>1, Where DEF InSetup, InBody
<1>4. InBody(x) /\ \E j \in 1..(at - 1) : test.body[j] = s
  BY <1>2, <1>3 DEF Done, PassedLate
<1>5. DOMAIN test.body = 1..Len(test.body) /\ Len(test.body) \in Nat /\ at \in Nat
  BY Scripts DEF Placed
<1> QED
  BY <1>4, <1>5 DEF NoneAfter, InBody

LEMMA Subjected ==
    ASSUME Typed
    PROVE  /\ Subject \in Scans /\ "posted" \in Scans /\ "seeded" \in Scans
           /\ ~Does(test, "seedFinished") => Base(Subject) = "Queued" /\ ~Frozen(Subject)
           /\ Subject = "posted" => Base(Subject) = "Queued" /\ ~Frozen(Subject)
  BY DEF Subject, Scans, Base, Frozen

LEMMA LifecycleStep ==
    ASSUME Earned, Next
    PROVE  Lifecycle'
<1> USE DEF Earned, Typed
<1>1. test' = test /\ trouble' = trouble /\ Subject' = Subject
  BY Moves DEF Subject
<1>2. SUFFICES ASSUME NEW end \in TerminalStatus, NEW s,
                      s = IF end = "Failed" THEN "sawFailed" ELSE "sawFinished", Done(s)'
               PROVE  past'[Subject] = <<"Queued", "Scanning", end>> /\ trouble # "skipsScanning"
  BY <1>1 DEF Lifecycle
<1>3. ASSUME Does(test, s)
      PROVE  Base(Subject) = "Queued" /\ ~Frozen(Subject)
  BY <1>2, <1>3, Subjected, Scripts DEF Orders
<1>4. Append(<<"Queued", "Scanning">>, end) = <<"Queued", "Scanning", end>>
  <2>1. "Queued" \in Statuses /\ "Scanning" \in Statuses /\ end \in Statuses
    BY DEF Statuses, TerminalStatus
  <2> QED
    BY <2>1, AppendTwo
<1>5. CASE Done(s)
  <2>1. past[Subject] = <<"Queued", "Scanning", end>> /\ trouble # "skipsScanning"
    BY <1>2, <1>5 DEF Verdicts, Lifecycle
  <2>2. past[Subject] = Closed(Subject, end)
    BY <1>3, <1>4, <1>5, <2>1, DoneDoes DEF Closed, Marked
  <2> QED
    BY <2>1, <2>2, EndStays, Subjected
<1>6. CASE InBody(s) /\ Go
  <2>1. s \in Checks /\ s \in DOMAIN Asserted
    BY <1>2 DEF Checks, Asserted
  <2>2. Asserted[s] /\ past' = past /\ Does(test, s)
    BY <1>6, <2>1, Passes DEF scanVars
  <2>3. seen = <<"Queued", "Scanning", end>>
    <3>1. CASE end = "Failed"
      <4>1. Asserted["sawFailed"]
        BY <1>2, <2>2, <3>1
      <4> QED
        BY <3>1, <4>1 DEF Asserted, sawLifecycle
    <3>2. CASE end = "Finished"
      <4>1. Asserted["sawFinished"]
        BY <1>2, <2>2, <3>2
      <4> QED
        BY <3>2, <4>1 DEF Asserted, sawLifecycle
    <3> QED
      BY <3>1, <3>2 DEF TerminalStatus
  <2>4. "Scanning" \in Range(past[Subject]) /\ end \in Range(past[Subject])
    <3>1. 2 \in DOMAIN seen /\ 3 \in DOMAIN seen /\ seen[2] = "Scanning" /\ seen[3] = end
      BY <2>3
    <3> QED
      BY <3>1 DEF Witnessed
  <2>5. /\ Range(<<>>) = {} /\ Range(<<"Queued">>) = {"Queued"}
        /\ Range(<<"Queued", "Scanning">>) = {"Queued", "Scanning"}
        /\ \A e : Range(<<"Queued", e>>) = {"Queued", e}
        /\ \A e : Range(<<"Queued", "Scanning", e>>) = {"Queued", "Scanning", e}
    BY DEF Range
  <2>6. past[Subject] \notin {<<>>, <<Base(Subject)>>, Marked(Subject)}
    BY <1>3, <2>2, <2>4, <2>5 DEF Marked, TerminalStatus
  <2>7. PICK e \in TerminalStatus : past[Subject] = Closed(Subject, e)
    BY <2>6, Forms, Shapes, Subjected
  <2>8. past[Subject] = IF trouble = "skipsScanning" THEN <<"Queued", e>>
                        ELSE <<"Queued", "Scanning", e>>
    <3>1. /\ Append(<<"Queued">>, e) = <<"Queued", e>>
          /\ Append(<<"Queued", "Scanning">>, e) = <<"Queued", "Scanning", e>>
      <4>1. "Queued" \in Statuses /\ "Scanning" \in Statuses /\ e \in Statuses
        BY DEF Statuses, TerminalStatus
      <4> QED
        BY <4>1, AppendOne, AppendTwo
    <3> QED
      BY <1>3, <2>2, <2>7, <3>1 DEF Closed, Marked
  <2>9. e = end /\ trouble # "skipsScanning"
    BY <2>4, <2>5, <2>8 DEF TerminalStatus
  <2> QED
    BY <2>2, <2>8, <2>9
<1> QED
  BY <1>2, <1>5, <1>6, DoneStep DEF Deaths

LEMMA EndingStep ==
    ASSUME Earned, Next
    PROVE  Ending'
<1> USE DEF Earned, Typed
<1>1. test' = test /\ trouble' = trouble /\ Subject' = Subject /\ Orders(test)
  BY Moves, Scripts DEF Subject
<1>2. \A i, end : Closed(i, end)' = Closed(i, end) /\ Frozen(i)' = Frozen(i)
  BY <1>1 DEF Closed, Marked, Frozen, Base
<1>3. "Finished" \in TerminalStatus /\ "Failed" \in TerminalStatus /\ "Finished" # "Failed"
  BY DEF TerminalStatus
<1>4. ASSUME Done("endsFinished")'
      PROVE  /\ past'[Subject] = Closed(Subject, "Finished") /\ ~Frozen(Subject)
             /\ trouble # "scanFails"
  <2>1. CASE Done("endsFinished")
    BY <1>3, <2>1, EndStays, Subjected DEF Verdicts, Ending
  <2>2. CASE InBody("endsFinished") /\ Go
    <3>1. "endsFinished" \in Checks /\ "endsFinished" \in DOMAIN Asserted
      BY DEF Checks, Asserted
    <3>2. Asserted["endsFinished"] /\ past' = past /\ Does(test, "endsFinished")
      BY <2>2, <3>1, Passes DEF scanVars
    <3>3. Status(Subject) = "Finished"
      BY <3>2 DEF Asserted
    <3>4. Base(Subject) = "Queued" /\ ~Frozen(Subject)
      BY <1>1, <3>2, Subjected DEF Orders
    <3>5. past[Subject] # <<>>
      BY <3>3 DEF Status
    <3>6. past[Subject] \notin {<<Base(Subject)>>, Marked(Subject)}
      BY <3>3, <3>4, Shapes, Subjected
    <3>7. PICK e \in EndsOf(Subject) : past[Subject] = Closed(Subject, e)
      BY <3>5, <3>6, Forms, Subjected
    <3>8. e = "Finished"
      BY <3>3, <3>4, <3>7, Shapes, Subjected
    <3> QED
      BY <3>2, <3>4, <3>7, <3>8 DEF EndsOf
  <2> QED
    BY <1>4, <2>1, <2>2, DoneStep DEF Deaths
<1>5. ASSUME Done("stillFinished")'
      PROVE  past'[Subject] = Closed(Subject, "Failed") /\ Frozen(Subject)
  <2>1. CASE Done("stillFinished")
    BY <1>3, <2>1, EndStays, Subjected DEF Verdicts, Ending
  <2>2. CASE InBody("stillFinished") /\ Go
    <3>1. "stillFinished" \in Checks /\ "stillFinished" \in DOMAIN Asserted
      BY DEF Checks, Asserted
    <3>2. Asserted["stillFinished"] /\ past' = past /\ Does(test, "stillFinished")
      BY <2>2, <3>1, Passes DEF scanVars
    <3>3. Status(Subject) = "Finished"
      BY <3>2 DEF Asserted
    <3>4. Done("jobFails")
      <4>1. Been({"jobFails"}) /\ phase = "body"
        BY <1>1, <2>2, <3>2, AfterOne DEF Orders, InBody
      <4> QED
        BY <4>1 DEF Been, Done
    <3>5. job[Subject] = "failed"
      BY <3>4 DEF Verdicts, Settling
    <3>6. PICK e \in EndsOf(Subject) : past[Subject] = Closed(Subject, e)
      BY <3>5, Subjected DEF Courses, Course
    <3>7. e = "Failed"
      BY <1>1, <3>2, <3>6 DEF Orders, EndsOf
    <3>8. Frozen(Subject)
      BY <1>3, <3>3, <3>6, <3>7, Shapes, Subjected
    <3> QED
      BY <3>2, <3>6, <3>7, <3>8
  <2> QED
    BY <1>5, <2>1, <2>2, DoneStep DEF Deaths
<1>6. ASSUME Done("noRecords")'
      PROVE  past'["posted"] = <<>> /\ trouble # "enqueues"
  <2>1. CASE Done("noRecords")
    <3>1. past["posted"] = <<>> /\ trouble # "enqueues"
      BY <2>1 DEF Verdicts, Ending
    <3>2. NoneAfter(test, "noRecords", Posting)
      BY <1>1, <2>1, DoneDoes DEF Orders
    <3>3. \A s \in Posting : ~At(s)
      BY <2>1, <3>2, NotAgain DEF Deaths, Posting, Cleanups
    <3>4. past["posted"] \notin {<<Base("posted")>>, Marked("posted")}
      BY <3>1, Shapes, Subjected
    <3> QED
      BY <3>1, <3>3, <3>4, PastMoves, Subjected DEF Posting
  <2>2. CASE InBody("noRecords") /\ Go
    <3>1. "noRecords" \in Checks /\ "noRecords" \in DOMAIN Asserted
      BY DEF Checks, Asserted
    <3>2. Asserted["noRecords"] /\ past' = past /\ Does(test, "noRecords")
      BY <2>2, <3>1, Passes DEF scanVars
    <3>3. past["posted"] = <<>>
      BY <3>2 DEF Asserted
    <3>4. Been({"postMalformed"}) /\ phase = "body"
      BY <1>1, <2>2, AfterOne DEF Orders, InBody
    <3>5. trouble # "enqueues"
      BY <3>3, <3>4 DEF Written
    <3> QED
      BY <3>2, <3>3, <3>5
  <2> QED
    BY <1>6, <2>1, <2>2, DoneStep DEF Deaths
<1> QED
  BY <1>1, <1>2, <1>4, <1>5, <1>6 DEF Ending

LEMMA SettlingStep ==
    ASSUME Earned, Next
    PROVE  Settling'
<1> USE DEF Earned, Typed
<1>1. test' = test /\ trouble' = trouble /\ Subject' = Subject /\ Orders(test)
  BY Moves, Scripts DEF Subject
<1>2. ASSUME job[Subject] = "failed", test.fault # "none"
      PROVE  trouble # "settlesWrong"
  BY <1>2, Subjected DEF Courses, Course, EndsOf
<1>3. ASSUME Done("jobFails")'
      PROVE  job'[Subject] = "failed" /\ trouble # "settlesWrong"
  <2>1. CASE Done("jobFails")
    BY <2>1, JobStays, Subjected DEF Verdicts, Settling
  <2>2. CASE InBody("jobFails") /\ Go
    <3>1. "jobFails" \in Checks /\ "jobFails" \in DOMAIN Awaited
      BY DEF Checks, Awaited
    <3>2. Awaited["jobFails"] /\ job' = job /\ Does(test, "jobFails")
      BY <2>2, <3>1, Passes DEF scanVars
    <3>3. job[Subject] = "failed"
      BY <3>2 DEF Awaited
    <3> QED
      BY <1>1, <1>2, <3>2, <3>3 DEF Orders
  <2> QED
    BY <1>3, <2>1, <2>2, DoneStep DEF Deaths
<1>4. ASSUME Done("jobFailed")'
      PROVE  trouble # "settlesWrong"
  <2>1. CASE Done("jobFailed")
    BY <2>1 DEF Verdicts, Settling
  <2>2. CASE InBody("jobFailed") /\ Go
    <3>1. "jobFailed" \in Checks /\ "jobFailed" \in DOMAIN Asserted
      BY DEF Checks, Asserted
    <3>2. Asserted["jobFailed"] /\ Does(test, "jobFailed")
      BY <2>2, <3>1, Passes
    <3>3. job[Subject] = "failed"
      BY <3>2 DEF Asserted
    <3> QED
      BY <1>1, <1>2, <3>2, <3>3 DEF Orders
  <2> QED
    BY <1>4, <2>1, <2>2, DoneStep DEF Deaths
<1>5. ASSUME Done("jobCompleted")'
      PROVE  trouble # "settlesWrong"
  <2>1. CASE Done("jobCompleted")
    BY <2>1 DEF Verdicts, Settling
  <2>2. CASE InBody("jobCompleted") /\ Go
    <3>1. "jobCompleted" \in Checks /\ "jobCompleted" \in DOMAIN Asserted
      BY DEF Checks, Asserted
    <3>2. Asserted["jobCompleted"]
      BY <2>2, <3>1, Passes
    <3>3. job[Subject] = "completed"
      BY <3>2 DEF Asserted
    <3>4. Been({"endsFinished"}) /\ phase = "body"
      BY <1>1, <2>2, AfterOne DEF Orders, InBody
    <3>5. Done("endsFinished")
      BY <3>4 DEF Been, Done
    <3>6. past[Subject] = Closed(Subject, "Finished") /\ ~Frozen(Subject)
      BY <3>5 DEF Verdicts, Ending
    <3>7. PICK e \in EndsOf(Subject) :
              /\ past[Subject] = Closed(Subject, e)
              /\ job[Subject] = "failed" <=> ((e = "Failed") # (trouble = "settlesWrong"))
      BY <3>3, Subjected DEF Courses, Course
    <3>8. e = "Finished"
      BY <3>6, <3>7, Shapes, Subjected DEF TerminalStatus
    <3> QED
      BY <3>3, <3>7, <3>8
  <2> QED
    BY <1>5, <2>1, <2>2, DoneStep DEF Deaths
<1> QED
  BY <1>1, <1>3, <1>4, <1>5 DEF Settling

\* A child that has ended stays so, unless the test starts it again.
LEMMA EndedStays ==
    ASSUME Typed, Next, NEW p \in Processes, child[p] = "ended", child'[p] # "ended"
    PROVE  IF p = "api" THEN At("spawnApi") ELSE At("spawnWorker") \/ At("runWorker")
<1>1. PICK to : child'[p] = to /\ Turns(p, to)
  BY ChildMoves DEF Typed, LabTyped
<1> QED
  BY <1>1 DEF Turns, Signalled, Alive

LEMMA ExitsStep ==
    ASSUME Earned, Next
    PROVE  Exits'
<1> USE DEF Earned, Typed
<1>1. test' = test /\ trouble' = trouble /\ Orders(test)
  BY Moves, Scripts
<1>2. "api" \in Processes /\ "worker" \in Processes
  BY DEF Processes
<1>3. ASSUME NEW s \in Checks, InBody(s), Go
      PROVE  /\ s \in DOMAIN Awaited => Awaited[s]
             /\ s \in DOMAIN Asserted => Asserted[s]
             /\ child' = child /\ Does(test, s)
  BY <1>3, Passes
<1>4. ASSUME Done("cleanWorker")'
      PROVE  child'["worker"] = "ended"
  <2>1. CASE Done("cleanWorker")
    <3>1. child["worker"] = "ended"
      BY <2>1 DEF Verdicts, Exits
    <3>2. NoneAfter(test, "cleanWorker", {"spawnWorker", "runWorker"})
      BY <1>1, <2>1, DoneDoes DEF Orders
    <3>3. ~At("spawnWorker") /\ ~At("runWorker")
      BY <2>1, <3>2, NotAgain DEF Deaths, Cleanups
    <3> QED
      BY <1>2, <3>1, <3>3, EndedStays
  <2>2. CASE InBody("cleanWorker") /\ Go
    <3>1. "cleanWorker" \in Checks /\ "cleanWorker" \in DOMAIN Asserted
      BY DEF Checks, Asserted
    <3> QED
      BY <1>3, <2>2, <3>1 DEF Asserted, assertCleanShutdown
  <2> QED
    BY <1>4, <2>1, <2>2, DoneStep DEF Deaths
<1>5. ASSUME Done("cleanApi")'
      PROVE  child'["api"] = "ended"
  <2>1. CASE Done("cleanApi")
    <3>1. child["api"] = "ended"
      BY <2>1 DEF Verdicts, Exits
    <3>2. NoneAfter(test, "cleanApi", {"spawnApi"})
      BY <1>1, <2>1, DoneDoes DEF Orders
    <3>3. ~At("spawnApi")
      BY <2>1, <3>2, NotAgain DEF Deaths, Cleanups
    <3> QED
      BY <1>2, <3>1, <3>3, EndedStays
  <2>2. CASE InBody("cleanApi") /\ Go
    <3>1. "cleanApi" \in Checks /\ "cleanApi" \in DOMAIN Asserted
      BY DEF Checks, Asserted
    <3> QED
      BY <1>3, <2>2, <3>1 DEF Asserted, assertCleanShutdown
  <2> QED
    BY <1>5, <2>1, <2>2, DoneStep DEF Deaths
<1>6. ASSUME Done("workerExit")'
      PROVE  trouble # "deaf"
  <2>1. CASE Done("workerExit")
    BY <2>1 DEF Verdicts, Exits
  <2>2. CASE InBody("workerExit") /\ Go
    <3>1. "workerExit" \in Checks /\ "workerExit" \in DOMAIN Awaited
      BY DEF Checks, Awaited
    <3>2. child["worker"] \in {"ended", "failed", "killed"} /\ Does(test, "workerExit")
      BY <1>3, <2>2, <3>1 DEF Awaited, waitExit
    <3>3. test.env = "valid" /\ phase = "body"
      BY <1>1, <2>2, <3>2 DEF Orders, InBody
    <3> QED
      BY <1>2, <3>2, <3>3 DEF Deaths
  <2> QED
    BY <1>6, <2>1, <2>2, DoneStep DEF Deaths
<1>7. ASSUME Done("apiExit")'
      PROVE  trouble # "deaf"
  <2>1. CASE Done("apiExit")
    BY <2>1 DEF Verdicts, Exits
  <2>2. CASE InBody("apiExit") /\ Go
    <3>1. "apiExit" \in Checks /\ "apiExit" \in DOMAIN Awaited
      BY DEF Checks, Awaited
    <3>2. child["api"] \in {"ended", "failed", "killed"} /\ phase = "body"
      BY <1>3, <2>2, <3>1 DEF Awaited, waitExit, InBody
    <3> QED
      BY <1>2, <3>2 DEF Deaths
  <2> QED
    BY <1>7, <2>1, <2>2, DoneStep DEF Deaths
<1>8. ASSUME Done("exitedNonZero")'
      PROVE  trouble # "anyEnv"
  <2>1. CASE Done("exitedNonZero")
    BY <2>1 DEF Verdicts, Exits
  <2>2. CASE InBody("exitedNonZero") /\ Go
    <3>1. "exitedNonZero" \in Checks /\ "exitedNonZero" \in DOMAIN Asserted
      BY DEF Checks, Asserted
    <3>2. child["worker"] = "failed"
      BY <1>3, <2>2, <3>1 DEF Asserted
    <3> QED
      BY <1>2, <3>2 DEF Deaths
  <2> QED
    BY <1>8, <2>1, <2>2, DoneStep DEF Deaths
<1>9. ASSUME Done("healthUp")'
      PROVE  trouble # "slowPing"
  <2>1. CASE Done("healthUp")
    BY <2>1 DEF Verdicts, Exits
  <2>2. CASE InBody("healthUp") /\ Go
    <3>1. "healthUp" \in Checks /\ "healthUp" \in DOMAIN Asserted
      BY DEF Checks, Asserted
    <3>2. probe = "up"
      BY <1>3, <2>2, <3>1 DEF Asserted
    <3> QED
      BY <3>2 DEF Deaths
  <2> QED
    BY <1>9, <2>1, <2>2, DoneStep DEF Deaths
<1>10. ASSUME Done("memtest")'
       PROVE  trouble # "overLimit"
  <2>1. CASE Done("memtest")
    BY <2>1 DEF Verdicts, Exits
  <2>2. CASE InBody("memtest") /\ Go
    <3>1. "memtest" \in Checks /\ "memtest" \in DOMAIN Asserted
      BY DEF Checks, Asserted
    <3> QED
      BY <1>3, <2>2, <3>1 DEF Asserted
  <2> QED
    BY <1>10, <2>1, <2>2, DoneStep DEF Deaths
<1> QED
  BY <1>1, <1>4, <1>5, <1>6, <1>7, <1>8, <1>9, <1>10 DEF Exits

LEMMA InitEarned == Init => Earned
<1> SUFFICES ASSUME Init PROVE Earned
  OBVIOUS
<1>1. Typed
  BY InitTyped
<1>2. Courses /\ Lined /\ InTurn /\ Witnessed
  BY DEF Init, Courses, Course, Lined, InTurn, Witnessed, Scans
<1>3. Written
  BY DEF Init, Written, Been, Scans
<1>4. Deaths
  BY DEF Init, Deaths, PassedLate, Processes
<1>5. \A s : ~Done(s)
  BY DEF Init, Done
<1> QED
  BY <1>1, <1>2, <1>3, <1>4, <1>5 DEF Earned, Verdicts, Lifecycle, Ending, Settling, Exits

LEMMA StepEarned == Earned /\ [Next]_vars => Earned'
<1> SUFFICES ASSUME Earned, [Next]_vars PROVE Earned'
  OBVIOUS
<1>1. CASE UNCHANGED vars
  <2>1. /\ UNCHANGED <<test, trouble, phase, at, outcome, seen, child, probe>>
        /\ UNCHANGED <<past, job, line, hand, stage>>
    BY <1>1 DEF vars, testVars, labVars, scanVars
  <2>2. Typed'
    BY <1>1, StepTyped DEF Earned
  <2>3. \A i : Course(i)' = Course(i)
    BY <2>1 DEF Course, Base, Marked, Closed, Frozen, EndsOf
  <2>4. Courses' /\ Lined' /\ InTurn'
    BY <2>1, <2>3 DEF Earned, Courses, Lined, InTurn
  <2>5. Written'
    BY <2>1 DEF Earned, Written, Been
  <2>6. Witnessed' /\ Deaths'
    BY <2>1 DEF Earned, Witnessed, Deaths, PassedLate, Subject
  <2>7. /\ \A s : Done(s)' = Done(s)
        /\ \A end : Closed(Subject, end)' = Closed(Subject, end)
        /\ Frozen(Subject)' = Frozen(Subject) /\ Subject' = Subject
    BY <2>1 DEF Done, Closed, Marked, Frozen, Base, Subject
  <2>8. Lifecycle' /\ Ending' /\ Settling' /\ Exits'
    BY <2>1, <2>7 DEF Earned, Verdicts, Lifecycle, Ending, Settling, Exits
  <2> QED
    BY <2>2, <2>4, <2>5, <2>6, <2>8 DEF Earned, Verdicts
<1>2. CASE Next
  <2>1. Typed' /\ Courses' /\ Lined' /\ Written' /\ InTurn'
    BY <1>2, StepTyped, CourseStep, LinedStep, WrittenStep, InTurnStep DEF Earned
  <2>2. Witnessed' /\ Deaths'
    BY <1>2, WitnessedStep, DeathsStep DEF Earned
  <2>3. Verdicts'
    BY <1>2, LifecycleStep, EndingStep, SettlingStep, ExitsStep DEF Verdicts
  <2> QED
    BY <2>1, <2>2, <2>3 DEF Earned
<1> QED
  BY <1>1, <1>2

LEMMA EarnedAlways == Spec => []Earned
  BY InitEarned, StepEarned, PTL DEF Spec

\* A test that passed has taken every step of its body.
LEMMA AllDone ==
    ASSUME Placed, outcome = "passed", NEW s, s \notin Outside \cup Cleanups, Does(test, s)
    PROVE  Done(s)
  BY BodyOnly DEF Done

\* What a test that passed claims to have seen was so: the whole lifecycle it
\* compares though its observer polls, the guard of which it sees the last
\* status only, the exits, and the order of the jobs of a queue it shares.
THEOREM PassesAreEarned == Spec => []PassedForCause
<1>1. Earned => PassedForCause
  <2> SUFFICES ASSUME Earned, outcome = "passed"
               PROVE  PassedForCause
    BY DEF PassedForCause
  <2> USE DEF Earned, Typed
  <2>1. Orders(test)
    BY Scripts
  <2>2. ASSUME NEW end \in TerminalStatus,
               Does(test, IF end = "Failed" THEN "sawFailed" ELSE "sawFinished")
        PROVE  past[Subject] = <<"Queued", "Scanning", end>>
    BY <2>2, AllDone DEF Verdicts, Lifecycle, Outside, Cleanups
  <2>3. ASSUME Does(test, "neverScanning")
        PROVE  past[Subject] = <<"Finished">>
    <3>1. Done("stillFinished")
      BY <2>1, <2>3, AllDone DEF Orders, Outside, Cleanups
    <3> QED
      BY <3>1 DEF Verdicts, Ending, Closed
  <2>4. ASSUME Does(test, "noRecords"), NEW i \in Scans
        PROVE  past[i] = <<>> /\ job[i] = "none"
    <3>1. past["posted"] = <<>>
      BY <2>4, AllDone DEF Verdicts, Ending, Outside, Cleanups
    <3>2. past["seeded"] = <<>>
      BY <2>1, <2>4 DEF Orders, Written
    <3>3. past[i] = <<>>
      BY <3>1, <3>2 DEF Scans
    <3> QED
      BY <3>3, Unwritten
  <2>5. Does(test, "cleanWorker") => child["worker"] = "ended"
    BY AllDone DEF Verdicts, Exits, Outside, Cleanups
  <2>6. Does(test, "cleanApi") => child["api"] = "ended"
    BY AllDone DEF Verdicts, Exits, Outside, Cleanups
  <2>7. ASSUME Does(test, "post"), Does(test, "addJob")
        PROVE  Status("posted") \in TerminalStatus
    <3>1. Done("endsFinished") /\ Subject = "seeded"
      BY <2>1, <2>7, AllDone DEF Orders, Outside, Cleanups, Subject
    <3>2. past["seeded"] = Closed("seeded", "Finished") /\ ~Frozen("seeded")
      BY <3>1 DEF Verdicts, Ending
    <3>3. job["seeded"] \in {"active", "completed", "failed"}
      BY <3>1, <3>2, Unclosed, Subjected DEF TerminalStatus, ScanTyped
    <3>4. job["posted"] \in {"completed", "failed"}
      BY <2>7, <3>3 DEF InTurn
    <3>5. \E e \in EndsOf("posted") : past["posted"] = Closed("posted", e)
      BY <3>4, Subjected DEF Courses, Course
    <3> QED
      BY <3>5, Shapes, Subjected DEF TerminalStatus
  <2> QED
    BY <2>2, <2>3, <2>4, <2>5, <2>6, <2>7 DEF PassedForCause
<1> QED
  BY <1>1, EarnedAlways, PTL

\* No test passes over the trouble it is there to find.
THEOREM TroubleIsCaught == Spec => []TroubleCaught
<1>1. Earned => TroubleCaught
  <2> SUFFICES ASSUME Earned, outcome = "passed", trouble \in DOMAIN Business,
                      NEW s \in Business[trouble], Does(test, s)
               PROVE  FALSE
    BY DEF TroubleCaught
  <2> USE DEF Earned, Typed
  <2>1. \A t \in DOMAIN Business : Business[t] \cap (Outside \cup Cleanups) = {}
    BY DEF Business, Outside, Cleanups
  <2>2. Done(s)
    BY <2>1, AllDone
  <2>3. trouble \in {"deaf", "dirtyExit", "anyEnv", "enqueues", "overwrites", "skipsScanning",
                     "settlesWrong", "scanFails", "slowPing", "overLimit"}
    BY DEF Business
  <2>4. trouble # "dirtyExit"
    <3>1. trouble = "dirtyExit" => s \in {"cleanWorker", "cleanApi"}
      BY DEF Business
    <3> QED
      BY <2>2, <3>1 DEF Verdicts, Exits, Deaths, Processes
  <2>5. trouble \notin {"deaf", "anyEnv", "slowPing", "overLimit"}
    BY <2>2 DEF Business, Verdicts, Exits
  <2>6. trouble # "settlesWrong"
    BY <2>2 DEF Business, Verdicts, Settling
  <2>7. trouble \notin {"enqueues", "scanFails"}
    BY <2>2 DEF Business, Verdicts, Ending
  <2>8. trouble # "overwrites"
    BY <2>2 DEF Business, Verdicts, Ending, Frozen
  <2>9. trouble # "skipsScanning"
    BY <2>2 DEF Business, Verdicts, Lifecycle, TerminalStatus
  <2> QED
    BY <2>3, <2>4, <2>5, <2>6, <2>7, <2>8, <2>9
<1> QED
  BY <1>1, EarnedAlways, PTL

-----------------------------------------------------------------------------
(* What a test may count on when nothing is wrong. *)

\* The test has started p.
Started(p) ==
    IF p = "worker" THEN Been(Launches)
    ELSE \/ Been({"spawnApi"})
         \/ phase = "setup" /\ Did("spawnApi")
         \/ phase # "setup" /\ "spawnApi" \in Range(test.setup)

Children ==
    /\ \A p \in Processes :
           /\ child[p] # "none" => Started(p)
           /\ phase \in {"setup", "body"} /\ Started(p) => child[p] # "none"
           /\ p \in told => child[p] \notin {"none", "boot"}
    /\ child["api"] \in {"stopping", "ended"} => Been({"termApi"})
    /\ child["worker"] \in {"stopping", "ended"} => Been({"termWorker", "settled"})
    /\ "worker" \in told => test.env = "valid" \/ trouble = "anyEnv"

Gone == {"ended", "failed", "killed"}

\* What the body has waited for, and the container it has run.
Readied ==
    phase = "body" =>
        /\ Been({"apiReady", "apiReadyOrGone"}) => "api" \in told
        /\ Been({"workerReady"}) => "worker" \in told
        /\ Been({"apiExit"}) => child["api"] \in Gone
        /\ Been({"workerExit"}) => child["worker"] \in Gone
        /\ Been({"runContainer"}) /\ trouble # "overLimit" => box \in {"running", "done"}

\* What runWorker has resolved with.
Kinds ==
    /\ kind # "none" => Been({"settled"})
    /\ phase = "body" =>
           /\ Been({"settled"}) => kind # "none"
           /\ kind = "exit" /\ trouble = "none" => child["worker"] = "failed"
           /\ kind = "marker" => "worker" \in told

\* Redis is there until the test kills it, and a probe says so.
Reached ==
    /\ phase = "setup" => probe = "none" /\ (Did("startRedis") => redis = "up")
    /\ phase = "body" /\ "startRedis" \in Range(test.setup) =>
           Been({"killRedis"}) \/ redis = "up"
    /\ probe = "down" => redis # "up" \/ trouble = "slowPing"

\* Without a worker nothing happens to a job.
Idle ==
    /\ child["worker"] = "none" => \A i \in Scans : job[i] \in {"none", "waiting"}
    /\ past["posted"] # <<>> /\ trouble # "enqueues" => Been({"post"})

Blamed ==
    outcome = "failed" /\ trouble = "none" =>
        why \in {"timer"} \cup Racy \/ (kind = "timeout" /\ phase \in {"finally", "over"})

\* The step that starts p, as At tells it.
Launching(p) == IF p = "api" THEN At("spawnApi") ELSE At("spawnWorker") \/ At("runWorker")

LEMMA NewStart ==
    ASSUME Placed, NEW p \in Processes, Launching(p)
    PROVE  ~Started(p)
<1>1. Expects(test) /\ at \in Nat
  BY Scripts DEF Placed
<1>2. /\ DOMAIN test.setup = 1..Len(test.setup) /\ Len(test.setup) \in Nat
      /\ DOMAIN test.body = 1..Len(test.body) /\ Len(test.body) \in Nat
  BY Scripts
<1>3. CASE p = "worker"
  <2>1. PICK s \in Launches : At(s)
    BY <1>3 DEF Launching, Launches
  <2>2. InBody(s)
    BY <2>1, Where DEF Launches, Outside, Cleanups
  <2> QED
    BY <1>1, <1>3, <2>2, FirstTime DEF Expects, Started
<1>4. CASE p # "worker"
  <2>1. At("spawnApi")
    BY <1>4 DEF Launching, Processes
  <2>2. CASE InSetup("spawnApi")
    <3>1. at = Len(test.setup) /\ phase = "setup"
      BY <1>1, <2>2 DEF Expects, InSetup
    <3>2. ~Did("spawnApi")
      BY <1>1, <1>2, <3>1 DEF Expects, Did
    <3> QED
      BY <1>4, <3>1, <3>2 DEF Started, Been
  <2>3. CASE InBody("spawnApi")
    <3>1. ~Been({"spawnApi"})
      BY <1>1, <2>3, FirstTime DEF Expects
    <3>2. "spawnApi" \in Range(test.body) /\ phase = "body"
      BY <2>3 DEF InBody, Range
    <3>3. "spawnApi" \notin Range(test.setup)
      BY <1>1, <3>2 DEF Expects, Range
    <3> QED
      BY <1>4, <3>1, <3>2, <3>3 DEF Started
  <2> QED
    BY <2>1, <2>2, <2>3, Where DEF Cleanups
<1> QED
  BY <1>3, <1>4

LEMMA StartedKept ==
    ASSUME Placed, Next, NEW p \in Processes, Started(p)
    PROVE  Started(p)'
<1>1. test' = test /\ at \in Nat \ {0}
  BY Moves DEF Placed
<1>2. /\ DOMAIN test.setup = 1..Len(test.setup) /\ Len(test.setup) \in Nat
  BY Scripts
<1>3. Did("spawnApi") /\ phase = "setup" => "spawnApi" \in Range(test.setup)
  BY <1>2 DEF Did, Range, Placed, Plan
<1>4. \A S : Been(S) => Been(S)'
  BY BeenKept
<1>5. phase # "setup" => phase' # "setup"
  BY Moves DEF Expires, PhaseEnds, Skips, Fell, Go, Placed
<1>6. Did("spawnApi") /\ phase = "setup" /\ phase' = "setup" => Did("spawnApi")'
  BY <1>1, Moves DEF Did, Expires, PhaseEnds, Skips, Fell, Go
<1> QED
  BY <1>1, <1>3, <1>4, <1>5, <1>6 DEF Started

\* A process is started by its step only.
LEMMA StartedStep ==
    ASSUME Placed, Next, NEW p \in Processes, phase' \in {"setup", "body"}, Started(p)'
    PROVE  (Started(p) /\ phase \in {"setup", "body"}) \/ (Launching(p) /\ Go)
<1>1. test' = test /\ at \in Nat \ {0}
  BY Moves DEF Placed
<1>2. DOMAIN test.setup = 1..Len(test.setup) /\ Len(test.setup) \in Nat
  BY Scripts
<1>3. phase \in {"setup", "body"}
  BY LateStays DEF Placed
<1>4. ASSUME NEW S, Been(S)'
      PROVE  Been(S) \/ \E s \in S : At(s) /\ Go
  <2>1. \A s : InBody(s) => At(s)
    BY DEF InBody, At, Plan
  <2> QED
    BY <1>4, <2>1, BeenStep
<1>5. ASSUME p # "worker", phase' = "setup", Did("spawnApi")'
      PROVE  (phase = "setup" /\ Did("spawnApi")) \/ (At("spawnApi") /\ Go)
  <2>1. phase = "setup"
    BY <1>3, <1>5, Moves DEF Expires, PhaseEnds, Skips, Fell, Go, Placed
  <2>2. PICK j \in 1..(at' - 1) : test.setup[j] = "spawnApi"
    BY <1>1, <1>5 DEF Did
  <2>3. CASE at' = at
    BY <2>1, <2>2, <2>3 DEF Did
  <2>4. ASSUME NEW s, At(s), Go
        PROVE  (phase = "setup" /\ Did("spawnApi")) \/ (At("spawnApi") /\ Go)
    <3>1. at' = at + 1 /\ test.setup[at] = s
      BY <2>1, <2>4 DEF Go, At, Plan
    <3>2. CASE j = at
      BY <2>2, <2>4, <3>1, <3>2
    <3>3. CASE j # at
      <4>1. j \in 1..(at - 1)
        BY <1>1, <2>2, <3>1, <3>3
      <4> QED
        BY <2>1, <2>2, <4>1 DEF Did
    <3> QED
      BY <3>2, <3>3
  <2>5. at' # 1
    BY <2>2
  <2> QED
    BY <2>3, <2>4, <2>5, Moves DEF Expires, PhaseEnds, Skips, Fell
<1>6. ASSUME p # "worker", phase' # "setup", "spawnApi" \in Range(test.setup)
      PROVE  Started(p)
  <2>1. CASE phase # "setup"
    BY <1>6, <2>1 DEF Started
  <2>2. CASE phase = "setup"
    <3>1. PhaseEnds
      BY <1>6, <2>2, Moves DEF Expires, PhaseEnds, Skips, Fell, Go
    <3>2. at = Len(test.setup) + 1
      BY <2>2, <3>1 DEF PhaseEnds, Plan
    <3>3. Did("spawnApi")
      BY <1>2, <1>6, <3>2 DEF Did, Range
    <3> QED
      BY <1>6, <2>2, <3>3 DEF Started
  <2> QED
    BY <2>1, <2>2
<1>7. CASE p = "worker"
  BY <1>3, <1>4, <1>7 DEF Started, Launching, Launches
<1>8. CASE p # "worker"
  <2>1. p = "api"
    BY <1>8 DEF Processes
  <2> QED
    BY <1>1, <1>3, <1>4, <1>5, <1>6, <1>8, <2>1 DEF Started, Launching
<1> QED
  BY <1>7, <1>8

LEMMA OneTurn ==
    ASSUME Typed, Next, NEW p \in Processes
    PROVE  /\ child'[p] = child[p] \/ \E to : child'[p] = to /\ Turns(p, to)
           /\ child[p] # "none" => child'[p] # "none"
           /\ child[p] \in Gone => child'[p] = child[p] \/ (Launching(p) /\ Go)
           /\ child'[p] = "boot" => child[p] = "boot" \/ (Launching(p) /\ Go)
<1>1. child'[p] = child[p] \/ \E to : child'[p] = to /\ Turns(p, to)
  BY ChildMoves DEF Typed, LabTyped
<1>2. ASSUME NEW to, child'[p] = to, Turns(p, to)
      PROVE  /\ child[p] # "none" => to # "none"
             /\ child[p] \in Gone => to = child[p] \/ (Launching(p) /\ Go)
             /\ to = "boot" => Launching(p) /\ Go
  BY <1>2 DEF Turns, Signalled, Alive, Gone, Launching
<1> QED
  BY <1>1, <1>2

LEMMA ChildrenStep ==
    ASSUME Typed, Children, Next
    PROVE  Children'
<1> USE DEF Typed
<1>1. test' = test /\ trouble' = trouble /\ "api" \in Processes /\ "worker" \in Processes
  BY Moves DEF Processes
<1>2. ASSUME NEW p \in Processes, Launching(p), Go
      PROVE  Started(p)' /\ child'[p] = "boot"
  <2>1. \A s : At(s) => InSetup(s) \/ InBody(s) \/ InFinally(s)
    BY Where
  <2>2. at' = at + 1 /\ phase' = phase /\ at \in Nat \ {0}
    BY <1>2 DEF Go, Placed
  <2>3. ASSUME NEW s, NEW S, s \in S, InBody(s)
        PROVE  Been(S)'
    BY <1>1, <2>2, <2>3 DEF Been, InBody
  <2>4. Started(p)'
    <3>1. CASE p = "api"
      <4>1. InSetup("spawnApi") \/ InBody("spawnApi")
        BY <1>2, <3>1, Where DEF Launching, Cleanups
      <4>2. InSetup("spawnApi") => (phase = "setup" /\ Did("spawnApi"))'
        BY <1>1, <2>2 DEF InSetup, Did
      <4> QED
        BY <2>3, <3>1, <4>1, <4>2 DEF Started
    <3>2. CASE p = "worker"
      <4>1. InBody("spawnWorker") \/ InBody("runWorker")
        BY <1>2, <3>2, Where DEF Launching, Cleanups, Outside
      <4> QED
        BY <2>3, <3>2, <4>1 DEF Started, Launches
    <3> QED
      BY <3>1, <3>2 DEF Processes
  <2>5. child'[p] = "boot"
    BY <1>2, Sets DEF Launching, LabTyped, Processes
  <2> QED
    BY <2>4, <2>5
<1>3. ASSUME NEW p \in Processes
      PROVE  /\ child'[p] # "none" => Started(p)'
             /\ phase' \in {"setup", "body"} /\ Started(p)' => child'[p] # "none"
             /\ p \in told' => child'[p] \notin {"none", "boot"}
  <2>1. child'[p] # "none" => Started(p)'
    <3>1. CASE child[p] # "none"
      BY <3>1, StartedKept DEF Children
    <3>2. CASE child[p] = "none" /\ child'[p] # "none"
      <4>1. PICK to : child'[p] = to /\ Turns(p, to)
        BY <3>2, OneTurn
      <4>2. Launching(p) /\ Go
        BY <3>2, <4>1 DEF Turns, Signalled, Alive, Launching
      <4> QED
        BY <1>2, <4>2
    <3> QED
      BY <3>1, <3>2
  <2>2. phase' \in {"setup", "body"} /\ Started(p)' => child'[p] # "none"
    BY <1>2, StartedStep, OneTurn DEF Children
  <2>3. ASSUME p \in told'
        PROVE  child'[p] \notin {"none", "boot"}
    <3>1. CASE p \in told
      <4>1. child[p] \notin {"none", "boot"} /\ Started(p)
        BY <3>1 DEF Children
      <4>2. ~Launching(p)
        BY <4>1, NewStart
      <4> QED
        BY <4>1, <4>2, OneTurn
    <3>2. CASE p \notin told
      <4>1. p \notin Lines \ Processes
        OBVIOUS
      <4>2. child' = [child EXCEPT ![p] = "up"]
        BY <2>3, <3>2, <4>1, ToldMoves
      <4> QED
        BY <4>2 DEF LabTyped
    <3> QED
      BY <3>1, <3>2
  <2> QED
    BY <2>1, <2>2, <2>3
<1>4. ASSUME NEW s, At(s), Go, s \in {"termApi", "termWorker", "settled"}, NEW S, s \in S
      PROVE  Been(S)'
  <2>1. InBody(s)
    BY <1>4, Where DEF Outside, Cleanups
  <2>2. at' = at + 1 /\ phase' = phase /\ at \in Nat \ {0}
    BY <1>4 DEF Go, Placed
  <2> QED
    BY <1>1, <1>4, <2>1, <2>2 DEF Been, InBody
<1>5. child'["api"] \in {"stopping", "ended"} => Been({"termApi"})'
  <2>1. CASE child["api"] \in {"stopping", "ended"}
    BY <2>1, BeenKept DEF Children
  <2>2. CASE child["api"] \notin {"stopping", "ended"} /\ child'["api"] \in {"stopping", "ended"}
    <3>1. PICK to : child'["api"] = to /\ Turns("api", to)
      BY <1>1, <2>2, OneTurn
    <3>2. At("termApi") /\ Go
      BY <2>2, <3>1 DEF Turns, Signalled, Alive
    <3> QED
      BY <1>4, <3>2
  <2> QED
    BY <2>1, <2>2
<1>6. child'["worker"] \in {"stopping", "ended"} => Been({"termWorker", "settled"})'
  <2>1. CASE child["worker"] \in {"stopping", "ended"}
    BY <2>1, BeenKept DEF Children
  <2>2. CASE child["worker"] \notin {"stopping", "ended"} /\ child'["worker"] \in {"stopping", "ended"}
    <3>1. PICK to : child'["worker"] = to /\ Turns("worker", to)
      BY <1>1, <2>2, OneTurn
    <3>2. (At("termWorker") \/ At("settled")) /\ Go
      BY <2>2, <3>1 DEF Turns, Signalled, Alive
    <3> QED
      BY <1>4, <3>2
  <2> QED
    BY <2>1, <2>2
<1>7. "worker" \in told' => test.env = "valid" \/ trouble = "anyEnv"
  BY ToldMoves DEF Children, Processes
<1> QED
  BY <1>1, <1>3, <1>5, <1>6, <1>7 DEF Children

LEMMA ReadiedStep ==
    ASSUME Typed, Children, Readied, Next
    PROVE  Readied'
<1> USE DEF Typed
<1>1. trouble' = trouble /\ "api" \in Processes /\ "worker" \in Processes
  BY Moves DEF Processes
<1>2. SUFFICES ASSUME phase' = "body" PROVE Readied'
  BY DEF Readied
<1>3. told \subseteq told'
  BY ToldMoves
<1>4. ASSUME NEW p \in Processes, child[p] \in Gone
      PROVE  child'[p] \in Gone
  <2>1. Started(p)
    BY <1>4 DEF Children, Gone
  <2> QED
    BY <1>4, <2>1, NewStart, OneTurn
<1>5. ASSUME NEW s \in Checks, InBody(s), Go
      PROVE  /\ s \in DOMAIN Awaited => Awaited[s]
             /\ s \in DOMAIN Asserted => Asserted[s]
             /\ child' = child
  BY <1>5, Passes
<1>6. ASSUME Been({"apiReady", "apiReadyOrGone"})' PROVE "api" \in told'
  <2>1. CASE phase = "body" /\ Been({"apiReady", "apiReadyOrGone"})
    BY <1>3, <2>1 DEF Readied
  <2>2. ASSUME InBody("apiReady"), Go PROVE "api" \in told
    <3>1. "apiReady" \in Checks /\ "apiReady" \in DOMAIN Awaited
      BY DEF Checks, Awaited
    <3>2. Awaited["apiReady"]
      BY <1>5, <2>2, <3>1
    <3> QED
      BY <3>2 DEF Awaited, waitReady
  <2>3. ASSUME InBody("apiReadyOrGone"), Go PROVE "api" \in told
    <3>1. "apiReadyOrGone" \in Checks /\ "apiReadyOrGone" \in DOMAIN Asserted
      BY DEF Checks, Asserted
    <3>2. Asserted["apiReadyOrGone"]
      BY <1>5, <2>3, <3>1
    <3> QED
      BY <3>2 DEF Asserted, waitReady
  <2> QED
    BY <1>2, <1>3, <1>6, <2>1, <2>2, <2>3, BeenBody
<1>7. ASSUME Been({"workerReady"})' PROVE "worker" \in told'
  <2>1. CASE phase = "body" /\ Been({"workerReady"})
    BY <1>3, <2>1 DEF Readied
  <2>2. ASSUME InBody("workerReady"), Go PROVE "worker" \in told
    <3>1. "workerReady" \in Checks /\ "workerReady" \in DOMAIN Awaited
      BY DEF Checks, Awaited
    <3>2. Awaited["workerReady"]
      BY <1>5, <2>2, <3>1
    <3> QED
      BY <3>2 DEF Awaited, waitReady
  <2> QED
    BY <1>2, <1>3, <1>7, <2>1, <2>2, BeenBody
<1>8. ASSUME Been({"apiExit"})' PROVE child'["api"] \in Gone
  <2>1. CASE phase = "body" /\ Been({"apiExit"})
    BY <1>1, <1>4, <2>1 DEF Readied
  <2>2. ASSUME InBody("apiExit"), Go PROVE child'["api"] \in Gone
    <3>1. "apiExit" \in Checks /\ "apiExit" \in DOMAIN Awaited
      BY DEF Checks, Awaited
    <3>2. Awaited["apiExit"] /\ child' = child
      BY <1>5, <2>2, <3>1
    <3> QED
      BY <3>2 DEF Awaited, waitExit, Gone
  <2> QED
    BY <1>2, <1>8, <2>1, <2>2, BeenBody
<1>9. ASSUME Been({"workerExit"})' PROVE child'["worker"] \in Gone
  <2>1. CASE phase = "body" /\ Been({"workerExit"})
    BY <1>1, <1>4, <2>1 DEF Readied
  <2>2. ASSUME InBody("workerExit"), Go PROVE child'["worker"] \in Gone
    <3>1. "workerExit" \in Checks /\ "workerExit" \in DOMAIN Awaited
      BY DEF Checks, Awaited
    <3>2. Awaited["workerExit"] /\ child' = child
      BY <1>5, <2>2, <3>1
    <3> QED
      BY <3>2 DEF Awaited, waitExit, Gone
  <2> QED
    BY <1>2, <1>9, <2>1, <2>2, BeenBody
<1>10. ASSUME Been({"runContainer"})', trouble # "overLimit"
       PROVE  box' \in {"running", "done"}
  <2>1. CASE phase = "body" /\ Been({"runContainer"})
    <3>1. box \in {"running", "done"}
      BY <1>10, <2>1 DEF Readied
    <3>2. ~At("removeContainer")
      BY <2>1, Where DEF InSetup, InBody, InFinally, Cleanups, Outside
    <3> QED
      BY <1>10, <3>1, <3>2, BoxMoves
  <2>2. ASSUME InBody("runContainer"), Go PROVE box' \in {"running", "done"}
    <3>1. At("runContainer")
      BY <2>2 DEF InBody, At, Plan
    <3> QED
      BY <1>10, <2>2, <3>1, Sets
  <2> QED
    BY <1>2, <1>10, <2>1, <2>2, BeenBody
<1> QED
  BY <1>1, <1>6, <1>7, <1>8, <1>9, <1>10 DEF Readied

LEMMA KindsStep ==
    ASSUME Typed, Children, Deaths, Kinds, Next
    PROVE  Kinds'
<1> USE DEF Typed
<1>1. test' = test /\ trouble' = trouble /\ "worker" \in Processes /\ Expects(test)
  BY Moves, Scripts DEF Processes
<1>2. CASE At("settled") /\ Go
  <2>1. InBody("settled") /\ phase = "body"
    BY <1>2, Where DEF Outside, Cleanups, InBody
  <2>2. Been({"settled"})'
    BY <1>1, <1>2, <2>1 DEF Go, Placed, Been, InBody
  <2>3. kind' = IF "worker" \in told THEN "marker"
                ELSE IF child["worker"] \in Alive THEN "timeout" ELSE "exit"
    BY <1>2, Sets
  <2>4. child'["worker"] = Signalled("worker")
    BY <1>1, <1>2, Kills DEF LabTyped
  <2>5. ASSUME kind' = "exit", trouble = "none"
        PROVE  child'["worker"] = "failed"
    <3>1. child["worker"] \notin Alive
      BY <2>3, <2>5
    <3>2. child["worker"] # "killed"
      BY <1>1, <2>1 DEF Deaths
    <3>3. child["worker"] # "none"
      <4>1. Been({"runWorker"})
        BY <1>1, <2>1, AfterOne DEF Expects
      <4>2. Started("worker")
        BY <2>1, <4>1 DEF Started, Been, Launches
      <4> QED
        BY <1>1, <2>1, <4>2 DEF Children
    <3>4. child["worker"] # "ended"
      <4> SUFFICES ASSUME child["worker"] = "ended" PROVE FALSE
        OBVIOUS
      <4>1. Been({"termWorker", "settled"})
        BY DEF Children
      <4>2. ~Been({"settled"})
        BY <1>1, <2>1, FirstTime DEF Expects
      <4>3. PICK j \in 1..(at - 1) : test.body[j] = "termWorker"
        BY <2>1, <4>1, <4>2 DEF Been
      <4>4. j \in DOMAIN test.body
        BY <2>1, Scripts DEF InBody, Placed
      <4>5. "termWorker" \in Steps(test) /\ Does(test, "settled")
        BY <1>2, <4>3, <4>4, Where DEF Steps, Range
      <4> QED
        BY <1>1, <4>5 DEF Expects
    <3>5. child["worker"] = "failed"
      BY <1>1, <3>1, <3>2, <3>3, <3>4 DEF LabTyped
    <3> QED
      BY <2>4, <3>5 DEF Signalled
  <2>6. told \subseteq told'
    BY ToldMoves
  <2> QED
    BY <1>1, <2>2, <2>3, <2>5, <2>6 DEF Kinds
<1>3. CASE ~(At("settled") /\ Go)
  <2>1. kind' = kind
    BY <1>3, KindMoves
  <2>2. kind' # "none" => Been({"settled"})'
    BY <2>1, BeenKept DEF Kinds
  <2>3. CASE phase' # "body"
    BY <2>2, <2>3 DEF Kinds
  <2>4. CASE phase' = "body"
    <3>1. Been({"settled"})' => phase = "body" /\ Been({"settled"})
      <4>1. InBody("settled") => At("settled")
        BY DEF InBody, At, Plan
      <4> QED
        BY <1>3, <2>4, <4>1, BeenBody
    <3>2. phase = "body" \/ kind = "none"
      BY <2>1, <2>2, <3>1
    <3>3. ASSUME child["worker"] = "failed" PROVE child'["worker"] = "failed"
      <4>1. Started("worker")
        BY <1>1, <3>3 DEF Children
      <4> QED
        BY <1>1, <3>3, <4>1, NewStart, OneTurn DEF Gone
    <3>4. told \subseteq told'
      BY ToldMoves
    <3> QED
      BY <1>1, <2>1, <2>2, <3>1, <3>2, <3>3, <3>4 DEF Kinds
  <2> QED
    BY <2>3, <2>4
<1> QED
  BY <1>2, <1>3

LEMMA ReachedStep ==
    ASSUME Typed, Reached, Next
    PROVE  Reached'
<1> USE DEF Typed
<1>1. test' = test /\ trouble' = trouble /\ at \in Nat \ {0}
  BY Moves DEF Placed
<1>2. DOMAIN test.setup = 1..Len(test.setup) /\ Len(test.setup) \in Nat
  BY Scripts
<1>3. \A s : At(s) => InSetup(s) \/ InBody(s) \/ InFinally(s)
  BY Where
<1>4. phase = "setup" => ~At("killRedis") /\ ~At("removeRedis") /\ ~At("health") /\ ~At("healthDown")
  BY Where DEF InBody, InFinally, Outside
<1>5. phase = "body" => ~At("removeRedis") /\ ~At("startRedis")
  BY Where DEF InSetup, InFinally, Cleanups, Outside
<1>6. phase' = "setup" => phase = "setup" /\ (at' = at \/ \E s : At(s) /\ Go)
  BY Moves DEF Expires, PhaseEnds, Skips, Fell, Go, Placed
<1>7. ASSUME phase' = "setup"
      PROVE  probe' = "none" /\ (Did("startRedis")' => redis' = "up")
  <2>1. probe' = "none"
    BY <1>4, <1>6, <1>7, ProbeMoves DEF Reached
  <2>2. redis = "up" => redis' = "up"
    BY <1>4, <1>6, <1>7, RedisMoves
  <2>3. Did("startRedis")' => Did("startRedis") \/ (At("startRedis") /\ Go)
    <3>1. CASE at' = at
      BY <1>1, <3>1 DEF Did
    <3>2. ASSUME NEW s, At(s), Go
          PROVE  Did("startRedis")' => Did("startRedis") \/ (At("startRedis") /\ Go)
      <4>1. at' = at + 1 /\ test.setup[at] = s
        BY <1>6, <1>7, <3>2 DEF Go, At, Plan
      <4> QED
        BY <1>1, <3>2, <4>1 DEF Did
    <3> QED
      BY <1>6, <1>7, <3>1, <3>2
  <2> QED
    BY <1>6, <1>7, <2>1, <2>2, <2>3, Sets DEF Reached
<1>8. ASSUME phase' = "body", "startRedis" \in Range(test.setup)
      PROVE  Been({"killRedis"})' \/ redis' = "up"
  <2>1. CASE phase = "setup"
    <3>1. PhaseEnds
      BY <1>8, <2>1, Moves DEF Expires, PhaseEnds, Skips, Fell, Go
    <3>2. at = Len(test.setup) + 1
      BY <2>1, <3>1 DEF PhaseEnds, Plan
    <3>3. Did("startRedis")
      BY <1>2, <1>8, <3>2 DEF Did, Range
    <3>4. redis' = redis
      BY <3>1 DEF PhaseEnds, labVars
    <3> QED
      BY <2>1, <3>3, <3>4 DEF Reached
  <2>2. CASE phase = "body"
    <3>1. CASE Been({"killRedis"})
      BY <3>1, BeenKept
    <3>2. CASE At("killRedis") /\ Go
      BY <1>1, <1>3, <2>2, <3>2 DEF Been, InBody, InSetup, InFinally, Go
    <3>3. CASE redis = "up" /\ ~(At("killRedis") /\ Go)
      BY <1>5, <2>2, <3>3, RedisMoves
    <3> QED
      BY <1>8, <2>2, <3>1, <3>2, <3>3 DEF Reached
  <2> QED
    BY <1>8, <2>1, <2>2, LateStays DEF Placed
<1>9. probe' = "down" => redis' # "up" \/ trouble = "slowPing"
  <2>1. CASE probe' = probe
    <3>1. probe = "down" => ~At("startRedis")
      BY Where DEF Reached, InSetup, InBody, InFinally, Cleanups, Outside
    <3> QED
      BY <2>1, <3>1, RedisMoves DEF Reached
  <2>2. CASE probe' # probe
    BY <2>2, ProbeMoves
  <2> QED
    BY <2>1, <2>2
<1> QED
  BY <1>1, <1>7, <1>8, <1>9 DEF Reached

LEMMA IdleStep ==
    ASSUME Typed, Courses, Lined, Written, Idle, Next
    PROVE  Idle'
<1> USE DEF Typed, ScanTyped
<1>1. test' = test /\ trouble' = trouble /\ "worker" \in Processes
  BY Moves DEF Processes
<1>2. ASSUME child'["worker"] = "none", NEW i \in Scans
      PROVE  job'[i] \in {"none", "waiting"}
  <2>1. child["worker"] = "none"
    BY <1>1, <1>2, OneTurn
  <2>2. \A h \in Scans : job[h] \in {"none", "waiting"}
    BY <2>1 DEF Idle
  <2>3. ~Take
    BY <2>1 DEF Take
  <2>4. ~Settle
    BY <2>1 DEF Settle, working
  <2>5. ASSUME NEW h, Enqueue(h)
        PROVE  job'[i] \in {"none", "waiting"}
    BY <2>2, <2>5 DEF Enqueue
  <2>6. CASE job' = job
    BY <2>2, <2>6
  <2> QED
    BY <2>3, <2>4, <2>5, <2>6, ScanMoves DEF scanVars, MarkScanning, Scan, CloseRecord, Clean
<1>3. ASSUME past'["posted"] # <<>>, trouble # "enqueues"
      PROVE  Been({"post"})'
  <2>1. CASE past["posted"] # <<>>
    BY <1>3, <2>1, BeenKept DEF Idle
  <2>2. CASE past["posted"] = <<>>
    <3>1. At("post") /\ Go
      BY <1>3, <2>2, PastMoves DEF Scans
    <3>2. InBody("post")
      BY <3>1, Where DEF Outside, Cleanups
    <3> QED
      BY <1>1, <3>1, <3>2 DEF Go, Placed, Been, InBody
  <2> QED
    BY <2>1, <2>2
<1> QED
  BY <1>1, <1>2, <1>3 DEF Idle

-----------------------------------------------------------------------------
(* What a check finds when nothing is wrong. *)

\* What does not follow r has not been preceded by it.
LEMMA NotBefore ==
    ASSUME Placed, NEW r, NEW S, NoneAfter(test, r, S), NEW s \in S, InBody(s)
    PROVE  ~Been({r})
<1>1. DOMAIN test.body = 1..Len(test.body) /\ Len(test.body) \in Nat /\ at \in Nat
  BY Scripts DEF Placed
<1> QED
  BY <1>1 DEF NoneAfter, InBody, Been

LEMMA DoneBefore ==
    ASSUME Placed, NEW r, NEW s, OnlyAfter(test, s, {r}), InBody(s)
    PROVE  Done(r)
  BY DEF OnlyAfter, InBody, Done

\* An API that is asked for something answers.
LEMMA ApiAnswers ==
    ASSUME Typed, Deaths, Children, Readied, trouble = "none",
           NEW s \in ApiSteps, InBody(s)
    PROVE  child["api"] = "up"
<1> USE DEF Typed
<1>1. Expects(test) /\ phase = "body" /\ "api" \in Processes
  BY Scripts DEF InBody, Processes
<1>2. Been({"apiReady", "apiReadyOrGone"})
  BY <1>1, AfterOne DEF Expects
<1>3. child["api"] \notin {"none", "boot"}
  BY <1>1, <1>2 DEF Readied, Children
<1>4. ~Been({"termApi"})
  BY <1>1, NotBefore DEF Expects
<1>5. child["api"] \notin {"stopping", "ended"}
  BY <1>4 DEF Children
<1>6. child["api"] \notin {"failed", "killed"}
  BY <1>1 DEF Deaths
<1> QED
  BY <1>1, <1>3, <1>5, <1>6 DEF LabTyped, Alive

\* Nobody has touched the posted scan before there is a worker.
LEMMA QueuedHolds ==
    ASSUME Earned, Children, Idle, InBody("queued")
    PROVE  Status("posted") = "Queued"
<1> USE DEF Earned, Typed
<1>1. Expects(test) /\ phase = "body" /\ "worker" \in Processes /\ "posted" \in Scans
  BY Scripts DEF InBody, Processes, Scans
<1>2. past["posted"] # <<>>
  BY <1>1, AfterOne DEF Expects, Written
<1>3. ~Been(Launches)
  <2>1. \A s \in Launches : ~Been({s})
    BY <1>1, NotBefore DEF Expects
  <2> QED
    BY <1>1, <2>1 DEF Been
<1>4. child["worker"] = "none"
  BY <1>1, <1>3 DEF Children, Started
<1>5. job["posted"] = "waiting"
  BY <1>1, <1>2, <1>4 DEF Idle, Written
<1>6. past["posted"] = <<Base("posted")>> /\ Base("posted") = "Queued"
  BY <1>1, <1>5 DEF Courses, Course, Base
<1> QED
  BY <1>1, <1>6, Shapes

\* A row that is refused leaves neither a record nor a job.
LEMMA RefusedHolds ==
    ASSUME Earned, Idle, trouble = "none"
    PROVE  /\ InBody("noRecords") => past["posted"] = <<>>
           /\ InBody("noJobs") => job["posted"] = "none"
<1> USE DEF Earned, Typed
<1>1. Expects(test) /\ Orders(test)
  BY Scripts
<1>2. ASSUME InBody("noRecords")
      PROVE  past["posted"] = <<>>
  <2>1. PICK i \in 1..(at - 1) : test.body[i] = "postMalformed"
    BY <1>1, <1>2 DEF Orders, OnlyAfter, InBody
  <2>2. DOMAIN test.body = 1..Len(test.body) /\ Len(test.body) \in Nat /\ at \in Nat /\ at \in DOMAIN test.body
    BY <1>2, Scripts DEF Placed, InBody
  <2>3. AtMostOne(test, Posting)
    BY <1>1 DEF Orders
  <2>4. ~Been({"post"})
    <3> SUFFICES ASSUME Been({"post"}) PROVE FALSE
      OBVIOUS
    <3>1. PICK j \in 1..(at - 1) : test.body[j] = "post"
      BY <1>2 DEF Been, InBody
    <3>2. i \in DOMAIN test.body /\ j \in DOMAIN test.body
      BY <2>2
    <3> QED
      BY <2>1, <2>3, <3>1, <3>2 DEF AtMostOne, Posting
  <2> QED
    BY <2>4 DEF Idle
<1>3. ASSUME InBody("noJobs")
      PROVE  job["posted"] = "none"
  <2>1. Done("noRecords")
    BY <1>1, <1>3, DoneBefore DEF Expects
  <2>2. past["posted"] = <<>>
    BY <2>1 DEF Verdicts, Ending
  <2> QED
    BY <2>2, Unwritten DEF Scans
<1> QED
  BY <1>2, <1>3

\* The end of a scan is the one its fault calls for.
LEMMA EndsHold ==
    ASSUME Earned, trouble = "none", Status(Subject) \in TerminalStatus
    PROVE  /\ InBody("endsFinished") => Status(Subject) = "Finished"
           /\ InBody("endsFailed") => Status(Subject) = "Failed"
<1> USE DEF Earned, Typed
<1>1. Expects(test) /\ Subject \in Scans
  BY Scripts, Subjected
<1>2. \A s : InBody(s) => Does(test, s)
  BY Where DEF InBody, At, Plan
<1>3. PICK end \in TerminalStatus :
           /\ end \in EndsOf(Subject)
           /\ Status(Subject) = Base(Subject) \/ Status(Subject) = IF Frozen(Subject) THEN "Finished" ELSE end
  <2>1. past[Subject] # <<>>
    BY DEF Status, TerminalStatus
  <2>2. EndsOf(Subject) # {} /\ EndsOf(Subject) \subseteq TerminalStatus
    BY DEF EndsOf, TerminalStatus
  <2>3. \A end \in TerminalStatus :
            past[Subject] = Closed(Subject, end) =>
                Status(Subject) = IF Frozen(Subject) THEN "Finished" ELSE end
    BY <1>1, Shapes
  <2>4. past[Subject] \in {<<Base(Subject)>>, Marked(Subject)} => Status(Subject) = Base(Subject)
    BY <1>1, Shapes DEF TerminalStatus
  <2>5. CASE past[Subject] \in {<<Base(Subject)>>, Marked(Subject)}
    BY <2>2, <2>4, <2>5
  <2>6. CASE \E end \in EndsOf(Subject) : past[Subject] = Closed(Subject, end)
    BY <2>2, <2>3, <2>6
  <2> QED
    BY <1>1, <2>1, <2>5, <2>6, Forms
<1>4. Base(Subject) \in {"Queued", "Finished"}
  BY DEF Base
<1>5. ASSUME InBody("endsFinished")
      PROVE  Status(Subject) = "Finished"
  <2>1. test.fault = "none" /\ Subject = "seeded"
    BY <1>1, <1>2, <1>5 DEF Expects, Subject
  <2>2. end = "Finished"
    BY <1>3, <2>1 DEF EndsOf
  <2> QED
    BY <1>3, <1>4, <2>2 DEF TerminalStatus
<1>6. ASSUME InBody("endsFailed")
      PROVE  Status(Subject) = "Failed"
  <2>1. test.fault # "none" /\ Base(Subject) = "Queued" /\ ~Frozen(Subject)
    BY <1>1, <1>2, <1>6, Subjected DEF Expects
  <2>2. end = "Failed"
    BY <1>3, <2>1 DEF EndsOf
  <2> QED
    BY <1>3, <2>1, <2>2 DEF TerminalStatus
<1> QED
  BY <1>5, <1>6

\* A record that was finished when its job was added has seen nothing else.
LEMMA GuardHolds ==
    ASSUME Earned, trouble = "none"
    PROVE  /\ InBody("stillFinished") => Status(Subject) = "Finished"
           /\ InBody("neverScanning") => \A k \in DOMAIN seen : seen[k] # "Scanning"
<1> USE DEF Earned, Typed
<1>1. Expects(test) /\ Orders(test) /\ Subject \in Scans
  BY Scripts, Subjected
<1>2. \A s : InBody(s) => Does(test, s)
  BY Where DEF InBody, At, Plan
<1>3. ASSUME Does(test, "stillFinished")
      PROVE  Frozen(Subject) /\ Base(Subject) = "Finished"
  BY <1>1, <1>3 DEF Orders, Expects, Subject, Frozen, Base
<1>4. ASSUME InBody("stillFinished")
      PROVE  Status(Subject) = "Finished"
  <2>1. Done("jobFails")
    BY <1>1, <1>4, DoneBefore DEF Orders
  <2>2. job[Subject] = "failed"
    BY <2>1 DEF Verdicts, Settling
  <2>3. PICK end \in EndsOf(Subject) : past[Subject] = Closed(Subject, end)
    BY <1>1, <2>2 DEF Courses, Course
  <2> QED
    BY <1>1, <1>2, <1>3, <1>4, <2>3, Shapes
<1>5. ASSUME InBody("neverScanning"), NEW k \in DOMAIN seen
      PROVE  seen[k] # "Scanning"
  <2>1. Frozen(Subject) /\ Base(Subject) = "Finished"
    BY <1>1, <1>2, <1>3, <1>5 DEF Orders
  <2>2. past[Subject] \in {<<>>, <<"Finished">>}
    BY <1>1, <2>1, Forms DEF Marked, Closed
  <2>3. Range(<<>>) = {} /\ Range(<<"Finished">>) = {"Finished"}
    BY DEF Range
  <2> QED
    BY <2>2, <2>3 DEF Witnessed
<1> QED
  BY <1>4, <1>5

\* A process is as the steps before an assertion have made it.
LEMMA ProcessesHold ==
    ASSUME Earned, Children, Readied, Kinds, trouble = "none"
    PROVE  /\ InBody("workerAlive") => child["worker"] \in Alive
           /\ InBody("cleanWorker") => child["worker"] = "ended"
           /\ InBody("cleanApi") => child["api"] = "ended"
           /\ InBody("apiReadyOrGone") /\ child["api"] \notin Alive => "api" \in told
           /\ InBody("reachedMarker") => kind \in {"marker", "timeout"}
           /\ InBody("exitedNonZero") =>
                  (kind = "exit" /\ child["worker"] = "failed") \/ kind = "timeout"
<1> USE DEF Earned, Typed
<1>1. Expects(test) /\ Orders(test) /\ "api" \in Processes /\ "worker" \in Processes
  BY Scripts DEF Processes
<1>2. ASSUME NEW s, InBody(s)
      PROVE  Does(test, s) /\ phase = "body"
  BY <1>2, Where DEF InBody, At, Plan
<1>3. \A p \in Processes : child[p] \in Alive \cup {"none"} \cup Gone
  BY DEF LabTyped, Gone
<1>4. ASSUME phase = "body", test.env # "invalid", child["worker"] = "failed"
      PROVE  FALSE
  BY <1>1, <1>4 DEF Deaths
<1>5. ASSUME phase = "body"
      PROVE  /\ child["api"] \notin {"failed", "killed"}
             /\ child["worker"] # "killed"
  BY <1>1, <1>5 DEF Deaths
<1>6. ASSUME InBody("workerAlive")
      PROVE  child["worker"] \in Alive
  <2>1. "worker" \in told
    BY <1>1, <1>2, <1>6, AfterOne DEF Expects, Readied
  <2>2. ~Been({"termWorker"})
    BY <1>1, <1>6, NotBefore DEF Expects
  <2>3. ~Does(test, "settled")
    BY <1>1, <1>2, <1>6 DEF Expects, Does
  <2>4. ~Been({"termWorker", "settled"})
    BY <1>2, <1>6, <2>2, <2>3, DoneDoes DEF Been, Done
  <2>5. child["worker"] # "ended" /\ child["worker"] # "none" /\ test.env = "valid"
    BY <1>1, <2>1, <2>4 DEF Children
  <2> QED
    BY <1>1, <1>2, <1>3, <1>4, <1>5, <1>6, <2>5 DEF Gone
<1>7. ASSUME InBody("cleanWorker")
      PROVE  child["worker"] = "ended"
  <2>1. child["worker"] \in Gone
    BY <1>1, <1>2, <1>7, AfterOne DEF Expects, Readied
  <2>2. Does(test, "workerExit")
    BY <1>1, <1>7, DoneBefore, DoneDoes DEF Expects
  <2> QED
    BY <1>1, <1>2, <1>4, <1>5, <1>7, <2>1, <2>2 DEF Gone, Orders
<1>8. ASSUME InBody("cleanApi")
      PROVE  child["api"] = "ended"
  <2>1. child["api"] \in Gone
    BY <1>1, <1>2, <1>8, AfterOne DEF Expects, Readied
  <2> QED
    BY <1>2, <1>5, <1>8, <2>1 DEF Gone
<1>9. ASSUME InBody("apiReadyOrGone"), child["api"] \notin Alive
       PROVE  "api" \in told
  <2>1. ~Been({"termApi"})
    BY <1>1, <1>9, NotBefore DEF Expects
  <2>2. child["api"] # "ended"
    BY <2>1 DEF Children
  <2>3. "spawnApi" \in Range(test.setup) \/ Been({"spawnApi"})
    BY <1>1, <1>9, AfterOne DEF Expects
  <2>4. child["api"] # "none"
    BY <1>1, <1>2, <1>9, <2>3 DEF Children, Started
  <2> QED
    BY <1>1, <1>2, <1>3, <1>5, <1>9, <2>2, <2>4 DEF Gone
<1>10. ASSUME InBody("reachedMarker") \/ InBody("exitedNonZero")
       PROVE  kind \in {"marker", "exit", "timeout"}
  BY <1>1, <1>2, <1>10, AfterOne DEF Expects, Kinds, LabTyped
<1>11. ASSUME InBody("reachedMarker")
       PROVE  kind \in {"marker", "timeout"}
  <2>1. test.env = "valid"
    BY <1>1, <1>2, <1>11 DEF Expects
  <2>2. kind = "exit" => child["worker"] = "failed"
    BY <1>2, <1>11 DEF Kinds
  <2> QED
    BY <1>2, <1>4, <1>10, <1>11, <2>1, <2>2
<1>12. ASSUME InBody("exitedNonZero")
       PROVE  (kind = "exit" /\ child["worker"] = "failed") \/ kind = "timeout"
  <2>1. test.env = "invalid"
    BY <1>1, <1>2, <1>12 DEF Expects
  <2>2. kind = "exit" => child["worker"] = "failed"
    BY <1>2, <1>12 DEF Kinds
  <2>3. kind # "marker"
    BY <1>2, <1>12, <2>1 DEF Kinds, Children
  <2> QED
    BY <1>10, <1>12, <2>2, <2>3
<1> QED
  BY <1>6, <1>7, <1>8, <1>9, <1>11, <1>12

\* What every assertion says.
LEMMA Claims ==
    /\ Status(Subject) = "Finished" => Asserted["endsFinished"] /\ Asserted["stillFinished"]
    /\ Status(Subject) = "Failed" => Asserted["endsFailed"]
    /\ (\A k \in DOMAIN seen : seen[k] # "Scanning") => Asserted["neverScanning"]
    /\ child["worker"] \in Alive => Asserted["workerAlive"]
    /\ child["worker"] = "ended" => Asserted["cleanWorker"]
    /\ child["api"] = "ended" => Asserted["cleanApi"]
    /\ "api" \in told => Asserted["apiReadyOrGone"]
    /\ kind = "marker" => Asserted["reachedMarker"]
    /\ kind = "exit" /\ child["worker"] = "failed" => Asserted["exitedNonZero"]
    /\ Status("posted") = "Queued" => Asserted["queued"]
    /\ past["posted"] = <<>> => Asserted["noRecords"]
    /\ job["posted"] = "none" => Asserted["noJobs"]
    /\ child["api"] = "up" =>
           /\ Asserted["apiAlive"] /\ Asserted["getUnknown"] /\ Asserted["getStatic"]
           /\ Status(Subject) = "Finished" => Asserted["finishedByGet"]
    /\ probe = "up" => Asserted["healthUp"]
    /\ box \in {"running", "done"} => Asserted["inspect"]
    /\ trouble = "none" => Asserted["memtest"]
  BY DEF Asserted, assertCleanShutdown, waitReady, Answered, Alive

LEMMA Claimants ==
    DOMAIN Asserted \subseteq
        {"endsFinished", "endsFailed", "stillFinished", "neverScanning", "workerAlive",
         "cleanWorker", "cleanApi", "reachedMarker", "exitedNonZero", "apiReadyOrGone", "queued",
         "noRecords", "noJobs", "apiAlive", "getUnknown", "getStatic", "finishedByGet",
         "healthUp", "inspect", "memtest"} \cup Racy
  BY DEF Asserted, Racy

\* An assertion that is due holds, but for one that races what it looks at.
LEMMA Holds ==
    ASSUME Earned, Children, Readied, Kinds, Reached, Idle, trouble = "none",
           NEW s \in DOMAIN Asserted, InBody(s), s \in DOMAIN Awaited => Awaited[s]
    PROVE  Asserted[s] \/ s \in Racy \/ kind = "timeout"
<1> USE DEF Earned, Typed
<1>1. Expects(test) /\ phase = "body"
  BY Scripts DEF InBody
<1>2. CASE s \in {"endsFinished", "endsFailed"}
  <2>1. Status(Subject) \in TerminalStatus
    <3>1. Awaited["endsFinished"] \/ Awaited["endsFailed"]
      BY <1>2 DEF Awaited
    <3> QED
      BY <3>1 DEF Awaited, waitTerminal
  <2> QED
    BY <1>2, <2>1, EndsHold, Claims
<1>3. CASE s \in {"stillFinished", "neverScanning"}
  BY <1>3, GuardHolds, Claims
<1>4. CASE s \in {"workerAlive", "cleanWorker", "cleanApi", "reachedMarker", "exitedNonZero"}
  BY <1>4, ProcessesHold, Claims
<1>5. CASE s = "apiReadyOrGone"
  <2>1. Awaited["apiReadyOrGone"]
    BY <1>5 DEF Awaited
  <2>2. "api" \in told \/ child["api"] \notin Alive
    BY <2>1 DEF Awaited, readyOrGone
  <2> QED
    BY <1>5, <2>2, ProcessesHold, Claims
<1>6. CASE s = "queued"
  BY <1>6, QueuedHolds, Claims
<1>7. CASE s \in {"noRecords", "noJobs"}
  BY <1>7, RefusedHolds, Claims
<1>8. CASE s \in {"apiAlive", "getUnknown", "getStatic", "finishedByGet"}
  <2>1. child["api"] = "up"
    BY <1>8, ApiAnswers DEF ApiSteps
  <2>2. ASSUME s = "finishedByGet"
        PROVE  Status(Subject) = "Finished"
    <3>1. Done("endsFinished")
      BY <1>1, <2>2, DoneBefore DEF Expects
    <3>2. past[Subject] = Closed(Subject, "Finished") /\ ~Frozen(Subject)
      BY <3>1 DEF Verdicts, Ending
    <3> QED
      BY <3>2, Shapes, Subjected DEF TerminalStatus
  <2> QED
    BY <1>8, <2>1, <2>2, Claims
<1>9. CASE s = "healthUp"
  <2>1. Does(test, "healthUp")
    BY <1>9, Where DEF InBody, At, Plan
  <2>2. "startRedis" \in Range(test.setup) /\ ~Been({"killRedis"})
    BY <1>1, <1>9, <2>1, NotBefore DEF Expects
  <2>3. probe # "down"
    BY <1>1, <2>2 DEF Reached
  <2>4. Awaited["healthUp"]
    BY <1>9 DEF Awaited
  <2>5. probe = "up"
    BY <2>3, <2>4 DEF Awaited
  <2> QED
    BY <1>9, <2>5, Claims
<1>10. CASE s = "inspect"
  <2>1. box \in {"running", "done"}
    BY <1>1, <1>10, AfterOne DEF Expects, Readied
  <2> QED
    BY <1>10, <2>1, Claims
<1>11. CASE s = "memtest"
  BY <1>11, Claims
<1>12. CASE s \in Racy
  BY <1>12
<1> QED
  BY <1>2, <1>3, <1>4, <1>5, <1>6, <1>7, <1>8, <1>9, <1>10, <1>11, <1>12, Claimants

LEMMA BlamedStep ==
    ASSUME Earned, Children, Readied, Kinds, Reached, Idle, Blamed, Next
    PROVE  Blamed'
<1> USE DEF Earned, Typed
<1> SUFFICES ASSUME outcome' = "failed", trouble' = "none"
             PROVE  why' \in {"timer"} \cup Racy \/ (kind' = "timeout" /\ phase' \in {"finally", "over"})
  BY DEF Blamed
<1>1. trouble = "none" /\ trouble' = trouble
  BY Moves
<1>2. CASE outcome = "failed"
  <2>1. why' = why
    BY <1>2, WhyStays
  <2>2. CASE why \in {"timer"} \cup Racy
    BY <2>1, <2>2
  <2>3. CASE kind = "timeout" /\ phase \in {"finally", "over"}
    <3>1. ~At("settled")
      BY <2>3, Where DEF InSetup, InBody, InFinally, Cleanups
    <3> QED
      BY <2>3, <3>1, KindMoves, LateStays
  <2> QED
    BY <1>1, <1>2, <2>2, <2>3 DEF Blamed
<1>3. CASE outcome # "failed"
  <2>1. ASSUME NEW s \in DOMAIN Asserted, At(s), why' = s, kind' = kind, Fell,
               s \in DOMAIN Awaited => Awaited[s], ~Asserted[s]
        PROVE  why' \in Racy \/ (kind' = "timeout" /\ phase' \in {"finally", "over"})
    <3>1. s \in Checks /\ s \notin Cleanups \cup Outside
      BY <2>1, ChecksOnly DEF Checks
    <3>2. InBody(s)
      BY <2>1, <3>1, Where
    <3>3. phase' = "finally"
      BY <2>1, <3>2 DEF Fell, InBody
    <3> QED
      BY <1>1, <2>1, <3>2, <3>3, Holds
  <2>2. ASSUME NEW s \in {"post", "postMalformed", "health"}, At(s)
        PROVE  child["api"] = "up"
    <3>1. InBody(s)
      BY <2>2, Where DEF Outside, Cleanups
    <3> QED
      BY <1>1, <3>1, ApiAnswers DEF ApiSteps
  <2> QED
    BY <1>1, <1>3, <2>1, <2>2, Blames
<1> QED
  BY <1>2, <1>3

-----------------------------------------------------------------------------
(* Every failure of a sound program is a timer's or a race's. *)

Calm == Earned /\ Children /\ Readied /\ Kinds /\ Reached /\ Idle /\ Blamed

LEMMA InitCalm == Init => Calm
<1> SUFFICES ASSUME Init PROVE Calm
  OBVIOUS
<1>1. Earned
  BY InitEarned
<1>2. /\ phase = "setup" /\ at = 1 /\ outcome = "open" /\ told = {} /\ kind = "none"
      /\ probe = "none"
      /\ \A p \in Processes : child[p] = "none"
      /\ \A i \in Scans : past[i] = <<>> /\ job[i] = "none"
  BY DEF Init
<1>3. ~Did("startRedis") /\ ~Did("spawnApi") /\ \A S : ~Been(S)
  BY <1>2 DEF Did, Been
<1>4. Children
  BY <1>2, <1>3 DEF Children, Started, Processes
<1>5. Readied /\ Kinds /\ Reached /\ Idle /\ Blamed
  BY <1>2, <1>3 DEF Readied, Kinds, Reached, Idle, Blamed, Scans
<1> QED
  BY <1>1, <1>4, <1>5 DEF Calm

LEMMA StepCalm == Calm /\ [Next]_vars => Calm'
<1> SUFFICES ASSUME Calm, [Next]_vars PROVE Calm'
  OBVIOUS
<1>1. Earned'
  BY StepEarned DEF Calm
<1>2. CASE UNCHANGED vars
  <2>1. /\ UNCHANGED <<test, trouble, phase, at, outcome, why, redis, box, kind>>
        /\ UNCHANGED <<child, told, probe, past, job>>
    BY <1>2 DEF vars, testVars, labVars, scanVars
  <2>2. Children'
    BY <2>1 DEF Calm, Children, Started, Been, Did
  <2>3. Readied' /\ Kinds'
    BY <2>1 DEF Calm, Readied, Kinds, Been
  <2>4. Reached' /\ Idle' /\ Blamed'
    BY <2>1 DEF Calm, Reached, Idle, Blamed, Been, Did
  <2> QED
    BY <1>1, <2>2, <2>3, <2>4 DEF Calm
<1>3. CASE Next
  <2>1. Typed /\ Courses /\ Lined /\ Written /\ Deaths
    BY DEF Calm, Earned
  <2>2. Children' /\ Readied' /\ Kinds' /\ Reached' /\ Idle'
    BY <1>3, <2>1, ChildrenStep, ReadiedStep, KindsStep, ReachedStep, IdleStep DEF Calm
  <2>3. Blamed'
    BY <1>3, BlamedStep DEF Calm
  <2> QED
    BY <1>1, <2>2, <2>3 DEF Calm
<1> QED
  BY <1>2, <1>3

\* When nothing is wrong with the program or the machine a test fails by a
\* timer, in a race with what is behind the status it has waited for, or as
\* its child was neither ready nor gone in time: no other assertion can fail.
THEOREM FailuresHaveCauses == Spec => []FailedForCause
<1>1. Calm => FailedForCause
  BY DEF Calm, Blamed, FailedForCause
<1> QED
  BY <1>1, InitCalm, StepCalm, PTL DEF Spec

-----------------------------------------------------------------------------
(* How far a test has to go. *)

\* The steps ahead in scripts of a, b and c steps, the end of each counted as
\* one, and those ahead of the test.
Left(a, b, c, p, k) ==
    IF p = "over" THEN 0
    ELSE IF p = "finally" THEN c + 2 - k
    ELSE IF p = "body" THEN b + c + 3 - k
    ELSE a + b + c + 4 - k

Ahead == Left(Len(test.setup), Len(test.body), Len(test.teardown), phase, at)

LEMMA LeftFalls ==
    ASSUME NEW a \in Nat, NEW b \in Nat, NEW c \in Nat, NEW k \in Nat \ {0}
    PROVE  /\ k <= a + 1 =>
                  /\ Left(a, b, c, "setup", k) \in Nat \ {0}
                  /\ Left(a, b, c, "body", 1) < Left(a, b, c, "setup", k)
           /\ k <= b + 1 =>
                  /\ Left(a, b, c, "body", k) \in Nat \ {0}
                  /\ Left(a, b, c, "finally", 1) < Left(a, b, c, "body", k)
           /\ k <= c + 1 => Left(a, b, c, "finally", k) \in Nat \ {0}
           /\ Left(a, b, c, "over", k) = 0
           /\ \A p \in {"setup", "body", "finally"} : Left(a, b, c, p, k + 1) < Left(a, b, c, p, k)
  BY DEF Left

\* Whatever the scripts do moves a test on, but for the timeout of its runner
\* and another request for /health while it says that Redis is up.
LEMMA ScriptsMove ==
    ASSUME Placed, Harness
    PROVE  \/ <<phase, at>>' # <<phase, at>>
           \/ TestTimeout
           \/ At("healthDown") /\ probe = "up" /\ UNCHANGED testVars
<1> SUFFICES ASSUME phase' = phase, at' = at, ~TestTimeout
             PROVE  At("healthDown") /\ probe = "up" /\ UNCHANGED testVars
  OBVIOUS
<1>1. ~Go
  BY DEF Go, Placed
<1>2. ~PhaseEnds
  BY DEF PhaseEnds, Placed
<1>3. ASSUME NEW s, NEW cause, At(s), s \notin Cleanups, Thrown(cause)
      PROVE  FALSE
  <2>1. phase \in {"setup", "body"}
    BY <1>3, Where DEF InSetup, InBody, InFinally
  <2> QED
    BY <1>3, <2>1 DEF Thrown
<1>4. ~StepTaken
  <2> SUFFICES ASSUME StepTaken PROVE FALSE
    OBVIOUS
  <2>1. PICK s \in Checks :
             /\ At(s)
             /\ IF s \in DOMAIN Asserted => Asserted[s]
                THEN Go /\ UNCHANGED <<labVars, child, told, probe, scanVars>>
                ELSE Throw(s)
    BY DEF StepTaken, Checks
  <2> QED
    BY <1>1, <1>3, <2>1, ChecksOnly DEF Throw
<1>5. ~WaitExpires
  <2> SUFFICES ASSUME WaitExpires PROVE FALSE
    OBVIOUS
  <2>1. PICK s \in Timed : At(s) /\ Throw("timer")
    BY DEF WaitExpires
  <2> QED
    BY <1>3, <2>1, ChecksOnly DEF Throw
<1>6. ASSUME NEW s, NEW cause, LabFails(s, cause), s \notin Cleanups
      PROVE  FALSE
  BY <1>3, <1>6 DEF LabFails, Throw
<1>7. /\ ~ensureBuilt /\ ~assertDockerAvailable /\ ~startDisposableRedis /\ ~mkdtemp
      /\ ~genFixture /\ ~buildImage
  BY <1>1, <1>3, <1>6 DEF ensureBuilt, assertDockerAvailable, startDisposableRedis, mkdtemp,
                    genFixture, buildImage, Lab, Cleanups
<1>8. ~isDockerAvailable
  BY <1>1 DEF isDockerAvailable, At
<1>9. ~post /\ ~postMalformed /\ ~getHealth
  BY <1>1, <1>3 DEF post, postMalformed, getHealth, Throw, Cleanups
<1>10. healthDown
  BY <1>1, <1>2, <1>4, <1>5, <1>7, <1>8, <1>9
     DEF Harness, startRedisStub, spawnApi, spawnWorker, runWorker, runWorkerFinish, Term,
         seedQueued, seedFinished, openQueue, addJob, startStatusObserver, stopObserving,
         killRedis, scanAnswers, runContainer, kill, closeQueue, disconnect, remove,
         removeContainer, rmDir
<1> QED
  BY <1>1, <1>3, <1>10 DEF healthDown, healthExpires, Throw, Cleanups

\* A test never goes back: each of its steps, whether it is taken, throws or
\* skips the rest, leaves fewer ahead, and what is ahead is a number; the
\* timeout of its runner comes once, as it needs an open outcome.  So a test of
\* n steps makes at most n + 3 moves and one more for its timeout, apart from
\* its requests for /health, which EveryTestEnds rests on.  That no wait lasts
\* for ever is up to the timers.
THEOREM TestsRunForward ==
    Spec => [][/\ Ahead \in Nat
               /\ <<phase, at>>' # <<phase, at>> => Ahead' < Ahead
               /\ Harness => \/ Ahead' < Ahead
                             \/ outcome = "open" /\ outcome' = "failed"
                             \/ At("healthDown") /\ probe = "up"]_vars
<1>1. Typed /\ Next => /\ Ahead \in Nat
                       /\ <<phase, at>>' # <<phase, at>> => Ahead' < Ahead
  <2> SUFFICES ASSUME Typed, Next
               PROVE  /\ Ahead \in Nat
                      /\ <<phase, at>>' # <<phase, at>> => Ahead' < Ahead
    OBVIOUS
  <2> USE DEF Typed
  <2>1. /\ Len(test.setup) \in Nat /\ Len(test.body) \in Nat /\ Len(test.teardown) \in Nat
        /\ at \in Nat \ {0} /\ test' = test
        /\ phase \in {"setup", "body", "finally", "over"}
    BY Scripts, Moves DEF Placed
  <2> DEFINE a == Len(test.setup)
             b == Len(test.body)
             c == Len(test.teardown)
  <2>2. /\ phase = "setup" => at <= a + 1
        /\ phase = "body" => at <= b + 1
        /\ phase = "finally" => at <= c + 1
    BY DEF Placed, Plan
  <2>3. Ahead = Left(a, b, c, phase, at) /\ Ahead' = Left(a, b, c, phase', at')
    BY <2>1 DEF Ahead, Left
  <2> HIDE DEF a, b, c
  <2>4. a \in Nat /\ b \in Nat /\ c \in Nat
    BY <2>1 DEF a, b, c
  <2>5. Ahead \in Nat /\ (phase # "over" => Ahead \in Nat \ {0})
    <3>1. CASE phase = "setup"
      BY <2>1, <2>2, <2>3, <2>4, <3>1, LeftFalls
    <3>2. CASE phase = "body"
      BY <2>1, <2>2, <2>3, <2>4, <3>2, LeftFalls
    <3>3. CASE phase = "finally"
      BY <2>1, <2>2, <2>3, <2>4, <3>3, LeftFalls
    <3>4. CASE phase = "over"
      BY <2>3, <3>4 DEF Left
    <3> QED
      BY <2>1, <3>1, <3>2, <3>3, <3>4
  <2>6. ASSUME phase' = "over", phase # "over", at' = 1
        PROVE  Ahead' < Ahead
    <3>1. Ahead' = 0
      BY <2>3, <2>4, <2>6, LeftFalls
    <3> QED
      BY <2>5, <2>6, <3>1
  <2>7. CASE PhaseEnds
    BY <2>1, <2>2, <2>3, <2>4, <2>6, <2>7, LeftFalls DEF PhaseEnds
  <2>8. CASE Skips
    <3>1. phase = "setup"
      BY <2>8, Where DEF Skips, InSetup, InBody, InFinally, Outside, Cleanups
    <3> QED
      BY <2>5, <2>6, <2>8, <3>1 DEF Skips
  <2>9. ASSUME NEW s, At(s), Go
        PROVE  Ahead' < Ahead
    BY <2>1, <2>3, <2>4, <2>9, LeftFalls DEF Go, At
  <2>10. ASSUME NEW s, At(s), Fell, s \notin Safe
         PROVE  Ahead' < Ahead
    <3>1. phase # "finally" /\ phase # "over"
      BY <2>10, Where DEF Safe, At, InSetup, InBody, InFinally
    <3>2. phase' = (IF phase = "setup" THEN "over" ELSE "finally") /\ at' = 1
      BY <2>10 DEF Fell
    <3> QED
      BY <2>1, <2>2, <2>3, <2>4, <2>6, <3>1, <3>2, LeftFalls
  <2> QED
    BY <2>5, <2>7, <2>8, <2>9, <2>10, Moves DEF Expires
<1>2. Typed /\ Harness =>
          \/ <<phase, at>>' # <<phase, at>>
          \/ outcome = "open" /\ outcome' = "failed"
          \/ At("healthDown") /\ probe = "up"
  <2> SUFFICES ASSUME Typed, Harness
               PROVE  \/ <<phase, at>>' # <<phase, at>>
                      \/ outcome = "open" /\ outcome' = "failed"
                      \/ At("healthDown") /\ probe = "up"
    OBVIOUS
  <2>1. TestTimeout => outcome = "open" /\ outcome' = "failed"
    BY DEF TestTimeout
  <2> QED
    BY <2>1, ScriptsMove DEF Typed
<1>3. Typed /\ [Next]_vars =>
          [/\ Ahead \in Nat
           /\ <<phase, at>>' # <<phase, at>> => Ahead' < Ahead
           /\ Harness => \/ Ahead' < Ahead
                         \/ outcome = "open" /\ outcome' = "failed"
                         \/ At("healthDown") /\ probe = "up"]_vars
  BY <1>1, <1>2
<1> QED
  BY <1>3, TypedAlways, PTL DEF Spec

=============================================================================
