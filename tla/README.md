# oxtest: a TLA+ verification of the scan pipeline

oxtest ("Code Guardian") takes the URL of a Git repository, clones it, runs
Trivy on the clone in a background worker, and keeps the CRITICAL findings in
Redis for clients that poll. This directory holds TLA+ models of that
pipeline, TLC configurations that check them on small instances, and TLAPS
proofs of the results that matter most. Paths below are relative to the
repository; `apps/api/src/` is abbreviated to `…/`.

## The system

| Component | State it keeps | Operations | Talks to | Model |
|---|---|---|---|---|
| Scan service (`…/scan/scan.service.ts`) | none | `enqueue`: `create`, then `queue.add`; `get` | repository, BullMQ queue | `ScanSystem` |
| Record port (`…/scan/scan.repository.port.ts`) | status, findings and reason of each scan | `create`, `get`, `markScanning`, `appendVulnerability`, `markFinished`, `markFailed` | | `ScanRecord` (abstract) |
| Redis repository (`…/scan/scan.repository.ts`) | hash `scan:<id>`, list `scan:<id>:critical`, their TTLs, the WATCH of the connection | the same, as Redis commands | Redis | `ScanRepository` |
| BullMQ queue (library) | wait list, locks, stall counters, job states | add, take, settle, check for stalls | service, workers | in `ScanSystem`, external |
| Worker shell (`…/engine/scan-worker.ts`) | the job in hand | `process`, `onError` | queue, engine | `ScanSystem` |
| Scan engine (`…/engine/scan-engine.ts`) | stage, first error | `run`, `persistFailed`, `safeCleanup` | everything below | `ScanEngine` |
| Path allocator, cloner, Trivy runner, cleaner (`…/engine/*.adapter.ts`, `temp-artifact-cleaner.ts`) | the scan directory | `allocate`, `clone`, `run`, `remove` | file system, subprocess runner | in `ScanEngine` |
| Error classification (`…/engine/scan-error.ts`) | none | `classifyScanError` | engine | in `ScanEngine` |
| Report parser (`…/parser/report-parser.ts`) | a chain of streams | `parse` | engine | in `ScanEngine` |
| Subprocess runner (`…/engine/subprocess-runner.ts`) | two timers, `timedOut` | `run`, `error`, `close`, timers | operating system | `SubprocessRunner` |
| Graceful shutdown (`…/lifecycle/`) | grace and backstop timers | `raceDrain`, `quitRedis` | worker, Redis client | `WorkerProcess`; a crash in `ScanSystem` |
| Configuration, fault seam (`…/config/`, `…/engine/adapter-factory.ts`) | none after start | validate, choose adapters | engine | `WorkerProcess` |
| Transports (`…/http/`, `…/graphql/`) | none | two endpoints each, URL validation, mapping | service | in `ScanClient` |
| Web client (`apps/web/src/`) | text of the input, scan on screen, its name, the last answer | form, mutation, New scan, polling hook | GraphQL | `ScanClient` |
| Health probe (`…/http/health.service.ts`) | none | `redisUp` | Redis client | in `TestHarness` |
| Process-level tests (seven scripts of `apps/api/scripts/`) | the disposable Redis, the directory, the two processes, the observer of a record | each test: setup, body, finally | API, worker, Redis, Docker | `HarnessTests`, `TestHarness` |
| Logging, bootstraps, memory measurements, generators, packaging | | | | not modelled |

The API process and the worker processes share nothing but Redis. A request
creates a record and adds a job that names it; a worker takes the job and runs
the engine, which calls the tools one after the other and the repository in
between; clients read the record. The hard parts are therefore: two stores
(record and queue) that are written one after the other; a repository whose
guarded transitions are several Redis commands; workers that die or lose the
lock of their job and have it handed to another; subprocesses that hang,
ignore signals or leave helpers behind; and a finally block that must clean up
whatever any of these did; a shutdown whose every step may hang, raced against
Docker's; and a client whose questions are answered late and in any order.

What makes each component correct, the exceptions of the code aside, which
"Runs" and "Known behaviours" name:

* **Repository**: a transition is atomic and guarded: the first terminal
  status stands, with its reason and findings; a lapsed record stays lapsed;
  both keys live and die together; an answer is complete.
* **Subprocess runner**: it settles; what it says is what happened to the
  child; nothing of it is left running, and no timer armed, afterwards.
* **Engine**: the record lists the CRITICAL findings in file order, none twice
  and none skipped; Finished means complete; Failed names the first error;
  clone and report are gone at the end.
* **Worker process**: whatever hangs in its hook, it beats Docker's kill; a
  drain cuts nothing short, and a run keeps its Redis client while it has
  time; test doubles never reach production, nor pass for a scan.
* **Transports and web client**: only canonical URLs are enqueued; REST and
  GraphQL say the same of a scan; the name on screen is what is scanned, and
  an answer on screen is never ahead of its record; an end is shown at last.
* **Process-level tests**: a test that passes has seen what it claims and lets
  no fault through that it is there to find; one that fails has a cause;
  whatever a test met, its processes, containers and directory are gone.
* **System**: an accepted scan ends; queue and record agree on how; deaths and
  redeliveries lose no finding.

## Modules

* `ScanRecord` is the abstract specification of the port: six atomic guarded
  actions, one per method plus the lapse of the retention.
* `ScanRepository` has one action per Redis command. `hash` and `list` are the
  two keys, `watching` and `dirty` the WATCH of each writer's connection,
  `pc` the command a call is at, `attempts` the conflicts it has had.
  `transition` of the source is `Call`, `Watch`, `Hget`, then `Unwatch` (the
  two early returns), `Commit` (EXEC answered) or `Conflict` (EXEC answered
  null: try again, or give up with an error). `get` is `Hgetall`, `Lrange`.
  `Expire` lapses both keys at once: they got their last EXPIRE in one EXEC.
  `Reconnect` is the ioredis client coming back by itself, without its WATCH. `sealed` is a history
  variable: the findings a record had when it was closed.
  `Record == INSTANCE ScanRecord` is the refinement mapping.
* `ScanRepositoryProofs` proves about its writers, `ScanReplyProofs`, which
  extends that, about its readers; `MCScanRepository` instantiates it.
* `SubprocessRunner` has one action per callback of the source (`Run`,
  `LaunchError`, `KillTimer`, `GraceTimer`, `Close`) and the operating
  system's side: the child exits by itself or on a signal, catches or ignores
  SIGTERM, forks helpers that inherit its stderr; `Close` can come only when
  nobody holds the pipe. `SubprocessRunnerProofs`, `MCSubprocessRunner`.
* `ScanEngine` is one call of `run`: an action per await, each of which may
  reject at will. Its record is a variable with the guard of the repository
  built in; `RivalFails` and `Lapse` stand for other workers and the
  retention. A write that rejects may still have taken effect. `files` holds
  what exists of the scan directory. `RunErrors` is what a subprocess may be
  settled with; `TrivyLocal` and `TrivyDocker` are the adapter's two attempts,
  the second only after a launch failure, with `resolveSelfContainerRef` for
  the worker's own container (`Hosts`: what HOSTNAME and the mount table may
  say). `Parse` either yields the next CRITICAL leaf (`Yields`), ends, or
  throws, earlier leaves or not. `Lists(s, leaves, n)` says that `s` is the
  CRITICAL ones of the first `n` leaves by exhibiting where each came from,
  which is what a proof can work with. `ScanEngineProofs`, `MCScanEngine`.
* `ScanSystem` composes: `CreateRecord` and `AddJob`/`AddFails` are the two
  halves of `enqueue`; `Take`, `Start`, `AppendNext`, `Finish`, `Fail`, `Ack` a
  worker with its engine; `Crash`, `Restart`; and `Stalled`, the part of BullMQ
  that hands jobs out again. `unsaved` is a history variable: the scans whose
  failure could not be recorded. Its records are kept by `Record == INSTANCE
  ScanRecord`, which is sound because `ScanRepository` implements it.
  `ScanSystemProofs`, `MCScanSystem`.
* `WorkerProcess` is one worker from its environment to its exit. The
  environment is a record of optional values, the empty set for a variable that
  is not set; `Valid` is the schema's verdict, `ActiveFault` the fault in force,
  `Boot` the choice of adapters. A run of the engine is reduced to what the
  shutdown meets (`Take`, `ScanEnds`, `Clean`, `Settle`); `mishaps` is a history
  variable of it: the writes the repository refused, a removal that failed, a
  container that outlived its CLI (`ContainerWrites`), none of which the engine
  passes on to the job. A refused write may have taken effect (`Written`); while
  the client has ended every write is refused. `Sigterm`, `Drained`,
  `GraceElapsed`, `Forced`, `CloseRejects` are `raceDrain` and the hook around
  it, `QuitRedis`, `QuitSettles` are `quitRedis`, `RepositoryHook` is the second
  hook that quits the same client; `Backstop` and `Kill` are the two timers
  around it all. `clock` counts ticks of 500 ms from SIGTERM and never passes a
  timer that is due, as Node's event loop runs it first. Nothing bounds what
  Nest does after the hook, so Docker may kill there.
  `WorkerProcessProofs`, `MCWorkerProcess`.
* `ScanClient` puts the web client and both transports over a set of records
  kept by `ScanRecord`. `Type`, `Submit`, `Enqueued`, `NotEnqueued`, `NewScan`
  are the form of `App.tsx` before and after its await; `Poll` is the interval
  of `useScanPolling.ts`; `Post`, `ServeMutation`, `ServeQuery` are the API.
  urql is external: it lets go of requests for an id that is no longer asked
  for, and may or may not keep the last id's data until an answer. A URL is its
  host, owner, repository and how many `.git` come after it; each of the two
  parsers takes one of them off (`Stripped`, `Name`), and the client sends a URL
  that it builds of what is left (`Canonical`). `Screen` is what the
  components under the form render of the data: the pill with its tone
  (`StatusHeaderPill`), and the body (`StatusBody`), which is the skeleton, the
  failure, the all-clear or `ResultsTable`. `ScanClientProofs`, `MCScanClient`.
* `HarnessTests` is data: each test of the scripts as three sequences of steps,
  those outside its `try`, those inside it and those of its `finally`, read off
  the scripts. `TestHarness` gives each step its meaning and runs one test
  against the API and the worker as they look from outside: a process is
  spawned, boots, is up, stops; `told` is what its output has said, and whether
  the report was there when the test read that it was (`ReadReport`, which the
  worker does not wait for); a record
  keeps every status it has had (`past`) and the observer the ones it happened
  to see (`seen`). `StepTaken` is a wait that is over or an assertion that is
  due (`Awaited`, `Asserted`), `WaitExpires` and `TestTimeout` the timers,
  `Throw` the way into `finally`. The health probe races its PING with its
  timer. One `trouble` at most is wrong with the machine or the programs under
  test: no build, no Docker, no Redis, no directory, no space, a process that
  crashes, ignores signals, exits wrongly, accepts a bad environment or a bad
  URL, overwrites a terminal record, skips Scanning, keeps files, settles its
  job wrongly, fails every scan, answers PING late, needs too much memory, or a
  `docker rm` and an `rm` that fail (`noRemove`, `Removed`), which no script
  notices. A `docker run` that is cut off (`noRedis`) may leave its container.
  `MCTestHarness` lists them. `HarnessAssumption` says how a test is written:
  what a step sets up its `finally` takes down, in the right order (`Unwinds`);
  it writes a record and adds its job once, the record first, and asserts of
  the end of a scan what its fault makes of it (`Orders`); it asks nothing of a
  process before it is ready or after it was told to stop (`Expects`). TLC
  evaluates it on every test of the scripts.

An operator introduced by `\* Mutant:` is a plausible bug. No specification
uses it; a property is known to be able to fail because putting the mutant in
the place of the definition below it makes TLC find a violation.

## Runs

| Configuration | Result | What it shows |
|---|---|---|
| `RepoContention` | holds | With two workers and a poller on one record and stable connections, no transaction commits on a stale status (`GuardFresh`), the first terminal status stands (`FirstTerminalWins`), a lapsed record stays lapsed (`NeverResurrected`), the commands implement `ScanRecord` (`ImplementsRecord`); and although `get` is not atomic, a terminal answer has its findings (`ReplyComplete`) and answers never go back (`ReplyNeverRegresses`) |
| `RepoSettles` | holds | Under contention and on connections that drop, every call returns or throws within its budget of attempts (`CallSettles`) |
| `RepoLostWatch` | violated | With a second worker, a reconnect between WATCH and EXEC lets a late worker overwrite a terminal status |
| `SubprocessRun` | holds | What run settles with is what happened to the child: it resolves only for one that exited 0 and was not signalled, and reports a failed launch only of one that never ran (`OutcomeIsTrue`); once settled, no timer is armed and nothing of the child is left (`SettledIsOver`); and with helpers that end, every run settles (`Settles`) |
| `SubprocessHang` | violated | With a helper that keeps stderr open, it does not, whatever was killed at the deadline |
| `EngineRun` | holds | Order (`FindingsInOrder`), completeness (`FinishedIsComplete`), the cause of a failure (`FailedForItsCause`, `OriginalErrorWins`), closing of the record (`ReturnedIsClosed`), cleanup (`ArtifactsGone`), termination (`RunReturns`) |
| `SystemRun` | holds | With a crash, lapsing locks, a failing `queue.add` and lost writes: a Finished scan has every finding of its report in order (`FinishedCoversReport`), exactly once unless its job was redelivered (`ExactUnlessRedelivered`); queue and record never contradict each other: an accepted scan has a job, a completed job a closed record, and a failed job one too unless recording the failure failed or BullMQ gave the job up (`JobAndRecordAgree`); and every accepted scan ends unless recording its failure failed (`AcceptedScanEnds`) |
| `SystemTwoCrashes` | violated | Two deaths during one scan leave it Scanning: BullMQ fails the job without calling the processor and nobody tells the record |
| `SystemRedelivery` | violated | A scan run again after a death lists findings twice: `markScanning` does not empty the list |
| `WorkerLife` | holds | From every environment: Finished scans and scans in production are real, and a worker with doubles fails each scan for the reason asked for, or for that of a refused `markScanning` (`ScansAreReal`), the shutdown hook is over before Docker kills (`HookBeatsKill`), a drain leaves no run, an open record only where the repository refused `markFailed`, and files only where their removal failed or a container outlived its CLI (`DrainedIsClean`), and the client quits under a run only after the grace (`QuitWaitsForRun`) |
| `ClientPolls` | holds | The name on screen is what is scanned, whatever is typed or pressed around the await, but for a name that still ends in `.git`, and only canonical URLs are enqueued by either transport (`NameIsScanned`); what is on screen is never ahead of its record, the all-clear and the table least of all, and REST says the same (`ShownIsTrue`); the end of the scan on screen is shown once the server has been heard about it (`EndIsShown`) |
| `HarnessTests` | holds | Each test of the scripts in each trouble: one that passes has seen the lifecycle, the guard or the clean exit it claims (`PassedForCause`) and is not one that is there to catch the trouble (`TroubleCaught`); without trouble one fails by a timer or in a race that is listed in `Racy` (`FailedForCause`); nothing is left when a test is over, but for what a failed `mkdtemp`, a cut-off `docker run`, a removal that failed, or `runWorker` leaves (`NothingLeft`); and every test ends (`EveryTestEnds`) |

### Bounds

* `RepoContention`: one id, two writers, a reader, two findings and two appends.
  Two attempts instead of eight: a call can lose once and win, or lose twice
  and give up, and a longer budget repeats the first of these. More ids add
  nothing: a connection watches one key at a time.
* `SubprocessRunner`: two helpers, so that one may end while another lives.
* `ScanEngine`: eight reports of at most three leaves: empty, critical only,
  filtered, with a repeated leaf, with an invalid leaf first, in the middle
  and last.
* `ScanSystem`: two scans with two findings and one, two workers (one in the
  violated runs, which are about the deployed configuration),
  `MaxStalled = 1` (BullMQ's default, not overridden), and `MaxCrashes`. One
  crash is enough for a redelivery, two for the limit of stalls. In
  `SystemRun` one scan loses writes and the other's `add` may fail, which keeps
  the two failures apart and the state space small.
* `TestHarness`: every test of the scripts, each with none and each of 18
  troubles, one at a time: a test is written against one fault, and two would
  excuse each other. At most one job waits behind another, as no test adds more
  than two.
* `WorkerProcess`: environments with each of the four variables unset, valid
  and invalid; graces of 0, 3, the default, the maximum and one tick over it.
  A tick is 500 ms, which every time in the code is a multiple of, but for a
  grace the user sets.
* `ScanClient`: two scans, so that one can be left for another; one finding;
  two queries at once, so that they can be answered out of order; one failing
  request. Four URLs, one each that both parsers accept, that ends in
  `.git.git`, that only the client accepts and that only the server accepts
  (with a `.git`).

Deadlock checking is off where a model ends: a subprocess that settled, an
engine run that returned, a pipeline with every scan ended, a worker process
that has exited, a test that is over.

### Fairness

* `ScanRepository!FairSpec`: weak fairness of each call's next command.
  Commands are awaited one at a time and Redis or the client answers each,
  if only with an error.
* `SubprocessRunner!FairSpec`: weak fairness of spawn, the two timers, the two
  events and the effect of SIGKILL, which no process can ignore; not of a
  child's own exit, nor of its obeying SIGTERM. `HelpersEndSpec` adds that
  helpers end, which nothing in the code brings about: `SubprocessHang` is the
  same property without it.
* `ScanEngine!FairSpec`: weak fairness of the run: each await settles. For the
  two subprocesses that is what `SubprocessRun` shows, under its
  assumption.
* `ScanSystem!FairSpec`: weak fairness of each worker, of its restart (the
  restart policy in `docker-compose.yml`) and of BullMQ's check for stalled
  jobs, which runs on a timer in every live worker. Crashes, lapsing locks and
  requests have none.
* `ScanClient!FairSpec`: weak fairness, for each of the two slots, of the
  interval while it is armed, of a query being served and of its answer being
  delivered, unless it fails. Users and workers need not do anything.
* `TestHarness!FairSpec`: weak fairness of the test's own steps and timers and
  of `redisUp`, whose timer always answers; and of `healthExpires`, the deadline
  of ten seconds of the loop that asks for `/health` again and again, as asking
  again is a step of the test, too. A `docker rm` has no timeout in the scripts
  and is assumed to return. The processes under test have none:
  they may boot, scan, exit or do nothing for ever, and the test must end.
* `WorkerProcess` has none: its clock turns "in time" into safety.

## Proofs

Every invariant and every action property that a passing run checks is proved,
for every value of the constants. Beyond that, each liveness property has a
safety part that is proved (what would have to happen for ever if it failed
cannot), and the two composed modules are shown to use the record as its port
promises.

`ScanRepositoryProofs`, for any ids, writers, readers, budget and retention:

* `TypeCorrect`: `Spec => []TypeOK`.
* `GuardNeverStale`, `FirstTerminalIsFinal`, `LapsedStaysLapsed`: the safety
  results of `RepoContention` about writers, and
  `RepositoryImplementsRecord`: `Spec => Record!Spec`; also `NoopIsFinal` (a
  call without effect met a closed or missing record) and `KeysStayTogether`
  (the two keys exist together), which no run checks by themselves as they
  are parts of the argument. They assume `Stable`:
  no connection loses its WATCH (`Flaky = {}`), or there is a single writer and
  no record lapses meanwhile. The second is the worker as deployed: its one
  connection may reconnect in the middle of a transaction as it likes.
  `RepoLostWatch` shows that a second writer makes the assumption necessary.

The argument: `GuardFresh` (a transaction whose EXEC will be answered was
guarded by a status that is still the status) is not inductive by itself. It
is strengthened to `IInv`: a writer between WATCH and EXEC whose connection
holds still watches its key or is marked dirty (`WatchHeld`), a call names a
record that was created (`CalledAfterCreate`), a writer on its way to UNWATCH
saw a closed or missing record and it still is (`ClosedSeen`), with `TypeOK`
and the invariants themselves. Init implies `IInv`, every action preserves it,
and each result follows from it: a commit happens only on an open record, which
is all `FirstTerminalWins`, `NeverResurrected` and the refinement need.

`CallIsBounded` is the safety part of `CallSettles`: whatever other connections
write, drop or let lapse, a call sends at most three commands for each attempt
and makes no more attempts than its budget. `CommandsLeft` is the measure.

The refinement is of the record the port keeps, not of the answers of `get`,
which has two commands: when a record lapses between them, `get` answers a
Finished scan with an empty list. `ReplyComplete` is
about records that are still there.

`ScanReplyProofs`, under `Stable` too: `EndIsAnsweredWhole` and
`PollerSeesProgress`. Neither property is inductive, as a reader has state of
its own between its two commands. `ReadersHeld` says of the status it holds
that the record has come at least as far (`Behind`), of its last answer that
its list is a prefix of the record's, all of it once the status is terminal,
and that its next snapshot is no earlier. `SealedHeld` ties the history
variable `sealed` to the list of a closed record. The steps of writers are
covered by one lemma: a record changes only along `Rank`, and its list only by
growing while it is open.

`SubprocessRunnerProofs`, for any set of helpers: `RunnerTypeCorrect`,
`OutcomeIsHonest`, `SettledLeavesNothing`, and `SettledForGood`: once a run has
settled it keeps its outcome and sends no signal, not to a process that by then
may be another's. The inductive invariant relates the
timers to `timedOut` and to the signals sent, and `closed` to the state of the
child and the pipe. `NoChildIsForgotten` is the safety part of `Settles`: until
the child of a pending run is gone a timer is armed or SIGKILL is on its way,
so that only helpers that hold the pipe can keep the run from settling. It needs
that the escalation, once begun, is never broken off (`Escalating`).

`ScanEngineProofs`, for any findings, reports of any length, rivals or none:
`EngineTypeCorrect`, `ListIsAPrefix`, `FinishedMeansComplete`,
`ReasonIsTheCause`, `ReturnCloses`, `DiskIsClean`, `FirstErrorDecides`. `IInv`
adds to the properties where the run is: nothing was thrown before
`persistFailed`, and nobody but a rival has failed the record by then
(`CauseFirst`); what the parser is past is valid (`Past`); the list of an open
record is that of the leaves the parser is past, short of the one in hand
(`InOrder`, through `Progress`); before `Allocate` nothing is on disk, and
without it what is left is what could not be removed (`Disk`); `Closed` is
`ReturnedIsClosed` from `finally` on. `RunKeepsPort` shows that a run, its rivals
and the retention change the record by steps of `ScanRecord` only, for any
of its writes that is lost. `RunIsBounded` is the safety part of `RunReturns`: a
run has at most twelve steps and two for each leaf of its report, each of its
steps leaves fewer, and nobody else's gives it more.

`ScanSystemProofs`, for any scans, reports, workers and bounds on crashes and
stalls: `SystemTypeCorrect`, `FinishedCovers`, `HandedOutOnceIsExact`,
`StoresAgree`. `QueueOK` is the queue by itself: an id waits at most
once, a job is active exactly if it has an owner. `Linked`: a job has a
record, a run a job, and a run that resolved a closed record. `Copied`: a run
at its n-th finding has an open record that covers the report up to there,
whoever else has appended to it; the theorem needs that appending, by any
worker, leaves covered what was. `Alone`: while a job was never found stalled,
only its owner runs it, and its list is exactly what that run has appended.
`StoresAgree` (`JobAndRecordAgree`) needs `Told` besides: a run that rejects
has closed its record or could not record the failure, and each failed job has
one of the explanations it is allowed.

`EndStaysAsRead`: a closed record never changes, whatever is redelivered.
`SystemImplementsRecord`: `Spec => Record!Spec`, with deaths, stalls and
redeliveries. Three results say what the two violated runs need. As long as no
lock lapses under a living worker, a job is found stalled at most as often as
workers have died (`StallsNeedDeaths`); its invariant says that a run holds the
lock of its job (`Locked`), and that a job which has lost its worker has a death
to its account that no stall has used up (`Paid`). `Locked` also excludes that
two workers run one scan at a time (`OneWorkerPerScan`): the single writer that
the second half of `Stable` asks for, seen from one record. Without a death a Finished record reads as one
complete scan (`UndisturbedIsExact`: what `SystemRedelivery` violates with one),
and with no more deaths than BullMQ forgives no accepted scan is forgotten
(`NoScanForgotten`: what `SystemTwoCrashes` violates with one more, and the safety
part of `AcceptedScanEnds`).

`ScanClientProofs`, for any URLs, ids, slots and numbers of errors:
`ClientTypeCorrect`, `NameStaysTrue`, `ScreenStaysTrue`. `Named` follows the
name through the mutation: a created record has the name the request was sent
with, less the one `.git` the server takes off. `Answered` says of each answer under way or on screen that it claims an
end only of a record that has reached it and lists what the record lists.
`PollsUntilTheEnd` is the safety part of `EndIsShown`: once the server has been
heard about a scan that has ended, the interval is disarmed exactly while the
end is on screen, and a late answer that hides it arms it again.

`WorkerProcessProofs`, for any set of environments whose graces are numbers:
`WorkerTypeCorrect`, `ShutdownBeatsKill`, `DrainLeavesNothing`,
`RunsKeepTheirClient`, `NoDoubleScans`. `HookBeatsKill` is not inductive: it
needs that the backstop is armed while the hook can hang and that the clock
has not passed it (`Schedule`), and that the schema caps the grace so that the
backstop comes before Docker (`Calm` carries that the environment was
accepted). `Run` ties the outcome of the race to the client, and what a run
that is over has left open or behind to its mishap; `Placed` ties a double in
place to the request for it.

`TestHarnessProofs`, for any set of tests that keep to `HarnessAssumption` and
any troubles: `HarnessTypeCorrect`, `NothingStays`, `PassesAreEarned`,
`TroubleIsCaught`, `FailuresHaveCauses`, `TestsRunForward`. `At(s)` is one step of
one phase; `Been(S)` says that the body is past a step of `S`, `Done(s)` that the
step `s` was taken, which is how an assertion made long ago is still known when
the test is over. Four invariants build on each other:

* `Typed` adds to the types where a test stands (`Placed`); `Moves` and the
  lemmas behind it say once which steps change what.
* `Holding`, for `NothingLeft`: what a step has set up is there only while the
  step that takes it down is still ahead in the `finally` (`Owned`, `Pending`),
  or where `NothingLeft` makes an exception of it; and a setup that owns
  something cannot throw any more, but for the `mkdtemp` behind Redis.
* `Earned`, for `PassedForCause` and `TroubleCaught`: a record is as far as its
  job says (`Courses`), a waiting job waits once (`Lined`), a record was written
  by the step that writes it (`Written`), the posted job is ahead of the seeded
  one (`InTurn`), what the observer noted the record has been (`Witnessed`), a
  process dies of a cause (`Deaths`), and what a check established still holds
  (`Verdicts`). The last is the point: a check looks at a moment, the property
  is about the end, and in between the worker goes on.
* `Calm`, for `FailedForCause`, adds what a test may count on when nothing is
  wrong: a child is what the steps so far have made of it (`Children`,
  `Readied`, `Kinds`), Redis answers until the test kills it (`Reached`), and
  without a worker no job is taken (`Idle`). `Holds` then shows of each assertion
  that is due and not in `Racy` that it holds.

`TestsRunForward` is the safety part of `EveryTestEnds`: each thing a script does
leaves fewer steps ahead (`Ahead`), but for the runner's timeout, which comes
once, and another request for `/health`.

Only model-checked: the liveness properties themselves (`CallSettles`, `Settles`,
`RunReturns`, `AcceptedScanEnds`, `EndIsShown`, `EveryTestEnds`). They need
fairness and ENABLED, which the prover does not have; the safety parts above are
what it can be told of them. That the scripts' tests keep to `HarnessAssumption`
is a matter of 26 given sequences, which TLC evaluates. What `SystemTwoCrashes`,
`SystemRedelivery`, `RepoLostWatch` and `SubprocessHang` show are
counterexamples, for which an instance is enough.

## Plan

Done, most important first: the repository and its abstract record; the
subprocess runner; the engine; the composed system; the worker process; the web
client and the transports; the process-level tests; all with proofs.

Next, in this order:

1. A refinement of a run's part of `ScanSystem` by `ScanEngine`. Both are shown to
   keep to `ScanRecord`, which is what they share; what is missing is that the
   steps of a worker in `ScanSystem` are those of an engine run.
2. `ReportParser`: the chain of streams with bounded buffers, for the
   one-object-at-a-time claim and the place an error surfaces. It needs the
   buffer sizes of `stream-json`, which is not in the repository.

## Known behaviours without a run

* Once the hook has settled the backstop is off, and no timer of the process
  bounds what Nest does after it, so Docker may have to kill there.
* A forced close leaves the run's clone and report behind: `files` may be true
  in an exited `WorkerProcess`, and nothing removes them at the next start.
* The web client never compares the id of its data with the id it asks for. If
  urql keeps the old data, the old scan had ended, and the first query for the
  new one fails, polling never starts. `EndIsShown` therefore asks that an
  answer about the scan on screen has been seen.
* Both parsers take one `.git` off. For `https://github.com/o/r.git.git` the
  client shows `o/r.git` and sends that URL, of which `parseGithubUrl` takes
  another: `o/r` is scanned under the name `o/r.git`. `NameIsScanned` says so.
* A drained worker may leave a record open and files behind: `persistFailed`
  swallows a `markFailed` that is refused, `safeCleanup` and the cleaner a
  removal that fails, and the job settles all the same (`DrainedIsClean`).
* `queue.add` may fail, or the API stop, after `create`: the record stays Queued
  until its retention ends, and no property is about it.
* `get` may answer Finished with an empty list at the moment of a lapse.
* A Trivy container outlives its CLI when that is killed at the deadline, and
  may write the report after the cleanup; `ArtifactsGone` excepts it.
  `.planning/REQUIREMENTS.md:26` asks that the clone and the report be gone.
* `enqueueScan` may fail, or its answer be lost, after `create`: the client shows
  an error, and a second try makes a second record.
* A WATCH belongs to the connection. One worker runs one job at a time; with a
  higher concurrency its jobs would share the WATCH (`scan.repository.ts:164`).
* Nobody removes `base/` and `out/` of a scan directory.

Of the process-level tests:

* `docker-oom-proof.mjs` reads "false 0" of a container that still runs as a
  pass: a `docker run` cut off at its deadline proves nothing, and passes.
* The happy path of `acceptance.mjs` has its one worker scan the posted URL, over
  the network, before the bundle it seeded (`PassedForCause` shows the order).
* `runWorker` in `worker-process-contract.mjs` does not notice an exit after the
  marker, nor wait for the child it signals; any crash before the marker passes
  for the refusal `MissingTmpDirRefused` expects.
* The doubles of a fault create no files, so the tests with a fault assert the
  absence of files that never were.
* The state of the job, the files and the log line are looked at as soon as the
  record is terminal, or after a fixed sleep, while the worker still cleans up
  and settles: `Racy` lists the assertions a sound program may fail. The
  observer polls and may miss Scanning.
* The test that awaits the report looks for the file when it has read the line
  that announces it (`scan-engine-integration.mjs:276`); its worker parses on
  and removes the file without waiting, so the assertion of line 473 may fail a
  sound worker. It is in `Racy`, too.
* No script looks at the status of `docker rm -f`; a container that it did not
  remove stays. A `docker run -d` cut off after its 60 s throws before the
  container's id is read, and leaves what the daemon has started.
* `connectRedis` checks its deadline when PING rejects, which it does not with
  `maxRetriesPerRequest: null`: the timeout of `node:test` is what ends it, and
  that leaves the test's function running.
* Three scripts wait for readiness to its deadline though the child has exited.
* Redis is started before the `try`: if `mkdtemp` then fails, its container stays.
* `rmDir` stands for two things: an `rm` whose failure is swallowed, and in the
  scripts without a harness an `rmSync` that throws, which is taken to succeed.

## Not modelled

Texts (`redact`, messages, logs), layout, the HTTP and GraphQL frameworks,
dependency injection, connection settings and packaging. `memtest.ts`,
`memtest-sweep.ts` and `scan-engine-feasibility.mjs` measure memory and time,
`gen-fixture.ts` and `ensure-dist-web.mjs` write data, `docker-image-smoke.mjs`
is one command after another, and the tests that search the sources for a word
have no states: a transition system would say no more of them than they say
themselves. `ScanSystem` leaves out the
retention, which `ScanRepository` and `ScanEngine` have, and BullMQ's own
connection failures; a job BullMQ finds stalled too often is failed in one
step, where the library marks it first and fails it when it is next taken,
without calling the processor either way. Error classification is modelled in
its order of precedence, not in the patterns it looks for; the configuration
schema in four of its variables.
