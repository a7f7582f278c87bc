----------------------------- MODULE ScanSystem -----------------------------
(***************************************************************************)
(* The whole pipeline: the API creates a record and then adds a job, BullMQ*)
(* hands jobs to workers, a worker runs the engine, dies, restarts, and    *)
(* jobs of dead workers are handed out again.  The record is kept by       *)
(* ScanRecord, which ScanRepository is shown to implement; a run is the    *)
(* sequence of repository calls ScanEngine makes.  BullMQ is external: its *)
(* part is what the options of scan-worker.ts and scan.module.ts leave in  *)
(* force (one attempt, the default limit of stalls).                       *)
(***************************************************************************)
EXTENDS Naturals, Sequences, SequencesExt

CONSTANTS
    Ids,            \* scans, each with the job that names it
    Workers,        \* worker processes, one job at a time each
    Findings,       \* CRITICAL vulnerabilities
    Report,         \* Report[id]: what Trivy finds, in file order
    None,           \* no worker
    MaxStalled,     \* how often BullMQ hands out a job again after a stall
    MaxCrashes,     \* bound: how often workers die in a behaviour
    LocksMayExpire, \* whether the lock of a living worker's job may lapse
    AddMayFail,     \* the scans whose queue.add may reject
    LosesWrites     \* the scans whose persistFailed may find the repository unreachable

ASSUME SystemAssumption ==
    /\ Report \in [Ids -> Seq(Findings)]
    /\ None \notin Workers
    /\ MaxStalled \in Nat
    /\ MaxCrashes \in Nat
    /\ LocksMayExpire \in BOOLEAN
    /\ AddMayFail \subseteq Ids
    /\ LosesWrites \subseteq Ids

VARIABLES
    status,     \* status[id]: the status field of the record
    findings,   \* findings[id]: its vulnerabilities
    reason,     \* reason[id]: its error field
    api,        \* api[id]: the enqueue call: "idle", "created", "accepted", "rejected"
    job,        \* job[id]: BullMQ's state of the job
    waiting,    \* BullMQ's wait list, oldest job first
    owner,      \* owner[id]: the worker that holds the job's lock
    stalls,     \* stalls[id]: how often the job was found stalled
    run,        \* run[w]: what worker w is doing
    crashes,    \* how many workers have died
    unsaved     \* history: the scans whose failure could not be recorded

recordVars == <<status, findings, reason>>

queueVars == <<job, waiting, owner, stalls>>

vars == <<recordVars, api, queueVars, run, crashes, unsaved>>

Record == INSTANCE ScanRecord WITH Reasons <- {"failed"}, NoReason <- "none"

Unfinished == {"Queued", "Scanning"}

Terminal == {"Finished", "Failed"}

Idle == [pc |-> "idle"]

Down == [pc |-> "down"]

Running(w) == run[w] \notin {Idle, Down}

\* A run of the engine: the job it was given, the call it makes next, and the
\* place in the report of the vulnerability it appends next.
Runs == [pc : {"start", "scan", "resolved", "rejected"}, id : Ids, next : Nat \ {0}]

Init ==
    /\ Record!Init
    /\ api = [id \in Ids |-> "idle"]
    /\ job = [id \in Ids |-> "none"]
    /\ waiting = <<>>
    /\ owner = [id \in Ids |-> None]
    /\ stalls = [id \in Ids |-> 0]
    /\ run = [w \in Workers |-> Idle]
    /\ crashes = 0
    /\ unsaved = {}

-----------------------------------------------------------------------------
(* The API process: ScanService.enqueue. *)

\* The id is fresh, so create never meets an older record.
CreateRecord(id) ==
    /\ api[id] = "idle"
    /\ Record!Create(id)
    /\ api' = [api EXCEPT ![id] = "created"]
    /\ UNCHANGED <<queueVars, run, crashes, unsaved>>

Added(id) ==
    /\ job' = [job EXCEPT ![id] = "waiting"]
    /\ waiting' = Append(waiting, id)
    /\ UNCHANGED <<owner, stalls>>

\* Mutant: a rejected add is tried again though the first may have arrived.
AddJobTwice(id) ==
    /\ api[id] = "created"
    /\ job' = [job EXCEPT ![id] = "waiting"]
    /\ waiting' = waiting \o <<id, id>>
    /\ api' = [api EXCEPT ![id] = "accepted"]
    /\ UNCHANGED <<recordVars, owner, stalls, run, crashes, unsaved>>

\* Mutant: the job is added before the record exists, and nothing after it.
AddJobFirst(id) ==
    /\ api[id] = "idle"
    /\ job[id] = "none"
    /\ Added(id)
    /\ UNCHANGED <<recordVars, api, run, crashes, unsaved>>

AddJob(id) ==
    /\ api[id] = "created"
    /\ Added(id)
    /\ api' = [api EXCEPT ![id] = "accepted"]
    /\ UNCHANGED <<recordVars, run, crashes, unsaved>>

\* queue.add rejects, or the API stops in front of it: the record stays.  The
\* job may have arrived all the same.
AddFails(id) ==
    /\ id \in AddMayFail
    /\ api[id] = "created"
    /\ Added(id) \/ UNCHANGED queueVars
    /\ api' = [api EXCEPT ![id] = "rejected"]
    /\ UNCHANGED <<recordVars, run, crashes, unsaved>>

-----------------------------------------------------------------------------
(* A worker process: the engine's calls of the repository. *)

\* A guarded call: it takes effect on an unfinished record and is a no-op on
\* any other, or on one that is missing.
Guarded(id, call) ==
    IF status[id] \in Unfinished THEN call ELSE UNCHANGED recordVars

\* An idle worker takes the oldest waiting job and its lock.
Take(w) ==
    /\ run[w] = Idle
    /\ waiting # <<>>
    /\ LET id == Head(waiting) IN
         /\ job' = [job EXCEPT ![id] = "active"]
         /\ owner' = [owner EXCEPT ![id] = w]
         /\ run' = [run EXCEPT ![w] = [pc |-> "start", id |-> id, next |-> 1]]
    /\ waiting' = Tail(waiting)
    /\ UNCHANGED <<recordVars, api, stalls, crashes, unsaved>>

\* Mutant: a record that is not Queued belongs to another run, so the job ends.
StartOnlyQueued(w) ==
    /\ run[w].pc = "start"
    /\ LET id == run[w].id IN
         /\ Guarded(id, Record!MarkScanning(id))
         /\ run' = [run EXCEPT ![w].pc =
                      IF status[id] = "Queued" THEN "scan" ELSE "resolved"]
    /\ UNCHANGED <<api, queueVars, crashes, unsaved>>

\* markScanning.  It does not look at what an earlier run appended.
Start(w) ==
    /\ run[w].pc = "start"
    /\ Guarded(run[w].id, Record!MarkScanning(run[w].id))
    /\ run' = [run EXCEPT ![w].pc = "scan"]
    /\ UNCHANGED <<api, queueVars, crashes, unsaved>>

\* The next CRITICAL vulnerability of the report is appended.
AppendNext(w) ==
    /\ run[w].pc = "scan"
    /\ LET id == run[w].id IN
         /\ run[w].next \in DOMAIN Report[id]
         /\ Guarded(id, Record!AppendVulnerability(id, Report[id][run[w].next]))
    /\ run' = [run EXCEPT ![w].next = @ + 1]
    /\ UNCHANGED <<api, queueVars, crashes, unsaved>>

\* Mutant: the scan is finished while its last append is still under way.
FinishEarly(w) ==
    /\ run[w].pc = "scan"
    /\ run[w].next >= Len(Report[run[w].id])
    /\ Guarded(run[w].id, Record!MarkFinished(run[w].id))
    /\ run' = [run EXCEPT ![w].pc = "resolved"]
    /\ UNCHANGED <<api, queueVars, crashes, unsaved>>

\* markFinished, once the report is used up.
Finish(w) ==
    /\ run[w].pc = "scan"
    /\ run[w].next > Len(Report[run[w].id])
    /\ Guarded(run[w].id, Record!MarkFinished(run[w].id))
    /\ run' = [run EXCEPT ![w].pc = "resolved"]
    /\ UNCHANGED <<api, queueVars, crashes, unsaved>>

\* Some stage rejects: markFailed, whose own failure is swallowed.
Fail(w) ==
    /\ run[w].pc \in {"start", "scan"}
    /\ LET id == run[w].id IN
         \/ Guarded(id, Record!MarkFailed(id, "failed")) /\ UNCHANGED unsaved
         \/ /\ id \in LosesWrites
            /\ status[id] \in Unfinished
            /\ unsaved' = unsaved \cup {id}
            /\ UNCHANGED recordVars
    /\ run' = [run EXCEPT ![w].pc = "rejected"]
    /\ UNCHANGED <<api, queueVars, crashes>>

\* process settles and BullMQ settles the job for good: one attempt only.  A
\* worker that lost the lock is told so by an 'error' event, which is logged.
Ack(w) ==
    /\ run[w].pc \in {"resolved", "rejected"}
    /\ LET id == run[w].id IN
         IF owner[id] = w
         THEN /\ job' = [job EXCEPT ![id] =
                           IF run[w].pc = "resolved" THEN "completed" ELSE "failed"]
              /\ owner' = [owner EXCEPT ![id] = None]
         ELSE UNCHANGED <<job, owner>>
    /\ run' = [run EXCEPT ![w] = Idle]
    /\ UNCHANGED <<recordVars, api, waiting, stalls, crashes, unsaved>>

\* The process dies: killed, out of memory, or forced to close at the end of
\* the grace of a shutdown.  The job it holds stays active in the queue.
Crash(w) ==
    /\ run[w] # Down
    /\ crashes < MaxCrashes
    /\ crashes' = crashes + 1
    /\ run' = [run EXCEPT ![w] = Down]
    /\ UNCHANGED <<recordVars, api, queueVars, unsaved>>

\* docker-compose.yml: restart: unless-stopped.
Restart(w) ==
    /\ run[w] = Down
    /\ run' = [run EXCEPT ![w] = Idle]
    /\ UNCHANGED <<recordVars, api, queueVars, crashes, unsaved>>

-----------------------------------------------------------------------------
(* BullMQ's check for stalled jobs, made by any worker that is up. *)

\* Nobody renews the lock of an active job.
Abandoned(id) ==
    /\ job[id] = "active"
    /\ LET w == owner[id] IN ~(Running(w) /\ run[w].id = id)

\* A stalled job goes back to the head of the wait list, or fails for good
\* beyond the limit; the processor is not called for it, and no code of this
\* repository listens to the failure.
Stalled(id) ==
    /\ job[id] = "active"
    /\ Abandoned(id) \/ LocksMayExpire
    /\ \E w \in Workers : run[w] # Down
    /\ stalls' = [stalls EXCEPT ![id] = @ + 1]
    /\ owner' = [owner EXCEPT ![id] = None]
    /\ IF stalls[id] < MaxStalled
         THEN /\ job' = [job EXCEPT ![id] = "waiting"]
              /\ waiting' = <<id>> \o waiting
         ELSE /\ job' = [job EXCEPT ![id] = "failed"]
              /\ UNCHANGED waiting
    /\ UNCHANGED <<recordVars, api, run, crashes, unsaved>>

Work(w) ==
    Take(w) \/ Start(w) \/ AppendNext(w) \/ Finish(w) \/ Fail(w) \/ Ack(w)

Next ==
    \/ \E id \in Ids : CreateRecord(id) \/ AddJob(id) \/ AddFails(id) \/ Stalled(id)
    \/ \E w \in Workers : Work(w) \/ Crash(w) \/ Restart(w)

Spec == Init /\ [][Next]_vars

\* Workers that are up keep working and are brought up again, and the check for
\* stalled jobs runs on a timer.
FairSpec ==
    /\ Spec
    /\ \A w \in Workers : WF_vars(Work(w)) /\ WF_vars(Restart(w))
    /\ \A id \in Ids : WF_vars(Stalled(id) /\ Abandoned(id))

-----------------------------------------------------------------------------
(* Properties. *)

\* Type invariant; the wait list holds each waiting job once.
TypeOK ==
    /\ Record!RecordTypeOK
    /\ api \in [Ids -> {"idle", "created", "accepted", "rejected"}]
    /\ job \in [Ids -> {"none", "waiting", "active", "completed", "failed"}]
    /\ waiting \in Seq(Ids)
    /\ IsInjective(waiting)
    /\ \A id \in Ids : job[id] = "waiting" <=> id \in ToSet(waiting)
    /\ owner \in [Ids -> Workers \cup {None}]
    /\ \A id \in Ids : job[id] = "active" <=> owner[id] # None
    /\ stalls \in [Ids -> 0 .. MaxStalled + 1]
    /\ run \in [Workers -> Runs \cup {Idle, Down}]
    /\ crashes \in 0 .. MaxCrashes
    /\ unsaved \subseteq Ids

\* s can be had from t by leaving elements out.
IsSubsequence(s, t) ==
    \E f \in [DOMAIN s -> DOMAIN t] :
        /\ \A i, j \in DOMAIN s : i < j => f[i] < f[j]
        /\ \A i \in DOMAIN s : s[i] = t[f[i]]

\* A Finished scan lists every finding of the report in file order and nothing
\* else, whichever runs, cut short or at once, wrote to the record.
FinishedCoversReport ==
    \A id \in Ids :
        status[id] = "Finished"
        => /\ IsSubsequence(Report[id], findings[id])
           /\ ToSet(findings[id]) \subseteq ToSet(Report[id])

\* A scan whose job was handed out once lists each finding exactly once.
ExactUnlessRedelivered ==
    \A id \in Ids :
        status[id] = "Finished" /\ stalls[id] = 0 => findings[id] = Report[id]

\* The two stores of ENGINE-06 agree on what has ended: an accepted scan has a
\* job; a completed job has a record that says how it ended; and so has a failed
\* one, unless its run could not record the failure, or BullMQ found it stalled
\* too often and failed it over the head of the processor.
JobAndRecordAgree ==
    \A id \in Ids :
        /\ api[id] = "accepted" => job[id] # "none"
        /\ job[id] = "completed" => status[id] \in Terminal
        /\ job[id] = "failed" =>
               status[id] \in Terminal \/ id \in unsaved \/ stalls[id] > MaxStalled

\* An accepted scan reaches Finished or Failed unless recording its failure
\* failed: also when locks lapse under living workers, and with no more deaths
\* of workers than BullMQ hands a job out again after.
AcceptedScanEnds ==
    \A id \in Ids :
        api[id] = "accepted" ~> status[id] \in Terminal \/ id \in unsaved

\* A killed worker does not leave a scan Scanning for good.
NotStuckScanning ==
    \A id \in Ids : status[id] = "Scanning" ~> status[id] \in Terminal

\* D-07: a Finished record reads as the one complete scan, in discovery order.
FinishedIsReport ==
    \A id \in Ids : status[id] = "Finished" => findings[id] = Report[id]

=============================================================================
