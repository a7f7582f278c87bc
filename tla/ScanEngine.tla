----------------------------- MODULE ScanEngine -----------------------------
(***************************************************************************)
(* One run of the scan engine (apps/api/src/engine/scan-engine.ts): the    *)
(* allocate, clone, Trivy, parse and finish stages with every way each     *)
(* await can reject, the record as the repository keeps it (its calls are  *)
(* atomic here, which ScanRepository shows), the scan directory, and the   *)
(* cleanup in finally.  While the run is under way another worker may      *)
(* close the record, or its retention may lapse.                           *)
(***************************************************************************)
EXTENDS Naturals, Sequences

CONSTANTS
    Findings,           \* leaves of severity CRITICAL
    Minor,              \* a valid leaf of a lower severity
    Invalid,            \* a leaf validateVulnerability rejects, or bad JSON
    Reports,            \* reports Trivy may write: sequences of leaves
    Rivals              \* whether others may close or expire the record

ASSUME EngineAssumption ==
    /\ Minor \notin Findings
    /\ Invalid \notin Findings \cup {Minor}
    /\ Reports \subseteq Seq(Findings \cup {Minor, Invalid})
    /\ Rivals \in BOOLEAN

VARIABLES
    pc,         \* the await the run is at
    stage,      \* the local variable stage
    cause,      \* the first error thrown and the stage it was thrown in
    result,     \* the promise of run: "pending", "resolved", "rejected"
    allocated,  \* allocate returned, so finally owns the two paths
    files,      \* what exists under the scan's base directory
    rmFailed,   \* paths whose removal failed
    container,  \* Trivy container left by a killed CLI: "none", "runs", "wrote"
    report,     \* what Trivy finds in this repository
    parsed,     \* how many leaves the parser is past
    record,     \* the scan record
    told        \* FALSE once a write to the repository was lost for good

vars == <<pc, stage, cause, result, allocated, files, rmFailed, container,
          report, parsed, record, told>>

diskVars == <<allocated, files, rmFailed, container>>

Unfinished == {"Queued", "Scanning"}

Categories == {"clone", "trivy", "parse", "timeout", "disk-full"}

Paths == {"base", "clone", "out", "report"}

\* What classifyScanError and the Trivy adapter can tell apart in a thrown
\* value.  A tool that reports a full disk may be killed at its deadline, too.
Errors == [full : BOOLEAN, timedOut : BOOLEAN, launchFailed : BOOLEAN]

Plain == [full |-> FALSE, timedOut |-> FALSE, launchFailed |-> FALSE]

\* The errors a subprocess is settled with: one that never ran says no more.
RunErrors ==
    {e \in Errors : ~e.launchFailed} \cup {[Plain EXCEPT !.launchFailed = TRUE]}

NoCause == [stage |-> "none", error |-> Plain]

\* Mutant: the severity filter is lost.
AllSeverities(leaf) == leaf # Invalid

IsCritical(leaf) == leaf \in Findings

IsValid(leaves) == \A i \in DOMAIN leaves : leaves[i] # Invalid

\* s is the CRITICAL ones among the first n leaves, in order: f says from
\* which leaf each element of s comes.
Lists(s, leaves, n) ==
    \E f \in [DOMAIN s -> 1 .. n] :
        /\ \A i, j \in DOMAIN s : i < j => f[i] < f[j]
        /\ \A i \in DOMAIN s : s[i] = leaves[f[i]]
        /\ \A k \in 1 .. n : leaves[k] \in Findings <=> \E i \in DOMAIN s : f[i] = k

\* Mutant: a timeout is recognised before a full disk.
classifyTimeoutFirst(s, e) ==
    IF e.timedOut THEN "timeout" ELSE IF e.full THEN "disk-full" ELSE s

classifyScanError(s, e) ==
    IF e.full THEN "disk-full" ELSE IF e.timedOut THEN "timeout" ELSE s

Init ==
    /\ pc = "allocate"
    /\ stage = "clone"
    /\ cause = NoCause
    /\ result = "pending"
    /\ allocated = FALSE
    /\ files = {}
    /\ rmFailed = {}
    /\ container = "none"
    /\ report \in Reports
    /\ parsed = 0
    /\ record = [status |-> "Queued", findings |-> <<>>, reason |-> "none"]
    /\ told = TRUE

-----------------------------------------------------------------------------
\* The catch block: remember the first error, go and persist it.
Throw(s, e) ==
    /\ cause' = [stage |-> s, error |-> e]
    /\ pc' = "persistFailed"

\* A write of the repository: guarded, and possibly lost to an error before
\* or after it took effect (a dropped connection, exhausted retries).
Written(after) == IF record.status \in Unfinished THEN after ELSE record

\* allocate creates both directories, or fails and removes its base; a failed
\* removal is swallowed, with whatever was created left behind.
Allocate ==
    /\ pc = "allocate"
    /\ \/ /\ allocated' = TRUE
          /\ files' = {"base", "clone", "out"}
          /\ pc' = "markScanning"
          /\ UNCHANGED <<cause, rmFailed>>
       \/ \E left \in {{}, {"base"}, {"base", "clone"}}, full \in BOOLEAN :
            /\ files' = left
            /\ rmFailed' = left
            /\ Throw("clone", [Plain EXCEPT !.full = full])
            /\ UNCHANGED allocated
    /\ UNCHANGED <<stage, result, container, report, parsed, record, told>>

markScanning ==
    /\ pc = "markScanning"
    /\ \/ /\ record' = Written([record EXCEPT !.status = "Scanning"])
          /\ pc' = "clone"
          /\ UNCHANGED cause
       \/ /\ record' \in {record, Written([record EXCEPT !.status = "Scanning"])}
          /\ Throw(stage, Plain)
    /\ UNCHANGED <<stage, result, diskVars, report, parsed, told>>

\* git clone, settled by the subprocess runner.
Clone ==
    /\ pc = "clone"
    /\ \/ /\ pc' = "trivy"
          /\ stage' = "trivy"
          /\ UNCHANGED cause
       \/ /\ \E e \in RunErrors : Throw(stage, e)
          /\ UNCHANGED stage
    /\ UNCHANGED <<result, diskVars, report, parsed, record, told>>

\* The local trivy: exits 0, cannot be launched, which alone makes the adapter
\* fall back, or fails; a failing tool may leave a partial report behind.
TrivyLocal ==
    /\ pc = "trivy"
    /\ \/ /\ pc' = "ready"
          /\ UNCHANGED cause
          /\ files' \in {files, files \cup {"report"}}
       \/ \E e \in RunErrors :
            IF e.launchFailed
            THEN /\ pc' = "docker"
                 /\ UNCHANGED <<cause, files>>
            ELSE /\ Throw(stage, e)
                 /\ files' \in {files, files \cup {"report"}}
    /\ UNCHANGED <<stage, result, allocated, rmFailed, container, report, parsed,
                   record, told>>

\* What a worker may know of its own container: HOSTNAME that looks like a
\* container id, is another name, or is not set, and its mount table.
Hosts == [hostname : {"id", "name", "unset"}, mounted : BOOLEAN]

resolveSelfContainerRef(host) ==
    IF host.hostname # "id" /\ host.mounted THEN "mounted" ELSE host.hostname

\* The docker fallback, tried once: no reference to the worker's own container,
\* a CLI that cannot be launched and a failing scan all reject.  A CLI killed
\* at its deadline may leave the sibling container running.
TrivyDocker ==
    /\ pc = "docker"
    /\ \E host \in Hosts :
         IF resolveSelfContainerRef(host) = "unset"
         THEN /\ Throw(stage, Plain)
              /\ UNCHANGED <<files, container>>
         ELSE \/ /\ pc' = "ready"
                 /\ files' \in {files, files \cup {"report"}}
                 /\ UNCHANGED <<cause, container>>
              \/ \E e \in RunErrors :
                    /\ Throw(stage, e)
                    /\ files' \in {files} \cup
                          (IF e.launchFailed THEN {} ELSE {files \cup {"report"}})
                    /\ container' \in {"none"} \cup (IF e.timedOut THEN {"runs"} ELSE {})
    /\ UNCHANGED <<stage, result, allocated, rmFailed, report, parsed, record,
                   told>>

\* Mutant: a report that is not there yet is waited for.
StatReportWaits ==
    /\ pc = "ready"
    /\ "report" \in files
    /\ pc' = "parse"
    /\ stage' = "parse"
    /\ UNCHANGED <<cause, result, diskVars, report, parsed, record, told>>

\* stat of the report, then the readiness callback: both may reject.
StatReport ==
    /\ pc = "ready"
    /\ \/ /\ "report" \in files
          /\ pc' = "parse"
          /\ stage' = "parse"
          /\ UNCHANGED cause
       \/ /\ Throw(stage, Plain)
          /\ UNCHANGED stage
    /\ UNCHANGED <<result, diskVars, report, parsed, record, told>>

\* The next CRITICAL leaf is yielded; the chain drops what lies before it.
Yields(i) ==
    /\ i > parsed
    /\ IsCritical(report[i])
    /\ \A k \in parsed + 1 .. i - 1 : report[k] # Invalid /\ ~IsCritical(report[k])
    /\ parsed' = i
    /\ pc' = "append"

\* Mutant: a stream that fails looks like one that ended.
ParseSwallowsErrors ==
    /\ pc = "parse"
    /\ \/ \E i \in DOMAIN report : Yields(i)
       \/ pc' = "markFinished" /\ UNCHANGED parsed
    /\ UNCHANGED <<stage, cause, result, diskVars, report, record, told>>

\* The parser yields the next CRITICAL leaf, ends, or throws.  The stream reads
\* ahead, so an invalid leaf may be met before earlier leaves were yielded.
Parse ==
    /\ pc = "parse"
    /\ \/ \E i \in DOMAIN report : Yields(i) /\ UNCHANGED cause
       \/ /\ \A k \in parsed + 1 .. Len(report) :
                report[k] # Invalid /\ ~IsCritical(report[k])
          /\ pc' = "markFinished"
          /\ UNCHANGED <<cause, parsed>>
       \/ /\ Throw(stage, Plain)
          /\ UNCHANGED parsed
    /\ UNCHANGED <<stage, result, diskVars, report, record, told>>

Appended == Written([record EXCEPT !.findings = Append(@, report[parsed])])

\* Mutant: a rejected append is retried, though it may have taken effect.
appendRetried ==
    /\ pc = "append"
    /\ \/ /\ record' = Appended
          /\ pc' = "parse"
       \/ /\ record' \in {record, Appended}
          /\ UNCHANGED pc
    /\ UNCHANGED <<stage, cause, result, diskVars, report, parsed, told>>

\* One append per yielded leaf, awaited before the next is asked for.
appendVulnerability ==
    /\ pc = "append"
    /\ \/ /\ record' = Appended
          /\ pc' = "parse"
          /\ UNCHANGED cause
       \/ /\ record' \in {record, Appended}
          /\ Throw(stage, Plain)
    /\ UNCHANGED <<stage, result, diskVars, report, parsed, told>>

markFinished ==
    /\ pc = "markFinished"
    /\ \/ /\ record' = Written([record EXCEPT !.status = "Finished"])
          /\ pc' = "cleanClone"
          /\ result' = "resolved"
          /\ UNCHANGED cause
       \/ /\ record' \in {record, Written([record EXCEPT !.status = "Finished"])}
          /\ Throw(stage, Plain)
          /\ UNCHANGED result
    /\ UNCHANGED <<stage, diskVars, report, parsed, told>>

FailedRecord ==
    Written([record EXCEPT !.status = "Failed",
                           !.reason = classifyScanError(cause.stage, cause.error)])

\* Mutant: the failure of markFailed is thrown in place of the first error.
persistFailedRethrows ==
    /\ pc = "persistFailed"
    /\ \/ /\ record' = FailedRecord
          /\ UNCHANGED <<told, cause>>
       \/ /\ record' \in {record, FailedRecord}
          /\ told' = FALSE
          /\ cause' = [cause EXCEPT !.error = Plain]
    /\ result' = "rejected"
    /\ pc' = IF allocated THEN "cleanClone" ELSE "returned"
    /\ UNCHANGED <<stage, diskVars, report, parsed>>

\* Mutant: a failed allocation rejects without telling the record.
persistFailedUnlessAllocating ==
    /\ pc = "persistFailed"
    /\ record' = IF allocated THEN FailedRecord ELSE record
    /\ UNCHANGED <<told, cause>>
    /\ result' = "rejected"
    /\ pc' = IF allocated THEN "cleanClone" ELSE "returned"
    /\ UNCHANGED <<stage, diskVars, report, parsed>>

\* markFailed with the first error; its own failure is logged and swallowed.
\* Then the first error is rethrown, through finally once paths are allocated.
persistFailed ==
    /\ pc = "persistFailed"
    /\ \/ /\ record' = FailedRecord
          /\ UNCHANGED told
       \/ /\ record' \in {record, FailedRecord}
          /\ told' = FALSE
    /\ result' = "rejected"
    /\ pc' = IF allocated THEN "cleanClone" ELSE "returned"
    /\ UNCHANGED <<stage, cause, diskVars, report, parsed>>

\* Mutant: the first failed removal ends the cleanup.
CleanCloneOrStop ==
    /\ pc = "cleanClone"
    /\ \/ /\ files' = files \ {"clone"}
          /\ pc' = "cleanReport"
          /\ UNCHANGED rmFailed
       \/ /\ rmFailed' = rmFailed \cup {"clone"}
          /\ pc' = "returned"
          /\ UNCHANGED files
    /\ UNCHANGED <<stage, cause, result, allocated, container, report, parsed,
                   record, told>>

\* The cleaner removes the clone and then the report: a path whose removal
\* fails is logged and left, and the other one is removed all the same.
CleanClone ==
    /\ pc = "cleanClone"
    /\ pc' = "cleanReport"
    /\ \/ /\ files' = files \ {"clone"}
          /\ UNCHANGED rmFailed
       \/ /\ rmFailed' = rmFailed \cup {"clone"}
          /\ UNCHANGED files
    /\ UNCHANGED <<stage, cause, result, allocated, container, report, parsed,
                   record, told>>

CleanReport ==
    /\ pc = "cleanReport"
    /\ pc' = "returned"
    /\ \/ /\ files' = files \ {"report"}
          /\ UNCHANGED rmFailed
       \/ /\ rmFailed' = rmFailed \cup {"report"}
          /\ UNCHANGED files
    /\ UNCHANGED <<stage, cause, result, allocated, container, report, parsed,
                   record, told>>

-----------------------------------------------------------------------------
(* The surroundings of the run. *)

\* Another worker with the same job closes the record.
RivalFails ==
    /\ Rivals
    /\ record.status \in Unfinished
    /\ record' = [record EXCEPT !.status = "Failed", !.reason = "rival"]
    /\ UNCHANGED <<pc, stage, cause, result, diskVars, report, parsed, told>>

\* The retention of the record lapses.
Lapse ==
    /\ Rivals
    /\ record.status # "expired"
    /\ record' = [status |-> "expired", findings |-> <<>>, reason |-> "none"]
    /\ UNCHANGED <<pc, stage, cause, result, diskVars, report, parsed, told>>

\* A container that outlived its CLI writes its report; cleanup leaves the
\* base and out directories in place, so the write succeeds.
ContainerWrites ==
    /\ container = "runs"
    /\ "out" \in files
    /\ container' = "wrote"
    /\ files' = files \cup {"report"}
    /\ UNCHANGED <<pc, stage, cause, result, allocated, rmFailed, report, parsed,
                   record, told>>

Run ==
    \/ Allocate \/ markScanning \/ Clone \/ TrivyLocal \/ TrivyDocker
    \/ StatReport \/ Parse \/ appendVulnerability \/ markFinished
    \/ persistFailed \/ CleanClone \/ CleanReport

Next == Run \/ RivalFails \/ Lapse \/ ContainerWrites

Spec == Init /\ [][Next]_vars

\* Every await settles: SubprocessRunner shows when subprocesses do.
FairSpec == Spec /\ WF_vars(Run)

-----------------------------------------------------------------------------
(* Properties. *)

\* Type invariant.
TypeOK ==
    /\ pc \in {"allocate", "markScanning", "clone", "trivy", "docker", "ready",
               "parse", "append", "markFinished", "persistFailed", "cleanClone",
               "cleanReport", "returned"}
    /\ stage \in {"clone", "trivy", "parse"}
    /\ cause \in [stage : {"clone", "trivy", "parse", "none"}, error : Errors]
    /\ result \in {"pending", "resolved", "rejected"}
    /\ allocated \in BOOLEAN
    /\ files \subseteq Paths
    /\ rmFailed \subseteq Paths
    /\ container \in {"none", "runs", "wrote"}
    /\ report \in Reports
    /\ parsed \in 0 .. Len(report)
    /\ record \in [status : Unfinished \cup {"Finished", "Failed", "expired"},
                   findings : Seq(Findings),
                   reason : Categories \cup {"none", "rival"}]
    /\ told \in BOOLEAN

\* The record lists CRITICAL findings only, in the order of the report, none
\* twice and none skipped, at every moment a client may read it.
FindingsInOrder == \E n \in 0 .. Len(report) : Lists(record.findings, report, n)

\* A Finished scan is a complete one: no finding was lost to a stage that
\* failed half-way, and no truncated or malformed report passes for a result.
FinishedIsComplete ==
    record.status = "Finished"
    => Lists(record.findings, report, Len(report)) /\ IsValid(report)

\* The reason of a Failed scan is the first error of the run: never that of a
\* later persistence or cleanup failure, and a run that was out of space says
\* so even if its tool was also killed at the deadline.
FailedForItsCause ==
    record.status = "Failed" /\ record.reason # "rival"
    => /\ record.reason = "disk-full" <=> cause.error.full
       /\ record.reason = "timeout" <=> cause.error.timedOut /\ ~cause.error.full
       /\ record.reason \in {"disk-full", "timeout", cause.stage}

\* The first error decides: nothing after it changes what run rejects with.
OriginalErrorWins == [][cause # NoCause => cause' = cause]_cause

\* A run that resolved left no record Queued or Scanning, and one that rejected
\* did so too unless the repository lost the write of Failed.
ReturnedIsClosed ==
    pc = "returned" /\ told => record.status \notin Unfinished

\* Whatever happened, the clone and the report are gone when run returns,
\* except for a path whose own removal failed, and for the report of a Trivy
\* container that outlived its CLI.
ArtifactsGone ==
    pc = "returned"
    => files \cap {"clone", "report"}
           \subseteq rmFailed \cup (IF container = "wrote" THEN {"report"} ELSE {})

\* The run ends, whatever fails on the way.
RunReturns == <>(pc = "returned")

=============================================================================
