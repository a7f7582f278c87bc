-------------------------- MODULE ScanEngineProofs --------------------------
(***************************************************************************)
(* The safety properties of ScanEngine, for any set of findings, reports   *)
(* of any length, and rivals or none.  That a run returns is liveness, and *)
(* model-checked; RunIsBounded proves what it rests on.                    *)
(***************************************************************************)
EXTENDS ScanEngine, TLAPS

Leaves == Findings \cup {Minor, Invalid}

Stages == {"clone", "trivy", "parse"}

Causes == [stage : Stages \cup {"none"}, error : Errors]

Records ==
    [status : Unfinished \cup {"Finished", "Failed", "expired"},
     findings : Seq(Findings),
     reason : Categories \cup {"none", "rival"}]

\* Where the run has not reached the report, where it has thrown nothing yet,
\* and where it has told the record how it ended.
Early == {"allocate", "markScanning", "clone", "trivy", "docker", "ready"}

Going == Early \cup {"parse", "append", "markFinished"}

Ending == {"cleanClone", "cleanReport", "returned"}

\* Only what a run throws first becomes its cause, and only then does it fail
\* the record.
CauseFirst ==
    /\ pc \in Going => cause = NoCause
    /\ pc = "persistFailed" => cause # NoCause
    /\ cause # NoCause => cause.stage \in Stages
    /\ pc \notin Ending /\ record.status = "Failed" => record.reason = "rival"
    /\ FailedForItsCause

Closed == pc \in Ending /\ told => record.status \notin Unfinished

\* How far the list of an open record has come with the report.
Progress ==
    record.status \in Unfinished =>
        /\ pc \in Early => parsed = 0 /\ record.findings = <<>>
        /\ pc \in {"parse", "markFinished"} => Lists(record.findings, report, parsed)
        /\ pc = "append" => Lists(record.findings, report, parsed - 1)

\* What the parser is past is valid.
Past ==
    /\ pc \in Early => parsed = 0
    /\ \A k \in 1 .. parsed : report[k] # Invalid
    /\ pc = "append" => parsed > 0 /\ report[parsed] \in Findings
    /\ pc = "markFinished" =>
           \A k \in parsed + 1 .. Len(report) :
               report[k] # Invalid /\ report[k] \notin Findings

InOrder == Progress /\ FindingsInOrder /\ FinishedIsComplete

\* Who owns what is on disk.
Disk ==
    /\ ~allocated => container = "none"
    /\ pc = "allocate" => files = {} /\ ~allocated
    /\ pc # "allocate" /\ ~allocated =>
           /\ pc \in {"persistFailed", "returned"}
           /\ files \cap {"clone", "report"} \subseteq rmFailed
    /\ pc \in {"cleanReport", "returned"} => ("clone" \in files => "clone" \in rmFailed)
    /\ ArtifactsGone

IInv == TypeOK /\ CauseFirst /\ Closed /\ Past /\ InOrder /\ Disk

-----------------------------------------------------------------------------
(* Lists. *)

\* Nothing lists the findings among no leaves.
LEMMA ListsEmpty == ASSUME NEW leaves PROVE Lists(<<>>, leaves, 0)
  <1> DEFINE f == [i \in {} |-> i]
  <1>1. DOMAIN <<>> = {}
    OBVIOUS
  <1>2. f \in [{} -> 1 .. 0]
    OBVIOUS
  <1>3. 1 .. 0 = {}
    OBVIOUS
  <1> QED
    BY <1>1, <1>2, <1>3 DEF Lists

\* Leaves that are no findings do not change what lists them.
LEMMA ListsSkip ==
  ASSUME NEW s, NEW leaves, NEW n \in Nat, NEW m \in Nat, n <= m,
         Lists(s, leaves, n), \A k \in n + 1 .. m : leaves[k] \notin Findings
  PROVE  Lists(s, leaves, m)
  <1>1. PICK f \in [DOMAIN s -> 1 .. n] :
           /\ \A i, j \in DOMAIN s : i < j => f[i] < f[j]
           /\ \A i \in DOMAIN s : s[i] = leaves[f[i]]
           /\ \A k \in 1 .. n : leaves[k] \in Findings <=> \E i \in DOMAIN s : f[i] = k
    BY DEF Lists
  <1>2. f \in [DOMAIN s -> 1 .. m]
    BY <1>1
  <1>3. ASSUME NEW k \in 1 .. m
        PROVE  leaves[k] \in Findings <=> \E i \in DOMAIN s : f[i] = k
    <2>1. CASE k \in 1 .. n
      BY <1>1, <2>1
    <2>2. CASE k \in n + 1 .. m
      BY <1>1, <2>2
    <2> QED
      BY <2>1, <2>2
  <1> QED
    BY <1>1, <1>2, <1>3 DEF Lists

\* The finding that comes next, appended, lists one more.
LEMMA ListsAppend ==
  ASSUME NEW T, NEW s \in Seq(T), NEW leaves, NEW n \in Nat, leaves[n + 1] \in Findings,
         Lists(s, leaves, n)
  PROVE  Lists(Append(s, leaves[n + 1]), leaves, n + 1)
  <1> DEFINE t == Append(s, leaves[n + 1])
  <1>1. PICK f \in [DOMAIN s -> 1 .. n] :
           /\ \A i, j \in DOMAIN s : i < j => f[i] < f[j]
           /\ \A i \in DOMAIN s : s[i] = leaves[f[i]]
           /\ \A k \in 1 .. n : leaves[k] \in Findings <=> \E i \in DOMAIN s : f[i] = k
    BY DEF Lists
  <1>2. /\ DOMAIN s = 1 .. Len(s)
        /\ DOMAIN t = 1 .. Len(s) + 1
        /\ Len(s) \in Nat
        /\ t[Len(s) + 1] = leaves[n + 1]
        /\ \A i \in DOMAIN s : t[i] = s[i]
    OBVIOUS
  <1> DEFINE g == [i \in DOMAIN t |-> IF i = Len(s) + 1 THEN n + 1 ELSE f[i]]
  <1>3. \A i \in DOMAIN s : g[i] = f[i] /\ g[i] \in 1 .. n
    BY <1>1, <1>2
  <1>4. g[Len(s) + 1] = n + 1
    BY <1>2
  <1>5. \A i \in DOMAIN t : i \in DOMAIN s \/ i = Len(s) + 1
    BY <1>2
  <1> HIDE DEF g, t
  <1>6. g \in [DOMAIN t -> 1 .. n + 1]
    <2>1. \A i \in DOMAIN t : g[i] \in 1 .. n + 1
      BY <1>3, <1>4, <1>5
    <2> QED
      BY <2>1 DEF g
  <1>7. \A i, j \in DOMAIN t : i < j => g[i] < g[j]
    BY <1>1, <1>2, <1>3, <1>4, <1>5
  <1>8. \A i \in DOMAIN t : t[i] = leaves[g[i]]
    BY <1>1, <1>2, <1>3, <1>4, <1>5
  <1>9. ASSUME NEW k \in 1 .. n + 1
        PROVE  leaves[k] \in Findings <=> \E i \in DOMAIN t : g[i] = k
    <2>1. CASE k = n + 1
      BY <2>1, <1>2, <1>4
    <2>2. CASE k \in 1 .. n
      <3>1. ASSUME NEW i \in DOMAIN t, g[i] = k
            PROVE  i \in DOMAIN s /\ f[i] = k
        BY <2>2, <3>1, <1>3, <1>4, <1>5
      <3>2. \A i \in DOMAIN s : i \in DOMAIN t
        BY <1>2
      <3> QED
        BY <2>2, <3>1, <3>2, <1>1, <1>3
    <2> QED
      BY <2>1, <2>2
  <1>10. Lists(t, leaves, n + 1)
    BY <1>6, <1>7, <1>8, <1>9 DEF Lists
  <1> QED
    BY <1>10 DEF t

-----------------------------------------------------------------------------
(* The invariant holds initially. *)

LEMMA InvInit == Init => IInv
  <1> SUFFICES ASSUME Init
               PROVE  IInv
    OBVIOUS
  <1> USE DEF Init
  <1>1. report \in Seq(Leaves) /\ Len(report) \in Nat
    BY EngineAssumption DEF Leaves
  <1>2. TypeOK
    <2>1. cause \in [stage : {"clone", "trivy", "parse", "none"}, error : Errors]
      BY DEF NoCause, Plain, Errors
    <2>2. <<>> \in Seq(Findings)
      OBVIOUS
    <2>3. record \in [status : Unfinished \cup {"Finished", "Failed", "expired"},
                      findings : Seq(Findings),
                      reason : Categories \cup {"none", "rival"}]
      BY <2>2 DEF Unfinished
    <2>4. parsed \in 0 .. Len(report)
      BY <1>1
    <2>5. files \subseteq Paths /\ rmFailed \subseteq Paths
      OBVIOUS
    <2>6. allocated \in BOOLEAN /\ told \in BOOLEAN
      OBVIOUS
    <2> QED
      BY <2>1, <2>3, <2>4, <2>5, <2>6 DEF TypeOK
  <1>3. CauseFirst /\ Closed /\ Past
    BY <1>1 DEF CauseFirst, Closed, Past, Ending, Going, Early, FailedForItsCause, Unfinished
  <1>4. InOrder
    BY <1>1, ListsEmpty DEF InOrder, Progress, FindingsInOrder, FinishedIsComplete, Unfinished, Early
  <1>5. Disk
    BY DEF Disk, ArtifactsGone
  <1> QED
    BY <1>2, <1>3, <1>4, <1>5 DEF IInv

-----------------------------------------------------------------------------
(* Types. *)

\* What a run throws is an error, and the stage is one of the three.
LEMMA ErrorTypes ==
  /\ Plain \in Errors
  /\ \A b \in BOOLEAN : [Plain EXCEPT !.full = b] \in Errors
  /\ RunErrors \subseteq Errors
  BY DEF Plain, Errors, RunErrors

\* Throwing makes the error the cause.
LEMMA ThrowGives ==
  ASSUME NEW s \in Stages, NEW e \in Errors, Throw(s, e)
  PROVE  /\ pc' = "persistFailed"
         /\ cause' \in Causes
         /\ cause' # NoCause
         /\ cause'.stage \in Stages
  BY DEF Throw, Stages, Causes, NoCause

\* A write leaves a record, and a record that is not open as it is.
LEMMA WrittenGives ==
  ASSUME record \in Records, NEW after \in Records
  PROVE  /\ Written(after) \in Records
         /\ record.status \notin Unfinished => Written(after) = record
         /\ record.status \in Unfinished => Written(after) = after
  BY DEF Written

\* The reason a run can give for its failure.
LEMMA ReasonGiven ==
  ASSUME NEW s \in Stages, NEW e \in Errors
  PROVE  /\ classifyScanError(s, e) \in Categories
         /\ classifyScanError(s, e) = "disk-full" <=> e.full
         /\ classifyScanError(s, e) = "timeout" <=> e.timedOut /\ ~e.full
         /\ classifyScanError(s, e) \in {"disk-full", "timeout", s}
  BY DEF classifyScanError, Categories, Stages, Errors

\* The four writes of a run.
LEMMA WritesTyped ==
  ASSUME record \in Records
  PROVE  /\ [record EXCEPT !.status = "Scanning"] \in Records
         /\ [record EXCEPT !.status = "Finished"] \in Records
         /\ \A r \in Categories \cup {"rival"} :
                [record EXCEPT !.status = "Failed", !.reason = r] \in Records
         /\ \A v \in Findings :
                [record EXCEPT !.findings = Append(@, v)] \in Records
  <1>1. \A v \in Findings : Append(record.findings, v) \in Seq(Findings)
    BY DEF Records
  <1> QED
    BY <1>1 DEF Records, Unfinished

\* Every action keeps the types.
LEMMA TypeStep == IInv /\ [Next]_vars => TypeOK'
  <1> SUFFICES ASSUME IInv, [Next]_vars
               PROVE  TypeOK'
    OBVIOUS
  <1>1. TypeOK /\ CauseFirst /\ Past
    BY DEF IInv
  <1>2. record \in Records /\ cause \in Causes /\ stage \in Stages
    BY <1>1 DEF TypeOK, Records, Causes, Stages
  <1>3. report \in Seq(Leaves) /\ Len(report) \in Nat /\ DOMAIN report = 1 .. Len(report)
    BY <1>1, EngineAssumption DEF TypeOK, Leaves
  <1>4. SUFFICES /\ record' \in Records /\ cause' \in Causes /\ stage' \in Stages
                 /\ files' \subseteq Paths /\ rmFailed' \subseteq Paths
                 /\ allocated' \in BOOLEAN /\ told' \in BOOLEAN
                 /\ pc' \in Going \cup Ending \cup {"persistFailed"}
                 /\ result' \in {"pending", "resolved", "rejected"}
                 /\ container' \in {"none", "runs", "wrote"}
                 /\ report' = report
                 /\ parsed' \in 0 .. Len(report)
    BY <1>1 DEF TypeOK, Records, Causes, Stages, Going, Early, Ending
  <1> USE DEF Going, Early, Ending
  <1>5. "clone" \in Stages
    BY DEF Stages
  <1>6. CASE Allocate
    BY <1>1, <1>2, <1>5, <1>6, ErrorTypes, ThrowGives DEF Allocate, TypeOK, Paths
  <1>7. CASE markScanning
    BY <1>1, <1>2, <1>7, ErrorTypes, ThrowGives, WrittenGives, WritesTyped
       DEF markScanning, TypeOK, diskVars
  <1>8. CASE Clone
    BY <1>1, <1>2, <1>8, ErrorTypes, ThrowGives DEF Clone, TypeOK, diskVars, Stages
  <1>9. CASE TrivyLocal
    BY <1>1, <1>2, <1>9, ErrorTypes, ThrowGives DEF TrivyLocal, TypeOK, Paths
  <1>10. CASE TrivyDocker
    BY <1>1, <1>2, <1>10, ErrorTypes, ThrowGives DEF TrivyDocker, TypeOK, Paths
  <1>11. CASE StatReport
    BY <1>1, <1>2, <1>11, ErrorTypes, ThrowGives DEF StatReport, TypeOK, diskVars, Stages
  <1>12. CASE Parse
    BY <1>1, <1>2, <1>3, <1>12, ErrorTypes, ThrowGives DEF Parse, Yields, TypeOK, diskVars
  <1>13. CASE appendVulnerability
    <2>1. report[parsed] \in Findings
      BY <1>1, <1>13 DEF appendVulnerability, Past
    <2>2. [record EXCEPT !.findings = Append(@, report[parsed])] \in Records
      BY <1>2, <2>1, WritesTyped
    <2>3. Appended \in Records
      BY <1>2, <2>2, WrittenGives DEF Appended
    <2> QED
      BY <1>1, <1>2, <1>13, <2>3, ErrorTypes, ThrowGives
         DEF appendVulnerability, TypeOK, diskVars
  <1>14. CASE markFinished
    BY <1>1, <1>2, <1>14, ErrorTypes, ThrowGives, WrittenGives, WritesTyped
       DEF markFinished, TypeOK, diskVars
  <1>15. CASE persistFailed
    <2>1. cause.stage \in Stages /\ cause.error \in Errors
      BY <1>1, <1>2, <1>15 DEF persistFailed, CauseFirst, Causes
    <2>2. FailedRecord \in Records
      BY <1>2, <2>1, ReasonGiven, WrittenGives, WritesTyped DEF FailedRecord
    <2> QED
      BY <1>1, <1>2, <1>15, <2>2 DEF persistFailed, TypeOK, diskVars
  <1>16. CASE CleanClone
    BY <1>1, <1>2, <1>16 DEF CleanClone, TypeOK, Paths
  <1>17. CASE CleanReport
    BY <1>1, <1>2, <1>17 DEF CleanReport, TypeOK, Paths
  <1>18. CASE RivalFails
    BY <1>1, <1>2, <1>18, WritesTyped DEF RivalFails, TypeOK, diskVars
  <1>19. CASE Lapse
    <2>1. <<>> \in Seq(Findings)
      OBVIOUS
    <2>2. record' \in Records
      BY <1>19, <2>1 DEF Lapse, Records
    <2> QED
      BY <1>1, <1>2, <1>19, <2>2 DEF Lapse, TypeOK, diskVars
  <1>20. CASE ContainerWrites
    BY <1>1, <1>2, <1>20 DEF ContainerWrites, TypeOK, Paths
  <1>21. CASE UNCHANGED vars
    BY <1>1, <1>2, <1>21 DEF vars, TypeOK
  <1> QED
    BY <1>6, <1>7, <1>8, <1>9, <1>10, <1>11, <1>12, <1>13, <1>14, <1>15, <1>16, <1>17,
       <1>18, <1>19, <1>20, <1>21 DEF Next, Run

-----------------------------------------------------------------------------
(* The cause of a failure. *)

\* Throwing keeps the parts about the cause: the record is not failed yet.
LEMMA CauseStep == IInv /\ [Next]_vars => CauseFirst' /\ Closed'
  <1> SUFFICES ASSUME IInv, [Next]_vars
               PROVE  CauseFirst' /\ Closed'
    OBVIOUS
  <1>1. TypeOK /\ CauseFirst /\ Closed
    BY DEF IInv
  <1>2. record \in Records /\ cause \in Causes /\ stage \in Stages /\ "clone" \in Stages
    BY <1>1 DEF TypeOK, Records, Causes, Stages
  <1>3. Unfinished = {"Queued", "Scanning"}
    BY DEF Unfinished
  <1> USE DEF Going, Early, Ending
  <1>4. ASSUME pc \in Going, pc' = "persistFailed", cause' \in Causes, cause' # NoCause,
               cause'.stage \in Stages, record'.status = "Failed" => record' = record
        PROVE  CauseFirst' /\ Closed'
    BY <1>1, <1>4 DEF CauseFirst, Closed, FailedForItsCause
  <1>5. ASSUME pc \in Going, pc' \in Going, cause' = cause,
               record'.status = "Failed" => record' = record
        PROVE  CauseFirst' /\ Closed'
    BY <1>1, <1>5 DEF CauseFirst, Closed, FailedForItsCause
  <1>6. ASSUME pc \in Ending, pc' \in Ending, cause' = cause, told' = told,
               record'.status = "Failed" => record' = record \/ record'.reason = "rival",
               record'.status \in Unfinished => record.status \in Unfinished
        PROVE  CauseFirst' /\ Closed'
    BY <1>1, <1>6 DEF CauseFirst, Closed, FailedForItsCause
  <1>7. CASE Allocate
    BY <1>1, <1>2, <1>4, <1>5, <1>7, ErrorTypes, ThrowGives DEF Allocate
  <1>8. CASE markScanning
    <2>1. \A r \in {record, Written([record EXCEPT !.status = "Scanning"])} :
             r.status = "Failed" => r = record
      BY <1>2, <1>3 DEF Written, Records
    <2> QED
      BY <1>2, <1>4, <1>5, <1>8, <2>1, ErrorTypes, ThrowGives DEF markScanning
  <1>9. CASE Clone
    BY <1>1, <1>2, <1>4, <1>5, <1>9, ErrorTypes, ThrowGives DEF Clone
  <1>10. CASE TrivyLocal
    BY <1>1, <1>2, <1>4, <1>5, <1>10, ErrorTypes, ThrowGives DEF TrivyLocal
  <1>11. CASE TrivyDocker
    BY <1>1, <1>2, <1>4, <1>5, <1>11, ErrorTypes, ThrowGives DEF TrivyDocker
  <1>12. CASE StatReport
    BY <1>1, <1>2, <1>4, <1>5, <1>12, ErrorTypes, ThrowGives DEF StatReport
  <1>13. CASE Parse
    BY <1>1, <1>2, <1>4, <1>5, <1>13, ErrorTypes, ThrowGives DEF Parse, Yields
  <1>14. CASE appendVulnerability
    <2>1. Appended.status = "Failed" => Appended = record
      BY <1>2, <1>3 DEF Appended, Written, Records
    <2> QED
      BY <1>1, <1>2, <1>4, <1>5, <1>14, <2>1, ErrorTypes, ThrowGives DEF appendVulnerability
  <1>15. CASE markFinished
    <2>1. Written([record EXCEPT !.status = "Finished"]).status \notin Unfinished
      BY <1>2, <1>3 DEF Written, Records
    <2>2. \A r \in {record, Written([record EXCEPT !.status = "Finished"])} :
             r.status = "Failed" => r = record
      BY <1>2, <1>3 DEF Written, Records
    <2>3. CASE record' = Written([record EXCEPT !.status = "Finished"]) /\ pc' = "cleanClone"
               /\ cause' = cause
      BY <1>1, <1>15, <2>1, <2>2, <2>3 DEF markFinished, CauseFirst, Closed, FailedForItsCause
    <2>4. CASE Throw(stage, Plain)
      BY <1>2, <1>4, <1>15, <2>2, <2>4, ErrorTypes, ThrowGives DEF markFinished
    <2> QED
      BY <1>15, <2>3, <2>4 DEF markFinished
  <1>16. CASE persistFailed
    <2>1. cause # NoCause /\ cause.stage \in Stages /\ cause.error \in Errors
      BY <1>1, <1>2, <1>16 DEF persistFailed, CauseFirst, Causes
    <2>2. record.status = "Failed" => record.reason = "rival"
      BY <1>1, <1>16 DEF persistFailed, CauseFirst
    <2> DEFINE why == classifyScanError(cause.stage, cause.error)
    <2>4. why \in Categories
      BY <2>1, ReasonGiven
    <2>5. FailedRecord = IF record.status \in Unfinished
                         THEN [record EXCEPT !.status = "Failed", !.reason = why] ELSE record
      BY DEF FailedRecord, Written
    <2>6. FailedRecord.status \notin Unfinished
      BY <1>2, <1>3, <2>5 DEF Records
    <2>7. FailedRecord.status = "Failed" => FailedRecord.reason \in {"rival", why}
      BY <1>2, <1>3, <2>2, <2>5 DEF Records
    <2>8. pc' \in Ending /\ cause' = cause /\ record' \in {record, FailedRecord}
      BY <1>16 DEF persistFailed
    <2>9. record'.status = "Failed" => record'.reason \in {"rival", why}
      BY <2>2, <2>7, <2>8
    <2>10. FailedForItsCause'
      BY <2>1, <2>8, <2>9, ReasonGiven DEF FailedForItsCause
    <2>11. told' => record' = FailedRecord
      BY <1>16 DEF persistFailed
    <2> QED
      BY <2>1, <2>6, <2>8, <2>10, <2>11 DEF CauseFirst, Closed
  <1>17. CASE CleanClone
    BY <1>6, <1>17 DEF CleanClone
  <1>18. CASE CleanReport
    BY <1>6, <1>18 DEF CleanReport
  <1>19. CASE RivalFails
    <2>1. record'.status = "Failed" /\ record'.reason = "rival"
      BY <1>2, <1>19 DEF RivalFails, Records
    <2> QED
      BY <1>1, <1>3, <1>19, <2>1 DEF RivalFails, CauseFirst, Closed, FailedForItsCause
  <1>20. CASE Lapse
    <2>1. record'.status = "expired"
      BY <1>20 DEF Lapse
    <2> QED
      BY <1>1, <1>3, <1>20, <2>1 DEF Lapse, CauseFirst, Closed, FailedForItsCause
  <1>21. CASE ContainerWrites
    BY <1>1, <1>21 DEF ContainerWrites, CauseFirst, Closed, FailedForItsCause
  <1>22. CASE UNCHANGED vars
    BY <1>1, <1>22 DEF vars, CauseFirst, Closed, FailedForItsCause
  <1> QED
    BY <1>7, <1>8, <1>9, <1>10, <1>11, <1>12, <1>13, <1>14, <1>15, <1>16, <1>17,
       <1>18, <1>19, <1>20, <1>21, <1>22 DEF Next, Run

-----------------------------------------------------------------------------
(* The disk. *)

\* Only the report may come back, and only from a container left running.
LEMMA DiskStep == IInv /\ [Next]_vars => Disk'
  <1> SUFFICES ASSUME IInv, [Next]_vars
               PROVE  Disk'
    OBVIOUS
  <1>1. TypeOK /\ Disk
    BY DEF IInv
  <1> USE DEF Going, Early, Ending
  <1>3. ASSUME pc \in Going, pc # "allocate", allocated' = allocated,
               pc' \in Going \cup {"persistFailed", "cleanClone"}, pc' # "allocate"
        PROVE  Disk'
    BY <1>1, <1>3 DEF Disk, ArtifactsGone
  <1>4. CASE Allocate
    BY <1>1, <1>4 DEF Allocate, Throw, Disk, ArtifactsGone
  <1>5. CASE markScanning
    BY <1>3, <1>5 DEF markScanning, Throw, diskVars
  <1>6. CASE Clone
    BY <1>3, <1>6 DEF Clone, Throw, diskVars
  <1>7. CASE TrivyLocal
    BY <1>3, <1>7 DEF TrivyLocal, Throw
  <1>8. CASE TrivyDocker
    BY <1>3, <1>8 DEF TrivyDocker, Throw
  <1>9. CASE StatReport
    BY <1>3, <1>9 DEF StatReport, Throw, diskVars
  <1>10. CASE Parse
    BY <1>3, <1>10 DEF Parse, Yields, Throw, diskVars
  <1>11. CASE appendVulnerability
    BY <1>3, <1>11 DEF appendVulnerability, Throw, diskVars
  <1>12. CASE markFinished
    BY <1>3, <1>12 DEF markFinished, Throw, diskVars
  <1>13. CASE persistFailed
    BY <1>1, <1>13 DEF persistFailed, diskVars, Disk, ArtifactsGone
  <1>14. CASE CleanClone
    BY <1>1, <1>14 DEF CleanClone, Disk, ArtifactsGone
  <1>15. CASE CleanReport
    BY <1>1, <1>15 DEF CleanReport, Disk, ArtifactsGone
  <1>16. CASE RivalFails
    BY <1>1, <1>16 DEF RivalFails, diskVars, Disk, ArtifactsGone
  <1>17. CASE Lapse
    BY <1>1, <1>17 DEF Lapse, diskVars, Disk, ArtifactsGone
  <1>18. CASE ContainerWrites
    BY <1>1, <1>18 DEF ContainerWrites, Disk, ArtifactsGone
  <1>19. CASE UNCHANGED vars
    BY <1>1, <1>19 DEF vars, Disk, ArtifactsGone
  <1> QED
    BY <1>4, <1>5, <1>6, <1>7, <1>8, <1>9, <1>10, <1>11, <1>12, <1>13, <1>14, <1>15, <1>16,
       <1>17, <1>18, <1>19 DEF Next, Run

-----------------------------------------------------------------------------
(* The list and the report. *)

\* The list follows the parser, and the parser the report.
LEMMA OrderStep == IInv /\ [Next]_vars => Past' /\ InOrder'
  <1> SUFFICES ASSUME IInv, [Next]_vars
               PROVE  Past' /\ InOrder'
    OBVIOUS
  <1>1. TypeOK /\ Past /\ Progress /\ FindingsInOrder /\ FinishedIsComplete
    BY DEF IInv, InOrder
  <1>2. record \in Records
    BY <1>1 DEF TypeOK, Records
  <1>3. /\ report \in Seq(Leaves) /\ Len(report) \in Nat /\ DOMAIN report = 1 .. Len(report)
        /\ parsed \in Nat /\ parsed <= Len(report)
        /\ Invalid \notin Findings
    BY <1>1, EngineAssumption DEF TypeOK, Leaves
  <1>4. Unfinished = {"Queued", "Scanning"}
    BY DEF Unfinished
  <1>5. ASSUME record'.findings = record.findings, report' = report,
               record'.status = "Finished" => record.status = "Finished"
        PROVE  FindingsInOrder' /\ FinishedIsComplete'
    BY <1>1, <1>5 DEF FindingsInOrder, FinishedIsComplete
  <1> USE DEF Going, Early, Ending
  <1>6. ASSUME pc' \notin Going, parsed' = parsed, report' = report
        PROVE  Past' /\ Progress'
    BY <1>1, <1>6 DEF Past, Progress
  <1>7. ASSUME pc \in Early, pc' \in Early \cup {"parse"}, parsed' = parsed, report' = report,
               record'.findings = record.findings,
               record'.status \in Unfinished => record.status \in Unfinished
        PROVE  Past' /\ Progress'
    BY <1>1, <1>7, ListsEmpty DEF Past, Progress
  <1>8. ASSUME pc' = pc, parsed' = parsed, report' = report,
               record'.status \in Unfinished => record' = record
        PROVE  Past' /\ Progress'
    BY <1>1, <1>8 DEF Past, Progress
  <1>9. CASE Allocate
    BY <1>5, <1>6, <1>7, <1>9 DEF Allocate, Throw, InOrder
  <1>10. CASE markScanning
    <2>1. \A r \in {record, Written([record EXCEPT !.status = "Scanning"])} :
             /\ r.findings = record.findings
             /\ r.status = "Finished" => record.status = "Finished"
             /\ r.status \in Unfinished => record.status \in Unfinished
      BY <1>2, <1>4 DEF Written, Records
    <2> QED
      BY <1>5, <1>6, <1>7, <1>10, <2>1 DEF markScanning, Throw, InOrder
  <1>11. CASE Clone
    BY <1>5, <1>6, <1>7, <1>11 DEF Clone, Throw, InOrder
  <1>12. CASE TrivyLocal
    BY <1>5, <1>6, <1>7, <1>12 DEF TrivyLocal, Throw, InOrder
  <1>13. CASE TrivyDocker
    BY <1>5, <1>6, <1>7, <1>13 DEF TrivyDocker, Throw, InOrder
  <1>14. CASE StatReport
    BY <1>5, <1>6, <1>7, <1>14 DEF StatReport, Throw, InOrder
  <1>15. CASE Parse
    <2>1. pc = "parse" /\ report' = report /\ record' = record
      BY <1>15 DEF Parse
    <2>2. FindingsInOrder' /\ FinishedIsComplete'
      BY <1>5, <2>1
    <2>3. ASSUME NEW i \in DOMAIN report, Yields(i)
          PROVE  Past' /\ Progress'
      <3>1. /\ i \in Nat /\ i - 1 \in Nat /\ parsed <= i - 1 /\ i > 0
            /\ report[i] \in Findings
            /\ \A k \in parsed + 1 .. i - 1 : report[k] # Invalid /\ report[k] \notin Findings
            /\ parsed' = i /\ pc' = "append"
        BY <1>3, <2>3 DEF Yields, IsCritical
      <3>2. ASSUME NEW k \in 1 .. i
            PROVE  report[k] # Invalid
        <4>1. CASE k \in 1 .. parsed
          BY <1>1, <4>1 DEF Past
        <4>2. CASE k \in parsed + 1 .. i - 1
          BY <3>1, <4>2
        <4>3. CASE k = i
          BY <1>3, <3>1, <4>3
        <4> QED
          BY <1>3, <3>1, <4>1, <4>2, <4>3
      <3>3. Past'
        BY <2>1, <3>1, <3>2 DEF Past
      <3>4. record.status \in Unfinished => Lists(record.findings, report, i - 1)
        BY <1>1, <1>3, <2>1, <3>1, ListsSkip DEF Progress
      <3> QED
        BY <2>1, <3>1, <3>3, <3>4 DEF Progress
    <2>4. ASSUME pc' = "markFinished", parsed' = parsed,
                 \A k \in parsed + 1 .. Len(report) : report[k] # Invalid /\ ~IsCritical(report[k])
          PROVE  Past' /\ Progress'
      BY <1>1, <2>1, <2>4 DEF Past, Progress, IsCritical
    <2>5. ASSUME Throw(stage, Plain), parsed' = parsed
          PROVE  Past' /\ Progress'
      BY <1>6, <2>1, <2>5 DEF Throw
    <2> QED
      BY <1>15, <2>2, <2>3, <2>4, <2>5 DEF Parse, InOrder
  <1>16. CASE appendVulnerability
    <2>1. pc = "append" /\ parsed > 0 /\ report[parsed] \in Findings
      BY <1>1, <1>16 DEF appendVulnerability, Past
    <2>2. parsed' = parsed /\ report' = report /\ record' \in {record, Appended}
      BY <1>16 DEF appendVulnerability
    <2>3. record.status \notin Unfinished => Appended = record
      BY DEF Appended, Written
    <2>4. ASSUME record.status \in Unfinished
          PROVE  /\ Appended.status = record.status
                 /\ Lists(Appended.findings, report, parsed)
      <3>1. Lists(record.findings, report, parsed - 1) /\ record.findings \in Seq(Findings)
        BY <1>1, <1>2, <2>1, <2>4 DEF Progress, Records
      <3>2. parsed - 1 \in Nat /\ (parsed - 1) + 1 = parsed
        BY <1>3, <2>1
      <3>3. Lists(Append(record.findings, report[parsed]), report, parsed)
        BY <2>1, <3>1, <3>2, ListsAppend
      <3> QED
        BY <1>2, <2>4, <3>3 DEF Appended, Written, Records
    <2>5. FindingsInOrder'
      <3>1. CASE record' = record
        BY <1>5, <2>2, <3>1
      <3>2. CASE record' = Appended /\ record.status \in Unfinished
        BY <1>3, <2>2, <2>4, <3>2 DEF FindingsInOrder
      <3> QED
        BY <2>2, <2>3, <3>1, <3>2
    <2>6. FinishedIsComplete'
      BY <1>1, <1>4, <2>2, <2>3, <2>4 DEF FinishedIsComplete
    <2>7. ASSUME record' = Appended, pc' = "parse"
          PROVE  Past' /\ Progress'
      BY <1>1, <2>2, <2>3, <2>4, <2>7 DEF Past, Progress
    <2>8. ASSUME Throw(stage, Plain)
          PROVE  Past' /\ Progress'
      BY <1>6, <2>2, <2>8 DEF Throw
    <2> QED
      BY <1>16, <2>5, <2>6, <2>7, <2>8 DEF appendVulnerability, InOrder
  <1>17. CASE markFinished
    <2>1. parsed' = parsed /\ report' = report /\ pc' \notin Going /\ pc = "markFinished"
      BY <1>17 DEF markFinished, Throw
    <2> DEFINE done == Written([record EXCEPT !.status = "Finished"])
    <2>2. record' \in {record, done} /\ done.findings = record.findings
          /\ (record.status \notin Unfinished => done = record)
      BY <1>2, <1>17 DEF markFinished, Written, Records
    <2>3. record'.findings = record.findings
      BY <2>2
    <2>4. ASSUME record.status \in Unfinished
          PROVE  Lists(record.findings, report, Len(report)) /\ IsValid(report)
      <3>1. \A k \in parsed + 1 .. Len(report) : report[k] # Invalid /\ report[k] \notin Findings
        BY <1>1, <2>1 DEF Past
      <3>2. Lists(record.findings, report, parsed)
        BY <1>1, <2>1, <2>4 DEF Progress
      <3>3. Lists(record.findings, report, Len(report))
        BY <1>3, <3>1, <3>2, ListsSkip
      <3>4. ASSUME NEW k \in DOMAIN report
            PROVE  report[k] # Invalid
        BY <1>1, <1>3, <3>1 DEF Past
      <3> QED
        BY <3>3, <3>4 DEF IsValid
    <2>5. FindingsInOrder'
      BY <1>1, <2>1, <2>3 DEF FindingsInOrder
    <2>6. FinishedIsComplete'
      BY <1>1, <2>1, <2>2, <2>3, <2>4 DEF FinishedIsComplete
    <2> QED
      BY <1>6, <2>1, <2>5, <2>6 DEF InOrder
  <1>18. CASE persistFailed
    <2>1. parsed' = parsed /\ report' = report /\ pc' \notin Going
          /\ record' \in {record, FailedRecord}
      BY <1>18 DEF persistFailed, diskVars
    <2>2. FailedRecord.findings = record.findings
          /\ (FailedRecord.status = "Finished" => record.status = "Finished")
      BY <1>2 DEF FailedRecord, Written, Records
    <2> QED
      BY <1>5, <1>6, <2>1, <2>2 DEF InOrder
  <1>19. CASE CleanClone
    BY <1>5, <1>6, <1>19 DEF CleanClone, InOrder
  <1>20. CASE CleanReport
    BY <1>5, <1>6, <1>20 DEF CleanReport, InOrder
  <1>21. CASE RivalFails
    <2>1. record'.status = "Failed" /\ record'.findings = record.findings
      BY <1>2, <1>21 DEF RivalFails, Records
    <2> QED
      BY <1>4, <1>5, <1>8, <1>21, <2>1 DEF RivalFails, InOrder
  <1>22. CASE Lapse
    <2>1. record'.status = "expired" /\ record'.findings = <<>> /\ report' = report
          /\ parsed' = parsed /\ pc' = pc
      BY <1>22 DEF Lapse
    <2>2. FindingsInOrder' /\ FinishedIsComplete'
      BY <1>3, <2>1, ListsEmpty DEF FindingsInOrder, FinishedIsComplete
    <2> QED
      BY <1>4, <1>8, <2>1, <2>2 DEF InOrder
  <1>23. CASE ContainerWrites
    BY <1>5, <1>8, <1>23 DEF ContainerWrites, InOrder
  <1>24. CASE UNCHANGED vars
    BY <1>5, <1>8, <1>24 DEF vars, InOrder
  <1> QED
    BY <1>9, <1>10, <1>11, <1>12, <1>13, <1>14, <1>15, <1>16, <1>17, <1>18, <1>19, <1>20,
       <1>21, <1>22, <1>23, <1>24 DEF Next, Run

-----------------------------------------------------------------------------
(* The results. *)

\* The strengthened invariant holds in every reachable state.
THEOREM InvAlways == Spec => []IInv
  <1>1. IInv /\ [Next]_vars => IInv'
    BY TypeStep, CauseStep, DiskStep, OrderStep DEF IInv
  <1> QED
    BY <1>1, InvInit, PTL DEF Spec

\* Every reachable state of the engine is well typed.
THEOREM EngineTypeCorrect == Spec => []TypeOK
  <1>1. IInv => TypeOK
    BY DEF IInv
  <1> QED
    BY <1>1, InvAlways, PTL

\* At every moment the record lists the CRITICAL findings of a prefix of the
\* report, in order, none twice and none skipped.
THEOREM ListIsAPrefix == Spec => []FindingsInOrder
  <1>1. IInv => FindingsInOrder
    BY DEF IInv, InOrder
  <1> QED
    BY <1>1, InvAlways, PTL

\* A Finished scan has every finding of a valid report.
THEOREM FinishedMeansComplete == Spec => []FinishedIsComplete
  <1>1. IInv => FinishedIsComplete
    BY DEF IInv, InOrder
  <1> QED
    BY <1>1, InvAlways, PTL

\* The reason of a failure is that of the first error.
THEOREM ReasonIsTheCause == Spec => []FailedForItsCause
  <1>1. IInv => FailedForItsCause
    BY DEF IInv, CauseFirst
  <1> QED
    BY <1>1, InvAlways, PTL

\* A run that returned has closed its record, unless the write was lost.
THEOREM ReturnCloses == Spec => []ReturnedIsClosed
  <1>1. IInv => ReturnedIsClosed
    BY DEF IInv, Closed, Ending, ReturnedIsClosed
  <1> QED
    BY <1>1, InvAlways, PTL

\* What the run has put on the disk is gone when it returns.
THEOREM DiskIsClean == Spec => []ArtifactsGone
  <1>1. IInv => ArtifactsGone
    BY DEF IInv, Disk
  <1> QED
    BY <1>1, InvAlways, PTL

\* Nothing that goes wrong later replaces the first error.
THEOREM FirstErrorDecides == Spec => OriginalErrorWins
  <1>1. IInv /\ [Next]_vars => [cause # NoCause => cause' = cause]_cause
    <2> SUFFICES ASSUME IInv, [Next]_vars, cause' # cause
                 PROVE  cause = NoCause
      OBVIOUS
    <2>1. pc \in Going
      BY DEF Next, Run, vars, diskVars, Going, Early, Allocate, markScanning, Clone, TrivyLocal,
             TrivyDocker, StatReport, Parse, appendVulnerability, markFinished, persistFailed,
             CleanClone, CleanReport, RivalFails, Lapse, ContainerWrites
    <2> QED
      BY <2>1 DEF IInv, CauseFirst
  <1> QED
    BY <1>1, InvAlways, PTL DEF Spec, OriginalErrorWins

-----------------------------------------------------------------------------
(* The run and the port. *)

\* The record of the run, as one that the port of the repository keeps.
Port == INSTANCE ScanRecord WITH
            Ids <- {"scan"},
            Reasons <- Categories \cup {"rival"},
            NoReason <- "none",
            status <- [id \in {"scan"} |-> record.status],
            findings <- [id \in {"scan"} |-> record.findings],
            reason <- [id \in {"scan"} |-> record.reason]

\* What a write leaves: the record as it was, or as the call makes it.
LEMMA WritesArePortSteps ==
    ASSUME IInv, [Next]_vars
    PROVE  \/ record' = record
           \/ /\ record.status \in Unfinished
              /\ \/ record' = [record EXCEPT !.status = "Scanning"]
                 \/ record' = [record EXCEPT !.status = "Finished"]
                 \/ \E v \in Findings : record' = [record EXCEPT !.findings = Append(@, v)]
                 \/ \E r \in Categories \cup {"rival"} :
                        record' = [record EXCEPT !.status = "Failed", !.reason = r]
           \/ /\ record.status # "expired"
              /\ record' = [status |-> "expired", findings |-> <<>>, reason |-> "none"]
<1>1. CASE markScanning \/ markFinished
  BY <1>1 DEF markScanning, markFinished, Written
<1>2. CASE appendVulnerability
  BY <1>2 DEF appendVulnerability, Appended, Written, IInv, Past
<1>3. CASE persistFailed
  <2>1. cause.stage \in Stages /\ cause.error \in Errors
    BY <1>3 DEF persistFailed, IInv, CauseFirst, TypeOK
  <2>2. classifyScanError(cause.stage, cause.error) \in Categories
    BY <2>1, ReasonGiven
  <2> QED
    BY <1>3, <2>2 DEF persistFailed, FailedRecord, Written
<1>4. CASE RivalFails \/ Lapse
  BY <1>4 DEF RivalFails, Lapse
<1>5. CASE UNCHANGED record
  BY <1>5
<1> QED
  BY <1>1, <1>2, <1>3, <1>4, <1>5
     DEF Next, Run, vars, Allocate, Clone, TrivyLocal, TrivyDocker, StatReport, Parse,
         CleanClone, CleanReport, ContainerWrites

\* A run, its rivals and the retention change the record by the port's guarded
\* steps only, however its writes are lost: so what the port promises of a
\* record holds of the one a run leaves behind.
THEOREM RunKeepsPort == Spec => [][Port!Next]_(Port!recordVars)
<1>1. IInv /\ [Next]_vars => [Port!Next]_(Port!recordVars)
  <2> SUFFICES ASSUME IInv, [Next]_vars
               PROVE  Port!Next \/ UNCHANGED Port!recordVars
    OBVIOUS
  <2>1. record \in Records
    BY DEF IInv, TypeOK, Records
  <2>2. CASE record' = record
    BY <2>2 DEF Port!recordVars
  <2>3. CASE record.status # "expired"
             /\ record' = [status |-> "expired", findings |-> <<>>, reason |-> "none"]
    BY <2>1, <2>3 DEF Port!Next, Port!Lapse, Port!Unfinished, Port!Terminal, Unfinished, Records
  <2>4. CASE record.status \in Unfinished /\ record' = [record EXCEPT !.status = "Scanning"]
    BY <2>1, <2>4 DEF Port!Next, Port!MarkScanning, Port!Unfinished, Unfinished, Records
  <2>5. CASE record.status \in Unfinished /\ record' = [record EXCEPT !.status = "Finished"]
    BY <2>1, <2>5 DEF Port!Next, Port!MarkFinished, Port!Unfinished, Unfinished, Records
  <2>6. ASSUME NEW v \in Findings, record.status \in Unfinished,
               record' = [record EXCEPT !.findings = Append(@, v)]
        PROVE  Port!Next
    BY <2>1, <2>6 DEF Port!Next, Port!AppendVulnerability, Port!Unfinished, Unfinished, Records
  <2>7. ASSUME NEW r \in Categories \cup {"rival"}, record.status \in Unfinished,
               record' = [record EXCEPT !.status = "Failed", !.reason = r]
        PROVE  Port!Next
    BY <2>1, <2>7 DEF Port!Next, Port!MarkFailed, Port!Unfinished, Unfinished, Records
  <2> QED
    BY <2>2, <2>3, <2>4, <2>5, <2>6, <2>7, WritesArePortSteps DEF IInv
<1> QED
  BY <1>1, InvAlways, PTL DEF Spec

-----------------------------------------------------------------------------
(* How long a run can be. *)

\* How many steps the rest of the run may take besides those the leaves of the
\* report ask for.
StepsAfter ==
    [allocate |-> 12, markScanning |-> 11, clone |-> 10, trivy |-> 9, docker |-> 8,
     ready |-> 7, append |-> 6, parse |-> 5, markFinished |-> 4, persistFailed |-> 3,
     cleanClone |-> 2, cleanReport |-> 1, returned |-> 0]

\* The steps a run has left at most: two for each leaf the parser has not read.
StepsLeft == StepsAfter[pc] + 2 * (Len(report) - parsed)

LEMMA LengthTyped == ASSUME TypeOK PROVE Len(report) \in Nat /\ parsed \in 0 .. Len(report)
<1>1. report \in Seq(Leaves)
  BY EngineAssumption DEF TypeOK, Leaves
<1> QED
  BY <1>1 DEF TypeOK

LEMMA RunShortens ==
    ASSUME TypeOK, TypeOK', Run
    PROVE  StepsLeft' < StepsLeft
<1>1. Len(report) \in Nat /\ parsed \in 0 .. Len(report)
  BY LengthTyped
<1>2. report' = report
  BY DEF Run, Allocate, markScanning, Clone, TrivyLocal, TrivyDocker, StatReport, Parse,
         appendVulnerability, markFinished, persistFailed, CleanClone, CleanReport
<1>3. parsed' \in 0 .. Len(report)
  BY <1>2 DEF TypeOK
<1>4. CASE parsed' = parsed
  <2>1. StepsAfter[pc'] < StepsAfter[pc]
    <3>1. CASE Allocate \/ markScanning \/ Clone
      BY <3>1 DEF Allocate, markScanning, Clone, Throw, StepsAfter
    <3>2. CASE TrivyLocal \/ TrivyDocker \/ StatReport
      BY <3>2 DEF TrivyLocal, TrivyDocker, StatReport, Throw, StepsAfter
    <3>3. CASE Parse
      BY <1>1, <1>4, <3>3 DEF Parse, Yields, Throw, StepsAfter
    <3>4. CASE appendVulnerability \/ markFinished
      BY <3>4 DEF appendVulnerability, markFinished, Throw, StepsAfter
    <3>5. CASE persistFailed \/ CleanClone \/ CleanReport
      BY <3>5 DEF persistFailed, CleanClone, CleanReport, StepsAfter
    <3> QED
      BY <3>1, <3>2, <3>3, <3>4, <3>5 DEF Run
  <2>2. StepsAfter[pc] \in Nat /\ StepsAfter[pc'] \in Nat
    BY DEF TypeOK, StepsAfter
  <2> QED
    BY <1>1, <1>2, <1>4, <2>1, <2>2 DEF StepsLeft
<1>5. CASE parsed' # parsed
  <2>1. Parse
    BY <1>5 DEF Run, Allocate, markScanning, Clone, TrivyLocal, TrivyDocker, StatReport,
         appendVulnerability, markFinished, persistFailed, CleanClone, CleanReport
  <2>2. pc = "parse" /\ pc' = "append" /\ parsed' > parsed
    BY <1>1, <1>5, <2>1 DEF Parse, Yields
  <2> QED
    BY <1>1, <1>2, <1>3, <2>2 DEF StepsLeft, StepsAfter
<1> QED
  BY <1>4, <1>5

\* The core of RunReturns: every step of a run leaves it fewer steps to go, and
\* no rival, lapse or container gives it more.  A run that is given its turns
\* cannot go on for ever, whatever is thrown at it, and takes at most twelve
\* steps and two for each leaf of its report.
THEOREM RunIsBounded ==
    Spec => [][/\ StepsLeft \in 0 .. 12 + 2 * Len(report)
               /\ Run => StepsLeft' < StepsLeft
               /\ ~Run => StepsLeft' = StepsLeft]_vars
<1>1. IInv /\ IInv' /\ [Next]_vars
      => [/\ StepsLeft \in 0 .. 12 + 2 * Len(report)
          /\ Run => StepsLeft' < StepsLeft
          /\ ~Run => StepsLeft' = StepsLeft]_vars
  <2> SUFFICES ASSUME IInv, IInv', Next
               PROVE  /\ StepsLeft \in 0 .. 12 + 2 * Len(report)
                      /\ Run => StepsLeft' < StepsLeft
                      /\ ~Run => StepsLeft' = StepsLeft
    OBVIOUS
  <2>1. StepsAfter[pc] \in 0 .. 12
    BY DEF IInv, TypeOK, StepsAfter
  <2>2. StepsLeft \in 0 .. 12 + 2 * Len(report)
    BY <2>1, LengthTyped DEF IInv, StepsLeft
  <2>3. Run => StepsLeft' < StepsLeft
    BY RunShortens DEF IInv
  <2>4. ~Run => StepsLeft' = StepsLeft
    BY DEF Next, RivalFails, Lapse, ContainerWrites, StepsLeft
  <2> QED
    BY <2>2, <2>3, <2>4
<1> QED
  BY <1>1, InvAlways, PTL DEF Spec

=============================================================================
