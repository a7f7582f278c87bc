----------------------------- MODULE ScanRecord -----------------------------
(***************************************************************************)
(* What the ScanRepository port promises its callers, with no Redis in it: *)
(* every record is created once, moves through guarded atomic transitions, *)
(* is frozen by its first terminal status, and may lapse after retention.  *)
(* It abstracts src/apps/api/src/scan/scan.repository.port.ts.             *)
(***************************************************************************)
EXTENDS Sequences

CONSTANTS
    Ids,        \* scan identifiers
    Findings,   \* CRITICAL vulnerabilities
    Reasons,    \* bounded failure reasons
    NoReason    \* the error field is unset

VARIABLES
    status,     \* status[id]: "none" before create, "expired" after retention
    findings,   \* findings[id]: the vulnerabilities in discovery order
    reason      \* reason[id]: why a Failed scan failed

recordVars == <<status, findings, reason>>

Unfinished == {"Queued", "Scanning"}

Terminal == {"Finished", "Failed"}

RecordTypeOK ==
    /\ status \in [Ids -> {"none", "expired"} \cup Unfinished \cup Terminal]
    /\ findings \in [Ids -> Seq(Findings)]
    /\ reason \in [Ids -> Reasons \cup {NoReason}]

Init ==
    /\ status = [id \in Ids |-> "none"]
    /\ findings = [id \in Ids |-> <<>>]
    /\ reason = [id \in Ids |-> NoReason]

-----------------------------------------------------------------------------

Create(id) ==
    /\ status[id] = "none"
    /\ status' = [status EXCEPT ![id] = "Queued"]
    /\ UNCHANGED <<findings, reason>>

MarkScanning(id) ==
    /\ status[id] \in Unfinished
    /\ status' = [status EXCEPT ![id] = "Scanning"]
    /\ UNCHANGED <<findings, reason>>

AppendVulnerability(id, v) ==
    /\ status[id] \in Unfinished
    /\ findings' = [findings EXCEPT ![id] = Append(@, v)]
    /\ UNCHANGED <<status, reason>>

MarkFinished(id) ==
    /\ status[id] \in Unfinished
    /\ status' = [status EXCEPT ![id] = "Finished"]
    /\ UNCHANGED <<findings, reason>>

MarkFailed(id, r) ==
    /\ status[id] \in Unfinished
    /\ status' = [status EXCEPT ![id] = "Failed"]
    /\ reason' = [reason EXCEPT ![id] = r]
    /\ UNCHANGED findings

\* The seven-day retention lapses; nothing of the record survives.
Lapse(id) ==
    /\ status[id] \in Unfinished \cup Terminal
    /\ status' = [status EXCEPT ![id] = "expired"]
    /\ findings' = [findings EXCEPT ![id] = <<>>]
    /\ reason' = [reason EXCEPT ![id] = NoReason]

Next ==
    \E id \in Ids :
        \/ Create(id)
        \/ MarkScanning(id)
        \/ \E v \in Findings : AppendVulnerability(id, v)
        \/ MarkFinished(id)
        \/ \E r \in Reasons : MarkFailed(id, r)
        \/ Lapse(id)

Spec == Init /\ [][Next]_recordVars

=============================================================================
