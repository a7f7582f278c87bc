----------------------------- MODULE ScanClient -----------------------------
(***************************************************************************)
(* The web client (App.tsx, useScanPolling.ts) and the two transports of   *)
(* the API over one set of records.  The records are kept by ScanRecord,   *)
(* which moves on as the workers please.  The client submits a URL, shows  *)
(* the scan its answer names, and polls; requests are answered late, in    *)
(* any order, or fail.  Queries run through urql, which is external: it    *)
(* drops what is under way for an id that is no longer asked for, and may  *)
(* or may not keep the data of the last id until the next is answered.     *)
(***************************************************************************)
EXTENDS Naturals, Sequences

CONSTANTS
    Ids,                \* bound: how many scans may be created
    Urls,               \* what a user may type
    DEFAULT_REPO_URL,   \* what the input holds at first
    Findings,           \* CRITICAL vulnerabilities
    MaxFindings,        \* bound: vulnerabilities of a scan
    Slots,              \* bound: how many queries are under way at once
    MaxErrors,          \* bound: how many requests fail
    None                \* null, undefined, and the empty input

ASSUME ClientAssumption ==
    /\ None \notin Ids
    /\ MaxFindings \in Nat
    /\ MaxErrors \in Nat
    /\ DEFAULT_REPO_URL \in Urls
    /\ \A u \in Urls : u.gits \in Nat

VARIABLES
    status,         \* the records, as in ScanRecord
    findings,
    reason,
    repoUrl,        \* repoUrl[id]: the URL the record was created with
    url,            \* App: the text of the input
    scanId,         \* App: the scan on screen
    submittedRepo,  \* App: the name above it
    mutation,       \* the enqueueScan request: what was sent, what came back
    data,           \* the answer on screen, and the id it was asked for
    query,          \* query[q]: a scan query under way
    errors          \* how many requests have failed

recordVars == <<status, findings, reason>>

appVars == <<url, scanId, submittedRepo>>

vars == <<recordVars, repoUrl, appVars, mutation, data, query, errors>>

Record == INSTANCE ScanRecord WITH Reasons <- {"clone"}, NoReason <- None

Terminal == {"Finished", "Failed"}

Present(id) == status[id] \notin {"none", "expired"}

Init ==
    /\ Record!Init
    /\ repoUrl = [id \in Ids |-> None]
    /\ url = DEFAULT_REPO_URL
    /\ scanId = None
    /\ submittedRepo = None
    /\ mutation = [pc |-> "idle"]
    /\ data = None
    /\ query = [q \in Slots |-> [pc |-> "free"]]
    /\ errors = 0

-----------------------------------------------------------------------------
(* URLs: a host, an owner that follows GitHub's rules or not, a repository,*)
(* and how many times ".git" comes after it.  A name is a URL less its     *)
(* host.                                                                   *)

\* Both parsers take one ".git" from the end, where there is one.
Stripped(n) == IF n = 0 THEN 0 ELSE n - 1

Name(u) == [owner |-> u.owner, repo |-> u.repo, gits |-> Stripped(u.gits)]

\* The URL that the client builds of a name to send it, and the transports to
\* hand it on.
Canonical(name) ==
    [host |-> "github.com", owner |-> name.owner, repo |-> name.repo, gits |-> name.gits]

\* The expression of the client knows one host and takes any owner.
parseRepo(u) == IF u # None /\ u.host = "github.com" THEN Name(u) ELSE None

parseGithubUrl(u) ==
    IF u.host \in {"github.com", "www.github.com"} /\ u.owner # "malformed"
    THEN Name(u)
    ELSE None

\* What both transports hand to the service: the canonical form, or nothing.
Accepted(u) ==
    LET parsed == parseGithubUrl(u)
    IN  IF parsed = None THEN None ELSE Canonical(parsed)

-----------------------------------------------------------------------------
(* Answers: rows is {} for an absent list and {l} for the list l. *)

\* Mutant: the list is surfaced while the scan goes on, not at its end.
toScanModelEager(id) ==
    [status |-> status[id],
     rows   |-> IF status[id] = "Scanning" THEN {findings[id]} ELSE {}]

toScanModel(id) ==
    [status |-> status[id],
     rows   |-> IF status[id] = "Finished" THEN {findings[id]} ELSE {}]

toScanResponse(id) ==
    CASE status[id] = "Finished" -> [status |-> "Finished", rows |-> {findings[id]}]
      [] status[id] = "Failed"   -> [status |-> "Failed", rows |-> {}, error |-> reason[id]]
      [] OTHER                   -> [status |-> status[id], rows |-> {}]

\* The resolver answers null for an unknown id, the controller 404.
Resolved(id) == IF Present(id) THEN toScanModel(id) ELSE None

Got(id) == IF Present(id) THEN toScanResponse(id) ELSE None

-----------------------------------------------------------------------------
(* The service, and the workers behind it. *)

Fresh(id) == status[id] = "none" /\ \A other \in Ids : other < id => status[other] # "none"

\* ScanService.enqueue up to its create; the queue is part of ScanSystem.
Enqueue(id, u) ==
    /\ Fresh(id)
    /\ Record!Create(id)
    /\ repoUrl' = [repoUrl EXCEPT ![id] = u]

Post(u) ==
    /\ mutation.pc # "sent"
    /\ Accepted(u) # None
    /\ \E id \in Ids : Enqueue(id, Accepted(u))
    /\ UNCHANGED <<appVars, mutation, data, query, errors>>

WorkerStep(id) ==
    /\ \/ Record!MarkScanning(id) /\ status[id] # "Scanning"
       \/ /\ status[id] = "Scanning" /\ Len(findings[id]) < MaxFindings
          /\ \E v \in Findings : Record!AppendVulnerability(id, v)
       \/ status[id] = "Scanning" /\ Record!MarkFinished(id)
       \/ Record!MarkFailed(id, "clone")
       \/ Record!Lapse(id)
    /\ UNCHANGED <<repoUrl, appVars, mutation, data, query, errors>>

-----------------------------------------------------------------------------
(* The client. *)

\* scan of App: undefined while there is no answer, or a null one.
scanOnScreen ==
    IF data = None \/ data.answer = None THEN [status |-> "undefined", rows |-> {}]
                                        ELSE data.answer

\* One row for each finding, in the order of the list.
ResultsTable(rows) == IF rows = {} THEN <<>> ELSE CHOOSE list \in rows : TRUE

StatusHeaderPill(shown, count) ==
    CASE shown = "Scanning" -> "indigo"
      [] shown = "Failed"   -> "red"
      [] shown = "Finished" -> IF count > 0 THEN "red" ELSE "emerald"
      [] OTHER              -> "slate"

StatusBody(shown, count) ==
    CASE shown = "Finished"  -> IF count = 0 THEN "clean" ELSE "table"
      [] shown = "Failed"    -> "failed"
      [] shown = "undefined" -> "loading"
      [] OTHER               -> "underway"

\* The status region, which is there while a scan is.
Screen ==
    LET shown == IF scanId = None THEN "undefined" ELSE scanOnScreen.status
        criticals == ResultsTable(scanOnScreen.rows)
    IN  [tone |-> StatusHeaderPill(shown, Len(criticals)),
         body |-> StatusBody(shown, Len(criticals)),
         rows |-> criticals]

\* Mutant: Scanning counts as an end.
terminalLoose == data # None /\ data.answer # None /\ data.answer.status # "Queued"

terminal == data # None /\ data.answer # None /\ data.answer.status \in Terminal

inFlight == mutation.pc # "idle" \/ (scanId # None /\ ~terminal)

Type(u) ==
    /\ url' = u
    /\ UNCHANGED <<recordVars, repoUrl, scanId, submittedRepo, mutation, data, query, errors>>

\* The button is enabled, which a form submitted by key depends on, too.
Submit ==
    /\ parseRepo(url) # None
    /\ ~inFlight
    /\ \E id \in Ids : status[id] = "none"
    /\ mutation' = [pc |-> "sent", repo |-> parseRepo(url)]
    /\ UNCHANGED <<recordVars, repoUrl, appVars, data, query, errors>>

\* The resolver validates what the client sent, and the service answers an id.
\* The client may be told of an error after create, or before.
ServeMutation ==
    /\ mutation.pc = "sent"
    /\ LET accepted == Accepted(Canonical(mutation.repo))
       IN  \/ /\ accepted = None
              /\ mutation' = [pc |-> "failed"]
              /\ UNCHANGED <<recordVars, repoUrl, errors>>
           \/ /\ accepted # None
              /\ \E id \in Ids :
                    /\ Enqueue(id, accepted)
                    /\ \/ /\ mutation' = [pc |-> "created", repo |-> mutation.repo, id |-> id]
                          /\ UNCHANGED errors
                       \/ /\ errors < MaxErrors
                          /\ errors' = errors + 1
                          /\ mutation' = [pc |-> "failed"]
           \/ /\ errors < MaxErrors
              /\ errors' = errors + 1
              /\ mutation' = [pc |-> "failed"]
              /\ UNCHANGED <<recordVars, repoUrl>>
    /\ UNCHANGED <<appVars, data, query>>

\* urql lets go of the old id and asks for the new one.  None is a pause.
Ask(id) ==
    /\ data' \in {data, None}
    /\ query' = [q \in Slots |-> IF id # None /\ q = 1 THEN [pc |-> "sent", id |-> id]
                                                       ELSE [pc |-> "free"]]

\* Mutant: the name is read from the input when the answer has come.
EnqueuedLateName ==
    /\ mutation.pc = "created"
    /\ parseRepo(url) # None
    /\ scanId' = mutation.id
    /\ submittedRepo' = parseRepo(url)
    /\ mutation' = [pc |-> "idle"]
    /\ Ask(mutation.id)
    /\ UNCHANGED <<recordVars, repoUrl, url, errors>>

\* onSubmit after its await: an id came back.
Enqueued ==
    /\ mutation.pc = "created"
    /\ scanId' = mutation.id
    /\ submittedRepo' = mutation.repo
    /\ mutation' = [pc |-> "idle"]
    /\ Ask(mutation.id)
    /\ UNCHANGED <<recordVars, repoUrl, url, errors>>

\* onSubmit after its await: an error is shown, the scan on screen stays.
NotEnqueued ==
    /\ mutation.pc = "failed"
    /\ mutation' = [pc |-> "idle"]
    /\ UNCHANGED <<recordVars, repoUrl, appVars, data, query, errors>>

\* Mutant: the name of the old scan is not reset.
NewScanKeepsName ==
    /\ scanId # None
    /\ scanId' = None
    /\ url' = None
    /\ Ask(None)
    /\ UNCHANGED <<recordVars, repoUrl, submittedRepo, mutation, errors>>

\* The button is there while a scan is on screen, under way or not.
NewScan ==
    /\ scanId # None
    /\ scanId' = None
    /\ submittedRepo' = None
    /\ url' = None
    /\ Ask(None)
    /\ UNCHANGED <<recordVars, repoUrl, mutation, errors>>

\* The interval of useScanPolling fires; it is armed until a terminal status
\* is on screen, and again when one goes away.
Poll(q) ==
    /\ scanId # None
    /\ ~terminal
    /\ query[q].pc = "free"
    /\ query' = [query EXCEPT ![q] = [pc |-> "sent", id |-> scanId]]
    /\ UNCHANGED <<recordVars, repoUrl, appVars, mutation, data, errors>>

ServeQuery(q) ==
    /\ query[q].pc = "sent"
    /\ query' = [query EXCEPT ![q] =
                    [pc |-> "answered", id |-> @.id, answer |-> Resolved(@.id)]]
    /\ UNCHANGED <<recordVars, repoUrl, appVars, mutation, data, errors>>

Show(q) ==
    /\ query[q].pc = "answered"
    /\ data' = [id |-> query[q].id, answer |-> query[q].answer]
    /\ query' = [query EXCEPT ![q] = [pc |-> "free"]]
    /\ UNCHANGED <<recordVars, repoUrl, appVars, mutation, errors>>

\* An error leaves the data on screen.
QueryFails(q) ==
    /\ query[q].pc # "free"
    /\ errors < MaxErrors
    /\ errors' = errors + 1
    /\ query' = [query EXCEPT ![q] = [pc |-> "free"]]
    /\ UNCHANGED <<recordVars, repoUrl, appVars, mutation, data>>

Next ==
    \/ \E u \in Urls : Post(u) \/ Type(u)
    \/ \E id \in Ids : WorkerStep(id)
    \/ Submit \/ ServeMutation \/ Enqueued \/ NotEnqueued \/ NewScan
    \/ \E q \in Slots : Poll(q) \/ ServeQuery(q) \/ Show(q) \/ QueryFails(q)

Spec == Init /\ [][Next]_vars

\* The interval fires while it is armed, and a request is served and its answer
\* delivered unless it fails.  Users and workers need not do anything.
Fairness == \A q \in Slots : WF_vars(Poll(q)) /\ WF_vars(ServeQuery(q)) /\ WF_vars(Show(q))

FairSpec == Spec /\ Fairness

-----------------------------------------------------------------------------
(* Properties. *)

TypeOK ==
    /\ Record!RecordTypeOK
    /\ url \in Urls \cup {None}
    /\ scanId \in Ids \cup {None}
    /\ (scanId = None) <=> (submittedRepo = None)
    /\ \A q \in Slots : query[q].pc # "free" => query[q].id = scanId
    /\ errors \in 0 .. MaxErrors

\* What a scan is called on screen is what it scans, whatever the user types
\* or presses while the request is under way (onSubmit around its await), with
\* one exception: a name that still ends in ".git", since more than one was
\* typed, loses another one in the server (o/r.git.git is shown as o/r.git and
\* scanned as o/r).  And neither transport ever hands a worker anything but a
\* canonical URL.
NameIsScanned ==
    /\ scanId # None =>
           repoUrl[scanId] = Canonical([submittedRepo EXCEPT !.gits = Stripped(@)])
    /\ \A id \in Ids : repoUrl[id] # None =>
           /\ repoUrl[id].owner # "malformed"
           /\ repoUrl[id] = Canonical(repoUrl[id])

\* What is on screen is never ahead of the record it came from: the all-clear
\* and the table are the whole outcome of a scan that has finished, a failure
\* one that has failed (until the record lapses).  A client of the REST API
\* that asks for the same scan is told the same.
ShownIsTrue ==
    /\ LET was(end) == status[data.id] \in {end, "expired"}
           list == findings[data.id]
       IN  data # None =>
               CASE Screen.body = "clean"  -> was("Finished") /\ list = <<>>
                 [] Screen.body = "table"  ->
                        was("Finished") /\ (status[data.id] = "Finished" => Screen.rows = list)
                 [] Screen.body = "failed" -> was("Failed")
                 [] OTHER                  -> Screen.tone # "emerald"
    /\ \A id \in Ids :
           Present(id) => /\ Resolved(id).status = Got(id).status
                          /\ Resolved(id).rows = Got(id).rows

EndShown(id) ==
    data # None /\ data.id = id /\ data.answer # None /\ data.answer.status = status[id]

\* Once the server has been heard about the scan on screen, its end is shown,
\* though late answers to earlier polls may hide it again for a while.
EndIsShown ==
    \A id \in Ids :
        scanId = id /\ data # None /\ data.id = id /\ status[id] \in Terminal
            ~> EndShown(id) \/ scanId # id \/ status[id] = "expired"

=============================================================================
