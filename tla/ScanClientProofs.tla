-------------------------- MODULE ScanClientProofs --------------------------
(***************************************************************************)
(* What the web client shows is true, for any number of scans, URLs,       *)
(* findings, queries under way and failed requests.                        *)
(*                                                                         *)
(* IInv says of each place a name or an answer waits in that it is still   *)
(* good: the request that was answered and the scan on screen name a       *)
(* record created with that very URL (Named), and an answer that is under  *)
(* way or on screen claims an end only of a record that has reached it     *)
(* (Answered).                                                             *)
(***************************************************************************)
EXTENDS ScanClient, TLAPS

-----------------------------------------------------------------------------
(* URLs. *)

\* What a parser answers is a name: its fields and no other.
IsName(name) == name = [owner |-> name.owner, repo |-> name.repo, gits |-> name.gits]

LEMMA ParsedIsName ==
    ASSUME NEW u
    PROVE  /\ IsName(Name(u))
           /\ parseRepo(u) # None => IsName(parseRepo(u))
           /\ Name(u).owner = u.owner
           /\ Name(u).repo = u.repo
           /\ Name(u).gits = Stripped(u.gits)
BY DEF IsName, Name, parseRepo

LEMMA CanonicalKeeps ==
    ASSUME NEW name
    PROVE  /\ Canonical(name).owner = name.owner
           /\ Canonical(name).repo = name.repo
           /\ Canonical(name).gits = name.gits
           /\ Canonical(name) = Canonical(Canonical(name))
BY DEF Canonical

LEMMA AcceptedIsCanonical ==
    ASSUME NEW u, Accepted(u) # None
    PROVE  /\ Accepted(u) = Canonical(Name(u))
           /\ Accepted(u) = Canonical(Accepted(u))
           /\ Accepted(u).owner # "malformed"
<1>1. parseGithubUrl(u) # None
  BY DEF Accepted
<1>2. u.owner # "malformed" /\ parseGithubUrl(u) = Name(u)
  BY <1>1 DEF parseGithubUrl
<1>3. Accepted(u) = Canonical(Name(u))
  BY <1>1, <1>2 DEF Accepted
<1> QED
  BY <1>2, <1>3, CanonicalKeeps, ParsedIsName

\* The server keeps the name the client sent, less one ".git" at its end.
LEMMA AcceptedStripsName ==
    ASSUME NEW name, IsName(name), Accepted(Canonical(name)) # None
    PROVE  Accepted(Canonical(name)) = Canonical([name EXCEPT !.gits = Stripped(@)])
<1>1. Accepted(Canonical(name)) = Canonical(Name(Canonical(name)))
  BY AcceptedIsCanonical
<1>2. Name(Canonical(name))
        = [owner |-> name.owner, repo |-> name.repo, gits |-> Stripped(name.gits)]
  BY CanonicalKeeps DEF Name
<1>3. [name EXCEPT !.gits = Stripped(@)]
        = [owner |-> name.owner, repo |-> name.repo, gits |-> Stripped(name.gits)]
  BY DEF IsName
<1> QED
  BY <1>1, <1>2, <1>3

-----------------------------------------------------------------------------
(* The invariant. *)

Created(id) == id \in Ids /\ status[id] # "none"

Named ==
    /\ repoUrl = [id \in Ids |-> repoUrl[id]]
    /\ \A id \in Ids : repoUrl[id] # None => Created(id)
    /\ scanId # None => Created(scanId)
    /\ mutation.pc \in {"idle", "sent", "created", "failed"}
    /\ mutation.pc \in {"sent", "created"} => mutation.repo # None /\ IsName(mutation.repo)
    /\ mutation.pc = "created"
       => /\ Created(mutation.id)
          /\ repoUrl[mutation.id] = Canonical([mutation.repo EXCEPT !.gits = Stripped(@)])
    /\ NameIsScanned

\* An answer claims an end only of a record that reached it, and lists what
\* the record lists until it lapses.
Holds(id, answer) ==
    \/ answer = None
    \/ /\ answer.status \in {"Queued", "Scanning", "Failed"}
       /\ answer.rows = {}
       /\ answer.status = "Failed" => status[id] \in {"Failed", "expired"}
    \/ /\ answer.status = "Finished"
       /\ status[id] \in {"Finished", "expired"}
       /\ \E list \in Seq(Findings) :
            /\ answer.rows = {list}
            /\ status[id] = "Finished" => list = findings[id]

Answered ==
    /\ \A id \in Ids : status[id] = "expired" => findings[id] = <<>>
    /\ query = [q \in Slots |-> query[q]]
    /\ \A q \in Slots :
         /\ query[q].pc # "free" => scanId # None
         /\ query[q].pc = "answered" => Holds(query[q].id, query[q].answer)
    /\ data # None => data.id \in Ids /\ Holds(data.id, data.answer)

IInv == TypeOK /\ Named /\ Answered

-----------------------------------------------------------------------------
(* What happens to the records. *)

\* A record is created once, never changes its end, and lapses for good.
Ages(id) ==
    \/ status'[id] = status[id] /\ status[id] # "Finished" /\ status[id] # "expired"
    \/ status'[id] = status[id] /\ findings'[id] = findings[id]
    \/ status[id] = "none" /\ status'[id] = "Queued"
    \/ status[id] \in {"Queued", "Scanning"}
       /\ status'[id] \in {"Queued", "Scanning", "Finished", "Failed"}
    \/ status[id] # "none" /\ status'[id] = "expired" /\ findings'[id] = <<>>

LEMMA HoldsOn ==
    ASSUME NEW id, NEW answer, Holds(id, answer), Ages(id)
    PROVE  Holds(id, answer)'
BY DEF Holds, Ages

LEMMA CreatedOn ==
    ASSUME NEW id, Created(id), Ages(id)
    PROVE  Created(id)'
BY DEF Created, Ages

LEMMA WorkerAges ==
    ASSUME TypeOK, NEW id \in Ids, WorkerStep(id)
    PROVE  Record!RecordTypeOK' /\ \A o \in Ids : Ages(o)
<1> USE DEF TypeOK, Record!RecordTypeOK, Record!Unfinished, Record!Terminal, Ages
<1>1. CASE Record!MarkScanning(id)
  BY <1>1 DEF Record!MarkScanning
<1>2. CASE \E v \in Findings : Record!AppendVulnerability(id, v)
  <2>1. PICK v \in Findings : Record!AppendVulnerability(id, v)
    BY <1>2
  <2>2. Append(findings[id], v) \in Seq(Findings)
    OBVIOUS
  <2>3. findings' \in [Ids -> Seq(Findings)]
    BY <2>1, <2>2 DEF Record!AppendVulnerability
  <2> QED
    BY <2>1, <2>3 DEF Record!AppendVulnerability
<1>3. CASE Record!MarkFinished(id)
  BY <1>3 DEF Record!MarkFinished
<1>4. CASE Record!MarkFailed(id, "clone")
  BY <1>4 DEF Record!MarkFailed
<1>5. CASE Record!Lapse(id)
  <2>1. <<>> \in Seq(Findings)
    OBVIOUS
  <2> QED
    BY <1>5, <2>1 DEF Record!Lapse
<1> QED
  BY <1>1, <1>2, <1>3, <1>4, <1>5 DEF WorkerStep

LEMMA EnqueueAges ==
    ASSUME TypeOK, NEW id \in Ids, NEW u, Enqueue(id, u)
    PROVE  /\ Record!RecordTypeOK'
           /\ status[id] = "none" /\ status'[id] = "Queued"
           /\ findings' = findings
           /\ \A o \in Ids : Ages(o)
BY DEF Enqueue, Record!Create, TypeOK, Record!RecordTypeOK, Record!Unfinished, Ages

LEMMA SameAges ==
    ASSUME UNCHANGED recordVars, TypeOK
    PROVE  Record!RecordTypeOK' /\ \A o \in Ids : Ages(o)
BY DEF recordVars, TypeOK, Record!RecordTypeOK, Ages

LEMMA EveryStepAges ==
    ASSUME TypeOK, [Next]_vars
    PROVE  Record!RecordTypeOK' /\ \A o \in Ids : Ages(o)
<1>1. CASE \E u : \E id \in Ids : Enqueue(id, u)
  BY <1>1, EnqueueAges
<1>2. CASE \E id \in Ids : WorkerStep(id)
  BY <1>2, WorkerAges
<1>3. CASE UNCHANGED recordVars
  BY <1>3, SameAges
<1>4. \/ \E u : \E id \in Ids : Enqueue(id, u)
      \/ \E id \in Ids : WorkerStep(id)
      \/ UNCHANGED recordVars
  <2>1. ASSUME ServeMutation
        PROVE  (\E u : \E id \in Ids : Enqueue(id, u)) \/ UNCHANGED recordVars
    BY <2>1 DEF ServeMutation
  <2>2. ASSUME NEW u \in Urls, Post(u)
        PROVE  \E v : \E id \in Ids : Enqueue(id, v)
    BY <2>2 DEF Post
  <2> QED
    BY <2>1, <2>2 DEF Next, vars, Type, Submit, Enqueued, NotEnqueued, NewScan,
                      Poll, ServeQuery, Show, QueryFails
<1> QED
  BY <1>1, <1>2, <1>3, <1>4

-----------------------------------------------------------------------------
(* Queries. *)

QueriesOf(id) ==
    /\ query = [q \in Slots |-> query[q]]
    /\ \A q \in Slots : query[q].pc # "free" => query[q].id = id /\ id # None

\* urql asks for one id at a time.
LEMMA AskFor ==
    ASSUME NEW id, Ask(id)
    PROVE  /\ query' = [q \in Slots |-> query'[q]]
           /\ \A q \in Slots : query'[q].pc # "free" => query'[q].id = id /\ id # None
           /\ \A q \in Slots : query'[q].pc # "answered"
           /\ data' \in {data, None}
<1>1. /\ query' = [q \in Slots |-> IF id # None /\ q = 1 THEN [pc |-> "sent", id |-> id]
                                                          ELSE [pc |-> "free"]]
      /\ data' \in {data, None}
  BY DEF Ask
<1>2. ASSUME NEW q \in Slots
      PROVE  \/ query'[q] = [pc |-> "sent", id |-> id] /\ id # None
             \/ query'[q] = [pc |-> "free"]
  BY <1>1
<1>3. ASSUME NEW q \in Slots
      PROVE  /\ query'[q].pc # "free" => query'[q].id = id /\ id # None
             /\ query'[q].pc # "answered"
  <2>1. CASE query'[q] = [pc |-> "sent", id |-> id] /\ id # None
    BY <2>1
  <2>2. CASE query'[q] = [pc |-> "free"]
    BY <2>2
  <2> QED
    BY <1>2, <2>1, <2>2
<1>4. query' = [q \in Slots |-> query'[q]]
  BY <1>1
<1> QED
  BY <1>1, <1>3, <1>4

\* One query moves on.
LEMMA QueryMoves ==
    ASSUME QueriesOf(scanId), NEW q \in Slots, NEW r,
           query' = [query EXCEPT ![q] = r],
           r.pc # "free" => r.id = scanId /\ scanId # None,
           scanId' = scanId
    PROVE  /\ query' = [p \in Slots |-> query'[p]]
           /\ query'[q] = r
           /\ \A p \in Slots \ {q} : query'[p] = query[p]
           /\ \A p \in Slots : query'[p].pc # "free" => query'[p].id = scanId' /\ scanId' # None
BY DEF QueriesOf

\* The part of the type invariant and of Answered that is about queries.
LEMMA StepQueries ==
    ASSUME IInv, [Next]_vars
    PROVE  /\ query' = [q \in Slots |-> query'[q]]
           /\ \A q \in Slots : query'[q].pc # "free" => query'[q].id = scanId' /\ scanId' # None
<1>1. QueriesOf(scanId)
  BY DEF IInv, TypeOK, Answered, QueriesOf
<1>2. CASE UNCHANGED <<query, scanId>>
  BY <1>1, <1>2 DEF QueriesOf
<1>3. CASE Enqueued
  <2>1. Ask(mutation.id) /\ scanId' = mutation.id
    BY <1>3 DEF Enqueued
  <2> QED
    BY <2>1, AskFor
<1>4. CASE NewScan
  <2>1. Ask(None) /\ scanId' = None
    BY <1>4 DEF NewScan
  <2> QED
    BY <2>1, AskFor
<1>5. ASSUME NEW q \in Slots, Poll(q)
      PROVE  /\ query' = [p \in Slots |-> query'[p]]
             /\ \A p \in Slots : query'[p].pc # "free" => query'[p].id = scanId' /\ scanId' # None
  <2> DEFINE r == [pc |-> "sent", id |-> scanId]
  <2>1. query' = [query EXCEPT ![q] = r] /\ scanId # None /\ scanId' = scanId
    BY <1>5 DEF Poll, appVars
  <2>2. r.id = scanId
    OBVIOUS
  <2> HIDE DEF r
  <2> QED
    BY <1>1, <2>1, <2>2, QueryMoves
<1>6. ASSUME NEW q \in Slots, ServeQuery(q)
      PROVE  /\ query' = [p \in Slots |-> query'[p]]
             /\ \A p \in Slots : query'[p].pc # "free" => query'[p].id = scanId' /\ scanId' # None
  <2> DEFINE r == [pc |-> "answered", id |-> query[q].id, answer |-> Resolved(query[q].id)]
  <2>1. query' = [query EXCEPT ![q] = r] /\ query[q].pc = "sent" /\ scanId' = scanId
    BY <1>6 DEF ServeQuery, appVars
  <2>2. r.id = query[q].id
    OBVIOUS
  <2> HIDE DEF r
  <2> QED
    BY <1>1, <2>1, <2>2, QueryMoves DEF QueriesOf
<1>7. ASSUME NEW q \in Slots, Show(q) \/ QueryFails(q)
      PROVE  /\ query' = [p \in Slots |-> query'[p]]
             /\ \A p \in Slots : query'[p].pc # "free" => query'[p].id = scanId' /\ scanId' # None
  <2> DEFINE r == [pc |-> "free"]
  <2>1. query' = [query EXCEPT ![q] = r] /\ scanId' = scanId
    BY <1>7 DEF Show, QueryFails, appVars
  <2>2. r.pc = "free"
    OBVIOUS
  <2> HIDE DEF r
  <2> QED
    BY <1>1, <2>1, <2>2, QueryMoves
<1> QED
  BY <1>2, <1>3, <1>4, <1>5, <1>6, <1>7
     DEF Next, vars, appVars, Post, Type, WorkerStep, Submit, ServeMutation, NotEnqueued

LEMMA StepTypes ==
    ASSUME IInv, [Next]_vars
    PROVE  TypeOK'
<1> USE DEF IInv, TypeOK
<1>1. Record!RecordTypeOK'
  BY EveryStepAges
<1>2. \A q \in Slots : query'[q].pc # "free" => query'[q].id = scanId'
  BY StepQueries
<1>3. errors' \in 0 .. MaxErrors
  BY ClientAssumption
     DEF Next, vars, Post, Type, WorkerStep, Submit, ServeMutation, Enqueued, NotEnqueued,
         NewScan, Poll, ServeQuery, Show, QueryFails
<1>4. url' \in Urls \cup {None}
  BY DEF Next, vars, appVars, Post, Type, WorkerStep, Submit, ServeMutation, Enqueued,
         NotEnqueued, NewScan, Poll, ServeQuery, Show, QueryFails
<1>5. scanId' \in Ids \cup {None} /\ ((scanId' = None) <=> (submittedRepo' = None))
  <2>1. CASE Enqueued
    BY <2>1, ClientAssumption DEF Enqueued, Named, Created
  <2>2. CASE ~Enqueued
    BY <2>2 DEF Next, vars, appVars, Post, Type, WorkerStep, Submit, ServeMutation,
                NotEnqueued, NewScan, Poll, ServeQuery, Show, QueryFails
  <2> QED
    BY <2>1, <2>2
<1> QED
  BY <1>1, <1>2, <1>3, <1>4, <1>5

-----------------------------------------------------------------------------
(* Names. *)

\* A create writes one URL, and none that anyone has a name for yet.
LEMMA EnqueueNames ==
    ASSUME IInv, NEW id \in Ids, NEW u, Accepted(u) # None,
           Enqueue(id, Accepted(u))
    PROVE  /\ repoUrl' = [o \in Ids |-> repoUrl'[o]]
           /\ repoUrl'[id] = Accepted(u)
           /\ \A o \in Ids \ {id} : repoUrl'[o] = repoUrl[o]
           /\ \A o : Created(o) => o # id /\ repoUrl'[o] = repoUrl[o] /\ Created(o)'
           /\ Created(id)'
           /\ \A o \in Ids : repoUrl'[o] # None => Created(o)'
           /\ \A o \in Ids : repoUrl'[o] # None =>
                 /\ repoUrl'[o].owner # "malformed"
                 /\ repoUrl'[o] = Canonical(repoUrl'[o])
<1>1. repoUrl' = [repoUrl EXCEPT ![id] = Accepted(u)]
  BY DEF Enqueue
<1>2. /\ status[id] = "none" /\ status'[id] = "Queued"
      /\ \A o \in Ids : Ages(o)
  BY EnqueueAges DEF IInv
<1>3. /\ repoUrl' = [o \in Ids |-> repoUrl'[o]]
      /\ repoUrl'[id] = Accepted(u)
      /\ \A o \in Ids \ {id} : repoUrl'[o] = repoUrl[o]
  BY <1>1 DEF IInv, Named
<1>4. ASSUME NEW o, Created(o)
      PROVE  o # id /\ repoUrl'[o] = repoUrl[o] /\ Created(o)'
  BY <1>2, <1>3, <1>4, CreatedOn DEF Created
<1>5. Created(id)'
  BY <1>2 DEF Created
<1>6. /\ Accepted(u) = Canonical(Accepted(u))
      /\ Accepted(u).owner # "malformed"
  BY AcceptedIsCanonical
<1>7. ASSUME NEW o \in Ids, repoUrl'[o] # None
      PROVE  /\ Created(o)'
             /\ repoUrl'[o].owner # "malformed"
             /\ repoUrl'[o] = Canonical(repoUrl'[o])
  <2>1. CASE o = id
    BY <1>3, <1>5, <1>6, <2>1
  <2>2. CASE o # id
    BY <1>3, <1>4, <1>7, <2>2 DEF IInv, Named, NameIsScanned
  <2> QED
    BY <2>1, <2>2
<1> QED
  BY <1>3, <1>4, <1>5, <1>7

LEMMA StepNamed ==
    ASSUME IInv, [Next]_vars
    PROVE  Named'
<1>1. \A o \in Ids : Ages(o)
  BY EveryStepAges DEF IInv
<1>2. \A o : Created(o) => Created(o)'
  BY <1>1, CreatedOn DEF Created
<1>3. CASE UNCHANGED <<repoUrl, scanId, submittedRepo, mutation>>
  BY <1>2, <1>3 DEF IInv, Named, NameIsScanned
<1>4. ASSUME NEW u \in Urls, Post(u)
      PROVE  Named'
  <2>1. PICK id \in Ids : Enqueue(id, Accepted(u))
    BY <1>4 DEF Post
  <2>2. Accepted(u) # None /\ UNCHANGED <<scanId, submittedRepo, mutation>>
    BY <1>4 DEF Post, appVars
  <2>3. /\ repoUrl' = [o \in Ids |-> repoUrl'[o]]
        /\ \A o : Created(o) => repoUrl'[o] = repoUrl[o] /\ Created(o)'
        /\ \A o \in Ids : repoUrl'[o] # None => Created(o)'
        /\ \A o \in Ids : repoUrl'[o] # None =>
              /\ repoUrl'[o].owner # "malformed"
              /\ repoUrl'[o] = Canonical(repoUrl'[o])
    BY <2>1, <2>2, EnqueueNames
  <2> QED
    BY <2>2, <2>3 DEF IInv, Named, NameIsScanned
<1>5. CASE Submit
  <2>1. /\ mutation'.pc = "sent" /\ mutation'.repo = parseRepo(url) /\ parseRepo(url) # None
        /\ UNCHANGED <<repoUrl, scanId, submittedRepo>>
    BY <1>5 DEF Submit, appVars
  <2>2. IsName(mutation.repo)'
    BY <2>1, ParsedIsName DEF IsName
  <2> QED
    BY <1>2, <2>1, <2>2 DEF IInv, Named, NameIsScanned
<1>6. CASE ServeMutation
  <2> DEFINE u == Canonical(mutation.repo)
  <2>1. CASE UNCHANGED repoUrl
    <3>1. mutation'.pc = "failed" /\ UNCHANGED <<scanId, submittedRepo>>
      <4>1. ASSUME NEW id \in Ids, Enqueue(id, Accepted(u)), Accepted(u) # None
            PROVE  FALSE
        <5>1. repoUrl'[id] = Accepted(u) /\ status[id] = "none"
          BY <4>1, EnqueueAges DEF IInv, Named, Enqueue
        <5> QED
          BY <2>1, <4>1, <5>1 DEF IInv, Named, Created
      <4> QED
        BY <1>6, <4>1 DEF ServeMutation, appVars
    <3> QED
      BY <1>2, <2>1, <3>1 DEF IInv, Named, NameIsScanned
  <2>2. ASSUME NEW id \in Ids, Enqueue(id, Accepted(u)), Accepted(u) # None,
               \/ mutation' = [pc |-> "created", repo |-> mutation.repo, id |-> id]
               \/ mutation' = [pc |-> "failed"],
               UNCHANGED <<scanId, submittedRepo>>, mutation.pc = "sent"
        PROVE  Named'
    <3>1. /\ repoUrl' = [o \in Ids |-> repoUrl'[o]]
          /\ repoUrl'[id] = Accepted(u)
          /\ \A o : Created(o) => repoUrl'[o] = repoUrl[o] /\ Created(o)'
          /\ Created(id)'
          /\ \A o \in Ids : repoUrl'[o] # None => Created(o)'
          /\ \A o \in Ids : repoUrl'[o] # None =>
                /\ repoUrl'[o].owner # "malformed"
                /\ repoUrl'[o] = Canonical(repoUrl'[o])
      <4> HIDE DEF u
      <4> QED
        BY <2>2, EnqueueNames
    <3>2. Accepted(u) = Canonical([mutation.repo EXCEPT !.gits = Stripped(@)])
      BY <2>2, AcceptedStripsName DEF IInv, Named
    <3>3. CASE mutation' = [pc |-> "created", repo |-> mutation.repo, id |-> id]
      <4>1. mutation'.pc = "created" /\ mutation'.repo = mutation.repo /\ mutation'.id = id
        BY <3>3
      <4>2. mutation.repo # None /\ IsName(mutation.repo)'
        BY <2>2, <4>1 DEF IInv, Named, IsName
      <4>3. NameIsScanned'
        BY <2>2, <3>1 DEF IInv, Named, NameIsScanned
      <4> QED
        BY <2>2, <3>1, <3>2, <4>1, <4>2, <4>3 DEF IInv, Named
    <3>4. CASE mutation' = [pc |-> "failed"]
      <4>1. mutation'.pc = "failed"
        BY <3>4
      <4> QED
        BY <2>2, <3>1, <4>1 DEF IInv, Named, NameIsScanned
    <3> QED
      BY <2>2, <3>3, <3>4
  <2> QED
    BY <1>6, <2>1, <2>2 DEF ServeMutation, appVars
<1>7. CASE Enqueued
  <2>1. /\ scanId' = mutation.id /\ submittedRepo' = mutation.repo
        /\ mutation'.pc = "idle" /\ repoUrl' = repoUrl
        /\ mutation.pc = "created"
    BY <1>7 DEF Enqueued
  <2> QED
    BY <1>2, <2>1 DEF IInv, Named, NameIsScanned
<1>8. CASE NotEnqueued
  <2>1. mutation'.pc = "idle" /\ UNCHANGED <<repoUrl, scanId, submittedRepo>>
    BY <1>8 DEF NotEnqueued, appVars
  <2> QED
    BY <1>2, <2>1 DEF IInv, Named, NameIsScanned
<1>9. CASE NewScan
  <2>1. scanId' = None /\ UNCHANGED <<repoUrl, mutation>>
    BY <1>9 DEF NewScan
  <2> QED
    BY <1>2, <2>1 DEF IInv, Named, NameIsScanned
<1> QED
  BY <1>3, <1>4, <1>5, <1>6, <1>7, <1>8, <1>9
     DEF Next, vars, appVars, Type, WorkerStep, Poll, ServeQuery, Show, QueryFails

-----------------------------------------------------------------------------
(* Answers. *)

LEMMA ResolvedHolds ==
    ASSUME IInv, NEW id \in Ids
    PROVE  Holds(id, Resolved(id))
<1>1. findings[id] \in Seq(Findings)
  BY DEF IInv, TypeOK, Record!RecordTypeOK
<1>2. CASE ~Present(id)
  BY <1>2 DEF Resolved, Holds
<1>3. CASE Present(id)
  <2>1. status[id] \in {"Queued", "Scanning", "Finished", "Failed"}
    BY <1>3 DEF Present, IInv, TypeOK, Record!RecordTypeOK, Record!Unfinished, Record!Terminal
  <2> DEFINE a == toScanModel(id)
  <2>2. /\ a.status = status[id]
        /\ a.rows = IF status[id] = "Finished" THEN {findings[id]} ELSE {}
    BY DEF toScanModel
  <2> HIDE DEF a
  <2>3. Holds(id, a)
    BY <1>1, <2>1, <2>2 DEF Holds
  <2> QED
    BY <1>3, <2>3 DEF Resolved, a
<1> QED
  BY <1>2, <1>3

\* The answers that wait are those that waited before, or the one just given.
LEMMA StepWaits ==
    ASSUME IInv, [Next]_vars, NEW p \in Slots, query'[p].pc = "answered"
    PROVE  query[p].id \in Ids /\ query'[p].id = query[p].id
           /\ Holds(query[p].id, query'[p].answer)
<1>1. QueriesOf(scanId)
  BY DEF IInv, TypeOK, Answered, QueriesOf
<1>2. scanId \in Ids \cup {None}
  BY DEF IInv, TypeOK
<1>3. ASSUME query'[p] = query[p]
      PROVE  query[p].id \in Ids /\ query'[p].id = query[p].id
             /\ Holds(query[p].id, query'[p].answer)
  BY <1>1, <1>2, <1>3 DEF IInv, Answered, QueriesOf
<1>4. ASSUME NEW id, Ask(id)
      PROVE  FALSE
  BY <1>4, AskFor
<1>5. ASSUME NEW q \in Slots, ServeQuery(q)
      PROVE  query[p].id \in Ids /\ query'[p].id = query[p].id
             /\ Holds(query[p].id, query'[p].answer)
  <2> DEFINE r == [pc |-> "answered", id |-> query[q].id, answer |-> Resolved(query[q].id)]
  <2>1. query' = [query EXCEPT ![q] = r] /\ query[q].pc = "sent" /\ scanId' = scanId
    BY <1>5 DEF ServeQuery, appVars
  <2>2. r.id = query[q].id /\ r.answer = Resolved(query[q].id)
    OBVIOUS
  <2> HIDE DEF r
  <2>3. query[q].id \in Ids
    BY <1>1, <1>2, <2>1 DEF QueriesOf
  <2>4. CASE p = q
    <3>1. query'[p] = r
      BY <1>1, <2>1, <2>4 DEF QueriesOf
    <3> QED
      BY <2>2, <2>3, <2>4, <3>1, ResolvedHolds
  <2>5. CASE p # q
    BY <1>1, <1>3, <2>1, <2>5 DEF QueriesOf
  <2> QED
    BY <2>4, <2>5
<1>6. ASSUME NEW q \in Slots, Poll(q) \/ Show(q) \/ QueryFails(q)
      PROVE  query'[p] = query[p]
  <2>1. ASSUME NEW r, query' = [query EXCEPT ![q] = r], r.pc \in {"sent", "free"}
        PROVE  query'[p] = query[p]
    BY <1>1, <2>1 DEF QueriesOf
  <2>2. CASE Poll(q)
    <3>1. query' = [query EXCEPT ![q] = [pc |-> "sent", id |-> scanId]]
      BY <2>2 DEF Poll
    <3>2. [pc |-> "sent", id |-> scanId].pc = "sent"
      OBVIOUS
    <3> QED
      BY <2>1, <3>1, <3>2
  <2>3. CASE Show(q) \/ QueryFails(q)
    <3>1. query' = [query EXCEPT ![q] = [pc |-> "free"]]
      BY <2>3 DEF Show, QueryFails
    <3>2. [pc |-> "free"].pc = "free"
      OBVIOUS
    <3> QED
      BY <2>1, <3>1, <3>2
  <2> QED
    BY <1>6, <2>2, <2>3
<1> QED
  BY <1>3, <1>4, <1>5, <1>6
     DEF Next, vars, Post, Type, WorkerStep, Submit, ServeMutation, Enqueued, NotEnqueued, NewScan

LEMMA StepShows ==
    ASSUME IInv, [Next]_vars, data' # None
    PROVE  data'.id \in Ids /\ Holds(data'.id, data'.answer)
<1>1. CASE data' = data
  BY <1>1 DEF IInv, Answered
<1>2. ASSUME NEW q \in Slots, Show(q)
      PROVE  data'.id \in Ids /\ Holds(data'.id, data'.answer)
  <2>1. /\ query[q].pc = "answered"
        /\ data' = [id |-> query[q].id, answer |-> query[q].answer]
    BY <1>2 DEF Show
  <2>2. data'.id = query[q].id /\ data'.answer = query[q].answer
    BY <2>1
  <2>3. query[q].id \in Ids
    BY <2>1 DEF IInv, TypeOK, Answered
  <2> QED
    BY <2>1, <2>2, <2>3 DEF IInv, Answered
<1>3. ASSUME NEW id, Ask(id)
      PROVE  data' = data
  BY <1>3 DEF Ask
<1> QED
  BY <1>1, <1>2, <1>3
     DEF Next, vars, Post, Type, WorkerStep, Submit, ServeMutation, Enqueued, NotEnqueued,
         NewScan, Poll, ServeQuery, QueryFails

LEMMA StepAnswered ==
    ASSUME IInv, [Next]_vars
    PROVE  Answered'
<1>1. \A o \in Ids : Ages(o)
  BY EveryStepAges DEF IInv
<1>2. ASSUME NEW o \in Ids, status'[o] = "expired"
      PROVE  findings'[o] = <<>>
  BY <1>1, <1>2 DEF Ages, IInv, Answered
<1>3. /\ query' = [q \in Slots |-> query'[q]]
      /\ \A q \in Slots : query'[q].pc # "free" => scanId' # None
  BY StepQueries
<1>4. ASSUME NEW q \in Slots, query'[q].pc = "answered"
      PROVE  Holds(query[q].id, query[q].answer)'
  <2>1. query[q].id \in Ids /\ query'[q].id = query[q].id
        /\ Holds(query[q].id, query'[q].answer)
    BY <1>4, StepWaits
  <2>2. PICK id, a : id = query'[q].id /\ a = query'[q].answer
    OBVIOUS
  <2>3. Holds(id, a)'
    BY <1>1, <2>1, <2>2, HoldsOn
  <2> QED
    BY <2>2, <2>3
<1>5. ASSUME data' # None
      PROVE  data'.id \in Ids /\ Holds(data.id, data.answer)'
  <2>1. data'.id \in Ids /\ Holds(data'.id, data'.answer)
    BY <1>5, StepShows
  <2>2. PICK id, a : id = data'.id /\ a = data'.answer
    OBVIOUS
  <2>3. Holds(id, a)'
    BY <1>1, <2>1, <2>2, HoldsOn
  <2> QED
    BY <2>1, <2>2, <2>3
<1> QED
  BY <1>2, <1>3, <1>4, <1>5 DEF Answered

-----------------------------------------------------------------------------
(* What is on screen. *)

LEMMA ShownFromAnswer ==
    ASSUME IInv
    PROVE  ShownIsTrue
<1>1. ASSUME NEW id \in Ids, Present(id)
      PROVE  Resolved(id).status = Got(id).status /\ Resolved(id).rows = Got(id).rows
  BY <1>1 DEF Resolved, Got, toScanModel, toScanResponse
<1> DEFINE was(end) == status[data.id] \in {end, "expired"}
           list == findings[data.id]
           Truth == CASE Screen.body = "clean"  -> was("Finished") /\ list = <<>>
                      [] Screen.body = "table"  ->
                             was("Finished") /\ (status[data.id] = "Finished" => Screen.rows = list)
                      [] Screen.body = "failed" -> was("Failed")
                      [] OTHER                  -> Screen.tone # "emerald"
<1>2. ASSUME data # None
      PROVE  Truth
  <2> DEFINE shown == IF scanId = None THEN "undefined" ELSE scanOnScreen.status
             criticals == ResultsTable(scanOnScreen.rows)
  <2>1. /\ Screen.body = StatusBody(shown, Len(criticals))
        /\ Screen.tone = StatusHeaderPill(shown, Len(criticals))
        /\ Screen.rows = criticals
    BY DEF Screen
  <2>2. CASE scanId = None \/ data.answer = None
    <3>1. shown = "undefined"
      BY <2>2 DEF scanOnScreen
    <3>2. Screen.body = "loading" /\ Screen.tone = "slate"
      BY <2>1, <3>1 DEF StatusBody, StatusHeaderPill
    <3> QED
      BY <3>2
  <2>3. CASE scanId # None /\ data.answer # None
    <3>1. shown = data.answer.status /\ criticals = ResultsTable(data.answer.rows)
      BY <1>2, <2>3 DEF scanOnScreen
    <3>2. Holds(data.id, data.answer) /\ data.id \in Ids
      BY <1>2 DEF IInv, Answered
    <3> HIDE DEF shown, criticals
    <3>3. CASE shown \in {"Queued", "Scanning"}
      <4>1. Screen.body = "underway" /\ Screen.tone # "emerald"
        BY <2>1, <3>3 DEF StatusBody, StatusHeaderPill
      <4> QED
        BY <4>1
    <3>4. CASE shown = "Failed"
      <4>1. Screen.body = "failed" /\ was("Failed")
        BY <2>1, <2>3, <3>1, <3>2, <3>4 DEF StatusBody, Holds
      <4> QED
        BY <4>1
    <3>5. CASE shown = "Finished"
      <4>1. PICK l \in Seq(Findings) :
               /\ data.answer.rows = {l}
               /\ status[data.id] = "Finished" => l = findings[data.id]
        BY <2>3, <3>1, <3>2, <3>5 DEF Holds
      <4>2. was("Finished")
        BY <2>3, <3>1, <3>2, <3>5 DEF Holds
      <4>3. criticals = l
        BY <3>1, <4>1 DEF ResultsTable
      <4>4. CASE Len(l) = 0
        <5>1. Screen.body = "clean"
          BY <2>1, <3>5, <4>3, <4>4 DEF StatusBody
        <5>2. findings[data.id] = <<>>
          BY <3>2, <4>1, <4>2, <4>4 DEF IInv, Answered
        <5> QED
          BY <4>2, <5>1, <5>2
      <4>5. CASE Len(l) # 0
        <5>1. Screen.body = "table"
          BY <2>1, <3>5, <4>3, <4>5 DEF StatusBody
        <5> QED
          BY <2>1, <4>1, <4>2, <4>3, <5>1
      <4> QED
        BY <4>4, <4>5
    <3> QED
      BY <2>3, <3>1, <3>2, <3>3, <3>4, <3>5 DEF Holds
  <2> QED
    BY <2>2, <2>3
<1> QED
  BY <1>1, <1>2 DEF ShownIsTrue

-----------------------------------------------------------------------------
(* The theorems. *)

LEMMA InitInv == Init => IInv
<1> SUFFICES ASSUME Init
             PROVE  IInv
  OBVIOUS
<1>1. Record!RecordTypeOK
  <2>1. <<>> \in Seq(Findings)
    OBVIOUS
  <2> QED
    BY <2>1 DEF Init, Record!Init, Record!RecordTypeOK
<1>2. query = [q \in Slots |-> query[q]] /\ \A q \in Slots : query[q].pc = "free"
  BY DEF Init
<1>3. mutation.pc = "idle"
  BY DEF Init
<1>4. TypeOK
  BY <1>1, <1>2, ClientAssumption DEF Init, TypeOK
<1>5. Named
  BY <1>3 DEF Init, Named, NameIsScanned
<1>6. Answered
  BY <1>2 DEF Init, Record!Init, Answered
<1> QED
  BY <1>4, <1>5, <1>6 DEF IInv

\* Names and answers are good wherever they wait.
THEOREM InvAlways == Spec => []IInv
<1>1. Init => IInv
  BY InitInv
<1>2. IInv /\ [Next]_vars => IInv'
  BY StepTypes, StepNamed, StepAnswered DEF IInv
<1> QED
  BY <1>1, <1>2, PTL DEF Spec

\* The type invariant of the client and its requests (App.tsx, useScanPolling.ts).
THEOREM ClientTypeCorrect == Spec => []TypeOK
<1>1. IInv => TypeOK
  BY DEF IInv
<1> QED
  BY <1>1, InvAlways, PTL

\* onSubmit of App: the name on screen is that of the repository the scan on
\* screen clones, but for the one ".git" the server may take from its end, and
\* both transports hand out canonical URLs only.
THEOREM NameStaysTrue == Spec => []NameIsScanned
<1>1. IInv => NameIsScanned
  BY DEF IInv, Named
<1> QED
  BY <1>1, InvAlways, PTL

\* StatusHeader and ResultsTable of App: no verdict on screen is ahead of the
\* record it came from, and REST and GraphQL tell one story.
THEOREM ScreenStaysTrue == Spec => []ShownIsTrue
<1>1. IInv => ShownIsTrue
  BY ShownFromAnswer
<1> QED
  BY <1>1, InvAlways, PTL

-----------------------------------------------------------------------------
(* When polling stops. *)

\* While the scan on screen has ended and the server has been heard about it,
\* the interval is disarmed exactly when its end is on screen: a late answer to
\* an earlier poll that hides the end arms it again.
ArmedUntilShown ==
    \A id \in Ids :
        scanId = id /\ data # None /\ data.id = id /\ status[id] \in Terminal =>
            (terminal <=> EndShown(id))

\* Polling goes on for as long as the end of the scan is not on screen, and no
\* longer; the fairness of the interval and the network turns it into
\* EndIsShown.
THEOREM PollsUntilTheEnd == Spec => []ArmedUntilShown
<1>1. IInv => ArmedUntilShown
  <2> SUFFICES ASSUME IInv, NEW id \in Ids, scanId = id, data # None, data.id = id,
                      status[id] \in Terminal
               PROVE  terminal <=> EndShown(id)
    BY DEF ArmedUntilShown
  <2>1. Holds(id, data.answer)
    BY DEF IInv, Answered
  <2>2. ASSUME data.answer # None, data.answer.status \in Terminal
        PROVE  data.answer.status = status[id]
    BY <2>1, <2>2 DEF Holds, Terminal
  <2> QED
    BY <2>2 DEF terminal, EndShown
<1> QED
  BY <1>1, InvAlways, PTL

=============================================================================
