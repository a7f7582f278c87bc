--------------------------- MODULE ScanRepository ---------------------------
(***************************************************************************)
(* The Redis-backed scan repository (apps/api/src/scan/scan.repository.ts) *)
(* at the grain of single Redis commands.  Writers are worker processes,   *)
(* each with its own connection (scan.module.ts binds one client to a      *)
(* process, and scan-worker.ts runs one job at a time on it), so at most   *)
(* one WATCH/MULTI/EXEC is open on a connection.  Readers are GETs of the  *)
(* API.  A job exists only after its record was created, so writers call   *)
(* on created identifiers, but two writers may work on the same one: that  *)
(* is the "late or duplicate worker" the repository guards against.        *)
(***************************************************************************)
EXTENDS Naturals, Sequences, SequencesExt

CONSTANTS
    Ids,            \* scan identifiers (each a fresh UUID)
    Writers,        \* worker processes, one Redis connection each
    Readers,        \* concurrent get calls of the API
    Findings,       \* CRITICAL vulnerabilities
    Reasons,        \* bounded failure reasons
    NoReason,       \* the hash has no error field
    Sentinel,       \* LIST_SENTINEL
    MaxAttempts,    \* MAX_TRANSACTION_ATTEMPTS
    Expiring,       \* identifiers whose retention may lapse during the run
    Flaky,          \* writers whose connection may drop and reconnect
    MaxFindings     \* bound: findings a list may hold when an append starts

ASSUME ConstantsAssumption ==
    /\ MaxAttempts \in Nat \ {0}
    /\ MaxFindings \in Nat
    /\ Expiring \subseteq Ids
    /\ Flaky \subseteq Writers
    /\ Sentinel \notin Findings
    /\ NoReason \notin Reasons

VARIABLES
    created,    \* identifiers create has written
    hash,       \* hash[id]: the metadata hash at scan:<id>
    list,       \* list[id]: the list at scan:<id>:critical, <<>> when absent
    watching,   \* watching[w]: keys the connection of w WATCHes
    dirty,      \* dirty[w]: a watched key changed, EXEC will answer null
    pc,         \* pc[w]: the next Redis command of the call of w
    call,       \* call[w]: the current or last port call of w
    attempts,   \* attempts[w]: transactions the call has lost
    outcome,    \* outcome[w]: how the last call of w ended
    snapshot,   \* snapshot[r]: the hash a get holds before LRANGE
    reply,      \* reply[r]: what the last get of r returned
    sealed      \* history: the findings the first terminal write sealed in

redisVars == <<created, hash, list, watching, dirty, sealed>>
writerVars == <<pc, call, attempts, outcome>>
readerVars == <<snapshot, reply>>
vars == <<redisVars, writerVars, readerVars>>
-----------------------------------------------------------------------------
Unfinished == {"Queued", "Scanning"}

TERMINAL_STATUSES == {"Finished", "Failed"}

Statuses == Unfinished \cup TERMINAL_STATUSES

\* The fields of the hash: meta stands for id, repoUrl and createdAt, which
\* only create writes; a field is unset until some HSET names it.
Hashes == [meta : BOOLEAN, status : Statuses \cup {"none"},
           error : Reasons \cup {NoReason}, updatedAt : BOOLEAN]

NoHash == [meta |-> FALSE, status |-> "none",
           error |-> NoReason, updatedAt |-> FALSE]

\* create serializes a Queued scan: no error, every other field set.
QueuedHash == [meta |-> TRUE, status |-> "Queued",
               error |-> NoReason, updatedAt |-> TRUE]

\* The calls of the port that run a transition.
Calls == [op : {"markScanning", "markFinished"}, id : Ids]
             \cup [op : {"appendVulnerability"}, id : Ids, finding : Findings]
             \cup [op : {"markFailed"}, id : Ids, reason : Reasons]

NoCall == [op |-> "none"]

\* What the queued HSET of a call leaves in the hash.
HashAfter(c, h) ==
    CASE c.op = "markScanning" ->
            [h EXCEPT !.status = "Scanning", !.updatedAt = TRUE]
      [] c.op = "appendVulnerability" ->
            [h EXCEPT !.updatedAt = TRUE]
      [] c.op = "markFinished" ->
            [h EXCEPT !.status = "Finished", !.updatedAt = TRUE]
      [] c.op = "markFailed" ->
            [h EXCEPT !.status = "Failed", !.error = c.reason,
                      !.updatedAt = TRUE]

\* What the queued RPUSH of a call, if it has one, leaves in the list.
ListAfter(c, l) ==
    IF c.op = "appendVulnerability" THEN Append(l, c.finding) ELSE l

\* LRANGE 1 -1: everything but index 0.
Surfaced(l) == SubSeq(l, 2, Len(l))

Present(id) == hash[id] # NoHash

\* transition may mutate: HGET answered a status that is not terminal.
Open(id) == hash[id].status \in Unfinished

\* A write to a key makes every connection that watches it dirty.
Touched(id) == [w \in Writers |-> dirty[w] \/ id \in watching[w]]

NoReply == [id |-> "none", scan |-> "none"]

\* get answers null for an empty hash, and for one deserialize rejects.
NullReply(id) == [id |-> id, scan |-> "null"]

Reply(id, h, l) ==
    IF h.meta /\ h.status # "none"
    THEN [id |-> id, scan |-> "scan", status |-> h.status, error |-> h.error,
          findings |-> Surfaced(l)]
    ELSE NullReply(id)
-----------------------------------------------------------------------------
Init ==
    /\ created = {}
    /\ hash = [id \in Ids |-> NoHash]
    /\ list = [id \in Ids |-> <<>>]
    /\ sealed = [id \in Ids |-> <<>>]
    /\ watching = [w \in Writers |-> {}]
    /\ dirty = [w \in Writers |-> FALSE]
    /\ pc = [w \in Writers |-> "idle"]
    /\ call = [w \in Writers |-> NoCall]
    /\ attempts = [w \in Writers |-> 0]
    /\ outcome = [w \in Writers |-> "none"]
    /\ snapshot = [r \in Readers |-> [id |-> "none", hash |-> NoHash]]
    /\ reply = [r \in Readers |-> NoReply]

-----------------------------------------------------------------------------
\* create: one MULTI/EXEC without WATCH, on the connection of the API.
Create(id) ==
    /\ id \notin created
    /\ created' = created \cup {id}
    /\ hash' = [hash EXCEPT ![id] = QueuedHash]
    /\ list' = [list EXCEPT ![id] = <<Sentinel>>]
    /\ dirty' = Touched(id)
    /\ UNCHANGED <<watching, sealed, writerVars, readerVars>>

\* A worker calls one of the four transitions.
Call(w, c) ==
    /\ pc[w] = "idle"
    /\ c.id \in created
    /\ c.op = "appendVulnerability" => Len(list[c.id]) <= MaxFindings
    /\ pc' = [pc EXCEPT ![w] = "watch"]
    /\ call' = [call EXCEPT ![w] = c]
    /\ attempts' = [attempts EXCEPT ![w] = 0]
    /\ outcome' = [outcome EXCEPT ![w] = "none"]
    /\ UNCHANGED <<redisVars, readerVars>>

\* Mutant: WATCH names the list key, so a change of the hash goes unnoticed.
WatchListKey(w) ==
    /\ pc[w] = "watch"
    /\ pc' = [pc EXCEPT ![w] = "hget"]
    /\ UNCHANGED <<redisVars, call, attempts, outcome, readerVars>>

Watch(w) ==
    /\ pc[w] = "watch"
    /\ pc' = [pc EXCEPT ![w] = "hget"]
    /\ watching' = [watching EXCEPT ![w] = @ \cup {call[w].id}]
    /\ UNCHANGED <<created, hash, list, dirty, sealed, call, attempts, outcome,
                   readerVars>>

\* Mutant: only a missing record stops a transition.
HgetNoTerminalGuard(w) ==
    /\ pc[w] = "hget"
    /\ pc' = [pc EXCEPT ![w] = IF hash[call[w].id].status # "none"
                               THEN "exec" ELSE "unwatch"]
    /\ UNCHANGED <<redisVars, call, attempts, outcome, readerVars>>

\* Mutant: only a terminal record stops a transition.
HgetNoMissingGuard(w) ==
    /\ pc[w] = "hget"
    /\ pc' = [pc EXCEPT ![w] = IF hash[call[w].id].status \in TERMINAL_STATUSES
                               THEN "unwatch" ELSE "exec"]
    /\ UNCHANGED <<redisVars, call, attempts, outcome, readerVars>>

\* HGET status decides: mutate, or unwatch and return.
Hget(w) ==
    /\ pc[w] = "hget"
    /\ pc' = [pc EXCEPT ![w] = IF Open(call[w].id) THEN "exec" ELSE "unwatch"]
    /\ UNCHANGED <<redisVars, call, attempts, outcome, readerVars>>

\* UNWATCH, then return without a write: missing or terminal record.
Unwatch(w) ==
    /\ pc[w] = "unwatch"
    /\ pc' = [pc EXCEPT ![w] = "idle"]
    /\ outcome' = [outcome EXCEPT ![w] = "noop"]
    /\ watching' = [watching EXCEPT ![w] = {}]
    /\ dirty' = [dirty EXCEPT ![w] = FALSE]
    /\ UNCHANGED <<created, hash, list, sealed, call, attempts, readerVars>>

\* EXEC with no watched key changed: the queued commands run at once.
Commit(w) ==
    LET c == call[w] IN
    /\ pc[w] = "exec"
    /\ ~dirty[w]
    /\ hash' = [hash EXCEPT ![c.id] = HashAfter(c, @)]
    /\ list' = [list EXCEPT ![c.id] = ListAfter(c, @)]
    /\ sealed' = IF c.op \in {"markFinished", "markFailed"} /\ Open(c.id)
                 THEN [sealed EXCEPT ![c.id] = Surfaced(list[c.id])]
                 ELSE sealed
    /\ watching' = [watching EXCEPT ![w] = {}]
    /\ dirty' = [Touched(c.id) EXCEPT ![w] = FALSE]
    /\ pc' = [pc EXCEPT ![w] = "idle"]
    /\ outcome' = [outcome EXCEPT ![w] = "committed"]
    /\ UNCHANGED <<created, call, attempts, readerVars>>

\* Mutant: the attempt counter is compared off by one.
ConflictOneMore(w) ==
    /\ pc[w] = "exec"
    /\ dirty[w]
    /\ watching' = [watching EXCEPT ![w] = {}]
    /\ dirty' = [dirty EXCEPT ![w] = FALSE]
    /\ attempts' = [attempts EXCEPT ![w] = @ + 1]
    /\ IF attempts[w] < MaxAttempts
       THEN /\ pc' = [pc EXCEPT ![w] = "watch"]
            /\ UNCHANGED outcome
       ELSE /\ pc' = [pc EXCEPT ![w] = "idle"]
            /\ outcome' = [outcome EXCEPT ![w] = "exhausted"]
    /\ UNCHANGED <<created, hash, list, sealed, call, readerVars>>

\* Mutant: a lost transaction is retried without being counted.
ConflictUncounted(w) ==
    /\ pc[w] = "exec"
    /\ dirty[w]
    /\ watching' = [watching EXCEPT ![w] = {}]
    /\ dirty' = [dirty EXCEPT ![w] = FALSE]
    /\ pc' = [pc EXCEPT ![w] = "watch"]
    /\ UNCHANGED <<created, hash, list, sealed, call, attempts, outcome,
                   readerVars>>

\* EXEC answers null: retry with a fresh read, or throw after the last try.
Conflict(w) ==
    /\ pc[w] = "exec"
    /\ dirty[w]
    /\ watching' = [watching EXCEPT ![w] = {}]
    /\ dirty' = [dirty EXCEPT ![w] = FALSE]
    /\ attempts' = [attempts EXCEPT ![w] = @ + 1]
    /\ IF attempts[w] + 1 < MaxAttempts
       THEN /\ pc' = [pc EXCEPT ![w] = "watch"]
            /\ UNCHANGED outcome
       ELSE /\ pc' = [pc EXCEPT ![w] = "idle"]
            /\ outcome' = [outcome EXCEPT ![w] = "exhausted"]
    /\ UNCHANGED <<created, hash, list, sealed, call, readerVars>>

\* The client reconnects between two commands: the new connection has no
\* WATCH, and ioredis sends the commands that follow on it.
Reconnect(w) ==
    /\ w \in Flaky
    /\ pc[w] # "idle"
    /\ watching' = [watching EXCEPT ![w] = {}]
    /\ dirty' = [dirty EXCEPT ![w] = FALSE]
    /\ UNCHANGED <<created, hash, list, sealed, writerVars, readerVars>>

\* Both keys got their last EXPIRE in one EXEC, so they lapse together.
\* Redis 7 aborts the EXEC of a connection whose watched key lapsed.
Expire(id) ==
    /\ id \in Expiring
    /\ Present(id)
    /\ hash' = [hash EXCEPT ![id] = NoHash]
    /\ list' = [list EXCEPT ![id] = <<>>]
    /\ dirty' = Touched(id)
    /\ UNCHANGED <<created, watching, sealed, writerVars, readerVars>>

\* get, first command: HGETALL; an empty hash is answered null at once.
Hgetall(r, id) ==
    /\ snapshot[r].hash = NoHash
    /\ IF Present(id)
       THEN /\ snapshot' = [snapshot EXCEPT ![r] = [id |-> id, hash |-> hash[id]]]
            /\ UNCHANGED reply
       ELSE /\ reply' = [reply EXCEPT ![r] = NullReply(id)]
            /\ UNCHANGED snapshot
    /\ UNCHANGED <<redisVars, writerVars>>

\* get, second command: LRANGE, then the scan is put together and returned.
Lrange(r) ==
    LET s == snapshot[r] IN
    /\ s.hash # NoHash
    /\ reply' = [reply EXCEPT ![r] = Reply(s.id, s.hash, list[s.id])]
    /\ snapshot' = [snapshot EXCEPT ![r] = [id |-> "none", hash |-> NoHash]]
    /\ UNCHANGED <<redisVars, writerVars>>

-----------------------------------------------------------------------------
Step(w) == Watch(w) \/ Hget(w) \/ Unwatch(w) \/ Commit(w) \/ Conflict(w)

Next ==
    \/ \E id \in Ids : Create(id) \/ Expire(id)
    \/ \E w \in Writers :
        \/ \E c \in Calls : Call(w, c)
        \/ Step(w)
        \/ Reconnect(w)
    \/ \E r \in Readers :
        \/ \E id \in Ids : Hgetall(r, id)
        \/ Lrange(r)

Spec == Init /\ [][Next]_vars

\* The event loop of a worker keeps running, and Redis answers every command.
FairSpec == Spec /\ \A w \in Writers : WF_vars(Step(w))

-----------------------------------------------------------------------------
(* Properties. *)

\* Type invariant: every variable holds a value the code can produce; in
\* particular a call never starts more than MaxAttempts transactions.
TypeOK ==
    /\ created \subseteq Ids
    /\ hash \in [Ids -> Hashes]
    /\ list \in [Ids -> Seq(Findings \cup {Sentinel})]
    /\ sealed \in [Ids -> Seq(Findings \cup {Sentinel})]
    /\ watching \in [Writers -> SUBSET Ids]
    /\ dirty \in [Writers -> BOOLEAN]
    /\ pc \in [Writers -> {"idle", "watch", "hget", "unwatch", "exec"}]
    /\ call \in [Writers -> Calls \cup {NoCall}]
    /\ \A w \in Writers : pc[w] # "idle" => call[w] \in Calls
    /\ attempts \in [Writers -> 0 .. MaxAttempts]
    /\ \A w \in Writers : pc[w] # "idle" => attempts[w] < MaxAttempts
    /\ outcome \in [Writers -> {"none", "committed", "noop", "exhausted"}]
    /\ snapshot \in [Readers -> [id : Ids \cup {"none"}, hash : Hashes]]

\* The status a transition read before MULTI is not stale when EXEC runs: a
\* transaction that will commit is about a record that is still unfinished.
GuardFresh ==
    \A w \in Writers : pc[w] = "exec" /\ ~dirty[w] => Open(call[w].id)

\* The two keys of a record live and lapse together, and index 0 of the list
\* is the sentinel and nothing else is, so LRANGE 1 -1 loses no finding.
KeysTogether ==
    \A id \in Ids :
        IF Present(id)
        THEN /\ hash[id].meta /\ hash[id].status # "none"
             /\ Len(list[id]) >= 1
             /\ \A i \in 1 .. Len(list[id]) : list[id][i] = Sentinel <=> i = 1
        ELSE list[id] = <<>>

\* A transition that returned without writing was entitled to: the record was
\* terminal or gone, and still is (no lost markFinished, no lost finding).
NoopMeansClosed ==
    \A w \in Writers : outcome[w] = "noop" => ~Open(call[w].id)

\* get: a Finished or Failed scan is returned with exactly the findings its
\* terminal write sealed in, unless its retention lapsed during the get.
ReplyComplete ==
    \A r \in Readers :
        /\ reply[r].scan = "scan"
        /\ reply[r].status \in TERMINAL_STATUSES
        /\ Present(reply[r].id)
        => reply[r].findings = sealed[reply[r].id]

\* The first terminal state wins: whoever calls what, the status, the error
\* and the findings of a terminal record change only when it lapses.
FirstTerminalWins ==
    [][\A id \in Ids :
            hash[id].status \in TERMINAL_STATUSES /\ hash'[id] # NoHash
            => hash'[id] = hash[id] /\ list'[id] = list[id]]_vars

\* A missing record is a no-op: once its retention has lapsed, no late write
\* brings any part of a scan back.
NeverResurrected ==
    [][\A id \in Ids :
            id \in created /\ ~Present(id)
            => hash'[id] = NoHash /\ list'[id] = <<>>]_vars

Rank(st) == CASE st = "Queued" -> 0 [] st = "Scanning" -> 1 [] OTHER -> 2

\* Polling: the scans one reader gets for an id, one after the other, never
\* go back to an earlier status, never change a terminal one, and never lose
\* or reorder a finding (until the record lapses).
ReplyNeverRegresses ==
    [][\A r \in Readers :
          LET before == reply[r]
              after == reply'[r]
          IN  /\ before.scan = "scan" /\ after.scan = "scan"
              /\ before.id = after.id
              /\ Present(before.id)'
              => /\ \/ before.status = after.status
                    \/ Rank(before.status) < Rank(after.status)
                 /\ IsPrefix(before.findings, after.findings)]_vars

\* Every transition returns or throws: contention cannot make it spin.
CallSettles == \A w \in Writers : pc[w] # "idle" ~> pc[w] = "idle"

\* The repository implements the record promised by the port.
Record == INSTANCE ScanRecord WITH
    status <- [id \in Ids |->
                  IF Present(id) THEN hash[id].status
                  ELSE IF id \in created THEN "expired" ELSE "none"],
    findings <- [id \in Ids |-> Surfaced(list[id])],
    reason <- [id \in Ids |-> hash[id].error]

\* Every step of the Redis commands is one atomic step of the record, or none.
ImplementsRecord == Record!Spec

=============================================================================
