------------------------ MODULE ScanRepositoryProofs ------------------------
(***************************************************************************)
(* Proofs about ScanRepository for every set of identifiers, writers and   *)
(* readers and every retry budget.  The guarantees about terminal records  *)
(* hold when no connection drops between WATCH and EXEC, and also when one *)
(* does but a single worker writes records that do not lapse (Stable).     *)
(* The run RepoLostWatch shows that an assumption is needed.               *)
(***************************************************************************)
EXTENDS ScanRepository, TLAPS

\* HSET and RPUSH keep the hash and the list well typed, whatever the call.
LEMMA MutationTypes ==
    ASSUME NEW c \in Calls, NEW h \in Hashes,
           NEW l \in Seq(Findings \cup {Sentinel})
    PROVE  /\ HashAfter(c, h) \in Hashes
           /\ ListAfter(c, l) \in Seq(Findings \cup {Sentinel})
  <1>1. CASE c.op = "markScanning"
    BY <1>1 DEF HashAfter, ListAfter, Hashes, Statuses, Unfinished,
                TERMINAL_STATUSES
  <1>2. CASE c.op = "appendVulnerability"
    <2>1. c.finding \in Findings
      BY <1>2 DEF Calls
    <2>2. HashAfter(c, h) \in Hashes
      BY <1>2 DEF HashAfter, Hashes
    <2>3. ListAfter(c, l) = Append(l, c.finding)
      BY <1>2 DEF ListAfter
    <2>4. Append(l, c.finding) \in Seq(Findings \cup {Sentinel})
      BY <2>1
    <2> QED
      BY <2>2, <2>3, <2>4
  <1>3. CASE c.op = "markFinished"
    BY <1>3 DEF HashAfter, ListAfter, Hashes, Statuses, TERMINAL_STATUSES
  <1>4. CASE c.op = "markFailed"
    <2>1. c.reason \in Reasons
      BY <1>4 DEF Calls
    <2> QED
      BY <1>4, <2>1 DEF HashAfter, ListAfter, Hashes, Statuses,
                        TERMINAL_STATUSES
  <1> QED
    BY <1>1, <1>2, <1>3, <1>4 DEF Calls

\* A call the type of the port admits names an identifier.
LEMMA CallHasId == ASSUME NEW c \in Calls PROVE c.id \in Ids
  BY DEF Calls

\* What LRANGE 1 -1 answers is a sequence of list elements.
LEMMA SurfacedType ==
    ASSUME NEW S, NEW l \in Seq(S)
    PROVE  Surfaced(l) \in Seq(S)
  BY DEF Surfaced

LEMMA TypeInit == Init => TypeOK
  <1> SUFFICES ASSUME Init PROVE TypeOK
    OBVIOUS
  <1>1. NoHash \in Hashes
    BY DEF NoHash, Hashes
  <1> QED
    BY <1>1, ConstantsAssumption DEF Init, TypeOK

LEMMA TypeStep == TypeOK /\ [Next]_vars => TypeOK'
  <1> SUFFICES ASSUME TypeOK, [Next]_vars PROVE TypeOK'
    OBVIOUS
  <1> USE ConstantsAssumption
  <1>a. NoHash \in Hashes /\ QueuedHash \in Hashes
    BY DEF NoHash, QueuedHash, Hashes, Statuses, Unfinished
  <1>1. ASSUME NEW id \in Ids, Create(id) PROVE TypeOK'
    BY <1>1, <1>a DEF TypeOK, Create, Touched, writerVars, readerVars
  <1>2. ASSUME NEW id \in Ids, Expire(id) PROVE TypeOK'
    BY <1>2, <1>a DEF TypeOK, Expire, Touched, writerVars, readerVars
  <1>3. ASSUME NEW w \in Writers, NEW c \in Calls, Call(w, c) PROVE TypeOK'
    BY <1>3 DEF TypeOK, Call, redisVars, readerVars
  <1>4. ASSUME NEW w \in Writers, Watch(w) PROVE TypeOK'
    <2>1. call[w].id \in Ids
      BY <1>4, CallHasId DEF TypeOK, Watch
    <2> QED
      BY <1>4, <2>1 DEF TypeOK, Watch, readerVars
  <1>5. ASSUME NEW w \in Writers, Hget(w) PROVE TypeOK'
    BY <1>5 DEF TypeOK, Hget, redisVars, readerVars
  <1>6. ASSUME NEW w \in Writers, Unwatch(w) PROVE TypeOK'
    BY <1>6 DEF TypeOK, Unwatch, readerVars
  <1>7. ASSUME NEW w \in Writers, Commit(w) PROVE TypeOK'
    <2> DEFINE c == call[w]
    <2>1. c \in Calls /\ c.id \in Ids
      BY <1>7, CallHasId DEF TypeOK, Commit
    <2>2. /\ HashAfter(c, hash[c.id]) \in Hashes
          /\ ListAfter(c, list[c.id]) \in Seq(Findings \cup {Sentinel})
          /\ Surfaced(list[c.id]) \in Seq(Findings \cup {Sentinel})
      BY <2>1, MutationTypes, SurfacedType DEF TypeOK
    <2>3. hash' \in [Ids -> Hashes]
          /\ list' \in [Ids -> Seq(Findings \cup {Sentinel})]
          /\ sealed' \in [Ids -> Seq(Findings \cup {Sentinel})]
      BY <1>7, <2>2 DEF TypeOK, Commit
    <2> QED
      BY <1>7, <2>3 DEF TypeOK, Commit, Touched, readerVars
  <1>8. ASSUME NEW w \in Writers, Conflict(w) PROVE TypeOK'
    <2>1. call[w] \in Calls /\ attempts[w] \in Nat /\ attempts[w] < MaxAttempts
      BY <1>8 DEF TypeOK, Conflict
    <2>2. CASE attempts[w] + 1 < MaxAttempts
      <3>1. attempts' = [attempts EXCEPT ![w] = attempts[w] + 1]
        BY <1>8 DEF Conflict
      <3>2. pc' = [pc EXCEPT ![w] = "watch"] /\ outcome' = outcome
        BY <1>8, <2>2 DEF Conflict
      <3> QED
        BY <1>8, <2>1, <2>2, <3>1, <3>2 DEF TypeOK, Conflict, readerVars
    <2>3. CASE ~(attempts[w] + 1 < MaxAttempts)
      <3>1. attempts' = [attempts EXCEPT ![w] = attempts[w] + 1]
        BY <1>8 DEF Conflict
      <3>2. /\ pc' = [pc EXCEPT ![w] = "idle"]
            /\ outcome' = [outcome EXCEPT ![w] = "exhausted"]
        BY <1>8, <2>3 DEF Conflict
      <3> QED
        BY <1>8, <2>1, <2>3, <3>1, <3>2 DEF TypeOK, Conflict, readerVars
    <2> QED
      BY <2>2, <2>3
  <1>9. ASSUME NEW w \in Writers, Reconnect(w) PROVE TypeOK'
    BY <1>9 DEF TypeOK, Reconnect, writerVars, readerVars
  <1>10. ASSUME NEW r \in Readers, NEW id \in Ids, Hgetall(r, id)
         PROVE  TypeOK'
    <2>1. CASE Present(id)
      <3>1. /\ snapshot' = [snapshot EXCEPT ![r] = [id |-> id, hash |-> hash[id]]]
            /\ UNCHANGED <<redisVars, writerVars>>
        BY <1>10, <2>1 DEF Hgetall
      <3>2. [id |-> id, hash |-> hash[id]] \in [id : Ids \cup {"none"}, hash : Hashes]
        BY DEF TypeOK
      <3> QED
        BY <3>1, <3>2 DEF TypeOK, redisVars, writerVars
    <2>2. CASE ~Present(id)
      BY <1>10, <2>2 DEF TypeOK, Hgetall, redisVars, writerVars
    <2> QED
      BY <2>1, <2>2
  <1>11. ASSUME NEW r \in Readers, Lrange(r) PROVE TypeOK'
    BY <1>11, <1>a DEF TypeOK, Lrange, redisVars, writerVars
  <1>12. CASE UNCHANGED vars
    BY <1>12 DEF TypeOK, vars, redisVars, writerVars, readerVars
  <1> QED
    BY <1>1, <1>2, <1>3, <1>4, <1>5, <1>6, <1>7, <1>8, <1>9, <1>10, <1>11,
       <1>12 DEF Next, Step

\* Every state of the repository is well typed: in particular a transition
\* never starts more than MAX_TRANSACTION_ATTEMPTS transactions.
THEOREM TypeCorrect == Spec => []TypeOK
  BY TypeInit, TypeStep, PTL DEF Spec

-----------------------------------------------------------------------------
(* The inductive invariant behind the guarantees about terminal records.    *)

\* A job exists only after create, and a record is never written before it.
CalledAfterCreate ==
    /\ \A w \in Writers : pc[w] # "idle" => call[w].id \in created
    /\ \A w \in Writers : outcome[w] = "noop" => call[w].id \in created
    /\ \A id \in Ids : id \notin created => hash[id] = NoHash /\ list[id] = <<>>

\* Connections hold, or nobody else can change what a transaction has read.
Stable ==
    \/ Flaky = {}
    \/ Expiring = {} /\ \A v, w \in Writers : v = w

\* Between WATCH and EXEC a connection that holds watches the hash of the call.
WatchHeld ==
    \A w \in Writers \ Flaky :
        pc[w] \in {"hget", "exec"} => call[w].id \in watching[w]

\* GuardFresh, and for a connection that drops even where it is not needed: a
\* reconnect forgets that the watched key has changed.
GuardHeld ==
    \A w \in Writers :
        pc[w] = "exec" /\ (~dirty[w] \/ w \in Flaky) => Open(call[w].id)

\* A call that is about to UNWATCH saw a record no transition reopens.
ClosedSeen == \A w \in Writers : pc[w] = "unwatch" => ~Open(call[w].id)

IInv ==
    /\ TypeOK
    /\ CalledAfterCreate
    /\ WatchHeld
    /\ GuardHeld
    /\ ClosedSeen
    /\ NoopMeansClosed

LEMMA InvInit == Init => IInv
  <1> SUFFICES ASSUME Init PROVE IInv
    OBVIOUS
  <1>1. TypeOK
    BY TypeInit
  <1> QED
    BY <1>1 DEF Init, IInv, CalledAfterCreate, WatchHeld, GuardHeld,
                ClosedSeen, NoopMeansClosed

\* A commit is about a record that is still open: the check made at HGET holds
\* when EXEC runs.
LEMMA CommitOpen ==
    ASSUME IInv, NEW w \in Writers, Commit(w)
    PROVE  /\ call[w] \in Calls
           /\ call[w].id \in created
           /\ Open(call[w].id)
  BY DEF IInv, TypeOK, CalledAfterCreate, GuardHeld, Commit

\* Only create, the lapse of the retention and a commit write a record.
LEMMA KeyWrites ==
    ASSUME [Next]_vars
    PROVE  \/ \E i \in Ids : Create(i) \/ Expire(i)
           \/ \E w \in Writers : Commit(w)
           \/ UNCHANGED <<created, hash, list>>
  <1>1. ASSUME NEW w \in Writers, NEW c \in Calls, Call(w, c)
        PROVE  UNCHANGED <<created, hash, list>>
    BY <1>1 DEF Call, redisVars
  <1>2. ASSUME NEW w \in Writers,
               Watch(w) \/ Hget(w) \/ Unwatch(w) \/ Conflict(w) \/ Reconnect(w)
        PROVE  UNCHANGED <<created, hash, list>>
    BY <1>2 DEF Watch, Hget, Unwatch, Conflict, Reconnect, redisVars
  <1>3. ASSUME NEW r \in Readers, Lrange(r) \/ \E i \in Ids : Hgetall(r, i)
        PROVE  UNCHANGED <<created, hash, list>>
    BY <1>3 DEF Lrange, Hgetall, redisVars
  <1> QED
    BY <1>1, <1>2, <1>3 DEF Next, Step, vars, redisVars

\* No step opens a created record that is closed.
LEMMA ClosedStays ==
    ASSUME IInv, [Next]_vars, NEW id \in created, ~Open(id)
    PROVE  /\ id \in created'
           /\ ~Open(id)'
  <1> id \in Ids
    BY DEF IInv, TypeOK
  <1>1. ASSUME NEW i \in Ids, Create(i) PROVE hash'[id] = hash[id] /\ id \in created'
    BY <1>1 DEF Create, IInv, TypeOK
  <1>2. ASSUME NEW i \in Ids, Expire(i)
        PROVE  (hash'[id] = hash[id] \/ hash'[id] = NoHash) /\ id \in created'
    BY <1>2 DEF Expire, IInv, TypeOK
  <1>3. ASSUME NEW w \in Writers, Commit(w)
        PROVE  hash'[id] = hash[id] /\ id \in created'
    <2>1. call[w].id # id
      BY <1>3, CommitOpen
    <2> QED
      BY <1>3, <2>1 DEF Commit, IInv, TypeOK
  <1>4. CASE UNCHANGED <<created, hash>>
    BY <1>4 DEF Open
  <1>5. \/ \E i \in Ids : Create(i) \/ Expire(i)
        \/ \E w \in Writers : Commit(w)
        \/ UNCHANGED <<created, hash>>
    BY KeyWrites
  <1> QED
    BY <1>1, <1>2, <1>3, <1>4, <1>5 DEF Open, NoHash, Unfinished

LEMMA CreatedStep == IInv /\ [Next]_vars => CalledAfterCreate'
  <1> SUFFICES ASSUME IInv, [Next]_vars PROVE CalledAfterCreate'
    OBVIOUS
  <1>1. ASSUME NEW i \in Ids, Create(i) PROVE CalledAfterCreate'
    BY <1>1 DEF Create, IInv, TypeOK, CalledAfterCreate, writerVars
  <1>2. ASSUME NEW i \in Ids, Expire(i) PROVE CalledAfterCreate'
    BY <1>2 DEF Expire, IInv, TypeOK, CalledAfterCreate, writerVars
  <1>3. ASSUME NEW w \in Writers, NEW c \in Calls, Call(w, c)
        PROVE  CalledAfterCreate'
    BY <1>3 DEF Call, IInv, TypeOK, CalledAfterCreate, redisVars
  <1>4. ASSUME NEW w \in Writers, Watch(w) \/ Hget(w) PROVE CalledAfterCreate'
    BY <1>4 DEF Watch, Hget, IInv, TypeOK, CalledAfterCreate, redisVars
  <1>5. ASSUME NEW w \in Writers, Unwatch(w) PROVE CalledAfterCreate'
    BY <1>5 DEF Unwatch, IInv, TypeOK, CalledAfterCreate
  <1>6. ASSUME NEW w \in Writers, Commit(w) PROVE CalledAfterCreate'
    <2>1. call[w].id \in created
      BY <1>6, CommitOpen
    <2> QED
      BY <1>6, <2>1 DEF Commit, IInv, TypeOK, CalledAfterCreate
  <1>7. ASSUME NEW w \in Writers, Conflict(w) PROVE CalledAfterCreate'
    <2>1. /\ pc[w] = "exec"
          /\ UNCHANGED <<created, hash, list, call>>
          /\ \/ pc' = [pc EXCEPT ![w] = "watch"] /\ outcome' = outcome
             \/ /\ pc' = [pc EXCEPT ![w] = "idle"]
                /\ outcome' = [outcome EXCEPT ![w] = "exhausted"]
      BY <1>7 DEF Conflict
    <2> QED
      BY <2>1 DEF IInv, TypeOK, CalledAfterCreate
  <1>8. ASSUME NEW w \in Writers, Reconnect(w) PROVE CalledAfterCreate'
    BY <1>8 DEF Reconnect, IInv, TypeOK, CalledAfterCreate, writerVars
  <1>9. ASSUME NEW r \in Readers, Lrange(r) \/ \E i \in Ids : Hgetall(r, i)
        PROVE  CalledAfterCreate'
    BY <1>9 DEF Lrange, Hgetall, CalledAfterCreate, IInv, redisVars, writerVars
  <1>10. CASE UNCHANGED vars
    BY <1>10 DEF CalledAfterCreate, IInv, vars, redisVars, writerVars
  <1> QED
    BY <1>1, <1>2, <1>3, <1>4, <1>5, <1>6, <1>7, <1>8, <1>9, <1>10
       DEF Next, Step

LEMMA WatchStep == IInv /\ [Next]_vars => WatchHeld'
  <1> SUFFICES ASSUME IInv, [Next]_vars PROVE WatchHeld'
    OBVIOUS
  <1> USE DEF IInv, TypeOK, WatchHeld
  <1>1. ASSUME NEW i \in Ids, Create(i) \/ Expire(i) PROVE WatchHeld'
    BY <1>1 DEF Create, Expire, writerVars
  <1>2. ASSUME NEW w \in Writers, NEW c \in Calls, Call(w, c) PROVE WatchHeld'
    BY <1>2 DEF Call, redisVars
  <1>3. ASSUME NEW w \in Writers, Watch(w) PROVE WatchHeld'
    BY <1>3, CallHasId DEF Watch
  <1>4. ASSUME NEW w \in Writers, Hget(w) PROVE WatchHeld'
    BY <1>4 DEF Hget, redisVars
  <1>5. ASSUME NEW w \in Writers, Unwatch(w) \/ Commit(w) PROVE WatchHeld'
    BY <1>5 DEF Unwatch, Commit
  <1>6. ASSUME NEW w \in Writers, Conflict(w) PROVE WatchHeld'
    <2>1. /\ UNCHANGED call
          /\ watching' = [watching EXCEPT ![w] = {}]
          /\ \/ pc' = [pc EXCEPT ![w] = "watch"]
             \/ pc' = [pc EXCEPT ![w] = "idle"]
      BY <1>6 DEF Conflict
    <2> QED
      BY <2>1
  <1>7. ASSUME NEW w \in Writers, Reconnect(w) PROVE WatchHeld'
    BY <1>7 DEF Reconnect, writerVars
  <1>8. ASSUME NEW r \in Readers, Lrange(r) \/ \E i \in Ids : Hgetall(r, i)
        PROVE  WatchHeld'
    BY <1>8 DEF Lrange, Hgetall, redisVars, writerVars
  <1>9. CASE UNCHANGED vars
    BY <1>9 DEF vars, redisVars, writerVars
  <1> QED
    BY <1>1, <1>2, <1>3, <1>4, <1>5, <1>6, <1>7, <1>8, <1>9 DEF Next, Step

LEMMA GuardStep ==
    ASSUME Stable PROVE IInv /\ [Next]_vars => GuardHeld'
  <1> SUFFICES ASSUME IInv, [Next]_vars PROVE GuardHeld'
    OBVIOUS
  <1> USE DEF IInv, TypeOK, GuardHeld, Open
  <1>1. ASSUME NEW i \in Ids, Create(i) PROVE GuardHeld'
    <2> SUFFICES ASSUME NEW v \in Writers, pc'[v] = "exec", ~dirty'[v] \/ v \in Flaky
                 PROVE  hash'[call'[v].id].status \in Unfinished
      OBVIOUS
    <2>1. pc[v] = "exec" /\ call'[v] = call[v]
      BY <1>1 DEF Create, writerVars
    <2>2. ~dirty[v] \/ v \in Flaky
      BY <1>1 DEF Create, Touched
    <2>3. call[v].id # i
      BY <1>1, <2>1 DEF Create, CalledAfterCreate
    <2>4. call[v].id \in Ids
      BY <2>1, CallHasId
    <2> QED
      BY <1>1, <2>1, <2>2, <2>3, <2>4 DEF Create
  <1>0. ASSUME NEW i \in Ids, Expire(i) PROVE GuardHeld'
    <2> SUFFICES ASSUME NEW v \in Writers, pc'[v] = "exec", ~dirty'[v] \/ v \in Flaky
                 PROVE  hash'[call'[v].id].status \in Unfinished
      OBVIOUS
    <2>0. Flaky = {}
      BY <1>0 DEF Stable, Expire
    <2>1. pc[v] = "exec" /\ call'[v] = call[v]
      BY <1>0 DEF Expire, writerVars
    <2>2. ~dirty[v] /\ i \notin watching[v]
      BY <1>0, <2>0 DEF Expire, Touched
    <2>3. call[v].id # i
      BY <2>0, <2>1, <2>2 DEF WatchHeld
    <2>4. call[v].id \in Ids
      BY <2>1, CallHasId
    <2> QED
      BY <1>0, <2>1, <2>2, <2>3, <2>4 DEF Expire
  <1>2. ASSUME NEW w \in Writers, NEW c \in Calls, Call(w, c) PROVE GuardHeld'
    BY <1>2 DEF Call, redisVars
  <1>3. ASSUME NEW w \in Writers, Watch(w) PROVE GuardHeld'
    BY <1>3 DEF Watch
  <1>4. ASSUME NEW w \in Writers, Hget(w) PROVE GuardHeld'
    BY <1>4 DEF Hget, redisVars
  <1>5. ASSUME NEW w \in Writers, Unwatch(w) PROVE GuardHeld'
    BY <1>5 DEF Unwatch
  <1>6. ASSUME NEW w \in Writers, Commit(w) PROVE GuardHeld'
    <2> SUFFICES ASSUME NEW v \in Writers, pc'[v] = "exec", ~dirty'[v] \/ v \in Flaky
                 PROVE  hash'[call'[v].id].status \in Unfinished
      OBVIOUS
    <2>1. v # w /\ pc[v] = "exec" /\ call'[v] = call[v]
      BY <1>6 DEF Commit
    <2>0. Flaky = {}
      BY <2>1 DEF Stable
    <2>2. ~dirty[v] /\ call[w].id \notin watching[v]
      BY <1>6, <2>0, <2>1 DEF Commit, Touched
    <2>3. call[v].id # call[w].id
      BY <2>0, <2>1, <2>2 DEF WatchHeld
    <2>4. call[v].id \in Ids /\ call[w].id \in Ids
      BY <1>6, <2>1, CallHasId, CommitOpen
    <2> QED
      BY <1>6, <2>1, <2>2, <2>3, <2>4 DEF Commit
  <1>7. ASSUME NEW w \in Writers, Conflict(w) PROVE GuardHeld'
    <2>1. /\ UNCHANGED <<call, hash>>
          /\ dirty' = [dirty EXCEPT ![w] = FALSE]
          /\ \/ pc' = [pc EXCEPT ![w] = "watch"]
             \/ pc' = [pc EXCEPT ![w] = "idle"]
      BY <1>7 DEF Conflict
    <2> QED
      BY <2>1
  <1>8. ASSUME NEW w \in Writers, Reconnect(w) PROVE GuardHeld'
    BY <1>8 DEF Reconnect, writerVars
  <1>9. ASSUME NEW r \in Readers, Lrange(r) \/ \E i \in Ids : Hgetall(r, i)
        PROVE  GuardHeld'
    BY <1>9 DEF Lrange, Hgetall, redisVars, writerVars
  <1>10. CASE UNCHANGED vars
    BY <1>10 DEF vars, redisVars, writerVars
  <1> QED
    BY <1>0, <1>1, <1>2, <1>3, <1>4, <1>5, <1>6, <1>7, <1>8, <1>9, <1>10
       DEF Next, Step

\* What a call saw closed at HGET is closed when it returns, and after.
LEMMA ClosedStep == IInv /\ [Next]_vars => ClosedSeen' /\ NoopMeansClosed'
  <1> SUFFICES ASSUME IInv, [Next]_vars, NEW v \in Writers,
                      pc'[v] = "unwatch" \/ outcome'[v] = "noop"
               PROVE  ~Open(call[v].id)' /\ call'[v] = call[v]
    BY DEF ClosedSeen, NoopMeansClosed, Open
  <1> DEFINE WasClosed == /\ pc[v] = "unwatch" \/ outcome[v] = "noop"
                          /\ call'[v] = call[v]
             Checked == /\ pc[v] = "hget" /\ ~Open(call[v].id)
                        /\ UNCHANGED <<hash, call>>
  <1>1. ASSUME NEW w \in Writers, NEW c \in Calls, Call(w, c) PROVE WasClosed
    BY <1>1 DEF Call, IInv, TypeOK
  <1>2. ASSUME NEW w \in Writers, Hget(w) PROVE WasClosed \/ Checked
    BY <1>2 DEF Hget, IInv, TypeOK, redisVars
  <1>3. ASSUME NEW w \in Writers, Watch(w) \/ Unwatch(w) \/ Commit(w)
        PROVE  WasClosed
    BY <1>3 DEF Watch, Unwatch, Commit, IInv, TypeOK
  <1>4. ASSUME NEW w \in Writers, Conflict(w) PROVE WasClosed
    <2>1. /\ UNCHANGED call
          /\ \/ pc' = [pc EXCEPT ![w] = "watch"] /\ outcome' = outcome
             \/ /\ pc' = [pc EXCEPT ![w] = "idle"]
                /\ outcome' = [outcome EXCEPT ![w] = "exhausted"]
      BY <1>4 DEF Conflict
    <2> QED
      BY <2>1 DEF IInv, TypeOK
  <1>5. ASSUME UNCHANGED writerVars PROVE WasClosed
    BY <1>5 DEF writerVars
  <1>6. WasClosed \/ Checked
    <2>1. ASSUME NEW w \in Writers, Reconnect(w) PROVE UNCHANGED writerVars
      BY <2>1 DEF Reconnect
    <2>2. ASSUME NEW i \in Ids, Create(i) \/ Expire(i) PROVE UNCHANGED writerVars
      BY <2>2 DEF Create, Expire
    <2>3. ASSUME NEW r \in Readers, Lrange(r) \/ \E i \in Ids : Hgetall(r, i)
          PROVE  UNCHANGED writerVars
      BY <2>3 DEF Lrange, Hgetall
    <2> QED
      BY <1>1, <1>2, <1>3, <1>4, <1>5, <2>1, <2>2, <2>3 DEF Next, Step, vars
  <1>7. CASE WasClosed
    <2>1. call[v].id \in created /\ ~Open(call[v].id)
      BY <1>7 DEF IInv, CalledAfterCreate, ClosedSeen, NoopMeansClosed
    <2>2. ~Open(call[v].id)'
      <3>1. ASSUME NEW i \in created, ~Open(i), i = call[v].id PROVE ~(hash'[i].status \in Unfinished)
        BY <3>1, ClosedStays DEF Open
      <3> QED
        BY <1>7, <2>1, <3>1 DEF Open
    <2> QED
      BY <1>7, <2>2
  <1>8. CASE Checked
    BY <1>8 DEF Open
  <1> QED
    BY <1>6, <1>7, <1>8

LEMMA InvStep == ASSUME Stable PROVE IInv /\ [Next]_vars => IInv'
  <1>1. IInv /\ [Next]_vars => TypeOK'
    BY TypeStep DEF IInv
  <1> QED
    BY <1>1, CreatedStep, WatchStep, GuardStep, ClosedStep DEF IInv

LEMMA InvAlways == ASSUME Stable PROVE Spec => []IInv
  <1>1. IInv /\ [Next]_vars => IInv'
    BY InvStep
  <1> QED
    BY <1>1, InvInit, PTL DEF Spec

-----------------------------------------------------------------------------
\* The status read before MULTI is never stale at EXEC, whoever else writes
\* and whenever the retention lapses, as long as no connection drops; nor is it
\* with a single worker on a dropping connection, as deployed.
THEOREM GuardNeverStale == ASSUME Stable PROVE Spec => []GuardFresh
  <1>1. IInv => GuardFresh
    BY DEF IInv, GuardHeld, GuardFresh
  <1> QED
    BY <1>1, InvAlways, PTL

\* A transition that returns without a write was entitled to, and stays so.
THEOREM NoopIsFinal == ASSUME Stable PROVE Spec => []NoopMeansClosed
  <1>1. IInv => NoopMeansClosed
    BY DEF IInv
  <1> QED
    BY <1>1, InvAlways, PTL

\* The only ways a step changes the two keys of a created record.
LEMMA RecordStep ==
    ASSUME IInv, [Next]_vars, NEW id \in created
    PROVE  \/ hash'[id] = hash[id] /\ list'[id] = list[id]
           \/ hash'[id] = NoHash /\ list'[id] = <<>> /\ Present(id)
           \/ Open(id)
  <1> id \in Ids
    BY DEF IInv, TypeOK
  <1>1. ASSUME NEW i \in Ids, Create(i)
        PROVE  hash'[id] = hash[id] /\ list'[id] = list[id]
    BY <1>1 DEF Create, IInv, TypeOK
  <1>2. ASSUME NEW i \in Ids, Expire(i)
        PROVE  \/ hash'[id] = hash[id] /\ list'[id] = list[id]
               \/ hash'[id] = NoHash /\ list'[id] = <<>> /\ Present(id)
    BY <1>2 DEF Expire, IInv, TypeOK
  <1>3. ASSUME NEW w \in Writers, Commit(w)
        PROVE  Open(id) \/ (hash'[id] = hash[id] /\ list'[id] = list[id])
    BY <1>3, CommitOpen DEF Commit, IInv, TypeOK
  <1>4. \/ \E i \in Ids : Create(i) \/ Expire(i)
        \/ \E w \in Writers : Commit(w)
        \/ UNCHANGED <<hash, list>>
    BY KeyWrites
  <1> QED
    BY <1>1, <1>2, <1>3, <1>4

\* The first terminal status wins: no interleaving of transitions changes the
\* status, the error or the findings of a Finished or Failed record.
THEOREM FirstTerminalIsFinal == ASSUME Stable PROVE Spec => FirstTerminalWins
  <1>1. ASSUME IInv, [Next]_vars, NEW id \in Ids,
               hash[id].status \in TERMINAL_STATUSES, hash'[id] # NoHash
        PROVE  hash'[id] = hash[id] /\ list'[id] = list[id]
    <2>1. id \in created
      BY <1>1 DEF IInv, CalledAfterCreate, NoHash, TERMINAL_STATUSES
    <2>2. ~Open(id)
      BY <1>1 DEF Open, Unfinished, TERMINAL_STATUSES
    <2> QED
      BY <1>1, <2>1, <2>2, RecordStep
  <1>2. IInv /\ [Next]_vars
        => [\A id \in Ids :
              hash[id].status \in TERMINAL_STATUSES /\ hash'[id] # NoHash
              => hash'[id] = hash[id] /\ list'[id] = list[id]]_vars
    BY <1>1
  <1> QED
    BY <1>2, InvAlways, PTL DEF Spec, FirstTerminalWins


\* A mutation of an open record leaves a complete hash.
LEMMA MutationKeeps ==
    ASSUME NEW c \in Calls, NEW h \in Hashes, h.meta, h.status \in Unfinished
    PROVE  /\ HashAfter(c, h).meta
           /\ HashAfter(c, h).status \in Statuses
           /\ HashAfter(c, h) # NoHash
  <1>1. c.op \in {"markScanning", "appendVulnerability", "markFinished", "markFailed"}
    BY DEF Calls
  <1> QED
    BY <1>1 DEF HashAfter, Hashes, NoHash, Statuses, Unfinished, TERMINAL_STATUSES

\* A mutation appends findings only, behind the sentinel.
LEMMA ListKeeps ==
    ASSUME NEW c \in Calls, NEW l \in Seq(Findings \cup {Sentinel}),
           Len(l) >= 1, \A i \in 1 .. Len(l) : l[i] = Sentinel <=> i = 1
    PROVE  LET m == ListAfter(c, l) IN
           Len(m) >= 1 /\ \A i \in 1 .. Len(m) : m[i] = Sentinel <=> i = 1
  <1>1. CASE c.op = "appendVulnerability"
    <2>1. c.finding \in Findings /\ c.finding # Sentinel
      BY <1>1, ConstantsAssumption DEF Calls
    <2>2. ListAfter(c, l) = Append(l, c.finding)
      BY <1>1 DEF ListAfter
    <2> DEFINE m == Append(l, c.finding)
    <2>3. /\ Len(m) = Len(l) + 1
          /\ \A i \in 1 .. Len(l) : m[i] = l[i]
          /\ m[Len(l) + 1] = c.finding
      BY <2>1
    <2>4. Len(l) \in Nat
      OBVIOUS
    <2>5. \A i \in 1 .. Len(m) : m[i] = Sentinel <=> i = 1
      BY <2>1, <2>3, <2>4
    <2> QED
      BY <2>2, <2>3, <2>4, <2>5
  <1>2. CASE c.op # "appendVulnerability"
    BY <1>2 DEF ListAfter
  <1> QED
    BY <1>1, <1>2

\* The two keys of a record, seen apart from the other records.
Kept(h, l) ==
    IF h # NoHash
    THEN /\ h.meta /\ h.status # "none"
         /\ Len(l) >= 1
         /\ \A i \in 1 .. Len(l) : l[i] = Sentinel <=> i = 1
    ELSE l = <<>>

LEMMA KeysStep == IInv /\ KeysTogether /\ [Next]_vars => KeysTogether'
  <1> SUFFICES ASSUME IInv, KeysTogether, [Next]_vars, NEW id \in Ids
               PROVE  Kept(hash'[id], list'[id])
    BY DEF KeysTogether, Kept, Present
  <1>1. Kept(hash[id], list[id])
    BY DEF KeysTogether, Kept, Present
  <1>2. ASSUME NEW i \in Ids, Create(i) PROVE Kept(hash'[id], list'[id])
    <2>1. CASE i = id
      <3>1. hash'[id] = QueuedHash /\ list'[id] = <<Sentinel>>
        BY <1>2, <2>1 DEF Create, IInv, TypeOK
      <3> QED
        BY <3>1 DEF Kept, QueuedHash, NoHash
    <2>2. CASE i # id
      BY <1>1, <1>2, <2>2 DEF Create, IInv, TypeOK
    <2> QED
      BY <2>1, <2>2
  <1>3. ASSUME NEW i \in Ids, Expire(i) PROVE Kept(hash'[id], list'[id])
    <2>1. \/ hash'[id] = NoHash /\ list'[id] = <<>>
          \/ hash'[id] = hash[id] /\ list'[id] = list[id]
      BY <1>3 DEF Expire, IInv, TypeOK
    <2> QED
      BY <1>1, <2>1 DEF Kept
  <1>4. ASSUME NEW w \in Writers, Commit(w) PROVE Kept(hash'[id], list'[id])
    <2>1. /\ call[w] \in Calls /\ call[w].id \in Ids
          /\ Open(call[w].id)
      BY <1>4, CommitOpen, CallHasId
    <2>2. CASE call[w].id = id
      <3>1. /\ hash'[id] = HashAfter(call[w], hash[id])
            /\ list'[id] = ListAfter(call[w], list[id])
        BY <1>4, <2>1, <2>2 DEF Commit, IInv, TypeOK
      <3>2. hash[id] \in Hashes /\ list[id] \in Seq(Findings \cup {Sentinel})
        BY DEF IInv, TypeOK
      <3>3. hash[id].status \in Unfinished /\ hash[id] # NoHash
        BY <2>1, <2>2 DEF Open, NoHash, Unfinished
      <3>4. /\ hash[id].meta
            /\ Len(list[id]) >= 1
            /\ \A i \in 1 .. Len(list[id]) : list[id][i] = Sentinel <=> i = 1
        BY <1>1, <3>3 DEF Kept
      <3>5. /\ HashAfter(call[w], hash[id]).meta
            /\ HashAfter(call[w], hash[id]).status \in Statuses
        BY <2>1, <3>2, <3>3, <3>4, MutationKeeps
      <3>6. LET m == ListAfter(call[w], list[id]) IN
            Len(m) >= 1 /\ \A i \in 1 .. Len(m) : m[i] = Sentinel <=> i = 1
        BY <2>1, <3>2, <3>4, ListKeeps
      <3>7. HashAfter(call[w], hash[id]) # NoHash
        BY <2>1, <3>2, <3>3, <3>4, MutationKeeps
      <3>8. HashAfter(call[w], hash[id]).status # "none"
        BY <3>5 DEF Statuses, Unfinished, TERMINAL_STATUSES
      <3> QED
        BY <3>1, <3>5, <3>6, <3>7, <3>8 DEF Kept
    <2>3. CASE call[w].id # id
      BY <1>1, <1>4, <2>1, <2>3 DEF Commit, IInv, TypeOK
    <2> QED
      BY <2>2, <2>3
  <1> QED
    BY <1>1, <1>2, <1>3, <1>4, KeyWrites

\* The metadata hash and the list of a record live and lapse together, and
\* the sentinel is the list's index 0 and only that.
THEOREM KeysStayTogether == ASSUME Stable PROVE Spec => []KeysTogether
  <1>1. Init => KeysTogether
    BY DEF Init, KeysTogether, Present
  <1>2. IInv /\ KeysTogether /\ [Next]_vars => KeysTogether'
    BY KeysStep
  <1> QED
    BY <1>1, <1>2, InvAlways, PTL DEF Spec

\* A record that lapsed is never resurrected by a late transition, in whole
\* or in part.
THEOREM LapsedStaysLapsed == ASSUME Stable PROVE Spec => NeverResurrected
  <1>1. ASSUME IInv, KeysTogether, [Next]_vars,
               NEW id \in Ids, id \in created, ~Present(id)
        PROVE  hash'[id] = NoHash /\ list'[id] = <<>>
    <2>1. hash[id] = NoHash /\ list[id] = <<>>
      BY <1>1 DEF KeysTogether, Present
    <2>2. ~Open(id)
      BY <2>1 DEF Open, NoHash, Unfinished
    <2> QED
      BY <1>1, <2>1, <2>2, RecordStep
  <1>2. IInv /\ KeysTogether /\ [Next]_vars
        => [\A id \in Ids :
              id \in created /\ ~Present(id)
              => hash'[id] = NoHash /\ list'[id] = <<>>]_vars
    BY <1>1
  <1> QED
    BY <1>2, InvAlways, KeysStayTogether, PTL DEF Spec, NeverResurrected

-----------------------------------------------------------------------------
(* The repository implements the record of the port.                        *)

\* The refinement mapping, named for the proof.
MappedStatus == [id \in Ids |->
                    IF Present(id) THEN hash[id].status
                    ELSE IF id \in created THEN "expired" ELSE "none"]

MappedFindings == [id \in Ids |-> Surfaced(list[id])]

MappedReason == [id \in Ids |-> hash[id].error]

\* LRANGE 1 -1 after an RPUSH behind the sentinel.
LEMMA SurfacedAppend ==
    ASSUME NEW S, NEW l \in Seq(S), NEW v \in S, Len(l) >= 1
    PROVE  Surfaced(Append(l, v)) = Append(Surfaced(l), v)
  <1> DEFINE a == Surfaced(Append(l, v))
             b == Append(Surfaced(l), v)
  <1>1. Len(l) \in Nat /\ Append(l, v) \in Seq(S) /\ Len(Append(l, v)) = Len(l) + 1
    OBVIOUS
  <1>2. a \in Seq(S) /\ Len(a) = Len(l)
    BY <1>1 DEF Surfaced
  <1>3. Surfaced(l) \in Seq(S) /\ Len(Surfaced(l)) = Len(l) - 1
    BY <1>1 DEF Surfaced
  <1>4. b \in Seq(S) /\ Len(b) = Len(l)
    BY <1>1, <1>3
  <1>5. ASSUME NEW i \in 1 .. Len(l) PROVE a[i] = b[i]
    <2>1. a[i] = Append(l, v)[i + 1]
      BY <1>1 DEF Surfaced
    <2>2. CASE i < Len(l)
      <3>1. b[i] = Surfaced(l)[i]
        BY <1>1, <1>3, <2>2
      <3>2. Surfaced(l)[i] = l[i + 1]
        BY <1>1, <2>2 DEF Surfaced
      <3>3. Append(l, v)[i + 1] = l[i + 1]
        BY <1>1, <2>2
      <3> QED
        BY <2>1, <3>1, <3>2, <3>3
    <2>3. CASE i = Len(l)
      <3>1. Append(l, v)[i + 1] = v
        BY <1>1, <2>3
      <3>2. b[i] = v
        <4> DEFINE t == Surfaced(l)
        <4>1. t \in Seq(S) /\ Len(t) + 1 = i
          BY <1>1, <1>3, <2>3
        <4> HIDE DEF t
        <4>2. Append(t, v)[Len(t) + 1] = v
          BY <4>1
        <4> QED
          BY <4>1, <4>2 DEF t
      <3> QED
        BY <2>1, <3>1, <3>2
    <2>4. i < Len(l) \/ i = Len(l)
      BY <1>1
    <2> QED
      BY <2>2, <2>3, <2>4, Zenon
  <1> HIDE DEF a, b
  <1>6. a = b
    BY <1>2, <1>4, <1>5
  <1> QED
    BY <1>6 DEF a, b

LEMMA RefineInit == Init => Record!Init
  <1>1. Surfaced(<<>>) = <<>>
    BY DEF Surfaced
  <1> QED
    BY <1>1 DEF Init, Record!Init, Present, NoHash

\* A step that leaves the three keys alone is a stutter of the record.
LEMMA RefineStutter ==
    ASSUME UNCHANGED <<created, hash, list>>
    PROVE  UNCHANGED <<MappedStatus, MappedFindings, MappedReason>>
  BY DEF MappedStatus, MappedFindings, MappedReason, Present

LEMMA RefineCreate ==
    ASSUME IInv, KeysTogether, NEW i \in Ids, Create(i)
    PROVE  /\ MappedStatus[i] = "none"
           /\ MappedStatus' = [MappedStatus EXCEPT ![i] = "Queued"]
           /\ UNCHANGED <<MappedFindings, MappedReason>>
  <1>1. /\ hash' = [hash EXCEPT ![i] = QueuedHash]
        /\ list' = [list EXCEPT ![i] = <<Sentinel>>]
        /\ created' = created \cup {i}
        /\ i \notin created
        /\ hash[i] = NoHash /\ list[i] = <<>>
    BY DEF Create, IInv, CalledAfterCreate
  <1>2. QueuedHash # NoHash
    BY DEF QueuedHash, NoHash
  <1>3. Surfaced(<<Sentinel>>) = <<>> /\ Surfaced(<<>>) = <<>>
    BY DEF Surfaced
  <1>4. MappedStatus[i] = "none"
    BY <1>1 DEF MappedStatus, Present
  <1>5. MappedStatus' = [MappedStatus EXCEPT ![i] = "Queued"]
    BY <1>1, <1>2 DEF MappedStatus, Present, QueuedHash, IInv, TypeOK
  <1>6. MappedFindings' = MappedFindings
    BY <1>1, <1>3 DEF MappedFindings, IInv, TypeOK
  <1>7. MappedReason' = MappedReason
    BY <1>1 DEF MappedReason, NoHash, QueuedHash, IInv, TypeOK
  <1> QED
    BY <1>4, <1>5, <1>6, <1>7

LEMMA RefineExpire ==
    ASSUME IInv, KeysTogether, NEW i \in Ids, Expire(i)
    PROVE  /\ MappedStatus[i] \in Statuses
           /\ MappedStatus' = [MappedStatus EXCEPT ![i] = "expired"]
           /\ MappedFindings' = [MappedFindings EXCEPT ![i] = <<>>]
           /\ MappedReason' = [MappedReason EXCEPT ![i] = NoReason]
  <1>1. /\ hash' = [hash EXCEPT ![i] = NoHash]
        /\ list' = [list EXCEPT ![i] = <<>>]
        /\ created' = created
        /\ Present(i)
    BY DEF Expire
  <1>2. i \in created
    BY <1>1 DEF IInv, CalledAfterCreate, Present
  <1>3. Surfaced(<<>>) = <<>>
    BY DEF Surfaced
  <1>4. MappedStatus[i] \in Statuses
    BY <1>1 DEF MappedStatus, KeysTogether, IInv, TypeOK, Hashes
  <1>5. MappedStatus' = [MappedStatus EXCEPT ![i] = "expired"]
    BY <1>1, <1>2 DEF MappedStatus, Present, IInv, TypeOK
  <1>6. MappedFindings' = [MappedFindings EXCEPT ![i] = <<>>]
    BY <1>1, <1>3 DEF MappedFindings, IInv, TypeOK
  <1>7. MappedReason' = [MappedReason EXCEPT ![i] = NoReason]
    BY <1>1 DEF MappedReason, NoHash, IInv, TypeOK
  <1> QED
    BY <1>4, <1>5, <1>6, <1>7

\* A commit in terms of the mapped record: the mutation of the call on the
\* status, the findings and the reason of its identifier.
LEMMA RefineCommit ==
    ASSUME IInv, KeysTogether, NEW w \in Writers, Commit(w)
    PROVE  LET c == call[w] IN
           /\ MappedStatus[c.id] \in Unfinished
           /\ MappedStatus' = [MappedStatus EXCEPT
                                 ![c.id] = HashAfter(c, hash[c.id]).status]
           /\ MappedReason' = [MappedReason EXCEPT
                                 ![c.id] = HashAfter(c, hash[c.id]).error]
           /\ MappedFindings' = [MappedFindings EXCEPT
                                   ![c.id] = Surfaced(ListAfter(c, list[c.id]))]
  <1> DEFINE c == call[w]
             h == HashAfter(c, hash[c.id])
             l == ListAfter(c, list[c.id])
  <1>1. c \in Calls /\ c.id \in Ids /\ c.id \in created /\ Open(c.id)
    BY CommitOpen, CallHasId
  <1>2. /\ hash' = [hash EXCEPT ![c.id] = h]
        /\ list' = [list EXCEPT ![c.id] = l]
        /\ created' = created
    BY DEF Commit
  <1>3. Present(c.id)
    BY <1>1 DEF Open, Present, NoHash, Unfinished
  <1>4. h # NoHash
    BY <1>1, <1>3, MutationKeeps DEF Open, IInv, TypeOK, KeysTogether
  <1> HIDE DEF h, l
  <1>5. MappedStatus[c.id] \in Unfinished
    BY <1>1, <1>3 DEF MappedStatus, Open
  <1>6. MappedStatus' = [MappedStatus EXCEPT ![c.id] = h.status]
    BY <1>1, <1>2, <1>4 DEF MappedStatus, Present, IInv, TypeOK
  <1>7. MappedReason' = [MappedReason EXCEPT ![c.id] = h.error]
    BY <1>1, <1>2 DEF MappedReason, IInv, TypeOK
  <1>8. MappedFindings' = [MappedFindings EXCEPT ![c.id] = Surfaced(l)]
    BY <1>1, <1>2 DEF MappedFindings, IInv, TypeOK
  <1> QED
    BY <1>5, <1>6, <1>7, <1>8 DEF h, l

LEMMA RefineStep ==
    IInv /\ KeysTogether /\ [Next]_vars => [Record!Next]_(Record!recordVars)
  <1> SUFFICES ASSUME IInv, KeysTogether, [Next]_vars
               PROVE  [Record!Next]_(Record!recordVars)
    OBVIOUS
  <1> DEFINE Stutter == UNCHANGED <<MappedStatus, MappedFindings, MappedReason>>
  <1>1. ASSUME NEW i \in Ids, Create(i) PROVE Record!Create(i)
    BY <1>1, RefineCreate
       DEF Record!Create, MappedStatus, MappedFindings, MappedReason
  <1>2. ASSUME NEW i \in Ids, Expire(i) PROVE Record!Lapse(i)
    BY <1>2, RefineExpire
       DEF Record!Lapse, MappedStatus, MappedFindings, MappedReason, Statuses,
           Unfinished, TERMINAL_STATUSES, Record!Unfinished, Record!Terminal
  <1>3. ASSUME NEW w \in Writers, Commit(w) PROVE Record!Next
    <2> DEFINE c == call[w]
    <2>1. c \in Calls /\ c.id \in Ids /\ Open(c.id)
      BY <1>3, CommitOpen, CallHasId
    <2>0. PICK id \in Ids : id = c.id
      BY <2>1
    <2>2. /\ hash[c.id] \in Hashes /\ list[c.id] \in Seq(Findings \cup {Sentinel})
          /\ Len(list[c.id]) >= 1
      BY <2>1 DEF IInv, TypeOK, KeysTogether, Present, Open, NoHash, Unfinished
    <2>3. /\ MappedStatus[c.id] \in Unfinished
          /\ MappedStatus' = [MappedStatus EXCEPT
                                ![c.id] = HashAfter(c, hash[c.id]).status]
          /\ MappedReason' = [MappedReason EXCEPT
                                ![c.id] = HashAfter(c, hash[c.id]).error]
          /\ MappedFindings' = [MappedFindings EXCEPT
                                  ![c.id] = Surfaced(ListAfter(c, list[c.id]))]
      BY <1>3, RefineCommit
    <2>4. /\ MappedStatus \in [Ids -> {hash[i].status : i \in Ids} \cup {"expired", "none"}]
          /\ MappedStatus[c.id] = hash[c.id].status
          /\ MappedReason \in [Ids -> {hash[i].error : i \in Ids}]
          /\ MappedReason[c.id] = hash[c.id].error
          /\ MappedFindings \in [Ids -> {Surfaced(list[i]) : i \in Ids}]
          /\ MappedFindings[c.id] = Surfaced(list[c.id])
      BY <2>1 DEF MappedStatus, MappedReason, MappedFindings, Present, Open,
                  NoHash, Unfinished
    <2>5. CASE c.op = "markScanning"
      <3>1. /\ HashAfter(c, hash[c.id]).status = "Scanning"
            /\ HashAfter(c, hash[c.id]).error = hash[c.id].error
            /\ ListAfter(c, list[c.id]) = list[c.id]
        BY <2>2, <2>5 DEF HashAfter, ListAfter, Hashes
      <3>2. /\ MappedStatus' = [MappedStatus EXCEPT ![c.id] = "Scanning"]
            /\ UNCHANGED <<MappedFindings, MappedReason>>
        BY <2>3, <2>4, <3>1
      <3>3. Record!MarkScanning(id)
        BY <2>0, <2>3, <3>2 DEF Record!MarkScanning, Record!Unfinished, Unfinished,
                          MappedStatus, MappedFindings, MappedReason
      <3> QED
        BY <3>3 DEF Record!Next
    <2>6. CASE c.op = "appendVulnerability"
      <3>0. PICK v \in Findings : v = c.finding
        BY <2>1, <2>6 DEF Calls
      <3>1. /\ HashAfter(c, hash[c.id]).status = hash[c.id].status
            /\ HashAfter(c, hash[c.id]).error = hash[c.id].error
            /\ ListAfter(c, list[c.id]) = Append(list[c.id], c.finding)
        BY <2>2, <2>6 DEF HashAfter, ListAfter, Hashes
      <3>2. Surfaced(Append(list[c.id], c.finding))
               = Append(Surfaced(list[c.id]), c.finding)
        BY <2>2, <3>0, SurfacedAppend
      <3>3. /\ MappedFindings' = [MappedFindings EXCEPT
                                    ![c.id] = Append(MappedFindings[c.id], c.finding)]
            /\ UNCHANGED <<MappedStatus, MappedReason>>
        BY <2>3, <2>4, <3>1, <3>2
      <3>4. Record!AppendVulnerability(id, v)
        BY <2>0, <3>0, <2>3, <3>3 DEF Record!AppendVulnerability, Record!Unfinished,
                          Unfinished, MappedStatus, MappedFindings, MappedReason
      <3> QED
        BY <3>4 DEF Record!Next
    <2>7. CASE c.op = "markFinished"
      <3>1. /\ HashAfter(c, hash[c.id]).status = "Finished"
            /\ HashAfter(c, hash[c.id]).error = hash[c.id].error
            /\ ListAfter(c, list[c.id]) = list[c.id]
        BY <2>2, <2>7 DEF HashAfter, ListAfter, Hashes
      <3>2. /\ MappedStatus' = [MappedStatus EXCEPT ![c.id] = "Finished"]
            /\ UNCHANGED <<MappedFindings, MappedReason>>
        BY <2>3, <2>4, <3>1
      <3>3. Record!MarkFinished(id)
        BY <2>0, <2>3, <3>2 DEF Record!MarkFinished, Record!Unfinished, Unfinished,
                          MappedStatus, MappedFindings, MappedReason
      <3> QED
        BY <3>3 DEF Record!Next
    <2>8. CASE c.op = "markFailed"
      <3>0. PICK r \in Reasons : r = c.reason
        BY <2>1, <2>8 DEF Calls
      <3>1. /\ HashAfter(c, hash[c.id]).status = "Failed"
            /\ HashAfter(c, hash[c.id]).error = c.reason
            /\ ListAfter(c, list[c.id]) = list[c.id]
        BY <2>2, <2>8 DEF HashAfter, ListAfter, Hashes
      <3>2. /\ MappedStatus' = [MappedStatus EXCEPT ![c.id] = "Failed"]
            /\ MappedReason' = [MappedReason EXCEPT ![c.id] = c.reason]
            /\ UNCHANGED MappedFindings
        BY <2>3, <2>4, <3>1
      <3>3. Record!MarkFailed(id, r)
        BY <2>0, <3>0, <2>3, <3>2 DEF Record!MarkFailed, Record!Unfinished, Unfinished,
                          MappedStatus, MappedFindings, MappedReason
      <3> QED
        BY <3>3 DEF Record!Next
    <2> QED
      BY <2>1, <2>5, <2>6, <2>7, <2>8 DEF Calls
  <1>4. CASE UNCHANGED <<created, hash, list>>
    BY <1>4, RefineStutter
       DEF Record!recordVars, MappedStatus, MappedFindings, MappedReason
  <1> QED
    BY <1>1, <1>2, <1>3, <1>4, KeyWrites DEF Record!Next

\* The Redis commands implement the record of the port: every step of any
\* interleaving is one atomic, guarded transition of the record, or none.
THEOREM RepositoryImplementsRecord ==
    ASSUME Stable PROVE Spec => ImplementsRecord
  BY RefineInit, RefineStep, InvAlways, KeysStayTogether, PTL
     DEF Spec, ImplementsRecord, Record!Spec

-----------------------------------------------------------------------------
(* How long a call can be. *)

\* The commands of one transaction that are still to come.
CommandsOf == [idle |-> 0, watch |-> 3, hget |-> 2, unwatch |-> 1, exec |-> 1]

\* The commands a call may still send: a whole transaction for every attempt it
\* has not lost yet, and the rest of this one.
CommandsLeft(w) ==
    IF pc[w] = "idle" THEN 0
    ELSE 3 * (MaxAttempts - attempts[w] - 1) + CommandsOf[pc[w]]

LEMMA AttemptsTyped ==
    ASSUME TypeOK, NEW w \in Writers, pc[w] # "idle"
    PROVE  /\ MaxAttempts \in Nat /\ attempts[w] \in Nat
           /\ attempts[w] + 1 <= MaxAttempts
  BY ConstantsAssumption DEF TypeOK

LEMMA StepShortens ==
    ASSUME TypeOK, NEW w \in Writers, Step(w)
    PROVE  CommandsLeft(w)' < CommandsLeft(w)
<1>1. pc[w] # "idle"
  BY DEF Step, Watch, Hget, Unwatch, Commit, Conflict
<1>2. /\ MaxAttempts \in Nat /\ attempts[w] \in Nat
      /\ attempts[w] + 1 <= MaxAttempts
  BY <1>1, AttemptsTyped
<1>3. /\ pc \in [Writers -> {"idle", "watch", "hget", "unwatch", "exec"}]
      /\ attempts \in [Writers -> 0 .. MaxAttempts]
  BY DEF TypeOK
<1>4. CASE Watch(w)
  BY <1>2, <1>3, <1>4 DEF Watch, CommandsLeft, CommandsOf
<1>5. CASE Hget(w)
  BY <1>2, <1>3, <1>5 DEF Hget, CommandsLeft, CommandsOf
<1>6. CASE Unwatch(w)
  BY <1>2, <1>3, <1>6 DEF Unwatch, CommandsLeft, CommandsOf
<1>7. CASE Commit(w)
  BY <1>2, <1>3, <1>7 DEF Commit, CommandsLeft, CommandsOf
<1>8. CASE Conflict(w)
  BY <1>2, <1>3, <1>8 DEF Conflict, CommandsLeft, CommandsOf
<1> QED
  BY <1>4, <1>5, <1>6, <1>7, <1>8 DEF Step

LEMMA OthersKeepCall ==
    ASSUME TypeOK, Next, NEW w \in Writers, ~Step(w), pc[w] # "idle"
    PROVE  CommandsLeft(w)' = CommandsLeft(w)
<1> SUFFICES pc'[w] = pc[w] /\ attempts'[w] = attempts[w]
  BY DEF CommandsLeft
<1>1. ASSUME NEW v \in Writers, Step(v)
      PROVE  pc'[w] = pc[w] /\ attempts'[w] = attempts[w]
  BY <1>1 DEF Step, Watch, Hget, Unwatch, Commit, Conflict, TypeOK
<1>2. ASSUME NEW v \in Writers, NEW c \in Calls, Call(v, c)
      PROVE  pc'[w] = pc[w] /\ attempts'[w] = attempts[w]
  BY <1>2 DEF Call, TypeOK
<1>3. CASE UNCHANGED writerVars
  BY <1>3 DEF writerVars
<1> QED
  BY <1>1, <1>2, <1>3 DEF Next, Create, Expire, Reconnect, Hgetall, Lrange

\* The core of CallSettles: whatever other connections write, drop or let
\* lapse, only the call's own commands use up its budget, each of them does,
\* and the budget is three commands for each of MaxAttempts transactions.
THEOREM CallIsBounded ==
    Spec => [][\A w \in Writers :
                  /\ CommandsLeft(w) \in 0 .. 3 * MaxAttempts
                  /\ Step(w) => CommandsLeft(w)' < CommandsLeft(w)
                  /\ ~Step(w) /\ pc[w] # "idle" => CommandsLeft(w)' = CommandsLeft(w)]_vars
<1>1. TypeOK /\ [Next]_vars
      => [\A w \in Writers :
            /\ CommandsLeft(w) \in 0 .. 3 * MaxAttempts
            /\ Step(w) => CommandsLeft(w)' < CommandsLeft(w)
            /\ ~Step(w) /\ pc[w] # "idle" => CommandsLeft(w)' = CommandsLeft(w)]_vars
  <2> SUFFICES ASSUME TypeOK, Next, NEW w \in Writers
               PROVE  /\ CommandsLeft(w) \in 0 .. 3 * MaxAttempts
                      /\ Step(w) => CommandsLeft(w)' < CommandsLeft(w)
                      /\ ~Step(w) /\ pc[w] # "idle" => CommandsLeft(w)' = CommandsLeft(w)
    OBVIOUS
  <2>1. CommandsLeft(w) \in 0 .. 3 * MaxAttempts
    <3>1. CommandsOf[pc[w]] \in 0 .. 3
      BY DEF TypeOK, CommandsOf
    <3> QED
      BY <3>1, AttemptsTyped, ConstantsAssumption DEF CommandsLeft
  <2> QED
    BY <2>1, StepShortens, OthersKeepCall
<1> QED
  BY <1>1, TypeCorrect, PTL DEF Spec

=============================================================================
