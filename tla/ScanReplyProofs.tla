-------------------------- MODULE ScanReplyProofs --------------------------
(***************************************************************************)
(* What get answers, for any number of readers and writers: its two        *)
(* commands may straddle writes, yet a scan that has ended is answered     *)
(* whole, and a client that polls never sees a scan go back.               *)
(***************************************************************************)
EXTENDS ScanRepositoryProofs

\* One status comes after another on the way to an end, or is the same.
Reaches(earlier, later) == earlier = later \/ Rank(earlier) < Rank(later)

\* A status that was read is not ahead of the record, until that lapses.
Behind(id, st) ==
    /\ id \in created
    /\ st \in Statuses
    /\ Present(id) => Reaches(st, hash[id].status)

SealedHeld ==
    \A id \in Ids :
        hash[id].status \in TERMINAL_STATUSES => sealed[id] = Surfaced(list[id])

\* What a reader holds between its two commands, and what it got last.
SnapshotBehind(r) ==
    snapshot[r].hash # NoHash => Behind(snapshot[r].id, snapshot[r].hash.status)

ReplyBehind(r) ==
    reply[r].scan = "scan"
    => /\ Behind(reply[r].id, reply[r].status)
       /\ reply[r].findings \in Seq(Findings \cup {Sentinel})
       /\ Present(reply[r].id)
          => /\ IsPrefix(reply[r].findings, Surfaced(list[reply[r].id]))
             /\ reply[r].status \in TERMINAL_STATUSES
                => reply[r].findings = Surfaced(list[reply[r].id])
             /\ snapshot[r].hash # NoHash /\ snapshot[r].id = reply[r].id
                => Reaches(reply[r].status, snapshot[r].hash.status)

ReadersHeld ==
    /\ reply = [r \in Readers |-> reply[r]]
    /\ \A r \in Readers : SnapshotBehind(r) /\ ReplyBehind(r)

-----------------------------------------------------------------------------
(* Orders. *)

LEMMA ReachesOn ==
    ASSUME NEW a \in Statuses, NEW b \in Statuses, NEW c \in Statuses,
           Reaches(a, b), Reaches(b, c)
    PROVE  Reaches(a, c)
<1>1. Rank(a) \in 0 .. 2 /\ Rank(b) \in 0 .. 2 /\ Rank(c) \in 0 .. 2
  BY DEF Rank
<1> QED
  BY <1>1 DEF Reaches

\* Nothing comes after an end.
LEMMA EndsReachNothing ==
    ASSUME NEW a \in TERMINAL_STATUSES, NEW b \in Statuses, Reaches(a, b)
    PROVE  b = a
BY DEF Reaches, Rank, TERMINAL_STATUSES, Statuses, Unfinished

LEMMA PrefixOfItself ==
    ASSUME NEW S, NEW s \in Seq(S)
    PROVE  IsPrefix(s, s)
BY DEF IsPrefix

LEMMA PrefixByElements ==
    ASSUME NEW S, NEW s \in Seq(S), NEW t \in Seq(S)
    PROVE  IsPrefix(s, t) <=> Len(s) <= Len(t) /\ \A i \in 1 .. Len(s) : s[i] = t[i]
<1>1. Len(s) \in Nat /\ Len(t) \in Nat
  OBVIOUS
<1>2. CASE ~(Len(s) <= Len(t))
  BY <1>2 DEF IsPrefix
<1>3. CASE Len(s) <= Len(t)
  <2> DEFINE a == SubSeq(s, 1, Len(s))
             b == SubSeq(t, 1, Len(s))
  <2>1. /\ a \in Seq(S) /\ Len(a) = Len(s)
        /\ \A i \in 1 .. Len(s) : a[i] = s[i]
    BY <1>1
  <2>2. /\ b \in Seq(S) /\ Len(b) = Len(s)
        /\ \A i \in 1 .. Len(s) : b[i] = t[i]
    BY <1>1, <1>3
  <2> HIDE DEF a, b
  <2>3. a = b <=> \A i \in 1 .. Len(s) : a[i] = b[i]
    BY <2>1, <2>2
  <2>4. IsPrefix(s, t) <=> a = b
    BY <1>3 DEF IsPrefix, a, b
  <2> QED
    BY <1>3, <2>1, <2>2, <2>3, <2>4
<1> QED
  BY <1>2, <1>3

LEMMA PrefixOn ==
    ASSUME NEW S, NEW s \in Seq(S), NEW t \in Seq(S), NEW u \in Seq(S),
           IsPrefix(s, t), IsPrefix(t, u)
    PROVE  IsPrefix(s, u)
<1>1. /\ Len(s) <= Len(t) /\ \A i \in 1 .. Len(s) : s[i] = t[i]
      /\ Len(t) <= Len(u) /\ \A i \in 1 .. Len(t) : t[i] = u[i]
      /\ Len(s) \in Nat /\ Len(t) \in Nat /\ Len(u) \in Nat
  BY PrefixByElements
<1>2. Len(s) <= Len(u) /\ \A i \in 1 .. Len(s) : s[i] = u[i]
  BY <1>1
<1> QED
  BY <1>2, PrefixByElements

LEMMA PrefixOfAppend ==
    ASSUME NEW S, NEW s \in Seq(S), NEW v \in S
    PROVE  IsPrefix(s, Append(s, v))
<1>1. Append(s, v) \in Seq(S) /\ Len(s) <= Len(Append(s, v))
  OBVIOUS
<1>2. \A i \in 1 .. Len(s) : s[i] = Append(s, v)[i]
  OBVIOUS
<1> QED
  BY <1>1, <1>2, PrefixByElements

-----------------------------------------------------------------------------
(* How a record moves under a reader. *)

LEMMA RecordMoves ==
    ASSUME IInv, KeysTogether, [Next]_vars, NEW id \in created, hash'[id] # NoHash
    PROVE  /\ Present(id)
           /\ id \in created'
           /\ Reaches(hash[id].status, hash'[id].status)
           /\ IsPrefix(Surfaced(list[id]), Surfaced(list'[id]))
           /\ hash[id].status \in TERMINAL_STATUSES => list'[id] = list[id]
<1> id \in Ids
  BY DEF IInv, TypeOK
<1>1. list[id] \in Seq(Findings \cup {Sentinel})
  BY DEF IInv, TypeOK
<1>2. Surfaced(list[id]) \in Seq(Findings \cup {Sentinel})
  BY <1>1, SurfacedType
<1>3. CASE hash'[id] = hash[id] /\ list'[id] = list[id] /\ created \subseteq created'
  BY <1>2, <1>3, PrefixOfItself DEF Reaches, Present
<1>4. ASSUME NEW i \in Ids, Create(i) \/ Expire(i)
      PROVE  hash'[id] = hash[id] /\ list'[id] = list[id] /\ created \subseteq created'
  BY <1>4 DEF Create, Expire, IInv, TypeOK
<1>5. ASSUME NEW w \in Writers, Commit(w), call[w].id # id
      PROVE  hash'[id] = hash[id] /\ list'[id] = list[id] /\ created \subseteq created'
  BY <1>5, CommitOpen, CallHasId DEF Commit, IInv, TypeOK
<1>6. ASSUME NEW w \in Writers, Commit(w), call[w].id = id
      PROVE  /\ Present(id)
             /\ created' = created
             /\ Reaches(hash[id].status, hash'[id].status)
             /\ IsPrefix(Surfaced(list[id]), Surfaced(list'[id]))
             /\ hash[id].status \notin TERMINAL_STATUSES
  <2>1. call[w] \in Calls /\ Open(id)
    BY <1>6, CommitOpen
  <2>2. PICK c \in Calls : c = call[w]
    BY <2>1
  <2>3. /\ hash'[id] = HashAfter(c, hash[id])
        /\ list'[id] = ListAfter(c, list[id])
        /\ created' = created
    BY <1>6, <2>2 DEF Commit, IInv, TypeOK
  <2>4. hash[id] \in Hashes /\ hash[id].status \in Unfinished
    BY <2>1 DEF Open, IInv, TypeOK
  <2>5. Present(id) /\ Len(list[id]) >= 1
    BY <2>4 DEF Present, NoHash, Unfinished, KeysTogether
  <2>6. CASE c.op = "appendVulnerability"
    <3>1. c.finding \in Findings
      BY <2>6 DEF Calls
    <3>2. list'[id] = Append(list[id], c.finding)
      BY <2>3, <2>6 DEF ListAfter
    <3>3. Surfaced(list'[id]) = Append(Surfaced(list[id]), c.finding)
      BY <1>1, <2>5, <3>1, <3>2, SurfacedAppend
    <3>4. IsPrefix(Surfaced(list[id]), Surfaced(list'[id]))
      BY <1>2, <3>1, <3>3, PrefixOfAppend
    <3>5. hash'[id].status = hash[id].status
      BY <2>3, <2>4, <2>6 DEF HashAfter, Hashes
    <3> QED
      BY <2>3, <2>4, <2>5, <3>4, <3>5 DEF Reaches, Unfinished, TERMINAL_STATUSES
  <2>7. CASE c.op # "appendVulnerability"
    <3>1. list'[id] = list[id]
      BY <2>3, <2>7 DEF ListAfter
    <3>2. c.op \in {"markScanning", "markFinished", "markFailed"}
      BY <2>7 DEF Calls
    <3>3. hash'[id].status \in {"Scanning", "Finished", "Failed"}
      BY <2>3, <2>4, <3>2 DEF HashAfter, Hashes
    <3>4. Reaches(hash[id].status, hash'[id].status)
      BY <2>4, <3>3 DEF Reaches, Rank, Unfinished
    <3> QED
      BY <1>2, <2>3, <2>4, <2>5, <3>1, <3>4, PrefixOfItself
         DEF Unfinished, TERMINAL_STATUSES
  <2> QED
    BY <2>6, <2>7
<1>7. CASE UNCHANGED <<created, hash, list>>
  BY <1>3, <1>7
<1> QED
  BY <1>3, <1>4, <1>5, <1>6, <1>7, KeyWrites

\* A record that is gone stays gone, and a reader keeps what it has read.
LEMMA BehindOn ==
    ASSUME IInv, KeysTogether, [Next]_vars, TypeOK', KeysTogether', NEW id, NEW st,
           Behind(id, st)
    PROVE  Behind(id, st)'
<1>1. id \in created /\ id \in Ids /\ st \in Statuses
  BY DEF Behind, IInv, TypeOK
<1>2. id \in created'
  <2>1. created \subseteq created'
    BY KeyWrites DEF Create, Expire, Commit
  <2> QED
    BY <1>1, <2>1
<1>3. ASSUME Present(id)'
      PROVE  Reaches(st, hash'[id].status)
  <2>1. Present(id) /\ Reaches(hash[id].status, hash'[id].status)
    BY <1>1, <1>3, RecordMoves DEF Present
  <2>2. Reaches(st, hash[id].status)
    BY <2>1 DEF Behind
  <2>3. hash[id].status \in Statuses /\ hash'[id].status \in Statuses
    <3>1. hash[id].status # "none" /\ hash'[id].status # "none"
      BY <1>1, <1>3, <2>1 DEF KeysTogether
    <3> QED
      BY <1>1, <3>1 DEF IInv, TypeOK, Hashes
  <2> QED
    BY <1>1, <2>1, <2>2, <2>3, ReachesOn
<1> QED
  BY <1>1, <1>2, <1>3 DEF Behind

LEMMA SealedStep == IInv /\ KeysTogether /\ SealedHeld /\ [Next]_vars => SealedHeld'
<1> SUFFICES ASSUME IInv, KeysTogether, SealedHeld, [Next]_vars, NEW id \in Ids,
                    hash'[id].status \in TERMINAL_STATUSES
             PROVE  sealed'[id] = Surfaced(list'[id])
  BY DEF SealedHeld
<1>1. ASSUME NEW i \in Ids, Create(i)
      PROVE  sealed'[id] = Surfaced(list'[id])
  <2>1. i # id
    BY <1>1 DEF Create, QueuedHash, TERMINAL_STATUSES, IInv, TypeOK
  <2> QED
    BY <1>1, <2>1 DEF Create, SealedHeld, IInv, TypeOK
<1>2. ASSUME NEW i \in Ids, Expire(i)
      PROVE  sealed'[id] = Surfaced(list'[id])
  <2>1. i # id
    BY <1>2 DEF Expire, NoHash, TERMINAL_STATUSES, IInv, TypeOK
  <2> QED
    BY <1>2, <2>1 DEF Expire, SealedHeld, IInv, TypeOK
<1>3. ASSUME NEW w \in Writers, Commit(w)
      PROVE  sealed'[id] = Surfaced(list'[id])
  <2>1. call[w] \in Calls /\ call[w].id \in Ids /\ Open(call[w].id)
    BY <1>3, CommitOpen, CallHasId
  <2>2. PICK c \in Calls : c = call[w]
    BY <2>1
  <2>3. CASE c.id # id
    BY <1>3, <2>1, <2>2, <2>3 DEF Commit, SealedHeld, IInv, TypeOK
  <2>4. CASE c.id = id
    <3>1. /\ hash'[id] = HashAfter(c, hash[id])
          /\ list'[id] = ListAfter(c, list[id])
          /\ hash[id] \in Hashes /\ hash[id].status \in Unfinished
      BY <1>3, <2>1, <2>2, <2>4 DEF Commit, Open, IInv, TypeOK
    <3>2. c.op \in {"markFinished", "markFailed"}
      <4>1. c.op \in {"markScanning", "appendVulnerability", "markFinished", "markFailed"}
        BY DEF Calls
      <4>2. c.op = "markScanning" => hash'[id].status = "Scanning"
        BY <3>1 DEF HashAfter, Hashes
      <4>3. c.op = "appendVulnerability" => hash'[id].status = hash[id].status
        BY <3>1 DEF HashAfter, Hashes
      <4> QED
        BY <3>1, <4>1, <4>2, <4>3 DEF TERMINAL_STATUSES, Unfinished
    <3>3. sealed' = [sealed EXCEPT ![id] = Surfaced(list[id])]
      BY <1>3, <2>1, <2>2, <2>4, <3>2 DEF Commit
    <3>4. list'[id] = list[id]
      BY <3>1, <3>2 DEF ListAfter
    <3> QED
      BY <3>3, <3>4 DEF IInv, TypeOK
  <2> QED
    BY <2>3, <2>4
<1>4. CASE UNCHANGED <<hash, list, sealed>>
  BY <1>4 DEF SealedHeld
<1>5. \/ \E i \in Ids : Create(i) \/ Expire(i)
      \/ \E w \in Writers : Commit(w)
      \/ UNCHANGED <<hash, list, sealed>>
  BY DEF Next, Step, vars, redisVars, Call, Watch, Hget, Unwatch, Conflict, Reconnect,
         Hgetall, Lrange
<1> QED
  BY <1>1, <1>2, <1>3, <1>4, <1>5

\* A reader that does nothing keeps what it holds and what it got.
LEMMA ReaderKeeps ==
    ASSUME IInv, KeysTogether, ReadersHeld, [Next]_vars, TypeOK', KeysTogether',
           NEW r \in Readers, snapshot'[r] = snapshot[r], reply'[r] = reply[r]
    PROVE  SnapshotBehind(r)' /\ ReplyBehind(r)'
<1>1. SnapshotBehind(r)'
  <2> SUFFICES ASSUME snapshot[r].hash # NoHash
               PROVE  Behind(snapshot[r].id, snapshot[r].hash.status)'
    BY DEF SnapshotBehind
  <2>1. PICK id, st : id = snapshot[r].id /\ st = snapshot[r].hash.status
    OBVIOUS
  <2>2. Behind(id, st)
    BY <2>1 DEF ReadersHeld, SnapshotBehind
  <2>3. Behind(id, st)'
    BY <2>2, BehindOn
  <2> QED
    BY <2>1, <2>3 DEF Behind
<1>2. ASSUME reply[r].scan = "scan"
      PROVE  ReplyBehind(r)'
  <2>1. PICK id, st, fs :
           id = reply[r].id /\ st = reply[r].status /\ fs = reply[r].findings
    OBVIOUS
  <2>2. Behind(id, st) /\ fs \in Seq(Findings \cup {Sentinel})
    BY <1>2, <2>1 DEF ReadersHeld, ReplyBehind
  <2>3. Behind(id, st)'
    BY <2>2, BehindOn
  <2>4. ASSUME Present(id)'
        PROVE  /\ IsPrefix(fs, Surfaced(list'[id]))
               /\ st \in TERMINAL_STATUSES => fs = Surfaced(list'[id])
               /\ snapshot[r].hash # NoHash /\ snapshot[r].id = id
                  => Reaches(st, snapshot[r].hash.status)
    <3>1. id \in created /\ id \in Ids
      BY <2>2 DEF Behind, IInv, TypeOK
    <3>2. /\ Present(id)
          /\ IsPrefix(Surfaced(list[id]), Surfaced(list'[id]))
          /\ hash[id].status \in TERMINAL_STATUSES => list'[id] = list[id]
      BY <2>4, <3>1, RecordMoves DEF Present
    <3>3. /\ IsPrefix(fs, Surfaced(list[id]))
          /\ st \in TERMINAL_STATUSES => fs = Surfaced(list[id])
          /\ snapshot[r].hash # NoHash /\ snapshot[r].id = id
             => Reaches(st, snapshot[r].hash.status)
      BY <1>2, <2>1, <3>2 DEF ReadersHeld, ReplyBehind
    <3>4. /\ Surfaced(list[id]) \in Seq(Findings \cup {Sentinel})
          /\ Surfaced(list'[id]) \in Seq(Findings \cup {Sentinel})
      BY <3>1, SurfacedType DEF IInv, TypeOK
    <3>5. IsPrefix(fs, Surfaced(list'[id]))
      BY <2>2, <3>2, <3>3, <3>4, PrefixOn
    <3>6. ASSUME st \in TERMINAL_STATUSES
          PROVE  fs = Surfaced(list'[id])
      <4>1. hash[id].status \in Statuses
        <5>1. hash[id].status # "none"
          BY <3>1, <3>2 DEF KeysTogether
        <5> QED
          BY <3>1, <5>1 DEF IInv, TypeOK, Hashes
      <4>2. Reaches(st, hash[id].status)
        BY <2>2, <3>2 DEF Behind
      <4>3. hash[id].status \in TERMINAL_STATUSES
        BY <3>6, <4>1, <4>2, EndsReachNothing
      <4> QED
        BY <3>2, <3>3, <3>6, <4>3
    <3> QED
      BY <3>3, <3>5, <3>6
  <2> QED
    BY <2>1, <2>2, <2>3, <2>4 DEF ReplyBehind, Behind
<1>3. CASE reply[r].scan # "scan"
  BY <1>1, <1>3 DEF ReplyBehind
<1> QED
  BY <1>1, <1>2, <1>3

\* The two commands of get.
LEMMA HgetallHolds ==
    ASSUME IInv, KeysTogether, ReadersHeld, NEW r \in Readers, NEW id \in Ids, Hgetall(r, id)
    PROVE  SnapshotBehind(r)' /\ ReplyBehind(r)'
<1>1. UNCHANGED <<created, hash, list>>
  BY DEF Hgetall, redisVars
<1>2. snapshot[r].hash = NoHash
  BY DEF Hgetall
<1>3. CASE ~Present(id)
  <2>1. snapshot' = snapshot /\ reply' = [reply EXCEPT ![r] = NullReply(id)]
    BY <1>3 DEF Hgetall
  <2>2. reply'[r].scan = "null"
    BY <2>1 DEF ReadersHeld, NullReply
  <2> QED
    BY <1>2, <2>1, <2>2 DEF SnapshotBehind, ReplyBehind
<1>4. CASE Present(id)
  <2> DEFINE s == [id |-> id, hash |-> hash[id]]
  <2>1. snapshot' = [snapshot EXCEPT ![r] = s] /\ reply' = reply
    BY <1>4 DEF Hgetall
  <2>2. snapshot'[r].id = id /\ snapshot'[r].hash = hash[id]
    BY <2>1 DEF IInv, TypeOK
  <2>3. hash[id].status \in Statuses
    <3>1. hash[id].status # "none"
      BY <1>4 DEF KeysTogether
    <3> QED
      BY <3>1 DEF IInv, TypeOK, Hashes
  <2>4. id \in created
    BY <1>4 DEF Present, IInv, CalledAfterCreate
  <2>5. Reaches(hash[id].status, hash[id].status)
    BY DEF Reaches
  <2>6. SnapshotBehind(r)'
    BY <1>1, <2>2, <2>3, <2>4, <2>5 DEF SnapshotBehind, Behind, Present
  <2>7. ASSUME reply[r].scan = "scan", Present(reply[r].id), reply[r].id = id
        PROVE  Reaches(reply[r].status, hash[id].status)
    BY <2>7 DEF ReadersHeld, ReplyBehind, Behind
  <2>8. ReplyBehind(r)
    BY DEF ReadersHeld
  <2>9. ReplyBehind(r)'
    BY <1>1, <2>1, <2>2, <2>7, <2>8 DEF ReplyBehind, Behind, Present
  <2> QED
    BY <2>6, <2>9
<1> QED
  BY <1>3, <1>4

LEMMA LrangeHolds ==
    ASSUME IInv, KeysTogether, ReadersHeld, NEW r \in Readers, Lrange(r)
    PROVE  SnapshotBehind(r)' /\ ReplyBehind(r)'
<1>1. UNCHANGED <<created, hash, list>>
  BY DEF Lrange, redisVars
<1>2. PICK id, h : id = snapshot[r].id /\ h = snapshot[r].hash
  OBVIOUS
<1>3. h # NoHash /\ Behind(id, h.status)
  BY <1>2 DEF Lrange, ReadersHeld, SnapshotBehind
<1>4. id \in Ids /\ h.status \in Statuses
  BY <1>3 DEF Behind, IInv, TypeOK
<1>5. snapshot'[r].hash = NoHash
  <2> DEFINE s == [id |-> "none", hash |-> NoHash]
  <2>1. snapshot' = [snapshot EXCEPT ![r] = s]
    BY DEF Lrange
  <2>2. snapshot'[r] = s
    BY <2>1 DEF IInv, TypeOK
  <2> QED
    BY <2>2
<1>6. reply'[r] = Reply(id, h, list[id])
  BY <1>2 DEF Lrange, ReadersHeld
<1>7. Surfaced(list[id]) \in Seq(Findings \cup {Sentinel})
  BY <1>4, SurfacedType DEF IInv, TypeOK
<1>8. ASSUME reply'[r].scan = "scan"
      PROVE  /\ reply'[r].id = id /\ reply'[r].status = h.status
             /\ reply'[r].findings = Surfaced(list[id])
  BY <1>6, <1>8 DEF Reply, NullReply
<1>9. IsPrefix(Surfaced(list[id]), Surfaced(list[id]))
  BY <1>7, PrefixOfItself
<1>10. Behind(id, h.status)'
  BY <1>1, <1>3 DEF Behind, Present
<1> QED
  BY <1>1, <1>5, <1>7, <1>8, <1>9, <1>10 DEF SnapshotBehind, ReplyBehind, Behind

LEMMA ReadersStep ==
    IInv /\ KeysTogether /\ ReadersHeld /\ [Next]_vars /\ TypeOK' /\ KeysTogether'
    => ReadersHeld'
<1> SUFFICES ASSUME IInv, KeysTogether, ReadersHeld, [Next]_vars, TypeOK', KeysTogether'
             PROVE  ReadersHeld'
  OBVIOUS
<1>1. CASE UNCHANGED readerVars
  BY <1>1, ReaderKeeps DEF readerVars, ReadersHeld
<1>2. ASSUME NEW q \in Readers, Lrange(q) \/ \E id \in Ids : Hgetall(q, id)
      PROVE  ReadersHeld'
  <2>1. reply' = [r \in Readers |-> reply'[r]]
    <3>1. reply' = reply \/ \E v : reply' = [reply EXCEPT ![q] = v]
      BY <1>2 DEF Lrange, Hgetall
    <3> QED
      BY <3>1 DEF ReadersHeld
  <2>2. ASSUME NEW r \in Readers, r # q
        PROVE  snapshot'[r] = snapshot[r] /\ reply'[r] = reply[r]
    BY <1>2, <2>2 DEF Lrange, Hgetall, ReadersHeld, IInv, TypeOK
  <2>3. SnapshotBehind(q)' /\ ReplyBehind(q)'
    BY <1>2, HgetallHolds, LrangeHolds
  <2> QED
    BY <2>1, <2>2, <2>3, ReaderKeeps DEF ReadersHeld
<1>3. \/ UNCHANGED readerVars
      \/ \E q \in Readers : Lrange(q) \/ \E id \in Ids : Hgetall(q, id)
  BY DEF Next, Step, vars, Create, Expire, Call, Watch, Hget, Unwatch, Commit, Conflict,
         Reconnect
<1> QED
  BY <1>1, <1>2, <1>3

-----------------------------------------------------------------------------
(* The theorems. *)

\* What readers hold and got stays behind the record.
THEOREM ReadersStayBehind == ASSUME Stable PROVE Spec => [](SealedHeld /\ ReadersHeld)
<1>1. Init => SealedHeld /\ ReadersHeld
  <2> SUFFICES ASSUME Init
               PROVE  SealedHeld /\ ReadersHeld
    OBVIOUS
  <2>1. /\ \A id \in Ids : hash[id].status \notin TERMINAL_STATUSES
        /\ \A r \in Readers : snapshot[r].hash = NoHash
        /\ \A r \in Readers : reply[r].scan = "none"
        /\ reply = [r \in Readers |-> reply[r]]
    BY DEF Init, NoHash, NoReply, TERMINAL_STATUSES
  <2> QED
    BY <2>1 DEF SealedHeld, ReadersHeld, SnapshotBehind, ReplyBehind
<1>2. /\ IInv /\ KeysTogether /\ SealedHeld /\ ReadersHeld /\ [Next]_vars
      /\ IInv' /\ KeysTogether'
      => (SealedHeld /\ ReadersHeld)'
  BY SealedStep, ReadersStep DEF IInv
<1> QED
  BY <1>1, <1>2, InvAlways, KeysStayTogether, PTL DEF Spec

\* RedisScanRepository.get between its HGETALL and its LRANGE: a scan answered
\* as Finished or Failed comes with exactly the findings sealed in by its end.
THEOREM EndIsAnsweredWhole == ASSUME Stable PROVE Spec => []ReplyComplete
<1>1. IInv /\ KeysTogether /\ SealedHeld /\ ReadersHeld => ReplyComplete
  <2> SUFFICES ASSUME IInv, KeysTogether, SealedHeld, ReadersHeld, NEW r \in Readers,
                      reply[r].scan = "scan", reply[r].status \in TERMINAL_STATUSES,
                      Present(reply[r].id)
               PROVE  reply[r].findings = sealed[reply[r].id]
    BY DEF ReplyComplete
  <2>1. PICK id : id = reply[r].id
    OBVIOUS
  <2>2. /\ Behind(id, reply[r].status) /\ Present(id)
        /\ reply[r].findings = Surfaced(list[id])
    BY <2>1 DEF ReadersHeld, ReplyBehind
  <2>3. id \in Ids /\ Reaches(reply[r].status, hash[id].status)
    BY <2>2 DEF Behind, IInv, TypeOK
  <2>4. hash[id].status \in Statuses
    <3>1. hash[id].status # "none"
      BY <2>2, <2>3 DEF KeysTogether
    <3> QED
      BY <2>3, <3>1 DEF IInv, TypeOK, Hashes
  <2>5. hash[id].status \in TERMINAL_STATUSES
    BY <2>3, <2>4, EndsReachNothing
  <2> QED
    BY <2>1, <2>2, <2>3, <2>5 DEF SealedHeld
<1> QED
  BY <1>1, InvAlways, KeysStayTogether, ReadersStayBehind, PTL

\* Two answers one poller gets for a scan, one after the other: the later one
\* has a later status or the same, and lists what the earlier one listed.
THEOREM PollerSeesProgress == ASSUME Stable PROVE Spec => ReplyNeverRegresses
<1>1. ASSUME IInv, KeysTogether, ReadersHeld, IInv', KeysTogether', [Next]_vars,
             NEW r \in Readers,
             reply[r].scan = "scan", reply'[r].scan = "scan",
             reply[r].id = reply'[r].id, hash'[reply'[r].id] # NoHash
      PROVE  /\ reply[r].status = reply'[r].status \/ Rank(reply[r].status) < Rank(reply'[r].status)
             /\ IsPrefix(reply[r].findings, reply'[r].findings)
  <2>1. PICK id : id = reply[r].id
    OBVIOUS
  <2>2. reply[r].findings \in Seq(Findings \cup {Sentinel})
    BY <1>1 DEF ReadersHeld, ReplyBehind
  <2>3. CASE reply'[r] = reply[r]
    BY <2>2, <2>3, PrefixOfItself
  <2>4. CASE Lrange(r)
    <3>1. UNCHANGED <<hash, list>>
      BY <2>4 DEF Lrange, redisVars
    <3>2. Present(id)
      BY <1>1, <2>1, <3>1 DEF Present
    <3>3. reply'[r] = Reply(snapshot[r].id, snapshot[r].hash, list[snapshot[r].id])
      BY <1>1, <2>4 DEF Lrange, ReadersHeld
    <3>4. /\ reply'[r].id = snapshot[r].id
          /\ reply'[r].status = snapshot[r].hash.status
          /\ reply'[r].findings = Surfaced(list[snapshot[r].id])
      BY <1>1, <3>3 DEF Reply, NullReply
    <3>5. snapshot[r].hash # NoHash /\ snapshot[r].id = id
      BY <1>1, <2>1, <2>4, <3>4 DEF Lrange
    <3>6. /\ Reaches(reply[r].status, snapshot[r].hash.status)
          /\ IsPrefix(reply[r].findings, Surfaced(list[id]))
      BY <1>1, <2>1, <3>2, <3>5 DEF ReadersHeld, ReplyBehind
    <3> QED
      BY <3>4, <3>5, <3>6 DEF Reaches
  <2>5. ASSUME ~Lrange(r)
        PROVE  reply'[r] = reply[r]
    <3>1. ASSUME NEW q \in Readers, NEW i \in Ids, Hgetall(q, i)
          PROVE  reply'[r] = reply[r]
      <4>1. CASE q # r
        BY <1>1, <3>1, <4>1 DEF Hgetall, ReadersHeld
      <4>2. CASE q = r /\ Present(i)
        BY <3>1, <4>2 DEF Hgetall
      <4>3. CASE q = r /\ ~Present(i)
        <5>1. reply'[r] = NullReply(i)
          BY <1>1, <3>1, <4>3 DEF Hgetall, ReadersHeld
        <5> QED
          BY <1>1, <5>1 DEF NullReply
      <4> QED
        BY <4>1, <4>2, <4>3
    <3>2. ASSUME NEW q \in Readers, Lrange(q)
          PROVE  reply'[r] = reply[r]
      BY <1>1, <2>5, <3>2 DEF Lrange, ReadersHeld
    <3>3. CASE UNCHANGED reply
      BY <3>3
    <3> QED
      BY <1>1, <3>1, <3>2, <3>3
         DEF Next, Step, vars, readerVars, Create, Expire, Call, Watch, Hget, Unwatch,
             Commit, Conflict, Reconnect
  <2> QED
    BY <2>3, <2>4, <2>5
<1>2. IInv /\ KeysTogether /\ ReadersHeld /\ IInv' /\ KeysTogether' /\ [Next]_vars
      => [\A r \in Readers :
            LET before == reply[r]
                after == reply'[r]
            IN  /\ before.scan = "scan" /\ after.scan = "scan"
                /\ before.id = after.id
                /\ Present(before.id)'
                => /\ \/ before.status = after.status
                      \/ Rank(before.status) < Rank(after.status)
                   /\ IsPrefix(before.findings, after.findings)]_vars
  BY <1>1 DEF Present
<1> QED
  BY <1>2, InvAlways, KeysStayTogether, ReadersStayBehind, PTL DEF Spec, ReplyNeverRegresses

=============================================================================
