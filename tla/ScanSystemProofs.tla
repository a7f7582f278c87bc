-------------------------- MODULE ScanSystemProofs --------------------------
(***************************************************************************)
(* Safety of the pipeline for any number of scans, workers, deaths and     *)
(* stalls, whether or not locks lapse and writes are lost.                 *)
(*                                                                         *)
(* IInv adds to the type invariant what the queue and the record know of   *)
(* each other: a job has a record, a run has a job, a run that resolved    *)
(* closed its record (Linked); and, of a record still open, how far each   *)
(* run has copied its report into the findings (Copied), exactly so while  *)
(* the job was handed out once (Alone).                                    *)
(***************************************************************************)
EXTENDS ScanSystem, TLAPS

-----------------------------------------------------------------------------
(* The wait list as a sequence without repetition. *)

LEMMA AppendElement ==
    ASSUME NEW S, NEW s \in Seq(S), NEW x \in S, IsInjective(s), x \notin ToSet(s)
    PROVE  /\ Append(s, x) \in Seq(S)
           /\ IsInjective(Append(s, x))
           /\ ToSet(Append(s, x)) = ToSet(s) \cup {x}
<1> DEFINE t == Append(s, x)
<1>1. /\ t \in Seq(S)
      /\ Len(t) = Len(s) + 1
      /\ DOMAIN s = 1 .. Len(s)
      /\ DOMAIN t = 1 .. Len(s) + 1
      /\ Len(s) \in Nat
      /\ \A i \in 1 .. Len(s) : t[i] = s[i]
      /\ t[Len(s) + 1] = x
  OBVIOUS
<1> HIDE DEF t
<1>2. \A i \in 1 .. Len(s) : s[i] # x
  BY <1>1 DEF ToSet
<1>3. IsInjective(t)
  BY <1>1, <1>2 DEF IsInjective
<1>4. ToSet(t) = ToSet(s) \cup {x}
  BY <1>1 DEF ToSet
<1> QED
  BY <1>1, <1>3, <1>4 DEF t

LEMMA AppendSet ==
    ASSUME NEW S, NEW s \in Seq(S), NEW x \in S
    PROVE  ToSet(Append(s, x)) = ToSet(s) \cup {x}
<1> DEFINE t == Append(s, x)
<1>1. /\ Len(s) \in Nat
      /\ DOMAIN s = 1 .. Len(s)
      /\ DOMAIN t = 1 .. Len(s) + 1
      /\ \A i \in 1 .. Len(s) : t[i] = s[i]
      /\ t[Len(s) + 1] = x
  OBVIOUS
<1> HIDE DEF t
<1>2. ToSet(t) = ToSet(s) \cup {x}
  BY <1>1 DEF ToSet
<1> QED
  BY <1>2 DEF t

LEMMA PrependElement ==
    ASSUME NEW S, NEW s \in Seq(S), NEW x \in S, IsInjective(s), x \notin ToSet(s)
    PROVE  /\ <<x>> \o s \in Seq(S)
           /\ IsInjective(<<x>> \o s)
           /\ ToSet(<<x>> \o s) = ToSet(s) \cup {x}
<1> DEFINE t == <<x>> \o s
<1>1. /\ t \in Seq(S)
      /\ Len(t) = Len(s) + 1
      /\ DOMAIN s = 1 .. Len(s)
      /\ DOMAIN t = 1 .. Len(s) + 1
      /\ Len(s) \in Nat
      /\ \A i \in 2 .. Len(s) + 1 : t[i] = s[i - 1]
      /\ t[1] = x
  OBVIOUS
<1> HIDE DEF t
<1>2. \A i \in 1 .. Len(s) : s[i] # x
  BY <1>1 DEF ToSet
<1>3. ASSUME NEW i \in DOMAIN t, NEW j \in DOMAIN t, t[i] = t[j]
      PROVE  i = j
  <2>1. CASE i = 1 /\ j # 1
    <3>1. j \in 2 .. Len(s) + 1 /\ j - 1 \in 1 .. Len(s)
      BY <2>1, <1>1
    <3> QED
      BY <3>1, <2>1, <1>1, <1>2, <1>3
  <2>2. CASE i # 1 /\ j = 1
    <3>1. i \in 2 .. Len(s) + 1 /\ i - 1 \in 1 .. Len(s)
      BY <2>2, <1>1
    <3> QED
      BY <3>1, <2>2, <1>1, <1>2, <1>3
  <2>3. CASE i # 1 /\ j # 1
    <3>1. /\ i \in 2 .. Len(s) + 1 /\ i - 1 \in 1 .. Len(s)
          /\ j \in 2 .. Len(s) + 1 /\ j - 1 \in 1 .. Len(s)
      BY <2>3, <1>1
    <3>2. s[i - 1] = s[j - 1]
      BY <3>1, <1>1, <1>3
    <3>3. i - 1 = j - 1
      BY <3>1, <3>2, <1>1 DEF IsInjective
    <3> QED
      BY <3>1, <3>3
  <2> QED
    BY <2>1, <2>2, <2>3
<1>4. ToSet(t) = ToSet(s) \cup {x}
  <2>1. ASSUME NEW y \in ToSet(t)
        PROVE  y \in ToSet(s) \cup {x}
    <3>1. PICK i \in 1 .. Len(s) + 1 : y = t[i]
      BY <1>1, <2>1 DEF ToSet
    <3>2. CASE i = 1
      BY <3>1, <3>2, <1>1
    <3>3. CASE i # 1
      <4>1. i \in 2 .. Len(s) + 1 /\ i - 1 \in DOMAIN s
        BY <3>3, <1>1
      <4> QED
        BY <4>1, <3>1, <1>1 DEF ToSet
    <3> QED
      BY <3>2, <3>3
  <2>2. ASSUME NEW y \in ToSet(s)
        PROVE  y \in ToSet(t)
    <3>1. PICK i \in 1 .. Len(s) : y = s[i]
      BY <1>1, <2>2 DEF ToSet
    <3>2. i + 1 \in 2 .. Len(s) + 1 /\ i + 1 \in DOMAIN t /\ (i + 1) - 1 = i
      BY <1>1
    <3>3. t[i + 1] = y
      BY <3>1, <3>2, <1>1
    <3> QED
      BY <3>2, <3>3 DEF ToSet
  <2>3. x \in ToSet(t)
    BY <1>1 DEF ToSet
  <2> QED
    BY <2>1, <2>2, <2>3
<1> QED
  BY <1>1, <1>3, <1>4 DEF t, IsInjective

LEMMA TailElements ==
    ASSUME NEW S, NEW s \in Seq(S), s # <<>>, IsInjective(s)
    PROVE  /\ Head(s) \in S
           /\ Head(s) \in ToSet(s)
           /\ Tail(s) \in Seq(S)
           /\ IsInjective(Tail(s))
           /\ ToSet(Tail(s)) = ToSet(s) \ {Head(s)}
<1> DEFINE t == Tail(s)
<1>1. /\ t \in Seq(S)
      /\ Len(s) \in Nat \ {0}
      /\ DOMAIN s = 1 .. Len(s)
      /\ DOMAIN t = 1 .. Len(s) - 1
      /\ \A i \in 1 .. Len(s) - 1 : t[i] = s[i + 1]
      /\ Head(s) = s[1]
  OBVIOUS
<1> HIDE DEF t
<1>2. s[1] \in S /\ s[1] \in ToSet(s)
  BY <1>1 DEF ToSet
<1>3. ASSUME NEW i \in DOMAIN t, NEW j \in DOMAIN t, t[i] = t[j]
      PROVE  i = j
  <2>1. i + 1 \in DOMAIN s /\ j + 1 \in DOMAIN s /\ i \in Nat /\ j \in Nat
    BY <1>1
  <2>2. s[i + 1] = s[j + 1]
    BY <1>1, <1>3
  <2>3. i + 1 = j + 1
    BY <2>1, <2>2 DEF IsInjective
  <2> QED
    BY <2>1, <2>3
<1>4. ASSUME NEW y \in ToSet(t)
      PROVE  y \in ToSet(s) \ {s[1]}
  <2>1. PICK i \in 1 .. Len(s) - 1 : y = t[i]
    BY <1>1, <1>4 DEF ToSet
  <2>2. i + 1 \in DOMAIN s /\ 1 \in DOMAIN s /\ i + 1 # 1
    BY <1>1
  <2>3. y = s[i + 1]
    BY <2>1, <1>1
  <2>4. s[i + 1] # s[1]
    BY <2>2 DEF IsInjective
  <2> QED
    BY <2>2, <2>3, <2>4 DEF ToSet
<1>5. ASSUME NEW y \in ToSet(s), y # s[1]
      PROVE  y \in ToSet(t)
  <2>1. PICK i \in 1 .. Len(s) : y = s[i]
    BY <1>1, <1>5 DEF ToSet
  <2>2. i # 1
    BY <2>1, <1>5
  <2>3. i - 1 \in 1 .. Len(s) - 1 /\ (i - 1) + 1 = i
    BY <2>2, <1>1
  <2>4. t[i - 1] = y
    BY <2>1, <2>3, <1>1
  <2> QED
    BY <2>3, <2>4, <1>1 DEF ToSet
<1>6. ToSet(t) = ToSet(s) \ {s[1]}
  BY <1>4, <1>5
<1> QED
  BY <1>1, <1>2, <1>3, <1>6 DEF t, IsInjective

-----------------------------------------------------------------------------
(* What a worker does. *)

Calls == {"start", "scan", "resolved", "rejected"}

LEMMA RunsByCall ==
    ASSUME TypeOK, NEW w \in Workers
    PROVE  /\ run[w] \in Runs <=> run[w].pc \in Calls
           /\ run[w] \in Runs => /\ run[w].id \in Ids
                                /\ run[w].next \in Nat \ {0}
           /\ run[w] \in Runs \/ run[w] = Idle \/ run[w] = Down
<1>1. run[w] \in Runs \/ run[w] = Idle \/ run[w] = Down
  BY DEF TypeOK
<1>2. Idle.pc = "idle" /\ Down.pc = "down"
  BY DEF Idle, Down
<1>3. ASSUME run[w] \in Runs
      PROVE  run[w].pc \in Calls /\ run[w].id \in Ids /\ run[w].next \in Nat \ {0}
  BY <1>3 DEF Runs, Calls
<1> QED
  BY <1>1, <1>2, <1>3 DEF Calls

\* A run that goes on to its next call keeps its job and its place.
LEMMA RunGoesOn ==
    ASSUME TypeOK, NEW w \in Workers, run[w] \in Runs, NEW c \in Calls,
           run' = [run EXCEPT ![w].pc = c]
    PROVE  /\ run' \in [Workers -> Runs \cup {Idle, Down}]
           /\ run'[w] \in Runs
           /\ run'[w].pc = c
           /\ run'[w].id = run[w].id
           /\ run'[w].next = run[w].next
           /\ \A v \in Workers \ {w} : run'[v] = run[v]
<1>1. run \in [Workers -> Runs \cup {Idle, Down}]
  BY DEF TypeOK
<1>2. run' = [run EXCEPT ![w] = [run[w] EXCEPT !.pc = c]]
  OBVIOUS
<1>3. /\ run'[w] = [run[w] EXCEPT !.pc = c]
      /\ \A v \in Workers \ {w} : run'[v] = run[v]
  BY <1>1, <1>2
<1>4. /\ [run[w] EXCEPT !.pc = c] \in Runs
      /\ [run[w] EXCEPT !.pc = c].pc = c
      /\ [run[w] EXCEPT !.pc = c].id = run[w].id
      /\ [run[w] EXCEPT !.pc = c].next = run[w].next
  BY DEF Runs, Calls
<1>5. run' \in [Workers -> Runs \cup {Idle, Down}]
  BY <1>1, <1>2, <1>4
<1> QED
  BY <1>3, <1>4, <1>5

LEMMA RunAppends ==
    ASSUME TypeOK, NEW w \in Workers, run[w] \in Runs,
           run' = [run EXCEPT ![w].next = @ + 1]
    PROVE  /\ run' \in [Workers -> Runs \cup {Idle, Down}]
           /\ run'[w] \in Runs
           /\ run'[w].pc = run[w].pc
           /\ run'[w].id = run[w].id
           /\ run'[w].next = run[w].next + 1
           /\ \A v \in Workers \ {w} : run'[v] = run[v]
<1>1. run \in [Workers -> Runs \cup {Idle, Down}]
  BY DEF TypeOK
<1>2. run' = [run EXCEPT ![w] = [run[w] EXCEPT !.next = run[w].next + 1]]
  OBVIOUS
<1> DEFINE r == [run[w] EXCEPT !.next = run[w].next + 1]
<1>3. /\ run'[w] = r
      /\ \A v \in Workers \ {w} : run'[v] = run[v]
  BY <1>1, <1>2
<1>4. /\ r \in Runs
      /\ r.pc = run[w].pc
      /\ r.id = run[w].id
      /\ r.next = run[w].next + 1
  BY DEF Runs
<1>5. run' \in [Workers -> Runs \cup {Idle, Down}]
  BY <1>1, <1>2, <1>4
<1> QED
  BY <1>3, <1>4, <1>5

\* A worker that takes a job, settles it, dies or comes back.
LEMMA RunReplaced ==
    ASSUME TypeOK, NEW w \in Workers, NEW r \in Runs \cup {Idle, Down},
           run' = [run EXCEPT ![w] = r]
    PROVE  /\ run' \in [Workers -> Runs \cup {Idle, Down}]
           /\ run'[w] = r
           /\ \A v \in Workers \ {w} : run'[v] = run[v]
BY DEF TypeOK

LEMMA IdleIsNoRun == Idle \notin Runs /\ Down \notin Runs
<1>1. \A r \in Runs : r.pc \in {"start", "scan", "resolved", "rejected"}
  BY DEF Runs
<1>2. Idle.pc = "idle" /\ Down.pc = "down"
  BY DEF Idle, Down
<1> QED
  BY <1>1, <1>2

-----------------------------------------------------------------------------
(* What a call of the repository does to the records. *)

\* The record a call is about is the only one it touches, and only while it is
\* unfinished.
SameRecord(id) ==
    status'[id] = status[id] /\ findings'[id] = findings[id] /\ reason'[id] = reason[id]

OnlyOpen(id) ==
    /\ \A o \in Ids \ {id} : SameRecord(o)
    /\ status[id] \in Unfinished => status'[id] \in Unfinished \cup Terminal
    /\ status[id] \notin Unfinished => SameRecord(id)

LEMMA CallOfRecord ==
    ASSUME TypeOK, NEW id \in Ids,
           \/ Guarded(id, Record!MarkScanning(id))
           \/ \E f \in Findings : Guarded(id, Record!AppendVulnerability(id, f))
           \/ Guarded(id, Record!MarkFinished(id))
           \/ Guarded(id, Record!MarkFailed(id, "failed"))
    PROVE  Record!RecordTypeOK' /\ OnlyOpen(id)
<1> USE DEF TypeOK, Record!RecordTypeOK, OnlyOpen, SameRecord, Unfinished, Terminal,
            Record!Unfinished, Record!Terminal
<1>1. CASE status[id] \notin Unfinished
  BY <1>1 DEF Guarded, recordVars, Record!recordVars
<1>2. CASE status[id] \in Unfinished /\ Record!MarkScanning(id)
  BY <1>2 DEF Record!MarkScanning
<1>3. CASE status[id] \in Unfinished
           /\ \E f \in Findings : Record!AppendVulnerability(id, f)
  <2>1. PICK f \in Findings : Record!AppendVulnerability(id, f)
    BY <1>3
  <2>2. Append(findings[id], f) \in Seq(Findings)
    OBVIOUS
  <2>3. findings' \in [Ids -> Seq(Findings)]
    BY <2>1, <2>2 DEF Record!AppendVulnerability
  <2> QED
    BY <1>3, <2>1, <2>3 DEF Record!AppendVulnerability
<1>4. CASE status[id] \in Unfinished /\ Record!MarkFinished(id)
  BY <1>4 DEF Record!MarkFinished
<1>5. CASE status[id] \in Unfinished /\ Record!MarkFailed(id, "failed")
  BY <1>5 DEF Record!MarkFailed
<1> QED
  BY <1>1, <1>2, <1>3, <1>4, <1>5 DEF Guarded

\* The engine's calls: what each one does to records and runs.
LEMMA EngineCalls ==
    ASSUME TypeOK, NEW w \in Workers,
           Start(w) \/ AppendNext(w) \/ Finish(w) \/ Fail(w)
    PROVE  /\ run[w] \in Runs
           /\ run[w].pc \in {"start", "scan"}
           /\ run' \in [Workers -> Runs \cup {Idle, Down}]
           /\ run'[w] \in Runs
           /\ run'[w].id = run[w].id
           /\ \A v \in Workers \ {w} : run'[v] = run[v]
           /\ Record!RecordTypeOK'
           /\ OnlyOpen(run[w].id)
           /\ unsaved' \subseteq Ids
           /\ UNCHANGED <<api, queueVars, crashes>>
<1> DEFINE id == run[w].id
<1>1. run[w].pc \in {"start", "scan"}
  BY DEF Start, AppendNext, Finish, Fail
<1>2. run[w] \in Runs /\ id \in Ids /\ run[w].next \in Nat \ {0}
  BY <1>1, RunsByCall DEF Calls
<1>3. CASE Start(w)
  <2>1. Record!RecordTypeOK' /\ OnlyOpen(id)
    BY <1>2, <1>3, CallOfRecord DEF Start
  <2> QED
    BY <1>1, <1>2, <1>3, <2>1, RunGoesOn DEF Start, Calls, TypeOK
<1>4. CASE AppendNext(w)
  <2>1. Report[id][run[w].next] \in Findings
    BY <1>2, <1>4, SystemAssumption DEF AppendNext
  <2>2. Record!RecordTypeOK' /\ OnlyOpen(id)
    BY <1>2, <1>4, <2>1, CallOfRecord DEF AppendNext
  <2> QED
    BY <1>1, <1>2, <1>4, <2>2, RunAppends DEF AppendNext, TypeOK
<1>5. CASE Finish(w)
  <2>1. Record!RecordTypeOK' /\ OnlyOpen(id)
    BY <1>2, <1>5, CallOfRecord DEF Finish
  <2> QED
    BY <1>1, <1>2, <1>5, <2>1, RunGoesOn DEF Finish, Calls, TypeOK
<1>6. CASE Fail(w)
  <2>1. Record!RecordTypeOK' /\ OnlyOpen(id) /\ unsaved' \subseteq Ids
    <3>1. CASE Guarded(id, Record!MarkFailed(id, "failed")) /\ UNCHANGED unsaved
      BY <1>2, <3>1, CallOfRecord DEF TypeOK
    <3>2. CASE unsaved' = unsaved \cup {id} /\ UNCHANGED recordVars
      BY <1>2, <3>2 DEF TypeOK, Record!RecordTypeOK, OnlyOpen, SameRecord, recordVars,
                        Unfinished, Terminal
    <3> QED
      BY <1>6, <3>1, <3>2 DEF Fail
  <2> QED
    BY <1>1, <1>2, <1>6, <2>1, RunGoesOn DEF Fail, Calls
<1> QED
  BY <1>3, <1>4, <1>5, <1>6

-----------------------------------------------------------------------------
(* Types, and what the queue and the records know of each other. *)

CompletedIsClosed ==
    \A id \in Ids : job[id] = "completed" => status[id] \in Terminal

\* A job has a record, a run has a job, and a run that resolved, like a job
\* that completed, has a closed record.
Linked ==
    /\ \A id \in Ids :
         /\ status[id] # "expired"
         /\ api[id] # "idle" => status[id] # "none"
         /\ job[id] # "none" => api[id] \in {"accepted", "rejected"}
    /\ \A w \in Workers :
         run[w] \in Runs
         => /\ job[run[w].id] # "none"
            /\ run[w].pc = "resolved" => status[run[w].id] \in Terminal
    /\ CompletedIsClosed

\* The queue's part of the type invariant, and that a job BullMQ still hands out
\* was not found stalled too often.
QueueOK ==
    /\ job \in [Ids -> {"none", "waiting", "active", "completed", "failed"}]
    /\ waiting \in Seq(Ids)
    /\ IsInjective(waiting)
    /\ \A id \in Ids : job[id] = "waiting" <=> id \in ToSet(waiting)
    /\ owner \in [Ids -> Workers \cup {None}]
    /\ \A id \in Ids : job[id] = "active" <=> owner[id] # None
    /\ stalls \in [Ids -> 0 .. MaxStalled + 1]
    /\ \A id \in Ids :
         job[id] \in {"none", "waiting", "active"} => stalls[id] <= MaxStalled

LEMMA QueueAdds ==
    ASSUME QueueOK, NEW id \in Ids, job[id] = "none", Added(id)
    PROVE  QueueOK'
<1>1. id \notin ToSet(waiting) /\ owner[id] = None
  BY DEF QueueOK
<1>2. /\ waiting' \in Seq(Ids)
      /\ IsInjective(waiting')
      /\ ToSet(waiting') = ToSet(waiting) \cup {id}
  BY <1>1, AppendElement DEF QueueOK, Added
<1>3. /\ job' \in [Ids -> {"none", "waiting", "active", "completed", "failed"}]
      /\ job'[id] = "waiting"
      /\ \A o \in Ids \ {id} : job'[o] = job[o]
  BY DEF QueueOK, Added
<1>4. owner' = owner /\ stalls' = stalls
  BY DEF Added
<1> QED
  BY <1>1, <1>2, <1>3, <1>4 DEF QueueOK

LEMMA QueueTakes ==
    ASSUME QueueOK, NEW w \in Workers, Take(w)
    PROVE  /\ Head(waiting) \in Ids
           /\ job[Head(waiting)] = "waiting"
           /\ job'[Head(waiting)] = "active"
           /\ owner'[Head(waiting)] = w
           /\ \A o \in Ids \ {Head(waiting)} : job'[o] = job[o] /\ owner'[o] = owner[o]
           /\ QueueOK'
<1> DEFINE id == Head(waiting)
<1>1. /\ id \in Ids
      /\ id \in ToSet(waiting)
      /\ waiting' \in Seq(Ids)
      /\ IsInjective(waiting')
      /\ ToSet(waiting') = ToSet(waiting) \ {id}
  BY TailElements DEF QueueOK, Take
<1>2. job[id] = "waiting"
  BY <1>1 DEF QueueOK
<1>3. /\ job' \in [Ids -> {"none", "waiting", "active", "completed", "failed"}]
      /\ job'[id] = "active"
      /\ \A o \in Ids \ {id} : job'[o] = job[o]
  BY <1>1 DEF QueueOK, Take
<1>4. /\ owner' \in [Ids -> Workers \cup {None}]
      /\ owner'[id] = w
      /\ \A o \in Ids \ {id} : owner'[o] = owner[o]
  BY <1>1 DEF QueueOK, Take
<1>5. stalls' = stalls /\ w # None
  BY SystemAssumption DEF Take
<1>6. \A o \in Ids : job'[o] = "waiting" <=> o \in ToSet(waiting')
  BY <1>1, <1>3 DEF QueueOK
<1>7. \A o \in Ids : job'[o] = "active" <=> owner'[o] # None
  BY <1>3, <1>4, <1>5 DEF QueueOK
<1> QED
  BY <1>1, <1>2, <1>3, <1>4, <1>5, <1>6, <1>7 DEF QueueOK

LEMMA QueueStalls ==
    ASSUME QueueOK, NEW id \in Ids, Stalled(id)
    PROVE  /\ job[id] = "active"
           /\ job'[id] \in {"waiting", "failed"}
           /\ stalls'[id] > 0
           /\ \A o \in Ids \ {id} : /\ job'[o] = job[o]
                                     /\ owner'[o] = owner[o]
                                     /\ stalls'[o] = stalls[o]
           /\ QueueOK'
<1>1. job[id] = "active" /\ id \notin ToSet(waiting)
  BY DEF QueueOK, Stalled
<1>2. /\ owner' \in [Ids -> Workers \cup {None}]
      /\ owner'[id] = None
      /\ \A o \in Ids \ {id} : owner'[o] = owner[o]
  BY DEF QueueOK, Stalled
<1>3. /\ \A o \in Ids \ {id} : stalls'[o] = stalls[o]
      /\ stalls'[id] = stalls[id] + 1
      /\ stalls[id] \in 0 .. MaxStalled + 1
  BY DEF QueueOK, Stalled
<1>4. CASE stalls[id] < MaxStalled
  <2>1. /\ waiting' \in Seq(Ids)
        /\ IsInjective(waiting')
        /\ ToSet(waiting') = ToSet(waiting) \cup {id}
    <3>1. waiting' = <<id>> \o waiting
      BY <1>4 DEF Stalled
    <3>2. waiting \in Seq(Ids) /\ IsInjective(waiting)
      BY DEF QueueOK
    <3> QED
      BY <1>1, <3>1, <3>2, PrependElement
  <2>2. /\ job' \in [Ids -> {"none", "waiting", "active", "completed", "failed"}]
        /\ job'[id] = "waiting"
        /\ \A o \in Ids \ {id} : job'[o] = job[o]
    BY <1>4 DEF QueueOK, Stalled
  <2>3. stalls' \in [Ids -> 0 .. MaxStalled + 1]
    BY <1>3, <1>4, SystemAssumption DEF QueueOK, Stalled
  <2>4. stalls'[id] > 0
    BY <1>3, SystemAssumption
  <2>5. /\ \A o \in Ids : job'[o] = "waiting" <=> o \in ToSet(waiting')
        /\ \A o \in Ids : job'[o] = "active" <=> owner'[o] # None
    BY <1>1, <1>2, <2>1, <2>2 DEF QueueOK
  <2>6. stalls'[id] <= MaxStalled
    BY <1>3, <1>4, SystemAssumption
  <2>7. \A o \in Ids :
           job'[o] \in {"none", "waiting", "active"} => stalls'[o] <= MaxStalled
    BY <1>3, <2>2, <2>6 DEF QueueOK
  <2> QED
    BY <1>1, <1>2, <1>3, <2>1, <2>2, <2>3, <2>4, <2>5, <2>7 DEF QueueOK
<1>5. CASE ~(stalls[id] < MaxStalled)
  <2>1. waiting' = waiting
    BY <1>5 DEF Stalled
  <2>2. /\ job' \in [Ids -> {"none", "waiting", "active", "completed", "failed"}]
        /\ job'[id] = "failed"
        /\ \A o \in Ids \ {id} : job'[o] = job[o]
    BY <1>5 DEF QueueOK, Stalled
  <2>3. stalls[id] <= MaxStalled
    BY <1>1 DEF QueueOK
  <2>4. stalls'[id] \in 0 .. MaxStalled + 1 /\ stalls'[id] > 0
    BY <1>3, <2>3, SystemAssumption
  <2>5. stalls' \in [Ids -> 0 .. MaxStalled + 1]
    BY <2>4, <1>3 DEF QueueOK, Stalled
  <2>6. \A o \in Ids : /\ job'[o] = "waiting" <=> o \in ToSet(waiting')
                       /\ job'[o] = "active" <=> owner'[o] # None
                       /\ job'[o] \in {"none", "waiting", "active"}
                          => stalls'[o] <= MaxStalled
    BY <1>1, <1>2, <1>3, <2>1, <2>2 DEF QueueOK
  <2> QED
    BY <1>1, <1>2, <1>3, <2>1, <2>2, <2>4, <2>5, <2>6 DEF QueueOK
<1> QED
  BY <1>4, <1>5

LEMMA QueueSettles ==
    ASSUME QueueOK, NEW w \in Workers, run[w].id \in Ids, Ack(w)
    PROVE  /\ owner[run[w].id] = w
              => job'[run[w].id] = IF run[w].pc = "resolved" THEN "completed" ELSE "failed"
           /\ owner[run[w].id] # w => job' = job /\ owner' = owner
           /\ \A o \in Ids \ {run[w].id} : job'[o] = job[o] /\ owner'[o] = owner[o]
           /\ QueueOK'
<1> DEFINE id == run[w].id
<1>1. waiting' = waiting /\ stalls' = stalls
  BY DEF Ack
<1>2. CASE owner[id] # w
  BY <1>1, <1>2 DEF QueueOK, Ack
<1>3. CASE owner[id] = w
  <2>1. job[id] = "active"
    BY <1>3, SystemAssumption DEF QueueOK
  <2>2. PICK end \in {"completed", "failed"} :
           /\ end = IF run[w].pc = "resolved" THEN "completed" ELSE "failed"
           /\ job' = [job EXCEPT ![id] = end]
    BY <1>3 DEF Ack
  <2>3. /\ job' \in [Ids -> {"none", "waiting", "active", "completed", "failed"}]
        /\ job'[id] = end
        /\ \A o \in Ids \ {id} : job'[o] = job[o]
    BY <2>2 DEF QueueOK
  <2>4. /\ owner' \in [Ids -> Workers \cup {None}]
        /\ owner'[id] = None
        /\ \A o \in Ids \ {id} : owner'[o] = owner[o]
    BY <1>3 DEF QueueOK, Ack
  <2>5. \A o \in Ids : /\ job'[o] = "waiting" <=> o \in ToSet(waiting')
                       /\ job'[o] = "active" <=> owner'[o] # None
    BY <1>1, <2>1, <2>2, <2>3, <2>4 DEF QueueOK
  <2> QED
    BY <1>1, <1>3, <2>2, <2>3, <2>4, <2>5 DEF QueueOK
<1> QED
  BY <1>2, <1>3

LEMMA InitTypes == Init => TypeOK /\ QueueOK /\ Linked
<1> SUFFICES ASSUME Init
             PROVE  TypeOK /\ QueueOK /\ Linked
  OBVIOUS
<1>1. IsInjective(waiting) /\ ToSet(waiting) = {} /\ waiting \in Seq(Ids)
  BY DEF Init, IsInjective, ToSet
<1>2. QueueOK
  BY <1>1, SystemAssumption DEF Init, QueueOK
<1>3. Record!RecordTypeOK
  BY DEF Init, Record!Init, Record!RecordTypeOK
<1>4. TypeOK
  BY <1>2, <1>3, SystemAssumption DEF Init, TypeOK, QueueOK
<1>5. Linked
  BY IdleIsNoRun DEF Init, Record!Init, Linked, CompletedIsClosed
<1> QED
  BY <1>2, <1>4, <1>5

\* A step keeps the types, given what the queue and the records know.
LEMMA StepTypes ==
    ASSUME TypeOK, QueueOK, Linked, [Next]_vars
    PROVE  TypeOK' /\ QueueOK'
<1> SUFFICES /\ Record!RecordTypeOK'
             /\ api' \in [Ids -> {"idle", "created", "accepted", "rejected"}]
             /\ QueueOK'
             /\ run' \in [Workers -> Runs \cup {Idle, Down}]
             /\ crashes' \in 0 .. MaxCrashes
             /\ unsaved' \subseteq Ids
  BY DEF TypeOK, QueueOK
<1> USE DEF TypeOK
<1>1. ASSUME UNCHANGED recordVars
      PROVE  Record!RecordTypeOK'
  BY <1>1 DEF recordVars, Record!RecordTypeOK
<1>2. ASSUME UNCHANGED queueVars
      PROVE  QueueOK'
  BY <1>2 DEF queueVars, QueueOK
<1>3. CASE UNCHANGED vars
  BY <1>1, <1>2, <1>3 DEF vars
<1>4. ASSUME NEW id \in Ids, CreateRecord(id)
      PROVE  Record!RecordTypeOK' /\ QueueOK'
  BY <1>2, <1>4 DEF CreateRecord, Record!Create, Record!RecordTypeOK, Record!Unfinished
<1>5. ASSUME NEW id \in Ids, AddJob(id) \/ AddFails(id)
      PROVE  Record!RecordTypeOK' /\ QueueOK'
  <2>1. job[id] = "none" /\ UNCHANGED recordVars
    BY <1>5 DEF AddJob, AddFails, Linked
  <2>2. CASE Added(id)
    BY <1>1, <2>1, <2>2, QueueAdds
  <2>3. CASE UNCHANGED queueVars
    BY <1>1, <1>2, <2>1, <2>3
  <2> QED
    BY <1>5, <2>2, <2>3 DEF AddJob, AddFails
<1>6. ASSUME NEW id \in Ids, Stalled(id)
      PROVE  Record!RecordTypeOK' /\ QueueOK'
  BY <1>1, <1>6, QueueStalls DEF Stalled
<1>7. ASSUME NEW w \in Workers, Take(w)
      PROVE  /\ Record!RecordTypeOK' /\ QueueOK'
             /\ run' \in [Workers -> Runs \cup {Idle, Down}]
  <2> DEFINE r == [pc |-> "start", id |-> Head(waiting), next |-> 1]
  <2>1. QueueOK' /\ Head(waiting) \in Ids
    BY <1>7, QueueTakes
  <2>2. r \in Runs
    BY <2>1 DEF Runs
  <2>3. run' = [run EXCEPT ![w] = r]
    BY <1>7 DEF Take
  <2> HIDE DEF r
  <2> QED
    BY <1>1, <1>7, <2>1, <2>2, <2>3, RunReplaced DEF Take
<1>8. ASSUME NEW w \in Workers, Ack(w)
      PROVE  /\ Record!RecordTypeOK' /\ QueueOK'
             /\ run' \in [Workers -> Runs \cup {Idle, Down}]
  <2>1. run[w].id \in Ids
    BY <1>8, RunsByCall DEF Ack, Calls
  <2> QED
    BY <1>1, <1>8, <2>1, QueueSettles, RunReplaced DEF Ack
<1>9. ASSUME NEW w \in Workers, Crash(w) \/ Restart(w)
      PROVE  /\ Record!RecordTypeOK' /\ QueueOK'
             /\ run' \in [Workers -> Runs \cup {Idle, Down}]
             /\ crashes' \in 0 .. MaxCrashes
  <2>1. UNCHANGED recordVars /\ UNCHANGED queueVars
    BY <1>9 DEF Crash, Restart
  <2>2. run' \in [Workers -> Runs \cup {Idle, Down}]
    BY <1>9 DEF Crash, Restart
  <2>3. crashes' \in 0 .. MaxCrashes
    BY <1>9, SystemAssumption DEF Crash, Restart
  <2> QED
    BY <1>1, <1>2, <2>1, <2>2, <2>3
<1>10. ASSUME NEW w \in Workers, Start(w) \/ AppendNext(w) \/ Finish(w) \/ Fail(w)
       PROVE  /\ Record!RecordTypeOK' /\ QueueOK'
              /\ run' \in [Workers -> Runs \cup {Idle, Down}]
              /\ unsaved' \subseteq Ids
  BY <1>2, <1>10, EngineCalls
<1>11. CASE \E id \in Ids : CreateRecord(id) \/ AddJob(id) \/ AddFails(id) \/ Stalled(id)
  <2>1. PICK id \in Ids : CreateRecord(id) \/ AddJob(id) \/ AddFails(id) \/ Stalled(id)
    BY <1>11
  <2>2. Record!RecordTypeOK' /\ QueueOK'
    BY <1>4, <1>5, <1>6, <2>1
  <2>3. run' = run /\ crashes' = crashes /\ unsaved' = unsaved
    BY <2>1 DEF CreateRecord, AddJob, AddFails, Stalled
  <2>4. api' \in [Ids -> {"idle", "created", "accepted", "rejected"}]
    BY <2>1 DEF CreateRecord, AddJob, AddFails, Stalled
  <2> QED
    BY <2>2, <2>3, <2>4
<1>12. CASE \E w \in Workers : Work(w) \/ Crash(w) \/ Restart(w)
  <2>1. PICK w \in Workers : Work(w) \/ Crash(w) \/ Restart(w)
    BY <1>12
  <2>2. CASE Take(w)
    BY <1>7, <2>2 DEF Take
  <2>3. CASE Ack(w)
    BY <1>8, <2>3 DEF Ack
  <2>4. CASE Crash(w) \/ Restart(w)
    BY <1>9, <2>4 DEF Crash, Restart
  <2>5. CASE Start(w) \/ AppendNext(w) \/ Finish(w) \/ Fail(w)
    BY <1>10, <2>5, EngineCalls
  <2> QED
    BY <2>1, <2>2, <2>3, <2>4, <2>5 DEF Work
<1> QED
  BY <1>3, <1>11, <1>12 DEF Next

\* A step keeps what the queue and the records know of each other.
LEMMA StepLinks ==
    ASSUME TypeOK, QueueOK, Linked, [Next]_vars, TypeOK'
    PROVE  Linked'
<1>1. CASE UNCHANGED vars
  BY <1>1 DEF vars, recordVars, queueVars, Linked, CompletedIsClosed
<1>2. ASSUME NEW id \in Ids, CreateRecord(id)
      PROVE  Linked'
  <2>1. /\ status[id] = "none"
        /\ api[id] = "idle"
        /\ status' = [status EXCEPT ![id] = "Queued"]
        /\ api' = [api EXCEPT ![id] = "created"]
        /\ job' = job /\ run' = run
    BY <1>2 DEF CreateRecord, Record!Create, queueVars
  <2>2. job[id] = "none"
    BY <2>1 DEF Linked
  <2>3. \A w \in Workers : run[w] \in Runs => run[w].id \in Ids \ {id}
    BY <2>2, RunsByCall DEF Linked
  <2> QED
    BY <2>1, <2>2, <2>3 DEF Linked, CompletedIsClosed, TypeOK, Record!RecordTypeOK
<1>3. ASSUME NEW id \in Ids, AddJob(id) \/ AddFails(id)
      PROVE  Linked'
  <2>1. /\ api[id] = "created"
        /\ \/ api' = [api EXCEPT ![id] = "accepted"]
           \/ api' = [api EXCEPT ![id] = "rejected"]
        /\ job' = [job EXCEPT ![id] = "waiting"] \/ job' = job
        /\ status' = status /\ run' = run
    BY <1>3 DEF AddJob, AddFails, Added, queueVars, recordVars
  <2>2. \A w \in Workers : run[w] \in Runs => run[w].id \in Ids
    BY RunsByCall
  <2> QED
    BY <2>1, <2>2 DEF Linked, CompletedIsClosed, TypeOK
<1>4. ASSUME NEW id \in Ids, Stalled(id)
      PROVE  Linked'
  <2>1. /\ job[id] = "active"
        /\ job'[id] \in {"waiting", "failed"}
        /\ \A o \in Ids \ {id} : job'[o] = job[o]
    BY <1>4, QueueStalls
  <2>2. status' = status /\ run' = run /\ api' = api
    BY <1>4 DEF Stalled, recordVars
  <2>3. \A w \in Workers : run[w] \in Runs => run[w].id \in Ids
    BY RunsByCall
  <2> QED
    BY <2>1, <2>2, <2>3 DEF Linked, CompletedIsClosed
<1>5. ASSUME NEW w \in Workers, Take(w)
      PROVE  Linked'
  <2> DEFINE id == Head(waiting)
             r == [pc |-> "start", id |-> id, next |-> 1]
  <2>1. /\ id \in Ids
        /\ job[id] = "waiting"
        /\ job'[id] = "active"
        /\ \A o \in Ids \ {id} : job'[o] = job[o]
    BY <1>5, QueueTakes
  <2>2. status' = status /\ api' = api /\ run' = [run EXCEPT ![w] = r]
    BY <1>5 DEF Take, recordVars
  <2>3. run'[w].id = id /\ run'[w].pc = "start"
    BY <2>2 DEF TypeOK
  <2>4. \A v \in Workers \ {w} : run'[v] = run[v]
    BY <2>2 DEF TypeOK
  <2>5. \A v \in Workers : run[v] \in Runs => run[v].id \in Ids
    BY RunsByCall
  <2> HIDE DEF id, r
  <2> QED
    BY <2>1, <2>2, <2>3, <2>4, <2>5 DEF Linked, CompletedIsClosed
<1>6. ASSUME NEW w \in Workers, Ack(w)
      PROVE  Linked'
  <2> DEFINE id == run[w].id
  <2>1. run[w] \in Runs /\ id \in Ids
    BY <1>6, RunsByCall DEF Ack, Calls
  <2>2. /\ job'[id] = job[id] \/ job'[id] \in {"completed", "failed"}
        /\ job'[id] = "completed" => job[id] = "completed" \/ run[w].pc = "resolved"
        /\ \A o \in Ids \ {id} : job'[o] = job[o]
    <3>1. CASE owner[id] = w
      BY <1>6, <2>1, <3>1, QueueSettles
    <3>2. CASE owner[id] # w
      BY <1>6, <2>1, <3>2, QueueSettles
    <3> QED
      BY <3>1, <3>2
  <2>3. status' = status /\ api' = api /\ run' = [run EXCEPT ![w] = Idle]
    BY <1>6 DEF Ack, recordVars
  <2>4. run'[w] \notin Runs /\ \A v \in Workers \ {w} : run'[v] = run[v]
    BY <2>3, IdleIsNoRun DEF TypeOK
  <2>5. \A v \in Workers : run[v] \in Runs => run[v].id \in Ids
    BY RunsByCall
  <2> HIDE DEF id
  <2>6. \A o \in Ids : job'[o] = "completed" => status[o] \in Terminal
    BY <2>1, <2>2 DEF Linked, CompletedIsClosed, id
  <2>7. \A o \in Ids : job[o] # "none" => job'[o] # "none"
    BY <2>2
  <2>8. \A o \in Ids : job'[o] # "none" => job[o] # "none"
    BY <2>1, <2>2 DEF Linked, id
  <2> QED
    BY <2>3, <2>4, <2>5, <2>6, <2>7, <2>8 DEF Linked, CompletedIsClosed
<1>7. ASSUME NEW w \in Workers, Crash(w) \/ Restart(w)
      PROVE  Linked'
  <2>1. /\ status' = status /\ api' = api /\ job' = job
        /\ run' = [run EXCEPT ![w] = Down] \/ run' = [run EXCEPT ![w] = Idle]
    BY <1>7 DEF Crash, Restart, recordVars, queueVars
  <2>2. run'[w] \notin Runs /\ \A v \in Workers \ {w} : run'[v] = run[v]
    BY <2>1, IdleIsNoRun DEF TypeOK
  <2> QED
    BY <2>1, <2>2 DEF Linked, CompletedIsClosed
<1>8. ASSUME NEW w \in Workers, Start(w) \/ AppendNext(w) \/ Finish(w) \/ Fail(w)
      PROVE  Linked'
  <2> DEFINE id == run[w].id
  <2>1. /\ run[w] \in Runs
        /\ run'[w] \in Runs
        /\ run'[w].id = id
        /\ \A v \in Workers \ {w} : run'[v] = run[v]
        /\ OnlyOpen(id)
        /\ api' = api /\ job' = job
    BY <1>8, EngineCalls DEF queueVars
  <2>2. id \in Ids /\ \A v \in Workers : run[v] \in Runs => run[v].id \in Ids
    BY <2>1, RunsByCall
  <2>3. status[id] \in Unfinished \cup Terminal
    <3>1. status[id] # "none" /\ status[id] # "expired"
      BY <2>1, <2>2 DEF Linked
    <3> QED
      BY <2>2, <3>1 DEF TypeOK, Record!RecordTypeOK, Unfinished, Terminal,
                        Record!Unfinished, Record!Terminal
  <2>4. status'[id] \in Unfinished \cup Terminal
    BY <2>1, <2>3 DEF OnlyOpen, SameRecord
  <2>5. \A o \in Ids : status[o] \in Terminal => status'[o] \in Terminal
    BY <2>1, <2>2 DEF OnlyOpen, SameRecord, Unfinished, Terminal
  <2>6. run'[w].pc = "resolved" => status'[id] \in Terminal
    <3>1. CASE Finish(w)
      BY <2>1, <2>2, <2>3, <2>5, <3>1
         DEF Finish, Guarded, Record!MarkFinished, Terminal, Unfinished, TypeOK,
             Record!RecordTypeOK
    <3>2. CASE ~Finish(w)
      <4>1. run'[w].pc # "resolved"
        BY <1>8, <2>1, <3>2, RunGoesOn, RunAppends, EngineCalls
           DEF Start, AppendNext, Fail, Calls
      <4> QED
        BY <4>1
    <3> QED
      BY <3>1, <3>2
  <2> HIDE DEF id
  <2>7. /\ \A o \in Ids : status'[o] # "expired"
        /\ \A o \in Ids : status[o] # "none" => status'[o] # "none"
    BY <2>2, <2>1, <2>4 DEF OnlyOpen, SameRecord, Linked, Unfinished, Terminal
  <2> QED
    <3>1. ASSUME NEW v \in Workers, run'[v] \in Runs
          PROVE  /\ job'[run'[v].id] # "none"
                 /\ run'[v].pc = "resolved" => status'[run'[v].id] \in Terminal
      <4>1. CASE v = w
        <5>1. job[id] # "none"
          BY <2>1 DEF Linked, id
        <5> QED
          BY <2>1, <2>6, <4>1, <5>1
      <4>2. CASE v # w
        BY <2>1, <2>2, <2>5, <3>1, <4>2 DEF Linked
      <4> QED
        BY <4>1, <4>2
    <3>2. CompletedIsClosed'
      BY <2>1, <2>5 DEF Linked, CompletedIsClosed
    <3> QED
      BY <2>1, <2>7, <3>1, <3>2 DEF Linked
<1> QED
  BY <1>1, <1>2, <1>3, <1>4, <1>5, <1>6, <1>7, <1>8 DEF Next, Work

-----------------------------------------------------------------------------
(* How far the runs have copied their reports. *)

\* The first n findings of the report are in the record, in file order.
Covered(id, n) ==
    \E f \in [1 .. n -> DOMAIN findings[id]] :
        /\ \A i, j \in 1 .. n : i < j => f[i] < f[j]
        /\ \A i \in 1 .. n : Report[id][i] = findings[id][f[i]]

Copied ==
    /\ \A id \in Ids : ToSet(findings[id]) \subseteq ToSet(Report[id])
    /\ \A w \in Workers :
         run[w] \in Runs
         => /\ run[w].pc = "start" => run[w].next = 1
            /\ run[w].pc = "scan"
               => /\ run[w].next <= Len(Report[run[w].id]) + 1
                  /\ status[run[w].id] \in Unfinished
                     => Covered(run[w].id, run[w].next - 1)
    /\ FinishedCoversReport

LEMMA NothingCovered == ASSUME NEW id \in Ids PROVE Covered(id, 0)
<1>1. 1 .. 0 = {}
  OBVIOUS
<1>2. [i \in {} |-> i] \in [{} -> DOMAIN findings[id]]
  OBVIOUS
<1> QED
  BY <1>1, <1>2 DEF Covered

\* An append covers one more for the run that makes it ...
LEMMA AppendCovers ==
    ASSUME NEW id \in Ids, NEW n \in Nat, findings[id] \in Seq(Findings),
           NEW v \in Findings, v = Report[id][n + 1],
           findings'[id] = Append(findings[id], v),
           Covered(id, n)
    PROVE  Covered(id, n + 1)'
<1> DEFINE l == Len(findings[id])
<1>1. /\ l \in Nat
      /\ DOMAIN findings[id] = 1 .. l
      /\ DOMAIN findings'[id] = 1 .. l + 1
      /\ \A i \in 1 .. l : findings'[id][i] = findings[id][i]
      /\ findings'[id][l + 1] = v
  OBVIOUS
<1> HIDE DEF l
<1>2. PICK f \in [1 .. n -> 1 .. l] :
         /\ \A i, j \in 1 .. n : i < j => f[i] < f[j]
         /\ \A i \in 1 .. n : Report[id][i] = findings[id][f[i]]
  BY <1>1 DEF Covered
<1> DEFINE g == [i \in 1 .. n + 1 |-> IF i = n + 1 THEN l + 1 ELSE f[i]]
<1>3. /\ g[n + 1] = l + 1
      /\ \A i \in 1 .. n : g[i] = f[i]
      /\ g \in [1 .. n + 1 -> 1 .. l + 1]
  BY <1>1, <1>2
<1> HIDE DEF g
<1>4. ASSUME NEW i \in 1 .. n + 1, NEW j \in 1 .. n + 1, i < j
      PROVE  g[i] < g[j]
  <2>1. i \in 1 .. n /\ f[i] \in 1 .. l
    BY <1>2, <1>4
  <2>2. CASE j = n + 1
    BY <1>1, <1>3, <2>1, <2>2
  <2>3. CASE j # n + 1
    <3>1. j \in 1 .. n
      BY <2>3
    <3> QED
      BY <1>2, <1>3, <1>4, <2>1, <3>1
  <2> QED
    BY <2>2, <2>3
<1>5. ASSUME NEW i \in 1 .. n + 1
      PROVE  Report[id][i] = findings'[id][g[i]]
  <2>1. CASE i = n + 1
    BY <1>1, <1>3, <2>1
  <2>2. CASE i # n + 1
    <3>1. i \in 1 .. n /\ f[i] \in 1 .. l
      BY <1>2, <2>2
    <3> QED
      BY <1>1, <1>2, <1>3, <3>1
  <2> QED
    BY <2>1, <2>2
<1> QED
  BY <1>1, <1>3, <1>4, <1>5 DEF Covered

\* ... and takes nothing from the others.
LEMMA AppendKeeps ==
    ASSUME NEW id \in Ids, NEW n \in Nat, findings[id] \in Seq(Findings),
           NEW v \in Findings, findings'[id] = Append(findings[id], v),
           Covered(id, n)
    PROVE  Covered(id, n)'
<1> DEFINE l == Len(findings[id])
<1>1. /\ l \in Nat
      /\ DOMAIN findings[id] = 1 .. l
      /\ DOMAIN findings'[id] = 1 .. l + 1
      /\ \A i \in 1 .. l : findings'[id][i] = findings[id][i]
  OBVIOUS
<1> HIDE DEF l
<1>2. PICK f \in [1 .. n -> 1 .. l] :
         /\ \A i, j \in 1 .. n : i < j => f[i] < f[j]
         /\ \A i \in 1 .. n : Report[id][i] = findings[id][f[i]]
  BY <1>1 DEF Covered
<1>3. f \in [1 .. n -> 1 .. l + 1]
  BY <1>1, <1>2
<1>4. \A i \in 1 .. n : Report[id][i] = findings'[id][f[i]]
  BY <1>1, <1>2
<1> QED
  BY <1>1, <1>2, <1>3, <1>4 DEF Covered

LEMMA SameCovered ==
    ASSUME NEW id \in Ids, NEW n \in Nat, findings'[id] = findings[id], Covered(id, n)
    PROVE  Covered(id, n)'
<1>1. PICK f \in [1 .. n -> DOMAIN findings[id]] :
         /\ \A i, j \in 1 .. n : i < j => f[i] < f[j]
         /\ \A i \in 1 .. n : Report[id][i] = findings[id][f[i]]
  BY DEF Covered
<1>2. f \in [1 .. n -> DOMAIN findings'[id]]
  OBVIOUS
<1>3. \A i \in 1 .. n : Report[id][i] = findings'[id][f[i]]
  BY <1>1
<1> QED
  BY <1>1, <1>2, <1>3 DEF Covered

LEMMA CoveredAll ==
    ASSUME NEW id \in Ids, Covered(id, Len(Report[id]))
    PROVE  IsSubsequence(Report[id], findings[id])
<1>1. Len(Report[id]) \in Nat /\ DOMAIN Report[id] = 1 .. Len(Report[id])
  BY SystemAssumption
<1> QED
  BY <1>1 DEF Covered, IsSubsequence

\* Every step but an append and a markFinished leaves the copies as they are.
LEMMA QuietCopies ==
    ASSUME TypeOK, Copied,
           findings' = findings,
           \A o \in Ids : status'[o] = "Finished" => status[o] = "Finished",
           \A w \in Workers :
               \/ run'[w] \notin Runs
               \/ run'[w].pc \in {"resolved", "rejected"}
               \/ run'[w].pc = "start" /\ run'[w].next = 1
               \/ /\ run[w] \in Runs /\ run[w].pc = "start"
                  /\ run'[w].pc = "scan"
                  /\ run'[w].id = run[w].id /\ run'[w].next = run[w].next
               \/ /\ run'[w] = run[w]
                  /\ status'[run[w].id] \in Unfinished
                     => status[run[w].id] \in Unfinished
    PROVE  Copied'
<1>1. \A id \in Ids : \A n \in Nat : Covered(id, n)' <=> Covered(id, n)
  BY DEF Covered
<1>2. ASSUME NEW w \in Workers, run'[w] \in Runs, run'[w].pc = "scan"
      PROVE  /\ run'[w].next <= Len(Report[run'[w].id]) + 1
             /\ status'[run'[w].id] \in Unfinished
                => Covered(run[w].id, run[w].next - 1)'
  <2>1. CASE run[w] \in Runs /\ run[w].pc = "start"
    <3>1. run'[w].id = run[w].id /\ run'[w].next = 1 /\ run[w].id \in Ids
      BY <1>2, <2>1, RunsByCall DEF Copied
    <3>2. Len(Report[run[w].id]) \in Nat
      BY <3>1, SystemAssumption
    <3>3. Covered(run[w].id, 0)'
      BY <3>1, <1>1, NothingCovered
    <3> QED
      BY <3>1, <3>2, <3>3
  <2>2. CASE ~(run[w] \in Runs /\ run[w].pc = "start")
    <3>1. /\ run'[w] = run[w]
          /\ status'[run[w].id] \in Unfinished => status[run[w].id] \in Unfinished
      BY <1>2, <2>2
    <3>2. run[w].id \in Ids /\ run[w].next - 1 \in Nat
      BY <3>1, <1>2, RunsByCall
    <3> QED
      BY <3>1, <3>2, <1>1, <1>2 DEF Copied
  <2> QED
    BY <2>1, <2>2
<1>3. ASSUME NEW w \in Workers, run'[w] \in Runs, run'[w].pc = "start"
      PROVE  run'[w].next = 1
  BY <1>3 DEF Copied
<1>4. FinishedCoversReport'
  BY DEF Copied, FinishedCoversReport, IsSubsequence
<1> QED
  BY <1>2, <1>3, <1>4 DEF Copied

\* A step keeps the copies.
LEMMA StepCopies ==
    ASSUME TypeOK, QueueOK, Linked, Copied, [Next]_vars, TypeOK'
    PROVE  Copied'
<1> USE DEF TypeOK, Record!RecordTypeOK
<1>1. CASE UNCHANGED vars
  BY <1>1, QuietCopies DEF vars, recordVars
<1>2. ASSUME NEW id \in Ids, CreateRecord(id)
      PROVE  Copied'
  <2>1. /\ status[id] = "none"
        /\ status' = [status EXCEPT ![id] = "Queued"]
        /\ findings' = findings /\ run' = run
    BY <1>2 DEF CreateRecord, Record!Create
  <2>2. job[id] = "none"
    BY <1>2 DEF CreateRecord, Linked
  <2>3. \A w \in Workers : run[w] \in Runs => run[w].id \in Ids \ {id}
    BY <2>2, RunsByCall DEF Linked
  <2>4. ASSUME NEW w \in Workers, run[w] \in Runs, status'[run[w].id] \in Unfinished
        PROVE  status[run[w].id] \in Unfinished
    BY <2>1, <2>3, <2>4
  <2>5. \A o \in Ids : status'[o] = "Finished" => status[o] = "Finished"
    BY <2>1
  <2> QED
    BY <2>1, <2>4, <2>5, QuietCopies
<1>3. ASSUME NEW id \in Ids, AddJob(id) \/ AddFails(id) \/ Stalled(id)
      PROVE  Copied'
  <2>1. status' = status /\ findings' = findings /\ run' = run
    BY <1>3 DEF AddJob, AddFails, Stalled, recordVars
  <2> QED
    BY <2>1, QuietCopies
<1>4. ASSUME NEW w \in Workers, Take(w)
      PROVE  Copied'
  <2> DEFINE r == [pc |-> "start", id |-> Head(waiting), next |-> 1]
  <2>1. status' = status /\ findings' = findings /\ run' = [run EXCEPT ![w] = r]
    BY <1>4 DEF Take, recordVars
  <2>2. /\ run'[w].pc = "start" /\ run'[w].next = 1
        /\ \A v \in Workers \ {w} : run'[v] = run[v]
    BY <2>1
  <2> HIDE DEF r
  <2> QED
    BY <2>1, <2>2, QuietCopies
<1>5. ASSUME NEW w \in Workers, Ack(w) \/ Crash(w) \/ Restart(w)
      PROVE  Copied'
  <2>1. /\ status' = status /\ findings' = findings
        /\ run' = [run EXCEPT ![w] = Down] \/ run' = [run EXCEPT ![w] = Idle]
    BY <1>5 DEF Ack, Crash, Restart, recordVars
  <2>2. run'[w] \notin Runs /\ \A v \in Workers \ {w} : run'[v] = run[v]
    BY <2>1, IdleIsNoRun
  <2> QED
    BY <2>1, <2>2, QuietCopies
<1>6. ASSUME NEW w \in Workers, Start(w) \/ Fail(w)
      PROVE  Copied'
  <2> DEFINE id == run[w].id
  <2>1. /\ run[w] \in Runs /\ id \in Ids
        /\ run'[w].id = id
        /\ \A v \in Workers \ {w} : run'[v] = run[v]
        /\ OnlyOpen(id)
    BY <1>6, EngineCalls, RunsByCall
  <2>2. /\ findings' = findings
        /\ status'[id] = "Finished" => status[id] = "Finished"
    BY <1>6, <2>1 DEF Start, Fail, Guarded, recordVars, Record!MarkScanning, Record!MarkFailed
  <2>3. /\ \A o \in Ids : status'[o] = "Finished" => status[o] = "Finished"
        /\ \A o \in Ids : status'[o] \in Unfinished => status[o] \in Unfinished
    BY <2>1, <2>2 DEF OnlyOpen, SameRecord
  <2>4. \/ run[w].pc = "start" /\ run'[w].pc = "scan" /\ run'[w].next = run[w].next
        \/ run'[w].pc = "rejected"
    BY <1>6, <2>1, RunGoesOn DEF Start, Fail, Calls
  <2>5. \A v \in Workers : run[v] \in Runs => run[v].id \in Ids
    BY RunsByCall
  <2>6. ASSUME NEW v \in Workers, v # w
        PROVE  \/ run'[v] \notin Runs
               \/ /\ run'[v] = run[v]
                  /\ status'[run[v].id] \in Unfinished
                     => status[run[v].id] \in Unfinished
    BY <2>1, <2>3, <2>5, <2>6
  <2>7. \A v \in Workers :
               \/ run'[v] \notin Runs
               \/ run'[v].pc \in {"resolved", "rejected"}
               \/ run'[v].pc = "start" /\ run'[v].next = 1
               \/ /\ run[v] \in Runs /\ run[v].pc = "start"
                  /\ run'[v].pc = "scan"
                  /\ run'[v].id = run[v].id /\ run'[v].next = run[v].next
               \/ /\ run'[v] = run[v]
                  /\ status'[run[v].id] \in Unfinished
                     => status[run[v].id] \in Unfinished
    BY <2>1, <2>4, <2>6
  <2> QED
    BY <2>2, <2>3, <2>7, QuietCopies
<1>7. ASSUME NEW w \in Workers, AppendNext(w)
      PROVE  Copied'
  <2>0. run[w] \in Runs /\ run[w].id \in Ids /\ run[w].next \in Nat \ {0}
    BY <1>7, EngineCalls, RunsByCall
  <2>a. PICK id \in Ids, n \in Nat \ {0} : id = run[w].id /\ n = run[w].next
    BY <2>0
  <2> DEFINE v == Report[id][n]
  <2>1. /\ run[w] \in Runs /\ id \in Ids /\ n \in Nat \ {0}
        /\ run'[w].id = id /\ run'[w].next = n + 1 /\ run'[w].pc = "scan"
        /\ \A u \in Workers \ {w} : run'[u] = run[u]
        /\ OnlyOpen(id)
        /\ run[w].pc = "scan"
    BY <1>7, <2>0, <2>a, EngineCalls, RunAppends DEF AppendNext
  <2>2. /\ Report[id] \in Seq(Findings) /\ n \in DOMAIN Report[id]
        /\ v \in Findings /\ v \in ToSet(Report[id]) /\ n <= Len(Report[id])
    BY <1>7, <2>a, <2>1, SystemAssumption DEF AppendNext, ToSet
  <2>3. \/ /\ status[id] \in Unfinished /\ status' = status
           /\ findings' = [findings EXCEPT ![id] = Append(findings[id], v)]
        \/ status[id] \notin Unfinished /\ status' = status /\ findings' = findings
    BY <1>7, <2>a DEF AppendNext, Guarded, recordVars, Record!AppendVulnerability
  <2>4. /\ \A o \in Ids : findings[o] \in Seq(Findings)
        /\ status' = status
        /\ \A o \in Ids \ {id} : findings'[o] = findings[o]
    BY <2>3
  <2>5. ASSUME status[id] \in Unfinished
        PROVE  findings'[id] = Append(findings[id], v)
    BY <2>1, <2>3, <2>5
  <2> HIDE DEF v
  <2>6. \A o \in Ids : ToSet(findings'[o]) \subseteq ToSet(Report[o])
    <3>1. CASE status[id] \notin Unfinished
      BY <2>3, <3>1 DEF Copied
    <3>2. CASE status[id] \in Unfinished
      <4>1. ToSet(findings'[id]) = ToSet(findings[id]) \cup {v}
        <5>1. /\ findings'[id] = Append(findings[id], v)
              /\ findings[id] \in Seq(Findings)
              /\ v \in Findings
          BY <2>2, <2>4, <2>5, <3>2
        <5>2. ToSet(Append(findings[id], v)) = ToSet(findings[id]) \cup {v}
          BY <5>1, AppendSet
        <5> QED
          BY <5>1, <5>2
      <4>2. ToSet(findings[id]) \subseteq ToSet(Report[id])
        BY DEF Copied
      <4>3. ASSUME NEW o \in Ids, o # id
            PROVE  ToSet(findings'[o]) \subseteq ToSet(Report[o])
        BY <2>4, <4>3 DEF Copied
      <4>4. ToSet(findings'[id]) \subseteq ToSet(Report[id])
        BY <2>2, <4>1, <4>2
      <4> QED
        BY <4>3, <4>4
    <3> QED
      BY <3>1, <3>2
  <2>7. ASSUME NEW u \in Workers, run'[u] \in Runs
        PROVE  /\ run'[u].pc = "start" => run'[u].next = 1
               /\ run'[u].pc = "scan"
                  => /\ run'[u].next <= Len(Report[run'[u].id]) + 1
                     /\ status'[run'[u].id] \in Unfinished
                        => Covered(run[u].id, run[u].next - 1)'
    <3>1. CASE u = w
      <4>1. ASSUME status'[id] \in Unfinished
            PROVE  Covered(id, n)'
        <5>1. Covered(id, n - 1) /\ n - 1 \in Nat /\ (n - 1) + 1 = n
          BY <2>a, <2>1, <2>4, <4>1 DEF Copied
        <5>2. findings'[id] = Append(findings[id], v) /\ findings[id] \in Seq(Findings)
          BY <2>1, <2>4, <2>5, <4>1
        <5>3. v = Report[id][(n - 1) + 1]
          BY <5>1 DEF v
        <5>4. Covered(id, (n - 1) + 1)'
          BY <2>2, <5>1, <5>2, <5>3, AppendCovers
        <5> QED
          BY <5>1, <5>4
      <4>2. (n + 1) - 1 = n /\ n + 1 <= Len(Report[id]) + 1
        BY <2>1, <2>2, SystemAssumption
      <4>3. run'[u].id = id /\ run'[u].next - 1 = n
        BY <2>1, <3>1, <4>2
      <4>4. run'[u].next <= Len(Report[run'[u].id]) + 1 /\ run'[u].pc = "scan"
        BY <2>1, <3>1, <4>2
      <4> QED
        BY <4>1, <4>3, <4>4
    <3>2. CASE u # w
      <4>0. run'[u] = run[u] /\ run[u].id \in Ids /\ run[u].next - 1 \in Nat
        BY <2>1, <2>7, <3>2, RunsByCall
      <4>1. PICK o \in Ids, m \in Nat : o = run[u].id /\ m = run[u].next - 1
        BY <4>0
      <4>2. ASSUME Covered(o, m), status[o] \in Unfinished
            PROVE  Covered(o, m)'
        <5>1. CASE o = id
          BY <2>1, <2>2, <2>4, <2>5, <4>2, <5>1, AppendKeeps
        <5>2. CASE o # id
          <6>1. findings'[o] = findings[o]
            BY <2>4, <5>2
          <6> QED
            BY <4>2, <6>1, SameCovered
        <5> QED
          BY <5>1, <5>2
      <4> QED
        BY <2>4, <2>7, <4>0, <4>1, <4>2 DEF Copied
    <3> QED
      BY <3>1, <3>2
  <2>8. FinishedCoversReport'
    <3>1. ASSUME NEW o \in Ids, status'[o] = "Finished"
          PROVE  findings'[o] = findings[o] /\ status[o] = "Finished"
      BY <2>3, <2>4, <3>1 DEF Unfinished
    <3> QED
      BY <3>1 DEF Copied, FinishedCoversReport
  <2> QED
    BY <2>6, <2>7, <2>8 DEF Copied
<1>8. ASSUME NEW w \in Workers, Finish(w)
      PROVE  Copied'
  <2> DEFINE id == run[w].id
             n == run[w].next
  <2>1. /\ run[w] \in Runs /\ id \in Ids /\ n \in Nat \ {0}
        /\ run'[w].id = id /\ run'[w].pc = "resolved"
        /\ \A u \in Workers \ {w} : run'[u] = run[u]
        /\ OnlyOpen(id)
        /\ run[w].pc = "scan"
    BY <1>8, EngineCalls, RunsByCall, RunGoesOn DEF Finish, Calls
  <2>2. findings' = findings
    BY <1>8 DEF Finish, Guarded, recordVars, Record!MarkFinished
  <2>3. n = Len(Report[id]) + 1
    <3>1. Len(Report[id]) \in Nat
      BY <2>1, SystemAssumption
    <3> QED
      BY <1>8, <2>1, <3>1 DEF Finish, Copied
  <2>4. status[id] \in Unfinished => IsSubsequence(Report[id], findings[id])
    <3>1. n - 1 = Len(Report[id])
      BY <2>1, <2>3, SystemAssumption
    <3>2. status[id] \in Unfinished => Covered(id, n - 1)
      BY <2>1 DEF Copied
    <3> QED
      BY <2>1, <3>1, <3>2, CoveredAll
  <2>5. \A o \in Ids : status'[o] \in Unfinished => status[o] \in Unfinished
    BY <2>1 DEF OnlyOpen, SameRecord
  <2>6. ASSUME NEW o \in Ids, status'[o] = "Finished"
        PROVE  /\ IsSubsequence(Report[o], findings[o])
               /\ ToSet(findings[o]) \subseteq ToSet(Report[o])
    <3>1. CASE status[o] = "Finished"
      BY <3>1 DEF Copied, FinishedCoversReport
    <3>2. CASE status[o] # "Finished"
      <4>1. o = id /\ status[id] \in Unfinished
        BY <2>1, <2>6, <3>2 DEF OnlyOpen, SameRecord
      <4> QED
        BY <2>4, <4>1 DEF Copied
    <3> QED
      BY <3>1, <3>2
  <2>7. FinishedCoversReport'
    BY <2>2, <2>6 DEF FinishedCoversReport
  <2>8. ASSUME NEW u \in Workers, run'[u] \in Runs
        PROVE  /\ run'[u].pc = "start" => run'[u].next = 1
               /\ run'[u].pc = "scan"
                  => /\ run'[u].next <= Len(Report[run'[u].id]) + 1
                     /\ status'[run'[u].id] \in Unfinished
                        => Covered(run[u].id, run[u].next - 1)'
    <3>1. CASE u = w
      BY <2>1, <3>1
    <3>2. CASE u # w
      <4>0. run'[u] = run[u] /\ run[u].id \in Ids /\ run[u].next - 1 \in Nat
        BY <2>1, <2>8, <3>2, RunsByCall
      <4>1. PICK o \in Ids, m \in Nat : o = run[u].id /\ m = run[u].next - 1
        BY <4>0
      <4>2. Covered(o, m) => Covered(o, m)'
        BY <2>2, SameCovered
      <4> QED
        BY <2>5, <2>8, <4>0, <4>1, <4>2 DEF Copied
    <3> QED
      BY <3>1, <3>2
  <2> QED
    BY <2>2, <2>7, <2>8 DEF Copied
<1> QED
  BY <1>1, <1>2, <1>3, <1>4, <1>5, <1>6, <1>7, <1>8 DEF Next, Work

-----------------------------------------------------------------------------
(* A job that was handed out once has one run, which copies exactly. *)

\* The findings are the first n of the report.
Exactly(id, n) ==
    /\ Len(findings[id]) = n
    /\ \A i \in 1 .. n : findings[id][i] = Report[id][i]

AloneAt(id) ==
    stalls[id] = 0
    => /\ job[id] \in {"none", "waiting"} => status[id] \notin Terminal /\ Exactly(id, 0)
       /\ \A w \in Workers :
            run[w] \in Runs /\ run[w].id = id
            => /\ owner[id] = w
               /\ run[w].pc \in {"start", "scan"}
                  => status[id] \in Unfinished /\ Exactly(id, run[w].next - 1)
       /\ status[id] = "Finished" => findings[id] = Report[id]

Alone == \A id \in Ids : AloneAt(id)

\* A step that changes nothing of one scan, but perhaps ends a run of it.
LEMMA AloneKept ==
    ASSUME NEW id \in Ids, AloneAt(id),
           findings'[id] = findings[id],
           stalls'[id] = 0 => stalls[id] = 0,
           \/ status'[id] = status[id]
           \/ status'[id] = "Queued" /\ status[id] = "none",
           job'[id] \in {"none", "waiting"} => job[id] \in {"none", "waiting"},
           \A w \in Workers : run'[w] \in Runs /\ run'[w].id = id
               => /\ run'[w] = run[w]
                  /\ owner'[id] = owner[id]
                  /\ status[id] # "none"
    PROVE  AloneAt(id)'
BY DEF AloneAt, Exactly, Terminal

LEMMA ExactIsReport ==
    ASSUME TypeOK, NEW id \in Ids, Exactly(id, Len(Report[id]))
    PROVE  findings[id] = Report[id]
<1>1. findings[id] \in Seq(Findings) /\ Report[id] \in Seq(Findings)
  BY SystemAssumption DEF TypeOK, Record!RecordTypeOK
<1> QED
  BY <1>1 DEF Exactly

LEMMA AppendExact ==
    ASSUME NEW id \in Ids, NEW n \in Nat, findings[id] \in Seq(Findings),
           NEW v \in Findings, v = Report[id][n + 1],
           findings'[id] = Append(findings[id], v),
           Exactly(id, n)
    PROVE  Exactly(id, n + 1)'
<1>1. /\ Len(findings'[id]) = n + 1
      /\ \A i \in 1 .. n : findings'[id][i] = findings[id][i]
      /\ findings'[id][n + 1] = v
  BY DEF Exactly
<1>2. ASSUME NEW i \in 1 .. n + 1
      PROVE  findings'[id][i] = Report[id][i]
  BY <1>1 DEF Exactly
<1> QED
  BY <1>1, <1>2 DEF Exactly

\* A call of the engine, seen from the scan it is about.
LEMMA EngineAlone ==
    ASSUME TypeOK, QueueOK, Copied, Alone, NEW w \in Workers, NEW id \in Ids,
           Start(w) \/ AppendNext(w) \/ Finish(w) \/ Fail(w),
           id = run[w].id
    PROVE  AloneAt(id)'
<1> SUFFICES ASSUME stalls'[id] = 0
             PROVE  AloneAt(id)'
  BY DEF AloneAt
<1>1. /\ run[w] \in Runs
      /\ run[w].pc \in {"start", "scan"}
      /\ run'[w].id = id
      /\ \A v \in Workers \ {w} : run'[v] = run[v]
      /\ stalls' = stalls /\ owner' = owner /\ job' = job
  BY EngineCalls DEF queueVars
<1>2. /\ owner[id] = w
      /\ status[id] \in Unfinished
      /\ Exactly(id, run[w].next - 1)
  BY <1>1 DEF Alone, AloneAt
<1>3. job[id] = "active"
  BY <1>2, SystemAssumption DEF QueueOK
<1>4. \A v \in Workers : run'[v] \in Runs /\ run'[v].id = id => v = w
  BY <1>1, <1>2 DEF Alone, AloneAt
<1>5. PICK n \in Nat \ {0} : n = run[w].next
  BY <1>1, RunsByCall
<1>6. /\ findings[id] \in Seq(Findings) /\ Report[id] \in Seq(Findings)
      /\ status \in [Ids -> {"none", "expired", "Queued", "Scanning", "Finished", "Failed"}]
  BY SystemAssumption DEF TypeOK, Record!RecordTypeOK, Record!Unfinished, Record!Terminal
<1>7. CASE Start(w)
  <2>1. /\ run'[w].next = n
        /\ findings' = findings
        /\ status'[id] = "Scanning"
    BY <1>1, <1>2, <1>5, <1>6, <1>7, RunGoesOn
       DEF Start, Calls, Guarded, Record!MarkScanning
  <2> QED
    BY <1>1, <1>2, <1>3, <1>4, <1>5, <2>1 DEF AloneAt, Exactly, Unfinished
<1>8. CASE AppendNext(w)
  <2> DEFINE v == Report[id][n]
  <2>1. /\ run'[w].next = n + 1
        /\ status' = status
        /\ n \in DOMAIN Report[id]
        /\ findings' = [findings EXCEPT ![id] = Append(findings[id], v)]
    BY <1>1, <1>2, <1>5, <1>8, RunAppends
       DEF AppendNext, Guarded, Record!AppendVulnerability
  <2>2. v \in Findings /\ findings'[id] = Append(findings[id], v)
    BY <1>6, <2>1 DEF TypeOK, Record!RecordTypeOK
  <2> HIDE DEF v
  <2>3. PICK m \in Nat : m = n - 1 /\ m + 1 = n
    BY <1>5
  <2>4. Exactly(id, m)
    BY <1>2, <1>5, <2>3
  <2>5. v = Report[id][m + 1]
    BY <2>3 DEF v
  <2>6. Exactly(id, m + 1)'
    BY <1>6, <2>2, <2>4, <2>5, AppendExact
  <2>7. run'[w].next - 1 = m + 1
    BY <2>1, <2>3
  <2>8. status'[id] # "Finished"
    BY <1>2, <2>1 DEF Unfinished
  <2> QED
    BY <1>1, <1>2, <1>3, <1>4, <2>1, <2>6, <2>7, <2>8 DEF AloneAt
<1>9. CASE Finish(w)
  <2>1. /\ run'[w].pc = "resolved"
        /\ findings' = findings
        /\ run[w].pc = "scan" /\ n > Len(Report[id])
    BY <1>1, <1>2, <1>5, <1>9, RunGoesOn
       DEF Finish, Calls, Guarded, Record!MarkFinished
  <2>2. n <= Len(Report[id]) + 1
    BY <1>1, <1>5, <2>1 DEF Copied
  <2>3. n - 1 = Len(Report[id])
    BY <1>6, <2>1, <2>2
  <2>4. findings[id] = Report[id]
    BY <1>2, <1>5, <2>3, ExactIsReport
  <2> QED
    BY <1>1, <1>2, <1>3, <1>4, <2>1, <2>4 DEF AloneAt
<1>10. CASE Fail(w)
  <2>1. run'[w].pc = "rejected"
    BY <1>1, <1>10, RunGoesOn DEF Fail, Calls
  <2>2. /\ findings' = findings
        /\ status'[id] # "Finished"
    BY <1>2, <1>6, <1>10 DEF Fail, Guarded, recordVars, Record!MarkFailed, Unfinished
  <2> QED
    BY <1>1, <1>2, <1>3, <1>4, <2>1, <2>2 DEF AloneAt
<1> QED
  BY <1>7, <1>8, <1>9, <1>10

LEMMA StepAlone ==
    ASSUME TypeOK, QueueOK, Linked, Copied, Alone, [Next]_vars, TypeOK'
    PROVE  Alone'
<1> SUFFICES ASSUME NEW o \in Ids
             PROVE  AloneAt(o)'
  BY DEF Alone
<1>0. AloneAt(o)
  BY DEF Alone
<1>1. \A w \in Workers : run[w] \in Runs => status[run[w].id] # "none"
  BY RunsByCall DEF Linked
<1>2. CASE UNCHANGED vars
  BY <1>0, <1>1, <1>2, AloneKept DEF vars, recordVars, queueVars
<1>3. ASSUME NEW id \in Ids, CreateRecord(id)
      PROVE  AloneAt(o)'
  <2>1. /\ findings' = findings /\ run' = run
        /\ stalls' = stalls /\ owner' = owner /\ job' = job
        /\ status[id] = "none" /\ status' = [status EXCEPT ![id] = "Queued"]
    BY <1>3 DEF CreateRecord, Record!Create, queueVars
  <2>2. \/ status'[o] = status[o]
        \/ status'[o] = "Queued" /\ status[o] = "none"
    BY <2>1 DEF TypeOK, Record!RecordTypeOK
  <2> QED
    BY <1>0, <1>1, <2>1, <2>2, AloneKept
<1>4. ASSUME NEW id \in Ids, AddJob(id) \/ AddFails(id)
      PROVE  AloneAt(o)'
  <2>1. /\ findings' = findings /\ status' = status /\ run' = run
        /\ stalls' = stalls /\ owner' = owner
        /\ job' = [job EXCEPT ![id] = "waiting"] \/ job' = job
        /\ api[id] = "created"
    BY <1>4 DEF AddJob, AddFails, Added, queueVars, recordVars
  <2>2. job[id] = "none"
    BY <2>1 DEF Linked
  <2>3. job'[o] \in {"none", "waiting"} => job[o] \in {"none", "waiting"}
    BY <2>1, <2>2 DEF TypeOK
  <2> QED
    BY <1>0, <1>1, <2>1, <2>3, AloneKept
<1>5. ASSUME NEW id \in Ids, Stalled(id)
      PROVE  AloneAt(o)'
  <2>1. findings' = findings /\ status' = status /\ run' = run
    BY <1>5 DEF Stalled, recordVars
  <2>2. CASE o = id
    BY <1>5, <2>2, QueueStalls DEF AloneAt
  <2>3. CASE o # id
    <3>1. job'[o] = job[o] /\ owner'[o] = owner[o] /\ stalls'[o] = stalls[o]
      BY <1>5, <2>3, QueueStalls
    <3> QED
      BY <1>0, <1>1, <2>1, <3>1, AloneKept
  <2> QED
    BY <2>2, <2>3
<1>6. ASSUME NEW w \in Workers, Take(w)
      PROVE  AloneAt(o)'
  <2>1. PICK id \in Ids : id = Head(waiting)
    BY <1>6, QueueTakes
  <2> DEFINE r == [pc |-> "start", id |-> id, next |-> 1]
  <2>2. /\ job[id] = "waiting" /\ job'[id] = "active"
        /\ owner'[id] = w
        /\ \A p \in Ids \ {id} : job'[p] = job[p] /\ owner'[p] = owner[p]
    BY <1>6, <2>1, QueueTakes
  <2>3. /\ findings' = findings /\ status' = status /\ stalls' = stalls
        /\ run' = [run EXCEPT ![w] = r]
    BY <1>6, <2>1 DEF Take, recordVars
  <2>4. /\ run'[w] = r /\ r.pc = "start" /\ r.id = id /\ r.next = 1
        /\ \A v \in Workers \ {w} : run'[v] = run[v]
    BY <2>3 DEF TypeOK
  <2> HIDE DEF r
  <2>5. CASE o # id
    <3>1. job'[o] = job[o] /\ owner'[o] = owner[o]
      BY <2>2, <2>5
    <3>2. \A v \in Workers : run'[v] \in Runs /\ run'[v].id = o => run'[v] = run[v]
      BY <2>4, <2>5
    <3> QED
      BY <1>0, <1>1, <2>3, <3>1, <3>2, AloneKept
  <2>6. CASE o = id /\ stalls[id] = 0
    <3>1. \A v \in Workers : ~(run[v] \in Runs /\ run[v].id = id)
      <4>1. owner[id] = None
        BY <2>2 DEF QueueOK
      <4> QED
        BY <4>1, <2>6, SystemAssumption DEF Alone, AloneAt
    <3>2. status[id] \in Unfinished
      <4>1. status[id] \notin Terminal
        BY <2>2, <2>6 DEF Alone, AloneAt
      <4>2. status[id] # "none" /\ status[id] # "expired"
        BY <2>2 DEF Linked
      <4> QED
        BY <4>1, <4>2 DEF TypeOK, Record!RecordTypeOK, Record!Unfinished,
                          Record!Terminal, Unfinished, Terminal
    <3>3. Exactly(id, 0)
      BY <2>2, <2>6 DEF Alone, AloneAt
    <3>4. Exactly(id, 0)'
      BY <2>3, <3>3 DEF Exactly
    <3>5. run'[w].next - 1 = 0
      BY <2>4
    <3>6. ASSUME NEW v \in Workers, run'[v] \in Runs, run'[v].id = id
          PROVE  v = w
      BY <2>4, <3>1, <3>6
    <3>7. status'[id] # "Finished"
      BY <2>3, <3>2 DEF Unfinished
    <3> QED
      BY <2>2, <2>3, <2>6, <3>2, <3>4, <3>5, <3>6, <3>7 DEF AloneAt
  <2>7. CASE o = id /\ stalls[id] # 0
    BY <2>3, <2>7 DEF AloneAt
  <2> QED
    BY <2>5, <2>6, <2>7
<1>7. ASSUME NEW w \in Workers, Ack(w)
      PROVE  AloneAt(o)'
  <2>1. run[w] \in Runs /\ run[w].id \in Ids
    BY <1>7, RunsByCall DEF Ack, Calls
  <2>2. PICK id \in Ids : id = run[w].id
    BY <2>1
  <2>3. /\ findings' = findings /\ status' = status /\ stalls' = stalls
        /\ run' = [run EXCEPT ![w] = Idle]
    BY <1>7 DEF Ack, recordVars
  <2>4. run'[w] \notin Runs /\ \A v \in Workers \ {w} : run'[v] = run[v]
    BY <2>3, IdleIsNoRun DEF TypeOK
  <2>5. \A p \in Ids \ {id} : job'[p] = job[p] /\ owner'[p] = owner[p]
    BY <1>7, <2>2, QueueSettles
  <2>6. job'[id] \in {"none", "waiting"} => job[id] \in {"none", "waiting"}
    <3>1. CASE owner[id] = w
      BY <1>7, <2>2, <3>1, QueueSettles
    <3>2. CASE owner[id] # w
      BY <1>7, <2>2, <3>2, QueueSettles
    <3> QED
      BY <3>1, <3>2
  <2>7. CASE stalls[o] = 0
    <3>1. ASSUME NEW v \in Workers, run'[v] \in Runs, run'[v].id = o
          PROVE  run'[v] = run[v] /\ owner'[o] = owner[o] /\ status[o] # "none"
      <4>1. v # w /\ run'[v] = run[v]
        BY <2>4, <3>1
      <4>2. o # id
        BY <1>0, <2>1, <2>2, <2>7, <3>1, <4>1 DEF AloneAt
      <4> QED
        BY <1>1, <2>5, <3>1, <4>1, <4>2
    <3>2. job'[o] \in {"none", "waiting"} => job[o] \in {"none", "waiting"}
      BY <2>5, <2>6
    <3> QED
      BY <1>0, <2>3, <3>1, <3>2, AloneKept
  <2>8. CASE stalls[o] # 0
    BY <2>3, <2>8 DEF AloneAt
  <2> QED
    BY <2>7, <2>8
<1>8. ASSUME NEW w \in Workers, Crash(w) \/ Restart(w)
      PROVE  AloneAt(o)'
  <2>1. /\ findings' = findings /\ status' = status
        /\ stalls' = stalls /\ owner' = owner /\ job' = job
        /\ run' = [run EXCEPT ![w] = Down] \/ run' = [run EXCEPT ![w] = Idle]
    BY <1>8 DEF Crash, Restart, recordVars, queueVars
  <2>2. run'[w] \notin Runs /\ \A v \in Workers \ {w} : run'[v] = run[v]
    BY <2>1, IdleIsNoRun DEF TypeOK
  <2>3. \A v \in Workers : run'[v] \in Runs => run'[v] = run[v]
    BY <2>2
  <2> QED
    BY <1>0, <1>1, <2>1, <2>3, AloneKept
<1>9. ASSUME NEW w \in Workers, Start(w) \/ AppendNext(w) \/ Finish(w) \/ Fail(w)
      PROVE  AloneAt(o)'
  <2>1. CASE o = run[w].id
    BY <1>9, <2>1, EngineAlone
  <2>2. CASE o # run[w].id
    <3>1. /\ run'[w].id = run[w].id
          /\ \A v \in Workers \ {w} : run'[v] = run[v]
          /\ findings'[o] = findings[o] /\ status'[o] = status[o]
          /\ stalls' = stalls /\ owner' = owner /\ job' = job
      BY <1>9, <2>2, EngineCalls DEF OnlyOpen, SameRecord, queueVars
    <3>2. \A v \in Workers : run'[v] \in Runs /\ run'[v].id = o => run'[v] = run[v]
      BY <2>2, <3>1
    <3> QED
      BY <1>0, <1>1, <3>1, <3>2, AloneKept
  <2> QED
    BY <2>1, <2>2
<1> QED
  BY <1>2, <1>3, <1>4, <1>5, <1>6, <1>7, <1>8, <1>9 DEF Next, Work

-----------------------------------------------------------------------------
(* How a job that failed, or a run that rejected, left its record. *)

Explained(id) ==
    status[id] \in Terminal \/ id \in unsaved \/ stalls[id] > MaxStalled

Told ==
    /\ \A id \in Ids : api[id] = "accepted" => job[id] # "none"
    /\ \A w \in Workers :
         run[w] \in Runs /\ run[w].pc = "rejected"
         => status[run[w].id] \in Terminal \/ run[w].id \in unsaved
    /\ \A id \in Ids : job[id] = "failed" => Explained(id)

\* Ends, lost writes and stalls are for good.
LEMMA ExplainedStays ==
    ASSUME NEW id \in Ids, Explained(id),
           status[id] \in Terminal => status'[id] \in Terminal,
           id \in unsaved => id \in unsaved',
           stalls'[id] = stalls[id]
    PROVE  Explained(id)'
BY DEF Explained

LEMMA StepTells ==
    ASSUME TypeOK, QueueOK, Linked, Told, [Next]_vars, TypeOK'
    PROVE  Told'
<1>1. CASE UNCHANGED vars
  BY <1>1 DEF vars, recordVars, queueVars, Told, Explained
<1>2. ASSUME NEW id \in Ids, CreateRecord(id)
      PROVE  Told'
  <2>1. /\ \A o \in Ids : status[o] \in Terminal => status'[o] \in Terminal
        /\ \A o \in Ids : api'[o] = "accepted" => api[o] = "accepted"
        /\ job' = job /\ run' = run /\ stalls' = stalls /\ unsaved' = unsaved
    BY <1>2 DEF CreateRecord, Record!Create, queueVars, Terminal, TypeOK, Record!RecordTypeOK
  <2>2. \A w \in Workers : run[w] \in Runs => run[w].id \in Ids
    BY RunsByCall
  <2> QED
    BY <2>1, <2>2 DEF Told, Explained
<1>3. ASSUME NEW id \in Ids, AddJob(id) \/ AddFails(id)
      PROVE  Told'
  <2>1. /\ status' = status /\ run' = run /\ stalls' = stalls /\ unsaved' = unsaved
        /\ \A o \in Ids \ {id} : job'[o] = job[o] /\ api'[o] = api[o]
        /\ job'[id] \in {"none", "waiting"}
        /\ api'[id] = "accepted" => job'[id] = "waiting"
    <3>1. job[id] = "none"
      BY <1>3 DEF AddJob, AddFails, Linked
    <3>2. CASE Added(id)
      BY <1>3, <3>2 DEF AddJob, AddFails, Added, recordVars, queueVars, TypeOK
    <3>3. CASE UNCHANGED queueVars /\ api' = [api EXCEPT ![id] = "rejected"]
      BY <1>3, <3>1, <3>3 DEF AddJob, AddFails, recordVars, queueVars, TypeOK
    <3> QED
      BY <1>3, <3>2, <3>3 DEF AddJob, AddFails
  <2> QED
    BY <2>1 DEF Told, Explained
<1>4. ASSUME NEW id \in Ids, Stalled(id)
      PROVE  Told'
  <2>1. /\ job'[id] \in {"waiting", "failed"}
        /\ \A o \in Ids \ {id} : job'[o] = job[o] /\ stalls'[o] = stalls[o]
    BY <1>4, QueueStalls
  <2>2. status' = status /\ run' = run /\ api' = api /\ unsaved' = unsaved
    BY <1>4 DEF Stalled, recordVars
  <2>3. job'[id] = "failed" => stalls'[id] > MaxStalled
    <3>1. stalls[id] \in 0 .. MaxStalled + 1 /\ stalls'[id] = stalls[id] + 1
      BY <1>4 DEF Stalled, TypeOK
    <3>2. CASE stalls[id] < MaxStalled
      BY <1>4, <3>2 DEF Stalled, TypeOK
    <3>3. CASE ~(stalls[id] < MaxStalled)
      BY <3>1, <3>3, SystemAssumption
    <3> QED
      BY <3>2, <3>3
  <2>4. \A o \in Ids : job'[o] = "failed" => Explained(o)'
    BY <2>1, <2>2, <2>3 DEF Told, Explained
  <2>5. \A o \in Ids : api'[o] = "accepted" => job'[o] # "none"
    BY <2>1, <2>2 DEF Told
  <2> QED
    BY <2>2, <2>4, <2>5 DEF Told
<1>5. ASSUME NEW w \in Workers, Take(w)
      PROVE  Told'
  <2> DEFINE id == Head(waiting)
             r == [pc |-> "start", id |-> id, next |-> 1]
  <2>1. /\ job'[id] = "active"
        /\ \A o \in Ids \ {id} : job'[o] = job[o]
    BY <1>5, QueueTakes
  <2>2. /\ status' = status /\ api' = api /\ stalls' = stalls /\ unsaved' = unsaved
        /\ run' = [run EXCEPT ![w] = r]
    BY <1>5 DEF Take, recordVars
  <2>3. run'[w].pc = "start" /\ \A v \in Workers \ {w} : run'[v] = run[v]
    BY <2>2 DEF TypeOK
  <2> HIDE DEF id, r
  <2> QED
    BY <2>1, <2>2, <2>3 DEF Told, Explained
<1>6. ASSUME NEW w \in Workers, Ack(w)
      PROVE  Told'
  <2> DEFINE id == run[w].id
  <2>1. run[w] \in Runs /\ id \in Ids /\ run[w].pc \in {"resolved", "rejected"}
    BY <1>6, RunsByCall DEF Ack, Calls
  <2>2. /\ job'[id] = job[id]
           \/ job'[id] = IF run[w].pc = "resolved" THEN "completed" ELSE "failed"
        /\ \A o \in Ids \ {id} : job'[o] = job[o]
    <3>1. CASE owner[id] = w
      BY <1>6, <2>1, <3>1, QueueSettles
    <3>2. CASE owner[id] # w
      BY <1>6, <2>1, <3>2, QueueSettles
    <3> QED
      BY <3>1, <3>2
  <2>3. /\ status' = status /\ api' = api /\ stalls' = stalls /\ unsaved' = unsaved
        /\ run' = [run EXCEPT ![w] = Idle]
    BY <1>6 DEF Ack, recordVars
  <2>4. run'[w] \notin Runs /\ \A v \in Workers \ {w} : run'[v] = run[v]
    BY <2>3, IdleIsNoRun DEF TypeOK
  <2>5. run[w].pc = "rejected" => Explained(id)
    BY <2>1 DEF Told, Explained
  <2>6. \A o \in Ids : job'[o] = "failed" => Explained(o)
    BY <2>1, <2>2, <2>5 DEF Told
  <2>7. \A o \in Ids : api'[o] = "accepted" => job'[o] # "none"
    BY <2>2, <2>3 DEF Told
  <2> HIDE DEF id
  <2> QED
    BY <2>3, <2>4, <2>6, <2>7 DEF Told, Explained
<1>7. ASSUME NEW w \in Workers, Crash(w) \/ Restart(w)
      PROVE  Told'
  <2>1. /\ status' = status /\ api' = api /\ job' = job
        /\ stalls' = stalls /\ unsaved' = unsaved
        /\ run' = [run EXCEPT ![w] = Down] \/ run' = [run EXCEPT ![w] = Idle]
    BY <1>7 DEF Crash, Restart, recordVars, queueVars
  <2>2. run'[w] \notin Runs /\ \A v \in Workers \ {w} : run'[v] = run[v]
    BY <2>1, IdleIsNoRun DEF TypeOK
  <2> QED
    BY <2>1, <2>2 DEF Told, Explained
<1>8. ASSUME NEW w \in Workers, Start(w) \/ AppendNext(w) \/ Finish(w) \/ Fail(w)
      PROVE  Told'
  <2> DEFINE id == run[w].id
  <2>1. /\ run[w] \in Runs /\ run'[w].id = id
        /\ \A v \in Workers \ {w} : run'[v] = run[v]
        /\ OnlyOpen(id)
        /\ api' = api /\ job' = job /\ stalls' = stalls
    BY <1>8, EngineCalls DEF queueVars
  <2>2. id \in Ids /\ \A v \in Workers : run[v] \in Runs => run[v].id \in Ids
    BY <2>1, RunsByCall
  <2>3. \A o \in Ids : status[o] \in Terminal => status'[o] \in Terminal
    BY <2>1, <2>2 DEF OnlyOpen, SameRecord, Unfinished, Terminal
  <2>4. unsaved \subseteq unsaved'
    BY <1>8 DEF Start, AppendNext, Finish, Fail
  <2>5. status[id] # "none" /\ status[id] # "expired"
    BY <2>1, <2>2 DEF Linked
  <2>6. status[id] \in Unfinished \cup Terminal
    BY <2>2, <2>5 DEF TypeOK, Record!RecordTypeOK, Unfinished, Terminal,
                      Record!Unfinished, Record!Terminal
  <2>7. run'[w].pc = "rejected" => status'[id] \in Terminal \/ id \in unsaved'
    <3>1. CASE Fail(w)
      <4>1. CASE Guarded(id, Record!MarkFailed(id, "failed"))
        BY <2>2, <2>3, <2>6, <4>1
           DEF Guarded, Record!MarkFailed, Terminal, TypeOK, Record!RecordTypeOK
      <4>2. CASE unsaved' = unsaved \cup {id}
        BY <4>2
      <4> QED
        BY <3>1, <4>1, <4>2 DEF Fail
    <3>2. CASE ~Fail(w)
      BY <1>8, <2>1, <3>2, RunGoesOn, RunAppends, EngineCalls
         DEF Start, AppendNext, Finish, Calls
    <3> QED
      BY <3>1, <3>2
  <2> HIDE DEF id
  <2>8. \A o \in Ids : job'[o] = "failed" => Explained(o)'
    BY <2>1, <2>3, <2>4 DEF Told, Explained
  <2>9. \A o \in Ids : api'[o] = "accepted" => job'[o] # "none"
    BY <2>1 DEF Told
  <2>10. ASSUME NEW v \in Workers, run'[v] \in Runs, run'[v].pc = "rejected"
         PROVE  status'[run'[v].id] \in Terminal \/ run'[v].id \in unsaved'
    <3>1. CASE v = w
      BY <2>1, <2>7, <2>10, <3>1
    <3>2. CASE v # w
      BY <2>1, <2>2, <2>3, <2>4, <2>10, <3>2 DEF Told
    <3> QED
      BY <3>1, <3>2
  <2> QED
    BY <2>8, <2>9, <2>10 DEF Told
<1> QED
  BY <1>1, <1>2, <1>3, <1>4, <1>5, <1>6, <1>7, <1>8 DEF Next, Work

-----------------------------------------------------------------------------
(* The theorems. *)

IInv == TypeOK /\ QueueOK /\ Linked /\ Copied /\ Alone /\ Told

LEMMA InitInv == Init => IInv
<1> SUFFICES ASSUME Init
             PROVE  IInv
  OBVIOUS
<1>1. TypeOK /\ QueueOK /\ Linked
  BY InitTypes
<1>2. \A w \in Workers : run[w] \notin Runs
  BY IdleIsNoRun DEF Init
<1>3. \A id \in Ids : findings[id] = <<>> /\ status[id] = "none"
  BY DEF Init, Record!Init
<1>4. Copied
  BY <1>2, <1>3 DEF Copied, FinishedCoversReport, ToSet
<1>5. Alone
  BY <1>2, <1>3 DEF Alone, AloneAt, Exactly, Terminal
<1>6. Told
  BY <1>2 DEF Init, Told
<1> QED
  BY <1>1, <1>4, <1>5, <1>6 DEF IInv

\* Queue, records and runs stay in step in every reachable state.
THEOREM InvAlways == Spec => []IInv
<1>1. Init => IInv
  BY InitInv
<1>2. IInv /\ [Next]_vars => IInv'
  BY StepTypes, StepLinks, StepCopies, StepAlone, StepTells DEF IInv
<1> QED
  BY <1>1, <1>2, PTL DEF Spec

\* The type invariant of the pipeline: the wait list of the queue
\* (worker/scan-worker.ts, scan/scan.service.ts) holds each waiting job once.
THEOREM SystemTypeCorrect == Spec => []TypeOK
<1>1. IInv => TypeOK
  BY DEF IInv
<1> QED
  BY <1>1, InvAlways, PTL

\* ScanEngine.run and the queue: a Finished scan lists every finding of its
\* report in file order, and nothing else, whichever runs wrote to the record.
THEOREM FinishedCovers == Spec => []FinishedCoversReport
<1>1. IInv => FinishedCoversReport
  BY DEF IInv, Copied
<1> QED
  BY <1>1, InvAlways, PTL

\* A scan whose job BullMQ handed out once lists every finding exactly once.
THEOREM HandedOutOnceIsExact == Spec => []ExactUnlessRedelivered
<1>1. IInv => ExactUnlessRedelivered
  BY DEF IInv, Alone, AloneAt, ExactUnlessRedelivered
<1> QED
  BY <1>1, InvAlways, PTL

\* ScanService.enqueue, ScanWorker.process and BullMQ: an accepted scan has a
\* job, and a job that has ended has a closed record, save where recording the
\* failure failed or the job was found stalled beyond the limit.
THEOREM StoresAgree == Spec => []JobAndRecordAgree
<1>1. IInv => JobAndRecordAgree
  BY DEF IInv, Linked, CompletedIsClosed, Told, Explained, JobAndRecordAgree
<1> QED
  BY <1>1, InvAlways, PTL

-----------------------------------------------------------------------------
(* Redeliveries that deaths pay for: locks that do not lapse under the       *)
(* living, as long as the event loop of a worker renews them.                *)

\* Every run holds the lock of its job.
Locked == \A w \in Workers : run[w] \in Runs => owner[run[w].id] = w

\* A job that was found stalled, or is about to be, has cost a death.
Paid ==
    \A id \in Ids :
        /\ stalls[id] <= crashes
        /\ Abandoned(id) => stalls[id] < crashes

LEMMA RunningRuns ==
    ASSUME TypeOK, NEW w \in Workers
    PROVE  Running(w) <=> run[w] \in Runs
BY IdleIsNoRun DEF TypeOK, Running

\* The owner of a job that is not abandoned runs it.
LEMMA OwnedOrAbandoned ==
    ASSUME TypeOK, QueueOK, NEW id \in Ids, job[id] = "active"
    PROVE  /\ owner[id] \in Workers
           /\ Abandoned(id) <=> ~(run[owner[id]] \in Runs /\ run[owner[id]].id = id)
<1>1. owner[id] \in Workers
  BY DEF QueueOK
<1> QED
  BY <1>1, RunningRuns DEF Abandoned

LEMMA InitPays == Init => Locked /\ Paid
<1> SUFFICES ASSUME Init
             PROVE  Locked /\ Paid
  OBVIOUS
<1>1. \A w \in Workers : run[w] \notin Runs
  BY IdleIsNoRun DEF Init
<1> QED
  BY <1>1 DEF Init, Locked, Paid, Abandoned

\* A step of a worker that leaves the jobs as they are.
LEMMA PaidOn ==
    ASSUME TypeOK, QueueOK, TypeOK', QueueOK', Paid,
           owner' = owner, job' = job, stalls' = stalls, crashes' = crashes,
           \A w \in Workers :
               run[w] \in Runs => run'[w] \in Runs /\ run'[w].id = run[w].id
    PROVE  Paid'
<1> SUFFICES ASSUME NEW id \in Ids, Abandoned(id)'
             PROVE  Abandoned(id)
  BY DEF Paid
<1>1. job[id] = "active" /\ owner[id] \in Workers
  BY OwnedOrAbandoned DEF Abandoned
<1>2. run'[owner[id]] \in Runs /\ run'[owner[id]].id = id => Running(owner[id])' /\ (run[owner[id]].id)' = id
  BY <1>1, IdleIsNoRun DEF Running, Idle, Down
<1> QED
  BY <1>1, <1>2, OwnedOrAbandoned DEF Abandoned

LEMMA StepPays ==
    ASSUME ~LocksMayExpire, TypeOK, QueueOK, Locked, Paid, [Next]_vars, TypeOK', QueueOK'
    PROVE  Locked' /\ Paid'
<1>1. ASSUME UNCHANGED <<queueVars, run, crashes>>
      PROVE  Locked' /\ Paid'
  BY <1>1 DEF queueVars, Locked, Paid, Abandoned, Running
<1>2. CASE UNCHANGED vars
  BY <1>1, <1>2 DEF vars
<1>3. ASSUME NEW id \in Ids, CreateRecord(id)
      PROVE  Locked' /\ Paid'
  BY <1>1, <1>3 DEF CreateRecord
<1>4. ASSUME NEW id \in Ids, AddJob(id) \/ AddFails(id)
      PROVE  Locked' /\ Paid'
  <2>1. CASE Added(id)
    <3>1. /\ owner' = owner /\ stalls' = stalls /\ run' = run /\ crashes' = crashes
          /\ job' = [job EXCEPT ![id] = "waiting"]
      BY <1>4, <2>1 DEF AddJob, AddFails, Added
    <3>2. \A o \in Ids : job'[o] = "active" => job[o] = "active"
      BY <3>1 DEF QueueOK
    <3> QED
      BY <3>1, <3>2 DEF Locked, Paid, Abandoned, Running
  <2>2. CASE UNCHANGED queueVars
    BY <1>1, <1>4, <2>2 DEF AddJob, AddFails
  <2> QED
    BY <1>4, <2>1, <2>2 DEF AddJob, AddFails
<1>5. ASSUME NEW id \in Ids, Stalled(id)
      PROVE  Locked' /\ Paid'
  <2>1. /\ Abandoned(id) /\ job[id] = "active"
        /\ run' = run /\ crashes' = crashes
        /\ stalls'[id] = stalls[id] + 1
    BY <1>5 DEF Stalled, QueueOK
  <2>2. /\ job'[id] \in {"waiting", "failed"}
        /\ \A o \in Ids \ {id} : job'[o] = job[o] /\ owner'[o] = owner[o] /\ stalls'[o] = stalls[o]
    BY <1>5, QueueStalls
  <2>3. \A w \in Workers : run[w] \in Runs => run[w].id \in Ids \ {id}
    BY <2>1, RunsByCall, OwnedOrAbandoned DEF Locked
  <2>4. Locked'
    BY <2>1, <2>2, <2>3 DEF Locked
  <2>5. stalls[id] < crashes /\ stalls[id] \in Nat /\ crashes \in Nat
    BY <2>1, SystemAssumption DEF Paid, QueueOK, TypeOK
  <2>6. stalls'[id] <= crashes /\ ~Abandoned(id)'
    BY <2>1, <2>2, <2>5 DEF Abandoned
  <2>7. \A o \in Ids \ {id} : Abandoned(o)' <=> Abandoned(o)
    BY <2>1, <2>2 DEF Abandoned, Running
  <2> QED
    BY <2>1, <2>2, <2>4, <2>6, <2>7 DEF Paid
<1>6. ASSUME NEW w \in Workers, Take(w)
      PROVE  Locked' /\ Paid'
  <2> DEFINE id == Head(waiting)
             r == [pc |-> "start", id |-> id, next |-> 1]
  <2>1. /\ id \in Ids
        /\ job[id] = "waiting"
        /\ job'[id] = "active"
        /\ owner'[id] = w
        /\ \A o \in Ids \ {id} : job'[o] = job[o] /\ owner'[o] = owner[o]
    BY <1>6, QueueTakes
  <2>2. /\ run[w] = Idle /\ run[w] \notin Runs
        /\ run' = [run EXCEPT ![w] = r]
        /\ stalls' = stalls /\ crashes' = crashes
    BY <1>6, IdleIsNoRun DEF Take
  <2>3. r \in Runs /\ r.id = id
    BY <2>1 DEF Runs
  <2>4. run'[w] = r /\ \A v \in Workers \ {w} : run'[v] = run[v]
    BY <2>2 DEF TypeOK
  <2> HIDE DEF id, r
  <2>5. \A v \in Workers : run[v] \in Runs => run[v].id \in Ids \ {id}
    <3>1. owner[id] = None
      BY <2>1 DEF QueueOK
    <3> QED
      BY <3>1, RunsByCall, SystemAssumption DEF Locked
  <2>6. Locked'
    BY <2>1, <2>3, <2>4, <2>5 DEF Locked
  <2>7. ASSUME NEW o \in Ids, Abandoned(o)'
        PROVE  Abandoned(o)
    <3>1. CASE o = id
      <4>1. ~(run'[w] \in Runs /\ run'[w].id = id)
        BY <2>1, <2>7, <3>1, OwnedOrAbandoned, IdleIsNoRun DEF Abandoned, Running
      <4> QED
        BY <2>3, <2>4, <4>1
    <3>2. CASE o # id
      <4>1. job[o] = "active" /\ owner'[o] = owner[o]
        BY <2>1, <2>7, <3>2 DEF Abandoned
      <4>2. CASE owner[o] = w
        BY <2>2, <4>1, <4>2 DEF Abandoned, Running
      <4>3. CASE owner[o] # w
        <5>1. owner[o] \in Workers \ {w}
          BY <4>1, <4>3, OwnedOrAbandoned
        <5> QED
          BY <2>4, <2>7, <4>1, <5>1 DEF Abandoned, Running
      <4> QED
        BY <4>2, <4>3
    <3> QED
      BY <3>1, <3>2
  <2> QED
    BY <2>2, <2>6, <2>7 DEF Paid
<1>7. ASSUME NEW w \in Workers, Ack(w)
      PROVE  Locked' /\ Paid'
  <2> DEFINE id == run[w].id
  <2>1. run[w] \in Runs /\ id \in Ids
    BY <1>7, RunsByCall DEF Ack, Calls
  <2>2. owner[id] = w
    BY <2>1 DEF Locked
  <2>3. /\ job'[id] # "active"
        /\ \A o \in Ids \ {id} : job'[o] = job[o] /\ owner'[o] = owner[o]
    BY <1>7, <2>1, <2>2, QueueSettles
  <2>4. stalls' = stalls /\ crashes' = crashes /\ run' = [run EXCEPT ![w] = Idle]
    BY <1>7 DEF Ack
  <2>5. run'[w] = Idle /\ \A v \in Workers \ {w} : run'[v] = run[v]
    BY <2>4 DEF TypeOK
  <2>6. \A v \in Workers \ {w} : run[v] \in Runs => run[v].id \in Ids \ {id}
    BY <2>2, RunsByCall DEF Locked
  <2> HIDE DEF id
  <2>7. Locked'
    BY <2>3, <2>5, <2>6, IdleIsNoRun DEF Locked
  <2>8. ASSUME NEW o \in Ids, Abandoned(o)'
        PROVE  Abandoned(o)
    <3>1. o # id /\ job[o] = "active" /\ owner'[o] = owner[o]
      BY <2>3, <2>8 DEF Abandoned
    <3>2. CASE owner[o] = w
      BY <3>1, <3>2 DEF Abandoned, id
    <3>3. CASE owner[o] # w
      <4>1. owner[o] \in Workers \ {w}
        BY <3>1, <3>3, OwnedOrAbandoned
      <4> QED
        BY <2>5, <2>8, <3>1, <4>1 DEF Abandoned, Running
    <3> QED
      BY <3>2, <3>3
  <2> QED
    BY <2>4, <2>7, <2>8 DEF Paid
<1>8. ASSUME NEW w \in Workers, Crash(w)
      PROVE  Locked' /\ Paid'
  <2>1. /\ owner' = owner /\ job' = job /\ stalls' = stalls
        /\ crashes' = crashes + 1
        /\ run' = [run EXCEPT ![w] = Down]
    BY <1>8 DEF Crash, queueVars
  <2>2. run'[w] = Down /\ \A v \in Workers \ {w} : run'[v] = run[v]
    BY <2>1 DEF TypeOK
  <2>3. Locked'
    BY <2>1, <2>2, IdleIsNoRun DEF Locked
  <2>4. \A id \in Ids : stalls[id] \in Nat /\ crashes \in Nat /\ stalls[id] <= crashes
    BY SystemAssumption DEF TypeOK, Paid
  <2> QED
    BY <2>1, <2>3, <2>4 DEF Paid
<1>9. ASSUME NEW w \in Workers, Restart(w)
      PROVE  Locked' /\ Paid'
  <2>1. /\ owner' = owner /\ job' = job /\ stalls' = stalls /\ crashes' = crashes
        /\ run[w] = Down /\ run' = [run EXCEPT ![w] = Idle]
    BY <1>9 DEF Restart, queueVars
  <2>2. run'[w] = Idle /\ \A v \in Workers \ {w} : run'[v] = run[v]
    BY <2>1 DEF TypeOK
  <2>3. Locked'
    BY <2>1, <2>2, IdleIsNoRun DEF Locked
  <2>4. Paid'
    BY <2>1, <2>2, PaidOn, IdleIsNoRun
  <2> QED
    BY <2>3, <2>4
<1>10. ASSUME NEW w \in Workers, Start(w) \/ AppendNext(w) \/ Finish(w) \/ Fail(w)
       PROVE  Locked' /\ Paid'
  <2>1. /\ run[w] \in Runs /\ run'[w] \in Runs /\ run'[w].id = run[w].id
        /\ \A v \in Workers \ {w} : run'[v] = run[v]
        /\ owner' = owner /\ job' = job /\ stalls' = stalls /\ crashes' = crashes
    BY <1>10, EngineCalls DEF queueVars
  <2>2. Paid'
    BY <2>1, PaidOn
  <2> QED
    BY <2>1, <2>2 DEF Locked
<1> QED
  BY <1>2, <1>3, <1>4, <1>5, <1>6, <1>7, <1>8, <1>9, <1>10 DEF Next, Work

\* While no lock lapses under a living worker, BullMQ's check hands a job out
\* again at most as often as workers have died.
THEOREM StallsNeedDeaths ==
    ASSUME ~LocksMayExpire PROVE Spec => [](\A id \in Ids : stalls[id] <= crashes)
<1>1. Locked /\ Paid /\ IInv /\ [Next]_vars /\ IInv' => (Locked /\ Paid)'
  BY StepPays DEF IInv
<1>2. Paid => \A id \in Ids : stalls[id] <= crashes
  BY DEF Paid
<1> QED
  BY <1>1, <1>2, InitPays, InvAlways, PTL DEF Spec

\* While no lock lapses under a living worker, no two workers run one scan at a
\* time: the assumption under which a record has one writer.
THEOREM OneWorkerPerScan ==
    ASSUME ~LocksMayExpire
    PROVE  Spec => [](\A v, w \in Workers :
                        run[v] \in Runs /\ run[w] \in Runs /\ run[v].id = run[w].id => v = w)
<1>1. Locked /\ Paid /\ IInv /\ [Next]_vars /\ IInv' => (Locked /\ Paid)'
  BY StepPays DEF IInv
<1>2. Locked => \A v, w \in Workers :
                  run[v] \in Runs /\ run[w] \in Runs /\ run[v].id = run[w].id => v = w
  BY DEF Locked
<1> QED
  BY <1>1, <1>2, InitPays, InvAlways, PTL DEF Spec

\* D-07 as it stands: where no worker dies and no lock lapses, a Finished record
\* reads as the one complete scan.  One death is enough to break it.
THEOREM UndisturbedIsExact ==
    ASSUME ~LocksMayExpire, MaxCrashes = 0 PROVE Spec => []FinishedIsReport
<1>1. IInv /\ (\A id \in Ids : stalls[id] <= crashes) => FinishedIsReport
  <2> SUFFICES ASSUME IInv, NEW id \in Ids, stalls[id] <= crashes, status[id] = "Finished"
               PROVE  findings[id] = Report[id]
    BY DEF FinishedIsReport
  <2>1. stalls[id] = 0
    BY SystemAssumption DEF IInv, TypeOK
  <2> QED
    BY <2>1 DEF IInv, Alone, AloneAt
<1> QED
  BY <1>1, StallsNeedDeaths, InvAlways, PTL

\* An accepted scan still open has a job that a worker holds or will be given,
\* unless recording its failure failed: no scan is forgotten while fewer
\* workers die than BullMQ hands a job out again after.  (NotStuckScanning
\* shows the scan that one death more leaves behind.)
THEOREM NoScanForgotten ==
    ASSUME ~LocksMayExpire, MaxCrashes <= MaxStalled
    PROVE  Spec => [](\A id \in Ids :
                        api[id] = "accepted" /\ status[id] \in Unfinished
                        => job[id] \in {"waiting", "active"} \/ id \in unsaved)
<1> DEFINE Held == \A id \in Ids :
                      api[id] = "accepted" /\ status[id] \in Unfinished
                      => job[id] \in {"waiting", "active"} \/ id \in unsaved
<1>1. IInv /\ (\A id \in Ids : stalls[id] <= crashes) => Held
  <2> SUFFICES ASSUME IInv, NEW id \in Ids, stalls[id] <= crashes,
                      api[id] = "accepted", status[id] \in Unfinished,
                      job[id] \notin {"waiting", "active"}
               PROVE  id \in unsaved
    OBVIOUS
  <2>1. ~(stalls[id] > MaxStalled)
    BY SystemAssumption DEF IInv, TypeOK
  <2>2. status[id] \notin Terminal
    BY DEF Unfinished, Terminal
  <2>3. job[id] = "failed"
    BY <2>2 DEF IInv, Told, TypeOK, Linked, CompletedIsClosed
  <2> QED
    BY <2>1, <2>2, <2>3 DEF IInv, Told, Explained
<1> QED
  BY <1>1, StallsNeedDeaths, InvAlways, PTL

-----------------------------------------------------------------------------
(* What a client may read of a scan. *)

\* The record of the call a worker makes is the only one it changes, and only
\* while it is unfinished.
LEMMA RecordsKept ==
    ASSUME IInv, [Next]_vars, NEW id \in Ids, status[id] \in Terminal
    PROVE  SameRecord(id)
<1>1. CASE UNCHANGED recordVars
  BY <1>1 DEF recordVars, SameRecord
<1>2. ASSUME NEW o \in Ids, CreateRecord(o)
      PROVE  SameRecord(id)
  BY <1>2 DEF CreateRecord, Record!Create, Terminal, SameRecord, IInv, TypeOK, Record!RecordTypeOK
<1>3. ASSUME NEW w \in Workers, Start(w) \/ AppendNext(w) \/ Finish(w) \/ Fail(w)
      PROVE  SameRecord(id)
  <2>1. run[w].id \in Ids /\ OnlyOpen(run[w].id)
    BY <1>3, EngineCalls DEF IInv, Runs
  <2> QED
    BY <1>1, <2>1 DEF OnlyOpen, Terminal, Unfinished
<1> QED
  BY <1>1, <1>2, <1>3
     DEF Next, Work, vars, AddJob, AddFails, Stalled, Take, Ack, Crash, Restart

\* What a client has read of a scan that ended stays what it reads: no second
\* delivery, no run that lost its lock and no worker that comes back changes a
\* closed record.
THEOREM EndStaysAsRead ==
    Spec => [][\A id \in Ids :
                  status[id] \in Terminal => SameRecord(id)]_vars
<1>1. IInv /\ [Next]_vars
      => [\A id \in Ids : status[id] \in Terminal => SameRecord(id)]_vars
  BY RecordsKept
<1> QED
  BY <1>1, InvAlways, PTL DEF Spec

\* The API and its workers together use every record as the port of the
\* repository promises it.
THEOREM SystemImplementsRecord == Spec => Record!Spec
<1>1. Init => Record!Init
  BY DEF Init
<1>2. IInv /\ [Next]_vars => [Record!Next]_(Record!recordVars)
  <2> SUFFICES ASSUME IInv, [Next]_vars
               PROVE  Record!Next \/ UNCHANGED recordVars
    BY DEF recordVars, Record!recordVars
  <2>1. ASSUME NEW o \in Ids, CreateRecord(o)
        PROVE  Record!Next
    BY <2>1 DEF CreateRecord, Record!Next
  <2>2. ASSUME NEW w \in Workers, Start(w) \/ AppendNext(w) \/ Finish(w) \/ Fail(w)
        PROVE  Record!Next \/ UNCHANGED recordVars
    <3>1. run[w].id \in Ids
      BY <2>2, EngineCalls DEF IInv, Runs
    <3>2. CASE Start(w) \/ Finish(w)
      BY <3>1, <3>2 DEF Start, Finish, Guarded, Record!Next
    <3>3. CASE Fail(w)
      BY <3>1, <3>3 DEF Fail, Guarded, Record!Next
    <3>4. CASE AppendNext(w)
      <4>1. Report[run[w].id][run[w].next] \in Findings
        BY <3>1, <3>4, SystemAssumption DEF AppendNext
      <4> QED
        BY <3>1, <3>4, <4>1 DEF AppendNext, Guarded, Record!Next
    <3> QED
      BY <2>2, <3>2, <3>3, <3>4
  <2> QED
    BY <2>1, <2>2 DEF Next, Work, vars, AddJob, AddFails, Stalled, Take, Ack, Crash, Restart
<1> QED
  BY <1>1, <1>2, InvAlways, PTL DEF Spec, Record!Spec

=============================================================================
