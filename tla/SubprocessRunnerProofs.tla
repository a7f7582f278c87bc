----------------------- MODULE SubprocessRunnerProofs -----------------------
(***************************************************************************)
(* The safety properties of SubprocessRunner for any set of helpers.  That *)
(* a run settles is liveness, and model-checked; NoChildIsForgotten proves *)
(* what it rests on.                                                       *)
(***************************************************************************)
EXTENDS SubprocessRunner, TLAPS

\* The timers follow the run: armed at spawn, silent once it settled, and the
\* flag timedOut says that the wall-clock timer fired.
TimersConsistent ==
    /\ killTimer = "none" <=> child = "unstarted"
    /\ timedOut <=> killTimer = "fired"
    /\ sent # {} => timedOut
    /\ graceTimer # "none" /\ child \in {"alive", "dead"} => "SIGTERM" \in sent
    /\ QuietAfterSettle

\* Which event settled the run, and that it settles no later than 'close'.
SettledConsistent ==
    /\ closed => settled # "pending"
    /\ settled \in {"resolved", "timeout", "failed"} => closed
    /\ settled = "launchFailed" => child = "failed"
    /\ child = "unstarted" => settled = "pending"
    /\ child = "failed" => settled \in {"pending", "launchFailed"}
    /\ child \in {"unstarted", "failed"} => holders = {} /\ forked = {}
    /\ GoneWhenSettled
    /\ ResolvedIsClean

IInv == TypeOK /\ TimersConsistent /\ SettledConsistent

LEMMA InvInit == Init => IInv
  BY DEF Init, IInv, TypeOK, TimersConsistent, SettledConsistent, TimerStates,
         Rejections, QuietAfterSettle, GoneWhenSettled, ResolvedIsClean

LEMMA InvStep == IInv /\ [Next]_vars => IInv'
  <1> SUFFICES ASSUME IInv, [Next]_vars PROVE IInv'
    OBVIOUS
  <1> USE DEF IInv, TypeOK, TimersConsistent, SettledConsistent, TimerStates,
              Rejections, QuietAfterSettle, GoneWhenSettled, ResolvedIsClean
  <1>1. CASE Run
    BY <1>1 DEF Run
  <1>2. CASE LaunchError
    BY <1>2 DEF LaunchError, ClearTimers, Settle, processVars
  <1>3. CASE KillTimer
    BY <1>3 DEF KillTimer, Signal
  <1>4. CASE GraceTimer
    BY <1>4 DEF GraceTimer, Signal
  <1>5. CASE Close
    BY <1>5 DEF Close, ClearTimers, Settle, Outcome, processVars
  <1>6. CASE ChildExit \/ SigtermKills \/ SigkillKills \/ Reap
    <2>1. CASE ChildExit
      BY <2>1 DEF ChildExit, runnerVars
    <2>2. CASE SigtermKills
      BY <2>2 DEF SigtermKills, runnerVars
    <2>3. CASE SigkillKills
      BY <2>3 DEF SigkillKills, runnerVars
    <2>4. CASE Reap
      BY <2>4 DEF Reap, runnerVars
    <2> QED
      BY <1>6, <2>1, <2>2, <2>3, <2>4
  <1>7. ASSUME NEW h \in Helpers, Fork(h) PROVE IInv'
    BY <1>7 DEF Fork, runnerVars
  <1>8. ASSUME NEW h \in Helpers, HelperExit(h) PROVE IInv'
    BY <1>8 DEF HelperExit, runnerVars
  <1>9. CASE UNCHANGED vars
    BY <1>9 DEF vars, processVars, runnerVars
  <1> QED
    BY <1>1, <1>2, <1>3, <1>4, <1>5, <1>6, <1>7, <1>8, <1>9 DEF Next

LEMMA InvAlways == Spec => []IInv
  BY InvInit, InvStep, PTL DEF Spec

\* The run is well typed; SIGKILL follows SIGTERM, never the other way round.
THEOREM RunnerTypeCorrect == Spec => []TypeOK
  <1>1. IInv => TypeOK
    BY DEF IInv
  <1> QED
    BY <1>1, InvAlways, PTL

\* What run reports is what happened: a child that was signalled is no success,
\* and launchFailed is said of the children that never ran.
THEOREM OutcomeIsHonest == Spec => []OutcomeIsTrue
  <1>1. IInv => ResolvedIsClean
    BY DEF IInv, SettledConsistent
  <1>2. IInv => LaunchFailedNeverRan
    BY DEF IInv, SettledConsistent, TypeOK, Rejections, LaunchFailedNeverRan
  <1>3. IInv => OutcomeIsTrue
    BY <1>1, <1>2 DEF OutcomeIsTrue
  <1> QED
    BY <1>3, InvAlways, PTL

\* No timer is armed once the promise settled, and a started child and every
\* holder of its pipe are gone.
THEOREM SettledLeavesNothing == Spec => []SettledIsOver
  <1>1. IInv => SettledIsOver
    BY DEF IInv, TimersConsistent, SettledConsistent, SettledIsOver, QuietAfterSettle, GoneWhenSettled
  <1> QED
    BY <1>1, InvAlways, PTL

\* A settled run is done with: its outcome stands, and nothing of it ever sends
\* a signal again, when the process id may be another process's.
THEOREM SettledForGood ==
    Spec => [][settled # "pending" => settled' = settled /\ sent' = sent]_vars
  <1>1. IInv /\ [Next]_vars => [settled # "pending" => settled' = settled /\ sent' = sent]_vars
    <2> SUFFICES ASSUME IInv, Next, settled # "pending"
                 PROVE  settled' = settled /\ sent' = sent
      OBVIOUS
    <2>1. killTimer # "armed" /\ graceTimer # "armed" /\ child # "unstarted"
      BY DEF IInv, TimersConsistent, SettledConsistent, QuietAfterSettle
    <2> QED
      BY <2>1 DEF Next, Run, LaunchError, KillTimer, GraceTimer, Close, ChildExit, SigtermKills,
                  SigkillKills, Reap, Fork, HelperExit, ClearTimers, Settle, processVars, runnerVars
  <1> QED
    BY <1>1, InvAlways, PTL DEF Spec

-----------------------------------------------------------------------------
(* What a pending run waits for. *)

\* The escalation is under way until the child is gone.
Escalating ==
    /\ child = "alive" => killTimer \in {"armed", "fired"} /\ graceTimer # "cleared"
    /\ killTimer = "fired" => graceTimer # "none"
    /\ child = "alive" /\ graceTimer = "fired" => "SIGKILL" \in sent

LEMMA EscalatingStep == IInv /\ Escalating /\ [Next]_vars => Escalating'
  <1> SUFFICES ASSUME IInv, Escalating, [Next]_vars PROVE Escalating'
    OBVIOUS
  <1> USE DEF IInv, TypeOK, TimersConsistent, SettledConsistent, TimerStates, Escalating
  <1>1. CASE Run
    BY <1>1 DEF Run
  <1>2. CASE LaunchError \/ Close
    BY <1>2 DEF LaunchError, Close, ClearTimers, processVars
  <1>3. CASE KillTimer \/ GraceTimer
    BY <1>3 DEF KillTimer, GraceTimer, Signal
  <1>4. CASE ChildExit \/ SigtermKills \/ SigkillKills \/ Reap
    BY <1>4 DEF ChildExit, SigtermKills, SigkillKills, Reap, runnerVars
  <1>5. CASE \E h \in Helpers : Fork(h) \/ HelperExit(h)
    BY <1>5 DEF Fork, HelperExit, runnerVars
  <1>6. CASE UNCHANGED vars
    BY <1>6 DEF vars, processVars, runnerVars
  <1> QED
    BY <1>1, <1>2, <1>3, <1>4, <1>5, <1>6 DEF Next

\* What a pending run still waits for: 'error' of a child that did not start, a
\* timer or SIGKILL for one that lives, the reaping of one that is dead, and
\* 'close', which only helpers that hold the pipe can keep back.
Watched ==
    settled = "pending" /\ child # "unstarted" =>
        \/ child \in {"failed", "dead"}
        \/ child = "alive" /\ (killTimer = "armed" \/ graceTimer = "armed" \/ "SIGKILL" \in sent)
        \/ child = "reaped" /\ ~closed

\* run never waits for a child that nothing will end: until it is gone one of
\* the two timers is armed or SIGKILL is on its way, whatever the child does
\* with SIGTERM.  The fairness of timers and events turns this into Settles.
THEOREM NoChildIsForgotten == Spec => []Watched
  <1>1. Init => Escalating
    BY DEF Init, Escalating
  <1>2. IInv /\ Escalating => Watched
    BY DEF IInv, TypeOK, SettledConsistent, TimersConsistent, TimerStates, Escalating, Watched
  <1> QED
    BY <1>1, <1>2, InvAlways, EscalatingStep, PTL DEF Spec

=============================================================================
