-------------------------- MODULE SubprocessRunner --------------------------
(***************************************************************************)
(* One call of the spawn runner (apps/api/src/engine/subprocess-runner.ts):*)
(* the child process, the helpers it forks, the two timers, the 'error'    *)
(* and 'close' events, and the promise they settle.  Time is abstracted: an*)
(* armed timer may fire at any moment until it is cleared.                 *)
(* A helper inherits the stderr pipe (stdio is 'ignore','ignore','pipe'),  *)
(* and Node emits 'close' only after the child was reaped AND every holder *)
(* of that pipe is gone.                                                   *)
(***************************************************************************)
EXTENDS Naturals

CONSTANT Helpers    \* processes the child may fork (git-remote-https, ...)

VARIABLES
    child,      \* "unstarted", "failed", "alive", "dead" (zombie), "reaped"
    exit,       \* how the child ended: "none", "zero", "nonzero", "signal"
    sent,       \* signals sent to the child
    forked,     \* helpers started so far
    holders,    \* helpers alive, each holding the stderr pipe open
    killTimer,  \* wall-clock timer: "none", "armed", "fired", "cleared"
    graceTimer, \* SIGTERM -> SIGKILL timer, same values
    timedOut,   \* the flag the wall-clock timer sets
    closed,     \* the 'close' event was emitted
    settled     \* the promise: "pending", "resolved" or its error kind

processVars == <<child, exit, sent, forked, holders>>
runnerVars == <<killTimer, graceTimer, timedOut, closed, settled>>
vars == <<processVars, runnerVars>>

TimerStates == {"none", "armed", "fired", "cleared"}

Rejections == {"launchFailed", "timeout", "failed"}

Init ==
    /\ child = "unstarted"
    /\ exit = "none"
    /\ sent = {}
    /\ forked = {}
    /\ holders = {}
    /\ killTimer = "none"
    /\ graceTimer = "none"
    /\ timedOut = FALSE
    /\ closed = FALSE
    /\ settled = "pending"

-----------------------------------------------------------------------------
\* A promise keeps its first outcome.
Settle(outcome) == settled' = IF settled = "pending" THEN outcome ELSE settled

\* clearTimeout of a fired timer does nothing.
ClearTimers ==
    /\ killTimer' = IF killTimer = "armed" THEN "cleared" ELSE killTimer
    /\ graceTimer' = IF graceTimer = "armed" THEN "cleared" ELSE graceTimer

\* child.kill reaches the process until Node has reaped it.
Signal(s) == sent' = IF child \in {"alive", "dead"} THEN sent \cup {s} ELSE sent

\* spawn either starts the child or fails; the wall-clock timer is armed
\* in both cases.
Run ==
    /\ child = "unstarted"
    /\ child' \in {"alive", "failed"}
    /\ killTimer' = "armed"
    /\ UNCHANGED <<exit, sent, forked, holders, graceTimer, timedOut, closed,
                   settled>>

\* 'error': the child could not be launched.
LaunchError ==
    /\ child = "failed"
    /\ settled = "pending"
    /\ ClearTimers
    /\ Settle("launchFailed")
    /\ UNCHANGED <<processVars, timedOut, closed>>

\* Mutant: SIGTERM is the last word, no SIGKILL follows.
KillTimerNoEscalation ==
    /\ killTimer = "armed"
    /\ killTimer' = "fired"
    /\ timedOut' = TRUE
    /\ Signal("SIGTERM")
    /\ UNCHANGED <<child, exit, forked, holders, graceTimer, closed, settled>>

\* Mutant: the timeout escalates straight away.
KillTimerStraight ==
    /\ killTimer = "armed"
    /\ killTimer' = "fired"
    /\ timedOut' = TRUE
    /\ Signal("SIGKILL")
    /\ UNCHANGED <<child, exit, forked, holders, graceTimer, closed, settled>>

\* The wall-clock budget is over.
KillTimer ==
    /\ killTimer = "armed"
    /\ killTimer' = "fired"
    /\ timedOut' = TRUE
    /\ Signal("SIGTERM")
    /\ graceTimer' = "armed"
    /\ UNCHANGED <<child, exit, forked, holders, closed, settled>>

\* The grace is over; exitCode and signalCode are set once the child is reaped.
GraceTimer ==
    /\ graceTimer = "armed"
    /\ graceTimer' = "fired"
    /\ Signal("SIGKILL")
    /\ UNCHANGED <<child, exit, forked, holders, killTimer, timedOut, closed,
                   settled>>

\* Mutant: a zero exit is looked at before the timeout.
OutcomeZeroFirst ==
    CASE exit = "zero" -> "resolved"
      [] exit # "zero" /\ timedOut -> "timeout"
      [] OTHER -> "failed"

\* What the 'close' handler settles with.
Outcome ==
    CASE timedOut -> "timeout"
      [] ~timedOut /\ exit = "zero" -> "resolved"
      [] OTHER -> "failed"

\* Mutant: the run settles on 'exit', when only the child itself is gone.
CloseOnExit ==
    /\ ~closed
    /\ child = "reaped"
    /\ closed' = TRUE
    /\ ClearTimers
    /\ Settle(Outcome)
    /\ UNCHANGED <<processVars, timedOut>>

\* 'close': the child was reaped and its stderr pipe has no holder left, or
\* the launch failed and 'error' was emitted before.
Close ==
    /\ ~closed
    /\ \/ child = "reaped" /\ holders = {}
       \/ child = "failed" /\ settled # "pending"
    /\ closed' = TRUE
    /\ ClearTimers
    /\ Settle(Outcome)
    /\ UNCHANGED <<processVars, timedOut>>

-----------------------------------------------------------------------------
(* The operating system and the processes. *)

Fork(h) ==
    /\ child = "alive"
    /\ h \notin forked
    /\ forked' = forked \cup {h}
    /\ holders' = holders \cup {h}
    /\ UNCHANGED <<child, exit, sent, runnerVars>>

HelperExit(h) ==
    /\ h \in holders
    /\ holders' = holders \ {h}
    /\ UNCHANGED <<child, exit, sent, forked, runnerVars>>

\* The child ends by itself; after SIGTERM it may still do so, with any code.
ChildExit ==
    /\ child = "alive"
    /\ child' = "dead"
    /\ exit' \in {"zero", "nonzero"}
    /\ UNCHANGED <<sent, forked, holders, runnerVars>>

\* A child may catch SIGTERM, so this is only possible.
SigtermKills ==
    /\ child = "alive"
    /\ "SIGTERM" \in sent
    /\ child' = "dead"
    /\ exit' = "signal"
    /\ UNCHANGED <<sent, forked, holders, runnerVars>>

\* Nothing survives SIGKILL.
SigkillKills ==
    /\ child = "alive"
    /\ "SIGKILL" \in sent
    /\ child' = "dead"
    /\ exit' = "signal"
    /\ UNCHANGED <<sent, forked, holders, runnerVars>>

\* libuv waits for the child, Node sets exitCode or signalCode.
Reap ==
    /\ child = "dead"
    /\ child' = "reaped"
    /\ UNCHANGED <<exit, sent, forked, holders, runnerVars>>

-----------------------------------------------------------------------------
Next ==
    \/ Run \/ LaunchError \/ KillTimer \/ GraceTimer \/ Close
    \/ ChildExit \/ SigtermKills \/ SigkillKills \/ Reap
    \/ \E h \in Helpers : Fork(h) \/ HelperExit(h)

Spec == Init /\ [][Next]_vars

\* Node delivers events and armed timers fire; SIGKILL takes effect.
FairSpec ==
    /\ Spec
    /\ WF_vars(Run) /\ WF_vars(LaunchError) /\ WF_vars(Close)
    /\ WF_vars(KillTimer) /\ WF_vars(GraceTimer)
    /\ WF_vars(SigkillKills) /\ WF_vars(Reap)

\* Helpers end too, sooner or later: nothing in the code sees to it.
HelpersEndSpec == FairSpec /\ \A h \in Helpers : WF_vars(HelperExit(h))

-----------------------------------------------------------------------------
(* Properties. *)

\* Type invariant; a signal escalates in order, and the grace timer exists
\* only after the wall-clock timer fired.
TypeOK ==
    /\ child \in {"unstarted", "failed", "alive", "dead", "reaped"}
    /\ exit \in {"none", "zero", "nonzero", "signal"}
    /\ sent \in SUBSET {"SIGTERM", "SIGKILL"}
    /\ "SIGKILL" \in sent => "SIGTERM" \in sent
    /\ forked \subseteq Helpers
    /\ holders \subseteq forked
    /\ killTimer \in TimerStates
    /\ graceTimer \in TimerStates
    /\ graceTimer # "none" => killTimer = "fired"
    /\ timedOut \in BOOLEAN
    /\ closed \in BOOLEAN
    /\ settled \in {"pending", "resolved"} \cup Rejections

\* A run that was signalled is never taken for a success, even if the child
\* catches SIGTERM and exits 0, or exits 0 while the timer fires.
ResolvedIsClean == settled = "resolved" => exit = "zero" /\ sent = {}

\* launchFailed, which lets Trivy fall back to Docker, is reported for a child
\* that never ran, and only for such a child.
LaunchFailedNeverRan ==
    settled # "pending" => (settled = "launchFailed" <=> child = "failed")

\* What run reports is what happened to the child, in whatever order the
\* deadline, the exit and the events came.
OutcomeIsTrue == ResolvedIsClean /\ LaunchFailedNeverRan

QuietAfterSettle ==
    settled # "pending" => killTimer # "armed" /\ graceTimer # "armed"

GoneWhenSettled ==
    settled \in {"resolved", "timeout", "failed"}
    => child = "reaped" /\ holders = {}

\* A settled run is over: no armed timer will signal a process later, and no
\* process of a started child holds its stderr, so that nothing writes to the
\* scan directory any more.
SettledIsOver == QuietAfterSettle /\ GoneWhenSettled

\* Every run settles: a hung child is terminated, a stubborn one killed.
Settles == child # "unstarted" ~> settled # "pending"

=============================================================================
