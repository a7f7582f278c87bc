------------------------- MODULE MCSubprocessRunner -------------------------
(* Two helpers, so that one may outlive the other. *)
EXTENDS SubprocessRunner

CONSTANTS h1, h2

=============================================================================
