---------------------------- MODULE MCScanSystem ----------------------------
(* Reports for ScanSystem: scan s1 finds two things, s2 finds one. *)
EXTENDS ScanSystem, TLC

CONSTANTS s1, s2, w1, w2, c1, c2

MCReport == (s1 :> <<c1, c2>>) @@ (s2 :> <<c2>>)

OneReport == s1 :> <<c1, c2>>

=============================================================================
