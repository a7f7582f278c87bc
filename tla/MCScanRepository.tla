-------------------------- MODULE MCScanRepository --------------------------
(* Symmetric model values for ScanRepository. *)
EXTENDS ScanRepository, TLC

CONSTANTS s1, s2, w1, w2, r1, f1, f2, e1

Symmetry == Permutations({w1, w2})

=============================================================================
