---------------------------- MODULE MCScanEngine ----------------------------
(* Reports of up to three leaves; the shape of each one matters, so they are *)
(* listed: empty, critical only, filtered, repeated, and invalid in places.  *)
EXTENDS ScanEngine

CONSTANTS c1, c2

MCReports == {<<>>, <<c1>>, <<c1, c2>>, <<c1, Minor, c1>>, <<Minor, Minor>>,
              <<c1, Invalid, c2>>, <<Invalid>>, <<c2, c1, Invalid>>}

=============================================================================
