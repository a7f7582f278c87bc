--------------------------- MODULE MCTestHarness ---------------------------
(* Every test of the scripts, with each trouble it may meet. *)
EXTENDS TestHarness

MCTroubles ==
    {"none", "noBuild", "noDocker", "noRedis", "noTmp", "noSpace", "overLimit", "crashes",
     "deaf", "dirtyExit", "anyEnv", "enqueues", "overwrites", "skipsScanning", "keepsFiles",
     "settlesWrong", "scanFails", "slowPing", "noRemove"}

=============================================================================
