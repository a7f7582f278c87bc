-------------------------- MODULE MCWorkerProcess --------------------------
(* Environments for WorkerProcess: valid and invalid values of each kind. *)
EXTENDS WorkerProcess

MCEnvironments ==
    [NODE_ENV : {{}, {"production"}, {"staging"}},
     SCAN_ENGINE_TEST_FAULT :
        {{}, {"none"}, {"clone"}, {"trivy"}, {"disk-full"}, {"parse"}, {"cleanup"}},
     SHUTDOWN_GRACE_MS : {{}, {0}, {3}, {MaxGrace}, {MaxGrace + 1}},
     SCAN_GIT_ALLOWED_PROTOCOLS : {{}, {{}}, {{"https", "file"}}, {{"https", "ext"}}}]

=============================================================================
