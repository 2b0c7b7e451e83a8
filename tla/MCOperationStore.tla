-------------------------- MODULE MCOperationStore --------------------------
(***************************************************************************)
(* Small instance of OperationStore: two operations out of three kinds     *)
(* that differ in every flag, two runners and a worker.                    *)
(***************************************************************************)
EXTENDS OperationStore

\* CAPTURE_SNAPSHOT and PROMOTE_WORKSPACE are runner kinds, SPAWN_AGENT a
\* worker kind; PROMOTE_WORKSPACE is not reclaimable.
MCKeys        == {"capture", "promote", "spawn"}
MCReclaimable == {"capture", "spawn"}
MCSpawn       == {"spawn"}
MCRunnerKeys  == {"capture", "promote"}
=============================================================================
