-------------------------- MODULE MCArtifactStore --------------------------
(***************************************************************************)
(* The artifact store for TLC.                                             *)
(***************************************************************************)
EXTENDS ArtifactStore
=============================================================================
