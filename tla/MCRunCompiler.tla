--------------------------- MODULE MCRunCompiler ---------------------------
(***************************************************************************)
(* The run compiler for TLC.                                               *)
(***************************************************************************)
EXTENDS RunCompiler
=============================================================================
