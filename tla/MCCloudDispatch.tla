-------------------------- MODULE MCCloudDispatch --------------------------
(***************************************************************************)
(* Cloud dispatch for TLC: the dispatchers are interchangeable.            *)
(***************************************************************************)
EXTENDS CloudDispatch, TLC

Symmetric == Permutations(Dispatchers) \cup Permutations(Requests)
=============================================================================
