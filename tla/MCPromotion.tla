----------------------------- MODULE MCPromotion -----------------------------
(***************************************************************************)
(* Small instances of Promotion for TLC: one call with an entry of every   *)
(* kind, and three calls that compete for the lease (two of them with the  *)
(* same grant).                                                            *)
(***************************************************************************)
EXTENDS Promotion

CONSTANTS fa, fb, fc, fd,   \* replaced, deleted, created, outside every change set
          r1, r2, r3        \* calls

Replace(p, v) == [kind |-> "REPLACE", path |-> p, after |-> v]
Create(p, v)  == [kind |-> "CREATE", path |-> p, after |-> v]
Delete(p)     == [kind |-> "DELETE", path |-> p, after |-> NoFile]

\* r2 repeats r1's call; r3 belongs to another run.
MCGrantOf == [r \in Requests |-> IF r = r3 THEN "g2" ELSE "g1"]
MCBase    == [p \in Paths |-> IF p = fc THEN NoFile ELSE "old"]

OneOfEachKind == [r \in Requests |-> <<Replace(fa, "new"), Delete(fb), Create(fc, "new")>>]
Competing     == [r \in Requests |-> IF r = r3 THEN <<Replace(fa, "newer")>>
                                               ELSE <<Replace(fa, "new"), Create(fc, "new")>>]
==============================================================================
