---------------------------- MODULE RunLifecycle ----------------------------
(***************************************************************************)
(* What the run compiler promises about the user's workspace, without      *)
(* versions, artifacts, calls or crashes: the tree is touched only after a *)
(* verdict accepted the work, a verdict is given only in a check of its    *)
(* own, what was accepted is never taken back, and a run counts as applied *)
(* only over a tree that has all of the change.                            *)
(***************************************************************************)
VARIABLES phase,  \* "preparing", "working", "paused", "checking", "accepted",
                  \* "applying" or "applied"
          tree    \* the user's tree: "clean", "partial" or "written"

lifeVars == <<phase, tree>>

LifeInit == phase = "preparing" /\ tree = "clean"

MayFollow ==
  {<<"preparing", "working">>, <<"preparing", "paused">>,
   <<"working", "paused">>, <<"paused", "working">>,
   <<"working", "checking">>, <<"checking", "paused">>, <<"checking", "accepted">>,
   <<"applying", "applied">>}

Move  == /\ \E p \in MayFollow : phase = p[1] /\ phase' = p[2]
         /\ UNCHANGED tree

\* One file of the change reaches the tree; or the last one.
Touch == /\ phase = "accepted" /\ tree # "written" /\ tree' \in {"partial", "written"}
         /\ UNCHANGED phase

Apply == phase = "accepted" /\ tree = "written" /\ phase' = "applying" /\ UNCHANGED tree

LifeNext == Move \/ Touch \/ Apply

LifeSpec == LifeInit /\ [][LifeNext]_lifeVars
=============================================================================
