---------------------------- MODULE MCAgentWork ----------------------------
(***************************************************************************)
(* Two small profiles cut from the catalogue's (profile-catalog.ts).       *)
(***************************************************************************)
EXTENDS AgentWork

\* From FEATURE with the HIGH_RISK predicate: the critic of the plan works beside
\* the writer; a controller node follows; a node of another predicate is skipped.
TeamOrder == <<"analyst", "critic", "implementer", "verification", "optional">>
TeamDeps  == [n \in Nodes |->
                CASE n = "analyst" -> {}
                  [] n \in {"critic", "implementer"} -> {"analyst"}
                  [] n \in {"verification", "optional"} -> {"implementer"}]
TeamWhen  == [n \in Nodes |->
                CASE n = "critic" -> "HIGH_RISK"
                  [] n = "optional" -> "EXTERNAL_RESEARCH"
                  [] OTHER -> "ALWAYS"]

\* The repair tail (writeRepairTail) after a review.
RepairOrder == <<"analyst", "implementer", "verification", "reviewer", "repair", "fresh">>
RepairDeps  == [n \in Nodes |->
                  CASE n = "analyst" -> {}
                    [] n = "implementer" -> {"analyst"}
                    [] n = "verification" -> {"implementer"}
                    [] n = "reviewer" -> {"verification"}
                    [] n = "repair" -> {"reviewer"}
                    [] n = "fresh" -> {"repair"}]
RepairWhen  == [n \in Nodes |-> IF n \in {"repair", "fresh"} THEN "BLOCKING" ELSE "ALWAYS"]
=============================================================================
