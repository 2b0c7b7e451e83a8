-------------------------- MODULE ProfileCompiler --------------------------
(***************************************************************************)
(* How a task contract becomes the agent DAG of its run                    *)
(* (packages/domain/src/profile-compiler.ts): the contract is turned into  *)
(* a composition, the fragment of its intent is loaded, secondary intents  *)
(* add nodes, every risk overlay changes the graph in the order in which   *)
(* the contract lists its flags, then packs, delivery and budget do, and   *)
(* a graph with a cycle is refused.                                        *)
(*                                                                         *)
(* A graph is a function from the ids of its nodes to the ids each depends *)
(* on.  Left out: predicates, invalidates, provenance, labels, artifacts.  *)
(***************************************************************************)
EXTENDS Naturals, Sequences, FiniteSets

CONSTANTS
  Contracts,  \* the task contracts an analyst may deliver
  MAX_NODES

\* A contract of either schema version; flags that map to the same overlays are one flag, and
\* "small" says that at most three paths are in scope and every assumption is reversible.
PrimaryIntents ==
  {"research", "diagnosis", "requirements", "specification", "architecture-design", "feature",
   "bugfix", "refactor", "optimization", "dependency-upgrade", "migration", "security-remediation",
   "test-engineering", "documentation", "build-tooling", "incident-response",
   "deprecation-retirement"}

FLAG_OVERLAYS ==
  [f \in {"auth", "secrets", "public-api", "migration", "concurrency", "multi-subsystem", "no-tests",
          "destructive", "generated-code", "emergency", "production-impact", "ui-visible",
          "data-mutation", "external-contract"} |->
     CASE f = "auth" -> {"security-sensitive", "authentication"}
       [] f = "secrets" -> {"security-sensitive"}
       [] f = "multi-subsystem" -> {"cross-cutting"}
       [] OTHER -> {f}]

RiskOverlays == UNION {FLAG_OVERLAYS[f] : f \in DOMAIN FLAG_OVERLAYS}
HIGH_OVERLAYS == RiskOverlays \ {"no-tests", "ui-visible"}

ContractType ==
  [primaryIntent : PrimaryIntents,
   kind : {"feature", "bugfix", "research", "spec", "refactor"},
   secondaryIntents : SUBSET PrimaryIntents,
   riskFlags : SUBSET DOMAIN FLAG_OVERLAYS,
   urgency : {"undefined", "normal", "urgent", "incident"},
   behaviorChanges : BOOLEAN,
   small : BOOLEAN]

ASSUME CompilerAssumption == Contracts \subseteq ContractType /\ MAX_NODES \in Nat

VARIABLES
  contract,
  composition,  \* what composeFromContract decided
  todo,         \* overlays not applied yet
  graph,
  deferred,     \* deferredGates
  pc

vars == <<contract, composition, todo, graph, deferred, pc>>

Nowhere == [n \in {} |-> {}]
Init ==
  /\ contract \in Contracts
  /\ composition = <<>> /\ todo = {} /\ graph = Nowhere /\ deferred = {} /\ pc = "contract"
-----------------------------------------------------------------------------
(* From the contract to a composition.                                     *)

\* contractPrimaryIntent with the rewrites, in the order in which the code makes them.
intentFromKind(kind) == IF kind = "spec" THEN "specification" ELSE kind

Overlays(c) ==
  (UNION {FLAG_OVERLAYS[f] : f \in c.riskFlags})
    \cup (IF c.urgency = "incident" THEN {"emergency"} ELSE {})

Primary(c) ==
  CASE c.primaryIntent = "refactor" /\ c.behaviorChanges -> "feature"
    [] c.primaryIntent = "bugfix" /\ "emergency" \in Overlays(c) -> "incident-response"
    [] c.primaryIntent = "documentation" /\ c.behaviorChanges ->
         intentFromKind(IF c.kind = "spec" THEN "feature" ELSE c.kind)
    [] OTHER -> c.primaryIntent

Secondary(c) ==
  (c.secondaryIntents \cup (IF Primary(c) = "incident-response" THEN {} ELSE {c.primaryIntent}))
    \ {Primary(c)}

\* splitIntoRelatedRuns, by relation: work the rewritten run leaves to another one.
Related(c) ==
  {r \in {"permanent-fix", "implementation", "migration-phase"} :
     \/ r = "permanent-fix" /\ c.primaryIntent = "bugfix" /\ "emergency" \in Overlays(c)
     \/ r = "implementation" /\ c.primaryIntent = "research" /\ c.behaviorChanges
     \/ r = "migration-phase" /\ Primary(c) = "feature" /\ {"destructive", "migration"} \subseteq Overlays(c)}

\* What the contract must show: without it the run is blocked.  A contract of an optimization
\* that is not measurable was refused by logicalConflicts before.
Needed(primary, overlays) ==
  {e \in {"consumer", "rollback", "authorized"} :
     \/ e = "consumer" /\ primary = "deprecation-retirement"
     \/ e = "rollback" /\ "emergency" \in overlays
     \/ e = "authorized" /\ "destructive" \in overlays}

defaultDeliveryFor(intent, urgency) ==
  CASE urgency = "incident" \/ intent = "incident-response" -> "mitigation-patch"
    [] intent \in {"research", "diagnosis"} -> "analysis-only"
    [] intent \in {"requirements", "specification", "architecture-design", "documentation"} ->
         "spec-artifact"
    [] OTHER -> "integration-branch"

executionBudgetFor(primary, overlays, c) ==
  CASE c.small /\ ~c.behaviorChanges /\ overlays = {} /\ primary \in {"feature", "bugfix"} -> "fast"
    [] overlays \cap HIGH_OVERLAYS # {} -> "thorough"
    [] OTHER -> "standard"

composeFromContract ==
  /\ pc = "contract" /\ pc' = "fragment"
  /\ LET primary == Primary(contract)
         overlays == Overlays(contract)
         urgency == CASE contract.urgency # "undefined" -> contract.urgency
                      [] "emergency" \in overlays -> "incident"
                      [] OTHER -> "normal"
     IN  \E missing \in Needed(primary, overlays) \cup {"none"} :
           composition' =
             [primaryIntent |-> primary, secondaryIntents |-> Secondary(contract),
              overlays |-> overlays, deliveryMode |-> defaultDeliveryFor(primary, urgency),
              executionBudget |-> executionBudgetFor(primary, overlays, contract),
              related |-> Related(contract), blockedReason |-> missing]
  /\ UNCHANGED <<contract, todo, graph, deferred>>
-----------------------------------------------------------------------------
(* Graphs.                                                                 *)

\* addNode, for every node of h: a node that is there keeps its place and gains dependencies.
Merge(g, h) ==
  [n \in DOMAIN g \cup DOMAIN h |->
     (IF n \in DOMAIN g THEN g[n] ELSE {}) \cup (IF n \in DOMAIN h THEN h[n] ELSE {})]

addNode(g, n, deps) == Merge(g, [m \in {n} |-> deps])

removeNodes(g, ids) == [n \in DOMAIN g \ ids |-> g[n] \ ids]

\* mutant: the new node hangs beside acceptance.
attachBeside(g, n, deps) ==
  addNode(g, n, IF g["acceptance"] = {} THEN deps ELSE g["acceptance"] \ {n})

\* mutant: a node is attached with the dependencies of its overlay, whatever the fragment has.
attachAsGiven(g, n, deps) ==
  [addNode(g, n, deps) EXCEPT !["acceptance"] = @ \cup {n}]

\* The node waits for what acceptance waits for, and acceptance for the node.
attachBeforeAcceptance(g, n, deps) ==
  [addNode(g, n, IF g["acceptance"] = {} THEN deps ELSE g["acceptance"] \ {n})
     EXCEPT !["acceptance"] = @ \cup {n}]

\* Everything node n waits for, directly or not.
Ancestors(g, n) ==
  LET up[k \in 0..Cardinality(DOMAIN g)] ==
        IF k = 0 THEN g[n] \cap DOMAIN g
        ELSE LET near == up[k - 1] IN near \cup UNION {g[m] \cap DOMAIN g : m \in near}
  IN  up[Cardinality(DOMAIN g)]

hasCycle(g) == \E n \in DOMAIN g : n \in Ancestors(g, n)
-----------------------------------------------------------------------------
(* Fragments.                                                              *)

\* Each node of the sequence depends on the one before it.
Chain(ids) ==
  [n \in {ids[k] : k \in DOMAIN ids} |-> {ids[k] : k \in {j \in 1..(Len(ids) - 1) : ids[j + 1] = n}}]

\* mutant: the repair does not wait for the review.
repairAtOnce(review) == Chain(<<"analyst", "repair-implementer", "fresh-reviewer">>)

\* The writer that repairs what the review found, and a second review.
writeRepairTail(review) == Chain(<<review, "repair-implementer", "fresh-reviewer">>)

FEATURE_PROFILE ==
  Merge(Merge(Chain(<<"analyst", "code-investigator", "planner", "implementer", "integration",
                      "verification", "reviewer", "spec-consistency", "acceptance">>),
              Chain(<<"analyst", "spec-investigator", "planner">>)),
        writeRepairTail("reviewer"))

BUGFIX_PROFILE ==
  Merge(Chain(<<"analyst", "reproduction-investigator", "root-cause-investigator", "planner",
                "implementer", "regression-verification", "reviewer", "acceptance">>),
        writeRepairTail("reviewer"))

RESEARCH_PROFILE ==
  Merge(Merge(Chain(<<"analyst", "code-investigator", "contradiction-finder", "synthesizer",
                      "evidence-completeness", "acceptance">>),
              Chain(<<"analyst", "spec-investigator", "contradiction-finder">>)),
        Merge(Chain(<<"analyst", "history-investigator", "contradiction-finder">>),
              Chain(<<"analyst", "external-investigator">>)))

SPEC_ONLY_PROFILE ==
  Merge(Chain(<<"analyst", "behavior-investigator", "spec-author", "spec-reviewer",
                "consistency-gate", "acceptance">>),
        Chain(<<"analyst", "constraint-investigator", "spec-author">>))

REFACTOR_PROFILE ==
  Chain(<<"analyst", "dependency-investigator", "characterization", "planner", "implementer",
          "equivalence", "architecture-reviewer", "acceptance">>)

loadFragment ==
  [intent \in PrimaryIntents |->
     CASE intent = "feature" -> FEATURE_PROFILE
       [] intent = "bugfix" -> BUGFIX_PROFILE
       [] intent = "research" -> RESEARCH_PROFILE
       [] intent \in {"specification", "requirements"} -> SPEC_ONLY_PROFILE
       [] intent = "refactor" -> REFACTOR_PROFILE
       [] intent = "diagnosis" ->
            Chain(<<"analyst", "reproduction-investigator", "root-cause-investigator",
                    "blast-radius-investigator", "synthesizer", "evidence-completeness", "acceptance">>)
       [] intent = "optimization" ->
            Chain(<<"analyst", "code-investigator", "characterization", "planner", "implementer",
                    "verification", "performance-reviewer", "acceptance">>)
       [] intent = "dependency-upgrade" ->
            Merge(Chain(<<"analyst", "inventory-investigator", "planner", "implementer",
                          "verification", "reviewer", "acceptance">>), writeRepairTail("reviewer"))
       [] intent = "migration" ->
            Merge(Chain(<<"analyst", "phase-investigator", "planner", "implementer",
                          "migration-dry-run", "verification", "reviewer", "acceptance">>),
                  writeRepairTail("reviewer"))
       [] intent = "security-remediation" ->
            Merge(Chain(<<"analyst", "confirmation-investigator", "similar-pattern-investigator",
                          "planner", "implementer", "verification", "security-reviewer", "acceptance">>),
                  writeRepairTail("security-reviewer"))
       [] intent = "incident-response" ->
            Chain(<<"analyst", "impact-investigator", "implementer", "recovery-verification",
                    "postmortem-synthesizer", "acceptance">>)
       [] intent = "deprecation-retirement" ->
            Chain(<<"analyst", "consumer-investigator", "planner", "implementer", "verification",
                    "architecture-reviewer", "acceptance">>)
       [] intent = "test-engineering" ->
            Merge(Chain(<<"analyst", "characterization", "implementer", "verification",
                          "test-reviewer", "acceptance">>), writeRepairTail("test-reviewer"))
       [] intent = "documentation" ->
            Chain(<<"analyst", "docs-investigator", "spec-author", "spec-reviewer", "acceptance">>)
       [] intent = "build-tooling" ->
            Merge(Chain(<<"analyst", "tooling-investigator", "implementer", "verification",
                          "reviewer", "acceptance">>), writeRepairTail("reviewer"))
       [] intent = "architecture-design" ->
            Chain(<<"analyst", "architecture-investigator", "spec-author", "architecture-reviewer",
                    "acceptance">>)]

\* secondaryNodes: one node after the analyst, or none.
secondaryNodes(intents) ==
  LET ids == (IF intents \cap {"specification", "requirements"} # {} THEN {"spec-investigator"} ELSE {})
             \cup (IF "documentation" \in intents THEN {"docs-investigator"} ELSE {})
             \cup (IF intents \cap {"test-engineering", "refactor"} # {} THEN {"characterization"} ELSE {})
             \cup (IF "security-remediation" \in intents THEN {"similar-pattern-investigator"} ELSE {})
  IN  [n \in ids |-> {"analyst"}]

Writers == {"implementer", "repair-implementer", "spec-author"}
Investigators ==
  {"code-investigator", "spec-investigator", "reproduction-investigator", "root-cause-investigator",
   "docs-investigator", "similar-pattern-investigator"}  \* those a fast profile may meet
-----------------------------------------------------------------------------
(* compileRunComposition.                                                  *)

load ==
  /\ pc = "fragment" /\ pc' = "overlays"
  /\ graph' = Merge(loadFragment[composition.primaryIntent],
                    secondaryNodes(composition.secondaryIntents))
  /\ todo' = composition.overlays
  /\ UNCHANGED <<contract, composition, deferred>>

\* Gates an emergency skips.
Skipped == {"spec-consistency", "equivalence"}

Overlaid(g, overlay) ==
  CASE overlay = "security-sensitive" -> attachBeforeAcceptance(g, "security-reviewer", {"reviewer"})
    [] overlay = "public-api" ->
         attachBeforeAcceptance(addNode(g, "consumer-investigator", {"analyst"}),
                                "architecture-reviewer", {"reviewer"})
    [] overlay = "cross-cutting" -> attachBeforeAcceptance(g, "architecture-reviewer", {"reviewer"})
    [] overlay \in {"data-mutation", "migration"} ->
         attachBeforeAcceptance(g, "migration-dry-run", {"implementer"})
    [] overlay = "production-impact" -> attachBeforeAcceptance(g, "rollback-evidence", {"verification"})
    [] overlay = "concurrency" ->
         addNode(g, "second-hypothesis", IF "reproduction-investigator" \in DOMAIN g
                                         THEN {"reproduction-investigator"} ELSE {"analyst"})
    [] overlay = "no-tests" -> addNode(g, "characterization", {"analyst"})
    [] overlay = "generated-code" -> addNode(g, "generator-investigator", {"analyst"})
    [] overlay = "emergency" -> removeNodes(g, Skipped)
    [] OTHER -> g

applyOverlay(overlay) ==
  /\ pc = "overlays" /\ overlay \in todo /\ todo' = todo \ {overlay}
  /\ graph' = Overlaid(graph, overlay)
  /\ deferred' = IF overlay = "emergency"
                 THEN deferred \cup (Skipped \cap DOMAIN graph) \cup {"spec-consistency"} ELSE deferred
  /\ UNCHANGED <<contract, composition, pc>>

\* packs says whether the project's adapter defines one of the packs of the composition.
attachPackNodes ==
  /\ pc = "overlays" /\ todo = {} /\ pc' = "delivery"
  /\ \E packs \in BOOLEAN :
       graph' = IF packs /\ "verification" \notin DOMAIN graph /\ "implementer" \in DOMAIN graph
                THEN addNode(graph, "verification", {"implementer"}) ELSE graph
  /\ UNCHANGED <<contract, composition, todo, deferred>>

applyDelivery ==
  /\ pc = "delivery" /\ pc' = "budget"
  /\ graph' = CASE composition.deliveryMode = "analysis-only" -> removeNodes(graph, Writers)
                [] composition.deliveryMode = "mitigation-patch" ->
                     attachBeforeAcceptance(graph, "rollback-evidence",
                       {"recovery-verification", "verification"} \cap DOMAIN graph)
                [] OTHER -> graph
  /\ deferred' = IF composition.deliveryMode = "mitigation-patch"
                 THEN deferred \cup {"spec-consistency"} ELSE deferred
  /\ UNCHANGED <<contract, composition, todo>>

\* The fast budget leaves one investigator, whatever the profile had, and no planner.
Fast(g) ==
  LET rest == removeNodes(g, {"planner", "plan-critic", "spec-consistency"} \cup Investigators)
  IN  [addNode(rest, "investigator", {"analyst"}) EXCEPT !["implementer"] = {"investigator"}]

applyBudget ==
  /\ pc = "budget" /\ pc' = "check"
  /\ graph' = CASE composition.executionBudget = "fast" -> Fast(graph)
                [] composition.executionBudget = "thorough" /\ "planner" \in DOMAIN graph ->
                     addNode(graph, "plan-critic", {"planner"})
                [] OTHER -> graph
  /\ UNCHANGED <<contract, composition, todo, deferred>>

\* A dependency on a node that is not there is dropped.
compiled ==
  /\ pc = "check" /\ ~hasCycle(graph) /\ Cardinality(DOMAIN graph) <= MAX_NODES
  /\ pc' = "compiled"
  /\ graph' = [n \in DOMAIN graph |-> graph[n] \cap DOMAIN graph]
  /\ UNCHANGED <<contract, composition, todo, deferred>>

throws ==
  /\ pc = "check" /\ (hasCycle(graph) \/ Cardinality(DOMAIN graph) > MAX_NODES)
  /\ pc' = "threw"
  /\ UNCHANGED <<contract, composition, todo, graph, deferred>>

Next ==
  \/ composeFromContract \/ load \/ attachPackNodes \/ applyDelivery \/ applyBudget
  \/ compiled \/ throws
  \/ \E overlay \in RiskOverlays : applyOverlay(overlay)

Spec == Init /\ [][Next]_vars
-----------------------------------------------------------------------------
(* Properties of the compiled profile.                                     *)

\* The node each risk asks for before the work is accepted.
Asked ==
  [o \in {"security-sensitive", "public-api", "cross-cutting", "data-mutation", "migration",
          "production-impact"} |->
     CASE o = "security-sensitive" -> "security-reviewer"
       [] o \in {"public-api", "cross-cutting"} -> "architecture-reviewer"
       [] o \in {"data-mutation", "migration"} -> "migration-dry-run"
       [] o = "production-impact" -> "rollback-evidence"]

\* The review or evidence each risk overlay asks for is in the compiled profile and acceptance
\* waits for it, whatever the intent, the order of the flags, the delivery and the budget did to
\* the graph after the overlay was applied; a mitigation also waits for rollback evidence, and a
\* gate that the overlay left out is owed.
RiskIsGated ==
  pc = "compiled" =>
    LET before == Ancestors(graph, "acceptance")
    IN  /\ \A o \in composition.overlays \cap DOMAIN Asked : Asked[o] \in before
        /\ composition.deliveryMode = "mitigation-patch" => "rollback-evidence" \in before
        /\ composition.executionBudget # "fast" =>
             (Skipped \cap DOMAIN loadFragment[composition.primaryIntent]) \ DOMAIN graph \subseteq deferred

\* Any two nodes that write are ordered by their dependencies: the compiler never makes a
\* profile in which two writers are ready together, so the single-writer rule of the DAG engine
\* never has to choose between them.
WritersInLine ==
  pc = "compiled" =>
    \A v, w \in Writers \cap DOMAIN graph :
      v # w => v \in Ancestors(graph, w) \/ w \in Ancestors(graph, v)

Reviews ==
  {"reviewer", "security-reviewer", "architecture-reviewer", "performance-reviewer",
   "test-reviewer", "spec-reviewer", "migration-dry-run", "rollback-evidence", "acceptance"}

\* An emergency or the fast budget took a gate out of the fragment; the nodes that waited for the
\* gate do not inherit what it waited for.
GateTakenOut ==
  /\ "emergency" \in composition.overlays \/ composition.executionBudget = "fast"
  /\ Skipped \cap DOMAIN loadFragment[composition.primaryIntent] # {}

\* What a profile checks is the work: every review, dry run and acceptance waits for the writer,
\* whatever overlays were attached and in which order, unless a gate was taken out.
WorkBeforeReview ==
  pc = "compiled" /\ ~GateTakenOut =>
    \A r \in Reviews \cap DOMAIN graph :
      {"implementer", "spec-author"} \cap DOMAIN graph \subseteq Ancestors(graph, r)

\* An overlay may be combined with every intent: no contract's profile is refused for a cycle.
OverlaysCompose == pc # "threw"
=============================================================================
