----------------------------- MODULE AgentWork -----------------------------
(***************************************************************************)
(* The agent DAG of one run: node records (packages/domain/src/dag-engine, *)
(* node-reducer) and the SPAWN_AGENT operations made from them             *)
(* (control-plane/src/services/agent-jobs.ts), driven by the HTTP handlers *)
(* that create the run, take the captured snapshot and settle a completed  *)
(* operation, and by the requeue at start-up.                              *)
(*                                                                         *)
(* A handler runs without interruption up to its next awaited call of the  *)
(* artifact store; there other handlers get their turn.  (An await that    *)
(* needs no I/O resumes before any other handler's I/O does.)  `busy' is   *)
(* the handler that is running; a crash may still fall between two of its  *)
(* transactions.                                                           *)
(*                                                                         *)
(* The operation of attempt k of node n is <<n, k>>: that is its dedupe    *)
(* key.  It is "open" until a worker reports success or failure: expiry,   *)
(* a new lease or an UNKNOWN report leave it so (OperationStore, whose     *)
(* Claimable offers such SPAWN_AGENT rows again and never a failed or      *)
(* succeeded one).  Artifacts, handles, events and workspace leases are    *)
(* left out.                                                               *)
(***************************************************************************)
EXTENDS Naturals, Sequences, FiniteSets

CONSTANTS
  Order,        \* Seq(nodes): the nodes of the compiled profile, in its order
  Analyst,      \* the only node of the bootstrap profile
  Deps,         \* [Nodes -> SUBSET Nodes]: dependsOn
  When,         \* [Nodes -> predicate]: the predicate that enables the node
  Always,       \* no predicate
  Controllers,  \* nodes with an operation of the control plane instead of a role
  Writers,      \* nodes of the write group
  Reviewers,    \* nodes whose artifact is review-findings
  Blocking,     \* the predicate HAS_BLOCKING_FINDINGS
  Selected,     \* predicates the profile selection sets
  RetryLimit,   \* the 3 of failCompletedSpawnJob
  NoHandler,
  MaxAttempts,  \* bound on the attempts of a node that become operations
  MaxFaults     \* bound on bad results, crashes and failing store calls, together

Nodes     == {Order[i] : i \in 1..Len(Order)}
Roles     == Nodes \ Controllers
Attempts  == 1..MaxAttempts
Ops       == Roles \X Attempts
Create    == <<"create", 0>>      \* createRun
Capture   == <<"capture", 0>>     \* completeOperation of CAPTURE_SNAPSHOT
Requeue   == <<"requeue", 0>>     \* requeueRetryingAgentWork
Handlers  == Ops \cup {Create, Capture, Requeue}

ASSUME WorkAssumption ==
  /\ Analyst \in Nodes /\ Controllers \subseteq Nodes \ {Analyst}
  /\ Deps \in [Nodes -> SUBSET Nodes] /\ DOMAIN When = Nodes
  /\ Writers \subseteq Nodes /\ Reviewers \subseteq Roles
  /\ NoHandler \notin Handlers
  /\ {RetryLimit, MaxAttempts, MaxFaults} \subseteq Nat

VARIABLES
  status,      \* agent_nodes.status (a missing row reads as PENDING)
  attempt,     \* agent_nodes.attempt
  compiled,    \* the run has its compiled profile
  predicates,  \* the predicates row
  op,          \* [Ops -> state of the operation]
  pc,          \* where each handler is
  guarded,     \* inside the try block of settleSpawnAgentOperation
  todo,        \* ready nodes a handler has still to spawn
  job,         \* attempt of the node whose request is being stored
  busy,        \* the handler whose synchronous part is running
  server,      \* "up", "down", "starting"
  failures,    \* failed or invalid results so far
  crashes,
  outages      \* failed calls of the artifact store so far

dag    == <<status, attempt, compiled, predicates>>
frames == <<pc, guarded, todo, job, busy>>
faults == <<failures, crashes, outages>>
vars   == <<dag, op, frames, server, faults>>

Init ==
  /\ status = [n \in Nodes |-> "PENDING"] /\ attempt = [n \in Nodes |-> 0]
  /\ compiled = FALSE /\ predicates = {}
  /\ op = [o \in Ops |-> "absent"]
  /\ pc = [h \in Handlers |-> "idle"]
  /\ guarded = [h \in Handlers |-> FALSE]
  /\ todo = [h \in Handlers |-> {}]
  /\ job = [h \in Handlers |-> 0]
  /\ busy = NoHandler /\ server = "up" /\ failures = 0 /\ crashes = 0 /\ outages = 0

----------------------------------------------------------------------------
(* dag-engine and node-reducer, over a map st of node states.              *)

\* The nodes of the profile the cursor is loaded with.
Cursor == IF compiled THEN Nodes ELSE {Analyst}

Enabled(n) == When[n] = Always \/ When[n] \in predicates

\* mutant: a node waiting for its retry keeps the slot
WritingRetrying(st) ==
  {n \in Cursor \cap Writers : st[n] \in {"SPAWNED", "WAITING_ARTIFACT", "VALIDATING", "RETRYING"}}

\* occupiesWriterSlot
Writing(st) == {n \in Cursor \cap Writers : st[n] \in {"SPAWNED", "WAITING_ARTIFACT", "VALIDATING"}}

\* mutant: dependencies need only be under way
ReadyEarly(st) ==
  {n \in Cursor :
     /\ st[n] \in {"PENDING", "RETRYING"} /\ Enabled(n)
     /\ \A d \in Deps[n] : st[d] # "PENDING"
     /\ n \in Writers => Writing(st) = {}}

\* readyNodes
Ready(st) ==
  {n \in Cursor :
     /\ st[n] \in {"PENDING", "RETRYING"} /\ Enabled(n)
     /\ \A d \in Deps[n] : st[d] = "ACCEPTED"
     /\ n \in Writers => Writing(st) = {}}

\* skippedDisabledNodes
Skipped(st) == {n \in Cursor : st[n] = "PENDING" /\ ~Enabled(n)}

\* mutant: every ready node is taken for a controller node
StepsAll(ready) == ready

\* The ready nodes that advanceControllerNodes accepts on the spot.
Steps(ready) == ready \cap Controllers

DagComplete == \A n \in Cursor : Enabled(n) => status[n] = "ACCEPTED"

DagUnrecoverable ==
  /\ \E n \in Cursor : Enabled(n) /\ status[n] = "FAILED"
  /\ \A n \in Cursor : Enabled(n) => status[n] \in {"PENDING", "ACCEPTED", "FAILED"}
  /\ Ready(status) = {}

\* reduceNode accepts NODE_SPAWNED in these states.
MaySpawn(s) == s \in {"PENDING", "RETRYING", "FAILED"}

Put(n, s, k) ==
  /\ status' = [status EXCEPT ![n] = s]
  /\ attempt' = [attempt EXCEPT ![n] = k]

----------------------------------------------------------------------------
(* Handlers.                                                               *)

\* The bound on everything that goes wrong.
MayFail == failures + crashes + outages < MaxFaults

Goto(h, l) == pc' = [pc EXCEPT ![h] = l]

\* h resumes after an await.
Resumes(h, l) == busy = NoHandler /\ pc[h] = l

\* h goes on without an await in between.
Runs(h, l) == busy = h /\ pc[h] = l

\* An exception: the try block around acceptCompletedSpawnJob falls back to
\* failCompletedSpawnJob; anywhere else the request ends with an error.
Throw(h) ==
  /\ Goto(h, IF guarded[h] THEN "failing" ELSE "done")
  /\ guarded' = [guarded EXCEPT ![h] = FALSE]
  /\ todo' = [todo EXCEPT ![h] = {}]
  /\ job' = [job EXCEPT ![h] = 0]
  /\ busy' = IF guarded[h] THEN h ELSE NoHandler

\* createRun after its inserts; completeOperation of the capture.
Begin(h) ==
  /\ server = "up" /\ h \in {Create, Capture} /\ Resumes(h, "idle")
  /\ h = Capture => pc[Create] # "idle"
  /\ Goto(h, "advancing") /\ busy' = h
  /\ UNCHANGED <<dag, op, guarded, todo, job, server, faults>>

\* A worker reports: the operation is durably settled before its request is
\* read back.
Complete(h, outcome) ==
  /\ server = "up" /\ h \in Ops /\ op[h] = "open" /\ Resumes(h, "idle")
  /\ op' = [op EXCEPT ![h] = outcome]
  /\ outcome = "failed" => MayFail
  /\ failures' = IF outcome = "failed" THEN failures + 1 ELSE failures
  /\ Goto(h, "opening")
  /\ UNCHANGED <<dag, guarded, todo, job, busy, server, crashes, outages>>

\* The request was read; the result is read inside the try block.
Opened(h) ==
  /\ Resumes(h, "opening")
  /\ IF op[h] = "succeeded"
     THEN Goto(h, "reading") /\ guarded' = [guarded EXCEPT ![h] = TRUE] /\ UNCHANGED busy
     ELSE Goto(h, "failing") /\ busy' = h /\ UNCHANGED guarded
  /\ UNCHANGED <<dag, op, todo, job, server, faults>>

----------------------------------------------------------------------------
(* acceptCompletedSpawnJob and acceptEnvelope for node h[1].               *)

AlreadyAccepted(h) ==
  /\ Resumes(h, "reading") /\ status[h[1]] = "ACCEPTED"
  /\ Goto(h, "advancing") /\ busy' = h
  /\ UNCHANGED <<dag, op, guarded, todo, job, server, faults>>

\* mutant: the VALIDATING that acceptEnvelope uses in memory is stored
AcceptValidating(h) ==
  /\ Resumes(h, "reading") /\ status[h[1]] # "ACCEPTED"
  /\ Put(h[1], "VALIDATING", IF attempt[h[1]] = 0 THEN 1 ELSE attempt[h[1]])
  /\ Goto(h, "storing") /\ job' = [job EXCEPT ![h] = attempt'[h[1]]]
  /\ UNCHANGED <<compiled, predicates, op, guarded, todo, busy, server, faults>>

\* The node is SPAWNED again; a valid envelope goes to the artifact store.
AcceptValid(h) ==
  /\ Resumes(h, "reading") /\ status[h[1]] # "ACCEPTED"
  /\ Put(h[1], "SPAWNED", IF attempt[h[1]] = 0 THEN 1 ELSE attempt[h[1]])
  /\ Goto(h, "storing") /\ job' = [job EXCEPT ![h] = attempt'[h[1]]]
  /\ UNCHANGED <<compiled, predicates, op, guarded, todo, busy, server, faults>>

\* An invalid envelope retries the node, however many attempts there were.
AcceptInvalid(h) ==
  /\ Resumes(h, "reading") /\ status[h[1]] # "ACCEPTED"
  /\ MayFail /\ failures' = failures + 1
  /\ Put(h[1], "RETRYING", (IF attempt[h[1]] = 0 THEN 1 ELSE attempt[h[1]]) + 1)
  /\ Goto(h, "advancing") /\ busy' = h
  /\ UNCHANGED <<compiled, predicates, op, guarded, todo, job, server, crashes, outages>>

\* The result object does not parse.
ResultUnreadable(h) ==
  /\ Resumes(h, "reading") /\ guarded[h]
  /\ MayFail /\ failures' = failures + 1
  /\ Throw(h)
  /\ UNCHANGED <<dag, op, server, crashes, outages>>

\* The artifact is stored: ACCEPTED, from the record read before the await.
Accepted(h) ==
  /\ Resumes(h, "storing")
  /\ Put(h[1], "ACCEPTED", job[h])
  /\ IF h[1] = Analyst THEN Goto(h, "binding") /\ UNCHANGED busy
     ELSE Goto(h, IF h[1] \in Reviewers THEN "judging" ELSE "advancing") /\ busy' = h
  /\ job' = [job EXCEPT ![h] = 0]
  /\ UNCHANGED <<compiled, predicates, op, guarded, todo, server, faults>>

\* selectAndPersistProfile, after the project adapter was loaded.
BindProfile(h) ==
  /\ Resumes(h, "binding")
  /\ compiled' = TRUE
  /\ predicates' = IF Selected = {} THEN predicates ELSE Selected
  /\ Goto(h, "advancing") /\ busy' = h
  /\ UNCHANGED <<status, attempt, op, guarded, todo, job, server, faults>>

\* Review findings: blocking ones set the predicate.
Judge(h, blocking) ==
  /\ Runs(h, "judging")
  /\ predicates' = IF blocking THEN predicates \cup {Blocking} ELSE predicates
  /\ Goto(h, "advancing")
  /\ UNCHANGED <<status, attempt, compiled, op, guarded, todo, job, busy, server, faults>>

----------------------------------------------------------------------------
(* failCompletedSpawnJob for node h[1].                                    *)

\* mutant: the artifact of an accepted node is not looked at
FailedRecordBlind(s, k) ==
  IF s = "RETRYING" THEN <<s, k>>
  ELSE IF k < RetryLimit THEN <<"RETRYING", k + 1>> ELSE <<"FAILED", k>>

\* What the failure makes of a node record <<status, attempt>>.
FailedRecord(s, k) ==
  IF s \in {"ACCEPTED", "RETRYING"} THEN <<s, k>>
  ELSE IF k < RetryLimit /\ s # "VALIDATING" THEN <<"RETRYING", k + 1>>
  ELSE <<"FAILED", k>>

Failed(h) ==
  /\ Runs(h, "failing")
  /\ LET r == FailedRecord(status[h[1]], attempt[h[1]]) IN Put(h[1], r[1], r[2])
  /\ Goto(h, "advancing")
  /\ UNCHANGED <<compiled, predicates, op, guarded, todo, job, busy, server, faults>>

----------------------------------------------------------------------------
(* enqueueReadyAgentWork.                                                  *)

\* One wave of advanceControllerNodes: skip disabled nodes, then accept every
\* ready controller node.  Without one, the ready role nodes are listed.
Advance(h) ==
  /\ Runs(h, "advancing")
  /\ LET skipped == [n \in Nodes |-> IF n \in Skipped(status) THEN "ACCEPTED" ELSE status[n]]
         ready   == Ready(skipped)
         steps   == Steps(ready)
     IN  /\ status' = [n \in Nodes |-> IF n \in steps THEN "ACCEPTED" ELSE skipped[n]]
         /\ attempt' = [n \in Nodes |-> IF n \in steps THEN 1 ELSE attempt[n]]
         /\ IF steps = {}
            THEN /\ todo' = [todo EXCEPT ![h] = ready]
                 /\ Goto(h, "preparing")
            ELSE UNCHANGED <<todo, pc>>
  /\ UNCHANGED <<compiled, predicates, op, guarded, job, busy, server, faults>>

\* The listed node that comes first in the profile: a list is worked off in its order.
Foremost(list) ==
  {Order[i] : i \in {j \in 1..Len(Order) :
                       Order[j] \in list /\ \A k \in 1..(j - 1) : Order[k] \notin list}}

\* prepareRoleSpawn of the next listed node, then the await for its request.
\* The list may be stale by now: reduceNode refuses a node spawned meanwhile.
Prepare(h) ==
  /\ Runs(h, "preparing")
  /\ \E n \in Foremost(todo[h]) :
       \/ /\ MaySpawn(status[n])
          /\ Put(n, "SPAWNED", IF attempt[n] = 0 THEN 1 ELSE attempt[n])
          /\ job' = [job EXCEPT ![h] = attempt'[n]]
          /\ Goto(h, "uploading") /\ busy' = NoHandler
          /\ UNCHANGED <<guarded, todo>>
       \/ ~MaySpawn(status[n]) /\ Throw(h) /\ UNCHANGED <<status, attempt>>
  /\ UNCHANGED <<compiled, predicates, op, server, faults>>

\* mutant: the key leaves out the attempt
DedupeByNode(n, k) == <<n, 1>>

\* dedupeKey of the operation for attempt k of node n
DedupeKey(n, k) == <<n, k>>

\* The request is stored: enqueueOperation, and on with the list.
Uploaded(h) ==
  /\ Resumes(h, "uploading")
  /\ job[h] \in Attempts
  /\ \E n \in Foremost(todo[h]) :
       /\ op' = [op EXCEPT ![DedupeKey(n, job[h])] = IF @ = "absent" THEN "open" ELSE @]
       /\ todo' = [todo EXCEPT ![h] = @ \ {n}]
  /\ job' = [job EXCEPT ![h] = 0]
  /\ Goto(h, "preparing") /\ busy' = h
  /\ UNCHANGED <<dag, guarded, server, faults>>

\* enqueueOperation throws: the key is taken by an operation with another input.
DedupeConflict(h) ==
  /\ Resumes(h, "uploading")
  /\ job[h] \in Attempts
  /\ \E n \in Foremost(todo[h]) : op[DedupeKey(n, job[h])] # "absent"
  /\ Throw(h)
  /\ UNCHANGED <<dag, op, server, faults>>

\* The list is done; a requeue ends with the server listening.
Return(h) ==
  /\ Runs(h, "preparing") /\ todo[h] = {}
  /\ Goto(h, "done") /\ busy' = NoHandler
  /\ guarded' = [guarded EXCEPT ![h] = FALSE]
  /\ server' = IF h = Requeue THEN "up" ELSE server
  /\ UNCHANGED <<dag, op, todo, job, faults>>

----------------------------------------------------------------------------
(* Faults.                                                                 *)

\* An awaited call of the artifact store fails.
StoreFails(h) ==
  /\ pc[h] \in {"opening", "reading", "storing", "binding", "uploading"}
  /\ busy = NoHandler /\ server = "up"
  /\ MayFail /\ outages' = outages + 1
  /\ Throw(h)
  /\ UNCHANGED <<dag, op, server, failures, crashes>>

Crash ==
  /\ server # "down" /\ MayFail /\ crashes' = crashes + 1
  /\ server' = "down" /\ busy' = NoHandler
  /\ pc' = [h \in Handlers |-> IF pc[h] = "idle" THEN "idle" ELSE "done"]
  /\ guarded' = [h \in Handlers |-> FALSE]
  /\ todo' = [h \in Handlers |-> {}]
  /\ job' = [h \in Handlers |-> 0]
  /\ UNCHANGED <<dag, op, failures, outages>>

\* mutant: nodes found SPAWNED are retried as well
RestartRespawns ==
  /\ server = "down"
  /\ status' = [n \in Nodes |-> IF status[n] = "SPAWNED" THEN "RETRYING" ELSE status[n]]
  /\ attempt' = [n \in Nodes |-> IF status[n] = "SPAWNED" THEN attempt[n] + 1 ELSE attempt[n]]
  /\ server' = "starting" /\ busy' = Requeue /\ Goto(Requeue, "advancing")
  /\ UNCHANGED <<compiled, predicates, op, guarded, todo, job, faults>>

\* mutant: nothing is requeued
RestartIdle ==
  /\ server = "down" /\ server' = "up"
  /\ UNCHANGED <<dag, op, frames, faults>>

\* listenControlPlane: requeueRetryingAgentWork looks for RETRYING nodes only.
Restart ==
  /\ server = "down"
  /\ IF \E n \in Nodes : status[n] = "RETRYING"
     THEN server' = "starting" /\ busy' = Requeue /\ Goto(Requeue, "advancing")
     ELSE server' = "up" /\ UNCHANGED <<busy, pc>>
  /\ UNCHANGED <<dag, op, guarded, todo, job, faults>>

----------------------------------------------------------------------------

Settling(h) ==
  \/ Opened(h) \/ AlreadyAccepted(h) \/ AcceptValid(h) \/ AcceptInvalid(h) \/ ResultUnreadable(h)
  \/ Accepted(h) \/ BindProfile(h) \/ Failed(h)
  \/ \E b \in BOOLEAN : Judge(h, b)

Enqueueing(h) == Advance(h) \/ Prepare(h) \/ Uploaded(h) \/ DedupeConflict(h) \/ Return(h)

\* The handlers that were called and have not answered.
Active == {h \in Handlers : pc[h] \notin {"idle", "done"}}

Serve ==
  \/ \E h \in {Create, Capture} : Begin(h)
  \/ \E h \in Active : Settling(h) \/ Enqueueing(h)
  \/ \E h \in {o \in Ops : op[o] = "open"}, s \in {"succeeded", "failed"} : Complete(h, s)

\* Every request is answered and no operation waits for a worker.
AtRest ==
  /\ server = "up" /\ Active = {}
  /\ pc[Create] = "done" /\ pc[Capture] = "done"
  /\ \A o \in Ops : op[o] # "open"

Next ==
  \/ Serve
  \/ \E h \in Active : StoreFails(h)
  \/ Crash \/ Restart
  \/ AtRest /\ UNCHANGED vars

Spec == Init /\ [][Next]_vars

\* The event loop keeps serving requests and every open operation is reported
\* on in the end: workers poll without a pause, the lease of a lost one expires.
FairSpec == Spec /\ WF_vars(Serve)

----------------------------------------------------------------------------

TypeOK ==
  /\ status \in [Nodes -> {"PENDING", "SPAWNED", "ACCEPTED", "RETRYING", "FAILED"}]
  /\ attempt \in [Nodes -> Nat]
  /\ compiled \in BOOLEAN /\ predicates \subseteq Selected \cup {Blocking}
  /\ op \in [Ops -> {"absent", "open", "succeeded", "failed"}]
  /\ pc \in [Handlers -> {"idle", "opening", "reading", "failing", "storing", "binding", "judging",
                          "advancing", "preparing", "uploading", "done"}]
  /\ guarded \in [Handlers -> BOOLEAN]
  /\ todo \in [Handlers -> SUBSET Roles]
  /\ job \in [Handlers -> Nat]
  /\ busy \in Handlers \cup {NoHandler}
  /\ server \in {"up", "down", "starting"}
  /\ failures \in Nat /\ crashes \in Nat /\ outages \in Nat /\ failures + crashes + outages <= MaxFaults

\* An accepted artifact is never discarded: whatever late, repeated or failed
\* results of other attempts come in, an ACCEPTED node stays ACCEPTED
\* (acceptCompletedSpawnJob, failCompletedSpawnJob, prepareRoleSpawn).
AcceptedForGood ==
  [][\A n \in Nodes : status[n] = "ACCEPTED" => status'[n] = "ACCEPTED"]_vars

\* A node that was spawned, or accepted as a controller's step.
Started(n) == attempt[n] # 0 \/ status[n] \in {"SPAWNED", "RETRYING", "FAILED"}

\* Work starts in dependency order: a node that was ever started has all its
\* dependencies accepted, however stale the list of ready nodes has become
\* across the awaits and whatever became of the dependencies since (readyNodes,
\* enqueueReadyAgentWork).
DependenciesFirst ==
  \A n \in Nodes : Started(n) => \A d \in Deps[n] : status[d] = "ACCEPTED"

\* An enabled role node counts as done only because an agent did it: one of
\* its operations succeeded.
AcceptedMeansWorked ==
  \A n \in Roles :
    Enabled(n) /\ status[n] = "ACCEPTED" => \E k \in Attempts : op[<<n, k>>] = "succeeded"

\* Every handler has answered.
Quiet == server = "up" /\ pc[Create] = "done" /\ Active = {}

\* The one way a node is left behind without any fault: a list of ready nodes
\* outlived all attempts of a node and spawned it once more when it had FAILED,
\* which reduceNode allows; its operation exists already and is settled.
RespawnedLate(n) ==
  status[n] = "SPAWNED" /\ attempt[n] >= RetryLimit /\ op[<<n, attempt[n]>>] \in {"succeeded", "failed"}

\* Without crashes and store outages, no work is forgotten when all requests are
\* answered: every ready node was spawned and every spawned node has an open
\* operation, although handlers list, spawn and fail concurrently.
NothingStranded ==
  Quiet /\ crashes = 0 /\ outages = 0 =>
    /\ Ready(status) = {}
    /\ \A n \in Roles :
         status[n] = "SPAWNED" => op[<<n, attempt[n]>>] = "open" \/ RespawnedLate(n)

\* A retry that was decided survives crashes: once the control plane is up and
\* its requests are answered, no node that could run is still RETRYING
\* (failCompletedSpawnJob, requeueRetryingAgentWork).
RetriesSurvive ==
  Quiet /\ outages = 0 => \A n \in Ready(status) : status[n] # "RETRYING"

\* One agent writes to the run's tree: at no time do two operations of write
\* nodes wait for a worker, two attempts of the same node included.
OneWriter == Cardinality({o \in Ops : o[1] \in Writers /\ op[o] = "open"}) <= 1

\* The DAG gets to its end: without crashes and outages it is complete one day
\* and for good, or unrecoverable because a node used up its attempts (or was
\* respawned then), whatever order the results come in.
RunSettles ==
  <>[](\/ crashes > 0 \/ outages > 0
       \/ DagComplete \/ DagUnrecoverable \/ \E n \in Roles : RespawnedLate(n))
=============================================================================
