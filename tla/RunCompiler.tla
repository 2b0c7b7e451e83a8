---------------------------- MODULE RunCompiler ----------------------------
(***************************************************************************)
(* One run of the control plane, from the request that creates it to its   *)
(* last state: the versioned projection and its guarded transitions        *)
(* (packages/domain/src/reducer.ts, state-store/src/repositories/runs.ts), *)
(* the loop that advances it (orchestration/compiler.ts) and the HTTP      *)
(* handlers that enter the loop: createRun under its idempotency row, the  *)
(* report of the captured snapshot, the settlement of agent work and the   *)
(* read of a run in ACCEPTANCE_CHECK.                                      *)
(*                                                                         *)
(* A handler (a call) runs without interruption up to its next awaited     *)
(* access of the artifact store; one action goes from one such point to    *)
(* the next.  Consecutive awaits with no decision between them are one.    *)
(* Three places hold two transactions or file writes in a row: there the   *)
(* call keeps its turn (Sync) but the process may die.                     *)
(*                                                                         *)
(* An artifact is the call that made it: two bindings are equal when one   *)
(* call bound both, and the contract, the profile and the task have one    *)
(* content whoever stores them.  The order, the retries and the lost       *)
(* settlements of the nodes behind the analyst are AgentWork's.            *)
(***************************************************************************)
EXTENDS Naturals, FiniteSets

CONSTANTS
  MaxCalls,   \* names for calls; a name is free again when nothing it made is bound
  MaxActive,  \* bound on the calls at work at a time
  Nodes,      \* the nodes a compiled profile may have behind the analyst
  MaxSends,   \* bound on how often the client sends the createRun request
  MaxFaults   \* bound on crashes, failing store calls and failed work, together

ASSUME CompilerAssumption ==
  /\ {MaxCalls, MaxActive, MaxSends, MaxFaults} \subseteq Nat
  /\ Nodes \cap {"none", "create", "capture", "analyst", "poll"} = {}

Calls  == 1..MaxCalls
Agreed == MaxCalls + 1    \* the author of an artifact with one possible content
Nobody == 0               \* no artifact is bound

\* What follows what on the way to PREFLIGHT_COMPLETE.
SEAL_TARGETS ==
  [SNAPSHOT_REQUESTED     |-> "SNAPSHOT_UPLOADING",
   SNAPSHOT_UPLOADING     |-> "SNAPSHOT_VALIDATING",
   SNAPSHOT_VALIDATING    |-> "SNAPSHOT_READY",
   SNAPSHOT_READY         |-> "INSTRUCTIONS_RESOLVING",
   INSTRUCTIONS_RESOLVING |-> "INDEXING",
   INDEXING               |-> "BASELINE_PLANNING",
   BASELINE_PLANNING      |-> "BASELINE_VERIFYING",
   BASELINE_VERIFYING     |-> "BASELINE_SEALED",
   BASELINE_SEALED        |-> "PREFLIGHT_RUNNING",
   PREFLIGHT_RUNNING      |-> "PREFLIGHT_COMPLETE"]

SealStates == DOMAIN SEAL_TARGETS
TreeStates == {"AWAITING_APPLY_APPROVAL", "APPLY_PREPARING", "APPLYING", "APPLY_RECONCILING"}
States ==
  SealStates \cup TreeStates \cup
  {"ABSENT", "CREATED", "PREFLIGHT_COMPLETE", "CONTRACTED", "PROFILE_SELECTED",
   "PROFILE_RUNNING", "AWAITING_REQUIREMENTS_INPUT", "BLOCKED", "ACCEPTANCE_CHECK",
   "VERIFIED_ACCEPTED", "VERIFIED_REJECTED", "SUCCEEDED"}

SealRoles  == {"snapshot", "seal", "evidence", "closure"}
JudgeRoles == {"ledger", "verdict", "grant", "receipt", "result"}
Roles      == SealRoles \cup JudgeRoles \cup {"task", "contract", "profile"}
Authors    == 0..Agreed

VARIABLES
  run,      \* the projection: state ("ABSENT": no row), stateVersion, bound artifacts
  call,     \* the handlers at work
  row,      \* idempotency row of the createRun request
  capture,  \* the CAPTURE_SNAPSHOT operation
  analyst,  \* the analyst node and its SPAWN_AGENT operation
  profile,  \* the compiled profile: "none", or what composing it found
  ops,      \* nodes behind the analyst with an open SPAWN_AGENT operation
  left,     \* nodes of the profile that are not ACCEPTED
  failed,   \* of these, the nodes that failed for good
  tree,     \* the overlay in the user's tree: "clean", "partial", "written"
  sends, faults

agents == <<capture, analyst, profile, ops, left, failed>>
env    == <<sends, faults>>
vars   == <<run, call, row, agents, tree, env>>

NoRoles == [r \in Roles |-> Nobody]
Idle    == [kind |-> "none", pc |-> "off", at |-> "ABSENT", b |-> NoRoles,
            target |-> "ABSENT", seen |-> 0]

Frame(kind, pc) == [Idle EXCEPT !.kind = kind, !.pc = pc]

\* Of a settlement: the node.
Kinds == {"none", "create", "capture", "analyst", "poll"} \cup Nodes
Sync  == {"spawn", "restock", "write"}
PCs   == Sync \cup {"off", "task", "enter", "enqueue", "ready", "ingest", "accept", "compile",
          "requeue", "seal", "contract", "profile", "ledger", "verdict", "grant",
          "receipt", "result"}
Frames == [kind : Kinds, pc : PCs, at : States, b : [Roles -> Authors], target : States, seen : Nat]

Init ==
  /\ run = [state |-> "ABSENT", version |-> 0, roles |-> NoRoles]
  /\ call = [h \in Calls |-> Idle] /\ row = "none"
  /\ capture = "none" /\ analyst = "absent" /\ profile = "none"
  /\ ops = {} /\ left = {} /\ failed = {}
  /\ tree = "clean" /\ sends = 0 /\ faults = 0
-----------------------------------------------------------------------------
(* The state machine: edges, guards and required artifacts.                *)

\* The edges between the states above.
phaseTransitions ==
  {<<s, SEAL_TARGETS[s]>> : s \in SealStates} \cup
  {<<"CREATED", "SNAPSHOT_REQUESTED">>,
   <<"INSTRUCTIONS_RESOLVING", "AWAITING_REQUIREMENTS_INPUT">>,
   <<"PREFLIGHT_RUNNING", "AWAITING_REQUIREMENTS_INPUT">>,
   <<"PREFLIGHT_COMPLETE", "CONTRACTED">>,
   <<"CONTRACTED", "PROFILE_SELECTED">>,
   <<"PROFILE_SELECTED", "PROFILE_RUNNING">>,
   <<"PROFILE_RUNNING", "ACCEPTANCE_CHECK">>,
   <<"PROFILE_RUNNING", "AWAITING_REQUIREMENTS_INPUT">>,
   <<"PROFILE_RUNNING", "BLOCKED">>,
   <<"ACCEPTANCE_CHECK", "VERIFIED_ACCEPTED">>,
   <<"ACCEPTANCE_CHECK", "VERIFIED_REJECTED">>,
   <<"BLOCKED", "PROFILE_RUNNING">>,
   <<"BLOCKED", "AWAITING_REQUIREMENTS_INPUT">>,
   <<"AWAITING_REQUIREMENTS_INPUT", "INSTRUCTIONS_RESOLVING">>,
   <<"AWAITING_REQUIREMENTS_INPUT", "PROFILE_RUNNING">>,
   <<"VERIFIED_REJECTED", "PROFILE_RUNNING">>,
   <<"VERIFIED_ACCEPTED", "AWAITING_APPLY_APPROVAL">>,
   <<"AWAITING_APPLY_APPROVAL", "APPLY_PREPARING">>,
   <<"APPLY_PREPARING", "APPLYING">>,
   <<"APPLYING", "APPLY_RECONCILING">>,
   <<"APPLY_RECONCILING", "AWAITING_APPLY_APPROVAL">>,
   <<"APPLY_RECONCILING", "SUCCEEDED">>}

\* The guards an edge needs beyond version, roles and signatures.
additionalGuards(s, t) ==
  {g \in {"APPROVAL_VALID_AND_CONSUMED"} : t \in {"BASELINE_VERIFYING", "APPLY_PREPARING"}} \cup
  {g \in {"SNAPSHOT_ROOT_CURRENT"} : t = "APPLY_PREPARING"} \cup
  {g \in {"INPUT_REVISION_COMMITTED"} : s = "AWAITING_REQUIREMENTS_INPUT"} \cup
  {g \in {"TASK_CONTRACT_VALID"} : t \in {"CONTRACTED", "PROFILE_SELECTED"}} \cup
  {g \in {"PROFILE_DAG_BOUND"} : s = "PROFILE_SELECTED"} \cup
  {g \in {"ACCEPTANCE_LEDGER_CLOSED"} : t = "VERIFIED_ACCEPTED"} \cup
  {g \in {"VERDICT_ACCEPTED_CHANGESET"} : s = "VERIFIED_ACCEPTED"} \cup
  {g \in {"APPLY_JOURNAL_VALID"} : t \in {"APPLYING", "APPLY_RECONCILING"}} \cup
  {g \in {"APPLY_RECEIPT_COMMITTED"} : t = "SUCCEEDED"} \cup
  {g \in {"APPLY_RECEIPT_ROLLED_BACK"} : s = "APPLY_RECONCILING" /\ t # "SUCCEEDED"}

\* The guards the compiler vouches for when it enters a state.
satisfiedGuards(t) ==
  CASE t = "BASELINE_VERIFYING" -> {"APPROVAL_VALID_AND_CONSUMED"}
    [] t \in {"CONTRACTED", "PROFILE_SELECTED"} -> {"TASK_CONTRACT_VALID"}
    [] t = "PROFILE_RUNNING" -> {"PROFILE_DAG_BOUND"}
    [] t = "VERIFIED_ACCEPTED" -> {"ACCEPTANCE_LEDGER_CLOSED"}
    [] t = "AWAITING_APPLY_APPROVAL" -> {"VERDICT_ACCEPTED_CHANGESET"}
    [] t = "APPLY_PREPARING" -> {"SNAPSHOT_ROOT_CURRENT", "APPROVAL_VALID_AND_CONSUMED"}
    [] t \in {"APPLYING", "APPLY_RECONCILING"} -> {"APPLY_JOURNAL_VALID"}
    [] t = "SUCCEEDED" -> {"APPLY_RECEIPT_COMMITTED"}
    [] OTHER -> {}

requiredRoles(t) ==
  LET base == {"task", "snapshot"}  sealed == base \cup {"seal"}
      preflight == sealed \cup {"evidence"}  closed == preflight \cup {"closure"}
      running == closed \cup {"contract", "profile"}
  IN  CASE t \in {"SNAPSHOT_READY", "INSTRUCTIONS_RESOLVING", "INDEXING", "BASELINE_PLANNING",
                  "BASELINE_VERIFYING", "AWAITING_REQUIREMENTS_INPUT"} -> base
        [] t = "BASELINE_SEALED" -> sealed
        [] t = "PREFLIGHT_RUNNING" -> preflight
        [] t = "PREFLIGHT_COMPLETE" -> closed
        [] t = "CONTRACTED" -> closed \cup {"contract"}
        [] t \in {"PROFILE_SELECTED", "PROFILE_RUNNING", "BLOCKED"} -> running
        [] t = "ACCEPTANCE_CHECK" -> running \cup {"ledger"}
        [] t \in {"VERIFIED_ACCEPTED", "VERIFIED_REJECTED"} -> running \cup {"ledger", "verdict"}
        [] t \in {"AWAITING_APPLY_APPROVAL", "APPLY_PREPARING", "APPLYING"} ->
             running \cup {"ledger", "verdict", "grant"}
        [] t = "APPLY_RECONCILING" -> running \cup {"ledger", "verdict", "grant", "receipt"}
        [] t = "SUCCEEDED" -> base \cup {"result", "receipt"}
        [] OTHER -> {"task"}

\* The artifacts the walk to PREFLIGHT_COMPLETE binds on the way.
bindingsForSealTarget(t) ==
  CASE t \in {"SNAPSHOT_UPLOADING", "SNAPSHOT_VALIDATING"} -> {"task"}
    [] t \in {"SNAPSHOT_READY", "INSTRUCTIONS_RESOLVING", "INDEXING", "BASELINE_PLANNING",
              "BASELINE_VERIFYING"} -> {"task", "snapshot"}
    [] t = "BASELINE_SEALED" -> {"task", "snapshot", "seal"}
    [] t = "PREFLIGHT_RUNNING" -> {"task", "snapshot", "seal", "evidence"}
    [] t = "PREFLIGHT_COMPLETE" -> {"task"} \cup SealRoles
    [] OTHER -> Roles

withRoles(b, rs, author) == [r \in Roles |-> IF r \in rs THEN author ELSE b[r]]

\* The bindings that entering t stores: they replace the run's.
Stored(f) == [r \in Roles |-> IF r \in bindingsForSealTarget(f.target) THEN f.b[r] ELSE Nobody]

\* reduceRun and the checks of persistRunEvent, on the row as it is now.
MayEnter(f) ==
  /\ f.seen = run.version
  /\ <<run.state, f.target>> \in phaseTransitions
  /\ additionalGuards(run.state, f.target) \subseteq satisfiedGuards(f.target)
  /\ \A r \in requiredRoles(f.target) : Stored(f)[r] # Nobody
-----------------------------------------------------------------------------
(* The loop of advanceRunCompiler.                                         *)

\* Nodes wait for the analyst only, so the one that neither works nor is ready has failed.
isAgentDagIdle          == profile # "none" /\ left = {}
isAgentDagUnrecoverable == failed # {} /\ left = failed

\* The call is over; the report of the snapshot still has agent work to queue.
Return(f) == IF f.kind = "capture" THEN Frame("capture", "restock") ELSE Idle

\* The call has read the row r and waits for the store.
Await(f, r, pc) == [Idle EXCEPT !.kind = f.kind, !.pc = pc, !.at = r.state, !.b = r.roles]

\* enterRun up to its await: the version is read here and compared at the commit.
enterRun(f, r, target, b) ==
  [Idle EXCEPT !.kind = f.kind, !.pc = "enter", !.target = target, !.b = b, !.seen = r.version]

\* One turn of the loop over the row r.
advanceRunCompiler(f, r) ==
  CASE r.state \in {"SNAPSHOT_REQUESTED", "SNAPSHOT_UPLOADING", "SNAPSHOT_VALIDATING"}
         /\ capture = "done" -> Await(f, r, "seal")
    [] r.state \in {"PREFLIGHT_COMPLETE", "CONTRACTED", "PROFILE_SELECTED"}
         /\ analyst = "accepted" -> Await(f, r, "contract")
    [] r.state = "PROFILE_RUNNING" /\ isAgentDagUnrecoverable -> enterRun(f, r, "BLOCKED", r.roles)
    [] r.state \in {"PROFILE_RUNNING", "ACCEPTANCE_CHECK"}
         /\ ~(r.state = "PROFILE_RUNNING" /\ isAgentDagUnrecoverable)
         /\ isAgentDagIdle -> Await(f, r, "ledger")
    [] OTHER -> Return(f)

\* What the code does with the row that its commit returned; root tells whether the
\* captured workspace root is a directory of this host.
Continue(f, r, root) ==
  CASE r.state = "SNAPSHOT_REQUESTED" -> Frame(f.kind, "enqueue")
    [] r.state \in SealStates \ {"SNAPSHOT_REQUESTED"} -> enterRun(f, r, SEAL_TARGETS[r.state], f.b)
    [] r.state = "CONTRACTED" -> enterRun(f, r, "PROFILE_SELECTED", r.roles)
    [] r.state = "PROFILE_SELECTED" -> enterRun(f, r, "PROFILE_RUNNING", r.roles)
    [] r.state = "PROFILE_RUNNING" /\ profile = "auth" ->
         enterRun(f, r, "AWAITING_REQUIREMENTS_INPUT", r.roles)
    [] r.state = "PROFILE_RUNNING" /\ profile = "blocked" -> enterRun(f, r, "BLOCKED", r.roles)
    [] r.state = "ACCEPTANCE_CHECK" -> Await(f, r, "verdict")
    [] r.state = "VERIFIED_ACCEPTED" /\ root = "local" -> Await(f, r, "write")
    [] r.state = "AWAITING_APPLY_APPROVAL" -> enterRun(f, r, "APPLY_PREPARING", r.roles)
    [] r.state = "APPLY_PREPARING" -> enterRun(f, r, "APPLYING", r.roles)
    [] r.state = "APPLYING" -> Await(f, r, "receipt")
    [] r.state = "APPLY_RECONCILING" -> Await(f, r, "result")
    [] OTHER -> advanceRunCompiler(f, r)
-----------------------------------------------------------------------------
(* Steps of a call.                                                        *)

Turn(h)  == \A g \in Calls \ {h} : call[g].pc \notin Sync
At(h, pc) == call[h].pc = pc /\ Turn(h)
Go(h, f) == call' = [call EXCEPT ![h] = f]

Mentioned(h) == \E r \in Roles : run.roles[r] = h \/ \E g \in Calls : call[g].b[r] = h
Free(h)      == call[h].pc = "off" /\ ~Mentioned(h)
MayBegin(h)  ==
  /\ Free(h) /\ Turn(h) /\ \A g \in 1..(h - 1) : ~Free(g)
  /\ Cardinality({g \in Calls : call[g].pc # "off"}) < MaxActive
Begin(h, kind, pc) == MayBegin(h) /\ Go(h, Frame(kind, pc))

Commit(h) ==
  /\ At(h, "enter")
  /\ LET f == call[h]
         r == [state |-> f.target, version |-> run.version + 1, roles |-> Stored(f)]
     IN  IF MayEnter(f) THEN run' = r /\ \E root \in {"local", "remote"} : Go(h, Continue(f, r, root))
                        ELSE UNCHANGED run /\ Go(h, Idle)   \* throws
  /\ UNCHANGED <<row, agents, tree, env>>

\* A createRun request; one that finds the row completed is answered from it.
reserve(h) ==
  /\ sends < MaxSends /\ row # "completed" /\ Begin(h, "create", "task")
  /\ row' = "reserved" /\ sends' = sends + 1
  /\ UNCHANGED <<run, agents, tree, faults>>

\* mutant: a request that finds the run in place is answered as if it had made it.
createRunAnswersDuplicate(h) ==
  /\ At(h, "task")
  /\ LET r == [state |-> "CREATED", version |-> 0, roles |-> withRoles(NoRoles, {"task"}, Agreed)]
     IN  IF run.state = "ABSENT"
         THEN run' = r /\ Go(h, enterRun(call[h], r, "SNAPSHOT_REQUESTED", r.roles)) /\ UNCHANGED row
         ELSE UNCHANGED run /\ Go(h, Idle) /\ row' = "completed"
  /\ UNCHANGED <<agents, tree, env>>

\* createRun of the store inserts the row, or throws; requestSnapshotCapture begins.
createRun(h) ==
  /\ At(h, "task")
  /\ LET r == [state |-> "CREATED", version |-> 0, roles |-> withRoles(NoRoles, {"task"}, Agreed)]
     IN  IF run.state = "ABSENT"
         THEN run' = r /\ Go(h, enterRun(call[h], r, "SNAPSHOT_REQUESTED", r.roles))
         ELSE UNCHANGED run /\ Go(h, Idle)
  /\ UNCHANGED <<row, agents, tree, env>>

requestSnapshotCapture(h) ==
  /\ At(h, "enqueue") /\ capture' = "queued" /\ Go(h, [call[h] EXCEPT !.pc = "spawn"])
  /\ UNCHANGED <<run, row, analyst, profile, ops, left, failed, tree, env>>

\* enqueueReadyAgentWork up to its await: the analyst is SPAWNED, not yet queued.
enqueueReadyAgentWork(h) ==
  /\ \/ At(h, "spawn") /\ analyst' = "spawned" /\ Go(h, [call[h] EXCEPT !.pc = "ready"])
     \/ /\ At(h, "restock") /\ analyst = "absent" /\ analyst' = "spawned"
        /\ Go(h, [call[h] EXCEPT !.pc = "ready"])
     \/ At(h, "restock") /\ analyst # "absent" /\ UNCHANGED analyst /\ Go(h, Idle)
  /\ UNCHANGED <<run, row, capture, profile, ops, left, failed, tree, env>>

\* The analyst's operation is queued; createRun completes its row and answers 201.
answer(h) ==
  /\ At(h, "ready") /\ analyst' = "queued" /\ Go(h, Idle)
  /\ row' = IF call[h].kind = "create" THEN "completed" ELSE row
  /\ UNCHANGED <<run, capture, profile, ops, left, failed, tree, env>>
-----------------------------------------------------------------------------
(* Reports of runners and workers, and readers.                            *)

\* completeOperation of CAPTURE_SNAPSHOT: a failure is recorded and nothing follows.
captured(h) ==
  /\ capture = "queued" /\ capture' = "done" /\ Begin(h, "capture", "ingest")
  /\ UNCHANGED <<run, row, analyst, profile, ops, left, failed, tree, env>>

captureFailed ==
  /\ capture = "queued" /\ capture' = "failed" /\ faults < MaxFaults /\ faults' = faults + 1
  /\ \A g \in Calls : call[g].pc \notin Sync
  /\ UNCHANGED <<run, call, row, analyst, profile, ops, left, failed, tree, sends>>

\* completeOperation of SPAWN_AGENT: the operation is finished before its node is.
reported(h) ==
  /\ \/ analyst = "queued" /\ analyst' = "reported" /\ UNCHANGED ops /\ Begin(h, "analyst", "accept")
     \/ \E n \in ops : ops' = ops \ {n} /\ UNCHANGED analyst /\ Begin(h, n, "accept")
  /\ UNCHANGED <<run, row, capture, profile, left, failed, tree, env>>

\* mutant: a read leaves the run as it is.
getRunOnlyReads(h) == run.state = "ACCEPTANCE_CHECK" /\ Free(h) /\ UNCHANGED vars

\* getRun goes on with a run that was left in ACCEPTANCE_CHECK.
getRun(h) ==
  /\ run.state = "ACCEPTANCE_CHECK" /\ isAgentDagIdle /\ MayBegin(h)
  /\ Go(h, advanceRunCompiler(Frame("poll", "off"), run))
  /\ UNCHANGED <<run, row, agents, tree, env>>

\* acceptEnvelope: the artifact of the node is accepted; or the node fails for good.
acceptEnvelope(h) ==
  /\ At(h, "accept")
  /\ \/ /\ IF call[h].kind = "analyst"
           THEN analyst' = "accepted" /\ UNCHANGED left /\ Go(h, [call[h] EXCEPT !.pc = "compile"])
           ELSE left' = left \ {call[h].kind} /\ UNCHANGED analyst /\ Go(h, [call[h] EXCEPT !.pc = "requeue"])
        /\ UNCHANGED <<failed, faults>>
     \/ /\ faults < MaxFaults /\ faults' = faults + 1 /\ Go(h, [call[h] EXCEPT !.pc = "requeue"])
        /\ IF call[h].kind = "analyst" THEN analyst' = "failed" /\ UNCHANGED failed
                                       ELSE failed' = failed \cup {call[h].kind} /\ UNCHANGED analyst
        /\ UNCHANGED left
  /\ UNCHANGED <<run, row, capture, profile, ops, tree, sends>>

\* selectAndPersistProfile, once the adapter is loaded: the profile has its nodes, and
\* asks for authorization, is blocked, has blocking related runs, or none of these.
selectAndPersistProfile(h) ==
  /\ At(h, "compile")
  /\ profile' \in {"free", "auth", "blocked", "related"} /\ left' \in (SUBSET Nodes) \ {{}}
  /\ Go(h, [call[h] EXCEPT !.pc = "requeue"])
  /\ UNCHANGED <<run, row, capture, analyst, ops, failed, tree, env>>

\* mutant: the settlement does not go on to the loop.
settledWithoutLoop(h) ==
  /\ At(h, "requeue") /\ ops' = (IF call[h].kind = "analyst" THEN left ELSE ops) /\ Go(h, Idle)
  /\ UNCHANGED <<run, row, capture, analyst, profile, left, failed, tree, env>>

\* The nodes are queued; the settlement goes on to the loop.
settled(h) ==
  /\ At(h, "requeue")
  /\ ops' = IF call[h].kind = "analyst" THEN left ELSE ops
  /\ Go(h, advanceRunCompiler(call[h], run))
  /\ UNCHANGED <<run, row, capture, analyst, profile, left, failed, tree, env>>

ingestCapturedSnapshot(h) ==
  /\ At(h, "ingest") /\ Go(h, advanceRunCompiler(call[h], run))
  /\ UNCHANGED <<run, row, agents, tree, env>>
-----------------------------------------------------------------------------
(* The compiler's own awaits.                                              *)

\* persistSealedArtifacts, then the first target of walkToPreflightComplete.
persistSealedArtifacts(h) ==
  /\ At(h, "seal")
  /\ Go(h, enterRun(call[h], run,
                    IF run.state = "SNAPSHOT_UPLOADING" THEN "SNAPSHOT_VALIDATING" ELSE "SNAPSHOT_UPLOADING",
                    withRoles(call[h].b, SealRoles, h)))
  /\ UNCHANGED <<run, row, agents, tree, env>>

\* enterContractedAndRunning: the contract is read, then the profile stored.
selectedProfile(h) ==
  /\ At(h, "contract")
  /\ Go(h, IF profile = "none" THEN Return(call[h]) ELSE [call[h] EXCEPT !.pc = "profile"])
  /\ UNCHANGED <<run, row, agents, tree, env>>

enterContractedAndRunning(h) ==
  /\ At(h, "profile")
  /\ LET f == call[h]  b == withRoles(f.b, {"contract", "profile"}, Agreed)
     IN  Go(h, enterRun(f, run, CASE f.at = "PREFLIGHT_COMPLETE" -> "CONTRACTED"
                                  [] f.at = "CONTRACTED" -> "PROFILE_SELECTED"
                                  [] OTHER -> "PROFILE_RUNNING", b))
  /\ UNCHANGED <<run, row, agents, tree, env>>

\* mutant: in ACCEPTANCE_CHECK the ledger that is already bound is kept.
ledgerKept(h) ==
  /\ At(h, "ledger")
  /\ LET f == call[h]  b == withRoles(f.b, {"ledger"}, h)
     IN  Go(h, IF f.at = "ACCEPTANCE_CHECK" THEN [f EXCEPT !.pc = "verdict"]
               ELSE enterRun(f, run, "ACCEPTANCE_CHECK", b))
  /\ UNCHANGED <<run, row, agents, tree, env>>

\* enterAcceptanceAndTerminal up to the stored ledger; related runs that block stop it.
ledgerStored(h) ==
  /\ At(h, "ledger")
  /\ LET f == call[h]  b == withRoles(f.b, {"ledger"}, h)  checking == f.at = "ACCEPTANCE_CHECK"
     IN  Go(h, CASE profile = "related" /\ checking -> Return(f)
                 [] profile = "related" /\ ~checking -> enterRun(f, run, "BLOCKED", b)
                 [] profile # "related" /\ checking -> [f EXCEPT !.pc = "verdict", !.b = b]
                 [] OTHER -> enterRun(f, run, "ACCEPTANCE_CHECK", b))
  /\ UNCHANGED <<run, row, agents, tree, env>>

verdictStored(h) ==
  /\ At(h, "verdict")
  /\ \E t \in {"VERIFIED_ACCEPTED", "VERIFIED_REJECTED"} :
       Go(h, enterRun(call[h], run, t, withRoles(call[h].b, {"verdict"}, h)))
  /\ UNCHANGED <<run, row, agents, tree, env>>

\* mutant: a failed write ends the loop over the files, not the call.
writeOverlayStopsEarly(h) ==
  /\ At(h, "write") /\ tree' = "partial" /\ Go(h, [call[h] EXCEPT !.pc = "grant"])
  /\ UNCHANGED <<run, row, agents, env>>

\* File by file, before the grant and the apply states.
writeOverlayBytes(h) ==
  /\ At(h, "write")
  /\ tree' = IF tree = "clean" THEN "partial" ELSE "written"
  /\ Go(h, IF tree = "clean" THEN call[h] ELSE [call[h] EXCEPT !.pc = "grant"])
  /\ UNCHANGED <<run, row, agents, env>>

\* The grant, the receipt and the result: stored, bound, and the next state entered.
applyArtifactStored(h) ==
  /\ \E s \in {<<"grant", "AWAITING_APPLY_APPROVAL">>, <<"receipt", "APPLY_RECONCILING">>,
               <<"result", "SUCCEEDED">>} :
       At(h, s[1]) /\ Go(h, enterRun(call[h], run, s[2], withRoles(call[h].b, {s[1]}, h)))
  /\ UNCHANGED <<run, row, agents, tree, env>>
-----------------------------------------------------------------------------
(* Faults.                                                                 *)

\* An awaited access of the artifact store is refused: the call throws.  When the
\* adapter of the profile cannot be loaded the settlement goes on without a profile.
\* (Failures while a result is accepted are AgentWork's.)
storeFails(h) ==
  /\ call[h].pc \notin {"off", "spawn", "restock", "accept", "requeue"} /\ Turn(h)
  /\ faults < MaxFaults /\ faults' = faults + 1
  /\ Go(h, IF call[h].pc = "compile" THEN [call[h] EXCEPT !.pc = "requeue"] ELSE Idle)
  /\ UNCHANGED <<run, row, agents, tree, sends>>

\* The process dies: no call survives, and none is resumed at the next start.
crash ==
  /\ faults < MaxFaults /\ faults' = faults + 1
  /\ \E h \in Calls : call[h].pc # "off"
  /\ call' = [h \in Calls |-> Idle]
  /\ UNCHANGED <<run, row, agents, tree, sends>>
-----------------------------------------------------------------------------
Advance(h) ==
  \/ Commit(h) \/ createRun(h) \/ requestSnapshotCapture(h) \/ enqueueReadyAgentWork(h)
  \/ answer(h) \/ acceptEnvelope(h) \/ selectAndPersistProfile(h) \/ settled(h)
  \/ ingestCapturedSnapshot(h) \/ persistSealedArtifacts(h) \/ selectedProfile(h)
  \/ enterContractedAndRunning(h) \/ ledgerStored(h)
  \/ verdictStored(h) \/ writeOverlayBytes(h) \/ applyArtifactStored(h)

Serve == \E h \in Calls : Advance(h) \/ captured(h) \/ reported(h) \/ getRun(h)

Next ==
  \/ Serve
  \/ \E h \in Calls : reserve(h) \/ storeFails(h)
  \/ captureFailed \/ crash

Spec == Init /\ [][Next]_vars

\* The server does not stop while a call can go on, a runner or a worker has something to
\* report or somebody reads the run; which of these goes first is left open.
FairSpec == Spec /\ WF_vars(Serve)
-----------------------------------------------------------------------------
TypeOK ==
  /\ run \in [state : States, version : Nat, roles : [Roles -> Authors]]
  /\ call \in [Calls -> Frames]
  /\ row \in {"none", "reserved", "completed"}
  /\ capture \in {"none", "queued", "done", "failed"}
  /\ analyst \in {"absent", "spawned", "queued", "reported", "accepted", "failed"}
  /\ profile \in {"none", "free", "auth", "blocked", "related"}
  /\ {ops, left, failed} \subseteq SUBSET Nodes /\ {sends, faults} \subseteq Nat
  /\ tree \in {"clean", "partial", "written"}

\* The baseline, evidence and closure of a run were sealed by one call, and its verdict,
\* grant, receipt and result were made by the call that made the ledger beside them:
\* calls that race through the compiler never mix their artifacts.
OneAuthor ==
  \A S \in {SealRoles, JudgeRoles} : \A r, s \in S :
    run.roles[r] # Nobody /\ run.roles[s] # Nobody => run.roles[r] = run.roles[s]

\* A createRun that was answered left nothing to do for its sender: the capture and the
\* analyst are queued, whichever of several sendings was answered.
AnsweredMeansQueued ==
  row = "completed" => run.state # "ABSENT" /\ capture # "none"
                       /\ analyst \notin {"absent", "spawned"}

AtRest ==
  \/ run.state \in {"AWAITING_REQUIREMENTS_INPUT", "BLOCKED", "VERIFIED_REJECTED", "SUCCEEDED"}
  \/ /\ run.state = "VERIFIED_ACCEPTED"     \* no local root to write to
     /\ \A h \in Calls : call[h].pc \notin {"write", "grant"}
                         /\ call[h].target # "AWAITING_APPLY_APPROVAL"

\* Unless something fails, a requested run comes to rest for good, whichever calls race
\* through the compiler: a call that loses a version conflict leaves the run to another.
RunComesToRest == row = "reserved" ~> [](AtRest \/ faults > 0)

\* A run cut off in ACCEPTANCE_CHECK is judged by whoever reads it next.
AcceptanceResumes == run.state = "ACCEPTANCE_CHECK" ~> run.state # "ACCEPTANCE_CHECK"
-----------------------------------------------------------------------------
PhaseOf(s) ==
  CASE s = "PROFILE_RUNNING" -> "working"
    [] s \in {"AWAITING_REQUIREMENTS_INPUT", "BLOCKED", "VERIFIED_REJECTED"} -> "paused"
    [] s = "ACCEPTANCE_CHECK" -> "checking"
    [] s = "VERIFIED_ACCEPTED" -> "accepted"
    [] s \in TreeStates -> "applying"
    [] s = "SUCCEEDED" -> "applied"
    [] OTHER -> "preparing"

Life == INSTANCE RunLifecycle WITH phase <- PhaseOf(run.state)

\* The run compiler implements the abstract life of a run: the workspace is written only
\* after an accepting verdict, and applied means all of it was written.
ImplementsLifecycle == Life!LifeSpec
=============================================================================
