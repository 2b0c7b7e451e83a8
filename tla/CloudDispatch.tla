--------------------------- MODULE CloudDispatch ---------------------------
(***************************************************************************)
(* One logical cloud call: the row and its bindings in the state store     *)
(* (repositories/artifacts.ts), dispatchCloudCall of the control plane     *)
(* (services/cloud-dispatch.ts) and completeOnce of the gateway            *)
(* (cloud-gateway/src/dispatcher.ts), which posts to a provider that       *)
(* answers once, late, in part or not at all.                              *)
(*                                                                         *)
(* A dispatcher is one invocation of dispatchCloudCall for the call; a     *)
(* retry is another one.  It runs without interruption up to its next      *)
(* await; the transactions between two awaits are separate (Sync), so the  *)
(* process may die between them.  A receipt is known by its dispatcher,    *)
(* which makes at most one.                                                *)
(***************************************************************************)
EXTENDS Naturals, Sequences

CONSTANTS
  Dispatchers,  \* invocations of dispatchCloudCall
  Requests,     \* requests that may be compiled for the call
  NoOne,        \* no receipt, no request
  MaxFaults     \* bound on crashes and refused store accesses, together

ASSUME DispatchAssumption ==
  NoOne \notin Dispatchers \cup Requests /\ MaxFaults \in Nat

VARIABLES
  row,       \* cloud_calls: state ("absent": no row), request and response digests
  bound,     \* cloud_call_artifacts: <<role, whose artifact>>
  attempts,  \* cloud_transport_attempts, as the outcomes in order
  usage,     \* usage entries: the receipt they are for, and the one they correct
  disp,      \* the dispatchers: where they are, and what they were told
  accepted,  \* the dispatchers whose post the provider accepted
  faults

vars == <<row, bound, attempts, usage, disp, accepted, faults>>

\* The artifacts of a call, in the order they are bound.
INPUT_ROLES == <<"request", "egress", "conversation", "wire", "context">>

ArtifactRoles == {"request", "egress", "conversation", "wire", "context", "receipt", "evidence"}
RowStates == {"absent", "prepared", "dispatching", "completed", "outcome-unknown"}
Results   == {"none", "completed", "not-dispatched", "unknown"}
Sync      == {"bind", "usage", "settle", "attempt"}
PCs       == Sync \cup {"new", "envelopes", "own", "post", "reply", "receipt", "evidence", "done"}

Init ==
  /\ row = [state |-> "absent", request |-> NoOne, response |-> NoOne]
  /\ bound = {} /\ attempts = <<>> /\ usage = {} /\ accepted = {} /\ faults = 0
  /\ disp = [d \in Dispatchers |->
               [pc |-> "new", request |-> NoOne, digest |-> NoOne, binds |-> 0, result |-> "none"]]

Turn(d)  == \A e \in Dispatchers \ {d} : disp[e].pc \notin Sync
At(d, pc) == disp[d].pc = pc /\ Turn(d)
Goto(d, pc) == disp' = [disp EXCEPT ![d].pc = pc]
Told(d, pc, result) == disp' = [disp EXCEPT ![d].pc = pc, ![d].result = result]
-----------------------------------------------------------------------------
(* Preparation and ownership.                                              *)

\* dispatchCloudCall with a request compiled for this call, up to the first await.
dispatchCloudCall(d) ==
  /\ At(d, "new")
  /\ \E r \in Requests : disp' = [disp EXCEPT ![d].pc = "envelopes", ![d].request = r]
  /\ UNCHANGED <<row, bound, attempts, usage, accepted, faults>>

\* The envelopes are in the store: the row is made, or the one that is there decides.
persistPreparedCall(d) ==
  /\ At(d, "envelopes")
  /\ LET r == disp[d].request
     IN  IF row.state = "absent"
         THEN /\ row' = [row EXCEPT !.state = "prepared", !.request = r]
              /\ disp' = [disp EXCEPT ![d].pc = "bind", ![d].digest = r]
         ELSE /\ disp' = [disp EXCEPT ![d].pc = "own", ![d].digest = row.request]
              /\ UNCHANGED row
  /\ UNCHANGED <<bound, attempts, usage, accepted, faults>>

\* The artifacts of the call are bound one after the other.
bindCloudCallArtifact(d) ==
  /\ At(d, "bind")
  /\ LET i == disp[d].binds + 1
     IN  /\ bound' = bound \cup {<<INPUT_ROLES[i], d>>}
         /\ disp' = [disp EXCEPT ![d].binds = i, ![d].pc = IF i = 5 THEN "own" ELSE "bind"]
  /\ UNCHANGED <<row, attempts, usage, accepted, faults>>

\* mutant: the update looks for the call and its request, not for its state.
dispatchingWithoutState(d) ==
  /\ At(d, "own")
  /\ IF row.state # "completed" /\ row.request = disp[d].digest
     THEN row' = [row EXCEPT !.state = "dispatching"] /\ Goto(d, "post")
     ELSE UNCHANGED row /\ Goto(d, "done")
  /\ UNCHANGED <<bound, attempts, usage, accepted, faults>>

\* One dispatcher owns a prepared call; the others return already-owned.
casTransitionToDispatching(d) ==
  /\ At(d, "own")
  /\ IF row.state = "prepared" /\ row.request = disp[d].digest
     THEN row' = [row EXCEPT !.state = "dispatching"] /\ Goto(d, "post")
     ELSE UNCHANGED row /\ Goto(d, "done")
  /\ UNCHANGED <<bound, attempts, usage, accepted, faults>>
-----------------------------------------------------------------------------
(* The gateway.                                                            *)

\* The request goes out once.  It may be kept back (bindings that do not match, no
\* approval), refused (a connection that was never made; 400, 401, 403, 429), accepted,
\* or be lost before it is accepted.
postOnce(d) ==
  /\ At(d, "post")
  /\ \/ Told(d, "receipt", "not-dispatched") /\ UNCHANGED accepted
     \/ Goto(d, "reply") /\ accepted' = accepted \cup {d}
     \/ Goto(d, "reply") /\ UNCHANGED accepted
  /\ UNCHANGED <<row, bound, attempts, usage, faults>>

\* mutant: a connection that broke is taken for one that was never made.
completeOnceRetriesLost(d) ==
  /\ At(d, "reply")
  /\ \/ d \in accepted /\ Told(d, "receipt", "completed")
     \/ Told(d, "receipt", "not-dispatched")
  /\ UNCHANGED <<row, bound, attempts, usage, accepted, faults>>

\* completeOnce behind the post: an answer that could be read is a result, an incomplete
\* or a failed one; a broken connection and any other status leave the outcome unknown.
\* An answer that is cut off is unknown for recovery grade C and failed for the others.
completeOnce(d) ==
  /\ At(d, "reply")
  /\ \/ d \in accepted /\ Told(d, "receipt", "completed")
     \/ Told(d, "evidence", "unknown")
  /\ UNCHANGED <<row, bound, attempts, usage, accepted, faults>>
-----------------------------------------------------------------------------
(* What the answer leaves behind.                                          *)

\* The receipt is in the store; it is bound when the call is completed by it.
fsyncReceiptThenComplete(d) ==
  /\ At(d, "receipt")
  /\ bound' = IF disp[d].result = "completed" THEN bound \cup {<<"receipt", d>>} ELSE bound
  /\ Goto(d, "usage")
  /\ UNCHANGED <<row, attempts, usage, accepted, faults>>

\* The entries that no other one corrects.  (Of several, the code would keep the latest; that
\* there is but one is what UsageCountedOnce says.)
uniqueLeaves == {u.of : u \in usage} \ {u.corrects : u \in usage}

\* mutant: the entry of a retry does not correct the one before it.
usageWithoutCorrection(d) ==
  /\ At(d, "usage")
  /\ usage' = usage \cup {[of |-> d, corrects |-> NoOne]} /\ Goto(d, "settle")
  /\ UNCHANGED <<row, bound, attempts, accepted, faults>>

persistReceiptUsage(d) ==
  /\ At(d, "usage")
  /\ \E prior \in IF uniqueLeaves = {} THEN {NoOne} ELSE uniqueLeaves :
       usage' = usage \cup {[of |-> d, corrects |-> prior]}
  /\ Goto(d, "settle")
  /\ UNCHANGED <<row, bound, attempts, accepted, faults>>

\* Both updates want the row dispatching and without a response, and throw otherwise.
Owned == row.state = "dispatching" /\ row.response = NoOne

completeCloudCall(d) ==
  /\ At(d, "settle") /\ disp[d].result = "completed"
  /\ IF Owned THEN row' = [row EXCEPT !.state = "completed", !.response = d] /\ Goto(d, "attempt")
              ELSE UNCHANGED row /\ Goto(d, "done")
  /\ UNCHANGED <<bound, attempts, usage, accepted, faults>>

recordCloudTransportAttempt(d) ==
  /\ At(d, "attempt") /\ attempts' = Append(attempts, "completed") /\ Goto(d, "done")
  /\ UNCHANGED <<row, bound, usage, accepted, faults>>

\* The evidence of an unknown outcome must be in the store before it is bound.
transportEvidence(d) ==
  /\ At(d, "evidence") /\ bound' = bound \cup {<<"evidence", d>>} /\ Goto(d, "settle")
  /\ UNCHANGED <<row, attempts, usage, accepted, faults>>

nextState(result) == IF result = "not-dispatched" THEN "prepared" ELSE "outcome-unknown"

settleCloudCallTransport(d) ==
  /\ At(d, "settle") /\ disp[d].result \in {"not-dispatched", "unknown"} /\ Goto(d, "done")
  /\ IF Owned THEN /\ attempts' = Append(attempts, disp[d].result)
                   /\ row' = [row EXCEPT !.state = nextState(disp[d].result)]
              ELSE UNCHANGED <<attempts, row>>
  /\ UNCHANGED <<bound, usage, accepted, faults>>
-----------------------------------------------------------------------------
(* Faults.                                                                 *)

\* An awaited store access is refused, or the evidence of an unknown outcome is not in
\* the store: the dispatcher throws.
storeFails(d) ==
  /\ disp[d].pc \in {"envelopes", "receipt", "evidence"} /\ Turn(d)
  /\ faults < MaxFaults /\ faults' = faults + 1 /\ Goto(d, "done")
  /\ UNCHANGED <<row, bound, attempts, usage, accepted>>

\* The process dies; no code looks at the row at the next start.
crash ==
  /\ faults < MaxFaults /\ faults' = faults + 1
  /\ disp' = [d \in Dispatchers |->
                IF disp[d].pc = "new" THEN disp[d] ELSE [disp[d] EXCEPT !.pc = "done"]]
  /\ UNCHANGED <<row, bound, attempts, usage, accepted>>
-----------------------------------------------------------------------------
Step(d) ==
  \/ dispatchCloudCall(d) \/ persistPreparedCall(d) \/ bindCloudCallArtifact(d)
  \/ casTransitionToDispatching(d) \/ postOnce(d) \/ completeOnce(d)
  \/ fsyncReceiptThenComplete(d) \/ persistReceiptUsage(d) \/ completeCloudCall(d)
  \/ recordCloudTransportAttempt(d) \/ transportEvidence(d) \/ settleCloudCallTransport(d)

Next == (\E d \in Dispatchers : Step(d) \/ storeFails(d)) \/ crash

Spec == Init /\ [][Next]_vars
-----------------------------------------------------------------------------
TypeOK ==
  /\ row \in [state : RowStates, request : Requests \cup {NoOne}, response : Dispatchers \cup {NoOne}]
  /\ bound \in SUBSET (ArtifactRoles \X Dispatchers)
  /\ attempts \in Seq(Results)
  /\ usage \in SUBSET [of : Dispatchers, corrects : Dispatchers \cup {NoOne}]
  /\ disp \in [Dispatchers -> [pc : PCs, request : Requests \cup {NoOne}, binds : 0..5,
                               digest : Requests \cup {NoOne}, result : Results]]
  /\ accepted \in SUBSET Dispatchers /\ faults \in Nat

\* At most once: over all dispatchers that race for a call, retries of one that was not
\* dispatched and crashes, the provider accepts no more than one request.
AcceptedOnce == \A d, e \in accepted : d = e

\* The row tells what happened at the provider: a call that may be dispatched (again) was
\* never accepted; a completed one was accepted, and its response is bound as its receipt;
\* one whose outcome is unknown has the evidence of it bound, and no receipt of any try.
RowTellsProvider ==
  /\ row.state \in {"absent", "prepared"} => accepted = {}
  /\ row.state = "completed" => row.response \in accepted /\ <<"receipt", row.response>> \in bound
  /\ row.state = "outcome-unknown" =>
       /\ \E d \in Dispatchers : <<"evidence", d>> \in bound
       /\ \A d \in Dispatchers : <<"receipt", d>> \notin bound

\* The usage of a call is counted once: however often it was tried, one entry is left
\* uncorrected, and for a completed call that is the entry of its response.
UsageCountedOnce ==
  /\ \A d, e \in uniqueLeaves : d = e
  /\ row.state = "completed" => row.response \in uniqueLeaves
=============================================================================
