--------------------------- MODULE OperationStore ---------------------------
(***************************************************************************)
(* The control plane's durable work queue: the `operations' table          *)
(* (packages/state-store/src/operation-store.ts) with the HTTP handlers    *)
(* that lease, heartbeat, complete and revoke (control-plane/src/api) and  *)
(* the recovery that runs before the server listens again.                 *)
(*                                                                         *)
(* Every handler is one transaction, or a few without an await between     *)
(* them, except the long poll of leaseRunnerJob, which parks the request   *)
(* between its checks and the lease.  A principal may present a lease it   *)
(* was once given at any later time and any number of times: that covers   *)
(* slow and restarted workers and delayed, repeated or lost requests.  A   *)
(* request that a check refuses changes nothing and is not a step.         *)
(*                                                                         *)
(* A dedupe key stands for its operation kind as well; the lease token is  *)
(* drawn afresh with every generation, so the generation stands for it;    *)
(* input and result digests are left out.  Time is kept as the time every  *)
(* lease has left: left[o] = lease_until - now, cut off at Expired.        *)
(***************************************************************************)
EXTENDS Integers

CONSTANTS
  Ops,          \* operation ids, in the order of the claim query
  Keys,         \* dedupe keys (operation kind, run, ...)
  Reclaimable,  \* keys of a kind in RECLAIMABLE_OPERATION_KINDS
  Spawn,        \* keys of kind SPAWN_AGENT
  RunnerKeys,   \* keys of a kind in RUNNER_OPERATION_KINDS
  Runners,      \* enrolled runners
  Workers,      \* host workers
  NoKey, NoOne,
  LeaseTime,    \* the 30 s of a lease, in clock ticks
  MaxAhead,     \* bound on how far ahead of the clock a lease may be made to end
  MaxLeases,    \* bound on the generation of an operation
  MaxCrashes    \* bound on Crash

Principals == Runners \cup Workers
Expired    == -1

ASSUME QueueAssumption ==
  /\ Ops \subseteq Nat
  /\ Reclaimable \subseteq Keys /\ Spawn \subseteq Keys /\ RunnerKeys \subseteq Keys
  /\ NoKey \notin Keys /\ NoOne \notin Principals
  /\ LeaseTime \in Nat /\ MaxAhead \in Nat /\ LeaseTime <= MaxAhead
  /\ MaxLeases \in Nat /\ MaxCrashes \in Nat

VARIABLES
  state,     \* operations.state ("absent": no row)
  key,       \* operations.dedupe_key
  gen,       \* operations.lease_generation (and the token drawn with it)
  owner,     \* operations.lease_owner
  left,      \* operations.lease_until, relative to the clock
  report,    \* generation whose result_digest or error_digest the row holds (0: none)
  issued,    \* leases handed out: [op, gen, who]
  revoked,   \* runners.revoked_at is set
  waiting,   \* principals whose lease request is parked in waitForWork
  server,    \* the control plane: "up", "down", "starting"
  scanned,   \* rows that recoverOperations selected and has not marked yet
  crashes

row  == <<state, key, gen, owner, left, report>>
vars == <<row, issued, revoked, waiting, server, scanned, crashes>>

Lease == [op : Ops, gen : 1..MaxLeases, who : Principals]

Init ==
  /\ state = [o \in Ops |-> "absent"]
  /\ key = [o \in Ops |-> NoKey]
  /\ gen = [o \in Ops |-> 0]
  /\ owner = [o \in Ops |-> NoOne]
  /\ left = [o \in Ops |-> Expired]
  /\ report = [o \in Ops |-> 0]
  /\ issued = {} /\ revoked = {} /\ waiting = {}
  /\ server = "up" /\ scanned = {} /\ crashes = 0

----------------------------------------------------------------------------
(* enqueueOperation: a known id or dedupe key answers with the stored row  *)
(* (or a conflict) and changes nothing.  A starting server requeues agent  *)
(* work after the recovery and before it listens.                          *)

Enqueue(o, k) ==
  /\ server = "up" \/ (server = "starting" /\ scanned = {})
  /\ state[o] = "absent" /\ \A q \in Ops : key[q] # k
  /\ state' = [state EXCEPT ![o] = "ready"]
  /\ key' = [key EXCEPT ![o] = k]
  /\ UNCHANGED <<gen, owner, left, report, issued, revoked, waiting, server, scanned, crashes>>

----------------------------------------------------------------------------
(* leaseRunnerJob: listClaimableOperations, then leaseOperation on the     *)
(* first row.                                                              *)

HasExpiredEarly(o) == left[o] <= 0           \* mutant: now >= lease_until

\* now > lease_until
HasExpired(o) == left[o] = Expired

\* mutant: an operation with an unknown outcome is offered whatever its kind
ClaimableUnknown(o) ==
  \/ state[o] = "ready"
  \/ state[o] = "leased" /\ key[o] \in Reclaimable /\ HasExpired(o)
  \/ state[o] = "unknown"
  \/ state[o] = "failed" /\ key[o] \in Reclaimable \ Spawn

\* A failed SPAWN_AGENT is retried by a new operation, not by this one.
Claimable(o) ==
  \/ state[o] = "ready"
  \/ state[o] = "leased" /\ key[o] \in Reclaimable /\ HasExpired(o)
  \/ state[o] = "unknown" /\ key[o] \in Reclaimable
  \/ state[o] = "failed" /\ key[o] \in Reclaimable \ Spawn

Serves(p, o) == (key[o] \in RunnerKeys) <=> (p \in Runners)

Offered(p) == {o \in Ops : Claimable(o) /\ Serves(p, o)}

\* The row becomes leased under a new generation; the answer may be lost.
LeaseFirst(p) ==
  \E o \in Offered(p) :
    /\ \A q \in Offered(p) : o <= q
    /\ gen[o] < MaxLeases
    /\ state' = [state EXCEPT ![o] = "leased"]
    /\ gen' = [gen EXCEPT ![o] = @ + 1]
    /\ owner' = [owner EXCEPT ![o] = p]
    /\ left' = [left EXCEPT ![o] = LeaseTime]
    /\ report' = [report EXCEPT ![o] = 0]
    /\ issued' = issued \cup {[op |-> o, gen |-> gen[o] + 1, who |-> p]}
    /\ UNCHANGED key

\* Revocation is checked when the request arrives ...
Poll(p) ==
  /\ server = "up" /\ p \notin revoked /\ p \notin waiting
  /\ IF Offered(p) # {}
     THEN LeaseFirst(p) /\ UNCHANGED waiting
     ELSE waiting' = waiting \cup {p} /\ UNCHANGED <<row, issued>>
  /\ UNCHANGED <<revoked, server, scanned, crashes>>

\* ... and not again when the parked request wakes, notified or timed out.
Wake(p) ==
  /\ server = "up" /\ p \in waiting /\ waiting' = waiting \ {p}
  /\ IF Offered(p) # {} THEN LeaseFirst(p) ELSE UNCHANGED <<row, issued>>
  /\ UNCHANGED <<revoked, server, scanned, crashes>>

----------------------------------------------------------------------------
(* What the holder of a lease reports.                                     *)

\* mutant: owner and expiry are checked, generation and token are not
LiveAnyGeneration(l) ==
  /\ server = "up" /\ l.who \notin revoked
  /\ state[l.op] = "leased" /\ ~HasExpired(l.op)
  /\ owner[l.op] = l.who

\* mTLS identity, then assertLiveLease and assertLeaseGeneration.
Live(l) ==
  /\ server = "up" /\ l.who \notin revoked
  /\ state[l.op] = "leased" /\ ~HasExpired(l.op)
  /\ owner[l.op] = l.who /\ gen[l.op] = l.gen

Heartbeat(l) ==
  /\ Live(l)
  /\ left' = [left EXCEPT ![l.op] = LeaseTime]
  /\ UNCHANGED <<state, key, gen, owner, report, issued, revoked, waiting, server, scanned, crashes>>

\* mutant: the lease columns are not cleared
CloseKeepsOwner(o, s, g) ==
  /\ state' = [state EXCEPT ![o] = s]
  /\ report' = [report EXCEPT ![o] = g]
  /\ UNCHANGED <<owner, left>>

\* The UPDATE of completeOperation, failOperation and markOperationUnknown.
Close(o, s, g) ==
  /\ state' = [state EXCEPT ![o] = s]
  /\ owner' = [owner EXCEPT ![o] = NoOne]
  /\ left' = [left EXCEPT ![o] = Expired]
  /\ report' = [report EXCEPT ![o] = g]

\* completeOperation: SUCCEEDED, FAILED or UNKNOWN.  UNKNOWN is a heartbeat and
\* markOperationUnknown; a crash between the two leaves just the Heartbeat.
Complete(l, outcome) ==
  /\ Live(l) /\ Close(l.op, outcome, l.gen)
  /\ UNCHANGED <<key, gen, issued, revoked, waiting, server, scanned, crashes>>

----------------------------------------------------------------------------
(* Revocation, time, crash and recovery.                                   *)

\* revokeRunner: lease_until of its leases becomes the request's effectiveAt, which may
\* lie in the past or past the end of the lease.
Revoke(r, effective) ==
  /\ server = "up" /\ revoked' = revoked \cup {r}
  /\ left' = [o \in Ops |-> IF state[o] = "leased" /\ owner[o] = r THEN effective ELSE left[o]]
  /\ UNCHANGED <<state, key, gen, owner, report, issued, waiting, server, scanned, crashes>>

Tick ==
  /\ left' = [o \in Ops |-> IF HasExpired(o) THEN Expired ELSE left[o] - 1]
  /\ UNCHANGED <<state, key, gen, owner, report, issued, revoked, waiting, server, scanned, crashes>>

\* The process dies; the table is durable, parked requests are gone.
Crash ==
  /\ server # "down" /\ crashes < MaxCrashes /\ crashes' = crashes + 1
  /\ server' = "down" /\ waiting' = {} /\ scanned' = {}
  /\ UNCHANGED <<row, issued, revoked>>

\* mutant: rows are selected by their expiry alone
RecoverableAnyState(o) == key[o] \in Keys \ Reclaimable /\ HasExpired(o)

Recoverable(o) == state[o] = "leased" /\ key[o] \notin Reclaimable /\ HasExpired(o)

\* recoverOperations scans the table once, with one reading of the clock ...
Restart ==
  /\ server = "down" /\ server' = "starting"
  /\ scanned' = {o \in Ops : Recoverable(o)}
  /\ UNCHANGED <<row, issued, revoked, waiting, crashes>>

\* ... then marks one row per transaction, without looking at it again: the
\* outcome of an expired non-reclaimable lease is unknown.
Recover(o) ==
  /\ o \in scanned /\ scanned' = scanned \ {o}
  /\ Close(o, "unknown", 0)
  /\ UNCHANGED <<key, gen, issued, revoked, waiting, server, crashes>>

\* The server listens only after the recovery.
Listen ==
  /\ server = "starting" /\ scanned = {}
  /\ server' = "up"
  /\ UNCHANGED <<row, issued, revoked, waiting, scanned, crashes>>

----------------------------------------------------------------------------

Outcomes == {"succeeded", "failed", "unknown"}

Next ==
  \/ \E o \in Ops, k \in Keys : Enqueue(o, k)
  \/ \E p \in Principals : Poll(p) \/ Wake(p)
  \/ \E l \in issued : Heartbeat(l) \/ \E s \in Outcomes : Complete(l, s)
  \/ \E r \in Runners, e \in Expired..MaxAhead : Revoke(r, e)
  \/ \E o \in Ops : Recover(o)
  \/ Tick \/ Crash \/ Restart \/ Listen

Spec == Init /\ [][Next]_vars

----------------------------------------------------------------------------

\* The CHECK constraint of the table: the lease columns are set exactly while
\* the row is leased, a result or error exactly when it is settled.
RowShape(o) ==
  /\ (owner[o] # NoOne) <=> (state[o] = "leased")
  /\ left[o] # Expired => state[o] = "leased"
  /\ report[o] # 0 => state[o] \in Outcomes
  /\ (key[o] = NoKey) <=> (state[o] = "absent")
  /\ state[o] \in {"absent", "ready"} => gen[o] = 0

\* Types, and the row shape the schema demands of every UPDATE.
TypeOK ==
  /\ state \in [Ops -> {"absent", "ready", "leased"} \cup Outcomes]
  /\ key \in [Ops -> Keys \cup {NoKey}]
  /\ gen \in [Ops -> 0..MaxLeases]
  /\ owner \in [Ops -> Principals \cup {NoOne}]
  /\ left \in [Ops -> Expired..MaxAhead]
  /\ report \in [Ops -> 0..MaxLeases]
  /\ issued \subseteq Lease
  /\ revoked \subseteq Runners
  /\ waiting \subseteq Principals
  /\ server \in {"up", "down", "starting"}
  /\ scanned \subseteq Ops
  /\ crashes \in 0..MaxCrashes
  /\ \A o \in Ops : RowShape(o)

\* "An expired generation can never submit a late result after re-lease"
\* (specification, section 13): a result or error that is stored was reported
\* under the newest lease of the row, before that lease expired.
LateResultRefused ==
  [][\A o \in Ops :
       report'[o] # report[o] /\ report'[o] # 0 =>
         report'[o] = gen[o] /\ gen'[o] = gen[o] /\ left[o] # Expired]_vars

\* Nobody takes over an unexpired lease (leaseOperation, "active lease cannot
\* be stolen"), whatever crashes and restarts: only its own holder ends it.
UnexpiredLeaseKept ==
  [][\A o \in Ops :
       state[o] = "leased" /\ left[o] # Expired =>
         /\ gen'[o] = gen[o]
         /\ state'[o] # "leased" => report'[o] = gen[o]]_vars

\* A non-reclaimable operation (PROMOTE_WORKSPACE, REQUEST_REPAIR, ...) is
\* handed out once, even if its outcome is lost: leaseOperation refuses the
\* second lease and recovery only marks it unknown.
NonReclaimableOnce ==
  \A o \in Ops : key[o] \notin Reclaimable => gen[o] <= 1

\* A persisted success is final: neither recovery, a late report nor another
\* lease changes the row again (the stored result is what a repeated
\* operation id answers).
SuccessIsFinal ==
  [][\A o \in Ops :
       state[o] = "succeeded" =>
         state'[o] = state[o] /\ report'[o] = report[o] /\ gen'[o] = gen[o]]_vars

=============================================================================
