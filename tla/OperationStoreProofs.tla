------------------------ MODULE OperationStoreProofs ------------------------
(***************************************************************************)
(* TLAPS proofs about OperationStore, for every set of operations, keys    *)
(* and principals and every bound.                                         *)
(*                                                                         *)
(* The invariant QueueInv adds to TypeOK what recoverOperations relies on  *)
(* when it marks rows without looking at them again: between its scan and  *)
(* its writes nobody else touches the rows, because the server does not    *)
(* listen yet and an expired lease stays expired.                          *)
(***************************************************************************)
EXTENDS OperationStore, TLAPS

\* A row that recovery selected is still the expired non-reclaimable lease that
\* the scan saw, and the server is not serving.
ScanFresh == \A o \in scanned : server = "starting" /\ Recoverable(o)

QueueInv == TypeOK /\ ScanFresh /\ NonReclaimableOnce

\* The initial table is empty.
LEMMA InitQueueInv == Init => QueueInv
  BY QueueAssumption
  DEF Init, QueueInv, TypeOK, ScanFresh, NonReclaimableOnce, RowShape, Expired, Outcomes, Lease

\* enqueueOperation only adds a ready row where there was none.
LEMMA EnqueuePreserves ==
  ASSUME QueueInv, NEW o \in Ops, NEW k \in Keys, Enqueue(o, k)
  PROVE  QueueInv'
<1>1. TypeOK'
  BY QueueAssumption
  DEF QueueInv, Enqueue, TypeOK, RowShape, Outcomes, Lease
<1>2. ScanFresh' /\ NonReclaimableOnce'
  BY QueueAssumption
  DEF QueueInv, Enqueue, TypeOK, ScanFresh, NonReclaimableOnce, RowShape, Recoverable, HasExpired
<1> QED BY <1>1, <1>2 DEF QueueInv

\* leaseOperation on the first offered row: a row that is not reclaimable was
\* ready, so this is its first lease.
LEMMA LeasePreserves ==
  ASSUME QueueInv, NEW p \in Principals, LeaseFirst(p), server = "up",
         waiting' \subseteq Principals, UNCHANGED <<revoked, server, scanned, crashes>>
  PROVE  QueueInv'
<1> USE QueueAssumption
<1>1. PICK o \in Offered(p) :
        /\ gen[o] < MaxLeases
        /\ state' = [state EXCEPT ![o] = "leased"]
        /\ gen' = [gen EXCEPT ![o] = @ + 1]
        /\ owner' = [owner EXCEPT ![o] = p]
        /\ left' = [left EXCEPT ![o] = LeaseTime]
        /\ report' = [report EXCEPT ![o] = 0]
        /\ issued' = issued \cup {[op |-> o, gen |-> gen[o] + 1, who |-> p]}
        /\ UNCHANGED key
  BY DEF LeaseFirst
<1>2. o \in Ops /\ Claimable(o)
  BY DEF Offered
<1>3. gen[o] + 1 \in 1..MaxLeases /\ gen[o] \in Nat
  BY <1>1, <1>2 DEF QueueInv, TypeOK
<1>4. issued' \subseteq Lease
  BY <1>1, <1>2, <1>3 DEF QueueInv, TypeOK, Lease
<1>5. \A q \in Ops : RowShape(q)'
  BY <1>1, <1>2, <1>3 DEF QueueInv, TypeOK, RowShape, Claimable, Outcomes, Expired, Principals
<1>6. TypeOK'
  BY <1>1, <1>2, <1>3, <1>4, <1>5 DEF QueueInv, TypeOK, Expired, Principals
<1>7. ScanFresh'
  BY DEF QueueInv, ScanFresh
<1>8. NonReclaimableOnce'
  BY <1>1, <1>2, <1>3 DEF QueueInv, TypeOK, NonReclaimableOnce, Claimable, RowShape
<1> QED BY <1>6, <1>7, <1>8 DEF QueueInv

\* A lease request, answered at once or parked.
LEMMA PollPreserves ==
  ASSUME QueueInv, NEW p \in Principals, Poll(p) \/ Wake(p)
  PROVE  QueueInv'
<1>1. waiting' \subseteq Principals /\ server = "up" /\ UNCHANGED <<revoked, server, scanned, crashes>>
  BY DEF QueueInv, TypeOK, Poll, Wake
<1>2. CASE LeaseFirst(p)
  BY <1>1, <1>2, LeasePreserves
<1>3. CASE UNCHANGED <<row, issued>>
  BY <1>1, <1>3 DEF QueueInv, TypeOK, ScanFresh, NonReclaimableOnce, RowShape, Recoverable,
                    HasExpired, row
<1> QED BY <1>2, <1>3 DEF Poll, Wake

\* Heartbeat, revocation and the clock change nothing but the time that is left.
LEMMA TimePreserves ==
  ASSUME QueueInv,
         \/ \E l \in issued : Heartbeat(l)
         \/ \E r \in Runners, e \in Expired..MaxAhead : Revoke(r, e)
         \/ Tick
  PROVE  QueueInv'
<1> USE QueueAssumption
<1>1. UNCHANGED <<state, key, gen, owner, report, issued, waiting, server, scanned, crashes>>
  BY DEF Heartbeat, Revoke, Tick
<1>2. revoked' \subseteq Runners
  BY DEF QueueInv, TypeOK, Heartbeat, Revoke, Tick
<1>3. /\ left' \in [Ops -> Expired..MaxAhead]
      /\ \A o \in Ops : left'[o] # Expired => state[o] = "leased"
  <2>1. CASE \E l \in issued : Heartbeat(l)
    BY <2>1 DEF QueueInv, TypeOK, RowShape, Heartbeat, Live, Lease, Expired
  <2>2. CASE \E r \in Runners, e \in Expired..MaxAhead : Revoke(r, e)
    BY <2>2 DEF QueueInv, TypeOK, RowShape, Revoke, Expired
  <2>3. CASE Tick
    BY <2>3 DEF QueueInv, TypeOK, RowShape, Tick, HasExpired, Expired
  <2> QED BY <2>1, <2>2, <2>3
<1>4. ScanFresh'
  <2>1. CASE \E l \in issued : Heartbeat(l)
    BY <1>1, <2>1 DEF QueueInv, ScanFresh, Heartbeat, Live
  <2>2. CASE \E r \in Runners, e \in Expired..MaxAhead : Revoke(r, e)
    BY <1>1, <2>2 DEF QueueInv, ScanFresh, Revoke
  <2>3. CASE Tick
    BY <1>1, <2>3 DEF QueueInv, TypeOK, ScanFresh, Tick, Recoverable, HasExpired
  <2> QED BY <2>1, <2>2, <2>3
<1>5. TypeOK' /\ NonReclaimableOnce'
  BY <1>1, <1>2, <1>3 DEF QueueInv, TypeOK, RowShape, NonReclaimableOnce
<1> QED BY <1>4, <1>5 DEF QueueInv

\* Closing a leased row clears its lease.
LEMMA CloseShape ==
  ASSUME TypeOK, NEW o \in Ops, state[o] = "leased", NEW s \in Outcomes, NEW g \in 0..MaxLeases,
         Close(o, s, g), UNCHANGED <<key, gen, issued, revoked, waiting, server, crashes>>,
         scanned' \subseteq Ops
  PROVE  TypeOK'
<1>1. \A q \in Ops : RowShape(q)'
  BY QueueAssumption DEF TypeOK, RowShape, Close, Outcomes, Principals
<1> QED BY <1>1, QueueAssumption DEF TypeOK, Close, Expired, Outcomes

\* completeOperation by the holder of a live lease.
LEMMA CompletePreserves ==
  ASSUME QueueInv, NEW l \in issued, NEW s \in Outcomes, Complete(l, s)
  PROVE  QueueInv'
<1>1. l.op \in Ops /\ l.gen \in 0..MaxLeases /\ state[l.op] = "leased" /\ server = "up"
  BY QueueAssumption DEF QueueInv, TypeOK, Lease, Complete, Live
<1>2. TypeOK'
  BY <1>1, CloseShape DEF QueueInv, TypeOK, Complete
<1>3. ScanFresh' /\ NonReclaimableOnce'
  BY <1>1 DEF QueueInv, TypeOK, ScanFresh, NonReclaimableOnce, Complete, Close
<1> QED BY <1>2, <1>3 DEF QueueInv

\* Crash, the scan at the restart, the marking of one row, and the start of serving.
LEMMA RecoveryPreserves ==
  ASSUME QueueInv, Crash \/ Restart \/ Listen \/ \E o \in Ops : Recover(o)
  PROVE  QueueInv'
<1> USE QueueAssumption
<1>1. CASE Crash \/ Restart \/ Listen
  <2>1. /\ UNCHANGED <<state, key, gen, owner, left, report, issued, revoked>>
        /\ waiting' \subseteq Principals /\ server' \in {"up", "down", "starting"}
        /\ scanned' \subseteq Ops /\ crashes' \in 0..MaxCrashes
    <3>1. CASE Crash
      BY <3>1 DEF QueueInv, TypeOK, Crash, row
    <3>2. CASE Restart
      BY <3>2 DEF QueueInv, TypeOK, Restart, row
    <3>3. CASE Listen
      BY <3>3 DEF QueueInv, TypeOK, Listen, row
    <3> QED BY <1>1, <3>1, <3>2, <3>3
  <2>2. TypeOK' /\ NonReclaimableOnce'
    BY <2>1 DEF QueueInv, TypeOK, NonReclaimableOnce, RowShape
  <2>3. ScanFresh'
    BY <1>1 DEF QueueInv, ScanFresh, Crash, Restart, Listen, row, Recoverable, HasExpired
  <2> QED BY <2>2, <2>3 DEF QueueInv
<1>2. ASSUME NEW o \in Ops, Recover(o) PROVE QueueInv'
  <2>1. state[o] = "leased"
    BY <1>2 DEF QueueInv, ScanFresh, Recover, Recoverable
  <2>2. TypeOK'
    <3>1. "unknown" \in Outcomes /\ 0 \in 0..MaxLeases /\ scanned' \subseteq Ops
      BY <1>2 DEF QueueInv, TypeOK, Recover, Outcomes
    <3> QED BY <1>2, <2>1, <3>1, CloseShape DEF QueueInv, Recover
  <2>3. ScanFresh' /\ NonReclaimableOnce'
    BY <1>2 DEF QueueInv, TypeOK, ScanFresh, NonReclaimableOnce, Recover, Close, Recoverable,
                HasExpired
  <2> QED BY <2>2, <2>3 DEF QueueInv
<1> QED BY <1>1, <1>2

\* Every step of the queue preserves the invariant.
LEMMA NextPreserves == QueueInv /\ [Next]_vars => QueueInv'
<1> SUFFICES ASSUME QueueInv, [Next]_vars PROVE QueueInv'
  OBVIOUS
<1>1. CASE \E o \in Ops, k \in Keys : Enqueue(o, k)
  BY <1>1, EnqueuePreserves
<1>2. CASE \E p \in Principals : Poll(p) \/ Wake(p)
  BY <1>2, PollPreserves
<1>3. CASE \/ \E l \in issued : Heartbeat(l)
           \/ \E r \in Runners, e \in Expired..MaxAhead : Revoke(r, e)
           \/ Tick
  BY <1>3, TimePreserves
<1>4. CASE \E l \in issued : \E s \in Outcomes : Complete(l, s)
  BY <1>4, CompletePreserves
<1>5. CASE Crash \/ Restart \/ Listen \/ \E o \in Ops : Recover(o)
  BY <1>5, RecoveryPreserves
<1>6. CASE UNCHANGED vars
  BY <1>6 DEF QueueInv, TypeOK, ScanFresh, NonReclaimableOnce, RowShape, Recoverable,
              HasExpired, vars, row
<1> QED BY <1>1, <1>2, <1>3, <1>4, <1>5, <1>6 DEF Next

\* The invariant holds in every state of every run of the queue.
LEMMA QueueInvariant == Spec => []QueueInv
  BY InitQueueInv, NextPreserves, PTL DEF Spec

\* The rows always satisfy the CHECK constraint of the operations table, so no
\* UPDATE of a handler or of recovery can be refused by the schema.
THEOREM QueueTypeCorrect == Spec => []TypeOK
<1>1. QueueInv => TypeOK
  BY DEF QueueInv
<1> QED BY <1>1, QueueInvariant, PTL

\* A non-reclaimable operation is leased at most once, over any number of
\* crashes, expiries and lost answers.
THEOREM QueueLeasesOnce == Spec => []NonReclaimableOnce
<1>1. QueueInv => NonReclaimableOnce
  BY DEF QueueInv
<1> QED BY <1>1, QueueInvariant, PTL

\* Which rows a step may change, and how.
LEMMA StepOfRow ==
  ASSUME QueueInv, [Next]_vars, NEW o \in Ops
  PROVE  \/ gen'[o] = gen[o] /\ state'[o] = state[o] /\ report'[o] = report[o]
         \/ state[o] = "absent" /\ gen'[o] = gen[o] /\ report'[o] = report[o]
         \/ Claimable(o) /\ report'[o] = 0
         \/ /\ state[o] = "leased" /\ left[o] # Expired
            /\ gen'[o] = gen[o] /\ report'[o] = gen[o]
         \/ Recoverable(o) /\ gen'[o] = gen[o] /\ report'[o] = 0
<1> USE QueueAssumption
<1>1. CASE \E q \in Ops, k \in Keys : Enqueue(q, k)
  BY <1>1 DEF QueueInv, TypeOK, Enqueue
<1>2. CASE \E p \in Principals : Poll(p) \/ Wake(p)
  <2>1. PICK p \in Principals : LeaseFirst(p) \/ UNCHANGED <<row, issued>>
    BY <1>2 DEF Poll, Wake
  <2>2. CASE LeaseFirst(p)
    BY <2>2 DEF QueueInv, TypeOK, LeaseFirst, Offered
  <2>3. CASE UNCHANGED <<row, issued>>
    BY <2>3 DEF row
  <2> QED BY <2>1, <2>2, <2>3
<1>3. CASE \/ \E l \in issued : Heartbeat(l)
           \/ \E r \in Runners, e \in Expired..MaxAhead : Revoke(r, e)
           \/ Tick
  BY <1>3 DEF Heartbeat, Revoke, Tick
<1>4. ASSUME NEW l \in issued, NEW s \in Outcomes, Complete(l, s)
      PROVE  \/ gen'[o] = gen[o] /\ state'[o] = state[o] /\ report'[o] = report[o]
             \/ /\ state[o] = "leased" /\ left[o] # Expired
                /\ gen'[o] = gen[o] /\ report'[o] = gen[o]
  BY <1>4 DEF QueueInv, TypeOK, Complete, Close, Live, HasExpired, Lease
<1>5. CASE Crash \/ Restart \/ Listen
  BY <1>5 DEF Crash, Restart, Listen, row
<1>6. CASE \E q \in Ops : Recover(q)
  BY <1>6 DEF QueueInv, TypeOK, ScanFresh, Recover, Close
<1>7. CASE UNCHANGED vars
  BY <1>7 DEF vars, row
<1> QED BY <1>1, <1>2, <1>3, <1>4, <1>5, <1>6, <1>7 DEF Next

\* A stored result or error was reported under the newest lease of the row and
\* before that lease expired, whatever stale requests arrive.
THEOREM QueueRefusesLateResults == Spec => LateResultRefused
<1>1. QueueInv /\ [Next]_vars =>
        [\A o \in Ops :
           report'[o] # report[o] /\ report'[o] # 0 =>
             report'[o] = gen[o] /\ gen'[o] = gen[o] /\ left[o] # Expired]_vars
  BY StepOfRow
<1> QED BY <1>1, QueueInvariant, PTL DEF Spec, LateResultRefused

\* An unexpired lease ends only by a report of its own holder.
THEOREM QueueKeepsLeases == Spec => UnexpiredLeaseKept
<1>1. QueueInv /\ [Next]_vars =>
        [\A o \in Ops :
           state[o] = "leased" /\ left[o] # Expired =>
             /\ gen'[o] = gen[o]
             /\ state'[o] # "leased" => report'[o] = gen[o]]_vars
  BY StepOfRow DEF Claimable, Recoverable, HasExpired
<1> QED BY <1>1, QueueInvariant, PTL DEF Spec, UnexpiredLeaseKept

\* A persisted success is never changed again.
THEOREM QueueSuccessFinal == Spec => SuccessIsFinal
<1>1. QueueInv /\ [Next]_vars =>
        [\A o \in Ops :
           state[o] = "succeeded" =>
             state'[o] = state[o] /\ report'[o] = report[o] /\ gen'[o] = gen[o]]_vars
  BY StepOfRow DEF Claimable, Recoverable
<1> QED BY <1>1, QueueInvariant, PTL DEF Spec, SuccessIsFinal
=============================================================================
