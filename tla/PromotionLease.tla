--------------------------- MODULE PromotionLease ---------------------------
(***************************************************************************)
(* What promotion promises to the rest of the system, without files,       *)
(* journals or crashes: a workspace has one lease; whoever takes it        *)
(* decides one outcome while holding it; only then is the lease given up;  *)
(* and an undecidable outcome locks the workspace.                         *)
(***************************************************************************)
CONSTANTS Requests, NoRequest, Outcomes, Lockout

VARIABLES holder,   \* the request that holds the lease
          outcome,  \* the outcome each request was given ("NONE": none yet)
          locked    \* the workspace is locked for manual recovery

leaseVars == <<holder, outcome, locked>>

LeaseInit ==
  /\ holder = NoRequest /\ locked = FALSE
  /\ outcome = [r \in Requests |-> "NONE"]

Acquire(r) ==
  /\ holder = NoRequest /\ ~locked /\ outcome[r] = "NONE"
  /\ holder' = r /\ UNCHANGED <<outcome, locked>>

Decide(r, o) ==
  /\ holder = r /\ outcome[r] = "NONE"
  /\ outcome' = [outcome EXCEPT ![r] = o] /\ UNCHANGED <<holder, locked>>

Release(r) ==
  /\ holder = r /\ outcome[r] # "NONE"
  /\ holder' = NoRequest /\ locked' = (outcome[r] = Lockout) /\ UNCHANGED outcome

LeaseNext ==
  \E r \in Requests : Acquire(r) \/ Release(r) \/ \E o \in Outcomes : Decide(r, o)

LeaseSpec == LeaseInit /\ [][LeaseNext]_leaseVars
=============================================================================
