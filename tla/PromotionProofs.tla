--------------------------- MODULE PromotionProofs ---------------------------
(***************************************************************************)
(* TLAPS proofs about the promotion's types and its lease: TypeOK,         *)
(* LeaseCoversJournal, SettledForGood, OneJournalPerGrant and the          *)
(* refinement of PromotionLease, for every workspace, every set of calls   *)
(* and change sets and any number of crashes, edits and faults.            *)
(*                                                                         *)
(* TypeOK is not inductive by itself: while a call handles an entry, that  *)
(* entry must exist in its plan, or the content it writes and the handle   *)
(* it drops have no type.  LeaseCoversJournal is not inductive either.     *)
(* LeaseInv adds where a call that owns the lease can be: while it works   *)
(* its journal is unfinished, and from the receipt to the drop its journal *)
(* already has the outcome it is about to release the lease with.  The     *)
(* forty actions then fall into five kinds of step as far as the lease is  *)
(* concerned (StepKind), and the results follow from the kinds.            *)
(***************************************************************************)
EXTENDS Promotion, TLAPS

\* Locations inside the handling of one entry.
EntryPC == {"mutating", "recording", "restoring", "restored", "reapplying", "rerecording"}

\* A call is at an entry of its plan while it handles one.
EntryInv == \A r \in Requests : pc[r] \in EntryPC => idx[r] \in 1..N(r)

TypeInv == TypeOK /\ EntryInv

----------------------------------------------------------------------------
(* Type correctness.                                                       *)

\* At an entry of the plan, what the call reads and writes is well typed.
LEMMA EntryFacts ==
  ASSUME TypeOK, NEW r \in Requests, idx[r] \in 1..N(r)
  PROVE  /\ Target(r) \in Paths /\ idx[r] \in Slots
         /\ AfterOf(r) \in FileState /\ Current(r) \in FileState /\ BeforeOf(r) \in FileState
<1>1. Plan[r] \in Seq(Entry) /\ Plan[r][idx[r]] \in Entry
  BY PlanAssumption DEF N
<1>2. idx[r] \in Slots
  BY DEF Slots, N
<1>3. Target(r) \in Paths /\ AfterOf(r) \in FileState
  BY <1>1 DEF Target, AfterOf, Entry
<1> QED BY <1>2, <1>3 DEF Current, BeforeOf, TypeOK

\* The length of a plan.
LEMMA PlanLength == ASSUME NEW r \in Requests PROVE N(r) \in Nat /\ 1..N(r) \subseteq Slots
  BY PlanAssumption DEF N, Slots

\* The counters and what recovery could not read, as TypeOK has them.
HistoryOK ==
  /\ unread \in [Requests -> SUBSET Slots]
  /\ crashes \in 0..MaxCrashes /\ edits \in 0..MaxEdits /\ faults \in 0..MaxFaults

\* They keep their types when reads fail, noted or not.
LEMMA ReadsKeepTypes ==
  ASSUME TypeOK, NEW r \in Requests, NEW u \in SUBSET Slots, ReadsFail(r, u),
         unread' = unread \/ unread' = [unread EXCEPT ![r] = u]
  PROVE  HistoryOK'
<1>1. unread' \in [Requests -> SUBSET Slots]
  BY DEF TypeOK
<1>2. crashes' \in 0..MaxCrashes /\ edits' \in 0..MaxEdits
  BY DEF ReadsFail, TypeOK
<1>3. faults' = faults \/ (faults < MaxFaults /\ faults' = faults + 1)
  BY DEF ReadsFail
<1>4. faults' \in 0..MaxFaults
  BY <1>3, BoundAssumption DEF TypeOK
<1> QED BY <1>1, <1>2, <1>4 DEF HistoryOK

\* The steps of a live call keep the types.
LEMMA LiveStepType == ASSUME TypeInv, NEW r \in Requests, LiveStep(r) PROVE TypeInv'
<1> USE PlanAssumption, BoundAssumption, PlanLength, EntryFacts
    DEF LivePC, ForwardPC, UndoPC, FinishPC, Nonterminal, Terminal, EntryState
<1>1. CASE ConsumeNonce(r)
  <2>1. CASE /\ nonces' = nonces \cup {GrantOf[r]} /\ Goto(r, "nonce")
             /\ UNCHANGED <<tree, mode, lease, grants, journal, idx, goal, held, history>>
    BY <2>1 DEF TypeInv, TypeOK, EntryInv, EntryPC, tree, lease, ledger, journal, control, history,
       Goto
  <2>2. CASE /\ Goto(r, "done") /\ UNCHANGED nonces
             /\ UNCHANGED <<tree, mode, lease, grants, journal, idx, goal, held, history>>
    BY <2>2 DEF TypeInv, TypeOK, EntryInv, EntryPC, tree, lease, ledger, journal, control, history,
       Goto
  <2> QED BY <2>1, <2>2, <1>1 DEF ConsumeNonce
<1>2. CASE ConsumeGrant(r)
  <2>1. CASE /\ grants' = grants \cup {GrantOf[r]} /\ Goto(r, "granted")
             /\ UNCHANGED <<tree, mode, lease, nonces, journal, idx, goal, held, history>>
    BY <2>1 DEF TypeInv, TypeOK, EntryInv, EntryPC, tree, lease, ledger, journal, control, history,
       Goto
  <2>2. CASE /\ Goto(r, "done") /\ UNCHANGED grants
             /\ UNCHANGED <<tree, mode, lease, nonces, journal, idx, goal, held, history>>
    BY <2>2 DEF TypeInv, TypeOK, EntryInv, EntryPC, tree, lease, ledger, journal, control, history,
       Goto
  <2> QED BY <2>1, <2>2, <1>2 DEF ConsumeGrant
<1>3. CASE BeginJournal(r)
  <2>1. CASE /\ recovery' = "RECONCILING" /\ active' = r /\ Journal(r, "PREPARING") /\ Goto(r, "staging")
             /\ UNCHANGED <<tree, mode, ledger, estate, before, idx, goal, held, history>>
    BY <2>1 DEF TypeInv, TypeOK, EntryInv, EntryPC, tree, lease, ledger, journal, control, history,
       Goto, Journal
  <2>2. CASE /\ Goto(r, "done") /\ UNCHANGED <<lease, jstate>>
             /\ UNCHANGED <<tree, mode, ledger, estate, before, idx, goal, held, history>>
    BY <2>2 DEF TypeInv, TypeOK, EntryInv, EntryPC, tree, lease, ledger, journal, control, history,
       Goto, Journal
  <2> QED BY <2>1, <2>2, <1>3 DEF BeginJournal
<1>4. CASE Stage(r)
  BY <1>4 DEF TypeInv, TypeOK, EntryInv, EntryPC, tree, lease, ledger, journal, control, history,
     Stage, Goto, At
<1>5. CASE Abandon(r)
  BY <1>5 DEF TypeInv, TypeOK, EntryInv, EntryPC, tree, lease, ledger, journal, control, history,
     Abandon, Goto, Fault
<1>6. CASE PrepareEntry(r)
  BY <1>6 DEF TypeInv, TypeOK, EntryInv, EntryPC, tree, lease, ledger, journal, control, history,
     PrepareEntry, Mark, At
<1>7. CASE PrepareFails(r)
  <2>1. /\ Aim(r, "STALE") /\ Goto(r, "settling")
        /\ held' = [held EXCEPT ![r] = {}] /\ UNCHANGED <<tree, mode, lease, ledger, journal, idx>>
    BY <1>7 DEF PrepareFails
  <2>2. HistoryOK'
    BY <1>7 DEF PrepareFails, Fault, HistoryOK, TypeInv, TypeOK, history
  <2> QED
    BY <2>1, <2>2 DEF HistoryOK, TypeInv, TypeOK, EntryInv, EntryPC, tree, lease, ledger, journal,
       control, Aim, Goto
<1>8. CASE SetPrepared(r)
  BY <1>8 DEF TypeInv, TypeOK, EntryInv, EntryPC, tree, lease, ledger, journal, control, history,
     SetPrepared, Journal, Goto
<1>9. CASE Recheck(r)
  <2>1. CASE /\ Journal(r, "COMMITTING") /\ Goto(r, "committing") /\ At(r, 1) /\ UNCHANGED goal
             /\ UNCHANGED <<tree, mode, lease, ledger, estate, before, held, history>>
    BY <2>1 DEF TypeInv, TypeOK, EntryInv, EntryPC, tree, lease, ledger, journal, control, history,
       Journal, Goto, At, Aim
  <2>2. CASE /\ Aim(r, "STALE") /\ Goto(r, "settling") /\ UNCHANGED <<jstate, idx>>
             /\ UNCHANGED <<tree, mode, lease, ledger, estate, before, held, history>>
    BY <2>2 DEF TypeInv, TypeOK, EntryInv, EntryPC, tree, lease, ledger, journal, control, history,
       Journal, Goto, At, Aim
  <2> QED BY <2>1, <2>2, <1>9 DEF Recheck
<1>10. CASE CommitCheck(r)
  <2>1. CASE /\ idx[r] \in 1..N(r) /\ Goto(r, "mutating")
             /\ held' = [held EXCEPT ![r] = @ \ {idx[r]}] /\ UNCHANGED <<jstate, idx, goal>>
             /\ UNCHANGED <<tree, mode, lease, ledger, estate, before, history>>
    BY <2>1 DEF TypeInv, TypeOK, EntryInv, EntryPC, tree, lease, ledger, journal, control, history,
       Goto, BeginRollback, Journal, At, Aim
  <2>2. CASE /\ BeginRollback(r, "ROLLED_BACK") /\ UNCHANGED held
             /\ UNCHANGED <<tree, mode, lease, ledger, estate, before, history>>
    BY <2>2 DEF TypeInv, TypeOK, EntryInv, EntryPC, tree, lease, ledger, journal, control, history,
       Goto, BeginRollback, Journal, At, Aim
  <2> QED BY <2>1, <2>2, <1>10 DEF CommitCheck
<1>11. CASE CommitMutate(r)
  BY <1>11 DEF TypeInv, TypeOK, EntryInv, EntryPC, tree, lease, ledger, journal, control, history,
     CommitMutate, Write, Goto
<1>12. CASE CommitFails(r)
  <2>1. BeginRollback(r, "ROLLED_BACK") /\ UNCHANGED <<tree, mode, lease, ledger, estate, before, held>>
    BY <1>12 DEF CommitFails
  <2>2. HistoryOK'
    BY <1>12 DEF CommitFails, Fault, HistoryOK, TypeInv, TypeOK, history
  <2> QED
    BY <2>1, <2>2 DEF HistoryOK, TypeInv, TypeOK, EntryInv, EntryPC, tree, lease, ledger, journal,
       control, BeginRollback, Journal, Goto, At, Aim
<1>13. CASE CommitRecord(r)
  BY <1>13 DEF TypeInv, TypeOK, EntryInv, EntryPC, tree, lease, ledger, journal, control, history,
     CommitRecord, Mark, Goto, At
<1>14. CASE SetVerifying(r)
  BY <1>14 DEF TypeInv, TypeOK, EntryInv, EntryPC, tree, lease, ledger, journal, control, history,
     SetVerifying, Journal, Goto
<1>15. CASE VerifyMatches(r)
  BY <1>15 DEF TypeInv, TypeOK, EntryInv, EntryPC, tree, lease, ledger, journal, control, history,
     VerifyMatches, Aim, Goto
<1>16. CASE VerifyFails(r)
  BY <1>16 DEF TypeInv, TypeOK, EntryInv, EntryPC, tree, lease, ledger, journal, control, history,
     VerifyFails, BeginRollback, Journal, Goto, At, Aim
<1> QED BY <1>1, <1>2, <1>3, <1>4, <1>5, <1>6, <1>7, <1>8, <1>9, <1>10, <1>11, <1>12, <1>13,
           <1>14, <1>15, <1>16 DEF LiveStep

\* Rollback, receipt and release keep the types.
LEMMA UndoStepType == ASSUME TypeInv, NEW r \in Requests, UndoStep(r) PROVE TypeInv'
<1> USE PlanAssumption, BoundAssumption, PlanLength, EntryFacts
    DEF LivePC, ForwardPC, UndoPC, FinishPC, Nonterminal, Terminal, EntryState
<1>1. CASE RollbackSkip(r)
  BY <1>1 DEF TypeInv, TypeOK, EntryInv, EntryPC, tree, lease, ledger, journal, control, history,
     RollbackSkip, Undo, At
<1>2. CASE RollbackSettle(r)
  BY <1>2 DEF TypeInv, TypeOK, EntryInv, EntryPC, tree, lease, ledger, journal, control, history,
     RollbackSettle, Undo, Mark, At
<1>3. CASE RollbackCheck(r)
  BY <1>3 DEF TypeInv, TypeOK, EntryInv, EntryPC, tree, lease, ledger, journal, control, history,
     RollbackCheck, Undo, Goto
<1>4. CASE RollbackRestore(r)
  BY <1>4 DEF TypeInv, TypeOK, EntryInv, EntryPC, tree, lease, ledger, journal, control, history,
     RollbackRestore, Write, Goto
<1>5. CASE RollbackRecord(r)
  BY <1>5 DEF TypeInv, TypeOK, EntryInv, EntryPC, tree, lease, ledger, journal, control, history,
     RollbackRecord, Mark, Goto, At
<1>6. CASE RollbackFails(r)
  BY <1>6 DEF TypeInv, TypeOK, EntryInv, EntryPC, tree, lease, ledger, journal, control, history,
     RollbackFails, Undo, Fault, Aim, Goto
<1>7. CASE RollbackDone(r)
  BY <1>7 DEF TypeInv, TypeOK, EntryInv, EntryPC, tree, lease, ledger, journal, control, history,
     RollbackDone, Aim, Goto, RollbackOutcome
<1>8. CASE Settle(r)
  BY <1>8 DEF TypeInv, TypeOK, EntryInv, EntryPC, tree, lease, ledger, journal, control, history,
     Settle, Journal, Goto
<1>9. CASE DropLease(r)
  BY <1>9 DEF TypeInv, TypeOK, EntryInv, EntryPC, tree, lease, ledger, journal, control, history,
     DropLease, Goto, ReleasedState
<1> QED BY <1>1, <1>2, <1>3, <1>4, <1>5, <1>6, <1>7, <1>8, <1>9 DEF UndoStep

\* Reconciliation keeps the types.
LEMMA RecoverStepType == ASSUME TypeInv, NEW r \in Requests, RecoverStep(r) PROVE TypeInv'
<1> USE PlanAssumption, BoundAssumption, PlanLength, EntryFacts
    DEF LivePC, ForwardPC, UndoPC, FinishPC, Nonterminal, Terminal, EntryState
<1>1. CASE RecoverStale(r)
  BY <1>1 DEF TypeInv, TypeOK, EntryInv, EntryPC, tree, lease, ledger, journal, control, history,
     RecoverStale, Aim, Goto
<1>2. CASE RecoverCommitting(r)
  <2>0. HistoryOK'
    BY <1>2, ReadsKeepTypes DEF RecoverCommitting, TypeInv
  <2>1. CASE /\ Journal(r, "COMMITTING") /\ Goto(r, "forward") /\ At(r, 1) /\ UNCHANGED goal
             /\ UNCHANGED <<tree, mode, lease, ledger, estate, before, held>>
    BY <2>0, <2>1 DEF HistoryOK, TypeInv, TypeOK, EntryInv, EntryPC, tree, lease, ledger, journal,
       control, Aim, Goto, Journal, At
  <2>2. CASE /\ Aim(r, "MANUAL_RECOVERY_REQUIRED") /\ Goto(r, "settling") /\ UNCHANGED <<jstate, idx>>
             /\ UNCHANGED <<tree, mode, lease, ledger, estate, before, held>>
    BY <2>0, <2>2 DEF HistoryOK, TypeInv, TypeOK, EntryInv, EntryPC, tree, lease, ledger, journal,
       control, Aim, Goto, Journal, At
  <2> QED BY <2>1, <2>2, <1>2 DEF RecoverCommitting
<1>3. CASE RecoverVerifying(r)
  BY <1>3 DEF TypeInv, TypeOK, EntryInv, EntryPC, tree, lease, ledger, journal, control, history,
     RecoverVerifying, Goto
<1>4. CASE RecoverRollingBack(r)
  BY <1>4 DEF TypeInv, TypeOK, EntryInv, EntryPC, tree, lease, ledger, journal, control, history,
     RecoverRollingBack, BeginRollback, Journal, Goto, At, Aim
<1>5. CASE ForwardCheck(r)
  <2>a. /\ idx[r] \in 1..N(r) /\ pc[r] = "forward"
        /\ UNCHANGED <<tree, mode, lease, ledger, before, held>>
    BY <1>5 DEF ForwardCheck, Forward
  <2>0. HistoryOK'
    BY <1>5, <2>a, ReadsKeepTypes DEF ForwardCheck, TypeInv
  <2>1. CASE Mark(r, "APPLIED") /\ At(r, idx[r] + 1) /\ UNCHANGED <<jstate, pc, goal>>
    BY <2>a, <2>0, <2>1 DEF HistoryOK, TypeInv, TypeOK, EntryInv, EntryPC, tree, lease, ledger, journal,
       control, At, Mark, Aim, Goto, BeginRollback, Journal
  <2>2. CASE At(r, idx[r] + 1) /\ UNCHANGED <<estate, jstate, pc, goal>>
    BY <2>a, <2>0, <2>2 DEF HistoryOK, TypeInv, TypeOK, EntryInv, EntryPC, tree, lease, ledger, journal,
       control, At, Mark, Aim, Goto, BeginRollback, Journal
  <2>3. CASE BeginRollback(r, "ROLLED_BACK") /\ UNCHANGED estate
    BY <2>a, <2>0, <2>3 DEF HistoryOK, TypeInv, TypeOK, EntryInv, EntryPC, tree, lease, ledger, journal,
       control, At, Mark, Aim, Goto, BeginRollback, Journal
  <2>4. CASE Aim(r, "MANUAL_RECOVERY_REQUIRED") /\ Goto(r, "settling") /\ UNCHANGED <<estate, jstate, idx>>
    BY <2>a, <2>0, <2>4 DEF HistoryOK, TypeInv, TypeOK, EntryInv, EntryPC, tree, lease, ledger, journal,
       control, At, Mark, Aim, Goto, BeginRollback, Journal
  <2>5. CASE Goto(r, "reapplying") /\ UNCHANGED <<estate, jstate, idx, goal>>
    BY <2>a, <2>0, <2>5 DEF HistoryOK, TypeInv, TypeOK, EntryInv, EntryPC, tree, lease, ledger, journal,
       control, At, Mark, Aim, Goto, BeginRollback, Journal
  <2> QED BY <2>1, <2>2, <2>3, <2>4, <2>5, <1>5 DEF ForwardCheck, BeginRollback
<1>6. CASE ForwardApply(r)
  BY <1>6 DEF TypeInv, TypeOK, EntryInv, EntryPC, tree, lease, ledger, journal, control, history,
     ForwardApply, Write, Goto
<1>7. CASE ForwardFails(r)
  <2>1. BeginRollback(r, "ROLLED_BACK") /\ UNCHANGED <<tree, mode, lease, ledger, estate, before, held>>
    BY <1>7 DEF ForwardFails
  <2>2. HistoryOK'
    BY <1>7 DEF ForwardFails, Fault, HistoryOK, TypeInv, TypeOK, history
  <2> QED
    BY <2>1, <2>2 DEF HistoryOK, TypeInv, TypeOK, EntryInv, EntryPC, tree, lease, ledger, journal,
       control, BeginRollback, Journal, Goto, At, Aim
<1>8. CASE ForwardRecord(r)
  BY <1>8 DEF TypeInv, TypeOK, EntryInv, EntryPC, tree, lease, ledger, journal, control, history,
     ForwardRecord, Mark, Goto, At
<1>9. CASE ForwardDone(r)
  BY <1>9 DEF TypeInv, TypeOK, EntryInv, EntryPC, tree, lease, ledger, journal, control, history,
     ForwardDone, Journal, Goto
<1>10. CASE Reverify(r)
  <2>a. UNCHANGED <<tree, mode, lease, ledger, journal, held, unread>>
    BY <1>10 DEF Reverify
  <2>0. HistoryOK'
    BY <1>10, ReadsKeepTypes DEF Reverify, TypeInv
  <2>1. CASE Aim(r, "COMMITTED") /\ Goto(r, "settling") /\ UNCHANGED idx
    BY <2>a, <2>0, <2>1 DEF HistoryOK, TypeInv, TypeOK, EntryInv, EntryPC, tree, lease, ledger,
       journal, control, Aim, Goto, At
  <2>2. CASE (Aim(r, "STALE") \/ Aim(r, "ROLLED_BACK")) /\ Goto(r, "rolling") /\ At(r, N(r))
    BY <2>a, <2>0, <2>2 DEF HistoryOK, TypeInv, TypeOK, EntryInv, EntryPC, tree, lease, ledger,
       journal, control, Aim, Goto, At
  <2> QED BY <2>1, <2>2, <1>10 DEF Reverify
<1> QED BY <1>1, <1>2, <1>3, <1>4, <1>5, <1>6, <1>7, <1>8, <1>9, <1>10 DEF RecoverStep

\* Crash, restart and other programs keep the types.
LEMMA EnvironmentType ==
  ASSUME TypeInv,
         \/ \E p \in Paths, c \in EditContents : EditFile(p, c)
         \/ Crash \/ OpenStore \/ OpenDone \/ RootVanishes \/ RootReturns \/ Finished
         \/ UNCHANGED vars
  PROVE  TypeInv'
<1> USE PlanAssumption, BoundAssumption
    DEF LivePC, ForwardPC, UndoPC, FinishPC, Nonterminal, Terminal, TypeInv, TypeOK, EntryInv,
        EntryPC, tree, lease, ledger, journal, control, history
<1>1. CASE \E p \in Paths, c \in EditContents : EditFile(p, c)
  BY <1>1 DEF EditFile
<1>2. CASE Crash
  BY <1>2 DEF Crash
<1>3. CASE OpenStore
  BY <1>3 DEF OpenStore
<1>4. CASE OpenDone
  <2>1. recovery' \in {"READY", "RECONCILING", "MANUAL_RECOVERY_REQUIRED"}
        /\ active' \in Requests \cup {NoRequest} /\ mode' = "up"
    BY <1>4 DEF OpenDone, ReleasedState
  <2>2. UNCHANGED <<tree, ledger, journal, control, history>>
    BY <1>4 DEF OpenDone
  <2> QED BY <2>1, <2>2
<1>5. CASE RootVanishes \/ RootReturns
  BY <1>5 DEF RootVanishes, RootReturns
<1>6. CASE Finished \/ UNCHANGED vars
  BY <1>6 DEF Finished, vars
<1> QED BY <1>1, <1>2, <1>3, <1>4, <1>5, <1>6

\* TypeInv is inductive.
LEMMA TypeStep == TypeInv /\ [Next]_vars => TypeInv'
  BY LiveStepType, UndoStepType, RecoverStepType, EnvironmentType DEF Next

\* Every variable keeps its type, and a call that handles an entry is at an
\* entry of its plan.
LEMMA TypeInvariant == Spec => []TypeInv
<1>1. Init => TypeInv
  BY PlanAssumption, BoundAssumption
  DEF Init, TypeInv, TypeOK, EntryInv, EntryPC, EntryState, LivePC, ForwardPC, UndoPC, FinishPC,
      Nonterminal, Terminal, FileState
<1> QED BY <1>1, TypeStep, PTL DEF Spec

\* Type correctness of the promotion journal for every workspace and change set.
THEOREM PromotionTypeCorrect == Spec => []TypeOK
<1>1. TypeInv => TypeOK
  BY DEF TypeInv
<1> QED BY <1>1, TypeInvariant, PTL

----------------------------------------------------------------------------
(* Where a call is, and its journal.                                       *)

\* Locations of a call that has not opened its journal yet.
EarlyPC == {"start", "nonce", "granted"}

\* Locations between the opened journal and its receipt.
WorkPC == {"staging", "preparing", "prepared", "committing", "mutating", "recording",
           "verifying", "forward", "reapplying", "rerecording", "reverifying",
           "rolling", "restoring", "restored", "settling"}

\* Locations that know the outcome they lead to.
AimedPC == {"rolling", "restoring", "restored", "settling"}

\* A call's place and its journal agree.
PlaceInv ==
  \A r \in Requests :
    /\ pc[r] \in EarlyPC => jstate[r] = "NONE"
    /\ pc[r] \in WorkPC => jstate[r] \in Nonterminal
    /\ pc[r] \in AimedPC => goal[r] \in Terminal
    /\ pc[r] = "dropping" => active = r /\ jstate[r] \in Terminal /\ goal[r] = jstate[r]

\* The lease is taken exactly while the workspace is RECONCILING, by a call
\* that opened a journal.
HolderInv ==
  /\ active \in Requests <=> recovery = "RECONCILING"
  /\ active \in Requests => jstate[active] # "NONE"

LeaseInv == LeaseCoversJournal /\ PlaceInv /\ HolderInv

----------------------------------------------------------------------------
(* The kinds of step.                                                      *)

\* Call q does not move.
Stays(q) == pc'[q] = pc[q] /\ goal'[q] = goal[q] /\ jstate'[q] = jstate[q]

\* Calls return, or move before they open a journal; lease and journals stay.
Idles ==
  /\ recovery' = recovery /\ active' = active
  /\ \A q \in Requests :
       /\ jstate'[q] = jstate[q]
       /\ \/ Stays(q) \/ pc'[q] = "done"
          \/ pc[q] \in EarlyPC /\ pc'[q] \in EarlyPC

\* Call r, or the reconciliation of its journal, goes on.
Works(r) ==
  /\ recovery' = recovery /\ active' = active
  /\ jstate[r] \in Nonterminal /\ jstate'[r] \in Nonterminal
  /\ pc'[r] \in WorkPC /\ (pc'[r] \in AimedPC => goal'[r] \in Terminal)
  /\ \A q \in Requests \ {r} : Stays(q)

\* Call r takes the lease and opens its journal.
Opens(r) ==
  /\ recovery = "READY" /\ recovery' = "RECONCILING" /\ active' = r /\ pc[r] = "granted"
  /\ jstate[r] = "NONE" /\ jstate'[r] = "PREPARING" /\ pc'[r] = "staging"
  /\ \A q \in Requests \ {r} : Stays(q)

\* The receipt of r becomes durable.
Settles(r) ==
  /\ recovery' = recovery /\ active' = active
  /\ pc[r] = "settling" /\ pc'[r] = "dropping"
  /\ jstate'[r] = goal[r] /\ goal'[r] = goal[r]
  /\ \A q \in Requests \ {r} : Stays(q)

\* The lease of the settled r is dropped, by the call or by the next open.
Releases(r) ==
  /\ active = r /\ jstate[r] \in Terminal
  /\ active' = NoRequest /\ recovery' = ReleasedState(jstate[r])
  /\ \A q \in Requests :
       /\ jstate'[q] = jstate[q] /\ pc'[q] # "dropping"
       /\ Stays(q) \/ pc'[q] = "done"

StepKind ==
  Idles \/ \E r \in Requests : Works(r) \/ Opens(r) \/ Settles(r) \/ Releases(r)

\* The steps of a live call.
LEMMA LiveKind == ASSUME TypeOK, LeaseInv, NEW r \in Requests, LiveStep(r) PROVE StepKind
<1> USE DEF TypeOK, LeaseInv, PlaceInv, HolderInv, Nonterminal, Terminal, EarlyPC, WorkPC, AimedPC,
            Stays, lease, ledger, journal, control
<1>1. CASE ConsumeNonce(r) \/ ConsumeGrant(r) \/ Abandon(r)
  <2>1. Idles
    BY <1>1 DEF ConsumeNonce, ConsumeGrant, Abandon, Goto, Idles
  <2> QED BY <2>1 DEF StepKind
<1>2. CASE BeginJournal(r)
  <2>1. CASE rootThere /\ LeaseFree
    <3>1. Opens(r)
      BY <1>2, <2>1 DEF BeginJournal, LeaseFree, Journal, Goto, Opens
    <3> QED BY <3>1 DEF StepKind
  <2>2. CASE ~(rootThere /\ LeaseFree)
    <3>1. Idles
      BY <1>2, <2>2 DEF BeginJournal, Goto, Idles
    <3> QED BY <3>1 DEF StepKind
  <2> QED BY <2>1, <2>2
<1>3. CASE Stage(r) \/ PrepareEntry(r) \/ PrepareFails(r) \/ SetPrepared(r)
  <2>1. Works(r)
    BY <1>3 DEF Stage, PrepareEntry, PrepareFails, SetPrepared, Goto, Aim, Journal, Works
  <2> QED BY <2>1 DEF StepKind
<1>4. CASE Recheck(r)
  <2>1. Works(r)
    BY <1>4 DEF Recheck, Goto, Aim, Journal, Works
  <2> QED BY <2>1 DEF StepKind
<1>5. CASE CommitCheck(r) \/ CommitFails(r) \/ VerifyFails(r)
  <2>1. Works(r)
    BY <1>5 DEF CommitCheck, CommitFails, VerifyFails, BeginRollback, Goto, Aim, Journal, Works
  <2> QED BY <2>1 DEF StepKind
<1>6. CASE CommitMutate(r) \/ CommitRecord(r) \/ SetVerifying(r) \/ VerifyMatches(r)
  <2>1. Works(r)
    BY <1>6 DEF CommitMutate, CommitRecord, SetVerifying, VerifyMatches, Goto, Aim, Journal, Works
  <2> QED BY <2>1 DEF StepKind
<1> QED BY <1>1, <1>2, <1>3, <1>4, <1>5, <1>6 DEF LiveStep

\* Rollback, receipt and release.
LEMMA UndoKind == ASSUME TypeOK, LeaseInv, NEW r \in Requests, UndoStep(r) PROVE StepKind
<1> USE DEF TypeOK, LeaseInv, PlaceInv, HolderInv, Nonterminal, Terminal, EarlyPC, WorkPC, AimedPC,
            Stays, lease, ledger, journal, control
<1>1. CASE RollbackSkip(r) \/ RollbackSettle(r) \/ RollbackCheck(r) \/ RollbackRestore(r)
           \/ RollbackRecord(r) \/ RollbackFails(r) \/ RollbackDone(r)
  <2>1. Works(r)
    BY <1>1 DEF RollbackSkip, RollbackSettle, RollbackCheck, RollbackRestore, RollbackRecord,
                RollbackFails, RollbackDone, RollbackOutcome, Undo, Goto, Aim, Works
  <2> QED BY <2>1 DEF StepKind
<1>2. CASE Settle(r)
  <2>1. Settles(r)
    BY <1>2 DEF Settle, Journal, Goto, Settles
  <2> QED BY <2>1 DEF StepKind
<1>3. CASE DropLease(r)
  <2>1. Releases(r)
    BY <1>3 DEF DropLease, Goto, Releases
  <2> QED BY <2>1 DEF StepKind
<1> QED BY <1>1, <1>2, <1>3 DEF UndoStep

\* Reconciliation.
LEMMA RecoverKind == ASSUME TypeOK, LeaseInv, NEW r \in Requests, RecoverStep(r) PROVE StepKind
<1> USE DEF TypeOK, LeaseInv, PlaceInv, HolderInv, Nonterminal, Terminal, EarlyPC, WorkPC, AimedPC,
            Stays, lease, ledger, journal, control
<1>1. CASE RecoverStale(r) \/ RecoverVerifying(r) \/ RecoverRollingBack(r)
  <2>1. Works(r)
    BY <1>1 DEF RecoverStale, RecoverVerifying, RecoverRollingBack, Recovering, BeginRollback,
                Goto, Aim, Journal, Works
  <2> QED BY <2>1 DEF StepKind
<1>2. CASE RecoverCommitting(r)
  <2>1. Works(r)
    BY <1>2 DEF RecoverCommitting, Recovering, Goto, Aim, Journal, Works
  <2> QED BY <2>1 DEF StepKind
<1>3. CASE ForwardCheck(r)
  <2>1. Works(r)
    BY <1>3 DEF ForwardCheck, Forward, BeginRollback, Goto, Aim, Journal, Works
  <2> QED BY <2>1 DEF StepKind
<1>4. CASE ForwardApply(r) \/ ForwardFails(r) \/ ForwardRecord(r) \/ ForwardDone(r)
  <2>1. Works(r)
    BY <1>4 DEF ForwardApply, ForwardFails, ForwardRecord, ForwardDone, Forward, BeginRollback,
                Goto, Aim, Journal, Works
  <2> QED BY <2>1 DEF StepKind
<1>5. CASE Reverify(r)
  <2>1. Works(r)
    BY <1>5 DEF Reverify, Goto, Aim, Works
  <2> QED BY <2>1 DEF StepKind
<1> QED BY <1>1, <1>2, <1>3, <1>4, <1>5 DEF RecoverStep

\* Other programs, crash and restart: an open finds the workspace already
\* RECONCILING when a journal is unfinished.
LEMMA EnvironmentKind ==
  ASSUME TypeOK, LeaseInv,
         \/ \E p \in Paths, c \in EditContents : EditFile(p, c)
         \/ Crash \/ OpenStore \/ OpenDone \/ RootVanishes \/ RootReturns \/ Finished
         \/ UNCHANGED vars
  PROVE  StepKind
<1> USE DEF TypeOK, LeaseInv, PlaceInv, HolderInv, Nonterminal, Terminal, EarlyPC, WorkPC, AimedPC,
            Stays, lease, ledger, journal, control
<1>1. CASE \/ \E p \in Paths, c \in EditContents : EditFile(p, c)
           \/ RootVanishes \/ RootReturns \/ Finished \/ UNCHANGED vars
  <2>1. Idles
    BY <1>1 DEF EditFile, RootVanishes, RootReturns, Finished, vars, Idles
  <2> QED BY <2>1 DEF StepKind
<1>2. CASE Crash
  <2>1. Idles
    BY <1>2 DEF Crash, Idles
  <2> QED BY <2>1 DEF StepKind
<1>3. CASE OpenStore
  <2>1. recovery' = recovery
    BY <1>3 DEF OpenStore, LeaseCoversJournal
  <2>2. Idles
    BY <1>3, <2>1 DEF OpenStore, Idles
  <2> QED BY <2>2 DEF StepKind
<1>4. CASE OpenDone
  <2>1. CASE active \in Requests
    <3>1. Releases(active)
      BY <1>4, <2>1 DEF OpenDone, Quiet, Idle, Releases
    <3> QED BY <2>1, <3>1 DEF StepKind
  <2>2. CASE active \notin Requests
    <3>1. Idles
      BY <1>4, <2>2 DEF OpenDone, Idles
    <3> QED BY <3>1 DEF StepKind
  <2> QED BY <2>1, <2>2
<1> QED BY <1>1, <1>2, <1>3, <1>4

\* Every step is of one of the kinds.
LEMMA NextKind == ASSUME TypeOK, LeaseInv, [Next]_vars PROVE StepKind
  BY LiveKind, UndoKind, RecoverKind, EnvironmentKind DEF Next

----------------------------------------------------------------------------
(* The lease invariant.                                                    *)

\* Each kind of step preserves the invariant.
LEMMA KindPreserves == ASSUME TypeOK, TypeOK', LeaseInv, StepKind PROVE LeaseInv'
<1> USE PlanAssumption
    DEF TypeOK, LeaseInv, LeaseCoversJournal, PlaceInv, HolderInv, Nonterminal, Terminal, EarlyPC,
        WorkPC, AimedPC, Stays
<1>1. CASE Idles
  BY <1>1 DEF Idles
<1>2. ASSUME NEW r \in Requests, Works(r) PROVE LeaseInv'
  BY <1>2 DEF Works
<1>3. ASSUME NEW r \in Requests, Opens(r) PROVE LeaseInv'
  BY <1>3 DEF Opens
<1>4. ASSUME NEW r \in Requests, Settles(r) PROVE LeaseInv'
  BY <1>4, SMTT(40) DEF Settles
<1>5. ASSUME NEW r \in Requests, Releases(r) PROVE LeaseInv'
  BY <1>5 DEF Releases, ReleasedState
<1> QED BY <1>1, <1>2, <1>3, <1>4, <1>5 DEF StepKind

\* The invariant holds in every state.
LEMMA LeaseInvariant == Spec => [](TypeOK /\ LeaseInv)
<1>1. Init => LeaseInv
  BY PlanAssumption DEF Init, LeaseInv, LeaseCoversJournal, PlaceInv, HolderInv, Nonterminal,
                        Terminal, EarlyPC, WorkPC, AimedPC
<1>2. TypeOK /\ TypeOK' /\ LeaseInv /\ [Next]_vars => LeaseInv'
  BY NextKind, KindPreserves
<1> QED BY <1>1, <1>2, PromotionTypeCorrect, PTL DEF Spec

\* An unfinished journal always holds the lease of its workspace: no second
\* promotion starts and no lease is dropped before the receipt is durable, for
\* any number of calls, crashes and failures.
THEOREM PromotionLeaseHeld == Spec => []LeaseCoversJournal
<1>1. LeaseInv => LeaseCoversJournal
  BY DEF LeaseInv
<1> QED BY <1>1, LeaseInvariant, PTL

\* A settled journal keeps its outcome and a locked workspace stays locked.
THEOREM PromotionSettledForGood == Spec => SettledForGood
<1>1. TypeOK /\ LeaseInv /\ [Next]_vars =>
        [/\ \A r \in Requests : jstate[r] \in Terminal => jstate'[r] = jstate[r]
         /\ recovery = "MANUAL_RECOVERY_REQUIRED" => recovery' = recovery]_vars
  <2> SUFFICES ASSUME TypeOK, LeaseInv, StepKind
               PROVE  /\ \A r \in Requests : jstate[r] \in Terminal => jstate'[r] = jstate[r]
                      /\ recovery = "MANUAL_RECOVERY_REQUIRED" => recovery' = recovery
    BY NextKind
  <2> USE DEF TypeOK, LeaseInv, PlaceInv, HolderInv, Nonterminal, Terminal, WorkPC, AimedPC, Stays
  <2>1. CASE Idles
    BY <2>1 DEF Idles
  <2>2. CASE \E r \in Requests : Works(r) \/ Opens(r) \/ Settles(r)
    BY <2>2 DEF Works, Opens, Settles
  <2>3. CASE \E r \in Requests : Releases(r)
    BY <2>3 DEF Releases
  <2> QED BY <2>1, <2>2, <2>3 DEF StepKind
<1> QED BY <1>1, LeaseInvariant, PTL DEF Spec, SettledForGood

----------------------------------------------------------------------------
(* One journal per grant.                                                  *)

\* The call has consumed its grant and may open its journal, or has.
Entitled(r) == pc[r] = "granted" \/ jstate[r] # "NONE"

\* Whoever is entitled has consumed its grant, and is the only one of that grant.
GrantInv ==
  /\ \A r \in Requests : Entitled(r) => GrantOf[r] \in grants
  /\ \A r, s \in Requests : r # s /\ GrantOf[r] = GrantOf[s] => ~(Entitled(r) /\ Entitled(s))

\* Nobody gets past the grant.
NoneGranted == grants' = grants /\ \A q \in Requests : pc'[q] = "granted" => pc[q] = "granted"

\* Only consume_grant lets a call past the grant.
LEMMA OnlyConsumeGrant ==
  ASSUME TypeOK, [Next]_vars  PROVE NoneGranted \/ \E r \in Requests : ConsumeGrant(r)
<1> USE DEF TypeOK, NoneGranted, ledger, control, Goto
<1>1. ASSUME NEW r \in Requests, LiveStep(r), ~ConsumeGrant(r)  PROVE NoneGranted
  <2>1. CASE ConsumeNonce(r) \/ BeginJournal(r) \/ Stage(r) \/ Abandon(r) \/ PrepareEntry(r)
    BY <2>1 DEF ConsumeNonce, BeginJournal, Stage, Abandon, PrepareEntry
  <2>2. CASE PrepareFails(r) \/ SetPrepared(r) \/ Recheck(r) \/ CommitMutate(r) \/ CommitRecord(r)
    BY <2>2 DEF PrepareFails, SetPrepared, Recheck, CommitMutate, CommitRecord
  <2>3. CASE CommitCheck(r) \/ CommitFails(r) \/ SetVerifying(r) \/ VerifyMatches(r) \/ VerifyFails(r)
    BY <2>3 DEF CommitCheck, CommitFails, SetVerifying, VerifyMatches, VerifyFails, BeginRollback
  <2> QED BY <1>1, <2>1, <2>2, <2>3 DEF LiveStep
<1>2. ASSUME NEW r \in Requests, UndoStep(r)  PROVE NoneGranted
  BY <1>2 DEF UndoStep, RollbackSkip, RollbackSettle, RollbackCheck, RollbackRestore,
              RollbackRecord, RollbackFails, RollbackDone, Settle, DropLease
<1>3. ASSUME NEW r \in Requests, RecoverStep(r)  PROVE NoneGranted
  <2>1. CASE \/ RecoverStale(r) \/ RecoverCommitting(r) \/ RecoverVerifying(r)
             \/ RecoverRollingBack(r) \/ Reverify(r)
    BY <2>1 DEF RecoverStale, RecoverCommitting, RecoverVerifying, RecoverRollingBack, Reverify,
                BeginRollback
  <2>2. CASE ForwardCheck(r)
    BY <2>2 DEF ForwardCheck, BeginRollback
  <2>3. CASE ForwardApply(r) \/ ForwardFails(r) \/ ForwardRecord(r) \/ ForwardDone(r)
    BY <2>3 DEF ForwardApply, ForwardFails, ForwardRecord, ForwardDone, BeginRollback
  <2> QED BY <1>3, <2>1, <2>2, <2>3 DEF RecoverStep
<1>4. CASE \/ \E p \in Paths, c \in EditContents : EditFile(p, c)
           \/ Crash \/ OpenStore \/ OpenDone \/ RootVanishes \/ RootReturns \/ Finished
           \/ UNCHANGED vars
  BY <1>4 DEF EditFile, Crash, OpenStore, OpenDone, RootVanishes, RootReturns, Finished, vars
<1> QED BY <1>1, <1>2, <1>3, <1>4 DEF Next

\* A journal is opened by a call that is past its grant.
LEMMA OpensGranted ==
  ASSUME TypeOK, LeaseInv, StepKind, NEW q \in Requests, jstate[q] = "NONE", jstate'[q] # "NONE"
  PROVE  pc[q] = "granted"
<1> USE DEF TypeOK, LeaseInv, PlaceInv, Nonterminal, Terminal, WorkPC, Stays
<1>1. ~Idles /\ \A r \in Requests : ~Releases(r)
  BY DEF Idles, Releases
<1>2. ASSUME NEW r \in Requests, Works(r) \/ Settles(r)  PROVE FALSE
  BY <1>2 DEF Works, Settles
<1>3. ASSUME NEW r \in Requests, Opens(r)  PROVE pc[q] = "granted"
  BY <1>3 DEF Opens
<1> QED BY <1>1, <1>2, <1>3 DEF StepKind

\* A grant opens at most one journal: the row that consume_grant inserts admits one call,
\* whatever duplicates of it race or follow, and no crash takes the row back.
THEOREM PromotionGrantOnce == Spec => []OneJournalPerGrant
<1>1. Init => GrantInv
  BY DEF Init, GrantInv, Entitled
<1>2. TypeOK /\ LeaseInv /\ GrantInv /\ [Next]_vars => GrantInv'
  <2> SUFFICES ASSUME TypeOK, LeaseInv, GrantInv, [Next]_vars  PROVE GrantInv'
    OBVIOUS
  <2>1. \A q \in Requests : jstate[q] = "NONE" /\ jstate'[q] # "NONE" => pc[q] = "granted"
    BY NextKind, OpensGranted
  <2>2. CASE NoneGranted
    <3>1. \A q \in Requests : Entitled(q)' => Entitled(q)
      BY <2>1, <2>2 DEF NoneGranted, Entitled
    <3> QED BY <2>2, <3>1 DEF GrantInv, NoneGranted
  <2>3. ASSUME NEW r \in Requests, ConsumeGrant(r)  PROVE GrantInv'
    <3>1. /\ jstate' = jstate /\ grants \subseteq grants'
          /\ \A q \in Requests : q # r => pc'[q] = pc[q]
          /\ pc'[r] = "granted" => GrantOf[r] \notin grants /\ grants' = grants \cup {GrantOf[r]}
      BY <2>3 DEF ConsumeGrant, Unspent, Goto, journal, TypeOK
    <3>2. jstate[r] = "NONE"
      BY <2>3 DEF ConsumeGrant, LeaseInv, PlaceInv, EarlyPC
    <3>3. \A q \in Requests : Entitled(q)' => Entitled(q) \/ (q = r /\ pc'[r] = "granted")
      BY <3>1, <3>2 DEF Entitled
    <3>4. ASSUME NEW q \in Requests, Entitled(q)'  PROVE GrantOf[q] \in grants'
      BY <3>1, <3>3, <3>4 DEF GrantInv
    <3>5. ASSUME NEW q \in Requests, NEW s \in Requests, q # s, GrantOf[q] = GrantOf[s],
                 Entitled(q)', Entitled(s)'
          PROVE  FALSE
      <4>1. CASE Entitled(q) /\ Entitled(s)
        BY <3>5, <4>1 DEF GrantInv
      <4>2. CASE ~(Entitled(q) /\ Entitled(s))
        BY <3>1, <3>3, <3>5, <4>2 DEF GrantInv
      <4> QED BY <4>1, <4>2
    <3> QED BY <3>4, <3>5 DEF GrantInv
  <2> QED BY <2>2, <2>3, OnlyConsumeGrant
<1>3. GrantInv => OneJournalPerGrant
  BY DEF GrantInv, Entitled, OneJournalPerGrant
<1> QED BY <1>1, <1>2, <1>3, LeaseInvariant, PTL DEF Spec

----------------------------------------------------------------------------
(* The refinement.                                                         *)

\* The outcome the abstract lease sees.
Seen == [r \in Requests |-> IF jstate[r] \in Terminal THEN jstate[r] ELSE "NONE"]

\* Steps before the receipt, and steps outside the lease, are stutters.
LEMMA KindRefines ==
  ASSUME TypeOK, TypeOK', LeaseInv, StepKind
  PROVE  Lease!LeaseNext \/ UNCHANGED Lease!leaseVars
<1> USE PlanAssumption
    DEF TypeOK, LeaseInv, LeaseCoversJournal, PlaceInv, HolderInv, Nonterminal, Terminal, EarlyPC,
        WorkPC, AimedPC, Stays
<1>1. CASE Idles
  BY <1>1 DEF Idles, Lease!leaseVars
<1>2. ASSUME NEW r \in Requests, Works(r) PROVE UNCHANGED Lease!leaseVars
  BY <1>2 DEF Works, Lease!leaseVars
<1>3. ASSUME NEW r \in Requests, Opens(r) PROVE Lease!Acquire(r)
  BY <1>3 DEF Opens, Lease!Acquire
<1>4. ASSUME NEW r \in Requests, Settles(r) PROVE \E o \in Terminal : Lease!Decide(r, o)
  <2>1. goal[r] \in Terminal /\ jstate[r] \in Nonterminal /\ active = r /\ jstate[r] \notin Terminal
    BY <1>4 DEF Settles
  <2>2. PICK o \in Terminal : o = goal[r]
    BY <2>1
  <2>3. \A q \in Requests : Seen'[q] = [Seen EXCEPT ![r] = o][q]
    BY <1>4, <2>1, <2>2 DEF Settles, Seen
  <2>4. Seen' = [Seen EXCEPT ![r] = o]
    BY <2>3 DEF Seen
  <2>5. Lease!Decide(r, o)
    BY <1>4, <2>1, <2>4 DEF Settles, Seen, Lease!Decide
  <2> QED BY <2>5
<1>5. ASSUME NEW r \in Requests, Releases(r) PROVE Lease!Release(r)
  BY <1>5 DEF Releases, ReleasedState, Lease!Release
<1>6. (\E r \in Requests : Opens(r) \/ Settles(r) \/ Releases(r)) => Lease!LeaseNext
  BY <1>3, <1>4, <1>5 DEF Lease!LeaseNext
<1> QED BY <1>1, <1>2, <1>6 DEF StepKind

\* The journaled promotion, with its crashes and reopens, implements the
\* abstract lease: one holder at a time, one outcome, decided before release.
THEOREM PromotionImplementsLease == Spec => ImplementsLease
<1>1. Init => Lease!LeaseInit
  BY PlanAssumption DEF Init, Lease!LeaseInit, Terminal
<1>2. TypeOK /\ TypeOK' /\ LeaseInv /\ [Next]_vars => [Lease!LeaseNext]_(Lease!leaseVars)
  BY NextKind, KindRefines
<1> QED BY <1>1, <1>2, LeaseInvariant, PTL DEF Spec, ImplementsLease, Lease!LeaseSpec
==============================================================================
