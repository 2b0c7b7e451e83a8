------------------------- MODULE PromotionTreeProofs -------------------------
(***************************************************************************)
(* TLAPS proofs about what the promotion does to the user's files:         *)
(* WritesUnderJournal, ForeignBytesKept, ReceiptTellsTree and              *)
(* ManualHasCause, for every workspace, every set of calls and change      *)
(* sets and any number of crashes, edits and faults.                       *)
(*                                                                         *)
(* The argument follows one entry of the active journal through the rows.  *)
(* StageInv says which entry rows a journal has in each of its states, so  *)
(* that whoever writes a file has its row.  EntryOK says what is on disk   *)
(* at an entry's path while nobody but the broker has written it: the      *)
(* captured bytes or the bytes of the change set, and which of the two as  *)
(* soon as the rows, the rollback or the outcome commit to one.            *)
(***************************************************************************)
EXTENDS PromotionProofs

\* A change set names each path once.  The broker does not check it.
DistinctPaths ==
  \A r \in Requests : \A i, j \in 1..N(r) : Plan[r][i].path = Plan[r][j].path => i = j

\* Other programs never write the very bytes of a change set.
EditsDiffer ==
  \A r \in Requests : \A i \in 1..N(r) :
    Plan[r][i].after \in EditContents => Plan[r][i].after = NoFile

\* No restore of a live rollback fails, and the root is there when the broker opens.
RestoresWork == ~RollbackMayFail /\ ~RootMayVanish

----------------------------------------------------------------------------
(* The rows of a journal.                                                  *)

\* The states of the entry rows under a journal in state s.
RowsUnder(s) ==
  CASE s = "NONE" -> {"NONE"}
    [] s = "PREPARING" -> {"NONE", "STAGED"}
    [] s \in {"PREPARED", "COMMITTING"} -> {"STAGED", "APPLIED"}
    [] s \in {"VERIFYING", "ROLLING_BACK"} -> EntryState \ {"NONE"}
    [] OTHER -> EntryState

\* The journal's state where the call, or its reconciliation, is.
JournalFits(l, s) ==
  /\ l \in {"staging", "preparing"} => s = "PREPARING"
  /\ l = "prepared" => s = "PREPARED"
  /\ l \in {"committing", "mutating", "recording", "forward", "reapplying", "rerecording"}
       => s = "COMMITTING"
  /\ l \in {"verifying", "reverifying"} => s = "VERIFYING"
  /\ l \in UndoPC => s \in {"VERIFYING", "ROLLING_BACK"}

StageOK(r) ==
  /\ JournalFits(pc[r], jstate[r])
  /\ \A i \in 1..N(r) : estate[r][i] \in RowsUnder(jstate[r])
  /\ pc[r] = "preparing" => \A i \in 1..N(r) : i < idx[r] => estate[r][i] # "NONE"

StageInv == \A r \in Requests : StageOK(r)

----------------------------------------------------------------------------
(* The files of a journal.                                                 *)

\* The outcome that is settled, or about to be.
Outcome(r) ==
  IF jstate[r] \in Terminal THEN jstate[r] ELSE IF pc[r] = "settling" THEN goal[r] ELSE "NONE"

\* The broker was the last to write, or to capture, entry i of the active journal r.
Mine(r, i) == active = r /\ mark[Plan[r][i].path] = "own"

AtBefore(r, i) == disk[Plan[r][i].path] = before[r][i]
AtAfter(r, i)  == disk[Plan[r][i].path] = Plan[r][i].after

\* The rollback has dealt with entry i.
Undone(r, i) == pc[r] \in UndoPC /\ (i > idx[r] \/ (pc[r] = "restored" /\ i = idx[r]))

EntryOK(r, i) ==
  /\ estate[r][i] # "NONE" => (before[r][i] = NoFile <=> Plan[r][i].kind = "CREATE")
  /\ Mine(r, i) /\ estate[r][i] # "NONE" => AtBefore(r, i) \/ AtAfter(r, i)
  /\ Mine(r, i) /\ jstate[r] \in {"PREPARING", "PREPARED"} /\ estate[r][i] # "NONE"
       => AtBefore(r, i)
  /\ Mine(r, i) /\ (estate[r][i] = "ROLLED_BACK" \/ Undone(r, i)) => AtBefore(r, i)
  /\ Mine(r, i) /\ pc[r] \in UndoPC /\ i > idx[r] => estate[r][i] # "EXTERNAL_CONFLICT"
  /\ Mine(r, i) /\ Outcome(r) = "COMMITTED" => AtAfter(r, i)
  /\ RestoresWork /\ Mine(r, i) /\ Outcome(r) \in {"STALE", "ROLLED_BACK"}
       => estate[r][i] = "NONE" \/ AtBefore(r, i)

\* A file of the change set that another program wrote, or that recovery could not read.
Cause(r, i) ==
  mark[Plan[r][i].path] # "own" \/ (i \in unread[r] /\ Plan[r][i].kind # "DELETE")

\* A rollback leads to an outcome that promises the captured bytes; a manual one has its
\* cause; and the root is there unless it may vanish.
OutcomeOK(r) ==
  /\ pc[r] \in UndoPC => goal[r] \in {"STALE", "ROLLED_BACK"}
  /\ active = r /\ Outcome(r) = "MANUAL_RECOVERY_REQUIRED"
       => \E i \in 1..N(r) : Cause(r, i)

TreeInv ==
  /\ RestoresWork => rootThere
  /\ \A r \in Requests : OutcomeOK(r) /\ \A i \in 1..N(r) : EntryOK(r, i)

\* Until another program writes into the window, what the check found is still there.
WindowOK(r) ==
  /\ pc[r] \in {"mutating", "reapplying"} /\ mark[Target(r)] = "edit"
       => Current(r) \in {NoFile, BeforeOf(r)}
  /\ pc[r] = "restoring" /\ mark[Target(r)] = "edit" => Current(r) = AfterOf(r)

WindowInv == \A r \in Requests : WindowOK(r)

\* What another program wrote is there until the broker writes.
EditInv == \A p \in Paths : mark[p] # "own" => disk[p] \in EditContents

----------------------------------------------------------------------------
(* One call moves at a time.                                               *)

\* Nothing of call q moves.
Same(q) ==
  /\ pc'[q] = pc[q] /\ idx'[q] = idx[q] /\ goal'[q] = goal[q]
  /\ jstate'[q] = jstate[q] /\ estate'[q] = estate[q] /\ before'[q] = before[q]
  /\ unread'[q] = unread[q]

\* A step of r moves no other call.
LEMMA OthersStay ==
  ASSUME TypeOK, NEW r \in Requests, LiveStep(r) \/ UndoStep(r) \/ RecoverStep(r),
         NEW q \in Requests, q # r
  PROVE  Same(q)
<1> USE DEF TypeOK, Same, journal, control, history, Goto, At, Journal, Mark, Aim, BeginRollback,
           Fault
<1>1. CASE ConsumeNonce(r) \/ ConsumeGrant(r) \/ BeginJournal(r) \/ Stage(r) \/ Abandon(r)
  BY <1>1 DEF ConsumeNonce, ConsumeGrant, BeginJournal, Stage, Abandon
<1>2. CASE PrepareEntry(r) \/ PrepareFails(r) \/ SetPrepared(r) \/ Recheck(r)
  BY <1>2 DEF PrepareEntry, PrepareFails, SetPrepared, Recheck
<1>3. CASE CommitCheck(r) \/ CommitMutate(r) \/ CommitFails(r) \/ CommitRecord(r)
  BY <1>3 DEF CommitCheck, CommitMutate, CommitFails, CommitRecord
<1>4. CASE SetVerifying(r) \/ VerifyMatches(r) \/ VerifyFails(r) \/ Settle(r) \/ DropLease(r)
  BY <1>4 DEF SetVerifying, VerifyMatches, VerifyFails, Settle, DropLease
<1>5. CASE RollbackSkip(r) \/ RollbackSettle(r) \/ RollbackCheck(r) \/ RollbackRestore(r)
           \/ RollbackRecord(r) \/ RollbackFails(r) \/ RollbackDone(r)
  BY <1>5 DEF RollbackSkip, RollbackSettle, RollbackCheck, RollbackRestore, RollbackRecord,
              RollbackFails, RollbackDone
<1>6. CASE RecoverStale(r) \/ RecoverCommitting(r) \/ RecoverVerifying(r) \/ RecoverRollingBack(r)
  BY <1>6 DEF RecoverStale, RecoverCommitting, RecoverVerifying, RecoverRollingBack
<1>7. CASE ForwardCheck(r)
  BY <1>7 DEF ForwardCheck
<1>8. CASE ForwardApply(r) \/ ForwardFails(r) \/ ForwardRecord(r) \/ ForwardDone(r) \/ Reverify(r)
  BY <1>8 DEF ForwardApply, ForwardFails, ForwardRecord, ForwardDone, Reverify
<1> QED BY <1>1, <1>2, <1>3, <1>4, <1>5, <1>6, <1>7, <1>8 DEF LiveStep, UndoStep, RecoverStep

----------------------------------------------------------------------------
(* The rows keep up with the journal.                                      *)

\* A step that leaves the rows alone and moves the journal on.
LEMMA StageMoves ==
  ASSUME NEW r \in Requests, StageOK(r), estate'[r] = estate[r],
         RowsUnder(jstate[r]) \subseteq RowsUnder(jstate'[r]),
         JournalFits(pc'[r], jstate'[r]), pc'[r] # "preparing"
  PROVE  StageOK(r)'
BY DEF StageOK, JournalFits, RowsUnder

\* A step that writes one row of an unfinished journal.
LEMMA StageMarks ==
  ASSUME TypeOK, NEW r \in Requests, StageOK(r), jstate'[r] = jstate[r], NEW s,
         idx[r] \in 1..N(r), Mark(r, s), s \in RowsUnder(jstate[r]),
         JournalFits(pc'[r], jstate[r]), pc'[r] # "preparing"
  PROVE  StageOK(r)'
<1>1. \A i \in 1..N(r) : estate'[r][i] = IF i = idx[r] THEN s ELSE estate[r][i]
  BY PlanLength DEF TypeOK, Mark
<1> QED BY <1>1 DEF StageOK, JournalFits, RowsUnder

\* The rows a journal may have grow with its state.
LEMMA RowsGrow ==
  /\ RowsUnder("PREPARED") \subseteq RowsUnder("COMMITTING")
  /\ RowsUnder("COMMITTING") \subseteq RowsUnder("VERIFYING")
  /\ RowsUnder("COMMITTING") \subseteq RowsUnder("ROLLING_BACK")
  /\ RowsUnder("VERIFYING") \subseteq RowsUnder("ROLLING_BACK")
  /\ RowsUnder("NONE") \subseteq RowsUnder("PREPARING")
  /\ \A s \in Terminal : RowsUnder(s) = EntryState
BY DEF RowsUnder, EntryState, Terminal

\* The steps of a live call.
LEMMA StageLive ==
  ASSUME TypeInv, LeaseInv, StageInv, NEW r \in Requests, LiveStep(r)
  PROVE  StageOK(r)'
<1>1. TypeOK /\ StageOK(r) /\ N(r) \in Nat
  BY PlanLength DEF TypeInv, StageInv
<1> USE <1>1, RowsGrow DEF journal, control, Goto, At, Journal, Aim, UndoPC
<1>2. CASE ConsumeNonce(r) \/ ConsumeGrant(r) \/ Abandon(r)
  <2>1. /\ estate'[r] = estate[r] /\ jstate'[r] = jstate[r]
        /\ pc'[r] \in {"nonce", "granted", "done"}
    BY <1>2 DEF TypeOK, ConsumeNonce, ConsumeGrant, Abandon
  <2> QED BY <2>1, StageMoves DEF JournalFits
<1>3. CASE BeginJournal(r)
  <2>1. /\ estate'[r] = estate[r]
        /\ \/ pc'[r] = "done" /\ jstate'[r] = jstate[r]
           \/ jstate[r] = "NONE" /\ jstate'[r] = "PREPARING" /\ pc'[r] = "staging"
    BY <1>3 DEF TypeOK, BeginJournal, LeaseInv, PlaceInv, EarlyPC
  <2> QED BY <2>1, StageMoves DEF JournalFits
<1>4. CASE Stage(r)
  <2>1. /\ estate'[r] = estate[r] /\ jstate'[r] = jstate[r] /\ pc[r] = "staging"
        /\ pc'[r] = "preparing" /\ idx'[r] = 1
    BY <1>4 DEF TypeOK, Stage
  <2>2. \A i \in 1..N(r) : ~(i < 1)
    OBVIOUS
  <2> QED BY <2>1, <2>2 DEF StageOK, JournalFits, RowsUnder
<1>5. CASE PrepareEntry(r)
  <2>1. /\ idx[r] \in 1..N(r) /\ pc[r] = "preparing" /\ pc'[r] = pc[r] /\ jstate'[r] = jstate[r]
        /\ idx'[r] = idx[r] + 1 /\ Mark(r, "STAGED")
    BY <1>5 DEF TypeOK, PrepareEntry
  <2>2. \A i \in 1..N(r) : estate'[r][i] = IF i = idx[r] THEN "STAGED" ELSE estate[r][i]
    BY <2>1, PlanLength DEF TypeOK, Mark
  <2>3. \A i \in 1..N(r) : i < idx[r] + 1 /\ i # idx[r] => i < idx[r]
    BY <2>1
  <2> QED BY <2>1, <2>2, <2>3 DEF StageOK, JournalFits, RowsUnder
<1>6. CASE PrepareFails(r) \/ VerifyMatches(r)
  <2>1. estate'[r] = estate[r] /\ jstate'[r] = jstate[r] /\ pc'[r] = "settling"
    BY <1>6 DEF TypeOK, PrepareFails, VerifyMatches
  <2> QED BY <2>1, StageMoves DEF JournalFits
<1>7. CASE SetPrepared(r)
  <2>1. /\ estate'[r] = estate[r] /\ jstate'[r] = "PREPARED" /\ pc'[r] = "prepared"
        /\ pc[r] = "preparing" /\ idx[r] > N(r) /\ idx[r] \in Nat
    BY <1>7 DEF TypeOK, SetPrepared
  <2>2. \A i \in 1..N(r) : i < idx[r]
    BY <2>1
  <2>3. \A i \in 1..N(r) : estate[r][i] = "STAGED"
    BY <2>1, <2>2 DEF StageOK, JournalFits, RowsUnder
  <2> QED BY <2>1, <2>3 DEF StageOK, JournalFits, RowsUnder
<1>8. CASE Recheck(r)
  <2>1. /\ estate'[r] = estate[r] /\ pc[r] = "prepared"
        /\ \/ jstate'[r] = "COMMITTING" /\ pc'[r] = "committing"
           \/ jstate'[r] = jstate[r] /\ pc'[r] = "settling"
    BY <1>8 DEF TypeOK, Recheck
  <2>2. jstate[r] = "PREPARED"
    BY <2>1 DEF StageOK, JournalFits
  <2> QED BY <2>1, <2>2, StageMoves DEF JournalFits
<1>9. CASE CommitCheck(r) \/ CommitFails(r) \/ VerifyFails(r)
  <2>1. /\ estate'[r] = estate[r] /\ pc[r] \in {"committing", "mutating", "recording", "verifying"}
        /\ \/ jstate'[r] = "ROLLING_BACK" /\ pc'[r] = "rolling"
           \/ pc[r] = "committing" /\ jstate'[r] = jstate[r] /\ pc'[r] = "mutating"
    BY <1>9 DEF TypeOK, CommitCheck, CommitFails, VerifyFails, BeginRollback
  <2>2. jstate[r] \in {"COMMITTING", "VERIFYING"} /\ (pc[r] = "committing" => jstate[r] = "COMMITTING")
    BY <2>1 DEF StageOK, JournalFits
  <2> QED BY <2>1, <2>2, StageMoves DEF JournalFits
<1>10. CASE CommitMutate(r) \/ SetVerifying(r)
  <2>1. /\ estate'[r] = estate[r] /\ pc[r] \in {"mutating", "committing"}
        /\ \/ jstate'[r] = jstate[r] /\ pc'[r] = "recording"
           \/ jstate'[r] = "VERIFYING" /\ pc'[r] = "verifying"
    BY <1>10 DEF TypeOK, CommitMutate, SetVerifying
  <2>2. jstate[r] = "COMMITTING"
    BY <2>1 DEF StageOK, JournalFits
  <2> QED BY <2>1, <2>2, StageMoves DEF JournalFits
<1>11. CASE CommitRecord(r)
  <2>1. /\ pc[r] = "recording" /\ pc'[r] = "committing" /\ jstate'[r] = jstate[r]
        /\ Mark(r, "APPLIED") /\ idx[r] \in 1..N(r)
    BY <1>11 DEF TypeInv, TypeOK, EntryInv, EntryPC, CommitRecord
  <2>2. jstate[r] = "COMMITTING"
    BY <2>1 DEF StageOK, JournalFits
  <2> QED BY <2>1, <2>2, StageMarks DEF JournalFits, RowsUnder
<1> QED
  BY <1>2, <1>3, <1>4, <1>5, <1>6, <1>7, <1>8, <1>9, <1>10, <1>11 DEF LiveStep

\* Rollback, receipt and release.
LEMMA StageUndo ==
  ASSUME TypeInv, LeaseInv, StageInv, NEW r \in Requests, UndoStep(r)
  PROVE  StageOK(r)'
<1>1. TypeOK /\ StageOK(r) /\ N(r) \in Nat
  BY PlanLength DEF TypeInv, StageInv
<1> USE <1>1, RowsGrow DEF journal, control, Goto, At, Journal, Aim, UndoPC
<1>2. CASE RollbackSkip(r) \/ RollbackCheck(r) \/ RollbackRestore(r)
  <2>1. /\ estate'[r] = estate[r] /\ jstate'[r] = jstate[r] /\ pc[r] \in {"rolling", "restoring"}
        /\ pc'[r] \in {"rolling", "restoring", "restored"}
    BY <1>2 DEF TypeOK, RollbackSkip, RollbackCheck, RollbackRestore, Undo
  <2>2. JournalFits(pc'[r], jstate[r])
    BY <2>1 DEF StageOK, JournalFits
  <2> QED BY <2>1, <2>2, StageMoves
<1>3. CASE RollbackSettle(r) \/ RollbackRecord(r)
  <2>1. PICK s \in {"ROLLED_BACK", "EXTERNAL_CONFLICT"} : Mark(r, s)
    BY <1>3 DEF RollbackSettle, RollbackRecord
  <2>2. /\ jstate'[r] = jstate[r] /\ pc[r] \in {"rolling", "restored"} /\ pc'[r] = "rolling"
        /\ idx[r] \in 1..N(r)
    BY <1>3 DEF TypeInv, TypeOK, EntryInv, EntryPC, RollbackSettle, RollbackRecord, Undo
  <2>3. JournalFits(pc'[r], jstate[r]) /\ s \in RowsUnder(jstate[r])
    BY <2>2 DEF StageOK, JournalFits, RowsUnder, EntryState
  <2> QED BY <2>1, <2>2, <2>3, StageMarks
<1>4. CASE RollbackFails(r) \/ RollbackDone(r)
  <2>1. estate'[r] = estate[r] /\ jstate'[r] = jstate[r] /\ pc'[r] = "settling"
    BY <1>4 DEF TypeOK, RollbackFails, RollbackDone
  <2> QED BY <2>1, StageMoves DEF JournalFits
<1>5. CASE Settle(r) \/ DropLease(r)
  <2>1. estate'[r] = estate[r] /\ jstate'[r] \in Terminal /\ pc'[r] \in {"dropping", "done"}
    BY <1>5 DEF TypeOK, Settle, DropLease, LeaseInv, PlaceInv, AimedPC
  <2>2. \A i \in 1..N(r) : estate[r][i] \in EntryState
    BY PlanLength, ZenonT(60) DEF TypeOK
  <2> QED BY <2>1, <2>2 DEF StageOK, JournalFits, RowsUnder, Terminal
<1> QED BY <1>2, <1>3, <1>4, <1>5 DEF UndoStep

\* Reconciliation.
LEMMA StageRecover ==
  ASSUME TypeInv, LeaseInv, StageInv, NEW r \in Requests, RecoverStep(r)
  PROVE  StageOK(r)'
<1>1. TypeOK /\ StageOK(r) /\ N(r) \in Nat
  BY PlanLength DEF TypeInv, StageInv
<1> USE <1>1, RowsGrow DEF journal, control, Goto, At, Journal, Aim, UndoPC
<1>2. CASE RecoverStale(r) \/ RecoverVerifying(r) \/ RecoverRollingBack(r)
  <2>1. /\ estate'[r] = estate[r]
        /\ \/ jstate'[r] = jstate[r] /\ pc'[r] = "settling"
           \/ jstate[r] = "VERIFYING" /\ jstate'[r] = jstate[r] /\ pc'[r] = "reverifying"
           \/ jstate[r] = "ROLLING_BACK" /\ jstate'[r] = jstate[r] /\ pc'[r] = "rolling"
    BY <1>2 DEF TypeOK, RecoverStale, RecoverVerifying, RecoverRollingBack, BeginRollback
  <2> QED BY <2>1, StageMoves DEF JournalFits
<1>3. CASE RecoverCommitting(r)
  <2>1. /\ estate'[r] = estate[r] /\ jstate[r] \in {"PREPARED", "COMMITTING"}
        /\ \/ jstate'[r] = jstate[r] /\ pc'[r] = "settling"
           \/ jstate'[r] = "COMMITTING" /\ pc'[r] = "forward"
    BY <1>3 DEF TypeOK, RecoverCommitting
  <2> QED BY <2>1, StageMoves DEF JournalFits
<1>4. CASE ForwardCheck(r)
  <2>1. /\ pc[r] = "forward" /\ idx[r] \in 1..N(r)
        /\ \/ Mark(r, "APPLIED") /\ jstate'[r] = jstate[r] /\ pc'[r] = "forward"
           \/ /\ estate'[r] = estate[r] /\ jstate'[r] = jstate[r]
              /\ pc'[r] \in {"forward", "settling", "reapplying"}
           \/ estate'[r] = estate[r] /\ jstate'[r] = "ROLLING_BACK" /\ pc'[r] = "rolling"
    BY <1>4 DEF TypeOK, ForwardCheck, Forward, BeginRollback
  <2>2. jstate[r] = "COMMITTING"
    BY <2>1 DEF StageOK, JournalFits
  <2>3. CASE Mark(r, "APPLIED") /\ jstate'[r] = jstate[r] /\ pc'[r] = "forward"
    BY <2>1, <2>2, <2>3, StageMarks DEF JournalFits, RowsUnder
  <2>4. CASE estate'[r] = estate[r]
    BY <2>1, <2>2, <2>4, StageMoves DEF JournalFits
  <2> QED BY <2>1, <2>3, <2>4
<1>5. CASE ForwardApply(r) \/ ForwardFails(r) \/ ForwardDone(r)
  <2>1. /\ estate'[r] = estate[r] /\ pc[r] \in {"forward", "reapplying", "rerecording"}
        /\ \/ jstate'[r] = jstate[r] /\ pc'[r] = "rerecording"
           \/ jstate'[r] = "ROLLING_BACK" /\ pc'[r] = "rolling"
           \/ jstate'[r] = "VERIFYING" /\ pc'[r] = "reverifying"
    BY <1>5 DEF TypeOK, ForwardApply, ForwardFails, ForwardDone, BeginRollback
  <2>2. jstate[r] = "COMMITTING"
    BY <2>1 DEF StageOK, JournalFits
  <2> QED BY <2>1, <2>2, StageMoves DEF JournalFits
<1>6. CASE ForwardRecord(r)
  <2>1. /\ pc[r] = "rerecording" /\ pc'[r] = "forward" /\ jstate'[r] = jstate[r]
        /\ Mark(r, "APPLIED") /\ idx[r] \in 1..N(r)
    BY <1>6 DEF TypeInv, TypeOK, EntryInv, EntryPC, ForwardRecord
  <2>2. jstate[r] = "COMMITTING"
    BY <2>1 DEF StageOK, JournalFits
  <2> QED BY <2>1, <2>2, StageMarks DEF JournalFits, RowsUnder
<1>7. CASE Reverify(r)
  <2>1. /\ estate'[r] = estate[r] /\ jstate'[r] = jstate[r] /\ pc[r] = "reverifying"
        /\ pc'[r] \in {"settling", "rolling"}
    BY <1>7 DEF TypeOK, Reverify
  <2>2. jstate[r] = "VERIFYING"
    BY <2>1 DEF StageOK, JournalFits
  <2> QED BY <2>1, <2>2, StageMoves DEF JournalFits
<1> QED BY <1>2, <1>3, <1>4, <1>5, <1>6, <1>7 DEF RecoverStep

\* Other programs, crash and restart touch no row.
LEMMA StageEnvironment ==
  ASSUME TypeInv, StageInv,
         \/ \E p \in Paths, c \in EditContents : EditFile(p, c)
         \/ Crash \/ OpenStore \/ OpenDone \/ RootVanishes \/ RootReturns \/ Finished
         \/ UNCHANGED vars
  PROVE  StageInv'
<1>1. CASE Crash
  <2>1. \A r \in Requests : /\ estate'[r] = estate[r] /\ jstate'[r] = jstate[r]
                            /\ pc'[r] \in {"start", "done"}
    BY <1>1 DEF Crash, journal
  <2>2. \A r \in Requests : StageOK(r)'
    BY <2>1, StageMoves DEF StageInv, JournalFits, UndoPC
  <2> QED BY <2>2 DEF StageInv
<1>2. CASE ~Crash
  <2>1. UNCHANGED <<pc, idx, jstate, estate>>
    BY <1>2 DEF EditFile, OpenStore, OpenDone, RootVanishes, RootReturns, Finished, vars, journal,
                control
  <2> QED BY <2>1 DEF StageInv, StageOK, JournalFits, RowsUnder
<1> QED BY <1>1, <1>2

\* Whoever stands still keeps its rows.
LEMMA StageSame == ASSUME NEW q \in Requests, StageOK(q), Same(q)  PROVE StageOK(q)'
BY DEF StageOK, Same, JournalFits, RowsUnder

\* Every step keeps the rows up with the journal.
LEMMA StageStep == TypeInv /\ LeaseInv /\ StageInv /\ [Next]_vars => StageInv'
<1> SUFFICES ASSUME TypeInv, LeaseInv, StageInv, [Next]_vars  PROVE StageInv'
  OBVIOUS
<1>1. ASSUME NEW r \in Requests, LiveStep(r) \/ UndoStep(r) \/ RecoverStep(r)  PROVE StageInv'
  <2>1. StageOK(r)'
    BY <1>1, StageLive, StageUndo, StageRecover
  <2>2. TypeOK
    BY DEF TypeInv
  <2>3. ASSUME NEW q \in Requests, q # r  PROVE StageOK(q)'
    <3>1. Same(q)
      BY <1>1, <2>2, <2>3, OthersStay
    <3> QED BY <3>1, StageSame DEF StageInv
  <2>4. \A q \in Requests : StageOK(q)'
    BY <2>1, <2>3
  <2> QED BY <2>4 DEF StageInv
<1> QED BY <1>1, StageEnvironment DEF Next

\* The rows always fit the journal.
LEMMA StageInvariant == Spec => [](TypeInv /\ LeaseInv /\ StageInv)
<1>1. Init => StageInv
  <2> SUFFICES ASSUME Init, NEW r \in Requests  PROVE StageOK(r)
    BY DEF StageInv
  <2>1. pc[r] = "start" /\ jstate[r] = "NONE" /\ \A i \in Slots : estate[r][i] = "NONE"
    BY DEF Init
  <2> QED BY <2>1, PlanLength DEF StageOK, JournalFits, RowsUnder, UndoPC
<1> QED BY <1>1, StageStep, LeaseInvariant, TypeInvariant, PTL DEF Spec

----------------------------------------------------------------------------
(* Who writes a file.                                                      *)

\* The tree, and who wrote it last, change in five kinds of step.
LEMMA WhoTouches ==
  ASSUME [Next]_vars
  PROVE  \/ \E r \in Requests : CommitMutate(r) \/ RollbackRestore(r) \/ ForwardApply(r)
         \/ \E r \in Requests : PrepareEntry(r)
         \/ \E q \in Paths, c \in EditContents : EditFile(q, c)
         \/ UNCHANGED <<disk, mark>>
BY DEF Next, LiveStep, UndoStep, RecoverStep, ConsumeNonce, ConsumeGrant, BeginJournal, Stage,
       Abandon, PrepareFails, SetPrepared, Recheck, CommitCheck, CommitFails, CommitRecord,
       SetVerifying, VerifyMatches, VerifyFails, RollbackSkip, RollbackSettle, RollbackCheck,
       RollbackRecord, RollbackFails, RollbackDone, Settle, DropLease, RecoverStale,
       RecoverCommitting, RecoverVerifying, RecoverRollingBack, ForwardCheck, ForwardFails,
       ForwardRecord, ForwardDone, Reverify, Crash, OpenStore, OpenDone, RootVanishes, RootReturns,
       Finished, vars, tree

\* A file changes under the broker's hand in three steps: a commit, a restore, and what
\* reconciliation applies again.
LEMMA WhoWrites ==
  ASSUME TypeOK, [Next]_vars, NEW p \in Paths, disk'[p] # disk[p], mark'[p] = "own"
  PROVE  \E r \in Requests :
           /\ CommitMutate(r) \/ RollbackRestore(r) \/ ForwardApply(r)
           /\ Target(r) = p
<1>1. CASE \E q \in Paths, c \in EditContents : EditFile(q, c)
  <2>1. PICK q \in Paths, c \in EditContents : EditFile(q, c)
    BY <1>1
  <2>2. disk' = [disk EXCEPT ![q] = c] /\ mark'[q] \in {"edit", "raced"}
    BY <2>1 DEF EditFile, TypeOK
  <2>3. q = p
    BY <2>2 DEF TypeOK
  <2> QED BY <2>2, <2>3
<1>2. ASSUME NEW r \in Requests, CommitMutate(r) \/ RollbackRestore(r) \/ ForwardApply(r)
      PROVE  Target(r) = p
  <2>1. \E c : disk' = [disk EXCEPT ![Target(r)] = c]
    BY <1>2 DEF CommitMutate, RollbackRestore, ForwardApply, Write
  <2> QED BY <2>1 DEF TypeOK
<1>3. (\E r \in Requests : PrepareEntry(r)) => UNCHANGED disk
  BY DEF PrepareEntry
<1> QED BY <1>1, <1>2, <1>3, WhoTouches

\* Whoever writes has an entry, its row, and the lease under a journal that says so.
LEMMA WriterHasRow ==
  ASSUME TypeInv, LeaseInv, StageInv, NEW r \in Requests,
         CommitMutate(r) \/ RollbackRestore(r) \/ ForwardApply(r)
  PROVE  /\ active = r /\ idx[r] \in 1..N(r)
         /\ jstate[r] \in {"COMMITTING", "VERIFYING", "ROLLING_BACK"}
         /\ estate[r][idx[r]] # "NONE"
<1>1. pc[r] \in {"mutating", "restoring", "reapplying"}
  BY DEF CommitMutate, RollbackRestore, ForwardApply
<1>2. idx[r] \in 1..N(r)
  BY <1>1 DEF TypeInv, EntryInv, EntryPC
<1>3. jstate[r] \in {"COMMITTING", "VERIFYING", "ROLLING_BACK"}
  BY <1>1 DEF StageInv, StageOK, JournalFits, UndoPC
<1>4. active = r
  BY <1>3 DEF LeaseInv, LeaseCoversJournal, Nonterminal
<1>5. estate[r][idx[r]] # "NONE"
  BY <1>2, <1>3 DEF StageInv, StageOK, RowsUnder
<1> QED BY <1>2, <1>3, <1>4, <1>5

\* The broker never changes a file outside the active journal, or before its intent and the
\* file's row are durable: whenever it dies, the next open knows of every file it may have
\* changed.
THEOREM PromotionIntentFirst == Spec => WritesUnderJournal
<1>1. TypeInv /\ LeaseInv /\ StageInv /\ [Next]_vars =>
        [\A p \in Paths :
           disk'[p] # disk[p] /\ mark'[p] = "own" =>
             /\ active \in Requests
             /\ jstate[active] \in {"COMMITTING", "VERIFYING", "ROLLING_BACK"}
             /\ \E i \in 1..N(active) : Plan[active][i].path = p /\ estate[active][i] # "NONE"]_vars
  <2> SUFFICES ASSUME TypeInv, LeaseInv, StageInv, [Next]_vars,
                      NEW p \in Paths, disk'[p] # disk[p], mark'[p] = "own"
               PROVE  /\ active \in Requests
                      /\ jstate[active] \in {"COMMITTING", "VERIFYING", "ROLLING_BACK"}
                      /\ \E i \in 1..N(active) : Plan[active][i].path = p /\ estate[active][i] # "NONE"
    OBVIOUS
  <2>1. PICK r \in Requests : /\ CommitMutate(r) \/ RollbackRestore(r) \/ ForwardApply(r)
                              /\ Target(r) = p
    BY WhoWrites DEF TypeInv
  <2>2. /\ active = r /\ idx[r] \in 1..N(r)
        /\ jstate[r] \in {"COMMITTING", "VERIFYING", "ROLLING_BACK"}
        /\ estate[r][idx[r]] # "NONE"
    BY <2>1, WriterHasRow
  <2> QED BY <2>1, <2>2 DEF Target
<1> QED BY <1>1, StageInvariant, PTL DEF Spec, WritesUnderJournal

----------------------------------------------------------------------------
(* Other programs' bytes.                                                  *)

\* What another program wrote is there until the broker writes or captures.
LEMMA EditStep ==
  ASSUME TypeInv, EditInv, [Next]_vars  PROVE EditInv'
<1>1. TypeOK
  BY DEF TypeInv
<1>2. CASE \E r \in Requests : CommitMutate(r) \/ RollbackRestore(r) \/ ForwardApply(r)
  <2>1. PICK r \in Requests : CommitMutate(r) \/ RollbackRestore(r) \/ ForwardApply(r)
    BY <1>2
  <2>2. PICK c : /\ disk' = [disk EXCEPT ![Target(r)] = c]
                 /\ mark' = [mark EXCEPT ![Target(r)] = "own"]
    BY <2>1 DEF CommitMutate, RollbackRestore, ForwardApply, Write
  <2> QED BY <1>1, <2>2 DEF EditInv, TypeOK
<1>3. CASE \E r \in Requests : PrepareEntry(r)
  BY <1>1, <1>3 DEF PrepareEntry, EditInv, TypeOK
<1>4. CASE \E q \in Paths, c \in EditContents : EditFile(q, c)
  BY <1>1, <1>4 DEF EditFile, EditInv, TypeOK
<1>5. CASE UNCHANGED <<disk, mark>>
  BY <1>5 DEF EditInv
<1> QED BY <1>2, <1>3, <1>4, <1>5, WhoTouches

\* A call comes to a write only through the check before it.
LEMMA CheckFirst ==
  ASSUME TypeOK, NEW r \in Requests, LiveStep(r) \/ UndoStep(r) \/ RecoverStep(r),
         pc'[r] \in {"mutating", "restoring", "reapplying"}
  PROVE  CommitCheck(r) \/ RollbackCheck(r) \/ ForwardCheck(r)
<1> USE DEF TypeOK, control, Goto, BeginRollback
<1>1. ~ConsumeNonce(r) /\ ~ConsumeGrant(r) /\ ~BeginJournal(r) /\ ~Stage(r) /\ ~Abandon(r)
  BY DEF ConsumeNonce, ConsumeGrant, BeginJournal, Stage, Abandon
<1>2. ~PrepareEntry(r) /\ ~PrepareFails(r) /\ ~SetPrepared(r) /\ ~Recheck(r)
  BY DEF PrepareEntry, PrepareFails, SetPrepared, Recheck
<1>3. ~CommitMutate(r) /\ ~CommitFails(r) /\ ~CommitRecord(r)
  BY DEF CommitMutate, CommitFails, CommitRecord
<1>4. ~SetVerifying(r) /\ ~VerifyMatches(r) /\ ~VerifyFails(r) /\ ~Settle(r) /\ ~DropLease(r)
  BY DEF SetVerifying, VerifyMatches, VerifyFails, Settle, DropLease
<1>5. /\ ~RollbackSkip(r) /\ ~RollbackSettle(r) /\ ~RollbackRestore(r)
      /\ ~RollbackRecord(r) /\ ~RollbackFails(r) /\ ~RollbackDone(r)
  BY DEF RollbackSkip, RollbackSettle, RollbackRestore, RollbackRecord, RollbackFails,
         RollbackDone, Undo
<1>6. /\ ~RecoverStale(r) /\ ~RecoverCommitting(r) /\ ~RecoverVerifying(r)
      /\ ~RecoverRollingBack(r)
  BY DEF RecoverStale, RecoverCommitting, RecoverVerifying, RecoverRollingBack
<1>7. /\ ~ForwardApply(r) /\ ~ForwardFails(r) /\ ~ForwardRecord(r) /\ ~ForwardDone(r)
      /\ ~Reverify(r)
  BY DEF ForwardApply, ForwardFails, ForwardRecord, ForwardDone, Reverify
<1> QED BY <1>1, <1>2, <1>3, <1>4, <1>5, <1>6, <1>7 DEF LiveStep, UndoStep, RecoverStep

\* A call in the window holds the lease.
LEMMA WindowHolds ==
  ASSUME LeaseInv, NEW r \in Requests, pc[r] \in {"mutating", "restoring", "reapplying"}
  PROVE  active = r
<1>1. jstate[r] \in Nonterminal
  BY DEF LeaseInv, PlaceInv, WorkPC
<1> QED BY <1>1 DEF LeaseInv, LeaseCoversJournal

\* Into the window: the check has found what the write may overwrite.
LEMMA WindowEnters ==
  ASSUME TypeOK, NEW r \in Requests, CommitCheck(r) \/ RollbackCheck(r) \/ ForwardCheck(r)
  PROVE  WindowOK(r)'
<1> SUFFICES ASSUME pc'[r] \in {"mutating", "restoring", "reapplying"}  PROVE WindowOK(r)'
  BY DEF WindowOK
<1>1. UNCHANGED <<disk, mark, before>>
  BY DEF CommitCheck, RollbackCheck, ForwardCheck, tree, journal
<1>2. CASE CommitCheck(r)
  <2>1. idx'[r] = idx[r] /\ pc'[r] = "mutating" /\ Precondition(r, idx[r])
    BY <1>2 DEF CommitCheck, BeginRollback, Goto, TypeOK
  <2>2. Current(r) \in {NoFile, BeforeOf(r)}
    BY <2>1 DEF Precondition, Current, Target, BeforeOf
  <2> QED BY <1>1, <2>1, <2>2 DEF WindowOK, Current, Target, BeforeOf
<1>3. CASE RollbackCheck(r)
  <2>1. idx'[r] = idx[r] /\ pc'[r] = "restoring" /\ OwnsCurrent(r)
    BY <1>3 DEF RollbackCheck, Goto, TypeOK
  <2> QED BY <1>1, <2>1 DEF WindowOK, Current, Target, AfterOf, OwnsCurrent
<1>4. CASE ForwardCheck(r)
  <2>1. PICK u : idx'[r] = idx[r] /\ pc'[r] = "reapplying" /\ Classify(r, idx[r], u) = "Pending"
    BY <1>4 DEF ForwardCheck, Forward, BeginRollback, Goto, TypeOK
  <2>2. Current(r) \in {NoFile, BeforeOf(r)}
    BY <2>1 DEF Classify, Current, Target, BeforeOf
  <2> QED BY <1>1, <2>1, <2>2 DEF WindowOK, Current, Target, BeforeOf
<1> QED BY <1>2, <1>3, <1>4

\* While another call holds the lease, a step of r touches no file.
LEMMA OnlyHolderTouches ==
  ASSUME TypeInv, LeaseInv, StageInv,
         NEW r \in Requests, LiveStep(r) \/ UndoStep(r) \/ RecoverStep(r),
         NEW q \in Requests, q # r, active = q
  PROVE  UNCHANGED <<disk, mark>>
<1>1. ~CommitMutate(r) /\ ~RollbackRestore(r) /\ ~ForwardApply(r)
  BY WriterHasRow
<1>2. ~PrepareEntry(r)
  BY DEF PrepareEntry, LeaseInv, LeaseCoversJournal, PlaceInv, WorkPC
<1> QED
  BY <1>1, <1>2
     DEF LiveStep, UndoStep, RecoverStep, ConsumeNonce, ConsumeGrant, BeginJournal, Stage,
         Abandon, PrepareFails, SetPrepared, Recheck, CommitCheck, CommitFails, CommitRecord,
         SetVerifying, VerifyMatches, VerifyFails, RollbackSkip, RollbackSettle, RollbackCheck,
         RollbackRecord, RollbackFails, RollbackDone, Settle, DropLease, RecoverStale,
         RecoverCommitting, RecoverVerifying, RecoverRollingBack, ForwardCheck, ForwardFails,
         ForwardRecord, ForwardDone, Reverify, tree

\* Every step keeps the window: no other call writes, and other programs leave their mark.
LEMMA WindowStep ==
  ASSUME TypeInv, LeaseInv, StageInv, WindowInv, [Next]_vars  PROVE WindowInv'
<1> DEFINE W == {"mutating", "restoring", "reapplying"}
<1>1. TypeOK
  BY DEF TypeInv
<1>2. SUFFICES ASSUME NEW q \in Requests, pc'[q] \in W  PROVE WindowOK(q)'
  BY DEF WindowInv, WindowOK
<1>3. ASSUME NEW r \in Requests, LiveStep(r) \/ UndoStep(r) \/ RecoverStep(r)  PROVE WindowOK(q)'
  <2>1. CASE q = r
    BY <1>1, <1>2, <1>3, <2>1, CheckFirst, WindowEnters
  <2>2. CASE q # r
    <3>1. Same(q) /\ active = q
      BY <1>1, <1>2, <1>3, <2>2, OthersStay, WindowHolds DEF Same
    <3>2. UNCHANGED <<disk, mark>>
      BY <1>3, <2>2, <3>1, OnlyHolderTouches
    <3> QED BY <3>1, <3>2 DEF WindowInv, WindowOK, Same, Current, Target, BeforeOf, AfterOf
  <2> QED BY <2>1, <2>2
<1>4. ASSUME NEW p \in Paths, NEW c \in EditContents, EditFile(p, c)  PROVE WindowOK(q)'
  <2>1. /\ UNCHANGED <<pc, idx, before>> /\ disk' = [disk EXCEPT ![p] = c]
        /\ mark' = [mark EXCEPT ![p] = IF InWindow(p) THEN "raced" ELSE "edit"]
    BY <1>4 DEF EditFile, control, journal
  <2>2. idx[q] \in 1..N(q) /\ Target(q) \in Paths
    BY <1>1, <1>2, <2>1, EntryFacts DEF TypeInv, EntryInv, EntryPC
  <2>3. CASE Target(q) = p
    <3>1. InWindow(p)
      BY <1>2, <2>1, <2>3 DEF InWindow
    <3>2. mark'[p] = "raced"
      BY <1>1, <2>1, <3>1 DEF TypeOK
    <3> QED BY <2>1, <2>3, <3>2 DEF WindowOK, Target
  <2>4. CASE Target(q) # p
    <3>1. disk'[Target(q)] = disk[Target(q)] /\ mark'[Target(q)] = mark[Target(q)]
      BY <1>1, <2>1, <2>2, <2>4 DEF TypeOK
    <3> QED BY <2>1, <3>1 DEF WindowInv, WindowOK, Current, Target, BeforeOf, AfterOf
  <2> QED BY <2>3, <2>4
<1>5. CASE Crash
  BY <1>2, <1>5 DEF Crash
<1>6. CASE OpenStore \/ OpenDone \/ RootVanishes \/ RootReturns \/ Finished \/ UNCHANGED vars
  <2>1. UNCHANGED <<disk, mark, pc, idx, before>>
    BY <1>6 DEF OpenStore, OpenDone, RootVanishes, RootReturns, Finished, vars, tree, control,
       journal
  <2> QED BY <2>1 DEF WindowInv, WindowOK, Current, Target, BeforeOf, AfterOf
<1> QED BY <1>3, <1>4, <1>5, <1>6 DEF Next

\* The broker overwrites another program's bytes only when it has saved them, or when they
\* fell into the window between its check and its write, unless they are the very bytes of
\* its change set, which it cannot tell from its own.
THEOREM PromotionKeepsForeign == EditsDiffer => (Spec => ForeignBytesKept)
<1> SUFFICES ASSUME EditsDiffer  PROVE Spec => ForeignBytesKept
  OBVIOUS
<1>1. Init => EditInv /\ WindowInv
  BY DEF Init, EditInv, WindowInv, WindowOK
<1>2. TypeInv /\ LeaseInv /\ StageInv /\ EditInv /\ WindowInv /\ [Next]_vars => EditInv' /\ WindowInv'
  BY EditStep, WindowStep
<1>3. TypeInv /\ LeaseInv /\ StageInv /\ EditInv /\ WindowInv /\ [Next]_vars =>
        [\A p \in Paths :
           disk'[p] # disk[p] /\ mark'[p] = "own" =>
             disk[p] = NoFile \/ mark[p] # "edit" \/ SavedOriginal(p)]_vars
  <2> SUFFICES ASSUME TypeInv, LeaseInv, StageInv, EditInv, WindowInv, [Next]_vars,
                      NEW p \in Paths, disk'[p] # disk[p], mark'[p] = "own", mark[p] = "edit",
                      disk[p] # NoFile
               PROVE  SavedOriginal(p)
    OBVIOUS
  <2>1. PICK r \in Requests : /\ CommitMutate(r) \/ RollbackRestore(r) \/ ForwardApply(r)
                              /\ Target(r) = p
    BY WhoWrites DEF TypeInv
  <2>2. active = r /\ idx[r] \in 1..N(r)
    BY <2>1, WriterHasRow
  <2>3. WindowOK(r)
    BY DEF WindowInv
  <2>4. CASE CommitMutate(r) \/ ForwardApply(r)
    <3>1. disk[p] = before[r][idx[r]]
      BY <2>1, <2>3, <2>4 DEF CommitMutate, ForwardApply, WindowOK, Current, BeforeOf
    <3> QED BY <2>1, <2>2, <3>1 DEF SavedOriginal, Target
  <2>5. CASE RollbackRestore(r)
    <3>1. disk[p] = Plan[r][idx[r]].after
      BY <2>1, <2>3, <2>5 DEF RollbackRestore, WindowOK, Current, AfterOf
    <3>2. disk[p] \in EditContents
      BY DEF EditInv
    <3> QED BY <2>2, <3>1, <3>2 DEF EditsDiffer
  <2> QED BY <2>1, <2>4, <2>5
<1> QED BY <1>1, <1>2, <1>3, StageInvariant, PTL DEF Spec, ForeignBytesKept

----------------------------------------------------------------------------
(* The files keep up with the rows.                                        *)

\* Everything that is known of call r's files.
FilesOK(r) == OutcomeOK(r) /\ \A i \in 1..N(r) : EntryOK(r, i)

\* A step that only moves the call: it may not undo, prepare or promise anything new.
LEMMA FilesMove ==
  ASSUME NEW r \in Requests, FilesOK(r), UNCHANGED <<disk, mark, active, estate, before>>,
         pc'[r] # "restored",
         pc'[r] \in UndoPC =>
           /\ goal'[r] \in {"STALE", "ROLLED_BACK"}
           /\ \A i \in 1..N(r) : i > idx'[r] => pc[r] \in UndoPC /\ i > idx[r],
         jstate'[r] \in {"PREPARING", "PREPARED"} => jstate[r] \in {"PREPARING", "PREPARED"},
         \/ Outcome(r)' = "NONE"
         \/ Outcome(r)' = Outcome(r) /\ unread'[r] = unread[r]
  PROVE  FilesOK(r)'
<1>1. OutcomeOK(r)'
  <2>1. \A i \in 1..N(r) : unread'[r] = unread[r] => (Cause(r, i)' <=> Cause(r, i))
    BY DEF Cause
  <2> QED BY <2>1 DEF FilesOK, OutcomeOK
<1>2. ASSUME NEW i \in 1..N(r)  PROVE EntryOK(r, i)'
  BY <1>2 DEF FilesOK, EntryOK, Mine, AtBefore, AtAfter, Undone
<1> QED BY <1>1, <1>2 DEF FilesOK

\* A step that promises an outcome.
LEMMA FilesPromise ==
  ASSUME NEW r \in Requests, FilesOK(r), UNCHANGED <<disk, mark, active, estate, before, jstate>>,
         jstate[r] \notin Terminal, pc'[r] = "settling",
         goal'[r] = "COMMITTED" => \A i \in 1..N(r) : AtAfter(r, i),
         RestoresWork /\ goal'[r] \in {"STALE", "ROLLED_BACK"} =>
           \A i \in 1..N(r) : Mine(r, i) => estate[r][i] = "NONE" \/ AtBefore(r, i),
         active = r /\ goal'[r] = "MANUAL_RECOVERY_REQUIRED" =>
           \E i \in 1..N(r) : Mine(r, i) => i \in unread'[r] /\ Plan[r][i].kind # "DELETE"
  PROVE  FilesOK(r)'
<1>1. Outcome(r)' = goal'[r] /\ pc'[r] \notin UndoPC
  BY DEF Outcome, UndoPC
<1>2. OutcomeOK(r)'
  BY <1>1 DEF OutcomeOK, Mine, Cause
<1>3. ASSUME NEW i \in 1..N(r)  PROVE EntryOK(r, i)'
  BY <1>1, <1>3 DEF FilesOK, EntryOK, Mine, AtBefore, AtAfter, Undone
<1> QED BY <1>2, <1>3 DEF FilesOK

\* The path of an entry.
LEMMA PlanPath == ASSUME NEW r \in Requests, NEW i \in 1..N(r)  PROVE Plan[r][i].path \in Paths
<1>1. Plan[r] \in Seq(Entry) /\ Plan[r][i] \in Entry
  BY PlanAssumption DEF N
<1> QED BY <1>1 DEF Entry

\* A write of the broker changes the file of its entry and, as a change set names each path
\* once, no other file of the change set.
LEMMA WriteFacts ==
  ASSUME DistinctPaths, TypeOK, NEW r \in Requests, idx[r] \in 1..N(r), NEW c, Write(r, c),
         NEW i \in 1..N(r)
  PROVE  /\ i = idx[r] => disk'[Plan[r][i].path] = c
         /\ i # idx[r] => /\ disk'[Plan[r][i].path] = disk[Plan[r][i].path]
                          /\ mark'[Plan[r][i].path] = mark[Plan[r][i].path]
<1>1. Target(r) \in Paths
  BY EntryFacts
<1>2. i # idx[r] => Plan[r][i].path # Plan[r][idx[r]].path
  BY DEF DistinctPaths
<1> QED BY <1>1, <1>2, PlanPath DEF Write, Target, TypeOK

\* On the tree that verification expects every entry holds its new bytes.
LEMMA ExpectedEntry ==
  ASSUME DistinctPaths, NEW r \in Requests, SnapshotMatches(r), NEW i \in 1..N(r)
  PROVE  AtAfter(r, i)
<1>1. PICK j \in 1..N(r) : /\ Plan[r][j].path = Plan[r][i].path
                           /\ disk[Plan[r][i].path] = Plan[r][j].after
  BY PlanPath DEF SnapshotMatches, Expected
<1> QED BY <1>1 DEF DistinctPaths, AtAfter

\* Bytes that reconciliation calls foreign are not the broker's, unless it could not read them.
LEMMA ForeignNotMine ==
  ASSUME NEW r \in Requests, FilesOK(r), NEW i \in 1..N(r), estate[r][i] # "NONE",
         NEW u, Classify(r, i, u) = "Foreign"
  PROVE  Mine(r, i) => i \in u /\ Plan[r][i].kind # "DELETE"
<1> SUFFICES ASSUME i \notin u  PROVE ~Mine(r, i)
  BY DEF Classify
<1>1. before[r][i] = NoFile <=> Plan[r][i].kind = "CREATE"
  BY DEF FilesOK, EntryOK
<1>2. ~AtBefore(r, i) /\ ~AtAfter(r, i)
  BY <1>1 DEF Classify, AtBefore, AtAfter
<1> QED BY <1>2 DEF FilesOK, EntryOK

\* A step that writes a row of a journal that is past its preparation.
LEMMA FilesMark ==
  ASSUME TypeOK, NEW r \in Requests, FilesOK(r), UNCHANGED <<disk, mark, active, before, jstate>>,
         jstate[r] \in {"COMMITTING", "VERIFYING", "ROLLING_BACK"},
         NEW k \in 1..N(r), k = idx[r], NEW s, Mark(r, s), estate[r][k] # "NONE",
         pc'[r] \in {"committing", "forward", "rolling"},
         pc'[r] = "rolling" => /\ pc[r] \in UndoPC /\ idx'[r] = k - 1 /\ goal'[r] = goal[r]
                               /\ Mine(r, k) => s = "ROLLED_BACK",
         s = "ROLLED_BACK" /\ Mine(r, k) => AtBefore(r, k)
  PROVE  FilesOK(r)'
<1>1. \A i \in 1..N(r) : estate'[r][i] = IF i = k THEN s ELSE estate[r][i]
  BY PlanLength DEF TypeOK, Mark
<1>2. Outcome(r)' = "NONE" /\ pc'[r] # "restored" /\ (pc'[r] \in UndoPC => pc'[r] = "rolling")
  BY DEF Outcome, Terminal, UndoPC
<1>3. OutcomeOK(r)'
  BY <1>2 DEF FilesOK, OutcomeOK
<1>4. ASSUME NEW i \in 1..N(r)  PROVE EntryOK(r, i)'
  <2>1. i # k /\ pc'[r] \in UndoPC /\ i > idx'[r] => i > idx[r] /\ pc[r] \in UndoPC
    BY <1>2
  <2>2. CASE i # k
    BY <1>1, <1>2, <2>1, <2>2 DEF FilesOK, EntryOK, Mine, AtBefore, AtAfter, Undone
  <2>3. CASE i = k
    BY <1>1, <1>2, <2>3 DEF FilesOK, EntryOK, Mine, AtBefore, AtAfter, Undone
  <2> QED BY <2>2, <2>3
<1> QED BY <1>3, <1>4 DEF FilesOK

\* Capturing an entry.
LEMMA FilesPrepare ==
  ASSUME DistinctPaths, TypeOK, LeaseInv, StageInv, NEW r \in Requests, FilesOK(r), PrepareEntry(r)
  PROVE  FilesOK(r)'
<1>1. PICK k \in 1..N(r) : k = idx[r]
  BY DEF PrepareEntry
<1>2. /\ pc[r] = "preparing" /\ pc'[r] = pc[r] /\ jstate'[r] = jstate[r] /\ active' = active
      /\ disk' = disk /\ mark' = [mark EXCEPT ![Target(r)] = "own"] /\ KindFits(r)
  BY DEF PrepareEntry, lease
<1>3. /\ estate'[r][k] = "STAGED" /\ before'[r][k] = disk[Plan[r][k].path]
      /\ \A i \in 1..N(r) \ {k} : estate'[r][i] = estate[r][i] /\ before'[r][i] = before[r][i]
  BY <1>1, PlanLength DEF PrepareEntry, Mark, TypeOK, Current, Target
<1>4. Outcome(r)' = "NONE" /\ pc'[r] \notin UndoPC
  BY <1>2 DEF Outcome, UndoPC, Terminal, LeaseInv, PlaceInv, WorkPC, Nonterminal
<1>5. ASSUME NEW i \in 1..N(r)  PROVE EntryOK(r, i)'
  <2>1. CASE i = k
    <3>1. before'[r][k] = NoFile <=> Plan[r][k].kind = "CREATE"
      BY <1>1, <1>2, <1>3 DEF KindFits, KindOf, Current, Target
    <3> QED BY <1>2, <1>3, <1>4, <2>1, <3>1 DEF EntryOK, Mine, AtBefore, AtAfter, Undone
  <2>2. CASE i # k
    <3>1. Plan[r][i].path # Target(r) /\ Plan[r][i].path \in Paths
      BY <1>1, <2>2, PlanPath DEF DistinctPaths, Target
    <3>2. mark'[Plan[r][i].path] = mark[Plan[r][i].path]
      BY <1>2, <3>1 DEF TypeOK
    <3>3. estate'[r][i] = estate[r][i] /\ before'[r][i] = before[r][i]
      BY <1>3, <2>2
    <3> QED BY <1>2, <1>4, <3>2, <3>3 DEF FilesOK, EntryOK, Mine, AtBefore, AtAfter, Undone
  <2> QED BY <2>1, <2>2
<1> QED BY <1>4, <1>5 DEF FilesOK, OutcomeOK

\* Writing an entry's new bytes, or its captured ones.
LEMMA FilesWrite ==
  ASSUME DistinctPaths, TypeInv, LeaseInv, StageInv, NEW r \in Requests, FilesOK(r),
         CommitMutate(r) \/ RollbackRestore(r) \/ ForwardApply(r)
  PROVE  FilesOK(r)'
<1>1. TypeOK
  BY DEF TypeInv
<1>2. PICK k \in 1..N(r) : k = idx[r]
  BY WriterHasRow
<1>3. jstate[r] \in {"COMMITTING", "VERIFYING", "ROLLING_BACK"} /\ estate[r][k] # "NONE"
  BY <1>2, WriterHasRow
<1>4. /\ UNCHANGED <<active, estate, before, jstate, idx, goal>>
      /\ \/ /\ pc[r] \in {"mutating", "reapplying"} /\ pc'[r] \in {"recording", "rerecording"}
            /\ Write(r, AfterOf(r))
         \/ pc[r] = "restoring" /\ pc'[r] = "restored" /\ Write(r, BeforeOf(r))
  BY <1>1 DEF CommitMutate, RollbackRestore, ForwardApply, lease, journal, Goto, TypeOK
<1>5. Outcome(r)' = "NONE"
  BY <1>3, <1>4 DEF Outcome, Terminal
<1>6. OutcomeOK(r)'
  BY <1>4, <1>5 DEF FilesOK, OutcomeOK, UndoPC
<1>7. ASSUME NEW i \in 1..N(r), i # k  PROVE EntryOK(r, i)'
  <2>1. /\ disk'[Plan[r][i].path] = disk[Plan[r][i].path]
        /\ mark'[Plan[r][i].path] = mark[Plan[r][i].path]
    BY <1>1, <1>2, <1>4, <1>7, WriteFacts
  <2>2. Undone(r, i)' => Undone(r, i)
    BY <1>2, <1>4, <1>7 DEF Undone, UndoPC
  <2>3. pc'[r] \in UndoPC => pc[r] \in UndoPC
    BY <1>4 DEF UndoPC
  <2> QED BY <1>4, <1>5, <2>1, <2>2, <2>3 DEF FilesOK, EntryOK, Mine, AtBefore, AtAfter
<1>8. EntryOK(r, k)'
  <2>1. CASE pc[r] = "restoring"
    <3>1. disk'[Plan[r][k].path] = before[r][k] /\ ~(k > idx'[r])
      BY <1>1, <1>2, <1>4, <2>1, WriteFacts DEF BeforeOf
    <3> QED BY <1>3, <1>4, <1>5, <3>1 DEF FilesOK, EntryOK, Mine, AtBefore, AtAfter
  <2>2. CASE pc[r] \in {"mutating", "reapplying"}
    <3>1. disk'[Plan[r][k].path] = Plan[r][k].after /\ pc'[r] \notin UndoPC
      BY <1>1, <1>2, <1>4, <2>2, WriteFacts DEF AfterOf, UndoPC
    <3>2. jstate[r] = "COMMITTING" /\ estate[r][k] # "ROLLED_BACK"
      BY <2>2 DEF StageInv, StageOK, JournalFits, RowsUnder
    <3> QED BY <1>4, <1>5, <3>1, <3>2 DEF FilesOK, EntryOK, Mine, AtBefore, AtAfter, Undone
  <2> QED BY <1>4, <2>1, <2>2
<1> QED BY <1>6, <1>7, <1>8 DEF FilesOK

\* Opening the journal: it has no rows yet.
LEMMA FilesBegin ==
  ASSUME TypeOK, LeaseInv, StageInv, NEW r \in Requests, FilesOK(r), BeginJournal(r)
  PROVE  FilesOK(r)'
<1>1. /\ UNCHANGED <<disk, mark, estate, before, idx, goal>> /\ jstate[r] = "NONE"
      /\ pc'[r] \in {"staging", "done"} /\ jstate'[r] \in {"NONE", "PREPARING"}
  BY DEF BeginJournal, tree, Goto, Journal, TypeOK, LeaseInv, PlaceInv, EarlyPC
<1>2. \A i \in 1..N(r) : estate'[r][i] = "NONE"
  BY <1>1 DEF StageInv, StageOK, RowsUnder
<1>3. Outcome(r)' = "NONE" /\ pc'[r] \notin UndoPC
  BY <1>1 DEF Outcome, UndoPC, Terminal
<1> QED BY <1>2, <1>3 DEF FilesOK, OutcomeOK, EntryOK, Undone

\* The steps of a live call.
LEMMA FilesLive ==
  ASSUME DistinctPaths, TypeInv, LeaseInv, StageInv, NEW r \in Requests, FilesOK(r), LiveStep(r)
  PROVE  FilesOK(r)'
<1>1. TypeOK /\ StageOK(r) /\ N(r) \in Nat
  BY PlanLength DEF TypeInv, StageInv
<1>2. CASE PrepareEntry(r) \/ BeginJournal(r) \/ CommitMutate(r)
  BY <1>1, <1>2, FilesPrepare, FilesBegin, FilesWrite
<1> USE <1>1 DEF tree, lease, journal, Goto, At, Journal, Aim, UndoPC, TypeOK
<1>3. CASE ConsumeNonce(r) \/ ConsumeGrant(r) \/ Stage(r) \/ Abandon(r)
  <2>1. /\ UNCHANGED <<disk, mark, active, estate, before, jstate>>
        /\ pc'[r] \in {"nonce", "granted", "preparing", "done"} /\ UNCHANGED unread
    BY <1>3 DEF ConsumeNonce, ConsumeGrant, Stage, Abandon, Fault, history
  <2>2. Outcome(r)' = "NONE" \/ Outcome(r)' = Outcome(r)
    BY <2>1 DEF Outcome
  <2> QED BY <2>1, <2>2, FilesMove
<1>4. CASE SetPrepared(r) \/ SetVerifying(r)
  <2>1. /\ UNCHANGED <<disk, mark, active, estate, before>> /\ pc[r] \in {"preparing", "committing"}
        /\ \/ pc'[r] = "prepared" /\ jstate'[r] = "PREPARED" /\ pc[r] = "preparing"
           \/ pc'[r] = "verifying" /\ jstate'[r] = "VERIFYING"
    BY <1>4 DEF SetPrepared, SetVerifying
  <2>2. pc[r] = "preparing" => jstate[r] = "PREPARING"
    BY DEF StageOK, JournalFits
  <2>3. Outcome(r)' = "NONE"
    BY <2>1 DEF Outcome, Terminal
  <2> QED BY <2>1, <2>2, <2>3, FilesMove
<1>5. CASE PrepareFails(r)
  <2>1. /\ UNCHANGED <<disk, mark, active, estate, before, jstate>> /\ pc[r] = "preparing"
        /\ pc'[r] = "settling" /\ goal'[r] = "STALE"
    BY <1>5 DEF PrepareFails
  <2>2. jstate[r] = "PREPARING" /\ jstate[r] \notin Terminal
    BY <2>1 DEF StageOK, JournalFits, Terminal
  <2>3. \A i \in 1..N(r) : Mine(r, i) => estate[r][i] = "NONE" \/ AtBefore(r, i)
    BY <2>2 DEF FilesOK, EntryOK
  <2> QED BY <2>1, <2>2, <2>3, FilesPromise
<1>6. CASE Recheck(r)
  <2>1. /\ UNCHANGED <<disk, mark, active, estate, before>> /\ pc[r] = "prepared"
        /\ \/ jstate'[r] = "COMMITTING" /\ pc'[r] = "committing"
           \/ UNCHANGED jstate /\ pc'[r] = "settling" /\ goal'[r] = "STALE"
    BY <1>6 DEF Recheck
  <2>2. jstate[r] = "PREPARED" /\ jstate[r] \notin Terminal
    BY <2>1 DEF StageOK, JournalFits, Terminal
  <2>3. CASE jstate'[r] = "COMMITTING" /\ pc'[r] = "committing"
    <3>1. Outcome(r)' = "NONE"
      BY <2>3 DEF Outcome, Terminal
    <3> QED BY <2>1, <2>3, <3>1, FilesMove
  <2>4. CASE UNCHANGED jstate /\ pc'[r] = "settling" /\ goal'[r] = "STALE"
    <3>1. \A i \in 1..N(r) : Mine(r, i) => estate[r][i] = "NONE" \/ AtBefore(r, i)
      BY <2>2 DEF FilesOK, EntryOK
    <3> QED BY <2>1, <2>2, <2>4, <3>1, FilesPromise
  <2> QED BY <2>1, <2>3, <2>4
<1>7. CASE CommitCheck(r) \/ CommitFails(r) \/ VerifyFails(r)
  <2>1. /\ UNCHANGED <<disk, mark, active, estate, before>>
        /\ pc[r] \in {"committing", "mutating", "recording", "verifying"}
        /\ \/ /\ jstate'[r] = "ROLLING_BACK" /\ pc'[r] = "rolling" /\ idx'[r] = N(r)
              /\ goal'[r] \in {"STALE", "ROLLED_BACK"}
           \/ pc'[r] = "mutating" /\ jstate'[r] = jstate[r] /\ pc[r] = "committing"
    BY <1>7 DEF CommitCheck, CommitFails, VerifyFails, BeginRollback
  <2>2. pc[r] = "committing" => jstate[r] = "COMMITTING"
    BY DEF StageOK, JournalFits
  <2>3. Outcome(r)' = "NONE"
    BY <2>1, <2>2 DEF Outcome, Terminal
  <2>4. pc'[r] = "rolling" => \A i \in 1..N(r) : ~(i > idx'[r])
    BY <2>1
  <2> QED BY <2>1, <2>3, <2>4, FilesMove
<1>8. CASE CommitRecord(r)
  <2>1. PICK k \in 1..N(r) : k = idx[r]
    BY <1>8 DEF CommitRecord, TypeInv, EntryInv, EntryPC
  <2>2. /\ UNCHANGED <<disk, mark, active, before, jstate>> /\ pc[r] = "recording"
        /\ pc'[r] = "committing" /\ Mark(r, "APPLIED")
    BY <1>8 DEF CommitRecord
  <2>3. jstate[r] = "COMMITTING" /\ estate[r][k] # "NONE"
    BY <2>2 DEF StageOK, JournalFits, RowsUnder
  <2> QED BY <2>1, <2>2, <2>3, FilesMark
<1>9. CASE VerifyMatches(r)
  <2>1. /\ UNCHANGED <<disk, mark, active, estate, before, jstate>> /\ pc[r] = "verifying"
        /\ pc'[r] = "settling" /\ goal'[r] = "COMMITTED" /\ SnapshotMatches(r)
    BY <1>9 DEF VerifyMatches
  <2>2. jstate[r] \notin Terminal
    BY <2>1 DEF StageOK, JournalFits, Terminal
  <2>3. \A i \in 1..N(r) : AtAfter(r, i)
    BY <2>1, ExpectedEntry
  <2> QED BY <2>1, <2>2, <2>3, FilesPromise
<1> QED BY <1>2, <1>3, <1>4, <1>5, <1>6, <1>7, <1>8, <1>9 DEF LiveStep

\* Rollback, receipt and release.
LEMMA FilesUndo ==
  ASSUME DistinctPaths, TypeInv, LeaseInv, StageInv, NEW r \in Requests, FilesOK(r), UndoStep(r)
  PROVE  FilesOK(r)'
<1>1. TypeOK /\ StageOK(r) /\ N(r) \in Nat
  BY PlanLength DEF TypeInv, StageInv
<1>2. CASE RollbackRestore(r)
  BY <1>2, FilesWrite
<1>3. pc[r] \in UndoPC =>
        /\ jstate[r] \in {"VERIFYING", "ROLLING_BACK"} /\ jstate[r] \notin Terminal /\ active = r
        /\ \A i \in 1..N(r) : estate[r][i] # "NONE"
  BY <1>1 DEF StageOK, JournalFits, RowsUnder, Terminal, LeaseInv, LeaseCoversJournal, Nonterminal
<1> USE <1>1 DEF tree, lease, journal, Goto, At, Journal, Aim, TypeOK
<1>4. CASE RollbackSkip(r)
  <2>1. PICK k \in 1..N(r) : k = idx[r]
    BY <1>4 DEF RollbackSkip, Undo
  <2>2. /\ UNCHANGED <<disk, mark, active, estate, before, jstate, goal>> /\ pc[r] = "rolling"
        /\ pc'[r] = pc[r] /\ idx'[r] = k - 1 /\ estate[r][k] = "ROLLED_BACK"
    BY <1>4, <2>1 DEF RollbackSkip, Undo
  <2>3. Outcome(r)' = "NONE" /\ pc[r] \in UndoPC
    BY <1>3, <2>2 DEF Outcome, UndoPC
  <2>4. ASSUME NEW i \in 1..N(r)  PROVE EntryOK(r, i)'
    <3>1. i > k - 1 => i = k \/ i > k
      BY SMT
    <3> QED BY <2>1, <2>2, <2>3, <3>1 DEF FilesOK, EntryOK, Mine, AtBefore, AtAfter, Undone
  <2> QED BY <2>2, <2>3, <2>4 DEF FilesOK, OutcomeOK
<1>5. CASE RollbackCheck(r)
  <2>1. /\ UNCHANGED <<disk, mark, active, estate, before, jstate, idx, goal>> /\ pc[r] = "rolling"
        /\ pc'[r] = "restoring"
    BY <1>5 DEF RollbackCheck, Undo
  <2>2. Outcome(r)' = "NONE" /\ pc[r] \in UndoPC
    BY <1>3, <2>1 DEF Outcome, UndoPC
  <2> QED BY <2>1, <2>2, FilesMove DEF FilesOK, OutcomeOK
<1>6. CASE RollbackSettle(r)
  <2>1. PICK k \in 1..N(r) : k = idx[r]
    BY <1>6 DEF RollbackSettle, Undo
  <2>2. PICK s \in {"ROLLED_BACK", "EXTERNAL_CONFLICT"} :
          /\ Mark(r, s) /\ (s = "ROLLED_BACK" <=> AtBefore(r, k))
    BY <1>6, <2>1 DEF RollbackSettle, AtBefore, Current, Target, BeforeOf
  <2>3. /\ UNCHANGED <<disk, mark, active, before, jstate, goal>> /\ pc[r] = "rolling"
        /\ pc'[r] = "rolling" /\ idx'[r] = k - 1 /\ ~OwnsCurrent(r)
    BY <1>6, <2>1 DEF RollbackSettle, Undo
  <2>4. pc[r] \in UndoPC
    BY <2>3 DEF UndoPC
  <2>5. Mine(r, k) => AtBefore(r, k)
    BY <1>3, <2>1, <2>3, <2>4
       DEF FilesOK, EntryOK, AtBefore, AtAfter, OwnsCurrent, Current, Target, BeforeOf, AfterOf
  <2> QED BY <1>3, <2>1, <2>2, <2>3, <2>4, <2>5, FilesMark
<1>7. CASE RollbackRecord(r)
  <2>1. PICK k \in 1..N(r) : k = idx[r]
    BY <1>7 DEF RollbackRecord, TypeInv, EntryInv, EntryPC
  <2>2. /\ UNCHANGED <<disk, mark, active, before, jstate, goal>> /\ pc[r] = "restored"
        /\ pc'[r] = "rolling" /\ idx'[r] = k - 1 /\ Mark(r, "ROLLED_BACK")
    BY <1>7, <2>1 DEF RollbackRecord
  <2>3. pc[r] \in UndoPC
    BY <2>2 DEF UndoPC
  <2>4. Mine(r, k) => AtBefore(r, k)
    BY <2>1, <2>2, <2>3 DEF FilesOK, EntryOK, Undone
  <2> QED BY <1>3, <2>1, <2>2, <2>3, <2>4, FilesMark
<1>8. CASE RollbackFails(r)
  <2>1. /\ UNCHANGED <<disk, mark, active, estate, before, jstate>> /\ pc[r] \in UndoPC
        /\ pc'[r] = "settling" /\ goal'[r] = "STALE" /\ ~RestoresWork
    BY <1>8 DEF RollbackFails, Undo, UndoPC, RestoresWork
  <2> QED BY <1>3, <2>1, FilesPromise
<1>9. CASE RollbackDone(r)
  <2>1. /\ UNCHANGED <<disk, mark, active, estate, before, jstate>> /\ pc[r] \in UndoPC
        /\ idx[r] = 0 /\ pc'[r] = "settling" /\ goal'[r] = RollbackOutcome(r)
    BY <1>9 DEF RollbackDone, UndoPC
  <2>2. \A i \in 1..N(r) : i > idx[r]
    BY <2>1
  <2>3. \A i \in 1..N(r) : Mine(r, i) => AtBefore(r, i) /\ estate[r][i] # "EXTERNAL_CONFLICT"
    BY <2>1, <2>2 DEF FilesOK, EntryOK, Undone
  <2>4. goal[r] \in {"STALE", "ROLLED_BACK"}
    BY <2>1 DEF FilesOK, OutcomeOK
  <2>5. /\ goal'[r] # "COMMITTED"
        /\ goal'[r] = "MANUAL_RECOVERY_REQUIRED" => \E i \in 1..N(r) : ~Mine(r, i)
    BY <2>1, <2>3, <2>4 DEF RollbackOutcome
  <2> QED BY <1>3, <2>1, <2>3, <2>5, FilesPromise
<1>10. CASE Settle(r)
  <2>1. /\ UNCHANGED <<disk, mark, active, estate, before, goal>> /\ pc[r] = "settling"
        /\ pc'[r] = "dropping" /\ jstate'[r] = goal[r] /\ UNCHANGED unread
    BY <1>10 DEF Settle, history
  <2>2. jstate[r] \notin Terminal /\ goal[r] \in Terminal
    BY <2>1 DEF LeaseInv, PlaceInv, WorkPC, AimedPC, Nonterminal, Terminal
  <2>3. Outcome(r)' = Outcome(r) /\ jstate'[r] \notin {"PREPARING", "PREPARED"}
    BY <2>1, <2>2 DEF Outcome, Terminal
  <2> QED BY <2>1, <2>3, FilesMove DEF UndoPC
<1>11. CASE DropLease(r)
  <2>1. /\ UNCHANGED <<estate, before>> /\ active' = NoRequest /\ pc'[r] \notin UndoPC
    BY <1>11 DEF DropLease, UndoPC
  <2>2. active' # r
    BY <2>1, PlanAssumption
  <2> QED BY <2>1, <2>2 DEF FilesOK, OutcomeOK, EntryOK, Mine
<1> QED BY <1>2, <1>4, <1>5, <1>6, <1>7, <1>8, <1>9, <1>10, <1>11 DEF UndoStep

\* Reconciliation.
LEMMA FilesRecover ==
  ASSUME DistinctPaths, TypeInv, LeaseInv, StageInv, RestoresWork => rootThere,
         NEW r \in Requests, FilesOK(r), RecoverStep(r)
  PROVE  FilesOK(r)'
<1>1. TypeOK /\ StageOK(r) /\ N(r) \in Nat
  BY PlanLength DEF TypeInv, StageInv
<1>2. CASE ForwardApply(r)
  BY <1>2, FilesWrite
<1>3. \A s \in Nonterminal : s \notin Terminal
  BY DEF Nonterminal, Terminal
<1> USE <1>1 DEF tree, lease, journal, Goto, At, Journal, Aim, TypeOK
<1>4. CASE RecoverStale(r)
  <2>1. /\ UNCHANGED <<disk, mark, active, estate, before, jstate>> /\ jstate[r] \in Nonterminal
        /\ pc'[r] = "settling" /\ goal'[r] = "STALE" /\ (~rootThere \/ jstate[r] = "PREPARING")
    BY <1>4 DEF RecoverStale, Recovering
  <2>2. RestoresWork =>
          \A i \in 1..N(r) : Mine(r, i) => estate[r][i] = "NONE" \/ AtBefore(r, i)
    BY <2>1 DEF FilesOK, EntryOK
  <2> QED BY <1>3, <2>1, <2>2, FilesPromise
<1>5. CASE RecoverCommitting(r)
  <2>1. PICK u :
        /\ UNCHANGED <<disk, mark, active, estate, before>> /\ unread'[r] = u
        /\ jstate[r] \in {"PREPARED", "COMMITTING"}
        /\ \/ /\ UNCHANGED jstate /\ pc'[r] = "settling"
              /\ goal'[r] = "MANUAL_RECOVERY_REQUIRED"
              /\ \E i \in 1..N(r) : Classify(r, i, u) = "Foreign"
           \/ jstate'[r] = "COMMITTING" /\ pc'[r] = "forward"
    BY <1>5 DEF RecoverCommitting
  <2>2. CASE /\ UNCHANGED jstate /\ pc'[r] = "settling"
             /\ goal'[r] = "MANUAL_RECOVERY_REQUIRED"
             /\ \E i \in 1..N(r) : Classify(r, i, u) = "Foreign"
    <3>1. \A i \in 1..N(r) : estate[r][i] # "NONE"
      BY <2>1 DEF StageOK, RowsUnder
    <3>2. \E i \in 1..N(r) : Mine(r, i) => i \in unread'[r] /\ Plan[r][i].kind # "DELETE"
      BY <2>1, <2>2, <3>1, ForeignNotMine
    <3>3. jstate[r] \notin Terminal
      BY <2>1 DEF Terminal
    <3> QED BY <2>1, <2>2, <3>2, <3>3, FilesPromise
  <2>3. CASE jstate'[r] = "COMMITTING" /\ pc'[r] = "forward"
    <3>1. Outcome(r)' = "NONE" /\ pc'[r] \notin UndoPC
      BY <2>3 DEF Outcome, Terminal, UndoPC
    <3> QED BY <2>1, <2>3, <3>1, FilesMove
  <2> QED BY <2>1, <2>2, <2>3
<1>6. CASE RecoverVerifying(r) \/ ForwardDone(r)
  <2>1. /\ UNCHANGED <<disk, mark, active, estate, before>> /\ jstate'[r] = "VERIFYING"
        /\ pc'[r] = "reverifying"
    BY <1>6 DEF RecoverVerifying, ForwardDone
  <2>2. Outcome(r)' = "NONE" /\ pc'[r] \notin UndoPC
    BY <2>1 DEF Outcome, Terminal, UndoPC
  <2> QED BY <2>1, <2>2, FilesMove
<1>7. CASE RecoverRollingBack(r) \/ ForwardFails(r)
  <2>1. /\ UNCHANGED <<disk, mark, active, estate, before>> /\ jstate'[r] = "ROLLING_BACK"
        /\ pc'[r] = "rolling" /\ idx'[r] = N(r) /\ goal'[r] = "ROLLED_BACK"
    BY <1>7 DEF RecoverRollingBack, ForwardFails, BeginRollback
  <2>2. Outcome(r)' = "NONE" /\ \A i \in 1..N(r) : ~(i > idx'[r])
    BY <2>1 DEF Outcome, Terminal
  <2> QED BY <2>1, <2>2, FilesMove
<1>8. CASE ForwardCheck(r)
  <2>1. PICK k \in 1..N(r) : k = idx[r]
    BY <1>8 DEF ForwardCheck, Forward
  <2>2. jstate[r] = "COMMITTING" /\ jstate[r] \notin Terminal /\ estate[r][k] # "NONE"
    BY <1>8 DEF ForwardCheck, Forward, StageOK, JournalFits, RowsUnder, Terminal
  <2>3. PICK u :
        /\ UNCHANGED <<disk, mark, active, before>> /\ unread'[r] = u
        /\ \/ Mark(r, "APPLIED") /\ UNCHANGED jstate /\ pc'[r] = "forward"
           \/ UNCHANGED <<estate, jstate>> /\ pc'[r] \in {"forward", "reapplying"}
           \/ /\ UNCHANGED estate /\ jstate'[r] = "ROLLING_BACK" /\ pc'[r] = "rolling"
              /\ idx'[r] = N(r) /\ goal'[r] = "ROLLED_BACK"
           \/ /\ UNCHANGED <<estate, jstate>> /\ pc'[r] = "settling"
              /\ goal'[r] = "MANUAL_RECOVERY_REQUIRED" /\ Classify(r, k, u) = "Foreign"
    BY <1>8, <2>1 DEF ForwardCheck, Forward, BeginRollback
  <2>4. CASE Mark(r, "APPLIED") /\ UNCHANGED jstate /\ pc'[r] = "forward"
    BY <2>1, <2>2, <2>3, <2>4, FilesMark
  <2>5. CASE UNCHANGED <<estate, jstate>> /\ pc'[r] \in {"forward", "reapplying"}
    <3>1. Outcome(r)' = "NONE" /\ pc'[r] \notin UndoPC
      BY <2>2, <2>5 DEF Outcome, UndoPC
    <3> QED BY <2>3, <2>5, <3>1, FilesMove DEF UndoPC
  <2>6. CASE /\ UNCHANGED estate /\ jstate'[r] = "ROLLING_BACK" /\ pc'[r] = "rolling"
             /\ idx'[r] = N(r) /\ goal'[r] = "ROLLED_BACK"
    <3>1. Outcome(r)' = "NONE" /\ \A i \in 1..N(r) : ~(i > idx'[r])
      BY <2>6 DEF Outcome, Terminal
    <3> QED BY <2>3, <2>6, <3>1, FilesMove
  <2>7. CASE /\ UNCHANGED <<estate, jstate>> /\ pc'[r] = "settling"
             /\ goal'[r] = "MANUAL_RECOVERY_REQUIRED" /\ Classify(r, k, u) = "Foreign"
    <3>1. Mine(r, k) => k \in unread'[r] /\ Plan[r][k].kind # "DELETE"
      BY <2>2, <2>3, <2>7, ForeignNotMine
    <3> QED BY <2>2, <2>3, <2>7, <3>1, FilesPromise
  <2> QED BY <2>3, <2>4, <2>5, <2>6, <2>7
<1>9. CASE ForwardRecord(r)
  <2>1. PICK k \in 1..N(r) : k = idx[r]
    BY <1>9 DEF ForwardRecord, TypeInv, EntryInv, EntryPC
  <2>2. /\ UNCHANGED <<disk, mark, active, before, jstate>> /\ pc[r] = "rerecording"
        /\ pc'[r] = "forward" /\ Mark(r, "APPLIED")
    BY <1>9 DEF ForwardRecord
  <2>3. jstate[r] = "COMMITTING" /\ estate[r][k] # "NONE"
    BY <2>2 DEF StageOK, JournalFits, RowsUnder
  <2> QED BY <2>1, <2>2, <2>3, FilesMark
<1>10. CASE Reverify(r)
  <2>1. /\ UNCHANGED <<disk, mark, active, estate, before, jstate>> /\ pc[r] = "reverifying"
        /\ \/ pc'[r] = "settling" /\ goal'[r] = "COMMITTED" /\ SnapshotMatches(r)
           \/ pc'[r] = "rolling" /\ idx'[r] = N(r) /\ goal'[r] \in {"STALE", "ROLLED_BACK"}
    BY <1>10 DEF Reverify
  <2>2. jstate[r] \notin Terminal
    BY <2>1 DEF StageOK, JournalFits, Terminal
  <2>3. CASE pc'[r] = "settling" /\ goal'[r] = "COMMITTED" /\ SnapshotMatches(r)
    BY <2>1, <2>2, <2>3, ExpectedEntry, FilesPromise
  <2>4. CASE pc'[r] = "rolling" /\ idx'[r] = N(r) /\ goal'[r] \in {"STALE", "ROLLED_BACK"}
    <3>1. Outcome(r)' = "NONE" /\ \A i \in 1..N(r) : ~(i > idx'[r])
      BY <2>1, <2>2, <2>4 DEF Outcome
    <3> QED BY <2>1, <2>4, <3>1, FilesMove
  <2> QED BY <2>1, <2>3, <2>4
<1> QED BY <1>2, <1>4, <1>5, <1>6, <1>7, <1>8, <1>9, <1>10 DEF RecoverStep

\* Another call keeps what is known of its files: it stands still, and the holder of the
\* lease is the only one that touches a file.
LEMMA FilesOthers ==
  ASSUME TypeInv, LeaseInv, StageInv,
         NEW r \in Requests, LiveStep(r) \/ UndoStep(r) \/ RecoverStep(r),
         NEW q \in Requests, q # r, FilesOK(q)
  PROVE  FilesOK(q)'
<1>1. Same(q)
  BY OthersStay DEF TypeInv
<1>2. active' \in {active, r, NoRequest}
  BY DEF LiveStep, UndoStep, RecoverStep, ConsumeNonce, ConsumeGrant, BeginJournal, Stage,
         Abandon, PrepareEntry, PrepareFails, SetPrepared, Recheck, CommitCheck, CommitMutate,
         CommitFails, CommitRecord, SetVerifying, VerifyMatches, VerifyFails, RollbackSkip,
         RollbackSettle, RollbackCheck, RollbackRestore, RollbackRecord, RollbackFails,
         RollbackDone, Settle, DropLease, RecoverStale, RecoverCommitting, RecoverVerifying,
         RecoverRollingBack, ForwardCheck, ForwardApply, ForwardFails, ForwardRecord, ForwardDone,
         Reverify, lease
<1>3. active' = q => active = q /\ UNCHANGED <<disk, mark>>
  BY <1>2, OnlyHolderTouches, PlanAssumption
<1>4. Outcome(q)' = Outcome(q)
  BY <1>1 DEF Same, Outcome
<1>5. OutcomeOK(q)'
  BY <1>1, <1>3, <1>4 DEF FilesOK, OutcomeOK, Cause, Same
<1>6. ASSUME NEW i \in 1..N(q)  PROVE EntryOK(q, i)'
  <2>1. Mine(q, i)' => /\ Mine(q, i) /\ AtBefore(q, i)' = AtBefore(q, i)
                       /\ AtAfter(q, i)' = AtAfter(q, i)
    BY <1>1, <1>3 DEF Mine, AtBefore, AtAfter, Same
  <2>2. Undone(q, i)' = Undone(q, i)
    BY <1>1 DEF Undone, Same
  <2> QED BY <1>1, <1>4, <2>1, <2>2 DEF FilesOK, EntryOK, Same
<1> QED BY <1>5, <1>6 DEF FilesOK

\* Other programs take their files out of the broker's hands; crash and restart promise
\* nothing.
LEMMA FilesEnvironment ==
  ASSUME TypeInv, NEW r \in Requests, FilesOK(r),
         \/ \E p \in Paths, c \in EditContents : EditFile(p, c)
         \/ Crash \/ OpenStore \/ OpenDone \/ RootVanishes \/ RootReturns \/ Finished
         \/ UNCHANGED vars
  PROVE  FilesOK(r)'
<1>1. TypeOK
  BY DEF TypeInv
<1>2. ASSUME NEW p \in Paths, NEW c \in EditContents, EditFile(p, c)  PROVE FilesOK(r)'
  <2>1. /\ UNCHANGED <<pc, idx, goal, active, jstate, estate, before, unread>>
        /\ disk' = [disk EXCEPT ![p] = c] /\ mark'[p] # "own"
        /\ \A q \in Paths \ {p} : mark'[q] = mark[q]
    BY <1>1, <1>2 DEF EditFile, control, lease, journal, TypeOK
  <2>2. Outcome(r)' = Outcome(r)
    BY <2>1 DEF Outcome
  <2>3. OutcomeOK(r)'
    <3>1. ASSUME NEW i \in 1..N(r), Cause(r, i)  PROVE Cause(r, i)'
      BY <2>1, <3>1, PlanPath DEF Cause
    <3> QED BY <2>1, <2>2, <3>1 DEF FilesOK, OutcomeOK
  <2>4. ASSUME NEW i \in 1..N(r)  PROVE EntryOK(r, i)'
    <3>1. Mine(r, i)' => Mine(r, i) /\ disk'[Plan[r][i].path] = disk[Plan[r][i].path]
      BY <1>1, <2>1, PlanPath DEF Mine, TypeOK
    <3> QED BY <2>1, <2>2, <3>1 DEF FilesOK, EntryOK, AtBefore, AtAfter, Undone
  <2> QED BY <2>3, <2>4 DEF FilesOK
<1>3. CASE Crash
  <2>1. /\ UNCHANGED <<disk, mark, active, jstate, estate, before, unread>>
        /\ pc'[r] \in {"start", "done"}
    BY <1>3 DEF Crash, tree, lease, journal
  <2>2. (Outcome(r)' = "NONE" \/ Outcome(r)' = Outcome(r)) /\ pc'[r] \notin UndoPC
    BY <2>1 DEF Outcome, UndoPC
  <2> QED BY <2>1, <2>2, FilesMove DEF UndoPC
<1>4. CASE OpenStore \/ OpenDone \/ RootVanishes \/ RootReturns \/ Finished \/ UNCHANGED vars
  <2>1. /\ UNCHANGED <<disk, mark, pc, idx, goal, jstate, estate, before, unread>>
        /\ active' = r => active = r
    BY <1>4, PlanAssumption
       DEF OpenStore, OpenDone, RootVanishes, RootReturns, Finished, vars, tree, control, journal,
           lease, history
  <2>2. Outcome(r)' = Outcome(r)
    BY <2>1 DEF Outcome
  <2> QED BY <2>1, <2>2 DEF FilesOK, OutcomeOK, Cause, EntryOK, Mine, AtBefore, AtAfter, Undone
<1> QED BY <1>2, <1>3, <1>4

\* The root only goes where it may vanish.
LEMMA RootStays ==
  ASSUME RestoresWork, rootThere, [Next]_vars  PROVE rootThere'
<1>1. ~RootVanishes /\ (RootReturns => rootThere')
  BY DEF RestoresWork, RootVanishes, RootReturns
<1>2. ASSUME NEW r \in Requests, LiveStep(r) \/ UndoStep(r) \/ RecoverStep(r)
      PROVE  rootThere' = rootThere
  BY <1>2
     DEF LiveStep, UndoStep, RecoverStep, ConsumeNonce, ConsumeGrant, BeginJournal, Stage, Abandon,
         PrepareEntry, PrepareFails, SetPrepared, Recheck, CommitCheck, CommitMutate, CommitFails,
         CommitRecord, SetVerifying, VerifyMatches, VerifyFails, RollbackSkip, RollbackSettle,
         RollbackCheck, RollbackRestore, RollbackRecord, RollbackFails, RollbackDone, Settle,
         DropLease, RecoverStale, RecoverCommitting, RecoverVerifying, RecoverRollingBack,
         ForwardCheck, ForwardApply, ForwardFails, ForwardRecord, ForwardDone, Reverify, Write, tree
<1>3. ASSUME \/ \E p \in Paths, c \in EditContents : EditFile(p, c)
             \/ Crash \/ OpenStore \/ OpenDone \/ Finished \/ UNCHANGED vars
      PROVE  rootThere' = rootThere
  BY <1>3 DEF EditFile, Crash, OpenStore, OpenDone, Finished, vars, tree
<1> QED BY <1>1, <1>2, <1>3 DEF Next

\* Every step keeps the files up with the rows.
LEMMA TreeStep ==
  ASSUME DistinctPaths, TypeInv, LeaseInv, StageInv, TreeInv, [Next]_vars
  PROVE  TreeInv'
<1>1. (RestoresWork => rootThere) /\ \A r \in Requests : FilesOK(r)
  BY DEF TreeInv, FilesOK
<1>2. ASSUME NEW r \in Requests, LiveStep(r) \/ UndoStep(r) \/ RecoverStep(r), NEW q \in Requests
      PROVE  FilesOK(q)'
  <2>1. CASE q = r
    BY <1>1, <1>2, <2>1, FilesLive, FilesUndo, FilesRecover
  <2>2. CASE q # r
    BY <1>1, <1>2, <2>2, FilesOthers
  <2> QED BY <2>1, <2>2
<1>3. \A q \in Requests : FilesOK(q)'
  BY <1>1, <1>2, FilesEnvironment DEF Next
<1>4. RestoresWork => rootThere'
  BY <1>1, RootStays
<1> QED BY <1>3, <1>4 DEF TreeInv, FilesOK

\* The files always fit the rows, the rollback and the outcome.
LEMMA TreeInvariant == DistinctPaths => (Spec => [](TypeInv /\ LeaseInv /\ StageInv /\ TreeInv))
<1> SUFFICES ASSUME DistinctPaths  PROVE Spec => [](TypeInv /\ LeaseInv /\ StageInv /\ TreeInv)
  OBVIOUS
<1>1. Init => TreeInv
  <2> SUFFICES ASSUME Init  PROVE TreeInv
    OBVIOUS
  <2>1. rootThere /\ active = NoRequest
    BY DEF Init
  <2>2. ASSUME NEW r \in Requests  PROVE OutcomeOK(r) /\ \A i \in 1..N(r) : EntryOK(r, i)
    <3>1. active # r /\ pc[r] \notin UndoPC /\ \A i \in 1..N(r) : estate[r][i] = "NONE"
      BY PlanAssumption, PlanLength DEF Init, UndoPC
    <3> QED BY <3>1 DEF OutcomeOK, EntryOK, Mine
  <2> QED BY <2>1, <2>2 DEF TreeInv
<1>2. TypeInv /\ LeaseInv /\ StageInv /\ TreeInv /\ [Next]_vars => TreeInv'
  BY TreeStep
<1> QED BY <1>1, <1>2, StageInvariant, PTL DEF Spec

\* The manual-recovery lockout is never the broker's own doing, whatever crashes, faults and
\* missing roots happened on the way, as long as a change set names each path once: another
\* program wrote one of the files, or recovery, about to roll forward, could not read the
\* file of a REPLACE or a CREATE.
THEOREM PromotionManualHasCause == DistinctPaths => (Spec => []ManualHasCause)
<1>1. TreeInv => ManualHasCause
  <2> SUFFICES ASSUME TreeInv, NEW r \in Requests, Settled(r),
                      jstate[r] = "MANUAL_RECOVERY_REQUIRED"
               PROVE  \E i \in 1..N(r) : Cause(r, i)
    BY DEF ManualHasCause, Cause
  <2>1. active = r /\ Outcome(r) = "MANUAL_RECOVERY_REQUIRED"
    BY DEF Settled, Outcome
  <2> QED BY <2>1 DEF TreeInv, OutcomeOK
<1> QED BY <1>1, TreeInvariant, PTL

\* No mixed tree under a receipt: as long as a change set names each path once, no restore
\* fails and the root is there on open, a COMMITTED receipt means the new bytes everywhere
\* and a STALE or ROLLED_BACK one the captured bytes, up to what others wrote since.
THEOREM PromotionReceiptTrue == DistinctPaths /\ RestoresWork => (Spec => []ReceiptTellsTree)
<1> SUFFICES ASSUME DistinctPaths, RestoresWork  PROVE Spec => []ReceiptTellsTree
  OBVIOUS
<1>1. TreeInv => ReceiptTellsTree
  <2> SUFFICES ASSUME TreeInv, NEW r \in Requests, Settled(r), NEW i \in 1..N(r),
                      mark[Plan[r][i].path] = "own"
               PROVE  /\ jstate[r] = "COMMITTED" => AtAfter(r, i)
                      /\ jstate[r] \in {"STALE", "ROLLED_BACK"} =>
                           estate[r][i] = "NONE" \/ AtBefore(r, i)
    BY DEF ReceiptTellsTree, AtAfter, AtBefore
  <2>1. Mine(r, i) /\ Outcome(r) = jstate[r]
    BY DEF Settled, Outcome, Mine
  <2> QED BY <2>1 DEF TreeInv, EntryOK
<1> QED BY <1>1, TreeInvariant, PTL
==============================================================================
