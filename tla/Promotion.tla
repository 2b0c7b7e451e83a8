------------------------------ MODULE Promotion ------------------------------
(***************************************************************************)
(* The Windows broker's journaled workspace promotion                      *)
(* (native/runner/src/promotion) for one registered workspace.             *)
(*                                                                         *)
(* A request is one call of apply_promotion.  The broker consumes the      *)
(* decision nonce and the grant, takes the workspace lease by opening a    *)
(* journal, captures and stages every entry of the change set, mutates the *)
(* entries one by one and settles the journal with a signed receipt before *)
(* it drops the lease.  It may crash between any two durable effects; the  *)
(* next LocalStore::open reconciles the journal.  Other programs edit the  *)
(* workspace at any time, except files on which the broker holds a         *)
(* deny-write handle.                                                      *)
(*                                                                         *)
(* A file's content is one model value; metadata, staging files and the    *)
(* rollback CAS (written before the entry row that names them) are left    *)
(* out.  Every step below is one durable effect or one read of the disk,   *)
(* so that Crash and EditFile fall between any two of them.                *)
(***************************************************************************)
EXTENDS Naturals, Sequences

CONSTANTS
  Requests,         \* calls of apply_promotion
  Grants,           \* one-use promotion grants (each has one decision nonce)
  GrantOf,          \* [Requests -> Grants]: a duplicated call carries the same grant
  Paths,            \* files of the workspace
  Contents,         \* file contents
  NoFile,           \* the content of a path where no file is
  Base,             \* [Paths -> Contents \cup {NoFile}]: the approved base snapshot
  Plan,             \* [Requests -> Seq(entry)]: ordered entries of the change set
  EditContents,     \* what other programs write (NoFile: they delete)
  NoRequest,        \* "no active journal"
  MaxCrashes,       \* bound on Crash
  MaxEdits,         \* bound on EditFile
  MaxFaults,        \* bound on failing file system calls
  RollbackMayFail,  \* TRUE: restoring an entry may fail with an I/O error
  RootMayVanish     \* TRUE: the root may be missing while the broker is down

FileState == Contents \cup {NoFile}
EntryKind == {"REPLACE", "CREATE", "DELETE"}
Entry     == [kind : EntryKind, path : Paths, after : FileState]

ASSUME PlanAssumption ==
  /\ NoFile \notin Contents
  /\ NoRequest \notin Requests
  /\ GrantOf \in [Requests -> Grants]
  /\ Base \in [Paths -> FileState]
  /\ EditContents \subseteq FileState
  /\ Plan \in [Requests -> Seq(Entry)]
  /\ \A r \in Requests : \A i \in 1..Len(Plan[r]) :
       (Plan[r][i].kind = "DELETE") <=> (Plan[r][i].after = NoFile)

ASSUME BoundAssumption ==
  /\ MaxCrashes \in Nat /\ MaxEdits \in Nat /\ MaxFaults \in Nat
  /\ RollbackMayFail \in BOOLEAN /\ RootMayVanish \in BOOLEAN

VARIABLES
  disk,       \* [Paths -> FileState]: the workspace
  mark,       \* who wrote each path last: the broker (or captured), another
              \* program, another program between the broker's check and write
  rootThere,  \* the workspace root exists
  mode,       \* the broker process: "down", "recovering" (open), "up"
  recovery,   \* registered_workspaces.recovery_state
  active,     \* registered_workspaces.active_journal_id
  nonces,     \* decision nonces consumed (trusted_ui_sessions DECIDED)
  grants,     \* grants consumed (broker_metadata grant-consumed rows)
  jstate,     \* promotion_journals.state of each request's journal
  estate,     \* promotion_entries.entry_state
  before,     \* promotion_entries.expected_before_digest
  pc,         \* where the call, or the reconciliation of its journal, is
  idx,        \* the entry its loop is at
  goal,       \* the outcome it will settle with
  held,       \* entries whose deny-write handle the call holds
  unread,     \* entries that recovery, at its last look before rolling forward, could not
              \* read although their file was there
  crashes, edits, faults

tree    == <<disk, mark, rootThere>>
ledger  == <<nonces, grants>>
lease   == <<recovery, active>>
journal == <<jstate, estate, before>>
control == <<pc, idx, goal, held>>
history == <<crashes, edits, faults, unread>>
vars    == <<tree, mode, lease, ledger, journal, control, history>>

Nonterminal == {"PREPARING", "PREPARED", "COMMITTING", "VERIFYING", "ROLLING_BACK"}
Terminal    == {"COMMITTED", "ROLLED_BACK", "STALE", "MANUAL_RECOVERY_REQUIRED"}
EntryState  == {"NONE", "STAGED", "APPLIED", "ROLLED_BACK", "EXTERNAL_CONFLICT"}
Idle        == {"start", "done"}      \* not called yet, returned
LivePC      == {"start", "nonce", "granted", "staging", "preparing", "prepared",
                "committing", "mutating", "recording", "verifying"}
ForwardPC   == {"forward", "reapplying", "rerecording", "reverifying"}
UndoPC      == {"rolling", "restoring", "restored"}
FinishPC    == {"settling", "dropping", "done"}
Slots       == UNION {1..Len(Plan[r]) : r \in Requests}

N(r)       == Len(Plan[r])
Target(r)  == Plan[r][idx[r]].path
Current(r) == disk[Target(r)]
BeforeOf(r) == before[r][idx[r]]
AfterOf(r) == Plan[r][idx[r]].after
KindOf(r)  == Plan[r][idx[r]].kind

Init ==
  /\ disk = Base /\ mark = [p \in Paths |-> "own"] /\ rootThere = TRUE
  /\ mode = "up" /\ recovery = "READY" /\ active = NoRequest
  /\ nonces = {} /\ grants = {}
  /\ jstate = [r \in Requests |-> "NONE"]
  /\ estate = [r \in Requests |-> [i \in Slots |-> "NONE"]]
  /\ before = [r \in Requests |-> [i \in Slots |-> NoFile]]
  /\ pc = [r \in Requests |-> "start"]
  /\ idx = [r \in Requests |-> 0]
  /\ goal = [r \in Requests |-> "NONE"]
  /\ held = [r \in Requests |-> {}]
  /\ unread = [r \in Requests |-> {}]
  /\ crashes = 0 /\ edits = 0 /\ faults = 0

----------------------------------------------------------------------------
(* Control: moving a call (or the reconciliation of its journal).          *)

Goto(r, l)    == pc' = [pc EXCEPT ![r] = l]
At(r, i)      == idx' = [idx EXCEPT ![r] = i]
Journal(r, s) == jstate' = [jstate EXCEPT ![r] = s]
Mark(r, s)    == estate' = [estate EXCEPT ![r][idx[r]] = s]
Aim(r, o)     == goal' = [goal EXCEPT ![r] = o]

\* A file system call of the broker fails (sharing violation, full disk, ...).
Fault == faults < MaxFaults /\ faults' = faults + 1 /\ UNCHANGED <<crashes, edits, unread>>

\* The broker writes content c to the entry's path.
Write(r, c) ==
  /\ disk' = [disk EXCEPT ![Target(r)] = c]
  /\ mark' = [mark EXCEPT ![Target(r)] = "own"]
  /\ UNCHANGED rootThere

----------------------------------------------------------------------------
(* apply_promotion, up to the opened journal.                              *)

UnspentAlways(used, g) == TRUE   \* mutant: a consumed grant passes again

Unspent(used, g) == g \notin used

\* verify_grant: envelopes and presence are checked outside the model; a nonce
\* that is not CREATED or DISPLAYED is Replay and ends the call.
ConsumeNonce(r) ==
  /\ mode = "up" /\ pc[r] = "start"
  /\ IF Unspent(nonces, GrantOf[r])
     THEN nonces' = nonces \cup {GrantOf[r]} /\ Goto(r, "nonce")
     ELSE Goto(r, "done") /\ UNCHANGED nonces
  /\ UNCHANGED <<tree, mode, lease, grants, journal, idx, goal, held, history>>

\* consume_grant inserts a unique row, or ends the call with GrantConsumed.
ConsumeGrant(r) ==
  /\ pc[r] = "nonce"
  /\ IF Unspent(grants, GrantOf[r])
     THEN grants' = grants \cup {GrantOf[r]} /\ Goto(r, "granted")
     ELSE Goto(r, "done") /\ UNCHANGED grants
  /\ UNCHANGED <<tree, mode, lease, nonces, journal, idx, goal, held, history>>

LeaseFreeAlways == TRUE          \* mutant: the UPDATE forgets recovery_state = 'READY'

LeaseFree == recovery = "READY"

\* begin_journal: lease and journal row in one transaction, or Conflict.  A
\* missing root (open_reparse_handle) ends the call before it.
BeginJournal(r) ==
  /\ pc[r] = "granted"
  /\ IF rootThere /\ LeaseFree
     THEN /\ recovery' = "RECONCILING" /\ active' = r
          /\ Journal(r, "PREPARING") /\ Goto(r, "staging")
     ELSE /\ Goto(r, "done") /\ UNCHANGED <<lease, jstate>>
  /\ UNCHANGED <<tree, mode, ledger, estate, before, idx, goal, held, history>>

\* store_apply_context and the staging directory.
Stage(r) ==
  /\ pc[r] = "staging"
  /\ Goto(r, "preparing") /\ At(r, 1)
  /\ UNCHANGED <<tree, mode, lease, ledger, journal, goal, held, history>>

\* An error that `?' returns to the caller, in the staging directory or in a
\* write to the store: the journal and the lease are left to the next open.
Abandon(r) ==
  /\ mode = "up"
  /\ \/ pc[r] \in {"staging", "prepared", "settling", "dropping"}
     \/ pc[r] \in {"preparing", "committing"} /\ idx[r] > N(r)
  /\ Fault /\ Goto(r, "done") /\ held' = [held EXCEPT ![r] = {}]
  /\ UNCHANGED <<tree, mode, lease, ledger, journal, idx, goal>>

----------------------------------------------------------------------------
(* prepare_entries and the recheck of every precondition.                  *)

KindFits(r) == (KindOf(r) = "CREATE") <=> (Current(r) = NoFile)

\* Capture the existing file under a deny-write handle, save its bytes for
\* rollback, stage the new bytes and insert the entry row.
PrepareEntry(r) ==
  /\ pc[r] = "preparing" /\ idx[r] \in 1..N(r)
  /\ KindFits(r)
  /\ before' = [before EXCEPT ![r][idx[r]] = Current(r)]
  /\ Mark(r, "STAGED")
  /\ mark' = [mark EXCEPT ![Target(r)] = "own"]
  /\ held' = [held EXCEPT ![r] = IF Current(r) = NoFile THEN @ ELSE @ \cup {idx[r]}]
  /\ At(r, idx[r] + 1)
  /\ UNCHANGED <<disk, rootThere, mode, lease, ledger, jstate, pc, goal, history>>

\* The kind does not fit what is on disk, or a call failed: the handles are
\* dropped, then finish_stale.
PrepareFails(r) ==
  /\ pc[r] = "preparing" /\ idx[r] \in 1..N(r)
  /\ \/ ~KindFits(r) /\ UNCHANGED history
     \/ Fault
  /\ Aim(r, "STALE") /\ Goto(r, "settling") /\ held' = [held EXCEPT ![r] = {}]
  /\ UNCHANGED <<tree, mode, lease, ledger, journal, idx>>

SetPrepared(r) ==
  /\ pc[r] = "preparing" /\ idx[r] > N(r)
  /\ Journal(r, "PREPARED") /\ Goto(r, "prepared")
  /\ UNCHANGED <<tree, mode, lease, ledger, estate, before, idx, goal, held, history>>

\* reccheck_precondition of entry i.
Precondition(r, i) ==
  IF Plan[r][i].kind = "CREATE"
  THEN disk[Plan[r][i].path] = NoFile
  ELSE disk[Plan[r][i].path] = before[r][i] /\ before[r][i] # NoFile

\* mutant: files are touched before COMMITTING is durable
RecheckNoIntent(r) ==
  /\ pc[r] = "prepared"
  /\ IF \A i \in 1..N(r) : Precondition(r, i)
     THEN Goto(r, "committing") /\ At(r, 1) /\ UNCHANGED goal
     ELSE Aim(r, "STALE") /\ Goto(r, "settling") /\ UNCHANGED idx
  /\ UNCHANGED <<tree, mode, lease, ledger, journal, held, history>>

\* Drift before the first mutation, of contents or of metadata, is STALE, and so
\* is a file that cannot be read; otherwise COMMITTING is durable before any
\* file is touched.
Recheck(r) ==
  /\ pc[r] = "prepared"
  /\ \/ /\ \A i \in 1..N(r) : Precondition(r, i)
        /\ Journal(r, "COMMITTING") /\ Goto(r, "committing") /\ At(r, 1) /\ UNCHANGED goal
     \/ Aim(r, "STALE") /\ Goto(r, "settling") /\ UNCHANGED <<jstate, idx>>
  /\ UNCHANGED <<tree, mode, lease, ledger, estate, before, held, history>>

----------------------------------------------------------------------------
(* rollback_journal: start undoing, newest entry first.                    *)

\* mutant: the last entry of the plan is not visited
BeginRollbackShort(r, outcome) ==
  /\ Journal(r, "ROLLING_BACK")
  /\ Goto(r, "rolling") /\ At(r, N(r) - 1) /\ Aim(r, outcome)

BeginRollback(r, outcome) ==
  /\ Journal(r, "ROLLING_BACK")
  /\ Goto(r, "rolling") /\ At(r, N(r)) /\ Aim(r, outcome)

----------------------------------------------------------------------------
(* commit_entries.                                                         *)

\* Recheck the entry's precondition, its metadata included, and drop its handle.
CommitCheck(r) ==
  /\ pc[r] = "committing" /\ idx[r] \in 1..N(r)
  /\ \/ /\ Precondition(r, idx[r])
        /\ Goto(r, "mutating") /\ held' = [held EXCEPT ![r] = @ \ {idx[r]}]
        /\ UNCHANGED <<jstate, idx, goal>>
     \/ BeginRollback(r, "ROLLED_BACK") /\ UNCHANGED held
  /\ UNCHANGED <<tree, mode, lease, ledger, estate, before, history>>

\* atomic_replace overwrites what is there; atomic_rename needs a free name
\* and delete_path an existing file.
MutationFits(r) ==
  \/ KindOf(r) = "REPLACE"
  \/ KindOf(r) = "CREATE" /\ Current(r) = NoFile
  \/ KindOf(r) = "DELETE" /\ Current(r) # NoFile

CommitMutate(r) ==
  /\ pc[r] = "mutating" /\ MutationFits(r)
  /\ Write(r, AfterOf(r)) /\ Goto(r, "recording")
  /\ UNCHANGED <<mode, lease, ledger, journal, idx, goal, held, history>>

\* The call fails before the move took effect or after it (fsync, the row's
\* update): roll back.
CommitFails(r) ==
  /\ \/ pc[r] = "mutating" /\ ~MutationFits(r) /\ UNCHANGED history
     \/ pc[r] \in {"mutating", "recording"} /\ Fault
  /\ BeginRollback(r, "ROLLED_BACK")
  /\ UNCHANGED <<tree, mode, lease, ledger, estate, before, held>>

CommitRecord(r) ==
  /\ pc[r] = "recording"
  /\ Mark(r, "APPLIED") /\ Goto(r, "committing") /\ At(r, idx[r] + 1)
  /\ UNCHANGED <<tree, mode, lease, ledger, jstate, before, goal, held, history>>

SetVerifying(r) ==
  /\ pc[r] = "committing" /\ idx[r] > N(r)
  /\ Journal(r, "VERIFYING") /\ Goto(r, "verifying")
  /\ UNCHANGED <<tree, mode, lease, ledger, estate, before, idx, goal, held, history>>

----------------------------------------------------------------------------
(* verify_result.                                                          *)

\* The tree the candidate manifest describes: the base with the entries' results.
Expected(r) ==
  [p \in Paths |->
     IF \E i \in 1..N(r) : Plan[r][i].path = p
     THEN Plan[r][CHOOSE i \in 1..N(r) : Plan[r][i].path = p].after
     ELSE Base[p]]

\* workspace_snapshot_root can equal the expected digest only on this tree.
SnapshotMatches(r) == disk = Expected(r)

\* Entries and snapshot match: the receipt will say COMMITTED.
VerifyMatches(r) ==
  /\ pc[r] = "verifying" /\ SnapshotMatches(r)
  /\ Aim(r, "COMMITTED") /\ Goto(r, "settling")
  /\ UNCHANGED <<tree, mode, lease, ledger, journal, idx, held, history>>

\* A mismatch rolls back to STALE.  The snapshot digest also covers file
\* identities and descriptors, so equal contents may still not match.
VerifyFails(r) ==
  /\ pc[r] = "verifying"
  /\ BeginRollback(r, "STALE")
  /\ UNCHANGED <<tree, mode, lease, ledger, estate, before, held, history>>

----------------------------------------------------------------------------
(* rollback_applied and rollback_one, in a live call and in recovery.      *)

Undo(r) == pc[r] = "rolling" /\ idx[r] \in 1..N(r)

\* Already undone in an earlier pass.
RollbackSkip(r) ==
  /\ Undo(r) /\ estate[r][idx[r]] = "ROLLED_BACK"
  /\ At(r, idx[r] - 1)
  /\ UNCHANGED <<tree, mode, lease, ledger, journal, pc, goal, held, history>>

\* mutant: whatever is on disk is taken for the transaction's own bytes
OwnsAnything(r) == Current(r) # BeforeOf(r)

\* The bytes on disk are the transaction's own.
OwnsCurrent(r) == Current(r) # BeforeOf(r) /\ Current(r) = AfterOf(r)

\* Nothing to restore: the path holds its old bytes, or someone else's.
RollbackSettle(r) ==
  /\ Undo(r) /\ estate[r][idx[r]] # "ROLLED_BACK" /\ ~OwnsCurrent(r)
  /\ Mark(r, IF Current(r) = BeforeOf(r) THEN "ROLLED_BACK" ELSE "EXTERNAL_CONFLICT")
  /\ At(r, idx[r] - 1)
  /\ UNCHANGED <<tree, mode, lease, ledger, jstate, before, pc, goal, held, history>>

RollbackCheck(r) ==
  /\ Undo(r) /\ estate[r][idx[r]] # "ROLLED_BACK" /\ OwnsCurrent(r)
  /\ Goto(r, "restoring")
  /\ UNCHANGED <<tree, mode, lease, ledger, journal, idx, goal, held, history>>

\* CREATE: delete the new file; otherwise put the saved bytes back.
RollbackRestore(r) ==
  /\ pc[r] = "restoring"
  /\ Write(r, BeforeOf(r)) /\ Goto(r, "restored")
  /\ UNCHANGED <<mode, lease, ledger, journal, idx, goal, held, history>>

RollbackRecord(r) ==
  /\ pc[r] = "restored"
  /\ Mark(r, "ROLLED_BACK") /\ Goto(r, "rolling") /\ At(r, idx[r] - 1)
  /\ UNCHANGED <<tree, mode, lease, ledger, jstate, before, goal, held, history>>

\* Restoring fails for a reason other than an external conflict: a live call
\* settles STALE (finish_stale) with the lease READY.  In recovery the error
\* fails the open, which is Crash.
RollbackFails(r) ==
  /\ RollbackMayFail /\ mode = "up"
  /\ Undo(r) \/ pc[r] \in {"restoring", "restored"}
  /\ Fault /\ Aim(r, "STALE") /\ Goto(r, "settling")
  /\ UNCHANGED <<tree, mode, lease, ledger, journal, idx, held>>

RollbackOutcome(r) ==
  IF \E i \in 1..N(r) : estate[r][i] = "EXTERNAL_CONFLICT"
  THEN "MANUAL_RECOVERY_REQUIRED" ELSE goal[r]

RollbackDone(r) ==
  /\ pc[r] = "rolling" /\ idx[r] = 0
  /\ Aim(r, RollbackOutcome(r)) /\ Goto(r, "settling")
  /\ UNCHANGED <<tree, mode, lease, ledger, journal, idx, held, history>>

----------------------------------------------------------------------------
(* persist_receipt / persist_terminal, then drop_lease.                    *)

ReleasedStateRaw(s) == s         \* mutant: the outcome itself is stored

ReleasedState(s) == IF s = "MANUAL_RECOVERY_REQUIRED" THEN s ELSE "READY"

\* mutant: the lease is dropped together with the receipt's preparation
SettleDropsFirst(r) ==
  /\ pc[r] = "settling"
  /\ recovery' = ReleasedState(goal[r]) /\ active' = NoRequest
  /\ Goto(r, "dropping")
  /\ UNCHANGED <<tree, mode, ledger, journal, idx, goal, held, history>>

\* The receipt is durable: the journal is terminal.
Settle(r) ==
  /\ pc[r] = "settling"
  /\ Journal(r, goal[r]) /\ Goto(r, "dropping")
  /\ UNCHANGED <<tree, mode, lease, ledger, estate, before, idx, goal, held, history>>

DropLease(r) ==
  /\ pc[r] = "dropping"
  /\ recovery' = ReleasedState(goal[r]) /\ active' = NoRequest
  /\ Goto(r, "done") /\ held' = [held EXCEPT ![r] = {}]
  /\ UNCHANGED <<tree, mode, ledger, journal, idx, goal, history>>

----------------------------------------------------------------------------
(* Crash, other programs, and LocalStore::open.                            *)

\* The process dies, or a reconciliation error fails the open.
Crash ==
  /\ mode # "down" /\ crashes < MaxCrashes
  /\ crashes' = crashes + 1 /\ mode' = "down"
  /\ pc' = [r \in Requests |-> IF pc[r] = "start" THEN "start" ELSE "done"]
  /\ idx' = [r \in Requests |-> 0]
  /\ goal' = [r \in Requests |-> "NONE"]
  /\ held' = [r \in Requests |-> {}]
  /\ UNCHANGED <<tree, lease, ledger, journal, edits, faults, unread>>

Held(p) == \E r \in Requests : \E i \in held[r] : Plan[r][i].path = p

\* Between the broker's last look at a path and its write to it.
InWindow(p) ==
  \E r \in Requests : pc[r] \in {"mutating", "restoring", "reapplying"} /\ Target(r) = p

\* Another program writes or deletes a file that no deny-write handle protects.
EditFile(p, c) ==
  /\ edits < MaxEdits /\ edits' = edits + 1
  /\ rootThere /\ ~Held(p) /\ c # disk[p]
  /\ disk' = [disk EXCEPT ![p] = c]
  /\ mark' = [mark EXCEPT ![p] = IF InWindow(p) THEN "raced" ELSE "edit"]
  /\ UNCHANGED <<rootThere, mode, lease, ledger, journal, control, crashes, faults, unread>>

\* The workspace directory is moved or unmounted, and comes back.
RootVanishes ==
  /\ RootMayVanish /\ mode = "down" /\ rootThere /\ rootThere' = FALSE
  /\ UNCHANGED <<disk, mark, mode, lease, ledger, journal, control, history>>

RootReturns ==
  /\ mode # "recovering" /\ ~rootThere /\ rootThere' = TRUE
  /\ UNCHANGED <<disk, mark, mode, lease, ledger, journal, control, history>>

\* mutant: every workspace without an unfinished journal is set READY
OpenStoreUnlocks ==
  /\ mode = "down" /\ mode' = "recovering"
  /\ recovery' = IF \E r \in Requests : jstate[r] \in Nonterminal
                 THEN "RECONCILING" ELSE "READY"
  /\ UNCHANGED <<tree, active, ledger, journal, control, history>>

\* reconcile_on_open: workspaces with a nonterminal journal are RECONCILING.
OpenStore ==
  /\ mode = "down" /\ mode' = "recovering"
  /\ recovery' = IF \E r \in Requests : jstate[r] \in Nonterminal
                 THEN "RECONCILING" ELSE recovery
  /\ UNCHANGED <<tree, active, ledger, journal, control, history>>

\* No journal is being reconciled at the moment.
Quiet == mode = "recovering" /\ \A r \in Requests : pc[r] \in Idle

\* mutant: a lease whose journal already has its receipt is not released
OpenDoneKeepsLease ==
  /\ Quiet /\ \A r \in Requests : jstate[r] \notin Nonterminal
  /\ mode' = "up"
  /\ UNCHANGED <<tree, lease, ledger, journal, control, history>>

\* release_receipted_leases; the store is open.
OpenDone ==
  /\ Quiet /\ \A r \in Requests : jstate[r] \notin Nonterminal
  /\ IF active \in Requests
     THEN recovery' = ReleasedState(jstate[active]) /\ active' = NoRequest
     ELSE UNCHANGED lease
  /\ mode' = "up"
  /\ UNCHANGED <<tree, ledger, journal, control, history>>

----------------------------------------------------------------------------
(* reconcile_journal.                                                      *)

\* The reads of the existing files of the entries in u fail, if any is in it.
ReadsFail(r, u) ==
  /\ \A i \in u : estate[r][i] # "APPLIED" /\ disk[Plan[r][i].path] # NoFile
  /\ IF u = {} THEN UNCHANGED faults ELSE faults < MaxFaults /\ faults' = faults + 1
  /\ UNCHANGED <<crashes, edits>>

\* mutant: only the entry row says that an entry is done
ClassifyByRow(r, i, u) ==
  LET e == Plan[r][i]
      c == disk[e.path]
      pending == IF e.kind = "CREATE" THEN NoFile ELSE before[r][i]
  IN  IF estate[r][i] = "APPLIED" THEN "After"
      ELSE IF i \notin u /\ c = pending THEN "Pending" ELSE "Foreign"

\* classify_current: an APPLIED row counts as done whatever the disk holds, and
\* a file that cannot be read as a file of other bytes, or as one that is gone.
Classify(r, i, u) ==
  LET e == Plan[r][i]
      c == disk[e.path]
      pending == IF e.kind = "CREATE" THEN NoFile ELSE before[r][i]
  IN  IF i \in u THEN (IF e.kind = "DELETE" THEN "After" ELSE "Foreign")
      ELSE IF estate[r][i] = "APPLIED" \/ c = e.after THEN "After"
      ELSE IF c = pending THEN "Pending" ELSE "Foreign"

Recovering(r) == Quiet /\ jstate[r] \in Nonterminal

\* PREPARING, or no workspace root: nothing was (or can be) touched.
RecoverStale(r) ==
  /\ Recovering(r) /\ (~rootThere \/ jstate[r] = "PREPARING")
  /\ Aim(r, "STALE") /\ Goto(r, "settling")
  /\ UNCHANGED <<tree, mode, lease, ledger, journal, idx, held, history>>

\* recover_committing: roll forward unless some entry holds foreign bytes.
RecoverCommitting(r) ==
  /\ Recovering(r) /\ rootThere /\ jstate[r] \in {"PREPARED", "COMMITTING"}
  /\ \E u \in SUBSET (1..N(r)) :
       /\ ReadsFail(r, u) /\ unread' = [unread EXCEPT ![r] = u]
       /\ IF \E i \in 1..N(r) : Classify(r, i, u) = "Foreign"
          THEN Aim(r, "MANUAL_RECOVERY_REQUIRED") /\ Goto(r, "settling") /\ UNCHANGED <<jstate, idx>>
          ELSE Journal(r, "COMMITTING") /\ Goto(r, "forward") /\ At(r, 1) /\ UNCHANGED goal
  /\ UNCHANGED <<tree, mode, lease, ledger, estate, before, held>>

RecoverVerifying(r) ==
  /\ Recovering(r) /\ rootThere /\ jstate[r] = "VERIFYING"
  /\ Goto(r, "reverifying")
  /\ UNCHANGED <<tree, mode, lease, ledger, journal, idx, goal, held, history>>

RecoverRollingBack(r) ==
  /\ Recovering(r) /\ rootThere /\ jstate[r] = "ROLLING_BACK"
  /\ BeginRollback(r, "ROLLED_BACK")
  /\ UNCHANGED <<tree, mode, lease, ledger, estate, before, held, history>>

Forward(r) == pc[r] = "forward" /\ idx[r] \in 1..N(r)

\* roll_forward: skip, adopt what the crash left done, refuse foreign bytes, or
\* apply from the CAS.  Adopting restores metadata; onto the missing file of a
\* DELETE that fails, so the whole journal is rolled back instead.
ForwardCheck(r) ==
  /\ Forward(r)
  /\ \E u \in SUBSET {idx[r]} :
       LET done == estate[r][idx[r]] \in {"APPLIED", "ROLLED_BACK"}
           now  == Classify(r, idx[r], u)
       IN  /\ ReadsFail(r, u) /\ unread' = [unread EXCEPT ![r] = u]
           /\ \/ done /\ u = {} /\ At(r, idx[r] + 1) /\ UNCHANGED <<estate, jstate, pc, goal>>
              \/ /\ ~done /\ now = "After" /\ Current(r) # NoFile
                 /\ Mark(r, "APPLIED") /\ At(r, idx[r] + 1) /\ UNCHANGED <<jstate, pc, goal>>
              \/ /\ ~done /\ now = "After" /\ Current(r) = NoFile
                 /\ BeginRollback(r, "ROLLED_BACK") /\ UNCHANGED estate
              \/ /\ ~done /\ now = "Foreign"
                 /\ Aim(r, "MANUAL_RECOVERY_REQUIRED") /\ Goto(r, "settling")
                 /\ UNCHANGED <<estate, jstate, idx>>
              \/ /\ ~done /\ now = "Pending"
                 /\ Goto(r, "reapplying") /\ UNCHANGED <<estate, jstate, idx, goal>>
  /\ UNCHANGED <<tree, mode, lease, ledger, before, held>>

\* As in commit, but deleting a file that is gone is fine.
ReapplyFits(r) == KindOf(r) # "CREATE" \/ Current(r) = NoFile

ForwardApply(r) ==
  /\ pc[r] = "reapplying" /\ ReapplyFits(r)
  /\ Write(r, AfterOf(r)) /\ Goto(r, "rerecording")
  /\ UNCHANGED <<mode, lease, ledger, journal, idx, goal, held, history>>

ForwardFails(r) ==
  /\ \/ pc[r] = "reapplying" /\ ~ReapplyFits(r) /\ UNCHANGED history
     \/ pc[r] \in {"forward", "reapplying", "rerecording"} /\ Fault
  /\ BeginRollback(r, "ROLLED_BACK")
  /\ UNCHANGED <<tree, mode, lease, ledger, estate, before, held>>

ForwardRecord(r) ==
  /\ pc[r] = "rerecording"
  /\ Mark(r, "APPLIED") /\ Goto(r, "forward") /\ At(r, idx[r] + 1)
  /\ UNCHANGED <<tree, mode, lease, ledger, jstate, before, goal, held, history>>

ForwardDone(r) ==
  /\ pc[r] = "forward" /\ idx[r] > N(r)
  /\ Journal(r, "VERIFYING") /\ Goto(r, "reverifying")
  /\ UNCHANGED <<tree, mode, lease, ledger, estate, before, idx, goal, held, history>>

\* recover_verifying and terminal_committed, with the snapshot read again.  The
\* journal stays VERIFYING while its entries are rolled back.
Reverify(r) ==
  /\ pc[r] = "reverifying"
  /\ \E u \in SUBSET (1..N(r)) :
       LET allAfter == \A i \in 1..N(r) : Classify(r, i, u) = "After"
       IN  /\ ReadsFail(r, u)
           /\ \/ /\ allAfter /\ SnapshotMatches(r)
                 /\ Aim(r, "COMMITTED") /\ Goto(r, "settling") /\ UNCHANGED idx
              \/ /\ Aim(r, IF allAfter THEN "STALE" ELSE "ROLLED_BACK")
                 /\ Goto(r, "rolling") /\ At(r, N(r))
  /\ UNCHANGED <<tree, mode, lease, ledger, journal, held, unread>>

----------------------------------------------------------------------------

LiveStep(r) ==
  \/ ConsumeNonce(r) \/ ConsumeGrant(r) \/ BeginJournal(r) \/ Stage(r)
  \/ Abandon(r)
  \/ PrepareEntry(r) \/ PrepareFails(r) \/ SetPrepared(r) \/ Recheck(r)
  \/ CommitCheck(r) \/ CommitMutate(r) \/ CommitFails(r) \/ CommitRecord(r)
  \/ SetVerifying(r) \/ VerifyMatches(r) \/ VerifyFails(r)

UndoStep(r) ==
  \/ RollbackSkip(r) \/ RollbackSettle(r) \/ RollbackCheck(r) \/ RollbackRestore(r)
  \/ RollbackRecord(r) \/ RollbackFails(r) \/ RollbackDone(r)
  \/ Settle(r) \/ DropLease(r)

RecoverStep(r) ==
  \/ RecoverStale(r) \/ RecoverCommitting(r) \/ RecoverVerifying(r) \/ RecoverRollingBack(r)
  \/ ForwardCheck(r) \/ ForwardApply(r) \/ ForwardFails(r) \/ ForwardRecord(r)
  \/ ForwardDone(r) \/ Reverify(r)

\* Every call has returned and the store is open: nothing is left to do.
Finished == mode = "up" /\ (\A r \in Requests : pc[r] = "done") /\ UNCHANGED vars

Next ==
  \/ \E r \in Requests : LiveStep(r) \/ UndoStep(r) \/ RecoverStep(r)
  \/ \E p \in Paths, c \in EditContents : EditFile(p, c)
  \/ Crash \/ OpenStore \/ OpenDone \/ RootVanishes \/ RootReturns
  \/ Finished

Spec == Init /\ [][Next]_vars

\* A running call proceeds, and a broker that is down is opened again and
\* reconciles: both are straight-line code without waiting.
Fairness ==
  /\ \A r \in Requests : WF_vars(LiveStep(r) \/ UndoStep(r) \/ RecoverStep(r))
  /\ WF_vars(OpenStore) /\ WF_vars(OpenDone)

FairSpec == Spec /\ Fairness

----------------------------------------------------------------------------

TypeOK ==
  /\ disk \in [Paths -> FileState]
  /\ mark \in [Paths -> {"own", "edit", "raced"}]
  /\ rootThere \in BOOLEAN
  /\ mode \in {"down", "recovering", "up"}
  /\ recovery \in {"READY", "RECONCILING", "MANUAL_RECOVERY_REQUIRED"}
  /\ active \in Requests \cup {NoRequest}
  /\ nonces \subseteq Grants /\ grants \subseteq Grants
  /\ jstate \in [Requests -> {"NONE"} \cup Nonterminal \cup Terminal]
  /\ estate \in [Requests -> [Slots -> EntryState]]
  /\ before \in [Requests -> [Slots -> FileState]]
  /\ pc \in [Requests -> LivePC \cup ForwardPC \cup UndoPC \cup FinishPC]
  /\ idx \in [Requests -> Nat]
  /\ goal \in [Requests -> {"NONE"} \cup Terminal]
  /\ held \in [Requests -> SUBSET Slots] /\ unread \in [Requests -> SUBSET Slots]
  /\ crashes \in 0..MaxCrashes /\ edits \in 0..MaxEdits /\ faults \in 0..MaxFaults

----------------------------------------------------------------------------
(* Properties.                                                             *)

\* The lease protects the journal: an unfinished journal is the workspace's
\* active one and the workspace is RECONCILING, so no second promotion can
\* start (begin_journal) and no lease is dropped before its receipt is
\* durable (persist_receipt before drop_lease), across crashes and reopens.
LeaseCoversJournal ==
  \A r \in Requests : jstate[r] \in Nonterminal => active = r /\ recovery = "RECONCILING"

\* A grant opens at most one journal, also when a duplicated call races the
\* first one or follows a crash between the nonce and the grant
\* (consume_trusted_nonce, consume_grant).
OneJournalPerGrant ==
  \A r, s \in Requests :
    r # s /\ GrantOf[r] = GrantOf[s] => jstate[r] = "NONE" \/ jstate[s] = "NONE"

\* The receipt is durable and the lease not yet dropped.
Settled(r) == active = r /\ jstate[r] \in Terminal

\* No mixed tree: a COMMITTED receipt means every entry's path holds the
\* candidate's bytes, a STALE or ROLLED_BACK one that every captured path holds
\* the captured bytes, except where another program wrote since
\* (rollback_applied, roll_forward, recover_verifying).
ReceiptTellsTree ==
  \A r \in Requests : Settled(r) =>
    \A i \in 1..N(r) :
      mark[Plan[r][i].path] = "own" =>
        CASE jstate[r] = "COMMITTED" -> disk[Plan[r][i].path] = Plan[r][i].after
          [] jstate[r] \in {"STALE", "ROLLED_BACK"} ->
               estate[r][i] = "NONE" \/ disk[Plan[r][i].path] = before[r][i]
          [] OTHER -> TRUE

\* The manual-recovery lockout is never the broker's own doing, whatever crashes
\* happened on the way: some entry's path was written by another program after
\* the broker captured or wrote it, or recovery could not read the file of a
\* REPLACE or a CREATE when it was about to roll forward.  A failing read
\* anywhere else locks nothing (terminal_manual, finish_manual).
ManualHasCause ==
  \A r \in Requests :
    Settled(r) /\ jstate[r] = "MANUAL_RECOVERY_REQUIRED" =>
      \E i \in 1..N(r) : \/ mark[Plan[r][i].path] # "own"
                         \/ i \in unread[r] /\ Plan[r][i].kind # "DELETE"

\* The active journal saved these bytes of p as its rollback original.
SavedOriginal(p) ==
  /\ active \in Requests
  /\ \E i \in 1..N(active) : Plan[active][i].path = p /\ before[active][i] = disk[p]

\* Bytes another program wrote are never overwritten or deleted by the broker
\* without a saved original, unless the write fell between the broker's check
\* of that path and its mutation (commit_entries, rollback_one, roll_forward).
ForeignBytesKept ==
  [][\A p \in Paths :
       disk'[p] # disk[p] /\ mark'[p] = "own" =>
         disk[p] = NoFile \/ mark[p] # "edit" \/ SavedOriginal(p)]_vars

\* Durable intent: the broker changes a file only under the active journal, in
\* a state that reconciliation acts on, with the path's old content on record.
WritesUnderJournal ==
  [][\A p \in Paths :
       disk'[p] # disk[p] /\ mark'[p] = "own" =>
         /\ active \in Requests
         /\ jstate[active] \in {"COMMITTING", "VERIFYING", "ROLLING_BACK"}
         /\ \E i \in 1..N(active) : Plan[active][i].path = p /\ estate[active][i] # "NONE"]_vars

\* A settled journal keeps its outcome (the receipt is signed), and the
\* manual-recovery lockout of the workspace is never lifted by a restart.
SettledForGood ==
  [][/\ \A r \in Requests : jstate[r] \in Terminal => jstate'[r] = jstate[r]
     /\ recovery = "MANUAL_RECOVERY_REQUIRED" => recovery' = recovery]_vars

\* The abstract lease: an unsettled journal has decided nothing yet.
Lease == INSTANCE PromotionLease WITH
  Outcomes <- Terminal,
  Lockout  <- "MANUAL_RECOVERY_REQUIRED",
  holder   <- active,
  outcome  <- [r \in Requests |-> IF jstate[r] \in Terminal THEN jstate[r] ELSE "NONE"],
  locked   <- recovery = "MANUAL_RECOVERY_REQUIRED"

\* The journal, with its crashes and reopens, implements the abstract lease:
\* one holder, one outcome, decided before the lease is given up.
ImplementsLease == Lease!LeaseSpec

\* Once the broker stops crashing, the next open reconciles the workspace: no
\* journal stays unfinished and the lease is free or locked (reconcile_all,
\* release_receipted_leases).
OpenReconciles ==
  mode = "down" ~> mode = "up" /\ active = NoRequest /\ recovery # "RECONCILING"

\* "Changed workspace never receives stale patch" (specification, Task 20): a
\* committed promotion replaced exactly the bytes of the approved base.
StalePatchNeverApplied ==
  \A r \in Requests :
    Settled(r) /\ jstate[r] = "COMMITTED" =>
      \A i \in 1..N(r) : before[r][i] = Base[Plan[r][i].path]
=============================================================================
