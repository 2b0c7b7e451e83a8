--------------------------- MODULE ArtifactStore ---------------------------
(***************************************************************************)
(* One object of the content-addressed store (packages/cas/src): calls     *)
(* that put or get it take turns under the lock of its digest, while the   *)
(* collector marks and sweeps without that lock, the days pass, the disk   *)
(* may rot and the process may die.  What the collector is told of the     *)
(* object (reachable, occupied) is the caller's affair, and is left open.  *)
(*                                                                         *)
(* Every step is one awaited file operation.  The file system has hard     *)
(* links (where it has none the code copies, which is not modelled).  A    *)
(* stored file is "good" when it verifies against the digest.              *)
(***************************************************************************)
EXTENDS Naturals, Sequences

CONSTANTS
  Calls,                \* calls of putObject and getObject
  QUARANTINE_MIN_DAYS,  \* how long a quarantined file is kept
  MarkDays,             \* how many midnights a mark may see
  MaxDay,               \* bound on the days that pass
  MaxFaults             \* bound on crashes, rotten files and failing operations, together

ASSUME StoreAssumption ==
  /\ {QUARANTINE_MIN_DAYS, MarkDays, MaxDay, MaxFaults} \subseteq Nat
  /\ MarkDays < QUARANTINE_MIN_DAYS

VARIABLES
  object,      \* the file under the object's path: "none", "good" or "bad"
  quarantine,  \* the same, for the quarantine folder of each day
  incoming,    \* calls with a staged file
  call,        \* where each call is
  since,       \* the day each call began
  waiters,     \* the lock of the digest: calls in the order they came; the first has it
  marker,      \* markUnreachable: where it is, and the day it began
  sweeper,     \* sweepQuarantine: where it is, and the folder it is in
  today, rotted, faults

files == <<object, quarantine, incoming>>
gc    == <<marker, sweeper>>
env   == <<today, rotted, faults>>
vars  == <<files, call, since, waiters, gc, env>>

Days  == 0..MaxDay
Files == {"none", "good", "bad"}

Init ==
  /\ object = "none" /\ quarantine = [d \in Days |-> "none"] /\ incoming = {}
  /\ call = [c \in Calls |-> "new"] /\ since = [c \in Calls |-> 0] /\ waiters = <<>>
  /\ marker = [pc |-> "idle", day |-> 0] /\ sweeper = [pc |-> "idle", day |-> 0]
  /\ today = 0 /\ rotted = FALSE /\ faults = 0
-----------------------------------------------------------------------------
(* The lock.                                                               *)

Holds(c) == waiters # <<>> /\ Head(waiters) = c
At(c, pc) == call[c] = pc /\ Holds(c)
Goto(c, pc) == call' = [call EXCEPT ![c] = pc] /\ UNCHANGED waiters

\* mutant: the lock is handed on when the call returns, not when it throws.
LeaveOnReturn(c, pc) ==
  call' = [call EXCEPT ![c] = pc] /\ waiters' = IF pc = "failed" THEN waiters ELSE Tail(waiters)

\* The call returns or throws, and the lock goes to the next.
Leave(c, pc) == call' = [call EXCEPT ![c] = pc] /\ waiters' = Tail(waiters)

\* putObject or getObject: the call takes its place in the queue.
withLock(c) ==
  /\ call[c] = "new" /\ waiters' = Append(waiters, c)
  /\ \E pc \in {"put", "get"} : call' = [call EXCEPT ![c] = pc]
  /\ since' = [since EXCEPT ![c] = today]
  /\ UNCHANGED <<files, gc, env>>
-----------------------------------------------------------------------------
(* Putting and getting.                                                    *)

\* readVerified: a file that does not verify is moved to quarantine, and counts as absent.
\* A put goes on without it; a get, a put whose install met a file ("reread") and one that
\* reads a security-critical object back ("critical") throw.
readVerified(c) ==
  /\ \/ /\ At(c, "put")
        /\ Goto(c, CASE object = "good" -> "found" [] object = "bad" -> "evict" [] OTHER -> "stage")
     \/ /\ call[c] \in {"get", "reread", "critical"} /\ Holds(c)
        /\ \/ object = "none" /\ Leave(c, "failed")
           \/ object = "bad" /\ Goto(c, "evict and throw")
           \/ /\ object = "good"
              /\ IF call[c] = "reread" THEN Goto(c, "found") ELSE Leave(c, "done")
  /\ UNCHANGED <<files, since, gc, env>>

\* link of moveToQuarantine; a file that is already in the folder stays.
Linked(d) == quarantine' = [quarantine EXCEPT ![d] = IF @ = "none" THEN object ELSE @]

\* moveToQuarantine by a reader, up to the unlink.
quarantineHex(c) ==
  /\ call[c] \in {"evict", "evict and throw"} /\ Holds(c)
  /\ IF object = "none" THEN UNCHANGED quarantine ELSE Linked(today)
  /\ Goto(c, CASE call[c] = "evict and throw" -> "unlink and throw"
                [] object # "none" /\ quarantine[today] # "none" -> "unlink other"
                [] OTHER -> "unlink")
  /\ UNCHANGED <<object, incoming, since, gc, env>>

\* The unlink.  A file that is gone by then is an error only after the link met another.
unlinkRead(c) ==
  /\ call[c] \in {"unlink", "unlink other", "unlink and throw"} /\ Holds(c) /\ object' = "none"
  /\ IF call[c] = "unlink and throw" \/ (call[c] = "unlink other" /\ object = "none")
     THEN Leave(c, "failed")
     ELSE Goto(c, "stage")
  /\ UNCHANGED <<quarantine, incoming, since, gc, env>>

\* The blob is staged, synced and read back.
writeIncoming(c) ==
  /\ At(c, "stage") /\ incoming' = incoming \cup {c} /\ Goto(c, "install")
  /\ UNCHANGED <<object, quarantine, since, gc, env>>

\* The staged file becomes the object unless there is one.  An operation that fails after
\* the link leaves the object, which the call then reads as if another had installed it.
exclusiveInstall(c) ==
  /\ At(c, "install") /\ incoming' = incoming \ {c}
  /\ \/ object = "none" /\ object' = "good" /\ Goto(c, "persist") /\ UNCHANGED faults
     \/ object = "none" /\ object' = "good" /\ Goto(c, "reread")
        /\ faults < MaxFaults /\ faults' = faults + 1
     \/ object # "none" /\ UNCHANGED object /\ Goto(c, "reread") /\ UNCHANGED faults
  /\ UNCHANGED <<quarantine, since, gc, today, rotted>>

\* The storage record is in the sink; the call returns, or reads a security-critical
\* object that it installed once more.
recordFor(c) ==
  /\ \/ At(c, "found") /\ Leave(c, "done")
     \/ At(c, "persist") /\ (Leave(c, "done") \/ Goto(c, "critical"))
  /\ UNCHANGED <<files, since, gc, env>>
-----------------------------------------------------------------------------
(* The collector.                                                          *)

\* What the predicate the store was opened with may answer.  The host's neverOccupied
\* always says FALSE; the store's promise rests on neither answer.
isGcForbidden == BOOLEAN

\* markUnreachable: the object is listed, asked about, linked and unlinked, without its
\* lock, into the folder of the day the mark began.
markUnreachableObjects ==
  \/ /\ marker.pc = "idle" /\ object # "none"
     /\ marker' = [pc |-> "ask", day |-> today] /\ UNCHANGED <<object, quarantine>>
  \/ /\ marker.pc = "ask" /\ UNCHANGED <<object, quarantine>>
     /\ \E forbidden \in isGcForbidden : marker' = [marker EXCEPT !.pc = IF forbidden THEN "idle" ELSE "link"]
  \/ /\ marker.pc = "link" /\ object = "none" /\ marker' = [marker EXCEPT !.pc = "idle"]
     /\ UNCHANGED <<object, quarantine>>
  \/ /\ marker.pc = "link" /\ object # "none" /\ Linked(marker.day)
     /\ marker' = [marker EXCEPT !.pc = "unlink"] /\ UNCHANGED object
  \/ /\ marker.pc = "unlink" /\ object' = "none" /\ marker' = [marker EXCEPT !.pc = "idle"]
     /\ UNCHANGED quarantine

mark ==
  /\ markUnreachableObjects
  /\ UNCHANGED <<incoming, call, since, waiters, sweeper, env>>

\* A folder is swept when its day is the given number of days past.
SweepAfter(days) ==
  \/ /\ sweeper.pc = "idle" /\ UNCHANGED quarantine
     /\ \E d \in Days : /\ d + days <= today /\ quarantine[d] # "none"
                        /\ sweeper' = [pc |-> "ask", day |-> d]
  \/ /\ sweeper.pc = "ask" /\ UNCHANGED quarantine
     /\ \E forbidden \in isGcForbidden : sweeper' = [sweeper EXCEPT !.pc = IF forbidden THEN "idle" ELSE "remove"]
  \/ /\ sweeper.pc = "remove" /\ quarantine' = [quarantine EXCEPT ![sweeper.day] = "none"]
     /\ sweeper' = [sweeper EXCEPT !.pc = "idle"]

\* mutant: the folder's own day counts towards its age.
sweepADayEarly == SweepAfter(QUARANTINE_MIN_DAYS - 1)

\* sweepQuarantine: a file that is old enough is asked about once more, then removed.
sweepQuarantineObjects == SweepAfter(QUARANTINE_MIN_DAYS)

sweep ==
  /\ sweepQuarantineObjects
  /\ UNCHANGED <<object, incoming, call, since, waiters, marker, env>>

\* Staged files of calls that are gone are removed.
sweepIncoming ==
  /\ \E c \in incoming : call[c] # "install" /\ incoming' = incoming \ {c}
  /\ UNCHANGED <<object, quarantine, call, since, waiters, gc, env>>
-----------------------------------------------------------------------------
(* The rest of the world.                                                  *)

\* Midnight, in the middle of calls, marks and sweeps.  A mark sees MarkDays of them at most.
dayPasses ==
  /\ today < MaxDay /\ today' = today + 1
  /\ marker.pc # "idle" => today < marker.day + MarkDays
  /\ UNCHANGED <<files, call, since, waiters, gc, rotted, faults>>

rot ==
  /\ object = "good" /\ object' = "bad" /\ rotted' = TRUE
  /\ faults < MaxFaults /\ faults' = faults + 1
  /\ UNCHANGED <<quarantine, incoming, call, since, waiters, gc, today>>

\* A file operation or the sink throws: its staged file is removed.
throws(c) ==
  /\ Holds(c) /\ faults < MaxFaults /\ faults' = faults + 1
  /\ incoming' = incoming \ {c} /\ Leave(c, "failed")
  /\ UNCHANGED <<object, quarantine, since, gc, today, rotted>>

\* The process dies: calls and collector are gone, files and rows stay.
crash ==
  /\ faults < MaxFaults /\ faults' = faults + 1
  /\ call' = [c \in Calls |-> IF call[c] \in {"new", "done"} THEN call[c] ELSE "failed"]
  /\ waiters' = <<>>
  /\ marker' = [marker EXCEPT !.pc = "idle"] /\ sweeper' = [sweeper EXCEPT !.pc = "idle"]
  /\ UNCHANGED <<files, since, today, rotted>>
-----------------------------------------------------------------------------
Work(c) ==
  \/ readVerified(c) \/ quarantineHex(c) \/ unlinkRead(c) \/ writeIncoming(c)
  \/ exclusiveInstall(c) \/ recordFor(c)

Next ==
  \/ \E c \in Calls : withLock(c) \/ Work(c) \/ throws(c)
  \/ mark \/ sweep \/ sweepIncoming \/ dayPasses \/ rot \/ crash

Spec == Init /\ [][Next]_vars

\* File operations of a call come back; nothing is assumed of the collector.
FairSpec == Spec /\ \A c \in Calls : WF_vars(Work(c))
-----------------------------------------------------------------------------
\* The term for which what a call that began on day b stored or read is left, whatever the
\* collector was told: the quarantine's, less the days a mark may be late.
WithinTerm(b) == today + MarkDays < b + QUARANTINE_MIN_DAYS

\* What putObject stored or getObject read is not destroyed within that term.  Although the
\* collector takes no lock, may have listed the object and chosen its folder days before
\* the call, and may die between the link and the unlink, a good copy is left under the
\* object's path or in quarantine, unless the disk itself failed.
StoredIsKept ==
  ~rotted => \A c \in Calls :
    call[c] = "done" /\ WithinTerm(since[c]) => object = "good" \/ \E d \in Days : quarantine[d] = "good"

\* A call that waits for the lock of its digest returns or throws, whatever happens to the
\* calls before it.
CallsReturn == \A c \in Calls : call[c] # "new" ~> call[c] \in {"done", "failed"}
=============================================================================
