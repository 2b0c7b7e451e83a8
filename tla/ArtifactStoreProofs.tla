------------------------ MODULE ArtifactStoreProofs ------------------------
(***************************************************************************)
(* What was stored is kept for its term, for any number of calls, days and *)
(* faults and whatever the collector is told of the object.                *)
(*                                                                         *)
(* The collector takes no lock, and may have listed the object before the  *)
(* call that now relies on it.  What saves the object is time: a mark      *)
(* links it into the folder of the day the mark began, which is at most    *)
(* MarkDays back, before it unlinks it, and the sweeper is only in folders *)
(* that are QUARANTINE_MIN_DAYS old.                                       *)
(***************************************************************************)
EXTENDS ArtifactStore, TLAPS

Evicting == {"evict", "evict and throw", "unlink", "unlink other", "unlink and throw"}

\* Where a call has found or installed the object.
Relying == {"found", "persist", "critical", "done"}

Places == {"new", "put", "get", "stage", "install", "reread", "failed"} \cup Evicting \cup Relying

StoreType ==
  /\ object \in Files /\ quarantine \in [Days -> Files]
  /\ rotted \in BOOLEAN /\ today \in Days
  /\ call \in [Calls -> Places] /\ since \in [Calls -> Days]
  /\ marker \in [pc : {"idle", "ask", "link", "unlink"}, day : Days]
  /\ sweeper \in [pc : {"idle", "ask", "remove"}, day : Days]

\* On a sound disk no file is bad, and so no reader evicts the object.
SoundDisk ==
  ~rotted => /\ object # "bad" /\ \A d \in Days : quarantine[d] # "bad"
             /\ \A c \in Calls : call[c] \notin Evicting

\* A mark began a few days ago at most; about to unlink the object, it has linked it.
MarkedLately ==
  /\ marker.pc # "idle" => marker.day <= today /\ today <= marker.day + MarkDays
  /\ marker.pc = "unlink" /\ ~rotted => quarantine[marker.day] = "good"

\* The folder the sweeper is in is old.
SweptIsOld == sweeper.pc # "idle" => sweeper.day + QUARANTINE_MIN_DAYS <= today

\* No call began tomorrow.
BegunBefore == \A c \in Calls : since[c] <= today

\* The object is there, or a copy in a folder that is not swept within the term of day b.
Copy(b) == object = "good" \/ \E d \in Days : quarantine[d] = "good" /\ b <= d + MarkDays

\* A call that has found or installed the object, and its caller, can rely on it.
RelyingIsKept ==
  ~rotted => \A c \in Calls : call[c] \in Relying /\ WithinTerm(since[c]) => Copy(since[c])

StoreInv == StoreType /\ SoundDisk /\ MarkedLately /\ SweptIsOld /\ BegunBefore /\ RelyingIsKept

-----------------------------------------------------------------------------

\* The days are numbers.
LEMMA DaysNat == \A d \in Days : d \in Nat
BY StoreAssumption DEF Days

\* What a mark has linked is recent enough for every call under way.
LEMMA MarkCopies ==
  ASSUME StoreInv, marker.pc # "idle", NEW c \in Calls
  PROVE  since[c] <= marker.day + MarkDays
<1>1. since[c] \in Nat /\ marker.day \in Nat /\ today \in Nat
  BY DaysNat DEF StoreInv, StoreType
<1>2. since[c] <= today /\ today <= marker.day + MarkDays
  BY DEF StoreInv, BegunBefore, MarkedLately
<1> QED
  BY <1>1, <1>2, StoreAssumption

\* The sweeper is never in the folder a mark has linked the object into.
LEMMA SweptNotMarked ==
  ASSUME StoreInv, sweeper.pc # "idle", marker.pc # "idle"
  PROVE  sweeper.day # marker.day
<1>1. sweeper.day \in Nat /\ marker.day \in Nat /\ today \in Nat
  BY DaysNat DEF StoreInv, StoreType
<1>2. sweeper.day + QUARANTINE_MIN_DAYS <= today /\ today <= marker.day + MarkDays
  BY DEF StoreInv, SweptIsOld, MarkedLately
<1> QED
  BY <1>1, <1>2, StoreAssumption

\* Nor in a folder that a call within its term may rely on.
LEMMA SweptNotRelied ==
  ASSUME StoreInv, sweeper.pc # "idle", NEW b \in Nat, WithinTerm(b), NEW d \in Days, b <= d + MarkDays
  PROVE  sweeper.day # d
<1>1. sweeper.day \in Nat /\ d \in Nat /\ today \in Nat
  BY DaysNat DEF StoreInv, StoreType
<1>2. sweeper.day + QUARANTINE_MIN_DAYS <= today
  BY DEF StoreInv, SweptIsOld
<1> QED
  BY <1>1, <1>2, StoreAssumption DEF WithinTerm

\* Nothing is stored yet.
LEMMA StoreInitially == Init => StoreInv
<1> SUFFICES ASSUME Init PROVE StoreInv
  OBVIOUS
<1>1. 0 \in Days
  BY StoreAssumption DEF Days
<1> QED
  BY <1>1 DEF Init, StoreInv, StoreType, SoundDisk, MarkedLately, SweptIsOld, BegunBefore,
              RelyingIsKept, Files, Places, Evicting, Relying

\* Steps of a call that move no file keep the invariant as long as the call relies on the
\* object only when it is there.
LEMMA CallMoves ==
  ASSUME StoreInv, NEW c \in Calls, NEW pc \in Places, call' = [call EXCEPT ![c] = pc],
         UNCHANGED <<object, quarantine, since, gc, today, rotted>>,
         pc \in Evicting => rotted,
         pc \in Relying /\ ~rotted => object = "good" \/ call[c] \in Relying
  PROVE  StoreInv'
<1>1. StoreType'
  BY DEF StoreInv, StoreType, gc
<1>2. SoundDisk'
  BY DEF StoreInv, StoreType, SoundDisk
<1>3. MarkedLately' /\ SweptIsOld' /\ BegunBefore'
  BY DEF StoreInv, MarkedLately, SweptIsOld, BegunBefore, gc
<1>4. RelyingIsKept'
  BY DEF StoreInv, StoreType, RelyingIsKept, Copy, WithinTerm
<1> QED
  BY <1>1, <1>2, <1>3, <1>4 DEF StoreInv

\* A call begins.
LEMMA BeginStep == ASSUME StoreInv, NEW c \in Calls, withLock(c) PROVE StoreInv'
<1>1. PICK pc \in {"put", "get"} : call' = [call EXCEPT ![c] = pc]
  BY DEF withLock
<1>2. UNCHANGED <<object, quarantine, gc, today, rotted>> /\ since' = [since EXCEPT ![c] = today]
  BY DEF withLock, files, env
<1>3. pc \in Places /\ pc \notin Evicting /\ pc \notin Relying
  BY DEF Places, Evicting, Relying
<1>4. StoreType' /\ SoundDisk'
  BY <1>1, <1>2, <1>3 DEF StoreInv, StoreType, SoundDisk, gc
<1>5. MarkedLately' /\ SweptIsOld'
  BY <1>2 DEF StoreInv, MarkedLately, SweptIsOld, gc
<1>6. today <= today
  BY DaysNat DEF StoreInv, StoreType
<1>7. BegunBefore'
  BY <1>2, <1>6 DEF StoreInv, StoreType, BegunBefore
<1>8. RelyingIsKept'
  BY <1>1, <1>2, <1>3 DEF StoreInv, StoreType, RelyingIsKept, Copy, WithinTerm
<1> QED
  BY <1>4, <1>5, <1>7, <1>8 DEF StoreInv

\* Only a bad file makes a reader evict the object (readVerified).
LEMMA ReadStep == ASSUME StoreInv, NEW c \in Calls, readVerified(c) PROVE StoreInv'
<1> USE DEF StoreInv, StoreType, SoundDisk, Files, Places, Evicting, Relying
<1>1. UNCHANGED <<object, quarantine, since, gc, today, rotted>>
  BY DEF readVerified, files, env
<1>2. object = "bad" => rotted
  OBVIOUS
<1>3. CASE At(c, "put")
  <2> DEFINE pc == CASE object = "good" -> "found" [] object = "bad" -> "evict" [] OTHER -> "stage"
  <2>1. call' = [call EXCEPT ![c] = pc]
    BY <1>3 DEF readVerified, At, Goto
  <2> QED
    BY <1>1, <1>2, <2>1, CallMoves
<1>4. CASE ~At(c, "put")
  <2>1. PICK pc \in {"failed", "evict and throw", "found", "done"} :
          /\ call' = [call EXCEPT ![c] = pc]
          /\ pc = "evict and throw" => object = "bad"
          /\ pc \in {"found", "done"} => object = "good"
    BY <1>4 DEF readVerified, Leave, Goto
  <2> QED
    BY <1>1, <1>2, <2>1, CallMoves
<1> QED
  BY <1>3, <1>4

\* The steps of a reader that evicts the object: the disk is rotten.
LEMMA EvictStep ==
  ASSUME StoreInv, NEW c \in Calls, quarantineHex(c) \/ unlinkRead(c) PROVE StoreInv'
<1>1. rotted /\ rotted' = rotted /\ UNCHANGED <<since, marker, sweeper, today>>
  BY DEF quarantineHex, unlinkRead, StoreInv, SoundDisk, Evicting, gc, env
<1>2. object' \in Files /\ quarantine' \in [Days -> Files]
  BY DEF quarantineHex, unlinkRead, Linked, StoreInv, StoreType, Files
<1>3. \E pc \in Places : call' = [call EXCEPT ![c] = pc]
  BY DEF quarantineHex, unlinkRead, Leave, Goto, Places, Evicting
<1>4. call' \in [Calls -> Places]
  BY <1>3 DEF StoreInv, StoreType
<1> QED
  BY <1>1, <1>2, <1>4 DEF StoreInv, StoreType, SoundDisk, MarkedLately, SweptIsOld, BegunBefore,
                          RelyingIsKept

\* The staged file becomes the object unless there is one.
LEMMA InstallStep == ASSUME StoreInv, NEW c \in Calls, exclusiveInstall(c) PROVE StoreInv'
<1>1. UNCHANGED <<quarantine, since, marker, sweeper, today, rotted>>
  BY DEF exclusiveInstall, gc
<1>2. CASE object = "none"
  <2>1. object' = "good" /\ \E pc \in {"persist", "reread"} : call' = [call EXCEPT ![c] = pc]
    BY <1>2 DEF exclusiveInstall, Goto
  <2>2. StoreType' /\ SoundDisk'
    BY <1>1, <2>1 DEF StoreInv, StoreType, SoundDisk, Files, Places, Evicting, Relying
  <2>3. RelyingIsKept'
    BY <2>1 DEF RelyingIsKept, Copy
  <2> QED
    BY <1>1, <2>2, <2>3 DEF StoreInv, MarkedLately, SweptIsOld, BegunBefore
<1>3. CASE object # "none"
  <2>1. UNCHANGED object /\ call' = [call EXCEPT ![c] = "reread"]
    BY <1>3 DEF exclusiveInstall, Goto
  <2>2. UNCHANGED <<object, quarantine, since, gc, today, rotted>>
    BY <1>1, <2>1 DEF gc
  <2> QED
    BY <2>1, <2>2, CallMoves DEF Places, Evicting, Relying
<1> QED
  BY <1>2, <1>3

\* The steps of a call.
LEMMA WorkStep == ASSUME StoreInv, NEW c \in Calls, withLock(c) \/ Work(c) \/ throws(c) PROVE StoreInv'
<1> USE DEF Places, Evicting, Relying
<1>1. CASE writeIncoming(c)
  BY <1>1, CallMoves DEF writeIncoming, Goto, env
<1>2. CASE recordFor(c)
  <2>1. call[c] \in {"found", "persist"} /\ \E pc \in {"done", "critical"} : call' = [call EXCEPT ![c] = pc]
    BY <1>2 DEF recordFor, At, Leave, Goto
  <2>2. UNCHANGED <<object, quarantine, since, gc, today, rotted>>
    BY <1>2 DEF recordFor, files, env
  <2> QED
    BY <2>1, <2>2, CallMoves
<1>3. CASE throws(c)
  BY <1>3, CallMoves DEF throws, Leave
<1> QED
  BY <1>1, <1>2, <1>3, BeginStep, ReadStep, EvictStep, InstallStep DEF Work

\* The mark unlinks the object only after it linked it in a recent folder.
LEMMA MarkStep == ASSUME StoreInv, mark PROVE StoreInv'
<1>1. UNCHANGED <<call, since, sweeper, today, rotted>>
  BY DEF mark, env
<1>2. SweptIsOld' /\ BegunBefore'
  BY <1>1 DEF StoreInv, SweptIsOld, BegunBefore
<1>3. CASE UNCHANGED <<object, quarantine>> /\ marker.pc \in {"idle", "ask", "link"} /\ marker'.pc # "unlink"
  <2>1. /\ marker' \in [pc : {"idle", "ask", "link", "unlink"}, day : Days]
        /\ marker'.pc = "idle" \/ marker'.day = today \/ (marker.pc # "idle" /\ marker'.day = marker.day)
    BY <1>3 DEF mark, markUnreachableObjects, StoreInv, StoreType
  <2>2. today <= today /\ today <= today + MarkDays
    BY DaysNat, StoreAssumption DEF StoreInv, StoreType
  <2>3. StoreType' /\ MarkedLately'
    BY <1>1, <1>3, <2>1, <2>2 DEF StoreInv, StoreType, MarkedLately
  <2>4. SoundDisk' /\ RelyingIsKept'
    BY <1>1, <1>3 DEF StoreInv, StoreType, SoundDisk, RelyingIsKept, Copy, WithinTerm
  <2> QED
    BY <1>2, <2>3, <2>4 DEF StoreInv
<1>4. CASE marker.pc = "link" /\ object # "none" /\ Linked(marker.day)
           /\ marker' = [marker EXCEPT !.pc = "unlink"] /\ UNCHANGED object
  <2>1. marker.day \in Days
    BY DEF StoreInv, StoreType
  <2>2. quarantine' = [quarantine EXCEPT ![marker.day] = IF @ = "none" THEN object ELSE @]
    BY <1>4 DEF Linked
  <2>3. StoreType'
    <3>1. marker' \in [pc : {"idle", "ask", "link", "unlink"}, day : Days]
      BY <1>4 DEF StoreInv, StoreType
    <3>2. quarantine' \in [Days -> Files] /\ object' \in Files
      BY <1>4, <2>1, <2>2 DEF StoreInv, StoreType
    <3> QED
      BY <1>1, <3>1, <3>2 DEF StoreInv, StoreType
  <2>4. SoundDisk' /\ MarkedLately'
    <3>1. marker'.pc = "unlink" /\ marker'.day = marker.day
      BY <1>4 DEF StoreInv, StoreType
    <3>2. ~rotted => /\ object = "good" /\ quarantine'[marker.day] = "good"
                     /\ \A d \in Days : quarantine'[d] # "bad"
      BY <1>4, <2>1, <2>2 DEF StoreInv, StoreType, SoundDisk, Files
    <3> QED
      BY <1>1, <1>4, <3>1, <3>2 DEF StoreInv, StoreType, SoundDisk, MarkedLately
  <2>5. \A d \in Days : quarantine[d] = "good" => quarantine'[d] = "good"
    BY <2>2 DEF StoreInv, StoreType
  <2>6. RelyingIsKept'
    BY <1>1, <1>4, <2>5 DEF StoreInv, RelyingIsKept, Copy, WithinTerm
  <2> QED
    BY <1>2, <2>3, <2>4, <2>6 DEF StoreInv
<1>5. CASE marker.pc = "unlink" /\ object' = "none" /\ marker' = [marker EXCEPT !.pc = "idle"]
           /\ UNCHANGED quarantine
  <2>1. marker.day \in Days /\ (~rotted => quarantine[marker.day] = "good")
    BY <1>5 DEF StoreInv, StoreType, MarkedLately
  <2>2. StoreType' /\ MarkedLately'
    <3>1. marker' \in [pc : {"idle", "ask", "link", "unlink"}, day : Days] /\ marker'.pc = "idle"
      BY <1>5 DEF StoreInv, StoreType
    <3> QED
      BY <1>1, <1>5, <3>1 DEF StoreInv, StoreType, MarkedLately, Files
  <2>3. SoundDisk'
    BY <1>1, <1>5 DEF StoreInv, StoreType, SoundDisk
  <2>4. \A c \in Calls : since[c] <= marker.day + MarkDays
    BY <1>5, MarkCopies
  <2>5. RelyingIsKept'
    BY <1>1, <1>5, <2>1, <2>4 DEF RelyingIsKept, Copy
  <2> QED
    BY <1>2, <2>2, <2>3, <2>5 DEF StoreInv
<1> QED
  BY <1>3, <1>4, <1>5 DEF mark, markUnreachableObjects, StoreInv, StoreType, isGcForbidden

\* The sweeper goes into old folders only, where nobody within the term has a copy.
LEMMA SweepStep == ASSUME StoreInv, sweep PROVE StoreInv'
<1>1. UNCHANGED <<object, call, since, marker, today, rotted>>
  BY DEF sweep, env
<1>2. CASE UNCHANGED quarantine /\ sweeper.pc # "remove"
  <2>1. StoreType' /\ SweptIsOld'
    BY <1>1, <1>2 DEF sweep, sweepQuarantineObjects, SweepAfter, StoreInv, StoreType, SweptIsOld
  <2>2. SoundDisk' /\ MarkedLately' /\ BegunBefore' /\ RelyingIsKept'
    BY <1>1, <1>2 DEF StoreInv, StoreType, SoundDisk, MarkedLately, BegunBefore, RelyingIsKept, Copy,
                      WithinTerm
  <2> QED
    BY <2>1, <2>2 DEF StoreInv
<1>3. CASE sweeper.pc = "remove" /\ quarantine' = [quarantine EXCEPT ![sweeper.day] = "none"]
           /\ sweeper' = [sweeper EXCEPT !.pc = "idle"]
  <2>1. /\ sweeper' \in [pc : {"idle", "ask", "remove"}, day : Days] /\ sweeper'.pc = "idle"
        /\ sweeper.day \in Days
    BY <1>3 DEF StoreInv, StoreType
  <2>2. /\ quarantine' \in [Days -> Files]
        /\ \A d \in Days : quarantine'[d] = IF d = sweeper.day THEN "none" ELSE quarantine[d]
    BY <1>3, <2>1 DEF StoreInv, StoreType, Files
  <2>3. StoreType' /\ SweptIsOld' /\ BegunBefore'
    BY <1>1, <2>1, <2>2 DEF StoreInv, StoreType, SweptIsOld, BegunBefore
  <2>4. SoundDisk'
    BY <1>1, <2>2 DEF StoreInv, StoreType, SoundDisk
  <2>5. MarkedLately'
    <3>1. marker.pc # "idle" => marker.day \in Days /\ marker.day # sweeper.day
      BY <1>3, SweptNotMarked DEF StoreInv, StoreType
    <3> QED
      BY <1>1, <2>2, <3>1 DEF StoreInv, MarkedLately
  <2>6. ASSUME NEW c \in Calls, WithinTerm(since[c]), Copy(since[c]) PROVE Copy(since[c])'
    <3>1. since[c] \in Nat
      BY DaysNat DEF StoreInv, StoreType
    <3>2. \A d \in Days : since[c] <= d + MarkDays => d # sweeper.day
      BY <1>3, <2>6, <3>1, SweptNotRelied
    <3> QED
      BY <1>1, <2>2, <2>6, <3>2 DEF Copy
  <2>7. RelyingIsKept'
    BY <1>1, <2>6 DEF StoreInv, RelyingIsKept, WithinTerm
  <2> QED
    BY <2>3, <2>4, <2>5, <2>7 DEF StoreInv
<1> QED
  BY <1>2, <1>3 DEF sweep, sweepQuarantineObjects, SweepAfter

\* The day ends: folders and terms grow older, and marks late by another day at most.
LEMMA DayStep == ASSUME StoreInv, dayPasses PROVE StoreInv'
<1>1. UNCHANGED <<object, quarantine, call, since, marker, sweeper, rotted>>
  BY DEF dayPasses, files, gc
<1>2. today \in Nat /\ today' = today + 1 /\ today' \in Days
  BY DaysNat, StoreAssumption DEF dayPasses, StoreInv, StoreType, Days
<1>3. SweptIsOld'
  <2>1. sweeper.day \in Nat
    BY DaysNat DEF StoreInv, StoreType
  <2> QED
    BY <1>1, <1>2, <2>1, StoreAssumption DEF StoreInv, SweptIsOld
<1>4. MarkedLately'
  <2>1. marker.day \in Nat
    BY DaysNat DEF StoreInv, StoreType
  <2>2. marker.pc # "idle" => marker.day <= today' /\ today' <= marker.day + MarkDays
    BY <1>2, <2>1, StoreAssumption DEF StoreInv, MarkedLately, dayPasses
  <2> QED
    BY <1>1, <2>2 DEF StoreInv, MarkedLately
<1>5. BegunBefore'
  <2>1. \A c \in Calls : since[c] \in Nat
    BY DaysNat DEF StoreInv, StoreType
  <2> QED
    BY <1>1, <1>2, <2>1 DEF StoreInv, BegunBefore
<1>6. \A c \in Calls : WithinTerm(since[c])' => WithinTerm(since[c])
  <2>1. \A c \in Calls : since[c] \in Nat
    BY DaysNat DEF StoreInv, StoreType
  <2> QED
    BY <1>1, <1>2, <2>1, StoreAssumption DEF WithinTerm
<1>7. RelyingIsKept'
  BY <1>1, <1>6 DEF StoreInv, RelyingIsKept, Copy
<1>8. StoreType' /\ SoundDisk'
  BY <1>1, <1>2 DEF StoreInv, StoreType, SoundDisk
<1> QED
  BY <1>3, <1>4, <1>5, <1>7, <1>8 DEF StoreInv

\* The process dies: no call that was under way is relied on.
LEMMA CrashStep == ASSUME StoreInv, crash PROVE StoreInv'
<1>1. UNCHANGED <<object, quarantine, since, today, rotted>>
  BY DEF crash, files
<1>2. /\ marker' \in [pc : {"idle", "ask", "link", "unlink"}, day : Days] /\ marker'.pc = "idle"
      /\ sweeper' \in [pc : {"idle", "ask", "remove"}, day : Days] /\ sweeper'.pc = "idle"
  BY DEF crash, StoreInv, StoreType
<1>3. \A c \in Calls : call'[c] = call[c] \/ call'[c] = "failed"
  BY DEF crash
<1>4. call' \in [Calls -> Places]
  BY DEF crash, StoreInv, StoreType, Places
<1>5. StoreType' /\ MarkedLately' /\ SweptIsOld' /\ BegunBefore'
  BY <1>1, <1>2, <1>4 DEF StoreInv, StoreType, MarkedLately, SweptIsOld, BegunBefore
<1>6. SoundDisk' /\ RelyingIsKept'
  BY <1>1, <1>3 DEF StoreInv, SoundDisk, RelyingIsKept, Copy, WithinTerm, Evicting, Relying
<1> QED
  BY <1>5, <1>6 DEF StoreInv

\* Every step keeps the invariant.
LEMMA StoreStep == ASSUME StoreInv, [Next]_vars PROVE StoreInv'
<1>1. CASE sweepIncoming \/ UNCHANGED vars
  <2>1. UNCHANGED <<object, quarantine, call, since, marker, sweeper, today, rotted>>
    BY <1>1 DEF sweepIncoming, vars, files, gc, env
  <2> QED
    BY <2>1 DEF StoreInv, StoreType, SoundDisk, MarkedLately, SweptIsOld, BegunBefore, RelyingIsKept,
                Copy, WithinTerm
<1>2. CASE rot
  BY <1>2 DEF rot, gc, StoreInv, StoreType, SoundDisk, MarkedLately, SweptIsOld, BegunBefore,
     RelyingIsKept, Files
<1> QED
  BY <1>1, <1>2, WorkStep, MarkStep, SweepStep, DayStep, CrashStep DEF Next

\* The invariant holds forever.
THEOREM StoreInvariant == Spec => []StoreInv
<1>1. Init => StoreInv
  BY StoreInitially
<1>2. StoreInv /\ [Next]_vars => StoreInv'
  BY StoreStep
<1> QED
  BY <1>1, <1>2, PTL DEF Spec

\* Whatever the collector is told, and however the steps of putObject, getObject,
\* markUnreachable and sweepQuarantine interleave, over any midnights and wherever the
\* process dies, what a call stored or read has a good copy, under its path or in
\* quarantine, for the quarantine's days less those a mark may be late, unless the disk
\* failed.
THEOREM StoredIsKeptForTerm == Spec => []StoredIsKept
<1>1. StoreInv => StoredIsKept
  BY DEF StoreInv, RelyingIsKept, Relying, Copy, StoredIsKept
<1> QED
  BY <1>1, StoreInvariant, PTL
=============================================================================
