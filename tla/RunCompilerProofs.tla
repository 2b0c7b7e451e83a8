------------------------- MODULE RunCompilerProofs -------------------------
(***************************************************************************)
(* Proofs about the run compiler, for any number of calls, nodes, requests *)
(* and faults: type correctness, the proof that it implements              *)
(* RunLifecycle, and what calls that race through it do to each other (a   *)
(* createRun that was answered has queued its work, and the artifacts of a *)
(* run are never mixed from two calls).                                    *)
(***************************************************************************)
EXTENDS RunCompiler, TLAPS

Rows == [state : States, version : Nat, roles : [Roles -> Authors]]

-----------------------------------------------------------------------------
(* Frames and bindings keep their types.                                   *)

\* Every call may be the author of an artifact; so may nobody and everybody.
LEMMA AuthorsType == Calls \subseteq Authors /\ Nobody \in Authors /\ Agreed \in Authors
BY CompilerAssumption DEF Calls, Authors, Nobody, Agreed

\* The walk to PREFLIGHT_COMPLETE stays inside the states.
LEMMA SealTargetType == \A s \in SealStates : s \in States /\ SEAL_TARGETS[s] \in States
BY DEF SealStates, SEAL_TARGETS, States, TreeStates

\* Nothing bound is a binding.
LEMMA NoRolesType == NoRoles \in [Roles -> Authors]
BY AuthorsType DEF NoRoles

\* withRoles returns bindings.
LEMMA WithRolesType ==
  ASSUME NEW b \in [Roles -> Authors], NEW rs, NEW a \in Authors
  PROVE  withRoles(b, rs, a) \in [Roles -> Authors]
BY DEF withRoles

\* What a commit stores are bindings.
LEMMA StoredType ==
  ASSUME NEW f \in Frames  PROVE Stored(f) \in [Roles -> Authors]
BY AuthorsType DEF Stored, Frames

\* A call that is off has a frame.
LEMMA IdleType == Idle \in Frames
BY NoRolesType DEF Idle, Frames, Kinds, PCs, Sync, States

\* A call that has read nothing yet has a frame.
LEMMA FrameType ==
  ASSUME NEW kind \in Kinds, NEW pc \in PCs
  PROVE  Frame(kind, pc) \in Frames /\ Frame(kind, pc).pc = pc /\ Frame(kind, pc).target = "ABSENT"
BY IdleType DEF Frame, Frames, Idle

\* A call that waits at pc has a frame.
LEMMA AwaitType ==
  ASSUME NEW f \in Frames, NEW r \in Rows, NEW pc \in PCs
  PROVE  Await(f, r, pc) \in Frames /\ Await(f, r, pc).pc = pc /\ Await(f, r, pc).target = "ABSENT"
BY IdleType DEF Await, Frames, Rows, Idle

\* A call about to enter a state has a frame.
LEMMA EnterType ==
  ASSUME NEW f \in Frames, NEW r \in Rows, NEW t \in States, NEW b \in [Roles -> Authors]
  PROVE  /\ enterRun(f, r, t, b) \in Frames
         /\ enterRun(f, r, t, b).pc = "enter" /\ enterRun(f, r, t, b).target = t
BY IdleType DEF enterRun, Frames, Rows, Idle, PCs, Sync

\* A call that returns has a frame.
LEMMA ReturnType ==
  ASSUME NEW f \in Frames
  PROVE  Return(f) \in Frames /\ Return(f).pc \in {"off", "restock"} /\ Return(f).target = "ABSENT"
<1>1. "capture" \in Kinds /\ "restock" \in PCs
  BY DEF Kinds, PCs, Sync
<1> QED
  BY <1>1, IdleType, FrameType DEF Return, Idle

\* A turn of the loop leaves a frame; it never writes the tree or enters an apply state.
LEMMA LoopType ==
  ASSUME NEW f \in Frames, NEW r \in Rows
  PROVE  /\ advanceRunCompiler(f, r) \in Frames
         /\ advanceRunCompiler(f, r).pc \notin {"write", "grant"}
         /\ advanceRunCompiler(f, r).target # "AWAITING_APPLY_APPROVAL"
<1>1. \A pc \in {"seal", "contract", "ledger"} : pc \in PCs
  BY DEF PCs
<1>2. enterRun(f, r, "BLOCKED", r.roles) \in Frames
      /\ enterRun(f, r, "BLOCKED", r.roles).pc = "enter"
      /\ enterRun(f, r, "BLOCKED", r.roles).target = "BLOCKED"
  <2>1. "BLOCKED" \in States /\ r.roles \in [Roles -> Authors]
    BY DEF Rows, States
  <2> QED
    BY <2>1, EnterType
<1>3. \A pc \in {"seal", "contract", "ledger"} :
        Await(f, r, pc) \in Frames /\ Await(f, r, pc).pc = pc /\ Await(f, r, pc).target = "ABSENT"
  BY <1>1, AwaitType
<1>4. \/ advanceRunCompiler(f, r) \in {Await(f, r, pc) : pc \in {"seal", "contract", "ledger"}}
      \/ advanceRunCompiler(f, r) = enterRun(f, r, "BLOCKED", r.roles)
      \/ advanceRunCompiler(f, r) = Return(f)
  BY DEF advanceRunCompiler
<1> QED
  BY <1>2, <1>3, <1>4, ReturnType

\* After a commit a call has a frame.  Only a commit of VERIFIED_ACCEPTED leads to the
\* files, and no commit leads straight to the approval of the apply.
LEMMA ContinueType ==
  ASSUME NEW f \in Frames, NEW r \in Rows, NEW root
  PROVE  /\ Continue(f, r, root) \in Frames
         /\ Continue(f, r, root).pc # "grant"
         /\ Continue(f, r, root).target # "AWAITING_APPLY_APPROVAL"
         /\ Continue(f, r, root).pc = "write" => r.state = "VERIFIED_ACCEPTED"
<1> DEFINE c == Continue(f, r, root)
<1>1. CASE r.state = "SNAPSHOT_REQUESTED"
  <2>1. c = Frame(f.kind, "enqueue")
    BY <1>1 DEF Continue, SealStates, SEAL_TARGETS
  <2>2. f.kind \in Kinds /\ "enqueue" \in PCs
    BY DEF Frames, PCs
  <2> QED
    BY <2>1, <2>2, FrameType
<1>2. CASE r.state # "SNAPSHOT_REQUESTED" /\ r.state \in SealStates
  <2>1. c = enterRun(f, r, SEAL_TARGETS[r.state], f.b)
    BY <1>2 DEF Continue, SealStates, SEAL_TARGETS
  <2>2. SEAL_TARGETS[r.state] # "AWAITING_APPLY_APPROVAL"
    BY <1>2 DEF SealStates, SEAL_TARGETS
  <2>3. f.b \in [Roles -> Authors] /\ SEAL_TARGETS[r.state] \in States
    BY <1>2, SealTargetType DEF Frames
  <2> QED
    BY <2>1, <2>2, <2>3, EnterType
<1>3. CASE r.state # "SNAPSHOT_REQUESTED" /\ r.state \notin SealStates
  <2> DEFINE targets == {"PROFILE_SELECTED", "PROFILE_RUNNING", "AWAITING_REQUIREMENTS_INPUT",
                         "BLOCKED", "APPLY_PREPARING", "APPLYING"}
             waits == {"verdict", "receipt", "result"}
  <2>1. \/ c = enterRun(f, r, "PROFILE_SELECTED", r.roles)
        \/ c = enterRun(f, r, "PROFILE_RUNNING", r.roles)
        \/ c = enterRun(f, r, "AWAITING_REQUIREMENTS_INPUT", r.roles)
        \/ c = enterRun(f, r, "BLOCKED", r.roles)
        \/ c = enterRun(f, r, "APPLY_PREPARING", r.roles)
        \/ c = enterRun(f, r, "APPLYING", r.roles)
        \/ c = Await(f, r, "verdict") \/ c = Await(f, r, "receipt") \/ c = Await(f, r, "result")
        \/ r.state = "VERIFIED_ACCEPTED" /\ c = Await(f, r, "write")
        \/ c = advanceRunCompiler(f, r)
    BY <1>3 DEF Continue
  <2>2. ASSUME NEW t \in targets, c = enterRun(f, r, t, r.roles)
        PROVE  c \in Frames /\ c.pc = "enter" /\ c.target # "AWAITING_APPLY_APPROVAL"
    <3>1. t \in States /\ t # "AWAITING_APPLY_APPROVAL" /\ r.roles \in [Roles -> Authors]
      BY DEF States, TreeStates, Rows
    <3> QED
      BY <2>2, <3>1, EnterType
  <2>3. ASSUME NEW pc \in waits, c = Await(f, r, pc)
        PROVE  c \in Frames /\ c.pc \notin {"grant", "write"} /\ c.target = "ABSENT"
    BY <2>3, AwaitType DEF PCs
  <2>4. CASE r.state = "VERIFIED_ACCEPTED" /\ c = Await(f, r, "write")
    <3>1. "write" \in PCs
      BY DEF PCs, Sync
    <3> QED
      BY <2>4, <3>1, AwaitType
  <2>5. CASE c = advanceRunCompiler(f, r)
    BY <2>5, LoopType
  <2> QED
    BY <2>1, <2>2, <2>3, <2>4, <2>5
<1> QED
  BY <1>1, <1>2, <1>3

\* A commit never leads to the acceptance of an envelope.
LEMMA ContinueAccept ==
  ASSUME NEW f \in Frames, NEW r \in Rows, NEW root
  PROVE  Continue(f, r, root).pc # "accept"
<1>1. \A k, pc : Frame(k, pc).pc = pc
  BY DEF Frame, Idle
<1>2. \A pc : Await(f, r, pc).pc = pc
  BY DEF Await, Idle
<1>3. \A t, b : enterRun(f, r, t, b).pc = "enter"
  BY DEF enterRun, Idle
<1>4. Return(f).pc # "accept"
  BY ReturnType
<1>5. advanceRunCompiler(f, r).pc # "accept"
  BY <1>2, <1>3, <1>4 DEF advanceRunCompiler
<1> QED
  BY <1>1, <1>2, <1>3, <1>5 DEF Continue, SealStates, SEAL_TARGETS

-----------------------------------------------------------------------------
(* The invariant.                                                          *)

\* The tree is touched only once the work is accepted; a call that writes it does so in
\* VERIFIED_ACCEPTED; and whoever asks for the apply has written all of it.
TreeInv ==
  /\ tree # "clean" => run.state \in {"VERIFIED_ACCEPTED", "SUCCEEDED"} \cup TreeStates
  /\ \A h \in Calls :
       /\ call[h].pc = "write" => run.state = "VERIFIED_ACCEPTED" /\ tree # "written"
       /\ call[h].pc = "grant" => tree = "written"
       /\ call[h].target = "AWAITING_APPLY_APPROVAL" => tree = "written"

\* A settlement that waits to be accepted is one of a node.
SettlesNode == \A h \in Calls : call[h].pc = "accept" => call[h].kind \in Nodes \cup {"analyst"}

IInv == TypeOK /\ SettlesNode /\ TreeInv

\* An edge the guards let pass: what was accepted stays accepted, and acceptance is
\* entered from its check alone.
LEMMA EdgeFacts ==
  ASSUME NEW s, NEW t, <<s, t>> \in phaseTransitions,
         additionalGuards(s, t) \subseteq satisfiedGuards(t)
  PROVE  /\ t \in States
         /\ t = "VERIFIED_ACCEPTED" => s = "ACCEPTANCE_CHECK"
         /\ s \in {"VERIFIED_ACCEPTED", "SUCCEEDED"} \cup TreeStates
              => t \in {"SUCCEEDED"} \cup TreeStates
         /\ \/ PhaseOf(s) = PhaseOf(t)
            \/ <<PhaseOf(s), PhaseOf(t)>> \in Life!MayFollow
            \/ s = "VERIFIED_ACCEPTED" /\ t = "AWAITING_APPLY_APPROVAL"
<1> USE DEF phaseTransitions, additionalGuards, satisfiedGuards, PhaseOf, Life!MayFollow,
            SealStates, SEAL_TARGETS, States, TreeStates
<1>1. CASE <<s, t>> \in {<<q, SEAL_TARGETS[q]>> : q \in SealStates}
  <2>1. s \in SealStates /\ t = SEAL_TARGETS[s]
    BY <1>1
  <2> QED
    BY <2>1
<1>2. CASE <<s, t>> \notin {<<q, SEAL_TARGETS[q]>> : q \in SealStates}
  <2>1. s # "AWAITING_REQUIREMENTS_INPUT"
    <3>1. SUFFICES ASSUME s = "AWAITING_REQUIREMENTS_INPUT" PROVE FALSE
      OBVIOUS
    <3>2. "INPUT_REVISION_COMMITTED" \in additionalGuards(s, t)
      BY <3>1
    <3>3. "INPUT_REVISION_COMMITTED" \notin satisfiedGuards(t)
      OBVIOUS
    <3> QED
      BY <3>2, <3>3
  <2>2. \/ s = "CREATED" /\ t = "SNAPSHOT_REQUESTED"
        \/ s \in {"INSTRUCTIONS_RESOLVING", "PREFLIGHT_RUNNING"} /\ t = "AWAITING_REQUIREMENTS_INPUT"
        \/ s = "PREFLIGHT_COMPLETE" /\ t = "CONTRACTED"
        \/ s = "CONTRACTED" /\ t = "PROFILE_SELECTED"
        \/ s = "PROFILE_SELECTED" /\ t = "PROFILE_RUNNING"
        \/ s = "PROFILE_RUNNING" /\ t \in {"ACCEPTANCE_CHECK", "AWAITING_REQUIREMENTS_INPUT", "BLOCKED"}
        \/ s = "ACCEPTANCE_CHECK" /\ t \in {"VERIFIED_ACCEPTED", "VERIFIED_REJECTED"}
        \/ s = "BLOCKED" /\ t \in {"PROFILE_RUNNING", "AWAITING_REQUIREMENTS_INPUT"}
        \/ s = "VERIFIED_REJECTED" /\ t = "PROFILE_RUNNING"
        \/ s = "VERIFIED_ACCEPTED" /\ t = "AWAITING_APPLY_APPROVAL"
        \/ s = "AWAITING_APPLY_APPROVAL" /\ t = "APPLY_PREPARING"
        \/ s = "APPLY_PREPARING" /\ t = "APPLYING"
        \/ s = "APPLYING" /\ t = "APPLY_RECONCILING"
        \/ s = "APPLY_RECONCILING" /\ t \in {"AWAITING_APPLY_APPROVAL", "SUCCEEDED"}
    <3> HIDE DEF additionalGuards, satisfiedGuards, PhaseOf, SEAL_TARGETS, SealStates
    <3> QED
      BY <1>2, <2>1
  <2> HIDE DEF additionalGuards, satisfiedGuards, phaseTransitions
  <2>3. t \in States /\ (t = "VERIFIED_ACCEPTED" => s = "ACCEPTANCE_CHECK")
    BY <2>2
  <2>4. s \in {"VERIFIED_ACCEPTED", "SUCCEEDED"} \cup TreeStates => t \in {"SUCCEEDED"} \cup TreeStates
    BY <2>2
  <2>5. \/ PhaseOf(s) = PhaseOf(t)
        \/ <<PhaseOf(s), PhaseOf(t)>> \in Life!MayFollow
        \/ s = "VERIFIED_ACCEPTED" /\ t = "AWAITING_APPLY_APPROVAL"
    BY <2>2
  <2> QED
    BY <2>3, <2>4, <2>5
<1> QED
  BY <1>1, <1>2
-----------------------------------------------------------------------------
(* Every step keeps the invariant.                                         *)

\* What a call may become without a look at the run or the tree.
Harmless(f) ==
  /\ f \in Frames
  /\ f.pc # "write"
  /\ f.pc = "grant" => tree = "written"
  /\ f.target = "AWAITING_APPLY_APPROVAL" => tree = "written"
  /\ f.pc = "accept" => f.kind \in Nodes \cup {"analyst"}

\* A call that becomes harmless while run and tree stay keeps the invariant.
LEMMA HarmlessStep ==
  ASSUME IInv, NEW h \in Calls, NEW f, Harmless(f), Go(h, f), UNCHANGED <<run, tree>>
  PROVE  call' \in [Calls -> Frames] /\ SettlesNode' /\ TreeInv'
<1>1. /\ call' \in [Calls -> Frames] /\ call'[h] = f
      /\ \A g \in Calls : g # h => call'[g] = call[g]
  BY DEF IInv, TypeOK, Go, Harmless
<1>2. SettlesNode'
  BY <1>1 DEF IInv, SettlesNode, Harmless
<1>3. TreeInv'
  BY <1>1 DEF IInv, TreeInv, Harmless
<1> QED
  BY <1>1, <1>2, <1>3

\* A call that only moves on to another await keeps its frame.
LEMMA PcType ==
  ASSUME NEW f \in Frames, NEW pc \in PCs
  PROVE  LET c == [f EXCEPT !.pc = pc]
         IN  c \in Frames /\ c.pc = pc /\ c.target = f.target /\ c.kind = f.kind
BY DEF Frames

\* Where a call may move on to without meeting a file.
LEMMA PcHarmless ==
  ASSUME IInv, NEW h \in Calls, NEW pc \in PCs \ {"write", "grant", "accept"}
  PROVE  Harmless([call[h] EXCEPT !.pc = pc])
<1>1. call[h] \in Frames
  BY DEF IInv, TypeOK
<1>2. call[h].target = "AWAITING_APPLY_APPROVAL" => tree = "written"
  BY DEF IInv, TreeInv
<1> QED
  BY <1>1, <1>2, PcType DEF Harmless

\* A call that ends is harmless.
LEMMA IdleHarmless == Harmless(Idle)
<1>1. Idle.pc = "off" /\ Idle.target = "ABSENT"
  BY DEF Idle
<1> QED
  BY <1>1, IdleType DEF Harmless

\* So is one that begins.
LEMMA FrameHarmless ==
  ASSUME NEW kind \in Kinds, NEW pc \in PCs \ {"write", "grant"},
         pc = "accept" => kind \in Nodes \cup {"analyst"}
  PROVE  Harmless(Frame(kind, pc))
<1>1. Frame(kind, pc).kind = kind
  BY DEF Frame, Idle
<1> QED
  BY <1>1, FrameType DEF Harmless

\* The loop and the return of a call never lead to a settlement.
LEMMA LoopHarmless ==
  ASSUME NEW f \in Frames, NEW r \in Rows
  PROVE  Harmless(advanceRunCompiler(f, r)) /\ Harmless(Return(f))
<1>1. "capture" \in Kinds /\ "restock" \in PCs \ {"write", "grant"}
  BY DEF Kinds, PCs, Sync
<1>2. Harmless(Return(f))
  BY <1>1, IdleHarmless, FrameHarmless DEF Return
<1>3. \/ advanceRunCompiler(f, r) \in {Await(f, r, pc) : pc \in {"seal", "contract", "ledger"}}
      \/ advanceRunCompiler(f, r) = enterRun(f, r, "BLOCKED", r.roles)
      \/ advanceRunCompiler(f, r) = Return(f)
  BY DEF advanceRunCompiler
<1>4. \A pc \in {"seal", "contract", "ledger"} : pc \in PCs
  BY DEF PCs
<1>5. \A pc \in {"seal", "contract", "ledger"} : Await(f, r, pc).pc = pc
  BY <1>4, AwaitType
<1>6. enterRun(f, r, "BLOCKED", r.roles).pc = "enter"
  <2>1. "BLOCKED" \in States /\ r.roles \in [Roles -> Authors]
    BY DEF Rows, States
  <2> QED
    BY <2>1, EnterType
<1>7. CASE advanceRunCompiler(f, r) # Return(f)
  <2>1. advanceRunCompiler(f, r).pc # "accept"
    BY <1>3, <1>5, <1>6, <1>7
  <2> QED
    BY <1>2, <2>1, LoopType DEF Harmless
<1> QED
  BY <1>2, <1>7

\* A call that is about to enter a state other than the approval of the apply.
LEMMA EnterHarmless ==
  ASSUME NEW f \in Frames, NEW r \in Rows, NEW t \in States, NEW b \in [Roles -> Authors],
         t = "AWAITING_APPLY_APPROVAL" => tree = "written"
  PROVE  Harmless(enterRun(f, r, t, b))
BY EnterType DEF Harmless

\* What is typed beside the calls.
Others ==
  /\ run \in Rows
  /\ row \in {"none", "reserved", "completed"}
  /\ capture \in {"none", "queued", "done", "failed"}
  /\ analyst \in {"absent", "spawned", "queued", "reported", "accepted", "failed"}
  /\ profile \in {"none", "free", "auth", "blocked", "related"}
  /\ ops \in SUBSET Nodes /\ left \in SUBSET Nodes /\ failed \in SUBSET Nodes
  /\ sends \in Nat /\ faults \in Nat
  /\ tree \in {"clean", "partial", "written"}

\* The type invariant is that of the calls and that of the rest.
LEMMA TypeParts == TypeOK <=> call \in [Calls -> Frames] /\ Others
BY DEF TypeOK, Others, Rows

\* A step of one call that leaves run and tree alone keeps the invariant when the call
\* becomes harmless and the rest keeps its type.
LEMMA QuietStep ==
  ASSUME IInv, NEW h \in Calls, NEW f, Harmless(f), Go(h, f), UNCHANGED <<run, tree>>, Others'
  PROVE  IInv'
<1>1. call' \in [Calls -> Frames] /\ SettlesNode' /\ TreeInv'
  BY HarmlessStep
<1>2. TypeOK'
  <2>1. (TypeOK <=> call \in [Calls -> Frames] /\ Others)'
    BY TypeParts, PTL
  <2> QED
    BY <1>1, <2>1
<1> QED
  BY <1>1, <1>2 DEF IInv

\* Requests and reports that begin a call keep the invariant.
LEMMA BeginStep ==
  ASSUME IInv, NEW h \in Calls, reserve(h) \/ captured(h) \/ reported(h) \/ getRun(h)
  PROVE  IInv'
<1>1. Others /\ run \in Rows
  BY TypeParts DEF IInv, Others
<1>2. {"create", "capture", "analyst", "poll"} \cup Nodes \subseteq Kinds
      /\ {"task", "ingest", "accept", "off"} \subseteq PCs \ {"write", "grant"}
  BY DEF Kinds, PCs, Sync
<1>3. CASE reserve(h)
  <2>1. Go(h, Frame("create", "task")) /\ UNCHANGED <<run, tree>> /\ Others'
    BY <1>1, <1>3 DEF reserve, Begin, Others, agents
  <2>2. Harmless(Frame("create", "task"))
    BY <1>2, FrameHarmless
  <2> QED
    BY <2>1, <2>2, QuietStep
<1>4. CASE captured(h)
  <2>1. Go(h, Frame("capture", "ingest")) /\ UNCHANGED <<run, tree>> /\ Others'
    BY <1>1, <1>4 DEF captured, Begin, Others, env
  <2>2. Harmless(Frame("capture", "ingest"))
    BY <1>2, FrameHarmless
  <2> QED
    BY <2>1, <2>2, QuietStep
<1>5. CASE reported(h)
  <2>1. PICK n \in Nodes \cup {"analyst"} : Go(h, Frame(n, "accept"))
    BY <1>1, <1>5 DEF reported, Begin, Others
  <2>2. UNCHANGED <<run, tree>> /\ Others'
    BY <1>1, <1>5 DEF reported, Others, env
  <2>3. Harmless(Frame(n, "accept"))
    BY <1>2, FrameHarmless
  <2> QED
    BY <2>1, <2>2, <2>3, QuietStep
<1>6. CASE getRun(h)
  <2> DEFINE f == Frame("poll", "off")
  <2>1. Go(h, advanceRunCompiler(f, run)) /\ UNCHANGED <<run, tree>> /\ Others'
    BY <1>1, <1>6 DEF getRun, Others, agents, env
  <2>2. f \in Frames
    BY <1>2, FrameType
  <2>3. Harmless(advanceRunCompiler(f, run))
    BY <1>1, <2>2, LoopHarmless
  <2> QED
    BY <2>1, <2>3, QuietStep
<1> QED
  BY <1>3, <1>4, <1>5, <1>6

\* The steps of createRun behind its insert keep the invariant.
LEMMA RequestStep ==
  ASSUME IInv, NEW h \in Calls,
         requestSnapshotCapture(h) \/ enqueueReadyAgentWork(h) \/ answer(h)
  PROVE  IInv'
<1>1. Others
  BY TypeParts DEF IInv
<1>2. {"spawn", "ready"} \subseteq PCs \ {"write", "grant", "accept"}
  BY DEF PCs, Sync
<1>3. Harmless([call[h] EXCEPT !.pc = "spawn"]) /\ Harmless([call[h] EXCEPT !.pc = "ready"])
  BY <1>2, PcHarmless
<1>4. CASE requestSnapshotCapture(h)
  <2>1. Go(h, [call[h] EXCEPT !.pc = "spawn"]) /\ UNCHANGED <<run, tree>> /\ Others'
    BY <1>1, <1>4 DEF requestSnapshotCapture, Others, env
  <2> QED
    BY <1>3, <2>1, QuietStep
<1>5. CASE enqueueReadyAgentWork(h)
  <2>1. Go(h, [call[h] EXCEPT !.pc = "ready"]) \/ Go(h, Idle)
    BY <1>5 DEF enqueueReadyAgentWork
  <2>2. UNCHANGED <<run, tree>> /\ Others'
    BY <1>1, <1>5 DEF enqueueReadyAgentWork, Others, env
  <2> QED
    BY <1>3, <2>1, <2>2, IdleHarmless, QuietStep
<1>6. CASE answer(h)
  <2>1. Go(h, Idle) /\ UNCHANGED <<run, tree>> /\ Others'
    BY <1>1, <1>6 DEF answer, Others, env
  <2> QED
    BY <2>1, IdleHarmless, QuietStep
<1> QED
  BY <1>4, <1>5, <1>6

\* The settlement of agent work and the ingest of the snapshot keep the invariant.
LEMMA SettleStep ==
  ASSUME IInv, NEW h \in Calls,
         acceptEnvelope(h) \/ selectAndPersistProfile(h) \/ settled(h) \/ ingestCapturedSnapshot(h)
  PROVE  IInv'
<1>1. Others /\ run \in Rows /\ call[h] \in Frames
  BY TypeParts DEF IInv, Others
<1>2. {"compile", "requeue"} \subseteq PCs \ {"write", "grant", "accept"}
  BY DEF PCs, Sync
<1>3. Harmless([call[h] EXCEPT !.pc = "compile"]) /\ Harmless([call[h] EXCEPT !.pc = "requeue"])
  BY <1>2, PcHarmless
<1>4. CASE acceptEnvelope(h)
  <2>1. call[h].kind # "analyst" => call[h].kind \in Nodes
    BY <1>4 DEF IInv, SettlesNode, acceptEnvelope, At
  <2>2. Go(h, [call[h] EXCEPT !.pc = "compile"]) \/ Go(h, [call[h] EXCEPT !.pc = "requeue"])
    BY <1>4 DEF acceptEnvelope
  <2>3. UNCHANGED <<run, tree>> /\ Others'
    BY <1>1, <1>4, <2>1 DEF acceptEnvelope, Others
  <2> QED
    BY <1>3, <2>2, <2>3, QuietStep
<1>5. CASE selectAndPersistProfile(h)
  <2>1. Go(h, [call[h] EXCEPT !.pc = "requeue"]) /\ UNCHANGED <<run, tree>> /\ Others'
    BY <1>1, <1>5 DEF selectAndPersistProfile, Others, env
  <2> QED
    BY <1>3, <2>1, QuietStep
<1>6. Harmless(advanceRunCompiler(call[h], run))
  BY <1>1, LoopHarmless
<1>7. CASE settled(h)
  <2>1. Go(h, advanceRunCompiler(call[h], run)) /\ UNCHANGED <<run, tree>> /\ Others'
    BY <1>1, <1>7 DEF settled, Others, env
  <2> QED
    BY <1>6, <2>1, QuietStep
<1>8. CASE ingestCapturedSnapshot(h)
  <2>1. Go(h, advanceRunCompiler(call[h], run)) /\ UNCHANGED <<run, tree>> /\ Others'
    BY <1>1, <1>8 DEF ingestCapturedSnapshot, Others, agents, env
  <2> QED
    BY <1>6, <2>1, QuietStep
<1> QED
  BY <1>4, <1>5, <1>7, <1>8

\* The compiler's awaits before the files keep the invariant.
LEMMA CompileStep ==
  ASSUME IInv, NEW h \in Calls,
         \/ persistSealedArtifacts(h) \/ selectedProfile(h) \/ enterContractedAndRunning(h)
         \/ ledgerStored(h) \/ verdictStored(h)
  PROVE  IInv'
<1> DEFINE f == call[h]
<1>1. Others /\ run \in Rows /\ f \in Frames /\ f.b \in [Roles -> Authors] /\ h \in Authors
  BY TypeParts, AuthorsType DEF IInv, Others, Frames
<1>2. UNCHANGED <<run, tree>> /\ Others'
  BY <1>1 DEF persistSealedArtifacts, selectedProfile, enterContractedAndRunning, ledgerStored,
              verdictStored, Others, agents, env
<1>3. \A rs : withRoles(f.b, rs, h) \in [Roles -> Authors]
              /\ withRoles(f.b, rs, Agreed) \in [Roles -> Authors]
  BY <1>1, WithRolesType, AuthorsType
<1>4. \A t \in {"SNAPSHOT_VALIDATING", "SNAPSHOT_UPLOADING", "CONTRACTED", "PROFILE_SELECTED",
                "PROFILE_RUNNING", "BLOCKED", "ACCEPTANCE_CHECK", "VERIFIED_ACCEPTED",
                "VERIFIED_REJECTED"} : t \in States /\ t # "AWAITING_APPLY_APPROVAL"
  BY SealTargetType DEF States, SealStates, SEAL_TARGETS
<1>5. CASE persistSealedArtifacts(h)
  <2>1. PICK t \in {"SNAPSHOT_VALIDATING", "SNAPSHOT_UPLOADING"} :
          Go(h, enterRun(f, run, t, withRoles(f.b, SealRoles, h)))
    BY <1>5 DEF persistSealedArtifacts
  <2>2. Harmless(enterRun(f, run, t, withRoles(f.b, SealRoles, h)))
    BY <1>1, <1>3, <1>4, EnterHarmless
  <2> QED
    BY <1>2, <2>1, <2>2, QuietStep
<1>6. CASE selectedProfile(h)
  <2>1. Go(h, Return(f)) \/ Go(h, [f EXCEPT !.pc = "profile"])
    BY <1>6 DEF selectedProfile
  <2>2. "profile" \in PCs \ {"write", "grant", "accept"}
    BY DEF PCs, Sync
  <2>3. Harmless(Return(f)) /\ Harmless([f EXCEPT !.pc = "profile"])
    BY <1>1, <2>2, LoopHarmless, PcHarmless
  <2> QED
    BY <1>2, <2>1, <2>3, QuietStep
<1>7. CASE enterContractedAndRunning(h)
  <2> DEFINE b == withRoles(f.b, {"contract", "profile"}, Agreed)
  <2>1. PICK t \in {"CONTRACTED", "PROFILE_SELECTED", "PROFILE_RUNNING"} :
          Go(h, enterRun(f, run, t, b))
    BY <1>7 DEF enterContractedAndRunning
  <2>2. Harmless(enterRun(f, run, t, b))
    BY <1>1, <1>3, <1>4, EnterHarmless
  <2> QED
    BY <1>2, <2>1, <2>2, QuietStep
<1>8. CASE ledgerStored(h)
  <2> DEFINE b == withRoles(f.b, {"ledger"}, h)
  <2>1. \/ Go(h, Return(f))
        \/ \E t \in {"BLOCKED", "ACCEPTANCE_CHECK"} : Go(h, enterRun(f, run, t, b))
        \/ Go(h, [f EXCEPT !.pc = "verdict", !.b = b])
    BY <1>8 DEF ledgerStored
  <2>2. Harmless(Return(f))
    BY <1>1, LoopHarmless
  <2>3. \A t \in {"BLOCKED", "ACCEPTANCE_CHECK"} : Harmless(enterRun(f, run, t, b))
    BY <1>1, <1>3, <1>4, EnterHarmless
  <2>4. Harmless([f EXCEPT !.pc = "verdict", !.b = b])
    <3>1. b \in [Roles -> Authors] /\ "verdict" \in PCs
      BY <1>3 DEF PCs
    <3>2. f.target = "AWAITING_APPLY_APPROVAL" => tree = "written"
      BY DEF IInv, TreeInv
    <3> HIDE DEF b, f
    <3> QED
      BY <1>1, <3>1, <3>2 DEF Harmless, Frames
  <2> QED
    BY <1>2, <2>1, <2>2, <2>3, <2>4, QuietStep
<1>9. CASE verdictStored(h)
  <2> DEFINE b == withRoles(f.b, {"verdict"}, h)
  <2>1. PICK t \in {"VERIFIED_ACCEPTED", "VERIFIED_REJECTED"} : Go(h, enterRun(f, run, t, b))
    BY <1>9 DEF verdictStored
  <2>2. Harmless(enterRun(f, run, t, b))
    BY <1>1, <1>3, <1>4, EnterHarmless
  <2> QED
    BY <1>2, <2>1, <2>2, QuietStep
<1> QED
  BY <1>5, <1>6, <1>7, <1>8, <1>9

\* Writing a file keeps the invariant: the call that writes has the turn, so no other is
\* at its files, and none has asked for the apply of a tree that is not written yet.
LEMMA WriteStep ==
  ASSUME IInv, NEW h \in Calls, writeOverlayBytes(h)  PROVE IInv'
<1> DEFINE f == IF tree = "clean" THEN call[h] ELSE [call[h] EXCEPT !.pc = "grant"]
<1>1. /\ run.state = "VERIFIED_ACCEPTED" /\ tree \in {"clean", "partial"} /\ call[h] \in Frames
      /\ call[h].pc = "write" /\ call[h].target # "AWAITING_APPLY_APPROVAL"
  BY DEF IInv, TypeOK, TreeInv, writeOverlayBytes, At
<1>2. f \in Frames /\ f.target = call[h].target /\ f.pc = (IF tree = "clean" THEN "write" ELSE "grant")
  <2>1. "grant" \in PCs
    BY DEF PCs
  <2> QED
    BY <1>1, <2>1, PcType
<1>3. /\ call' \in [Calls -> Frames] /\ call'[h] = f
      /\ \A g \in Calls : g # h => call'[g] = call[g]
  BY <1>2 DEF IInv, TypeOK, Go, writeOverlayBytes
<1>4. tree' = (IF tree = "clean" THEN "partial" ELSE "written") /\ UNCHANGED run
  BY DEF writeOverlayBytes
<1>5. \A g \in Calls : g # h => call[g].pc # "write" /\ call[g].pc # "grant"
                                /\ call[g].target # "AWAITING_APPLY_APPROVAL"
  BY <1>1 DEF writeOverlayBytes, At, Turn, Sync, IInv, TreeInv
<1> HIDE DEF f
<1>6. TreeInv'
  BY <1>1, <1>2, <1>3, <1>4, <1>5 DEF TreeInv
<1>7. SettlesNode'
  BY <1>2, <1>3 DEF IInv, SettlesNode
<1>8. Others'
  BY <1>4, TypeParts DEF IInv, Others, writeOverlayBytes, agents, env
<1>9. TypeOK'
  <2>1. (TypeOK <=> call \in [Calls -> Frames] /\ Others)'
    BY TypeParts, PTL
  <2> QED
    BY <1>3, <1>8, <2>1
<1> QED
  BY <1>6, <1>7, <1>9 DEF IInv

\* The grant, the receipt and the result keep the invariant: a grant is behind the files.
LEMMA ArtifactStep ==
  ASSUME IInv, NEW h \in Calls, applyArtifactStored(h)  PROVE IInv'
<1> DEFINE f == call[h]
           b(role) == withRoles(f.b, {role}, h)
<1>1. Others /\ run \in Rows /\ f \in Frames /\ f.b \in [Roles -> Authors] /\ h \in Authors
  BY TypeParts, AuthorsType DEF IInv, Others, Frames
<1>2. UNCHANGED <<run, tree>> /\ Others'
  BY <1>1 DEF applyArtifactStored, Others, agents, env
<1>3. \A role : b(role) \in [Roles -> Authors]
  BY <1>1, WithRolesType
<1>4. \/ f.pc = "grant" /\ Go(h, enterRun(f, run, "AWAITING_APPLY_APPROVAL", b("grant")))
      \/ Go(h, enterRun(f, run, "APPLY_RECONCILING", b("receipt")))
      \/ Go(h, enterRun(f, run, "SUCCEEDED", b("result")))
  BY DEF applyArtifactStored, At
<1>5. {"AWAITING_APPLY_APPROVAL", "APPLY_RECONCILING", "SUCCEEDED"} \subseteq States
  BY DEF States, TreeStates
<1>6. CASE f.pc = "grant" /\ Go(h, enterRun(f, run, "AWAITING_APPLY_APPROVAL", b("grant")))
  <2>1. tree = "written"
    BY <1>6 DEF IInv, TreeInv
  <2>2. Harmless(enterRun(f, run, "AWAITING_APPLY_APPROVAL", b("grant")))
    BY <1>1, <1>3, <1>5, <2>1, EnterHarmless
  <2> QED
    BY <1>2, <1>6, <2>2, QuietStep
<1>7. /\ Harmless(enterRun(f, run, "APPLY_RECONCILING", b("receipt")))
      /\ Harmless(enterRun(f, run, "SUCCEEDED", b("result")))
  BY <1>1, <1>3, <1>5, EnterHarmless
<1> QED
  BY <1>2, <1>4, <1>6, <1>7, QuietStep

\* createRun of the store keeps the invariant: a run without a row has a clean tree.
LEMMA CreateStep ==
  ASSUME IInv, NEW h \in Calls, createRun(h)  PROVE IInv'
<1> DEFINE r == [state |-> "CREATED", version |-> 0, roles |-> withRoles(NoRoles, {"task"}, Agreed)]
           f == enterRun(call[h], r, "SNAPSHOT_REQUESTED", r.roles)
<1>1. Others /\ call[h] \in Frames
  BY TypeParts DEF IInv
<1>2. CASE run.state = "ABSENT"
  <2>1. run' = r /\ Go(h, f) /\ UNCHANGED <<row, agents, tree, env>>
    BY <1>2 DEF createRun
  <2>2. r \in Rows /\ r.roles \in [Roles -> Authors] /\ "SNAPSHOT_REQUESTED" \in States
    <3>1. withRoles(NoRoles, {"task"}, Agreed) \in [Roles -> Authors]
      BY NoRolesType, AuthorsType, WithRolesType
    <3>2. "CREATED" \in States /\ "SNAPSHOT_REQUESTED" \in States
      BY SealTargetType DEF States, SealStates, SEAL_TARGETS
    <3> QED
      BY <3>1, <3>2 DEF Rows
  <2>3. f \in Frames /\ f.pc = "enter" /\ f.target = "SNAPSHOT_REQUESTED"
    BY <1>1, <2>2, EnterType
  <2> HIDE DEF f
  <2>4. /\ call' \in [Calls -> Frames] /\ call'[h] = f
        /\ \A g \in Calls : g # h => call'[g] = call[g]
    BY <2>1, <2>3 DEF IInv, TypeOK, Go
  <2>5. \A g \in Calls : call[g].pc # "write"
    BY <1>2 DEF IInv, TreeInv
  <2>6. tree = "clean"
    BY <1>2 DEF IInv, TreeInv, TreeStates
  <2>7. TreeInv'
    BY <2>1, <2>3, <2>4, <2>5, <2>6 DEF IInv, TreeInv
  <2>8. SettlesNode'
    BY <2>3, <2>4 DEF IInv, SettlesNode
  <2>9. Others'
    BY <1>1, <2>1, <2>2 DEF Others, agents, env
  <2>10. (TypeOK <=> call \in [Calls -> Frames] /\ Others)'
    BY TypeParts, PTL
  <2> QED
    BY <2>4, <2>7, <2>8, <2>9, <2>10 DEF IInv
<1>3. CASE run.state # "ABSENT"
  <2>1. Go(h, Idle) /\ UNCHANGED <<run, tree>> /\ Others'
    BY <1>1, <1>3 DEF createRun, Others, agents, env
  <2> QED
    BY <2>1, IdleHarmless, QuietStep
<1> QED
  BY <1>2, <1>3

\* A commit keeps the invariant: no other call is at its files when it happens, what was
\* accepted stays accepted, and the files of a run that is accepted now are still clean.
LEMMA CommitStep ==
  ASSUME IInv, NEW h \in Calls, Commit(h)  PROVE IInv'
<1> DEFINE f == call[h]
           r == [state |-> f.target, version |-> run.version + 1, roles |-> Stored(f)]
<1>1. Others /\ run \in Rows /\ f \in Frames
  BY TypeParts DEF IInv, Others
<1>2. CASE MayEnter(f)
  <2>1. run' = r /\ UNCHANGED <<row, agents, tree, env>>
    BY <1>2 DEF Commit
  <2>2. PICK root : Go(h, Continue(f, r, root))
    BY <1>2 DEF Commit
  <2>3. r \in Rows /\ r.state = f.target
    BY <1>1, StoredType DEF Rows, Frames
  <2> DEFINE c == Continue(f, r, root)
  <2>4. /\ c \in Frames /\ c.pc # "grant" /\ c.target # "AWAITING_APPLY_APPROVAL"
        /\ c.pc = "write" => f.target = "VERIFIED_ACCEPTED"
    BY <1>1, <2>3, ContinueType
  <2>5. c.pc # "accept"
    BY <1>1, <2>3, ContinueAccept
  <2> HIDE DEF c
  <2>6. /\ call' \in [Calls -> Frames] /\ call'[h] = c
        /\ \A g \in Calls : g # h => call'[g] = call[g]
    BY <2>2, <2>4 DEF IInv, TypeOK, Go, c
  <2>7. \A g \in Calls : g # h => call[g].pc # "write"
    BY DEF Commit, At, Turn, Sync
  <2>8. /\ f.target = "VERIFIED_ACCEPTED" => run.state = "ACCEPTANCE_CHECK"
        /\ run.state \in {"VERIFIED_ACCEPTED", "SUCCEEDED"} \cup TreeStates
             => f.target \in {"SUCCEEDED"} \cup TreeStates
    BY <1>2, EdgeFacts DEF MayEnter
  <2>9. f.target = "VERIFIED_ACCEPTED" => tree = "clean"
    BY <2>8 DEF IInv, TreeInv, TreeStates
  <2>10. tree # "clean" => f.target \in {"SUCCEEDED"} \cup TreeStates
    BY <2>8 DEF IInv, TreeInv
  <2> HIDE DEF f
  <2>11. TreeInv'
    <3>1. run'.state = f.target /\ tree' = tree
      BY <2>1, <2>3
    <3> HIDE DEF r
    <3> QED
      BY <2>4, <2>6, <2>7, <2>9, <2>10, <3>1 DEF IInv, TreeInv
  <2>12. SettlesNode'
    BY <2>5, <2>6 DEF IInv, SettlesNode
  <2>13. Others'
    BY <1>1, <2>1, <2>3 DEF Others, agents, env
  <2>14. (TypeOK <=> call \in [Calls -> Frames] /\ Others)'
    BY TypeParts, PTL
  <2> QED
    BY <2>6, <2>11, <2>12, <2>13, <2>14 DEF IInv
<1>3. CASE ~MayEnter(f)
  <2>1. Go(h, Idle) /\ UNCHANGED <<run, tree>> /\ Others'
    BY <1>1, <1>3 DEF Commit, Others, agents, env
  <2> QED
    BY <2>1, IdleHarmless, QuietStep
<1> QED
  BY <1>2, <1>3

\* A failing store, a failed capture and a crash keep the invariant.
LEMMA FaultStep ==
  ASSUME IInv, (\E h \in Calls : storeFails(h)) \/ captureFailed \/ crash
  PROVE  IInv'
<1>1. Others
  BY TypeParts DEF IInv
<1>2. ASSUME NEW h \in Calls, storeFails(h)  PROVE IInv'
  <2>1. Go(h, [call[h] EXCEPT !.pc = "requeue"]) \/ Go(h, Idle)
    BY <1>2 DEF storeFails
  <2>2. "requeue" \in PCs \ {"write", "grant", "accept"}
    BY DEF PCs, Sync
  <2>3. Harmless([call[h] EXCEPT !.pc = "requeue"])
    BY <2>2, PcHarmless
  <2>4. UNCHANGED <<run, tree>> /\ Others'
    BY <1>1, <1>2 DEF storeFails, Others, agents
  <2> QED
    BY <2>1, <2>3, <2>4, IdleHarmless, QuietStep
<1>3. (TypeOK <=> call \in [Calls -> Frames] /\ Others)'
  BY TypeParts, PTL
<1>4. CASE captureFailed
  <2>1. Others' /\ UNCHANGED <<run, call, tree>>
    BY <1>1, <1>4 DEF captureFailed, Others
  <2>2. SettlesNode' /\ TreeInv'
    BY <2>1 DEF IInv, SettlesNode, TreeInv
  <2> QED
    BY <1>3, <2>1, <2>2 DEF IInv, TypeOK
<1>5. CASE crash
  <2>1. Others' /\ UNCHANGED <<run, tree>> /\ call' = [h \in Calls |-> Idle]
    BY <1>1, <1>5 DEF crash, Others, agents
  <2>2. Idle.pc = "off" /\ Idle.target = "ABSENT"
    BY DEF Idle
  <2>3. SettlesNode' /\ TreeInv'
    BY <2>1, <2>2 DEF IInv, SettlesNode, TreeInv
  <2> QED
    BY <1>3, <2>1, <2>3, IdleType DEF IInv
<1> QED
  BY <1>2, <1>4, <1>5

\* The invariant is inductive.
LEMMA StepKeepsIInv == IInv /\ [Next]_vars => IInv'
<1> SUFFICES ASSUME IInv, [Next]_vars  PROVE IInv'
  OBVIOUS
<1>1. CASE UNCHANGED vars
  BY <1>1 DEF vars, agents, env, IInv, TypeOK, SettlesNode, TreeInv
<1>2. CASE \E h \in Calls : Advance(h)
  BY <1>2, CommitStep, CreateStep, RequestStep, SettleStep, CompileStep, WriteStep, ArtifactStep
     DEF Advance
<1>3. CASE \E h \in Calls : reserve(h) \/ captured(h) \/ reported(h) \/ getRun(h)
  BY <1>3, BeginStep
<1>4. CASE (\E h \in Calls : storeFails(h)) \/ captureFailed \/ crash
  BY <1>4, FaultStep
<1> QED
  BY <1>1, <1>2, <1>3, <1>4 DEF Next, Serve

\* A run that was not asked for satisfies the invariant.
LEMMA InitIInv == Init => IInv
<1> SUFFICES ASSUME Init PROVE IInv
  OBVIOUS
<1>1. "ABSENT" \in States
  BY DEF States
<1>2. Idle.pc = "off" /\ Idle.target = "ABSENT"
  BY DEF Idle
<1>3. TypeOK
  BY <1>1, IdleType, NoRolesType DEF Init, TypeOK
<1>4. SettlesNode /\ TreeInv
  BY <1>2 DEF Init, SettlesNode, TreeInv
<1> QED
  BY <1>3, <1>4 DEF IInv

\* The run compiler keeps its types: a settlement never takes a node that the profile does
\* not have, a stale call never leaves the states, and every binding names its author.
THEOREM TypeCorrect == Spec => []TypeOK
<1>1. IInv => TypeOK
  BY DEF IInv
<1> QED
  BY InitIInv, StepKeepsIInv, <1>1, PTL DEF Spec
-----------------------------------------------------------------------------
(* Refinement.                                                             *)

\* A commit moves the abstract run along its phases, or not at all.
LEMMA CommitImplements ==
  ASSUME IInv, NEW h \in Calls, Commit(h)
  PROVE  [Life!LifeNext]_(Life!lifeVars)
<1> DEFINE f == call[h]
<1>1. CASE MayEnter(f)
  <2>1. run'.state = f.target /\ UNCHANGED tree
    BY <1>1 DEF Commit
  <2>2. \/ PhaseOf(run.state) = PhaseOf(f.target)
        \/ <<PhaseOf(run.state), PhaseOf(f.target)>> \in Life!MayFollow
        \/ run.state = "VERIFIED_ACCEPTED" /\ f.target = "AWAITING_APPLY_APPROVAL"
    BY <1>1, EdgeFacts DEF MayEnter
  <2>3. PhaseOf(run'.state) = PhaseOf(f.target)
    BY <2>1
  <2>4. CASE PhaseOf(run.state) = PhaseOf(f.target)
    BY <2>1, <2>3, <2>4 DEF Life!lifeVars
  <2>5. CASE <<PhaseOf(run.state), PhaseOf(f.target)>> \in Life!MayFollow
    BY <2>1, <2>3, <2>5 DEF Life!LifeNext, Life!Move
  <2>6. CASE run.state = "VERIFIED_ACCEPTED" /\ f.target = "AWAITING_APPLY_APPROVAL"
    <3>1. tree = "written"
      BY <2>6 DEF IInv, TreeInv
    <3>2. PhaseOf(run.state) = "accepted" /\ PhaseOf(run'.state) = "applying"
      BY <2>3, <2>6 DEF PhaseOf, TreeStates
    <3> QED
      BY <2>1, <3>1, <3>2 DEF Life!LifeNext, Life!Apply
  <2> QED
    BY <2>2, <2>4, <2>5, <2>6
<1>2. CASE ~MayEnter(f)
  BY <1>2 DEF Commit, Life!lifeVars
<1> QED
  BY <1>1, <1>2

\* Every step of the run compiler is a step of the abstract run, or none.
LEMMA StepImplements == IInv /\ [Next]_vars => [Life!LifeNext]_(Life!lifeVars)
<1> SUFFICES ASSUME IInv, [Next]_vars  PROVE [Life!LifeNext]_(Life!lifeVars)
  OBVIOUS
<1>1. CASE UNCHANGED <<run, tree>>
  BY <1>1 DEF Life!lifeVars
<1>2. ASSUME NEW h \in Calls, createRun(h)  PROVE [Life!LifeNext]_(Life!lifeVars)
  <2>1. UNCHANGED tree /\ ((run.state = "ABSENT" /\ run'.state = "CREATED") \/ UNCHANGED run)
    BY <1>2 DEF createRun
  <2>2. PhaseOf("ABSENT") = PhaseOf("CREATED")
    BY DEF PhaseOf, TreeStates
  <2> QED
    BY <2>1, <2>2 DEF Life!lifeVars
<1>3. ASSUME NEW h \in Calls, writeOverlayBytes(h)  PROVE [Life!LifeNext]_(Life!lifeVars)
  <2>1. run.state = "VERIFIED_ACCEPTED" /\ tree # "written"
    BY <1>3 DEF IInv, TreeInv, writeOverlayBytes, At
  <2>2. PhaseOf(run.state) = "accepted"
    BY <2>1 DEF PhaseOf, TreeStates
  <2>3. tree' \in {"partial", "written"} /\ UNCHANGED run
    BY <1>3 DEF writeOverlayBytes
  <2> QED
    BY <2>1, <2>2, <2>3 DEF Life!LifeNext, Life!Touch
<1>4. \/ UNCHANGED <<run, tree>>
      \/ \E h \in Calls : Commit(h) \/ createRun(h) \/ writeOverlayBytes(h)
  BY ZenonT(60) DEF Next, Serve, Advance, vars, reserve, captured, reported, getRun, storeFails, captureFailed,
         crash, requestSnapshotCapture, enqueueReadyAgentWork, answer, acceptEnvelope,
         selectAndPersistProfile, settled, ingestCapturedSnapshot, persistSealedArtifacts,
         selectedProfile, enterContractedAndRunning, ledgerStored, verdictStored,
         applyArtifactStored
<1> QED
  BY <1>1, <1>2, <1>3, <1>4, CommitImplements

\* The run compiler implements RunLifecycle: under any number of racing calls, failing
\* stores and crashes the workspace is written only after an accepting verdict, and a run
\* counts as applied only when all of it was written.
THEOREM Refinement == Spec => ImplementsLifecycle
<1>1. Init => Life!LifeInit
  BY DEF Init, Life!LifeInit, PhaseOf, TreeStates
<1> QED
  BY InitIInv, StepKeepsIInv, StepImplements, <1>1, PTL DEF Spec, ImplementsLifecycle, Life!LifeSpec
-----------------------------------------------------------------------------
(* Bindings.                                                               *)

\* No artifact of the acceptance is bound; at most the ledger is; all are h's.
NotJudged(b) == \A r \in JudgeRoles : b[r] = Nobody
OnlyLedger(b) == \A r \in JudgeRoles \ {"ledger"} : b[r] = Nobody
Own(h, b) == \A r \in JudgeRoles : b[r] \in {h, Nobody}

\* The artifacts of each group have one author.
Unmixed(b) ==
  \A S \in {SealRoles, JudgeRoles} : \A r, s \in S : b[r] # Nobody /\ b[s] # Nobody => b[r] = b[s]

\* States before the acceptance, and behind it.
Early ==
  SealStates \cup
    {"CREATED", "PREFLIGHT_COMPLETE", "CONTRACTED", "PROFILE_SELECTED", "PROFILE_RUNNING"}
Late  == TreeStates \cup {"VERIFIED_ACCEPTED", "VERIFIED_REJECTED", "SUCCEEDED"}

\* The bindings the row has in its state.
RowFits(r) ==
  /\ Unmixed(r.roles)
  /\ r.state \in Early => NotJudged(r.roles)
  /\ r.state = "ACCEPTANCE_CHECK" => OnlyLedger(r.roles)

\* The bindings call h carries with it, by where it is and what it is about to enter.
BindingsFit(h, f) ==
  /\ Unmixed(f.b)
  /\ f.pc \in {"seal", "contract", "profile"} => NotJudged(f.b)
  /\ f.pc = "ledger" => OnlyLedger(f.b)
  /\ f.pc = "verdict" => OnlyLedger(f.b) /\ Own(h, f.b)
  /\ f.pc \in {"write", "grant", "receipt", "result"} => Own(h, f.b)
  /\ f.pc = "enter" =>
       /\ f.target \in Early => NotJudged(f.b)
       /\ f.target = "ACCEPTANCE_CHECK" => OnlyLedger(f.b) /\ Own(h, f.b)
       /\ f.target \in Late => Own(h, f.b)

AuthorInv == RowFits(run) /\ \A h \in Calls : BindingsFit(h, call[h])

-----------------------------------------------------------------------------
(* Answers.                                                                *)

\* The call has inserted the run and has not answered.
Creating(f) ==
  /\ f.kind = "create"
  /\ \/ f.pc \in {"enqueue", "spawn", "ready"}
     \/ f.pc = "enter" /\ f.target = "SNAPSHOT_REQUESTED"

\* Only createRun is at its own steps, and only the report of the snapshot looks after
\* missing agent work; behind its first step createRun has queued the capture.
CreateFits(f) ==
  /\ f.pc \in {"task", "enqueue", "spawn"} \/ (f.pc = "enter" /\ f.target = "SNAPSHOT_REQUESTED")
       => f.kind = "create"
  /\ f.pc = "restock" => f.kind = "capture"
  /\ f.pc = "spawn" \/ (f.pc = "ready" /\ f.kind = "create") => capture # "none"

AnswerInv ==
  /\ AnsweredMeansQueued
  /\ \A h \in Calls : CreateFits(call[h])
  /\ \A h \in Calls : Creating(call[h]) => run.state # "ABSENT" /\ row # "completed"
  /\ \A g, h \in Calls : Creating(call[g]) /\ Creating(call[h]) => g = h
-----------------------------------------------------------------------------
(* Bindings that are copied, cleared or made by the call itself.           *)

\* Clearing bindings mixes nothing and adds nothing.
LEMMA CopyFits ==
  ASSUME NEW h, NEW b, NEW c, \A r \in Roles : c[r] \in {b[r], Nobody}
  PROVE  /\ Unmixed(b) => Unmixed(c)
         /\ NotJudged(b) => NotJudged(c)
         /\ OnlyLedger(b) => OnlyLedger(c)
         /\ Own(h, b) => Own(h, c)
<1>1. SealRoles \subseteq Roles /\ JudgeRoles \subseteq Roles
  BY DEF Roles
<1>2. Unmixed(b) => Unmixed(c)
  BY <1>1 DEF Unmixed
<1> QED
  BY <1>1, <1>2 DEF NotJudged, OnlyLedger, Own

\* What a commit stores is a copy of what the call carries.
LEMMA StoredFits ==
  ASSUME NEW h, NEW f
  PROVE  /\ Unmixed(f.b) => Unmixed(Stored(f))
         /\ NotJudged(f.b) => NotJudged(Stored(f))
         /\ OnlyLedger(f.b) => OnlyLedger(Stored(f))
         /\ Own(h, f.b) => Own(h, Stored(f))
<1>1. \A r \in Roles : Stored(f)[r] \in {f.b[r], Nobody}
  BY DEF Stored
<1> QED
  BY <1>1, CopyFits

\* Sealing replaces all that was sealed.
LEMMA SealFits ==
  ASSUME NEW h, NEW b, NotJudged(b)
  PROVE  LET c == withRoles(b, SealRoles, h) IN Unmixed(c) /\ NotJudged(c)
<1> DEFINE c == withRoles(b, SealRoles, h)
<1>1. SealRoles \subseteq Roles /\ JudgeRoles \subseteq Roles /\ SealRoles \cap JudgeRoles = {}
  BY DEF Roles, SealRoles, JudgeRoles
<1>2. (\A r \in SealRoles : c[r] = h) /\ (\A r \in JudgeRoles : c[r] = Nobody)
  BY <1>1 DEF withRoles, NotJudged
<1> HIDE DEF c
<1>3. Unmixed(c) /\ NotJudged(c)
  BY <1>2 DEF Unmixed, NotJudged
<1> QED
  BY <1>3 DEF c

\* The contract and the profile belong to neither group.
LEMMA ContractFits ==
  ASSUME NEW b, NEW a, Unmixed(b), NotJudged(b)
  PROVE  LET c == withRoles(b, {"contract", "profile"}, a) IN Unmixed(c) /\ NotJudged(c)
<1> DEFINE c == withRoles(b, {"contract", "profile"}, a)
<1>1. /\ SealRoles \subseteq Roles /\ JudgeRoles \subseteq Roles
      /\ {"contract", "profile"} \cap (SealRoles \cup JudgeRoles) = {}
  BY DEF Roles, SealRoles, JudgeRoles
<1>2. \A r \in SealRoles \cup JudgeRoles : c[r] = b[r]
  BY <1>1 DEF withRoles
<1> HIDE DEF c
<1>3. Unmixed(c) /\ NotJudged(c)
  BY <1>2 DEF Unmixed, NotJudged
<1> QED
  BY <1>3 DEF c

\* A call that adds its own artifact of the acceptance to bindings that are its own, or to
\* none, mixes nothing; a ledger it replaces was alone.
LEMMA JudgeFits ==
  ASSUME NEW h, NEW b, NEW role \in JudgeRoles, Unmixed(b),
         Own(h, b) \/ (role = "ledger" /\ OnlyLedger(b))
  PROVE  LET c == withRoles(b, {role}, h)
         IN  Unmixed(c) /\ Own(h, c) /\ (role = "ledger" /\ OnlyLedger(b) => OnlyLedger(c))
<1> DEFINE c == withRoles(b, {role}, h)
<1>1. SealRoles \subseteq Roles /\ JudgeRoles \subseteq Roles /\ SealRoles \cap JudgeRoles = {}
  BY DEF Roles, SealRoles, JudgeRoles
<1>2. \A r \in SealRoles : c[r] = b[r]
  BY <1>1 DEF withRoles
<1>3. \A r \in JudgeRoles : c[r] = (IF r = role THEN h ELSE b[r])
  BY <1>1 DEF withRoles
<1> HIDE DEF c
<1>4. Own(h, c) /\ (role = "ledger" /\ OnlyLedger(b) => OnlyLedger(c))
  BY <1>3 DEF Own, OnlyLedger
<1>5. Unmixed(c)
  BY <1>2, <1>4 DEF Unmixed, Own
<1> QED
  BY <1>4, <1>5 DEF c

\* Nothing bound fits everywhere.
LEMMA NoneFits == Unmixed(NoRoles) /\ NotJudged(NoRoles)
<1>1. \A r \in SealRoles \cup JudgeRoles : NoRoles[r] = Nobody
  BY DEF NoRoles, Roles
<1> QED
  BY <1>1 DEF Unmixed, NotJudged
-----------------------------------------------------------------------------
(* The frames of a call fit.                                               *)

\* Steps that bind nothing and enter nothing.
Plain == PCs \ {"seal", "contract", "profile", "ledger", "verdict", "write", "grant", "receipt",
                "result", "enter"}

\* A call that is off, or at a step that binds nothing, carries nothing that could be mixed.
LEMMA PlainFits ==
  ASSUME NEW h, NEW f, Unmixed(f.b), f.pc \in Plain  PROVE BindingsFit(h, f)
BY DEF BindingsFit, Plain

\* A call that has read nothing yet fits, and so does one that returns.
LEMMA FreshFits ==
  ASSUME NEW h, NEW f
  PROVE  /\ BindingsFit(h, Idle) /\ BindingsFit(h, Return(f))
         /\ \A kind : \A pc \in Plain : BindingsFit(h, Frame(kind, pc))
<1>1. Idle.b = NoRoles /\ Idle.pc = "off"
  BY DEF Idle
<1>2. \A kind, pc : Frame(kind, pc).b = NoRoles /\ Frame(kind, pc).pc = pc
  BY DEF Frame, Idle
<1>3. "off" \in Plain /\ "restock" \in Plain
  BY DEF Plain, PCs, Sync
<1>4. BindingsFit(h, Idle) /\ \A kind : \A pc \in Plain : BindingsFit(h, Frame(kind, pc))
  BY <1>1, <1>2, <1>3, NoneFits, PlainFits
<1> QED
  BY <1>3, <1>4 DEF Return

\* A call that waits on a row fits when the bindings of the row fit the wait.
LEMMA AwaitFits ==
  ASSUME NEW h, NEW f, NEW r, NEW pc \in PCs \ {"enter"}, Unmixed(r.roles),
         pc \in {"seal", "contract", "profile"} => NotJudged(r.roles),
         pc = "ledger" => OnlyLedger(r.roles),
         pc = "verdict" => OnlyLedger(r.roles) /\ Own(h, r.roles),
         pc \in {"write", "grant", "receipt", "result"} => Own(h, r.roles)
  PROVE  BindingsFit(h, Await(f, r, pc))
<1>1. Await(f, r, pc).b = r.roles /\ Await(f, r, pc).pc = pc
  BY DEF Await, Idle
<1> QED
  BY <1>1 DEF BindingsFit

\* A call about to enter t fits when what it carries fits t.
LEMMA EnterFits ==
  ASSUME NEW h, NEW f, NEW r, NEW t, NEW b, Unmixed(b),
         t \in Early => NotJudged(b),
         t = "ACCEPTANCE_CHECK" => OnlyLedger(b) /\ Own(h, b),
         t \in Late => Own(h, b)
  PROVE  BindingsFit(h, enterRun(f, r, t, b))
<1>1. /\ enterRun(f, r, t, b).b = b /\ enterRun(f, r, t, b).pc = "enter"
      /\ enterRun(f, r, t, b).target = t
  BY DEF enterRun, Idle
<1> QED
  BY <1>1 DEF BindingsFit

\* A turn of the loop over a row that fits leaves a call that fits.
LEMMA LoopFits ==
  ASSUME NEW h, NEW f, NEW r, RowFits(r)
  PROVE  BindingsFit(h, advanceRunCompiler(f, r))
<1>1. {"seal", "contract", "ledger"} \subseteq PCs \ {"enter"}
  BY DEF PCs, Sync
<1>2. Unmixed(r.roles) /\ (NotJudged(r.roles) => OnlyLedger(r.roles))
  BY DEF RowFits, NotJudged, OnlyLedger
<1>3. CASE /\ r.state \in Early
           /\ advanceRunCompiler(f, r) \in {Await(f, r, pc) : pc \in {"seal", "contract", "ledger"}}
  <2>1. NotJudged(r.roles)
    BY <1>3 DEF RowFits
  <2> QED
    BY <1>1, <1>2, <1>3, <2>1, AwaitFits
<1>4. CASE r.state = "ACCEPTANCE_CHECK" /\ advanceRunCompiler(f, r) = Await(f, r, "ledger")
  <2>1. OnlyLedger(r.roles)
    BY <1>4 DEF RowFits
  <2> QED
    BY <1>1, <1>2, <1>4, <2>1, AwaitFits
<1>5. CASE advanceRunCompiler(f, r) = enterRun(f, r, "BLOCKED", r.roles)
  <2>1. "BLOCKED" \notin Early /\ "BLOCKED" \notin Late
    BY DEF Early, Late, SealStates, SEAL_TARGETS, TreeStates
  <2> QED
    BY <1>2, <1>5, <2>1, EnterFits
<1>6. CASE advanceRunCompiler(f, r) = Return(f)
  BY <1>6, FreshFits
<1>7. /\ {"SNAPSHOT_REQUESTED", "SNAPSHOT_UPLOADING", "SNAPSHOT_VALIDATING"} \subseteq Early
      /\ {"PREFLIGHT_COMPLETE", "CONTRACTED", "PROFILE_SELECTED", "PROFILE_RUNNING"} \subseteq Early
  BY DEF Early, SealStates, SEAL_TARGETS
<1>8. \/ /\ r.state \in Early
         /\ advanceRunCompiler(f, r) \in {Await(f, r, pc) : pc \in {"seal", "contract", "ledger"}}
      \/ r.state = "ACCEPTANCE_CHECK" /\ advanceRunCompiler(f, r) = Await(f, r, "ledger")
      \/ advanceRunCompiler(f, r) = enterRun(f, r, "BLOCKED", r.roles)
      \/ advanceRunCompiler(f, r) = Return(f)
  BY <1>7 DEF advanceRunCompiler
<1> QED
  BY <1>3, <1>4, <1>5, <1>6, <1>8

\* What a commit of a call that fits makes of the row, and of the call.
LEMMA ContinueFits ==
  ASSUME NEW h \in Calls, NEW f \in Frames, NEW r \in Rows, NEW root,
         f.pc = "enter", BindingsFit(h, f), r.state = f.target, r.roles = Stored(f)
  PROVE  RowFits(r) /\ BindingsFit(h, Continue(f, r, root))
<1> DEFINE c == Continue(f, r, root)
<1>1. /\ Unmixed(r.roles)
      /\ r.state \in Early => NotJudged(r.roles) /\ NotJudged(f.b)
      /\ r.state = "ACCEPTANCE_CHECK" => OnlyLedger(r.roles) /\ Own(h, r.roles)
      /\ r.state \in Late => Own(h, r.roles)
  BY StoredFits DEF BindingsFit
<1>2. RowFits(r)
  BY <1>1 DEF RowFits
<1>3. CASE r.state = "SNAPSHOT_REQUESTED"
  <2>1. c = Frame(f.kind, "enqueue")
    BY <1>3 DEF Continue, SealStates, SEAL_TARGETS
  <2>2. "enqueue" \in Plain
    BY DEF Plain, PCs
  <2> QED
    BY <1>2, <2>1, <2>2, FreshFits
<1>4. CASE r.state # "SNAPSHOT_REQUESTED" /\ r.state \in SealStates
  <2>1. c = enterRun(f, r, SEAL_TARGETS[r.state], f.b)
    BY <1>4 DEF Continue, SealStates, SEAL_TARGETS
  <2>2. SEAL_TARGETS[r.state] \in Early \ {"ACCEPTANCE_CHECK"} /\ SEAL_TARGETS[r.state] \notin Late
    BY <1>4 DEF SealStates, SEAL_TARGETS, Early, Late, TreeStates
  <2>3. NotJudged(f.b) /\ Unmixed(f.b)
    BY <1>1, <1>4 DEF Early, BindingsFit
  <2> QED
    BY <1>2, <2>1, <2>2, <2>3, EnterFits
<1>5. CASE r.state # "SNAPSHOT_REQUESTED" /\ r.state \notin SealStates
  <2>1. \/ r.state = "CONTRACTED" /\ c = enterRun(f, r, "PROFILE_SELECTED", r.roles)
        \/ r.state = "PROFILE_SELECTED" /\ c = enterRun(f, r, "PROFILE_RUNNING", r.roles)
        \/ c = enterRun(f, r, "AWAITING_REQUIREMENTS_INPUT", r.roles)
        \/ c = enterRun(f, r, "BLOCKED", r.roles)
        \/ r.state = "AWAITING_APPLY_APPROVAL" /\ c = enterRun(f, r, "APPLY_PREPARING", r.roles)
        \/ r.state = "APPLY_PREPARING" /\ c = enterRun(f, r, "APPLYING", r.roles)
        \/ r.state = "ACCEPTANCE_CHECK" /\ c = Await(f, r, "verdict")
        \/ r.state = "VERIFIED_ACCEPTED" /\ c = Await(f, r, "write")
        \/ r.state = "APPLYING" /\ c = Await(f, r, "receipt")
        \/ r.state = "APPLY_RECONCILING" /\ c = Await(f, r, "result")
        \/ c = advanceRunCompiler(f, r)
    BY <1>5, ZenonT(60) DEF Continue
  <2> SUFFICES BindingsFit(h, c)
    BY <1>2
  <2> HIDE DEF c
  <2>2. /\ {"CONTRACTED", "PROFILE_SELECTED", "PROFILE_RUNNING"} \subseteq Early \ Late
        /\ {"AWAITING_APPLY_APPROVAL", "APPLY_PREPARING", "APPLYING", "APPLY_RECONCILING",
            "VERIFIED_ACCEPTED"} \subseteq Late \ Early
        /\ \A t \in {"AWAITING_REQUIREMENTS_INPUT", "BLOCKED", "ACCEPTANCE_CHECK"} :
             t \notin Early /\ t \notin Late
    BY DEF Early, Late, SealStates, SEAL_TARGETS, TreeStates
  <2>3. CASE /\ r.state \in {"CONTRACTED", "PROFILE_SELECTED"}
             /\ c \in {enterRun(f, r, t, r.roles) : t \in {"PROFILE_SELECTED", "PROFILE_RUNNING"}}
    BY <1>1, <2>2, <2>3, EnterFits
  <2>4. CASE c \in {enterRun(f, r, t, r.roles) : t \in {"AWAITING_REQUIREMENTS_INPUT", "BLOCKED"}}
    BY <1>1, <2>2, <2>4, EnterFits
  <2>5. CASE /\ r.state \in {"AWAITING_APPLY_APPROVAL", "APPLY_PREPARING"}
             /\ c \in {enterRun(f, r, t, r.roles) : t \in {"APPLY_PREPARING", "APPLYING"}}
    BY <1>1, <2>2, <2>5, EnterFits
  <2>6. {"verdict", "write", "receipt", "result"} \subseteq PCs \ {"enter"}
    BY DEF PCs, Sync
  <2>7. CASE r.state = "ACCEPTANCE_CHECK" /\ c = Await(f, r, "verdict")
    BY <1>1, <2>6, <2>7, AwaitFits
  <2>8. CASE /\ r.state \in Late
             /\ c \in {Await(f, r, pc) : pc \in {"write", "receipt", "result"}}
    BY <1>1, <2>6, <2>8, AwaitFits
  <2>9. CASE c = advanceRunCompiler(f, r)
    BY <1>2, <2>9, LoopFits
  <2> QED
    BY <2>1, <2>2, <2>3, <2>4, <2>5, <2>7, <2>8, <2>9
<1> QED
  BY <1>3, <1>4, <1>5
-----------------------------------------------------------------------------
(* Every step keeps the authors apart.                                     *)

\* A step of one call to a frame that fits, on a row that stays.
LEMMA FitStep ==
  ASSUME IInv, AuthorInv, NEW h \in Calls, NEW f, BindingsFit(h, f), Go(h, f), UNCHANGED run
  PROVE  AuthorInv'
<1>1. call'[h] = f /\ \A g \in Calls : g # h => call'[g] = call[g]
  BY DEF IInv, TypeOK, Go
<1>2. \A g \in Calls : BindingsFit(g, call'[g])
  BY <1>1 DEF AuthorInv
<1> QED
  BY <1>2 DEF AuthorInv

\* A call that only moves on, to a step that binds nothing.
LEMMA PlainStep ==
  ASSUME IInv, AuthorInv, NEW h \in Calls, NEW pc \in Plain, Go(h, [call[h] EXCEPT !.pc = pc]),
         UNCHANGED run
  PROVE  AuthorInv'
<1> DEFINE f == [call[h] EXCEPT !.pc = pc]
<1>1. call[h] \in Frames
  BY DEF IInv, TypeOK
<1>2. f.b = call[h].b /\ f.pc = pc
  BY <1>1 DEF Frames
<1>3. Unmixed(call[h].b)
  BY DEF AuthorInv, BindingsFit
<1>4. BindingsFit(h, f)
  BY <1>2, <1>3, PlainFits
<1> QED
  BY <1>4, FitStep

\* The steps of createRun and of the settlement bind nothing.
LEMMA AuthorPlain ==
  ASSUME IInv, AuthorInv, NEW h \in Calls,
         \/ reserve(h) \/ captured(h) \/ reported(h) \/ requestSnapshotCapture(h)
         \/ enqueueReadyAgentWork(h) \/ answer(h) \/ acceptEnvelope(h)
         \/ selectAndPersistProfile(h) \/ storeFails(h)
  PROVE  AuthorInv'
<1>1. UNCHANGED run
  BY DEF reserve, captured, reported, requestSnapshotCapture, enqueueReadyAgentWork, answer,
         acceptEnvelope, selectAndPersistProfile, storeFails
<1>2. \/ \E kind : \E pc \in {"task", "ingest", "accept"} : Go(h, Frame(kind, pc))
      \/ \E pc \in {"spawn", "ready", "compile", "requeue"} : Go(h, [call[h] EXCEPT !.pc = pc])
      \/ Go(h, Idle)
  BY DEF reserve, captured, reported, requestSnapshotCapture, enqueueReadyAgentWork, answer,
         acceptEnvelope, selectAndPersistProfile, storeFails, Begin
<1>3. {"task", "ingest", "accept", "spawn", "ready", "compile", "requeue"} \subseteq Plain
  BY DEF Plain, PCs, Sync
<1>4. CASE \E kind : \E pc \in {"task", "ingest", "accept"} : Go(h, Frame(kind, pc))
  BY <1>1, <1>3, <1>4, FreshFits, FitStep
<1>5. CASE \E pc \in {"spawn", "ready", "compile", "requeue"} : Go(h, [call[h] EXCEPT !.pc = pc])
  BY <1>1, <1>3, <1>5, PlainStep
<1>6. CASE Go(h, Idle)
  BY <1>1, <1>6, FreshFits, FitStep
<1> QED
  BY <1>2, <1>4, <1>5, <1>6

\* A reader, a settlement and the ingest go on to the loop.
LEMMA AuthorLoop ==
  ASSUME IInv, AuthorInv, NEW h \in Calls, getRun(h) \/ settled(h) \/ ingestCapturedSnapshot(h)
  PROVE  AuthorInv'
<1>1. \E f : Go(h, advanceRunCompiler(f, run))
  BY DEF getRun, settled, ingestCapturedSnapshot
<1>2. UNCHANGED run /\ RowFits(run)
  BY DEF getRun, settled, ingestCapturedSnapshot, AuthorInv
<1> QED
  BY <1>1, <1>2, LoopFits, FitStep

\* The artifacts on the way to the work: sealed by the call itself, all or none; the
\* contract and the profile are nobody's own.
LEMMA AuthorCompile ==
  ASSUME IInv, AuthorInv, NEW h \in Calls,
         persistSealedArtifacts(h) \/ selectedProfile(h) \/ enterContractedAndRunning(h)
  PROVE  AuthorInv'
<1> DEFINE f == call[h]
<1>1. f \in Frames /\ BindingsFit(h, f) /\ UNCHANGED run
  BY DEF IInv, TypeOK, AuthorInv, persistSealedArtifacts, selectedProfile,
         enterContractedAndRunning
<1>2. \A t \in {"SNAPSHOT_VALIDATING", "SNAPSHOT_UPLOADING", "CONTRACTED", "PROFILE_SELECTED",
                "PROFILE_RUNNING"} : t \in Early /\ t \notin Late
  BY DEF Early, Late, SealStates, SEAL_TARGETS, TreeStates
<1>3. CASE persistSealedArtifacts(h)
  <2> DEFINE b == withRoles(f.b, SealRoles, h)
  <2>1. PICK t \in {"SNAPSHOT_VALIDATING", "SNAPSHOT_UPLOADING"} : Go(h, enterRun(f, run, t, b))
    BY <1>3 DEF persistSealedArtifacts
  <2>2. NotJudged(f.b)
    BY <1>1, <1>3 DEF persistSealedArtifacts, At, BindingsFit
  <2>3. Unmixed(b) /\ NotJudged(b)
    BY <2>2, SealFits
  <2>4. BindingsFit(h, enterRun(f, run, t, b))
    BY <1>2, <2>3, EnterFits
  <2> QED
    BY <1>1, <2>1, <2>4, FitStep
<1>4. CASE selectedProfile(h)
  <2>1. Go(h, Return(f)) \/ Go(h, [f EXCEPT !.pc = "profile"])
    BY <1>4 DEF selectedProfile
  <2>2. Unmixed(f.b) /\ NotJudged(f.b)
    BY <1>1, <1>4 DEF selectedProfile, At, BindingsFit
  <2>3. [f EXCEPT !.pc = "profile"].b = f.b /\ [f EXCEPT !.pc = "profile"].pc = "profile"
    BY <1>1 DEF Frames
  <2>4. BindingsFit(h, [f EXCEPT !.pc = "profile"])
    BY <2>2, <2>3 DEF BindingsFit
  <2> QED
    BY <1>1, <2>1, <2>4, FreshFits, FitStep
<1>5. CASE enterContractedAndRunning(h)
  <2> DEFINE b == withRoles(f.b, {"contract", "profile"}, Agreed)
  <2>1. PICK t \in {"CONTRACTED", "PROFILE_SELECTED", "PROFILE_RUNNING"} :
          Go(h, enterRun(f, run, t, b))
    BY <1>5 DEF enterContractedAndRunning
  <2>2. Unmixed(f.b) /\ NotJudged(f.b)
    BY <1>1, <1>5 DEF enterContractedAndRunning, At, BindingsFit
  <2>3. Unmixed(b) /\ NotJudged(b)
    BY <2>2, ContractFits
  <2>4. BindingsFit(h, enterRun(f, run, t, b))
    BY <1>2, <2>3, EnterFits
  <2> QED
    BY <1>1, <2>1, <2>4, FitStep
<1> QED
  BY <1>3, <1>4, <1>5

\* The artifacts of the acceptance: a call replaces a ledger that is alone, and goes on
\* with what it made itself.
LEMMA AuthorJudge ==
  ASSUME IInv, AuthorInv, NEW h \in Calls,
         ledgerStored(h) \/ verdictStored(h) \/ writeOverlayBytes(h) \/ applyArtifactStored(h)
  PROVE  AuthorInv'
<1> DEFINE f == call[h]
           b(role) == withRoles(f.b, {role}, h)
<1>1. f \in Frames /\ BindingsFit(h, f) /\ UNCHANGED run
  BY DEF IInv, TypeOK, AuthorInv, ledgerStored, verdictStored, writeOverlayBytes,
         applyArtifactStored
<1>2. /\ {"VERIFIED_ACCEPTED", "VERIFIED_REJECTED", "AWAITING_APPLY_APPROVAL",
          "APPLY_RECONCILING", "SUCCEEDED"} \subseteq Late \ (Early \cup {"ACCEPTANCE_CHECK"})
      /\ \A t \in {"BLOCKED", "ACCEPTANCE_CHECK"} : t \notin Early /\ t \notin Late
  BY DEF Early, Late, SealStates, SEAL_TARGETS, TreeStates
<1>3. {"ledger", "verdict", "grant", "receipt", "result"} = JudgeRoles /\ Unmixed(f.b)
  BY <1>1 DEF JudgeRoles, BindingsFit
<1>4. CASE ledgerStored(h)
  <2> DEFINE c == [f EXCEPT !.pc = "verdict", !.b = b("ledger")]
  <2>1. \/ Go(h, Return(f))
        \/ \E t \in {"BLOCKED", "ACCEPTANCE_CHECK"} : Go(h, enterRun(f, run, t, b("ledger")))
        \/ Go(h, c)
    BY <1>4 DEF ledgerStored
  <2>2. OnlyLedger(f.b)
    BY <1>1, <1>4 DEF ledgerStored, At, BindingsFit
  <2>3. Unmixed(b("ledger")) /\ Own(h, b("ledger")) /\ OnlyLedger(b("ledger"))
    BY <1>3, <2>2, JudgeFits
  <2>4. c.b = b("ledger") /\ c.pc = "verdict"
    BY <1>1 DEF Frames
  <2> HIDE DEF b
  <2>5. \A t \in {"BLOCKED", "ACCEPTANCE_CHECK"} : BindingsFit(h, enterRun(f, run, t, b("ledger")))
    BY <1>2, <2>3, EnterFits
  <2>6. BindingsFit(h, c)
    BY <2>3, <2>4 DEF BindingsFit
  <2> QED
    BY <1>1, <2>1, <2>5, <2>6, FreshFits, FitStep
<1>5. CASE verdictStored(h)
  <2>1. PICK t \in {"VERIFIED_ACCEPTED", "VERIFIED_REJECTED"} :
          Go(h, enterRun(f, run, t, b("verdict")))
    BY <1>5 DEF verdictStored
  <2>2. Own(h, f.b)
    BY <1>1, <1>5 DEF verdictStored, At, BindingsFit
  <2>3. Unmixed(b("verdict")) /\ Own(h, b("verdict"))
    BY <1>3, <2>2, JudgeFits
  <2>4. BindingsFit(h, enterRun(f, run, t, b("verdict")))
    BY <1>2, <2>3, EnterFits
  <2> QED
    BY <1>1, <2>1, <2>4, FitStep
<1>6. CASE writeOverlayBytes(h)
  <2>1. Go(h, f) \/ Go(h, [f EXCEPT !.pc = "grant"])
    BY <1>6 DEF writeOverlayBytes
  <2>2. Own(h, f.b)
    BY <1>1, <1>6 DEF writeOverlayBytes, At, BindingsFit
  <2>3. [f EXCEPT !.pc = "grant"].b = f.b /\ [f EXCEPT !.pc = "grant"].pc = "grant"
    BY <1>1 DEF Frames
  <2>4. BindingsFit(h, [f EXCEPT !.pc = "grant"])
    BY <1>3, <2>2, <2>3 DEF BindingsFit
  <2> QED
    BY <1>1, <2>1, <2>4, FitStep
<1>7. CASE applyArtifactStored(h)
  <2>1. PICK s \in {<<"grant", "AWAITING_APPLY_APPROVAL">>, <<"receipt", "APPLY_RECONCILING">>,
                    <<"result", "SUCCEEDED">>} :
          f.pc = s[1] /\ Go(h, enterRun(f, run, s[2], b(s[1])))
    BY <1>7 DEF applyArtifactStored, At
  <2>2. /\ s[1] \in {"grant", "receipt", "result"}
        /\ s[2] \in {"AWAITING_APPLY_APPROVAL", "APPLY_RECONCILING", "SUCCEEDED"}
    BY <2>1
  <2>3. Own(h, f.b)
    BY <1>1, <2>1, <2>2 DEF BindingsFit
  <2>4. Unmixed(b(s[1])) /\ Own(h, b(s[1]))
    BY <1>3, <2>2, <2>3, JudgeFits
  <2> HIDE DEF b
  <2>5. BindingsFit(h, enterRun(f, run, s[2], b(s[1])))
    BY <1>2, <2>2, <2>4, EnterFits
  <2> QED
    BY <1>1, <2>1, <2>5, FitStep
<1> QED
  BY <1>4, <1>5, <1>6, <1>7

\* The row is written by two steps: the insert, which binds the task, and the commit.
LEMMA AuthorRow ==
  ASSUME IInv, AuthorInv, NEW h \in Calls, createRun(h) \/ Commit(h)
  PROVE  AuthorInv'
<1> DEFINE f == call[h]
<1>1. /\ f \in Frames /\ run \in Rows /\ BindingsFit(h, f) /\ call \in [Calls -> Frames]
      /\ \A g \in Calls : BindingsFit(g, call[g])
  BY DEF IInv, TypeOK, Rows, AuthorInv
<1>2. CASE UNCHANGED run
  <2>1. Go(h, Idle)
    <3>1. CASE createRun(h)
      <4>1. run.state = "ABSENT" => run'.state = "CREATED"
        BY <3>1 DEF createRun
      <4> QED
        BY <1>2, <3>1, <4>1 DEF createRun
    <3>2. CASE Commit(h)
      <4>1. MayEnter(f) => run'.version = run.version + 1
        BY <3>2 DEF Commit
      <4>2. run.version \in Nat
        BY <1>1 DEF Rows
      <4>3. run.version # run.version + 1
        BY <4>2
      <4> QED
        BY <1>2, <3>2, <4>1, <4>3 DEF Commit
    <3> QED
      BY <3>1, <3>2
  <2> QED
    BY <1>2, <2>1, FreshFits, FitStep
<1>3. ASSUME NEW c, RowFits(run'), BindingsFit(h, c), Go(h, c)  PROVE AuthorInv'
  <2>1. call'[h] = c /\ \A g \in Calls : g # h => call'[g] = call[g]
    BY <1>1, <1>3 DEF Go
  <2>2. \A g \in Calls : BindingsFit(g, call'[g])
    BY <1>1, <1>3, <2>1
  <2> QED
    BY <1>3, <2>2 DEF AuthorInv
<1>4. CASE createRun(h) /\ run' # run
  <2> DEFINE r == [state |-> "CREATED", version |-> 0, roles |-> withRoles(NoRoles, {"task"}, Agreed)]
  <2>1. run' = r /\ Go(h, enterRun(f, r, "SNAPSHOT_REQUESTED", r.roles))
    BY <1>4 DEF createRun
  <2>2. Unmixed(r.roles) /\ NotJudged(r.roles)
    <3>1. \A q \in SealRoles \cup JudgeRoles : r.roles[q] = Nobody
      BY DEF withRoles, NoRoles, Roles, SealRoles, JudgeRoles
    <3> QED
      BY <3>1 DEF Unmixed, NotJudged
  <2>3. "SNAPSHOT_REQUESTED" \notin Late
    BY DEF Late, TreeStates
  <2>4. r.state = "CREATED"
    OBVIOUS
  <2> HIDE DEF r
  <2>5. RowFits(r) /\ BindingsFit(h, enterRun(f, r, "SNAPSHOT_REQUESTED", r.roles))
    BY <2>2, <2>3, <2>4, EnterFits DEF RowFits
  <2> QED
    BY <1>3, <2>1, <2>5
<1>5. CASE Commit(h) /\ run' # run
  <2> DEFINE r == [state |-> f.target, version |-> run.version + 1, roles |-> Stored(f)]
  <2>1. run' = r /\ f.pc = "enter"
    BY <1>5 DEF Commit, At
  <2>2. PICK root : Go(h, Continue(f, r, root))
    BY <1>5 DEF Commit
  <2>3. r \in Rows /\ r.state = f.target /\ r.roles = Stored(f)
    BY <1>1, StoredType DEF Rows, Frames
  <2> HIDE DEF r, f
  <2>4. RowFits(r) /\ BindingsFit(h, Continue(f, r, root))
    BY <1>1, <2>1, <2>3, ContinueFits
  <2> QED
    BY <1>3, <2>1, <2>2, <2>4
<1> QED
  BY <1>2, <1>4, <1>5

\* A failed capture and a crash bind nothing.
LEMMA AuthorFault ==
  ASSUME IInv, AuthorInv, captureFailed \/ crash  PROVE AuthorInv'
<1>1. UNCHANGED run /\ (UNCHANGED call \/ call' = [h \in Calls |-> Idle])
  BY DEF captureFailed, crash
<1>2. \A h \in Calls : BindingsFit(h, Idle)
  BY FreshFits
<1> QED
  BY <1>1, <1>2 DEF AuthorInv

\* The authors stay apart.
LEMMA AuthorStep == IInv /\ AuthorInv /\ [Next]_vars => AuthorInv'
<1> SUFFICES ASSUME IInv, AuthorInv, [Next]_vars  PROVE AuthorInv'
  OBVIOUS
<1>1. CASE UNCHANGED vars
  <2>1. UNCHANGED <<run, call>>
    BY <1>1 DEF vars
  <2> QED
    BY <2>1 DEF AuthorInv
<1>2. CASE \E h \in Calls : Advance(h)
  BY <1>2, AuthorPlain, AuthorLoop, AuthorCompile, AuthorJudge, AuthorRow DEF Advance
<1>3. CASE \E h \in Calls : reserve(h) \/ captured(h) \/ reported(h) \/ getRun(h) \/ storeFails(h)
  BY <1>3, AuthorPlain, AuthorLoop
<1>4. CASE captureFailed \/ crash
  BY <1>4, AuthorFault
<1> QED
  BY <1>1, <1>2, <1>3, <1>4 DEF Next, Serve

\* A run is sealed by one call and judged by one call: whatever number of settlements, of
\* reports and of readers race through the loop, whatever is refused or dies on the way, the
\* bindings that a commit stores are never put together from two calls.
THEOREM AuthorsNeverMixed == Spec => []OneAuthor
<1>1. Init => AuthorInv
  <2> SUFFICES ASSUME Init PROVE AuthorInv
    OBVIOUS
  <2>1. run.roles = NoRoles /\ run.state = "ABSENT" /\ \A h \in Calls : call[h] = Idle
    BY DEF Init
  <2>2. RowFits(run)
    BY <2>1, NoneFits DEF RowFits
  <2> QED
    BY <2>1, <2>2, FreshFits DEF AuthorInv
<1>2. AuthorInv => OneAuthor
  BY DEF AuthorInv, RowFits, Unmixed, OneAuthor
<1> QED
  BY InitIInv, StepKeepsIInv, AuthorStep, <1>1, <1>2, PTL DEF Spec
-----------------------------------------------------------------------------
(* Every step keeps the answers true.                                      *)

\* The call is at no step of createRun behind its insert.
Apart(f) ==
  /\ f.pc \notin {"enqueue", "spawn", "ready"}
  /\ f.pc = "task" => f.kind = "create"
  /\ f.pc = "restock" => f.kind = "capture"
  /\ ~(f.pc = "enter" /\ f.target = "SNAPSHOT_REQUESTED")

\* What is never taken back: the run, the capture, and the analyst's operation.
Forward ==
  /\ run.state # "ABSENT" => run'.state # "ABSENT"
  /\ capture # "none" => capture' # "none"
  /\ analyst \notin {"absent", "spawned"} => analyst' \notin {"absent", "spawned"}
  /\ UNCHANGED row

\* A call that ends up elsewhere keeps the answers true.
LEMMA ApartStep ==
  ASSUME IInv, AnswerInv, NEW h \in Calls, NEW f, Apart(f), Go(h, f), Forward
  PROVE  AnswerInv'
<1>1. call'[h] = f /\ \A g \in Calls : g # h => call'[g] = call[g]
  BY DEF IInv, TypeOK, Go
<1>2. ~Creating(call'[h]) /\ \A g \in Calls : Creating(call'[g]) => Creating(call[g])
  BY <1>1 DEF Apart, Creating
<1>3. AnsweredMeansQueued'
  BY DEF AnswerInv, AnsweredMeansQueued, Forward
<1>4. (\A g \in Calls : CreateFits(call[g]))'
  BY <1>1 DEF AnswerInv, CreateFits, Apart, Forward
<1>5. (\A g \in Calls : Creating(call[g]) => run.state # "ABSENT" /\ row # "completed")'
  BY <1>2 DEF AnswerInv, Forward, Creating
<1>6. (\A g, k \in Calls : Creating(call[g]) /\ Creating(call[k]) => g = k)'
  BY <1>2 DEF AnswerInv, Creating
<1> QED
  BY <1>3, <1>4, <1>5, <1>6 DEF AnswerInv

\* So does the createRun that inserted the run, while it goes on.
LEMMA CreatingStep ==
  ASSUME IInv, AnswerInv, NEW h \in Calls, NEW f, Creating(call[h]), Go(h, f), CreateFits(f)',
         run.state # "ABSENT" => run'.state # "ABSENT",
         capture # "none" => capture' # "none", UNCHANGED row
  PROVE  AnswerInv'
<1>1. call'[h] = f /\ \A g \in Calls : g # h => call'[g] = call[g]
  BY DEF IInv, TypeOK, Go
<1>2. \A g \in Calls : Creating(call'[g]) => g = h
  BY <1>1 DEF AnswerInv, Creating
<1>3. run'.state # "ABSENT" /\ row' # "completed"
  BY DEF AnswerInv
<1>4. (\A g \in Calls : CreateFits(call[g]))'
  <2>1. \A g \in Calls : g # h => CreateFits(call[g])'
    BY <1>1 DEF AnswerInv, CreateFits
  <2>2. CreateFits(call[h])'
    BY <1>1 DEF CreateFits
  <2> QED
    BY <2>1, <2>2
<1>5. (\A g \in Calls : Creating(call[g]) => run.state # "ABSENT" /\ row # "completed")'
  BY <1>3
<1>6. (\A g, k \in Calls : Creating(call[g]) /\ Creating(call[k]) => g = k)'
  BY <1>2 DEF Creating
<1> QED
  BY <1>3, <1>4, <1>5, <1>6 DEF AnswerInv, AnsweredMeansQueued

\* The loop, the return and the end of a call are no steps of createRun.
LEMMA ApartFrames ==
  ASSUME NEW f, NEW r
  PROVE  /\ Apart(Idle) /\ Apart(Return(f)) /\ Apart(advanceRunCompiler(f, r))
         /\ \A t, b : t # "SNAPSHOT_REQUESTED" => Apart(enterRun(f, r, t, b))
         /\ \A pc : pc \notin {"task", "enqueue", "spawn", "ready", "restock", "enter"}
                      => Apart(Await(f, r, pc)) /\ \A kind : Apart(Frame(kind, pc))
<1>1. Apart(Idle)
  BY DEF Apart, Idle
<1>2. \A t, b : t # "SNAPSHOT_REQUESTED" => Apart(enterRun(f, r, t, b))
  BY DEF Apart, enterRun, Idle
<1>3. \A pc : pc \notin {"task", "enqueue", "spawn", "ready", "restock", "enter"}
                => Apart(Await(f, r, pc)) /\ \A kind : Apart(Frame(kind, pc))
  BY DEF Apart, Await, Frame, Idle
<1>4. Apart(Return(f))
  BY <1>1 DEF Return, Apart, Frame, Idle
<1>5. Apart(advanceRunCompiler(f, r))
  BY <1>2, <1>3, <1>4 DEF advanceRunCompiler
<1> QED
  BY <1>1, <1>2, <1>3, <1>4, <1>5

\* A call that moves on from one await to the next outside createRun.
LEMMA ApartPc ==
  ASSUME NEW f \in Frames, NEW pc, pc \notin {"task", "enqueue", "spawn", "ready", "restock", "enter"}
  PROVE  Apart([f EXCEPT !.pc = pc])
BY DEF Apart, Frames

\* Reports, readers and settlements, the awaits of the compiler, and refused stores.
LEMMA AnswerElsewhere ==
  ASSUME IInv, AnswerInv, NEW h \in Calls,
         \/ captured(h) \/ reported(h) \/ getRun(h) \/ acceptEnvelope(h)
         \/ selectAndPersistProfile(h) \/ settled(h) \/ ingestCapturedSnapshot(h)
         \/ persistSealedArtifacts(h) \/ selectedProfile(h) \/ enterContractedAndRunning(h)
         \/ ledgerStored(h) \/ verdictStored(h) \/ writeOverlayBytes(h) \/ applyArtifactStored(h)
         \/ storeFails(h)
  PROVE  AnswerInv'
<1> DEFINE f == call[h]
<1>1. f \in Frames
  BY DEF IInv, TypeOK
<1>2. CASE captured(h) \/ reported(h) \/ getRun(h)
  <2>1. Forward
    BY <1>2 DEF captured, reported, getRun, agents, Forward
  <2>2. \/ \E kind : \E pc \in {"ingest", "accept"} : Go(h, Frame(kind, pc))
        \/ \E g : Go(h, advanceRunCompiler(g, run))
    BY <1>2 DEF captured, reported, getRun, Begin
  <2> QED
    BY <2>1, <2>2, ApartFrames, ApartStep
<1>3. CASE acceptEnvelope(h) \/ selectAndPersistProfile(h)
  <2>1. Forward
    BY <1>3 DEF acceptEnvelope, selectAndPersistProfile, Forward
  <2>2. \E pc \in {"compile", "requeue"} : Go(h, [f EXCEPT !.pc = pc])
    BY <1>3 DEF acceptEnvelope, selectAndPersistProfile
  <2> QED
    BY <1>1, <2>1, <2>2, ApartPc, ApartStep
<1>4. CASE settled(h) \/ ingestCapturedSnapshot(h)
  <2>1. Forward
    BY <1>4 DEF settled, ingestCapturedSnapshot, agents, Forward
  <2>2. Go(h, advanceRunCompiler(f, run))
    BY <1>4 DEF settled, ingestCapturedSnapshot
  <2> QED
    BY <2>1, <2>2, ApartFrames, ApartStep
<1>5. CASE persistSealedArtifacts(h) \/ selectedProfile(h) \/ enterContractedAndRunning(h)
  <2>1. Forward
    BY <1>5 DEF persistSealedArtifacts, selectedProfile, enterContractedAndRunning, agents, Forward
  <2>2. \/ \E b : \E t \in {"SNAPSHOT_VALIDATING", "SNAPSHOT_UPLOADING", "CONTRACTED",
                            "PROFILE_SELECTED", "PROFILE_RUNNING"} : Go(h, enterRun(f, run, t, b))
        \/ Go(h, Return(f)) \/ Go(h, [f EXCEPT !.pc = "profile"])
    BY <1>5 DEF persistSealedArtifacts, selectedProfile, enterContractedAndRunning
  <2> QED
    BY <1>1, <2>1, <2>2, ApartFrames, ApartPc, ApartStep
<1>6. CASE ledgerStored(h)
  <2> DEFINE b == withRoles(f.b, {"ledger"}, h)
             c == [f EXCEPT !.pc = "verdict", !.b = b]
  <2>1. Forward
    BY <1>6 DEF ledgerStored, agents, Forward
  <2>2. \/ Go(h, Return(f)) \/ Go(h, c)
        \/ \E t \in {"BLOCKED", "ACCEPTANCE_CHECK"} : Go(h, enterRun(f, run, t, b))
    BY <1>6 DEF ledgerStored
  <2> HIDE DEF b
  <2>3. Apart(c)
    BY <1>1 DEF Apart, Frames
  <2> QED
    BY <2>1, <2>2, <2>3, ApartFrames, ApartStep
<1>7. CASE verdictStored(h) \/ applyArtifactStored(h)
  <2>1. Forward
    BY <1>7 DEF verdictStored, applyArtifactStored, agents, Forward
  <2>2. \E b : \E t \in {"VERIFIED_ACCEPTED", "VERIFIED_REJECTED", "AWAITING_APPLY_APPROVAL",
                         "APPLY_RECONCILING", "SUCCEEDED"} : Go(h, enterRun(f, run, t, b))
    BY <1>7 DEF verdictStored, applyArtifactStored
  <2> QED
    BY <2>1, <2>2, ApartFrames, ApartStep
<1>8. CASE writeOverlayBytes(h)
  <2>1. Forward /\ f.pc = "write"
    BY <1>8 DEF writeOverlayBytes, At, agents, Forward
  <2>2. Go(h, f) \/ Go(h, [f EXCEPT !.pc = "grant"])
    BY <1>8 DEF writeOverlayBytes
  <2>3. Apart(f)
    BY <2>1 DEF Apart
  <2> QED
    BY <1>1, <2>1, <2>2, <2>3, ApartPc, ApartStep
<1>9. CASE storeFails(h)
  <2>1. Forward
    BY <1>9 DEF storeFails, agents, Forward
  <2>2. Go(h, Idle) \/ Go(h, [f EXCEPT !.pc = "requeue"])
    BY <1>9 DEF storeFails
  <2> QED
    BY <1>1, <2>1, <2>2, ApartFrames, ApartPc, ApartStep
<1> QED
  BY <1>2, <1>3, <1>4, <1>5, <1>6, <1>7, <1>8, <1>9

\* The states a commit enters: none is the absence of a run.
LEMMA NeverAbsent == \A s, t : <<s, t>> \in phaseTransitions => t # "ABSENT"
BY DEF phaseTransitions, SealStates, SEAL_TARGETS

\* The targets the loop and a commit set for themselves: none asks for the snapshot again.
LEMMA ContinueApart ==
  ASSUME NEW f \in Frames, NEW r \in Rows, NEW root, r.state # "SNAPSHOT_REQUESTED"
  PROVE  Apart(Continue(f, r, root))
<1> DEFINE c == Continue(f, r, root)
<1>1. CASE r.state \in SealStates
  <2>1. c = enterRun(f, r, SEAL_TARGETS[r.state], f.b)
    BY <1>1 DEF Continue, SealStates, SEAL_TARGETS
  <2>2. SEAL_TARGETS[r.state] # "SNAPSHOT_REQUESTED"
    BY <1>1 DEF SealStates, SEAL_TARGETS
  <2> QED
    BY <2>1, <2>2, ApartFrames
<1>2. CASE r.state \notin SealStates
  <2>1. \/ \E t \in {"PROFILE_SELECTED", "PROFILE_RUNNING", "AWAITING_REQUIREMENTS_INPUT",
                     "BLOCKED", "APPLY_PREPARING", "APPLYING"} : c = enterRun(f, r, t, r.roles)
        \/ \E pc \in {"verdict", "write", "receipt", "result"} : c = Await(f, r, pc)
        \/ c = advanceRunCompiler(f, r)
    BY <1>2 DEF Continue
  <2> HIDE DEF c
  <2>2. Apart(c)
    BY <2>1, ApartFrames
  <2> QED
    BY <2>2 DEF c
<1> QED
  BY <1>1, <1>2

\* A commit: the createRun that asked for the snapshot goes on to queue it; every other
\* call goes on elsewhere.
LEMMA AnswerCommit ==
  ASSUME IInv, AnswerInv, NEW h \in Calls, Commit(h)  PROVE AnswerInv'
<1> DEFINE f == call[h]
           r == [state |-> f.target, version |-> run.version + 1, roles |-> Stored(f)]
<1>1. f \in Frames /\ run \in Rows /\ f.pc = "enter" /\ UNCHANGED <<row, capture, analyst>>
  BY DEF IInv, TypeOK, Rows, Commit, At, agents
<1>2. CASE ~MayEnter(f)
  <2>1. Go(h, Idle) /\ Forward
    BY <1>1, <1>2 DEF Commit, Forward
  <2> QED
    BY <2>1, ApartFrames, ApartStep
<1>3. CASE MayEnter(f)
  <2>1. run' = r
    BY <1>3 DEF Commit
  <2>2. PICK root : Go(h, Continue(f, r, root))
    BY <1>3 DEF Commit
  <2>3. r \in Rows /\ r.state = f.target
    BY <1>1, StoredType DEF Rows, Frames
  <2>4. f.target # "ABSENT"
    BY <1>3, NeverAbsent DEF MayEnter
  <2>5. Forward
    BY <1>1, <2>1, <2>3, <2>4 DEF Forward
  <2>6. CASE f.target = "SNAPSHOT_REQUESTED"
    <3>1. Continue(f, r, root) = Frame(f.kind, "enqueue")
      BY <2>3, <2>6 DEF Continue, SealStates, SEAL_TARGETS
    <3>2. f.kind = "create" /\ Creating(f)
      BY <1>1, <2>6 DEF AnswerInv, CreateFits, Creating
    <3>3. CreateFits(Frame("create", "enqueue"))'
      <4>1. Frame("create", "enqueue").pc = "enqueue" /\ Frame("create", "enqueue").kind = "create"
        BY DEF Frame, Idle
      <4> QED
        BY <4>1 DEF CreateFits
    <3> QED
      BY <2>2, <2>5, <3>1, <3>2, <3>3, CreatingStep DEF Forward
  <2>7. CASE f.target # "SNAPSHOT_REQUESTED"
    BY <1>1, <2>2, <2>3, <2>5, <2>7, ContinueApart, ApartStep
  <2> QED
    BY <2>6, <2>7
<1> QED
  BY <1>2, <1>3

\* The requests: a sending is reserved; the first to find no run inserts it, and whoever
\* finds the run in place throws; the one that inserted it queues the capture and the
\* analyst before it answers.
LEMMA AnswerRequest ==
  ASSUME IInv, AnswerInv, NEW h \in Calls,
         \/ reserve(h) \/ createRun(h) \/ requestSnapshotCapture(h) \/ enqueueReadyAgentWork(h)
         \/ answer(h)
  PROVE  AnswerInv'
<1> DEFINE f == call[h]
<1>1. f \in Frames /\ call \in [Calls -> Frames] /\ CreateFits(f)
  BY DEF IInv, TypeOK, AnswerInv
<1>2. ASSUME NEW c, Go(h, c)
      PROVE  call'[h] = c /\ \A g \in Calls : g # h => call'[g] = call[g]
  BY <1>1, <1>2 DEF Go
<1>3. CASE reserve(h)
  <2>1. /\ Go(h, Frame("create", "task")) /\ UNCHANGED <<run, capture, analyst>>
        /\ row # "completed" /\ row' = "reserved"
    BY <1>3 DEF reserve, Begin, agents
  <2>2. Apart(Frame("create", "task"))
    BY DEF Apart, Frame, Idle
  <2>3. \A g \in Calls : CreateFits(call[g])' /\ (Creating(call'[g]) => Creating(call[g]))
    BY <1>2, <2>1, <2>2 DEF AnswerInv, CreateFits, Creating, Apart
  <2>4. AnsweredMeansQueued'
    BY <2>1 DEF AnsweredMeansQueued
  <2>5. (\A g \in Calls : Creating(call[g]) => run.state # "ABSENT" /\ row # "completed")'
    BY <2>1, <2>3 DEF AnswerInv, Creating
  <2>6. (\A g, k \in Calls : Creating(call[g]) /\ Creating(call[k]) => g = k)'
    BY <2>3 DEF AnswerInv, Creating
  <2> QED
    BY <2>3, <2>4, <2>5, <2>6 DEF AnswerInv
<1>4. CASE createRun(h) /\ run.state # "ABSENT"
  <2>1. Go(h, Idle) /\ Forward
    BY <1>4 DEF createRun, agents, Forward
  <2> QED
    BY <2>1, ApartFrames, ApartStep
<1>5. CASE createRun(h) /\ run.state = "ABSENT"
  <2> DEFINE r == [state |-> "CREATED", version |-> 0, roles |-> withRoles(NoRoles, {"task"}, Agreed)]
             c == enterRun(f, r, "SNAPSHOT_REQUESTED", r.roles)
  <2>1. Go(h, c) /\ run' = r /\ UNCHANGED <<row, capture, analyst>> /\ f.pc = "task"
    BY <1>5 DEF createRun, At, agents
  <2>2. c.pc = "enter" /\ c.kind = f.kind
    BY DEF enterRun, Idle
  <2>3. run'.state = "CREATED" /\ row' # "completed"
    BY <1>5, <2>1 DEF AnswerInv, AnsweredMeansQueued
  <2>4. \A g \in Calls : ~Creating(call[g])
    BY <1>5 DEF AnswerInv
  <2> HIDE DEF c
  <2>5. \A g \in Calls : Creating(call'[g]) => g = h
    BY <1>2, <2>1, <2>4 DEF Creating
  <2>6. \A g \in Calls : CreateFits(call[g])'
    <3>1. f.kind = "create"
      BY <1>1, <2>1 DEF CreateFits
    <3> QED
      BY <1>2, <2>1, <2>2, <3>1 DEF AnswerInv, CreateFits
  <2> QED
    BY <2>3, <2>5, <2>6 DEF AnswerInv, AnsweredMeansQueued
<1>6. CASE requestSnapshotCapture(h)
  <2> DEFINE c == [f EXCEPT !.pc = "spawn"]
  <2>1. /\ Go(h, c) /\ f.pc = "enqueue" /\ capture' # "none" /\ UNCHANGED <<run, row>>
    BY <1>6 DEF requestSnapshotCapture, At
  <2>2. c.pc = "spawn" /\ c.kind = f.kind
    BY <1>1 DEF Frames
  <2>3. Creating(f) /\ f.kind = "create"
    BY <1>1, <2>1 DEF CreateFits, Creating
  <2>4. ASSUME NEW k, k = c  PROVE CreateFits(k)'
    BY <2>1, <2>2, <2>3, <2>4 DEF CreateFits
  <2> HIDE DEF c
  <2> QED
    BY <2>1, <2>3, <2>4, CreatingStep
<1>7. CASE enqueueReadyAgentWork(h)
  <2> DEFINE c == [f EXCEPT !.pc = "ready"]
  <2>1. UNCHANGED <<run, row, capture>>
    BY <1>7 DEF enqueueReadyAgentWork
  <2>2. c.pc = "ready" /\ c.kind = f.kind
    BY <1>1 DEF Frames
  <2>3. CASE f.pc = "spawn"
    <3>1. Go(h, c) /\ Creating(f) /\ capture # "none"
      BY <1>1, <1>7, <2>3 DEF enqueueReadyAgentWork, At, Creating, CreateFits
    <3>2. ASSUME NEW k, k = c  PROVE CreateFits(k)'
      BY <2>1, <2>2, <3>1, <3>2 DEF CreateFits
    <3> HIDE DEF c
    <3> QED
      BY <2>1, <3>1, <3>2, CreatingStep
  <2>4. CASE f.pc = "restock" /\ analyst = "absent"
    <3>1. Go(h, c) /\ f.kind = "capture"
      BY <1>1, <1>7, <2>4 DEF enqueueReadyAgentWork, At, CreateFits
    <3>2. row # "completed"
      BY <2>4 DEF AnswerInv, AnsweredMeansQueued
    <3> HIDE DEF c
    <3>3. \A g \in Calls : CreateFits(call[g])' /\ (Creating(call'[g]) => Creating(call[g]))
      BY <1>2, <2>1, <2>2, <3>1 DEF AnswerInv, CreateFits, Creating
    <3>4. AnsweredMeansQueued'
      BY <2>1, <3>2 DEF AnsweredMeansQueued
    <3>5. (\A g \in Calls : Creating(call[g]) => run.state # "ABSENT" /\ row # "completed")'
      BY <2>1, <3>3 DEF AnswerInv, Creating
    <3>6. (\A g, k \in Calls : Creating(call[g]) /\ Creating(call[k]) => g = k)'
      BY <3>3 DEF AnswerInv, Creating
    <3> QED
      BY <3>3, <3>4, <3>5, <3>6 DEF AnswerInv
  <2>5. CASE f.pc = "restock" /\ analyst # "absent"
    <3>1. Go(h, Idle) /\ Forward
      BY <1>7, <2>1, <2>5 DEF enqueueReadyAgentWork, At, Forward
    <3> QED
      BY <3>1, ApartFrames, ApartStep
  <2> QED
    BY <1>7, <2>3, <2>4, <2>5 DEF enqueueReadyAgentWork, At
<1>8. CASE answer(h)
  <2>1. /\ Go(h, Idle) /\ f.pc = "ready" /\ analyst' = "queued" /\ UNCHANGED <<run, capture>>
        /\ row' = IF f.kind = "create" THEN "completed" ELSE row
    BY <1>8 DEF answer, At
  <2>2. CASE f.kind # "create"
    <3>1. Forward
      BY <2>1, <2>2 DEF Forward
    <3> QED
      BY <2>1, <3>1, ApartFrames, ApartStep
  <2>3. CASE f.kind = "create"
    <3>1. Creating(f) /\ capture # "none"
      BY <1>1, <2>1, <2>3 DEF Creating, CreateFits
    <3>2. run.state # "ABSENT" /\ \A g \in Calls : Creating(call[g]) => g = h
      BY <3>1 DEF AnswerInv
    <3>3. Apart(Idle)
      BY ApartFrames
    <3>4. \A g \in Calls : CreateFits(call[g])' /\ ~Creating(call'[g])
      BY <1>2, <2>1, <3>2, <3>3 DEF AnswerInv, CreateFits, Creating, Apart
    <3>5. AnsweredMeansQueued'
      BY <2>1, <2>3, <3>1, <3>2 DEF AnsweredMeansQueued
    <3>6. (\A g \in Calls : ~Creating(call[g]))'
      BY <3>4 DEF Creating
    <3> QED
      BY <3>4, <3>5, <3>6 DEF AnswerInv
  <2> QED
    BY <2>2, <2>3
<1> QED
  BY <1>3, <1>4, <1>5, <1>6, <1>7, <1>8

\* A failed capture and a crash: nothing of what was queued is lost.
LEMMA AnswerFault ==
  ASSUME IInv, AnswerInv, captureFailed \/ crash  PROVE AnswerInv'
<1>1. UNCHANGED <<run, row, analyst>> /\ (capture # "none" => capture' # "none")
  BY DEF captureFailed, crash, agents
<1>2. AnsweredMeansQueued'
  BY <1>1 DEF AnswerInv, AnsweredMeansQueued
<1>3. UNCHANGED call \/ \A h \in Calls : call'[h] = Idle
  BY DEF captureFailed, crash
<1>4. Apart(Idle)
  BY ApartFrames
<1>5. \A h \in Calls : CreateFits(call[h])' /\ (Creating(call'[h]) => Creating(call[h]))
  BY <1>1, <1>3, <1>4 DEF AnswerInv, CreateFits, Creating, Apart
<1>6. (\A h \in Calls : Creating(call[h]) => run.state # "ABSENT" /\ row # "completed")'
  BY <1>1, <1>5 DEF AnswerInv, Creating
<1>7. (\A g, h \in Calls : Creating(call[g]) /\ Creating(call[h]) => g = h)'
  BY <1>5 DEF AnswerInv, Creating
<1> QED
  BY <1>2, <1>5, <1>6, <1>7 DEF AnswerInv

\* The answers stay true.
LEMMA AnswerStep == IInv /\ AnswerInv /\ [Next]_vars => AnswerInv'
<1> SUFFICES ASSUME IInv, AnswerInv, [Next]_vars  PROVE AnswerInv'
  OBVIOUS
<1>1. CASE UNCHANGED vars
  BY <1>1 DEF vars, agents, AnswerInv, AnsweredMeansQueued, CreateFits, Creating
<1>2. CASE \E h \in Calls : Advance(h)
  BY <1>2, AnswerCommit, AnswerRequest, AnswerElsewhere DEF Advance
<1>3. CASE \E h \in Calls : reserve(h) \/ captured(h) \/ reported(h) \/ getRun(h) \/ storeFails(h)
  BY <1>3, AnswerRequest, AnswerElsewhere
<1>4. CASE captureFailed \/ crash
  BY <1>4, AnswerFault
<1> QED
  BY <1>1, <1>2, <1>3, <1>4 DEF Next, Serve

\* A sender that was answered may stop sending: the run is there, and its capture and its
\* analyst are queued, whatever number of sendings, crashes and refused stores came before.
THEOREM AnswerIsTrue == Spec => []AnsweredMeansQueued
<1>1. Init => AnswerInv
  <2> SUFFICES ASSUME Init PROVE AnswerInv
    OBVIOUS
  <2>1. row = "none" /\ \A h \in Calls : call[h] = Idle
    BY DEF Init
  <2>2. Apart(Idle)
    BY ApartFrames
  <2> QED
    BY <2>1, <2>2 DEF AnswerInv, AnsweredMeansQueued, CreateFits, Creating, Apart
<1>2. AnswerInv => AnsweredMeansQueued
  BY DEF AnswerInv
<1> QED
  BY InitIInv, StepKeepsIInv, AnswerStep, <1>1, <1>2, PTL DEF Spec
=============================================================================
