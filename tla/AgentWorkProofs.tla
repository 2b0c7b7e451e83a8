-------------------------- MODULE AgentWorkProofs --------------------------
(***************************************************************************)
(* Type correctness of the agent DAG, and what holds of it for every       *)
(* profile and any number of attempts and faults: what was accepted stays  *)
(* accepted, work starts in dependency order, and a node counts as done    *)
(* because an agent did it or because it was skipped.                      *)
(*                                                                         *)
(* The second half is about profiles in which the agents, or the writers,  *)
(* are ordered with all other agents: one writer at a time, no retry left  *)
(* behind, nothing stranded.                                               *)
(***************************************************************************)
EXTENDS AgentWork, FiniteSetTheorems, TLAPS

\* Handlers of settleSpawnAgentOperation before they go on to enqueue.
SettlingAt == {"opening", "reading", "failing", "storing", "binding", "judging"}

\* Only the report of an operation is settled, and only what succeeded is accepted.
FrameFits(h) ==
  /\ pc[h] \in SettlingAt \/ guarded[h] => h \in Ops /\ op[h] # "absent"
  /\ pc[h] \in {"reading", "storing"} => op[h] = "succeeded"
  /\ pc[h] = "storing" => job[h] # 0
  /\ pc[h] = "uploading" => \A n \in Foremost(todo[h]) : attempt[n] # 0

FramesFit == \A h \in Handlers : FrameFits(h)

\* The attempt counter tells which nodes were started.
CountersFit ==
  /\ \A n \in Nodes : status[n] \in {"SPAWNED", "RETRYING", "FAILED"} => attempt[n] # 0
  /\ \A n \in Nodes : status[n] = "PENDING" => attempt[n] = 0
  /\ \A o \in Ops : op[o] # "absent" => attempt[o[1]] # 0

\* The dependencies of n are met.
Met(n) == \A d \in Deps[n] : status[d] = "ACCEPTED"

\* What is started or listed has its dependencies met.
InOrder ==
  /\ \A n \in Nodes : attempt[n] # 0 => Met(n)
  /\ \A h \in Handlers : \A n \in todo[h] : Met(n)

\* A role node that was started and accepted is the work of an agent.
WorkedFor ==
  \A n \in Roles :
    status[n] = "ACCEPTED" /\ attempt[n] # 0 => \E k \in Attempts : op[<<n, k>>] = "succeeded"

WorkInv == TypeOK /\ FramesFit /\ CountersFit /\ InOrder /\ WorkedFor

\* The profile has no node that waits for blocking findings, and starts with the analyst.
NoRepairTail == When[Analyst] = Always /\ \A n \in Nodes : When[n] # Blocking

\* A bound profile has its predicates.
Bound == compiled => Selected \subseteq predicates

\* Only nodes that the selection leaves out are skipped.
SkippedForGood ==
  \A n \in Nodes :
    status[n] = "ACCEPTED" /\ attempt[n] = 0 => When[n] # Always /\ When[n] \notin Selected

-----------------------------------------------------------------------------
(* Operators of the model.                                                 *)

Statuses == {"PENDING", "SPAWNED", "ACCEPTED", "RETRYING", "FAILED"}

PCs ==
  {"idle", "opening", "reading", "failing", "storing", "binding", "judging", "advancing",
   "preparing", "uploading", "done"}

\* The node of an operation is a role node.
LEMMA OpNode == \A o \in Ops : o[1] \in Roles /\ o[1] \in Nodes /\ o \in Handlers
BY DEF Ops, Roles, Handlers

\* The handlers of requests and of the start-up are handlers.
LEMMA NamedHandlers == Create \in Handlers /\ Capture \in Handlers /\ Requeue \in Handlers
BY DEF Handlers

\* What comes first in a list is in the list.
LEMMA ForemostListed == ASSUME NEW list PROVE \A n \in Foremost(list) : n \in list
BY DEF Foremost

\* Ready nodes have their dependencies accepted.
LEMMA ReadyMet ==
  ASSUME NEW st
  PROVE  \A n \in Ready(st) : n \in Cursor /\ st[n] \in {"PENDING", "RETRYING"}
                              /\ \A d \in Deps[n] : st[d] = "ACCEPTED"
BY DEF Ready

\* The cursor holds nodes.
LEMMA CursorNodes == Cursor \subseteq Nodes
BY WorkAssumption DEF Cursor

\* Where no controller node is ready, the ready nodes are role nodes.
LEMMA ReadyRoles == ASSUME NEW st, Steps(Ready(st)) = {} PROVE Ready(st) \subseteq Roles
BY ReadyMet, CursorNodes DEF Steps, Roles

\* A failure leaves an accepted node and one that waits for its retry alone, and never
\* makes an attempt 0.
LEMMA FailedRecordKeeps ==
  ASSUME NEW s \in Statuses, NEW k \in Nat \ {0}
  PROVE  LET r == FailedRecord(s, k)
         IN  /\ r[1] \in Statuses \ {"PENDING"} \/ r[1] = s
             /\ r[2] \in Nat \ {0}
             /\ s = "ACCEPTED" <=> r[1] = "ACCEPTED"
BY WorkAssumption DEF FailedRecord, Statuses

-----------------------------------------------------------------------------
(* Types.                                                                  *)

\* Faults stay within their bound.
FaultsType ==
  failures \in Nat /\ crashes \in Nat /\ outages \in Nat /\ failures + crashes + outages <= MaxFaults

\* One more fault.
LEMMA OneMoreFault ==
  ASSUME FaultsType, MayFail,
         \/ failures' = failures + 1 /\ UNCHANGED <<crashes, outages>>
         \/ crashes' = crashes + 1 /\ UNCHANGED <<failures, outages>>
         \/ outages' = outages + 1 /\ UNCHANGED <<failures, crashes>>
  PROVE  FaultsType'
BY WorkAssumption DEF FaultsType, MayFail

\* The frames' types.
FramesType ==
  /\ pc \in [Handlers -> PCs] /\ guarded \in [Handlers -> BOOLEAN]
  /\ todo \in [Handlers -> SUBSET Roles] /\ job \in [Handlers -> Nat]
  /\ busy \in Handlers \cup {NoHandler}

\* The records' types.
DagType ==
  /\ status \in [Nodes -> Statuses] /\ attempt \in [Nodes -> Nat]
  /\ compiled \in BOOLEAN /\ predicates \subseteq Selected \cup {Blocking}
  /\ op \in [Ops -> {"absent", "open", "succeeded", "failed"}]

\* The type invariant in parts.
LEMMA TypeParts ==
  TypeOK <=> DagType /\ FramesType /\ FaultsType /\ server \in {"up", "down", "starting"}
BY DEF TypeOK, DagType, FramesType, FaultsType, Statuses, PCs

\* The type invariant of the next state in parts.
LEMMA TypeNext ==
  ASSUME DagType', FramesType', FaultsType', server' \in {"up", "down", "starting"}
  PROVE  TypeOK'
BY DEF TypeOK, DagType, FramesType, FaultsType, Statuses, PCs

\* A record is put.
LEMMA PutType ==
  ASSUME DagType, NEW n \in Nodes, NEW s \in Statuses, NEW k \in Nat, Put(n, s, k),
         UNCHANGED <<compiled, predicates, op>>
  PROVE  DagType' /\ status'[n] = s /\ attempt'[n] = k
         /\ \A m \in Nodes \ {n} : status'[m] = status[m] /\ attempt'[m] = attempt[m]
BY DEF DagType, Put

\* A handler goes to another place.
LEMMA GotoType ==
  ASSUME FramesType, NEW h \in Handlers, NEW l \in PCs, Goto(h, l)
  PROVE  pc' \in [Handlers -> PCs] /\ pc'[h] = l /\ \A g \in Handlers \ {h} : pc'[g] = pc[g]
BY DEF FramesType, Goto

\* A handler throws.
LEMMA ThrowType ==
  ASSUME FramesType, NEW h \in Handlers, Throw(h)
  PROVE  /\ FramesType'
         /\ pc'[h] = IF guarded[h] THEN "failing" ELSE "done"
         /\ guarded'[h] = FALSE /\ todo'[h] = {} /\ job'[h] = 0
         /\ \A g \in Handlers \ {h} : /\ pc'[g] = pc[g] /\ guarded'[g] = guarded[g]
                                     /\ todo'[g] = todo[g] /\ job'[g] = job[g]
<1>1. (IF guarded[h] THEN "failing" ELSE "done") \in PCs
  BY DEF PCs
<1>2. /\ pc' \in [Handlers -> PCs] /\ pc'[h] = IF guarded[h] THEN "failing" ELSE "done"
      /\ \A g \in Handlers \ {h} : pc'[g] = pc[g]
  BY <1>1 DEF Throw, Goto, FramesType
<1>3. /\ guarded' \in [Handlers -> BOOLEAN] /\ guarded'[h] = FALSE
      /\ \A g \in Handlers \ {h} : guarded'[g] = guarded[g]
  BY DEF Throw, FramesType
<1>4. /\ todo' \in [Handlers -> SUBSET Roles] /\ todo'[h] = {}
      /\ \A g \in Handlers \ {h} : todo'[g] = todo[g]
  BY DEF Throw, FramesType
<1>5. /\ job' \in [Handlers -> Nat] /\ job'[h] = 0
      /\ \A g \in Handlers \ {h} : job'[g] = job[g]
  BY DEF Throw, FramesType
<1>6. busy' \in Handlers \cup {NoHandler}
  BY DEF Throw
<1> QED
  BY <1>2, <1>3, <1>4, <1>5, <1>6 DEF FramesType

-----------------------------------------------------------------------------
(* What the steps have in common.                                          *)

\* Only the frame of h changes.
Others(h) ==
  \A g \in Handlers \ {h} : /\ pc'[g] = pc[g] /\ guarded'[g] = guarded[g]
                           /\ todo'[g] = todo[g] /\ job'[g] = job[g]

\* Records and operations only grow: nothing accepted, started, enqueued or successful is
\* taken back, and a node that is not started keeps its status unless it is skipped.
Grown ==
  /\ \A n \in Nodes : /\ attempt[n] # 0 => attempt'[n] # 0
                      /\ status[n] = "ACCEPTED" => status'[n] = "ACCEPTED"
                      /\ attempt'[n] = 0 => status'[n] = status[n] \/ n \in Skipped(status)
  /\ \A o \in Ops : /\ op[o] # "absent" => op'[o] # "absent"
                    /\ op[o] = "succeeded" => op'[o] = "succeeded"

\* Frames that did not move still fit when records and operations have grown.
LEMMA FramesKeep ==
  ASSUME WorkInv, Grown, NEW h \in Handlers, Others(h), FrameFits(h)'
  PROVE  FramesFit'
<1> SUFFICES ASSUME NEW g \in Handlers, g # h PROVE FrameFits(g)'
  BY DEF FramesFit
<1>1. FrameFits(g) /\ todo[g] \subseteq Nodes
  BY DEF WorkInv, FramesFit, TypeOK, Roles
<1>2. pc'[g] = pc[g] /\ (guarded'[g] = guarded[g]) /\ todo'[g] = todo[g] /\ job'[g] = job[g]
  BY DEF Others
<1>3. pc'[g] \in SettlingAt \/ guarded'[g] => g \in Ops /\ op'[g] # "absent"
  BY <1>1, <1>2 DEF FrameFits, Grown
<1>4. pc'[g] \in {"reading", "storing"} => op'[g] = "succeeded"
  BY <1>1, <1>2 DEF FrameFits, Grown, SettlingAt
<1>5. pc'[g] = "uploading" => \A n \in Foremost(todo'[g]) : attempt'[n] # 0
  BY <1>1, <1>2, ForemostListed DEF FrameFits, Grown
<1>6. Foremost(todo[g])' = Foremost(todo'[g])
  BY DEF Foremost
<1> QED
  BY <1>1, <1>2, <1>3, <1>4, <1>5, <1>6 DEF FrameFits

\* Steps that leave the records alone.
LEMMA RecordsKeep ==
  ASSUME WorkInv, Grown, UNCHANGED <<status, attempt>>,
         \A o \in Ops : op'[o] # "absent" => attempt[o[1]] # 0,
         \A g \in Handlers : todo'[g] \subseteq todo[g]
  PROVE  CountersFit' /\ InOrder' /\ WorkedFor'
<1>1. CountersFit'
  BY DEF WorkInv, CountersFit
<1>2. InOrder'
  BY DEF WorkInv, InOrder, Met
<1>3. WorkedFor'
  <2> SUFFICES ASSUME NEW n \in Roles, status[n] = "ACCEPTED", attempt[n] # 0
               PROVE  \E k \in Attempts : op'[<<n, k>>] = "succeeded"
    BY DEF WorkedFor
  <2>1. PICK k \in Attempts : op[<<n, k>>] = "succeeded"
    BY DEF WorkInv, WorkedFor
  <2> QED
    BY <2>1 DEF Grown, Ops
<1> QED
  BY <1>1, <1>2, <1>3

\* Steps that put one record, of a node whose dependencies are met.
LEMMA RecordPut ==
  ASSUME WorkInv, UNCHANGED <<compiled, predicates, op>>,
         NEW n \in Nodes, NEW s \in Statuses \ {"PENDING"}, NEW k \in Nat \ {0}, Put(n, s, k), Met(n),
         status[n] = "ACCEPTED" => s = "ACCEPTED",
         s = "ACCEPTED" /\ n \in Roles => \E i \in Attempts : op[<<n, i>>] = "succeeded",
         \A g \in Handlers : todo'[g] \subseteq todo[g]
  PROVE  DagType' /\ Grown /\ CountersFit' /\ InOrder' /\ WorkedFor'
<1>1. DagType
  BY TypeParts DEF WorkInv
<1>2. DagType' /\ status'[n] = s /\ attempt'[n] = k
      /\ \A m \in Nodes \ {n} : status'[m] = status[m] /\ attempt'[m] = attempt[m]
  BY <1>1, PutType
<1>3. Grown
  BY <1>2 DEF Grown
<1>4. CountersFit'
  BY <1>2, OpNode DEF WorkInv, CountersFit
<1>5. \A m \in Nodes : Met(m) => Met(m)'
  BY <1>3, WorkAssumption DEF Grown, Met
<1>6. InOrder'
  BY <1>2, <1>5 DEF WorkInv, InOrder, TypeOK, Roles
<1>7. WorkedFor'
  BY <1>2 DEF WorkInv, WorkedFor, Roles
<1> QED
  BY <1>2, <1>3, <1>4, <1>6, <1>7

\* Steps that leave records and operations alone.
LEMMA QuietStep ==
  ASSUME WorkInv, TypeOK', UNCHANGED <<status, attempt, op>>, NEW h \in Handlers, Others(h),
         todo'[h] \subseteq todo[h], FrameFits(h)'
  PROVE  WorkInv' /\ Grown
<1>1. Grown
  BY DEF Grown
<1>2. FramesFit'
  BY <1>1, FramesKeep
<1>3. \A g \in Handlers : todo'[g] \subseteq todo[g]
  BY DEF Others
<1>4. \A o \in Ops : op'[o] # "absent" => attempt[o[1]] # 0
  BY DEF WorkInv, CountersFit
<1>5. CountersFit' /\ InOrder' /\ WorkedFor'
  BY <1>1, <1>3, <1>4, RecordsKeep
<1> QED
  BY <1>1, <1>2, <1>5 DEF WorkInv

\* Steps of h that only move it.
LEMMA Moves ==
  ASSUME WorkInv, NEW h \in Handlers, NEW l \in PCs, Goto(h, l), UNCHANGED <<guarded, todo, job>>,
         busy' \in Handlers \cup {NoHandler}
  PROVE  /\ FramesType' /\ Others(h) /\ FrameFits(h)
         /\ pc'[h] = l /\ guarded'[h] = guarded[h] /\ todo'[h] = todo[h] /\ job'[h] = job[h]
<1>1. FramesType
  BY TypeParts DEF WorkInv
<1>2. pc' \in [Handlers -> PCs] /\ pc'[h] = l /\ \A g \in Handlers \ {h} : pc'[g] = pc[g]
  BY <1>1, GotoType
<1> QED
  BY <1>1, <1>2 DEF FramesType, Others, WorkInv, FramesFit

\* A handler that throws fits where it goes.
LEMMA ThrowStep ==
  ASSUME WorkInv, NEW h \in Handlers, Throw(h), FaultsType', UNCHANGED <<dag, op, server>>
  PROVE  WorkInv' /\ Grown
<1>1. DagType' /\ FramesType /\ FrameFits(h) /\ server' \in {"up", "down", "starting"}
  BY TypeParts DEF WorkInv, FramesFit, DagType, dag
<1>2. /\ FramesType'
      /\ pc'[h] = IF guarded[h] THEN "failing" ELSE "done"
      /\ guarded'[h] = FALSE /\ todo'[h] = {} /\ job'[h] = 0
      /\ \A g \in Handlers \ {h} : /\ pc'[g] = pc[g] /\ guarded'[g] = guarded[g]
                                  /\ todo'[g] = todo[g] /\ job'[g] = job[g]
  BY <1>1, ThrowType
<1>3. TypeOK'
  BY <1>1, <1>2, TypeNext
<1>4. FrameFits(h)'
  <2>1. CASE guarded[h]
    BY <1>1, <1>2, <2>1 DEF FrameFits, SettlingAt
  <2>2. CASE ~guarded[h]
    BY <1>2, <2>2 DEF FrameFits, SettlingAt
  <2> QED
    BY <2>1, <2>2
<1> QED
  BY <1>2, <1>3, <1>4, QuietStep DEF dag, Others

-----------------------------------------------------------------------------
(* The actions.                                                            *)

\* Requests begin.
LEMMA BeginStep == ASSUME WorkInv, NEW h \in {Create, Capture}, Begin(h) PROVE WorkInv' /\ Grown
<1>1. h \in Handlers /\ "advancing" \in PCs
  BY NamedHandlers DEF PCs
<1>2. /\ FramesType' /\ Others(h) /\ FrameFits(h)
      /\ pc'[h] = "advancing" /\ guarded'[h] = guarded[h] /\ todo'[h] = todo[h] /\ job'[h] = job[h]
  BY <1>1, Moves DEF Begin
<1>3. TypeOK'
  BY <1>2, TypeParts, TypeNext DEF WorkInv, Begin, DagType, FaultsType, dag, faults
<1>4. FrameFits(h)'
  BY <1>2 DEF Begin, FrameFits, SettlingAt
<1> QED
  BY <1>1, <1>2, <1>3, <1>4, QuietStep DEF Begin, dag

\* A report settles an open operation.
LEMMA CompleteStep ==
  ASSUME WorkInv, NEW h \in Ops, NEW s \in {"succeeded", "failed"}, Complete(h, s)
  PROVE  WorkInv' /\ Grown
<1>1. h \in Handlers /\ "opening" \in PCs
  BY OpNode DEF PCs
<1>2. /\ FramesType' /\ Others(h) /\ FrameFits(h)
      /\ pc'[h] = "opening" /\ guarded'[h] = guarded[h] /\ todo'[h] = todo[h] /\ job'[h] = job[h]
  BY <1>1, Moves, TypeParts DEF Complete, WorkInv, FramesType
<1>3. /\ op' \in [Ops -> {"absent", "open", "succeeded", "failed"}]
      /\ op[h] = "open" /\ op'[h] = s /\ \A o \in Ops \ {h} : op'[o] = op[o]
  BY TypeParts DEF WorkInv, DagType, Complete
<1>4. FaultsType'
  <2>1. CASE s = "failed"
    BY <2>1, OneMoreFault, TypeParts DEF WorkInv, Complete
  <2>2. CASE s # "failed"
    BY <2>2, TypeParts DEF WorkInv, Complete, FaultsType
  <2> QED
    BY <2>1, <2>2
<1>5. TypeOK'
  BY <1>2, <1>3, <1>4, TypeParts, TypeNext DEF WorkInv, Complete, DagType, dag
<1>6. Grown
  BY <1>3 DEF Grown, Complete, dag
<1>7. FrameFits(h)'
  BY <1>2, <1>3 DEF FrameFits, SettlingAt
<1>8. FramesFit'
  BY <1>1, <1>2, <1>6, <1>7, FramesKeep
<1>9. \A o \in Ops : op'[o] # "absent" => attempt[o[1]] # 0
  BY <1>3 DEF WorkInv, CountersFit
<1>10. CountersFit' /\ InOrder' /\ WorkedFor'
  BY <1>2, <1>6, <1>9, RecordsKeep DEF Complete, dag, Others
<1> QED
  BY <1>5, <1>6, <1>8, <1>10 DEF WorkInv

\* The request of the operation was read.
LEMMA OpenedStep == ASSUME WorkInv, NEW h \in Handlers, Opened(h) PROVE WorkInv' /\ Grown
<1>1. DagType /\ FramesType /\ FaultsType /\ FrameFits(h) /\ pc[h] = "opening"
  BY TypeParts DEF WorkInv, FramesFit, Opened, Resumes
<1>2. UNCHANGED <<dag, op, todo, job, server, faults>>
  BY DEF Opened
<1>3. CASE op[h] = "succeeded"
  <2>1. /\ pc' \in [Handlers -> PCs] /\ pc'[h] = "reading"
        /\ \A g \in Handlers \ {h} : pc'[g] = pc[g]
    BY <1>1, <1>3, GotoType DEF Opened, PCs
  <2>2. /\ guarded' \in [Handlers -> BOOLEAN] /\ guarded'[h] = TRUE
        /\ \A g \in Handlers \ {h} : guarded'[g] = guarded[g]
    BY <1>1, <1>3 DEF Opened, FramesType
  <2>3. TypeOK'
    BY <1>1, <1>2, <1>3, <2>1, <2>2, TypeParts
    DEF Opened, WorkInv, TypeOK, DagType, FramesType, FaultsType, dag, faults
  <2>4. FrameFits(h)'
    BY <1>1, <1>2, <1>3, <2>1 DEF FrameFits, SettlingAt
  <2> QED
    BY <1>2, <2>1, <2>2, <2>3, <2>4, QuietStep DEF dag, Others
<1>4. CASE op[h] # "succeeded"
  <2>1. /\ FramesType' /\ Others(h) /\ FrameFits(h)
        /\ pc'[h] = "failing" /\ guarded'[h] = guarded[h] /\ todo'[h] = todo[h] /\ job'[h] = job[h]
    BY <1>4, Moves DEF Opened, PCs
  <2>2. TypeOK'
    BY <1>1, <1>2, <2>1, TypeParts, TypeNext DEF WorkInv, DagType, FaultsType, dag, faults
  <2>3. FrameFits(h)'
    BY <1>1, <1>2, <2>1 DEF FrameFits, SettlingAt
  <2> QED
    BY <1>2, <2>1, <2>2, <2>3, QuietStep DEF dag
<1> QED
  BY <1>3, <1>4

\* The node was accepted before; or the profile is bound; or findings are judged.
LEMMA OnwardStep ==
  ASSUME WorkInv, NEW h \in Handlers,
         AlreadyAccepted(h) \/ BindProfile(h) \/ (\E b \in BOOLEAN : Judge(h, b))
  PROVE  WorkInv' /\ Grown
<1>1. /\ Goto(h, "advancing") /\ busy' = h
      /\ UNCHANGED <<status, attempt, op, guarded, todo, job, server, faults>>
  BY DEF AlreadyAccepted, BindProfile, Judge, Runs, dag
<1>2. /\ FramesType' /\ Others(h) /\ FrameFits(h)
      /\ pc'[h] = "advancing" /\ guarded'[h] = guarded[h] /\ todo'[h] = todo[h] /\ job'[h] = job[h]
  BY <1>1, Moves DEF PCs
<1>3. pc[h] \in SettlingAt
  BY DEF AlreadyAccepted, BindProfile, Judge, Runs, Resumes, SettlingAt
<1>4. compiled' \in BOOLEAN /\ predicates' \subseteq Selected \cup {Blocking}
  BY TypeParts DEF WorkInv, DagType, AlreadyAccepted, BindProfile, Judge, dag
<1>5. TypeOK'
  BY <1>1, <1>2, <1>4, TypeParts, TypeNext DEF WorkInv, DagType, FaultsType, faults
<1>6. FrameFits(h)'
  BY <1>1, <1>2, <1>3 DEF FrameFits, SettlingAt
<1> QED
  BY <1>1, <1>2, <1>5, <1>6, QuietStep

\* The node of an operation that is being settled was started.
LEMMA SettledNode ==
  ASSUME WorkInv, NEW h \in Handlers, pc[h] \in SettlingAt
  PROVE  /\ h \in Ops /\ h[1] \in Roles /\ h[1] \in Nodes
         /\ attempt[h[1]] \in Nat \ {0} /\ status[h[1]] \in Statuses /\ Met(h[1])
<1>1. h \in Ops /\ op[h] # "absent"
  BY DEF WorkInv, FramesFit, FrameFits
<1>2. attempt[h[1]] # 0
  BY <1>1 DEF WorkInv, CountersFit
<1> QED
  BY <1>1, <1>2, OpNode, TypeParts DEF WorkInv, InOrder, DagType

\* A step of h that puts a record, in parts.
LEMMA PutParts ==
  ASSUME WorkInv, NEW h \in Handlers, DagType', Grown, CountersFit', InOrder', WorkedFor',
         FramesType', Others(h), FrameFits(h)', FaultsType', UNCHANGED server
  PROVE  WorkInv' /\ Grown
<1>1. TypeOK'
  BY TypeParts, TypeNext DEF WorkInv
<1>2. FramesFit'
  BY FramesKeep
<1> QED
  BY <1>1, <1>2 DEF WorkInv

\* A valid envelope: the node is SPAWNED while its artifact is stored.
LEMMA AcceptValidStep == ASSUME WorkInv, NEW h \in Handlers, AcceptValid(h) PROVE WorkInv' /\ Grown
<1> DEFINE n == h[1]
<1>1. pc[h] = "reading" /\ FrameFits(h) /\ DagType /\ FramesType /\ FaultsType
  BY TypeParts DEF AcceptValid, Resumes, WorkInv, FramesFit
<1>2. h \in Ops /\ n \in Nodes /\ attempt[n] \in Nat \ {0} /\ Met(n)
  BY <1>1, SettledNode DEF SettlingAt
<1>3. Put(n, "SPAWNED", attempt[n]) /\ status[n] # "ACCEPTED"
  BY <1>2 DEF AcceptValid
<1>4. UNCHANGED <<compiled, predicates, op, guarded, todo, busy, server, faults>>
  BY DEF AcceptValid
<1>5. DagType' /\ Grown /\ CountersFit' /\ InOrder' /\ WorkedFor' /\ attempt'[n] = attempt[n]
  BY <1>1, <1>2, <1>3, <1>4, RecordPut, PutType DEF Statuses
<1>6. /\ job' \in [Handlers -> Nat] /\ job'[h] = attempt[n]
      /\ \A g \in Handlers \ {h} : job'[g] = job[g]
  BY <1>1, <1>2, <1>5 DEF AcceptValid, FramesType
<1>7. /\ pc' \in [Handlers -> PCs] /\ pc'[h] = "storing" /\ \A g \in Handlers \ {h} : pc'[g] = pc[g]
  BY <1>1, GotoType DEF AcceptValid, PCs
<1>8. FramesType' /\ Others(h) /\ FaultsType'
  BY <1>1, <1>4, <1>6, <1>7 DEF FramesType, Others, FaultsType, faults
<1>9. FrameFits(h)'
  BY <1>1, <1>2, <1>4, <1>6, <1>7 DEF FrameFits, SettlingAt
<1> QED
  BY <1>4, <1>5, <1>8, <1>9, PutParts

\* An invalid envelope: the node is to be retried.
LEMMA AcceptInvalidStep == ASSUME WorkInv, NEW h \in Handlers, AcceptInvalid(h) PROVE WorkInv' /\ Grown
<1> DEFINE n == h[1]
<1>1. pc[h] = "reading" /\ FrameFits(h) /\ DagType /\ FramesType /\ FaultsType
  BY TypeParts DEF AcceptInvalid, Resumes, WorkInv, FramesFit
<1>2. h \in Ops /\ n \in Nodes /\ attempt[n] \in Nat \ {0} /\ Met(n)
  BY <1>1, SettledNode DEF SettlingAt
<1>3. Put(n, "RETRYING", attempt[n] + 1) /\ status[n] # "ACCEPTED"
  BY <1>2 DEF AcceptInvalid
<1>4. UNCHANGED <<compiled, predicates, op, guarded, todo, job, server, crashes, outages>>
  BY DEF AcceptInvalid
<1>5. DagType' /\ Grown /\ CountersFit' /\ InOrder' /\ WorkedFor'
  <2>1. attempt[n] + 1 \in Nat \ {0}
    BY <1>2
  <2> QED
    BY <1>2, <1>3, <1>4, <2>1, RecordPut DEF Statuses
<1>6. /\ FramesType' /\ Others(h)
      /\ pc'[h] = "advancing" /\ guarded'[h] = guarded[h] /\ todo'[h] = todo[h] /\ job'[h] = job[h]
  BY <1>4, Moves DEF AcceptInvalid, PCs
<1>7. FaultsType'
  BY <1>1, <1>4, OneMoreFault DEF AcceptInvalid
<1>8. FrameFits(h)'
  BY <1>1, <1>2, <1>4, <1>6 DEF FrameFits, SettlingAt
<1> QED
  BY <1>4, <1>5, <1>6, <1>7, <1>8, PutParts

\* The artifact is stored: the node is accepted, the work of operation h.
LEMMA AcceptedStep == ASSUME WorkInv, NEW h \in Handlers, Accepted(h) PROVE WorkInv' /\ Grown
<1> DEFINE n == h[1]
<1>1. pc[h] = "storing" /\ FrameFits(h) /\ DagType /\ FramesType /\ FaultsType
  BY TypeParts DEF Accepted, Resumes, WorkInv, FramesFit
<1>2. h \in Ops /\ n \in Nodes /\ Met(n) /\ op[h] = "succeeded"
  BY <1>1, SettledNode DEF SettlingAt, FrameFits
<1>3. job[h] \in Nat \ {0}
  BY <1>1 DEF FrameFits, FramesType
<1>4. UNCHANGED <<compiled, predicates, op, guarded, todo, server, faults>>
  BY DEF Accepted
<1>5. \E i \in Attempts : op[<<n, i>>] = "succeeded"
  BY <1>2 DEF Ops
<1>6. DagType' /\ Grown /\ CountersFit' /\ InOrder' /\ WorkedFor'
  BY <1>2, <1>3, <1>4, <1>5, RecordPut DEF Accepted, Statuses
<1>7. PICK l \in {"binding", "judging", "advancing"} : Goto(h, l) /\ (busy' = busy \/ busy' = h)
  BY DEF Accepted
<1>8. /\ pc' \in [Handlers -> PCs] /\ pc'[h] = l /\ \A g \in Handlers \ {h} : pc'[g] = pc[g]
  BY <1>1, <1>7, GotoType DEF PCs
<1>9. FramesType' /\ Others(h) /\ FaultsType'
  BY <1>1, <1>4, <1>7, <1>8 DEF Accepted, FramesType, Others, FaultsType, faults
<1>10. FrameFits(h)'
  BY <1>1, <1>2, <1>4, <1>8 DEF FrameFits, SettlingAt
<1> QED
  BY <1>4, <1>6, <1>9, <1>10, PutParts

\* A failure: the node is retried, fails or is left alone.
LEMMA FailedStep == ASSUME WorkInv, NEW h \in Handlers, Failed(h) PROVE WorkInv' /\ Grown
<1> DEFINE n == h[1]
           r == FailedRecord(status[n], attempt[n])
<1>1. pc[h] = "failing" /\ FrameFits(h) /\ DagType /\ FramesType /\ FaultsType
  BY TypeParts DEF Failed, Runs, WorkInv, FramesFit
<1>2. /\ h \in Ops /\ n \in Roles /\ n \in Nodes /\ Met(n)
      /\ status[n] \in Statuses /\ attempt[n] \in Nat \ {0}
  BY <1>1, SettledNode DEF SettlingAt
<1>3. r[1] \in Statuses /\ r[2] \in Nat \ {0} /\ (status[n] = "ACCEPTED" <=> r[1] = "ACCEPTED")
  BY <1>2, FailedRecordKeeps
<1>4. r[1] # "PENDING"
  BY <1>2, <1>3, FailedRecordKeeps DEF WorkInv, CountersFit, Statuses
<1>5. UNCHANGED <<compiled, predicates, op, guarded, todo, job, busy, server, faults>>
  BY DEF Failed
<1>6. DagType' /\ Grown /\ CountersFit' /\ InOrder' /\ WorkedFor'
  <2>1. r[1] = "ACCEPTED" => \E i \in Attempts : op[<<n, i>>] = "succeeded"
    BY <1>2, <1>3 DEF WorkInv, WorkedFor
  <2>2. Put(n, r[1], r[2])
    BY DEF Failed
  <2> HIDE DEF r, n
  <2> QED
    BY <1>2, <1>3, <1>4, <1>5, <2>1, <2>2, RecordPut
<1>7. /\ FramesType' /\ Others(h)
      /\ pc'[h] = "advancing" /\ guarded'[h] = guarded[h] /\ todo'[h] = todo[h] /\ job'[h] = job[h]
  BY <1>1, <1>5, Moves DEF Failed, PCs, FramesType
<1>8. FaultsType' /\ FrameFits(h)'
  BY <1>1, <1>2, <1>5, <1>7 DEF FrameFits, SettlingAt, FaultsType, faults
<1> QED
  BY <1>5, <1>6, <1>7, <1>8, PutParts

\* The node records after disabled nodes were skipped.
AfterSkip == [n \in Nodes |-> IF n \in Skipped(status) THEN "ACCEPTED" ELSE status[n]]

\* A wave skips disabled nodes, and accepts controller nodes or lists role nodes; only what
\* was ready is started or listed.
LEMMA AdvanceStep == ASSUME WorkInv, NEW h \in Handlers, Advance(h) PROVE WorkInv' /\ Grown
<1> DEFINE ready == Ready(AfterSkip)
           steps == Steps(ready)
<1>1. pc[h] = "advancing" /\ FrameFits(h) /\ DagType /\ FramesType /\ FaultsType
  BY TypeParts DEF Advance, Runs, WorkInv, FramesFit
<1>2. /\ status' = [n \in Nodes |-> IF n \in steps THEN "ACCEPTED" ELSE AfterSkip[n]]
      /\ attempt' = [n \in Nodes |-> IF n \in steps THEN 1 ELSE attempt[n]]
      /\ \/ steps = {} /\ todo' = [todo EXCEPT ![h] = ready] /\ Goto(h, "preparing")
         \/ UNCHANGED <<todo, pc>>
      /\ UNCHANGED <<compiled, predicates, op, guarded, job, busy, server, faults>>
  BY DEF Advance, AfterSkip
<1>3. /\ \A n \in Skipped(status) : n \in Nodes /\ status[n] = "PENDING"
      /\ \A n \in steps : n \in Nodes /\ n \notin Roles /\ n \in ready
      /\ \A n \in ready : n \in Nodes /\ \A d \in Deps[n] : AfterSkip[d] = "ACCEPTED"
  BY CursorNodes, ReadyMet DEF Skipped, Steps, Roles
<1>4. \A n \in Nodes : AfterSkip[n] = IF n \in Skipped(status) THEN "ACCEPTED" ELSE status[n]
  BY DEF AfterSkip
<1> HIDE DEF steps, ready
<1>5. DagType'
  BY <1>1, <1>2, <1>4 DEF DagType, Statuses
<1>6. Grown
  BY <1>2, <1>4 DEF Grown
<1>7. \A n \in Nodes : Met(n) => Met(n)'
  BY <1>6, WorkAssumption DEF Grown, Met
<1>8. \A n \in ready : Met(n)'
  BY <1>2, <1>3, WorkAssumption DEF Met
<1>9. CountersFit'
  <2>1. \A n \in Nodes : status'[n] \in {"SPAWNED", "RETRYING", "FAILED"} => attempt'[n] # 0
    BY <1>2, <1>4 DEF WorkInv, CountersFit
  <2>2. \A n \in Nodes : status'[n] = "PENDING" => attempt'[n] = 0
    BY <1>2, <1>4 DEF WorkInv, CountersFit
  <2>3. \A o \in Ops : op'[o] # "absent" => attempt'[o[1]] # 0
    BY <1>2, OpNode DEF WorkInv, CountersFit
  <2> QED
    BY <2>1, <2>2, <2>3 DEF CountersFit
<1>10. FramesType' /\ Others(h) /\ pc'[h] \in {"advancing", "preparing"}
       /\ (todo'[h] = todo[h] \/ todo'[h] = ready)
  <2>1. CASE steps = {} /\ todo' = [todo EXCEPT ![h] = ready] /\ Goto(h, "preparing")
    <3>1. ready \subseteq Roles
      BY <2>1, ReadyRoles DEF ready, steps
    <3>2. /\ pc' \in [Handlers -> PCs] /\ pc'[h] = "preparing"
          /\ \A g \in Handlers \ {h} : pc'[g] = pc[g]
      BY <1>1, <2>1, GotoType DEF PCs
    <3>3. /\ todo' \in [Handlers -> SUBSET Roles] /\ todo'[h] = ready
          /\ \A g \in Handlers \ {h} : todo'[g] = todo[g]
      BY <1>1, <2>1, <3>1 DEF FramesType
    <3> QED
      BY <1>1, <1>2, <3>2, <3>3 DEF FramesType, Others
  <2>2. CASE UNCHANGED <<todo, pc>>
    BY <1>1, <1>2, <2>2 DEF FramesType, Others
  <2> QED
    BY <1>2, <2>1, <2>2
<1>11. InOrder'
  <2>1. \A n \in Nodes : attempt'[n] # 0 => Met(n)'
    BY <1>2, <1>3, <1>7, <1>8 DEF WorkInv, InOrder
  <2>2. \A g \in Handlers : \A n \in todo[g] : Met(n)'
    BY <1>7, TypeParts DEF WorkInv, InOrder, FramesType, Roles
  <2>3. \A g \in Handlers : \A n \in todo'[g] : Met(n)'
    BY <1>8, <1>10, <2>2 DEF Others
  <2> QED
    BY <2>1, <2>3 DEF InOrder
<1>12. WorkedFor'
  <2> SUFFICES ASSUME NEW n \in Roles, status'[n] = "ACCEPTED", attempt'[n] # 0
               PROVE  \E k \in Attempts : op[<<n, k>>] = "succeeded"
    BY <1>2 DEF WorkedFor
  <2>1. n \in Nodes /\ n \notin steps
    BY <1>3 DEF Roles
  <2>2. attempt[n] # 0
    BY <1>2, <2>1
  <2>3. n \notin Skipped(status)
    BY <1>3, <2>2 DEF WorkInv, CountersFit
  <2>4. status[n] = "ACCEPTED"
    BY <1>2, <1>4, <2>1, <2>3
  <2> QED
    BY <2>2, <2>4 DEF WorkInv, WorkedFor
<1>13. FaultsType' /\ FrameFits(h)'
  BY <1>1, <1>2, <1>10 DEF FrameFits, SettlingAt, FaultsType, faults
<1> QED
  BY <1>2, <1>5, <1>6, <1>9, <1>10, <1>11, <1>12, <1>13, PutParts

\* The next listed node is spawned, or refused because it was spawned meanwhile.
LEMMA PrepareStep == ASSUME WorkInv, NEW h \in Handlers, Prepare(h) PROVE WorkInv' /\ Grown
<1>1. pc[h] = "preparing" /\ FrameFits(h) /\ DagType /\ FramesType /\ FaultsType
  BY TypeParts DEF Prepare, Runs, WorkInv, FramesFit
<1>2. PICK n \in Foremost(todo[h]) :
        \/ /\ MaySpawn(status[n])
           /\ Put(n, "SPAWNED", IF attempt[n] = 0 THEN 1 ELSE attempt[n])
           /\ job' = [job EXCEPT ![h] = attempt'[n]]
           /\ Goto(h, "uploading") /\ busy' = NoHandler
           /\ UNCHANGED <<guarded, todo>>
        \/ ~MaySpawn(status[n]) /\ Throw(h) /\ UNCHANGED <<status, attempt>>
  BY DEF Prepare
<1>3. UNCHANGED <<compiled, predicates, op, server, faults>>
  BY DEF Prepare
<1>4. FaultsType'
  BY <1>1, <1>3 DEF FaultsType, faults
<1>5. n \in Nodes /\ Met(n)
  BY <1>1, ForemostListed DEF FramesType, Roles, WorkInv, InOrder
<1>6. CASE ~MaySpawn(status[n])
  BY <1>2, <1>3, <1>4, <1>6, ThrowStep DEF dag
<1>7. CASE MaySpawn(status[n])
  <2> DEFINE k == IF attempt[n] = 0 THEN 1 ELSE attempt[n]
  <2>1. k \in Nat \ {0} /\ status[n] # "ACCEPTED"
    BY <1>1, <1>5, <1>7 DEF DagType, MaySpawn
  <2>2. Put(n, "SPAWNED", k) /\ UNCHANGED <<guarded, todo>>
    BY <1>2, <1>7
  <2> HIDE DEF k
  <2>3. DagType' /\ Grown /\ CountersFit' /\ InOrder' /\ WorkedFor' /\ attempt'[n] = k
    BY <1>1, <1>3, <1>5, <2>1, <2>2, RecordPut, PutType DEF Statuses
  <2>4. /\ pc' \in [Handlers -> PCs] /\ pc'[h] = "uploading"
        /\ \A g \in Handlers \ {h} : pc'[g] = pc[g]
    BY <1>1, <1>2, <1>7, GotoType DEF PCs
  <2>5. FramesType' /\ Others(h)
    BY <1>1, <1>2, <1>7, <2>1, <2>3, <2>4 DEF FramesType, Others
  <2>6. \A m \in Foremost(todo[h]) : m = n
    BY <1>2 DEF Foremost
  <2>7. FrameFits(h)'
    BY <1>1, <1>3, <2>1, <2>2, <2>3, <2>4, <2>6 DEF FrameFits, SettlingAt
  <2> QED
    BY <1>3, <1>4, <2>3, <2>5, <2>7, PutParts
<1> QED
  BY <1>6, <1>7

\* The request is stored: the operation of a started node is enqueued, once.
LEMMA UploadedStep == ASSUME WorkInv, NEW h \in Handlers, Uploaded(h) PROVE WorkInv' /\ Grown
<1>1. pc[h] = "uploading" /\ FrameFits(h) /\ DagType /\ FramesType /\ FaultsType
  BY TypeParts DEF Uploaded, Resumes, WorkInv, FramesFit
<1>2. PICK n \in Foremost(todo[h]) :
        /\ op' = [op EXCEPT ![DedupeKey(n, job[h])] = IF @ = "absent" THEN "open" ELSE @]
        /\ todo' = [todo EXCEPT ![h] = @ \ {n}]
  BY DEF Uploaded
<1>3. UNCHANGED <<dag, guarded, server, faults>> /\ job[h] \in Attempts
  BY DEF Uploaded
<1>4. n \in Roles /\ attempt[n] # 0
  BY <1>1, ForemostListed DEF FramesType, FrameFits
<1> DEFINE o == <<n, job[h]>>
<1>5. o \in Ops /\ o[1] = n
  BY <1>3, <1>4 DEF Ops
<1>6. op' = [op EXCEPT ![o] = IF @ = "absent" THEN "open" ELSE @]
  BY <1>2 DEF DedupeKey
<1> HIDE DEF o
<1>7. /\ op' \in [Ops -> {"absent", "open", "succeeded", "failed"}]
      /\ \A p \in Ops : /\ op[p] # "absent" => op'[p] = op[p]
                        /\ op'[p] # "absent" => op[p] # "absent" \/ p = o
  BY <1>1, <1>5, <1>6 DEF DagType
<1>8. DagType' /\ Grown /\ FaultsType'
  BY <1>1, <1>3, <1>7 DEF DagType, Grown, FaultsType, dag, faults
<1>9. /\ todo' \in [Handlers -> SUBSET Roles] /\ todo'[h] \subseteq todo[h]
      /\ \A g \in Handlers \ {h} : todo'[g] = todo[g]
  BY <1>1, <1>2 DEF FramesType
<1>10. \A p \in Ops : op'[p] # "absent" => attempt[p[1]] # 0
  BY <1>4, <1>5, <1>7 DEF WorkInv, CountersFit
<1>11. CountersFit' /\ InOrder' /\ WorkedFor'
  BY <1>3, <1>8, <1>9, <1>10, RecordsKeep DEF dag
<1>12. /\ pc' \in [Handlers -> PCs] /\ pc'[h] = "preparing"
       /\ \A g \in Handlers \ {h} : pc'[g] = pc[g]
  BY <1>1, GotoType DEF Uploaded, PCs
<1>13. job' \in [Handlers -> Nat] /\ \A g \in Handlers \ {h} : job'[g] = job[g]
  BY <1>1 DEF Uploaded, FramesType
<1>14. FramesType' /\ Others(h)
  BY <1>1, <1>3, <1>9, <1>12, <1>13 DEF Uploaded, FramesType, Others
<1>15. FrameFits(h)'
  BY <1>1, <1>3, <1>7, <1>12 DEF FrameFits, SettlingAt
<1> QED
  BY <1>3, <1>8, <1>11, <1>14, <1>15, PutParts

\* The list is done.
LEMMA ReturnStep == ASSUME WorkInv, NEW h \in Handlers, Return(h) PROVE WorkInv' /\ Grown
<1>1. DagType /\ FramesType /\ FaultsType /\ FrameFits(h) /\ server \in {"up", "down", "starting"}
  BY TypeParts DEF WorkInv, FramesFit
<1>2. UNCHANGED <<dag, op, todo, job, faults>> /\ busy' = NoHandler /\ server' \in {"up", server}
  BY DEF Return
<1>3. /\ pc' \in [Handlers -> PCs] /\ pc'[h] = "done" /\ \A g \in Handlers \ {h} : pc'[g] = pc[g]
  BY <1>1, GotoType DEF Return, PCs
<1>4. /\ guarded' \in [Handlers -> BOOLEAN] /\ guarded'[h] = FALSE
      /\ \A g \in Handlers \ {h} : guarded'[g] = guarded[g]
  BY <1>1 DEF Return, FramesType
<1>5. FramesType' /\ Others(h) /\ DagType' /\ FaultsType'
  BY <1>1, <1>2, <1>3, <1>4 DEF FramesType, Others, DagType, FaultsType, dag, faults
<1>6. FrameFits(h)'
  BY <1>3, <1>4 DEF FrameFits, SettlingAt
<1> QED
  BY <1>1, <1>2, <1>5, <1>6, TypeNext, QuietStep DEF dag

\* A call of the artifact store fails, a result does not parse, or a key is taken.
LEMMA FaultStep ==
  ASSUME WorkInv, NEW h \in Handlers, StoreFails(h) \/ ResultUnreadable(h) \/ DedupeConflict(h)
  PROVE  WorkInv' /\ Grown
<1>1. FaultsType'
  BY TypeParts, OneMoreFault DEF WorkInv, StoreFails, ResultUnreadable, DedupeConflict, FaultsType, faults
<1> QED
  BY <1>1, ThrowStep DEF StoreFails, ResultUnreadable, DedupeConflict

\* The process dies: every frame is gone.
LEMMA CrashStep == ASSUME WorkInv, Crash PROVE WorkInv' /\ Grown
<1>1. DagType /\ FramesType /\ FaultsType
  BY TypeParts DEF WorkInv
<1>2. UNCHANGED <<dag, op>> /\ server' = "down"
  BY DEF Crash
<1>3. FaultsType'
  BY <1>1, OneMoreFault DEF Crash
<1>4. /\ pc' \in [Handlers -> PCs] /\ guarded' \in [Handlers -> BOOLEAN]
      /\ todo' = [h \in Handlers |-> {}] /\ job' \in [Handlers -> Nat]
      /\ \A h \in Handlers : pc'[h] \in {"idle", "done"} /\ guarded'[h] = FALSE
  BY DEF Crash, PCs
<1>5. DagType' /\ FramesType' /\ Grown
  BY <1>1, <1>2, <1>4 DEF Crash, DagType, FramesType, Grown, dag
<1>6. FramesFit'
  BY <1>4 DEF FramesFit, FrameFits, SettlingAt
<1>7. CountersFit' /\ InOrder' /\ WorkedFor'
  <2>1. \A o \in Ops : op'[o] # "absent" => attempt[o[1]] # 0
    BY <1>2 DEF WorkInv, CountersFit
  <2> QED
    BY <1>2, <1>4, <1>5, <2>1, RecordsKeep DEF dag
<1> QED
  BY <1>2, <1>3, <1>5, <1>6, <1>7, TypeNext DEF WorkInv

\* The control plane starts again, with the requeue if a node waits for its retry.
LEMMA RestartStep == ASSUME WorkInv, Restart PROVE WorkInv' /\ Grown
<1>1. DagType /\ FramesType /\ FaultsType /\ FrameFits(Requeue) /\ Requeue \in Handlers
  BY TypeParts, NamedHandlers DEF WorkInv, FramesFit
<1>2. UNCHANGED <<dag, op, guarded, todo, job, faults>> /\ server' \in {"starting", "up"}
  BY DEF Restart
<1>3. DagType' /\ FaultsType'
  BY <1>1, <1>2 DEF DagType, FaultsType, dag, faults
<1>4. CASE Goto(Requeue, "advancing") /\ busy' = Requeue
  <2>1. /\ FramesType' /\ Others(Requeue) /\ pc'[Requeue] = "advancing"
        /\ guarded'[Requeue] = guarded[Requeue] /\ todo'[Requeue] = todo[Requeue]
    BY <1>1, <1>2, <1>4, Moves DEF PCs
  <2>2. FrameFits(Requeue)'
    BY <1>1, <1>2, <2>1 DEF FrameFits, SettlingAt
  <2> QED
    BY <1>1, <1>2, <1>3, <2>1, <2>2, TypeNext, QuietStep DEF dag
<1>5. CASE UNCHANGED <<busy, pc>>
  <2>1. FramesType' /\ Others(Requeue) /\ FrameFits(Requeue)'
    BY <1>1, <1>2, <1>5 DEF FramesType, Others, FrameFits, dag
  <2> QED
    BY <1>1, <1>2, <1>3, <2>1, TypeNext, QuietStep DEF dag
<1> QED
  BY <1>4, <1>5 DEF Restart

\* Nothing happens.
LEMMA IdleStep == ASSUME WorkInv, UNCHANGED vars PROVE WorkInv' /\ Grown
<1>1. UNCHANGED <<status, attempt, compiled, predicates, op, pc, guarded, todo, job, busy, server,
                  failures, crashes, outages>>
  BY DEF vars, dag, frames, faults
<1>2. DagType' /\ FramesType' /\ FaultsType' /\ server' \in {"up", "down", "starting"}
  BY <1>1, TypeParts DEF WorkInv, DagType, FramesType, FaultsType
<1>3. FrameFits(Create)' /\ Others(Create) /\ todo'[Create] = todo[Create]
  BY <1>1, NamedHandlers DEF WorkInv, FramesFit, FrameFits, Others
<1> QED
  BY <1>1, <1>2, <1>3, TypeNext, NamedHandlers, QuietStep

\* Every step keeps the invariant and takes nothing back.
LEMMA WorkStep == ASSUME WorkInv, [Next]_vars PROVE WorkInv' /\ Grown
<1>1. CASE \E h \in Active : Settling(h) \/ Enqueueing(h) \/ StoreFails(h)
  <2>1. PICK h \in Handlers : Settling(h) \/ Enqueueing(h) \/ StoreFails(h)
    BY <1>1 DEF Active
  <2> QED
    BY <2>1, OpenedStep, OnwardStep, AcceptValidStep, AcceptInvalidStep, AcceptedStep, FailedStep,
       AdvanceStep, PrepareStep, UploadedStep, ReturnStep, FaultStep DEF Settling, Enqueueing
<1>2. CASE \E h \in {Create, Capture} : Begin(h)
  BY <1>2, BeginStep
<1>3. CASE \E h \in {o \in Ops : op[o] = "open"}, s \in {"succeeded", "failed"} : Complete(h, s)
  BY <1>3, CompleteStep
<1> QED
  BY <1>1, <1>2, <1>3, CrashStep, RestartStep, IdleStep DEF Next, Serve

\* Nothing is started yet.
LEMMA WorkInitially == Init => WorkInv
<1> SUFFICES ASSUME Init PROVE WorkInv
  OBVIOUS
<1>1. DagType /\ FramesType /\ server = "up"
  BY DEF Init, DagType, FramesType, Statuses, PCs
<1>2. FaultsType
  BY WorkAssumption DEF Init, FaultsType
<1>3. FramesFit
  BY DEF Init, FramesFit, FrameFits, SettlingAt
<1>4. CountersFit
  BY OpNode DEF Init, CountersFit
<1>5. InOrder
  BY DEF Init, InOrder
<1>6. WorkedFor
  BY DEF Init, WorkedFor, Roles
<1> QED
  BY <1>1, <1>2, <1>3, <1>4, <1>5, <1>6, TypeParts DEF WorkInv

\* The invariant holds forever.
THEOREM WorkInvariant == Spec => []WorkInv
<1>1. WorkInv /\ [Next]_vars => WorkInv'
  BY WorkStep
<1> QED
  BY <1>1, WorkInitially, PTL DEF Spec

-----------------------------------------------------------------------------

\* The records of nodes and operations and the frames of the handlers keep their types; in
\* particular no handler settles anything but an operation (settleSpawnAgentOperation).
THEOREM WorkTypeCorrect == Spec => []TypeOK
<1>1. WorkInv => TypeOK
  BY DEF WorkInv
<1> QED
  BY <1>1, WorkInvariant, PTL

\* Whatever late, repeated or failed results of other attempts come in, an accepted node
\* stays accepted (acceptCompletedSpawnJob, failCompletedSpawnJob, prepareRoleSpawn).
THEOREM AcceptedIsForGood == Spec => AcceptedForGood
<1>1. WorkInv /\ [Next]_vars => [\A n \in Nodes : status[n] = "ACCEPTED" => status'[n] = "ACCEPTED"]_vars
  BY WorkStep DEF Grown
<1> QED
  BY <1>1, WorkInvariant, PTL DEF Spec, AcceptedForGood

\* For every profile, work starts in dependency order (readyNodes, enqueueReadyAgentWork).
THEOREM WorkInDependencyOrder == Spec => []DependenciesFirst
<1>1. WorkInv => DependenciesFirst
  BY DEF WorkInv, CountersFit, InOrder, Met, DependenciesFirst, Started
<1> QED
  BY <1>1, WorkInvariant, PTL

\* The predicates of the selection are never taken back.
LEMMA BoundStep == ASSUME Bound, [Next]_vars PROVE Bound'
<1>1. CASE \E h \in Active : BindProfile(h)
  BY <1>1 DEF BindProfile, Bound
<1>2. CASE \E h \in Active : \E b \in BOOLEAN : Judge(h, b)
  BY <1>2 DEF Judge, Bound
<1>3. CASE UNCHANGED <<compiled, predicates>>
  BY <1>3 DEF Bound
<1>4. ASSUME NEW h \in Active, Settling(h)
      PROVE  BindProfile(h) \/ (\E b \in BOOLEAN : Judge(h, b)) \/ UNCHANGED <<compiled, predicates>>
  BY <1>4 DEF Settling, Opened, AlreadyAccepted, AcceptValid, AcceptInvalid, ResultUnreadable,
              Accepted, Failed, dag
<1>5. ASSUME NEW h \in Active, Enqueueing(h) \/ StoreFails(h) PROVE UNCHANGED <<compiled, predicates>>
  BY <1>5 DEF Enqueueing, Advance, Prepare, Uploaded, DedupeConflict, Throw, Return, StoreFails, dag
<1>6. ASSUME Crash \/ Restart \/ UNCHANGED vars \/ (\E h \in {Create, Capture} : Begin(h))
             \/ (\E h \in Ops, s \in {"succeeded", "failed"} : Complete(h, s))
      PROVE  UNCHANGED <<compiled, predicates>>
  BY <1>6 DEF Crash, Restart, Begin, Complete, vars, dag
<1> QED
  BY <1>1, <1>2, <1>3, <1>4, <1>5, <1>6 DEF Next, Serve

\* If the analyst is always enabled, no step skips a node that the selection enables.
LEMMA SkippedStep ==
  ASSUME When[Analyst] = Always, WorkInv, Bound, SkippedForGood, [Next]_vars
  PROVE  SkippedForGood'
<1> SUFFICES ASSUME NEW n \in Nodes, status'[n] = "ACCEPTED", attempt'[n] = 0
             PROVE  When[n] # Always /\ When[n] \notin Selected
  BY DEF SkippedForGood
<1>1. attempt[n] = 0 /\ (status'[n] = status[n] \/ n \in Skipped(status))
  BY WorkStep DEF Grown
<1>2. CASE n \in Skipped(status)
  <2>1. n \in Cursor /\ When[n] # Always /\ When[n] \notin predicates
    BY <1>2 DEF Skipped, Enabled
  <2>2. compiled
    BY <2>1 DEF Cursor
  <2> QED
    BY <2>1, <2>2 DEF Bound
<1>3. CASE status'[n] = status[n]
  BY <1>1, <1>3 DEF SkippedForGood
<1> QED
  BY <1>1, <1>2, <1>3

\* In a profile without a repair tail, an enabled role node counts as done only because one
\* of its operations succeeded, however reports, retries, skips and crashes interleave.  The
\* run agent_repair shows that the hypothesis is needed.
THEOREM AcceptedIsWork == NoRepairTail => (Spec => []AcceptedMeansWorked)
<1> SUFFICES ASSUME NoRepairTail PROVE Spec => []AcceptedMeansWorked
  OBVIOUS
<1>1. Init => Bound /\ SkippedForGood
  BY DEF Init, Bound, SkippedForGood
<1>2. WorkInv /\ Bound /\ SkippedForGood /\ [Next]_vars => (Bound /\ SkippedForGood)'
  BY BoundStep, SkippedStep DEF NoRepairTail
<1>3. WorkInv /\ SkippedForGood => AcceptedMeansWorked
  <2> SUFFICES ASSUME WorkInv, SkippedForGood, NEW n \in Roles, Enabled(n), status[n] = "ACCEPTED"
               PROVE  \E k \in Attempts : op[<<n, k>>] = "succeeded"
    BY DEF AcceptedMeansWorked
  <2>1. n \in Nodes /\ When[n] # Blocking
    BY DEF Roles, NoRepairTail
  <2>2. When[n] = Always \/ When[n] \in Selected
    BY <2>1 DEF Enabled, WorkInv, TypeOK
  <2>3. attempt[n] # 0
    BY <2>1, <2>2 DEF SkippedForGood
  <2> QED
    BY <2>3 DEF WorkInv, WorkedFor
<1> QED
  BY <1>1, <1>2, <1>3, WorkInvariant, PTL DEF Spec


-----------------------------------------------------------------------------
(* What each step does, for the arguments below.                           *)

\* Handlers of requests and of the start-up settle no operation.
LEMMA NamedAreNoOps == Create \notin Ops /\ Capture \notin Ops /\ Requeue \notin Ops
BY DEF Create, Capture, Requeue, Ops, Attempts

\* Begin.
LEMMA BeginIs ==
  ASSUME WorkInv, NEW h, Begin(h)
  PROVE  /\ h \in Handlers /\ h \notin Ops /\ Others(h) /\ todo'[h] = todo[h] /\ job'[h] = job[h]
         /\ pc[h] = "idle" /\ pc'[h] = "advancing" /\ busy = NoHandler /\ busy' = h /\ server = "up"
         /\ UNCHANGED <<status, attempt, compiled, predicates, op, server, crashes, outages>>
<1>1. h \in Handlers /\ h \notin Ops
  BY NamedHandlers, NamedAreNoOps DEF Begin
<1>2. Others(h) /\ todo'[h] = todo[h] /\ pc'[h] = "advancing" /\ job'[h] = job[h]
  BY <1>1, Moves DEF Begin, PCs
<1> QED BY <1>1, <1>2 DEF Begin, Resumes, dag, faults

\* Complete.
LEMMA CompleteIs ==
  ASSUME WorkInv, NEW h, NEW s \in {"succeeded", "failed"}, Complete(h, s)
  PROVE  /\ h \in Handlers /\ h \in Ops /\ Others(h) /\ todo'[h] = todo[h] /\ job'[h] = job[h]
         /\ pc[h] = "idle" /\ pc'[h] = "opening" /\ busy = NoHandler /\ busy' = busy /\ server = "up"
         /\ op[h] = "open" /\ op'[h] \in {"succeeded", "failed"} /\ \A o \in Ops \ {h} : op'[o] = op[o]
         /\ UNCHANGED <<status, attempt, compiled, predicates, server, crashes, outages>>
<1>1. h \in Handlers /\ h \in Ops /\ op[h] = "open"
  BY OpNode DEF Complete
<1>2. Others(h) /\ todo'[h] = todo[h] /\ pc'[h] = "opening" /\ job'[h] = job[h]
  BY <1>1, Moves, TypeParts DEF Complete, PCs, WorkInv, FramesType
<1>3. op'[h] = s /\ \A o \in Ops \ {h} : op'[o] = op[o]
  BY <1>1, TypeParts DEF Complete, WorkInv, DagType
<1> QED BY <1>1, <1>2, <1>3 DEF Complete, Resumes, dag

\* Opened.
LEMMA OpenedIs ==
  ASSUME WorkInv, NEW h \in Handlers, Opened(h)
  PROVE  /\ h \in Ops /\ Others(h) /\ todo'[h] = todo[h] /\ job'[h] = job[h]
         /\ pc[h] = "opening" /\ busy = NoHandler
         /\ (pc'[h] = "reading" /\ busy' = NoHandler) \/ (pc'[h] = "failing" /\ busy' = h)
         /\ UNCHANGED <<status, attempt, compiled, predicates, op, server, crashes, outages>>
<1>1. FramesType /\ pc[h] = "opening" /\ h \in Ops
  BY TypeParts DEF WorkInv, FramesFit, FrameFits, SettlingAt, Opened, Resumes
<1>2. PICK l \in {"reading", "failing"} :
        Goto(h, l) /\ ((l = "reading" /\ busy' = busy) \/ (l = "failing" /\ busy' = h))
  BY DEF Opened
<1>3. pc'[h] = l /\ \A g \in Handlers \ {h} : pc'[g] = pc[g]
  BY <1>1, <1>2, GotoType DEF PCs
<1>4. \A g \in Handlers \ {h} : guarded'[g] = guarded[g]
  BY <1>1 DEF Opened, FramesType
<1> QED BY <1>1, <1>2, <1>3, <1>4 DEF Opened, Resumes, Others, dag, faults

\* AlreadyAccepted, BindProfile and Judge.
LEMMA OnwardIs ==
  ASSUME WorkInv, NEW h \in Handlers,
         AlreadyAccepted(h) \/ BindProfile(h) \/ (\E b \in BOOLEAN : Judge(h, b))
  PROVE  /\ h \in Ops /\ Others(h) /\ todo'[h] = todo[h] /\ job'[h] = job[h]
         /\ pc[h] \in {"reading", "binding", "judging"} /\ pc'[h] = "advancing"
         /\ busy \in {NoHandler, h} /\ busy' = h
         /\ pc[h] = "reading" => status[h[1]] = "ACCEPTED"
         /\ compiled' => compiled \/ pc[h] = "binding"
         /\ predicates' \subseteq Selected \/ predicates' = predicates
            \/ (pc[h] = "judging" /\ predicates' = predicates \cup {Blocking})
         /\ UNCHANGED <<status, attempt, op, server, crashes, outages>>
<1>1. /\ Goto(h, "advancing") /\ busy' = h
      /\ UNCHANGED <<status, attempt, op, guarded, todo, job, server, faults>>
  BY DEF AlreadyAccepted, BindProfile, Judge, Runs, dag
<1>2. Others(h) /\ todo'[h] = todo[h] /\ pc'[h] = "advancing" /\ job'[h] = job[h]
  BY <1>1, Moves DEF PCs
<1>3. pc[h] \in {"reading", "binding", "judging"} /\ busy \in {NoHandler, h}
  BY DEF AlreadyAccepted, BindProfile, Judge, Runs, Resumes
<1>4. h \in Ops
  BY <1>3, SettledNode DEF SettlingAt
<1>5. /\ pc[h] = "reading" => status[h[1]] = "ACCEPTED"
      /\ compiled' => compiled \/ pc[h] = "binding"
      /\ predicates' \subseteq Selected \/ predicates' = predicates
            \/ (pc[h] = "judging" /\ predicates' = predicates \cup {Blocking})
  BY DEF AlreadyAccepted, BindProfile, Judge, Runs, Resumes, dag
<1> QED BY <1>1, <1>2, <1>3, <1>4, <1>5 DEF faults

\* The record of node n becomes <<s, k>>.
Becomes(n, s, k) ==
  /\ status'[n] = s /\ attempt'[n] = k
  /\ \A m \in Nodes \ {n} : status'[m] = status[m] /\ attempt'[m] = attempt[m]

\* AcceptValid.
LEMMA AcceptValidIs ==
  ASSUME WorkInv, NEW h \in Handlers, AcceptValid(h)
  PROVE  /\ h \in Ops /\ Others(h) /\ todo'[h] = todo[h]
         /\ pc[h] = "reading" /\ pc'[h] = "storing" /\ busy = NoHandler /\ busy' = busy
         /\ status[h[1]] # "ACCEPTED" /\ Becomes(h[1], "SPAWNED", attempt[h[1]])
         /\ UNCHANGED <<compiled, predicates, op, server, crashes, outages>>
<1>1. FramesType /\ DagType /\ pc[h] = "reading" /\ busy = NoHandler
  BY TypeParts DEF WorkInv, AcceptValid, Resumes
<1>2. h \in Ops /\ h[1] \in Nodes /\ attempt[h[1]] \in Nat \ {0}
  BY <1>1, SettledNode DEF SettlingAt
<1>3. Put(h[1], "SPAWNED", attempt[h[1]]) /\ status[h[1]] # "ACCEPTED"
  BY <1>2 DEF AcceptValid
<1>4. Becomes(h[1], "SPAWNED", attempt[h[1]])
  BY <1>1, <1>2, <1>3, PutType DEF Becomes, Statuses, AcceptValid
<1>5. pc'[h] = "storing" /\ \A g \in Handlers \ {h} : pc'[g] = pc[g]
  BY <1>1, GotoType DEF AcceptValid, PCs
<1>6. \A g \in Handlers \ {h} : job'[g] = job[g]
  BY <1>1 DEF AcceptValid, FramesType
<1> QED BY <1>1, <1>2, <1>3, <1>4, <1>5, <1>6 DEF AcceptValid, Others, faults

\* AcceptInvalid.
LEMMA AcceptInvalidIs ==
  ASSUME WorkInv, NEW h \in Handlers, AcceptInvalid(h)
  PROVE  /\ h \in Ops /\ Others(h) /\ todo'[h] = todo[h] /\ job'[h] = job[h]
         /\ pc[h] = "reading" /\ pc'[h] = "advancing" /\ busy = NoHandler /\ busy' = h
         /\ status[h[1]] # "ACCEPTED" /\ Becomes(h[1], "RETRYING", attempt[h[1]] + 1)
         /\ UNCHANGED <<compiled, predicates, op, server, crashes, outages>>
<1>1. FramesType /\ DagType /\ pc[h] = "reading" /\ busy = NoHandler
  BY TypeParts DEF WorkInv, AcceptInvalid, Resumes
<1>2. h \in Ops /\ h[1] \in Nodes /\ attempt[h[1]] \in Nat \ {0} /\ attempt[h[1]] + 1 \in Nat
  BY <1>1, SettledNode DEF SettlingAt
<1>3. Put(h[1], "RETRYING", attempt[h[1]] + 1) /\ status[h[1]] # "ACCEPTED"
  BY <1>2 DEF AcceptInvalid
<1>4. Becomes(h[1], "RETRYING", attempt[h[1]] + 1)
  BY <1>1, <1>2, <1>3, PutType DEF Becomes, Statuses, AcceptInvalid
<1>5. Others(h) /\ todo'[h] = todo[h] /\ pc'[h] = "advancing" /\ job'[h] = job[h]
  BY Moves DEF AcceptInvalid, PCs
<1> QED BY <1>1, <1>2, <1>3, <1>4, <1>5 DEF AcceptInvalid

\* Accepted.
LEMMA AcceptedIs ==
  ASSUME WorkInv, NEW h \in Handlers, Accepted(h)
  PROVE  /\ h \in Ops /\ Others(h) /\ todo'[h] = todo[h]
         /\ pc[h] = "storing" /\ busy = NoHandler
         /\ \/ pc'[h] = "binding" /\ busy' = NoHandler /\ h[1] = Analyst
            \/ pc'[h] \in {"judging", "advancing"} /\ busy' = h /\ h[1] # Analyst
         /\ Becomes(h[1], "ACCEPTED", job[h])
         /\ UNCHANGED <<compiled, predicates, op, server, crashes, outages>>
<1>1. FramesType /\ DagType /\ pc[h] = "storing" /\ busy = NoHandler
  BY TypeParts DEF WorkInv, Accepted, Resumes
<1>2. h \in Ops /\ h[1] \in Nodes /\ job[h] \in Nat
  BY <1>1, SettledNode DEF SettlingAt, FramesType
<1>3. Becomes(h[1], "ACCEPTED", job[h])
  BY <1>1, <1>2, PutType DEF Becomes, Statuses, Accepted
<1>4. PICK l \in {"binding", "judging", "advancing"} :
        /\ Goto(h, l)
        /\ \/ l = "binding" /\ h[1] = Analyst /\ busy' = busy
           \/ l # "binding" /\ h[1] # Analyst /\ busy' = h
  BY DEF Accepted
<1>5. pc'[h] = l /\ \A g \in Handlers \ {h} : pc'[g] = pc[g]
  BY <1>1, <1>4, GotoType DEF PCs
<1>6. \A g \in Handlers \ {h} : job'[g] = job[g]
  BY <1>1 DEF Accepted, FramesType
<1> QED BY <1>1, <1>2, <1>3, <1>4, <1>5, <1>6 DEF Accepted, Others, faults

\* Failed.
LEMMA FailedIs ==
  ASSUME WorkInv, NEW h \in Handlers, Failed(h)
  PROVE  /\ h \in Ops /\ Others(h) /\ todo'[h] = todo[h] /\ job'[h] = job[h]
         /\ pc[h] = "failing" /\ pc'[h] = "advancing" /\ busy = h /\ busy' = h
         /\ \/ status[h[1]] \in {"ACCEPTED", "RETRYING"} /\ Becomes(h[1], status[h[1]], attempt[h[1]])
            \/ status[h[1]] # "ACCEPTED" /\ Becomes(h[1], "RETRYING", attempt[h[1]] + 1)
            \/ status[h[1]] # "ACCEPTED" /\ Becomes(h[1], "FAILED", attempt[h[1]])
         /\ UNCHANGED <<compiled, predicates, op, server, crashes, outages>>
<1> DEFINE n == h[1]
<1>1. FramesType /\ DagType /\ pc[h] = "failing" /\ busy = h
  BY TypeParts DEF WorkInv, Failed, Runs
<1>2. h \in Ops /\ n \in Nodes /\ attempt[n] \in Nat \ {0} /\ status[n] \in Statuses /\ attempt[n] + 1 \in Nat
  BY <1>1, SettledNode DEF SettlingAt
<1>3. \/ status[n] \in {"ACCEPTED", "RETRYING"} /\ Put(n, status[n], attempt[n])
      \/ status[n] # "ACCEPTED" /\ Put(n, "RETRYING", attempt[n] + 1)
      \/ status[n] # "ACCEPTED" /\ Put(n, "FAILED", attempt[n])
  BY DEF Failed, FailedRecord
<1> HIDE DEF n
<1>4. \/ status[n] \in {"ACCEPTED", "RETRYING"} /\ Becomes(n, status[n], attempt[n])
      \/ status[n] # "ACCEPTED" /\ Becomes(n, "RETRYING", attempt[n] + 1)
      \/ status[n] # "ACCEPTED" /\ Becomes(n, "FAILED", attempt[n])
  BY <1>1, <1>2, <1>3, PutType DEF Becomes, Statuses, Failed
<1>5. Others(h) /\ todo'[h] = todo[h] /\ pc'[h] = "advancing" /\ job'[h] = job[h]
  BY <1>1, Moves DEF Failed, PCs, FramesType
<1> QED BY <1>1, <1>2, <1>4, <1>5 DEF Failed, faults, n

\* StoreFails, ResultUnreadable, DedupeConflict and the refusal of a listed node: an exception.
LEMMA ThrowIs ==
  ASSUME WorkInv, NEW h \in Handlers,
         \/ StoreFails(h) \/ ResultUnreadable(h) \/ DedupeConflict(h)
         \/ Runs(h, "preparing") /\ Throw(h) /\ UNCHANGED <<dag, op, server, faults>>
  PROVE  /\ Others(h) /\ todo'[h] = {}
         /\ \/ pc[h] \in {"opening", "reading", "storing", "binding", "uploading"} /\ busy = NoHandler
            \/ pc[h] = "preparing" /\ busy = h
         /\ \/ pc'[h] = "failing" /\ busy' = h /\ h \in Ops
            \/ pc'[h] = "done" /\ busy' = NoHandler
         /\ outages' = 0 => /\ outages = 0
                            /\ \/ pc[h] = "preparing" \/ (pc[h] = "reading" /\ pc'[h] = "failing")
                               \/ DedupeConflict(h)
         /\ UNCHANGED <<status, attempt, compiled, predicates, op, server, crashes>>
<1>1. FramesType /\ Throw(h) /\ (guarded[h] => h \in Ops) /\ outages \in Nat
  BY TypeParts DEF WorkInv, FramesFit, FrameFits, StoreFails, ResultUnreadable, DedupeConflict, FaultsType
<1>2. Others(h) /\ todo'[h] = {} /\ pc'[h] = IF guarded[h] THEN "failing" ELSE "done"
  BY <1>1, ThrowType DEF Others
<1>3. busy' = IF guarded[h] THEN h ELSE NoHandler
  BY <1>1 DEF Throw
<1>4. \/ pc[h] \in {"opening", "reading", "storing", "binding", "uploading"} /\ busy = NoHandler
      \/ pc[h] = "preparing" /\ busy = h
  BY DEF StoreFails, ResultUnreadable, DedupeConflict, Resumes, Runs
<1>5. outages' = 0 => /\ outages = 0
                      /\ pc[h] = "preparing" \/ (pc[h] = "reading" /\ guarded[h]) \/ DedupeConflict(h)
  <2>1. CASE StoreFails(h)
    BY <1>1, <2>1 DEF StoreFails
  <2>2. CASE DedupeConflict(h)
    BY <2>2 DEF DedupeConflict, faults
  <2> QED BY <2>1, <2>2 DEF ResultUnreadable, Resumes, Runs, faults
<1>6. UNCHANGED <<status, attempt, compiled, predicates, op, server, crashes>>
  BY DEF StoreFails, ResultUnreadable, DedupeConflict, dag, faults
<1> QED BY <1>1, <1>2, <1>3, <1>4, <1>5, <1>6

\* Prepare: the next node of the list is spawned, or refused.
LEMMA PrepareIs ==
  ASSUME WorkInv, NEW h \in Handlers, Prepare(h)
  PROVE  \E n \in todo[h] :
           /\ n \in Roles /\ n \in Nodes /\ pc[h] = "preparing" /\ busy = h
           /\ \/ /\ Others(h) /\ todo'[h] = todo[h] /\ MaySpawn(status[n])
                 /\ pc'[h] = "uploading" /\ busy' = NoHandler
                 /\ Becomes(n, "SPAWNED", job'[h]) /\ job'[h] = IF attempt[n] = 0 THEN 1 ELSE attempt[n]
                 /\ UNCHANGED <<compiled, predicates, op, server, crashes, outages>>
              \/ /\ ~MaySpawn(status[n])
                 /\ Runs(h, "preparing") /\ Throw(h) /\ UNCHANGED <<dag, op, server, faults>>
<1>1. PICK n \in Foremost(todo[h]) :
        \/ /\ MaySpawn(status[n])
           /\ Put(n, "SPAWNED", IF attempt[n] = 0 THEN 1 ELSE attempt[n])
           /\ job' = [job EXCEPT ![h] = attempt'[n]]
           /\ Goto(h, "uploading") /\ busy' = NoHandler
           /\ UNCHANGED <<guarded, todo>>
        \/ ~MaySpawn(status[n]) /\ Throw(h) /\ UNCHANGED <<status, attempt>>
  BY DEF Prepare
<1>2. /\ FramesType /\ DagType /\ pc[h] = "preparing" /\ busy = h
      /\ UNCHANGED <<compiled, predicates, op, server, faults>>
  BY TypeParts DEF WorkInv, Prepare, Runs
<1>3. n \in todo[h] /\ n \in Roles /\ n \in Nodes
  BY <1>2, ForemostListed DEF FramesType, Roles
<1>4. CASE ~MaySpawn(status[n])
  BY <1>1, <1>2, <1>3, <1>4 DEF Runs, dag
<1>5. CASE MaySpawn(status[n])
  <2> DEFINE k == IF attempt[n] = 0 THEN 1 ELSE attempt[n]
  <2>1. k \in Nat
    BY <1>2, <1>3 DEF DagType
  <2>2. Put(n, "SPAWNED", k)
    BY <1>1, <1>5
  <2> HIDE DEF k
  <2>3. Becomes(n, "SPAWNED", k)
    BY <1>2, <1>3, <2>1, <2>2, PutType DEF Becomes, Statuses
  <2>4. job'[h] = attempt'[n] /\ \A g \in Handlers \ {h} : job'[g] = job[g]
    BY <1>1, <1>2, <1>5 DEF FramesType
  <2>5. job'[h] = k
    BY <2>3, <2>4 DEF Becomes
  <2>6. pc'[h] = "uploading" /\ \A g \in Handlers \ {h} : pc'[g] = pc[g]
    BY <1>1, <1>2, <1>5, GotoType DEF PCs
  <2>7. Others(h) /\ todo'[h] = todo[h] /\ busy' = NoHandler
    BY <1>1, <1>5, <2>4, <2>6 DEF Others
  <2> QED BY <1>2, <1>3, <1>5, <2>3, <2>5, <2>6, <2>7 DEF k, faults
<1> QED BY <1>4, <1>5

\* Uploaded.
LEMMA UploadedIs ==
  ASSUME WorkInv, NEW h \in Handlers, Uploaded(h)
  PROVE  \E n \in todo[h] :
           /\ n \in Roles /\ <<n, job[h]>> \in Ops /\ job[h] \in Attempts
           /\ Others(h) /\ todo'[h] = todo[h] \ {n}
           /\ pc[h] = "uploading" /\ pc'[h] = "preparing" /\ busy = NoHandler /\ busy' = h
           /\ \A o \in Ops : op'[o] = IF o = <<n, job[h]>> /\ op[o] = "absent" THEN "open" ELSE op[o]
           /\ UNCHANGED <<status, attempt, compiled, predicates, server, crashes, outages>>
<1>1. PICK n \in Foremost(todo[h]) :
        /\ op' = [op EXCEPT ![DedupeKey(n, job[h])] = IF @ = "absent" THEN "open" ELSE @]
        /\ todo' = [todo EXCEPT ![h] = @ \ {n}]
  BY DEF Uploaded
<1>2. FramesType /\ DagType /\ pc[h] = "uploading" /\ busy = NoHandler /\ job[h] \in Attempts
  BY TypeParts DEF WorkInv, Uploaded, Resumes
<1>3. n \in todo[h] /\ n \in Roles /\ <<n, job[h]>> \in Ops
  BY <1>2, ForemostListed DEF FramesType, Ops
<1>4. \A o \in Ops : op'[o] = IF o = <<n, job[h]>> /\ op[o] = "absent" THEN "open" ELSE op[o]
  BY <1>1, <1>2, <1>3 DEF DedupeKey, DagType
<1>5. pc'[h] = "preparing" /\ \A g \in Handlers \ {h} : pc'[g] = pc[g]
  BY <1>2, GotoType DEF Uploaded, PCs
<1>6. \A g \in Handlers \ {h} : job'[g] = job[g]
  BY <1>2 DEF Uploaded, FramesType
<1>7. todo'[h] = todo[h] \ {n} /\ \A g \in Handlers \ {h} : todo'[g] = todo[g]
  BY <1>1, <1>2 DEF FramesType
<1>8. Others(h)
  BY <1>5, <1>6, <1>7 DEF Others, Uploaded
<1> QED BY <1>2, <1>3, <1>4, <1>5, <1>7, <1>8 DEF Uploaded, dag, faults

\* Return.
LEMMA ReturnIs ==
  ASSUME WorkInv, NEW h \in Handlers, Return(h)
  PROVE  /\ Others(h) /\ todo'[h] = {} /\ todo[h] = {}
         /\ pc[h] = "preparing" /\ pc'[h] = "done" /\ busy = h /\ busy' = NoHandler
         /\ server' \in {"up", server}
         /\ UNCHANGED <<status, attempt, compiled, predicates, op, crashes, outages>>
<1>1. FramesType /\ pc[h] = "preparing" /\ busy = h /\ todo[h] = {}
  BY TypeParts DEF WorkInv, Return, Runs
<1>2. pc'[h] = "done" /\ \A g \in Handlers \ {h} : pc'[g] = pc[g]
  BY <1>1, GotoType DEF Return, PCs
<1>3. \A g \in Handlers \ {h} : guarded'[g] = guarded[g]
  BY <1>1 DEF Return, FramesType
<1> QED BY <1>1, <1>2, <1>3 DEF Return, Others, dag, faults

\* Advance: skipped nodes are accepted; then controllers' nodes, or the ready ones are listed.
LEMMA AdvanceIs ==
  ASSUME WorkInv, NEW h \in Handlers, Advance(h)
  PROVE  /\ Others(h) /\ pc[h] = "advancing" /\ busy = h /\ busy' = h /\ job'[h] = job[h]
         /\ \A n \in Nodes :
              status'[n] = IF n \in Skipped(status) \cup Steps(Ready(AfterSkip)) THEN "ACCEPTED"
                           ELSE status[n]
         /\ \A n \in Nodes : attempt'[n] = IF n \in Steps(Ready(AfterSkip)) THEN 1 ELSE attempt[n]
         /\ \/ /\ Steps(Ready(AfterSkip)) = {} /\ status' = AfterSkip
               /\ pc'[h] = "preparing" /\ todo'[h] = Ready(AfterSkip) /\ Ready(AfterSkip) \subseteq Roles
            \/ pc'[h] = "advancing" /\ todo'[h] = todo[h]
         /\ UNCHANGED <<compiled, predicates, op, server, crashes, outages>>
<1> DEFINE ready == Ready(AfterSkip)
           steps == Steps(ready)
<1>1. FramesType /\ pc[h] = "advancing" /\ busy = h
  BY TypeParts DEF WorkInv, Advance, Runs
<1>2. /\ status' = [n \in Nodes |-> IF n \in steps THEN "ACCEPTED" ELSE AfterSkip[n]]
      /\ attempt' = [n \in Nodes |-> IF n \in steps THEN 1 ELSE attempt[n]]
      /\ \/ steps = {} /\ todo' = [todo EXCEPT ![h] = ready] /\ Goto(h, "preparing")
         \/ UNCHANGED <<todo, pc>>
      /\ UNCHANGED <<compiled, predicates, op, guarded, job, busy, server, faults>>
  BY DEF Advance, AfterSkip
<1>3. \A n \in Nodes : AfterSkip[n] = IF n \in Skipped(status) THEN "ACCEPTED" ELSE status[n]
  BY DEF AfterSkip
<1> HIDE DEF ready, steps
<1>4. \A n \in Nodes : status'[n] = IF n \in Skipped(status) \cup steps THEN "ACCEPTED" ELSE status[n]
  BY <1>2, <1>3
<1>5. CASE steps = {} /\ todo' = [todo EXCEPT ![h] = ready] /\ Goto(h, "preparing")
  <2>1. ready \subseteq Roles
    BY <1>5, ReadyRoles DEF ready, steps
  <2>2. pc'[h] = "preparing" /\ \A g \in Handlers \ {h} : pc'[g] = pc[g]
    BY <1>1, <1>5, GotoType DEF PCs
  <2>3. todo'[h] = ready /\ \A g \in Handlers \ {h} : todo'[g] = todo[g]
    BY <1>1, <1>5, <2>1 DEF FramesType
  <2>4. status' = AfterSkip
    BY <1>2, <1>5 DEF AfterSkip
  <2> QED BY <1>1, <1>2, <1>4, <1>5, <2>1, <2>2, <2>3, <2>4 DEF Others, faults, steps, ready
<1>6. CASE UNCHANGED <<todo, pc>>
  BY <1>1, <1>2, <1>4, <1>6 DEF Others, faults, steps, ready
<1> QED BY <1>2, <1>5, <1>6

\* Crash.
LEMMA CrashIs ==
  ASSUME WorkInv, Crash
  PROVE  /\ \A h \in Handlers : /\ pc'[h] = IF pc[h] = "idle" THEN "idle" ELSE "done"
                                /\ todo'[h] = {}
         /\ server' = "down" /\ busy' = NoHandler /\ crashes' \in Nat \ {0}
         /\ UNCHANGED <<status, attempt, compiled, predicates, op, outages>>
BY DEF Crash, dag, WorkInv, TypeOK

\* Restart.
LEMMA RestartIs ==
  ASSUME WorkInv, Restart
  PROVE  /\ \A h \in Handlers : todo'[h] = todo[h] /\ job'[h] = job[h]
         /\ \A h \in Handlers \ {Requeue} : pc'[h] = pc[h]
         /\ \/ pc'[Requeue] = "advancing" /\ busy' = Requeue
            \/ /\ pc'[Requeue] = pc[Requeue] /\ busy' = busy
               /\ \A n \in Nodes : status[n] # "RETRYING"
         /\ server = "down" /\ server' # "down"
         /\ UNCHANGED <<status, attempt, compiled, predicates, op, crashes, outages>>
<1>1. pc \in [Handlers -> PCs] /\ Requeue \in Handlers
  BY TypeParts, NamedHandlers DEF WorkInv, FramesType
<1> QED BY <1>1 DEF Restart, Goto, dag, faults

\* The steps, one by one.
LEMMA StepIs ==
  ASSUME [Next]_vars
  PROVE  \/ \E h : Begin(h)
         \/ \E h : \E s \in {"succeeded", "failed"} : Complete(h, s)
         \/ \E h \in Handlers :
              \/ Opened(h) \/ AcceptValid(h) \/ AcceptInvalid(h) \/ Accepted(h) \/ Failed(h)
              \/ AlreadyAccepted(h) \/ BindProfile(h) \/ (\E b \in BOOLEAN : Judge(h, b))
              \/ StoreFails(h) \/ ResultUnreadable(h) \/ DedupeConflict(h)
              \/ Advance(h) \/ Prepare(h) \/ Uploaded(h) \/ Return(h)
         \/ Crash \/ Restart \/ UNCHANGED vars
BY DEF Next, Serve, Settling, Enqueueing, Active

-----------------------------------------------------------------------------
(* Turns.                                                                  *)

\* Where a handler is only while it runs.
Synchronous == {"failing", "judging", "advancing", "preparing"}

\* What a handler's place says: it has the turn where it does not wait, its operation is settled,
\* it has a list only while it works it off, and what it binds or judges is accepted.
TurnFits(h) ==
  /\ pc[h] \in Synchronous => busy = h
  /\ h \in Ops /\ pc[h] # "idle" => op[h] \in {"succeeded", "failed"}
  /\ pc[h] \notin {"preparing", "uploading"} => todo[h] = {}
  /\ pc[h] = "uploading" => todo[h] # {}
  /\ pc[h] = "binding" => h[1] = Analyst /\ status[Analyst] = "ACCEPTED"
  /\ pc[h] = "judging" => h[1] # Analyst

\* Whoever has the turn has it alone, and a server that is down runs nothing.
TurnInv ==
  /\ \A h \in Handlers : TurnFits(h)
  /\ compiled => status[Analyst] = "ACCEPTED"
  /\ server # "up" => crashes # 0
  /\ server = "down" => busy = NoHandler /\ \A h \in Handlers : pc[h] \in {"idle", "done"}

\* Steps of h keep the turns of the others.
LEMMA TurnKeeps ==
  ASSUME WorkInv, TurnInv, NEW h \in Handlers, Others(h), Grown, busy \in {NoHandler, h},
         \A o \in Ops \ {h} : op[o] \in {"succeeded", "failed"} => op'[o] = op[o],
         TurnFits(h)'
  PROVE  \A g \in Handlers : TurnFits(g)'
<1> SUFFICES ASSUME NEW g \in Handlers, g # h PROVE TurnFits(g)'
  OBVIOUS
<1>1. TurnFits(g) /\ busy # g
  BY WorkAssumption DEF TurnInv
<1>2. pc'[g] = pc[g] /\ todo'[g] = todo[g]
  BY DEF Others
<1>3. status[Analyst] = "ACCEPTED" => status'[Analyst] = "ACCEPTED"
  BY WorkAssumption DEF Grown
<1> QED BY <1>1, <1>2, <1>3 DEF TurnFits

\* Every step keeps the turns.
LEMMA TurnStep == ASSUME WorkInv, TurnInv, [Next]_vars PROVE TurnInv'
<1> DEFINE Rest == /\ compiled' => status'[Analyst] = "ACCEPTED"
                   /\ server' # "up" => crashes' # 0
                   /\ server' = "down" => busy' = NoHandler /\ \A h \in Handlers : pc'[h] \in {"idle", "done"}
<1>1. Grown /\ TypeOK /\ Analyst \in Nodes /\ (status[Analyst] = "ACCEPTED" => status'[Analyst] = "ACCEPTED")
  BY WorkStep, WorkAssumption DEF WorkInv, Grown
<1> SUFFICES (\A g \in Handlers : TurnFits(g)') /\ Rest
  BY DEF TurnInv
<1> USE DEF Synchronous
<1>2. ASSUME NEW h, Begin(h) PROVE (\A g \in Handlers : TurnFits(g)') /\ Rest
  <2>1. TurnFits(h)' /\ Rest
    BY <1>1, <1>2, BeginIs DEF TurnFits, TurnInv
  <2> QED BY <1>1, <1>2, <2>1, BeginIs, TurnKeeps
<1>3. ASSUME NEW h, NEW s \in {"succeeded", "failed"}, Complete(h, s)
      PROVE (\A g \in Handlers : TurnFits(g)') /\ Rest
  <2>1. TurnFits(h)' /\ Rest
    BY <1>1, <1>3, CompleteIs DEF TurnFits, TurnInv
  <2> QED BY <1>1, <1>3, <2>1, CompleteIs, TurnKeeps
<1>4. ASSUME NEW h \in Handlers, Opened(h) PROVE (\A g \in Handlers : TurnFits(g)') /\ Rest
  <2>1. TurnFits(h)' /\ Rest
    BY <1>1, <1>4, OpenedIs DEF TurnFits, TurnInv
  <2> QED BY <1>1, <1>4, <2>1, OpenedIs, TurnKeeps
<1>5. ASSUME NEW h \in Handlers, AlreadyAccepted(h) \/ BindProfile(h) \/ (\E b \in BOOLEAN : Judge(h, b))
      PROVE (\A g \in Handlers : TurnFits(g)') /\ Rest
  <2>1. TurnFits(h)' /\ Rest
    BY <1>1, <1>5, OnwardIs DEF TurnFits, TurnInv
  <2> QED BY <1>1, <1>5, <2>1, OnwardIs, TurnKeeps
<1>6. ASSUME NEW h \in Handlers, AcceptValid(h) PROVE (\A g \in Handlers : TurnFits(g)') /\ Rest
  <2>1. TurnFits(h)' /\ Rest
    BY <1>1, <1>6, AcceptValidIs DEF TurnFits, TurnInv
  <2> QED BY <1>1, <1>6, <2>1, AcceptValidIs, TurnKeeps
<1>7. ASSUME NEW h \in Handlers, AcceptInvalid(h) PROVE (\A g \in Handlers : TurnFits(g)') /\ Rest
  <2>1. TurnFits(h)' /\ Rest
    BY <1>1, <1>7, AcceptInvalidIs DEF TurnFits, TurnInv
  <2> QED BY <1>1, <1>7, <2>1, AcceptInvalidIs, TurnKeeps
<1>8. ASSUME NEW h \in Handlers, Accepted(h) PROVE (\A g \in Handlers : TurnFits(g)') /\ Rest
  <2>1. TurnFits(h)' /\ Rest
    BY <1>1, <1>8, AcceptedIs DEF TurnFits, TurnInv, Becomes
  <2> QED BY <1>1, <1>8, <2>1, AcceptedIs, TurnKeeps
<1>9. ASSUME NEW h \in Handlers, Failed(h) PROVE (\A g \in Handlers : TurnFits(g)') /\ Rest
  <2>1. TurnFits(h)' /\ Rest
    BY <1>1, <1>9, FailedIs DEF TurnFits, TurnInv
  <2> QED BY <1>1, <1>9, <2>1, FailedIs, TurnKeeps
<1>10. ASSUME NEW h \in Handlers,
              \/ StoreFails(h) \/ ResultUnreadable(h) \/ DedupeConflict(h)
              \/ Runs(h, "preparing") /\ Throw(h) /\ UNCHANGED <<dag, op, server, faults>>
       PROVE (\A g \in Handlers : TurnFits(g)') /\ Rest
  <2>1. TurnFits(h)' /\ Rest
    BY <1>1, <1>10, ThrowIs DEF TurnFits, TurnInv
  <2> QED BY <1>1, <1>10, <2>1, ThrowIs, TurnKeeps
<1>11. ASSUME NEW h \in Handlers, Advance(h) PROVE (\A g \in Handlers : TurnFits(g)') /\ Rest
  <2>1. TurnFits(h)' /\ Rest
    BY <1>1, <1>11, AdvanceIs DEF TurnFits, TurnInv
  <2> QED BY <1>1, <1>11, <2>1, AdvanceIs, TurnKeeps
<1>12. ASSUME NEW h \in Handlers, Prepare(h) PROVE (\A g \in Handlers : TurnFits(g)') /\ Rest
  <2>1. PICK n \in todo[h] :
           /\ pc[h] = "preparing" /\ busy = h
           /\ \/ /\ Others(h) /\ todo'[h] = todo[h] /\ pc'[h] = "uploading"
                 /\ UNCHANGED <<compiled, predicates, op, server, crashes, outages>>
              \/ Runs(h, "preparing") /\ Throw(h) /\ UNCHANGED <<dag, op, server, faults>>
    BY <1>12, PrepareIs
  <2>2. CASE Others(h) /\ todo'[h] = todo[h] /\ pc'[h] = "uploading"
             /\ UNCHANGED <<compiled, predicates, op, server, crashes, outages>>
    <3>1. TurnFits(h)' /\ Rest
      BY <1>1, <2>1, <2>2 DEF TurnFits, TurnInv
    <3> QED BY <1>1, <2>1, <2>2, <3>1, TurnKeeps
  <2> QED BY <1>10, <2>1, <2>2
<1>13. ASSUME NEW h \in Handlers, Uploaded(h) PROVE (\A g \in Handlers : TurnFits(g)') /\ Rest
  <2>1. TurnFits(h)' /\ Rest
    BY <1>1, <1>13, UploadedIs DEF TurnFits, TurnInv
  <2> QED BY <1>1, <1>13, <2>1, UploadedIs, TurnKeeps
<1>14. ASSUME NEW h \in Handlers, Return(h) PROVE (\A g \in Handlers : TurnFits(g)') /\ Rest
  <2>1. TurnFits(h)' /\ Rest
    BY <1>1, <1>14, ReturnIs DEF TurnFits, TurnInv
  <2> QED BY <1>1, <1>14, <2>1, ReturnIs, TurnKeeps
<1>15. CASE Crash
  <2>1. \A g \in Handlers : TurnFits(g)'
    BY <1>15, CrashIs DEF TurnFits, TurnInv
  <2>2. Rest
    BY <1>1, <1>15, CrashIs DEF TurnInv
  <2> QED BY <2>1, <2>2
<1>16. CASE Restart
  <2>1. TurnFits(Requeue)'
    BY <1>16, RestartIs, NamedHandlers, NamedAreNoOps DEF TurnFits, TurnInv
  <2>2. \A g \in Handlers \ {Requeue} : TurnFits(g)'
    BY <1>16, RestartIs DEF TurnFits, TurnInv
  <2>3. Rest
    BY <1>16, RestartIs DEF TurnInv
  <2> QED BY <2>1, <2>2, <2>3
<1>17. CASE UNCHANGED vars
  BY <1>17 DEF vars, dag, frames, faults, TurnInv, TurnFits
<1> HIDE DEF Rest
<1> QED BY <1>2, <1>3, <1>4, <1>5, <1>6, <1>7, <1>8, <1>9, <1>10, <1>11, <1>12, <1>13, <1>14, <1>15,
           <1>16, <1>17, StepIs

-----------------------------------------------------------------------------
(* Nodes that the selection leaves out, and what precedes a node.          *)

\* Nodes whose predicate the selection does not set.
Unselected == {n \in Nodes : When[n] # Always /\ When[n] \notin Selected}

\* The analyst is always enabled, and blocking findings are not a matter of the selection.
FindingsComeLater == When[Analyst] = Always /\ Blocking \notin Selected

\* All of the nodes left out were skipped.
Swept == \A n \in Unselected : status[n] = "ACCEPTED"

\* They are skipped before anything but the analyst starts, so that findings come too late for them.
SweptInv ==
  /\ \A n \in Unselected : attempt[n] = 0 /\ \A h \in Handlers : n \notin todo[h]
  /\ Blocking \in predicates => Swept
  /\ \A n \in Nodes \ {Analyst} : attempt[n] # 0 \/ (\E h \in Handlers : n \in todo[h]) => Swept

\* B[n] holds nodes that n waits for: its dependencies, and what those of them that are not left
\* out wait for.
Precedence(B) ==
  /\ B \in [Nodes -> SUBSET Nodes]
  /\ \A n \in Nodes : B[n] \subseteq Deps[n] \cup UNION {B[d] : d \in Deps[n] \ Unselected}

\* What n waits for is accepted.
Past(B, n) == \A m \in B[n] : status[m] = "ACCEPTED"

\* What is started or listed has everything that it waits for behind it.
PastInv(B) ==
  /\ \A n \in Nodes : attempt[n] # 0 => Past(B, n)
  /\ \A h \in Handlers : \A n \in todo[h] : Past(B, n)

\* Only Advance lists nodes, and only listed nodes and controllers' nodes are started.
LEMMA StartedWasListed ==
  ASSUME WorkInv, TurnInv, [Next]_vars
  PROVE  \/ \E h \in Handlers : Advance(h)
         \/ /\ \A n \in Nodes : attempt'[n] # 0 => attempt[n] # 0 \/ \E h \in Handlers : n \in todo[h]
            /\ \A h \in Handlers : todo'[h] \subseteq todo[h]
            /\ Blocking \in predicates' =>
                 \/ Blocking \in predicates \cup Selected
                 \/ \E n \in Nodes \ {Analyst} : attempt[n] # 0
<1> DEFINE Same == /\ \A n \in Nodes : attempt'[n] # 0 => attempt[n] # 0 \/ \E h \in Handlers : n \in todo[h]
                   /\ \A h \in Handlers : todo'[h] \subseteq todo[h]
                   /\ predicates' = predicates
<1>1. ASSUME NEW h, Begin(h) PROVE Same
  BY <1>1, BeginIs DEF Others
<1>2. ASSUME NEW h, NEW s \in {"succeeded", "failed"}, Complete(h, s) PROVE Same
  BY <1>2, CompleteIs DEF Others
<1>3. ASSUME NEW h \in Handlers, Opened(h) PROVE Same
  BY <1>3, OpenedIs DEF Others
<1>4. ASSUME NEW h \in Handlers, pc[h] \in SettlingAt PROVE h[1] \in Nodes /\ attempt[h[1]] # 0
  BY <1>4, SettledNode
<1>5. ASSUME NEW h \in Handlers, AcceptValid(h) PROVE Same
  BY <1>4, <1>5, AcceptValidIs DEF Others, Becomes, SettlingAt
<1>6. ASSUME NEW h \in Handlers, AcceptInvalid(h) PROVE Same
  BY <1>4, <1>6, AcceptInvalidIs DEF Others, Becomes, SettlingAt
<1>7. ASSUME NEW h \in Handlers, Accepted(h) PROVE Same
  BY <1>4, <1>7, AcceptedIs DEF Others, Becomes, SettlingAt
<1>8. ASSUME NEW h \in Handlers, Failed(h) PROVE Same
  BY <1>4, <1>8, FailedIs DEF Others, Becomes, SettlingAt
<1>9. ASSUME NEW h \in Handlers,
             \/ StoreFails(h) \/ ResultUnreadable(h) \/ DedupeConflict(h)
             \/ Runs(h, "preparing") /\ Throw(h) /\ UNCHANGED <<dag, op, server, faults>>
      PROVE Same
  BY <1>9, ThrowIs DEF Others
<1>10. ASSUME NEW h \in Handlers, Prepare(h) PROVE Same
  <2>1. PICK n \in todo[h] :
           \/ /\ Others(h) /\ todo'[h] = todo[h] /\ Becomes(n, "SPAWNED", job'[h])
              /\ UNCHANGED <<compiled, predicates, op, server, crashes, outages>>
           \/ Runs(h, "preparing") /\ Throw(h) /\ UNCHANGED <<dag, op, server, faults>>
    BY <1>10, PrepareIs
  <2>2. CASE Others(h) /\ todo'[h] = todo[h] /\ Becomes(n, "SPAWNED", job'[h])
             /\ UNCHANGED <<compiled, predicates, op, server, crashes, outages>>
    BY <2>2 DEF Others, Becomes
  <2> QED BY <1>9, <2>1, <2>2
<1>11. ASSUME NEW h \in Handlers, Uploaded(h) PROVE Same
  BY <1>11, UploadedIs DEF Others
<1>12. ASSUME NEW h \in Handlers, Return(h) PROVE Same
  BY <1>12, ReturnIs DEF Others
<1>13. CASE Crash
  BY <1>13, CrashIs
<1>14. CASE Restart
  BY <1>14, RestartIs
<1>15. CASE UNCHANGED vars
  BY <1>15 DEF vars, dag, frames
<1>16. ASSUME NEW h \in Handlers, AlreadyAccepted(h) \/ BindProfile(h) \/ (\E b \in BOOLEAN : Judge(h, b))
       PROVE  /\ \A n \in Nodes : attempt'[n] # 0 => attempt[n] # 0
              /\ \A g \in Handlers : todo'[g] \subseteq todo[g]
              /\ Blocking \in predicates' =>
                   \/ Blocking \in predicates \cup Selected
                   \/ \E n \in Nodes \ {Analyst} : attempt[n] # 0
  <2>1. pc[h] = "judging" => h[1] \in Nodes \ {Analyst} /\ attempt[h[1]] # 0
    BY <1>4 DEF SettlingAt, TurnInv, TurnFits
  <2> QED BY <1>16, <2>1, OnwardIs DEF Others
<1> QED BY <1>1, <1>2, <1>3, <1>5, <1>6, <1>7, <1>8, <1>9, <1>10, <1>11, <1>12, <1>13, <1>14, <1>15, <1>16,
           StepIs

\* Ready nodes are not left out.
LEMMA ReadySelected ==
  ASSUME WorkInv, SweptInv, NEW n \in Nodes, n \in Ready(AfterSkip)
  PROVE  n \notin Unselected
<1> SUFFICES ASSUME n \in Unselected PROVE FALSE
  OBVIOUS
<1>1. Enabled(n) /\ AfterSkip[n] # "ACCEPTED"
  BY DEF Ready
<1>2. status[n] # "ACCEPTED"
  BY <1>1 DEF AfterSkip
<1>3. When[n] = Blocking /\ Blocking \in predicates
  BY <1>1 DEF Enabled, Unselected, WorkInv, TypeOK
<1> QED BY <1>2, <1>3 DEF SweptInv, Swept

\* Every step keeps it.
LEMMA SweptStep ==
  ASSUME FindingsComeLater, WorkInv, TurnInv, SweptInv, [Next]_vars
  PROVE  SweptInv'
<1>1. Grown /\ WorkInv' /\ (Swept => Swept')
  <2>1. Grown /\ WorkInv'
    BY WorkStep
  <2> QED BY <2>1 DEF Grown, Swept, Unselected
<1>2. ASSUME NEW h \in Handlers, Advance(h) PROVE SweptInv'
  <2> DEFINE ready == Ready(AfterSkip)
  <2>1. /\ Others(h) /\ (todo'[h] = todo[h] \/ todo'[h] = ready)
        /\ \A n \in Nodes : attempt'[n] # 0 => attempt[n] # 0 \/ n \in ready
        /\ \A n \in Skipped(status) : n \in Nodes => status'[n] = "ACCEPTED"
        /\ predicates' = predicates
    BY <1>2, AdvanceIs DEF Steps
  <2>2. \A n \in ready : n \in Nodes /\ n \notin Unselected /\ n \in Cursor
    BY ReadySelected, ReadyMet, CursorNodes
  <2>3. compiled => Swept'
    <3> SUFFICES ASSUME compiled, NEW n \in Unselected PROVE status'[n] = "ACCEPTED"
      BY DEF Swept
    <3>1. n \in Cursor /\ n \in Nodes /\ attempt[n] = 0
      BY DEF Cursor, Unselected, SweptInv
    <3>2. status[n] \in {"PENDING", "ACCEPTED"}
      BY <3>1 DEF WorkInv, CountersFit, TypeOK
    <3>3. CASE Enabled(n)
      <4>1. Blocking \in predicates
        BY <3>3 DEF Enabled, Unselected, WorkInv, TypeOK
      <4> QED BY <1>1, <4>1 DEF SweptInv, Swept
    <3>4. CASE ~Enabled(n) /\ status[n] = "PENDING"
      BY <2>1, <3>1, <3>4 DEF Skipped
    <3>5. CASE status[n] = "ACCEPTED"
      BY <1>1, <3>1, <3>5 DEF Grown
    <3> QED BY <3>2, <3>3, <3>4, <3>5
  <2> HIDE DEF ready
  <2>4. \A n \in Unselected : attempt'[n] = 0 /\ \A g \in Handlers : n \notin todo'[g]
    BY <2>1, <2>2 DEF SweptInv, Unselected, Others
  <2>5. Blocking \in predicates' => Swept'
    BY <1>1, <2>1 DEF SweptInv
  <2>6. ASSUME NEW n \in Nodes \ {Analyst}, attempt'[n] # 0 \/ (\E g \in Handlers : n \in todo'[g])
        PROVE Swept'
    <3>1. CASE n \in ready
      BY <2>2, <2>3, <3>1 DEF Cursor
    <3>2. CASE n \notin ready
      BY <1>1, <2>1, <2>6, <3>2 DEF SweptInv, Others
    <3> QED BY <3>1, <3>2
  <2> QED BY <2>4, <2>5, <2>6 DEF SweptInv
<1>3. ASSUME /\ \A n \in Nodes : attempt'[n] # 0 => attempt[n] # 0 \/ \E h \in Handlers : n \in todo[h]
             /\ \A h \in Handlers : todo'[h] \subseteq todo[h]
             /\ Blocking \in predicates' =>
                  \/ Blocking \in predicates \cup Selected
                  \/ \E n \in Nodes \ {Analyst} : attempt[n] # 0
      PROVE  SweptInv'
  <2>1. \A n \in Unselected : attempt'[n] = 0 /\ \A g \in Handlers : n \notin todo'[g]
    BY <1>3 DEF SweptInv, Unselected
  <2>2. Blocking \in predicates' => Swept'
    BY <1>1, <1>3 DEF SweptInv, FindingsComeLater
  <2>3. \A n \in Nodes \ {Analyst} : attempt'[n] # 0 \/ (\E h \in Handlers : n \in todo'[h]) => Swept'
    BY <1>1, <1>3 DEF SweptInv
  <2> QED BY <2>1, <2>2, <2>3 DEF SweptInv
<1> QED BY <1>2, <1>3, StartedWasListed

\* The repair after a review never runs: if findings come later than the selection, no node that
\* waits for blocking findings is ever started, in any profile (skippedDisabledNodes, writeRepairTail).
THEOREM RepairNeverRuns ==
  FindingsComeLater /\ Blocking # Always =>
    (Spec => [](\A n \in Nodes : When[n] = Blocking => attempt[n] = 0))
<1> SUFFICES ASSUME FindingsComeLater, Blocking # Always
             PROVE  Spec => [](\A n \in Nodes : When[n] = Blocking => attempt[n] = 0)
  OBVIOUS
<1> DEFINE Inv == WorkInv /\ TurnInv /\ SweptInv
           Idle == \A n \in Nodes : When[n] = Blocking => attempt[n] = 0
<1>1. Init => Inv
  <2>1. Init => TurnInv
    BY DEF Init, TurnInv, TurnFits, Synchronous
  <2>2. Init => SweptInv
    BY DEF Init, SweptInv, Unselected
  <2> QED BY <2>1, <2>2, WorkInitially
<1>2. Inv /\ [Next]_vars => Inv'
  BY WorkStep, TurnStep, SweptStep
<1>3. Inv => Idle
  <2>1. ASSUME NEW n \in Nodes, When[n] = Blocking PROVE n \in Unselected
    BY <2>1 DEF Unselected, FindingsComeLater
  <2> QED BY <2>1 DEF SweptInv
<1> HIDE DEF Inv, Idle
<1>4. Spec => []Idle
  BY <1>1, <1>2, <1>3, PTL DEF Spec
<1> QED BY <1>4 DEF Idle

\* A node is listed or accepted by the controller when everything it waits for is accepted.
LEMMA ReadyPast ==
  ASSUME When[Analyst] = Always, WorkInv, Bound, SkippedForGood, NEW B, Precedence(B), PastInv(B),
         NEW n \in Nodes, n \in Ready(AfterSkip)
  PROVE  \A m \in B[n] : AfterSkip[m] = "ACCEPTED"
<1>1. \A d \in Deps[n] : d \in Nodes /\ AfterSkip[d] = "ACCEPTED"
  BY ReadyMet, WorkAssumption
<1>2. ASSUME NEW d \in Deps[n] \ Unselected, NEW m \in B[d] PROVE AfterSkip[m] = "ACCEPTED"
  <2>1. d \notin Skipped(status)
    <3> SUFFICES ASSUME d \in Skipped(status) PROVE FALSE
      OBVIOUS
    <3>1. d \in Cursor /\ When[d] # Always /\ When[d] \notin predicates
      BY DEF Skipped, Enabled
    <3>2. compiled
      BY <3>1 DEF Cursor
    <3> QED BY <1>1, <1>2, <3>1, <3>2 DEF Bound, Unselected
  <2>2. status[d] = "ACCEPTED"
    BY <1>1, <2>1 DEF AfterSkip
  <2>3. attempt[d] # 0
    BY <1>1, <2>2 DEF SkippedForGood, Unselected
  <2>4. m \in Nodes /\ status[m] = "ACCEPTED"
    BY <1>1, <2>3 DEF PastInv, Past, Precedence
  <2> QED BY <2>4 DEF AfterSkip
<1> QED BY <1>1, <1>2 DEF Precedence

\* Every step keeps it.
LEMMA PastStep ==
  ASSUME When[Analyst] = Always, WorkInv, TurnInv, Bound, SkippedForGood, NEW B, Precedence(B), PastInv(B),
         [Next]_vars
  PROVE  PastInv(B)'
<1>1. Grown /\ TypeOK
  BY WorkStep DEF WorkInv
<1>2. \A n \in Nodes : Past(B, n) => Past(B, n)'
  BY <1>1 DEF Grown, Past, Precedence
<1>3. \A h \in Handlers : todo[h] \subseteq Nodes
  BY <1>1 DEF TypeOK, Roles
<1>4. ASSUME NEW h \in Handlers, Advance(h) PROVE PastInv(B)'
  <2> DEFINE ready == Ready(AfterSkip)
  <2>1. /\ Others(h) /\ (todo'[h] = todo[h] \/ todo'[h] = ready)
        /\ \A n \in Nodes : attempt'[n] # 0 => attempt[n] # 0 \/ n \in ready
        /\ \A n \in Nodes : AfterSkip[n] = "ACCEPTED" => status'[n] = "ACCEPTED"
    BY <1>4, AdvanceIs DEF Steps, AfterSkip
  <2>2. \A n \in ready : n \in Nodes /\ Past(B, n)'
    <3> SUFFICES ASSUME NEW n \in ready PROVE n \in Nodes /\ Past(B, n)'
      OBVIOUS
    <3>1. n \in Nodes
      BY ReadyMet, CursorNodes
    <3>2. \A m \in B[n] : m \in Nodes /\ AfterSkip[m] = "ACCEPTED"
      BY <3>1, ReadyPast DEF Precedence
    <3> QED BY <2>1, <3>1, <3>2 DEF Past
  <2> HIDE DEF ready
  <2> QED BY <1>2, <1>3, <2>1, <2>2 DEF PastInv, Others
<1>5. ASSUME /\ \A n \in Nodes : attempt'[n] # 0 => attempt[n] # 0 \/ \E h \in Handlers : n \in todo[h]
             /\ \A h \in Handlers : todo'[h] \subseteq todo[h]
      PROVE  PastInv(B)'
  BY <1>2, <1>3, <1>5 DEF PastInv
<1> QED BY <1>4, <1>5, StartedWasListed

-----------------------------------------------------------------------------
(* A node that is alone whenever it is at work.                            *)

\* The role nodes that the selection leaves in.
Live == Roles \ Unselected

\* Of n and any other live role node, one waits for the other.
Alone(B, n) == \A m \in Live \ {n} : m \in B[n] \/ n \in B[m]

\* Something is under way for node n at h: its operation waits for a worker or is being settled,
\* or its request is being stored.
Works(n, h) ==
  \/ h \in Ops /\ h[1] = n /\ (op[h] = "open" \/ pc[h] \in {"opening", "reading", "storing", "failing"})
  \/ pc[h] = "uploading" /\ n \in todo[h]

\* A list that has n has nothing else, it is worked off at once, and whoever settles n lists
\* nothing but n before n is accepted.
ListedAlone(n) ==
  /\ \A h \in Handlers : n \in todo[h] => todo[h] = {n}
  /\ \A h \in Handlers : pc[h] = "preparing" /\ n \in todo[h] => status[n] \in {"PENDING", "RETRYING"}
  /\ \A h \in Ops : h[1] = n /\ status[n] # "ACCEPTED" => todo[h] \subseteq {n}

\* One thing at a time is under way for n, and only while it is SPAWNED; an accepted node may
\* still be told of a failure.
OneAtATime(n) ==
  /\ \A g, h \in Handlers : Works(n, g) /\ Works(n, h) => g = h
  /\ status[n] \in {"PENDING", "RETRYING", "FAILED"} => \A h \in Handlers : ~Works(n, h)
  /\ status[n] = "ACCEPTED" => \A h \in Handlers : Works(n, h) => pc[h] = "failing"

AloneInv(n) == ListedAlone(n) /\ OneAtATime(n)

\* Only nodes left out are skipped.
LEMMA SkippedUnselected ==
  ASSUME When[Analyst] = Always, WorkInv, Bound
  PROVE  Skipped(status) \subseteq Unselected
<1> SUFFICES ASSUME NEW d \in Skipped(status) PROVE d \in Unselected
  OBVIOUS
<1>1. d \in Cursor /\ When[d] # Always /\ When[d] \notin predicates
  BY DEF Skipped, Enabled
<1>2. compiled /\ d \in Nodes
  BY <1>1, CursorNodes DEF Cursor
<1> QED BY <1>1, <1>2 DEF Bound, Unselected

\* A ready node that is alone is the only role node that is ready.
LEMMA ReadyAlone ==
  ASSUME When[Analyst] = Always, WorkInv, Bound, SkippedForGood, SweptInv, NEW B, Precedence(B), PastInv(B),
         NEW n \in Live, Alone(B, n), Ready(AfterSkip) \subseteq Roles,
         n \in Ready(AfterSkip) \/ (attempt[n] # 0 /\ status[n] # "ACCEPTED")
  PROVE  Ready(AfterSkip) \subseteq {n}
<1> SUFFICES ASSUME NEW m \in Ready(AfterSkip), m # n PROVE FALSE
  OBVIOUS
<1>1. n \in Nodes /\ m \in Nodes /\ m \in Live /\ AfterSkip[m] # "ACCEPTED"
  BY ReadySelected, ReadyMet DEF Live, Roles
<1>2. CASE m \in B[n]
  <2>1. CASE n \in Ready(AfterSkip)
    BY <1>1, <1>2, <2>1, ReadyPast
  <2>2. CASE attempt[n] # 0
    <3>1. status[m] = "ACCEPTED"
      BY <1>1, <1>2, <2>2 DEF PastInv, Past
    <3> QED BY <1>1, <3>1 DEF AfterSkip
  <2> QED BY <2>1, <2>2
<1>3. CASE n \in B[m]
  <2>1. AfterSkip[n] = "ACCEPTED"
    BY <1>1, <1>3, ReadyPast
  <2>2. status[n] = "ACCEPTED"
    BY <1>1, <2>1, SkippedUnselected DEF AfterSkip, Live
  <2> QED BY <2>1, <2>2, ReadyMet
<1> QED BY <1>1, <1>2, <1>3 DEF Alone

\* Handlers that did not move have what they had under way.
LEMMA WorksKept ==
  ASSUME NEW n, NEW h, Others(h), NEW g \in Handlers \ {h}, g \in Ops => op'[g] = op[g]
  PROVE  (Works(n, g)' <=> Works(n, g)) /\ pc'[g] = pc[g]
BY DEF Others, Works

\* Steps that begin nothing for n.
LEMMA NothingBegun ==
  ASSUME NEW n, OneAtATime(n), status'[n] = status[n],
         \A g \in Handlers : Works(n, g)' => Works(n, g) /\ (pc[g] = "failing" => pc'[g] = "failing")
  PROVE  OneAtATime(n)'
BY DEF OneAtATime

\* Steps that end what was under way for n.
LEMMA WorkEnded ==
  ASSUME NEW n, OneAtATime(n), NEW h \in Handlers, Works(n, h), ~Works(n, h)',
         \A g \in Handlers \ {h} : Works(n, g)' => Works(n, g)
  PROVE  OneAtATime(n)'
<1>1. \A g \in Handlers : ~Works(n, g)'
  BY DEF OneAtATime
<1> QED BY <1>1 DEF OneAtATime

\* Lists that did not grow.
LEMMA ListsKeep ==
  ASSUME NEW n, ListedAlone(n), \A g \in Handlers : todo'[g] \subseteq todo[g],
         status[n] = "ACCEPTED" => status'[n] = "ACCEPTED",
         \A g \in Handlers : ~(pc'[g] = "preparing" /\ n \in todo'[g])
  PROVE  ListedAlone(n)'
<1>1. \A h \in Ops : todo'[h] \subseteq todo[h]
  BY OpNode
<1> QED BY <1>1 DEF ListedAlone

\* Every step keeps the lists of a node that is alone.
LEMMA ListedStep ==
  ASSUME When[Analyst] = Always, WorkInv, TurnInv, Bound, SkippedForGood, SweptInv, NEW B, Precedence(B),
         PastInv(B), NEW n \in Live, Alone(B, n), ListedAlone(n), [Next]_vars
  PROVE  ListedAlone(n)'
<1> DEFINE None == \A g \in Handlers : ~(pc'[g] = "preparing" /\ n \in todo'[g])
<1>1. n \in Nodes /\ n \in Roles /\ n \notin Unselected /\ (status[n] = "ACCEPTED" => status'[n] = "ACCEPTED")
  BY WorkStep DEF Live, Roles, Grown
<1>2. \A g \in Handlers : pc[g] = "preparing" => busy = g /\ g # NoHandler
  BY WorkAssumption DEF TurnInv, TurnFits, Synchronous
<1>3. ASSUME NEW h \in Handlers, Others(h), pc'[h] # "preparing" \/ n \notin todo'[h], busy \in {NoHandler, h}
      PROVE None
  BY <1>2, <1>3 DEF Others
<1>4. ASSUME NEW h, Begin(h) PROVE None
  BY <1>3, <1>4, BeginIs
<1>5. ASSUME NEW h, NEW s \in {"succeeded", "failed"}, Complete(h, s) PROVE None
  BY <1>3, <1>5, CompleteIs
<1>6. ASSUME NEW h \in Handlers, Opened(h) PROVE None
  BY <1>3, <1>6, OpenedIs
<1>7. ASSUME NEW h \in Handlers, AlreadyAccepted(h) \/ BindProfile(h) \/ (\E b \in BOOLEAN : Judge(h, b))
      PROVE None
  BY <1>3, <1>7, OnwardIs
<1>8. ASSUME NEW h \in Handlers, AcceptValid(h) PROVE None
  BY <1>3, <1>8, AcceptValidIs
<1>9. ASSUME NEW h \in Handlers, AcceptInvalid(h) PROVE None
  BY <1>3, <1>9, AcceptInvalidIs
<1>10. ASSUME NEW h \in Handlers, Accepted(h) PROVE None
  BY <1>3, <1>10, AcceptedIs
<1>11. ASSUME NEW h \in Handlers, Failed(h) PROVE None
  BY <1>3, <1>11, FailedIs
<1>12. ASSUME NEW h \in Handlers,
              \/ StoreFails(h) \/ ResultUnreadable(h) \/ DedupeConflict(h)
              \/ Runs(h, "preparing") /\ Throw(h) /\ UNCHANGED <<dag, op, server, faults>>
       PROVE None
  BY <1>3, <1>12, ThrowIs
<1>13. ASSUME NEW h \in Handlers, Prepare(h) PROVE None
  <2>1. \/ Others(h) /\ pc'[h] = "uploading" /\ busy = h
        \/ Runs(h, "preparing") /\ Throw(h) /\ UNCHANGED <<dag, op, server, faults>>
    BY <1>13, PrepareIs
  <2> QED BY <1>3, <1>12, <2>1
<1>14. ASSUME NEW h \in Handlers, Uploaded(h) PROVE None
  <2>1. PICK m \in todo[h] : Others(h) /\ todo'[h] = todo[h] \ {m} /\ busy = NoHandler
    BY <1>14, UploadedIs
  <2>2. n \notin todo'[h]
    BY <2>1 DEF ListedAlone
  <2> QED BY <1>3, <2>1, <2>2
<1>15. ASSUME NEW h \in Handlers, Return(h) PROVE None
  BY <1>3, <1>15, ReturnIs
<1>16. ASSUME Crash PROVE None
  BY <1>16, CrashIs
<1>17. ASSUME Restart PROVE None
  <2>1. \A g \in Handlers : todo[g] = {}
    BY <1>17, RestartIs DEF TurnInv, TurnFits
  <2> QED BY <1>17, <2>1, RestartIs
<1>18. CASE UNCHANGED vars
  BY <1>18 DEF vars, dag, frames, ListedAlone
<1>19. ASSUME NEW h \in Handlers, Advance(h) PROVE ListedAlone(n)'
  <2> DEFINE ready == Ready(AfterSkip)
  <2>1. /\ Others(h) /\ pc[h] = "advancing" /\ busy = h
        /\ status'[n] = status[n]
        /\ \/ todo'[h] = ready /\ ready \subseteq Roles
           \/ todo'[h] = todo[h] /\ pc'[h] = "advancing"
    BY <1>1, <1>19, AdvanceIs, SkippedUnselected DEF Steps, Roles
  <2>2. todo[h] = {}
    BY <2>1 DEF TurnInv, TurnFits
  <2>3. CASE todo'[h] = ready /\ ready \subseteq Roles
    <3>1. n \in ready => ready = {n} /\ status[n] \in {"PENDING", "RETRYING"}
      <4>1. n \in ready => ready \subseteq {n}
        BY <2>3, ReadyAlone
      <4>2. n \in ready => AfterSkip[n] \in {"PENDING", "RETRYING"}
        BY ReadyMet
      <4> QED BY <1>1, <4>1, <4>2 DEF AfterSkip
    <3>2. h \in Ops /\ h[1] = n /\ status[n] # "ACCEPTED" => ready \subseteq {n}
      <4> SUFFICES ASSUME h \in Ops, h[1] = n, status[n] # "ACCEPTED" PROVE ready \subseteq {n}
        OBVIOUS
      <4>1. attempt[n] # 0
        BY <2>1 DEF TurnInv, TurnFits, WorkInv, CountersFit
      <4> QED BY <2>3, <4>1, ReadyAlone
    <3> HIDE DEF ready
    <3>3. \A g \in Handlers \ {h} : todo'[g] = todo[g] /\ pc'[g] = pc[g]
      BY <2>1 DEF Others
    <3>4. \A g \in Handlers : n \in todo'[g] => todo'[g] = {n}
      BY <2>3, <3>1, <3>3 DEF ListedAlone
    <3>5. \A g \in Handlers : pc'[g] = "preparing" /\ n \in todo'[g] => status'[n] \in {"PENDING", "RETRYING"}
      BY <2>1, <2>3, <3>1, <3>3 DEF ListedAlone
    <3>6. \A g \in Ops : g[1] = n /\ status'[n] # "ACCEPTED" => todo'[g] \subseteq {n}
      BY <2>1, <2>3, <3>2, <3>3, OpNode DEF ListedAlone
    <3> QED BY <3>4, <3>5, <3>6 DEF ListedAlone
  <2>4. CASE todo'[h] = todo[h]
    <3>1. None /\ \A g \in Handlers : todo'[g] = todo[g]
      BY <1>3, <2>1, <2>2, <2>4 DEF Others
    <3> QED BY <1>1, <3>1, ListsKeep
  <2> QED BY <2>1, <2>3, <2>4
<1> HIDE DEF None
<1>20. \/ \E h \in Handlers : Advance(h)
       \/ \A h \in Handlers : todo'[h] \subseteq todo[h]
  BY StartedWasListed
<1>21. ASSUME None PROVE ListedAlone(n)'
  <2>1. CASE \A h \in Handlers : todo'[h] \subseteq todo[h]
    BY <1>1, <1>21, <2>1, ListsKeep DEF None
  <2> QED BY <1>19, <1>20, <2>1
<1> QED BY <1>4, <1>5, <1>6, <1>7, <1>8, <1>9, <1>10, <1>11, <1>12, <1>13, <1>14, <1>15, <1>16, <1>17, <1>18,
           <1>19, <1>21, StepIs

\* Every step keeps what is under way for a node that is alone.
LEMMA OneStep ==
  ASSUME When[Analyst] = Always, WorkInv, TurnInv, Bound, NEW n \in Live, AloneInv(n), [Next]_vars
  PROVE  OneAtATime(n)'
<1>1. n \in Nodes /\ n \in Roles /\ n \notin Unselected /\ ListedAlone(n) /\ OneAtATime(n)
  BY DEF Live, Roles, AloneInv
<1>2. ASSUME NEW h \in Handlers, pc[h] # "idle", pc'[h] \notin {"opening", "reading", "storing", "failing", "uploading"},
             h \in Ops => op'[h] = op[h]
      PROVE ~Works(n, h)'
  BY <1>2 DEF Works, TurnInv, TurnFits
<1>3. ASSUME NEW h \in Handlers, Others(h), op' = op, status'[n] = status[n],
             Works(n, h)' => Works(n, h) /\ (pc[h] = "failing" => pc'[h] = "failing")
      PROVE OneAtATime(n)'
  <2>1. \A g \in Handlers \ {h} : (Works(n, g)' <=> Works(n, g)) /\ pc'[g] = pc[g]
    BY <1>3, WorksKept
  <2> QED BY <1>1, <1>3, <2>1, NothingBegun
<1>4. ASSUME NEW h \in Handlers, Others(h), op' = op, Works(n, h), ~Works(n, h)'
      PROVE OneAtATime(n)'
  <2>1. \A g \in Handlers \ {h} : Works(n, g)' <=> Works(n, g)
    BY <1>4, WorksKept
  <2> QED BY <1>1, <1>4, <2>1, WorkEnded
<1>5. ASSUME NEW h, Begin(h) PROVE OneAtATime(n)'
  <2>1. ~Works(n, h)'
    BY <1>5, BeginIs DEF Works
  <2> QED BY <1>3, <1>5, <2>1, BeginIs
<1>6. ASSUME NEW h, NEW s \in {"succeeded", "failed"}, Complete(h, s) PROVE OneAtATime(n)'
  <2>1. /\ h \in Handlers /\ Others(h) /\ pc[h] = "idle" /\ status' = status
        /\ \A g \in Handlers \ {h} : g \in Ops => op'[g] = op[g]
    BY <1>6, CompleteIs
  <2>2. Works(n, h)' => Works(n, h)
    BY <1>6, CompleteIs DEF Works
  <2>3. \A g \in Handlers \ {h} : (Works(n, g)' <=> Works(n, g)) /\ pc'[g] = pc[g]
    BY <2>1, WorksKept
  <2> QED BY <1>1, <2>1, <2>2, <2>3, NothingBegun
<1>7. ASSUME NEW h \in Handlers, Opened(h) PROVE OneAtATime(n)'
  <2>1. Works(n, h)' => Works(n, h)
    BY <1>7, OpenedIs DEF Works
  <2> QED BY <1>3, <1>7, <2>1, OpenedIs
<1>8. ASSUME NEW h \in Handlers, AlreadyAccepted(h) \/ BindProfile(h) \/ (\E b \in BOOLEAN : Judge(h, b))
      PROVE OneAtATime(n)'
  <2>1. ~Works(n, h)'
    BY <1>2, <1>8, OnwardIs
  <2> QED BY <1>3, <1>8, <2>1, OnwardIs
<1>9. ASSUME NEW h \in Handlers, AcceptValid(h) PROVE OneAtATime(n)'
  <2>1. h[1] = n => Works(n, h) /\ status[n] = "SPAWNED"
    <3>1. h[1] = n => Works(n, h) /\ status[n] # "ACCEPTED"
      BY <1>9, AcceptValidIs DEF Works
    <3> QED BY <1>1, <3>1 DEF OneAtATime, WorkInv, TypeOK
  <2>2. status'[n] = status[n] /\ (Works(n, h)' => Works(n, h))
    BY <1>1, <1>9, <2>1, AcceptValidIs DEF Works, Becomes, TurnInv, TurnFits
  <2> QED BY <1>3, <1>9, <2>2, AcceptValidIs
<1>10. ASSUME NEW h \in Handlers, AcceptInvalid(h) PROVE OneAtATime(n)'
  <2>1. ~Works(n, h)'
    BY <1>2, <1>10, AcceptInvalidIs
  <2>2. CASE h[1] = n
    <3>1. Works(n, h)
      BY <1>10, <2>2, AcceptInvalidIs DEF Works
    <3> QED BY <1>4, <1>10, <2>1, <3>1, AcceptInvalidIs
  <2>3. CASE h[1] # n
    <3>1. status'[n] = status[n]
      BY <1>1, <1>10, <2>3, AcceptInvalidIs DEF Becomes
    <3> QED BY <1>3, <1>10, <2>1, <3>1, AcceptInvalidIs
  <2> QED BY <2>2, <2>3
<1>11. ASSUME NEW h \in Handlers, Accepted(h) PROVE OneAtATime(n)'
  <2>1. ~Works(n, h)'
    BY <1>2, <1>11, AcceptedIs
  <2>2. CASE h[1] = n
    <3>1. Works(n, h)
      BY <1>11, <2>2, AcceptedIs DEF Works
    <3> QED BY <1>4, <1>11, <2>1, <3>1, AcceptedIs
  <2>3. CASE h[1] # n
    <3>1. status'[n] = status[n]
      BY <1>1, <1>11, <2>3, AcceptedIs DEF Becomes
    <3> QED BY <1>3, <1>11, <2>1, <3>1, AcceptedIs
  <2> QED BY <2>2, <2>3
<1>12. ASSUME NEW h \in Handlers, Failed(h) PROVE OneAtATime(n)'
  <2>1. ~Works(n, h)'
    BY <1>2, <1>12, FailedIs
  <2>2. CASE h[1] = n
    <3>1. Works(n, h)
      BY <1>12, <2>2, FailedIs DEF Works
    <3> QED BY <1>4, <1>12, <2>1, <3>1, FailedIs
  <2>3. CASE h[1] # n
    <3>1. status'[n] = status[n]
      BY <1>1, <1>12, <2>3, FailedIs DEF Becomes
    <3> QED BY <1>3, <1>12, <2>1, <3>1, FailedIs
  <2> QED BY <2>2, <2>3
<1>13. ASSUME NEW h \in Handlers,
              \/ StoreFails(h) \/ ResultUnreadable(h) \/ DedupeConflict(h)
              \/ Runs(h, "preparing") /\ Throw(h) /\ UNCHANGED <<dag, op, server, faults>>,
              pc[h] = "preparing" => \E m \in todo[h] : ~MaySpawn(status[m])
       PROVE  OneAtATime(n)'
  <2>1. /\ Others(h) /\ status' = status /\ op' = op /\ busy \in {NoHandler, h}
        /\ pc[h] \in {"opening", "reading", "storing", "binding", "uploading", "preparing"}
        /\ pc'[h] \in {"failing", "done"}
    BY <1>13, ThrowIs
  <2>2. ASSUME Works(n, h)', status[n] # "ACCEPTED" PROVE Works(n, h)
    <3>1. h \in Ops /\ h[1] = n /\ pc'[h] = "failing" /\ TurnFits(h)
      BY <1>2, <2>1, <2>2 DEF Works, TurnInv
    <3>2. todo[h] \subseteq {n}
      BY <1>1, <2>2, <3>1 DEF ListedAlone
    <3>3. CASE pc[h] \in {"opening", "reading", "storing"}
      BY <3>1, <3>3 DEF Works
    <3>4. CASE pc[h] = "uploading"
      BY <3>1, <3>2, <3>4 DEF Works, TurnFits
    <3>5. CASE pc[h] = "binding"
      BY <2>2, <3>1, <3>5 DEF TurnFits
    <3>6. CASE pc[h] = "preparing"
      BY <1>1, <1>13, <3>2, <3>6 DEF ListedAlone, MaySpawn
    <3> QED BY <2>1, <3>3, <3>4, <3>5, <3>6
  <2>3. CASE status[n] # "ACCEPTED"
    BY <1>3, <2>1, <2>2, <2>3
  <2>4. CASE status[n] = "ACCEPTED"
    <3>1. \A g \in Handlers \ {h} : (Works(n, g)' <=> Works(n, g)) /\ pc'[g] = pc[g]
      BY <2>1, WorksKept
    <3>2. \A g \in Handlers \ {h} : ~Works(n, g)
      BY <1>1, <2>1, <2>4, WorkAssumption DEF OneAtATime, TurnInv, TurnFits, Synchronous
    <3>3. Works(n, h)' => pc'[h] = "failing"
      BY <1>2, <2>1
    <3> QED BY <2>1, <2>4, <3>1, <3>2, <3>3 DEF OneAtATime
  <2> QED BY <2>3, <2>4
<1>14. ASSUME NEW h \in Handlers, Advance(h) PROVE OneAtATime(n)'
  <2>1. ~Works(n, h)'
    BY <1>2, <1>14, AdvanceIs
  <2>2. status'[n] = status[n]
    BY <1>1, <1>14, AdvanceIs, SkippedUnselected DEF Steps, Roles
  <2> QED BY <1>3, <1>14, <2>1, <2>2, AdvanceIs
<1>15. ASSUME NEW h \in Handlers, Prepare(h) PROVE OneAtATime(n)'
  <2>1. PICK m \in todo[h] :
           /\ pc[h] = "preparing" /\ busy = h /\ m \in Nodes
           /\ \/ /\ Others(h) /\ todo'[h] = todo[h] /\ MaySpawn(status[m]) /\ pc'[h] = "uploading"
                 /\ Becomes(m, "SPAWNED", job'[h])
                 /\ UNCHANGED <<compiled, predicates, op, server, crashes, outages>>
              \/ /\ ~MaySpawn(status[m])
                 /\ Runs(h, "preparing") /\ Throw(h) /\ UNCHANGED <<dag, op, server, faults>>
    BY <1>15, PrepareIs
  <2>2. CASE ~MaySpawn(status[m])
    BY <1>13, <2>1, <2>2
  <2>3. CASE MaySpawn(status[m]) /\ m = n
    <3>1. \A g \in Handlers : ~Works(n, g)
      BY <1>1, <2>1, <2>3 DEF ListedAlone, OneAtATime
    <3>2. \A g \in Handlers \ {h} : ~Works(n, g)'
      BY <2>1, <2>3, <3>1, WorksKept
    <3>3. status'[n] = "SPAWNED"
      BY <2>1, <2>3 DEF Becomes
    <3> QED BY <3>2, <3>3 DEF OneAtATime
  <2>4. CASE MaySpawn(status[m]) /\ m # n
    <3>1. n \notin todo'[h] /\ status'[n] = status[n]
      BY <1>1, <2>1, <2>4 DEF ListedAlone, Becomes
    <3>2. ~Works(n, h)'
      BY <2>1, <2>4, <3>1 DEF Works, TurnInv, TurnFits
    <3> QED BY <1>3, <2>1, <2>4, <3>1, <3>2
  <2> QED BY <2>2, <2>3, <2>4
<1>16. ASSUME NEW h \in Handlers, Uploaded(h) PROVE OneAtATime(n)'
  <2>1. PICK m \in todo[h] :
           /\ <<m, job[h]>> \in Ops /\ Others(h) /\ todo'[h] = todo[h] \ {m}
           /\ pc[h] = "uploading" /\ pc'[h] = "preparing" /\ status' = status
           /\ \A o \in Ops : op'[o] = IF o = <<m, job[h]>> /\ op[o] = "absent" THEN "open" ELSE op[o]
    BY <1>16, UploadedIs
  <2>2. h \in Ops => op'[h] = op[h]
    BY <2>1 DEF TurnInv, TurnFits
  <2>3. ~Works(n, h)'
    BY <1>2, <2>1, <2>2
  <2>4. CASE m # n
    <3>1. \A g \in Handlers \ {h} : (Works(n, g)' <=> Works(n, g)) /\ pc'[g] = pc[g]
      BY <2>1, <2>4 DEF Works, Others
    <3> QED BY <1>1, <2>1, <2>3, <3>1, NothingBegun
  <2>5. CASE m = n
    <3> DEFINE o == <<n, job[h]>>
    <3>1. Works(n, h) /\ o \in Handlers
      BY <2>1, <2>5, OpNode DEF Works
    <3>2. \A g \in Handlers \ {h} : ~Works(n, g)
      BY <1>1, <3>1 DEF OneAtATime
    <3>3. status'[n] = "SPAWNED"
      BY <1>1, <2>1, <3>1 DEF OneAtATime, WorkInv, TypeOK
    <3>4. \A g \in Handlers \ {h, o} : (Works(n, g)' <=> Works(n, g))
      BY <2>1, <2>5, WorksKept
    <3> HIDE DEF o
    <3>5. \A g \in Handlers : Works(n, g)' => g = o
      BY <2>3, <3>2, <3>4
    <3> QED BY <3>3, <3>5 DEF OneAtATime
  <2> QED BY <2>4, <2>5
<1>17. ASSUME NEW h \in Handlers, Return(h) PROVE OneAtATime(n)'
  <2>1. ~Works(n, h)'
    BY <1>2, <1>17, ReturnIs
  <2> QED BY <1>3, <1>17, <2>1, ReturnIs
<1>18. CASE Crash
  <2>1. \A g \in Handlers : Works(n, g)' => Works(n, g) /\ pc[g] = "idle"
    BY <1>18, CrashIs DEF Works, TurnInv, TurnFits
  <2> QED BY <1>1, <1>18, <2>1, CrashIs, NothingBegun
<1>19. CASE Restart
  <2>1. \A g \in Handlers : Works(n, g)' => Works(n, g) /\ pc[g] # "failing"
    BY <1>19, RestartIs, NamedAreNoOps DEF Works, TurnInv
  <2> QED BY <1>1, <1>19, <2>1, RestartIs, NothingBegun
<1>20. CASE UNCHANGED vars
  <2>1. \A g \in Handlers : (Works(n, g)' <=> Works(n, g)) /\ pc'[g] = pc[g]
    BY <1>20 DEF vars, frames, Works
  <2>2. status' = status
    BY <1>20 DEF vars, dag
  <2> QED BY <1>1, <2>1, <2>2, NothingBegun
<1>21. ASSUME NEW h \in Handlers, StoreFails(h) \/ ResultUnreadable(h) \/ DedupeConflict(h) PROVE OneAtATime(n)'
  <2>1. pc[h] # "preparing"
    BY <1>21 DEF StoreFails, ResultUnreadable, DedupeConflict, Resumes
  <2> QED BY <1>13, <1>21, <2>1
<1> QED BY <1>5, <1>6, <1>7, <1>8, <1>9, <1>10, <1>11, <1>12, <1>14, <1>15, <1>16, <1>17, <1>18, <1>19, <1>20,
           <1>21, StepIs

-----------------------------------------------------------------------------
(* One writer.                                                             *)

\* What holds of a profile in which each node of S is alone.
LineInv(B, S) ==
  /\ WorkInv /\ TurnInv /\ Bound /\ SkippedForGood /\ SweptInv /\ PastInv(B)
  /\ \A n \in S : AloneInv(n)

\* Nothing is under way yet.
LEMMA LineInitially == ASSUME NEW B, NEW S \in SUBSET Live, Init PROVE LineInv(B, S)
<1>1. WorkInv /\ Bound /\ SkippedForGood
  BY WorkInitially DEF Init, Bound, SkippedForGood
<1>2. TurnInv
  BY DEF Init, TurnInv, TurnFits, Synchronous
<1>3. SweptInv /\ PastInv(B)
  BY DEF Init, SweptInv, PastInv, Unselected
<1>4. ASSUME NEW n \in S PROVE AloneInv(n)
  <2>1. n \in Nodes
    BY DEF Live, Roles
  <2>2. ListedAlone(n)
    BY <2>1, OpNode DEF Init, ListedAlone
  <2>3. \A h \in Handlers : ~Works(n, h)
    BY DEF Init, Works
  <2> QED BY <2>2, <2>3 DEF AloneInv, OneAtATime
<1> QED BY <1>1, <1>2, <1>3, <1>4 DEF LineInv

\* Every step keeps it.
LEMMA LineStep ==
  ASSUME FindingsComeLater, NEW B, Precedence(B), NEW S \in SUBSET Live, \A n \in S : Alone(B, n),
         LineInv(B, S), [Next]_vars
  PROVE  LineInv(B, S)'
<1> USE DEF LineInv
<1>1. When[Analyst] = Always
  BY DEF FindingsComeLater
<1>2. WorkInv' /\ TurnInv' /\ Bound' /\ SkippedForGood' /\ SweptInv' /\ PastInv(B)'
  BY <1>1, WorkStep, TurnStep, BoundStep, SkippedStep, SweptStep, PastStep
<1>3. ASSUME NEW n \in S PROVE AloneInv(n)'
  <2>1. n \in Live /\ Alone(B, n) /\ AloneInv(n) /\ ListedAlone(n)
    BY DEF AloneInv
  <2>2. ListedAlone(n)'
    BY <1>1, <2>1, ListedStep
  <2>3. OneAtATime(n)'
    BY <1>1, <2>1, OneStep
  <2> QED BY <2>2, <2>3 DEF AloneInv
<1> QED BY <1>2, <1>3

\* A node with an open operation, alone, is SPAWNED.
LEMMA OpenIsSpawned ==
  ASSUME NEW B, NEW S \in SUBSET Live, LineInv(B, S), NEW o \in Ops, o[1] \in S, op[o] = "open"
  PROVE  Works(o[1], o) /\ status[o[1]] = "SPAWNED"
<1>1. Works(o[1], o) /\ o \in Handlers /\ pc[o] # "failing" /\ o[1] \in Nodes
  BY OpNode DEF Works, LineInv, TurnInv, TurnFits
<1> QED BY <1>1 DEF LineInv, AloneInv, OneAtATime, WorkInv, TypeOK

\* Each write node of the selection is ordered with every role node of the selection, by B[n], the
\* nodes that n waits for: so it is in every fragment of the catalogue, and no longer once an overlay
\* or the thorough budget puts a reader beside the writer.
WritersAlone ==
  FindingsComeLater /\ \E B : Precedence(B) /\ \A n \in Writers \cap Live : Alone(B, n)

\* In a profile whose writer waits for, or is waited for by, every other agent of the selection, at
\* most one operation of a write node waits for a worker at any time, two attempts of the same node
\* included, whatever crashes, failing store calls and late or bad results there are.
THEOREM OneWriterAtATime == WritersAlone => (Spec => []OneWriter)
<1> SUFFICES ASSUME FindingsComeLater, NEW B, Precedence(B), \A n \in Writers \cap Live : Alone(B, n)
             PROVE  Spec => []OneWriter
  BY DEF WritersAlone
<1> DEFINE S == Writers \cap Live
           Inv == LineInv(B, S)
<1>1. Init => Inv
  BY LineInitially
<1>2. Inv /\ [Next]_vars => Inv'
  BY LineStep
<1>3. Inv => OneWriter
  <2> SUFFICES ASSUME Inv PROVE OneWriter
    OBVIOUS
  <2> DEFINE W == {o \in Ops : o[1] \in Writers /\ op[o] = "open"}
  <2>1. ASSUME NEW o \in W PROVE o[1] \in S /\ o \in Handlers
    <3>1. attempt[o[1]] # 0 /\ o[1] \in Roles /\ o \in Handlers
      BY OpNode DEF LineInv, WorkInv, CountersFit
    <3> QED BY <3>1 DEF Live, LineInv, SweptInv
  <2>2. ASSUME NEW o \in W, NEW p \in W PROVE o = p
    <3>1. /\ o[1] \in S /\ p[1] \in S /\ o \in Handlers /\ p \in Handlers
          /\ Works(o[1], o) /\ status[o[1]] = "SPAWNED" /\ Works(p[1], p) /\ status[p[1]] = "SPAWNED"
      BY <2>1, OpenIsSpawned
    <3>2. CASE o[1] = p[1]
      BY <3>1, <3>2 DEF LineInv, AloneInv, OneAtATime
    <3>3. CASE o[1] # p[1]
      <4>1. o[1] \in Nodes /\ p[1] \in Nodes /\ attempt[o[1]] # 0 /\ attempt[p[1]] # 0
        BY OpNode DEF LineInv, WorkInv, CountersFit
      <4>2. p[1] \in B[o[1]] \/ o[1] \in B[p[1]]
        BY <3>1, <3>3 DEF Alone
      <4> QED BY <3>1, <4>1, <4>2 DEF LineInv, PastInv, Past
    <3> QED BY <3>2, <3>3
  <2> HIDE DEF W
  <2>3. W = {} \/ \E o : W = {o}
    BY <2>2
  <2>4. Cardinality(W) <= 1
    <3>1. CASE W = {}
      BY <3>1, FS_EmptySet
    <3>2. CASE \E o : W = {o}
      <4>1. PICK o : W = {o}
        BY <3>2
      <4>2. Cardinality(W) = 1
        BY <4>1, FS_Singleton
      <4> QED BY <4>2
    <3> QED BY <2>3, <3>1, <3>2
  <2> QED BY <2>4 DEF OneWriter, W
<1> HIDE DEF Inv
<1> QED BY <1>1, <1>2, <1>3, PTL DEF Spec

-----------------------------------------------------------------------------
(* Nothing is left behind where every agent is alone.                      *)

\* A handler that has the turn is going to list n, or has it in its list.
Covered(n) ==
  \E h \in Handlers : pc[h] \in {"failing", "judging", "advancing"} \/ (pc[h] = "preparing" /\ n \in todo[h])

\* Nodes that have to be spawned: a retry always, the others unless a crash cut off their handler.
Owed == {n \in Ready(status) : status[n] = "RETRYING" \/ (crashes = 0 /\ pc[Create] # "idle")}

CoveredInv == server # "down" => \A n \in Owed : Covered(n)

\* Nobody is covered while nobody has the turn.
LEMMA CoveredHasTurn ==
  ASSUME WorkInv, TurnInv, NEW n, Covered(n)
  PROVE  busy # NoHandler /\ (pc[busy] = "preparing" => n \in todo[busy])
BY WorkAssumption DEF Covered, TurnInv, TurnFits, Synchronous

\* What is ready depends on the records, the predicates and the profile only.
LEMMA OwedSame ==
  ASSUME UNCHANGED <<status, compiled, predicates, crashes>>, pc[Create] = "idle" => pc'[Create] = "idle"
  PROVE  Owed' \subseteq Owed
BY DEF Owed, Ready, Cursor, Enabled, Writing

\* An operation that is being settled, or was, is of a live node.
LEMMA LiveNode == ASSUME WorkInv, SweptInv, NEW h \in Ops, op[h] # "absent" PROVE h[1] \in Live
<1>1. h[1] \in Roles /\ attempt[h[1]] # 0
  BY OpNode DEF WorkInv, CountersFit
<1> QED BY <1>1 DEF Live, SweptInv

\* Every step keeps it.
LEMMA CoveredStep ==
  ASSUME FindingsComeLater, NEW B, LineInv(B, Live), CoveredInv, [Next]_vars
  PROVE  CoveredInv'
<1>1. /\ WorkInv /\ TurnInv /\ SweptInv /\ (\A n \in Live : AloneInv(n)) /\ WorkInv'
      /\ \A h \in Handlers : h # NoHandler
  BY WorkStep, WorkAssumption DEF LineInv
<1>2. Create \in Handlers /\ Requeue \in Handlers /\ Create \notin Ops /\ Create # Requeue
  BY NamedHandlers, NamedAreNoOps DEF Create, Requeue
<1>3. ASSUME NEW h \in Handlers, pc'[h] \in {"failing", "judging", "advancing"} PROVE CoveredInv'
  BY <1>3 DEF CoveredInv, Covered
<1>4. ASSUME UNCHANGED <<status, compiled, predicates, crashes>>, pc[Create] = "idle" => pc'[Create] = "idle",
             server # "down", Owed = {}
      PROVE  CoveredInv'
  BY <1>4, OwedSame DEF CoveredInv
<1>5. server # "down" /\ busy = NoHandler => Owed = {}
  BY <1>1, CoveredHasTurn DEF CoveredInv
<1>6. ASSUME NEW h \in Handlers, pc[h] \notin {"idle", "done"} PROVE server # "down"
  BY <1>1, <1>6 DEF TurnInv
<1>7. ASSUME NEW h, Begin(h) PROVE CoveredInv'
  BY <1>1, <1>3, <1>7, BeginIs
<1>8. ASSUME NEW h, NEW s \in {"succeeded", "failed"}, Complete(h, s) PROVE CoveredInv'
  <2>1. /\ h \in Handlers /\ h \in Ops /\ Others(h) /\ busy = NoHandler /\ server = "up"
        /\ UNCHANGED <<status, compiled, predicates, crashes>>
    BY <1>1, <1>8, CompleteIs
  <2>2. pc'[Create] = pc[Create]
    BY <1>2, <2>1 DEF Others
  <2> QED BY <1>4, <1>5, <2>1, <2>2
<1>9. ASSUME NEW h \in Handlers, Others(h), pc[h] # "idle"
      PROVE  pc[Create] = "idle" => pc'[Create] = "idle"
  BY <1>2, <1>9 DEF Others
<1>10. ASSUME NEW h \in Handlers, Opened(h) PROVE CoveredInv'
  <2>1. /\ Others(h) /\ busy = NoHandler /\ pc[h] = "opening" /\ pc'[h] \in {"failing", "reading"}
        /\ UNCHANGED <<status, compiled, predicates, crashes>>
    BY <1>1, <1>10, OpenedIs
  <2> QED BY <1>3, <1>4, <1>5, <1>6, <1>9, <2>1
<1>11. ASSUME NEW h \in Handlers, AlreadyAccepted(h) \/ BindProfile(h) \/ (\E b \in BOOLEAN : Judge(h, b))
       PROVE CoveredInv'
  BY <1>1, <1>3, <1>11, OnwardIs
<1>12. ASSUME NEW h \in Handlers, AcceptValid(h) PROVE CoveredInv'
  <2>1. /\ Others(h) /\ busy = NoHandler /\ pc[h] = "reading" /\ h \in Ops /\ status[h[1]] # "ACCEPTED"
        /\ Becomes(h[1], "SPAWNED", attempt[h[1]]) /\ UNCHANGED <<compiled, predicates, crashes>>
    BY <1>1, <1>12, AcceptValidIs
  <2>2. h[1] \in Live /\ h[1] \in Nodes
    BY <1>1, <2>1, LiveNode, OpNode DEF TurnInv, TurnFits
  <2>3. status[h[1]] = "SPAWNED"
    <3>1. Works(h[1], h)
      BY <2>1 DEF Works
    <3> QED BY <1>1, <2>1, <2>2, <3>1 DEF AloneInv, OneAtATime, WorkInv, TypeOK
  <2>4. status' = status
    <3>1. \A m \in Nodes : status'[m] = status[m]
      BY <2>1, <2>3 DEF Becomes
    <3> QED BY <1>1, <3>1 DEF WorkInv, TypeOK
  <2> QED BY <1>4, <1>5, <1>6, <1>9, <2>1, <2>4
<1>13. ASSUME NEW h \in Handlers, AcceptInvalid(h) PROVE CoveredInv'
  BY <1>1, <1>3, <1>13, AcceptInvalidIs
<1>14. ASSUME NEW h \in Handlers, Accepted(h) PROVE CoveredInv'
  <2>1. CASE h[1] = Analyst
    <3>1. /\ pc[h] = "storing" /\ h \in Ops /\ status'[Analyst] = "ACCEPTED" /\ compiled' = compiled
      BY <1>1, <1>14, <2>1, AcceptedIs DEF Becomes
    <3>2. Analyst \in Live /\ Works(Analyst, h)
      BY <1>1, <2>1, <3>1, LiveNode DEF Works, TurnInv, TurnFits
    <3>3. ~compiled
      BY <1>1, <3>1, <3>2 DEF AloneInv, OneAtATime, TurnInv
    <3>4. Ready(status)' = {}
      BY <3>1, <3>3 DEF Ready, Cursor
    <3> QED BY <3>4 DEF CoveredInv, Owed
  <2>2. CASE h[1] # Analyst
    BY <1>1, <1>3, <1>14, <2>2, AcceptedIs
  <2> QED BY <2>1, <2>2
<1>15. ASSUME NEW h \in Handlers, Failed(h) PROVE CoveredInv'
  BY <1>1, <1>3, <1>15, FailedIs
<1>16. ASSUME NEW h \in Handlers,
              \/ StoreFails(h) \/ ResultUnreadable(h) \/ DedupeConflict(h)
              \/ Runs(h, "preparing") /\ Throw(h) /\ UNCHANGED <<dag, op, server, faults>>,
              pc[h] = "preparing" => \E m \in todo[h] : ~MaySpawn(status[m])
       PROVE  CoveredInv'
  <2>1. /\ Others(h) /\ pc[h] \notin {"idle", "done"} /\ pc'[h] \in {"failing", "done"}
        /\ \/ busy = NoHandler
           \/ busy = h /\ pc[h] = "preparing"
        /\ UNCHANGED <<status, compiled, predicates, crashes>>
    BY <1>1, <1>16, ThrowIs
  <2>2. ASSUME NEW n \in Owed, busy = h, pc[h] = "preparing" PROVE FALSE
    <3>1. n \in todo[h]
      BY <1>1, <1>6, <2>1, <2>2, CoveredHasTurn DEF CoveredInv
    <3>2. n \in Live
      BY <1>1, <3>1 DEF SweptInv, Live, WorkInv, TypeOK
    <3>3. todo[h] = {n} /\ status[n] \in {"PENDING", "RETRYING"}
      BY <1>1, <2>2, <3>1, <3>2 DEF AloneInv, ListedAlone
    <3> QED BY <1>16, <2>2, <3>3 DEF MaySpawn
  <2>3. Owed = {}
    BY <1>5, <1>6, <2>1, <2>2
  <2> QED BY <1>4, <1>6, <1>9, <2>1, <2>3
<1>17. ASSUME NEW h \in Handlers, Advance(h) PROVE CoveredInv'
  <2>1. \/ /\ status' = AfterSkip /\ pc'[h] = "preparing" /\ todo'[h] = Ready(AfterSkip)
           /\ UNCHANGED <<compiled, predicates>>
        \/ pc'[h] = "advancing"
    BY <1>1, <1>17, AdvanceIs
  <2>2. CASE status' = AfterSkip /\ pc'[h] = "preparing" /\ todo'[h] = Ready(AfterSkip)
             /\ UNCHANGED <<compiled, predicates>>
    <3>1. Ready(status)' = Ready(AfterSkip)
      BY <2>2 DEF Ready, Cursor, Enabled, Writing
    <3> QED BY <2>2, <3>1 DEF CoveredInv, Owed, Covered
  <2> QED BY <1>3, <2>1, <2>2
<1>18. ASSUME NEW h \in Handlers, Prepare(h) PROVE CoveredInv'
  <2>1. PICK m \in todo[h] :
           /\ pc[h] = "preparing" /\ busy = h /\ m \in Nodes
           /\ \/ /\ Others(h) /\ todo'[h] = todo[h] /\ MaySpawn(status[m]) /\ pc'[h] = "uploading"
                 /\ Becomes(m, "SPAWNED", job'[h])
                 /\ UNCHANGED <<compiled, predicates, op, server, crashes, outages>>
              \/ /\ ~MaySpawn(status[m])
                 /\ Runs(h, "preparing") /\ Throw(h) /\ UNCHANGED <<dag, op, server, faults>>
    BY <1>1, <1>18, PrepareIs
  <2>2. CASE ~MaySpawn(status[m])
    BY <1>16, <2>1, <2>2
  <2>3. CASE MaySpawn(status[m])
    <3> SUFFICES ASSUME NEW n \in Owed' PROVE FALSE
      BY DEF CoveredInv
    <3>1. /\ status'[m] = "SPAWNED" /\ \A x \in Nodes \ {m} : status'[x] = status[x]
          /\ UNCHANGED <<compiled, predicates, crashes>>
      BY <2>1, <2>3 DEF Becomes
    <3>2. n \in Nodes /\ n # m /\ n \in Ready(status)'
      BY <3>1, CursorNodes DEF Owed, Ready, Cursor
    <3>3. n \in Ready(status)
      <4>1. n \in Cursor /\ status[n] \in {"PENDING", "RETRYING"} /\ Enabled(n)
        BY <3>1, <3>2 DEF Ready, Cursor, Enabled
      <4>2. \A d \in Deps[n] : status[d] = "ACCEPTED"
        BY <3>1, <3>2, WorkAssumption DEF Ready
      <4>3. n \in Writers => Writing(status) = {}
        <5>1. n \in Writers => Writing(status)' = {}
          BY <3>2 DEF Ready
        <5>2. Writing(status) \subseteq Writing(status)'
          BY <3>1, CursorNodes DEF Writing, Cursor
        <5> QED BY <5>1, <5>2
      <4> QED BY <4>1, <4>2, <4>3 DEF Ready
    <3>4. n \in Owed
      BY <1>9, <2>1, <2>3, <3>1, <3>2, <3>3 DEF Owed
    <3>5. n \in todo[h]
      BY <1>1, <1>6, <2>1, <3>4, CoveredHasTurn DEF CoveredInv
    <3>6. n \in Live
      BY <1>1, <3>5 DEF SweptInv, Live, WorkInv, TypeOK
    <3> QED BY <1>1, <2>1, <3>2, <3>5, <3>6 DEF AloneInv, ListedAlone
  <2> QED BY <2>2, <2>3
<1>19. ASSUME NEW h \in Handlers, Uploaded(h) PROVE CoveredInv'
  <2>1. /\ Others(h) /\ pc[h] = "uploading" /\ busy = NoHandler
        /\ UNCHANGED <<status, compiled, predicates, crashes>>
    BY <1>1, <1>19, UploadedIs
  <2> QED BY <1>4, <1>5, <1>6, <1>9, <2>1
<1>20. ASSUME NEW h \in Handlers, Return(h) PROVE CoveredInv'
  <2>1. /\ Others(h) /\ pc[h] = "preparing" /\ busy = h /\ todo[h] = {}
        /\ UNCHANGED <<status, compiled, predicates, crashes>>
    BY <1>1, <1>20, ReturnIs
  <2>2. Owed = {}
    BY <1>1, <1>6, <2>1, CoveredHasTurn DEF CoveredInv
  <2> QED BY <1>4, <1>6, <1>9, <2>1, <2>2
<1>21. CASE Crash
  BY <1>1, <1>21, CrashIs DEF CoveredInv
<1>22. CASE Restart
  <2>1. CASE pc'[Requeue] = "advancing"
    BY <1>2, <1>3, <2>1
  <2>2. CASE \A n \in Nodes : status[n] # "RETRYING"
    <3>1. crashes' # 0 /\ status' = status
      BY <1>1, <1>22, RestartIs DEF TurnInv
    <3>2. Ready(status)' \subseteq Nodes
      BY WorkAssumption DEF Ready, Cursor
    <3> QED BY <2>2, <3>1, <3>2 DEF CoveredInv, Owed
  <2> QED BY <1>1, <1>22, <2>1, <2>2, RestartIs
<1>23. CASE UNCHANGED vars
  <2>1. Owed' \subseteq Owed /\ pc' = pc /\ todo' = todo /\ server' = server
    BY <1>23, OwedSame DEF vars, dag, frames, faults
  <2> QED BY <2>1 DEF CoveredInv, Covered
<1>24. ASSUME NEW h \in Handlers, StoreFails(h) \/ ResultUnreadable(h) \/ DedupeConflict(h) PROVE CoveredInv'
  <2>1. pc[h] # "preparing"
    BY <1>24 DEF StoreFails, ResultUnreadable, DedupeConflict, Resumes
  <2> QED BY <1>16, <1>24, <2>1
<1> QED BY <1>7, <1>8, <1>10, <1>11, <1>12, <1>13, <1>14, <1>15, <1>17, <1>18, <1>19, <1>20, <1>21, <1>22,
           <1>23, <1>24, StepIs

\* Each role node of the selection is ordered with every other one: so it is in the fragments of the
\* catalogue whose agents form a line, all but feature, research, specification and requirements.
AllAlone == FindingsComeLater /\ \E B : Precedence(B) /\ \A n \in Live : Alone(B, n)

\* Nothing is owed before the run is created.
LEMMA CoveredInitially == Init => CoveredInv
<1> SUFFICES ASSUME Init PROVE Owed = {}
  BY DEF CoveredInv
<1>1. pc[Create] = "idle" /\ \A n \in Nodes : status[n] = "PENDING"
  BY NamedHandlers DEF Init
<1> QED BY <1>1, CursorNodes DEF Owed, Ready

\* Nothing is owed once every handler has answered.
LEMMA QuietOwesNothing == ASSUME Quiet, CoveredInv PROVE Owed = {}
BY DEF Quiet, Active, CoveredInv, Covered

\* In a profile whose agents wait for each other in a line, a retry that was decided is never left
\* behind: once the control plane is up and its requests are answered, no node that could run is
\* still RETRYING, whatever crashes and failing store calls cut off the handlers that decided it
\* (failCompletedSpawnJob, requeueRetryingAgentWork).
THEOREM RetriesAreTakenUp == AllAlone => (Spec => []RetriesSurvive)
<1> SUFFICES ASSUME FindingsComeLater, NEW B, Precedence(B), \A n \in Live : Alone(B, n)
             PROVE  Spec => []RetriesSurvive
  BY DEF AllAlone
<1> DEFINE Inv == LineInv(B, Live) /\ CoveredInv
<1>1. Init => Inv
  BY LineInitially, CoveredInitially
<1>2. Inv /\ [Next]_vars => Inv'
  BY LineStep, CoveredStep
<1>3. Inv => RetriesSurvive
  BY QuietOwesNothing DEF RetriesSurvive, Owed
<1> HIDE DEF Inv
<1> QED BY <1>1, <1>2, <1>3, PTL DEF Spec

-----------------------------------------------------------------------------
(* The operations of an agent that is alone.                               *)

\* No attempt of n from k on has an operation.
NoneFrom(n, k) == \A j \in Attempts : j >= k => op[<<n, j>>] = "absent"

\* The attempt of the record is the newest one and the only one under way; what is about to be
\* spawned, or to be enqueued, has no operation yet; and what is SPAWNED has something under way
\* unless a crash or an outage cut it off.
Fresh(n) ==
  /\ status[n] # "ACCEPTED" => NoneFrom(n, attempt[n] + 1)
  /\ status[n] \in {"PENDING", "RETRYING"} => NoneFrom(n, attempt[n])
  /\ \A h \in Handlers : pc[h] = "uploading" /\ n \in todo[h] => job[h] = attempt[n] /\ NoneFrom(n, attempt[n])
  /\ \A k \in Attempts : op[<<n, k>>] = "open" => k = attempt[n]
  /\ status[n] = "SPAWNED" /\ crashes = 0 /\ outages = 0 => \E h \in Handlers : Works(n, h)

\* Steps that leave the record of n alone.
LEMMA FreshKeeps ==
  ASSUME NEW n, Fresh(n), NEW h \in Handlers, Others(h), status'[n] = status[n], attempt'[n] = attempt[n],
         \A k \in Attempts : /\ op[<<n, k>>] = "absent" => op'[<<n, k>>] = "absent"
                             /\ op'[<<n, k>>] = "open" => op[<<n, k>>] = "open",
         pc'[h] # "uploading" \/ n \notin todo'[h],
         \A g \in Handlers \ {h} : Works(n, g) => Works(n, g)',
         status[n] = "SPAWNED" /\ crashes' = 0 /\ outages' = 0 =>
           crashes = 0 /\ outages = 0 /\ (Works(n, h) => Works(n, h)')
  PROVE  Fresh(n)'
<1>1. \A k : NoneFrom(n, k) => NoneFrom(n, k)'
  BY DEF NoneFrom
<1>2. \A g \in Handlers : pc'[g] = "uploading" /\ n \in todo'[g] =>
        pc[g] = "uploading" /\ n \in todo[g] /\ job'[g] = job[g]
  BY DEF Others
<1>3. status'[n] = "SPAWNED" /\ crashes' = 0 /\ outages' = 0 => \E g \in Handlers : Works(n, g)'
  BY DEF Fresh
<1>4. status'[n] # "ACCEPTED" => NoneFrom(n, attempt[n] + 1)'
  BY <1>1 DEF Fresh
<1>5. /\ status'[n] \in {"PENDING", "RETRYING"} => NoneFrom(n, attempt[n])'
      /\ \A g \in Handlers : pc'[g] = "uploading" /\ n \in todo'[g] => job'[g] = attempt'[n] /\ NoneFrom(n, attempt[n])'
  BY <1>1, <1>2 DEF Fresh
<1>6. \A k \in Attempts : op'[<<n, k>>] = "open" => k = attempt'[n]
  BY DEF Fresh
<1> QED BY <1>3, <1>4, <1>5, <1>6 DEF Fresh

\* Steps after which nothing is under way for n.
LEMMA FreshEnded ==
  ASSUME NEW n \in Roles, \A g \in Handlers : ~Works(n, g)', status'[n] # "SPAWNED",
         status'[n] # "ACCEPTED" => NoneFrom(n, attempt[n] + 1)',
         status'[n] \in {"PENDING", "RETRYING"} => NoneFrom(n, attempt[n])'
  PROVE  Fresh(n)'
<1>1. \A k \in Attempts : <<n, k>> \in Ops /\ <<n, k>> \in Handlers /\ <<n, k>>[1] = n
  BY DEF Ops, Handlers
<1>2. \A k \in Attempts : op'[<<n, k>>] # "open"
  BY <1>1 DEF Works
<1>3. \A g \in Handlers : ~(pc'[g] = "uploading" /\ n \in todo'[g])
  BY DEF Works
<1> QED BY <1>2, <1>3 DEF Fresh

\* Every step keeps it.
LEMMA FreshStep ==
  ASSUME When[Analyst] = Always, WorkInv, TurnInv, Bound, NEW n \in Live, AloneInv(n), Fresh(n), [Next]_vars
  PROVE  Fresh(n)'
<1>1. /\ n \in Nodes /\ n \in Roles /\ n \notin Unselected /\ ListedAlone(n) /\ OneAtATime(n)
      /\ attempt[n] \in Nat /\ status[n] \in Statuses /\ Attempts \subseteq Nat
  BY TypeParts DEF Live, Roles, AloneInv, WorkInv, DagType, Attempts
<1>2. \A k \in Attempts : <<n, k>> \in Ops /\ <<n, k>> \in Handlers /\ <<n, k>>[1] = n
  BY <1>1 DEF Ops, Handlers
<1>3. ASSUME NEW h \in Handlers, Others(h), op' = op, status'[n] = status[n], attempt'[n] = attempt[n],
             pc'[h] # "uploading" \/ n \notin todo'[h],
             status[n] = "SPAWNED" /\ crashes' = 0 /\ outages' = 0 =>
               crashes = 0 /\ outages = 0 /\ (Works(n, h) => Works(n, h)')
      PROVE  Fresh(n)'
  <2>1. \A g \in Handlers \ {h} : Works(n, g) => Works(n, g)'
    BY <1>3, WorksKept
  <2> QED BY <1>3, <2>1, FreshKeeps
<1>4. ASSUME NEW h \in Handlers, Others(h), op' = op, Works(n, h), ~Works(n, h)'
      PROVE  \A g \in Handlers : ~Works(n, g)'
  BY <1>1, <1>4, WorksKept DEF OneAtATime
<1>5. ASSUME NEW h \in Handlers, pc[h] \in {"binding", "judging", "advancing", "preparing"}
      PROVE  ~Works(n, h)
  BY <1>5 DEF Works, TurnInv, TurnFits
<1>6. ASSUME NEW h \in Handlers, pc[h] # "idle", pc'[h] = "advancing", op' = op PROVE ~Works(n, h)'
  BY <1>6 DEF Works, TurnInv, TurnFits
<1>7. ASSUME NEW h, Begin(h) PROVE Fresh(n)'
  <2>1. h \in Handlers /\ h \notin Ops /\ pc[h] = "idle"
    BY <1>7, BeginIs
  <2>2. ~Works(n, h)
    BY <2>1 DEF Works
  <2> QED BY <1>3, <1>7, <2>1, <2>2, BeginIs
<1>8. ASSUME NEW h, NEW s \in {"succeeded", "failed"}, Complete(h, s) PROVE Fresh(n)'
  <2>1. /\ h \in Handlers /\ h \in Ops /\ Others(h) /\ pc[h] = "idle" /\ pc'[h] = "opening"
        /\ op[h] = "open" /\ op'[h] \in {"succeeded", "failed"} /\ \A o \in Ops \ {h} : op'[o] = op[o]
        /\ UNCHANGED <<status, attempt, crashes, outages>>
    BY <1>8, CompleteIs
  <2>2. \A g \in Handlers \ {h} : Works(n, g) => Works(n, g)'
    BY <2>1, WorksKept
  <2>3. Works(n, h) => Works(n, h)'
    BY <2>1 DEF Works
  <2>4. \A k \in Attempts : /\ op[<<n, k>>] = "absent" => op'[<<n, k>>] = "absent"
                            /\ op'[<<n, k>>] = "open" => op[<<n, k>>] = "open"
    BY <1>2, <2>1
  <2> QED BY <2>1, <2>2, <2>3, <2>4, FreshKeeps
<1>9. ASSUME NEW h \in Handlers, Opened(h) PROVE Fresh(n)'
  <2>1. /\ Others(h) /\ h \in Ops /\ pc[h] = "opening" /\ pc'[h] \in {"reading", "failing"} /\ op' = op
        /\ UNCHANGED <<status, attempt, crashes, outages>>
    BY <1>9, OpenedIs
  <2>2. Works(n, h) => Works(n, h)'
    BY <2>1 DEF Works
  <2> QED BY <1>3, <2>1, <2>2
<1>10. ASSUME NEW h \in Handlers, AlreadyAccepted(h) \/ BindProfile(h) \/ (\E b \in BOOLEAN : Judge(h, b))
       PROVE  Fresh(n)'
  <2>1. /\ Others(h) /\ h \in Ops /\ pc[h] \in {"reading", "binding", "judging"} /\ pc'[h] = "advancing"
        /\ (pc[h] = "reading" => status[h[1]] = "ACCEPTED") /\ op' = op
        /\ UNCHANGED <<status, attempt, crashes, outages>>
    BY <1>10, OnwardIs
  <2>2. Works(n, h) => status[n] = "ACCEPTED"
    BY <1>5, <2>1 DEF Works, TurnInv, TurnFits
  <2> QED BY <1>3, <2>1, <2>2
<1>11. ASSUME NEW h \in Handlers, AcceptValid(h) PROVE Fresh(n)'
  <2>1. /\ Others(h) /\ h \in Ops /\ h[1] \in Nodes /\ pc[h] = "reading" /\ pc'[h] = "storing" /\ op' = op
        /\ status[h[1]] # "ACCEPTED" /\ Becomes(h[1], "SPAWNED", attempt[h[1]])
        /\ UNCHANGED <<crashes, outages>>
    BY <1>11, AcceptValidIs, OpNode
  <2>2. Works(n, h) => h[1] = n /\ Works(n, h)'
    BY <2>1 DEF Works
  <2>3. h[1] = n => status[n] = "SPAWNED"
    BY <1>1, <2>1 DEF Works, OneAtATime, Statuses
  <2>4. status'[n] = status[n] /\ attempt'[n] = attempt[n]
    BY <1>1, <2>1, <2>3 DEF Becomes
  <2> QED BY <1>3, <2>1, <2>2, <2>4
<1>12. ASSUME NEW h \in Handlers, Others(h), op' = op, h \in Ops, h[1] \in Nodes,
              pc[h] \in {"reading", "failing"}, pc'[h] = "advancing",
              status[h[1]] # "ACCEPTED", UNCHANGED <<crashes, outages>>,
              \/ Becomes(h[1], "RETRYING", attempt[h[1]] + 1)
              \/ Becomes(h[1], "FAILED", attempt[h[1]])
       PROVE  Fresh(n)'
  <2>1. CASE h[1] = n
    <3>1. \A g \in Handlers : ~Works(n, g)'
      <4>1. Works(n, h) /\ ~Works(n, h)'
        BY <1>6, <1>12, <2>1 DEF Works
      <4> QED BY <1>4, <1>12, <4>1
    <3>2. NoneFrom(n, attempt[n] + 1)
      BY <1>12, <2>1 DEF Fresh
    <3>3. \/ status'[n] = "RETRYING" /\ attempt'[n] = attempt[n] + 1
          \/ status'[n] = "FAILED" /\ attempt'[n] = attempt[n]
      BY <1>12, <2>1 DEF Becomes
    <3>4. NoneFrom(n, attempt[n] + 1)'
      BY <1>1, <1>12, <3>2, <3>3 DEF NoneFrom
    <3>5. status'[n] \in {"PENDING", "RETRYING"} => NoneFrom(n, attempt[n])'
      BY <1>12, <3>2, <3>3 DEF NoneFrom
    <3> QED BY <1>1, <3>1, <3>3, <3>4, <3>5, FreshEnded
  <2>2. CASE h[1] # n
    <3>1. status'[n] = status[n] /\ attempt'[n] = attempt[n]
      BY <1>1, <1>12, <2>2 DEF Becomes
    <3>2. ~Works(n, h)
      BY <1>12, <2>2 DEF Works
    <3> QED BY <1>3, <1>12, <3>1, <3>2
  <2> QED BY <2>1, <2>2
<1>13. ASSUME NEW h \in Handlers, AcceptInvalid(h) PROVE Fresh(n)'
  BY <1>12, <1>13, AcceptInvalidIs, OpNode
<1>14. ASSUME NEW h \in Handlers, Accepted(h) PROVE Fresh(n)'
  <2>1. /\ Others(h) /\ h \in Ops /\ h[1] \in Nodes /\ pc[h] = "storing" /\ op' = op
        /\ pc'[h] \in {"binding", "judging", "advancing"}
        /\ Becomes(h[1], "ACCEPTED", job[h]) /\ UNCHANGED <<crashes, outages>>
    BY <1>14, AcceptedIs, OpNode
  <2>2. CASE h[1] = n
    <3>1. Works(n, h) /\ ~Works(n, h)'
      BY <2>1, <2>2 DEF Works, TurnInv, TurnFits
    <3>2. \A g \in Handlers : ~Works(n, g)'
      BY <1>4, <2>1, <3>1
    <3>3. status'[n] = "ACCEPTED"
      BY <2>1, <2>2 DEF Becomes
    <3> QED BY <1>1, <3>2, <3>3, FreshEnded
  <2>3. CASE h[1] # n
    <3>1. status'[n] = status[n] /\ attempt'[n] = attempt[n]
      BY <1>1, <2>1, <2>3 DEF Becomes
    <3>2. ~Works(n, h)
      BY <2>1, <2>3 DEF Works
    <3> QED BY <1>3, <2>1, <3>1, <3>2
  <2> QED BY <2>2, <2>3
<1>15. ASSUME NEW h \in Handlers, Failed(h) PROVE Fresh(n)'
  <2>1. /\ Others(h) /\ h \in Ops /\ h[1] \in Nodes /\ pc[h] = "failing" /\ pc'[h] = "advancing" /\ op' = op
        /\ \/ status[h[1]] \in {"ACCEPTED", "RETRYING"} /\ Becomes(h[1], status[h[1]], attempt[h[1]])
           \/ status[h[1]] # "ACCEPTED" /\ Becomes(h[1], "RETRYING", attempt[h[1]] + 1)
           \/ status[h[1]] # "ACCEPTED" /\ Becomes(h[1], "FAILED", attempt[h[1]])
        /\ UNCHANGED <<crashes, outages>>
    BY <1>15, FailedIs, OpNode
  <2>2. CASE status[h[1]] \in {"ACCEPTED", "RETRYING"} /\ Becomes(h[1], status[h[1]], attempt[h[1]])
    <3>1. status'[n] = status[n] /\ attempt'[n] = attempt[n]
      BY <1>1, <2>2 DEF Becomes
    <3>2. Works(n, h) => h[1] = n
      BY <2>1 DEF Works
    <3> QED BY <1>3, <2>1, <2>2, <3>1, <3>2
  <2> QED BY <1>12, <2>1, <2>2
<1>16. ASSUME NEW h \in Handlers,
              \/ StoreFails(h) \/ ResultUnreadable(h) \/ DedupeConflict(h)
              \/ Runs(h, "preparing") /\ Throw(h) /\ UNCHANGED <<dag, op, server, faults>>
       PROVE  Fresh(n)'
  <2>1. /\ Others(h) /\ pc[h] # "idle" /\ pc'[h] \in {"failing", "done"} /\ op' = op
        /\ outages' = 0 => /\ outages = 0
                           /\ \/ pc[h] = "preparing" \/ (pc[h] = "reading" /\ pc'[h] = "failing")
                              \/ DedupeConflict(h)
        /\ UNCHANGED <<status, attempt, crashes>>
    BY <1>16, ThrowIs
  <2>2. ASSUME DedupeConflict(h) PROVE ~Works(n, h)
    <3>1. PICK m \in todo[h] : op[<<m, job[h]>>] # "absent" /\ job[h] \in Attempts /\ pc[h] = "uploading"
      BY <2>2, ForemostListed DEF DedupeConflict, DedupeKey, Resumes
    <3>2. n \notin todo[h]
      BY <1>1, <3>1 DEF ListedAlone, Fresh, NoneFrom
    <3> QED BY <3>1, <3>2 DEF Works, TurnInv, TurnFits
  <2>3. outages' = 0 /\ Works(n, h) => Works(n, h)'
    BY <1>5, <2>1, <2>2 DEF Works
  <2> QED BY <1>3, <2>1, <2>3
<1>17. ASSUME NEW h \in Handlers, Advance(h) PROVE Fresh(n)'
  <2>1. /\ Others(h) /\ pc[h] = "advancing" /\ pc'[h] \in {"advancing", "preparing"} /\ op' = op
        /\ UNCHANGED <<crashes, outages>>
    BY <1>17, AdvanceIs
  <2>2. status'[n] = status[n] /\ attempt'[n] = attempt[n]
    BY <1>1, <1>17, AdvanceIs, SkippedUnselected DEF Steps, Roles
  <2> QED BY <1>3, <1>5, <2>1, <2>2
<1>18. ASSUME NEW h \in Handlers, Prepare(h) PROVE Fresh(n)'
  <2>1. PICK m \in todo[h] :
           /\ pc[h] = "preparing" /\ busy = h /\ m \in Nodes
           /\ \/ /\ Others(h) /\ todo'[h] = todo[h] /\ MaySpawn(status[m]) /\ pc'[h] = "uploading"
                 /\ Becomes(m, "SPAWNED", job'[h]) /\ job'[h] = IF attempt[m] = 0 THEN 1 ELSE attempt[m]
                 /\ UNCHANGED <<compiled, predicates, op, server, crashes, outages>>
              \/ /\ ~MaySpawn(status[m])
                 /\ Runs(h, "preparing") /\ Throw(h) /\ UNCHANGED <<dag, op, server, faults>>
    BY <1>18, PrepareIs
  <2>2. CASE ~MaySpawn(status[m])
    BY <1>16, <2>1, <2>2
  <2>3. CASE MaySpawn(status[m]) /\ m = n
    <3>1. status[n] \in {"PENDING", "RETRYING"} /\ NoneFrom(n, attempt[n]) /\ \A g \in Handlers : ~Works(n, g)
      BY <1>1, <2>1, <2>3 DEF ListedAlone, OneAtATime, Fresh
    <3>2. status'[n] = "SPAWNED" /\ attempt'[n] = job'[h] /\ attempt'[n] \in Nat /\ attempt'[n] >= attempt[n]
      BY <1>1, <2>1, <2>3 DEF Becomes
    <3>3. NoneFrom(n, attempt[n])' /\ NoneFrom(n, attempt[n] + 1)'
      BY <1>1, <2>1, <2>3, <3>1, <3>2 DEF NoneFrom
    <3>4. \A g \in Handlers : pc'[g] = "uploading" /\ n \in todo'[g] => g = h
      BY <2>1, <2>3, <3>1 DEF Works, Others
    <3>5. \A k \in Attempts : op'[<<n, k>>] # "open"
      BY <1>2, <2>1, <2>3, <3>1 DEF Works
    <3>6. Works(n, h)'
      BY <2>1, <2>3 DEF Works
    <3> QED BY <3>2, <3>3, <3>4, <3>5, <3>6 DEF Fresh
  <2>4. CASE MaySpawn(status[m]) /\ m # n
    <3>1. n \notin todo'[h] /\ status'[n] = status[n] /\ attempt'[n] = attempt[n]
      BY <1>1, <2>1, <2>4 DEF ListedAlone, Becomes
    <3> QED BY <1>3, <1>5, <2>1, <2>4, <3>1
  <2> QED BY <2>2, <2>3, <2>4
<1>19. ASSUME NEW h \in Handlers, Uploaded(h) PROVE Fresh(n)'
  <2>1. PICK m \in todo[h] :
           /\ <<m, job[h]>> \in Ops /\ job[h] \in Attempts /\ Others(h) /\ todo'[h] = todo[h] \ {m}
           /\ pc[h] = "uploading" /\ pc'[h] = "preparing"
           /\ \A o \in Ops : op'[o] = IF o = <<m, job[h]>> /\ op[o] = "absent" THEN "open" ELSE op[o]
           /\ UNCHANGED <<status, attempt, crashes, outages>>
    BY <1>19, UploadedIs
  <2>2. CASE m = n
    <3>1. /\ Works(n, h) /\ job[h] = attempt[n] /\ NoneFrom(n, attempt[n])
          /\ \A g \in Handlers : Works(n, g) => g = h
      BY <1>1, <2>1, <2>2 DEF Works, Fresh, OneAtATime
    <3>2. status[n] = "SPAWNED"
      BY <1>1, <2>1, <3>1 DEF OneAtATime, Statuses
    <3>3. \A k \in Attempts : op'[<<n, k>>] = IF k = attempt[n] THEN "open" ELSE op[<<n, k>>]
      <4>1. op[<<n, attempt[n]>>] = "absent"
        BY <1>1, <2>1, <3>1 DEF NoneFrom
      <4> QED BY <1>2, <2>1, <2>2, <3>1, <4>1
    <3>4. NoneFrom(n, attempt[n] + 1)'
      BY <1>1, <2>1, <3>1, <3>3 DEF NoneFrom
    <3>5. \A g \in Handlers : ~(pc'[g] = "uploading" /\ n \in todo'[g])
      BY <2>1, <3>1 DEF Works, Others
    <3>6. \A k \in Attempts : op'[<<n, k>>] = "open" => k = attempt'[n]
      BY <2>1, <3>3 DEF Fresh
    <3>7. \E g \in Handlers : Works(n, g)'
      <4>1. PICK k \in Attempts : k = attempt[n]
        BY <2>1, <3>1
      <4>2. <<n, k>> \in Handlers /\ Works(n, <<n, k>>)'
        BY <1>2, <3>3, <4>1 DEF Works
      <4> QED BY <4>2
    <3> QED BY <2>1, <3>2, <3>4, <3>5, <3>6, <3>7 DEF Fresh
  <2>3. CASE m # n
    <3>1. \A o \in Ops : o[1] = n => op'[o] = op[o]
      BY <2>1, <2>3
    <3>2. n \notin todo[h] /\ \A k \in Attempts : op'[<<n, k>>] = op[<<n, k>>]
      BY <1>1, <1>2, <2>1, <2>3, <3>1 DEF ListedAlone
    <3>3. ~Works(n, h)
      BY <2>1, <3>2 DEF Works, TurnInv, TurnFits
    <3>4. \A g \in Handlers \ {h} : Works(n, g) => Works(n, g)'
      BY <2>1, <3>1 DEF Works, Others
    <3> QED BY <2>1, <3>2, <3>3, <3>4, FreshKeeps
  <2> QED BY <2>2, <2>3
<1>20. ASSUME NEW h \in Handlers, Return(h) PROVE Fresh(n)'
  BY <1>3, <1>5, <1>20, ReturnIs
<1>21. ASSUME op' = op, status' = status, attempt' = attempt, crashes' # 0,
              \A h \in Handlers : pc'[h] # "uploading"
       PROVE  Fresh(n)'
  <2>1. \A k : NoneFrom(n, k) => NoneFrom(n, k)'
    BY <1>21 DEF NoneFrom
  <2>2. status'[n] # "ACCEPTED" => NoneFrom(n, attempt[n] + 1)'
    BY <1>21, <2>1 DEF Fresh
  <2>3. status'[n] \in {"PENDING", "RETRYING"} => NoneFrom(n, attempt[n])'
    BY <1>21, <2>1 DEF Fresh
  <2> QED BY <1>21, <2>2, <2>3 DEF Fresh
<1>22. CASE Crash
  BY <1>21, <1>22, CrashIs
<1>23. CASE Restart
  <2>1. crashes' # 0 /\ \A h \in Handlers : pc[h] # "uploading"
    BY <1>23, RestartIs DEF TurnInv
  <2>2. \A h \in Handlers : pc'[h] # "uploading"
    BY <1>23, <2>1, RestartIs
  <2> QED BY <1>21, <1>23, <2>1, <2>2, RestartIs
<1>24. CASE UNCHANGED vars
  BY <1>24 DEF vars, dag, frames, faults, Fresh, NoneFrom, Works
<1> QED BY <1>7, <1>8, <1>9, <1>10, <1>11, <1>13, <1>14, <1>15, <1>16, <1>17, <1>18, <1>19, <1>20, <1>22, <1>23,
           <1>24, StepIs

\* No operation yet.
LEMMA FreshInitially == ASSUME Init, NEW n \in Live PROVE Fresh(n)
<1>1. n \in Nodes /\ \A k \in Attempts : <<n, k>> \in Ops
  BY DEF Live, Roles, Ops
<1> QED BY <1>1 DEF Init, Fresh, NoneFrom

\* In a profile whose agents wait for each other in a line, no work is forgotten without crashes and
\* store outages: when all requests are answered, every ready node was spawned and every spawned node
\* has the operation of its current attempt open, however often results are bad, unreadable or fail
\* (enqueueReadyAgentWork, acceptCompletedSpawnJob, failCompletedSpawnJob).
THEOREM NothingIsStranded == AllAlone => (Spec => []NothingStranded)
<1> SUFFICES ASSUME FindingsComeLater, NEW B, Precedence(B), \A n \in Live : Alone(B, n)
             PROVE  Spec => []NothingStranded
  BY DEF AllAlone
<1> DEFINE Inv == LineInv(B, Live) /\ CoveredInv /\ \A n \in Live : Fresh(n)
<1>1. Init => Inv
  BY LineInitially, CoveredInitially, FreshInitially
<1>2. Inv /\ [Next]_vars => Inv'
  <2> SUFFICES ASSUME Inv, [Next]_vars PROVE Inv'
    OBVIOUS
  <2>1. LineInv(B, Live)' /\ CoveredInv'
    BY LineStep, CoveredStep
  <2>2. ASSUME NEW n \in Live PROVE Fresh(n)'
    BY FreshStep DEF FindingsComeLater, LineInv
  <2> QED BY <2>1, <2>2 DEF Live, Roles, Unselected
<1>3. Inv => NothingStranded
  <2> SUFFICES ASSUME Inv, Quiet, crashes = 0, outages = 0
               PROVE  /\ Ready(status) = {}
                      /\ \A n \in Roles : status[n] = "SPAWNED" => op[<<n, attempt[n]>>] = "open"
    BY DEF NothingStranded
  <2>1. Ready(status) = {}
    BY QuietOwesNothing DEF Owed, Quiet
  <2>2. ASSUME NEW n \in Roles, status[n] = "SPAWNED" PROVE op[<<n, attempt[n]>>] = "open"
    <3>1. n \in Live
      BY <2>2 DEF LineInv, WorkInv, CountersFit, SweptInv, Live, Roles
    <3>2. PICK h \in Handlers : Works(n, h)
      BY <2>2, <3>1 DEF Fresh
    <3>3. pc[h] \in {"idle", "done"}
      BY DEF Quiet, Active
    <3>4. h \in Ops /\ h[1] = n /\ op[h] = "open"
      BY <3>2, <3>3 DEF Works
    <3>5. PICK k \in Attempts : h = <<n, k>>
      BY <3>4 DEF Ops
    <3>6. k = attempt[n]
      BY <3>1, <3>4, <3>5 DEF Fresh
    <3> QED BY <3>4, <3>5, <3>6
  <2> QED BY <2>1, <2>2
<1> HIDE DEF Inv
<1> QED BY <1>1, <1>2, <1>3, PTL DEF Spec

=============================================================================
