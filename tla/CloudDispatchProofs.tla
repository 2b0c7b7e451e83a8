------------------------ MODULE CloudDispatchProofs ------------------------
(***************************************************************************)
(* At most once, for any number of dispatchers, requests and faults: the   *)
(* invariant says who owns the call and what the owner knows at each of    *)
(* its steps.                                                              *)
(***************************************************************************)
EXTENDS CloudDispatch, TLAPS

\* Where a dispatcher owns the call.
Owning == {"post", "reply", "receipt", "evidence", "usage", "settle"}

\* A call has one owner, while it is dispatching; only a completed one has a response.
OneOwner ==
  /\ \A d \in Dispatchers : disp[d].pc \in Owning =>
       row.state = "dispatching" /\ \A e \in Dispatchers : disp[e].pc \in Owning => e = d
  /\ row.state # "completed" => row.response = NoOne

\* What the owner was told, and when.
ToldRight ==
  \A d \in Dispatchers :
    /\ disp[d].pc \in {"new", "envelopes", "bind", "own", "post", "reply"} => disp[d].result = "none"
    /\ disp[d].pc \in {"new", "envelopes"} => disp[d].binds = 0
    /\ disp[d].pc = "bind" => disp[d].binds \in 0..4
    /\ disp[d].pc \in {"receipt", "usage"} => disp[d].result \in {"completed", "not-dispatched"}
    /\ disp[d].pc = "evidence" => disp[d].result = "unknown"
    /\ disp[d].pc = "settle" => disp[d].result # "none"
    /\ <<"receipt", d>> \in bound => disp[d].result = "completed"

\* What the provider accepted, as far as the owner got.
ProviderInv ==
  /\ AcceptedOnce
  /\ row.state \in {"absent", "prepared"} => accepted = {}
  /\ \A d \in Dispatchers :
       /\ disp[d].pc = "post" => accepted = {}
       /\ disp[d].pc = "reply" => accepted \subseteq {d}
       /\ disp[d].pc \in {"receipt", "usage", "settle"} /\ disp[d].result = "not-dispatched" =>
            accepted = {}
       /\ disp[d].pc \in {"receipt", "usage", "settle"} /\ disp[d].result = "completed" =>
            d \in accepted
       /\ disp[d].pc \in {"usage", "settle"} /\ disp[d].result = "completed" =>
            <<"receipt", d>> \in bound
       /\ disp[d].pc = "settle" /\ disp[d].result = "unknown" => <<"evidence", d>> \in bound

\* What the row says of the provider and of the evidence; receipts come further down.
RowInv ==
  /\ row.state \in {"absent", "prepared"} => accepted = {}
  /\ row.state = "completed" => row.response \in accepted /\ <<"receipt", row.response>> \in bound
  /\ row.state = "outcome-unknown" => \E d \in Dispatchers : <<"evidence", d>> \in bound

IInv == TypeOK /\ OneOwner /\ ToldRight /\ ProviderInv /\ RowInv
-----------------------------------------------------------------------------
\* A call that nobody dispatched satisfies the invariant.
LEMMA InitIInv == Init => IInv
<1> SUFFICES ASSUME Init PROVE IInv
  OBVIOUS
<1>1. TypeOK
  BY DispatchAssumption DEF Init, TypeOK, RowStates, PCs, Sync, Results
<1>2. OneOwner /\ ToldRight
  BY DEF Init, OneOwner, ToldRight, Owning
<1>3. ProviderInv /\ RowInv
  BY DEF Init, ProviderInv, AcceptedOnce, RowInv
<1> QED
  BY <1>1, <1>2, <1>3 DEF IInv

\* A step of one dispatcher changes its own frame alone.
LEMMA GotoFacts ==
  ASSUME TypeOK, NEW d \in Dispatchers, NEW pc \in PCs, Goto(d, pc)
  PROVE  /\ disp' \in [Dispatchers -> [pc : PCs, request : Requests \cup {NoOne}, binds : 0..5,
                                       digest : Requests \cup {NoOne}, result : Results]]
         /\ disp'[d].pc = pc /\ disp'[d].result = disp[d].result
         /\ disp'[d].binds = disp[d].binds
         /\ \A e \in Dispatchers : e # d => disp'[e] = disp[e]
BY DEF TypeOK, Goto

\* So does one that is told a result.
LEMMA ToldFacts ==
  ASSUME TypeOK, NEW d \in Dispatchers, NEW pc \in PCs, NEW res \in Results, Told(d, pc, res)
  PROVE  /\ disp' \in [Dispatchers -> [pc : PCs, request : Requests \cup {NoOne}, binds : 0..5,
                                       digest : Requests \cup {NoOne}, result : Results]]
         /\ disp'[d].pc = pc /\ disp'[d].result = res
         /\ disp'[d].binds = disp[d].binds
         /\ \A e \in Dispatchers : e # d => disp'[e] = disp[e]
BY DEF TypeOK, Told

\* The places a step may lead to.
LEMMA PlaceFacts ==
  /\ \A pc \in {"new", "envelopes", "own", "post", "reply", "receipt", "evidence", "done", "bind",
                "usage", "settle", "attempt"} : pc \in PCs
  /\ {"none", "completed", "not-dispatched", "unknown"} = Results
BY DEF PCs, Sync, Results

Frames == [pc : PCs, request : Requests \cup {NoOne}, binds : 0..5,
           digest : Requests \cup {NoOne}, result : Results]

\* Compiling the request, and making or finding the row.
LEMMA PrepareStep ==
  ASSUME IInv, NEW d \in Dispatchers, dispatchCloudCall(d) \/ persistPreparedCall(d)
  PROVE  IInv'
<1>1. /\ disp' \in [Dispatchers -> Frames]
      /\ disp'[d].pc \in {"envelopes", "bind", "own"} /\ disp'[d].result = disp[d].result
      /\ disp'[d].binds = disp[d].binds
      /\ \A e \in Dispatchers : e # d => disp'[e] = disp[e]
  BY PlaceFacts, SMTT(40) DEF IInv, TypeOK, Frames, dispatchCloudCall, persistPreparedCall
<1>2. disp[d].pc \in {"new", "envelopes"} /\ disp[d].result = "none" /\ disp[d].binds = 0
  BY DEF IInv, ToldRight, dispatchCloudCall, persistPreparedCall, At
<1>3. UNCHANGED <<bound, attempts, usage, accepted, faults>>
  BY DEF dispatchCloudCall, persistPreparedCall
<1>4. \/ UNCHANGED row
      \/ /\ row.state = "absent" /\ row'.state = "prepared" /\ row'.response = row.response
         /\ row' \in [state : RowStates, request : Requests \cup {NoOne},
                      response : Dispatchers \cup {NoOne}]
  BY DEF IInv, TypeOK, RowStates, dispatchCloudCall, persistPreparedCall
<1>5. TypeOK'
  BY <1>1, <1>3, <1>4 DEF IInv, TypeOK, Frames
<1>6. OneOwner'
  BY <1>1, <1>4 DEF IInv, OneOwner, Owning
<1>7. ToldRight'
  <2>1. disp'[d].binds = 0 /\ disp'[d].binds \in 0..4 /\ disp'[d].result = "none"
    BY <1>1, <1>2
  <2> QED
    BY <1>1, <1>3, <2>1 DEF IInv, ToldRight
<1>8. ProviderInv' /\ RowInv'
  BY <1>1, <1>3, <1>4 DEF IInv, ProviderInv, AcceptedOnce, RowInv
<1> QED
  BY <1>5, <1>6, <1>7, <1>8 DEF IInv

\* Binding the call's artifacts.
LEMMA BindStep ==
  ASSUME IInv, NEW d \in Dispatchers, bindCloudCallArtifact(d)
  PROVE  IInv'
<1> DEFINE i == disp[d].binds + 1
<1>1. disp[d].pc = "bind" /\ disp[d].result = "none" /\ disp[d].binds \in 0..4
  BY DEF IInv, ToldRight, bindCloudCallArtifact, At
<1>2. /\ disp' \in [Dispatchers -> Frames]
      /\ disp'[d].pc \in {"bind", "own"} /\ disp'[d].result = "none"
      /\ disp'[d].pc = "bind" => disp'[d].binds \in 0..4
      /\ \A e \in Dispatchers : e # d => disp'[e] = disp[e]
  <2>1. i \in 0..5 /\ (i # 5 => i \in 0..4)
    BY <1>1
  <2>2. disp \in [Dispatchers -> Frames]
    BY DEF IInv, TypeOK, Frames
  <2> DEFINE g == [disp[d] EXCEPT !.binds = i, !.pc = IF i = 5 THEN "own" ELSE "bind"]
  <2>3. disp' = [disp EXCEPT ![d] = g]
    BY DEF bindCloudCallArtifact
  <2> HIDE DEF i
  <2>4. /\ g \in Frames /\ g.pc \in {"bind", "own"} /\ g.result = disp[d].result
        /\ g.binds = i /\ (g.pc = "bind" => i # 5)
    BY <2>1, <2>2, PlaceFacts DEF Frames
  <2> HIDE DEF g
  <2>5. disp'[d] = g /\ disp' \in [Dispatchers -> Frames]
    BY <2>2, <2>3, <2>4
  <2> QED
    BY <1>1, <2>1, <2>2, <2>3, <2>4, <2>5
<1>3. PICK role \in ArtifactRoles \ {"receipt", "evidence"} : bound' = bound \cup {<<role, d>>}
  <2>1. i \in 1..5
    BY <1>1
  <2>2. INPUT_ROLES[i] \in ArtifactRoles \ {"receipt", "evidence"}
    BY <2>1 DEF INPUT_ROLES, ArtifactRoles
  <2> QED
    BY <2>2 DEF bindCloudCallArtifact
<1>4. UNCHANGED <<row, attempts, usage, accepted, faults>>
  BY DEF bindCloudCallArtifact
<1>5. \A e \in Dispatchers : /\ <<"receipt", e>> \in bound' <=> <<"receipt", e>> \in bound
                             /\ <<"evidence", e>> \in bound' <=> <<"evidence", e>> \in bound
  BY <1>3
<1>6. TypeOK'
  BY <1>2, <1>3, <1>4 DEF IInv, TypeOK, Frames
<1>7. OneOwner'
  BY <1>1, <1>2, <1>4 DEF IInv, OneOwner, Owning
<1>8. ToldRight'
  BY <1>1, <1>2, <1>5, ZenonT(60) DEF IInv, ToldRight
<1>9. ProviderInv'
  BY <1>1, <1>2, <1>4, <1>5 DEF IInv, ProviderInv, AcceptedOnce
<1>10. RowInv'
  <2>1. row.response \in accepted => row.response \in Dispatchers
    BY DEF IInv, TypeOK
  <2> QED
    BY <1>4, <1>5, <2>1 DEF IInv, RowInv
<1> QED
  BY <1>6, <1>7, <1>8, <1>9, <1>10 DEF IInv

\* Taking the call: nobody owns a call that is prepared, and nothing of it was accepted.
LEMMA OwnStep ==
  ASSUME IInv, NEW d \in Dispatchers, casTransitionToDispatching(d)
  PROVE  IInv'
<1>1. disp[d].pc = "own" /\ disp[d].result = "none"
  BY DEF IInv, ToldRight, casTransitionToDispatching, At
<1>2. UNCHANGED <<bound, attempts, usage, accepted, faults>>
  BY DEF casTransitionToDispatching
<1>3. CASE row.state = "prepared" /\ row.request = disp[d].digest
  <2>1. /\ row' \in [state : RowStates, request : Requests \cup {NoOne},
                     response : Dispatchers \cup {NoOne}]
        /\ row'.state = "dispatching" /\ row'.response = NoOne
    BY <1>3 DEF IInv, TypeOK, OneOwner, RowStates, casTransitionToDispatching
  <2>2. Goto(d, "post")
    BY <1>3 DEF casTransitionToDispatching
  <2>3. /\ disp' \in [Dispatchers -> Frames]
        /\ disp'[d].pc = "post" /\ disp'[d].result = "none"
        /\ \A e \in Dispatchers : e # d => disp'[e] = disp[e]
    BY <1>1, <2>2, PlaceFacts, GotoFacts DEF IInv, Frames
  <2>4. accepted = {} /\ \A e \in Dispatchers : disp[e].pc \notin Owning
    BY <1>3 DEF IInv, OneOwner, ProviderInv
  <2>5. TypeOK'
    BY <1>2, <2>1, <2>3 DEF IInv, TypeOK, Frames
  <2>6. OneOwner' /\ ToldRight'
    BY <1>1, <1>2, <2>1, <2>3, <2>4 DEF IInv, OneOwner, ToldRight
  <2>7. ProviderInv' /\ RowInv'
    BY <1>2, <2>1, <2>3, <2>4 DEF IInv, ProviderInv, AcceptedOnce, RowInv, Owning
  <2> QED
    BY <2>5, <2>6, <2>7 DEF IInv
<1>4. CASE ~(row.state = "prepared" /\ row.request = disp[d].digest)
  <2>1. Goto(d, "done") /\ UNCHANGED row
    BY <1>4 DEF casTransitionToDispatching
  <2>2. /\ disp' \in [Dispatchers -> Frames]
        /\ disp'[d].pc = "done" /\ disp'[d].result = "none"
        /\ \A e \in Dispatchers : e # d => disp'[e] = disp[e]
    BY <1>1, <2>1, PlaceFacts, GotoFacts DEF IInv, Frames
  <2>3. TypeOK'
    BY <1>2, <2>1, <2>2 DEF IInv, TypeOK, Frames
  <2>4. OneOwner' /\ ToldRight'
    BY <1>1, <1>2, <2>1, <2>2 DEF IInv, OneOwner, ToldRight, Owning
  <2>5. ProviderInv' /\ RowInv'
    BY <1>2, <2>1, <2>2 DEF IInv, ProviderInv, AcceptedOnce, RowInv
  <2> QED
    BY <2>3, <2>4, <2>5 DEF IInv
<1> QED
  BY <1>3, <1>4

\* Posting and reading the answer: the owner is alone, so what the provider accepted is
\* this post or nothing.
LEMMA GatewayStep ==
  ASSUME IInv, NEW d \in Dispatchers, postOnce(d) \/ completeOnce(d)
  PROVE  IInv'
<1>1. /\ disp[d].pc \in {"post", "reply"} /\ disp[d].result = "none"
      /\ accepted \subseteq {d} /\ (disp[d].pc = "post" => accepted = {})
      /\ row.state = "dispatching" /\ \A e \in Dispatchers : e # d => disp[e].pc \notin Owning
  BY DEF IInv, OneOwner, ToldRight, ProviderInv, postOnce, completeOnce, At, Owning
<1>2. UNCHANGED <<row, bound, attempts, usage, faults>>
  BY DEF postOnce, completeOnce
<1>3. /\ disp' \in [Dispatchers -> Frames]
      /\ \A e \in Dispatchers : e # d => disp'[e] = disp[e]
      /\ \/ /\ disp'[d].pc = "receipt" /\ disp'[d].result = "not-dispatched"
            /\ accepted' = {}
         \/ disp'[d].pc = "reply" /\ disp'[d].result = "none" /\ accepted' \subseteq {d}
         \/ disp'[d].pc = "receipt" /\ disp'[d].result = "completed" /\ accepted' = {d}
         \/ disp'[d].pc = "evidence" /\ disp'[d].result = "unknown" /\ accepted' \subseteq {d}
  <2>1. CASE postOnce(d)
    <3>1. disp[d].pc = "post" /\ accepted = {}
      BY <1>1, <2>1 DEF postOnce, At
    <3>2. CASE Told(d, "receipt", "not-dispatched") /\ UNCHANGED accepted
      BY <1>1, <3>1, <3>2, PlaceFacts, ToldFacts DEF IInv, Frames
    <3>3. CASE Goto(d, "reply") /\ (accepted' = accepted \cup {d} \/ UNCHANGED accepted)
      BY <1>1, <3>1, <3>3, PlaceFacts, GotoFacts DEF IInv, Frames
    <3> QED
      BY <2>1, <3>2, <3>3 DEF postOnce
  <2>2. CASE completeOnce(d)
    <3>1. UNCHANGED accepted
      BY <2>2 DEF completeOnce
    <3>2. CASE d \in accepted /\ Told(d, "receipt", "completed")
      BY <1>1, <3>1, <3>2, PlaceFacts, ToldFacts DEF IInv, Frames
    <3>3. CASE Told(d, "evidence", "unknown")
      BY <1>1, <3>1, <3>3, PlaceFacts, ToldFacts DEF IInv, Frames
    <3> QED
      BY <2>2, <3>2, <3>3 DEF completeOnce
  <2> QED
    BY <2>1, <2>2
<1>4. TypeOK'
  BY <1>2, <1>3 DEF IInv, TypeOK, Frames
<1>5. <<"receipt", d>> \notin bound
  BY <1>1 DEF IInv, ToldRight
<1>6. OneOwner' /\ ToldRight'
  BY <1>1, <1>2, <1>3, <1>5 DEF IInv, OneOwner, ToldRight, Owning
<1>7. ProviderInv' /\ RowInv'
  BY <1>1, <1>2, <1>3 DEF IInv, ProviderInv, AcceptedOnce, RowInv, Owning
<1> QED
  BY <1>4, <1>6, <1>7 DEF IInv

\* Storing the receipt of an answer, or the evidence that there is none.
LEMMA ReceiptStep ==
  ASSUME IInv, NEW d \in Dispatchers, fsyncReceiptThenComplete(d) \/ transportEvidence(d)
  PROVE  IInv'
<1>1. /\ disp[d].pc \in {"receipt", "evidence"} /\ row.state = "dispatching"
      /\ \A e \in Dispatchers : e # d => disp[e].pc \notin Owning
      /\ disp[d].pc = "receipt" => disp[d].result \in {"completed", "not-dispatched"}
      /\ disp[d].pc = "evidence" => disp[d].result = "unknown"
  BY DEF IInv, OneOwner, ToldRight, fsyncReceiptThenComplete, transportEvidence, At, Owning
<1>2. UNCHANGED <<row, attempts, usage, accepted, faults>>
  BY DEF fsyncReceiptThenComplete, transportEvidence
<1>3. \/ /\ disp[d].pc = "receipt" /\ Goto(d, "usage")
         /\ \/ disp[d].result = "completed" /\ bound' = bound \cup {<<"receipt", d>>}
            \/ disp[d].result = "not-dispatched" /\ bound' = bound
      \/ disp[d].pc = "evidence" /\ Goto(d, "settle") /\ bound' = bound \cup {<<"evidence", d>>}
  BY <1>1 DEF fsyncReceiptThenComplete, transportEvidence, At
<1>4. /\ disp' \in [Dispatchers -> Frames] /\ disp'[d].result = disp[d].result
      /\ \A e \in Dispatchers : e # d => disp'[e] = disp[e]
      /\ \/ disp[d].pc = "receipt" /\ disp'[d].pc = "usage"
         \/ disp[d].pc = "evidence" /\ disp'[d].pc = "settle"
  BY <1>3, PlaceFacts, GotoFacts DEF IInv, Frames
<1>5. /\ bound \subseteq bound' /\ bound' \in SUBSET (ArtifactRoles \X Dispatchers)
      /\ \A e \in Dispatchers : <<"receipt", e>> \in bound' =>
           <<"receipt", e>> \in bound \/ (e = d /\ disp[d].result = "completed")
      /\ disp[d].pc = "receipt" /\ disp[d].result = "completed" => <<"receipt", d>> \in bound'
      /\ disp[d].pc = "evidence" => <<"evidence", d>> \in bound'
  BY <1>1, <1>3 DEF IInv, TypeOK, ArtifactRoles
<1>6. TypeOK'
  BY <1>2, <1>4, <1>5 DEF IInv, TypeOK, Frames
<1>7. OneOwner'
  BY <1>1, <1>2, <1>4 DEF IInv, OneOwner, Owning
<1>8. ToldRight'
  BY <1>1, <1>4, <1>5 DEF IInv, ToldRight, Owning
<1>9. ProviderInv'
  BY <1>1, <1>2, <1>4, <1>5 DEF IInv, ProviderInv, AcceptedOnce, Owning
<1>10. RowInv'
  BY <1>1, <1>2 DEF IInv, RowInv
<1> QED
  BY <1>6, <1>7, <1>8, <1>9, <1>10 DEF IInv

\* Writing the usage entry, which the row does not depend on.
LEMMA UsageStep ==
  ASSUME IInv, NEW d \in Dispatchers, persistReceiptUsage(d)
  PROVE  IInv'
<1>1. /\ disp[d].pc = "usage" /\ row.state = "dispatching"
      /\ \A e \in Dispatchers : e # d => disp[e].pc \notin Owning
      /\ disp[d].result \in {"completed", "not-dispatched"}
  BY DEF IInv, OneOwner, ToldRight, persistReceiptUsage, At, Owning
<1>2. UNCHANGED <<row, bound, attempts, accepted, faults>> /\ Goto(d, "settle")
  BY DEF persistReceiptUsage
<1>3. /\ disp' \in [Dispatchers -> Frames] /\ disp'[d].result = disp[d].result
      /\ \A e \in Dispatchers : e # d => disp'[e] = disp[e]
      /\ disp'[d].pc = "settle"
  BY <1>2, PlaceFacts, GotoFacts DEF IInv, Frames
<1>4. usage' \in SUBSET [of : Dispatchers, corrects : Dispatchers \cup {NoOne}]
  <2>1. usage \in SUBSET [of : Dispatchers, corrects : Dispatchers \cup {NoOne}]
    BY DEF IInv, TypeOK
  <2>2. uniqueLeaves \subseteq Dispatchers
    BY <2>1 DEF uniqueLeaves
  <2>3. PICK prior \in Dispatchers \cup {NoOne} :
          usage' = usage \cup {[of |-> d, corrects |-> prior]}
    BY <2>2 DEF persistReceiptUsage
  <2> QED
    BY <2>1, <2>3
<1>5. TypeOK'
  BY <1>2, <1>3, <1>4 DEF IInv, TypeOK, Frames
<1>6. OneOwner' /\ ToldRight'
  BY <1>1, <1>2, <1>3 DEF IInv, OneOwner, ToldRight, Owning
<1>7. ProviderInv'
  BY <1>1, <1>2, <1>3 DEF IInv, ProviderInv, AcceptedOnce, Owning
<1>8. RowInv'
  BY <1>1, <1>2 DEF IInv, RowInv
<1> QED
  BY <1>5, <1>6, <1>7, <1>8 DEF IInv

\* The end of a call for its owner: its frame leaves the places where it owns the call.
LEMMA ReleaseFacts ==
  ASSUME IInv, NEW d \in Dispatchers, disp[d].pc = "settle", UNCHANGED <<bound, accepted>>,
         NEW pc \in {"attempt", "done"}, Goto(d, pc),
         row' \in [state : RowStates, request : Requests \cup {NoOne},
                   response : Dispatchers \cup {NoOne}],
         row'.state # "completed" => row'.response = NoOne,
         row'.state \in {"absent", "prepared"} => accepted = {}
  PROVE  disp' \in [Dispatchers -> Frames] /\ OneOwner' /\ ToldRight' /\ ProviderInv'
<1>1. /\ disp' \in [Dispatchers -> Frames] /\ disp'[d].result = disp[d].result
      /\ \A e \in Dispatchers : e # d => disp'[e] = disp[e]
      /\ disp'[d].pc \in {"attempt", "done"}
  BY PlaceFacts, GotoFacts DEF IInv, Frames
<1>2. \A e \in Dispatchers : disp'[e].pc \notin Owning
  BY <1>1 DEF IInv, OneOwner, Owning
<1>3. OneOwner'
  BY <1>2 DEF OneOwner
<1>4. ToldRight'
  BY <1>1, ZenonT(60) DEF IInv, ToldRight
<1> QED
  BY <1>1, <1>2, <1>3, <1>4 DEF IInv, ProviderInv, AcceptedOnce, Owning

\* Completing the call by its receipt.
LEMMA CompleteStep ==
  ASSUME IInv, NEW d \in Dispatchers, completeCloudCall(d)
  PROVE  IInv'
<1>1. /\ disp[d].pc = "settle" /\ disp[d].result = "completed" /\ row.state = "dispatching"
      /\ row.response = NoOne
  BY DEF IInv, OneOwner, completeCloudCall, At, Owning
<1>2. /\ UNCHANGED <<bound, attempts, usage, accepted, faults>> /\ Goto(d, "attempt")
      /\ row' = [row EXCEPT !.state = "completed", !.response = d]
  BY <1>1 DEF completeCloudCall, Owned
<1>3. /\ row' \in [state : RowStates, request : Requests \cup {NoOne},
                   response : Dispatchers \cup {NoOne}]
      /\ row'.state = "completed" /\ row'.response = d
  BY <1>2 DEF IInv, TypeOK, RowStates
<1>4. disp' \in [Dispatchers -> Frames] /\ OneOwner' /\ ToldRight' /\ ProviderInv'
  <2> HIDE DEF IInv
  <2> QED
    BY <1>1, <1>2, <1>3, ReleaseFacts
<1>5. TypeOK'
  BY <1>2, <1>3, <1>4 DEF IInv, TypeOK, Frames
<1>6. d \in accepted /\ <<"receipt", d>> \in bound
  BY <1>1 DEF IInv, ProviderInv
<1>7. RowInv'
  BY <1>2, <1>3, <1>6 DEF RowInv
<1> QED
  BY <1>4, <1>5, <1>7 DEF IInv

\* Settling a call that was not dispatched, or whose outcome is unknown.
LEMMA SettleStep ==
  ASSUME IInv, NEW d \in Dispatchers, settleCloudCallTransport(d)
  PROVE  IInv'
<1>1. /\ disp[d].pc = "settle" /\ disp[d].result \in {"not-dispatched", "unknown"}
      /\ row.state = "dispatching" /\ row.response = NoOne
  BY DEF IInv, OneOwner, settleCloudCallTransport, At, Owning
<1>2. /\ UNCHANGED <<bound, usage, accepted, faults>> /\ Goto(d, "done")
      /\ attempts' = Append(attempts, disp[d].result)
      /\ row' = [row EXCEPT !.state = nextState(disp[d].result)]
  BY <1>1 DEF settleCloudCallTransport, Owned
<1>3. /\ row' \in [state : RowStates, request : Requests \cup {NoOne},
                   response : Dispatchers \cup {NoOne}]
      /\ row'.response = NoOne
      /\ \/ disp[d].result = "not-dispatched" /\ row'.state = "prepared"
         \/ disp[d].result = "unknown" /\ row'.state = "outcome-unknown"
  BY <1>1, <1>2 DEF IInv, TypeOK, RowStates, nextState
<1>4. disp[d].result = "not-dispatched" => accepted = {}
  BY <1>1 DEF IInv, ProviderInv
<1>5. disp' \in [Dispatchers -> Frames] /\ OneOwner' /\ ToldRight' /\ ProviderInv'
  <2> HIDE DEF IInv
  <2> QED
    BY <1>1, <1>2, <1>3, <1>4, ReleaseFacts
<1>6. attempts' \in Seq(Results)
  BY <1>1, <1>2, PlaceFacts DEF IInv, TypeOK
<1>7. TypeOK'
  BY <1>2, <1>3, <1>5, <1>6 DEF IInv, TypeOK, Frames
<1>8. disp[d].result = "unknown" => <<"evidence", d>> \in bound
  BY <1>1 DEF IInv, ProviderInv
<1>9. RowInv'
  BY <1>2, <1>3, <1>4, <1>8 DEF RowInv
<1> QED
  BY <1>5, <1>7, <1>9 DEF IInv

\* Steps that move frames to places where nobody owns the call and change nothing the
\* invariant relates: the record of the attempt, a refused store access, a crash.
LEMMA AbandonFacts ==
  ASSUME IInv, UNCHANGED <<row, bound, usage, accepted>>,
         attempts' \in Seq(Results), faults' \in Nat, disp' \in [Dispatchers -> Frames],
         \A e \in Dispatchers : disp'[e].result = disp[e].result
                              /\ (disp'[e] = disp[e] \/ disp'[e].pc = "done")
  PROVE  IInv'
<1>1. TypeOK'
  BY DEF IInv, TypeOK, Frames
<1>2. OneOwner'
  BY DEF IInv, OneOwner, Owning
<1>3. ToldRight'
  BY DEF IInv, ToldRight
<1>4. ProviderInv'
  BY DEF IInv, ProviderInv, AcceptedOnce
<1>5. RowInv'
  BY DEF IInv, RowInv
<1> QED
  BY <1>1, <1>2, <1>3, <1>4, <1>5 DEF IInv

\* Recording the attempt of a completed call, a refused store access and a crash.
LEMMA AbandonStep ==
  ASSUME IInv, \/ \E d \in Dispatchers : recordCloudTransportAttempt(d) \/ storeFails(d)
               \/ crash
  PROVE  IInv'
<1>1. UNCHANGED <<row, bound, usage, accepted>>
  BY DEF recordCloudTransportAttempt, storeFails, crash
<1>2. attempts' \in Seq(Results)
  <2>1. attempts' = attempts \/ attempts' = Append(attempts, "completed")
    BY DEF recordCloudTransportAttempt, storeFails, crash
  <2>2. attempts \in Seq(Results) /\ "completed" \in Results
    BY DEF IInv, TypeOK, Results
  <2> QED
    BY <2>1, <2>2
<1>3. faults' \in Nat
  BY DEF IInv, TypeOK, recordCloudTransportAttempt, storeFails, crash
<1>4. /\ disp' \in [Dispatchers -> Frames]
      /\ \A e \in Dispatchers : disp'[e].result = disp[e].result
                              /\ (disp'[e] = disp[e] \/ disp'[e].pc = "done")
  <2>1. CASE \E d \in Dispatchers : recordCloudTransportAttempt(d) \/ storeFails(d)
    <3>1. PICK d \in Dispatchers : Goto(d, "done")
      BY <2>1 DEF recordCloudTransportAttempt, storeFails
    <3> QED
      BY <3>1, PlaceFacts, GotoFacts DEF IInv, Frames
  <2>2. CASE crash
    <3>1. disp \in [Dispatchers -> Frames]
      BY DEF IInv, TypeOK, Frames
    <3>2. \A e \in Dispatchers : disp'[e] \in Frames /\ disp'[e].result = disp[e].result
                              /\ (disp'[e] = disp[e] \/ disp'[e].pc = "done")
      BY <2>2, <3>1, PlaceFacts DEF crash, Frames
    <3>3. disp' = [e \in Dispatchers |-> disp'[e]]
      BY <2>2 DEF crash
    <3> QED
      BY <3>2, <3>3
  <2> QED
    BY <2>1, <2>2
<1> HIDE DEF IInv
<1> QED
  BY <1>1, <1>2, <1>3, <1>4, AbandonFacts

\* Every step keeps the invariant.
LEMMA StepKeepsIInv == IInv /\ [Next]_vars => IInv'
<1> SUFFICES ASSUME IInv, [Next]_vars PROVE IInv'
  OBVIOUS
<1>1. CASE UNCHANGED vars
  BY <1>1 DEF vars, IInv, TypeOK, OneOwner, ToldRight, ProviderInv, AcceptedOnce, RowInv
<1>2. ASSUME NEW d \in Dispatchers, Step(d) PROVE IInv'
  BY <1>2, PrepareStep, BindStep, OwnStep, GatewayStep, ReceiptStep, UsageStep, CompleteStep,
     SettleStep, AbandonStep DEF Step
<1>3. CASE (\E d \in Dispatchers : storeFails(d)) \/ crash
  BY <1>3, AbandonStep
<1> QED
  BY <1>1, <1>2, <1>3 DEF Next

\* The invariant holds throughout.
LEMMA AlwaysIInv == Spec => []IInv
  BY InitIInv, StepKeepsIInv, PTL DEF Spec
-----------------------------------------------------------------------------
\* A call that has a receipt is completed, or can only be completed: nobody but the one
\* that made the receipt owns it.
ReceiptInv ==
  \A d \in Dispatchers : <<"receipt", d>> \in bound =>
    /\ row.state \in {"dispatching", "completed"}
    /\ \A e \in Dispatchers : disp[e].pc \in Owning => e = d

\* Steps that bind no receipt, bring nobody into the place of an owner and leave the row
\* dispatching or completed.
LEMMA ReceiptFacts ==
  ASSUME ReceiptInv, \A e \in Dispatchers : <<"receipt", e>> \in bound' => <<"receipt", e>> \in bound,
         \A e \in Dispatchers : disp'[e].pc \in Owning => disp[e].pc \in Owning,
         row.state \in {"dispatching", "completed"} => row'.state \in {"dispatching", "completed"}
  PROVE  ReceiptInv'
BY DEF ReceiptInv

\* Every step keeps it.
LEMMA StepKeepsReceipt == IInv /\ ReceiptInv /\ [Next]_vars => ReceiptInv'
<1> SUFFICES ASSUME IInv, ReceiptInv, [Next]_vars PROVE ReceiptInv'
  OBVIOUS
<1>t. TypeOK
  BY DEF IInv
<1>1. CASE UNCHANGED vars
  BY <1>1, ReceiptFacts DEF vars
<1>2. ASSUME NEW d \in Dispatchers, dispatchCloudCall(d) \/ persistPreparedCall(d)
                                    \/ bindCloudCallArtifact(d)
      PROVE  ReceiptInv'
  <2>1. /\ disp'[d].pc \in {"envelopes", "bind", "own"}
        /\ \A e \in Dispatchers : e # d => disp'[e] = disp[e]
    BY <1>2, <1>t DEF TypeOK, dispatchCloudCall, persistPreparedCall, bindCloudCallArtifact, At
  <2>2. row'.state = row.state \/ row.state = "absent"
    BY <1>2, <1>t DEF TypeOK, dispatchCloudCall, persistPreparedCall, bindCloudCallArtifact
  <2>3. \A e \in Dispatchers : <<"receipt", e>> \in bound' => <<"receipt", e>> \in bound
    <3>1. CASE ~bindCloudCallArtifact(d)
      BY <1>2, <3>1 DEF dispatchCloudCall, persistPreparedCall
    <3>2. CASE bindCloudCallArtifact(d)
      <4>1. disp[d].binds + 1 \in 1..5
        <5>1. disp[d].binds \in 0..4
          BY <3>2 DEF IInv, ToldRight, bindCloudCallArtifact, At
        <5> QED
          BY <5>1
      <4>2. \A i \in 1..5 : INPUT_ROLES[i] # "receipt"
        BY DEF INPUT_ROLES
      <4>3. bound' = bound \cup {<<INPUT_ROLES[disp[d].binds + 1], d>>}
        BY <3>2 DEF bindCloudCallArtifact
      <4> QED
        BY <4>1, <4>2, <4>3
    <3> QED
      BY <3>1, <3>2
  <2> QED
    BY <2>1, <2>2, <2>3, ReceiptFacts DEF Owning
<1>3. ASSUME NEW d \in Dispatchers, casTransitionToDispatching(d)
      PROVE  ReceiptInv'
  <2>1. UNCHANGED bound /\ (row.state = "prepared" \/ (UNCHANGED row /\ Goto(d, "done")))
    BY <1>3 DEF casTransitionToDispatching
  <2>2. CASE row.state = "prepared"
    BY <2>1, <2>2 DEF ReceiptInv
  <2>3. CASE UNCHANGED row /\ Goto(d, "done")
    <3>1. disp'[d].pc = "done" /\ \A e \in Dispatchers : e # d => disp'[e] = disp[e]
      BY <2>3, <1>t, PlaceFacts, GotoFacts
    <3> QED
      BY <2>1, <2>3, <3>1, ReceiptFacts DEF Owning
  <2> QED
    BY <2>1, <2>2, <2>3
<1>4. ASSUME NEW d \in Dispatchers, postOnce(d) \/ completeOnce(d) \/ persistReceiptUsage(d)
                                    \/ transportEvidence(d)
      PROVE  ReceiptInv'
  <2>1. disp[d].pc \in Owning /\ UNCHANGED row
    BY <1>4 DEF postOnce, completeOnce, persistReceiptUsage, transportEvidence, At, Owning
  <2>2. \/ \E pc \in PCs, res \in Results : Told(d, pc, res)
        \/ \E pc \in PCs : Goto(d, pc)
    BY <1>4, PlaceFacts DEF postOnce, completeOnce, persistReceiptUsage, transportEvidence
  <2>3. \A e \in Dispatchers : e # d => disp'[e] = disp[e]
    BY <2>2, <1>t, GotoFacts, ToldFacts
  <2>4. \A e \in Dispatchers : <<"receipt", e>> \in bound' => <<"receipt", e>> \in bound
    BY <1>4 DEF postOnce, completeOnce, persistReceiptUsage, transportEvidence
  <2> QED
    BY <2>1, <2>3, <2>4, ReceiptFacts
<1>5. ASSUME NEW d \in Dispatchers, fsyncReceiptThenComplete(d)
      PROVE  ReceiptInv'
  <2>1. disp[d].pc = "receipt" /\ UNCHANGED row /\ Goto(d, "usage") /\ bound' \subseteq bound \cup {<<"receipt", d>>}
    BY <1>5 DEF fsyncReceiptThenComplete, At
  <2>2. row.state = "dispatching" /\ \A e \in Dispatchers : disp[e].pc \in Owning => e = d
    BY <2>1 DEF IInv, OneOwner, Owning
  <2>3. \A e \in Dispatchers : e # d => disp'[e] = disp[e]
    BY <2>1, <1>t, PlaceFacts, GotoFacts
  <2>4. \A e \in Dispatchers : disp'[e].pc \in Owning => e = d
    BY <2>2, <2>3
  <2>5. \A e \in Dispatchers : <<"receipt", e>> \in bound => e = d
    BY <2>1, <2>2 DEF ReceiptInv, Owning
  <2> QED
    BY <2>1, <2>2, <2>4, <2>5 DEF ReceiptInv
<1>6. ASSUME NEW d \in Dispatchers, completeCloudCall(d)
      PROVE  ReceiptInv'
  <2>1. UNCHANGED bound /\ (Goto(d, "attempt") \/ Goto(d, "done")) /\ (row' = row \/ row'.state = "completed")
    BY <1>6, <1>t DEF TypeOK, completeCloudCall
  <2>2. disp'[d].pc \in {"attempt", "done"} /\ \A e \in Dispatchers : e # d => disp'[e] = disp[e]
    BY <2>1, <1>t, PlaceFacts, GotoFacts
  <2> QED
    BY <2>1, <2>2, ReceiptFacts DEF Owning
<1>7. ASSUME NEW d \in Dispatchers, settleCloudCallTransport(d)
      PROVE  ReceiptInv'
  <2>1. disp[d].pc = "settle" /\ disp[d].result # "completed" /\ UNCHANGED bound
    BY <1>7 DEF settleCloudCallTransport, At
  <2>2. \A e \in Dispatchers : <<"receipt", e>> \notin bound
    BY <2>1 DEF IInv, ToldRight, ReceiptInv, Owning
  <2> QED
    BY <2>1, <2>2 DEF ReceiptInv
<1>8. ASSUME NEW d \in Dispatchers, recordCloudTransportAttempt(d) \/ storeFails(d)
      PROVE  ReceiptInv'
  <2>1. UNCHANGED <<bound, row>> /\ Goto(d, "done")
    BY <1>8 DEF recordCloudTransportAttempt, storeFails
  <2>2. disp'[d].pc = "done" /\ \A e \in Dispatchers : e # d => disp'[e] = disp[e]
    BY <2>1, <1>t, PlaceFacts, GotoFacts
  <2> QED
    BY <2>1, <2>2, ReceiptFacts DEF Owning
<1>9. CASE crash
  <2>1. UNCHANGED <<bound, row>>
    BY <1>9 DEF crash
  <2>2. \A e \in Dispatchers : disp'[e] = disp[e] \/ disp'[e].pc = "done"
    BY <1>9, <1>t DEF crash, TypeOK
  <2> QED
    BY <2>1, <2>2, ReceiptFacts DEF Owning
<1>10. ASSUME NEW d \in Dispatchers, Step(d) PROVE ReceiptInv'
  BY <1>2, <1>3, <1>4, <1>5, <1>6, <1>7, <1>8, <1>10 DEF Step
<1> QED
  BY <1>1, <1>8, <1>9, <1>10 DEF Next
-----------------------------------------------------------------------------
\* The usage entries make one chain: an entry corrects an earlier one, the entry that none
\* corrects is there as soon as there is any, and it is the owner's once the owner wrote it.
Entered == {u.of : u \in usage}
Corrected == {u.corrects : u \in usage}

ChainInv ==
  /\ \A d \in Entered : disp[d].pc \in {"settle", "attempt", "done"}
  /\ Corrected \subseteq Entered \cup {NoOne}
  /\ Entered # {} => uniqueLeaves # {}
  /\ \A d \in Dispatchers : disp[d].pc = "settle" /\ disp[d].result # "unknown" => d \in uniqueLeaves
  /\ UsageCountedOnce

\* An entry extends the chain at its end.
LEMMA EntryExtendsChain ==
  ASSUME IInv, ChainInv, NEW d \in Dispatchers, persistReceiptUsage(d)
  PROVE  ChainInv'
<1>1. /\ disp[d].pc = "usage" /\ row.state = "dispatching" /\ row' = row
      /\ \A e \in Dispatchers : e # d => disp[e].pc \notin Owning
      /\ disp[d].result \in {"completed", "not-dispatched"}
  BY DEF IInv, OneOwner, ToldRight, persistReceiptUsage, At, Owning
<1>2. Goto(d, "settle")
  BY DEF persistReceiptUsage
<1>3. /\ disp'[d].result = disp[d].result /\ disp'[d].pc = "settle"
      /\ \A e \in Dispatchers : e # d => disp'[e] = disp[e]
  BY <1>2, PlaceFacts, GotoFacts DEF IInv
<1>4. uniqueLeaves = Entered \ Corrected /\ Entered \subseteq Dispatchers /\ d \notin Entered
  BY <1>1 DEF IInv, TypeOK, ChainInv, uniqueLeaves, Entered, Corrected
<1>5. PICK prior \in IF uniqueLeaves = {} THEN {NoOne} ELSE uniqueLeaves :
        usage' = usage \cup {[of |-> d, corrects |-> prior]}
  BY DEF persistReceiptUsage
<1>6. Entered' = Entered \cup {d} /\ Corrected' = Corrected \cup {prior}
  <2> DEFINE entry == [of |-> d, corrects |-> prior]
  <2>1. entry.of = d /\ entry.corrects = prior /\ usage' = usage \cup {entry}
    BY <1>5
  <2> HIDE DEF entry
  <2>2. Entered' = Entered \cup {d}
    BY <2>1 DEF Entered
  <2>3. Corrected' = Corrected \cup {prior}
    BY <2>1 DEF Corrected
  <2> QED
    BY <2>2, <2>3
<1>7. uniqueLeaves' = {d}
  <2>1. uniqueLeaves' = (Entered \cup {d}) \ (Corrected \cup {prior})
    BY <1>6 DEF uniqueLeaves, Entered, Corrected
  <2>2. d # NoOne /\ d \notin Corrected /\ d # prior
    BY <1>4, <1>5, DispatchAssumption DEF ChainInv
  <2>3. \A e \in uniqueLeaves : e = prior
    BY <1>5 DEF ChainInv, UsageCountedOnce
  <2> QED
    BY <1>4, <2>1, <2>2, <2>3
<1>8. \A e \in Entered' : disp'[e].pc \in {"settle", "attempt", "done"}
  BY <1>3, <1>4, <1>6 DEF ChainInv
<1>9. Corrected' \subseteq Entered' \cup {NoOne}
  BY <1>4, <1>5, <1>6 DEF ChainInv
<1>10. \A e \in Dispatchers : disp'[e].pc = "settle" => e = d
  BY <1>1, <1>3 DEF Owning
<1>11. UsageCountedOnce'
  BY <1>1, <1>7 DEF UsageCountedOnce
<1> QED
  BY <1>7, <1>8, <1>9, <1>10, <1>11 DEF ChainInv

\* Every other step leaves the entries alone, and brings no dispatcher without an entry
\* to a place that needs one.
LEMMA ChainFacts ==
  ASSUME ChainInv, TypeOK, UNCHANGED usage,
         \A e \in Dispatchers :
           /\ disp[e].pc \in {"settle", "attempt", "done"} => disp'[e].pc \in {"settle", "attempt", "done"}
           /\ disp'[e].pc = "settle" /\ disp'[e].result # "unknown" =>
                disp[e].pc = "settle" /\ disp[e].result # "unknown",
         row'.state = "completed" => \/ row.state = "completed" /\ row'.response = row.response
                                     \/ row'.response \in uniqueLeaves
  PROVE  ChainInv'
<1>1. Entered' = Entered /\ Corrected' = Corrected /\ uniqueLeaves' = uniqueLeaves
  BY DEF Entered, Corrected, uniqueLeaves
<1>2. Entered \subseteq Dispatchers
  BY DEF TypeOK, Entered
<1>3. UsageCountedOnce'
  BY <1>1 DEF ChainInv, UsageCountedOnce
<1> QED
  BY <1>1, <1>2, <1>3 DEF ChainInv

\* Every step keeps the chain.
LEMMA StepKeepsChain == IInv /\ ChainInv /\ [Next]_vars => ChainInv'
<1> SUFFICES ASSUME IInv, ChainInv, [Next]_vars PROVE ChainInv'
  OBVIOUS
<1>t. TypeOK
  BY DEF IInv
<1>1. CASE UNCHANGED vars
  BY <1>1, <1>t, ChainFacts DEF vars
<1>2. ASSUME NEW d \in Dispatchers, dispatchCloudCall(d) \/ persistPreparedCall(d)
                                    \/ bindCloudCallArtifact(d)
      PROVE  ChainInv'
  <2>1. /\ disp[d].pc \in {"new", "envelopes", "bind"}
        /\ disp'[d].pc \in {"envelopes", "bind", "own"}
        /\ \A e \in Dispatchers : e # d => disp'[e] = disp[e]
    BY <1>2, <1>t DEF TypeOK, dispatchCloudCall, persistPreparedCall, bindCloudCallArtifact, At
  <2>2. UNCHANGED usage /\ (row'.state = "completed" => UNCHANGED row)
    BY <1>2, <1>t DEF TypeOK, dispatchCloudCall, persistPreparedCall, bindCloudCallArtifact
  <2> QED
    BY <1>t, <2>1, <2>2, ChainFacts
<1>3. ASSUME NEW d \in Dispatchers, casTransitionToDispatching(d)
      PROVE  ChainInv'
  <2>1. disp[d].pc = "own" /\ (Goto(d, "post") \/ Goto(d, "done"))
    BY <1>3 DEF casTransitionToDispatching, At
  <2>2. UNCHANGED usage /\ (row'.state = "completed" => UNCHANGED row)
    BY <1>3, <1>t DEF TypeOK, casTransitionToDispatching
  <2>3. /\ disp'[d].pc \in {"post", "done"}
        /\ \A e \in Dispatchers : e # d => disp'[e] = disp[e]
    BY <2>1, <1>t, PlaceFacts, GotoFacts
  <2> QED
    BY <1>t, <2>1, <2>2, <2>3, ChainFacts
<1>4. ASSUME NEW d \in Dispatchers, postOnce(d) \/ completeOnce(d) \/ fsyncReceiptThenComplete(d)
      PROVE  ChainInv'
  <2>1. disp[d].pc \in {"post", "reply", "receipt"} /\ UNCHANGED <<usage, row>>
    BY <1>4 DEF postOnce, completeOnce, fsyncReceiptThenComplete, At
  <2>2. \/ \E pc \in {"receipt", "evidence"}, res \in Results : Told(d, pc, res)
        \/ \E pc \in {"reply", "usage"} : Goto(d, pc)
    BY <1>4, PlaceFacts DEF postOnce, completeOnce, fsyncReceiptThenComplete
  <2>3. /\ disp'[d].pc \in {"receipt", "evidence", "reply", "usage"}
        /\ \A e \in Dispatchers : e # d => disp'[e] = disp[e]
    BY <2>2, <1>t, PlaceFacts, GotoFacts, ToldFacts
  <2> QED
    BY <1>t, <2>1, <2>3, ChainFacts
<1>5. ASSUME NEW d \in Dispatchers, transportEvidence(d)
      PROVE  ChainInv'
  <2>1. disp[d].result = "unknown" /\ disp[d].pc = "evidence"
    BY <1>5 DEF IInv, ToldRight, transportEvidence, At
  <2>2. UNCHANGED <<usage, row>> /\ Goto(d, "settle")
    BY <1>5 DEF transportEvidence
  <2>3. /\ disp'[d].pc = "settle" /\ disp'[d].result = "unknown"
        /\ \A e \in Dispatchers : e # d => disp'[e] = disp[e]
    BY <2>1, <2>2, <1>t, PlaceFacts, GotoFacts
  <2> QED
    BY <1>t, <2>1, <2>2, <2>3, ChainFacts
<1>6. ASSUME NEW d \in Dispatchers, completeCloudCall(d) \/ settleCloudCallTransport(d)
      PROVE  ChainInv'
  <2>1. disp[d].pc = "settle" /\ UNCHANGED usage /\ (Goto(d, "attempt") \/ Goto(d, "done"))
    BY <1>6 DEF completeCloudCall, settleCloudCallTransport, At
  <2>2. row.state = "dispatching"
    BY <2>1 DEF IInv, OneOwner, Owning
  <2>3. row'.state = "completed" => row'.response = d /\ d \in uniqueLeaves
    <3>1. CASE completeCloudCall(d)
      BY <3>1, <1>t, <2>1, <2>2 DEF TypeOK, ChainInv, completeCloudCall
    <3>2. CASE settleCloudCallTransport(d)
      BY <3>2, <1>t, <2>2 DEF TypeOK, settleCloudCallTransport, nextState
    <3> QED
      BY <1>6, <3>1, <3>2
  <2>4. /\ disp'[d].pc \in {"attempt", "done"}
        /\ \A e \in Dispatchers : e # d => disp'[e] = disp[e]
    BY <2>1, <1>t, PlaceFacts, GotoFacts
  <2> QED
    BY <1>t, <2>1, <2>2, <2>3, <2>4, ChainFacts
<1>7. ASSUME NEW d \in Dispatchers, recordCloudTransportAttempt(d) \/ storeFails(d)
      PROVE  ChainInv'
  <2>1. UNCHANGED <<usage, row>> /\ Goto(d, "done")
    BY <1>7 DEF recordCloudTransportAttempt, storeFails
  <2>2. disp'[d].pc = "done" /\ \A e \in Dispatchers : e # d => disp'[e] = disp[e]
    BY <2>1, <1>t, PlaceFacts, GotoFacts
  <2> QED
    BY <1>t, <2>1, <2>2, ChainFacts
<1>8. CASE crash
  <2>1. UNCHANGED <<usage, row>>
    BY <1>8 DEF crash
  <2>2. \A e \in Dispatchers : disp'[e] = disp[e] \/ disp'[e].pc = "done"
    BY <1>8, <1>t DEF crash, TypeOK
  <2> QED
    BY <1>t, <2>1, <2>2, ChainFacts
<1>9. ASSUME NEW d \in Dispatchers, Step(d) PROVE ChainInv'
  BY <1>2, <1>3, <1>4, <1>5, <1>6, <1>7, <1>9, EntryExtendsChain DEF Step
<1> QED
  BY <1>1, <1>7, <1>8, <1>9 DEF Next
-----------------------------------------------------------------------------
\* The row, the bindings, the attempts, the usage entries and the dispatchers keep their
\* types, in particular no dispatcher binds a sixth input (persistPreparedCall).
THEOREM TypeCorrect == Spec => []TypeOK
<1>1. IInv => TypeOK
  BY DEF IInv
<1> QED
  BY <1>1, AlwaysIInv, PTL

\* At most once: however many dispatchers race for a call, are retried or die, the
\* provider accepts no more than one request of it (casTransitionToDispatching).
THEOREM AtMostOnce == Spec => []AcceptedOnce
<1>1. IInv => AcceptedOnce
  BY DEF IInv, ProviderInv
<1> QED
  BY <1>1, AlwaysIInv, PTL

\* The state of the row is never wrong about the provider: a call that may be posted
\* (again) was not accepted, a completed one was, and its receipt is bound; one whose
\* outcome is unknown has evidence and no receipt (completeCloudCall,
\* settleCloudCallTransport).
THEOREM RowTells == Spec => []RowTellsProvider
<1>1. Init => ReceiptInv
  BY DEF Init, ReceiptInv
<1>2. IInv /\ ReceiptInv => RowTellsProvider
  BY DEF IInv, RowInv, ReceiptInv, RowTellsProvider
<1> QED
  BY <1>1, <1>2, AlwaysIInv, StepKeepsReceipt, PTL DEF Spec

\* However often a call is tried, one usage entry counts, and for a completed call that is
\* the entry of its response (persistReceiptUsage, completeCloudCall).
THEOREM CountedOnce == Spec => []UsageCountedOnce
<1>1. Init => ChainInv
  BY DEF Init, ChainInv, UsageCountedOnce, Entered, Corrected, uniqueLeaves
<1>2. ChainInv => UsageCountedOnce
  BY DEF ChainInv
<1> QED
  BY <1>1, <1>2, AlwaysIInv, StepKeepsChain, PTL DEF Spec
=============================================================================
