---------------------------- MODULE EventCallProofs ----------------------------
(***************************************************************************)
(* For every set of sessions, with a timeout or without: a sign-off is put *)
(* only to the requester's own sessions, to none twice, and the caller     *)
(* returns no decision that nobody made.                                   *)
(***************************************************************************)
EXTENDS EventCall, FiniteSetTheorems, TLAPS

States == Words \cup {"waiting", "timeout"}

Calls == [sid : Sessions, of : Users, state : States]

(* Why the two hold together: an answered call is one somebody spoke for,  *)
(* nothing is asked or spoken before the call, and it has no result while  *)
(* it waits.                                                               *)
CallInvariant ==
    /\ AskedAreTheRequesters
    /\ NoDecisionFromSilence
    /\ \A i \in 1..Len(asked) :
         asked[i].state \in Words => asked[i].state \in Range(spoken)
    /\ pc = "start" => asked = <<>> /\ spoken = <<>>
    /\ pc \in {"start", "waiting"} => result = "none"

-----------------------------------------------------------------------------
(* A call that completes stays the call it was, with its new state.        *)
LEMMA CompletesKeeps ==
    ASSUME asked \in Seq(Calls), NEW i \in 1..Len(asked), NEW state \in States,
           Completes(i, state)
    PROVE  /\ asked' \in Seq(Calls)
           /\ Len(asked') = Len(asked)
           /\ \A j \in 1..Len(asked) :
                /\ asked'[j].sid = asked[j].sid
                /\ asked'[j].of = asked[j].of
                /\ asked'[j].state = IF j = i THEN state ELSE asked[j].state
<1>1. asked' = [asked EXCEPT ![i] = [asked[i] EXCEPT !.state = state]]
  BY DEF Completes
<1>2. asked[i] \in Calls
  OBVIOUS
<1>3. [asked[i] EXCEPT !.state = state] \in Calls
  BY <1>2 DEF Calls
<1>4. asked' \in Seq(Calls) /\ Len(asked') = Len(asked)
  BY <1>1, <1>3
<1>5. ASSUME NEW j \in 1..Len(asked)
      PROVE  /\ asked'[j].sid = asked[j].sid
             /\ asked'[j].of = asked[j].of
             /\ asked'[j].state = IF j = i THEN state ELSE asked[j].state
  <2>1. asked[j] \in Calls
    OBVIOUS
  <2>2. asked'[j] = IF j = i THEN [asked[i] EXCEPT !.state = state]
                    ELSE asked[j]
    BY <1>1
  <2> QED
    BY <2>1, <2>2 DEF Calls
<1> QED
  BY <1>4, <1>5

(* The calls put by a re-ask: to the requester's sessions, none asked yet, *)
(* each once.                                                              *)
LEMMA ReaskAppends ==
    ASSUME TypeOK, Reask
    PROVE  \E n \in Nat : \E order \in [1..n -> Sessions] :
             /\ asked' = asked \o [i \in 1..n |-> Ask(order[i])]
             /\ \A i \in 1..n : user[order[i]] = "requester"
             /\ \A i \in 1..n : order[i] \notin Asked
             /\ \A i, j \in 1..n : order[i] = order[j] => i = j
<1>1. Reasked \subseteq Sessions
  BY DEF Reasked
<1>2. IsFiniteSet(Reasked)
  BY <1>1, SessionAssumption, FS_Subset
<1>3. Cardinality(Reasked) \in Nat
  BY <1>2, FS_CardinalityType
<1>4. PICK order \in Bijection(1..Cardinality(Reasked), Reasked) :
             asked' = asked \o [i \in 1..Cardinality(Reasked) |-> Ask(order[i])]
  BY DEF Reask
<1>5. /\ order \in [1..Cardinality(Reasked) -> Reasked]
      /\ \A i, j \in 1..Cardinality(Reasked) : order[i] = order[j] => i = j
  BY <1>4 DEF Bijection, Injection, IsInjective
<1>6. order \in [1..Cardinality(Reasked) -> Sessions]
  BY <1>1, <1>5
<1>7. \A i \in 1..Cardinality(Reasked) : user[order[i]] = "requester" /\ order[i] \notin Asked
  BY <1>5 DEF Reasked, Own
<1> QED
  BY <1>3, <1>4, <1>5, <1>6, <1>7

(* Reading a sequence that was extended.                                   *)
LEMMA Extended ==
    ASSUME NEW S, NEW s \in Seq(S), NEW n \in Nat, NEW t \in [1..n -> S]
    PROVE  /\ s \o t \in Seq(S)
           /\ Len(s \o t) = Len(s) + n
           /\ \A k \in 1..(Len(s) + n) :
                (s \o t)[k] = IF k <= Len(s) THEN s[k] ELSE t[k - Len(s)]
<1>1. t \in Seq(S) /\ Len(t) = n
  OBVIOUS
<1> QED
  BY <1>1

(* One call is a sequence of calls.                                        *)
LEMMA Single == ASSUME NEW S, NEW e \in S PROVE <<e>> \in Seq(S)
  OBVIOUS

-----------------------------------------------------------------------------
(* Before the call every variable has its type.                            *)
LEMMA InitTypeOK == Init => TypeOK
  BY TimeoutsAssumption DEF Init, TypeOK

(* Only the call itself touches what it has asked and heard.               *)
LEMMA SessionsTypeOK ==
    ASSUME TypeOK, NEW s \in Sessions, NEW u \in Users,
           \/ connect(s, u) \/ user_join(s, u) \/ Drop(s) \/ disconnect(s)
           \/ periodic_session_pool_cleanup(s) \/ heartbeat(s)
    PROVE  TypeOK' /\ UNCHANGED <<pc, asked, result, spoken>>
  BY DEF TypeOK, connect, user_join, Drop, disconnect,
         periodic_session_pool_cleanup, heartbeat

(* Every step keeps every variable's type.                                 *)
LEMMA NextTypeOK == TypeOK /\ [Next]_vars => TypeOK'
<1> SUFFICES ASSUME TypeOK, [Next]_vars PROVE TypeOK'
  OBVIOUS
<1>0. asked \in Seq(Calls)
  BY DEF TypeOK, Calls, States
<1>1. ASSUME NEW s \in Sessions, NEW u \in Users,
             \/ connect(s, u) \/ user_join(s, u) \/ Drop(s) \/ disconnect(s)
             \/ periodic_session_pool_cleanup(s) \/ heartbeat(s)
      PROVE  TypeOK'
  BY <1>1, SessionsTypeOK
<1>2. CASE Call
  <2>1. CASE Own(session_id)
    <3>1. Ask(session_id) \in Calls
      BY <2>1, SessionAssumption DEF Ask, Own, Calls, States, Users
    <3>2. asked' \in Seq(Calls)
      <4>1. asked' = <<Ask(session_id)>>
        BY <1>2, <2>1 DEF Call
      <4> QED
        BY <3>1, <4>1, Single
    <3> QED
      BY <1>2, <2>1, <3>2 DEF Call, TypeOK, sessions, Calls, States
  <2>2. CASE ~Own(session_id)
    BY <1>2, <2>2 DEF Call, TypeOK, sessions
  <2> QED
    BY <2>1, <2>2
<1>3. ASSUME NEW i \in 1..Len(asked), NEW word \in Words, Answer(i, word)
      PROVE  TypeOK'
  <2>1. asked' \in Seq(Calls)
    BY <1>0, <1>3, CompletesKeeps DEF Answer, States
  <2> QED
    BY <1>3, <2>1 DEF Answer, TypeOK, sessions, Calls, States
<1>4. ASSUME NEW i \in 1..Len(asked), Expire(i)
      PROVE  TypeOK'
  <2>1. asked' \in Seq(Calls)
    BY <1>0, <1>4, CompletesKeeps DEF Expire, States
  <2> QED
    BY <1>4, <2>1 DEF Expire, TypeOK, sessions, Calls, States
<1>5. CASE Wake
  <2>1. PICK i \in Done : result' = IF asked[i].state = "timeout" THEN "error"
                                    ELSE asked[i].state
    BY <1>5 DEF Wake
  <2>2. asked[i] \in Calls /\ asked[i].state # "waiting"
    BY <1>0 DEF Done
  <2>3. result' \in Words \cup {"none", "error"}
    BY <2>1, <2>2 DEF Calls, States
  <2> QED
    BY <1>5, <2>3 DEF Wake, TypeOK, sessions
<1>6. CASE Reask
  <2>1. PICK n \in Nat : \E order \in [1..n -> Sessions] :
             /\ asked' = asked \o [i \in 1..n |-> Ask(order[i])]
             /\ \A i \in 1..n : user[order[i]] = "requester"
    BY <1>6, ReaskAppends
  <2>2. PICK order \in [1..n -> Sessions] :
             /\ asked' = asked \o [i \in 1..n |-> Ask(order[i])]
             /\ \A i \in 1..n : user[order[i]] = "requester"
    BY <2>1
  <2>3. [i \in 1..n |-> Ask(order[i])] \in [1..n -> Calls]
    BY <2>2 DEF Ask, Calls, States, Users
  <2>4. asked' \in Seq(Calls)
    BY <1>0, <2>2, <2>3, Extended
  <2> QED
    BY <1>6, <2>4 DEF Reask, TypeOK, sessions, Calls, States
<1>7. CASE Cancel
  BY <1>7 DEF Cancel, TypeOK, sessions
<1>8. CASE UNCHANGED vars
  BY <1>8 DEF vars, TypeOK, sessions
<1> QED
  BY <1>1, <1>2, <1>3, <1>4, <1>5, <1>6, <1>7, <1>8 DEF Next, Users

(* The call keeps its types, for any set of sessions.                      *)
THEOREM TypeCorrect == Spec => []TypeOK
<1> QED
  BY InitTypeOK, NextTypeOK, PTL DEF Spec

-----------------------------------------------------------------------------
(* Before the call nobody is asked and nothing is decided.                 *)
LEMMA InitInvariant == Init => CallInvariant
  BY DEF Init, CallInvariant, AskedAreTheRequesters, NoDecisionFromSilence, Words

(* What a step leaves alone, it cannot break.                              *)
LEMMA FrameInvariant ==
    ASSUME CallInvariant, UNCHANGED <<pc, asked, result, spoken>>
    PROVE  CallInvariant'
  BY DEF CallInvariant, AskedAreTheRequesters, NoDecisionFromSilence, Done

(* A call that completes: the sessions asked stay as they were, the word   *)
(* answered is spoken, and there is still no result.                       *)
LEMMA CompletesInvariant ==
    ASSUME TypeOK, CallInvariant, NEW i \in 1..Len(asked), NEW state \in States,
           Completes(i, state), pc = "waiting", UNCHANGED <<pc, result>>,
           Range(spoken) \subseteq Range(spoken'),
           state \in Words => state \in Range(spoken')
    PROVE  CallInvariant'
<1>0. asked \in Seq(Calls)
  BY DEF TypeOK, Calls, States
<1>1. /\ Len(asked') = Len(asked)
      /\ \A j \in 1..Len(asked) :
           /\ asked'[j].sid = asked[j].sid
           /\ asked'[j].of = asked[j].of
           /\ asked'[j].state = IF j = i THEN state ELSE asked[j].state
  BY <1>0, CompletesKeeps
<1>2. AskedAreTheRequesters'
  BY <1>1 DEF CallInvariant, AskedAreTheRequesters
<1>3. result' = "none"
  BY DEF CallInvariant
<1>4. NoDecisionFromSilence'
  BY <1>3 DEF NoDecisionFromSilence, Words
<1>5. \A j \in 1..Len(asked') :
        asked'[j].state \in Words => asked'[j].state \in Range(spoken')
  BY <1>1 DEF CallInvariant
<1> QED
  BY <1>2, <1>3, <1>4, <1>5 DEF CallInvariant

(* Every step keeps the invariant.                                         *)
LEMMA Inductive == TypeOK /\ CallInvariant /\ [Next]_vars => CallInvariant'
<1> SUFFICES ASSUME TypeOK, CallInvariant, [Next]_vars PROVE CallInvariant'
  OBVIOUS
<1>0. asked \in Seq(Calls)
  BY DEF TypeOK, Calls, States
<1>1. ASSUME NEW s \in Sessions, NEW u \in Users,
             \/ connect(s, u) \/ user_join(s, u) \/ Drop(s) \/ disconnect(s)
             \/ periodic_session_pool_cleanup(s) \/ heartbeat(s)
      PROVE  CallInvariant'
  BY <1>1, SessionsTypeOK, FrameInvariant
<1>2. CASE Call
  <2>1. CASE Own(session_id)
    <3>1. /\ asked' = <<Ask(session_id)>> /\ pc' = "waiting"
          /\ UNCHANGED <<result, spoken>> /\ pc = "start"
      BY <1>2, <2>1 DEF Call
    <3>2. /\ Len(asked') = 1
          /\ asked'[1].of = "requester" /\ asked'[1].state = "waiting"
      BY <2>1, <3>1 DEF Ask, Own
    <3>3. result' = "none"
      BY <3>1 DEF CallInvariant
    <3> QED
      BY <3>1, <3>2, <3>3 DEF CallInvariant, AskedAreTheRequesters,
                              NoDecisionFromSilence, Words
  <2>2. CASE ~Own(session_id)
    <3>1. /\ asked' = <<>> /\ spoken' = <<>> /\ pc' = "returned"
          /\ result' = "error"
      BY <1>2, <2>2 DEF Call, CallInvariant
    <3> QED
      BY <3>1 DEF CallInvariant, AskedAreTheRequesters, NoDecisionFromSilence,
                  Words
  <2> QED
    BY <2>1, <2>2
<1>3. ASSUME NEW i \in 1..Len(asked), NEW word \in Words, Answer(i, word)
      PROVE  CallInvariant'
  <2>1. spoken \in Seq(Words) /\ spoken' = Append(spoken, word)
    BY <1>3 DEF Answer, TypeOK
  <2>2. Range(spoken) \subseteq Range(spoken') /\ word \in Range(spoken')
    BY <2>1 DEF Range
  <2> QED
    BY <1>3, <2>2, CompletesInvariant DEF Answer, States
<1>4. ASSUME NEW i \in 1..Len(asked), Expire(i)
      PROVE  CallInvariant'
  BY <1>4, CompletesInvariant DEF Expire, States, Words
<1>5. CASE Wake
  <2>1. PICK i \in Done : result' = IF asked[i].state = "timeout" THEN "error"
                                    ELSE asked[i].state
    BY <1>5 DEF Wake
  <2>2. /\ asked[i] \in Calls /\ asked[i].state # "waiting"
        /\ i \in 1..Len(asked)
    BY <1>0 DEF Done
  <2>3. UNCHANGED <<asked, spoken>> /\ pc' = "returned" /\ Done' = Done
    BY <1>5 DEF Wake, Done
  <2>4. result' \in Words => result' \in Range(spoken')
    BY <2>1, <2>2, <2>3 DEF CallInvariant, Words
  <2>5. result' = "error" => asked'[i].state = "timeout" /\ i \in Done'
    BY <2>1, <2>2, <2>3 DEF Calls, States, Words
  <2>6. NoDecisionFromSilence'
    BY <2>4, <2>5 DEF NoDecisionFromSilence
  <2> QED
    BY <2>3, <2>6 DEF CallInvariant, AskedAreTheRequesters
<1>6. CASE Reask
  <2>1. PICK n \in Nat : \E order \in [1..n -> Sessions] :
             /\ asked' = asked \o [i \in 1..n |-> Ask(order[i])]
             /\ \A i \in 1..n : user[order[i]] = "requester"
             /\ \A i \in 1..n : order[i] \notin Asked
             /\ \A i, j \in 1..n : order[i] = order[j] => i = j
    BY <1>6, ReaskAppends
  <2>2. PICK order \in [1..n -> Sessions] :
             /\ asked' = asked \o [i \in 1..n |-> Ask(order[i])]
             /\ \A i \in 1..n : user[order[i]] = "requester"
             /\ \A i \in 1..n : order[i] \notin Asked
             /\ \A i, j \in 1..n : order[i] = order[j] => i = j
    BY <2>1
  <2> DEFINE put == [i \in 1..n |-> Ask(order[i])]
  <2>3. put \in [1..n -> Calls]
    BY <2>2 DEF Ask, Calls, States, Users
  <2>4. /\ Len(asked') = Len(asked) + n
        /\ \A k \in 1..(Len(asked) + n) :
             asked'[k] = IF k <= Len(asked) THEN asked[k] ELSE put[k - Len(asked)]
    <3> HIDE DEF put
    <3>1. asked' = asked \o put
      BY <2>2 DEF put
    <3> QED
      BY <1>0, <2>3, <3>1, Extended
  <2> HIDE DEF put
  <2>5. ASSUME NEW k \in 1..Len(asked'), k > Len(asked)
        PROVE  /\ k - Len(asked) \in 1..n
               /\ asked'[k].sid = order[k - Len(asked)]
               /\ asked'[k].of = "requester"
               /\ asked'[k].state = "waiting"
    <3>1. Len(asked) \in Nat
      BY <1>0
    <3>2. k - Len(asked) \in 1..n
      BY <2>4, <2>5, <3>1
    <3>3. asked'[k] = put[k - Len(asked)]
      BY <2>4, <2>5, <3>1
    <3>4. put[k - Len(asked)] = Ask(order[k - Len(asked)])
      BY <3>2 DEF put
    <3> QED
      BY <2>2, <3>2, <3>3, <3>4 DEF Ask
  <2>6. \A k \in 1..Len(asked) : k \in 1..Len(asked') /\ asked'[k] = asked[k]
    <3>1. Len(asked) \in Nat
      BY <1>0
    <3> QED
      BY <2>4, <3>1
  <2>7. \A k \in 1..Len(asked') : k \in 1..Len(asked) \/ k > Len(asked)
    BY <1>0, <2>4
  <2>8. \A k \in 1..Len(asked') : asked'[k].of = "requester"
    BY <2>5, <2>6, <2>7 DEF CallInvariant, AskedAreTheRequesters
  <2>9. ASSUME NEW k \in 1..Len(asked'), NEW l \in 1..Len(asked'),
               asked'[k].sid = asked'[l].sid
        PROVE  k = l
    <3>1. CASE k \in 1..Len(asked) /\ l \in 1..Len(asked)
      BY <2>6, <2>9, <3>1 DEF CallInvariant, AskedAreTheRequesters
    <3>2. CASE k > Len(asked) /\ l > Len(asked)
      <4>1. k - Len(asked) = l - Len(asked)
        BY <2>2, <2>5, <2>9, <3>2
      <4> QED
        BY <1>0, <4>1
    <3>3. CASE k \in 1..Len(asked) /\ l > Len(asked)
      <4>1. asked[k].sid \in Asked
        BY <3>3 DEF Asked
      <4> QED
        BY <2>2, <2>5, <2>6, <2>9, <3>3, <4>1
    <3>4. CASE k > Len(asked) /\ l \in 1..Len(asked)
      <4>1. asked[l].sid \in Asked
        BY <3>4 DEF Asked
      <4> QED
        BY <2>2, <2>5, <2>6, <2>9, <3>4, <4>1
    <3> QED
      BY <2>7, <3>1, <3>2, <3>3, <3>4
  <2>10. \A k \in 1..Len(asked') :
           asked'[k].state \in Words => asked'[k].state \in Range(spoken)
    BY <2>5, <2>6, <2>7 DEF CallInvariant, Words
  <2>11. UNCHANGED <<pc, result, spoken>> /\ pc = "waiting"
    BY <1>6 DEF Reask
  <2>12. result' = "none"
    BY <2>11 DEF CallInvariant
  <2> QED
    BY <2>8, <2>9, <2>10, <2>11, <2>12 DEF CallInvariant,
       AskedAreTheRequesters, NoDecisionFromSilence, Words
<1>7. CASE Cancel
  <2>1. UNCHANGED <<asked, result, spoken>> /\ pc' = "cancelled"
    BY <1>7 DEF Cancel
  <2> QED
    BY <2>1 DEF CallInvariant, AskedAreTheRequesters, NoDecisionFromSilence, Done
<1>8. CASE UNCHANGED vars
  BY <1>8, FrameInvariant DEF vars
<1> QED
  BY <1>1, <1>2, <1>3, <1>4, <1>5, <1>6, <1>7, <1>8 DEF Next, Users

(* The inductive invariant holds in every reachable state.                 *)
LEMMA InvariantHolds == Spec => []CallInvariant
<1>1. Spec => []TypeOK
  BY TypeCorrect
<1> QED
  BY <1>1, InitInvariant, Inductive, PTL DEF Spec

(* Whatever session id the request carries, and whoever connects, drops    *)
(* and signs in meanwhile, a sign-off reaches only the requester's own     *)
(* sessions, and none of them twice.                                       *)
THEOREM AskedOnlyTheRequester == Spec => []AskedAreTheRequesters
<1>1. CallInvariant => AskedAreTheRequesters
  BY DEF CallInvariant
<1> QED
  BY <1>1, InvariantHolds, PTL

(* The caller never returns a word nobody gave, nor an error unless nobody *)
(* could be asked or a call ran out of time.                               *)
THEOREM SilenceDecidesNothing == Spec => []NoDecisionFromSilence
<1>1. CallInvariant => NoDecisionFromSilence
  BY DEF CallInvariant
<1> QED
  BY <1>1, InvariantHolds, PTL
================================================================================
