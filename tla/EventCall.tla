------------------------------- MODULE EventCall -------------------------------
(***************************************************************************)
(* The event caller the sign-off waits on (get_event_call in               *)
(* backend/open_webui/socket/main.py).  It asks the session the request    *)
(* came from and, once every session it asked has gone from the pool, the  *)
(* requesting user's other sessions, until a first call completes.         *)
(*                                                                         *)
(* A browser tab is a session until its connection drops; it reconnects    *)
(* under a new id.  The pool lags behind the connections both ways: it     *)
(* keeps a dropped session until the server notices, and loses a live one  *)
(* whose heartbeats were missed.                                           *)
(***************************************************************************)
EXTENDS Naturals, Sequences, FiniteSets, Functions

CONSTANTS
    Sessions,     \* session ids; each is one connection
    session_id,   \* the session id the request carries
    Timeouts      \* whether WEBSOCKET_EVENT_CALLER_TIMEOUT may be set, or not

ASSUME SessionAssumption == session_id \in Sessions /\ IsFiniteSet(Sessions)
ASSUME TimeoutsAssumption == Timeouts \subseteq BOOLEAN

Users == {"requester", "other"}

Words == {"approve", "reject"}

VARIABLES
    live,         \* the sessions whose connection is up
    user,         \* who a session belongs to, "nobody" before it connects
    pool,         \* SESSION_POOL: the sessions it holds, with their user
    pc,           \* of the call: start, waiting, returned, cancelled
    asked,        \* the calls put, in order: session and state
    result,       \* what the caller returned
    spoken,       \* the words answered while the call waited, in order
    timeout       \* a call of sio.call has a timeout

sessions == <<live, user, pool>>
vars == <<sessions, pc, asked, result, spoken, timeout>>

Init ==
    /\ live = {} /\ pool = {}
    /\ user = [s \in Sessions |-> "nobody"]
    /\ pc = "start"
    /\ asked = <<>>
    /\ result = "none"
    /\ spoken = <<>>
    /\ timeout \in Timeouts

(* A call put to a session: who it belonged to then, and what came of it.  *)
Ask(s) == [sid |-> s, of |-> user[s], state |-> "waiting"]

Asked == {asked[i].sid : i \in 1..Len(asked)}

(* The requester's own sessions, as the pool has them.                     *)
Own(s) == s \in pool /\ user[s] = "requester"

-----------------------------------------------------------------------------
(* Sessions *)

connect(s, u) ==
    /\ user[s] = "nobody"
    /\ live' = live \cup {s}
    /\ pool' = pool \cup {s}
    /\ user' = [user EXCEPT ![s] = u]
    /\ UNCHANGED <<pc, asked, result, spoken, timeout>>

(* Somebody signs in on a connection that is up.                           *)
user_join(s, u) ==
    /\ s \in live
    /\ pool' = pool \cup {s}
    /\ user' = [user EXCEPT ![s] = u]
    /\ UNCHANGED <<live, pc, asked, result, spoken, timeout>>

(* The connection is lost: the tab reloads, closes or sleeps.              *)
Drop(s) ==
    /\ s \in live
    /\ live' = live \ {s}
    /\ UNCHANGED <<user, pool, pc, asked, result, spoken, timeout>>

(* The server notices that a connection is gone.                           *)
disconnect(s) ==
    /\ s \in pool \ live
    /\ pool' = pool \ {s}
    /\ UNCHANGED <<live, user, pc, asked, result, spoken, timeout>>

(* A live session that missed its heartbeats is reaped; its next heartbeat *)
(* puts it back.                                                           *)
periodic_session_pool_cleanup(s) ==
    /\ s \in live \cap pool
    /\ pool' = pool \ {s}
    /\ UNCHANGED <<live, user, pc, asked, result, spoken, timeout>>

heartbeat(s) ==
    /\ s \in live \ pool
    /\ pool' = pool \cup {s}
    /\ UNCHANGED <<live, user, pc, asked, result, spoken, timeout>>

-----------------------------------------------------------------------------
(* The call *)

(* The session id is the client's word: only the requester's own session   *)
(* is asked.                                                               *)
CallAnyone ==                             \* mutant: the owner is not checked
    /\ pc = "start"
    /\ IF session_id \in pool
       THEN /\ pc' = "waiting"
            /\ asked' = <<Ask(session_id)>>
            /\ UNCHANGED result
       ELSE pc' = "returned" /\ result' = "error" /\ UNCHANGED asked
    /\ UNCHANGED <<sessions, spoken, timeout>>

Call ==
    /\ pc = "start"
    /\ IF Own(session_id)
       THEN /\ pc' = "waiting"
            /\ asked' = <<Ask(session_id)>>
            /\ UNCHANGED result
       ELSE pc' = "returned" /\ result' = "error" /\ UNCHANGED asked
    /\ UNCHANGED <<sessions, spoken, timeout>>

Completes(i, state) == asked' = [asked EXCEPT ![i].state = state]

(* The person at an asked session answers; the acknowledgement arrives.    *)
Answer(i, word) ==
    /\ pc = "waiting"
    /\ asked[i].state = "waiting" /\ asked[i].sid \in live
    /\ Completes(i, word)
    /\ spoken' = Append(spoken, word)
    /\ UNCHANGED <<sessions, pc, result, timeout>>

(* A call of sio.call runs out of time; the one put first runs out first.  *)
Expire(i) ==
    /\ timeout /\ pc = "waiting"
    /\ asked[i].state = "waiting"
    /\ \A j \in 1..(i - 1) : asked[j].state # "waiting"
    /\ Completes(i, "timeout")
    /\ UNCHANGED <<sessions, pc, result, spoken, timeout>>

Done == {i \in 1..Len(asked) : asked[i].state # "waiting"}

WakeRejecting ==                          \* mutant: silence is a "no"
    /\ pc = "waiting"
    /\ \E i \in Done : result' = IF asked[i].state = "timeout" THEN "reject"
                                 ELSE asked[i].state
    /\ pc' = "returned"
    /\ UNCHANGED <<sessions, asked, spoken, timeout>>

WakeLater ==                              \* mutant: a timeout is waited out
    /\ pc = "waiting"
    /\ \E i \in Done : asked[i].state # "timeout" /\ result' = asked[i].state
    /\ pc' = "returned"
    /\ UNCHANGED <<sessions, asked, spoken, timeout>>

(* asyncio.wait returns a set: of several that completed, any one counts.  *)
Wake ==
    /\ pc = "waiting"
    /\ \E i \in Done : result' = IF asked[i].state = "timeout" THEN "error"
                                 ELSE asked[i].state
    /\ pc' = "returned"
    /\ UNCHANGED <<sessions, asked, spoken, timeout>>

ReaskedFirstTime == IF Len(asked) > 1 THEN {}   \* mutant: one reconnection
                    ELSE {s \in Sessions : Own(s) /\ s \notin Asked}

(* The requester's live sessions that have not been asked.                 *)
Reasked == {s \in Sessions : Own(s) /\ s \notin Asked}

(* Two seconds pass without an answer and every session asked is gone from *)
(* the pool.                                                               *)
Reask ==
    /\ pc = "waiting" /\ Done = {}
    /\ Asked \cap pool = {} /\ Reasked # {}
    /\ \E order \in Bijection(1..Cardinality(Reasked), Reasked) :
         asked' = asked \o [i \in 1..Cardinality(Reasked) |-> Ask(order[i])]
    /\ UNCHANGED <<sessions, pc, result, spoken, timeout>>

(* The turn is stopped: every call is cancelled.                           *)
Cancel ==
    /\ pc = "waiting"
    /\ pc' = "cancelled"
    /\ UNCHANGED <<sessions, asked, result, spoken, timeout>>

-----------------------------------------------------------------------------
Next ==
    \/ \E s \in Sessions :
         \/ \E u \in Users : connect(s, u) \/ user_join(s, u)
         \/ Drop(s) \/ disconnect(s)
         \/ periodic_session_pool_cleanup(s) \/ heartbeat(s)
    \/ Call
    \/ \E i \in 1..Len(asked) : Expire(i) \/ \E word \in Words : Answer(i, word)
    \/ Wake \/ Reask \/ Cancel

Spec == Init /\ [][Next]_vars

(* The event loop runs the caller, timers fire, and the server notices a   *)
(* connection that is gone.  Nobody has to answer, or to reconnect.        *)
FairSpec ==
    /\ Spec
    /\ WF_vars(Call) /\ WF_vars(Wake) /\ WF_vars(Reask)
    /\ WF_vars(\E i \in 1..Len(asked) : Expire(i))
    /\ \A s \in Sessions : WF_vars(disconnect(s))

-----------------------------------------------------------------------------
(* Properties *)

TypeOK ==
    /\ live \subseteq Sessions /\ pool \subseteq Sessions
    /\ user \in [Sessions -> Users \cup {"nobody"}]
    /\ pc \in {"start", "waiting", "returned", "cancelled"}
    /\ asked \in Seq([sid : Sessions, of : Users,
                      state : Words \cup {"waiting", "timeout"}])
    /\ result \in Words \cup {"none", "error"}
    /\ spoken \in Seq(Words)
    /\ timeout \in BOOLEAN

(* "Nothing goes beyond the requesting user's own": whatever session id    *)
(* the request carries, and whoever signs in where meanwhile, a sign-off   *)
(* is only ever put to a session that is the requester's when it is put,   *)
(* and to none twice.                                                      *)
AskedAreTheRequesters ==
    /\ \A i \in 1..Len(asked) : asked[i].of = "requester"
    /\ \A i, j \in 1..Len(asked) : asked[i].sid = asked[j].sid => i = j

(* No answer is not a "no": the caller returns a word only if somebody at  *)
(* an asked session gave it, and an error only if no session of the        *)
(* requester could be asked or a call that was put ran out of time.        *)
NoDecisionFromSilence ==
    /\ result \in Words => result \in Range(spoken)
    /\ result = "error" =>
         asked = <<>> \/ \E i \in Done : asked[i].state = "timeout"

(* The wait is finite where a timeout is set, though every tab be closed.  *)
CallEnds == timeout => <>(pc \in {"returned", "cancelled"})

(* A tab that reconnects is asked, however often it does, unless another   *)
(* session that was asked is still in the pool.                            *)
ReconnectedIsAsked ==
    \A s \in Sessions :
        pc = "waiting" /\ Own(s) /\ Asked \cap pool = {} ~>
            s \in Asked \/ pc # "waiting" \/ ~Own(s) \/ Asked \cap pool # {}
================================================================================
