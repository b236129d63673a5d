------------------------------- MODULE Timers -------------------------------
(***************************************************************************)
(* One-shot timers of a chat (backend/open_webui/utils/timers.py): a row   *)
(* per timer, claimed by the scheduler of some instance when it is due,    *)
(* cancelled by what the user does in the chat, put back while the chat is *)
(* busy, and in the end posted into the chat as a turn of its own.         *)
(*                                                                         *)
(* Every read and every commit of the database is a step.  A commit writes *)
(* the whole meta of the copy it read: what another transaction wrote in   *)
(* between is lost, unless PostgreSQL's row locks kept it out.             *)
(***************************************************************************)
EXTENDS Naturals

CONSTANTS
    Ids,           \* the timers, all of one parent chat
    Events,        \* what the user does in that chat: each event happens once
    KindOf,        \* KindOf[k]: "chat.read" or "chat.user_message"
    CancelOn,      \* CancelOn[x]: the kinds of event that cancel the timer x
    Deployments,   \* records [postgres : BOOLEAN, instances : set of processes]
    MaxClaims,     \* how many claims may be alive at once
    MaxCrashes     \* how often a process may die

ASSUME TimersAssumption ==
    /\ \A k \in Events : KindOf[k] \in {"chat.read", "chat.user_message"}
    /\ MaxClaims \in Nat
    /\ MaxCrashes \in Nat

\* Without row locks one instance polls: two would both claim what both read.
ASSUME SupportedAssumption ==
    \A h \in Deployments :
        /\ h.postgres \in BOOLEAN
        /\ h.postgres \/ \A i, j \in h.instances : i = j

VARIABLES
    host,      \* the deployment: which database, which instances
    row,       \* the timers' rows: status, whether timer_at is set, the claim id
    due,       \* the timers whose time has come
    poll,      \* poll[i]: the rows claim_due_timers of instance i read, uncommitted
    exec,      \* exec[c]: the execute_due_timer started for the claim c
    event,     \* event[k]: how far the handler of the user's event k is
    turns,     \* the turns of the parent chat that has_active_tasks sees
    posted,    \* how often each timer was posted into the chat
    crashes

vars == <<host, row, due, poll, exec, event, turns, posted, crashes>>

Claims  == 1..MaxClaims
Idle    == [pc |-> "none"]
Settled == {"completed", "cancelled", "error"}
Running(c) == exec[c].pc # "none"

TypeOK ==
    /\ host \in Deployments
    /\ row \in [Ids -> [status : {"none", "pending", "running"} \cup Settled,
                        at : BOOLEAN, claim : 0..MaxClaims]]
    /\ due \subseteq Ids
    /\ poll \in [host.instances -> SUBSET Ids]
    /\ exec \in [Claims -> {Idle} \cup
          [pc : {"start", "check", "requeue", "post", "launch"}, timer : Ids, at : host.instances]]
    /\ event \in [Events -> [pc : {"idle", "cancel", "turn", "done"}, read : SUBSET Ids]]
    /\ turns \subseteq Ids \cup Events
    /\ posted \in [Ids -> Nat]
    /\ crashes \in 0..MaxCrashes

Init ==
    /\ host \in Deployments
    /\ row = [x \in Ids |-> [status |-> "none", at |-> FALSE, claim |-> 0]]
    /\ due = {}
    /\ poll = [i \in host.instances |-> {}]
    /\ exec = [c \in Claims |-> Idle]
    /\ event = [k \in Events |-> [pc |-> "idle", read |-> {}]]
    /\ turns = {}
    /\ posted = [x \in Ids |-> 0]
    /\ crashes = 0

(***************************************************************************)
(* create_timer, called by the model in a turn of the chat; and the clock. *)
(***************************************************************************)
create_timer(x) ==
    /\ row[x].status = "none" /\ turns # {}
    /\ row' = [row EXCEPT ![x] = [status |-> "pending", at |-> TRUE, claim |-> 0]]
    /\ UNCHANGED <<host, due, poll, exec, event, turns, posted, crashes>>

Elapse(x) ==
    /\ row[x].status # "none" /\ x \notin due
    /\ due' = due \cup {x}
    /\ UNCHANGED <<host, row, poll, exec, event, turns, posted, crashes>>

(***************************************************************************)
(* claim_due_timers: select, then commit.                                  *)
(***************************************************************************)
Claimable(x) == x \in due /\ row[x].at /\ row[x].status = "pending"

\* FOR UPDATE SKIP LOCKED, where the database has it.
Locked(x) == host.postgres /\ \E j \in host.instances : x \in poll[j]

\* Mutant: the select without the row locks.
ClaimSelectUnlocked(i) ==
    LET found == {x \in Ids : Claimable(x)} IN
      /\ poll[i] = {} /\ found # {}
      /\ poll' = [poll EXCEPT ![i] = found]
      /\ UNCHANGED <<host, row, due, exec, event, turns, posted, crashes>>

ClaimSelect(i) ==
    LET found == {x \in Ids : Claimable(x) /\ ~Locked(x)} IN
      /\ poll[i] = {} /\ found # {}
      /\ poll' = [poll EXCEPT ![i] = found]
      /\ UNCHANGED <<host, row, due, exec, event, turns, posted, crashes>>

\* Ids no row being run and no execution holds: what a new uuid amounts to.
FreeClaims ==
    {c \in Claims : ~Running(c) /\ \A x \in Ids : row[x].status = "running" => row[x].claim # c}

NewClaims(S) == {f \in [S -> FreeClaims] : \A x, y \in S : x # y => f[x] # f[y]}

\* One new claim per row read, and an execution started for each.
ClaimCommit(i) ==
    /\ poll[i] # {}
    /\ NewClaims(poll[i]) # {}
    /\ LET claim == CHOOSE f \in NewClaims(poll[i]) : TRUE IN
         /\ row' = [x \in Ids |->
              IF x \in poll[i]
              THEN [status |-> "running", at |-> FALSE, claim |-> claim[x]] ELSE row[x]]
         /\ exec' = [c \in Claims |->
              IF \E x \in poll[i] : claim[x] = c
              THEN [pc |-> "start", timer |-> CHOOSE x \in poll[i] : claim[x] = c, at |-> i]
              ELSE exec[c]]
    /\ poll' = [poll EXCEPT ![i] = {}]
    /\ UNCHANGED <<host, due, event, turns, posted, crashes>>

(***************************************************************************)
(* The user's events: cancel_timers_for_chat, then the user's own turn.    *)
(***************************************************************************)
CancelSelect(k) ==
    /\ event[k].pc = "idle"
    /\ event' = [event EXCEPT ![k] =
         [pc |-> "cancel",
          read |-> {x \in Ids : /\ row[x].at /\ row[x].status = "pending"
                                /\ KindOf[k] \in CancelOn[x]}]]
    /\ UNCHANGED <<host, row, due, poll, exec, turns, posted, crashes>>

\* PostgreSQL makes the update wait for a claim that holds the row.
CancelCommit(k) ==
    /\ event[k].pc = "cancel"
    /\ \A x \in event[k].read : ~Locked(x)
    /\ row' = [x \in Ids |-> IF x \in event[k].read
                             THEN [status |-> "cancelled", at |-> FALSE, claim |-> 0] ELSE row[x]]
    /\ event' = [event EXCEPT ![k] =
         [pc |-> IF KindOf[k] = "chat.user_message" THEN "turn" ELSE "done", read |-> {}]]
    /\ UNCHANGED <<host, due, poll, exec, turns, posted, crashes>>

\* The user's message goes to the model: create_task lists the turn.
StartTurn(k) ==
    /\ event[k].pc = "turn"
    /\ turns' = turns \cup {k}
    /\ event' = [event EXCEPT ![k].pc = "done"]
    /\ UNCHANGED <<host, row, due, poll, exec, posted, crashes>>

EndTurn(z) ==
    /\ z \in turns
    /\ turns' = turns \ {z}
    /\ UNCHANGED <<host, row, due, poll, exec, event, posted, crashes>>

(***************************************************************************)
(* execute_due_timer.                                                      *)
(***************************************************************************)
Over(c) == exec' = [exec EXCEPT ![c] = Idle]
Goes(c, pc) == exec' = [exec EXCEPT ![c].pc = pc]
SetState(x, s) == row' = [row EXCEPT ![x].status = s]

\* Mutant: the row is not looked at again before the timer is run.
ReadUnchecked(c) ==
    /\ exec[c].pc = "start"
    /\ Goes(c, "check")
    /\ UNCHANGED <<host, row, due, poll, event, turns, posted, crashes>>

\* Under the timer's lock the row is read again: one that is not running, or
\* that another claim has taken, is left alone.
Read(c) ==
    LET x == exec[c].timer IN
      /\ exec[c].pc = "start"
      /\ \A d \in Claims \ {c} : Running(d) /\ exec[d].timer = x /\ exec[d].at = exec[c].at
                                   => exec[d].pc = "start"
      /\ IF row[x].status = "running" /\ row[x].claim = c THEN Goes(c, "check") ELSE Over(c)
      /\ UNCHANGED <<host, row, due, poll, event, turns, posted, crashes>>

\* The parent chat, the prompt, the user or the model is gone.
Refuse(c) ==
    /\ exec[c].pc = "check"
    /\ SetState(exec[c].timer, "error")
    /\ Over(c)
    /\ UNCHANGED <<host, due, poll, event, turns, posted, crashes>>

\* The parent's lock: one of the process, and the row lock of PostgreSQL.
ParentLocked(i) ==
    \E d \in Claims : exec[d].pc \in {"requeue", "post"} /\ (host.postgres \/ exec[d].at = i)

\* has_active_tasks, under the parent's lock.
Check(c) ==
    /\ exec[c].pc = "check" /\ ~ParentLocked(exec[c].at)
    /\ Goes(c, IF turns # {} THEN "requeue" ELSE "post")
    /\ UNCHANGED <<host, row, due, poll, event, turns, posted, crashes>>

\* Mutant: the time is not put back.
RequeueWithoutTime(c) ==
    /\ exec[c].pc = "requeue"
    /\ row' = [row EXCEPT ![exec[c].timer] = [status |-> "pending", at |-> FALSE, claim |-> 0]]
    /\ Over(c)
    /\ UNCHANGED <<host, due, poll, event, turns, posted, crashes>>

\* The chat is busy: the timer goes back, due at once, whatever its row says by now.
Requeue(c) ==
    /\ exec[c].pc = "requeue"
    /\ row' = [row EXCEPT ![exec[c].timer] = [status |-> "pending", at |-> TRUE, claim |-> 0]]
    /\ Over(c)
    /\ UNCHANGED <<host, due, poll, event, turns, posted, crashes>>

\* One commit puts the two messages into the chat and completes the timer.
Post(c) ==
    /\ exec[c].pc = "post"
    /\ SetState(exec[c].timer, "completed")
    /\ posted' = [posted EXCEPT ![exec[c].timer] = @ + 1]
    /\ Goes(c, "launch")
    /\ UNCHANGED <<host, due, poll, event, turns, crashes>>

\* CHAT_COMPLETION_HANDLER, after the parent's lock was released.
Launch(c) ==
    /\ exec[c].pc = "launch"
    /\ turns' = turns \cup {exec[c].timer}
    /\ Over(c)
    /\ UNCHANGED <<host, row, due, poll, event, posted, crashes>>

LaunchFails(c) ==
    /\ exec[c].pc = "launch"
    /\ SetState(exec[c].timer, "error")
    /\ Over(c)
    /\ UNCHANGED <<host, due, poll, event, turns, posted, crashes>>

\* The database or Redis fails under the execution, which nobody awaits: its
\* exception ends it and the row stays as it is.
Raises(c) ==
    /\ Running(c)
    /\ Over(c)
    /\ UNCHANGED <<host, row, due, poll, event, turns, posted, crashes>>

\* A process dies: what it had read and what it was executing is gone, and so
\* are the user's requests and the turns it was serving.
Crash(i) ==
    /\ i \in host.instances /\ crashes < MaxCrashes
    /\ crashes' = crashes + 1
    /\ poll' = [poll EXCEPT ![i] = {}]
    /\ exec' = [c \in Claims |-> IF Running(c) /\ exec[c].at = i THEN Idle ELSE exec[c]]
    /\ \E served \in SUBSET (turns \cup {k \in Events : event[k].pc \in {"cancel", "turn"}}) :
         /\ turns' = turns \ served
         /\ event' = [k \in Events |->
              IF k \in served \ turns THEN [pc |-> "done", read |-> {}] ELSE event[k]]
    /\ UNCHANGED <<host, row, due, posted>>

Execute(c) == Read(c) \/ Check(c) \/ Requeue(c) \/ Post(c) \/ Launch(c)

Next ==
    \/ \E x \in Ids : create_timer(x) \/ Elapse(x)
    \/ \E i \in host.instances : ClaimSelect(i) \/ ClaimCommit(i) \/ Crash(i)
    \/ \E k \in Events : CancelSelect(k) \/ CancelCommit(k) \/ StartTurn(k)
    \/ \E z \in turns : EndTurn(z)
    \/ \E c \in Claims : Execute(c) \/ Refuse(c) \/ LaunchFails(c) \/ Raises(c)

Spec == Init /\ [][Next]_vars

\* Time passes, every instance's scheduler polls, a coroutine that may go on
\* goes on, and a turn of the chat ends.  Nothing makes the user act.
Fairness ==
    /\ WF_vars(\E x \in Ids : Elapse(x))
    /\ WF_vars(\E i \in host.instances : ClaimSelect(i))
    /\ WF_vars(\E i \in host.instances : ClaimCommit(i))
    /\ WF_vars(\E k \in Events : CancelCommit(k) \/ StartTurn(k))
    /\ WF_vars(\E z \in turns : EndTurn(z))
    /\ \A c \in Claims : WF_vars(Execute(c))

FairSpec == Spec /\ Fairness

(***************************************************************************)
(* Properties.                                                             *)
(***************************************************************************)

\* A timer is "one-shot" (tools/builtin.py:1722): its prompt is posted into the
\* chat at most once, whatever the claims, requeues and crashes
\* (timers.py:170, 229).
FiresOnce == \A x \in Ids : posted[x] <= 1

\* Somebody who read the timer's row before it changed may still write it.
InFlight(x) ==
    \/ \E i \in host.instances : x \in poll[i]
    \/ \E c \in Claims : Running(c) /\ exec[c].timer = x /\ exec[c].pc # "start"

\* A timer that is cancelled while nobody is at work on it stays so: no claim
\* and no execution that begins later revives it, and one that was started
\* before the cancellation leaves it alone (timers.py:178, 241).
CancelledStaysCancelled ==
    [][\A x \in Ids : row[x].status = "cancelled" /\ ~InFlight(x)
                        => (row[x].status = "cancelled" /\ ~InFlight(x))']_vars

\* Nobody is at work on a timer that says it is being run: the process that
\* claimed it died, or an exception of the database or of Redis ended its
\* execution (timers.py:235, 289), and nothing takes it up again (timers.py:188).
Orphaned(x) ==
    row[x].status = "running" /\ \A c \in Claims : ~(Running(c) /\ row[x].claim = c)

\* Every timer is posted, cancelled or reported as an error, however often the
\* chat was busy when it came up (timers.py:289): unless its execution was cut
\* off, by the death of its process or by an exception outside the one try
\* (timers.py:409).
TimerIsSettled ==
    \A x \in Ids : (row[x].status = "pending") ~> (row[x].status \in Settled \/ Orphaned(x))
=============================================================================
