------------------------------ MODULE Subagents ------------------------------
(***************************************************************************)
(* Sub-agents (backend/open_webui/utils/subagents.py) of one chat, and the *)
(* end of the chat's turns (process_chat's finally in main.py).            *)
(*                                                                         *)
(* A turn of the chat may delegate a task: in the foreground, waiting for  *)
(* one of max_concurrent slots and then for the answer; or in the          *)
(* background, if fewer than max_async are at work.  A background          *)
(* sub-agent posts its result into the chat as a message that waits there  *)
(* until no turn is active; then it is handed to the model as a new turn,  *)
(* by the sub-agent itself or by the turn that ends last.                  *)
(*                                                                         *)
(* One server process, whose registry is the one TaskRegistry models: a    *)
(* turn is listed from create_task until process_chat's finally.           *)
(***************************************************************************)
EXTENDS Integers, FiniteSets

CONSTANTS
    Users,           \* the turns the user starts
    Answers,         \* the turns that answer results, at least one per result
    Background,      \* the delegations made with background = True
    Foreground,      \* the others
    max_async, max_concurrent,
    Delegators,      \* the turns that may delegate, a bound
    MaxFaults        \* how often somebody presses Stop or something fails

ASSUME SubagentsAssumption ==
    /\ IsFiniteSet(Background) /\ IsFiniteSet(Foreground)
    /\ Background \cap Foreground = {} /\ Users \cap Answers = {}
    /\ (Users \cup Answers) \cap (Background \cup Foreground) = {}
    /\ max_async \in Nat \ {0} /\ max_concurrent \in Nat \ {0}
    /\ Delegators \subseteq Users \cup Answers
    /\ MaxFaults \in Nat

Delegations == Background \cup Foreground

Turns == Users \cup Answers

\* Who may run process_pending_internal_messages.
Handlers == Turns \cup Background

VARIABLES
    turn,               \* how far each turn of the chat is
    at,                 \* how far each delegate call, then its sub-agent, is
    by,                 \* the turn that waits for each delegate call
    background_active,  \* _background_active
    semaphore,          \* the value of _foreground_semaphore
    twice,              \* the delegations whose slot was given back too early
    result,             \* what became of each background result
    lock,               \* the holder of the chat's _parent_locks entry, if any
    proc,               \* who runs process_pending_internal_messages, how far
    batch,              \* the results each of them is handing over
    handed,             \* how often each result was handed to the model
    faults,
    stranded            \* who was to post or hand over results was stopped, or
                        \* failed, or found the chat or its user gone

slots == <<background_active, semaphore, twice>>
hand  == <<lock, proc, batch, handed>>
vars  == <<turn, at, by, slots, result, hand, faults, stranded>>

NoTurn == "none"
Active == \E z \in Turns : turn[z] \in {"created", "running"}

AtWork == {"insert", "created", "run"}

TypeOK ==
    /\ turn \in [Turns -> {"none", "created", "running", "trailing", "processing", "over"}]
    /\ at \in [Delegations -> AtWork \cup {"none", "wait", "refused", "lost", "report", "check",
                                          "processing", "done"}]
    /\ by \in [Delegations -> Turns \cup {NoTurn}]
    /\ background_active \subseteq Background
    /\ semaphore \in Int
    /\ twice \subseteq Delegations
    /\ result \in [Background -> {"none", "posted", "taken", "failed"}]
    /\ lock \subseteq Handlers
    /\ proc \in [Handlers -> {"no", "loop", "want", "commit", "handler"}]
    /\ batch \in [Handlers -> SUBSET Background]
    /\ handed \in [Background -> Nat]
    /\ faults \in 0..MaxFaults
    /\ stranded \in BOOLEAN

Init ==
    /\ turn = [z \in Turns |-> "none"]
    /\ at = [d \in Delegations |-> "none"]
    /\ by = [d \in Delegations |-> NoTurn]
    /\ background_active = {} /\ semaphore = max_concurrent /\ twice = {}
    /\ result = [d \in Background |-> "none"]
    /\ lock = {}
    /\ proc = [p \in Handlers |-> "no"]
    /\ batch = [p \in Handlers |-> {}]
    /\ handed = [d \in Background |-> 0]
    /\ faults = 0 /\ stranded = FALSE

\* Something goes wrong, or somebody presses Stop.
Fault ==
    /\ faults < MaxFaults
    /\ faults' = faults + 1

(***************************************************************************)
(* The slots, and delegate.                                                *)
(***************************************************************************)

\* The slot of d is given back, by delegate or by run_reserved's finally.
Release(d) ==
    /\ background_active' = background_active \ {d}
    /\ semaphore' = IF d \in Foreground THEN semaphore + 1 ELSE semaphore

\* In the background a full house refuses.
ReserveBackground(d) ==
    /\ at' = [at EXCEPT ![d] = IF Cardinality(background_active) >= max_async
                               THEN "refused" ELSE "insert"]
    /\ background_active' = IF Cardinality(background_active) >= max_async
                             THEN background_active ELSE background_active \cup {d}
    /\ UNCHANGED semaphore

\* In the foreground the call waits for the semaphore; whether a newcomer may
\* go ahead of those that wait is left open.
Acquire(d) ==
    /\ at' = [at EXCEPT ![d] = IF semaphore > 0 THEN "insert" ELSE "wait"]
    /\ semaphore' = IF semaphore > 0 THEN semaphore - 1 ELSE semaphore
    /\ UNCHANGED background_active

\* Every delegation has an id of its own, uuid4: which one makes no difference, so
\* those of a kind are used in some fixed order.
NewId(d) ==
    LET kind == IF d \in Background THEN Background ELSE Foreground
    IN  at[d] = "none" /\ d = CHOOSE e \in kind : at[e] = "none"

\* delegate, up to the insertion of the sub-agent's chat.
delegate(d, z) ==
    /\ NewId(d) /\ turn[z] = "running" /\ z \in Delegators
    /\ by' = [by EXCEPT ![d] = z]
    /\ IF d \in Background THEN ReserveBackground(d) ELSE Acquire(d)
    /\ UNCHANGED <<turn, twice, result, hand, faults, stranded>>

Wake(d) ==
    /\ at[d] = "wait" /\ semaphore > 0
    /\ Acquire(d)
    /\ UNCHANGED <<turn, by, twice, result, hand, faults, stranded>>

\* The chat is there and the sub-agent's task is created.
Created(d) ==
    /\ at[d] = "insert"
    /\ at' = [at EXCEPT ![d] = "created"]
    /\ by' = [by EXCEPT ![d] = IF d \in Background THEN NoTurn ELSE @]
    /\ UNCHANGED <<turn, slots, result, hand, faults, stranded>>

\* Mutant: the slot is not given back.
InsertFailsHeld(d) ==
    /\ at[d] = "insert" /\ Fault
    /\ at' = [at EXCEPT ![d] = "done"]
    /\ UNCHANGED <<turn, by, slots, result, hand, stranded>>

\* The chat cannot be inserted: except Exception gives the slot back.
InsertFails(d) ==
    /\ at[d] = "insert" /\ Fault
    /\ at' = [at EXCEPT ![d] = "done"]
    /\ Release(d)
    /\ UNCHANGED <<turn, by, twice, result, hand, stranded>>

\* create_task raises after it started the sub-agent (its save to Redis
\* failed): delegate gives the slot back and returns an error, so that nobody
\* waits for the sub-agent, which goes on and gives the slot back too.
RegisterFails(d) ==
    /\ at[d] = "insert" /\ Fault
    /\ at' = [at EXCEPT ![d] = "created"]
    /\ by' = [by EXCEPT ![d] = NoTurn]
    /\ Release(d)
    /\ twice' = twice \cup {d}
    /\ UNCHANGED <<turn, result, hand, stranded>>

Run(d) ==
    /\ at[d] = "created"
    /\ at' = [at EXCEPT ![d] = "run"]
    /\ UNCHANGED <<turn, by, slots, result, hand, faults, stranded>>

\* run_reserved returns or raises: its finally gives the slot back, and
\* run_background goes on to report whatever came of it.
Finish(d) ==
    /\ at[d] = "run"
    /\ at' = [at EXCEPT ![d] = IF d \in Background THEN "report" ELSE "done"]
    /\ Release(d)
    /\ UNCHANGED <<turn, by, twice, result, hand, faults, stranded>>

(***************************************************************************)
(* run_background: the result is posted under the chat's lock, and handed  *)
(* over if the chat is idle.                                               *)
(***************************************************************************)
Post(d) ==
    /\ at[d] = "report" /\ lock = {}
    /\ at' = [at EXCEPT ![d] = "check"]
    /\ result' = [result EXCEPT ![d] = "posted"]
    /\ UNCHANGED <<turn, by, slots, hand, faults, stranded>>

\* The parent chat is gone, or the database or Redis raises before the commit.
PostFails(d) ==
    /\ at[d] = "report" /\ lock = {} /\ Fault
    /\ at' = [at EXCEPT ![d] = "done"]
    /\ stranded' = TRUE
    /\ UNCHANGED <<turn, by, slots, result, hand>>

HandOver(d) ==
    /\ at[d] = "check"
    /\ at' = [at EXCEPT ![d] = IF Active THEN "done" ELSE "processing"]
    /\ proc' = [proc EXCEPT ![d] = IF Active THEN "no" ELSE "loop"]
    /\ UNCHANGED <<turn, by, slots, result, lock, batch, handed, faults, stranded>>

\* The message's row, the emit or has_active_tasks raises: the result is posted,
\* and this sub-agent does not look further.
HandOverFails(d) ==
    /\ at[d] = "check" /\ Fault
    /\ at' = [at EXCEPT ![d] = "done"]
    /\ stranded' = TRUE
    /\ UNCHANGED <<turn, by, slots, result, hand>>

(***************************************************************************)
(* The turns of the chat.                                                  *)
(***************************************************************************)
StartTurn(u) ==
    /\ turn[u] = "none"
    /\ turn' = [turn EXCEPT ![u] = "created"]
    /\ UNCHANGED <<at, by, slots, result, hand, faults, stranded>>

BeginTurn(z) ==
    /\ turn[z] = "created"
    /\ turn' = [turn EXCEPT ![z] = "running"]
    /\ UNCHANGED <<at, by, slots, result, hand, faults, stranded>>

\* What a turn waits for, and what its cancellation reaches: its delegate calls.
Called(z) ==
    {d \in Delegations : by[d] = z /\ (at[d] \in {"wait", "insert"}
                                       \/ (d \in Foreground /\ at[d] \in AtWork))}

\* The body of process_chat is over; its finally deregisters the turn.
EndTurn(z) ==
    /\ turn[z] = "running" /\ Called(z) = {}
    /\ turn' = [turn EXCEPT ![z] = "trailing"]
    /\ UNCHANGED <<at, by, slots, result, hand, faults, stranded>>

\* Mutant: the end of a turn does not look for results.
TrailNothing(z) ==
    /\ turn[z] = "trailing"
    /\ turn' = [turn EXCEPT ![z] = "over"]
    /\ UNCHANGED <<at, by, slots, result, hand, faults, stranded>>

\* Then, if no other turn is active, the waiting results are handed over.
Trail(z) ==
    /\ turn[z] = "trailing"
    /\ turn' = [turn EXCEPT ![z] = IF Active THEN "over" ELSE "processing"]
    /\ proc' = [proc EXCEPT ![z] = IF Active THEN "no" ELSE "loop"]
    /\ UNCHANGED <<at, by, slots, result, lock, batch, handed, faults, stranded>>

\* has_active_tasks raises in the finally, which logs it.
TrailFails(z) ==
    /\ turn[z] = "trailing" /\ Fault
    /\ turn' = [turn EXCEPT ![z] = "over"]
    /\ stranded' = TRUE
    /\ UNCHANGED <<at, by, slots, result, hand>>

(***************************************************************************)
(* process_pending_internal_messages.                                      *)
(***************************************************************************)

\* The handler p returns to the turn's finally or to run_background: both end.
Returned(p) ==
    /\ proc' = [proc EXCEPT ![p] = "no"]
    /\ at' = [d \in Delegations |-> IF d = p THEN "done" ELSE at[d]]

\* while has_active_tasks: sleep; then the lock, which somebody else may hold.
Poll(p) ==
    /\ proc[p] = "loop" /\ ~Active /\ lock # {}
    /\ proc' = [proc EXCEPT ![p] = "want"]
    /\ UNCHANGED <<turn, at, by, slots, result, lock, batch, handed, faults, stranded>>

Waiting == {d \in Background : result[d] = "posted"}

\* Mutant: the results are read without the lock.
LockUnguarded(p) ==
    /\ proc[p] = "want" \/ (proc[p] = "loop" /\ ~Active)
    /\ IF Active \/ Waiting = {}
       THEN /\ Returned(p)
            /\ turn' = [z \in Turns |-> IF z = p THEN "over" ELSE turn[z]]
            /\ UNCHANGED <<lock, batch>>
       ELSE /\ \E group \in SUBSET Waiting \ {{}} : batch' = [batch EXCEPT ![p] = group]
            /\ proc' = [proc EXCEPT ![p] = "commit"]
            /\ UNCHANGED <<turn, at, lock>>
    /\ UNCHANGED <<by, slots, result, handed, faults, stranded>>

\* Under the lock: nothing to do if a turn became active or nothing waits,
\* else the results of a group: the first one's parent message and model.
Lock(p) ==
    /\ proc[p] = "want" \/ (proc[p] = "loop" /\ ~Active)
    /\ lock = {}
    /\ IF Active \/ Waiting = {}
       THEN /\ Returned(p)
            /\ turn' = [z \in Turns |-> IF z = p THEN "over" ELSE turn[z]]
            /\ UNCHANGED <<lock, batch>>
       ELSE /\ \E group \in SUBSET Waiting \ {{}} : batch' = [batch EXCEPT ![p] = group]
            /\ proc' = [proc EXCEPT ![p] = "commit"]
            /\ lock' = {p}
            /\ UNCHANGED <<turn, at>>
    /\ UNCHANGED <<by, slots, result, handed, faults, stranded>>

\* The commit makes one message of the batch, with an answer to be written.
Commit(p) ==
    /\ proc[p] = "commit"
    /\ result' = [d \in Background |-> IF d \in batch[p] THEN "taken" ELSE result[d]]
    /\ handed' = [d \in Background |-> IF d \in batch[p] THEN handed[d] + 1 ELSE handed[d]]
    /\ proc' = [proc EXCEPT ![p] = "handler"]
    /\ UNCHANGED <<turn, at, by, slots, lock, batch, faults, stranded>>

\* CHAT_COMPLETION_HANDLER, still under the lock, creates the answering turn.
Launch(p) ==
    /\ proc[p] = "handler"
    /\ \E y \in Answers : turn[y] = "none"
    /\ LET z == CHOOSE y \in Answers : turn[y] = "none" IN
         turn' = [y \in Turns |-> IF y = z THEN "created" ELSE IF y = p THEN "over" ELSE turn[y]]
    /\ Returned(p)
    /\ lock' = {} /\ batch' = [batch EXCEPT ![p] = {}]
    /\ UNCHANGED <<by, slots, result, handed, faults, stranded>>

\* It raises: the batch has its answer's message already, and no turn.
LaunchFails(p) ==
    /\ proc[p] = "handler" /\ Fault
    /\ result' = [d \in Background |-> IF d \in batch[p] THEN "failed" ELSE result[d]]
    /\ turn' = [y \in Turns |-> IF y = p THEN "over" ELSE turn[y]]
    /\ Returned(p)
    /\ lock' = {} /\ batch' = [batch EXCEPT ![p] = {}]
    /\ UNCHANGED <<by, slots, handed>>
    /\ stranded' = TRUE

\* The user or the chat is gone, or the database or Redis raises, before the
\* commit: what was read stays posted, and the lock is given up.
HandleFails(p) ==
    /\ proc[p] \in {"loop", "commit"} \/ (proc[p] = "want" /\ lock = {})
    /\ Fault
    /\ Returned(p)
    /\ turn' = [y \in Turns |-> IF y = p THEN "over" ELSE turn[y]]
    /\ lock' = lock \ {p} /\ batch' = [batch EXCEPT ![p] = {}]
    /\ stranded' = TRUE
    /\ UNCHANGED <<by, slots, result, handed>>

(***************************************************************************)
(* Stop.                                                                   *)
(***************************************************************************)

\* What a cancelled delegate call comes to.  except Exception does not catch
\* the cancellation of the insertion, and a sub-agent's task cancelled before
\* its first step has no finally: either way the slot stays taken.
Cancelled(d) ==
    CASE at[d] = "wait"                 -> "done"
      [] at[d] \in {"insert", "created"} -> "lost"
      [] at[d] = "run"                  -> "done"

\* A turn is stopped: one that has begun runs its finally, one that has not
\* begun has none; a foreground sub-agent is cancelled with its caller.  A call
\* stopped while create_task saves it leaves its sub-agent adrift: started,
\* with its slot, and nobody waiting for it.
StopTurn(z) ==
    LET ran == {d \in Called(z) : at[d] = "run"} IN
      /\ turn[z] \in {"created", "running"} /\ Fault
      /\ turn' = [turn EXCEPT ![z] = IF @ = "running" THEN "trailing" ELSE "over"]
      /\ \E adrift \in SUBSET {d \in Called(z) : at[d] = "insert"} :
           /\ at' = [d \in Delegations |-> IF d \in adrift THEN "created"
                                          ELSE IF d \in Called(z) THEN Cancelled(d) ELSE at[d]]
           /\ by' = [d \in Delegations |-> IF d \in adrift THEN NoTurn ELSE by[d]]
      /\ semaphore' = semaphore + Cardinality(ran)
      /\ stranded' = (stranded \/ turn[z] = "created")
      /\ UNCHANGED <<background_active, twice, result, hand>>

\* The sub-agent's own chat is stopped: at work it still reports that it was
\* interrupted; later than that, nobody goes on for it.
StopAgent(d) ==
    /\ at[d] \in {"created", "run", "report", "check", "processing"} /\ Fault
    /\ IF at[d] = "run"
       THEN /\ at' = [at EXCEPT ![d] = IF d \in Background THEN "report" ELSE "done"]
            /\ Release(d)
            /\ UNCHANGED <<result, lock, proc, batch, stranded>>
       ELSE /\ at' = [at EXCEPT ![d] = IF @ = "created" THEN "lost" ELSE "done"]
            /\ stranded' = (stranded \/ at[d] # "created")
            /\ lock' = lock \ {d}
            /\ result' = [e \in Background |->
                 IF d \in Background /\ proc[d] = "handler" /\ e \in batch[d]
                 THEN "failed" ELSE result[e]]
            /\ proc' = [p \in Handlers |-> IF p = d THEN "no" ELSE proc[p]]
            /\ batch' = [p \in Handlers |-> IF p = d THEN {} ELSE batch[p]]
            /\ UNCHANGED <<background_active, semaphore>>
    /\ UNCHANGED <<turn, by, twice, handed>>

Agent(d) == Wake(d) \/ Created(d) \/ Run(d) \/ Finish(d)
Report(d) == Post(d) \/ HandOver(d)
Handle(p) == Poll(p) \/ Lock(p) \/ Commit(p) \/ Launch(p)
Turn(z) == BeginTurn(z) \/ EndTurn(z) \/ Trail(z)

Next ==
    \/ \E u \in Users : StartTurn(u)
    \/ \E z \in Turns : Turn(z) \/ TrailFails(z) \/ StopTurn(z)
                      \/ \E d \in Delegations : delegate(d, z)
    \/ \E d \in Delegations : Agent(d) \/ InsertFails(d) \/ RegisterFails(d) \/ StopAgent(d)
    \/ \E d \in Background : Report(d) \/ PostFails(d) \/ HandOverFails(d)
    \/ \E p \in Handlers : Handle(p) \/ HandleFails(p) \/ LaunchFails(p)

Spec == Init /\ [][Next]_vars

\* A coroutine that may go on goes on, a sub-agent's work and a turn end.
\* Nothing makes the user speak or press Stop, or a turn delegate.  All steps
\* are finitely many, so that one fair disjunction is as good as many.
Fairness ==
    WF_vars(\/ \E z \in Turns : Turn(z)
            \/ \E d \in Delegations : Agent(d)
            \/ \E d \in Background : Report(d)
            \/ \E p \in Handlers : Handle(p))

FairSpec == Spec /\ Fairness

(***************************************************************************)
(* Properties.                                                             *)
(***************************************************************************)

\* Every slot is accounted for (subagents.py:364, 536, 674): it is held by a
\* sub-agent at work or by one that was stopped before its work began, whose
\* slot nobody gives back; only a failed registration gives one back twice; and
\* no more than max_async are at work in the background but for those.
SlotsAreAccounted ==
    LET held(S) == {d \in S : at[d] \in AtWork \cup {"lost"} /\ d \notin twice}
        over    == {d \in Foreground \cap twice : at[d] \notin AtWork \cup {"lost"}}
    IN  /\ background_active = held(Background)
        /\ Cardinality(held(Background)) <= max_async
        /\ semaphore = max_concurrent - Cardinality(held(Foreground)) + Cardinality(over)

\* A result is handed to the model at most once, though the sub-agent and the
\* ends of several turns all look for it (subagents.py:82, main.py:1770).
HandedOnce == \A d \in Background : handed[d] <= 1

\* A slot of the semaphore is lost: a turn that waits for it waits for ever.
SlotLost == \E d \in Foreground : at[d] = "lost"

\* A background sub-agent that began its work, interrupted or not, has its
\* result handed to the model (subagents.py:545, 659, main.py:1770): no
\* interleaving of its check with the ends of turns leaves it lying.  What does
\* is a Stop of a turn before its first step, or of who posts or hands over; a
\* database, Redis or handler call of theirs that raises, or a chat or a user
\* that is gone (87, 96, 609); and a Stop of a foreground sub-agent before its
\* work began, whose slot some turn then waits for.  Of the Redis calls, the
\* one that deregisters a turn is taken to be answered.
ResultIsHandedOver ==
    \A d \in Background :
        (at[d] = "run") ~> (result[d] \in {"taken", "failed"} \/ stranded \/ SlotLost)
=============================================================================
