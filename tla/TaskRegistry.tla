---------------------------- MODULE TaskRegistry ----------------------------
(***************************************************************************)
(* The registry of running tasks (backend/open_webui/tasks.py): what the   *)
(* Stop button, the timers and the sub-agents read to learn whether a chat *)
(* is busy, and how a running turn is stopped.                             *)
(*                                                                         *)
(* Without Redis one process keeps a dictionary of tasks and, per item (a  *)
(* chat), a list of their ids.  With Redis every instance keeps its own    *)
(* dictionary, Redis keeps a hash of task ids and a set per item, and a    *)
(* stop is broadcast on a channel every instance listens to.  All tasks of *)
(* the model belong to one item: items share no state.                     *)
(*                                                                         *)
(* A step runs from one await to the next.  Without Redis cleanup_task has *)
(* no await, so it is one step; with Redis each command is one.            *)
(***************************************************************************)
EXTENDS Naturals, Sequences, FiniteSets, SequencesExt

CONSTANTS
    Tasks,       \* the tasks that may be created, each once
    StopsIn,     \* StopsIn[redis]: the calls of stop_item_tasks in that mode, a bound
    Instances,   \* the server processes (without Redis there is one)
    Home,        \* Home[x]: the process that runs the task, or serves the stop, x
    Modes,       \* a subset of BOOLEAN: with Redis (TRUE), without (FALSE)
    Tidy,        \* the tasks that deregister themselves in a finally (process_chat)
    MaxFaults    \* how often a listener loses its connection or a process dies

Stops == StopsIn[TRUE] \cup StopsIn[FALSE]

ASSUME RegistryAssumption ==
    /\ \A x \in Tasks \cup Stops : Home[x] \in Instances
    /\ Modes \subseteq BOOLEAN
    /\ Tidy \subseteq Tasks
    /\ MaxFaults \in Nat

VARIABLES
    redis,       \* app.state.redis is set
    status,      \* how far each task's coroutine is
    cancelled,   \* task.cancel() was called and not yet delivered
    broke,       \* the tasks that ended with an exception
    tasks,       \* the ids in the dictionary of tasks of their process
    item_tasks,  \* the item's list of task ids (with Redis nobody reads it)
    streams,     \* the tasks whose partial answer is kept for a reload
    saving,      \* redis_save_task: "no", "sent", "done", or "late" (see Save)
    hash,        \* the ids in the Redis hash of tasks
    members,     \* the ids in the item's Redis set
    cleaning,    \* how far each task's cleanup_task is
    stop,        \* how far each stop_item_tasks is
    subscribed,  \* the instances whose listener is connected
    inbox,       \* the commands the listener of the task's process has yet to read
    told,        \* the tasks a stop was sent to: cancelled here, or published
    dropped,     \* the commands that no listener of the task's process saw
    swept,       \* the ids lost to the deletion of a set read as empty
    faults

local   == <<tasks, item_tasks>>
remote  == <<saving, hash, members, swept>>
channel == <<subscribed, inbox, dropped>>
life    == <<status, cancelled, broke>>
vars    == <<redis, life, local, streams, remote, cleaning, stop, channel, told, faults>>

Alive   == {"created", "running", "finishing", "trailing"}
NoStop  == [pc |-> "idle", found |-> <<>>, todo |-> {}, idx |-> 1, live |-> FALSE,
            cur |-> {}, known |-> FALSE]

TypeOK ==
    /\ redis \in Modes
    /\ status \in [Tasks -> Alive \cup {"none", "ended", "dead"}]
    /\ cancelled \in [Tasks -> BOOLEAN]
    /\ broke \subseteq Tasks /\ tasks \subseteq Tasks /\ streams \subseteq Tasks
    /\ item_tasks \in Seq(Tasks)
    /\ saving \in [Tasks -> {"no", "sent", "done", "late"}]
    /\ hash \subseteq Tasks /\ members \subseteq Tasks /\ swept \subseteq Tasks
    /\ cleaning \in [Tasks -> {"no", "remove", "scard", "delete", "done"}]
    /\ \A s \in Stops : stop[s].pc \in {"idle", "next", "publish", "remove", "scard",
                                        "delete", "await", "empty", "all", "failed", "raised"}
    /\ subscribed \subseteq Instances
    /\ inbox \subseteq Tasks
    /\ told \subseteq Tasks /\ dropped \subseteq Tasks
    /\ faults \in 0..MaxFaults

Init ==
    /\ redis \in Modes
    /\ status = [t \in Tasks |-> "none"]
    /\ cancelled = [t \in Tasks |-> FALSE]
    /\ broke = {} /\ tasks = {} /\ streams = {}
    /\ item_tasks = <<>>
    /\ saving = [t \in Tasks |-> "no"]
    /\ hash = {} /\ members = {} /\ swept = {}
    /\ cleaning = [t \in Tasks |-> "no"]
    /\ stop = [s \in Stops |-> NoStop]
    /\ subscribed = Instances
    /\ inbox = {}
    /\ told = {} /\ dropped = {}
    /\ faults = 0

(***************************************************************************)
(* create_task, and the task's own life.                                   *)
(***************************************************************************)

\* create_task up to its await: the task is in both tables, its save is sent.
create_task(t) ==
    /\ status[t] = "none"
    /\ status' = [status EXCEPT ![t] = "created"]
    /\ tasks' = tasks \cup {t}
    /\ item_tasks' = IF redis THEN <<>> ELSE Append(item_tasks, t)
    /\ saving' = [saving EXCEPT ![t] = IF redis THEN "sent" ELSE "no"]
    /\ UNCHANGED <<redis, cancelled, broke, streams, hash, members, swept,
                   cleaning, stop, channel, told, faults>>

\* redis_save_task: one transaction for the hash and the set.  It is sent
\* before the task's first step but nothing orders it before the task's end:
\* "late" is a save that lands after the last cleanup removed the ids.
redis_save_task(t) ==
    /\ saving[t] = "sent"
    /\ hash' = hash \cup {t}
    /\ members' = members \cup {t}
    /\ saving' = [saving EXCEPT ![t] =
         IF status[t] = "dead" \/ (status[t] = "ended" /\ cleaning[t] # "remove")
         THEN "late" ELSE "done"]
    /\ UNCHANGED <<redis, life, local, streams, swept, cleaning, stop, channel, told, faults>>

\* The coroutine begins.
Begin(t) ==
    /\ status[t] = "created" /\ ~cancelled[t]
    /\ status' = [status EXCEPT ![t] = "running"]
    /\ UNCHANGED <<redis, cancelled, broke, local, streams, remote,
                   cleaning, stop, channel, told, faults>>

\* Where a coroutine is after its body: in its finally if it has one that
\* deregisters, else over; being over schedules the done callback's cleanup.
LeaveBody(t) ==
    /\ status' = [status EXCEPT ![t] = IF t \in Tidy THEN "finishing" ELSE "ended"]
    /\ cleaning' = [cleaning EXCEPT ![t] = "remove"]

\* The body returns, or raises (process_chat handles what its body raises).
Return(t, raises) ==
    /\ status[t] = "running" /\ ~cancelled[t]
    /\ raises => t \notin Tidy /\ ~redis   \* only a stop in this process sees it
    /\ LeaveBody(t)
    /\ broke' = IF raises THEN broke \cup {t} ELSE broke
    /\ UNCHANGED <<redis, cancelled, local, streams, remote, stop,
                   channel, told, faults>>

\* CancelledError is thrown into the coroutine: one that has not begun has no
\* finally to run, and one in its finally leaves it where it stands.
Interrupt(t) ==
    /\ cancelled[t] /\ status[t] \in Alive
    /\ cancelled' = [cancelled EXCEPT ![t] = FALSE]
    /\ IF status[t] = "running"
       THEN LeaveBody(t)
       ELSE /\ status' = [status EXCEPT ![t] = "ended"]
            /\ cleaning' = [cleaning EXCEPT ![t] = "remove"]
    /\ UNCHANGED <<redis, broke, local, streams, remote, stop, channel,
                   told, faults>>

\* What the finally does after it deregistered (the sub-agents' results) is over.
End(t) ==
    /\ status[t] = "trailing" /\ ~cancelled[t]
    /\ status' = [status EXCEPT ![t] = "ended"]
    /\ cleaning' = [cleaning EXCEPT ![t] = "remove"]
    /\ UNCHANGED <<redis, cancelled, broke, local, streams, remote, stop,
                   channel, told, faults>>

\* save_response_stream, while a turn's answer is being streamed.
save_response_stream(t) ==
    /\ status[t] = "running" /\ t \in Tidy \ streams
    /\ streams' = streams \cup {t}
    /\ UNCHANGED <<redis, life, local, remote, cleaning, stop, channel, told, faults>>

\* clear_response_stream, when the answer is stored.
clear_response_stream(t) ==
    /\ status[t] = "running" /\ t \in streams
    /\ streams' = streams \ {t}
    /\ UNCHANGED <<redis, life, local, remote, cleaning, stop, channel, told, faults>>

(***************************************************************************)
(* cleanup_task, run by the coroutine's finally and by the done callback.  *)
(***************************************************************************)

\* The list without the task; a list that becomes empty leaves the table, so
\* a stop that iterates it has nothing more to visit.
Forget(t) ==
    LET rest == RemoveFirst(item_tasks, t) IN
      /\ tasks' = tasks \ {t}
      /\ item_tasks' = rest
      /\ stop' = [s \in Stops |->
           IF rest = <<>> THEN [stop[s] EXCEPT !.live = FALSE] ELSE stop[s]]

\* The end of cleanup_task: a coroutine in its finally goes on with it.
Cleaned(t) ==
    /\ cleaning' = [cleaning EXCEPT ![t] = "done"]
    /\ status' = [status EXCEPT ![t] = IF @ = "finishing" THEN "trailing" ELSE @]

\* Mutant: no done callback; only a coroutine that tidies up is forgotten.
MayCleanOwn(t) == status[t] = "finishing" /\ ~cancelled[t]

\* The done callback only schedules cleanup_task, after the wake-up of a stop
\* that awaits the task: the event loop runs what is ready in order.
MayClean(t) ==
    /\ (status[t] = "finishing" /\ ~cancelled[t]) \/ status[t] = "ended"
    /\ \A s \in Stops : stop[s].pc = "await" /\ stop[s].cur = {t} => status[t] # "ended"

\* cleanup_task without Redis.
CleanHere(t) ==
    /\ ~redis /\ cleaning[t] = "remove" /\ MayClean(t)
    /\ Forget(t)
    /\ Cleaned(t)
    /\ streams' = streams \ {t}
    /\ UNCHANGED <<redis, cancelled, broke, remote, channel, told, faults>>

\* Mutant: the item's key is deleted instead of the one id.
CleanRemoveKey(t) ==
    /\ redis /\ cleaning[t] = "remove" /\ MayClean(t)
    /\ hash' = hash \ {t} /\ members' = {} /\ streams' = streams \ {t}
    /\ cleaning' = [cleaning EXCEPT ![t] = "scard"]
    /\ UNCHANGED <<redis, life, local, saving, swept, stop, channel, told, faults>>

\* redis_cleanup_task: the transaction that removes the ids.
CleanRemove(t) ==
    /\ redis /\ cleaning[t] = "remove" /\ MayClean(t)
    /\ hash' = hash \ {t} /\ members' = members \ {t} /\ streams' = streams \ {t}
    /\ cleaning' = [cleaning EXCEPT ![t] = "scard"]
    /\ UNCHANGED <<redis, life, local, saving, swept, stop, channel, told, faults>>

\* scard(...): a set that is not empty stays, and the tables here forget the task.
CleanCount(t) ==
    /\ cleaning[t] = "scard" /\ MayClean(t)
    /\ IF members = {}
       THEN /\ cleaning' = [cleaning EXCEPT ![t] = "delete"]
            /\ UNCHANGED <<status, local, stop>>
       ELSE Forget(t) /\ Cleaned(t)
    /\ UNCHANGED <<redis, cancelled, broke, streams, remote, channel, told, faults>>

\* The key is deleted, with whatever was added since it was read as empty.
DeleteKey ==
    /\ swept' = swept \cup members
    /\ members' = {}
    /\ UNCHANGED <<saving, hash>>

CleanDelete(t) ==
    /\ cleaning[t] = "delete" /\ MayClean(t)
    /\ DeleteKey
    /\ Forget(t)
    /\ Cleaned(t)
    /\ UNCHANGED <<redis, cancelled, broke, streams, channel, told, faults>>

(***************************************************************************)
(* stop_item_tasks and the stop_task calls it makes.                       *)
(***************************************************************************)
Going(s, r) == stop' = [stop EXCEPT ![s] = r]

\* With Redis list_task_ids_by_item_id returns a copy of the item's set.
StopList(s) ==
    /\ redis /\ s \in StopsIn[TRUE] /\ stop[s].pc = "idle"
    /\ Going(s, [stop[s] EXCEPT !.found = SetToSeq(members), !.todo = members,
                                !.pc = IF members = {} THEN "empty" ELSE "next"])
    /\ UNCHANGED <<redis, life, local, streams, remote, cleaning, channel, told, faults>>

\* Redis: the next id, and hget of its item.
StopLookup(s) ==
    /\ redis /\ stop[s].pc = "next"
    /\ IF stop[s].todo = {}
       THEN Going(s, [stop[s] EXCEPT !.pc = "all"])
       ELSE \E t \in stop[s].todo :
              Going(s, [stop[s] EXCEPT !.pc = "publish", !.cur = {t}, !.todo = @ \ {t},
                                       !.known = t \in hash])
    /\ UNCHANGED <<redis, life, local, streams, remote, cleaning, channel, told, faults>>

\* redis_send_command: the listeners that are connected get the command (one
\* whose process does not have the task ignores it).
redis_send_command(s) ==
    /\ stop[s].pc = "publish"
    /\ told' = told \cup stop[s].cur
    /\ inbox' = inbox \cup {t \in stop[s].cur : Home[t] \in subscribed}
    /\ dropped' = dropped \cup {t \in stop[s].cur : Home[t] \notin subscribed}
    /\ Going(s, [stop[s] EXCEPT !.pc = "remove"])
    /\ UNCHANGED <<redis, life, local, streams, remote, cleaning, subscribed, faults>>

\* Mutant: the stop leaves the item's set to the process that has the task.
StopRemoveHashOnly(s) ==
    /\ stop[s].pc = "remove"
    /\ hash' = hash \ stop[s].cur
    /\ streams' = streams \ stop[s].cur
    /\ Going(s, [stop[s] EXCEPT !.pc = "next"])
    /\ UNCHANGED <<redis, life, local, saving, members, swept, cleaning, channel, told, faults>>

\* redis_cleanup_task on behalf of the task; without its item only the hash.
StopRemove(s) ==
    /\ stop[s].pc = "remove"
    /\ hash' = hash \ stop[s].cur
    /\ streams' = streams \ stop[s].cur
    /\ members' = IF stop[s].known THEN members \ stop[s].cur ELSE members
    /\ Going(s, [stop[s] EXCEPT !.pc = IF stop[s].known THEN "scard" ELSE "next"])
    /\ UNCHANGED <<redis, life, local, saving, swept, cleaning, channel, told, faults>>

StopCount(s) ==
    /\ stop[s].pc = "scard"
    /\ Going(s, [stop[s] EXCEPT !.pc = IF members = {} THEN "delete" ELSE "next"])
    /\ UNCHANGED <<redis, life, local, streams, remote, cleaning, channel, told, faults>>

StopDelete(s) ==
    /\ stop[s].pc = "delete"
    /\ DeleteKey
    /\ Going(s, [stop[s] EXCEPT !.pc = "next"])
    /\ UNCHANGED <<redis, life, local, streams, cleaning, channel, told, faults>>

\* The id the iteration of the list visits next; {} at its end.
Visit(r) ==
    IF r.live /\ r.idx <= Len(item_tasks) THEN {item_tasks[r.idx]} ELSE {}

\* Without Redis, up to the next await: stop_task pops the next id, cancels the
\* task and awaits it; an id that is not in the dictionary is a failure, which
\* the stop returns.
GoOn(s, r) ==
    LET cur == Visit(r) IN
      IF cur \subseteq tasks
      THEN /\ Going(s, [r EXCEPT !.cur = cur, !.idx = @ + 1,
                                 !.pc = IF cur = {} THEN "all" ELSE "await"])
           /\ tasks' = tasks \ cur
           /\ told' = told \cup cur
           /\ cancelled' = [t \in Tasks |->
                cancelled[t] \/ (t \in cur /\ status[t] \in Alive)]
      ELSE /\ Going(s, [r EXCEPT !.pc = "failed"])
           /\ UNCHANGED <<tasks, told, cancelled>>

\* Without Redis list_task_ids_by_item_id returns the list itself, not a copy,
\* and the iteration goes on over whatever the list then holds.
StopHere(s) ==
    /\ ~redis /\ s \in StopsIn[FALSE] /\ stop[s].pc = "idle"
    /\ IF item_tasks = <<>>
       THEN Going(s, [stop[s] EXCEPT !.pc = "empty"]) /\ UNCHANGED <<tasks, told, cancelled>>
       ELSE GoOn(s, [stop[s] EXCEPT !.found = item_tasks, !.live = TRUE])
    /\ UNCHANGED <<redis, status, broke, item_tasks, streams, remote,
                   cleaning, channel, faults>>

\* The awaited task is over; what it raised, other than the cancellation, goes
\* through stop_task and stop_item_tasks to the caller.
StopAwait(s) ==
    /\ stop[s].pc = "await"
    /\ \A t \in stop[s].cur : status[t] = "ended"
    /\ IF stop[s].cur \subseteq broke
       THEN Going(s, [stop[s] EXCEPT !.pc = "raised"]) /\ UNCHANGED <<tasks, told, cancelled>>
       ELSE GoOn(s, stop[s])
    /\ UNCHANGED <<redis, status, broke, item_tasks, streams, remote,
                   cleaning, channel, faults>>

(***************************************************************************)
(* redis_task_command_listener, and the faults.                            *)
(***************************************************************************)
\* Mutant: a task that has not begun yet is passed over.
ReceiveBegun(t) ==
    /\ t \in inbox
    /\ inbox' = inbox \ {t}
    /\ cancelled' = [cancelled EXCEPT ![t] = @ \/ (t \in tasks /\ status[t] = "running")]
    /\ UNCHANGED <<redis, status, broke, local, streams, remote, cleaning,
                   stop, subscribed, told, dropped, faults>>

\* The listener cancels the task a command names, if its process has it.
Receive(t) ==
    /\ t \in inbox
    /\ inbox' = inbox \ {t}
    /\ cancelled' = [cancelled EXCEPT ![t] = @ \/ (t \in tasks /\ status[t] \in Alive)]
    /\ UNCHANGED <<redis, status, broke, local, streams, remote, cleaning,
                   stop, subscribed, told, dropped, faults>>

\* The connection of a listener breaks: what it had not read is gone.
Disconnect(i) ==
    /\ redis /\ i \in subscribed /\ faults < MaxFaults
    /\ faults' = faults + 1
    /\ subscribed' = subscribed \ {i}
    /\ dropped' = dropped \cup {t \in inbox : Home[t] = i}
    /\ inbox' = {t \in inbox : Home[t] # i}
    /\ UNCHANGED <<redis, life, local, streams, remote, cleaning, stop, told>>

\* The listener's loop subscribes again; what was published meanwhile is not resent.
Resubscribe(i) ==
    /\ redis /\ i \notin subscribed
    /\ subscribed' = subscribed \cup {i}
    /\ UNCHANGED <<redis, life, local, streams, remote, cleaning, stop, inbox, dropped, told, faults>>

\* A process dies with its tasks and the stops it was serving; Redis keeps
\* what was saved, and a save that was sent may still land.
Crash(i) ==
    /\ redis /\ faults < MaxFaults
    /\ faults' = faults + 1
    /\ LET mine == {t \in Tasks : Home[t] = i /\ status[t] # "none"} IN
         /\ status' = [t \in Tasks |-> IF t \in mine THEN "dead" ELSE status[t]]
         /\ cancelled' = [t \in Tasks |-> t \notin mine /\ cancelled[t]]
         /\ cleaning' = [t \in Tasks |-> IF t \in mine THEN "done" ELSE cleaning[t]]
         /\ tasks' = tasks \ mine
    /\ stop' = [s \in Stops |-> IF Home[s] = i /\ stop[s].pc # "idle"
                                THEN [stop[s] EXCEPT !.pc = "raised"] ELSE stop[s]]
    /\ inbox' = {t \in inbox : Home[t] # i}
    /\ UNCHANGED <<redis, broke, item_tasks, streams, remote, subscribed, dropped, told>>

Next ==
    \/ \E t \in Tasks :
         \/ create_task(t) \/ redis_save_task(t) \/ Begin(t)
         \/ \E raises \in BOOLEAN : Return(t, raises)
         \/ Interrupt(t) \/ End(t) \/ save_response_stream(t) \/ clear_response_stream(t) \/ Receive(t)
         \/ CleanHere(t) \/ CleanRemove(t) \/ CleanCount(t) \/ CleanDelete(t)
    \/ \E s \in Stops :
         \/ StopList(s) \/ StopLookup(s) \/ redis_send_command(s) \/ StopRemove(s) \/ StopCount(s)
         \/ StopDelete(s) \/ StopHere(s) \/ StopAwait(s)
    \/ \E i \in Instances :
         \/ Disconnect(i) \/ Resubscribe(i) \/ Crash(i)

Spec == Init /\ [][Next]_vars

\* What the event loop and Redis do if nothing breaks: a coroutine that may go
\* on goes on, a command sent to Redis is answered, a listener reads and
\* reconnects.  Nothing makes a turn return, a task start or a user press Stop.
Progress(t) ==
    \/ redis_save_task(t) \/ Interrupt(t) \/ End(t) \/ Receive(t)
    \/ CleanHere(t) \/ CleanRemove(t) \/ CleanCount(t) \/ CleanDelete(t)
Serve(s) ==
    \/ StopLookup(s) \/ redis_send_command(s) \/ StopRemove(s) \/ StopCount(s)
    \/ StopDelete(s) \/ StopAwait(s)

\* Each of these steps can be taken only so often, so that one of them being
\* taken as long as there is one is as much as each being treated fairly.
Fairness ==
    WF_vars(\/ \E t \in Tasks : Progress(t)
            \/ \E s \in Stops : Serve(s)
            \/ \E i \in Instances : Resubscribe(i))

FairSpec == Spec /\ Fairness

(***************************************************************************)
(* Properties.                                                             *)
(***************************************************************************)

\* has_active_tasks (tasks.py:285) reads these.
Listed == IF redis THEN members ELSE ToSet(item_tasks)

\* A turn that is running, that nobody asked to stop and whose save has landed
\* is listed, so that timers and sub-agents see the chat as busy and Stop finds
\* it (tasks.py:285).  The one exception is a set deleted after it was read as
\* empty (tasks.py:90).
RunningIsListed ==
    \A t \in Tasks \ (told \cup swept) :
        status[t] \in {"created", "running"} /\ (redis => saving[t] = "done") => t \in Listed

\* What "All tasks for item ... stopped." (tasks.py:282) can be relied on for.
\* With Redis: a command went out for every task found and none of them is
\* registered any more.  Without: the first task found is over.
StopKeepsItsWord ==
    \A s \in Stops : stop[s].pc = "all" =>
        IF redis
        THEN ToSet(stop[s].found) \subseteq told \ (hash \cup members)
        ELSE status[Head(stop[s].found)] = "ended"

\* stop_item_tasks: "Stop all tasks associated with a specific item ID."
\* (tasks.py:271): when it says so, no task it found runs on untold.  Without
\* Redis the end of the first task it cancels shortens the list it iterates,
\* and it steps over the second.
StopReachesAll ==
    \A s \in Stops : stop[s].pc = "all" =>
        \A t \in ToSet(stop[s].found) : status[t] = "running" => t \in told

\* A task that was told to stop ends, unless its listener was away when the
\* command was published or lost it (tasks.py:48), or its process died.
ToldIsEnded ==
    \A t \in Tasks : (t \in told) ~> (status[t] \in {"ended", "dead"} \/ t \in dropped)

\* A task that is over leaves the list, the hash and the kept answers
\* (tasks.py:112), so that the chat is not busy for ever: unless its save
\* landed after its cleanup, or its process died.
EndedIsForgotten ==
    \A t \in Tasks : (status[t] = "ended") ~>
        \/ t \notin Listed \cup hash \cup streams \cup tasks
        \/ saving[t] = "late" \/ status[t] = "dead"
=============================================================================
