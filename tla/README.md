# A TLA+ verification of 4CE

4CE is a fork of Open WebUI that adds a chain of four agents on local models, a
human sign-off, an audit trail and a watch on outgoing connections. This
directory models the code that is 4CE's own, and the parts of the platform that
run turns of a chat beside each other: the task registry behind the Stop button,
timers and sub-agents. It checks them with TLC on small instances and proves,
with TLAPS and for every instance, every safety property that a passing run
checks; liveness is model-checked (section 4).

`PROJECT.json` lists the components, the runs, the mutants that show each
property can fail, the map from definitions to source lines, the findings, the
hazards and the theorems.

## 1. The system

| Part | Source | State it keeps | Operations |
|---|---|---|---|
| Orchestrator pipe | `4ce/functions/orchestrator.py` | the locals of one turn: drafts, verdict, approval, statuses, files | `pipe`, `_run_chain`, `_record_stop` |
| Chat-list outcome | `backend/open_webui/utils/fource.py` | none; reads the stored message | `fource_outcome` |
| Audit trail | `utils/fource_audit.py` | `audit.jsonl`, head and number in memory, failed writes | `append`, `verify`, `status` |
| Egress watch | `utils/fource_egress.py` | scope, flows, events, seen keys, canary, generation | the sampling thread, `reset`, `set_endpoints`, `run_canary`, `mark`, `since_mark` |
| Sign-off caller | `socket/main.py` | `SESSION_POOL`, the calls under way | `get_event_call`, `connect`, `user_join`, `heartbeat`, `disconnect`, the reaper |
| Workspace tools | `4ce/tools/files.py`, `sheets.py` | the workspace folder and `.versions` | `write_file`, `write_sheet`, reads |
| Sandbox, deliverables | `4ce/tools/sandbox.py`, `deliverables.py` | the file store | `run_python`, `_deliver`, `_store` |
| Calibration tool | `4ce/tools/calibration.py` | none; the report being built | `parse_register_report`, `parse_table_report`, `parse_prose`, `assess` |
| Task registry | `backend/open_webui/tasks.py` | `tasks`, `item_tasks`, kept streams; with Redis a hash, a set per chat, a channel | `create_task`, `cleanup_task`, `stop_task`, `stop_item_tasks`, the listener |
| Timers | `utils/timers.py` | a row per timer: status, time, claim | `create_timer`, `claim_due_timers`, `cancel_timers_for_chat`, `execute_due_timer` |
| Sub-agents | `utils/subagents.py`, `process_chat` in `main.py` | slots, a lock per chat, results waiting in the chat | `delegate`, `run_reserved`, `run_background`, `process_pending_internal_messages` |
| Other rule tools | `sop_check.py`, `calculations.py`, `sovereignty.py` | none | pure reports |
| Offline guard, router, installer | `fource_offline.py`, `routers/fource.py`, `install.py`, `preflight.py` | none of their own | |

How they meet. A turn is one coroutine on the event loop. It calls models and
tools (awaits), writes entries to the audit trail (a synchronous call under a
thread lock, shared by all turns), marks the egress watch when it starts and
reads it for the receipt, asks the reviewer through the event caller, and
returns a text that the platform stores. The Stop button cancels the coroutine
at whatever it awaits, through the task registry. The watch samples on a thread
of its own. The workspace is one folder for all chats. Timers and sub-agents ask
the registry whether a chat has a turn at work (`has_active_tasks`) before they
start one of their own, and the end of a turn looks for results sub-agents left.

What is hard, and what makes each part correct:

* **The chain.** Cancellation at every await, one replan, tools that fail, files
  stored at different times, entries the trail cannot write. Correct: nothing
  goes out before the approval was given and handed to the trail; what was reviewed is what is released; code that never ran does not
  pass; the record is in order; the chat list does not overstate; it ends.
* **The trail.** Concurrent appends, torn writes, restarts, edits. Correct:
  `verify` reports exactly the first damage; what `append` returned is there;
  no number twice; nothing on file is rewritten.
* **The watch.** A sample in unlocked pieces against resets, canaries and new
  processes. Correct: the evidence of a run never understates what was sampled
  and is never a guess; count and list agree; what stays open is seen.
* **The caller.** Tabs that drop and return, timeouts, several answers. Correct:
  only the requester is asked; silence is no decision; the wait ends; a returning
  tab is asked.
* **The workspace.** Read, number, keep and write across awaits, in threads that
  outlive a stop. Correct: no earlier version is lost and the trail tells the file.
* **The calibration tool.** Two loops over lines, two ways to a due date, six
  dispositions in order. Correct: a register is cleared only if every row of it
  was read and keeps every limit; a failed instrument is named; no row is lost.
* **The registry.** Two tables, a list iterated while it shrinks, Redis commands
  that interleave, listeners that drop. Correct: a running turn is listed, a stop
  keeps its word, who is told ends, who has ended is forgotten.
* **Timers.** Read and commit apart, several pollers, cancellation while claimed,
  a busy chat, a process that dies. Correct: posted once, cancelled stays
  cancelled, settled in the end.
* **Sub-agents.** Slots given back on every path, results handed over by whoever
  notices them. Correct: slots add up, a result is handed over once, and it is.

## 2. The modules

| Module | Models | Run by | Proved in |
|---|---|---|---|
| `ApprovalGate` | abstract: what the sign-off promises | `AgentChain` as a property | `AgentChainProofs` |
| `AgentChain` | one turn, and `fource_outcome` on what it stores | `MCAgentChain` | `AgentChainProofs` |
| `AuditTrail` | the trail, with two runs writing to it | `MCAuditTrail` | `AuditTrailProofs` |
| `EgressWatch` | the watch, the processes and one measured run | `MCEgressWatch` | `EgressWatchProofs` |
| `EventCall` | one sign-off call and the session pool | `MCEventCall` | `EventCallProofs` |
| `WorkspaceFiles` | calls of one tool that overwrite one file | `MCWorkspaceFiles` | `ToolsProofs` |
| `CalibrationCheck` | one register through the calibration tool | `MCCalibrationCheck` | `ToolsProofs` |
| `TaskRegistry` | the tasks of one chat, with Redis and without | `MCTaskRegistry` | `TaskRegistryProofs` |
| `Timers` | the timers of one chat and the schedulers that claim them | `MCTimers` | `TimersProofs` |
| `Subagents` | the sub-agents of one chat and the ends of its turns | `MCSubagents` | `SubagentsProofs` |

An operator marked "Mutant" in a module is the body a plausible bug would
give a definition after it; nothing in a specification uses it.

### AgentChain

`pc` names the await the turn is suspended at, so an action is all the code from
one await to the next, and `Cancel` is the Stop button at any of them. `req` and
`valves` are what the helpers that read the request and the settings decide.
Texts are sequences of the sections they are made of (`draft 1`, `preview`,
`reading`, `execution`, `link`): enough to tell the judged, the shown, the
fingerprinted and the returned text apart. `trail` is what the turn told the
audit trail, in order, and `refused` the places of the entries the trail could not
write (`record` returns None and the turn goes on): what is on file is the rest.
`call` is the point inside a tool between storing a file and logging it;
`status` and `message` are what `fource_outcome` reads. A model's reply is one
of the outcomes the code tells apart: a failure, a verdict word, a draft with
code or without. What ULTRON and 4CE's own text checks find is a free choice. So is
`echo`, what a model's own text holds of the marks `fource_outcome` looks for: a
receipt block, readable or not, or the heading of a withheld turn. The first block
of the text counts, and the real receipt stands last.

### AuditTrail

A line of the file is readable or not, ended by a newline or not, and carries an
entry. The hash of an entry is its content after the hash it follows, which
makes SHA-256 free of collisions. `append` is three steps under the lock (build,
write, keep), any of which may fail; a write may leave nothing, a fragment, the
entry without its newline or the whole line. `broken` remembers the first damage
done, which is what `verify` is compared with.

### EgressWatch

The thread's sample is `ReadPorts`, `StoreScope`, `Look`, `Scan`, `Commit`, with
the lock held only within one; every method of the event loop may fall between.
A connection stands for its key. `born` and `caught` are history variables: what
was opened during the measured run and what a sample then committed.

### EventCall

`asked` is the sequence of calls put to sessions, with who they belonged to then
and what came of each. `Done` may hold several at once, and `Wake` takes any of
them, as `done.pop()` does. `spoken` is the answers in the order they were given.
Re-asking needs every asked session gone from the
pool. `timeout` is `WEBSOCKET_EVENT_CALLER_TIMEOUT` being set.

### WorkspaceFiles

A call hands each read and write to a thread (`job`); a stop ends the coroutine
and a thread that has begun goes on. A write truncates (`torn`) and then fills.
Two threads that write one file, or one version, at once may leave either content
or a mixture (`mixed`): each writes from the start, and the longer shows behind the
shorter. A reader meanwhile may see a mixture too. `held` is every content the
file ever held whole, `overlapped` that two calls met, `plain` that the file's name
means itself in the glob that counts versions. `Record` may fail without failing
the tool, and the call ends `unlogged`; `unrecorded` is the calls that began to
write since the last entry.

### CalibrationCheck

The two nested loops of `parse_table_report` are actions over the kinds of lines;
the cells of a row do not steer the reading and are chosen when it is read.
Dates, intervals and their arithmetic are operators on day ordinals, with the
month's last day, 29 February, two-digit years, the day-first rule and the
calendar's years 1 to 9999 as in the code; a due date past the last of them makes
`add_offset` raise, and `Raise` ends the check without a disposition. The
assumption on `Instruments` says what each kind of cell holds. The properties
compare the disposition with limits defined without the tool's own due date
(`Limits`, `MonthsOn`). The specification's names carry the tool's
(`CalibrationSpec`, `stage` for the place in the code), so that `ToolsProofs` can
extend this module and `WorkspaceFiles` together.

### TaskRegistry

A task's coroutine, its `cleanup_task` (from its own `finally` and from the done
callback) and each `stop_item_tasks` are processes; a step runs from one await to
the next, so without Redis a cleanup is one step and with Redis each command is.
`Visit` is Python's iteration of a list by index while others remove from it,
and `Forget` takes out the first occurrence of an id, as `list.remove` does.
`told`, `dropped`, `swept` and `saving = "late"` are history: whom a stop was
sent to, which command no listener saw, which id went with a deleted set, and a
save that landed after the cleanup. The properties name these four, and a process
that dies, as the ways the registry may err as long as Redis answers its commands;
a command that raises (`tasks.py:119`) is not modelled.

### Timers

A read of the database and its commit are two steps; a commit writes the row of
the copy that was read. `Locked` is PostgreSQL's row lock, which SQLite has not.
A claim's uuid is any id that no running row and no execution holds. The parent's
lock is held from `Check` to `Requeue` or `Post` and not during `Launch`. `Raises`
is a database or Redis call of `execute_due_timer` that raises: nobody awaits the
execution, and the row stays "running". The
model takes PostgreSQL with any number of instances, or SQLite with one
(`SupportedAssumption`).

### Subagents

`at` follows a delegate call and then its sub-agent; `proc` whoever runs
`process_pending_internal_messages`; `turn` the chat's turns, up to the end of
`process_chat`'s `finally`. `twice` and `at = "lost"` are the two ways a slot is
miscounted: given back both by `delegate` and by the sub-agent after a failed
registration, and never, after a Stop before the sub-agent's first step. A Stop
while `create_task` saves leaves the sub-agent adrift: it goes on, gives its slot
back, and nobody waits for it. `stranded` says that whoever was to post a result or
hand results over was stopped, found the chat or its user gone, or met a database,
Redis or handler call that raised (`PostFails`, `HandOverFails`, `TrailFails`,
`HandleFails`, `LaunchFails`).

## 3. The runs

| Run | Shows | Bounds, and why they are enough |
|---|---|---|
| `chain` | `NothingReleasedUnapproved`, `ReleasedTextIsReviewedText`, `UnrunCodeNeverPasses`, `ReplanIsEarnedOnce`, `RecordInOrder`, `OutcomeNeverOverstates`, the refinement of `ApprovalGate`, `TurnEnds` | eleven requests that take every branch of the control flow, seven settings, one saved artifact, a draft that echoes an approved receipt or none (`Echoed`), a trail that writes everything or not the approval (`Fallible`, the entry the properties tell apart); about 594 000 states. The safety properties and the refinement are proved for all requests, settings and numbers of artifacts, whatever is echoed and whichever entries fail |
| `trail` | `VerifyNamesTheFirstBreak`, `ReturnedIsOnFile`, `NumbersAreUnique`, `SpanCoversTheRun`, `AppendOnly` | two runs of two entries: one entry before a failure, one being written, one after, and another run between; one edit of each kind. All five are proved without bounds |
| `egress` | `EvidenceNeverUnderstates`, `CountIsItsList`, `EvidenceIsMeasured`, `StayingOutIsSeen`, `EndpointsReachScope` | three connections (two of one destination), two processes, three disturbances, a list of two: each hazard needs at most a mark, one disturbance of the world and one of the window. The three safety properties are proved without bounds |
| `sign_off_call` | `AskedAreTheRequesters`, `NoDecisionFromSilence`, `CallEnds`, `ReconnectedIsAsked` | three sessions of two users: the one asked, one that returns, one more; with a timeout and without; about 604 000 states. The two safety properties are proved for any sessions |
| `workspace` | `OrderlyVersionsAreKept`, `KeptIsWhatWasReplaced`, `TrailTellsTheFile`, `NothingIsInvented` | three calls, two contents, one crash: a version to keep, one to keep after it, and a third write over both, with entries that fail; calls and contents are symmetric; about 2 108 000 states. All four are proved without bounds |
| `calibration` | `AllClearIsEarned`, `DoubtIsNamed`, `RowsAreAnswered` | every text of up to five lines and every two tables with up to two lines between; every combination of seven last, six due and seven interval cells around the month ends, the leap day, the grace, the day of reading and the end of the calendar, and of the tolerance cells around equality, units and signs; about 316 000 states. All three are proved without bounds |
| `registry` | `RunningIsListed`, `StopKeepsItsWord`, `ToldIsEnded`, `EndedIsForgotten` | two tasks (one that tidies up after itself), two instances, one stop with Redis and two without, one fault: a task created while another is cleaned up, a stop served where the task is not, two stops that meet; about 227 000 states. The two safety properties are proved without bounds |
| `timers` | `FiresOnce`, `CancelledStaysCancelled`, `TimerIsSettled` | two timers cancelled by different events, three events, three claims alive, one crash; PostgreSQL with two instances and SQLite with one; an execution that raises; about 219 000 states. The two safety properties are proved without bounds |
| `subagents` | `SlotsAreAccounted`, `HandedOnce`, `ResultIsHandedOver` | two turns of the user, two answers, two background and two foreground delegations on one slot each, one Stop or failure: the sub-agent and two ends of turns may all find one result; the ids of a kind are used in order; about 632 000 states. The two safety properties are proved without bounds |

Three runs end in a violation. Each states what a document, comment or test of
the repository says and shows a behaviour of the code that differs:

| Run | What is said | What happens |
|---|---|---|
| `withheld_files` | "no file is written" when a turn is withheld | what the program left in `/output` was stored during the code run and stays |
| `versions_race` | "Every earlier version is kept beside the workspace's own files" | two calls find the file absent, and the second writes over the first without a version |
| `stop_skips` | "Stop all tasks associated with a specific item ID" | without Redis the stop iterates the list its cancellations shorten: the first of two tasks is cancelled and takes itself off, the second is stepped over and runs on |

### Fairness

* `chain`: weak fairness of the turn's own work. The sandbox has a time limit of
  its own and the sign-off the timeout `4ce/env.sovereign.example` sets
  (`WEBSOCKET_EVENT_CALLER_TIMEOUT=1800`; unset, it waits for ever). A model call
  has no limit unless `AIOHTTP_CLIENT_TIMEOUT` is set: that the model server on
  the same machine answers or drops the connection is assumed of it. Nobody has
  to press Stop.
* `egress`: weak fairness of the thread, and strong fairness of the refresh: it
  is due whenever five seconds have passed since the last, so it comes again and
  again however the samples in between fall.
* `sign_off_call`: weak fairness of the caller's wake-up and re-ask, of expiry
  where a timeout is set, and of the server noticing a lost connection. Nobody
  has to answer or reconnect.
* `registry`: weak fairness of the disjunction of what the event loop and Redis
  do if nothing breaks: a coroutine that may go on goes on, a command is
  answered, the listener reads and subscribes again (its loop retries for ever).
  Each step can be taken finitely often, so the disjunction is enough. No turn
  has to return, no task to start, nobody to press Stop.
* `timers`: time passes, the schedulers poll (their loop has no exit), the
  coroutines go on, and turns of the chat end, which `chain` shows of 4CE's own.
  No user has to act, and `MaxClaims` is above the number of timers, so that a
  new claim is always to be had.
* `subagents`: weak fairness of the disjunction of the coroutines' steps, among
  them that a sub-agent's work and a turn end. Nothing makes a turn delegate.
  A call that raises is no such step, and each is an exception the property states.
* `trail`, `workspace`, `calibration`: safety only.

Deadlock is not reported: a turn that has ended, a call that has returned and a
bounded environment really stop.

## 4. The proofs

Assumed of the constants, and checked by TLC on every run:

* `AgentChain`: requests and settings are of their type, `MaxArtifacts` is a
  natural number, `Echoed` and `Fallible` are of the kinds there are.
* `AuditTrail`: `MaxRecords` is a natural number, `Edits` are kinds of edits.
* `EgressWatch`: the connections that may occur are a finite set of their type,
  none of them to the canary's own target; the processes are of the four kinds;
  the limits are natural numbers.
* `EventCall`: the set of sessions is finite and holds the request's.
* `WorkspaceFiles`: "absent", "torn" and "mixed" are not contents, `Plain` holds truth
  values, `MaxCrashes` is a natural number.
* `CalibrationCheck`: the date of the readings is a day of the calendar and the
  valves are numbers, of either sign; a register is a sequence of kinds of lines;
  a cell is empty, words, or what its column asks for, and of its numbers only an
  error's has a sign (the patterns that read a date or an interval match digits).
* `TaskRegistry`: every task and stop has an instance it runs on, `Tidy` are
  tasks, `Modes` truth values, `MaxFaults` a natural number. The tasks may be
  infinitely many; that a Redis set is finite is part of the invariant.
* `Timers`: without row locks one instance polls.
* `Subagents`: turns, background and foreground delegations are different
  things, the delegations are finitely many, the limits are positive.

`AgentChainProofs`, for all requests, settings and numbers of artifacts:

* `TypeCorrect`: `Spec => []TypeOK`.
* `GateHolds`: `Spec => []GateInvariant`, the inductive invariant.
* `FailsClosed`: nothing of a release exists unless the reviewer approved and the
  approval was handed to the trail before it. The trail holds it or failed to write
  it, whichever entries it fails to write.
* `ChainImplementsGate`: every step of the chain is a step of `ApprovalGate` or
  leaves it alone.

`NothingReleasedUnapproved` is not inductive. It says nothing of a state in
which `approval` is already "approved" but nothing is out, nor of the stage the
turn is in. `GateInvariant` adds that no stage before the decision has one and
each after it does, that "approved" is backed by an entry handed to the trail and "not required" by
the valve, that whatever is out went out under an open gate, and that files are
written only between decision and release entry. Type correctness needs it too:
the file being written is the head of `todo`, which must not be empty. The proof
sorts every action into one of four kinds (it leaves the gate aside, decides,
writes, moves on to the next file: `StepKinds`), and reasons about the kinds.

Five more invariants, each on top of the gate's, carry the other properties of
the chain:

* `ReviewedIsReleased` (`TextInvariant`): nobody touches the text between
  ULTRON's verdict and the decision, and after it only links are added.
* `CodeIsRunBeforeItPasses` (`RunInvariant`): a PASS is not carried from one try
  into the next, and the draft ULTRON is given was run or is known not to be.
* `ReplanOnce` (`TryInvariant`): which agents each try has called so far, and
  that ULTRON's call stands between the tries. `WhoCalls` and `Spares` say once
  for all actions which of them call whom.
* `RecordKeepsOrder` (`OrderInvariant`): entries have a rank, a stage has a
  `Level`, and no entry outranks the level of the stage the turn is in; so the
  next entry may follow whatever is there.
* `ChatListIsHonest` (`OutcomeInvariant`): what the stored message claims was
  true when it was stored and cannot become false, since the decision is final
  and a release entry stays. "Released" and "withheld" are under the condition
  that the models' own text has no receipt block and no withheld heading
  (`OwnWords`); without it they do not hold (section 5).

`AuditTrailProofs`, for any runs, failures, restarts, edits and any length of the
file: `TrailTypes`, `VerifyTellsTheTruth`, `ReturnedStaysOnFile`,
`NumbersStayUnique`, `SpanCovers` and `TrailIsAppendOnly`. One invariant, `Trail`,
serves all: up to the first break each line follows the one before it (`Chain`);
while nothing was edited, the head in memory, the entry in flight and the last
line belong together (`Flight`, `Unedited`), which is what a restart reads back;
while a run has missed nothing, its entries lie between its first number and the
number in memory (`Session`). None of the properties is inductive without it: each
of them is about lines on file, and the next line is built from memory.

`EgressWatchProofs`, for any connections, disturbances and limits: `WatchTypes`,
`ReceiptNeverUnderstates`, `ReceiptIsMeasured` and `ListAddsUp`. The invariant `Watch` adds to
the types that a mark of the present window is at most its counts, that the
mark's count and the size of what was caught since are together at most the count
now, that a connection of the run which the window has seen was caught, and that
what a sample observed is a finite set in which whatever goes outside is
classified so.

`ListAddsUp` is about `CountIsItsList`: the count of connections that left is the
sum over the list of destinations shown with it. What a fold over a set computes
needs an induction over data. The library's induction rules take the property as
an operator, which the provers cannot instantiate, so `SetInduction` takes it as a
set of sets and argues by the least size of a counterexample (the well-founded
order of the naturals). With it `TotalIsPairs` shows that the sum is the number of
pairs of a destination and a number up to its count, and adding up
becomes the cardinality of a set that gains pairs: the new connections of a sample
(`NoteSum`), or none.

`ToolsProofs` holds the proofs of two tools. Of `WorkspaceFiles`, for any calls,
contents and crashes:

* `FilesTypes` and `InventsNothing` hold however the calls meet. The invariant
  `Invention` follows a content from the payload through the thread's job and the
  file to the versions and the entries, and says at each place where it may come
  from (`Source`); that a mixture needs calls that met (`Alone`: otherwise one call
  is at work, and what its thread has truncated is still torn); and which calls may
  have written without an entry (`Owing`).
* `OrderlyKeepsVersions`, `OrderlyKeptIsReplaced` and `OrderlyTrailTells` hold
  while calls follow one another. The invariant `InOrder` says that then at most
  one call is busy, and ties what it has read, numbered, kept and written to the
  file and the versions at each of its stages, and the last entry to the file
  between calls (`Stands`, `LastWrite`).

Of `CalibrationCheck`, for registers of any length, any cells of their types and
any valves:

* `CalibrationTypes` and `EveryRowIsAnswered`. `RowsAreAnswered` speaks of the end
  of the reading only. The invariant `Reading` says it of what lies behind the
  reader (`Answering`), and what the outer loop relies on when it passes a line
  without a word: every table behind it ended at a line that ends tables
  (`Closed`), and while the inner loop is in a table no other heading lies between
  the two (`Place`). So a row the outer loop meets is either below no register
  heading or the heading of the next table (`RowBelowIsHeading`).
* `ClearedIsEarned` and `DoubtIsAlwaysNamed`. `Disposed` ties the answer to
  `Disposition` of all that was read; the rest is arithmetic.
  `OffsetIsMonthsOn` shows that the code's `add_offset` (a division, a remainder,
  the lesser of two days) is the day the reference definition names, for every
  date and interval; `LimitsAre` that the two due dates are the limits;
  `DueIsALimit` that the tool's own due date is one of them and at most a day past
  the other, which is the day the two properties grant; `StatusSays` and
  `VerdictSays` read the two verdicts off their chains of conditions.

`TaskRegistryProofs`, for any tasks, stops, instances and faults, with Redis and
without: `RegistryTypes`, `RunningStaysListed` and `StopIsTrueToItsWord`. The
invariant `Registry` adds to the properties how far a save and a cleanup of a task
can be together (`Recorded`: an id is in the hash only if its save has landed, and
in the set only if it is in the hash, so a removed id does not come back), and
what a stop still at work has done (`Stopping`: an id it found is to be done, being
done, or told and out of the hash for good; without Redis the first it found is
being awaited or has ended).

`EventCallProofs`, for any finite set of sessions, with timeouts or without:
`TypeCorrect`, `AskedOnlyTheRequester` and `SilenceDecidesNothing`.
The inductive invariant `CallInvariant` adds to the two properties that the word of
an answered call is one somebody spoke, that nothing is asked or spoken before
the call, and that there is no result while it waits.

`TimersProofs`, for any timers, events, kinds of cancellation, claims, instances
and crashes:

* `TypeCorrect`: `Spec => []TypeOK`.
* `PostedOnce`: `Spec => []FiresOnce`. `FiresOnce` counts what has been posted
  and says nothing of who is still going to. `ClaimInvariant` adds it: an
  execution is *entitled* to post a timer once it has seen its own claim in the
  row, or if it would see it now; a timer is *fresh* if nobody posted it and
  nobody is entitled to. A row that waits, or that a poll has in hand, is fresh;
  no two polls have the same row in hand, which is where the row locks, or the
  one instance, are needed; and at most one execution is entitled, to a timer
  not yet posted. Most steps take rights away and give none (`Shrinks`); the
  select, the claim, the requeue and the post have a lemma each.
* `CancellationStands`: a step of the system that finds a timer cancelled and in
  nobody's hands leaves it so; `StepCancelled` has one case per action.

`SubagentsProofs`, for any number of turns, delegations, slots and faults:

* `ResultsAreHandedOnce`: `Spec => []HandedOnce`. A handler reads a batch at one
  step and counts it at the next, so `HandInvariant` adds that whoever has a batch
  holds the chat's lock, that the batch is still posted until the commit and taken
  after it, that a sub-agent which has not posted has no result, and that what is
  not taken was not handed over.
* `SlotsAddUp`: `Spec => []SlotsAreAccounted`. `SlotInvariant` adds that no slot was
  given back twice for a delegation that has not begun, and that no background
  delegation waits for a slot of the foreground. The rest is the cardinality of a
  set that gains or loses one member.

TLC checked every inductive invariant named here on the instance of its run
before it was proved.

Only model-checked is liveness (`TurnEnds`, `StayingOutIsSeen`,
`EndpointsReachScope`, `CallEnds`, `ReconnectedIsAsked`, `ToldIsEnded`,
`EndedIsForgotten`, `TimerIsSettled`, `ResultIsHandedOver`): fairness is beyond
this prover.

## 5. What is not modelled

* The text rules that grade a draft, parse a verdict's lines, or find readings,
  limits and tables in prose: their result is a free choice in `AgentChain`.
* The arithmetic of the calculation tool, the rules of the SOP check, and the
  rendering of documents, cells and images. Of the calibration tool: how a
  heading, a cell or a sentence is recognised, the as-left reading and the
  accuracy-ratio notes, none of which enters the disposition.
* Several server processes, but for the registry and the timers. One worker is
  the default; with more, two heads would number entries of one trail, and
  `SESSION_POOL` would be in Redis; the sub-agents' slots and locks are one
  process's.
* Sub-agents with `-1` (no limit) for slots; the text of the messages timers and
  sub-agents leave in a chat; `parse_timer_at`.
* The automations' claim and the calendar alerts, which share the timers' loop.
* The one turn of the event loop between the check of a session's owner and the
  emit of the first ask (`ask` is an `ensure_future`): `Call` is one step, so an
  owner that changes within that tick is not seen.
* A Redis command that raises in `cleanup_task`: the id stays listed, and the chat
  busy. The registry's and the sub-agents' properties take it to be answered.
* `verify` reading while a line is being written, and the docker process that
  outlives a timeout.
* The function runner, the frontend and the rest of Open WebUI (the middleware
  that drives a model, retrieval, users, storage, sign-in): over a hundred
  thousand lines of request handling that 4CE takes from upstream, and the
  environment of the models. What is modelled is a small share of the
  repository's lines for that reason.
* Administration scripts, evaluations and tests.

Behaviour noticed on the way that no run is about. The first five differ from what
a document or comment says, and TLC showed each on the models here:

* The chat list reads the first receipt block of a message (`fource.py:47`): a
  draft that holds one saying "approved" makes a turn nobody approved read
  "released", which `fource.py:8` says means "you approved it".
* The trail may fail to write the approval and write the release of the same turn;
  `4ce/docs/ARCHITECTURE.md:185` says "Every step from the request to the release
  is also appended to the audit trail".
* Of several answers to one sign-off that complete before the waiting caller is
  resumed, `done.pop()` returns any one; `socket/main.py:1207` says "the first
  answer wins".
* A workspace file with a bracket in its name keeps one earlier version: the glob
  (`files.py:189`, `sheets.py:529`) finds none, so every version is number 1, and a
  third write loses the first content; `files.py:186` says every version is kept.
* A line of text between two rows of a calibration register, such as a page footer,
  ends the table (`calibration.py:668`); the rows after it are neither read nor
  reported, and the answer may be ALL CURRENT. The tests (`test_calibration.py:182`)
  say "Rows are not lost silently."
* A reset in the middle of a run drops what was counted before it from that
  run's receipt (the code says so).
* A connection of the backend to the canary's own address within its window is
  counted as the canary.
* A session that was asked may change its owner through `user_join` afterwards.
* Removing the last line of the trail leaves nothing to notice.
* A receipt's span of entries holds other runs' entries too.
* A stopped overwrite in the workspace may be on disk without an audit entry,
  and the boxed copy of an image is stored without one.
* Two calls whose threads write one workspace file at once may leave a mixture of
  their contents, which the next call keeps as a version.
* A stop after the approval, while the release is writing, stores "Nothing was
  released and nothing was approved." (`orchestrator.py:272`).
* An unattended run still returns the whole deliverable as its answer.
* `failed_writes` of the trail is in memory: after a restart no gap is reported.
* A sample that copied its state before the canary was armed, or after a reset,
  counts the canary as external.
* A reconnecting tab is not asked again while another asked tab is connected.
* Calibration: an as-left error out of tolerance with the as-found one in is
  still ALL CURRENT; a labelled due date in a sentence that cannot be read is not
  mentioned; years of three digits are accepted; an interval that leads past the
  year 9999, in one row, makes the whole check raise; stated and computed due dates
  one day apart resolve to the stated one, also where it is the later.
* Registry: a save that lands after the cleanup leaves the chat busy for ever, as
  does a process that dies; a set read as empty and then deleted takes a task
  just added with it; a listener that is away misses a stop that was reported as
  done; the first failure ends a stop of several.
* Timers: an event that should cancel a timer is without effect while the timer
  is claimed, also if it then goes back and fires later; a process that dies
  after its claim, or a call that raises in the execution, leaves the timer
  "running"; with SQLite a second instance could
  fire it twice and a claim may overwrite a cancellation; the parent's lock is
  released before the turn is created, so two due timers may start two turns.
* Sub-agents: a Stop during the insertion of the child chat, or before the
  child's first step, keeps its slot for ever; one during the save of its task
  leaves a foreground child running that nobody waits for; a result whose parent
  chat cannot be read is dropped without a word; a save that fails in
  `create_task` gives the slot back twice; a handler that fails leaves results
  with an answer nobody writes.

## 6. Plan

Done: the chain and its gate, the trail, the watch, the sign-off call, the
workspace, the calibration tool, the task registry, timers and sub-agents, and
the proofs of the safety properties of all of these.

Next, in this order:

1. The automations' claim beside the timers', and calendar alerts.
2. A value against its SOP limits (`sop_check.py`), remaining life and inspection
   interval (`calculations.py`), against reference definitions.
3. Chain on trail: two turns of `AgentChain`'s record over `AuditTrail`, so that
   `RecordInOrder` is about the file and not about one turn's view of it.
