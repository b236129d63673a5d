--------------------------- MODULE SubagentsProofs ---------------------------
(***************************************************************************)
(* Proofs that a background result is handed to the model at most once,    *)
(* and that the slots add up.                                              *)
(*                                                                         *)
(* HandedOnce is not inductive: a result may be read by a handler and      *)
(* counted at its commit, a step later.  What makes it safe in between is  *)
(* the chat's lock, held from the reading to the end of the handler, and   *)
(* that a sub-agent posts once.  SlotsAreAccounted needs besides that no   *)
(* slot was given back twice for one that has not begun, and that no       *)
(* background delegation waits for a slot of the foreground.               *)
(***************************************************************************)
EXTENDS Subagents, FiniteSetTheorems, TLAPS

\* How far a delegation may be, before and after it has posted its result.
BeforePost == AtWork \cup {"none", "wait", "refused", "report"}
AfterPost  == {"lost", "check", "processing", "done"}

\* The types of the variables the handing over rests on.
HandTyped ==
    /\ at \in [Delegations -> BeforePost \cup AfterPost]
    /\ result \in [Background -> {"none", "posted", "taken", "failed"}]
    /\ proc \in [Handlers -> {"no", "loop", "want", "commit", "handler"}]
    /\ batch \in [Handlers -> SUBSET Background]
    /\ handed \in [Background -> Nat]

\* Whoever has read a batch holds the lock; what it read is posted still until
\* it commits, and taken afterwards; a result that is not posted, or posted and
\* not taken, has not been handed over.
HandInvariant ==
    /\ HandTyped
    /\ \A p \in Handlers : proc[p] \in {"commit", "handler"} => lock = {p}
    /\ \A p \in Handlers : proc[p] = "commit" => \A d \in batch[p] : result[d] = "posted"
    /\ \A p \in Handlers : proc[p] = "handler" => \A d \in batch[p] : result[d] = "taken"
    /\ \A d \in Background : at[d] \in BeforePost => result[d] = "none"
    /\ \A d \in Background : result[d] \in {"none", "posted"} => handed[d] = 0
    /\ HandedOnce

\* The initial state satisfies the invariant.
LEMMA InitHand == Init => HandInvariant
BY DEF Init, HandInvariant, HandTyped, HandedOnce, Handlers, Delegations, BeforePost

\* Who may be a delegation, a turn or a handler.
LEMMA Kinds ==
    /\ Background \subseteq Delegations /\ Background \subseteq Handlers
    /\ \A z \in Turns : z \in Handlers /\ z \notin Delegations
BY SubagentsAssumption DEF Delegations, Handlers, Turns

\* Steps of the sub-agents' work: nothing is posted, and none goes back.
LEMMA HandKept ==
    ASSUME HandInvariant, UNCHANGED <<result, hand>>,
           at' \in [Delegations -> BeforePost \cup AfterPost],
           \A d \in Background : at'[d] \in BeforePost => at[d] \in BeforePost
    PROVE  HandInvariant'
BY DEF HandInvariant, HandTyped, HandedOnce, hand

\* Steps of p that leave it without a batch: it had none, or gives it up.
LEMMA HandDropped ==
    ASSUME HandInvariant, UNCHANGED handed, NEW p,
           at' \in [Delegations -> BeforePost \cup AfterPost],
           \A d \in Background : at'[d] \in BeforePost => at[d] \in BeforePost,
           lock' = lock \/ lock' = lock \ {p},
           \A q \in Handlers : q # p => proc'[q] = proc[q] /\ batch'[q] = batch[q],
           p \in Handlers => proc'[p] \in {"no", "loop", "want"},
           proc' \in [Handlers -> {"no", "loop", "want", "commit", "handler"}],
           batch' \in [Handlers -> SUBSET Background],
           \/ result' = result
           \/ /\ p \in Handlers /\ proc[p] = "handler"
              /\ result' = [d \in Background |-> IF d \in batch[p] THEN "failed" ELSE result[d]]
    PROVE  HandInvariant'
<1>1. ASSUME NEW q \in Handlers, proc'[q] \in {"commit", "handler"}
      PROVE  q # p /\ lock' = {q} /\ lock = {q}
  BY <1>1 DEF HandInvariant
<1>2. CASE result' = result
  BY <1>1, <1>2 DEF HandInvariant, HandTyped, HandedOnce
<1>3. CASE /\ p \in Handlers /\ proc[p] = "handler"
           /\ result' = [d \in Background |-> IF d \in batch[p] THEN "failed" ELSE result[d]]
  <2>1. lock = {p}
    BY <1>3 DEF HandInvariant
  <2>2. \A q \in Handlers : proc'[q] \notin {"commit", "handler"}
    BY <1>1, <2>1
  <2>3. HandTyped'
    BY <1>3 DEF HandInvariant, HandTyped
  <2>4. \A d \in Background : at'[d] \in BeforePost => result'[d] = "none"
    BY <1>3 DEF HandInvariant
  <2> QED BY <1>3, <2>2, <2>3, <2>4 DEF HandInvariant, HandedOnce
<1> QED BY <1>2, <1>3

\* A sub-agent posts its result: nobody has a batch while it holds the lock.
LEMMA PostKeeps ==
    ASSUME HandInvariant, NEW d \in Background, Post(d)
    PROVE  HandInvariant'
<1>1. handed[d] = 0
  BY DEF HandInvariant, Post, BeforePost
<1>2. \A p \in Handlers : proc[p] \notin {"commit", "handler"}
  BY DEF HandInvariant, Post
<1>3. HandTyped'
  BY Kinds DEF HandInvariant, HandTyped, Post, AfterPost, hand
<1>4. \A e \in Background : /\ result'[e] = IF e = d THEN "posted" ELSE result[e]
                            /\ at'[e] = IF e = d THEN "check" ELSE at[e]
  BY Kinds DEF HandInvariant, HandTyped, Post
<1>5. "check" \notin BeforePost
  BY DEF BeforePost, AtWork
<1> QED
  BY <1>1, <1>2, <1>3, <1>4, <1>5 DEF HandInvariant, HandedOnce, Post, hand

\* A handler reads a batch of posted results, and takes the lock.
LEMMA LockKeeps ==
    ASSUME HandInvariant, NEW p \in Handlers, Lock(p)
    PROVE  HandInvariant'
<1>1. handed' = handed /\ result' = result /\ lock = {}
  BY DEF Lock
<1>2. \A q \in Handlers : proc[q] \notin {"commit", "handler"}
  BY <1>1 DEF HandInvariant
<1>3. CASE Active \/ Waiting = {}
  <2>1. /\ lock' = lock /\ batch' = batch /\ proc' = [proc EXCEPT ![p] = "no"]
        /\ at' = [d \in Delegations |-> IF d = p THEN "done" ELSE at[d]]
    BY <1>3 DEF Lock, Returned
  <2>2. "done" \notin BeforePost
    BY DEF BeforePost, AtWork
  <2>3. at' \in [Delegations -> BeforePost \cup AfterPost]
    BY <2>1 DEF HandInvariant, HandTyped, AfterPost
  <2>4. \A d \in Background : at'[d] \in BeforePost => at[d] \in BeforePost
    BY <2>1, <2>2, Kinds
  <2> QED BY <1>1, <2>1, <2>3, <2>4, HandDropped DEF HandInvariant, HandTyped
<1>4. CASE ~(Active \/ Waiting = {})
  <2>1. PICK group \in SUBSET Waiting \ {{}} : batch' = [batch EXCEPT ![p] = group]
    BY <1>4 DEF Lock
  <2>2. proc' = [proc EXCEPT ![p] = "commit"] /\ lock' = {p} /\ at' = at
    BY <1>4 DEF Lock
  <2>3. HandTyped'
    BY <1>1, <2>1, <2>2 DEF HandInvariant, HandTyped, Waiting
  <2>4. \A q \in Handlers : proc'[q] = IF q = p THEN "commit" ELSE proc[q]
    BY <2>2 DEF HandInvariant, HandTyped
  <2>5. batch'[p] = group /\ \A d \in group : result[d] = "posted"
    BY <2>1 DEF HandInvariant, HandTyped, Waiting
  <2> QED BY <1>1, <1>2, <2>2, <2>3, <2>4, <2>5 DEF HandInvariant, HandedOnce
<1> QED BY <1>3, <1>4

\* The commit hands the batch over, none of which was handed over before.
LEMMA CommitKeeps ==
    ASSUME HandInvariant, NEW p \in Handlers, Commit(p)
    PROVE  HandInvariant'
<1>1. lock' = lock /\ lock = {p} /\ batch' = batch /\ at' = at
  BY DEF Commit, HandInvariant
<1>2. \A d \in batch[p] : result[d] = "posted" /\ handed[d] = 0
  BY DEF Commit, HandInvariant, HandTyped
<1>3. \A q \in Handlers : proc'[q] = IF q = p THEN "handler" ELSE proc[q]
  BY DEF Commit, HandInvariant, HandTyped
<1>4. \A q \in Handlers : q # p => proc'[q] \notin {"commit", "handler"}
  BY <1>1, <1>3 DEF HandInvariant
<1>5. \A d \in Background : /\ result'[d] = IF d \in batch[p] THEN "taken" ELSE result[d]
                            /\ handed'[d] = IF d \in batch[p] THEN handed[d] + 1 ELSE handed[d]
  BY DEF Commit
<1>6. HandTyped'
  BY <1>1 DEF Commit, HandInvariant, HandTyped
<1>7. \A d \in batch'[p] : result'[d] = "taken"
  BY <1>1, <1>5 DEF HandInvariant, HandTyped
<1>8. \A d \in Background : at'[d] \in BeforePost => result'[d] = "none"
  BY <1>1, <1>2, <1>5 DEF HandInvariant
<1>9. HandedOnce'
  BY <1>2, <1>5 DEF HandInvariant, HandedOnce
<1> QED
  BY <1>1, <1>3, <1>4, <1>5, <1>6, <1>7, <1>8, <1>9 DEF HandInvariant

\* The handler returns, or raises: the batch and the lock are given up.
LEMMA LaunchKeeps ==
    ASSUME HandInvariant, NEW p \in Handlers, Launch(p) \/ LaunchFails(p)
    PROVE  HandInvariant'
<1>1. lock = {p} /\ lock' = {} /\ handed' = handed /\ proc[p] = "handler"
  BY DEF HandInvariant, Launch, LaunchFails
<1>2. /\ batch' = [batch EXCEPT ![p] = {}] /\ proc' = [proc EXCEPT ![p] = "no"]
      /\ at' = [d \in Delegations |-> IF d = p THEN "done" ELSE at[d]]
  BY DEF Launch, LaunchFails, Returned
<1>3. at' \in [Delegations -> BeforePost \cup AfterPost]
  BY <1>2 DEF HandInvariant, HandTyped, AfterPost
<1>4. "done" \notin BeforePost
  BY DEF BeforePost, AtWork
<1>5. \A d \in Background : at'[d] \in BeforePost => at[d] \in BeforePost
  BY <1>2, <1>4, Kinds
<1>6. \/ result' = result
      \/ result' = [d \in Background |-> IF d \in batch[p] THEN "failed" ELSE result[d]]
  BY DEF Launch, LaunchFails
<1>7. lock' = lock \ {p}
  BY <1>1
<1>8. \A q \in Handlers : q # p => proc'[q] = proc[q] /\ batch'[q] = batch[q]
  BY <1>2 DEF HandInvariant, HandTyped
<1>9. /\ proc'[p] = "no"
      /\ proc' \in [Handlers -> {"no", "loop", "want", "commit", "handler"}]
      /\ batch' \in [Handlers -> SUBSET Background]
  BY <1>2 DEF HandInvariant, HandTyped
<1> QED
  BY <1>1, <1>3, <1>5, <1>6, <1>7, <1>8, <1>9, HandDropped

\* A handler gives up before its commit: its batch stays posted, for others.
LEMMA HandleFailsKeeps ==
    ASSUME HandInvariant, NEW p \in Handlers, HandleFails(p)
    PROVE  HandInvariant'
<1>1. /\ batch' = [batch EXCEPT ![p] = {}] /\ proc' = [proc EXCEPT ![p] = "no"]
      /\ at' = [d \in Delegations |-> IF d = p THEN "done" ELSE at[d]]
      /\ lock' = lock \ {p} /\ result' = result /\ handed' = handed
  BY DEF HandleFails, Returned
<1>2. at' \in [Delegations -> BeforePost \cup AfterPost]
  BY <1>1 DEF HandInvariant, HandTyped, AfterPost
<1>3. "done" \notin BeforePost
  BY DEF BeforePost, AtWork
<1>4. \A d \in Background : at'[d] \in BeforePost => at[d] \in BeforePost
  BY <1>1, <1>3, Kinds
<1>5. /\ \A q \in Handlers : q # p => proc'[q] = proc[q] /\ batch'[q] = batch[q]
      /\ proc'[p] = "no"
      /\ proc' \in [Handlers -> {"no", "loop", "want", "commit", "handler"}]
      /\ batch' \in [Handlers -> SUBSET Background]
  BY <1>1 DEF HandInvariant, HandTyped
<1> QED BY <1>1, <1>2, <1>4, <1>5, HandDropped

\* A sub-agent gives up before or after its result is posted.
LEMMA PostFailsKeeps ==
    ASSUME HandInvariant, NEW d \in Background, PostFails(d) \/ HandOverFails(d)
    PROVE  HandInvariant'
<1>1. at' = [at EXCEPT ![d] = "done"] /\ UNCHANGED <<result, hand>>
  BY DEF PostFails, HandOverFails
<1>2. "done" \notin BeforePost /\ "done" \in AfterPost
  BY DEF BeforePost, AtWork, AfterPost
<1>3. /\ at' \in [Delegations -> BeforePost \cup AfterPost]
      /\ \A e \in Background : at'[e] \in BeforePost => at[e] \in BeforePost
  BY <1>1, <1>2, Kinds DEF HandInvariant, HandTyped
<1> QED BY <1>1, <1>3, HandKept

\* The sub-agent begins to look for results to hand over, or ends; a turn likewise.
LEMMA LookKeeps ==
    ASSUME HandInvariant, NEW p \in Handlers,
           \/ p \in Background /\ HandOver(p)
           \/ p \in Turns /\ Trail(p)
           \/ Poll(p)
    PROVE  HandInvariant'
<1>1. UNCHANGED <<result, lock, batch, handed>>
  BY DEF HandOver, Trail, Poll
<1>2. \E s \in {"no", "loop", "want"} : proc' = [proc EXCEPT ![p] = s]
  BY DEF HandOver, Trail, Poll
<1>3. at' = at \/ \E s \in {"done", "processing"} : at' = [at EXCEPT ![p] = s]
  BY DEF HandOver, Trail, Poll
<1>4. {"done", "processing"} \cap BeforePost = {} /\ {"done", "processing"} \subseteq AfterPost
  BY DEF BeforePost, AtWork, AfterPost
<1>5. /\ at' \in [Delegations -> BeforePost \cup AfterPost]
      /\ \A d \in Background : at'[d] \in BeforePost => at[d] \in BeforePost
  BY <1>3, <1>4, Kinds DEF HandInvariant, HandTyped
<1>6. /\ proc'[p] \in {"no", "loop", "want"}
      /\ proc' \in [Handlers -> {"no", "loop", "want", "commit", "handler"}]
      /\ \A q \in Handlers : q # p => proc'[q] = proc[q]
  BY <1>2 DEF HandInvariant, HandTyped
<1> QED
  BY <1>1, <1>5, <1>6, HandDropped DEF HandInvariant, HandTyped

\* A sub-agent that is stopped gives up the lock and what it was handing over.
LEMMA StopAgentKeeps ==
    ASSUME HandInvariant, NEW d \in Delegations, StopAgent(d)
    PROVE  HandInvariant'
<1>1. \E s \in {"report", "done", "lost"} :
        at' = [at EXCEPT ![d] = s] /\ (s = "report" => at[d] = "run")
  BY DEF StopAgent
<1>2. /\ at' \in [Delegations -> BeforePost \cup AfterPost]
      /\ \A e \in Background : at'[e] \in BeforePost => at[e] \in BeforePost
  BY <1>1, Kinds DEF HandInvariant, HandTyped, BeforePost, AfterPost, AtWork
<1>3. CASE at[d] = "run"
  BY <1>2, <1>3, HandKept DEF StopAgent, hand
<1>4. CASE at[d] # "run"
  <2>1. /\ lock' = lock \ {d} /\ handed' = handed
        /\ proc' = [p \in Handlers |-> IF p = d THEN "no" ELSE proc[p]]
        /\ batch' = [p \in Handlers |-> IF p = d THEN {} ELSE batch[p]]
        /\ result' = [e \in Background |->
             IF d \in Background /\ proc[d] = "handler" /\ e \in batch[d]
             THEN "failed" ELSE result[e]]
    BY <1>4 DEF StopAgent
  <2>2. \/ result' = result
        \/ /\ d \in Handlers /\ proc[d] = "handler"
           /\ result' = [e \in Background |-> IF e \in batch[d] THEN "failed" ELSE result[e]]
    BY <2>1, Kinds DEF HandInvariant, HandTyped
  <2>3. /\ \A q \in Handlers : q # d => proc'[q] = proc[q] /\ batch'[q] = batch[q]
        /\ d \in Handlers => proc'[d] = "no"
        /\ proc' \in [Handlers -> {"no", "loop", "want", "commit", "handler"}]
        /\ batch' \in [Handlers -> SUBSET Background]
    BY <2>1 DEF HandInvariant, HandTyped
  <2> QED BY <1>2, <2>1, <2>2, <2>3, HandDropped
<1> QED BY <1>3, <1>4

\* Every step keeps the invariant.
LEMMA StepHand == HandInvariant /\ [Next]_vars => HandInvariant'
<1> SUFFICES ASSUME HandInvariant, [Next]_vars PROVE HandInvariant'
  OBVIOUS
<1>1. ASSUME NEW z \in Turns, StartTurn(z) \/ BeginTurn(z) \/ EndTurn(z) \/ TrailFails(z)
      PROVE  HandInvariant'
  BY <1>1, HandKept DEF StartTurn, BeginTurn, EndTurn, TrailFails, HandInvariant, HandTyped
<1>2. ASSUME NEW z \in Turns, NEW d \in Delegations, delegate(d, z) PROVE HandInvariant'
  <2>1. at[d] = "none" /\ UNCHANGED <<result, hand>>
    BY <1>2 DEF delegate, NewId
  <2>2. \E s \in {"refused", "insert", "wait"} : at' = [at EXCEPT ![d] = s]
    BY <1>2 DEF delegate, NewId, ReserveBackground, Acquire
  <2>3. /\ at' \in [Delegations -> BeforePost \cup AfterPost]
        /\ \A e \in Background : at'[e] \in BeforePost => at[e] \in BeforePost
    BY <2>1, <2>2, Kinds DEF HandInvariant, HandTyped, BeforePost, AfterPost, AtWork
  <2> QED BY <2>1, <2>3, HandKept
<1>3. ASSUME NEW d \in Delegations, Agent(d) \/ InsertFails(d) \/ RegisterFails(d)
      PROVE  HandInvariant'
  <2>1. at[d] \in {"wait", "insert", "created", "run"} /\ UNCHANGED <<result, hand>>
    BY <1>3 DEF Agent, Wake, Created, Run, Finish, InsertFails, RegisterFails
  <2>2. \E s \in {"wait", "insert", "created", "run", "report", "done"} :
          at' = [at EXCEPT ![d] = s]
    BY <1>3 DEF Agent, Wake, Acquire, Created, Run, Finish, InsertFails, RegisterFails
  <2>3. /\ at' \in [Delegations -> BeforePost \cup AfterPost]
        /\ \A e \in Background : at'[e] \in BeforePost => at[e] \in BeforePost
    BY <2>1, <2>2, Kinds DEF HandInvariant, HandTyped, BeforePost, AfterPost, AtWork
  <2> QED BY <2>1, <2>3, HandKept
<1>4. ASSUME NEW z \in Turns, StopTurn(z) PROVE HandInvariant'
  <2>1. PICK adrift \in SUBSET {d \in Called(z) : at[d] = "insert"} :
             at' = [d \in Delegations |-> IF d \in adrift THEN "created"
                                         ELSE IF d \in Called(z) THEN Cancelled(d) ELSE at[d]]
    BY <1>4 DEF StopTurn
  <2>2. \A d \in Called(z) : Cancelled(d) \in AfterPost
    BY DEF Called, Cancelled, AtWork, AfterPost
  <2>3. AfterPost \cap BeforePost = {} /\ {"insert", "created"} \subseteq BeforePost
    BY DEF AfterPost, BeforePost, AtWork
  <2>4. /\ at' \in [Delegations -> BeforePost \cup AfterPost]
        /\ \A e \in Background : at'[e] \in BeforePost => at[e] \in BeforePost
    BY <2>1, <2>2, <2>3, Kinds DEF HandInvariant, HandTyped
  <2>5. UNCHANGED <<result, hand>>
    BY <1>4 DEF StopTurn
  <2> QED BY <2>4, <2>5, HandKept
<1>5. CASE UNCHANGED vars
  BY <1>5, HandKept DEF vars, HandInvariant, HandTyped
<1>6. ASSUME NEW z \in Turns, Trail(z) PROVE HandInvariant'
  BY <1>6, Kinds, LookKeeps
<1>7. ASSUME NEW d \in Background, HandOver(d) PROVE HandInvariant'
  BY <1>7, Kinds, LookKeeps
<1>8. ASSUME NEW p \in Handlers, Handle(p) \/ HandleFails(p) \/ LaunchFails(p)
      PROVE  HandInvariant'
  BY <1>8, LookKeeps, LockKeeps, CommitKeeps, HandleFailsKeeps, LaunchKeeps DEF Handle
<1>9. ASSUME NEW u \in Users, StartTurn(u) PROVE HandInvariant'
  BY <1>1, <1>9 DEF Turns
<1> QED
  BY <1>1, <1>2, <1>3, <1>4, <1>5, <1>6, <1>7, <1>8, <1>9, PostKeeps, PostFailsKeeps,
     StopAgentKeeps
  DEF Next, Turn, Report

\* HandedOnce in every reachable state, for any number of turns, sub-agents,
\* slots and faults: the chat's lock, held from the reading of the waiting
\* results to the end of CHAT_COMPLETION_HANDLER, keeps two handlers from taking
\* the same one (subagents.py:82, 225, main.py:1770).
THEOREM ResultsAreHandedOnce == Spec => []HandedOnce
<1>1. HandInvariant => HandedOnce
  BY DEF HandInvariant
<1> QED
  BY InitHand, StepHand, <1>1, PTL DEF Spec

-----------------------------------------------------------------------------
(***************************************************************************)
(* The slots.                                                              *)
(***************************************************************************)

\* A delegation that has a slot, as long as the slot was not given back early;
\* and the slots of the semaphore that were given back twice.
InHouse == AtWork \cup {"lost"}
Held(S) == {d \in S : at[d] \in InHouse /\ d \notin twice}
Over    == {d \in Foreground \cap twice : at[d] \notin InHouse}

\* Before the sub-agent's task is created nothing can be given back.
Early == {"none", "wait", "refused", "insert"}

\* No background delegation waits for a slot, and one that hands results over
\* is past its work.
BackgroundAt ==
    \A d \in Background : at[d] # "wait" /\ (proc[d] # "no" => at[d] = "processing")

SlotInvariant ==
    /\ twice \subseteq Delegations
    /\ semaphore \in Int
    /\ \A d \in twice : at[d] \notin Early
    /\ BackgroundAt
    /\ SlotsAreAccounted

\* The property in terms of the slots held and given back twice.
LEMMA Accounted ==
    SlotsAreAccounted <=>
        /\ background_active = Held(Background)
        /\ Cardinality(Held(Background)) <= max_async
        /\ semaphore = max_concurrent - Cardinality(Held(Foreground)) + Cardinality(Over)
BY DEF SlotsAreAccounted, Held, Over, InHouse

\* The same of the next state.
LEMMA AccountedNext ==
    SlotsAreAccounted' <=>
        /\ background_active' = Held(Background)'
        /\ Cardinality(Held(Background)') <= max_async
        /\ semaphore' = max_concurrent - Cardinality(Held(Foreground)') + Cardinality(Over')
BY DEF SlotsAreAccounted, Held, Over, InHouse

\* Slots can be counted.
LEMMA FiniteSlots ==
    /\ IsFiniteSet(Held(Background)) /\ Cardinality(Held(Background)) \in Nat
    /\ IsFiniteSet(Held(Foreground)) /\ Cardinality(Held(Foreground)) \in Nat
    /\ IsFiniteSet(Over) /\ Cardinality(Over) \in Nat
<1>1. /\ Held(Background) \in SUBSET Background
      /\ Held(Foreground) \in SUBSET Foreground /\ Over \in SUBSET Foreground
  BY DEF Held, Over
<1> QED BY <1>1, SubagentsAssumption, FS_Subset, FS_CardinalityType

\* The initial state satisfies the invariant.
LEMMA InitSlots == Init => SlotInvariant
<1> SUFFICES ASSUME Init PROVE SlotInvariant
  OBVIOUS
<1>1. Held(Background) = {} /\ Held(Foreground) = {} /\ Over = {}
  BY DEF Init, Held, Over, InHouse, AtWork, Delegations
<1>2. SlotsAreAccounted
  BY <1>1, Accounted, FS_EmptySet, SubagentsAssumption DEF Init
<1> QED BY <1>2, Kinds, SubagentsAssumption DEF Init, SlotInvariant, BackgroundAt, Handlers

\* Steps that neither take a slot nor give one back.
LEMMA SlotsKept ==
    ASSUME SlotInvariant, UNCHANGED slots,
           \A d \in Delegations : at'[d] \in InHouse <=> at[d] \in InHouse,
           \A d \in twice : at[d] \notin Early => at'[d] \notin Early,
           BackgroundAt'
    PROVE  SlotInvariant'
<1>1. /\ Held(Background)' = Held(Background)
      /\ Held(Foreground)' = Held(Foreground) /\ Over' = Over
  BY DEF Held, Over, Delegations, slots
<1>2. SlotsAreAccounted'
  BY <1>1, Accounted, AccountedNext DEF SlotInvariant, slots
<1> QED BY <1>2 DEF SlotInvariant, slots

\* A delegation takes a slot of its kind.
LEMMA SlotTaken ==
    ASSUME SlotInvariant, NEW d \in Delegations, twice' = twice, proc' = proc,
           at[d] \in {"none", "wait"}, at \in [Delegations -> BeforePost \cup AfterPost],
           at' = [at EXCEPT ![d] = "insert"],
           IF d \in Background
           THEN /\ Cardinality(background_active) < max_async
                /\ background_active' = background_active \cup {d} /\ semaphore' = semaphore
           ELSE background_active' = background_active /\ semaphore' = semaphore - 1
    PROVE  SlotInvariant'
<1>1. d \notin twice /\ at[d] \notin InHouse /\ "insert" \in InHouse
  BY DEF SlotInvariant, Early, InHouse, AtWork
<1>2. \A e \in Delegations : at'[e] = IF e = d THEN "insert" ELSE at[e]
  OBVIOUS
<1>3. d \notin Held(Background) /\ d \notin Held(Foreground) /\ Over' = Over
  BY <1>1, <1>2 DEF Held, Over, Delegations
<1>4. \A e \in twice : at'[e] \notin Early
  BY <1>1, <1>2 DEF SlotInvariant
<1>5. BackgroundAt'
  BY <1>1, <1>2, Kinds DEF SlotInvariant, BackgroundAt
<1>6. CASE d \in Background
  <2>1. /\ Held(Background)' = Held(Background) \cup {d}
        /\ Held(Foreground)' = Held(Foreground)
    BY <1>1, <1>2, <1>6, SubagentsAssumption DEF Held, Delegations
  <2>2. Cardinality(Held(Background) \cup {d}) = Cardinality(Held(Background)) + 1
    BY <1>3, FiniteSlots, FS_AddElement
  <2>3. SlotsAreAccounted'
    BY <1>3, <1>6, <2>1, <2>2, Accounted, AccountedNext, FiniteSlots, SubagentsAssumption
    DEF SlotInvariant
  <2> QED BY <1>4, <1>5, <1>6, <2>3 DEF SlotInvariant
<1>7. CASE d \notin Background
  <2>1. /\ Held(Background)' = Held(Background)
        /\ Held(Foreground)' = Held(Foreground) \cup {d}
    BY <1>1, <1>2, <1>7 DEF Held, Delegations
  <2>2. Cardinality(Held(Foreground) \cup {d}) = Cardinality(Held(Foreground)) + 1
    BY <1>3, FiniteSlots, FS_AddElement
  <2>3. SlotsAreAccounted'
    BY <1>3, <1>7, <2>1, <2>2, Accounted, AccountedNext, FiniteSlots, SubagentsAssumption
    DEF SlotInvariant
  <2> QED BY <1>4, <1>5, <1>7, <2>3 DEF SlotInvariant
<1> QED BY <1>6, <1>7

\* Delegations R end their work and give their slots back, those in twice again.
LEMMA SlotsReturned ==
    ASSUME SlotInvariant, NEW R \in SUBSET Delegations, twice' = twice,
           background_active' = background_active \ R,
           semaphore' = semaphore + Cardinality(R \cap Foreground),
           \A d \in R : at[d] \in InHouse /\ at'[d] \notin InHouse \cup Early,
           \A d \in Delegations \ R : at'[d] \in InHouse <=> at[d] \in InHouse,
           \A d \in twice \ R : at'[d] \notin Early,
           BackgroundAt'
    PROVE  SlotInvariant'
<1> DEFINE Q == R \cap Foreground
<1>1. /\ Held(Background)' = Held(Background) \ R
      /\ Held(Foreground)' = Held(Foreground) \ Q
      /\ Over' = Over \cup (Q \cap twice)
  BY DEF Held, Over, Delegations
<1>2. IsFiniteSet(Q) /\ Cardinality(Q) \in Nat
  BY SubagentsAssumption, FS_Intersection, FS_CardinalityType
<1>3. Held(Foreground) \cap Q = Q \ twice /\ Over \cap (Q \cap twice) = {}
  BY DEF Held, Over
<1>4. /\ Cardinality(Held(Foreground) \ Q) = Cardinality(Held(Foreground)) - Cardinality(Q \ twice)
      /\ Cardinality(Q \ twice) = Cardinality(Q) - Cardinality(Q \cap twice)
  <2>1. Cardinality(Held(Foreground) \ Q) =
          Cardinality(Held(Foreground)) - Cardinality(Held(Foreground) \cap Q)
    BY FiniteSlots, FS_Difference
  <2>2. Cardinality(Q \ twice) = Cardinality(Q) - Cardinality(Q \cap twice)
    BY <1>2, FS_Difference
  <2> QED BY <1>3, <2>1, <2>2
<1>5. IsFiniteSet(Q \cap twice) /\ Cardinality(Q \cap twice) \in Nat
  BY <1>2, FS_Intersection, FS_CardinalityType
<1>6. Cardinality(Over \cup (Q \cap twice)) = Cardinality(Over) + Cardinality(Q \cap twice)
  <2>1. Cardinality(Over \cup (Q \cap twice)) =
          Cardinality(Over) + Cardinality(Q \cap twice) - Cardinality(Over \cap (Q \cap twice))
    BY <1>5, FiniteSlots, FS_Union
  <2> QED BY <1>3, <1>5, <2>1, FiniteSlots, FS_EmptySet
<1>7. Cardinality(Held(Background) \ R) <= Cardinality(Held(Background))
  <2>1. Held(Background) \ R \in SUBSET Held(Background)
    OBVIOUS
  <2> QED BY <2>1, FiniteSlots, FS_Subset
<1>8. Cardinality(Held(Background) \ R) \in Nat
  BY FiniteSlots, FS_Difference, FS_CardinalityType
<1> HIDE DEF Q
<1>9. semaphore' = semaphore + Cardinality(Q)
  BY DEF Q
<1>10. SlotsAreAccounted'
  BY <1>1, <1>2, <1>4, <1>5, <1>6, <1>7, <1>8, <1>9, Accounted, AccountedNext, FiniteSlots,
     SubagentsAssumption DEF SlotInvariant
<1>11. \A d \in twice : at'[d] \notin Early
  OBVIOUS
<1> QED BY <1>2, <1>9, <1>10, <1>11 DEF SlotInvariant

\* The registration of d fails: its slot is given back and d goes on.
LEMMA SlotGivenEarly ==
    ASSUME HandTyped, SlotInvariant, NEW d \in Delegations, RegisterFails(d)
    PROVE  SlotInvariant'
<1>1. /\ at[d] = "insert" /\ twice' = twice \cup {d} /\ proc' = proc
      /\ \A e \in Delegations : at'[e] = IF e = d THEN "created" ELSE at[e]
      /\ background_active' = background_active \ {d}
      /\ semaphore' = IF d \in Foreground THEN semaphore + 1 ELSE semaphore
  BY DEF RegisterFails, Release, HandTyped, hand
<1>2. d \notin twice /\ {"insert", "created"} \subseteq InHouse /\ "created" \notin Early
  BY <1>1 DEF SlotInvariant, Early, InHouse, AtWork
<1>3. /\ Held(Background)' = Held(Background) \ {d}
      /\ Held(Foreground)' = Held(Foreground) \ {d} /\ Over' = Over
  BY <1>1, <1>2 DEF Held, Over, Delegations
<1>4. d \in Held(Foreground) <=> d \in Foreground
  BY <1>1, <1>2 DEF Held
<1>5. /\ Cardinality(Held(Foreground) \ {d}) =
           IF d \in Foreground THEN Cardinality(Held(Foreground)) - 1
                               ELSE Cardinality(Held(Foreground))
      /\ Cardinality(Held(Background) \ {d}) <= Cardinality(Held(Background))
      /\ Cardinality(Held(Background) \ {d}) \in Nat
  <2>1. Cardinality(Held(Foreground) \ {d}) =
          IF d \in Held(Foreground) THEN Cardinality(Held(Foreground)) - 1
                                    ELSE Cardinality(Held(Foreground))
    BY FiniteSlots, FS_RemoveElement
  <2>2. /\ IsFiniteSet(Held(Background) \ {d})
        /\ Cardinality(Held(Background) \ {d}) =
             IF d \in Held(Background) THEN Cardinality(Held(Background)) - 1
                                       ELSE Cardinality(Held(Background))
    BY FiniteSlots, FS_RemoveElement
  <2>3. Cardinality(Held(Background) \ {d}) \in Nat
    BY <2>2, FS_CardinalityType
  <2> QED BY <1>4, <2>1, <2>2, <2>3, FiniteSlots
<1>6. SlotsAreAccounted'
  BY <1>1, <1>3, <1>5, Accounted, AccountedNext, FiniteSlots, SubagentsAssumption
  DEF SlotInvariant
<1>7. \A e \in twice' : at'[e] \notin Early
  BY <1>1, <1>2 DEF SlotInvariant
<1>8. BackgroundAt'
  BY <1>1, Kinds DEF SlotInvariant, BackgroundAt
<1> QED BY <1>1, <1>6, <1>7, <1>8 DEF SlotInvariant

\* delegate takes a slot, waits for one or is refused.
LEMMA DelegateSlots ==
    ASSUME HandTyped, SlotInvariant, NEW d \in Delegations,
           (\E z \in Turns : delegate(d, z)) \/ Wake(d)
    PROVE  SlotInvariant'
<1>1. at[d] \in {"none", "wait"} /\ twice' = twice /\ proc' = proc
  BY DEF delegate, NewId, Wake, hand
<1>2. d \notin twice
  BY <1>1 DEF SlotInvariant, Early
<1>3. CASE at' = [at EXCEPT ![d] = "insert"]
  <2>1. IF d \in Background
        THEN /\ Cardinality(background_active) < max_async
             /\ background_active' = background_active \cup {d} /\ semaphore' = semaphore
        ELSE background_active' = background_active /\ semaphore' = semaphore - 1
    <3>1. at'[d] = "insert"
      BY <1>3 DEF HandTyped
    <3>2. Cardinality(background_active) \in Nat
      BY FiniteSlots, Accounted DEF SlotInvariant
    <3>3. CASE Wake(d)
      <4>1. d \notin Background
        BY <3>3 DEF Wake, SlotInvariant, BackgroundAt
      <4> QED BY <3>1, <3>3, <4>1 DEF Wake, Acquire, HandTyped
    <3>4. CASE \E z \in Turns : delegate(d, z)
      BY <3>1, <3>2, <3>4, SubagentsAssumption
      DEF delegate, NewId, ReserveBackground, Acquire, HandTyped
    <3> QED BY <3>3, <3>4
  <2> QED BY <1>1, <1>3, <2>1, SlotTaken DEF HandTyped
<1>4. CASE at' # [at EXCEPT ![d] = "insert"]
  <2>1. UNCHANGED slots /\ \E s \in {"wait", "refused"} : at' = [at EXCEPT ![d] = s]
    BY <1>4 DEF delegate, NewId, Wake, ReserveBackground, Acquire, slots
  <2>2. \A e \in Delegations : e # d => at'[e] = at[e]
    BY <2>1 DEF HandTyped
  <2>3. at[d] \notin InHouse /\ at'[d] \notin InHouse
    BY <1>1, <2>1 DEF HandTyped, InHouse, AtWork
  <2>4. proc[d] = "no" \/ d \notin Background
    BY <1>1 DEF SlotInvariant, BackgroundAt
  <2>5. d \in Background => at'[d] # "wait"
    BY <2>1 DEF delegate, NewId, Wake, ReserveBackground, HandTyped, SlotInvariant, BackgroundAt
  <2>6. /\ \A e \in Delegations : at'[e] \in InHouse <=> at[e] \in InHouse
        /\ \A e \in twice : at'[e] \notin Early
        /\ BackgroundAt'
    BY <1>1, <1>2, <2>2, <2>3, <2>4, <2>5, Kinds DEF SlotInvariant, BackgroundAt
  <2> QED BY <2>1, <2>6, SlotsKept
<1> QED BY <1>3, <1>4

\* A handler goes on or returns: it is past its work, and stays so.
LEMMA HandlerSlots ==
    ASSUME HandTyped, SlotInvariant, NEW p \in Handlers,
           Handle(p) \/ HandleFails(p) \/ LaunchFails(p)
    PROVE  SlotInvariant'
<1>1. UNCHANGED slots
  BY DEF Handle, Poll, Lock, Commit, Launch, HandleFails, LaunchFails
<1>2. proc[p] # "no" /\ (p \in Delegations => p \in Background)
  BY SubagentsAssumption
  DEF Handle, Poll, Lock, Commit, Launch, HandleFails, LaunchFails, Handlers, Turns, Delegations
<1>3. p \in Delegations => at[p] = "processing"
  BY <1>2 DEF SlotInvariant, BackgroundAt
<1>4. {"processing", "done"} \cap (InHouse \cup Early) = {}
  BY DEF InHouse, AtWork, Early
<1>5. CASE at' = at /\ \E s \in {"want", "commit", "handler"} : proc' = [proc EXCEPT ![p] = s]
  <2>1. BackgroundAt'
    BY <1>2, <1>5, Kinds DEF SlotInvariant, BackgroundAt, HandTyped
  <2> QED BY <1>1, <1>5, <2>1, SlotsKept
<1>6. CASE Returned(p)
  <2>1. \A d \in Delegations : at'[d] = IF d = p THEN "done" ELSE at[d]
    BY <1>6 DEF Returned
  <2>2. \A q \in Handlers : proc'[q] = IF q = p THEN "no" ELSE proc[q]
    BY <1>6 DEF Returned, HandTyped
  <2>3. BackgroundAt'
    BY <2>1, <2>2, Kinds DEF SlotInvariant, BackgroundAt
  <2>4. \A d \in Delegations : at'[d] \in InHouse <=> at[d] \in InHouse
    BY <1>3, <1>4, <2>1
  <2>5. \A d \in twice : at[d] \notin Early => at'[d] \notin Early
    BY <1>4, <2>1 DEF SlotInvariant
  <2> QED BY <1>1, <2>3, <2>4, <2>5, SlotsKept
<1>7. Returned(p) \/ (at' = at /\ \E s \in {"want", "commit", "handler"} : proc' = [proc EXCEPT ![p] = s])
  BY DEF Handle, Poll, Lock, Commit, Launch, HandleFails, LaunchFails
<1> QED BY <1>5, <1>6, <1>7

\* A turn is stopped: the sub-agents it had at work give their slots back, those
\* that had not begun keep them.
LEMMA StopTurnSlots ==
    ASSUME HandTyped, SlotInvariant, NEW z \in Turns, StopTurn(z)
    PROVE  SlotInvariant'
<1> DEFINE ran == {d \in Called(z) : at[d] = "run"}
<1>1. /\ ran \in SUBSET Delegations /\ ran \subseteq Foreground
      /\ ran \cap Foreground = ran /\ ran \cap Background = {}
  BY SubagentsAssumption DEF Called, Delegations
<1>2. /\ \A d \in Delegations :
           \/ at'[d] = IF d \in Called(z) THEN Cancelled(d) ELSE at[d]
           \/ at[d] = "insert" /\ at'[d] = "created"
      /\ semaphore' = semaphore + Cardinality(ran)
      /\ UNCHANGED <<background_active, twice, proc>>
  BY DEF StopTurn, hand
<1>3. \A d \in Called(z) : /\ at[d] \in {"wait", "insert", "created", "run"}
                           /\ Cancelled(d) = IF at[d] \in {"wait", "run"} THEN "done" ELSE "lost"
  BY DEF Called, Cancelled, AtWork
<1>4. background_active' = background_active \ ran
  <2>1. background_active \subseteq Background
    BY Accounted DEF SlotInvariant, Held
  <2> QED BY <1>1, <1>2, <2>1
<1>5. "wait" \notin InHouse /\ "done" \notin InHouse \cup Early /\ {"lost", "created"} \cap Early = {}
      /\ {"insert", "created", "run", "lost"} \subseteq InHouse
  BY DEF InHouse, AtWork, Early
<1>6. \A d \in ran : at[d] \in InHouse /\ at'[d] \notin InHouse \cup Early
  BY <1>1, <1>2, <1>3, <1>5
<1>7. \A d \in Delegations \ ran : at'[d] \in InHouse <=> at[d] \in InHouse
  BY <1>2, <1>3, <1>5
<1>8. \A d \in twice \ ran : at'[d] \notin Early
  BY <1>2, <1>3, <1>5 DEF SlotInvariant
<1>9. BackgroundAt'
  BY <1>2, <1>3, Kinds DEF SlotInvariant, BackgroundAt
<1> HIDE DEF ran
<1> QED BY <1>1, <1>2, <1>4, <1>6, <1>7, <1>8, <1>9, SlotsReturned

\* A sub-agent ends its work, whichever way: its slot is given back.
LEMMA EndSlots ==
    ASSUME HandTyped, SlotInvariant, NEW d \in Delegations, Release(d),
           at[d] \in {"insert", "run"}, twice' = twice, proc' = proc,
           \E s \in {"done", "report"} : at' = [at EXCEPT ![d] = s]
    PROVE  SlotInvariant'
<1>1. {d} \in SUBSET Delegations /\ background_active' = background_active \ {d}
  BY DEF Release
<1>2. semaphore' = semaphore + Cardinality({d} \cap Foreground)
  <2>1. CASE d \in Foreground
    <3>1. {d} \cap Foreground = {d}
      BY <2>1
    <3>2. Cardinality({d}) = 1
      BY FS_Singleton
    <3> QED BY <2>1, <3>1, <3>2 DEF Release
  <2>2. CASE d \notin Foreground
    <3>1. {d} \cap Foreground = {}
      BY <2>2
    <3> QED BY <2>2, <3>1, FS_EmptySet DEF Release, SlotInvariant
  <2> QED BY <2>1, <2>2
<1>3. \A e \in Delegations : e # d => at'[e] = at[e]
  BY DEF HandTyped
<1>4. at[d] \in InHouse /\ at'[d] \notin InHouse \cup Early /\ at'[d] # "wait"
  BY DEF HandTyped, InHouse, AtWork, Early
<1>5. BackgroundAt'
  BY <1>3, <1>4, Kinds DEF SlotInvariant, BackgroundAt
<1>6. \A e \in twice \ {d} : at'[e] \notin Early
  BY <1>3 DEF SlotInvariant
<1> QED BY <1>1, <1>2, <1>3, <1>4, <1>5, <1>6, SlotsReturned

\* A sub-agent goes on without its slot being touched.
LEMMA OnSlots ==
    ASSUME HandTyped, SlotInvariant, NEW d \in Delegations, UNCHANGED slots,
           NEW s \in {"created", "run", "lost", "check", "done", "processing"},
           at' = [at EXCEPT ![d] = s], at[d] \in InHouse <=> s \in InHouse,
           \A p \in Background : p # d => proc'[p] = proc[p],
           d \in Background => (proc'[d] # "no" => s = "processing")
    PROVE  SlotInvariant'
<1>1. \A e \in Delegations : at'[e] = IF e = d THEN s ELSE at[e]
  BY DEF HandTyped
<1>2. s \notin Early
  BY DEF Early
<1>3. BackgroundAt'
  BY <1>1, Kinds DEF SlotInvariant, BackgroundAt
<1>4. \A e \in twice : at[e] \notin Early => at'[e] \notin Early
  BY <1>1, <1>2 DEF SlotInvariant
<1> QED BY <1>1, <1>3, <1>4, SlotsKept

\* A stop gives the slot back once work began, and keeps it before.
LEMMA StopAgentSlots ==
    ASSUME HandTyped, SlotInvariant, NEW d \in Delegations, StopAgent(d)
    PROVE  SlotInvariant'
<1>1. CASE at[d] = "run"
  BY <1>1, EndSlots DEF StopAgent
<1>2. CASE at[d] # "run"
  <2>1. PICK s \in {"done", "lost"} : /\ at' = [at EXCEPT ![d] = s]
                                      /\ s = "lost" <=> at[d] = "created"
    BY <1>2 DEF StopAgent
  <2>2. at[d] \in {"created", "report", "check", "processing"} /\ UNCHANGED slots
    BY <1>2 DEF StopAgent, slots
  <2>3. at[d] \in InHouse <=> s \in InHouse
    BY <2>1, <2>2 DEF InHouse, AtWork
  <2>4. \A p \in Handlers : proc'[p] = IF p = d THEN "no" ELSE proc[p]
    BY <1>2 DEF StopAgent
  <2> QED BY <2>1, <2>2, <2>3, <2>4, Kinds, OnSlots
<1> QED BY <1>1, <1>2

\* Every step keeps the invariant.
LEMMA StepSlots == HandInvariant /\ SlotInvariant /\ [Next]_vars => SlotInvariant'
<1> SUFFICES ASSUME HandTyped, SlotInvariant, [Next]_vars PROVE SlotInvariant'
  BY DEF HandInvariant
<1>1. ASSUME NEW z \in Turns, StartTurn(z) \/ BeginTurn(z) \/ EndTurn(z) \/ TrailFails(z)
      PROVE  SlotInvariant'
  BY <1>1, SlotsKept DEF StartTurn, BeginTurn, EndTurn, TrailFails, SlotInvariant, BackgroundAt, hand
<1>2. ASSUME NEW z \in Turns, Trail(z) PROVE SlotInvariant'
  <2>1. at' = at /\ UNCHANGED slots /\ \A p \in Background : proc'[p] = proc[p]
    BY <1>2, Kinds, SubagentsAssumption DEF Trail, HandTyped
  <2>2. BackgroundAt'
    BY <2>1 DEF SlotInvariant, BackgroundAt
  <2> QED BY <2>1, <2>2, SlotsKept
<1>3. ASSUME NEW d \in Delegations, Created(d) \/ Run(d) PROVE SlotInvariant'
  <2>1. PICK s \in {"created", "run"} : at' = [at EXCEPT ![d] = s]
    BY <1>3 DEF Created, Run
  <2>2. UNCHANGED slots /\ proc' = proc /\ at[d] \in {"insert", "created"}
    BY <1>3 DEF Created, Run, hand
  <2>3. at[d] \in InHouse /\ s \in InHouse
    BY <2>2 DEF InHouse, AtWork
  <2>4. d \in Background => proc'[d] = "no"
    BY <2>2 DEF SlotInvariant, BackgroundAt
  <2> QED BY <2>1, <2>2, <2>3, <2>4, OnSlots
<1>4. ASSUME NEW d \in Delegations, Finish(d) \/ InsertFails(d) PROVE SlotInvariant'
  BY <1>4, EndSlots DEF Finish, InsertFails, hand
<1>5. ASSUME NEW d \in Background, Report(d) \/ PostFails(d) \/ HandOverFails(d)
      PROVE  SlotInvariant'
  <2>1. at[d] \in {"report", "check"} /\ UNCHANGED slots
    BY <1>5 DEF Report, Post, HandOver, PostFails, HandOverFails
  <2>2. PICK s \in {"check", "done", "processing"} :
          /\ at' = [at EXCEPT ![d] = s]
          /\ proc' = proc \/ proc' = [proc EXCEPT ![d] = IF s = "processing" THEN "loop" ELSE "no"]
          /\ s = "check" => proc' = proc
    BY <1>5 DEF Report, Post, HandOver, PostFails, HandOverFails, hand
  <2>3. at[d] \notin InHouse /\ s \notin InHouse
    BY <2>1 DEF InHouse, AtWork
  <2>4. proc[d] = "no"
    BY <2>1 DEF SlotInvariant, BackgroundAt
  <2>5. /\ \A p \in Background : p # d => proc'[p] = proc[p]
        /\ proc'[d] # "no" => s = "processing"
    BY <2>2, <2>4, Kinds DEF HandTyped
  <2> QED BY <2>1, <2>2, <2>3, <2>5, Kinds, OnSlots
<1>6. CASE UNCHANGED vars
  BY <1>6, SlotsKept DEF vars, SlotInvariant, BackgroundAt, hand
<1>7. ASSUME NEW u \in Users, StartTurn(u) PROVE SlotInvariant'
  BY <1>1, <1>7 DEF Turns
<1> QED
  BY <1>1, <1>2, <1>3, <1>4, <1>5, <1>6, <1>7, DelegateSlots, HandlerSlots, SlotGivenEarly,
     StopTurnSlots, StopAgentSlots DEF Next, Turn, Agent

\* SlotsAreAccounted in every reachable state, for any number of delegations,
\* limits and faults: whichever of the four ways out a sub-agent takes, its slot
\* is given back once, but for a failed registration, which gives it back twice,
\* and a stop before its work began, which keeps it (subagents.py:364, 439, 536,
\* 674).
THEOREM SlotsAddUp == Spec => []SlotsAreAccounted
<1>1. SlotInvariant => SlotsAreAccounted
  BY DEF SlotInvariant
<1> QED
  BY InitHand, StepHand, InitSlots, StepSlots, <1>1, PTL DEF Spec
=============================================================================
