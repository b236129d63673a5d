---------------------------- MODULE TimersProofs ----------------------------
(***************************************************************************)
(* Proofs about Timers, for any timers, events, deployments and bounds:    *)
(* every variable keeps its type, a timer is posted at most once, and a    *)
(* cancelled timer nobody is at work on is never revived.                  *)
(***************************************************************************)
EXTENDS Timers, TLAPS

(***************************************************************************)
(* Type correctness.                                                       *)
(***************************************************************************)

\* What an execution that has not ended looks like.
Execution ==
    [pc : {"start", "check", "requeue", "post", "launch"}, timer : Ids, at : host.instances]

\* What a timer's row looks like.
Row == [status : {"none", "pending", "running"} \cup Settled, at : BOOLEAN, claim : 0..MaxClaims]

\* The claims are numbers up to their bound.
LEMMA Bounds ==
    MaxCrashes \in Nat /\ 0 \in 0..MaxClaims /\ Claims \subseteq 0..MaxClaims
<1>1. MaxClaims \in Nat /\ MaxCrashes \in Nat
  BY TimersAssumption
<1> QED BY <1>1 DEF Claims

\* The rows the code writes are rows.
LEMMA RowsWritten ==
    /\ [status |-> "pending", at |-> TRUE, claim |-> 0] \in Row
    /\ [status |-> "cancelled", at |-> FALSE, claim |-> 0] \in Row
    /\ \A c \in Claims : [status |-> "running", at |-> FALSE, claim |-> c] \in Row
BY Bounds DEF Row, Settled

\* Settling a timer leaves rows.
LEMMA StatesSet ==
    ASSUME row \in [Ids -> Row], NEW x \in Ids, NEW s \in Settled, SetState(x, s)
    PROVE  row' \in [Ids -> Row]
BY DEF Row, SetState

\* An execution under way has its timer and its claim.
LEMMA RunningIsExecution ==
    ASSUME TypeOK, NEW c \in Claims, exec[c].pc # "none"
    PROVE  exec[c] \in Execution
BY DEF TypeOK, Idle, Execution

\* The claims given out are new, one for each row, and each execution started
\* is for the row that was given its claim.
LEMMA ClaimsAreDistinct ==
    ASSUME NEW S, NewClaims(S) # {}
    PROVE  LET claim == CHOOSE f \in NewClaims(S) : TRUE IN
             /\ claim \in [S -> FreeClaims]
             /\ \A x, y \in S : claim[x] = claim[y] => x = y
BY DEF NewClaims

\* The initial state has its types.
LEMMA InitTyped == Init => TypeOK
BY TimersAssumption DEF Init, TypeOK, Claims, Idle

\* A committed claim keeps the types.
LEMMA ClaimCommitTyped ==
    ASSUME TypeOK, NEW i \in host.instances, ClaimCommit(i)
    PROVE  TypeOK'
<1> DEFINE claim == CHOOSE f \in NewClaims(poll[i]) : TRUE
<1>1. claim \in [poll[i] -> FreeClaims]
  BY ClaimsAreDistinct DEF ClaimCommit
<1>2. poll[i] \subseteq Ids /\ FreeClaims \subseteq Claims
  BY DEF TypeOK, FreeClaims, Claims
<1>3. row' = [x \in Ids |->
         IF x \in poll[i]
         THEN [status |-> "running", at |-> FALSE, claim |-> claim[x]] ELSE row[x]]
  BY DEF ClaimCommit
<1>4. exec' = [c \in Claims |->
         IF \E x \in poll[i] : claim[x] = c
         THEN [pc |-> "start", timer |-> CHOOSE x \in poll[i] : claim[x] = c, at |-> i]
         ELSE exec[c]]
  BY DEF ClaimCommit
<1> HIDE DEF claim
<1>5. \A x \in poll[i] : claim[x] \in Claims
  BY <1>1, <1>2
<1>6. row' \in [Ids -> Row]
  BY <1>3, <1>5, RowsWritten DEF TypeOK, Row
<1>7. \A c \in Claims : (\E x \in poll[i] : claim[x] = c)
                          => (CHOOSE x \in poll[i] : claim[x] = c) \in Ids
  BY <1>2
<1>8. exec' \in [Claims -> {Idle} \cup Execution]
  BY <1>4, <1>7 DEF TypeOK, Execution
<1> QED
  BY <1>6, <1>8 DEF TypeOK, Row, Execution, ClaimCommit

\* So do the steps of an execution.
LEMMA ExecuteTyped ==
    ASSUME TypeOK, NEW c \in Claims,
           Execute(c) \/ Refuse(c) \/ LaunchFails(c) \/ Raises(c)
    PROVE  TypeOK'
<1>1. exec[c] \in Execution
  BY RunningIsExecution
     DEF Execute, Refuse, LaunchFails, Raises, Running, Read, Check, Requeue, Post, Launch
<1>2. exec' \in [Claims -> {Idle} \cup Execution]
  BY <1>1 DEF TypeOK, Execution, Execute, Refuse, LaunchFails, Raises, Read, Check, Requeue,
              Post, Launch, Goes, Over
<1>3. row \in [Ids -> Row] /\ exec[c].timer \in Ids
  BY <1>1 DEF TypeOK, Row, Execution
<1>4. row' \in [Ids -> Row]
  <2>1. CASE Read(c) \/ Check(c) \/ Launch(c) \/ Raises(c)
    BY <1>3, <2>1 DEF Read, Check, Launch, Raises
  <2>2. CASE Requeue(c)
    BY <1>3, <2>2, RowsWritten DEF Requeue
  <2>3. CASE Post(c) \/ Refuse(c) \/ LaunchFails(c)
    BY <1>3, <2>3, StatesSet DEF Post, Refuse, LaunchFails, Settled
  <2> QED BY <2>1, <2>2, <2>3 DEF Execute
<1> QED
  BY <1>1, <1>2, <1>4
     DEF TypeOK, Row, Execution, Execute, Refuse, LaunchFails, Raises, Read, Check, Requeue,
         Post, Launch

\* Every step keeps the types.
LEMMA StepTyped == TypeOK /\ [Next]_vars => TypeOK'
<1> SUFFICES ASSUME TypeOK, [Next]_vars PROVE TypeOK'
  OBVIOUS
<1>1. ASSUME NEW x \in Ids, create_timer(x) \/ Elapse(x) PROVE TypeOK'
  <2>1. row' \in [Ids -> Row]
    BY <1>1, RowsWritten DEF TypeOK, Row, create_timer, Elapse
  <2> QED BY <1>1, <2>1 DEF TypeOK, Row, create_timer, Elapse
<1>2. ASSUME NEW i \in host.instances, ClaimSelect(i) PROVE TypeOK'
  BY <1>2 DEF TypeOK, ClaimSelect
<1>3. ASSUME NEW i \in host.instances, Crash(i) PROVE TypeOK'
  <2>1. crashes' \in 0..MaxCrashes
    BY <1>3, Bounds DEF TypeOK, Crash
  <2>2. exec' \in [Claims -> {Idle} \cup Execution]
    BY <1>3 DEF TypeOK, Execution, Crash
  <2>3. turns' \subseteq Ids \cup Events
    BY <1>3 DEF TypeOK, Crash
  <2>4. event' \in [Events -> [pc : {"idle", "cancel", "turn", "done"}, read : SUBSET Ids]]
    BY <1>3 DEF TypeOK, Crash
  <2> QED BY <1>3, <2>1, <2>2, <2>3, <2>4 DEF TypeOK, Execution, Crash
<1>4. ASSUME NEW k \in Events, CancelSelect(k) PROVE TypeOK'
  BY <1>4 DEF TypeOK, CancelSelect
<1>5. ASSUME NEW k \in Events, CancelCommit(k) PROVE TypeOK'
  <2>1. row' \in [Ids -> Row]
    BY <1>5, RowsWritten DEF TypeOK, Row, CancelCommit
  <2> QED BY <1>5, <2>1 DEF TypeOK, Row, CancelCommit
<1>6. ASSUME NEW k \in Events, StartTurn(k) PROVE TypeOK'
  BY <1>6 DEF TypeOK, StartTurn
<1>7. ASSUME NEW z \in turns, EndTurn(z) PROVE TypeOK'
  BY <1>7 DEF TypeOK, EndTurn
<1>8. CASE UNCHANGED vars
  BY <1>8 DEF TypeOK, vars
<1> QED
  BY <1>1, <1>2, <1>3, <1>4, <1>5, <1>6, <1>7, <1>8, ClaimCommitTyped, ExecuteTyped DEF Next

\* Every variable keeps its type, through claims, requeues and crashes.
THEOREM TypeCorrect == Spec => []TypeOK
BY InitTyped, StepTyped, PTL DEF Spec

(***************************************************************************)
(* A timer is posted at most once.                                         *)
(***************************************************************************)

\* The execution c is entitled to post x: it has passed the check of its claim,
\* or would pass it.
Entitled(c, x) ==
    /\ Running(c) /\ exec[c].timer = x
    /\ \/ exec[c].pc \in {"check", "requeue", "post"}
       \/ exec[c].pc = "start" /\ row[x].status = "running" /\ row[x].claim = c

\* Nothing has posted x and nothing is about to.
Fresh(x) == posted[x] = 0 /\ \A c \in Claims : ~Entitled(c, x)

\* A row is in the hands of at most one poll; a row in its hands, and one that
\* waits, is fresh; and at most one execution is entitled to post a timer, which
\* has not been posted then.
ClaimInvariant ==
    /\ \A x \in Ids : \A i, j \in host.instances : x \in poll[i] /\ x \in poll[j] => i = j
    /\ \A x \in Ids : \A i \in host.instances : x \in poll[i] => Fresh(x)
    /\ \A x \in Ids : row[x].status \in {"none", "pending"} => Fresh(x)
    /\ \A x \in Ids : \A c, d \in Claims : Entitled(c, x) /\ Entitled(d, x) => c = d
    /\ \A x \in Ids : \A c \in Claims : Entitled(c, x) => posted[x] = 0
    /\ FiresOnce

\* The initial state satisfies the invariant.
LEMMA InitClaims == Init => ClaimInvariant
BY DEF Init, ClaimInvariant, Fresh, Entitled, Running, FiresOnce, Idle, Claims

\* Most steps take rows and rights away and give none.
LEMMA Shrinks ==
    ASSUME ClaimInvariant, host' = host, posted' = posted,
           \A i \in host.instances : poll'[i] \subseteq poll[i],
           \A x \in Ids, c \in Claims : Entitled(c, x)' => Entitled(c, x),
           \A x \in Ids : row'[x].status \in {"none", "pending"}
                            => row[x].status \in {"none", "pending"}
    PROVE  ClaimInvariant'
<1> USE DEF ClaimInvariant
<1>1. \A x \in Ids : Fresh(x) => Fresh(x)'
  BY DEF Fresh
<1>2. FiresOnce'
  BY DEF FiresOnce
<1> QED BY <1>1, <1>2

\* A poll takes rows that wait and, where two may poll, that no poll has.
LEMMA SelectKeeps ==
    ASSUME TypeOK, ClaimInvariant, NEW i \in host.instances, ClaimSelect(i)
    PROVE  ClaimInvariant'
<1>1. host' = host /\ posted' = posted /\ row' = row /\ exec' = exec
  BY DEF ClaimSelect
<1>2. \A x \in Ids, c \in Claims : Entitled(c, x)' <=> Entitled(c, x)
  BY <1>1 DEF Entitled, Running
<1>3. \A x \in Ids : Fresh(x)' <=> Fresh(x)
  BY <1>1, <1>2 DEF Fresh
<1>4. \A j \in host.instances :
        poll'[j] = IF j = i THEN {x \in Ids : Claimable(x) /\ ~Locked(x)} ELSE poll[j]
  BY DEF ClaimSelect, TypeOK
<1>5. ASSUME NEW x \in Ids, NEW j \in host.instances, x \in poll'[j]
      PROVE  Fresh(x)'
  <2>1. CASE j = i
    BY <1>3, <1>4, <1>5, <2>1 DEF Claimable, ClaimInvariant
  <2>2. CASE j # i
    BY <1>3, <1>4, <1>5, <2>2 DEF ClaimInvariant
  <2> QED BY <2>1, <2>2
<1>6. ASSUME NEW x \in Ids, NEW j \in host.instances, x \in poll'[i], x \in poll'[j], j # i
      PROVE  FALSE
  <2>1. x \in poll[j] /\ ~Locked(x)
    BY <1>4, <1>6
  <2>2. ~host.postgres
    BY <2>1 DEF Locked
  <2>3. host \in Deployments
    BY DEF TypeOK
  <2> QED BY <1>6, <2>2, <2>3, SupportedAssumption
<1>7. \A x \in Ids : \A j, k \in host.instances : x \in poll'[j] /\ x \in poll'[k] => j = k
  BY <1>4, <1>6 DEF ClaimInvariant
<1> QED
  BY <1>1, <1>2, <1>3, <1>5, <1>7 DEF ClaimInvariant, FiresOnce

\* A claim entitles its own execution, and nobody else, to the rows it took.
LEMMA CommitKeeps ==
    ASSUME TypeOK, ClaimInvariant, NEW i \in host.instances, ClaimCommit(i)
    PROVE  ClaimInvariant'
<1> DEFINE claim == CHOOSE f \in NewClaims(poll[i]) : TRUE
<1>1. /\ claim \in [poll[i] -> FreeClaims]
      /\ \A x, y \in poll[i] : claim[x] = claim[y] => x = y
  BY ClaimsAreDistinct DEF ClaimCommit
<1>2. row' = [x \in Ids |->
         IF x \in poll[i]
         THEN [status |-> "running", at |-> FALSE, claim |-> claim[x]] ELSE row[x]]
  BY DEF ClaimCommit
<1>3. exec' = [c \in Claims |->
         IF \E x \in poll[i] : claim[x] = c
         THEN [pc |-> "start", timer |-> CHOOSE x \in poll[i] : claim[x] = c, at |-> i]
         ELSE exec[c]]
  BY DEF ClaimCommit
<1> HIDE DEF claim
<1>4. host' = host /\ posted' = posted
  BY DEF ClaimCommit
<1>5. \A j \in host.instances : poll'[j] = IF j = i THEN {} ELSE poll[j]
  BY DEF ClaimCommit, TypeOK
<1>6. ASSUME NEW x \in Ids, NEW c \in Claims, Entitled(c, x)', x \in poll[i]
      PROVE  c = claim[x]
  <2>1. CASE \E y \in poll[i] : claim[y] = c
    BY <1>1, <1>3, <1>6, <2>1 DEF Entitled
  <2>2. CASE ~\E y \in poll[i] : claim[y] = c
    <3>1. exec'[c] = exec[c] /\ row'[x].claim = claim[x] /\ claim[x] # c
      BY <1>2, <1>3, <1>6, <2>2
    <3>2. Entitled(c, x)
      BY <1>6, <3>1 DEF Entitled, Running
    <3> QED BY <1>6, <3>2 DEF ClaimInvariant, Fresh
  <2> QED BY <2>1, <2>2
<1>7. ASSUME NEW x \in Ids, NEW c \in Claims, Entitled(c, x)', x \notin poll[i]
      PROVE  Entitled(c, x)
  <2>1. CASE \E y \in poll[i] : claim[y] = c
    BY <1>3, <1>7, <2>1 DEF Entitled
  <2>2. CASE ~\E y \in poll[i] : claim[y] = c
    <3>1. exec'[c] = exec[c] /\ row'[x] = row[x]
      BY <1>2, <1>3, <1>7, <2>2
    <3> QED BY <1>7, <3>1 DEF Entitled, Running
  <2> QED BY <2>1, <2>2
<1>8. \A x \in Ids : x \notin poll[i] /\ Fresh(x) => Fresh(x)'
  BY <1>4, <1>7 DEF Fresh
<1>9. \A x \in Ids : row'[x].status \in {"none", "pending"} => Fresh(x)'
  BY <1>2, <1>8 DEF ClaimInvariant
<1>10. \A x \in Ids : \A j \in host.instances : x \in poll'[j] => Fresh(x)'
  BY <1>5, <1>8 DEF ClaimInvariant
<1>11. \A x \in Ids : \A c, d \in Claims : Entitled(c, x)' /\ Entitled(d, x)' => c = d
  BY <1>6, <1>7 DEF ClaimInvariant
<1>12. \A x \in Ids : \A c \in Claims : Entitled(c, x)' => posted[x] = 0
  BY <1>7 DEF ClaimInvariant, Fresh
<1>13. \A x \in Ids : \A j, k \in host.instances : x \in poll'[j] /\ x \in poll'[k] => j = k
  BY <1>5 DEF ClaimInvariant
<1> QED
  BY <1>4, <1>9, <1>10, <1>11, <1>12, <1>13 DEF ClaimInvariant, FiresOnce

\* The timer goes back: the one execution that could post it is over.
LEMMA RequeueKeeps ==
    ASSUME TypeOK, ClaimInvariant, NEW c \in Claims, Requeue(c)
    PROVE  ClaimInvariant'
<1>1. PICK t \in Ids : t = exec[c].timer /\ Entitled(c, t)
  BY RunningIsExecution DEF Requeue, Execution, Entitled, Running
<1>2. host' = host /\ posted' = posted /\ poll' = poll
  BY DEF Requeue
<1>3. \A x \in Ids, d \in Claims : Entitled(d, x)' => Entitled(d, x) /\ d # c
  <2>1. \A x \in Ids : row'[x] = IF x = t THEN [status |-> "pending", at |-> TRUE, claim |-> 0]
                                 ELSE row[x]
    BY <1>1 DEF Requeue, TypeOK
  <2>2. \A d \in Claims : exec'[d] = IF d = c THEN Idle ELSE exec[d]
    BY DEF Requeue, Over, TypeOK
  <2> QED BY <2>1, <2>2 DEF Entitled, Running, Idle
<1>4. Fresh(t)'
  BY <1>1, <1>2, <1>3 DEF ClaimInvariant, Fresh
<1>5. \A x \in Ids : Fresh(x) => Fresh(x)'
  BY <1>2, <1>3 DEF Fresh
<1>6. \A x \in Ids : row'[x].status \in {"none", "pending"} => Fresh(x)'
  <2>1. \A x \in Ids : x # t => row'[x] = row[x]
    BY <1>1 DEF Requeue, TypeOK
  <2> QED BY <1>4, <1>5, <2>1 DEF ClaimInvariant
<1> QED
  BY <1>2, <1>3, <1>5, <1>6 DEF ClaimInvariant, FiresOnce

\* The timer is posted, for the first time, and nobody is left to post it again.
LEMMA PostKeeps ==
    ASSUME TypeOK, ClaimInvariant, NEW c \in Claims, Post(c)
    PROVE  ClaimInvariant'
<1>1. PICK t \in Ids : t = exec[c].timer /\ Entitled(c, t)
  BY RunningIsExecution DEF Post, Execution, Entitled, Running
<1>2. host' = host /\ poll' = poll
  BY DEF Post
<1>3. \A x \in Ids, d \in Claims : Entitled(d, x)' => Entitled(d, x) /\ d # c
  <2>1. \A x \in Ids : row'[x].status = "running" => row'[x] = row[x]
    BY <1>1 DEF Post, SetState, TypeOK
  <2>2. \A d \in Claims : d # c => exec'[d] = exec[d]
    BY DEF Post, Goes, TypeOK
  <2>3. exec'[c].pc = "launch"
    <3>1. exec[c] \in Execution
      BY RunningIsExecution DEF Post
    <3> QED BY <3>1 DEF Post, Goes, TypeOK, Execution
  <2> QED BY <2>1, <2>2, <2>3 DEF Entitled, Running
<1>4. posted[t] = 0 /\ \A d \in Claims : ~Entitled(d, t)'
  BY <1>1, <1>3 DEF ClaimInvariant
<1>5. \A x \in Ids : posted'[x] = IF x = t THEN 1 ELSE posted[x]
  BY <1>1, <1>4 DEF Post, TypeOK
<1>6. \A x \in Ids : Fresh(x) => x # t /\ Fresh(x)'
  BY <1>1, <1>3, <1>5 DEF Fresh
<1>7. \A x \in Ids : row'[x].status \in {"none", "pending"} => Fresh(x)'
  <2>1. \A x \in Ids : row'[x].status \in {"none", "pending"} => row'[x] = row[x]
    BY <1>1 DEF Post, SetState, TypeOK
  <2> QED BY <1>6, <2>1 DEF ClaimInvariant
<1>8. \A x \in Ids, d \in Claims : Entitled(d, x)' => posted'[x] = 0
  BY <1>3, <1>4, <1>5 DEF ClaimInvariant
<1>9. FiresOnce'
  BY <1>5 DEF ClaimInvariant, FiresOnce
<1> QED
  BY <1>2, <1>3, <1>6, <1>7, <1>8, <1>9 DEF ClaimInvariant

\* One case per action: what is not a poll, a claim, a requeue or a post gives
\* no right to post.
LEMMA StepClaims == TypeOK /\ ClaimInvariant /\ [Next]_vars => ClaimInvariant'
<1> SUFFICES ASSUME TypeOK, ClaimInvariant, [Next]_vars PROVE ClaimInvariant'
  OBVIOUS
<1>1. ASSUME NEW x \in Ids, create_timer(x) PROVE ClaimInvariant'
  <2>1. \A y \in Ids : row'[y] = IF y = x THEN [status |-> "pending", at |-> TRUE, claim |-> 0]
                                 ELSE row[y]
    BY <1>1 DEF create_timer, TypeOK
  <2>2. \A y \in Ids, c \in Claims : Entitled(c, y)' => Entitled(c, y)
    BY <1>1, <2>1 DEF create_timer, Entitled, Running
  <2> QED BY <1>1, <2>1, <2>2, Shrinks DEF create_timer
<1>2. ASSUME NEW x \in Ids, Elapse(x) PROVE ClaimInvariant'
  <2>1. \A y \in Ids, c \in Claims : Entitled(c, y)' => Entitled(c, y)
    BY <1>2 DEF Elapse, Entitled, Running
  <2> QED BY <1>2, <2>1, Shrinks DEF Elapse
<1>3. ASSUME NEW i \in host.instances, Crash(i) PROVE ClaimInvariant'
  <2>1. \A c \in Claims : exec'[c] = exec[c] \/ exec'[c].pc = "none"
    BY <1>3 DEF Crash, Idle
  <2>2. \A y \in Ids, c \in Claims : Entitled(c, y)' => Entitled(c, y)
    BY <1>3, <2>1 DEF Crash, Entitled, Running
  <2>3. \A j \in host.instances : poll'[j] \subseteq poll[j]
    BY <1>3 DEF Crash, TypeOK
  <2> QED BY <1>3, <2>2, <2>3, Shrinks DEF Crash
<1>4. ASSUME NEW k \in Events, CancelSelect(k) \/ StartTurn(k) PROVE ClaimInvariant'
  <2>1. \A y \in Ids, c \in Claims : Entitled(c, y)' => Entitled(c, y)
    BY <1>4 DEF CancelSelect, StartTurn, Entitled, Running
  <2> QED BY <1>4, <2>1, Shrinks DEF CancelSelect, StartTurn
<1>5. ASSUME NEW k \in Events, CancelCommit(k) PROVE ClaimInvariant'
  <2>1. \A y \in Ids : row'[y] = row[y] \/ row'[y].status = "cancelled"
    BY <1>5 DEF CancelCommit
  <2>2. \A y \in Ids, c \in Claims : Entitled(c, y)' => Entitled(c, y)
    BY <1>5, <2>1 DEF CancelCommit, Entitled, Running
  <2> QED BY <1>5, <2>1, <2>2, Shrinks DEF CancelCommit
<1>6. ASSUME NEW z \in turns, EndTurn(z) PROVE ClaimInvariant'
  <2>1. \A y \in Ids, c \in Claims : Entitled(c, y)' => Entitled(c, y)
    BY <1>6 DEF EndTurn, Entitled, Running
  <2> QED BY <1>6, <2>1, Shrinks DEF EndTurn
<1>7. ASSUME NEW c \in Claims, Read(c) \/ Check(c) \/ Launch(c) PROVE ClaimInvariant'
  <2>1. exec[c] \in Execution
    BY <1>7, RunningIsExecution DEF Read, Check, Launch
  <2>2. \A d \in Claims : d # c => exec'[d] = exec[d]
    BY <1>7 DEF Read, Check, Launch, Goes, Over, TypeOK
  <2>3. row' = row
    BY <1>7 DEF Read, Check, Launch
  <2>4. \A y \in Ids : Entitled(c, y)' => Entitled(c, y)
    <3>1. CASE Read(c) \/ Launch(c)
      BY <2>1, <2>3, <3>1
         DEF Read, Launch, Goes, Over, Idle, TypeOK, Execution, Entitled, Running
    <3>2. CASE Check(c)
      BY <2>1, <2>3, <3>2 DEF Check, Goes, TypeOK, Execution, Entitled, Running
    <3> QED BY <1>7, <3>1, <3>2
  <2>5. \A y \in Ids, d \in Claims : Entitled(d, y)' => Entitled(d, y)
    BY <2>2, <2>3, <2>4 DEF Entitled, Running
  <2> QED BY <1>7, <2>3, <2>5, Shrinks DEF Read, Check, Launch
<1>8. ASSUME NEW c \in Claims, Refuse(c) \/ LaunchFails(c) \/ Raises(c) PROVE ClaimInvariant'
  <2>1. \A d \in Claims : exec'[d] = exec[d] \/ exec'[d].pc = "none"
    BY <1>8 DEF Refuse, LaunchFails, Raises, Over, Idle, TypeOK
  <2>2. \A y \in Ids : row'[y] = row[y] \/ row'[y].status = "error"
    BY <1>8 DEF Refuse, LaunchFails, Raises, SetState, TypeOK
  <2>3. \A y \in Ids, d \in Claims : Entitled(d, y)' => Entitled(d, y)
    BY <2>1, <2>2 DEF Entitled, Running
  <2> QED BY <1>8, <2>2, <2>3, Shrinks DEF Refuse, LaunchFails, Raises
<1>9. CASE UNCHANGED vars
  <2>1. \A y \in Ids, d \in Claims : Entitled(d, y)' => Entitled(d, y)
    BY <1>9 DEF vars, Entitled, Running
  <2> QED BY <1>9, <2>1, Shrinks DEF vars
<1> QED
  BY <1>1, <1>2, <1>3, <1>4, <1>5, <1>6, <1>7, <1>8, <1>9,
     SelectKeeps, CommitKeeps, RequeueKeeps, PostKeeps DEF Next, Execute

\* FiresOnce in every reachable state, for any number of timers, events, claims,
\* instances and crashes: the second reading of the row, under the claim's own
\* id, is what keeps a timer that was claimed twice from being posted twice
\* (timers.py:170, 229, 241).
THEOREM PostedOnce == Spec => []FiresOnce
<1>1. TypeOK /\ ClaimInvariant /\ [Next]_vars => ClaimInvariant'
  BY StepClaims
<1>2. ClaimInvariant => FiresOnce
  BY DEF ClaimInvariant
<1> QED
  BY InitClaims, TypeCorrect, <1>1, <1>2, PTL DEF Spec

\* A step that leaves the row, and every hand on it, as it was.
LEMMA StaysCancelled ==
    ASSUME NEW x \in Ids, row[x].status = "cancelled", ~InFlight(x), host' = host,
           row'[x].status = "cancelled",
           \A i \in host.instances : x \in poll'[i] => x \in poll[i],
           \A c \in Claims : \/ exec'[c] = exec[c]
                             \/ exec'[c].pc \in {"none", "start"}
                             \/ exec'[c].timer = exec[c].timer /\ exec[c].pc \notin {"none", "start"}
    PROVE  (row[x].status = "cancelled" /\ ~InFlight(x))'
BY DEF InFlight, Running

\* Every step keeps a cancelled timer that nobody is at work on so: a poll takes
\* pending rows only, and an execution that starts sees that its claim is gone.
LEMMA StepCancelled ==
    TypeOK /\ [Next]_vars
      => [\A x \in Ids : row[x].status = "cancelled" /\ ~InFlight(x)
                           => (row[x].status = "cancelled" /\ ~InFlight(x))']_vars
<1> SUFFICES ASSUME TypeOK, Next, NEW x \in Ids, row[x].status = "cancelled", ~InFlight(x)
             PROVE  (row[x].status = "cancelled" /\ ~InFlight(x))'
  OBVIOUS
<1>1. ASSUME NEW y \in Ids, create_timer(y) \/ Elapse(y)
      PROVE  (row[x].status = "cancelled" /\ ~InFlight(x))'
  BY <1>1, StaysCancelled DEF create_timer, Elapse, TypeOK
<1>2. ASSUME NEW i \in host.instances, ClaimSelect(i)
      PROVE  (row[x].status = "cancelled" /\ ~InFlight(x))'
  <2>1. ~Claimable(x)
    BY DEF Claimable
  <2>2. \A j \in host.instances : x \in poll'[j] => x \in poll[j]
    BY <1>2, <2>1 DEF ClaimSelect, TypeOK
  <2> QED BY <1>2, <2>2, StaysCancelled DEF ClaimSelect
<1>3. ASSUME NEW i \in host.instances, ClaimCommit(i)
      PROVE  (row[x].status = "cancelled" /\ ~InFlight(x))'
  <2>1. x \notin poll[i]
    BY DEF InFlight
  <2>2. row'[x] = row[x]
    BY <1>3, <2>1 DEF ClaimCommit
  <2>3. \A c \in Claims : exec'[c] = exec[c] \/ exec'[c].pc = "start"
    BY <1>3 DEF ClaimCommit
  <2>4. \A j \in host.instances : x \in poll'[j] => x \in poll[j]
    BY <1>3 DEF ClaimCommit, TypeOK
  <2> QED BY <1>3, <2>2, <2>3, <2>4, StaysCancelled DEF ClaimCommit
<1>4. ASSUME NEW i \in host.instances, Crash(i)
      PROVE  (row[x].status = "cancelled" /\ ~InFlight(x))'
  <2>1. \A c \in Claims : exec'[c] = exec[c] \/ exec'[c].pc = "none"
    BY <1>4 DEF Crash, Idle
  <2>2. \A j \in host.instances : x \in poll'[j] => x \in poll[j]
    BY <1>4 DEF Crash, TypeOK
  <2> QED BY <1>4, <2>1, <2>2, StaysCancelled DEF Crash
<1>5. ASSUME NEW k \in Events, CancelSelect(k) \/ CancelCommit(k) \/ StartTurn(k)
      PROVE  (row[x].status = "cancelled" /\ ~InFlight(x))'
  <2>1. row'[x].status = "cancelled"
    BY <1>5 DEF CancelSelect, CancelCommit, StartTurn
  <2> QED BY <1>5, <2>1, StaysCancelled DEF CancelSelect, CancelCommit, StartTurn
<1>6. ASSUME NEW z \in turns, EndTurn(z)
      PROVE  (row[x].status = "cancelled" /\ ~InFlight(x))'
  BY <1>6, StaysCancelled DEF EndTurn
<1>7. ASSUME NEW c \in Claims, Execute(c) \/ Refuse(c) \/ LaunchFails(c)
      PROVE  (row[x].status = "cancelled" /\ ~InFlight(x))'
  <2>1. exec[c] \in Execution
    BY <1>7, RunningIsExecution
       DEF Execute, Read, Check, Requeue, Post, Launch, Refuse, LaunchFails
  <2>2. CASE Read(c)
    <3>1. exec[c].timer = x => exec'[c].pc = "none"
      BY <2>1, <2>2 DEF Read, Over, Idle, TypeOK
    <3>2. exec'[c].pc = "none" \/ (exec'[c].pc = "check" /\ exec'[c].timer = exec[c].timer)
      BY <2>1, <2>2 DEF Read, Over, Goes, Idle, TypeOK, Execution
    <3>3. \A d \in Claims : d # c => exec'[d] = exec[d]
      BY <2>2 DEF Read, Over, Goes, TypeOK
    <3>4. host' = host /\ row' = row /\ poll' = poll
      BY <2>2 DEF Read
    <3> QED BY <3>1, <3>2, <3>3, <3>4 DEF InFlight, Running
  <2>3. CASE ~Read(c)
    <3>1. exec[c].pc \notin {"none", "start"}
      BY <1>7, <2>3 DEF Execute, Check, Requeue, Post, Launch, Refuse, LaunchFails
    <3>2. exec[c].timer # x
      BY <3>1 DEF InFlight, Running
    <3>3. row'[x] = row[x]
      BY <1>7, <2>1, <2>3, <3>2
         DEF Execute, Check, Requeue, Post, Launch, Refuse, LaunchFails, SetState, TypeOK
    <3>4. \A d \in Claims : \/ exec'[d] = exec[d]
                            \/ exec'[d].pc = "none"
                            \/ d = c /\ exec'[d].timer = exec[d].timer
      BY <1>7, <2>1, <2>3 DEF Execute, Check, Requeue, Post, Launch, Refuse, LaunchFails,
                              Goes, Over, Idle, TypeOK, Execution
    <3>5. host' = host /\ poll' = poll
      BY <1>7, <2>3 DEF Execute, Check, Requeue, Post, Launch, Refuse, LaunchFails
    <3> QED BY <3>1, <3>3, <3>4, <3>5, StaysCancelled
  <2> QED BY <2>2, <2>3
<1>8. ASSUME NEW c \in Claims, Raises(c) PROVE (row[x].status = "cancelled" /\ ~InFlight(x))'
  <2>1. \A d \in Claims : exec'[d] = exec[d] \/ exec'[d].pc = "none"
    BY <1>8 DEF Raises, Over, Idle, TypeOK
  <2> QED BY <1>8, <2>1, StaysCancelled DEF Raises
<1> QED
  BY <1>1, <1>2, <1>3, <1>4, <1>5, <1>6, <1>7, <1>8 DEF Next

\* CancelledStaysCancelled for every instance of the model: the cancellation of a
\* timer that nobody has read or is executing is final (timers.py:178, 241).
THEOREM CancellationStands == Spec => CancelledStaysCancelled
<1>1. TypeOK /\ [Next]_vars
        => [\A x \in Ids : row[x].status = "cancelled" /\ ~InFlight(x)
                             => (row[x].status = "cancelled" /\ ~InFlight(x))']_vars
  BY StepCancelled
<1> QED
  BY TypeCorrect, <1>1, PTL DEF Spec, CancelledStaysCancelled
=============================================================================
