-------------------------- MODULE TaskRegistryProofs --------------------------
(***************************************************************************)
(* What the registry's tables can be relied on for, proved for any number  *)
(* of tasks, stops, server processes and faults, with Redis and without.   *)
(*                                                                         *)
(* Registry is the inductive invariant.  Shape types the stops under way;  *)
(* Recorded orders a task's save before its place in the hash and the set, *)
(* so that an id a stop removed does not come back; Stopping says what a   *)
(* stop has done so far of what it says at its end.                        *)
(***************************************************************************)
EXTENDS TaskRegistry, FiniteSetTheorems, SequenceTheorems, TLAPS

StopPcs == {"idle", "next", "publish", "remove", "scard", "delete", "await", "empty",
            "all", "failed", "raised"}

StopRecord == [pc : StopPcs, found : Seq(Tasks), todo : SUBSET Tasks, idx : Nat \ {0},
               live : BOOLEAN, cur : SUBSET Tasks, known : BOOLEAN]

Shape ==
    /\ TypeOK
    /\ stop \in [Stops -> StopRecord]
    /\ IsFiniteSet(members)

Saved == {"done", "late"}

Recorded ==
    /\ \A t \in Tasks : status[t] = "none" => saving[t] = "no"
    /\ members \subseteq hash
    /\ \A t \in hash : saving[t] \in Saved

\* The steps of a stop with Redis once it has its copy of the item's set.
Remote == {"next", "publish", "remove", "scard", "delete", "all"}

\* A stop with Redis, by the tasks told, the saves and the hash: an id it found
\* is still to do, being done, or told to stop and out of the hash for good.
Removing(r, tl, sv, h) ==
    /\ r.pc # "await"
    /\ r.pc = "remove" => r.cur \subseteq tl
    /\ r.pc \in {"publish", "remove"} => /\ r.cur \subseteq ToSet(r.found)
                                         /\ ~r.known => r.cur \cap h = {}
    /\ r.pc \in Remote =>
         /\ r.todo \subseteq ToSet(r.found)
         /\ \A t \in ToSet(r.found) :
              /\ sv[t] \in Saved
              /\ \/ t \in r.todo
                 \/ r.pc \in {"publish", "remove"} /\ t \in r.cur
                 \/ t \in tl /\ t \notin h
    /\ r.pc = "all" => r.todo = {}

\* A stop without Redis, by the states of the tasks: it awaits the first task
\* it found, or that one is over.
Awaiting(r, st) ==
    /\ r.pc \in {"idle", "await", "empty", "all", "failed", "raised"}
    /\ r.pc = "idle" => r.idx = 1
    /\ r.pc \in {"await", "all"} =>
         /\ r.found # <<>>
         /\ \/ r.pc = "await" /\ r.cur = {Head(r.found)}
            \/ st[Head(r.found)] = "ended"

Stopping ==
    \A s \in Stops : IF redis THEN Removing(stop[s], told, saving, hash)
                              ELSE Awaiting(stop[s], status)

Registry == Shape /\ Recorded /\ Stopping /\ RunningIsListed

-----------------------------------------------------------------------------
(* The operators of the model *)

\* The members of a sequence.
LEMMA ToSetIn ==
    ASSUME NEW S, NEW q \in Seq(S)
    PROVE  /\ ToSet(q) \subseteq S
           /\ \A i \in 1..Len(q) : q[i] \in ToSet(q)
           /\ \A x \in ToSet(q) : \E i \in 1..Len(q) : q[i] = x
BY DEF ToSet

\* An append loses no member.
LEMMA ToSetAppend ==
    ASSUME NEW S, NEW q \in Seq(S), NEW e \in S
    PROVE  /\ Append(q, e) \in Seq(S)
           /\ ToSet(q) \subseteq ToSet(Append(q, e))
           /\ e \in ToSet(Append(q, e))
<1>1. /\ Append(q, e) \in Seq(S) /\ Len(Append(q, e)) = Len(q) + 1 /\ Len(q) \in Nat
      /\ \A i \in 1..Len(q) : Append(q, e)[i] = q[i]
      /\ Append(q, e)[Len(q) + 1] = e
  BY AppendProperties, LenProperties
<1>2. DOMAIN Append(q, e) = 1..(Len(q) + 1) /\ DOMAIN q = 1..Len(q)
  BY <1>1, LenProperties
<1> QED
  BY <1>1, <1>2 DEF ToSet

\* A set of numbers has a least one.
LEMMA SmallestIn ==
    ASSUME NEW I \in SUBSET Nat, I # {}
    PROVE  \E i \in I : \A j \in I : i <= j
<1> DEFINE R == OpToRel(<, Nat)
<1>1. IsWellFoundedOn(R, Nat)
  BY NatLessThanWellFounded
<1>2. \A i, j \in Nat : j < i => <<j, i>> \in R
  BY DEF OpToRel
<1> HIDE DEF R
<1>3. PICK i \in I : \A j \in I : ~(<<j, i>> \in R)
  BY <1>1, WFMin
<1>4. ASSUME NEW j \in I PROVE i <= j
  <2>1. i \in Nat /\ j \in Nat
    OBVIOUS
  <2>2. ~(j < i)
    BY <1>2, <1>3, <2>1
  <2> QED
    BY <2>1, <2>2
<1> QED
  BY <1>3, <1>4

\* list.remove takes out one occurrence of its argument and nothing else.
LEMMA RemoveFirstKeeps ==
    ASSUME NEW S, NEW q \in Seq(S), NEW e
    PROVE  /\ RemoveFirst(q, e) \in Seq(S)
           /\ \A x \in ToSet(q) : x # e => x \in ToSet(RemoveFirst(q, e))
<1>1. CASE ~\E i \in 1..Len(q) : q[i] = e
  BY <1>1 DEF RemoveFirst
<1>2. CASE \E i \in 1..Len(q) : q[i] = e
  <2> DEFINE I == {i \in 1..Len(q) : q[i] = e}
             k == Min(I)
             a == SubSeq(q, 1, k - 1)
             b == SubSeq(q, k + 1, Len(q))
  <2>1. RemoveFirst(q, e) = a \o b
    BY <1>2 DEF RemoveFirst, RemoveAt, SelectInSeq
  <2>2. k \in I
    <3>1. I \in SUBSET Nat /\ I # {}
      BY <1>2
    <3> HIDE DEF I
    <3>2. \E i \in I : \A j \in I : i <= j
      BY <3>1, SmallestIn
    <3> QED
      BY <3>2 DEF Min
  <2>3. Len(q) \in Nat /\ DOMAIN q = 1..Len(q) /\ k \in 1..Len(q) /\ q[k] = e
    BY <2>2, LenProperties
  <2> HIDE DEF k
  <2>4. /\ a \in Seq(S) /\ Len(a) = k - 1 /\ \A i \in 1..(k - 1) : a[i] = q[i]
    BY <2>3, SubSeqProperties
  <2>5. /\ b \in Seq(S) /\ Len(b) = Len(q) - k
        /\ \A i \in 1..(Len(q) - k) : b[i] = q[k + i]
    <3>1. \A i \in (k + 1)..Len(q) : q[i] \in S
      BY <2>3, LenProperties
    <3>2. /\ b \in Seq(S) /\ Len(b) = IF k + 1 <= Len(q) THEN Len(q) - (k + 1) + 1 ELSE 0
          /\ \A i \in 1..(Len(q) - (k + 1) + 1) : b[i] = q[(k + 1) + i - 1]
      BY <2>3, <3>1, SubSeqProperties
    <3> HIDE DEF b
    <3>3. Len(q) - (k + 1) + 1 = Len(q) - k
      BY <2>3
    <3>4. ASSUME NEW i \in 1..(Len(q) - k) PROVE b[i] = q[k + i]
      <4>1. (k + 1) + i - 1 = k + i
        BY <2>3
      <4>2. b[i] = q[(k + 1) + i - 1]
        BY <3>2, <3>3
      <4> QED
        BY <4>1, <4>2
    <3>5. Len(b) = Len(q) - k
      BY <2>3, <3>2
    <3> QED
      BY <3>2, <3>4, <3>5
  <2> HIDE DEF a, b
  <2>6. /\ a \o b \in Seq(S) /\ Len(a \o b) = Len(a) + Len(b)
        /\ \A i \in 1..(Len(a) + Len(b)) :
             (a \o b)[i] = IF i <= Len(a) THEN a[i] ELSE b[i - Len(a)]
    BY <2>4, <2>5, ConcatProperties
  <2>7. ASSUME NEW x \in ToSet(q), x # e PROVE x \in ToSet(a \o b)
    <3>1. PICK i \in 1..Len(q) : q[i] = x
      BY ToSetIn
    <3>2. CASE i < k
      <4>1. i \in 1..Len(a \o b) /\ (a \o b)[i] = x
        BY <2>3, <2>4, <2>5, <2>6, <3>1, <3>2
      <4> QED
        BY <2>6, <4>1, ToSetIn
    <3>3. CASE i > k
      <4>1. /\ i - 1 \in 1..Len(a \o b) /\ ~(i - 1 <= Len(a))
            /\ (i - 1) - Len(a) = i - k /\ i - k \in 1..(Len(q) - k) /\ k + (i - k) = i
        BY <2>3, <2>4, <2>5, <2>6, <3>1, <3>3
      <4>2. (a \o b)[i - 1] = b[i - k]
        BY <2>6, <4>1
      <4>3. b[i - k] = x
        BY <2>5, <3>1, <4>1
      <4> QED
        BY <2>6, <4>1, <4>2, <4>3, ToSetIn
    <3> QED
      BY <2>3, <2>7, <3>1, <3>2, <3>3
  <2> QED
    BY <2>1, <2>6, <2>7
<1> QED
  BY <1>1, <1>2

\* The copy of the item's set holds the ids of the set.
LEMMA SetToSeqHolds ==
    ASSUME NEW S, IsFiniteSet(S)
    PROVE  SetToSeq(S) \in Seq(S) /\ ToSet(SetToSeq(S)) = S
<1> DEFINE n == Cardinality(S)
           g == SetToSeq(S)
<1>1. n \in Nat /\ ExistsBijection(1..n, S)
  BY FS_CardinalityType
<1>2. \E f \in [1..n -> S] : IsInjective(f)
  BY <1>1 DEF ExistsBijection, Bijection, Injection
<1>3. g \in [1..n -> S] /\ IsInjective(g)
  BY <1>2 DEF SetToSeq
<1>4. g \in Injection(1..n, S)
  BY <1>3 DEF Injection
<1> HIDE DEF g
<1>5. Cardinality(1..n) = n
  BY <1>1, FS_Interval
<1>6. g \in Surjection(1..n, S)
  BY <1>4, <1>5, FS_Injection
<1>7. g \in Seq(S)
  BY <1>1, <1>3, SeqDef
<1>8. ToSet(g) = S
  BY <1>3, <1>6 DEF ToSet, Surjection
<1> QED
  BY <1>7, <1>8 DEF g

-----------------------------------------------------------------------------
(* What a step may do to a stop it is not a step of *)

SameStop(g, r) ==
    /\ g.pc = r.pc /\ g.found = r.found /\ g.todo = r.todo /\ g.idx = r.idx
    /\ g.cur = r.cur /\ g.known = r.known

\* A stop that a step leaves alone keeps what it has done so far, with Redis.
LEMMA RemovingKept ==
    ASSUME NEW r \in StopRecord, NEW g \in StopRecord, SameStop(g, r),
           NEW tl, NEW sv, NEW h, Removing(r, tl, sv, h),
           NEW tl2, NEW sv2, NEW h2, tl \subseteq tl2,
           \A t \in Tasks : sv[t] \in Saved =>
               sv2[t] \in Saved /\ (t \notin h => t \notin h2)
    PROVE  Removing(g, tl2, sv2, h2)
<1>1. ToSet(r.found) \subseteq Tasks
  BY ToSetIn DEF StopRecord
<1>2. r.pc \in {"publish", "remove"} => r.pc \in Remote
  BY DEF Remote
<1> QED
  BY <1>1, <1>2 DEF Removing, SameStop

\* So does one without Redis.
LEMMA AwaitingKept ==
    ASSUME NEW r \in StopRecord, NEW g \in StopRecord, SameStop(g, r),
           NEW st, Awaiting(r, st),
           NEW st2, \A t \in Tasks : st[t] = "ended" => st2[t] = "ended"
    PROVE  Awaiting(g, st2)
<1>1. r.found # <<>> => Head(r.found) \in Tasks
  BY HeadTailProperties DEF StopRecord
<1> QED
  BY <1>1 DEF Awaiting, SameStop

\* The tables only move forward: what is told stays told, what is saved stays
\* saved and does not come back to the hash, and a task that is over stays over.
Forward ==
    /\ redis' = redis /\ told \subseteq told'
    /\ redis => \A t \in Tasks : saving[t] \in Saved =>
                    saving'[t] \in Saved /\ (t \notin hash => t \notin hash')
    /\ ~redis => \A t \in Tasks : status[t] = "ended" => status'[t] = "ended"

\* A step forward keeps every stop true that it does not move itself.
LEMMA StoppingKept ==
    ASSUME Registry, Forward, stop' \in [Stops -> StopRecord],
           NEW Same \in SUBSET Stops,
           \A s \in Same : SameStop(stop'[s], stop[s]),
           \A s \in Stops \ Same : IF redis THEN Removing(stop'[s], told', saving', hash')
                                            ELSE Awaiting(stop'[s], status')
    PROVE  Stopping'
<1>1. ASSUME NEW s \in Same
      PROVE  IF redis THEN Removing(stop'[s], told', saving', hash')
                      ELSE Awaiting(stop'[s], status')
  <2>1. stop[s] \in StopRecord /\ stop'[s] \in StopRecord /\ SameStop(stop'[s], stop[s])
    BY DEF Registry, Shape
  <2>2. CASE redis
    <3>1. Removing(stop[s], told, saving, hash)
      BY <2>2 DEF Registry, Stopping
    <3>2. \A t \in Tasks : saving[t] \in Saved =>
               saving'[t] \in Saved /\ (t \notin hash => t \notin hash')
      BY <2>2 DEF Forward
    <3>3. told \subseteq told'
      BY DEF Forward
    <3> QED
      BY <2>1, <2>2, <3>1, <3>2, <3>3, RemovingKept
  <2>3. CASE ~redis
    <3>1. Awaiting(stop[s], status)
      BY <2>3 DEF Registry, Stopping
    <3>2. \A t \in Tasks : status[t] = "ended" => status'[t] = "ended"
      BY <2>3 DEF Forward
    <3> QED
      BY <2>1, <2>3, <3>1, <3>2, AwaitingKept
  <2> QED
    BY <2>2, <2>3
<1>2. redis' = redis
  BY DEF Forward
<1> QED
  BY <1>1, <1>2 DEF Stopping

\* A task not asked to stop that runs after the step ran before it and keeps
\* its place, or is listed by the step.
LEMMA ListedKept ==
    ASSUME Registry, redis' = redis, told \subseteq told', swept \subseteq swept',
           \A t \in Tasks \ (told' \cup swept') :
             status'[t] \in {"created", "running"} /\ (redis => saving'[t] = "done") =>
               \/ t \in Listed'
               \/ /\ status[t] \in {"created", "running"} /\ (redis => saving[t] = "done")
                  /\ t \in Listed => t \in Listed'
    PROVE  RunningIsListed'
BY DEF Registry, RunningIsListed

-----------------------------------------------------------------------------
\* The initial state satisfies the invariant.
LEMMA InitRegistry == Init => Registry
<1> SUFFICES ASSUME Init PROVE Registry
  OBVIOUS
<1>1. NoStop \in StopRecord /\ NoStop.pc = "idle" /\ NoStop.idx = 1
  BY EmptySeq DEF NoStop, StopRecord, StopPcs
<1>2. stop \in [Stops -> StopRecord] /\ \A s \in Stops : stop[s] = NoStop
  BY <1>1 DEF Init
<1>3. TypeOK
  <2>1. item_tasks \in Seq(Tasks)
    BY EmptySeq DEF Init
  <2>2. faults \in 0..MaxFaults
    BY RegistryAssumption DEF Init
  <2> QED
    BY <1>1, <1>2, <2>1, <2>2 DEF Init, TypeOK
<1>4. Shape
  BY <1>2, <1>3, FS_EmptySet DEF Init, Shape
<1>5. Recorded
  BY DEF Init, Recorded
<1>6. Stopping
  <2>1. ASSUME NEW s \in Stops
        PROVE  Removing(stop[s], told, saving, hash) /\ Awaiting(stop[s], status)
    BY <1>1, <1>2 DEF Removing, Awaiting, Remote
  <2> QED
    BY <2>1 DEF Stopping
<1>7. RunningIsListed
  BY DEF Init, RunningIsListed
<1> QED
  BY <1>4, <1>5, <1>6, <1>7 DEF Registry

-----------------------------------------------------------------------------
(* The life of a task *)

\* A step that leaves the stops, Redis and the item's list alone, and begins no
\* task but one that was created.
LEMMA LifeKept ==
    ASSUME Registry, TypeOK',
           UNCHANGED <<redis, item_tasks, saving, hash, members, swept, stop, told>>,
           \A t \in Tasks :
             /\ status[t] = "none" <=> status'[t] = "none"
             /\ status[t] = "ended" => status'[t] = "ended"
             /\ status'[t] \in {"created", "running"} => status[t] \in {"created", "running"}
    PROVE  Registry'
<1>1. Shape'
  BY DEF Registry, Shape
<1>2. Recorded'
  BY DEF Registry, Recorded
<1>3. Stopping'
  <2>1. Forward
    BY DEF Forward
  <2>2. \A s \in Stops : SameStop(stop'[s], stop[s])
    BY DEF SameStop
  <2>3. stop' \in [Stops -> StopRecord]
    BY <1>1 DEF Shape
  <2> QED
    BY <2>1, <2>2, <2>3, StoppingKept
<1>4. RunningIsListed'
  <2>1. Listed' = Listed
    BY DEF Listed
  <2> QED
    BY <2>1, ListedKept
<1> QED
  BY <1>1, <1>2, <1>3, <1>4 DEF Registry

\* A task begins, returns, is interrupted or ends.
LEMMA LifeRegistry ==
    ASSUME Registry, NEW t \in Tasks,
           \/ Begin(t) \/ \E raises \in BOOLEAN : Return(t, raises)
           \/ Interrupt(t) \/ End(t)
    PROVE  Registry'
<1>1. /\ UNCHANGED <<redis, tasks, item_tasks, streams, saving, hash, members, swept, stop,
                     subscribed, inbox, dropped, told, faults>>
      /\ status' \in [Tasks -> Alive \cup {"none", "ended", "dead"}]
      /\ \A u \in Tasks \ {t} : status'[u] = status[u]
      /\ status[t] \in Alive /\ status'[t] \in {"running", "finishing", "ended"}
      /\ status'[t] = "running" => status[t] = "created"
      /\ cancelled' \in [Tasks -> BOOLEAN] /\ broke' \subseteq Tasks
      /\ cleaning' \in [Tasks -> {"no", "remove", "scard", "delete", "done"}]
  <2>1. CASE Begin(t)
    BY <2>1 DEF Registry, Shape, TypeOK, Begin, Alive, local, remote, channel
  <2>2. ASSUME NEW raises \in BOOLEAN, Return(t, raises)
        PROVE  <1>1!:
    BY <2>2 DEF Registry, Shape, TypeOK, Return, LeaveBody, Alive, local, remote, channel
  <2>3. CASE Interrupt(t)
    BY <2>3 DEF Registry, Shape, TypeOK, Interrupt, LeaveBody, Alive, local, remote, channel
  <2>4. CASE End(t)
    BY <2>4 DEF Registry, Shape, TypeOK, End, Alive, local, remote, channel
  <2> QED
    BY <2>1, <2>2, <2>3, <2>4
<1>2. TypeOK'
  BY <1>1 DEF Registry, Shape, TypeOK
<1>3. \A u \in Tasks :
        /\ status[u] = "none" <=> status'[u] = "none"
        /\ status[u] = "ended" => status'[u] = "ended"
        /\ status'[u] \in {"created", "running"} => status[u] \in {"created", "running"}
  BY <1>1 DEF Alive
<1> QED
  BY <1>1, <1>2, <1>3, LifeKept

\* Kept streams, and the listeners of the channel.
LEMMA StreamRegistry ==
    ASSUME Registry,
           \/ \E t \in Tasks : save_response_stream(t) \/ clear_response_stream(t) \/ Receive(t)
           \/ \E i \in Instances : Disconnect(i) \/ Resubscribe(i)
    PROVE  Registry'
<1>1. UNCHANGED <<redis, status, item_tasks, saving, hash, members, swept, stop, told>>
  BY DEF save_response_stream, clear_response_stream, Receive, Disconnect, Resubscribe,
         life, local, remote, channel
<1>2. TypeOK'
  <2>1. CASE \E t \in Tasks : save_response_stream(t) \/ clear_response_stream(t)
    BY <2>1 DEF Registry, Shape, TypeOK, save_response_stream, clear_response_stream,
                life, local, remote, channel
  <2>2. CASE \E t \in Tasks : Receive(t)
    BY <2>2 DEF Registry, Shape, TypeOK, Receive, local, remote
  <2>3. CASE \E i \in Instances : Disconnect(i)
    <3>1. faults' \in 0..MaxFaults
      BY <2>3, RegistryAssumption DEF Registry, Shape, TypeOK, Disconnect
    <3> QED
      BY <2>3, <3>1 DEF Registry, Shape, TypeOK, Disconnect, life, local, remote
  <2>4. CASE \E i \in Instances : Resubscribe(i)
    BY <2>4 DEF Registry, Shape, TypeOK, Resubscribe, life, local, remote
  <2> QED
    BY <2>1, <2>2, <2>3, <2>4
<1> QED
  BY <1>1, <1>2, LifeKept

\* create_task.
LEMMA CreateRegistry ==
    ASSUME Registry, NEW t \in Tasks, create_task(t)
    PROVE  Registry'
<1>1. /\ status[t] = "none" /\ saving[t] = "no"
      /\ UNCHANGED <<redis, cancelled, broke, streams, hash, members, swept, cleaning, stop,
                     subscribed, inbox, dropped, told, faults>>
      /\ status' \in [Tasks -> Alive \cup {"none", "ended", "dead"}] /\ status'[t] = "created"
      /\ saving' \in [Tasks -> {"no", "sent", "done", "late"}]
      /\ saving'[t] = IF redis THEN "sent" ELSE "no"
      /\ \A u \in Tasks \ {t} : status'[u] = status[u] /\ saving'[u] = saving[u]
      /\ tasks' \subseteq Tasks
  BY DEF Registry, Shape, Recorded, TypeOK, create_task, Alive, channel
<1>2. /\ item_tasks' \in Seq(Tasks)
      /\ ~redis => ToSet(item_tasks) \subseteq ToSet(item_tasks') /\ t \in ToSet(item_tasks')
  <2>1. item_tasks \in Seq(Tasks)
    BY DEF Registry, Shape, TypeOK
  <2>2. CASE redis
    BY <2>2, EmptySeq DEF create_task
  <2>3. CASE ~redis
    <3>1. item_tasks' = Append(item_tasks, t)
      BY <2>3 DEF create_task
    <3> QED
      BY <2>1, <2>3, <3>1, ToSetAppend
  <2> QED
    BY <2>2, <2>3
<1>3. Shape'
  BY <1>1, <1>2 DEF Registry, Shape, TypeOK
<1>4. Recorded'
  <2>1. hash \subseteq Tasks /\ t \notin hash
    BY <1>1 DEF Registry, Recorded, Shape, TypeOK, Saved
  <2> QED
    BY <1>1, <2>1 DEF Registry, Recorded
<1>5. Stopping'
  <2>1. Forward
    BY <1>1 DEF Forward, Saved
  <2>2. \A s \in Stops : SameStop(stop'[s], stop[s])
    BY <1>1 DEF SameStop
  <2> QED
    BY <1>3, <2>1, <2>2, StoppingKept DEF Shape
<1>6. RunningIsListed'
  <2>1. ASSUME NEW u \in Tasks,
               status'[u] \in {"created", "running"}, redis => saving'[u] = "done"
        PROVE  \/ u \in Listed'
               \/ /\ status[u] \in {"created", "running"} /\ (redis => saving[u] = "done")
                  /\ u \in Listed => u \in Listed'
    <3>1. CASE u = t
      BY <1>1, <1>2, <2>1, <3>1 DEF Listed
    <3>2. CASE u # t
      BY <1>1, <1>2, <2>1, <3>2 DEF Listed
    <3> QED
      BY <3>1, <3>2
  <2> QED
    BY <1>1, <2>1, ListedKept
<1> QED
  BY <1>3, <1>4, <1>5, <1>6 DEF Registry

\* The save to Redis.
LEMMA SaveRegistry ==
    ASSUME Registry, NEW t \in Tasks, redis_save_task(t)
    PROVE  Registry'
<1>1. /\ saving[t] = "sent" /\ hash' = hash \cup {t} /\ members' = members \cup {t}
      /\ UNCHANGED <<redis, status, cancelled, broke, tasks, item_tasks, streams, swept,
                     cleaning, stop, subscribed, inbox, dropped, told, faults>>
      /\ saving' \in [Tasks -> {"no", "sent", "done", "late"}] /\ saving'[t] \in Saved
      /\ \A u \in Tasks \ {t} : saving'[u] = saving[u]
  BY DEF Registry, Shape, TypeOK, redis_save_task, Saved, life, local, channel
<1>2. IsFiniteSet(members')
  BY <1>1, FS_AddElement DEF Registry, Shape
<1>3. Shape'
  BY <1>1, <1>2 DEF Registry, Shape, TypeOK
<1>4. Recorded'
  <2>1. hash \subseteq Tasks /\ status[t] # "none"
    BY <1>1 DEF Registry, Recorded, Shape, TypeOK
  <2> QED
    BY <1>1, <2>1 DEF Registry, Recorded
<1>5. Stopping'
  <2>1. Forward
    BY <1>1 DEF Forward, Saved
  <2>2. \A s \in Stops : SameStop(stop'[s], stop[s])
    BY <1>1 DEF SameStop
  <2> QED
    BY <1>3, <2>1, <2>2, StoppingKept DEF Shape
<1>6. RunningIsListed'
  <2>1. ASSUME NEW u \in Tasks,
               status'[u] \in {"created", "running"}, redis => saving'[u] = "done"
        PROVE  \/ u \in Listed'
               \/ /\ status[u] \in {"created", "running"} /\ (redis => saving[u] = "done")
                  /\ u \in Listed => u \in Listed'
    BY <1>1, <2>1 DEF Listed
  <2> QED
    BY <1>1, <2>1, ListedKept
<1> QED
  BY <1>3, <1>4, <1>5, <1>6 DEF Registry

-----------------------------------------------------------------------------
(* cleanup_task *)

\* Forgetting a task takes no other off the tables and moves no stop.
LEMMA ForgetKeeps ==
    ASSUME Registry, NEW t \in Tasks, Forget(t)
    PROVE  /\ tasks' \subseteq Tasks /\ item_tasks' \in Seq(Tasks)
           /\ \A u \in ToSet(item_tasks) : u # t => u \in ToSet(item_tasks')
           /\ stop' \in [Stops -> StopRecord]
           /\ \A s \in Stops : SameStop(stop'[s], stop[s])
<1>1. item_tasks \in Seq(Tasks) /\ tasks \subseteq Tasks /\ stop \in [Stops -> StopRecord]
  BY DEF Registry, Shape, TypeOK
<1>2. item_tasks' = RemoveFirst(item_tasks, t) /\ tasks' = tasks \ {t}
  BY DEF Forget
<1>3. ASSUME NEW s \in Stops
      PROVE  /\ [stop[s] EXCEPT !.live = FALSE] \in StopRecord
             /\ SameStop([stop[s] EXCEPT !.live = FALSE], stop[s])
             /\ SameStop(stop[s], stop[s])
  BY <1>1 DEF StopRecord, SameStop
<1>4. /\ stop' \in [Stops -> StopRecord]
      /\ \A s \in Stops : SameStop(stop'[s], stop[s])
  <2>1. stop' = [s \in Stops |-> IF RemoveFirst(item_tasks, t) = <<>>
                                 THEN [stop[s] EXCEPT !.live = FALSE] ELSE stop[s]]
    BY DEF Forget
  <2> QED
    BY <1>1, <1>3, <2>1
<1> QED
  BY <1>1, <1>2, <1>4, RemoveFirstKeeps

\* What the steps of cleanup_task have in common.
LEMMA CleanKept ==
    ASSUME Registry, NEW t \in Tasks, status[t] \in {"finishing", "ended"},
           UNCHANGED <<redis, cancelled, broke, saving, subscribed, inbox, dropped, told, faults>>,
           status' \in [Tasks -> Alive \cup {"none", "ended", "dead"}],
           status'[t] = status[t] \/ (status[t] = "finishing" /\ status'[t] = "trailing"),
           \A u \in Tasks \ {t} : status'[u] = status[u],
           cleaning' \in [Tasks -> {"no", "remove", "scard", "delete", "done"}],
           tasks' \subseteq Tasks, item_tasks' \in Seq(Tasks), streams' \subseteq Tasks,
           \A u \in ToSet(item_tasks) : u # t => u \in ToSet(item_tasks'),
           stop' \in [Stops -> StopRecord], \A s \in Stops : SameStop(stop'[s], stop[s]),
           hash' \subseteq hash, members' \subseteq members, members' \subseteq hash',
           swept \subseteq swept', swept' \subseteq Tasks,
           members \subseteq members' \cup swept' \cup {t}
    PROVE  Registry'
<1>1. IsFiniteSet(members')
  BY FS_Subset DEF Registry, Shape
<1>2. Shape'
  <2>1. \A s \in Stops : stop'[s].pc \in StopPcs
    BY DEF StopRecord
  <2> QED
    BY <1>1, <2>1 DEF Registry, Shape, TypeOK, StopPcs
<1>3. Recorded'
  BY DEF Registry, Recorded
<1>4. Stopping'
  <2>1. Forward
    BY DEF Forward
  <2> QED
    BY <2>1, StoppingKept
<1>5. RunningIsListed'
  <2>1. ASSUME NEW u \in Tasks \ (told' \cup swept'),
               status'[u] \in {"created", "running"}, redis => saving'[u] = "done"
        PROVE  /\ status[u] \in {"created", "running"} /\ (redis => saving[u] = "done")
               /\ u \in Listed => u \in Listed'
    <3>1. u # t
      BY <2>1
    <3> QED
      BY <2>1, <3>1 DEF Listed
  <2> QED
    BY <2>1, ListedKept
<1> QED
  BY <1>2, <1>3, <1>4, <1>5 DEF Registry

\* The steps of cleanup_task.
LEMMA CleanRegistry ==
    ASSUME Registry, NEW t \in Tasks,
           CleanHere(t) \/ CleanRemove(t) \/ CleanCount(t) \/ CleanDelete(t)
    PROVE  Registry'
<1>1. status[t] \in {"finishing", "ended"}
  BY DEF CleanHere, CleanRemove, CleanCount, CleanDelete, MayClean
<1>2. ASSUME Cleaned(t)
      PROVE  /\ status' \in [Tasks -> Alive \cup {"none", "ended", "dead"}]
             /\ status'[t] = status[t] \/ (status[t] = "finishing" /\ status'[t] = "trailing")
             /\ \A u \in Tasks \ {t} : status'[u] = status[u]
             /\ cleaning' \in [Tasks -> {"no", "remove", "scard", "delete", "done"}]
  BY <1>2 DEF Registry, Shape, TypeOK, Cleaned, Alive
<1>3. /\ members \subseteq hash /\ swept \subseteq Tasks /\ members \subseteq Tasks
      /\ streams \subseteq Tasks /\ tasks \subseteq Tasks /\ item_tasks \in Seq(Tasks)
      /\ stop \in [Stops -> StopRecord] /\ \A s \in Stops : SameStop(stop[s], stop[s])
      /\ status \in [Tasks -> Alive \cup {"none", "ended", "dead"}]
      /\ cleaning \in [Tasks -> {"no", "remove", "scard", "delete", "done"}]
  BY DEF Registry, Recorded, Shape, TypeOK, SameStop
<1>4. CASE CleanHere(t)
  <2>1. /\ Forget(t) /\ Cleaned(t) /\ streams' = streams \ {t}
        /\ UNCHANGED <<redis, cancelled, broke, saving, hash, members, swept,
                       subscribed, inbox, dropped, told, faults>>
    BY <1>4 DEF CleanHere, remote, channel
  <2> QED
    BY <1>1, <1>2, <1>3, <2>1, ForgetKeeps, CleanKept
<1>5. CASE CleanRemove(t)
  <2>1. /\ hash' = hash \ {t} /\ members' = members \ {t} /\ streams' = streams \ {t}
        /\ UNCHANGED <<redis, status, cancelled, broke, tasks, item_tasks, saving, swept, stop,
                       subscribed, inbox, dropped, told, faults>>
        /\ cleaning' = [cleaning EXCEPT ![t] = "scard"]
    BY <1>5 DEF CleanRemove, life, local, channel
  <2>2. cleaning' \in [Tasks -> {"no", "remove", "scard", "delete", "done"}]
    BY <1>3, <2>1
  <2> QED
    BY <1>1, <1>3, <2>1, <2>2, CleanKept
<1>6. CASE CleanCount(t)
  <2>1. UNCHANGED <<redis, cancelled, broke, streams, saving, hash, members, swept,
                    subscribed, inbox, dropped, told, faults>>
    BY <1>6 DEF CleanCount, remote, channel
  <2>2. CASE members = {}
    <3>1. /\ cleaning' = [cleaning EXCEPT ![t] = "delete"]
          /\ UNCHANGED <<status, tasks, item_tasks, stop>>
      BY <1>6, <2>2 DEF CleanCount, local
    <3>2. cleaning' \in [Tasks -> {"no", "remove", "scard", "delete", "done"}]
      BY <1>3, <3>1
    <3> QED
      BY <1>1, <1>3, <2>1, <3>1, <3>2, CleanKept
  <2>3. CASE members # {}
    <3>1. Forget(t) /\ Cleaned(t)
      BY <1>6, <2>3 DEF CleanCount
    <3> QED
      BY <1>1, <1>2, <1>3, <2>1, <3>1, ForgetKeeps, CleanKept
  <2> QED
    BY <2>2, <2>3
<1>7. CASE CleanDelete(t)
  <2>1. /\ Forget(t) /\ Cleaned(t) /\ swept' = swept \cup members /\ members' = {}
        /\ UNCHANGED <<redis, cancelled, broke, streams, saving, hash,
                       subscribed, inbox, dropped, told, faults>>
    BY <1>7 DEF CleanDelete, DeleteKey, channel
  <2> QED
    BY <1>1, <1>2, <1>3, <2>1, ForgetKeeps, CleanKept
<1> QED
  BY <1>4, <1>5, <1>6, <1>7

-----------------------------------------------------------------------------
(* stop_item_tasks *)

\* What the steps of a stop have in common.
LEMMA StopKept ==
    ASSUME Registry, NEW s \in Stops, NEW g \in StopRecord, stop' = [stop EXCEPT ![s] = g],
           IF redis THEN Removing(g, told', saving, hash') ELSE Awaiting(g, status),
           UNCHANGED <<redis, status, broke, item_tasks, saving, cleaning, subscribed, faults>>,
           cancelled' \in [Tasks -> BOOLEAN], tasks' \subseteq Tasks, streams' \subseteq Tasks,
           inbox' \subseteq Tasks, dropped' \subseteq Tasks,
           told \subseteq told', told' \subseteq Tasks,
           hash' \subseteq hash, members' \subseteq members, members' \subseteq hash',
           swept \subseteq swept', swept' \subseteq Tasks,
           members \subseteq members' \cup swept' \cup told'
    PROVE  Registry'
<1>1. /\ stop' \in [Stops -> StopRecord] /\ stop'[s] = g
      /\ \A x \in Stops \ {s} : stop'[x] = stop[x]
  BY DEF Registry, Shape
<1>2. Shape'
  <2>1. \A x \in Stops : stop'[x].pc \in StopPcs
    BY <1>1 DEF StopRecord
  <2>2. IsFiniteSet(members')
    BY FS_Subset DEF Registry, Shape
  <2> QED
    BY <1>1, <2>1, <2>2 DEF Registry, Shape, TypeOK, StopPcs
<1>3. Recorded'
  BY DEF Registry, Recorded
<1>4. Stopping'
  <2>1. Forward
    BY DEF Forward
  <2>2. \A x \in Stops \ {s} : SameStop(stop'[x], stop[x])
    BY <1>1 DEF SameStop
  <2>3. \A x \in Stops \ (Stops \ {s}) :
          IF redis THEN Removing(stop'[x], told', saving', hash')
                   ELSE Awaiting(stop'[x], status')
    BY <1>1
  <2> QED
    BY <1>1, <2>1, <2>2, <2>3, StoppingKept
<1>5. RunningIsListed'
  <2>1. ASSUME NEW u \in Tasks \ (told' \cup swept') PROVE u \in Listed => u \in Listed'
    BY DEF Listed
  <2> QED
    BY <2>1, ListedKept
<1> QED
  BY <1>2, <1>3, <1>4, <1>5 DEF Registry

\* A stop whose step is one of Redis's is in a state with Redis.
LEMMA StopOfRedis ==
    ASSUME Registry, NEW s \in Stops
    PROVE  /\ stop[s] \in StopRecord
           /\ stop[s].pc \in {"publish", "remove", "scard", "delete"} => redis
           /\ stop[s].pc = "await" => ~redis
           /\ IF redis THEN Removing(stop[s], told, saving, hash)
                       ELSE Awaiting(stop[s], status)
<1>1. /\ stop[s] \in StopRecord
      /\ IF redis THEN Removing(stop[s], told, saving, hash) ELSE Awaiting(stop[s], status)
  BY DEF Registry, Shape, Stopping
<1>2. redis => stop[s].pc # "await"
  BY <1>1 DEF Removing
<1>3. ~redis => stop[s].pc \notin {"publish", "remove", "scard", "delete"}
  BY <1>1 DEF Awaiting
<1> QED
  BY <1>1, <1>2, <1>3

\* Moving a stop on changes only where it is.
LEMMA SetPc ==
    ASSUME NEW r \in StopRecord, NEW p \in StopPcs
    PROVE  /\ [r EXCEPT !.pc = p] \in StopRecord
           /\ [r EXCEPT !.pc = p].pc = p
           /\ [r EXCEPT !.pc = p].found = r.found
           /\ [r EXCEPT !.pc = p].todo = r.todo
           /\ [r EXCEPT !.pc = p].idx = r.idx
           /\ [r EXCEPT !.pc = p].cur = r.cur
           /\ [r EXCEPT !.pc = p].known = r.known
BY DEF StopRecord

\* A stop lists the tasks of the item.
LEMMA ListRegistry ==
    ASSUME Registry, NEW s \in Stops, StopList(s)
    PROVE  Registry'
<1>1. /\ redis /\ stop[s].pc = "idle"
      /\ UNCHANGED <<redis, status, cancelled, broke, tasks, item_tasks, streams, saving, hash,
                     members, swept, cleaning, subscribed, inbox, dropped, told, faults>>
  BY DEF StopList, life, local, remote, channel
<1>2. stop[s] \in StopRecord
  BY StopOfRedis
<1>3. members \subseteq Tasks /\ members \subseteq hash /\ IsFiniteSet(members)
      /\ \A t \in members : saving[t] \in Saved
  BY DEF Registry, Shape, TypeOK, Recorded
<1>4. PICK f : f = SetToSeq(members)
  OBVIOUS
<1>5. f \in Seq(Tasks) /\ ToSet(f) = members
  <2>1. f \in Seq(members) /\ ToSet(f) = members
    BY <1>3, <1>4, SetToSeqHolds
  <2>2. f \in Seq(Tasks)
    BY <1>3, <2>1
  <2> QED
    BY <2>1, <2>2
<1>6. PICK p : p = IF members = {} THEN "empty" ELSE "next"
  OBVIOUS
<1>7. PICK g : g = [stop[s] EXCEPT !.found = f, !.todo = members, !.pc = p]
  OBVIOUS
<1>8. stop' = [stop EXCEPT ![s] = g]
  BY <1>4, <1>6, <1>7 DEF StopList, Going
<1>9. g \in StopRecord /\ g.found = f /\ g.todo = members /\ g.pc = p
  BY <1>2, <1>3, <1>5, <1>6, <1>7 DEF StopRecord, StopPcs
<1>10. Removing(g, told, saving, hash)
  BY <1>3, <1>5, <1>6, <1>9 DEF Removing, Remote
<1> QED
  BY <1>1, <1>3, <1>8, <1>9, <1>10, StopKept DEF Registry, Shape, TypeOK

\* A stop looks a task up.
LEMMA LookupRegistry ==
    ASSUME Registry, NEW s \in Stops, StopLookup(s)
    PROVE  Registry'
<1>1. /\ redis /\ stop[s].pc = "next"
      /\ UNCHANGED <<redis, status, cancelled, broke, tasks, item_tasks, streams, saving, hash,
                     members, swept, cleaning, subscribed, inbox, dropped, told, faults>>
  BY DEF StopLookup, life, local, remote, channel
<1>2. stop[s] \in StopRecord /\ Removing(stop[s], told, saving, hash)
  BY <1>1, StopOfRedis
<1>3. \E g \in StopRecord : stop' = [stop EXCEPT ![s] = g] /\ Removing(g, told, saving, hash)
  <2>1. CASE stop[s].todo = {}
    <3>1. PICK g : g = [stop[s] EXCEPT !.pc = "all"]
      OBVIOUS
    <3>2. /\ g \in StopRecord /\ g.pc = "all" /\ g.found = stop[s].found
          /\ g.todo = stop[s].todo
      BY <1>2, <3>1, SetPc DEF StopPcs
    <3>3. Removing(g, told, saving, hash)
      BY <1>1, <1>2, <2>1, <3>2 DEF Removing, Remote
    <3>4. stop' = [stop EXCEPT ![s] = g]
      BY <2>1, <3>1 DEF StopLookup, Going
    <3> QED
      BY <3>2, <3>3, <3>4
  <2>2. CASE stop[s].todo # {}
    <3>1. PICK t \in stop[s].todo :
            stop' = [stop EXCEPT ![s] =
                       [stop[s] EXCEPT !.pc = "publish", !.cur = {t}, !.todo = @ \ {t},
                                       !.known = t \in hash]]
      BY <2>2 DEF StopLookup, Going
    <3>2. PICK todo, known : todo = stop[s].todo \ {t} /\ known = (t \in hash)
      OBVIOUS
    <3>3. PICK g : g = [stop[s] EXCEPT !.pc = "publish", !.cur = {t}, !.todo = todo,
                                       !.known = known]
      OBVIOUS
    <3>4. stop' = [stop EXCEPT ![s] = g]
      BY <3>1, <3>2, <3>3
    <3>5. t \in Tasks /\ todo \subseteq Tasks /\ known \in BOOLEAN
      BY <1>2, <3>2 DEF StopRecord
    <3>6. /\ g \in StopRecord /\ g.pc = "publish" /\ g.found = stop[s].found
          /\ g.cur = {t} /\ g.todo = todo /\ g.known = known
      BY <1>2, <3>3, <3>5 DEF StopRecord, StopPcs
    <3>7. Removing(g, told, saving, hash)
      BY <1>1, <1>2, <3>2, <3>6 DEF Removing, Remote
    <3> QED
      BY <3>4, <3>6, <3>7
  <2> QED
    BY <2>1, <2>2
<1> QED
  BY <1>1, <1>3, StopKept DEF Registry, Recorded, Shape, TypeOK

\* A stop is published.
LEMMA SendRegistry ==
    ASSUME Registry, NEW s \in Stops, redis_send_command(s)
    PROVE  Registry'
<1>1. /\ stop[s].pc = "publish"
      /\ UNCHANGED <<redis, status, cancelled, broke, tasks, item_tasks, streams, saving, hash,
                     members, swept, cleaning, subscribed, faults>>
      /\ told' = told \cup stop[s].cur
      /\ inbox' = inbox \cup {t \in stop[s].cur : Home[t] \in subscribed}
      /\ dropped' = dropped \cup {t \in stop[s].cur : Home[t] \notin subscribed}
      /\ stop' = [stop EXCEPT ![s] = [stop[s] EXCEPT !.pc = "remove"]]
  BY DEF redis_send_command, Going, life, local, remote
<1>2. redis /\ stop[s] \in StopRecord /\ Removing(stop[s], told, saving, hash)
  BY <1>1, StopOfRedis
<1>3. stop[s].cur \subseteq Tasks
  BY <1>2 DEF StopRecord
<1>4. PICK g : g = [stop[s] EXCEPT !.pc = "remove"]
  OBVIOUS
<1>5. /\ g \in StopRecord /\ g.pc = "remove" /\ g.found = stop[s].found
      /\ g.todo = stop[s].todo /\ g.cur = stop[s].cur /\ g.known = stop[s].known
  BY <1>2, <1>4, SetPc DEF StopPcs
<1>6. Removing(g, told', saving, hash)
  BY <1>1, <1>2, <1>5 DEF Removing, Remote
<1> QED
  BY <1>1, <1>2, <1>3, <1>4, <1>5, <1>6, StopKept DEF Registry, Recorded, Shape, TypeOK

\* A stopped task is taken out of the hash and the set.
LEMMA RemoveRegistry ==
    ASSUME Registry, NEW s \in Stops, StopRemove(s)
    PROVE  Registry'
<1>1. /\ stop[s].pc = "remove"
      /\ UNCHANGED <<redis, status, cancelled, broke, tasks, item_tasks, saving,
                     swept, cleaning, subscribed, inbox, dropped, told, faults>>
      /\ hash' = hash \ stop[s].cur /\ streams' = streams \ stop[s].cur
      /\ members' = IF stop[s].known THEN members \ stop[s].cur ELSE members
  BY DEF StopRemove, life, local, channel
<1>2. redis /\ stop[s] \in StopRecord /\ Removing(stop[s], told, saving, hash)
  BY <1>1, StopOfRedis
<1>3. PICK p : p = IF stop[s].known THEN "scard" ELSE "next"
  OBVIOUS
<1>4. PICK g : g = [stop[s] EXCEPT !.pc = p]
  OBVIOUS
<1>5. stop' = [stop EXCEPT ![s] = g]
  BY <1>3, <1>4 DEF StopRemove, Going
<1>6. /\ g \in StopRecord /\ g.pc = p /\ g.found = stop[s].found
      /\ g.todo = stop[s].todo /\ g.cur = stop[s].cur /\ g.known = stop[s].known
  <2>1. p \in StopPcs
    BY <1>3 DEF StopPcs
  <2> QED
    BY <1>2, <1>4, <2>1, SetPc
<1>7. Removing(g, told', saving, hash')
  BY <1>1, <1>2, <1>3, <1>6 DEF Removing, Remote
<1>8. /\ members \subseteq hash /\ stop[s].cur \subseteq told
      /\ ~stop[s].known => stop[s].cur \cap hash = {}
  BY <1>1, <1>2 DEF Registry, Recorded, Removing
<1>9. members' \subseteq hash' /\ members \subseteq members' \cup told /\ members' \subseteq members
  BY <1>1, <1>8
<1> QED
  BY <1>1, <1>2, <1>5, <1>6, <1>7, <1>9, StopKept DEF Registry, Shape, TypeOK

\* A stop counts what is left of the set, and deletes an empty one.
LEMMA CountRegistry ==
    ASSUME Registry, NEW s \in Stops, StopCount(s) \/ StopDelete(s)
    PROVE  Registry'
<1>1. /\ stop[s].pc \in {"scard", "delete"}
      /\ UNCHANGED <<redis, status, cancelled, broke, tasks, item_tasks, streams, saving, hash,
                     cleaning, subscribed, inbox, dropped, told, faults>>
      /\ members' \subseteq members /\ swept \subseteq swept'
      /\ swept' \subseteq swept \cup members /\ members \subseteq members' \cup swept'
  BY DEF StopCount, StopDelete, DeleteKey, life, local, remote, channel
<1>2. redis /\ stop[s] \in StopRecord /\ Removing(stop[s], told, saving, hash)
  BY <1>1, StopOfRedis
<1>3. PICK p \in {"delete", "next"} : stop' = [stop EXCEPT ![s] = [stop[s] EXCEPT !.pc = p]]
  <2>1. CASE StopCount(s)
    BY <2>1 DEF StopCount, Going
  <2>2. CASE StopDelete(s)
    BY <2>2 DEF StopDelete, Going
  <2> QED
    BY <2>1, <2>2
<1>4. PICK g : g = [stop[s] EXCEPT !.pc = p]
  OBVIOUS
<1>5. /\ g \in StopRecord /\ g.pc = p /\ g.found = stop[s].found
      /\ g.todo = stop[s].todo /\ g.cur = stop[s].cur /\ g.known = stop[s].known
  <2>1. p \in StopPcs
    BY <1>3 DEF StopPcs
  <2> QED
    BY <1>2, <1>4, <2>1, SetPc
<1>6. Removing(g, told, saving, hash)
  BY <1>1, <1>2, <1>3, <1>5 DEF Removing, Remote
<1> QED
  BY <1>1, <1>2, <1>3, <1>4, <1>5, <1>6, StopKept DEF Registry, Recorded, Shape, TypeOK

\* The stop goes on to the next id of the list, or to its end.
LEMMA GoOnRegistry ==
    ASSUME Registry, ~redis, NEW s \in Stops, NEW r \in StopRecord, GoOn(s, r),
           UNCHANGED <<redis, status, broke, item_tasks, streams, saving, hash, members, swept,
                       cleaning, subscribed, inbox, dropped, faults>>,
           r.found # <<>>,
           \/ status[Head(r.found)] = "ended"
           \/ r.found = item_tasks /\ r.live /\ r.idx = 1
    PROVE  Registry'
<1>1. PICK cur : cur = Visit(r)
  OBVIOUS
<1>2. /\ tasks \subseteq Tasks /\ told \subseteq Tasks /\ item_tasks \in Seq(Tasks)
      /\ cancelled \in [Tasks -> BOOLEAN]
      /\ inbox \subseteq Tasks /\ dropped \subseteq Tasks /\ streams \subseteq Tasks
      /\ swept \subseteq Tasks /\ members \subseteq hash
  BY DEF Registry, Shape, TypeOK, Recorded
<1>3. CASE cur \subseteq tasks
  <2>1. PICK p : p = IF cur = {} THEN "all" ELSE "await"
    OBVIOUS
  <2>2. PICK idx : idx = r.idx + 1
    OBVIOUS
  <2>3. PICK g : g = [r EXCEPT !.cur = cur, !.idx = idx, !.pc = p]
    OBVIOUS
  <2>4. /\ stop' = [stop EXCEPT ![s] = g]
        /\ tasks' = tasks \ cur /\ told' = told \cup cur
        /\ cancelled' = [t \in Tasks |-> cancelled[t] \/ (t \in cur /\ status[t] \in Alive)]
    BY <1>1, <1>3, <2>1, <2>2, <2>3 DEF GoOn, Going
  <2>5. /\ g \in StopRecord /\ g.pc = p /\ g.found = r.found /\ g.cur = cur
    <3>1. cur \subseteq Tasks /\ p \in StopPcs /\ idx \in Nat \ {0}
      BY <1>2, <1>3, <2>1, <2>2 DEF StopRecord, StopPcs
    <3> QED
      BY <2>3, <3>1 DEF StopRecord
  <2>6. status[Head(r.found)] = "ended" \/ (cur = {Head(r.found)} /\ p = "await")
    <3>1. CASE r.found = item_tasks /\ r.live /\ r.idx = 1
      <4>1. Len(item_tasks) \in Nat /\ Len(item_tasks) >= 1
        BY <1>2, <3>1, LenProperties, EmptySeq
      <4>2. Head(item_tasks) = item_tasks[1]
        BY <1>2, <3>1, <4>1
      <4>3. cur = {item_tasks[1]}
        BY <1>1, <3>1, <4>1 DEF Visit
      <4> QED
        BY <2>1, <3>1, <4>2, <4>3
    <3> QED
      BY <3>1
  <2>7. Awaiting(g, status)
    BY <2>1, <2>5, <2>6 DEF Awaiting
  <2>8. cancelled' \in [Tasks -> BOOLEAN] /\ tasks' \subseteq Tasks /\ told' \subseteq Tasks
    BY <1>2, <1>3, <2>4
  <2> QED
    BY <1>2, <2>4, <2>5, <2>7, <2>8, StopKept
<1>4. CASE ~(cur \subseteq tasks)
  <2>1. PICK g : g = [r EXCEPT !.pc = "failed"]
    OBVIOUS
  <2>2. stop' = [stop EXCEPT ![s] = g] /\ UNCHANGED <<tasks, told, cancelled>>
    BY <1>1, <1>4, <2>1 DEF GoOn, Going
  <2>3. g \in StopRecord /\ g.pc = "failed"
    BY <2>1, SetPc DEF StopPcs
  <2>4. Awaiting(g, status)
    BY <2>3 DEF Awaiting
  <2> QED
    BY <1>2, <2>2, <2>3, <2>4, StopKept
<1> QED
  BY <1>3, <1>4

\* A stop without Redis.
LEMMA HereRegistry ==
    ASSUME Registry, NEW s \in Stops, StopHere(s) \/ StopAwait(s)
    PROVE  Registry'
<1>1. UNCHANGED <<redis, status, broke, item_tasks, streams, saving, hash, members, swept,
                  cleaning, subscribed, inbox, dropped, faults>>
  BY DEF StopHere, StopAwait, remote, channel
<1>2. stop[s] \in StopRecord /\ ~redis /\ Awaiting(stop[s], status)
  BY StopOfRedis DEF StopHere, StopAwait
<1>3. ASSUME NEW p \in {"empty", "raised"},
             stop' = [stop EXCEPT ![s] = [stop[s] EXCEPT !.pc = p]],
             UNCHANGED <<tasks, told, cancelled>>
      PROVE  Registry'
  <2>1. PICK g : g = [stop[s] EXCEPT !.pc = p]
    OBVIOUS
  <2>2. g \in StopRecord /\ g.pc = p
    <3>1. p \in StopPcs
      BY DEF StopPcs
    <3> QED
      BY <1>2, <2>1, <3>1, SetPc
  <2>3. Awaiting(g, status)
    BY <2>2 DEF Awaiting
  <2> QED
    BY <1>1, <1>2, <1>3, <2>1, <2>2, <2>3, StopKept DEF Registry, Shape, TypeOK, Recorded
<1>4. CASE StopHere(s) /\ item_tasks = <<>>
  BY <1>3, <1>4 DEF StopHere, Going
<1>5. CASE StopHere(s) /\ item_tasks # <<>>
  <2>1. GoOn(s, [stop[s] EXCEPT !.found = item_tasks, !.live = TRUE]) /\ stop[s].pc = "idle"
    BY <1>5 DEF StopHere
  <2>2. PICK r : r = [stop[s] EXCEPT !.found = item_tasks, !.live = TRUE]
    OBVIOUS
  <2>3. item_tasks \in Seq(Tasks)
    BY DEF Registry, Shape, TypeOK
  <2>4. r \in StopRecord /\ r.found = item_tasks /\ r.live = TRUE /\ r.idx = stop[s].idx
    BY <1>2, <2>2, <2>3 DEF StopRecord
  <2>5. stop[s].idx = 1
    BY <1>2, <2>1 DEF Awaiting
  <2>6. GoOn(s, r)
    BY <2>1, <2>2
  <2> QED
    BY <1>1, <1>2, <1>5, <2>4, <2>5, <2>6, GoOnRegistry
<1>6. CASE StopAwait(s) /\ stop[s].cur \subseteq broke
  BY <1>3, <1>6 DEF StopAwait, Going
<1>7. CASE StopAwait(s) /\ ~(stop[s].cur \subseteq broke)
  <2>1. /\ GoOn(s, stop[s]) /\ stop[s].pc = "await"
        /\ \A t \in stop[s].cur : status[t] = "ended"
    BY <1>7 DEF StopAwait
  <2>2. stop[s].found # <<>> /\ status[Head(stop[s].found)] = "ended"
    BY <1>2, <2>1 DEF Awaiting
  <2>3. PICK r : r = stop[s]
    OBVIOUS
  <2>4. GoOn(s, r)
    BY <2>1, <2>3
  <2>5. r \in StopRecord /\ r.found # <<>> /\ status[Head(r.found)] = "ended"
    BY <1>2, <2>2, <2>3
  <2> QED
    BY <1>1, <1>2, <2>4, <2>5, GoOnRegistry
<1> QED
  BY <1>4, <1>5, <1>6, <1>7

-----------------------------------------------------------------------------
\* A process dies with its tasks.
LEMMA CrashRegistry ==
    ASSUME Registry, NEW i \in Instances, Crash(i)
    PROVE  Registry'
<1>1. /\ redis /\ faults < MaxFaults /\ faults' = faults + 1
      /\ UNCHANGED <<redis, broke, item_tasks, streams, saving, hash, members, swept,
                     subscribed, dropped, told>>
      /\ inbox' \subseteq inbox
  BY DEF Crash, remote
<1>2. PICK mine \in SUBSET Tasks :
        /\ \A t \in mine : status[t] # "none"
        /\ status' = [t \in Tasks |-> IF t \in mine THEN "dead" ELSE status[t]]
        /\ cancelled' = [t \in Tasks |-> t \notin mine /\ cancelled[t]]
        /\ cleaning' = [t \in Tasks |-> IF t \in mine THEN "done" ELSE cleaning[t]]
        /\ tasks' = tasks \ mine
  <2>1. {t \in Tasks : Home[t] = i /\ status[t] # "none"} \in SUBSET Tasks
    OBVIOUS
  <2> QED
    BY <2>1 DEF Crash
<1>3. ASSUME NEW s \in Stops
      PROVE  /\ [stop[s] EXCEPT !.pc = "raised"] \in StopRecord
             /\ [stop[s] EXCEPT !.pc = "raised"].pc = "raised"
             /\ stop[s] \in StopRecord
  <2>1. stop[s] \in StopRecord
    BY DEF Registry, Shape
  <2> QED
    BY <2>1, SetPc DEF StopPcs
<1>4. /\ stop' \in [Stops -> StopRecord]
      /\ \A s \in Stops : stop'[s] = stop[s] \/ stop'[s].pc = "raised"
  <2>1. stop' = [s \in Stops |-> IF Home[s] = i /\ stop[s].pc # "idle"
                                 THEN [stop[s] EXCEPT !.pc = "raised"] ELSE stop[s]]
    BY DEF Crash
  <2> QED
    BY <1>3, <2>1
<1>5. Shape'
  <2>1. faults' \in 0..MaxFaults
    BY <1>1, RegistryAssumption DEF Registry, Shape, TypeOK
  <2>2. /\ status' \in [Tasks -> Alive \cup {"none", "ended", "dead"}]
        /\ cancelled' \in [Tasks -> BOOLEAN]
        /\ cleaning' \in [Tasks -> {"no", "remove", "scard", "delete", "done"}]
        /\ tasks' \subseteq Tasks
    BY <1>2 DEF Registry, Shape, TypeOK
  <2>3. \A s \in Stops : stop'[s].pc \in StopPcs
    BY <1>4 DEF StopRecord
  <2> QED
    BY <1>1, <1>4, <2>1, <2>2, <2>3 DEF Registry, Shape, TypeOK, StopPcs
<1>6. Recorded'
  BY <1>1, <1>2 DEF Registry, Recorded
<1>7. Stopping'
  <2>1. Forward
    BY <1>1 DEF Forward
  <2>2. PICK Same \in SUBSET Stops : /\ \A s \in Same : stop'[s] = stop[s]
                                     /\ \A s \in Stops \ Same : stop'[s].pc = "raised"
    <3>1. {s \in Stops : stop'[s] = stop[s]} \in SUBSET Stops
      OBVIOUS
    <3> QED
      BY <1>4, <3>1
  <2>3. \A s \in Same : SameStop(stop'[s], stop[s])
    BY <2>2 DEF SameStop
  <2>4. \A s \in Stops \ Same : Removing(stop'[s], told', saving', hash')
    BY <2>2 DEF Removing, Remote
  <2> QED
    BY <1>1, <1>4, <2>1, <2>3, <2>4, StoppingKept
<1>8. RunningIsListed'
  <2>1. Listed' = Listed
    BY <1>1 DEF Listed
  <2> QED
    BY <1>1, <1>2, <2>1, ListedKept
<1> QED
  BY <1>5, <1>6, <1>7, <1>8 DEF Registry

\* Every step keeps the invariant.
LEMMA StepRegistry ==
    ASSUME Registry, [Next]_vars
    PROVE  Registry'
<1>1. CASE UNCHANGED vars
  <2>1. UNCHANGED <<redis, status, cancelled, broke, tasks, item_tasks, streams, saving, hash,
                    members, swept, cleaning, stop, subscribed, inbox, dropped, told, faults>>
    BY <1>1 DEF vars, life, local, remote, channel
  <2>2. TypeOK'
    BY <2>1 DEF Registry, Shape, TypeOK
  <2> QED
    BY <2>1, <2>2, LifeKept
<1>2. CASE Next
  BY <1>2, LifeRegistry, StreamRegistry, CreateRegistry, SaveRegistry, CleanRegistry,
     ListRegistry, LookupRegistry, SendRegistry, RemoveRegistry, CountRegistry, HereRegistry,
     CrashRegistry
  DEF Next
<1> QED
  BY <1>1, <1>2

\* The invariant holds in every reachable state.
LEMMA AlwaysRegistry == Spec => []Registry
BY InitRegistry, StepRegistry, PTL DEF Spec

(* The tables, the saves and the stops keep their types (tasks.py:112).    *)
THEOREM RegistryTypes == Spec => []TypeOK
<1>1. Registry => TypeOK
  BY DEF Registry, Shape
<1> QED
  BY <1>1, AlwaysRegistry, PTL

(* has_active_tasks (tasks.py:285) sees every running task that nobody     *)
(* asked to stop and whose save has landed, but for one whose item's set   *)
(* was deleted after it was read as empty.                                 *)
THEOREM RunningStaysListed == Spec => []RunningIsListed
<1>1. Registry => RunningIsListed
  BY DEF Registry
<1> QED
  BY <1>1, AlwaysRegistry, PTL

(* What stop_item_tasks says at its end (tasks.py:282) holds, and goes on  *)
(* holding: with Redis every task it found was told to stop and is out of  *)
(* the tables, without Redis the first one it found is over.               *)
THEOREM StopIsTrueToItsWord == Spec => []StopKeepsItsWord
<1>1. ASSUME Registry PROVE StopKeepsItsWord
  <2> SUFFICES ASSUME NEW s \in Stops, stop[s].pc = "all"
               PROVE  IF redis
                      THEN ToSet(stop[s].found) \subseteq told \ (hash \cup members)
                      ELSE status[Head(stop[s].found)] = "ended"
    BY DEF StopKeepsItsWord
  <2>1. IF redis THEN Removing(stop[s], told, saving, hash) ELSE Awaiting(stop[s], status)
    BY <1>1, StopOfRedis
  <2>2. members \subseteq hash
    BY <1>1 DEF Registry, Recorded
  <2>3. CASE redis
    BY <2>1, <2>2, <2>3 DEF Removing, Remote
  <2>4. CASE ~redis
    BY <2>1, <2>4 DEF Awaiting
  <2> QED
    BY <2>3, <2>4
<1> QED
  BY <1>1, AlwaysRegistry, PTL
===============================================================================
