-------------------------- MODULE EgressWatchProofs --------------------------
(***************************************************************************)
(* What the evidence of a run is worth, proved for every set of            *)
(* connections and processes and any number of samples, resets and         *)
(* canaries.                                                               *)
(*                                                                         *)
(* Measured relates a run's mark to the counts of the window it was taken  *)
(* in, and what the samples caught to what they counted.                   *)
(***************************************************************************)
EXTENDS EgressWatch, FiniteSetTheorems, WellFoundedInduction, TLAPS

Out(c) == classify(c.remote) = "external"

Measured ==
    /\ IsFiniteSet(observed)
    /\ \A o \in observed : o.conn \in Conns /\ Out(o.conn) => o.kind = "external"
    /\ ~mark.taken => born = {} /\ caught = {}
    /\ \A c \in born : Out(c) /\ c \in seen => c \in caught
    /\ mark.taken => mark.generation <= generation
    /\ mark.taken /\ mark.generation = generation =>
         /\ mark.samples <= samples
         /\ mark.lan_out <= flows["lan_out"]
         /\ mark.external + Cardinality(caught) <= flows["external"]

Watch == TypeOK /\ Measured

-----------------------------------------------------------------------------
(* The initial state satisfies the invariant.                              *)
LEMMA InitWatch == Init => Watch
<1> SUFFICES ASSUME Init PROVE Watch
  OBVIOUS
<1>1. TypeOK
  <2>1. disturbed \in 0..MaxDisturbances /\ samples \in 0..MaxSamples
    BY BoundsAssumption DEF Init
  <2>2. looking \in [scope : SUBSET (Processes \cup {"backend"}),
                     expected : SUBSET {"gpu"}, canary : BOOLEAN]
    BY DEF Init, NoLook
  <2>3. mark \in [taken : BOOLEAN, generation : Nat, samples : Nat,
                  external : Nat, lan_out : Nat]
    BY DEF Init, NoMark
  <2>4. \A k \in ListedKinds : \A key \in DOMAIN events[k] : events[k][key] \in Nat
    BY DEF Init, NoEvents
  <2>5. flows \in [Kinds -> Nat]
    BY DEF Init
  <2> QED
    BY <2>1, <2>2, <2>3, <2>4, <2>5 DEF Init, TypeOK, Where
<1>2. Measured
  BY FS_EmptySet DEF Init, Measured, NoMark
<1> QED
  BY <1>1, <1>2 DEF Watch

(* A step that touches neither the window nor the run nor what the sample  *)
(* under way has seen.                                                     *)
LEMMA MeasuredStill ==
    ASSUME Measured, UNCHANGED <<observed, generation, samples, flows, seen, run>>
    PROVE  Measured'
BY DEF Measured, Out, run

-----------------------------------------------------------------------------
(* What the processes and the thread do *)

(* Processes start, connections open and close.                            *)
LEMMA WorldWatch ==
    ASSUME Watch, \/ \E p \in Processes : Spawn(p)
                  \/ \E c \in Conns : Open(c) \/ Shut(c)
    PROVE  Watch'
<1>1. ASSUME NEW p \in Processes, Spawn(p) PROVE Watch'
  <2>1. TypeOK'
    BY <1>1, BoundsAssumption DEF Watch, TypeOK, Spawn, Disturb, sampler, window, run
  <2>2. Measured'
    BY <1>1, MeasuredStill DEF Watch, Spawn, sampler, window
  <2> QED
    BY <2>1, <2>2 DEF Watch
<1>2. ASSUME NEW c \in Conns, Shut(c) PROVE Watch'
  <2>1. TypeOK'
    BY <1>2 DEF Watch, TypeOK, Shut, sampler, window, run
  <2>2. Measured'
    BY <1>2, MeasuredStill DEF Watch, Shut, sampler, window
  <2> QED
    BY <2>1, <2>2 DEF Watch
<1>3. ASSUME NEW c \in Conns, Open(c) PROVE Watch'
  <2>1. TypeOK'
    <3>1. born' \subseteq Conns /\ born \subseteq born' /\ open' \subseteq Conns \cup {CanaryConn}
      BY <1>3 DEF Watch, TypeOK, Open
    <3>2. disturbed' \in 0..MaxDisturbances
      BY <1>3, BoundsAssumption DEF Watch, TypeOK, Open, Disturb
    <3> QED
      BY <1>3, <3>1, <3>2 DEF Watch, TypeOK, Open, sampler, window
  <2>2. /\ UNCHANGED <<observed, generation, samples, flows, seen, mark, caught>>
        /\ mark.taken \/ born' = born
        /\ \A d \in born' : d \in born \/ d \notin seen
    BY <1>3 DEF Open, sampler, window
  <2>3. Measured'
    BY <2>2 DEF Watch, Measured, Out
  <2> QED
    BY <2>1, <2>3 DEF Watch
<1> QED
  BY <1>1, <1>2, <1>3

(* The steps of the thread before it scans.                                *)
LEMMA RefreshWatch ==
    ASSUME Watch, ThreadEnds \/ ReadPorts \/ StoreScope \/ Look \/ SampleFails
    PROVE  Watch'
<1>1. Measured'
  BY MeasuredStill DEF Watch, ThreadEnds, ReadPorts, StoreScope, Look, SampleFails, window
<1>2. CASE ThreadEnds
  BY <1>1, <1>2 DEF Watch, TypeOK, ThreadEnds, world, window, run
<1>3. CASE ReadPorts
  BY <1>1, <1>3 DEF Watch, TypeOK, ReadPorts, world, window, run
<1>4. CASE StoreScope
  <2>1. scope' \subseteq Processes \cup {"backend"}
    BY <1>4 DEF Watch, TypeOK, StoreScope, Family
  <2> QED
    BY <1>1, <1>4, <2>1 DEF Watch, TypeOK, StoreScope, Where, world, window, run
<1>5. CASE Look
  <2>1. looking' \in [scope : SUBSET (Processes \cup {"backend"}),
                      expected : SUBSET {"gpu"}, canary : BOOLEAN]
    BY <1>5 DEF Watch, TypeOK, Look
  <2> QED
    BY <1>1, <1>5, <2>1 DEF Watch, TypeOK, Look, world, window, run
<1>6. CASE SampleFails
  <2>1. looking' \in [scope : SUBSET (Processes \cup {"backend"}),
                      expected : SUBSET {"gpu"}, canary : BOOLEAN]
    BY <1>6 DEF SampleFails, NoLook
  <2> QED
    BY <1>1, <1>6, <2>1 DEF Watch, TypeOK, SampleFails, Where, world, run
<1> QED
  BY <1>2, <1>3, <1>4, <1>5, <1>6

(* A connection out is classified as external; only the canary's target    *)
(* may be taken for the canary.                                            *)
LEMMA KindOfConnection ==
    ASSUME NEW c \in Conns \cup {CanaryConn}, NEW at
    PROVE  /\ Kind(c, at) \in Kinds
           /\ c \in Conns /\ Out(c) => Kind(c, at) = "external"
<1>1. c \in Conns => c.remote # "target"
  BY ConnsAssumption
<1>2. CASE classify(c.remote) = "lan"
  BY <1>2 DEF Kind, Kinds, Out
<1>3. CASE classify(c.remote) # "lan"
  <2>1. classify(c.remote) \in {"local", "external"}
    BY <1>3 DEF classify
  <2>2. Kind(c, at) \in {"canary", classify(c.remote)}
    BY <1>3 DEF Kind
  <2>3. c.remote # "target" => Kind(c, at) = classify(c.remote)
    BY <1>3 DEF Kind
  <2> QED
    BY <1>1, <2>1, <2>2, <2>3 DEF Kinds, Out
<1> QED
  BY <1>2, <1>3

(* A scan observes finitely many connections.                              *)
LEMMA ScanWatch ==
    ASSUME Watch, Scan
    PROVE  Watch'
<1> DEFINE S == {c \in open : c.proc \in looking.scope}
           f == [c \in S |-> [conn |-> c, kind |-> Kind(c, looking)]]
<1>1. observed' = {[conn |-> c, kind |-> Kind(c, looking)] : c \in S}
  BY DEF Scan
<1>2. S \subseteq Conns \cup {CanaryConn}
  BY DEF Watch, TypeOK
<1>3. IsFiniteSet(S)
  <2>1. IsFiniteSet(Conns \cup {CanaryConn})
    BY ConnsAssumption, FS_AddElement
  <2> QED
    BY <1>2, <2>1, FS_Subset
<1>4. IsFiniteSet(observed')
  <2>1. f \in Surjection(S, observed')
    BY <1>1 DEF Surjection
  <2> HIDE DEF f, S
  <2> QED
    BY <1>3, <2>1, FS_Surjection
<1>5. \A o \in observed' : \E c \in S : o = [conn |-> c, kind |-> Kind(c, looking)]
  BY <1>1
<1> HIDE DEF S
<1>6. ASSUME NEW o \in observed'
      PROVE  /\ o \in [conn : Conns \cup {CanaryConn}, kind : Kinds]
             /\ o.conn \in Conns /\ Out(o.conn) => o.kind = "external"
  <2>1. PICK c \in S : o = [conn |-> c, kind |-> Kind(c, looking)]
    BY <1>5
  <2>2. c \in Conns \cup {CanaryConn}
    BY <1>2
  <2>3. /\ Kind(c, looking) \in Kinds
        /\ c \in Conns /\ Out(c) => Kind(c, looking) = "external"
    BY <2>2, KindOfConnection
  <2> QED
    BY <2>1, <2>2, <2>3
<1>7. looking' \in [scope : SUBSET (Processes \cup {"backend"}),
                    expected : SUBSET {"gpu"}, canary : BOOLEAN]
  BY DEF Scan, NoLook
<1>8. TypeOK'
  <2>1. observed' \subseteq [conn : Conns \cup {CanaryConn}, kind : Kinds]
    BY <1>6
  <2> QED
    BY <1>7, <2>1 DEF Watch, TypeOK, Scan, world, window, run
<1>9. UNCHANGED <<generation, samples, flows, seen, mark, born, caught>>
  BY DEF Scan, window, run
<1>10. Measured'
  BY <1>4, <1>6, <1>9 DEF Watch, Measured, Out
<1> QED
  BY <1>8, <1>10 DEF Watch

-----------------------------------------------------------------------------
(* The event loop *)

(* The canary, the endpoints and the stop leave the counts alone.          *)
LEMMA LoopWatch ==
    ASSUME Watch, \/ CanaryLapses \/ ArmCanary \/ CanaryEnds \/ Stop
                  \/ \E where \in Where : set_endpoints(where)
    PROVE  Watch'
<1>1. Measured'
  BY MeasuredStill
  DEF Watch, CanaryLapses, ArmCanary, CanaryEnds, Stop, set_endpoints, sampler, window
<1>2. CASE CanaryLapses
  BY <1>1, <1>2 DEF Watch, TypeOK, CanaryLapses, world, sampler, run
<1>3. CASE ArmCanary
  <2>1. open' \subseteq Conns \cup {CanaryConn} /\ trying' \in Nat /\ canary' \in BOOLEAN
    BY <1>3 DEF Watch, TypeOK, ArmCanary
  <2>2. disturbed' \in 0..MaxDisturbances
    BY <1>3, BoundsAssumption DEF Watch, TypeOK, ArmCanary, Disturb
  <2> QED
    BY <1>1, <1>3, <2>1, <2>2 DEF Watch, TypeOK, ArmCanary, sampler, run
<1>4. CASE CanaryEnds
  <2>1. open' \subseteq Conns \cup {CanaryConn} /\ trying' \in Nat
    BY <1>4 DEF Watch, TypeOK, CanaryEnds
  <2> QED
    BY <1>1, <1>4, <2>1 DEF Watch, TypeOK, CanaryEnds, sampler, window, run
<1>5. CASE Stop
  <2>1. disturbed' \in 0..MaxDisturbances
    BY <1>5, BoundsAssumption DEF Watch, TypeOK, Stop, Disturb
  <2> QED
    BY <1>1, <1>5, <2>1 DEF Watch, TypeOK, Stop, world, window, run
<1>6. ASSUME NEW where \in Where, set_endpoints(where) PROVE Watch'
  <2>1. disturbed' \in 0..MaxDisturbances /\ forced' \in BOOLEAN
    BY <1>6, BoundsAssumption DEF Watch, TypeOK, set_endpoints, Disturb
  <2> QED
    BY <1>1, <1>6, <2>1 DEF Watch, TypeOK, set_endpoints, world, window, run
<1> QED
  BY <1>2, <1>3, <1>4, <1>5, <1>6

(* A reset opens a new window with its counts at zero.                     *)
LEMMA ResetWatch ==
    ASSUME Watch, reset
    PROVE  Watch'
<1>1. /\ generation' = generation + 1 /\ samples' = 0 /\ flows' = [k \in Kinds |-> 0]
      /\ seen' = {} /\ events' = NoEvents /\ canary' = FALSE /\ error' = FALSE
      /\ UNCHANGED <<world, sampler, endpoints, trying, run>>
  BY DEF reset, Clear
<1>2. TypeOK'
  <2>1. disturbed' \in 0..MaxDisturbances
    BY BoundsAssumption DEF Watch, TypeOK, reset, Disturb
  <2>2. \A k \in ListedKinds : \A key \in DOMAIN events'[k] : events'[k][key] \in Nat
    BY <1>1 DEF NoEvents
  <2>3. flows' \in [Kinds -> Nat] /\ generation' \in Nat /\ samples' \in 0..MaxSamples
    BY <1>1, BoundsAssumption DEF Watch, TypeOK
  <2> QED
    BY <1>1, <2>1, <2>2, <2>3 DEF Watch, TypeOK, world, sampler, run
<1>3. Measured'
  <2>1. mark.generation \in Nat /\ generation \in Nat
    BY DEF Watch, TypeOK
  <2> QED
    BY <1>1, <2>1 DEF Watch, Measured, Out, sampler, run
<1> QED
  BY <1>2, <1>3 DEF Watch

(* A run takes its mark.                                                   *)
LEMMA MarkWatch ==
    ASSUME Watch, Mark
    PROVE  Watch'
<1>1. /\ ~mark.taken
      /\ mark' = [taken |-> TRUE, generation |-> generation, samples |-> samples,
                  external |-> flows["external"], lan_out |-> flows["lan_out"]]
      /\ UNCHANGED <<world, sampler, endpoints, window, trying, born, caught>>
  BY DEF Mark
<1>2. /\ generation \in Nat /\ samples \in Nat
      /\ flows["external"] \in Nat /\ flows["lan_out"] \in Nat
  BY BoundsAssumption DEF Watch, TypeOK, Kinds
<1>3. TypeOK'
  <2>1. disturbed' \in 0..MaxDisturbances
    BY BoundsAssumption DEF Watch, TypeOK, Mark, Disturb
  <2>2. mark' \in [taken : BOOLEAN, generation : Nat, samples : Nat,
                   external : Nat, lan_out : Nat]
    BY <1>1, <1>2
  <2> QED
    BY <1>1, <2>1, <2>2 DEF Watch, TypeOK, world, sampler, window
<1>4. Measured'
  <2>1. born = {} /\ caught = {} /\ Cardinality(caught) = 0
    BY <1>1, FS_EmptySet DEF Watch, Measured
  <2>2. /\ mark'.taken /\ mark'.generation = generation /\ mark'.samples = samples
        /\ mark'.external = flows["external"] /\ mark'.lan_out = flows["lan_out"]
    BY <1>1
  <2> QED
    BY <1>1, <1>2, <2>1, <2>2 DEF Watch, Measured, Out, sampler, window
<1> QED
  BY <1>3, <1>4 DEF Watch

(* A run reads what came since its mark.                                   *)
LEMMA RunEndsWatch ==
    ASSUME Watch, RunEnds
    PROVE  Watch'
<1>1. /\ mark' = NoMark /\ born' = {} /\ caught' = {}
      /\ UNCHANGED <<world, disturbed, sampler, endpoints, window, trying>>
  BY DEF RunEnds
<1>2. ~mark'.taken /\ mark' \in [taken : BOOLEAN, generation : Nat, samples : Nat,
                                 external : Nat, lan_out : Nat]
  BY <1>1 DEF NoMark
<1>3. TypeOK'
  BY <1>1, <1>2 DEF Watch, TypeOK, world, sampler, window
<1>4. Measured'
  BY <1>1, <1>2 DEF Watch, Measured, sampler, window
<1> QED
  BY <1>3, <1>4 DEF Watch

-----------------------------------------------------------------------------
(* The commit of a sample *)

(* What a sample adds to a count is a number.                              *)
LEMMA CountType ==
    ASSUME Watch
    PROVE  /\ IsFiniteSet(Fresh)
           /\ \A k : Count(k) \in Nat /\ IsFiniteSet({o \in Fresh : o.kind = k})
<1>1. IsFiniteSet(observed) /\ Fresh \subseteq observed
  BY DEF Watch, Measured, Fresh
<1>2. IsFiniteSet(Fresh)
  BY <1>1, FS_Subset
<1>3. ASSUME NEW k
      PROVE  Count(k) \in Nat /\ IsFiniteSet({o \in Fresh : o.kind = k})
  <2>1. IsFiniteSet({o \in Fresh : o.kind = k})
    <3>1. {o \in Fresh : o.kind = k} \in SUBSET Fresh
      OBVIOUS
    <3> QED
      BY <1>2, <3>1, FS_Subset
  <2> QED
    BY <2>1, FS_CardinalityType DEF Count
<1> QED
  BY <1>2, <1>3

(* What a sample makes of an event list still holds numbers.               *)
LEMMA NoteType ==
    ASSUME Watch, NEW k \in ListedKinds, NEW e \in Note(k)
    PROVE  \A key \in DOMAIN e : e[key] \in Nat
<1> DEFINE old == DOMAIN events[k]
           new(key) == Cardinality({o \in Fresh : o.kind = k
                                                  /\ EventKey(o.conn) = key})
<1>1. PICK added :
        e = [key \in old \cup added |->
               (IF key \in old THEN events[k][key] ELSE 0) + new(key)]
  BY DEF Note
<1>2. ASSUME NEW key PROVE new(key) \in Nat
  <2>1. {o \in Fresh : o.kind = k /\ EventKey(o.conn) = key} \in SUBSET Fresh
    OBVIOUS
  <2>2. IsFiniteSet({o \in Fresh : o.kind = k /\ EventKey(o.conn) = key})
    BY <2>1, CountType, FS_Subset
  <2> QED
    BY <2>2, FS_CardinalityType
<1>3. \A key \in old : events[k][key] \in Nat
  BY DEF Watch, TypeOK
<1> HIDE DEF new, old
<1>4. ASSUME NEW key \in DOMAIN e PROVE e[key] \in Nat
  <2>1. key \in old \cup added
    BY <1>1
  <2>2. e[key] = (IF key \in old THEN events[k][key] ELSE 0) + new(key)
    BY <1>1, <2>1
  <2> QED
    BY <1>2, <1>3, <2>2
<1> QED
  BY <1>4

(* The connections a commit newly catches are among those it newly counts  *)
(* as external.                                                            *)
LEMMA NewlyCaughtAreCounted ==
    ASSUME Watch, NEW N \in SUBSET (born \ caught),
           \A c \in N : Out(c) /\ \E o \in observed : o.conn = c
    PROVE  IsFiniteSet(N) /\ Cardinality(N) <= Count("external")
<1> DEFINE T == {o \in Fresh : o.kind = "external"}
           f == [c \in N |-> [conn |-> c, kind |-> "external"]]
<1>1. ASSUME NEW c \in N PROVE [conn |-> c, kind |-> "external"] \in T
  <2>1. PICK o \in observed : o.conn = c
    OBVIOUS
  <2>2. c \in Conns /\ c \notin seen /\ Out(c)
    BY DEF Watch, TypeOK, Measured
  <2>3. o \in [conn : Conns \cup {CanaryConn}, kind : Kinds]
    BY DEF Watch, TypeOK
  <2>4. o.kind = "external"
    BY <2>1, <2>2 DEF Watch, Measured
  <2>5. o = [conn |-> c, kind |-> "external"]
    BY <2>1, <2>3, <2>4
  <2>6. o \in Fresh
    BY <2>1, <2>2 DEF Fresh
  <2> QED
    BY <2>4, <2>5, <2>6
<1>2. \A c, d \in N : [conn |-> c, kind |-> "external"] = [conn |-> d, kind |-> "external"]
                        => c = d
  <2>1. ASSUME NEW c \in N, NEW d \in N,
               [conn |-> c, kind |-> "external"] = [conn |-> d, kind |-> "external"]
        PROVE  c = d
    <3>1. [conn |-> c, kind |-> "external"].conn = [conn |-> d, kind |-> "external"].conn
      BY <2>1
    <3> QED
      BY <3>1
  <2> QED
    BY <2>1
<1>3. f \in Injection(N, T)
  <2>1. f \in [N -> T]
    BY <1>1
  <2>2. \A c, d \in N : f[c] = f[d] => c = d
    BY <1>2
  <2> HIDE DEF f, T
  <2> QED
    BY <2>1, <2>2 DEF Injection, IsInjective
<1>4. IsFiniteSet(T) /\ Count("external") = Cardinality(T)
  BY CountType DEF Count
<1> HIDE DEF f, T
<1> QED
  BY <1>3, <1>4, FS_Injection

(* A committed sample raises the counts by what it found for the first time. *)
LEMMA CommitWatch ==
    ASSUME Watch, Commit
    PROVE  Watch'
<1> DEFINE now == {o.conn : o \in observed}
<1>1. /\ pc' = "wait" /\ error' = FALSE /\ observed' = {}
      /\ samples' = IF samples < MaxSamples THEN samples + 1 ELSE samples
      /\ flows' = [k \in Kinds |-> flows[k] + Count(k)]
      /\ UNCHANGED <<world, disturbed, stop, scope, forced, ports, looking,
                     endpoints, generation, canary, trying, mark, born>>
  BY DEF Commit
<1>2. PICK external \in Note("external"), lan_out \in Note("lan_out") :
        events' = [external |-> external, lan_out |-> lan_out]
  BY DEF Commit
<1>3. seen' \subseteq seen \cup now
  BY DEF Commit
<1>4. now \subseteq Conns \cup {CanaryConn}
  <2>1. \A o \in observed : o.conn \in Conns \cup {CanaryConn}
    BY DEF Watch, TypeOK
  <2> QED
    BY <2>1
<1>5. /\ flows' \in [Kinds -> Nat]
      /\ \A k \in Kinds : flows[k] \in Nat /\ Count(k) \in Nat
                          /\ flows'[k] = flows[k] + Count(k)
  <2>1. \A k \in Kinds : flows[k] \in Nat /\ Count(k) \in Nat
    BY CountType DEF Watch, TypeOK
  <2> QED
    BY <1>1, <2>1
<1>6. samples' \in 0..MaxSamples /\ samples <= samples' /\ samples \in Nat /\ samples' \in Nat
  BY <1>1, BoundsAssumption DEF Watch, TypeOK
<1>7. \A k \in ListedKinds : \A key \in DOMAIN events'[k] : events'[k][key] \in Nat
  <2>1. \A key \in DOMAIN external : external[key] \in Nat
    BY NoteType DEF ListedKinds
  <2>2. \A key \in DOMAIN lan_out : lan_out[key] \in Nat
    BY NoteType DEF ListedKinds
  <2>3. events'["external"] = external /\ events'["lan_out"] = lan_out
    BY <1>2
  <2> QED
    BY <2>1, <2>2, <2>3 DEF ListedKinds
<1>8. PICK N \in SUBSET (born \ caught) :
        /\ caught' = caught \cup N
        /\ \A c \in N : Out(c) /\ \E o \in observed : o.conn = c
        /\ mark.taken => \A c \in born : Out(c) /\ c \in now => c \in caught'
  <2>1. CASE mark.taken
    <3> DEFINE M == {c \in born \ caught : Out(c) /\ \E o \in observed : o.conn = c}
    <3>1. caught' = caught \cup M
      BY <2>1 DEF Commit, Out, Watch, TypeOK
    <3>2. \A c \in born : Out(c) /\ c \in now => c \in caught'
      BY <3>1
    <3>3. M \in SUBSET (born \ caught)
      OBVIOUS
    <3>4. \A c \in M : Out(c) /\ \E o \in observed : o.conn = c
      OBVIOUS
    <3> HIDE DEF M, now
    <3> QED
      BY <3>1, <3>2, <3>3, <3>4
  <2>2. CASE ~mark.taken
    <3>1. caught' = caught \cup {}
      BY <2>2 DEF Commit
    <3>2. {} \in SUBSET (born \ caught)
      OBVIOUS
    <3> HIDE DEF now
    <3> QED
      BY <2>2, <3>1, <3>2
  <2> QED
    BY <2>1, <2>2
<1>9. caught' \subseteq born
  BY <1>8 DEF Watch, TypeOK
<1>10. TypeOK'
  <2>1. seen' \subseteq Conns \cup {CanaryConn}
    BY <1>3, <1>4 DEF Watch, TypeOK
  <2> QED
    BY <1>1, <1>5, <1>6, <1>7, <1>9, <2>1 DEF Watch, TypeOK, world
<1>11. IsFiniteSet(caught)
  <2>1. caught \in SUBSET Conns
    BY DEF Watch, TypeOK
  <2> QED
    BY <2>1, ConnsAssumption, FS_Subset
<1>12. /\ Cardinality(caught) \in Nat /\ Cardinality(caught') \in Nat
       /\ Cardinality(caught') <= Cardinality(caught) + Count("external")
  <2>1. IsFiniteSet(N) /\ Cardinality(N) <= Count("external")
    BY <1>8, NewlyCaughtAreCounted
  <2>2. IsFiniteSet(caught') /\ Cardinality(caught') =
          Cardinality(caught) + Cardinality(N) - Cardinality(caught \cap N)
    BY <1>8, <1>11, <2>1, FS_Union
  <2>3. caught \cap N = {}
    OBVIOUS
  <2>4. Cardinality(caught \cap N) = 0
    BY <2>3, FS_EmptySet
  <2>5. Cardinality(caught) \in Nat /\ Cardinality(N) \in Nat /\ Cardinality(caught') \in Nat
    BY <1>11, <2>1, <2>2, FS_CardinalityType
  <2>6. Count("external") \in Nat
    BY CountType
  <2> QED
    BY <2>1, <2>2, <2>4, <2>5, <2>6
<1>13. Measured'
  <2>1. IsFiniteSet(observed')
    BY <1>1, FS_EmptySet
  <2>2. ~mark'.taken => born' = {} /\ caught' = {}
    BY <1>1, <1>8 DEF Watch, Measured
  <2>3. ASSUME NEW c \in born', Out(c), c \in seen' PROVE c \in caught'
    <3>1. mark.taken
      BY <1>1, <2>3 DEF Watch, Measured
    <3>2. c \in seen \/ c \in now
      BY <1>3, <2>3
    <3>3. CASE c \in seen
      BY <1>1, <1>8, <2>3, <3>3 DEF Watch, Measured
    <3>4. CASE c \in now
      BY <1>1, <1>8, <2>3, <3>1, <3>4
    <3> QED
      BY <3>2, <3>3, <3>4
  <2>4. ASSUME mark.taken, mark.generation = generation
        PROVE  /\ mark.samples <= samples'
               /\ mark.lan_out <= flows'["lan_out"]
               /\ mark.external + Cardinality(caught') <= flows'["external"]
    <3>1. /\ mark.samples <= samples /\ mark.lan_out <= flows["lan_out"]
          /\ mark.external + Cardinality(caught) <= flows["external"]
      BY <2>4 DEF Watch, Measured
    <3>2. mark.samples \in Nat /\ mark.lan_out \in Nat /\ mark.external \in Nat
      BY DEF Watch, TypeOK
    <3>3. /\ flows'["lan_out"] = flows["lan_out"] + Count("lan_out")
          /\ flows'["external"] = flows["external"] + Count("external")
          /\ flows["lan_out"] \in Nat /\ Count("lan_out") \in Nat
          /\ flows["external"] \in Nat /\ Count("external") \in Nat
      BY <1>5 DEF Kinds
    <3> QED
      BY <1>6, <1>12, <3>1, <3>2, <3>3
  <2>5. mark' = mark /\ generation' = generation
    BY <1>1
  <2>6. mark'.taken => mark'.generation <= generation'
    BY <2>5 DEF Watch, Measured
  <2>7. \A o \in observed' : o.conn \in Conns /\ Out(o.conn) => o.kind = "external"
    BY <1>1
  <2>8. \A c \in born' : Out(c) /\ c \in seen' => c \in caught'
    BY <2>3
  <2> QED
    BY <2>1, <2>2, <2>4, <2>5, <2>6, <2>7, <2>8 DEF Measured, Out
<1> QED
  BY <1>10, <1>13 DEF Watch

-----------------------------------------------------------------------------
(* Every step keeps the invariant.                                         *)
LEMMA StepWatch ==
    ASSUME Watch, [Next]_vars
    PROVE  Watch'
<1>1. CASE UNCHANGED vars
  BY <1>1 DEF Watch, TypeOK, Measured, Out, vars, world, sampler, window, run
<1>2. CASE Next
  BY <1>2, WorldWatch, RefreshWatch, ScanWatch, CommitWatch, LoopWatch, ResetWatch,
     MarkWatch, RunEndsWatch
  DEF Next, Sampling
<1> QED
  BY <1>1, <1>2

(* The watch's state keeps its types: the counts stay natural numbers, and *)
(* the flows seen and counted are connections of the machine               *)
(* (fource_egress.py:_sample).                                             *)
THEOREM WatchTypes == Spec => []TypeOK
<1>1. Spec => []Watch
  BY InitWatch, StepWatch, PTL DEF Spec
<1>2. Watch => TypeOK
  BY DEF Watch
<1> QED
  BY <1>1, <1>2, PTL

(* The receipt of a run (since_mark) never counts fewer connections to the *)
(* internet than its samples caught, unless the window was reset.          *)
THEOREM ReceiptNeverUnderstates == Spec => []EvidenceNeverUnderstates
<1>1. Spec => []Watch
  BY InitWatch, StepWatch, PTL DEF Spec
<1>2. ASSUME Watch PROVE EvidenceNeverUnderstates
  <2> SUFFICES ASSUME mark.taken, since_mark.observed, generation = mark.generation
               PROVE  since_mark.external >= Cardinality(caught)
    BY DEF EvidenceNeverUnderstates
  <2>1. Base = mark
    BY DEF Base
  <2>2. since_mark.external = flows["external"] - mark.external
    BY <2>1 DEF since_mark
  <2>3. mark.external + Cardinality(caught) <= flows["external"]
    BY <1>2 DEF Watch, Measured
  <2>4. mark.external \in Nat /\ flows["external"] \in Nat
    BY <1>2 DEF Watch, TypeOK, Kinds
  <2>5. Cardinality(caught) \in Nat
    <3>1. caught \in SUBSET Conns
      BY <1>2 DEF Watch, TypeOK
    <3>2. IsFiniteSet(caught)
      BY <3>1, ConnsAssumption, FS_Subset
    <3> QED
      BY <3>2, FS_CardinalityType
  <2> QED
    BY <2>2, <2>3, <2>4, <2>5
<1> QED
  BY <1>1, <1>2, PTL

(* A number on a receipt is a difference of two counts of one window,      *)
(* neither negative nor more than the window holds, through any reset      *)
(* between mark and since_mark.                                            *)
THEOREM ReceiptIsMeasured == Spec => []EvidenceIsMeasured
<1>1. Spec => []Watch
  BY InitWatch, StepWatch, PTL DEF Spec
<1>2. ASSUME Watch PROVE EvidenceIsMeasured
  <2> SUFFICES ASSUME mark.taken, since_mark.observed
               PROVE  /\ samples > 0
                      /\ since_mark.external \in 0..flows["external"]
                      /\ since_mark.lan_out \in 0..flows["lan_out"]
    BY DEF EvidenceIsMeasured
  <2>1. /\ mark.samples \in Nat /\ mark.external \in Nat /\ mark.lan_out \in Nat
        /\ samples \in Nat /\ flows["external"] \in Nat /\ flows["lan_out"] \in Nat
    BY <1>2, BoundsAssumption DEF Watch, TypeOK, Kinds
  <2>2. /\ Base.samples \in Nat /\ Base.external \in Nat /\ Base.lan_out \in Nat
        /\ Base.external <= flows["external"] /\ Base.lan_out <= flows["lan_out"]
    <3>1. CASE generation = mark.generation
      <4>1. Base = mark
        BY <3>1 DEF Base
      <4>2. /\ mark.external + Cardinality(caught) <= flows["external"]
            /\ mark.lan_out <= flows["lan_out"]
        BY <1>2, <3>1 DEF Watch, Measured
      <4>3. Cardinality(caught) \in Nat
        <5>1. caught \in SUBSET Conns
          BY <1>2 DEF Watch, TypeOK
        <5>2. IsFiniteSet(caught)
          BY <5>1, ConnsAssumption, FS_Subset
        <5> QED
          BY <5>2, FS_CardinalityType
      <4> QED
        BY <2>1, <4>1, <4>2, <4>3
    <3>2. CASE generation # mark.generation
      <4>1. Base = [mark EXCEPT !.samples = 0, !.external = 0, !.lan_out = 0]
        BY <3>2 DEF Base
      <4>2. Base.samples = 0 /\ Base.external = 0 /\ Base.lan_out = 0
        <5>1. mark \in [taken : BOOLEAN, generation : Nat, samples : Nat,
                        external : Nat, lan_out : Nat]
          BY <1>2 DEF Watch, TypeOK
        <5> QED
          BY <4>1, <5>1
      <4> QED
        BY <2>1, <4>2
    <3> QED
      BY <3>1, <3>2
  <2>3. /\ samples > Base.samples
        /\ since_mark.external = flows["external"] - Base.external
        /\ since_mark.lan_out = flows["lan_out"] - Base.lan_out
    BY <2>1, <2>2 DEF since_mark
  <2> QED
    BY <2>1, <2>2, <2>3
<1> QED
  BY <1>1, <1>2, PTL

-----------------------------------------------------------------------------
(* Sums over a finite set *)

(* A set of natural numbers has a least one.                               *)
LEMMA LeastNat ==
    ASSUME NEW N \in SUBSET Nat, N # {}
    PROVE  \E n \in N : \A m \in N : n <= m
<1>1. PICK n \in N : \A m \in N : ~(<<m, n>> \in OpToRel(<, Nat))
  BY NatLessThanWellFounded, WFMin
<1>2. \A m \in N : ~(m < n)
  BY <1>1 DEF OpToRel
<1> QED
  BY <1>2

(* Induction over a finite set, with the property as a set of its subsets: *)
(* a least subset without it would have an element too many.               *)
LEMMA SetInduction ==
    ASSUME NEW S, IsFiniteSet(S), NEW P, {} \in P,
           \A T \in SUBSET S : \A x \in S \ T : T \in P => T \cup {x} \in P
    PROVE  S \in P
<1> SUFFICES ASSUME S \notin P PROVE FALSE
  OBVIOUS
<1> DEFINE N == {n \in Nat : \E T \in SUBSET S : T \notin P /\ Cardinality(T) = n}
<1>1. \A T \in SUBSET S : IsFiniteSet(T) /\ Cardinality(T) \in Nat
  BY FS_Subset, FS_CardinalityType
<1>2. N # {}
  BY <1>1
<1>3. PICK n \in N : \A m \in N : n <= m
  BY <1>2, LeastNat
<1>4. PICK T \in SUBSET S : T \notin P /\ Cardinality(T) = n
  OBVIOUS
<1>5. PICK x \in T : TRUE
  BY <1>4
<1>6. (T \ {x}) \cup {x} = T /\ T \ {x} \in SUBSET S /\ x \in S \ (T \ {x})
  BY <1>5
<1>7. T \ {x} \notin P
  BY <1>4, <1>6
<1>8. Cardinality(T \ {x}) = n - 1
  BY <1>1, <1>4, <1>5, FS_RemoveElement
<1>9. n - 1 \in N
  BY <1>1, <1>6, <1>7, <1>8
<1> QED
  BY <1>3, <1>9

(* The sum of f over S, as the fold of CountIsItsList, and the set of as   *)
(* many pairs.                                                             *)
Total(f, S) == MapThenSumSet(LAMBDA k : f[k], S)

Pairs(f, S) == {p \in S \X Nat : p[2] \in 1 .. f[p[1]]}

(* One element more adds its number of pairs.                              *)
LEMMA PairsAdd ==
    ASSUME NEW f, NEW S, NEW x, x \notin S, IsFiniteSet(Pairs(f, S)), f[x] \in Nat
    PROVE  /\ IsFiniteSet(Pairs(f, S \cup {x}))
           /\ Cardinality(Pairs(f, S \cup {x})) = f[x] + Cardinality(Pairs(f, S))
<1> DEFINE X == {x} \X (1 .. f[x])
<1>1. Pairs(f, S \cup {x}) = Pairs(f, S) \cup X
  BY DEF Pairs
<1>2. Pairs(f, S) \cap X = {}
  BY DEF Pairs
<1>3. IsFiniteSet(X) /\ Cardinality(X) = f[x]
  <2>1. IsFiniteSet({x}) /\ Cardinality({x}) = 1
    BY FS_Singleton
  <2>2. IsFiniteSet(1 .. f[x]) /\ Cardinality(1 .. f[x]) = f[x]
    BY FS_Interval
  <2> DEFINE I == 1 .. f[x]
  <2>3. IsFiniteSet({x} \X I) /\ Cardinality({x} \X I) = Cardinality({x}) * Cardinality(I)
    <3> HIDE DEF I
    <3> QED
      BY <2>1, <2>2, FS_Product DEF I
  <2>4. Cardinality({x}) * Cardinality(I) = f[x]
    BY <2>1, <2>2
  <2> QED
    BY <2>3, <2>4
<1>4. Cardinality(Pairs(f, S)) \in Nat
  BY FS_CardinalityType
<1> HIDE DEF X
<1>5. /\ IsFiniteSet(Pairs(f, S) \cup X)
      /\ Cardinality(Pairs(f, S) \cup X) =
           Cardinality(Pairs(f, S)) + Cardinality(X) - Cardinality(Pairs(f, S) \cap X)
  BY <1>3, FS_Union
<1>6. Cardinality(Pairs(f, S) \cap X) = 0
  BY <1>2, FS_EmptySet
<1>7. Cardinality(Pairs(f, S) \cup X) = f[x] + Cardinality(Pairs(f, S))
  BY <1>3, <1>4, <1>5, <1>6
<1> QED
  BY <1>1, <1>5, <1>7, Zenon

(* Finitely many numbers make finitely many pairs.                         *)
LEMMA PairsFinite ==
    ASSUME NEW f, NEW S, IsFiniteSet(S), \A k \in S : f[k] \in Nat
    PROVE  IsFiniteSet(Pairs(f, S)) /\ Cardinality(Pairs(f, S)) \in Nat
<1> DEFINE P == {T \in SUBSET S : IsFiniteSet(Pairs(f, T))}
<1>1. {} \in P
  <2>1. Pairs(f, {}) = {}
    BY DEF Pairs
  <2> QED
    BY <2>1, FS_EmptySet
<1>2. ASSUME NEW T \in SUBSET S, NEW x \in S \ T, T \in P PROVE T \cup {x} \in P
  BY <1>2, PairsAdd
<1>3. S \in P
  <2> HIDE DEF P
  <2> QED
    BY <1>1, <1>2, SetInduction
<1> QED
  BY <1>3, FS_CardinalityType

(* The fold counts the pairs, in whichever order it takes the elements:    *)
(* the number of pairs solves the fold's equation, and no other function   *)
(* does, by induction on the size of the set.                              *)
LEMMA TotalIsPairs ==
    ASSUME NEW f, NEW S, IsFiniteSet(S), \A k \in S : f[k] \in Nat
    PROVE  Total(f, S) = Cardinality(Pairs(f, S))
<1> DEFINE choose(s) == CHOOSE x \in s : TRUE
           Eq(h) == h = [s \in SUBSET S |-> IF s = {} THEN 0 
                            ELSE f[choose(s)] + h[s \ {choose(s)}]]
           g == [s \in SUBSET S |-> Cardinality(Pairs(f, s))]
           h == CHOOSE h : Eq(h)
<1>1. Total(f, S) = h[S]
  BY DEF Total, MapThenSumSet, MapThenFoldSet
<1>2. ASSUME NEW s \in SUBSET S, s # {}
      PROVE  /\ choose(s) \in s
             /\ g[s] = f[choose(s)] + g[s \ {choose(s)}]
             /\ IsFiniteSet(s) /\ Cardinality(s \ {choose(s)}) = Cardinality(s) - 1
             /\ Cardinality(s) \in Nat
  <2>1. choose(s) \in s
    BY <1>2
  <2> HIDE DEF choose
  <2> DEFINE x == choose(s)
             r == s \ {x}
  <2>2. r \in SUBSET S /\ x \notin r /\ r \cup {x} = s /\ f[x] \in Nat
    BY <2>1
  <2>3. IsFiniteSet(s) /\ IsFiniteSet(r) /\ Cardinality(r) = Cardinality(s) - 1
        /\ Cardinality(s) \in Nat
    BY <2>1, FS_Subset, FS_RemoveElement, FS_CardinalityType
  <2>4. IsFiniteSet(Pairs(f, r))
    BY <2>2, <2>3, PairsFinite
  <2> HIDE DEF x, r
  <2>5. Cardinality(Pairs(f, r \cup {x})) = f[x] + Cardinality(Pairs(f, r))
    BY <2>2, <2>4, PairsAdd
  <2>6. g[s] = f[x] + g[r]
    BY <2>2, <2>5
  <2> QED
    BY <2>1, <2>3, <2>6 DEF x, r
<1>3. g[{}] = 0
  <2>1. Pairs(f, {}) = {}
    BY DEF Pairs
  <2> QED
    BY <2>1, FS_EmptySet
<1> HIDE DEF choose
<1>4. Eq(g)
  <2>1. \A s \in SUBSET S : g[s] = IF s = {} THEN 0 ELSE f[choose(s)] + g[s \ {choose(s)}]
    BY <1>2, <1>3
  <2> QED
    BY <2>1
<1> HIDE DEF g
<1>5. Eq(h)
  <2> HIDE DEF Eq
  <2> QED
    BY <1>4
<1> HIDE DEF h
<1>6. \A s \in SUBSET S : h[s] = IF s = {} THEN 0 ELSE f[choose(s)] + h[s \ {choose(s)}]
  BY <1>5
<1> HIDE DEF Eq
<1> DEFINE Agree(n) == \A s \in SUBSET S : Cardinality(s) <= n => h[s] = g[s]
           P == {T \in SUBSET S : Agree(Cardinality(T))}
<1>7. {} \in P
  <2>1. \A s \in SUBSET S : Cardinality(s) <= 0 => s = {}
    <3>1. \A s \in SUBSET S : IsFiniteSet(s) /\ Cardinality(s) \in Nat
      BY FS_Subset, FS_CardinalityType
    <3> QED
      BY <3>1, FS_EmptySet
  <2> QED
    BY <1>3, <1>6, <2>1, FS_EmptySet
<1>8. ASSUME NEW T \in SUBSET S, NEW x \in S \ T, T \in P PROVE T \cup {x} \in P
  <2>1. IsFiniteSet(T) /\ Cardinality(T) \in Nat /\ Cardinality(T \cup {x}) = Cardinality(T) + 1
    BY FS_Subset, FS_CardinalityType, FS_AddElement
  <2>2. ASSUME NEW s \in SUBSET S, Cardinality(s) <= Cardinality(T) + 1
        PROVE  h[s] = g[s]
    <3>1. CASE s = {}
      BY <1>3, <1>6, <3>1
    <3>2. CASE s # {}
      <4>1. h[s \ {choose(s)}] = g[s \ {choose(s)}]
        BY <1>2, <1>8, <2>1, <2>2, <3>2
      <4> QED
        BY <1>2, <1>6, <3>2, <4>1
    <3> QED
      BY <3>1, <3>2
  <2> QED
    BY <2>1, <2>2
<1>9. S \in P
  <2> HIDE DEF P
  <2> QED
    BY <1>7, <1>8, SetInduction
<1>10. h[S] = g[S]
  <2>1. Cardinality(S) \in Nat
    BY FS_CardinalityType
  <2> QED
    BY <1>9, <2>1
<1> QED
  BY <1>1, <1>10 DEF g

-----------------------------------------------------------------------------
(* The page's list and its count *)

Listed == events["external"]

(* The list is finite, and adds up to the count.                           *)
Listing == IsFiniteSet(DOMAIN Listed) /\ CountIsItsList

(* A list that adds up to a count.                                         *)
AddsUp(list, count) ==
    /\ Total(list, DOMAIN list) <= count
    /\ Cardinality(DOMAIN list) < EVENT_LIMIT => Total(list, DOMAIN list) = count

(* The property, in terms of the sum.                                      *)
LEMMA ListingSum == Listing <=> IsFiniteSet(DOMAIN Listed) /\ AddsUp(Listed, flows["external"])
BY DEF Listing, CountIsItsList, Total, Listed, AddsUp

(* The flows of a sample that are new to the watch and go out, by the      *)
(* event they belong to.                                                   *)
FreshOut(T) == {o \in Fresh : o.kind = "external" /\ EventKey(o.conn) \in T}

(* An entry more of the list takes its own flows.                          *)
LEMMA FreshOutAdd ==
    ASSUME Watch, NEW T, NEW x, x \notin T
    PROVE  /\ IsFiniteSet(FreshOut(T)) /\ Cardinality(FreshOut(T)) \in Nat
           /\ Cardinality(FreshOut({x})) \in Nat
           /\ Cardinality(FreshOut(T \cup {x})) =
                Cardinality(FreshOut(T)) + Cardinality(FreshOut({x}))
<1>1. FreshOut(T) \in SUBSET Fresh /\ FreshOut({x}) \in SUBSET Fresh
  BY DEF FreshOut
<1>2. IsFiniteSet(FreshOut(T)) /\ IsFiniteSet(FreshOut({x}))
  BY <1>1, CountType, FS_Subset
<1>3. Cardinality(FreshOut(T)) \in Nat /\ Cardinality(FreshOut({x})) \in Nat
  BY <1>2, FS_CardinalityType
<1>4. FreshOut(T \cup {x}) = FreshOut(T) \cup FreshOut({x})
  BY DEF FreshOut
<1>5. FreshOut(T) \cap FreshOut({x}) = {}
  BY DEF FreshOut
<1>6. Cardinality(FreshOut(T) \cap FreshOut({x})) = 0
  BY <1>5, FS_EmptySet
<1>7. Cardinality(FreshOut(T) \cup FreshOut({x})) =
        Cardinality(FreshOut(T)) + Cardinality(FreshOut({x}))
        - Cardinality(FreshOut(T) \cap FreshOut({x}))
  BY <1>2, FS_Union
<1>8. Cardinality(FreshOut(T) \cup FreshOut({x})) =
        Cardinality(FreshOut(T)) + Cardinality(FreshOut({x}))
  BY <1>3, <1>6, <1>7
<1> QED
  BY <1>2, <1>3, <1>4, <1>8, Zenon

(* What a sample makes of the list of connections out adds up to what it   *)
(* was and the new flows that are listed.                                  *)
LEMMA NoteSum ==
    ASSUME Watch, IsFiniteSet(DOMAIN Listed), NEW e \in Note("external")
    PROVE  /\ IsFiniteSet(DOMAIN e) /\ DOMAIN Listed \subseteq DOMAIN e
           /\ Total(e, DOMAIN e) = Total(Listed, DOMAIN Listed)
                                     + Cardinality(FreshOut(DOMAIN e))
           /\ \/ Cardinality(DOMAIN e) = EVENT_LIMIT
              \/ FreshOut(DOMAIN e) = {o \in Fresh : o.kind = "external"}
<1> DEFINE old == DOMAIN Listed
           met == {EventKey(o.conn) : o \in {o \in observed : o.kind = "external"}}
           before(key) == IF key \in old THEN Listed[key] ELSE 0
<1>1. PICK added \in SUBSET (met \ old) :
        /\ e = [key \in old \cup added |-> before(key) +
                  Cardinality({o \in Fresh : o.kind = "external" /\ EventKey(o.conn) = key})]
        /\ added = met \ old \/ Cardinality(old \cup added) = EVENT_LIMIT
  BY DEF Note, Listed
<1> DEFINE D == old \cup added
           b == [key \in D |-> before(key)]
<1>2. DOMAIN e = D
  BY <1>1
<1>3. IsFiniteSet(D)
  <2> DEFINE O == {o \in observed : o.kind = "external"}
             k == [o \in O |-> EventKey(o.conn)]
  <2>1. IsFiniteSet(O)
    <3>1. O \in SUBSET observed
      OBVIOUS
    <3> QED
      BY <3>1, FS_Subset DEF Watch, Measured
  <2>2. k \in Surjection(O, met)
    BY DEF Surjection
  <2>3. IsFiniteSet(met)
    <3> HIDE DEF k, O, met
    <3> QED
      BY <2>1, <2>2, FS_Surjection
  <2>4. IsFiniteSet(added)
    <3> HIDE DEF met
    <3>1. added \in SUBSET met
      BY <1>1
    <3> QED
      BY <2>3, <3>1, FS_Subset
  <2> HIDE DEF met, old
  <2> QED
    BY <2>4, FS_Union DEF old
<1>4. \A key \in old : Listed[key] \in Nat
  BY DEF Watch, TypeOK, ListedKinds, Listed
<1>5. ASSUME NEW key \in D
      PROVE  /\ e[key] = b[key] + Cardinality(FreshOut({key}))
             /\ b[key] \in Nat /\ e[key] \in Nat
             /\ b[key] = IF key \in old THEN Listed[key] ELSE 0
  <2>1. b[key] = before(key)
    BY <1>5
  <2>2. b[key] \in Nat
    BY <1>4, <2>1
  <2>3. FreshOut({key}) = {o \in Fresh : o.kind = "external" /\ EventKey(o.conn) = key}
    BY DEF FreshOut
  <2>4. e[key] = before(key) + Cardinality(FreshOut({key}))
    BY <1>1, <2>3
  <2>5. Cardinality(FreshOut({key})) \in Nat
    <3>1. key \notin {}
      OBVIOUS
    <3> QED
      BY <3>1, FreshOutAdd
  <2> HIDE DEF b
  <2> QED
    BY <2>1, <2>2, <2>4, <2>5
<1> HIDE DEF b
<1>6. Cardinality(Pairs(e, D)) = Cardinality(Pairs(b, D)) + Cardinality(FreshOut(D))
  <2> DEFINE P == {T \in SUBSET D : Cardinality(Pairs(e, T)) =
                                 Cardinality(Pairs(b, T)) + Cardinality(FreshOut(T))}
  <2>1. {} \in P
    <3>1. Pairs(e, {}) = {} /\ Pairs(b, {}) = {} /\ FreshOut({}) = {}
      BY DEF Pairs, FreshOut
    <3> QED
      BY <3>1, FS_EmptySet
  <2>2. ASSUME NEW T \in SUBSET D, NEW x \in D \ T, T \in P PROVE T \cup {x} \in P
    <3>1. IsFiniteSet(T)
      BY <1>3, FS_Subset
    <3> HIDE DEF D
    <3>2. /\ IsFiniteSet(Pairs(e, T)) /\ Cardinality(Pairs(e, T)) \in Nat
          /\ IsFiniteSet(Pairs(b, T)) /\ Cardinality(Pairs(b, T)) \in Nat
      BY <1>5, <3>1, PairsFinite
    <3>3. Cardinality(Pairs(e, T \cup {x})) = e[x] + Cardinality(Pairs(e, T))
      BY <1>5, <3>2, PairsAdd
    <3>4. Cardinality(Pairs(b, T \cup {x})) = b[x] + Cardinality(Pairs(b, T))
      BY <1>5, <3>2, PairsAdd
    <3>5. /\ Cardinality(FreshOut(T)) \in Nat /\ Cardinality(FreshOut({x})) \in Nat
          /\ Cardinality(FreshOut(T \cup {x})) =
               Cardinality(FreshOut(T)) + Cardinality(FreshOut({x}))
      BY FreshOutAdd
    <3>6. Cardinality(Pairs(e, T)) = Cardinality(Pairs(b, T)) + Cardinality(FreshOut(T))
      BY <2>2
    <3>7. e[x] = b[x] + Cardinality(FreshOut({x})) /\ b[x] \in Nat
      BY <1>5
    <3>8. Cardinality(Pairs(e, T \cup {x})) =
            Cardinality(Pairs(b, T \cup {x})) + Cardinality(FreshOut(T \cup {x}))
      BY <3>2, <3>3, <3>4, <3>5, <3>6, <3>7
    <3> QED
      BY <3>8
  <2>3. D \in P
    <3> HIDE DEF P, D
    <3> QED
      BY <1>3, <2>1, <2>2, SetInduction
  <2> QED
    BY <2>3
<1>7. Pairs(b, D) = Pairs(Listed, old)
  <2>1. ASSUME NEW p \in D \X Nat
        PROVE  p[2] \in 1 .. b[p[1]] <=> p[1] \in old /\ p[2] \in 1 .. Listed[p[1]]
    <3>1. p[1] \in D /\ p[2] \in Nat
      OBVIOUS
    <3>2. b[p[1]] = IF p[1] \in old THEN Listed[p[1]] ELSE 0
      BY <1>5, <3>1
    <3> HIDE DEF old
    <3> QED
      BY <3>1, <3>2
  <2>2. old \subseteq D
    OBVIOUS
  <2> HIDE DEF old, D
  <2> QED
    BY <2>1, <2>2 DEF Pairs
<1>8. /\ Total(e, D) = Cardinality(Pairs(e, D))
      /\ Total(Listed, old) = Cardinality(Pairs(Listed, old))
  BY <1>3, <1>4, <1>5, TotalIsPairs
<1>9. \/ Cardinality(D) = EVENT_LIMIT
      \/ FreshOut(D) = {o \in Fresh : o.kind = "external"}
  <2>1. ASSUME added = met \ old, NEW o \in Fresh, o.kind = "external"
        PROVE  EventKey(o.conn) \in D
    BY <2>1 DEF Fresh
  <2> QED
    BY <1>1, <2>1 DEF FreshOut
<1> QED
  BY <1>2, <1>3, <1>6, <1>7, <1>8, <1>9

(* A commit adds to the list what it adds to the count, until the list is  *)
(* full.                                                                   *)
LEMMA CommitListing ==
    ASSUME Watch, Listing, Commit
    PROVE  Listing'
<1>1. PICK e \in Note("external"), lan_out \in Note("lan_out") :
        events' = [external |-> e, lan_out |-> lan_out]
  BY DEF Commit
<1>2. Listed' = e
  BY <1>1 DEF Listed
<1>3. flows'["external"] = flows["external"] + Count("external")
  BY DEF Commit, Kinds
<1>4. flows["external"] \in Nat /\ Count("external") \in Nat /\ EVENT_LIMIT \in Nat
  BY CountType, BoundsAssumption DEF Watch, TypeOK, Kinds
<1> DEFINE before == Total(Listed, DOMAIN Listed)
           new == Cardinality(FreshOut(DOMAIN e))
<1>5. /\ IsFiniteSet(DOMAIN e) /\ DOMAIN Listed \subseteq DOMAIN e
      /\ Total(e, DOMAIN e) = before + new
      /\ \/ Cardinality(DOMAIN e) = EVENT_LIMIT
         \/ FreshOut(DOMAIN e) = {o \in Fresh : o.kind = "external"}
  BY NoteSum DEF Listing
<1>6. new \in Nat /\ new <= Count("external")
  <2>1. FreshOut(DOMAIN e) \in SUBSET {o \in Fresh : o.kind = "external"}
    BY DEF FreshOut
  <2>2. IsFiniteSet({o \in Fresh : o.kind = "external"})
    BY CountType
  <2> QED
    BY <2>1, <2>2, FS_Subset, FS_CardinalityType DEF Count
<1>7. before \in Nat
  <2>1. \A key \in DOMAIN Listed : Listed[key] \in Nat
    BY DEF Watch, TypeOK, ListedKinds, Listed
  <2> QED
    BY <2>1, TotalIsPairs, PairsFinite DEF Listing
<1>8. /\ before <= flows["external"]
      /\ Cardinality(DOMAIN Listed) < EVENT_LIMIT => before = flows["external"]
  BY ListingSum DEF AddsUp
<1>9. Cardinality(DOMAIN e) # EVENT_LIMIT => new = Count("external")
  BY <1>5 DEF Count
<1>10. /\ Cardinality(DOMAIN Listed) \in Nat /\ Cardinality(DOMAIN e) \in Nat
       /\ Cardinality(DOMAIN Listed) <= Cardinality(DOMAIN e)
  BY <1>5, FS_Subset, FS_CardinalityType DEF Listing
<1> HIDE DEF before, new
<1>11. /\ before + new <= flows'["external"]
       /\ Cardinality(DOMAIN e) < EVENT_LIMIT => before + new = flows'["external"]
  BY <1>3, <1>4, <1>6, <1>7, <1>8, <1>9, <1>10
<1>12. IsFiniteSet(DOMAIN Listed') /\ AddsUp(Listed', flows'["external"])
  BY <1>2, <1>5, <1>11 DEF AddsUp
<1>13. (IsFiniteSet(DOMAIN Listed) /\ AddsUp(Listed, flows["external"]))'
  BY <1>12
<1> QED
  BY <1>13, ListingSum, PTL

(* An empty list and a count of zero agree.                                *)
LEMMA EmptyListing == events = NoEvents /\ flows = [k \in Kinds |-> 0] => Listing
<1> SUFFICES ASSUME events = NoEvents, flows = [k \in Kinds |-> 0] PROVE Listing
  OBVIOUS
<1>1. DOMAIN Listed = {}
  BY DEF Listed, NoEvents, ListedKinds
<1>2. Total(Listed, {}) = 0
  <2>1. Pairs(Listed, {}) = {}
    BY DEF Pairs
  <2> QED
    BY <2>1, TotalIsPairs, FS_EmptySet
<1>3. flows["external"] = 0
  BY DEF Kinds
<1> QED
  BY <1>1, <1>2, <1>3, ListingSum, FS_EmptySet DEF AddsUp

(* Every step keeps the agreement: only a commit and a reset touch it.     *)
LEMMA StepListing ==
    ASSUME Watch, Listing, [Next]_vars
    PROVE  Listing'
<1>1. CASE Commit
  BY <1>1, CommitListing
<1>2. CASE reset
  <2>1. events' = NoEvents /\ flows' = [k \in Kinds |-> 0]
    BY <1>2 DEF reset, Clear
  <2>2. (events = NoEvents /\ flows = [k \in Kinds |-> 0])'
    BY <2>1
  <2> QED
    BY <2>2, EmptyListing, PTL
<1>3. CASE UNCHANGED <<events, flows>>
  <2>1. (IsFiniteSet(DOMAIN Listed) /\ AddsUp(Listed, flows["external"]))'
    BY <1>3, ListingSum DEF Listed, AddsUp
  <2> QED
    BY <2>1, ListingSum, PTL
<1>4. Commit \/ reset \/ UNCHANGED <<events, flows>>
  BY DEF Next, Sampling, Spawn, Open, Shut, ThreadEnds, ReadPorts, StoreScope, Look, Scan,
         SampleFails, CanaryLapses, ArmCanary, CanaryEnds, set_endpoints, Mark, RunEnds,
         Stop, vars, window
<1> QED
  BY <1>1, <1>2, <1>3, <1>4

(* The flows of the events the page lists as external add up to its count  *)
(* until the list is full, whatever order the sample's flows come in and   *)
(* whatever falls between two samples (_note, reset).                      *)
THEOREM ListAddsUp == Spec => []CountIsItsList
<1>1. Spec => []Watch
  BY InitWatch, StepWatch, PTL DEF Spec
<1>2. Init => Listing
  BY EmptyListing DEF Init
<1>3. Listing => CountIsItsList
  BY DEF Listing
<1> QED
  BY <1>1, <1>2, <1>3, StepListing, PTL DEF Spec
=============================================================================
