------------------------------ MODULE EgressWatch ------------------------------
(***************************************************************************)
(* The egress watch (backend/open_webui/utils/fource_egress.py): a thread  *)
(* samples the socket table and counts the flows of the workbench's own    *)
(* processes by where they go, while the event loop resets the window,     *)
(* moves the endpoints, runs the canary and reads the evidence for a run.  *)
(*                                                                         *)
(* The thread holds the lock only to copy what it needs and to commit what *)
(* it saw, so `pc' names where it is between those sections and every      *)
(* method of the event loop can fall in between.  A connection stands for  *)
(* its key: the pid, local and remote address of _sample.                  *)
(***************************************************************************)
EXTENDS Integers, FiniteSets, FiniteSetsExt

CONSTANTS
    Conns,           \* connections the processes may hold, besides the canary
    Processes,       \* the processes that may run beside the backend
    EVENT_LIMIT,     \* events the page lists of a kind
    MaxDisturbances, \* bound: connections, processes, resets and so on
    MaxSamples       \* bound: where the count of samples stops

Remotes == {"local", "lan", "gpu", "internet", "target"}

Connection == [proc : {"backend", "helper", "model server", "frontend",
                       "browser"},
               local : {"p1", "p2", "listening"}, remote : Remotes]

(* The handshake of run_canary with CANARY_TARGET.                         *)
CanaryConn == [proc |-> "backend", local |-> "p1", remote |-> "target"]

ASSUME ConnsAssumption ==
    /\ Conns \subseteq Connection
    /\ IsFiniteSet(Conns)
    /\ \A c \in Conns : c.remote # "target"
ASSUME ProcessesAssumption ==
    Processes \subseteq {"helper", "model server", "frontend", "browser"}
ASSUME BoundsAssumption ==
    EVENT_LIMIT \in Nat /\ MaxDisturbances \in Nat /\ MaxSamples \in Nat

VARIABLES
    procs,      \* the processes running beside the backend
    open,       \* the connections in the socket table
    disturbed,  \* how many disturbances there were
    pc, stop,   \* where the sampling thread is; the _stop event
    scope,      \* the processes in scope
    forced,     \* set_endpoints has asked for a refresh
    endpoints,  \* where the configured model server is: here, on the LAN
    ports,      \* what a refresh under way has read of it
    looking,    \* scope, expected destinations and canary a sample copied
    observed,   \* the connections of the sample under way, with their kind
    generation, samples, flows, seen, events, canary, error,
    trying,     \* the calls of run_canary waiting for a handshake
    mark,       \* the watch's mark when the run started
    born,       \* connections opened during the run, new to the watch
    caught      \* those of them a sample of this run has committed

world == <<procs, open>>
sampler == <<pc, stop, scope, forced, ports, looking, observed>>
window == <<generation, samples, flows, seen, events, canary, error>>
run == <<mark, born, caught>>
vars == <<world, disturbed, sampler, endpoints, window, trying, run>>

Kinds == {"local", "lan_in", "lan_expected", "lan_out", "external", "canary"}

NoLook == [scope |-> {}, expected |-> {}, canary |-> FALSE]

NoMark == [taken |-> FALSE, generation |-> 0, samples |-> 0, external |-> 0,
           lan_out |-> 0]

Where == {"none", "here", "lan"}

ListedKinds == {"external", "lan_out"}

(* An event is one process and one destination, with its count of flows.   *)
EventKey(c) == <<c.proc, c.remote>>

NoEvents == [k \in ListedKinds |-> [key \in {} |-> 0]]

Clear ==
    /\ samples' = 0
    /\ flows' = [k \in Kinds |-> 0]
    /\ seen' = {}
    /\ events' = NoEvents
    /\ canary' = FALSE
    /\ error' = FALSE

Init ==
    /\ procs = {} /\ open = {} /\ disturbed = 0
    /\ pc = "wait" /\ stop = FALSE
    /\ scope = {} /\ forced = TRUE
    /\ endpoints = "none" /\ ports = "none"
    /\ looking = NoLook /\ observed = {}
    /\ generation = 0 /\ samples = 0 /\ flows = [k \in Kinds |-> 0]
    /\ seen = {} /\ events = NoEvents /\ canary = FALSE /\ error = FALSE
    /\ trying = 0
    /\ mark = NoMark
    /\ born = {} /\ caught = {}

Disturb == disturbed < MaxDisturbances /\ disturbed' = disturbed + 1

-----------------------------------------------------------------------------
(* What the workbench's processes do (the operating system).               *)

Spawn(p) ==
    /\ Disturb
    /\ p \in Processes \ procs
    /\ procs' = procs \cup {p}
    /\ UNCHANGED <<open, sampler, endpoints, window, trying, run>>

Open(c) ==
    /\ Disturb
    /\ c.proc \in procs \cup {"backend"}
    /\ c \notin open
    /\ open' = open \cup {c}
    /\ born' = IF mark.taken /\ c \notin seen
               THEN born \cup {c} ELSE born
    /\ UNCHANGED <<procs, sampler, endpoints, window, trying, mark, caught>>

Shut(c) ==
    /\ c \in open \ {CanaryConn}
    /\ open' = open \ {c}
    /\ UNCHANGED <<procs, disturbed, sampler, endpoints, window, trying, run>>

-----------------------------------------------------------------------------
(* The sampling thread                                                     *)

(* The backend and what it spawned, a model server configured on this      *)
(* machine and the frontend, found by the port they listen on; a browser   *)
(* one of them opened is the person's own.                                 *)
Family(where, ps) ==
    {"backend"} \cup (ps \cap {"helper", "frontend"})
    \cup (IF where = "here" THEN ps \cap {"model server"} ELSE {})

(* The stop event is read between two samples.                             *)
ThreadEnds ==
    /\ pc = "wait" /\ stop
    /\ pc' = "ended"
    /\ UNCHANGED <<world, disturbed, stop, scope, forced, ports, looking, observed,
                   endpoints, window, trying, run>>

ReadPortsWhenForced ==               \* mutant: only new endpoints refresh
    /\ pc = "wait" /\ ~stop /\ forced
    /\ ports' = endpoints
    /\ pc' = "store"
    /\ UNCHANGED <<world, disturbed, stop, scope, forced, looking, observed,
                   endpoints, window, trying, run>>

(* _refresh_scope, when SCOPE_REFRESH_SECONDS have passed or it is forced, *)
(* reads the ports under the lock, walks the processes, and takes the lock *)
(* again to store what it found.                                           *)
ReadPorts ==
    /\ pc = "wait" /\ ~stop
    /\ ports' = endpoints
    /\ pc' = "store"
    /\ UNCHANGED <<world, disturbed, stop, scope, forced, looking, observed,
                   endpoints, window, trying, run>>

StoreScopeOnce ==                    \* mutant: the first scope is kept
    /\ pc = "store"
    /\ scope' = IF scope = {} THEN Family(ports, procs) ELSE scope
    /\ forced' = FALSE
    /\ ports' = "none"
    /\ pc' = "look"
    /\ UNCHANGED <<world, disturbed, stop, looking, observed, endpoints,
                   window, trying, run>>

StoreScope ==
    /\ pc = "store"
    /\ scope' = Family(ports, procs)
    /\ forced' = FALSE
    /\ ports' = "none"
    /\ pc' = "look"
    /\ UNCHANGED <<world, disturbed, stop, looking, observed, endpoints,
                   window, trying, run>>

(* _sample copies what it classifies by.                                   *)
Look ==
    /\ pc = "look" \/ (pc = "wait" /\ ~stop /\ ~forced)
    /\ looking' = [scope |-> scope,
                   expected |-> IF endpoints = "lan" THEN {"gpu"} ELSE {},
                   canary |-> canary]
    /\ pc' = "scan"
    /\ UNCHANGED <<world, disturbed, stop, scope, forced, ports, observed,
                   endpoints, window, trying, run>>

classify(remote) ==
    CASE remote = "local" -> "local"
      [] remote \in {"lan", "gpu"} -> "lan"
      [] OTHER -> "external"

Role(proc) == IF proc = "helper" THEN "backend" ELSE proc

KindInWindow(c, at) ==               \* mutant: any address is the canary's
    CASE classify(c.remote) = "lan" ->
           IF c.local = "listening" THEN "lan_in"
           ELSE IF c.remote \in at.expected THEN "lan_expected" ELSE "lan_out"
      [] classify(c.remote) = "external" /\ at.canary -> "canary"
      [] OTHER -> classify(c.remote)

Kind(c, at) ==
    CASE classify(c.remote) = "lan" ->
           IF c.local = "listening" THEN "lan_in"
           ELSE IF c.remote \in at.expected THEN "lan_expected" ELSE "lan_out"
      [] /\ classify(c.remote) = "external" /\ at.canary
         /\ Role(c.proc) = "backend" /\ c.remote = "target" -> "canary"
      [] OTHER -> classify(c.remote)

Scan ==
    /\ pc = "scan"
    /\ observed' = {[conn |-> c, kind |-> Kind(c, looking)] :
                      c \in {c \in open : c.proc \in looking.scope}}
    /\ looking' = NoLook
    /\ pc' = "commit"
    /\ UNCHANGED <<world, disturbed, stop, scope, forced, ports, endpoints,
                   window, trying, run>>

(* The walk over the processes or the sockets raised: _run keeps the error *)
(* and goes on; the sample does not count.                                 *)
SampleFails ==
    /\ pc \in {"store", "scan"}
    /\ error' = TRUE
    /\ pc' = "wait"
    /\ ports' = "none" /\ looking' = NoLook
    /\ UNCHANGED <<world, disturbed, stop, scope, forced, observed,
                   endpoints, generation, samples, flows, seen, events, canary,
                   trying, run>>

Fresh == {o \in observed : o.conn \notin seen}

Count(k) == Cardinality({o \in Fresh : o.kind = k})

(* _note: a flow joins the event of its process and destination; past the  *)
(* limit no event is added, in whichever order the flows come.             *)
Note(k) ==
    LET met == {EventKey(o.conn) : o \in {o \in observed : o.kind = k}}
        old == DOMAIN events[k]
        new(key) == Cardinality({o \in Fresh : o.kind = k
                                               /\ EventKey(o.conn) = key})
    IN  {[key \in old \cup added |->
            (IF key \in old THEN events[k][key] ELSE 0) + new(key)] :
         added \in {a \in SUBSET (met \ old) :
                     \/ a = met \ old
                        /\ Cardinality(old \cup a) <= EVENT_LIMIT
                     \/ Cardinality(old \cup a) = EVENT_LIMIT}}

(* The second locked section.  When the clean-up falls on this sample, the *)
(* flows unseen for FLOW_MEMORY_SECONDS are forgotten: any of those that   *)
(* are not in the table now, as the samples in between changed nothing.    *)
Commit ==
    /\ pc = "commit"
    /\ pc' = "wait"
    /\ samples' = IF samples < MaxSamples THEN samples + 1 ELSE samples
    /\ flows' = [k \in Kinds |-> flows[k] + Count(k)]
    /\ \E external \in Note("external"), lan_out \in Note("lan_out") :
         events' = [external |-> external, lan_out |-> lan_out]
    /\ LET now == {o.conn : o \in observed} IN
         \E forgotten \in SUBSET (seen \ now) :
            seen' = (seen \cup now) \ forgotten
    /\ error' = FALSE
    /\ observed' = {}
    /\ caught' = IF mark.taken
                 THEN caught \cup {c \in born :
                        /\ \E o \in observed : o.conn = c
                        /\ classify(c.remote) = "external"}
                 ELSE caught
    /\ UNCHANGED <<world, disturbed, stop, scope, forced, ports, looking,
                   endpoints, generation, canary, trying, mark, born>>

-----------------------------------------------------------------------------
(* Time *)

(* The canary's deadline, later than its attempt can last, passes.         *)
CanaryLapses ==
    /\ canary /\ trying = 0
    /\ canary' = FALSE
    /\ UNCHANGED <<world, disturbed, sampler, endpoints, generation, samples,
                   flows, seen, events, error, trying, run>>

-----------------------------------------------------------------------------
(* The event loop *)

ResetKeepingList ==                  \* mutant: the list outlives its count
    /\ Disturb
    /\ generation' = generation + 1
    /\ samples' = 0 /\ flows' = [k \in Kinds |-> 0] /\ seen' = {}
    /\ canary' = FALSE /\ error' = FALSE
    /\ UNCHANGED <<world, sampler, endpoints, events, trying, run>>

reset ==
    /\ Disturb
    /\ generation' = generation + 1
    /\ Clear
    /\ UNCHANGED <<world, sampler, endpoints, trying, run>>

(* A server on this machine is put in scope by its port, so moving it on   *)
(* or off this machine forces a refresh.                                   *)
set_endpoints(where) ==
    /\ Disturb
    /\ where # endpoints
    /\ endpoints' = where
    /\ forced' = (forced \/ where = "here" \/ endpoints = "here")
    /\ UNCHANGED <<world, pc, stop, scope, ports, looking, observed, window,
                   trying, run>>

(* run_canary arms the exemption and opens the handshake; its socket is in *)
(* the table until the attempt ends, whatever its outcome.                 *)
ArmCanary ==
    /\ Disturb
    /\ pc # "ended"
    /\ canary' = TRUE
    /\ trying' = trying + 1
    /\ open' = open \cup {CanaryConn}
    /\ UNCHANGED <<procs, sampler, endpoints, generation, samples, flows, seen,
                   events, error, run>>

CanaryEnds ==
    /\ trying > 0
    /\ trying' = trying - 1
    /\ open' = IF trying = 1 THEN open \ {CanaryConn} ELSE open
    /\ UNCHANGED <<procs, disturbed, sampler, endpoints, window, run>>

(* A turn starts.  Bound: only while the count of samples can still tell   *)
(* one more sample.                                                        *)
Mark ==
    /\ Disturb
    /\ ~mark.taken
    /\ samples < MaxSamples
    /\ mark' = [taken |-> TRUE, generation |-> generation, samples |-> samples,
                external |-> flows["external"], lan_out |-> flows["lan_out"]]
    /\ UNCHANGED <<world, sampler, endpoints, window, trying, born, caught>>

Base ==
    IF generation = mark.generation THEN mark
    ELSE [mark EXCEPT !.samples = 0, !.external = 0, !.lan_out = 0]

since_mark_any_window ==             \* mutant: the generation is not compared
    IF pc = "ended" \/ samples <= mark.samples
    THEN [observed |-> FALSE, external |-> 0, lan_out |-> 0]
    ELSE [observed |-> TRUE, external |-> flows["external"] - mark.external,
          lan_out |-> flows["lan_out"] - mark.lan_out]

since_mark ==
    IF pc = "ended" \/ samples <= Base.samples
    THEN [observed |-> FALSE, external |-> 0, lan_out |-> 0]
    ELSE [observed |-> TRUE, external |-> flows["external"] - Base.external,
          lan_out |-> flows["lan_out"] - Base.lan_out]

(* The receipt is written, with since_mark as it stands.                   *)
RunEnds ==
    /\ mark.taken
    /\ mark' = NoMark
    /\ born' = {} /\ caught' = {}
    /\ UNCHANGED <<world, disturbed, sampler, endpoints, window, trying>>

Stop ==
    /\ Disturb
    /\ ~stop
    /\ stop' = TRUE
    /\ UNCHANGED <<world, pc, scope, forced, ports, looking, observed,
                   endpoints, window, trying, run>>

-----------------------------------------------------------------------------
Sampling == ThreadEnds \/ ReadPorts \/ StoreScope \/ Look \/ Scan \/ SampleFails
            \/ Commit

Next ==
    \/ Sampling
    \/ \E p \in Processes : Spawn(p)
    \/ \E c \in Conns : Open(c) \/ Shut(c)
    \/ CanaryLapses
    \/ reset \/ ArmCanary \/ CanaryEnds
    \/ \E where \in Where : set_endpoints(where)
    \/ Mark \/ RunEnds \/ Stop

Spec == Init /\ [][Next]_vars

(* The thread is scheduled, and a refresh comes due again and again.       *)
FairSpec == Spec /\ WF_vars(Sampling) /\ SF_vars(ReadPorts)

-----------------------------------------------------------------------------
(* Properties *)

TypeOK ==
    /\ procs \subseteq Processes
    /\ open \subseteq Conns \cup {CanaryConn}
    /\ disturbed \in 0..MaxDisturbances
    /\ pc \in {"wait", "store", "look", "scan", "commit", "ended"}
    /\ stop \in BOOLEAN /\ forced \in BOOLEAN
    /\ scope \subseteq Processes \cup {"backend"}
    /\ endpoints \in Where /\ ports \in Where
    /\ looking \in [scope : SUBSET (Processes \cup {"backend"}),
                    expected : SUBSET {"gpu"}, canary : BOOLEAN]
    /\ observed \subseteq [conn : Conns \cup {CanaryConn}, kind : Kinds]
    /\ generation \in Nat /\ samples \in 0..MaxSamples
    /\ flows \in [Kinds -> Nat]
    /\ seen \subseteq Conns \cup {CanaryConn}
    /\ \A k \in ListedKinds :
         \A key \in DOMAIN events[k] : events[k][key] \in Nat
    /\ canary \in BOOLEAN /\ error \in BOOLEAN
    /\ trying \in Nat
    /\ mark \in [taken : BOOLEAN, generation : Nat, samples : Nat,
                 external : Nat, lan_out : Nat]
    /\ born \subseteq Conns /\ caught \subseteq born

(* A receipt never understates what was sampled: every connection to the   *)
(* internet that a process in scope opened during the run, and a sample    *)
(* caught, is in its count, whatever the canary, the endpoints and other   *)
(* flows did meanwhile, unless the window was reset during the run.        *)
EvidenceNeverUnderstates ==
    mark.taken /\ since_mark.observed /\ generation = mark.generation =>
        since_mark.external >= Cardinality(caught)

(* "A run nobody watched gets no number rather than a zero": a number is   *)
(* a difference of two counts of one window, never more than the window    *)
(* holds, through any reset between the mark and the receipt.              *)
EvidenceIsMeasured ==
    mark.taken /\ since_mark.observed =>
        /\ samples > 0
        /\ since_mark.external \in 0..flows["external"]
        /\ since_mark.lan_out \in 0..flows["lan_out"]

(* The page's count and its list agree: the flows of the events listed as  *)
(* external add up to the external count until the list is full.           *)
CountIsItsList ==
    LET listed == events["external"]
        sum == MapThenSumSet(LAMBDA key : listed[key], DOMAIN listed)
    IN  /\ sum <= flows["external"]
        /\ Cardinality(DOMAIN listed) < EVENT_LIMIT => sum = flows["external"]

(* A connection out that stays open is seen, if the watch runs and its     *)
(* samples succeed: one of a process started later, too.                   *)
StayingOutIsSeen ==
    \A c \in {c \in Conns : c.proc \in {"backend", "helper"}} :
        c \in open ~> c \notin open \/ c \in seen \/ error \/ stop

(* A model server configured on this machine comes into scope, though the  *)
(* refresh set_endpoints asks for can be lost to one already under way.    *)
EndpointsReachScope ==
    endpoints = "here" /\ "model server" \in procs ~>
        endpoints # "here" \/ "model server" \in scope \/ error \/ stop
================================================================================
