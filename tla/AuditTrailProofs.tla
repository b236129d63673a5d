-------------------------- MODULE AuditTrailProofs --------------------------
(***************************************************************************)
(* What AuditTrail promises, proved for every set of runs, any number of   *)
(* records, failures and restarts, and every kind of edit.                 *)
(*                                                                         *)
(* Chain says where the file's chain holds and where it does not; Unedited *)
(* ties the head in memory and the entry in flight to the last line as     *)
(* long as nobody edits the file; Session ties a run's entries to the head *)
(* in memory, edits or not, as long as no write has failed.                *)
(***************************************************************************)
EXTENDS AuditTrail, SequenceTheorems, TLAPS

InFlight == stage \in {"write", "keep"}

(* The entry in flight, from the head it was linked to on.                 *)
Flight ==
    /\ stage # "idle" => entry.of[2] # 0 /\ phase[writer] = "running"
    /\ InFlight => loaded /\ entry.seq = seq + 1 /\ entry.hash = _seal(entry)

Chain ==
    /\ broken <= Len(file)
    /\ \A i \in 1..Len(file) : broken = 0 \/ i < broken => Follows(i)
    /\ broken # 0 => ~Follows(broken)
    /\ edited # "none" => broken # 0

Unedited ==
    edited = "none" =>
        /\ broken # 0 => ~file[broken].json /\ broken <= LoadedSeq
        /\ \A i \in 1..Len(file) : file[i].entry.of[2] # 0
        /\ loaded /\ stage \in {"idle", "write"} => seq = LoadedSeq /\ head = LoadedHead
        /\ stage = "write" => entry.prev = LoadedHead
        /\ stage = "keep" => file # <<>> /\ Last(file).entry = entry
        /\ \A r \in Runs : \A e \in returned[r] :
             e.seq \in 1..LoadedSeq /\ (stage = "keep" => e.seq < entry.seq)

(* A run that goes on, in a process that has missed nothing.               *)
Session ==
    \A r \in Runs :
        /\ phase[r] = "waiting" => count[r] = 0
        /\ phase[r] = "running" => count[r] # 0
        /\ count[r] = 0 => returned[r] = {}
        /\ stage # "idle" /\ writer = r /\ count[r] = 1 => returned[r] = {}
        /\ phase[r] # "over" => span[r] = {}
        /\ missed = {} /\ phase[r] = "running" =>
             /\ returned[r] = {} => stage # "idle" /\ writer = r /\ count[r] = 1
             /\ returned[r] # {} => loaded
             /\ \A e \in returned[r] : first[r] \in 1..e.seq /\ e.seq <= seq

Trail == TypeOK /\ Flight /\ Chain /\ Unedited /\ Session
         /\ ReturnedIsOnFile /\ NumbersAreUnique /\ SpanCoversTheRun

-----------------------------------------------------------------------------
(* Entries, lines and the head *)

(* An entry made without a file behind it is an entry.                     *)
LEMMA UnlinkedEntry ==
    ASSUME NEW of \in Content
    PROVE  Unlinked(of) \in Entry /\ Unlinked(of).of = of
<1>1. GENESIS \in Hash
  BY EmptySeq DEF GENESIS, Hash
<1> HIDE DEF Hash, Content, GENESIS
<1> QED
  BY <1>1 DEF Unlinked, Entry

(* An entry linked to the head carries the next number and its own seal.   *)
LEMMA LinkedEntry ==
    ASSUME NEW s \in Nat, NEW h \in Hash, NEW of \in Content
    PROVE  /\ Linked(s, h, of) \in Entry
           /\ Linked(s, h, of).seq = s + 1
           /\ Linked(s, h, of).prev = h
           /\ Linked(s, h, of).of = of
           /\ Linked(s, h, of).hash = _seal(Linked(s, h, of))
<1>1. ASSUME NEW u \in Entry, u.of = of
      PROVE  LET e == [u EXCEPT !.seq = s + 1, !.prev = h]
             IN  e \in Entry /\ e.seq = s + 1 /\ e.of = of /\ e.prev = h
  <2>1. PICK g : g = [u EXCEPT !.seq = s + 1]
    OBVIOUS
  <2>2. g \in Entry /\ g.seq = s + 1 /\ g.of = of
    BY <1>1, <2>1 DEF Entry
  <2>3. PICK f : f = [g EXCEPT !.prev = h]
    OBVIOUS
  <2>4. f \in Entry /\ f.seq = s + 1 /\ f.of = of /\ f.prev = h
    BY <2>2, <2>3 DEF Entry
  <2>5. f = [u EXCEPT !.seq = s + 1, !.prev = h]
    BY <2>1, <2>3
  <2> QED
    BY <2>4, <2>5
<1>2. PICK e \in Entry : /\ e.seq = s + 1 /\ e.of = of /\ e.prev = h
                         /\ Linked(s, h, of) = [e EXCEPT !.hash = _seal(e)]
  BY <1>1, UnlinkedEntry DEF Linked
<1>3. _seal(e) \in Hash
  <2>1. <<e.seq, e.of>> \in Nat \X Content
    BY <1>2
  <2> QED
    BY <1>2, <2>1, AppendProperties DEF Hash, _seal
<1>4. ASSUME NEW x \in Hash
      PROVE  LET f == [e EXCEPT !.hash = x]
             IN  f \in Entry /\ f.seq = e.seq /\ f.of = e.of /\ f.prev = e.prev /\ f.hash = x
  BY DEF Entry
<1>5. /\ Linked(s, h, of) \in Entry /\ Linked(s, h, of).seq = e.seq
      /\ Linked(s, h, of).of = e.of /\ Linked(s, h, of).prev = e.prev
      /\ Linked(s, h, of).hash = _seal(e)
  BY <1>2, <1>3, <1>4
<1> QED
  BY <1>2, <1>5 DEF _seal

(* What _load_head reads back has its type, and so has every line.         *)
LEMMA LoadedTypes ==
    ASSUME TypeOK
    PROVE  /\ LoadedSeq \in Nat /\ LoadedHead \in Hash
           /\ Len(file) \in Nat
           /\ \A i \in 1..Len(file) : file[i] \in Line /\ file[i].entry \in Entry
           /\ file # <<>> => Len(file) \in 1..Len(file)
<1>1. file \in Seq(Line)
  BY DEF TypeOK
<1>2. Len(file) \in Nat /\ \A i \in 1..Len(file) : file[i] \in Line
  BY <1>1, LenProperties, ElementOfSeq
<1>3. \A i \in 1..Len(file) : file[i].entry \in Entry
  BY <1>2 DEF Line
<1>4. file # <<>> => Len(file) \in 1..Len(file)
  BY <1>1, <1>2, EmptySeq
<1>5. GENESIS \in Hash
  BY EmptySeq DEF GENESIS, Hash
<1>6. CASE file = <<>>
  BY <1>2, <1>3, <1>4, <1>5, <1>6 DEF LoadedSeq, LoadedHead
<1>7. CASE file # <<>>
  <2>1. file[Len(file)].entry.seq \in Nat /\ file[Len(file)].entry.hash \in Hash
    BY <1>3, <1>4, <1>7 DEF Entry
  <2> QED
    BY <1>2, <1>3, <1>4, <1>7, <2>1 DEF LoadedSeq, LoadedHead, Last
<1> QED
  BY <1>6, <1>7

(* The initial state satisfies the invariant.                              *)
LEMMA InitTrail == Init => Trail
<1> SUFFICES ASSUME Init PROVE Trail
  OBVIOUS
<1>1. TypeOK
  <2>1. PICK r \in Runs : entry = Unlinked(<<r, 0>>)
    BY DEF Init
  <2>2. <<r, 0>> \in Content
    BY RecordsAssumption DEF Content
  <2>3. entry \in Entry
    BY <2>1, <2>2, UnlinkedEntry
  <2>4. file \in Seq(Line) /\ head \in Hash
    BY EmptySeq DEF Init, GENESIS, Hash
  <2>5. count \in [Runs -> 0..MaxRecords] /\ phase \in [Runs -> {"waiting", "running", "over"}]
    BY RecordsAssumption DEF Init
  <2> QED
    BY <2>3, <2>4, <2>5 DEF Init, TypeOK
<1>2. Flight
  BY DEF Init, Flight, InFlight
<1>3. Chain
  BY DEF Init, Chain
<1>4. Unedited
  BY DEF Init, Unedited, LoadedSeq, LoadedHead
<1>5. Session
  BY DEF Init, Session
<1>6. ReturnedIsOnFile /\ NumbersAreUnique /\ SpanCoversTheRun
  BY DEF Init, ReturnedIsOnFile, NumbersAreUnique, SpanCoversTheRun
<1> QED
  BY <1>1, <1>2, <1>3, <1>4, <1>5, <1>6 DEF Trail

-----------------------------------------------------------------------------
(* The steps that leave the file alone *)

(* While the file is left alone, so are its chain and what a load reads.   *)
LEMMA FileStill ==
    ASSUME Trail, UNCHANGED <<file, edited, broken>>
    PROVE  Chain' /\ LoadedSeq' = LoadedSeq /\ LoadedHead' = LoadedHead
BY DEF Trail, Chain, Follows, LoadedSeq, LoadedHead

(* Building an entry under the lock.                                       *)
LEMMA BeginTrail ==
    ASSUME NEW r \in Runs, Trail, Begin(r)
    PROVE  Trail'
<1>1. /\ stage = "idle" /\ phase[r] \in {"waiting", "running"}
      /\ count[r] \in 0..(MaxRecords - 1)
      /\ phase' = [phase EXCEPT ![r] = "running"]
      /\ count' = [count EXCEPT ![r] = @ + 1]
      /\ loaded' = TRUE /\ stage' = "write"
      /\ UNCHANGED <<file, failed, first, returned, missed, span, edited, broken>>
  BY RecordsAssumption DEF Begin, Attempt, Trail, TypeOK
<1>2. /\ seq' = IF loaded THEN seq ELSE LoadedSeq
      /\ head' = IF loaded THEN head ELSE LoadedHead
      /\ entry' = Linked(seq', head', <<r, count[r] + 1>>)
  BY DEF Begin
<1>3. seq' \in Nat /\ head' \in Hash
  BY <1>2, LoadedTypes DEF Trail, TypeOK
<1>4. <<r, count[r] + 1>> \in Content
  BY <1>1, RecordsAssumption DEF Content
<1>5. /\ entry' \in Entry /\ entry'.seq = seq' + 1 /\ entry'.prev = head'
      /\ entry'.of = <<r, count[r] + 1>> /\ entry'.hash = _seal(entry')
  BY <1>2, <1>3, <1>4, LinkedEntry
<1>6. Chain' /\ LoadedSeq' = LoadedSeq /\ LoadedHead' = LoadedHead
  BY <1>1, FileStill
<1>7. TypeOK'
  <2>1. count' \in [Runs -> 0..MaxRecords] /\ phase' \in [Runs -> {"waiting", "running", "over"}]
    BY <1>1, RecordsAssumption DEF Trail, TypeOK
  <2> QED
    BY <1>1, <1>3, <1>5, <2>1 DEF Trail, TypeOK
<1>8. Flight'
  BY <1>1, <1>5 DEF Trail, TypeOK, Flight, InFlight, writer
<1>9. Unedited'
  BY <1>1, <1>2, <1>5, <1>6 DEF Trail, Unedited
<1>10. Session'
  <2> SUFFICES ASSUME NEW s \in Runs
               PROVE  /\ phase'[s] = "waiting" => count'[s] = 0
                      /\ phase'[s] = "running" => count'[s] # 0
                      /\ count'[s] = 0 => returned'[s] = {}
                      /\ stage' # "idle" /\ writer' = s /\ count'[s] = 1 => returned'[s] = {}
                      /\ phase'[s] # "over" => span'[s] = {}
                      /\ missed' = {} /\ phase'[s] = "running" =>
                           /\ returned'[s] = {} => stage' # "idle" /\ writer' = s /\ count'[s] = 1
                           /\ returned'[s] # {} => loaded'
                           /\ \A e \in returned'[s] : first'[s] \in 1..e.seq /\ e.seq <= seq'
    BY DEF Session
  <2>1. writer' = r
    BY <1>5 DEF writer
  <2>2. count'[r] = count[r] + 1 /\ phase'[r] = "running"
    BY <1>1 DEF Trail, TypeOK
  <2>3. s # r => count'[s] = count[s] /\ phase'[s] = phase[s]
    BY <1>1 DEF Trail, TypeOK
  <2> QED
    BY <1>1, <1>2, <2>1, <2>2, <2>3 DEF Trail, Session
<1>11. ReturnedIsOnFile' /\ NumbersAreUnique' /\ SpanCoversTheRun'
  BY <1>1 DEF Trail, ReturnedIsOnFile, NumbersAreUnique, SpanCoversTheRun
<1> QED
  BY <1>6, <1>7, <1>8, <1>9, <1>10, <1>11 DEF Trail

(* An append that fails before it writes.                                  *)
LEMMA BeginFailsTrail ==
    ASSUME NEW r \in Runs, Trail, BeginFails(r)
    PROVE  Trail'
<1>1. /\ stage = "idle" /\ phase[r] \in {"waiting", "running"}
      /\ count[r] \in 0..(MaxRecords - 1)
      /\ phase' = [phase EXCEPT ![r] = "running"]
      /\ count' = [count EXCEPT ![r] = @ + 1]
      /\ ~loaded /\ stage' = "raise"
      /\ entry' = Unlinked(<<r, count[r] + 1>>)
      /\ UNCHANGED <<file, failed, first, returned, missed, span, edited, broken,
                     loaded, seq, head>>
  BY RecordsAssumption DEF BeginFails, Attempt, Trail, TypeOK
<1>2. <<r, count[r] + 1>> \in Content
  BY <1>1, RecordsAssumption DEF Content
<1>3. entry' \in Entry /\ entry'.of = <<r, count[r] + 1>>
  BY <1>1, <1>2, UnlinkedEntry
<1>4. Chain' /\ LoadedSeq' = LoadedSeq /\ LoadedHead' = LoadedHead
  BY <1>1, FileStill
<1>5. count'[r] = count[r] + 1 /\ phase'[r] = "running"
  BY <1>1 DEF Trail, TypeOK
<1>6. \A s \in Runs \ {r} : count'[s] = count[s] /\ phase'[s] = phase[s]
  BY <1>1 DEF Trail, TypeOK
<1>7. writer' = r
  BY <1>3 DEF writer
<1>8. TypeOK'
  <2>1. count' \in [Runs -> 0..MaxRecords] /\ phase' \in [Runs -> {"waiting", "running", "over"}]
    BY <1>1, RecordsAssumption DEF Trail, TypeOK
  <2> QED
    BY <1>1, <1>3, <2>1 DEF Trail, TypeOK
<1>9. Flight'
  BY <1>1, <1>3, <1>5, <1>7 DEF Flight, InFlight
<1>10. Unedited'
  BY <1>1, <1>4 DEF Trail, Unedited
<1>11. Session'
  BY <1>1, <1>5, <1>6, <1>7 DEF Trail, Session
<1>12. ReturnedIsOnFile' /\ NumbersAreUnique' /\ SpanCoversTheRun'
  BY <1>1 DEF Trail, ReturnedIsOnFile, NumbersAreUnique, SpanCoversTheRun
<1> QED
  BY <1>4, <1>8, <1>9, <1>10, <1>11, <1>12 DEF Trail

(* A whole line written: head and number move on and the entry returns.    *)
LEMMA KeepTrail ==
    ASSUME Trail, Keep
    PROVE  Trail'
<1>1. /\ stage = "keep" /\ stage' = "idle"
      /\ loaded' = TRUE /\ seq' = entry.seq /\ head' = entry.hash
      /\ returned' = [returned EXCEPT ![writer] = @ \cup {entry}]
      /\ first' = IF count[writer] = 1 THEN [first EXCEPT ![writer] = entry.seq] ELSE first
      /\ UNCHANGED <<file, failed, entry, phase, count, missed, span, edited, broken>>
  BY DEF Keep
<1>2. entry \in Entry /\ entry.seq \in Nat /\ entry.hash \in Hash /\ writer \in Runs
  BY DEF Trail, TypeOK, Entry, Content, writer
<1>3. phase[writer] = "running" /\ loaded /\ entry.seq = seq + 1 /\ seq \in Nat
  BY <1>1 DEF Trail, TypeOK, Flight, InFlight
<1>4. Chain' /\ LoadedSeq' = LoadedSeq /\ LoadedHead' = LoadedHead
  BY <1>1, FileStill
<1>5. /\ returned'[writer] = returned[writer] \cup {entry}
      /\ \A s \in Runs \ {writer} : returned'[s] = returned[s] /\ first'[s] = first[s]
      /\ first'[writer] = IF count[writer] = 1 THEN entry.seq ELSE first[writer]
  BY <1>1, <1>2 DEF Trail, TypeOK
<1>6. writer' = writer
  BY <1>1 DEF writer
<1>7. TypeOK'
  <2>1. returned' \in [Runs -> SUBSET Entry] /\ first' \in [Runs -> Nat]
    BY <1>1, <1>2 DEF Trail, TypeOK
  <2> QED
    BY <1>1, <1>2, <2>1 DEF Trail, TypeOK
<1>8. Flight'
  BY <1>1 DEF Flight, InFlight
<1>9. edited = "none" => /\ entry.seq = LoadedSeq /\ entry.hash = LoadedHead
                         /\ file # <<>> /\ Last(file).entry = entry
                         /\ \A r \in Runs : \A e \in returned[r] : e.seq < entry.seq
  BY <1>1 DEF Trail, Unedited, LoadedSeq, LoadedHead
<1>10. Unedited'
  <2> SUFFICES ASSUME edited = "none" PROVE Unedited'
    BY <1>1 DEF Unedited
  <2>1. \A r \in Runs : \A e \in returned'[r] : e.seq \in 1..LoadedSeq
    BY <1>2, <1>3, <1>5, <1>9 DEF Trail, Unedited
  <2> QED
    BY <1>1, <1>4, <1>9, <2>1 DEF Trail, Unedited
<1>11. Session'
  <2> SUFFICES ASSUME NEW s \in Runs
               PROVE  /\ phase'[s] = "waiting" => count'[s] = 0
                      /\ phase'[s] = "running" => count'[s] # 0
                      /\ count'[s] = 0 => returned'[s] = {}
                      /\ stage' # "idle" /\ writer' = s /\ count'[s] = 1 => returned'[s] = {}
                      /\ phase'[s] # "over" => span'[s] = {}
                      /\ missed' = {} /\ phase'[s] = "running" =>
                           /\ returned'[s] = {} => stage' # "idle" /\ writer' = s /\ count'[s] = 1
                           /\ returned'[s] # {} => loaded'
                           /\ \A e \in returned'[s] : first'[s] \in 1..e.seq /\ e.seq <= seq'
    BY DEF Session
  <2>1. CASE s # writer
    <3>1. \A e \in returned[s] : e.seq \in Nat
      BY DEF Trail, TypeOK, Entry
    <3>2. returned'[s] = returned[s] /\ first'[s] = first[s]
      BY <1>5, <2>1
    <3> QED
      BY <1>1, <1>3, <2>1, <3>1, <3>2 DEF Trail, Session
  <2>2. CASE s = writer
    <3>1. count[writer] # 0
      BY <1>2, <1>3 DEF Trail, Session
    <3>2. \A e \in returned[s] : e.seq \in Nat
      BY DEF Trail, TypeOK, Entry
    <3>3. missed = {} => \A e \in returned'[s] : first'[s] \in 1..e.seq /\ e.seq <= seq'
      <4> SUFFICES ASSUME missed = {}, NEW e \in returned'[s]
                   PROVE  first'[s] \in 1..e.seq /\ e.seq <= seq'
        OBVIOUS
      <4>1. CASE count[writer] = 1
        <5>1. returned[writer] = {}
          BY <1>1, <1>2, <4>1 DEF Trail, Session
        <5> QED
          BY <1>1, <1>2, <1>3, <1>5, <2>2, <4>1, <5>1
      <4>2. CASE count[writer] # 1
        <5>1. /\ returned[writer] # {}
              /\ \A d \in returned[writer] : first[writer] \in 1..d.seq /\ d.seq <= seq
          BY <1>2, <1>3, <4>2 DEF Trail, Session
        <5>2. first[writer] \in 1..entry.seq
          BY <1>3, <2>2, <3>2, <5>1
        <5> QED
          BY <1>1, <1>2, <1>3, <1>5, <2>2, <3>2, <4>2, <5>1, <5>2
      <4> QED
        BY <4>1, <4>2
    <3> QED
      BY <1>1, <1>3, <1>5, <2>2, <3>1, <3>3 DEF Trail, Session
  <2> QED
    BY <2>1, <2>2
<1>12. ReturnedIsOnFile'
  <2> SUFFICES ASSUME edited = "none", NEW r \in Runs, NEW e \in returned'[r],
                      broken = 0 \/ e.seq < broken
               PROVE  e.seq <= Len(file) /\ file[e.seq].entry = e
    BY <1>1 DEF ReturnedIsOnFile
  <2>1. CASE e \in returned[r]
    BY <2>1 DEF Trail, ReturnedIsOnFile
  <2>2. CASE e = entry
    <3>1. broken = 0
      <4>1. broken # 0 => broken <= LoadedSeq
        BY DEF Trail, Unedited
      <4>2. broken \in Nat
        BY DEF Trail, TypeOK
      <4> QED
        BY <1>2, <1>9, <2>2, <4>1, <4>2
    <3>2. Len(file) \in 1..Len(file)
      BY <1>9, LoadedTypes DEF Trail
    <3>3. entry.seq = Len(file)
      BY <1>9, <3>1, <3>2 DEF Trail, Chain, Follows, Last
    <3> QED
      BY <1>9, <2>2, <3>2, <3>3 DEF Last
  <2> QED
    BY <1>2, <1>5, <2>1, <2>2
<1>13. NumbersAreUnique'
  <2> SUFFICES ASSUME edited = "none", NEW r \in Runs, NEW s \in Runs,
                      NEW d \in returned'[r], NEW e \in returned'[s], d.seq = e.seq
               PROVE  d = e /\ r = s
    BY <1>1 DEF NumbersAreUnique
  <2>1. CASE d \in returned[r] /\ e \in returned[s]
    BY <2>1 DEF Trail, NumbersAreUnique
  <2>2. CASE d \notin returned[r] \/ e \notin returned[s]
    <3>1. \A q \in Runs : \A x \in returned'[q] \ returned[q] : x = entry /\ q = writer
      BY <1>2, <1>5
    <3>2. \A q \in Runs : \A x \in returned[q] : x.seq # entry.seq
      <4>1. \A q \in Runs : \A x \in returned[q] : x.seq \in Nat
        BY DEF Trail, TypeOK, Entry
      <4> QED
        BY <1>2, <1>9, <4>1
    <3> QED
      BY <2>2, <3>1, <3>2
  <2> QED
    BY <2>1, <2>2
<1>14. SpanCoversTheRun'
  <2>1. span[writer] = {}
    BY <1>2, <1>3 DEF Trail, Session
  <2> QED
    BY <1>1, <1>2, <1>5, <2>1 DEF Trail, SpanCoversTheRun
<1> QED
  BY <1>4, <1>7, <1>8, <1>10, <1>11, <1>12, <1>13, <1>14 DEF Trail

(* A write that raised: the head in memory is given up.                    *)
LEMMA RaiseTrail ==
    ASSUME Trail, Raise
    PROVE  Trail'
<1>1. /\ stage' = "idle" /\ loaded' = FALSE /\ seq' = 0 /\ failed' = failed + 1
      /\ missed' = missed \cup {entry.of}
      /\ UNCHANGED <<file, head, entry, phase, count, first, returned, span, edited, broken>>
  BY DEF Raise
<1>2. Chain' /\ LoadedSeq' = LoadedSeq /\ LoadedHead' = LoadedHead
  BY <1>1, FileStill
<1>3. TypeOK'
  <2>1. entry \in Entry /\ failed + 1 \in Nat
    BY DEF Trail, TypeOK
  <2>2. entry.of \in Content
    BY <2>1 DEF Entry
  <2>3. missed' \subseteq Content
    BY <1>1, <2>2 DEF Trail, TypeOK
  <2> QED
    BY <1>1, <2>1, <2>3 DEF Trail, TypeOK
<1>4. Flight'
  BY <1>1 DEF Flight, InFlight
<1>5. Unedited'
  BY <1>1, <1>2 DEF Trail, Unedited
<1>6. Session'
  BY <1>1 DEF Trail, Session
<1>7. ReturnedIsOnFile' /\ NumbersAreUnique' /\ SpanCoversTheRun'
  BY <1>1 DEF Trail, ReturnedIsOnFile, NumbersAreUnique, SpanCoversTheRun
<1> QED
  BY <1>2, <1>3, <1>4, <1>5, <1>6, <1>7 DEF Trail

(* status() loads the head and changes nothing on file.                    *)
LEMMA StatusTrail ==
    ASSUME Trail, Status
    PROVE  Trail'
<1>1. /\ stage = "idle" /\ ~loaded
      /\ loaded' = TRUE /\ seq' = LoadedSeq /\ head' = LoadedHead
      /\ UNCHANGED <<file, failed, inFlight, runs, edited, broken>>
  BY DEF Status
<1>2. Chain' /\ LoadedSeq' = LoadedSeq /\ LoadedHead' = LoadedHead
  BY <1>1, FileStill
<1>3. TypeOK'
  BY <1>1, LoadedTypes DEF Trail, TypeOK, inFlight, runs
<1>4. Flight'
  BY <1>1 DEF Flight, InFlight, inFlight
<1>5. Unedited'
  BY <1>1, <1>2 DEF Trail, Unedited, inFlight, runs
<1>6. Session'
  BY <1>1 DEF Trail, Session, inFlight, runs
<1>7. ReturnedIsOnFile' /\ NumbersAreUnique' /\ SpanCoversTheRun'
  BY <1>1 DEF Trail, ReturnedIsOnFile, NumbersAreUnique, SpanCoversTheRun, runs
<1> QED
  BY <1>2, <1>3, <1>4, <1>5, <1>6, <1>7 DEF Trail

(* A run that ends names its span.                                         *)
LEMMA FinishTrail ==
    ASSUME NEW r \in Runs, Trail, Finish(r)
    PROVE  Trail'
<1> DEFINE last == IF seq = 0 THEN first[r] ELSE seq
<1>1. /\ phase[r] = "running" /\ (stage # "idle" => writer # r)
      /\ phase' = [phase EXCEPT ![r] = "over"]
      /\ span' = [span EXCEPT ![r] = IF first[r] = 0 THEN {} ELSE first[r]..last]
      /\ UNCHANGED <<file, memory, inFlight, count, first, returned, missed, edited, broken>>
  BY DEF Finish
<1>2. Chain' /\ LoadedSeq' = LoadedSeq /\ LoadedHead' = LoadedHead
  BY <1>1, FileStill
<1>3. /\ phase'[r] = "over" /\ span'[r] = IF first[r] = 0 THEN {} ELSE first[r]..last
      /\ \A s \in Runs \ {r} : phase'[s] = phase[s] /\ span'[s] = span[s]
  BY <1>1 DEF Trail, TypeOK
<1>4. TypeOK'
  <2>1. first[r] \in Nat /\ last \in Nat
    BY DEF Trail, TypeOK
  <2>2. (IF first[r] = 0 THEN {} ELSE first[r]..last) \in SUBSET Nat
    BY <2>1
  <2>3. span' \in [Runs -> SUBSET Nat]
    BY <1>1, <2>2 DEF Trail, TypeOK
  <2>4. phase' \in [Runs -> {"waiting", "running", "over"}]
    BY <1>1 DEF Trail, TypeOK
  <2> QED
    BY <1>1, <2>3, <2>4 DEF Trail, TypeOK, memory, inFlight
<1>5. Flight'
  <2>1. writer \in Runs
    BY DEF Trail, TypeOK, Entry, Content, writer
  <2> QED
    BY <1>1, <1>3, <2>1 DEF Trail, Flight, InFlight, writer, memory, inFlight
<1>6. Unedited'
  BY <1>1, <1>2 DEF Trail, Unedited, memory, inFlight
<1>7. Session'
  BY <1>1, <1>3 DEF Trail, Session, writer, memory, inFlight
<1>8. ReturnedIsOnFile' /\ NumbersAreUnique'
  BY <1>1 DEF Trail, ReturnedIsOnFile, NumbersAreUnique
<1>9. SpanCoversTheRun'
  <2>1. ASSUME missed = {}, NEW e \in returned[r] PROVE e.seq \in first[r]..last /\ first[r] # 0
    <3>1. first[r] \in 1..e.seq /\ e.seq <= seq
      BY <1>1, <2>1 DEF Trail, Session
    <3>2. e.seq \in Nat /\ seq \in Nat /\ first[r] \in Nat
      BY DEF Trail, TypeOK, Entry
    <3> QED
      BY <3>1, <3>2
  <2> HIDE DEF last
  <2> QED
    BY <1>1, <1>3, <2>1 DEF Trail, SpanCoversTheRun
<1> QED
  BY <1>2, <1>4, <1>5, <1>6, <1>7, <1>8, <1>9 DEF Trail

(* A restart forgets the head and whatever was being written.              *)
LEMMA RestartTrail ==
    ASSUME Trail, Restart
    PROVE  Trail'
<1>1. /\ loaded' = FALSE /\ seq' = 0 /\ head' = GENESIS /\ failed' = 0 /\ stage' = "idle"
      /\ UNCHANGED <<file, entry, count, first, returned, missed, span, edited, broken>>
      /\ phase' = [r \in Runs |-> IF phase[r] = "running" THEN "over" ELSE phase[r]]
  BY DEF Restart
<1>2. Chain' /\ LoadedSeq' = LoadedSeq /\ LoadedHead' = LoadedHead
  BY <1>1, FileStill
<1>3. GENESIS \in Hash
  BY EmptySeq DEF GENESIS, Hash
<1>4. \A r \in Runs : phase'[r] # "running" /\ (phase'[r] = "waiting" => phase[r] = "waiting")
  BY <1>1 DEF Trail, TypeOK
<1>5. TypeOK'
  <2>1. phase' \in [Runs -> {"waiting", "running", "over"}]
    BY <1>1 DEF Trail, TypeOK
  <2> QED
    BY <1>1, <1>3, <2>1 DEF Trail, TypeOK
<1>6. Flight'
  BY <1>1 DEF Flight, InFlight
<1>7. Unedited'
  BY <1>1, <1>2 DEF Trail, Unedited
<1>8. Session'
  BY <1>1, <1>4 DEF Trail, TypeOK, Session
<1>9. ReturnedIsOnFile' /\ NumbersAreUnique' /\ SpanCoversTheRun'
  BY <1>1 DEF Trail, ReturnedIsOnFile, NumbersAreUnique, SpanCoversTheRun
<1> QED
  BY <1>2, <1>5, <1>6, <1>7, <1>8, <1>9 DEF Trail

-----------------------------------------------------------------------------
(* The steps that change the file *)

(* Whatever a write leaves ends the file, on a line of its own or glued to *)
(* an unfinished one; it can be read only on a line of its own.            *)
LEMMA LineAdded ==
    ASSUME TypeOK, NEW whole \in BOOLEAN, NEW ended \in BOOLEAN, AddBytes(whole, ended)
    PROVE  \E m \in Nat \ {0} :
             /\ file' \in Seq(Line) /\ Len(file') = m /\ file'[m].entry = entry
             /\ m \in {Len(file), Len(file) + 1}
             /\ \A i \in 1..(m - 1) : file'[i] = file[i]
             /\ m = Len(file) => ~file[m].ended
             /\ file'[m].json => m = Len(file) + 1 /\ broken' = broken
             /\ ~file'[m].json => broken' = IF broken = 0 \/ m < broken THEN m ELSE broken
<1> DEFINE n == Len(file)
           glued == n > 0 /\ ~Last(file).ended
           line == [json |-> whole /\ ~glued, entry |-> entry, ended |-> ended]
<1>1. file \in Seq(Line) /\ n \in Nat /\ entry \in Entry
  BY LenProperties DEF TypeOK
<1>2. /\ file' = IF glued THEN [file EXCEPT ![n] = line] ELSE Append(file, line)
      /\ IF line.json THEN UNCHANGED broken ELSE Damage(IF glued THEN n ELSE n + 1)
  BY DEF AddBytes
<1>3. line \in Line /\ line.entry = entry /\ line.json = (whole /\ ~glued)
  <2>1. (whole /\ ~glued) \in BOOLEAN
    OBVIOUS
  <2> HIDE DEF glued
  <2> QED
    BY <1>1, <2>1 DEF Line
<1>4. CASE glued
  <2>1. n \in 1..Len(file) /\ ~file[n].ended
    BY <1>1, <1>4 DEF Last
  <2>2. ~line.json
    BY <1>3, <1>4
  <2> HIDE DEF line, n, glued
  <2>3. file' = [file EXCEPT ![n] = line]
    BY <1>2, <1>4
  <2>4. file' \in Seq(Line) /\ Len(file') = Len(file)
    BY <1>1, <1>3, <2>1, <2>3, ExceptSeq
  <2>5. DOMAIN file = 1..Len(file)
    BY <1>1, LenProperties
  <2>6. file'[n] = line /\ \A i \in 1..(n - 1) : file'[i] = file[i]
    BY <1>1, <2>1, <2>3, <2>5
  <2>7. broken' = IF broken = 0 \/ n < broken THEN n ELSE broken
    BY <1>2, <1>4, <2>2 DEF Damage
  <2>8. n \in Nat \ {0} /\ n = Len(file)
    BY <1>1, <2>1 DEF n
  <2> QED
    BY <1>3, <2>1, <2>2, <2>4, <2>6, <2>7, <2>8
<1>5. CASE ~glued
  <2> HIDE DEF line, glued
  <2>1. file' = Append(file, line)
    BY <1>2, <1>5
  <2>2. file' \in Seq(Line) /\ Len(file') = n + 1 /\ file'[n + 1] = line
    BY <1>1, <1>3, <2>1, AppendProperties
  <2>3. \A i \in 1..n : file'[i] = file[i]
    BY <1>1, <1>3, <2>1, AppendProperties
  <2>4. line.json => broken' = broken
    BY <1>2
  <2>5. ~line.json => broken' = IF broken = 0 \/ n + 1 < broken THEN n + 1 ELSE broken
    BY <1>2, <1>5 DEF Damage
  <2>6. n + 1 \in Nat \ {0} /\ n + 1 # Len(file) /\ (n + 1) - 1 = n
    BY <1>1
  <2>7. \A i \in 1..((n + 1) - 1) : file'[i] = file[i]
    BY <2>3, <2>6
  <2> QED
    BY <1>3, <2>2, <2>4, <2>5, <2>6, <2>7
<1> QED
  BY <1>4, <1>5

(* An unbroken chain has as many lines as its last number says.            *)
LEMMA UnbrokenLength ==
    ASSUME TypeOK, Chain, broken = 0
    PROVE  LoadedSeq = Len(file)
<1>1. CASE file = <<>>
  BY <1>1, EmptySeq DEF LoadedSeq
<1>2. CASE file # <<>>
  BY <1>2, LoadedTypes DEF LoadedSeq, Last, Chain, Follows
<1> QED
  BY <1>1, <1>2

(* Bytes reach the file, whole or torn, with a newline or without.         *)
LEMMA AddBytesTrail ==
    ASSUME Trail, stage = "write", NEW whole \in BOOLEAN, NEW ended \in BOOLEAN,
           AddBytes(whole, ended), stage' \in {"keep", "raise"},
           UNCHANGED <<memory, entry, runs, edited>>
    PROVE  Trail'
<1>1. PICK m \in Nat \ {0} :
        /\ file' \in Seq(Line) /\ Len(file') = m /\ file'[m].entry = entry
        /\ m \in {Len(file), Len(file) + 1}
        /\ \A i \in 1..(m - 1) : file'[i] = file[i]
        /\ m = Len(file) => ~file[m].ended
        /\ file'[m].json => m = Len(file) + 1 /\ broken' = broken
        /\ ~file'[m].json => broken' = IF broken = 0 \/ m < broken THEN m ELSE broken
  BY LineAdded DEF Trail
<1>2. Len(file) \in Nat /\ broken \in 0..Len(file) /\ LoadedSeq \in Nat
  BY LoadedTypes DEF Trail, TypeOK, Chain
<1>3. /\ entry \in Entry /\ entry.seq = seq + 1 /\ entry.hash = _seal(entry)
      /\ entry.of[2] # 0 /\ loaded /\ seq \in Nat
  BY DEF Trail, TypeOK, Flight, InFlight
<1>4. broken' \in {broken, m} /\ (broken # 0 => broken' = broken) /\ broken' \in 0..m
  BY <1>1, <1>2
<1>5. LoadedSeq' = entry.seq /\ file' # <<>> /\ Last(file').entry = entry
  <2>1. file' # <<>>
    BY <1>1, EmptySeq
  <2> QED
    BY <1>1, <2>1 DEF LoadedSeq, Last
<1>6. \A i \in 1..(m - 1) : i \in 1..Len(file) /\ (Follows(i)' <=> Follows(i))
  <2> SUFFICES ASSUME NEW i \in 1..(m - 1)
               PROVE  i \in 1..Len(file) /\ (Follows(i)' <=> Follows(i))
    OBVIOUS
  <2>1. i \in 1..Len(file) /\ file'[i] = file[i] /\ (i # 1 => file'[i - 1] = file[i - 1])
    BY <1>1, <1>2
  <2> QED
    BY <2>1 DEF Follows
<1>7. ASSUME broken = 0
      PROVE  edited = "none" /\ entry.seq = Len(file) + 1 /\ entry.prev = LoadedHead
  <2>1. edited = "none"
    BY <1>7 DEF Trail, Chain
  <2>2. seq = LoadedSeq /\ entry.prev = LoadedHead
    BY <1>3, <2>1 DEF Trail, Unedited
  <2> QED
    BY <1>3, <1>7, <2>1, <2>2, UnbrokenLength DEF Trail
<1>8. Chain'
  <2>1. broken' <= Len(file')
    BY <1>1, <1>4
  <2>2. ASSUME NEW i \in 1..Len(file'), broken' = 0 \/ i < broken'
        PROVE  Follows(i)'
    <3>1. CASE i # m
      BY <1>1, <1>2, <1>4, <1>6, <2>2, <3>1 DEF Trail, Chain
    <3>2. CASE i = m
      <4>1. broken = 0 /\ file'[m].json /\ m = Len(file) + 1
        BY <1>1, <1>2, <1>4, <2>2, <3>2
      <4>2. entry.seq = m /\ entry.prev = LoadedHead
        BY <1>7, <4>1
      <4>3. LoadedHead = IF m = 1 THEN GENESIS ELSE file'[m - 1].entry.hash
        <5>1. CASE file = <<>>
          BY <4>1, <5>1, EmptySeq DEF LoadedHead
        <5>2. CASE file # <<>>
          <6>1. Len(file) \in 1..(m - 1) /\ m - 1 = Len(file) /\ m # 1
            BY <1>2, <4>1, <5>2, LoadedTypes DEF Trail
          <6> QED
            BY <1>1, <5>2, <6>1 DEF LoadedHead, Last
        <5> QED
          BY <5>1, <5>2
      <4> QED
        BY <1>1, <1>3, <3>2, <4>1, <4>2, <4>3 DEF Follows
    <3> QED
      BY <3>1, <3>2
  <2>3. ASSUME broken' # 0 PROVE ~Follows(broken)'
    <3>1. CASE broken' = m
      <4>1. ~file'[m].json
        BY <1>1, <1>2, <2>3, <3>1
      <4> QED
        BY <3>1, <4>1 DEF Follows
    <3>2. CASE broken' # m
      <4>1. broken' = broken /\ broken \in 1..(m - 1)
        BY <1>4, <2>3, <3>2
      <4> QED
        BY <1>6, <4>1 DEF Trail, Chain, Follows
    <3> QED
      BY <3>1, <3>2
  <2>4. edited' # "none" => broken' # 0
    BY <1>1, <1>4 DEF Trail, Chain
  <2> QED
    BY <2>1, <2>2, <2>3, <2>4 DEF Chain
<1>9. TypeOK'
  BY <1>1, <1>4 DEF Trail, TypeOK, memory, runs
<1>10. Flight'
  BY DEF Trail, Flight, InFlight, memory, runs, writer
<1>11. Unedited'
  <2> SUFFICES ASSUME edited = "none" PROVE Unedited'
    BY DEF Unedited
  <2>1. seq = LoadedSeq
    BY <1>3 DEF Trail, Unedited
  <2>2. ASSUME broken' # 0 PROVE ~file'[broken'].json /\ broken' <= LoadedSeq'
    <3>1. CASE broken = 0
      <4>1. broken' = m /\ ~file'[m].json
        BY <1>1, <2>2, <3>1
      <4> QED
        BY <1>1, <1>5, <1>7, <3>1, <4>1
    <3>2. CASE broken # 0
      <4>1. broken' = broken /\ broken <= LoadedSeq /\ ~file[broken].json
        BY <1>4, <3>2 DEF Trail, Unedited
      <4>2. CASE broken = m
        BY <1>1, <1>2, <1>3, <1>5, <2>1, <4>1, <4>2
      <4>3. CASE broken # m
        BY <1>1, <1>2, <1>3, <1>4, <1>5, <2>1, <3>2, <4>1, <4>3
      <4> QED
        BY <4>2, <4>3
    <3> QED
      BY <3>1, <3>2
  <2>3. \A i \in 1..Len(file') : file'[i].entry.of[2] # 0
    <3>1. \A i \in 1..Len(file) : file[i].entry.of[2] # 0
      BY DEF Trail, Unedited
    <3> SUFFICES ASSUME NEW i \in 1..Len(file') PROVE file'[i].entry.of[2] # 0
      OBVIOUS
    <3>2. CASE i = m
      BY <1>1, <1>3, <3>2
    <3>3. CASE i # m
      <4>1. i \in 1..(m - 1) /\ i \in 1..Len(file)
        BY <1>1, <1>2, <3>3
      <4> QED
        BY <1>1, <3>1, <4>1
    <3> QED
      BY <3>2, <3>3
  <2>4. \A r \in Runs : \A e \in returned[r] : e.seq \in 1..LoadedSeq
    BY DEF Trail, Unedited
  <2>5. \A r \in Runs : \A e \in returned'[r] : e.seq \in 1..LoadedSeq' /\ e.seq < entry'.seq
    BY <1>2, <1>3, <1>5, <2>1, <2>4 DEF runs
  <2> QED
    BY <1>5, <2>2, <2>3, <2>5 DEF Unedited
<1>12. Session'
  BY DEF Trail, Session, memory, runs, writer
<1>13. ReturnedIsOnFile'
  <2> SUFFICES ASSUME edited = "none", NEW r \in Runs, NEW e \in returned[r],
                      broken' = 0 \/ e.seq < broken'
               PROVE  e.seq <= Len(file') /\ file'[e.seq].entry = e
    BY DEF ReturnedIsOnFile, runs
  <2>1. e.seq \in Nat \ {0}
    BY <1>2 DEF Trail, Unedited
  <2>2. broken = 0 \/ e.seq < broken
    BY <1>4
  <2>3. e.seq <= Len(file) /\ file[e.seq].entry = e
    BY <2>2 DEF Trail, ReturnedIsOnFile
  <2>4. e.seq \in 1..(m - 1)
    <3>1. CASE broken = 0
      <4>1. CASE m = Len(file) + 1
        BY <1>2, <2>1, <2>3, <4>1
      <4>2. CASE m = Len(file)
        <5>1. broken' = m
          BY <1>1, <1>2, <3>1, <4>2
        <5> QED
          BY <2>1, <5>1
      <4> QED
        BY <1>1, <4>1, <4>2
    <3>2. CASE broken # 0
      BY <1>1, <1>2, <2>1, <2>2, <3>2
    <3> QED
      BY <3>1, <3>2
  <2> QED
    BY <1>1, <2>3, <2>4
<1>14. NumbersAreUnique' /\ SpanCoversTheRun'
  BY DEF Trail, NumbersAreUnique, SpanCoversTheRun, runs
<1> QED
  BY <1>8, <1>9, <1>10, <1>11, <1>12, <1>13, <1>14 DEF Trail

(* A write, one that left nothing on file included.                        *)
LEMMA WriteLineTrail ==
    ASSUME Trail, WriteLine
    PROVE  Trail'
<1>1. stage = "write" /\ UNCHANGED <<memory, entry, runs, edited>>
  BY DEF WriteLine
<1>2. CASE \E whole, ended \in BOOLEAN : AddBytes(whole, ended) /\ stage' \in {"keep", "raise"}
  BY <1>1, <1>2, AddBytesTrail
<1>3. CASE UNCHANGED <<file, broken>> /\ stage' = "raise"
  <2>1. Chain' /\ LoadedSeq' = LoadedSeq /\ LoadedHead' = LoadedHead
    BY <1>1, <1>3, FileStill
  <2>2. TypeOK' /\ Flight' /\ Session'
    BY <1>1, <1>3 DEF Trail, TypeOK, Flight, InFlight, Session, memory, runs, writer
  <2>3. Unedited'
    BY <1>1, <1>3, <2>1 DEF Trail, Unedited, memory, runs
  <2>4. ReturnedIsOnFile' /\ NumbersAreUnique' /\ SpanCoversTheRun'
    BY <1>1, <1>3 DEF Trail, ReturnedIsOnFile, NumbersAreUnique, SpanCoversTheRun, runs
  <2> QED
    BY <2>1, <2>2, <2>3, <2>4 DEF Trail
<1> QED
  BY <1>2, <1>3 DEF WriteLine

(* An edit breaks the chain at its line, unless it is broken earlier: what *)
(* is on the line afterwards does not follow the line before it.           *)
LEMMA EditTrail ==
    ASSUME Trail, Edit
    PROVE  Trail'
<1>1. PICK kind \in EditKinds, i \in 1..Len(file) :
        /\ edited = "none" /\ edited' = kind /\ Whole(i) /\ Damage(i)
        /\ kind = "change" => file' = [file EXCEPT ![i].entry.of = <<@[1], 0>>]
        /\ kind = "remove" => /\ i < Len(file)
                              /\ file' = [j \in 1..(Len(file) - 1) |->
                                            IF j < i THEN file[j] ELSE file[j + 1]]
        /\ kind = "swap" => /\ i < Len(file) /\ Whole(i + 1)
                            /\ file' = [file EXCEPT ![i] = file[i + 1], ![i + 1] = file[i]]
        /\ UNCHANGED <<memory, inFlight, runs>>
  BY EditsAssumption DEF Edit, EditKinds
<1>2. /\ file \in Seq(Line) /\ Len(file) \in Nat /\ broken \in 0..Len(file)
      /\ DOMAIN file = 1..Len(file)
      /\ \A j \in 1..Len(file) : file[j] \in Line /\ file[j].entry \in Entry
  BY LoadedTypes, LenProperties DEF Trail, TypeOK, Chain
<1>3. i # broken
  BY <1>1 DEF Trail, Unedited, Whole
<1>4. /\ broken' = IF broken = 0 \/ i < broken THEN i ELSE broken
      /\ broken' \in 1..i
  BY <1>1, <1>2, <1>3 DEF Damage
<1>5. ASSUME broken' = i PROVE Follows(i)
  BY <1>2, <1>3, <1>4, <1>5 DEF Trail, Chain
<1>6. /\ file' \in Seq(Line) /\ i <= Len(file')
      /\ \A j \in 1..(i - 1) : file'[j] = file[j]
      /\ broken' = i => ~Follows(i)'
  <2>1. CASE kind = "change"
    <3>1. PICK line : line = [file[i] EXCEPT !.entry.of = <<@[1], 0>>]
      OBVIOUS
    <3>2. PICK e : e = [file[i].entry EXCEPT !.of = <<@[1], 0>>]
      OBVIOUS
    <3>3. /\ e \in Entry /\ e.of = <<file[i].entry.of[1], 0>>
          /\ e.seq = file[i].entry.seq /\ e.prev = file[i].entry.prev
          /\ e.hash = file[i].entry.hash
      <4>1. file[i].entry \in Entry
        BY <1>2
      <4>2. <<file[i].entry.of[1], 0>> \in Content
        BY <4>1, RecordsAssumption DEF Entry, Content
      <4> HIDE DEF Content, Hash
      <4> QED
        BY <3>2, <4>1, <4>2 DEF Entry
    <3>4. line = [file[i] EXCEPT !.entry = e]
      BY <3>1, <3>2
    <3>5. line \in Line /\ line.entry = e
      <4>1. file[i] \in Line
        BY <1>2
      <4> QED
        BY <3>3, <3>4, <4>1 DEF Line
    <3>6. file' = [file EXCEPT ![i] = line]
      BY <1>1, <2>1, <3>1
    <3>7. file' \in Seq(Line) /\ Len(file') = Len(file)
      BY <1>2, <3>5, <3>6, ExceptSeq
    <3>8. file'[i] = line /\ \A j \in 1..(i - 1) : file'[j] = file[j]
      BY <1>2, <3>6
    <3>9. ASSUME Follows(i) PROVE ~Follows(i)'
      <4>1. e.hash = Append(e.prev, <<e.seq, file[i].entry.of>>)
        BY <3>3, <3>9 DEF Follows, _seal
      <4>2. file[i].entry.of # e.of
        <5>1. file[i].entry.of[2] # 0
          BY <1>1 DEF Trail, Unedited
        <5> QED
          BY <3>3, <5>1
      <4>3. e.prev \in Hash
        BY <3>3 DEF Entry
      <4>4. Append(e.prev, <<e.seq, e.of>>) # Append(e.prev, <<e.seq, file[i].entry.of>>)
        <5>1. e.prev \in Seq(Nat \X Content) /\ Len(e.prev) \in Nat
          BY <4>3, LenProperties DEF Hash
        <5>2. ASSUME NEW x PROVE Append(e.prev, x)[Len(e.prev) + 1] = x
          BY <5>1
        <5> QED
          BY <4>2, <5>2
      <4> QED
        BY <3>5, <3>8, <4>1, <4>4 DEF Follows, _seal
    <3> QED
      BY <1>2, <1>5, <3>7, <3>8, <3>9
  <2>2. CASE kind = "remove"
    <3>1. /\ i < Len(file)
          /\ file' = [j \in 1..(Len(file) - 1) |-> IF j < i THEN file[j] ELSE file[j + 1]]
      BY <1>1, <2>2
    <3>2. \A j \in 1..(Len(file) - 1) : (IF j < i THEN file[j] ELSE file[j + 1]) \in Line
      BY <1>2, <3>1
    <3>3. file' \in [1..(Len(file) - 1) -> Line] /\ Len(file) - 1 \in Nat
      BY <1>2, <3>1, <3>2
    <3>4. file' \in Seq(Line)
      BY <3>3, SeqDef
    <3>5. Len(file') = Len(file) - 1
      BY <3>3, <3>4, LenProperties
    <3>6. file'[i] = file[i + 1] /\ \A j \in 1..(i - 1) : file'[j] = file[j]
      BY <1>2, <3>1
    <3>7. ASSUME Follows(i), broken' = i PROVE ~Follows(i)'
      <4>1. ~file[i + 1].json \/ file[i + 1].entry.seq = i + 1
        <5>1. CASE i + 1 = broken
          BY <1>1, <5>1 DEF Trail, Unedited
        <5>2. CASE i + 1 # broken
          BY <1>2, <1>4, <3>1, <3>7, <5>2 DEF Trail, Chain, Follows
        <5> QED
          BY <5>1, <5>2
      <4> QED
        BY <3>6, <4>1 DEF Follows
    <3> QED
      BY <1>2, <1>5, <3>1, <3>4, <3>5, <3>6, <3>7
  <2>3. CASE kind = "swap"
    <3>1. /\ i < Len(file) /\ file[i + 1].json
          /\ file' = [file EXCEPT ![i] = file[i + 1], ![i + 1] = file[i]]
      BY <1>1, <2>3 DEF Whole
    <3>2. i + 1 \in 1..Len(file) /\ file[i] \in Line /\ file[i + 1] \in Line
      BY <1>2, <3>1
    <3>3. PICK half : half = [file EXCEPT ![i] = file[i + 1]]
      OBVIOUS
    <3>4. half \in Seq(Line) /\ Len(half) = Len(file)
      BY <1>2, <3>2, <3>3, ExceptSeq
    <3>5. file' = [half EXCEPT ![i + 1] = file[i]]
      BY <3>1, <3>3
    <3>6. file' \in Seq(Line) /\ Len(file') = Len(file)
      BY <3>2, <3>4, <3>5, ExceptSeq
    <3>7. file'[i] = file[i + 1] /\ \A j \in 1..(i - 1) : file'[j] = file[j]
      BY <1>2, <3>1
    <3>8. ASSUME Follows(i), broken' = i PROVE ~Follows(i)'
      <4>1. i + 1 # broken
        BY <1>1, <3>1 DEF Trail, Unedited
      <4>2. file[i + 1].entry.seq = i + 1
        BY <1>2, <1>4, <3>2, <3>8, <4>1 DEF Trail, Chain, Follows
      <4> QED
        BY <3>7, <4>2 DEF Follows
    <3> QED
      BY <1>2, <1>5, <3>6, <3>7, <3>8
  <2> QED
    BY <2>1, <2>2, <2>3 DEF EditKinds
<1>7. \A j \in 1..(i - 1) : j \in 1..Len(file) /\ (Follows(j)' <=> Follows(j))
  <2> SUFFICES ASSUME NEW j \in 1..(i - 1)
               PROVE  j \in 1..Len(file) /\ (Follows(j)' <=> Follows(j))
    OBVIOUS
  <2>1. j \in 1..Len(file) /\ file'[j] = file[j] /\ (j # 1 => file'[j - 1] = file[j - 1])
    BY <1>2, <1>6
  <2> QED
    BY <2>1 DEF Follows
<1>8. Chain'
  <2>1. broken' <= Len(file') /\ broken' # 0
    BY <1>4, <1>6, LenProperties
  <2>2. \A j \in 1..(broken' - 1) : Follows(j)'
    BY <1>2, <1>4, <1>7 DEF Trail, Chain
  <2>3. ~Follows(broken)'
    <3>1. CASE broken' = i
      BY <1>6, <3>1 DEF Follows
    <3>2. CASE broken' # i
      <4>1. broken' = broken /\ broken \in 1..(i - 1)
        BY <1>4, <3>2
      <4> QED
        BY <1>7, <4>1 DEF Trail, Chain, Follows
    <3> QED
      BY <3>1, <3>2
  <2>4. \A j \in 1..Len(file') : j < broken' => Follows(j)'
    <3>1. Len(file') \in Nat
      BY <1>6, LenProperties
    <3> QED
      BY <1>4, <2>2, <3>1
  <2> QED
    BY <2>1, <2>3, <2>4 DEF Chain
<1>9. edited' # "none" /\ edited' \in EditKinds
  BY <1>1 DEF EditKinds
<1>10. TypeOK'
  BY <1>1, <1>4, <1>6, <1>9 DEF Trail, TypeOK, memory, inFlight, runs
<1>11. Flight' /\ Session'
  BY <1>1 DEF Trail, Flight, InFlight, Session, memory, inFlight, runs, writer
<1>12. Unedited' /\ ReturnedIsOnFile' /\ NumbersAreUnique'
  BY <1>9 DEF Unedited, ReturnedIsOnFile, NumbersAreUnique
<1>13. SpanCoversTheRun'
  BY <1>1 DEF Trail, SpanCoversTheRun, runs
<1> QED
  BY <1>8, <1>10, <1>11, <1>12, <1>13 DEF Trail

-----------------------------------------------------------------------------
(* The results *)

(* Every step keeps the invariant.                                         *)
LEMMA StepTrail == Trail /\ [Next]_vars => Trail'
<1> SUFFICES ASSUME Trail, [Next]_vars PROVE Trail'
  OBVIOUS
<1>1. ASSUME NEW r \in Runs, Begin(r) \/ BeginFails(r) \/ Finish(r) PROVE Trail'
  BY <1>1, BeginTrail, BeginFailsTrail, FinishTrail
<1>2. CASE WriteLine \/ Keep \/ Raise \/ Status \/ Restart \/ Edit
  BY <1>2, WriteLineTrail, KeepTrail, RaiseTrail, StatusTrail, RestartTrail, EditTrail
<1>3. CASE UNCHANGED vars
  <2>1. Chain' /\ LoadedSeq' = LoadedSeq /\ LoadedHead' = LoadedHead
    BY <1>3, FileStill DEF vars
  <2>2. TypeOK' /\ Flight' /\ Session'
    BY <1>3 DEF Trail, TypeOK, Flight, InFlight, Session, writer, vars, memory, inFlight, runs
  <2>3. Unedited'
    BY <1>3, <2>1 DEF Trail, Unedited, vars, memory, inFlight, runs
  <2>4. ReturnedIsOnFile' /\ NumbersAreUnique' /\ SpanCoversTheRun'
    BY <1>3 DEF Trail, ReturnedIsOnFile, NumbersAreUnique, SpanCoversTheRun, vars, runs
  <2> QED
    BY <2>1, <2>2, <2>3, <2>4 DEF Trail
<1> QED
  BY <1>1, <1>2, <1>3 DEF Next

(* The states of the model are of the types it names.                      *)
THEOREM TrailTypes == Spec => []TypeOK
<1>1. Trail => TypeOK
  BY DEF Trail
<1> QED
  BY <1>1, InitTrail, StepTrail, PTL DEF Spec

(* verify() reports the first line that a torn write or an edit damaged,   *)
(* and no other; a trail that was not damaged verifies, whatever failed,   *)
(* restarted or interleaved.                                               *)
THEOREM VerifyTellsTheTruth == Spec => []VerifyNamesTheFirstBreak
<1>1. ASSUME Trail PROVE VerifyNamesTheFirstBreak
  <2>1. broken \in 0..Len(file) /\ Len(file) \in Nat
    BY <1>1, LoadedTypes DEF Trail, TypeOK, Chain
  <2>2. CASE broken = 0
    BY <1>1, <2>2 DEF Trail, Chain, VerifyNamesTheFirstBreak, verify
  <2>3. CASE broken # 0
    <3>1. /\ broken \in 1..Len(file) /\ ~Follows(broken)
          /\ \A j \in 1..(broken - 1) : Follows(j)
      BY <1>1, <2>1, <2>3 DEF Trail, Chain
    <3>2. ASSUME NEW i \in 1..Len(file), ~Follows(i), \A j \in 1..(i - 1) : Follows(j)
          PROVE  i = broken
      BY <2>1, <3>1, <3>2
    <3>3. verify = CHOOSE i \in 1..Len(file) :
                     ~Follows(i) /\ \A j \in 1..(i - 1) : Follows(j)
      BY <3>1 DEF verify
    <3> QED
      BY <3>1, <3>2, <3>3 DEF VerifyNamesTheFirstBreak
  <2> QED
    BY <2>2, <2>3
<1> QED
  BY <1>1, InitTrail, StepTrail, PTL DEF Spec

(* Up to the first break an entry that append returned is on file, on the  *)
(* line of its number, whatever failed or restarted since.                 *)
THEOREM ReturnedStaysOnFile == Spec => []ReturnedIsOnFile
<1>1. Trail => ReturnedIsOnFile
  BY DEF Trail
<1> QED
  BY <1>1, InitTrail, StepTrail, PTL DEF Spec

(* append gives no two runs the same entry number, and no entry twice,     *)
(* though the head is read back from a file a write may have torn.         *)
THEOREM NumbersStayUnique == Spec => []NumbersAreUnique
<1>1. Trail => NumbersAreUnique
  BY DEF Trail
<1> QED
  BY <1>1, InitTrail, StepTrail, PTL DEF Spec

(* While no write has failed, the entries the receipt of a run names       *)
(* include every entry of that run, however the runs interleaved.          *)
THEOREM SpanCovers == Spec => []SpanCoversTheRun
<1>1. Trail => SpanCoversTheRun
  BY DEF Trail
<1> QED
  BY <1>1, InitTrail, StepTrail, PTL DEF Spec

(* No step of the program changes or removes a line that has its newline.  *)
THEOREM TrailIsAppendOnly == Spec => AppendOnly
<1> DEFINE Step == UNCHANGED edited =>
                     \A i \in 1..Len(file) :
                         file[i].ended => i <= Len(file') /\ file'[i] = file[i]
<1>1. ASSUME Trail, [Next]_vars PROVE [Step]_vars
  <2> SUFFICES ASSUME Next, UNCHANGED edited, NEW i \in 1..Len(file), file[i].ended
               PROVE  i <= Len(file') /\ file'[i] = file[i]
    BY <1>1
  <2>1. CASE UNCHANGED file
    BY <1>1, <2>1, LoadedTypes DEF Trail
  <2>2. CASE \E whole, ended \in BOOLEAN : AddBytes(whole, ended)
    <3>1. PICK m \in Nat \ {0} :
            /\ Len(file') = m /\ m \in {Len(file), Len(file) + 1}
            /\ \A j \in 1..(m - 1) : file'[j] = file[j]
            /\ m = Len(file) => ~file[m].ended
      BY <1>1, <2>2, LineAdded DEF Trail
    <3> QED
      BY <1>1, <3>1, LoadedTypes DEF Trail
  <2>3. CASE Edit
    BY <2>3, EditsAssumption DEF Edit, EditKinds
  <2>4. CASE WriteLine
    BY <2>1, <2>2, <2>4 DEF WriteLine
  <2> QED
    BY <2>1, <2>3, <2>4
    DEF Next, Begin, BeginFails, Attempt, Finish, Keep, Raise, Status, Restart
<1> QED
  BY <1>1, InitTrail, StepTrail, PTL DEF Spec, AppendOnly
=============================================================================
