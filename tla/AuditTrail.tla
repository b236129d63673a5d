------------------------------ MODULE AuditTrail ------------------------------
(***************************************************************************)
(* The audit trail (backend/open_webui/utils/fource_audit.py): an append-  *)
(* only file of hash-chained entries, written under one lock by whichever  *)
(* run has something to record, its head kept in memory and read back from *)
(* the last line when the process starts or a write has failed.            *)
(*                                                                         *)
(* A write may leave nothing, a fragment, the entry without its newline or *)
(* the whole line, and may fail even then (fsync).  The process may die    *)
(* between any two steps.  Somebody may edit the file by hand, once.       *)
(*                                                                         *)
(* SHA-256 is a function without collisions: the hash of an entry is its   *)
(* content after the hash it follows.                                      *)
(***************************************************************************)
EXTENDS Naturals, Sequences

CONSTANTS
    Runs,         \* turns that record entries
    MaxRecords,   \* bound: entries a run records
    Edits         \* the edits explored, a subset of EditKinds

EditKinds == {"change", "remove", "swap"}

ASSUME RecordsAssumption == MaxRecords \in Nat
ASSUME EditsAssumption == Edits \subseteq EditKinds

VARIABLES
    file,       \* the lines of audit.jsonl
    loaded,     \* _seq is not None
    seq, head,  \* _seq (0 when it is None) and _head
    failed,     \* failed_writes
    stage,      \* where the append that holds the lock is
    entry,      \* the entry it builds
    phase,      \* of each run
    count,      \* entries each run has tried to record
    first,      \* trail_first: the number of the run's request entry, or 0
    returned,   \* the entries append returned, by run
    missed,     \* what append returned None for
    span,       \* the entries a finished run's receipt names
    edited,     \* the edit made, or "none"
    broken      \* the first line damaged since the trail began, or 0

memory == <<loaded, seq, head, failed>>
inFlight == <<stage, entry>>
runs == <<phase, count, first, returned, missed, span>>
vars == <<file, memory, inFlight, runs, edited, broken>>

-----------------------------------------------------------------------------
GENESIS == <<>>

(* What an entry records: the run and the number of its record; number 0   *)
(* is a content nobody recorded.                                           *)
Content == Runs \X (0..MaxRecords)

Hash == Seq(Nat \X Content)

Entry == [seq : Nat, of : Content, prev : Hash, hash : Hash]

(* A line that is no JSON object carries no entry that can be read.        *)
Line == [json : BOOLEAN, entry : Entry, ended : BOOLEAN]

_seal(e) == Append(e.prev, <<e.seq, e.of>>)

TypeOK ==
    /\ file \in Seq(Line)
    /\ loaded \in BOOLEAN
    /\ seq \in Nat
    /\ head \in Hash
    /\ failed \in Nat
    /\ stage \in {"idle", "write", "keep", "raise"}
    /\ entry \in Entry
    /\ phase \in [Runs -> {"waiting", "running", "over"}]
    /\ count \in [Runs -> 0..MaxRecords]
    /\ first \in [Runs -> Nat]
    /\ returned \in [Runs -> SUBSET Entry]
    /\ missed \subseteq Content
    /\ span \in [Runs -> SUBSET Nat]
    /\ edited \in EditKinds \cup {"none"}
    /\ broken \in Nat

Unlinked(of) == [seq |-> 0, of |-> of, prev |-> GENESIS, hash |-> GENESIS]

Init ==
    /\ file = <<>>
    /\ loaded = FALSE /\ seq = 0 /\ head = GENESIS
    /\ failed = 0
    /\ stage = "idle"
    /\ entry \in {Unlinked(<<r, 0>>) : r \in Runs}
    /\ phase = [r \in Runs |-> "waiting"]
    /\ count = [r \in Runs |-> 0]
    /\ first = [r \in Runs |-> 0]
    /\ returned = [r \in Runs |-> {}]
    /\ missed = {}
    /\ span = [r \in Runs |-> {}]
    /\ edited = "none"
    /\ broken = 0

-----------------------------------------------------------------------------
(* Reading *)

Last(lines) == lines[Len(lines)]

(* _load_head raises on a last line that is not JSON.                      *)
HeadReadable == file # <<>> => Last(file).json

LoadedSeqReused ==                             \* mutant: off by one
    IF file = <<>> THEN 0 ELSE Last(file).entry.seq - 1

LoadedSeq == IF file = <<>> THEN 0 ELSE Last(file).entry.seq
LoadedHead == IF file = <<>> THEN GENESIS ELSE Last(file).entry.hash

FollowsAnyNumber(i) ==                         \* mutant: numbers unchecked
    /\ file[i].json
    /\ file[i].entry.prev = IF i = 1 THEN GENESIS ELSE file[i - 1].entry.hash

(* A line that verify() walks past.                                        *)
Follows(i) ==
    /\ file[i].json
    /\ file[i].entry.seq = i
    /\ file[i].entry.prev = IF i = 1 THEN GENESIS ELSE file[i - 1].entry.hash
    /\ file[i].entry.hash = _seal(file[i].entry)

(* The entry verify() reports, broken_at, or 0 when the trail verifies.    *)
verify ==
    IF \A i \in 1..Len(file) : Follows(i) THEN 0
    ELSE CHOOSE i \in 1..Len(file) :
           ~Follows(i) /\ \A j \in 1..(i - 1) : Follows(j)

-----------------------------------------------------------------------------
(* append: under the lock, from the head to the record in memory *)

writer == entry.of[1]

(* The entry that extends the chain: the next number, linked to the head.  *)
Linked(s, h, of) ==
    LET e == [Unlinked(of) EXCEPT !.seq = s + 1, !.prev = h]
    IN  [e EXCEPT !.hash = _seal(e)]

Attempt(r) ==
    /\ stage = "idle"
    /\ phase[r] \in {"waiting", "running"}
    /\ count[r] < MaxRecords
    /\ phase' = [phase EXCEPT ![r] = "running"]
    /\ count' = [count EXCEPT ![r] = @ + 1]
    /\ UNCHANGED <<file, failed, first, returned, missed, span, edited, broken>>

(* Load the head if it is not in memory, and build the entry.              *)
Begin(r) ==
    /\ Attempt(r)
    /\ ~loaded => HeadReadable
    /\ loaded' = TRUE
    /\ seq' = IF loaded THEN seq ELSE LoadedSeq
    /\ head' = IF loaded THEN head ELSE LoadedHead
    /\ entry' = Linked(seq', head', <<r, count[r] + 1>>)
    /\ stage' = "write"

(* The head cannot be read: the last line is not JSON, or the read fails.  *)
BeginFails(r) ==
    /\ Attempt(r)
    /\ ~loaded
    /\ entry' = Unlinked(<<r, count[r] + 1>>)
    /\ stage' = "raise"
    /\ UNCHANGED <<loaded, seq, head>>

Damage(i) == broken' = IF broken = 0 \/ i < broken THEN i ELSE broken

AddBytesTruncating(whole, ended) ==            \* mutant: opened "wb"
    /\ file' = <<[json |-> whole, entry |-> entry, ended |-> ended]>>
    /\ UNCHANGED broken

(* What reaches the file: a fragment, the entry without its newline, or    *)
(* the line.  It is glued to a last line that has no newline.              *)
AddBytes(whole, ended) ==
    LET n == Len(file)
        glued == n > 0 /\ ~Last(file).ended
        line == [json |-> whole /\ ~glued, entry |-> entry, ended |-> ended]
    IN  /\ file' = IF glued THEN [file EXCEPT ![n] = line] ELSE Append(file, line)
        /\ IF line.json THEN UNCHANGED broken
           ELSE Damage(IF glued THEN n ELSE n + 1)

WriteLine ==
    /\ stage = "write"
    /\ \/ AddBytes(TRUE, TRUE) /\ stage' \in {"keep", "raise"}
       \/ AddBytes(TRUE, FALSE) /\ stage' = "raise"
       \/ AddBytes(FALSE, FALSE) /\ stage' = "raise"
       \/ UNCHANGED <<file, broken>> /\ stage' = "raise"
    /\ UNCHANGED <<memory, entry, runs, edited>>

Keep ==
    /\ stage = "keep"
    /\ stage' = "idle"
    /\ loaded' = TRUE /\ seq' = entry.seq /\ head' = entry.hash
    /\ returned' = [returned EXCEPT ![writer] = @ \cup {entry}]
    /\ first' = IF count[writer] = 1 THEN [first EXCEPT ![writer] = entry.seq]
                ELSE first
    /\ UNCHANGED <<file, failed, entry, phase, count, missed, span,
                   edited, broken>>

RaiseKeepingHead ==                            \* mutant: the head not re-read
    /\ stage = "raise"
    /\ stage' = "idle"
    /\ failed' = failed + 1
    /\ missed' = missed \cup {entry.of}
    /\ UNCHANGED <<file, loaded, seq, head, entry, phase, count, first,
                   returned, span, edited, broken>>

(* The failure is counted, and the head is read again next time.           *)
Raise ==
    /\ stage = "raise"
    /\ stage' = "idle"
    /\ failed' = failed + 1
    /\ loaded' = FALSE /\ seq' = 0
    /\ missed' = missed \cup {entry.of}
    /\ UNCHANGED <<file, head, entry, phase, count, first, returned,
                   span, edited, broken>>

-----------------------------------------------------------------------------
(* status() on the Sovereignty page loads the head too.                    *)
Status ==
    /\ stage = "idle"
    /\ ~loaded /\ HeadReadable
    /\ loaded' = TRUE /\ seq' = LoadedSeq /\ head' = LoadedHead
    /\ UNCHANGED <<file, failed, inFlight, runs, edited, broken>>

FinishCounting(r) ==                           \* mutant: as many as it wrote
    /\ phase[r] = "running"
    /\ stage # "idle" => writer # r
    /\ phase' = [phase EXCEPT ![r] = "over"]
    /\ span' = [span EXCEPT ![r] =
                  IF first[r] = 0 THEN {} ELSE first[r]..(first[r] + count[r] - 1)]
    /\ UNCHANGED <<file, memory, inFlight, count, first, returned, missed,
                   edited, broken>>

(* _trail_span on the receipt of a run that is over.                       *)
Finish(r) ==
    /\ phase[r] = "running"
    /\ stage # "idle" => writer # r
    /\ phase' = [phase EXCEPT ![r] = "over"]
    /\ span' = [span EXCEPT ![r] =
                  IF first[r] = 0 THEN {}
                  ELSE first[r]..(IF seq = 0 THEN first[r] ELSE seq)]
    /\ UNCHANGED <<file, memory, inFlight, count, first, returned, missed,
                   edited, broken>>

(* The process dies, with every run in it, and starts again.               *)
Restart ==
    /\ loaded' = FALSE /\ seq' = 0 /\ head' = GENESIS
    /\ failed' = 0
    /\ stage' = "idle"
    /\ phase' = [r \in Runs |-> IF phase[r] = "running" THEN "over" ELSE phase[r]]
    /\ UNCHANGED <<file, entry, count, first, returned, missed, span,
                   edited, broken>>

(* The file edited by hand: an entry changed, removed or swapped with the  *)
(* next.  Nothing in the file tells that its last entry was removed, so    *)
(* that edit is left out.                                                  *)
Whole(i) == file[i].json /\ file[i].ended

Edit ==
    /\ edited = "none"
    /\ \E kind \in Edits, i \in 1..Len(file) :
         /\ edited' = kind
         /\ Whole(i)
         /\ CASE kind = "change" ->
                   /\ file' = [file EXCEPT ![i].entry.of = <<@[1], 0>>]
                   /\ Damage(i)
              [] kind = "remove" ->
                   /\ i < Len(file)
                   /\ file' = [j \in 1..(Len(file) - 1) |->
                                 IF j < i THEN file[j] ELSE file[j + 1]]
                   /\ Damage(i)
              [] kind = "swap" ->
                   /\ i < Len(file) /\ Whole(i + 1)
                   /\ file' = [file EXCEPT ![i] = file[i + 1], ![i + 1] = file[i]]
                   /\ Damage(i)
    /\ UNCHANGED <<memory, inFlight, runs>>

-----------------------------------------------------------------------------
Next ==
    \/ \E r \in Runs : Begin(r) \/ BeginFails(r) \/ Finish(r)
    \/ WriteLine \/ Keep \/ Raise
    \/ Status \/ Restart \/ Edit

Spec == Init /\ [][Next]_vars

-----------------------------------------------------------------------------
(* Properties *)

(* verify() tells the truth: it reports the first line that was damaged,   *)
(* by a torn write or by an edit, and no other; a trail that was not       *)
(* damaged verifies, whatever failed, stopped or interleaved.              *)
VerifyNamesTheFirstBreak == verify = broken

(* Up to the first break an entry that append returned is on file, on the  *)
(* line of its number, whatever failed or restarted since.                 *)
ReturnedIsOnFile ==
    edited = "none" =>
        \A r \in Runs : \A e \in returned[r] :
            broken = 0 \/ e.seq < broken =>
                e.seq <= Len(file) /\ file[e.seq].entry = e

(* No two runs are given the same entry number, and no entry is given out  *)
(* twice.                                                                  *)
NumbersAreUnique ==
    edited = "none" =>
        \A r, s \in Runs : \A d \in returned[r], e \in returned[s] :
            d.seq = e.seq => d = e /\ r = s

(* With no write ever failed, the entries a receipt names include every    *)
(* entry of its run, however the runs interleaved.                         *)
SpanCoversTheRun ==
    \A r \in Runs :
        missed = {} /\ span[r] # {} => {e.seq : e \in returned[r]} \subseteq span[r]

(* The trail is append-only: no step of the program changes or removes a   *)
(* line that has its newline.                                              *)
AppendOnly ==
    [][UNCHANGED edited =>
         \A i \in 1..Len(file) :
             file[i].ended => i <= Len(file') /\ file'[i] = file[i]]_vars
===============================================================================
