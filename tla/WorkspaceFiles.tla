--------------------------- MODULE WorkspaceFiles ---------------------------
(***************************************************************************)
(* Overwriting one file of the workspace: write_file of the files tool     *)
(* (4ce/tools/files.py) and write_sheet of the spreadsheet tool            *)
(* (4ce/tools/sheets.py).  The file's earlier content is kept under        *)
(* .versions, numbered by how many versions are there already, then the    *)
(* file is written and the write recorded in the audit trail.              *)
(*                                                                         *)
(* A call is a coroutine that hands each read and write to a thread.  A    *)
(* stop cancels the coroutine; a thread that has begun goes on.  A write   *)
(* truncates the file first and fills it afterwards, each thread from its  *)
(* start: two that truncated the same file may leave bytes of both.  The   *)
(* two tools write different types of file, so the calls on one file are   *)
(* all of one tool.                                                        *)
(***************************************************************************)
EXTENDS Naturals, Sequences

CONSTANTS
    Calls,       \* the calls that write this file
    Contents,    \* what they may be given to write
    Plain,       \* whether the file's name reads as itself in a glob: explored
    MaxCrashes   \* bound: restarts of the process

ASSUME PlainAssumption == Plain \subseteq BOOLEAN
ASSUME CrashesAssumption == MaxCrashes \in Nat
ASSUME ContentsAssumption == {"absent", "torn", "mixed"} \cap Contents = {}

VARIABLES
    tool, plain, payload,   \* the tool, the name, what each call writes
    target,                 \* the file: absent, a content, half-written or mixed
    versions,               \* the versions kept, by number
    pc,                     \* of each call
    job,                    \* the thread each call started last
    previous, number,       \* what a call read, and the number it keeps it as
    entries,                \* the file.write entries of the audit trail
    unrecorded,             \* the calls that began to write since the last entry
    crashes,
    held,                   \* every content the file has held whole
    overlapped              \* a call began before another's threads were done

inputs == <<tool, plain, payload>>
disk == <<target, versions, held>>
trail == <<entries, unrecorded>>
locals == <<pc, job, previous, number>>
vars == <<inputs, disk, locals, trail, crashes, overlapped>>

Ops == {"none", "read", "keep", "write", "register"}

Job(op, stage) == [op |-> op, stage |-> stage]

NoJob == Job("none", "done")

Outcomes == {"refused", "unchanged", "written", "unlogged", "failed", "stopped"}

Init ==
    /\ tool \in {"write_file", "write_sheet"}
    /\ plain \in Plain
    /\ payload \in [Calls -> Contents]
    /\ target = "absent"
    /\ versions = <<>>
    /\ pc = [c \in Calls |-> "ready"]
    /\ job = [c \in Calls |-> NoJob]
    /\ previous = [c \in Calls |-> "absent"]
    /\ number = [c \in Calls |-> 0]
    /\ entries = <<>>
    /\ unrecorded = {}
    /\ crashes = 0
    /\ held = {}
    /\ overlapped = FALSE

Pending(c) == job[c].stage # "done"

Busy(c) == pc[c] = "running" \/ Pending(c)

Submit(c, op) == job' = [job EXCEPT ![c] = Job(op, "queued")]

OnDisk == Contents \cup {"torn", "mixed"}

(* The threads that have truncated the file, or a version of it, and have  *)
(* not filled it.                                                          *)
Writing == {c \in Calls : job[c] = Job("write", "begun")}

Keeping(n) == {c \in Calls : job[c] = Job("keep", "begun") /\ number[c] = n}

(* What is on the disk in the middle of these threads' writes, for a       *)
(* reader, or for good when they die: the start of the one write to an     *)
(* empty file, otherwise possibly bytes of several.                        *)
Midway(x, threads) ==
    IF threads = {} \/ (x = "torn" /\ \A c, d \in threads : c = d)
    THEN {x} ELSE {x, "mixed"}

-----------------------------------------------------------------------------
(* The coroutine *)

NumberOrOne ==                                 \* mutant: "or 1" for "+ 1"
    IF plain /\ versions # <<>> THEN Len(versions) ELSE 1

NumberOne == 1                                 \* mutant: one earlier version

(* len(list(history.glob("<stem>.v*<suffix>"))) + 1: a bracket in the stem *)
(* is read as a set of characters, and the pattern matches nothing.        *)
Number == IF plain THEN Len(versions) + 1 ELSE 1

KeepPayload(c, content) ==                     \* mutant: keeps the new text
    /\ previous' = [previous EXCEPT ![c] = payload[c]]
    /\ number' = [number EXCEPT ![c] = Number]
    /\ Submit(c, "keep")

(* The earlier content goes to the next number, where it is known.         *)
Keep(c, content) ==
    /\ previous' = [previous EXCEPT ![c] = content]
    /\ number' = [number EXCEPT ![c] = Number]
    /\ Submit(c, "keep")

(* Outside the workspace, among the versions, of another type, empty, too  *)
(* large, changes that cannot be applied, or a preview.                    *)
Refuse(c) ==
    /\ pc[c] = "ready"
    /\ pc' = [pc EXCEPT ![c] = "refused"]
    /\ UNCHANGED <<inputs, disk, job, previous, number, trail, crashes,
                   overlapped>>

(* target.exists(): write_file reads the file in a thread, write_sheet on  *)
(* the spot, when its changes are applied in memory.                       *)
Start(c) ==
    /\ pc[c] = "ready"
    /\ pc' = [pc EXCEPT ![c] = "running"]
    /\ overlapped' = (overlapped \/ \E d \in Calls \ {c} : Busy(d))
    /\ IF target = "absent"
       THEN Submit(c, "write") /\ UNCHANGED <<previous, number>>
       ELSE IF tool = "write_file"
       THEN Submit(c, "read") /\ UNCHANGED <<previous, number>>
       ELSE \E content \in Midway(target, Writing) : Keep(c, content)
    /\ UNCHANGED <<inputs, disk, trail, crashes>>

Resumes(c, op) == pc[c] = "running" /\ job[c] = Job(op, "done")

(* write_file leaves a file alone that already holds exactly this.         *)
AfterRead(c) ==
    /\ Resumes(c, "read")
    /\ IF previous[c] = payload[c]
       THEN /\ pc' = [pc EXCEPT ![c] = "unchanged"]
            /\ UNCHANGED <<job, previous, number>>
       ELSE Keep(c, previous[c]) /\ UNCHANGED pc
    /\ UNCHANGED <<inputs, disk, trail, crashes, overlapped>>

AfterKeep(c) ==
    /\ Resumes(c, "keep")
    /\ Submit(c, "write")
    /\ UNCHANGED <<inputs, disk, pc, previous, number, trail, crashes,
                   overlapped>>

(* write_sheet registers its copy for download before it records it.       *)
AfterWrite(c) ==
    /\ tool = "write_sheet"
    /\ Resumes(c, "write")
    /\ Submit(c, "register")
    /\ UNCHANGED <<inputs, disk, pc, previous, number, trail, crashes,
                   overlapped>>

RecordableEarly(c) ==                          \* mutant: before the write
    \/ Resumes(c, "keep")
    \/ Resumes(c, IF tool = "write_sheet" THEN "register" ELSE "write")

Recordable(c) ==
    Resumes(c, IF tool = "write_sheet" THEN "register" ELSE "write")

(* record() returns nothing when the entry could not be written, and the   *)
(* tool answers as if it had been.                                         *)
Record(c) ==
    /\ Recordable(c)
    /\ \/ /\ pc' = [pc EXCEPT ![c] = "written"]
          /\ entries' = Append(entries, [content |-> payload[c], kept |-> number[c],
                                         replaced |-> previous[c]])
          /\ unrecorded' = {}
       \/ /\ pc' = [pc EXCEPT ![c] = "unlogged"]
          /\ UNCHANGED trail
    /\ UNCHANGED <<inputs, disk, job, previous, number, crashes, overlapped>>

-----------------------------------------------------------------------------
(* The threads *)

(* A version's file is created, or written over.  The numbers start at 1.  *)
Put(n, content) ==
    versions' = IF n > Len(versions) THEN Append(versions, content)
                ELSE [versions EXCEPT ![n] = content]

(* A thread starts: a read is done at once, a write truncates.             *)
Begin(c) ==
    /\ job[c].stage = "queued"
    /\ CASE job[c].op = "read" ->
               /\ \E content \in Midway(target, Writing) :
                    previous' = [previous EXCEPT ![c] = content]
               /\ UNCHANGED <<disk, unrecorded>>
         [] job[c].op = "keep" ->
               /\ Put(number[c], "torn")
               /\ UNCHANGED <<target, held, previous, unrecorded>>
         [] job[c].op = "write" ->
               /\ target' = "torn"
               /\ unrecorded' = unrecorded \cup {c}
               /\ UNCHANGED <<versions, held, previous>>
         [] job[c].op = "register" -> UNCHANGED <<disk, previous, unrecorded>>
    /\ job' = [job EXCEPT ![c].stage =
                 IF job[c].op \in {"keep", "write"} THEN "begun" ELSE "done"]
    /\ UNCHANGED <<inputs, pc, number, entries, crashes, overlapped>>

(* What a whole write leaves of a file: its content, unless another thread *)
(* has written since it was truncated.  Then the longer of the two shows   *)
(* behind the shorter.                                                     *)
Filled(x, content) ==
    IF x \in {"torn", content} THEN {content} ELSE {x, content, "mixed"}

Fill(c) ==
    /\ job[c].stage = "begun"
    /\ job' = [job EXCEPT ![c].stage = "done"]
    /\ IF job[c].op = "keep"
       THEN /\ \E x \in Filled(versions[number[c]], previous[c]) : Put(number[c], x)
            /\ UNCHANGED <<target, held>>
       ELSE /\ target' \in Filled(target, payload[c])
            /\ held' = held \cup ({target'} \cap Contents)
            /\ UNCHANGED versions
    /\ UNCHANGED <<inputs, pc, previous, number, trail, crashes, overlapped>>

(* The writes of these calls end where they are.                           *)
Interrupted(calls) ==
    /\ target' \in IF calls \cap Writing = {} THEN {target} ELSE Midway(target, Writing)
    /\ versions' \in {v \in [1..Len(versions) -> OnDisk] :
         \A n \in 1..Len(versions) :
            v[n] \in IF calls \cap Keeping(n) = {} THEN {versions[n]}
                    ELSE Midway(versions[n], Keeping(n))}
    /\ UNCHANGED held

(* The disk refuses; the exception ends the call.  A registration that     *)
(* fails is passed over.                                                   *)
Fails(c) ==
    /\ Pending(c) /\ job[c].op # "register"
    /\ job' = [job EXCEPT ![c] = NoJob]
    /\ pc' = [pc EXCEPT ![c] = IF @ = "running" THEN "failed" ELSE @]
    /\ Interrupted({c})
    /\ UNCHANGED <<inputs, previous, number, trail, crashes, overlapped>>

-----------------------------------------------------------------------------
(* A thread that has begun cannot be cancelled, one that is queued may     *)
(* have begun before it is.                                                *)
Cancel(c) ==
    /\ pc[c] = "running"
    /\ pc' = [pc EXCEPT ![c] = "stopped"]
    /\ \/ job[c].stage # "begun" /\ job' = [job EXCEPT ![c] = NoJob]
       \/ job[c].op # "register" /\ Pending(c) /\ UNCHANGED job
    /\ UNCHANGED <<inputs, disk, previous, number, trail, crashes, overlapped>>

(* The process dies with its threads and starts again.                     *)
Crash ==
    /\ crashes < MaxCrashes
    /\ crashes' = crashes + 1
    /\ pc' = [c \in Calls |-> IF pc[c] = "running" THEN "stopped" ELSE pc[c]]
    /\ job' = [c \in Calls |-> NoJob]
    /\ Interrupted(Calls)
    /\ UNCHANGED <<inputs, previous, number, trail, overlapped>>

Next ==
    \/ \E c \in Calls :
         \/ Refuse(c) \/ Start(c) \/ AfterRead(c) \/ AfterKeep(c)
         \/ AfterWrite(c) \/ Record(c)
         \/ Begin(c) \/ Fill(c) \/ Fails(c)
         \/ Cancel(c)
    \/ Crash

Spec == Init /\ [][Next]_vars

-----------------------------------------------------------------------------
(* Properties *)

TypeOK ==
    /\ tool \in {"write_file", "write_sheet"} /\ plain \in BOOLEAN
    /\ payload \in [Calls -> Contents]
    /\ target \in OnDisk \cup {"absent"}
    /\ versions \in Seq(OnDisk)
    /\ pc \in [Calls -> Outcomes \cup {"ready", "running"}]
    /\ job \in [Calls -> [op : Ops, stage : {"queued", "begun", "done"}]]
    /\ previous \in [Calls -> OnDisk \cup {"absent"}]
    /\ number \in [Calls -> Nat]
    /\ entries \in Seq([content : Contents, kept : Nat,
                        replaced : OnDisk \cup {"absent"}])
    /\ unrecorded \subseteq Calls
    /\ crashes \in 0..MaxCrashes
    /\ held \subseteq Contents
    /\ overlapped \in BOOLEAN

(* The condition under which the numbering is sound: calls on the file one *)
(* after the other, threads included, and a name without brackets.         *)
Orderly == plain /\ ~overlapped

Found(x) == x = target \/ \E n \in 1..Len(versions) : versions[n] = x

(* Nothing a call wrote is lost: whatever fails, is stopped or crashes     *)
(* between keeping and writing, every content the file has held is the     *)
(* file's or a kept version's.                                             *)
OrderlyVersionsAreKept == Orderly => \A x \in held : Found(x)

(* An entry's "kept" names the version that holds what the write replaced, *)
(* and goes on doing so after later writes.                                *)
KeptIsWhatWasReplaced ==
    Orderly => \A i \in 1..Len(entries) :
        entries[i].kept > 0 => /\ entries[i].kept <= Len(versions)
                               /\ versions[entries[i].kept] = entries[i].replaced

(* The trail tells the file: the file holds what the last entry says,      *)
(* unless a call that began to write since then is still under way, failed *)
(* or was stopped before its entry, or could not write the entry.          *)
TrailTellsTheFile ==
    /\ Orderly /\ entries # <<>>
    /\ entries[Len(entries)].content # target
    => \E c \in unrecorded :
         Busy(c) \/ pc[c] \in {"failed", "stopped", "unlogged"}

(* What may be on the disk: a content the file has held whole, the start   *)
(* of one and, where calls have met, bytes of several.                     *)
Possible == held \cup {"torn"} \cup {x \in {"mixed"} : overlapped}

(* The history and the trail invent nothing, whatever fails, is stopped or *)
(* dies: what is kept is a content the file once held, or a write cut      *)
(* short, or, only after calls met, a mixture; and, unless calls met, an   *)
(* entry names a content the file held.                                    *)
NothingIsInvented ==
    /\ \A n \in 1..Len(versions) : versions[n] \in Possible
    /\ overlapped \/ \A i \in 1..Len(entries) : entries[i].content \in held

(* Every call so far came back with the file written, or left it alone.    *)
AllWell == \A c \in Calls : pc[c] \in {"ready", "refused", "unchanged", "written"}

(* "Every earlier version is kept beside the workspace's own files"        *)
(* (files.py:186): when every call came back well, each content the file   *)
(* has held is the file's or a version's.  Two calls that both find the    *)
(* file as it was leave no version of the first one's content.             *)
EveryVersionIsKept == AllWell => \A x \in held : Found(x)
=============================================================================
