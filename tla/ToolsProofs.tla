---------------------------- MODULE ToolsProofs ----------------------------
(***************************************************************************)
(* What two of the tools promise: WorkspaceFiles, the workspace files, for *)
(* every set of calls and contents and any number of crashes, and the      *)
(* check of a register (CalibrationCheck), for every register, of any      *)
(* length and with any cells, and every setting of the valves.             *)
(*                                                                         *)
(* Of the files, Source and Alone are what holds however the calls meet:   *)
(* where each content comes from, and that threads mix their bytes only    *)
(* after calls met.  InOrder is what holds as long as the calls follow  *)
(* one another: then at most one call is busy, and what it has read, kept  *)
(* and written is tied to the file and its versions at every await.        *)
(*                                                                         *)
(* Of the check, Reading says where the reader stands in the text and that *)
(* what lies behind it was answered; the rest is what the disposition says *)
(* of the instruments it was given.                                        *)
(***************************************************************************)
EXTENDS WorkspaceFiles, CalibrationCheck, SequenceTheorems, TLAPS

-----------------------------------------------------------------------------
(* The workspace files.                                                      *)

(* What the model's threads are asked to do.                               *)
Shape ==
    \A c \in Calls :
        /\ pc[c] = "ready" => number[c] = 0 /\ job[c] = NoJob
        /\ Pending(c) => pc[c] \in {"running", "stopped"} /\ job[c].op # "none"
        /\ job[c].stage = "begun" => job[c].op \in {"keep", "write"}
        /\ job[c].op = "keep" => number[c] \in 1..(Len(versions) + 1)
        /\ job[c] = Job("keep", "begun") => number[c] \in 1..Len(versions)
        /\ job[c].op = "read" => target # "absent"

(* A call that wrote since the last entry has not come back with one.      *)
Owing ==
    \A c \in unrecorded :
        /\ pc[c] \in {"running", "failed", "stopped", "unlogged"}
        /\ pc[c] = "running" => job[c].op \in {"write", "register"}

(* While calls have not met, the one thread that writes finds the file as  *)
(* it truncated it.                                                        *)
Kept(n, x) == n <= Len(versions) /\ versions[n] = x

Truncated(c) ==
    IF job[c].op = "write" THEN target = "torn" ELSE Kept(number[c], "torn")

AloneAtWork == \A c, d \in Calls : Busy(c) /\ Busy(d) => c = d

Alone ==
    ~overlapped =>
        /\ AloneAtWork
        /\ \A c \in Calls : job[c].stage = "begun" => Truncated(c)

(* Where a content on disk or in a thread's hands, or an entry, is from.   *)
Source ==
    /\ target \in Possible \cup {"absent"}
    /\ target = "absent" => held = {}
    /\ \A c \in Calls :
         /\ job[c].op = "keep" \/ job[c] = Job("read", "done") => previous[c] \in Possible
         /\ job[c] = Job("write", "done") \/ job[c].op = "register" =>
              overlapped \/ payload[c] \in held
    /\ NothingIsInvented

(* What an entry of the trail says of a write.                             *)
Write == [content : Contents, kept : Nat, replaced : OnDisk \cup {"absent"}]

(* The one busy call, while the calls are in order.                        *)
Stands(c) ==
    /\ job[c].op = "keep" \/ job[c] = Job("read", "done") => previous[c] = target
    /\ job[c] = Job("keep", "queued") => number[c] = Len(versions) + 1
    /\ job[c] = Job("keep", "begun") =>
         /\ number[c] = Len(versions) /\ versions[number[c]] = "torn"
         /\ \A i \in 1..Len(entries) : entries[i].kept < number[c]
    /\ job[c] = Job("keep", "done") => Kept(number[c], previous[c])
    /\ job[c].op = "write" /\ job[c].stage # "done" =>
         \A x \in held : \E n \in 1..Len(versions) : versions[n] = x
    /\ pc[c] = "running" /\ job[c].op \in {"write", "register"} /\ number[c] > 0 =>
         Kept(number[c], previous[c])
    /\ job[c] = Job("write", "done") \/ job[c].op = "register" => target = payload[c]
    /\ job[c].op = "register" \/ (job[c].op = "write" /\ job[c].stage # "queued") =>
         c \in unrecorded

(* The last entry is about the file, unless a call owes one.               *)
LastWrite ==
    entries # <<>> /\ unrecorded = {} => entries[Len(entries)].content = target

InOrder ==
    Orderly =>
        /\ AloneAtWork
        /\ \A c \in Calls : Busy(c) => Stands(c)
        /\ OrderlyVersionsAreKept
        /\ KeptIsWhatWasReplaced
        /\ LastWrite

Invention == TypeOK /\ Shape /\ Owing /\ Alone /\ Source

-----------------------------------------------------------------------------
(* Put writes one version and leaves the others.                           *)
LEMMA PutEffect ==
    ASSUME NEW S, versions \in Seq(S), NEW x \in S,
           NEW n \in 1..(Len(versions) + 1), Put(n, x)
    PROVE  /\ versions' \in Seq(S)
           /\ Len(versions') = IF n = Len(versions) + 1 THEN n ELSE Len(versions)
           /\ versions'[n] = x
           /\ \A m \in 1..Len(versions) : m # n => versions'[m] = versions[m]
<1>0. Len(versions) \in Nat
  BY LenProperties
<1>1. CASE n = Len(versions) + 1
  BY <1>0, <1>1 DEF Put
<1>2. CASE n \in 1..Len(versions)
  <2>1. versions' = [versions EXCEPT ![n] = x]
    BY <1>0, <1>2 DEF Put
  <2>2. versions' \in Seq(S) /\ Len(versions') = Len(versions)
    BY <1>2, <2>1, ExceptSeq
  <2>3. DOMAIN versions = 1..Len(versions)
    BY LenProperties
  <2>4. n # Len(versions) + 1
    BY <1>0, <1>2
  <2>5. versions'[n] = x
    BY <1>2, <2>1, <2>3
  <2>6. ASSUME NEW m \in 1..Len(versions), m # n PROVE versions'[m] = versions[m]
    BY <2>1, <2>3, <2>6
  <2> QED
    BY <2>2, <2>4, <2>5, <2>6
<1> QED
  BY <1>0, <1>1, <1>2

(* In the middle of a write the disk may show bytes of several only where  *)
(* calls have met.                                                         *)
LEMMA MidwayFile ==
    ASSUME Invention, NEW y \in Midway(target, Writing)
    PROVE  y = target \/ (overlapped /\ y = "mixed")
<1> SUFFICES ASSUME ~overlapped PROVE y = target
  BY DEF Midway
<1>0. \A c \in Writing : c \in Calls /\ job[c].op = "write" /\ job[c].stage = "begun"
  BY DEF Writing, Job
<1>1. \A c \in Writing : c \in Calls /\ Busy(c) /\ target = "torn"
  BY <1>0 DEF Invention, Alone, Truncated, Busy, Pending
<1>2. \A c, d \in Writing : c = d
  BY <1>1 DEF Invention, Alone, AloneAtWork
<1> QED
  BY <1>1, <1>2 DEF Midway

(* The same of a version.                                                  *)
LEMMA MidwayVersion ==
    ASSUME Invention, NEW n \in 1..Len(versions),
           NEW y \in Midway(versions[n], Keeping(n))
    PROVE  y = versions[n] \/ (overlapped /\ y = "mixed")
<1> SUFFICES ASSUME ~overlapped PROVE y = versions[n]
  BY DEF Midway
<1>0. \A c \in Keeping(n) : /\ c \in Calls /\ number[c] = n
                             /\ job[c].op = "keep" /\ job[c].stage = "begun"
  BY DEF Keeping, Job
<1>1. \A c \in Keeping(n) : c \in Calls /\ Busy(c) /\ versions[n] = "torn"
  BY <1>0 DEF Invention, Alone, Truncated, Kept, Busy, Pending
<1>2. \A c, d \in Keeping(n) : c = d
  BY <1>1 DEF Invention, Alone, AloneAtWork
<1> QED
  BY <1>1, <1>2 DEF Midway

(* Writes that end where they are leave the disk alone, or a mixture where *)
(* calls have met.                                                         *)
LEMMA InterruptedEffect ==
    ASSUME Invention, NEW S, Interrupted(S)
    PROVE  /\ UNCHANGED held
           /\ target' = target \/ (overlapped /\ target' = "mixed")
           /\ versions' \in Seq(OnDisk) /\ Len(versions') = Len(versions)
           /\ Len(versions) \in Nat
           /\ \A n \in 1..Len(versions) :
                versions'[n] = versions[n] \/ (overlapped /\ versions'[n] = "mixed")
           /\ ~overlapped => UNCHANGED disk
<1>1. UNCHANGED held /\ (target' = target \/ (overlapped /\ target' = "mixed"))
  BY MidwayFile DEF Interrupted
<1>2. versions \in Seq(OnDisk) /\ Len(versions) \in Nat
  BY LenProperties DEF Invention, TypeOK
<1>3. versions' \in [1..Len(versions) -> OnDisk]
  BY DEF Interrupted
<1>4. versions' \in Seq(OnDisk) /\ Len(versions') = Len(versions)
  BY <1>2, <1>3
<1>5. ASSUME NEW n \in 1..Len(versions)
      PROVE  versions'[n] = versions[n] \/ (overlapped /\ versions'[n] = "mixed")
  <2>1. \/ versions'[n] = versions[n]
        \/ versions'[n] \in Midway(versions[n], Keeping(n))
    BY DEF Interrupted
  <2> QED
    BY <2>1, MidwayVersion
<1>6. ASSUME ~overlapped PROVE UNCHANGED disk
  <2>1. versions' = versions
    BY <1>2, <1>4, <1>5, <1>6, SeqEqual
  <2> QED
    BY <1>1, <1>6, <2>1 DEF disk
<1> QED
  BY <1>1, <1>2, <1>4, <1>5, <1>6

(* A step that begins no thread and puts no call to work.                  *)
LEMMA AloneStill ==
    ASSUME Invention, UNCHANGED overlapped,
           ~overlapped => UNCHANGED <<target, versions>>,
           \A d \in Calls : Busy(d)' => Busy(d),
           \A d \in Calls : job'[d].stage = "begun" =>
                              job'[d] = job[d] /\ number'[d] = number[d]
    PROVE  Alone'
<1> SUFFICES ASSUME ~overlapped PROVE
        AloneAtWork' /\ \A c \in Calls : job'[c].stage = "begun" => Truncated(c)'
  BY DEF Alone
<1>1. AloneAtWork'
  BY DEF Invention, Alone, AloneAtWork
<1>2. ASSUME NEW c \in Calls, job'[c].stage = "begun" PROVE Truncated(c)'
  <2>1. job'[c] = job[c] /\ number'[c] = number[c] /\ Truncated(c)
    BY <1>2 DEF Invention, Alone
  <2> QED
    BY <2>1 DEF Truncated, Kept
<1> QED
  BY <1>1, <1>2

(* The initial state satisfies the invariant.                              *)
LEMMA InitInvention == Init => Invention
<1> SUFFICES ASSUME Init PROVE Invention
  OBVIOUS
<1>1. TypeOK
  <2>1. /\ NoJob \in [op : Ops, stage : {"queued", "begun", "done"}]
        /\ crashes \in 0..MaxCrashes
        /\ plain \in BOOLEAN
    BY PlainAssumption, CrashesAssumption DEF Init, Ops, Job, NoJob
  <2>2. versions \in Seq(OnDisk) /\ entries \in Seq(Write)
    BY EmptySeq DEF Init
  <2>3. job \in [Calls -> [op : Ops, stage : {"queued", "begun", "done"}]]
    BY <2>1 DEF Init
  <2>4. pc \in [Calls -> Outcomes \cup {"ready", "running"}]
    BY DEF Init
  <2>5. previous \in [Calls -> OnDisk \cup {"absent"}] /\ number \in [Calls -> Nat]
    BY DEF Init
  <2> QED
    BY <2>1, <2>2, <2>3, <2>4, <2>5 DEF Init, TypeOK, Write
<1>2. Shape /\ Owing /\ Alone
  BY DEF Init, Shape, Owing, Alone, AloneAtWork, Busy, Pending, Job, NoJob
<1>3. Source
  BY DEF Init, Source, Possible, NothingIsInvented, Job, NoJob
<1> QED
  BY <1>1, <1>2, <1>3 DEF Invention

(* A call that is refused.                                                 *)
LEMMA RefuseInvention ==
    ASSUME NEW c \in Calls, Invention, Refuse(c)
    PROVE  Invention'
<1>1. /\ pc[c] = "ready" /\ pc' = [pc EXCEPT ![c] = "refused"]
      /\ UNCHANGED <<inputs, disk, job, previous, number, trail, crashes, overlapped>>
  BY DEF Refuse
<1>2. TypeOK'
  BY <1>1 DEF Invention, TypeOK, inputs, disk, trail, Outcomes
<1>3. Shape' /\ Owing'
  BY <1>1 DEF Invention, TypeOK, Shape, Owing, inputs, disk, trail, Pending, Job, NoJob
<1>4. Alone'
  <2>1. \A d \in Calls : Busy(d)' => Busy(d)
    BY <1>1 DEF Invention, TypeOK, Busy, Pending
  <2> QED
    BY <1>1, <2>1, AloneStill DEF disk
<1>5. Source'
  BY <1>1 DEF Invention, Source, Possible, NothingIsInvented, inputs, disk, trail
<1> QED
  BY <1>2, <1>3, <1>4, <1>5 DEF Invention

(* A call that starts.                                                     *)
LEMMA StartInvention ==
    ASSUME NEW c \in Calls, Invention, Start(c)
    PROVE  Invention'
<1>1. /\ pc[c] = "ready" /\ pc' = [pc EXCEPT ![c] = "running"]
      /\ overlapped' = (overlapped \/ \E d \in Calls \ {c} : Busy(d))
      /\ UNCHANGED <<inputs, disk, trail, crashes>>
  BY DEF Start
<1>2. PICK op \in {"read", "keep", "write"} :
      /\ job' = [job EXCEPT ![c] = Job(op, "queued")]
      /\ op = "keep" => /\ target # "absent"
                     /\ \E y \in Midway(target, Writing) :
                          previous' = [previous EXCEPT ![c] = y]
                     /\ number' = [number EXCEPT ![c] = Number]
      /\ op # "keep" => UNCHANGED <<previous, number>>
      /\ op = "read" => target # "absent"
  BY DEF Start, Keep, Submit
<1>3. Number \in 1..(Len(versions) + 1)
  BY LenProperties DEF Invention, TypeOK, Number
<1>a. op = "keep" => \E y \in Possible : previous' = [previous EXCEPT ![c] = y]
  BY <1>2, MidwayFile DEF Invention, Source, Possible
<1>b. overlapped \in BOOLEAN /\ overlapped' \in BOOLEAN /\ Possible \subseteq Possible'
      /\ Possible \subseteq OnDisk /\ (overlapped => overlapped')
  BY <1>1 DEF Invention, TypeOK, Possible, OnDisk, disk
<1>4. TypeOK'
  <2>2. previous' \in [Calls -> OnDisk \cup {"absent"}] /\ number' \in [Calls -> Nat]
    <3>1. CASE op = "keep"
      <4>1. Number \in Nat
        BY <1>3
      <4>2. previous \in [Calls -> OnDisk \cup {"absent"}] /\ number \in [Calls -> Nat]
        BY DEF Invention, TypeOK
      <4>3. PICK y \in Possible : previous' = [previous EXCEPT ![c] = y]
        BY <1>a, <3>1
      <4>4. y \in OnDisk
        BY <1>b
      <4>5. previous' \in [Calls -> OnDisk \cup {"absent"}]
        BY <4>2, <4>3, <4>4
      <4>6. number' = [number EXCEPT ![c] = Number]
        BY <1>2, <3>1
      <4>7. number' \in [Calls -> Nat]
        BY <4>1, <4>2, <4>6
      <4> QED
        BY <4>5, <4>7
    <3>2. CASE op # "keep"
      BY <1>2, <3>2 DEF Invention, TypeOK
    <3> QED
      BY <3>1, <3>2
  <2>3. job' \in [Calls -> [op : Ops, stage : {"queued", "begun", "done"}]]
    BY <1>2 DEF Invention, TypeOK, Job, Ops
  <2>4. pc' \in [Calls -> Outcomes \cup {"ready", "running"}]
    BY <1>1 DEF Invention, TypeOK
  <2> QED
    BY <1>1, <1>b, <2>2, <2>3, <2>4 DEF Invention, TypeOK, inputs, disk, trail
<1>5. Shape'
  BY <1>1, <1>2, <1>3 DEF Invention, TypeOK, Shape, inputs, disk, Pending, Job, NoJob
<1>6. Owing'
  BY <1>1, <1>2 DEF Invention, TypeOK, Owing, trail
<1>7. Alone'
  <2> SUFFICES ASSUME ~overlapped' PROVE
          AloneAtWork' /\ \A d \in Calls : job'[d].stage = "begun" => Truncated(d)'
    BY DEF Alone
  <2>1. \A d \in Calls \ {c} : pc'[d] = pc[d] /\ job'[d] = job[d] /\ ~Busy(d)
    BY <1>1, <1>2 DEF Invention, TypeOK
  <2>2. job'[c].stage = "queued"
    BY <1>2 DEF Invention, TypeOK, Job
  <2> QED
    BY <2>1, <2>2 DEF AloneAtWork, Busy, Pending
<1>8. Source'
  <2>1. NothingIsInvented' /\ (target \in Possible \cup {"absent"})'
    BY <1>1, <1>b DEF Invention, Source, NothingIsInvented, disk, trail
  <2>2. ASSUME NEW d \in Calls
        PROVE  /\ job'[d].op = "keep" \/ job'[d] = Job("read", "done") => previous'[d] \in Possible'
               /\ job'[d] = Job("write", "done") \/ job'[d].op = "register" =>
                    overlapped' \/ payload'[d] \in held'
    <3>1. CASE d = c
      <4>1. job'[c] = Job(op, "queued") /\ (op = "keep" => previous'[c] \in Possible')
        BY <1>2, <1>a, <1>b DEF Invention, TypeOK
      <4> QED
        BY <3>1, <4>1 DEF Job
    <3>2. CASE d # c
      <4>1. job'[d] = job[d] /\ previous'[d] = previous[d] /\ UNCHANGED <<payload, held>>
        BY <1>1, <1>2, <3>2 DEF Invention, TypeOK, disk, inputs
      <4> QED
        BY <1>b, <4>1 DEF Invention, Source
    <3> QED
      BY <3>1, <3>2
  <2> QED
    BY <1>1, <2>1, <2>2 DEF Invention, Source, disk
<1> QED
  BY <1>4, <1>5, <1>6, <1>7, <1>8 DEF Invention

(* What was read is kept next, or replaced at once.                        *)
LEMMA AfterReadInvention ==
    ASSUME NEW c \in Calls, Invention, AfterRead(c)
    PROVE  Invention'
<1>0. /\ pc[c] = "running" /\ job[c] = Job("read", "done") /\ c \notin unrecorded
      /\ UNCHANGED <<inputs, disk, trail, crashes, overlapped>>
  BY DEF AfterRead, Resumes, Invention, Owing, Job
<1>1. CASE previous[c] = payload[c]
  <2>0. /\ pc' = [pc EXCEPT ![c] = "unchanged"]
        /\ UNCHANGED <<job, previous, number>>
    BY <1>1 DEF AfterRead
  <2>1. TypeOK'
    BY <1>0, <2>0 DEF Invention, TypeOK, inputs, disk, trail, Outcomes
  <2>2. Shape' /\ Owing'
    BY <1>0, <2>0 DEF Invention, TypeOK, Shape, Owing, inputs, disk, trail, Pending, Job, NoJob
  <2>3. Source'
    BY <1>0, <2>0 DEF Invention, Source, Possible, NothingIsInvented, inputs, disk, trail
  <2>4. Alone'
    <3>1. \A d \in Calls : Busy(d)' => Busy(d)
      BY <2>0 DEF Invention, TypeOK, Busy, Pending
    <3> QED
      BY <1>0, <2>0, <3>1, AloneStill DEF disk
  <2> QED
    BY <2>1, <2>2, <2>3, <2>4 DEF Invention
<1>2. CASE previous[c] # payload[c]
  <2>1. /\ job' = [job EXCEPT ![c] = Job("keep", "queued")]
        /\ number' = [number EXCEPT ![c] = Number]
        /\ UNCHANGED <<previous, pc>>
    BY <1>2 DEF Invention, TypeOK, AfterRead, Keep, Submit
  <2>2. Number \in 1..(Len(versions) + 1)
    BY LenProperties DEF Invention, TypeOK, Number
  <2>3. previous[c] \in Possible
    BY <1>0 DEF Invention, Source
  <2>4. TypeOK'
    <3>1. job' \in [Calls -> [op : Ops, stage : {"queued", "begun", "done"}]]
      BY <2>1 DEF Invention, TypeOK, Job, Ops
    <3>2. number' \in [Calls -> Nat]
      BY <2>1, <2>2 DEF Invention, TypeOK
    <3> QED
      BY <1>0, <2>1, <3>1, <3>2 DEF Invention, TypeOK, inputs, disk, trail
  <2>5. Shape'
    BY <1>0, <2>1, <2>2 DEF Invention, TypeOK, Shape, inputs, disk, Pending, Job, NoJob
  <2>6. Owing'
    BY <1>0, <2>1 DEF Invention, TypeOK, Owing, trail
  <2>7. Alone'
    <3>1. \A d \in Calls : Busy(d)' => Busy(d)
      BY <1>0, <2>1 DEF Invention, TypeOK, Busy, Pending
    <3>2. \A d \in Calls : job'[d].stage = "begun" =>
                             job'[d] = job[d] /\ number'[d] = number[d]
      BY <2>1 DEF Invention, TypeOK, Job
    <3> QED
      BY <1>0, <3>1, <3>2, AloneStill DEF disk
  <2>8. Source'
    BY <1>0, <2>1, <2>3 DEF Invention, TypeOK, Source, Possible, NothingIsInvented, inputs, disk, trail, Job
  <2> QED
    BY <2>4, <2>5, <2>6, <2>7, <2>8 DEF Invention
<1> QED
  BY <1>1, <1>2

(* The version is kept, the write comes next; or the copy is written, its  *)
(* registration comes next.                                                *)
LEMMA NextJobInvention ==
    ASSUME NEW c \in Calls, Invention, AfterKeep(c) \/ AfterWrite(c)
    PROVE  Invention'
<1>1. PICK op \in {"write", "register"} :
      /\ pc[c] = "running"
      /\ op = "write" => job[c] = Job("keep", "done")
      /\ op = "register" => job[c] = Job("write", "done")
      /\ job' = [job EXCEPT ![c] = Job(op, "queued")]
      /\ UNCHANGED <<inputs, disk, pc, previous, number, trail, crashes, overlapped>>
  <2>1. CASE AfterKeep(c)
    BY <2>1 DEF AfterKeep, Submit, Resumes
  <2>2. CASE AfterWrite(c)
    BY <2>2 DEF AfterWrite, Submit, Resumes
  <2> QED
    BY <2>1, <2>2
<1>2. TypeOK'
  <2>1. job' \in [Calls -> [op : Ops, stage : {"queued", "begun", "done"}]]
    BY <1>1 DEF Invention, TypeOK, Job, Ops
  <2> QED
    BY <1>1, <2>1 DEF Invention, TypeOK, inputs, disk, trail
<1>3. job'[c] = Job(op, "queued") /\ \A d \in Calls \ {c} : job'[d] = job[d]
  BY <1>1 DEF Invention, TypeOK
<1>4. Shape'
  BY <1>1, <1>3 DEF Invention, Shape, inputs, disk, trail, Pending, Job, NoJob
<1>5. Owing'
  BY <1>1, <1>3 DEF Invention, TypeOK, Owing, trail, Job
<1>6. Alone'
  <2>1. \A d \in Calls : Busy(d)' => Busy(d)
    BY <1>1, <1>3 DEF Busy, Pending
  <2>2. \A d \in Calls : job'[d].stage = "begun" => job'[d] = job[d]
    BY <1>3 DEF Job
  <2> QED
    BY <1>1, <2>1, <2>2, AloneStill DEF disk
<1>7. Source'
  <2>1. ASSUME NEW d \in Calls
        PROVE  /\ job'[d].op = "keep" \/ job'[d] = Job("read", "done") => previous'[d] \in Possible'
               /\ job'[d] = Job("write", "done") \/ job'[d].op = "register" =>
                    overlapped' \/ payload'[d] \in held'
    <3>1. CASE d # c
      BY <1>1, <1>3, <3>1 DEF Invention, Source, Possible, inputs, disk
    <3>2. CASE d = c
      <4>1. op = "register" => overlapped \/ payload[c] \in held
        BY <1>1 DEF Invention, Source
      <4> QED
        BY <1>1, <1>3, <3>2, <4>1 DEF Job, inputs, disk
    <3> QED
      BY <3>1, <3>2
  <2> QED
    BY <1>1, <2>1 DEF Invention, Source, Possible, NothingIsInvented, disk, trail
<1> QED
  BY <1>2, <1>4, <1>5, <1>6, <1>7 DEF Invention

(* The entry names what was written, or could not be written.              *)
LEMMA RecordInvention ==
    ASSUME NEW c \in Calls, Invention, Record(c)
    PROVE  Invention'
<1> DEFINE e == [content |-> payload[c], kept |-> number[c], replaced |-> previous[c]]
<1>1. /\ pc[c] = "running" /\ job[c].stage = "done"
      /\ job[c] = Job("write", "done") \/ job[c].op = "register"
      /\ \/ pc' = [pc EXCEPT ![c] = "written"] /\ entries' = Append(entries, e) /\ unrecorded' = {}
         \/ pc' = [pc EXCEPT ![c] = "unlogged"] /\ UNCHANGED trail
      /\ UNCHANGED <<inputs, disk, job, previous, number, crashes, overlapped>>
  BY DEF Record, Recordable, Resumes, Job
<1>2. e \in Write /\ entries \in Seq(Write)
  BY DEF Invention, TypeOK, Write
<1>3. /\ entries' \in Seq(Write) /\ unrecorded' \subseteq unrecorded
      /\ \A i \in 1..Len(entries') :
           entries'[i] = e \/ (i \in 1..Len(entries) /\ entries'[i] = entries[i])
  <2> HIDE DEF e
  <2>1. CASE entries' = Append(entries, e) /\ unrecorded' = {}
    BY <1>2, <2>1, AppendProperties, LenProperties
  <2>2. CASE UNCHANGED trail
    BY <1>2, <2>2 DEF trail
  <2> QED
    BY <1>1, <2>1, <2>2
<1>4. TypeOK'
  <2>1. pc' \in [Calls -> Outcomes \cup {"ready", "running"}]
    BY <1>1 DEF Invention, TypeOK, Outcomes
  <2> QED
    BY <1>1, <1>3, <2>1 DEF Invention, TypeOK, inputs, disk, Write
<1>5. Shape'
  BY <1>1 DEF Invention, TypeOK, Shape, inputs, disk, Pending, Job, NoJob
<1>6. Owing'
  BY <1>1 DEF Invention, TypeOK, Owing, trail
<1>7. Alone'
  <2>1. \A d \in Calls : Busy(d)' => Busy(d)
    BY <1>1 DEF Invention, TypeOK, Busy, Pending
  <2> QED
    BY <1>1, <2>1, AloneStill DEF disk
<1>8. Source'
  <2>1. overlapped \/ payload[c] \in held
    BY <1>1 DEF Invention, Source
  <2>2. NothingIsInvented'
    BY <1>1, <1>3, <2>1 DEF Invention, Source, NothingIsInvented, Possible, disk
  <2> QED
    BY <1>1, <2>2 DEF Invention, Source, Possible, inputs, disk
<1> QED
  BY <1>4, <1>5, <1>6, <1>7, <1>8 DEF Invention

(* Threads die where they are: what that does to the disk is no invention. *)
LEMMA InterruptedInvention ==
    ASSUME Invention, NEW S, Interrupted(S), UNCHANGED <<entries, overlapped>>
    PROVE  /\ target' \in Possible' \cup {"absent"} /\ (target' = "absent" => held' = {})
           /\ NothingIsInvented' /\ Possible' = Possible
           /\ target' \in OnDisk \cup {"absent"}
           /\ versions' \in Seq(OnDisk) /\ Len(versions') = Len(versions)
           /\ target' = "absent" => target = "absent"
<1>1. /\ UNCHANGED held
      /\ target' = target \/ (overlapped /\ target' = "mixed")
      /\ versions' \in Seq(OnDisk) /\ Len(versions') = Len(versions)
      /\ \A n \in 1..Len(versions) :
           versions'[n] = versions[n] \/ (overlapped /\ versions'[n] = "mixed")
  BY InterruptedEffect
<1>2. Possible' = Possible
  BY <1>1 DEF Possible
<1>3. NothingIsInvented'
  BY <1>1, <1>2 DEF Invention, Source, NothingIsInvented, Possible
<1>4. target' \in Possible' \cup {"absent"} /\ (target' = "absent" => held' = {})
  BY <1>1, <1>2 DEF Invention, Source, Possible
<1>5. target' \in OnDisk \cup {"absent"} /\ (target' = "absent" => target = "absent")
  BY <1>1 DEF Invention, TypeOK, OnDisk
<1> QED
  BY <1>1, <1>2, <1>3, <1>4, <1>5

(* A call that fails.                                                      *)
LEMMA FailsInvention ==
    ASSUME NEW c \in Calls, Invention, Fails(c)
    PROVE  Invention'
<1>1. /\ Pending(c) /\ pc[c] \in {"running", "stopped"}
      /\ job' = [job EXCEPT ![c] = NoJob]
      /\ pc' = [pc EXCEPT ![c] = IF @ = "running" THEN "failed" ELSE @]
      /\ Interrupted({c})
      /\ UNCHANGED <<inputs, previous, number, trail, crashes, overlapped>>
  BY DEF Fails, Invention, Shape
<1>2. /\ target' \in Possible' \cup {"absent"} /\ (target' = "absent" => held' = {})
      /\ NothingIsInvented' /\ Possible' = Possible
      /\ target' \in OnDisk \cup {"absent"} /\ UNCHANGED held
      /\ versions' \in Seq(OnDisk) /\ Len(versions') = Len(versions)
      /\ target' = "absent" => target = "absent"
      /\ ~overlapped => UNCHANGED <<target, versions>>
  BY <1>1, InterruptedInvention, InterruptedEffect DEF trail, disk
<1>3. TypeOK'
  <2>1. job' \in [Calls -> [op : Ops, stage : {"queued", "begun", "done"}]]
    BY <1>1 DEF Invention, TypeOK, NoJob, Job, Ops
  <2>2. pc' \in [Calls -> Outcomes \cup {"ready", "running"}]
    BY <1>1 DEF Invention, TypeOK, Outcomes
  <2> QED
    BY <1>1, <1>2, <2>1, <2>2 DEF Invention, TypeOK, inputs, trail
<1>4. Shape' /\ Owing'
  BY <1>1, <1>2 DEF Invention, TypeOK, Shape, Owing, trail, Pending, Job, NoJob
<1>5. Alone'
  <2>1. \A d \in Calls : Busy(d)' => Busy(d)
    BY <1>1 DEF Invention, TypeOK, Busy, Pending, NoJob, Job
  <2>2. \A d \in Calls : job'[d].stage = "begun" => job'[d] = job[d]
    BY <1>1 DEF Invention, TypeOK, NoJob, Job
  <2> QED
    BY <1>1, <1>2, <2>1, <2>2, AloneStill
<1>6. Source'
  <2>1. \A d \in Calls : job'[d] \in {job[d], NoJob}
    BY <1>1 DEF Invention, TypeOK
  <2> QED
    BY <1>1, <1>2, <2>1 DEF Invention, Source, inputs, NoJob, Job
<1> QED
  BY <1>3, <1>4, <1>5, <1>6 DEF Invention

(* A call that is stopped; its thread may go on.                           *)
LEMMA CancelInvention ==
    ASSUME NEW c \in Calls, Invention, Cancel(c)
    PROVE  Invention'
<1>1. /\ job' \in [Calls -> [op : Ops, stage : {"queued", "begun", "done"}]]
      /\ \A d \in Calls : job'[d] \in {job[d], NoJob}
      /\ \A d \in Calls \ {c} : job'[d] = job[d]
      /\ pc[c] = "running" /\ (job'[c] # NoJob => Pending(c))
  <2>1. NoJob \in [op : Ops, stage : {"queued", "begun", "done"}]
    BY DEF NoJob, Job, Ops
  <2>2. CASE UNCHANGED job /\ Pending(c)
    BY <2>2 DEF Invention, TypeOK, Cancel
  <2>3. CASE job' = [job EXCEPT ![c] = NoJob]
    BY <2>1, <2>3 DEF Invention, TypeOK, Cancel
  <2> QED
    BY <2>2, <2>3 DEF Cancel
<1>2. /\ pc' = [pc EXCEPT ![c] = "stopped"]
      /\ UNCHANGED <<inputs, disk, previous, number, trail, crashes, overlapped>>
  BY DEF Cancel
<1>3. TypeOK'
  BY <1>1, <1>2 DEF Invention, TypeOK, Outcomes, inputs, disk, trail
<1>4. Shape' /\ Owing'
  BY <1>1, <1>2 DEF Invention, TypeOK, Shape, Owing, inputs, disk, trail, Pending, Job, NoJob
<1>5. Alone'
  <2>1. \A d \in Calls : Busy(d)' => Busy(d)
    BY <1>1, <1>2 DEF Invention, TypeOK, Busy, Pending
  <2>2. \A d \in Calls : job'[d].stage = "begun" => job'[d] = job[d]
    BY <1>1 DEF NoJob, Job
  <2> QED
    BY <1>2, <2>1, <2>2, AloneStill DEF disk
<1>6. Source'
  <2>1. ASSUME NEW d \in Calls
        PROVE  /\ job'[d].op = "keep" \/ job'[d] = Job("read", "done") => previous'[d] \in Possible'
               /\ job'[d] = Job("write", "done") \/ job'[d].op = "register" =>
                    overlapped' \/ payload'[d] \in held'
    <3>1. CASE job'[d] = NoJob
      BY <3>1 DEF NoJob, Job
    <3>2. CASE job'[d] = job[d]
      BY <1>2, <3>2 DEF Invention, Source, Possible, inputs, disk
    <3> QED
      BY <1>1, <3>1, <3>2
  <2> QED
    BY <1>2, <2>1 DEF Invention, Source, Possible, NothingIsInvented, disk, trail
<1> QED
  BY <1>3, <1>4, <1>5, <1>6 DEF Invention

(* A thread moving on changes only its stage.                              *)
LEMMA StageEffect ==
    ASSUME NEW c \in Calls, TypeOK, NEW x, job' = [job EXCEPT ![c].stage = x]
    PROVE  job' = [job EXCEPT ![c] = Job(job[c].op, x)]
<1>1. job[c] \in [op : Ops, stage : {"queued", "begun", "done"}]
  BY DEF TypeOK
<1>2. [job[c] EXCEPT !.stage = x] = [op |-> job[c].op, stage |-> x]
  BY <1>1
<1>3. job' = [job EXCEPT ![c] = [job[c] EXCEPT !.stage = x]]
  OBVIOUS
<1> QED
  BY <1>2, <1>3 DEF Job

(* What a thread does to the disk when it begins, by what it is asked.     *)
LEMMA BeginEffect ==
    ASSUME NEW c \in Calls, Invention, Begin(c)
    PROVE  /\ Pending(c) /\ job[c].stage = "queued"
           /\ job[c].op \in {"read", "keep", "write", "register"}
           /\ job[c].op = "read" =>
                /\ \E y \in Midway(target, Writing) : previous' = [previous EXCEPT ![c] = y]
                /\ UNCHANGED <<disk, unrecorded>>
           /\ job[c].op = "keep" => /\ Put(number[c], "torn")
                                    /\ UNCHANGED <<target, held, previous, unrecorded>>
           /\ job[c].op = "write" => /\ target' = "torn"
                                     /\ unrecorded' = unrecorded \cup {c}
                                     /\ UNCHANGED <<versions, held, previous>>
           /\ job[c].op = "register" => UNCHANGED <<disk, previous, unrecorded>>
           /\ job' = [job EXCEPT ![c] = Job(job[c].op,
                         IF job[c].op \in {"keep", "write"} THEN "begun" ELSE "done")]
           /\ UNCHANGED <<inputs, pc, number, entries, crashes, overlapped>>
<1>1. job[c].stage = "queued" /\ Pending(c)
  BY DEF Begin, Pending
<1>2. job[c].op \in {"read", "keep", "write", "register"}
  BY <1>1 DEF Invention, TypeOK, Shape, Ops
<1>3. job' = [job EXCEPT ![c] = Job(job[c].op,
                IF job[c].op \in {"keep", "write"} THEN "begun" ELSE "done")]
  <2>1. job' = [job EXCEPT ![c].stage =
                  IF job[c].op \in {"keep", "write"} THEN "begun" ELSE "done"]
    BY DEF Begin
  <2> QED
    BY <2>1, StageEffect DEF Invention
<1>4. UNCHANGED <<inputs, pc, number, entries, crashes, overlapped>>
  BY DEF Begin
<1>5. CASE job[c].op = "read"
  BY <1>1, <1>3, <1>4, <1>5 DEF Begin
<1>6. CASE job[c].op = "keep"
  BY <1>1, <1>3, <1>4, <1>6 DEF Begin
<1>7. CASE job[c].op = "write"
  BY <1>1, <1>3, <1>4, <1>7 DEF Begin
<1>8. CASE job[c].op = "register"
  BY <1>1, <1>3, <1>4, <1>8 DEF Begin
<1> QED
  BY <1>2, <1>5, <1>6, <1>7, <1>8

(* A version put in place, torn or whole, is no invention.                 *)
LEMMA PutInvention ==
    ASSUME NEW c \in Calls, Invention, job[c].op = "keep",
           NEW x \in Possible, Put(number[c], x)
    PROVE  /\ versions' \in Seq(OnDisk)
           /\ Len(versions) <= Len(versions') /\ number[c] \in 1..Len(versions')
           /\ Len(versions) \in Nat /\ Len(versions') \in Nat
           /\ versions'[number[c]] = x
           /\ \A n \in 1..Len(versions') : versions'[n] \in Possible
<1>1. /\ versions \in Seq(OnDisk) /\ Len(versions) \in Nat
      /\ x \in OnDisk /\ number[c] \in 1..(Len(versions) + 1)
  BY LenProperties DEF Invention, TypeOK, Shape, OnDisk, Possible
<1>2. /\ versions' \in Seq(OnDisk)
      /\ Len(versions') = IF number[c] = Len(versions) + 1 THEN number[c] ELSE Len(versions)
      /\ versions'[number[c]] = x
      /\ \A m \in 1..Len(versions) : m # number[c] => versions'[m] = versions[m]
  BY <1>1, PutEffect
<1>3. \A n \in 1..Len(versions) : versions[n] \in Possible
  BY DEF Invention, Source, NothingIsInvented
<1> QED
  BY <1>1, <1>2, <1>3

(* A thread begins: a write truncates, a read takes what is there.         *)
LEMMA BeginInvention ==
    ASSUME NEW c \in Calls, Invention, Begin(c)
    PROVE  Invention'
<1> DEFINE s == IF job[c].op \in {"keep", "write"} THEN "begun" ELSE "done"
<1>1. /\ job[c].op \in {"read", "keep", "write", "register"}
      /\ job[c].stage = "queued" /\ pc[c] \in {"running", "stopped"} /\ Pending(c)
      /\ job' = [job EXCEPT ![c] = Job(job[c].op, s)]
      /\ UNCHANGED <<inputs, pc, number, entries, crashes, overlapped, held>>
      /\ s \in {"begun", "done"}
      /\ s = "begun" => job[c].op \in {"keep", "write"}
      /\ s = "done" => job[c].op \in {"read", "register"}
  BY BeginEffect DEF disk, Invention, Shape
<1>2. job' \in [Calls -> [op : Ops, stage : {"queued", "begun", "done"}]]
  BY <1>1 DEF Invention, TypeOK, Job, Ops
<1>a. Possible' = Possible
  BY <1>1 DEF Possible
<1>3. /\ versions' \in Seq(OnDisk)
      /\ Len(versions) <= Len(versions')
      /\ Len(versions) \in Nat /\ Len(versions') \in Nat
      /\ \A n \in 1..Len(versions') : versions'[n] \in Possible
      /\ job[c].op = "keep" =>
           number[c] \in 1..Len(versions') /\ versions'[number[c]] = "torn"
  <2>1. CASE job[c].op = "keep"
    <3>1. "torn" \in Possible /\ Put(number[c], "torn")
      BY <2>1, BeginEffect DEF Possible
    <3> QED
      BY <2>1, <3>1, PutInvention
  <2>2. CASE job[c].op # "keep"
    <3>1. UNCHANGED versions
      BY <1>1, <2>2, BeginEffect DEF disk
    <3> QED
      BY <2>2, <3>1, LenProperties DEF Invention, TypeOK, Source, NothingIsInvented
  <2> QED
    BY <2>1, <2>2
<1>4. target' \in {target, "torn"} /\ (job[c].op = "write" => target' = "torn")
  BY <1>1, BeginEffect DEF disk
<1>b. /\ unrecorded' \subseteq unrecorded \cup {c}
      /\ c \in unrecorded' => c \in unrecorded \/ job[c].op = "write"
  BY <1>1, BeginEffect
<1>5. /\ previous' \in [Calls -> OnDisk \cup {"absent"}]
      /\ \A d \in Calls \ {c} : previous'[d] = previous[d]
      /\ job[c].op = "read" => previous'[c] \in Possible
      /\ job[c].op # "read" => UNCHANGED previous
  <2>1. CASE job[c].op = "read"
    <3>1. PICK y \in Midway(target, Writing) : previous' = [previous EXCEPT ![c] = y]
      BY <2>1, BeginEffect
    <3>2. target \in Possible
      BY <2>1 DEF Invention, Shape, Source
    <3>3. y \in Possible /\ y \in OnDisk
      BY <3>2, MidwayFile DEF Possible, OnDisk, Invention, TypeOK
    <3> QED
      BY <2>1, <3>1, <3>3 DEF Invention, TypeOK
  <2>2. CASE job[c].op # "read"
    <3>1. UNCHANGED previous
      BY <1>1, <2>2, BeginEffect
    <3> QED
      BY <2>2, <3>1 DEF Invention, TypeOK
  <2> QED
    BY <2>1, <2>2
<1> HIDE DEF s
<1>6. TypeOK'
  BY <1>1, <1>2, <1>3, <1>4, <1>5, <1>b DEF Invention, TypeOK, inputs, OnDisk
<1>7. Shape'
  BY <1>1, <1>3, <1>4 DEF Invention, TypeOK, Shape, Pending, Job, NoJob
<1>8. Owing'
  BY <1>1, <1>b DEF Invention, TypeOK, Owing, Job
<1>9. Alone'
  <2> SUFFICES ASSUME ~overlapped PROVE
          AloneAtWork' /\ \A d \in Calls : job'[d].stage = "begun" => Truncated(d)'
    BY <1>1 DEF Alone
  <2>1. job'[c] = Job(job[c].op, s) /\ \A d \in Calls \ {c} : job'[d] = job[d] /\ ~Busy(d)
    BY <1>1 DEF Invention, TypeOK, Alone, AloneAtWork, Busy
  <2>2. job'[c].stage = "begun" => Truncated(c)'
    BY <1>1, <1>3, <1>4, <2>1 DEF Truncated, Kept, Job
  <2> QED
    BY <1>1, <2>1, <2>2 DEF AloneAtWork, Busy, Pending
<1>10. Source'
  <2>1. NothingIsInvented'
    BY <1>1, <1>3, <1>a DEF Invention, Source, NothingIsInvented
  <2>2. target' \in Possible \cup {"absent"} /\ (target' = "absent" => held' = {})
    BY <1>1, <1>4 DEF Invention, Source, Possible
  <2>3. ASSUME NEW d \in Calls
        PROVE  /\ job'[d].op = "keep" \/ job'[d] = Job("read", "done") => previous'[d] \in Possible
               /\ job'[d] = Job("write", "done") \/ job'[d].op = "register" =>
                    overlapped \/ payload'[d] \in held
    <3>1. CASE d # c
      BY <1>1, <1>5, <3>1 DEF Invention, TypeOK, Source, inputs
    <3>2. CASE d = c
      <4>1. job'[c] = Job(job[c].op, s)
        BY <1>1 DEF Invention, TypeOK
      <4> QED
        BY <1>1, <1>5, <3>2, <4>1 DEF Invention, Source, inputs, Job
    <3> QED
      BY <3>1, <3>2
  <2> QED
    BY <1>1, <1>a, <2>1, <2>2, <2>3 DEF Source
<1> QED
  BY <1>6, <1>7, <1>8, <1>9, <1>10 DEF Invention

(* What a thread leaves when it ends: where calls have not met, its        *)
(* content.                                                                *)
LEMMA FilledEffect ==
    ASSUME NEW x, NEW content, NEW y \in Filled(x, content), ~overlapped => x = "torn"
    PROVE  /\ y \in {x, content, "mixed"}
           /\ ~overlapped => y = content
           /\ y = "mixed" => overlapped \/ content = "mixed"
BY DEF Filled

(* A thread ends: what it wrote is whole, unless calls have met.           *)
LEMMA FillInvention ==
    ASSUME NEW c \in Calls, Invention, Fill(c)
    PROVE  Invention'
<1>1. /\ job[c].op \in {"keep", "write"} /\ job[c].stage = "begun"
      /\ pc[c] \in {"running", "stopped"} /\ Pending(c)
      /\ job' = [job EXCEPT ![c] = Job(job[c].op, "done")]
      /\ UNCHANGED <<inputs, pc, previous, number, trail, crashes, overlapped>>
  <2>1. job' = [job EXCEPT ![c].stage = "done"]
    BY DEF Fill
  <2>2. job' = [job EXCEPT ![c] = Job(job[c].op, "done")]
    BY <2>1, StageEffect DEF Invention
  <2> QED
    BY <2>2 DEF Invention, Shape, Pending, Fill
<1>2. job' \in [Calls -> [op : Ops, stage : {"queued", "begun", "done"}]]
  BY <1>1 DEF Invention, TypeOK, Job, Ops
<1>a. ~overlapped => Truncated(c)
  BY <1>1 DEF Invention, Alone
<1>3. /\ versions' \in Seq(OnDisk)
      /\ Len(versions) <= Len(versions')
      /\ Len(versions) \in Nat /\ Len(versions') \in Nat
      /\ \A n \in 1..Len(versions') : versions'[n] \in Possible
  <2>1. CASE job[c].op = "keep"
    <3>1. PICK x \in Filled(versions[number[c]], previous[c]) : Put(number[c], x)
      BY <2>1 DEF Fill
    <3>2. /\ ~overlapped => versions[number[c]] = "torn"
          /\ previous[c] \in Possible /\ versions[number[c]] \in Possible
      <4>1. job[c] = Job("keep", "begun")
        BY <1>1, <2>1 DEF Invention, TypeOK, Job
      <4>2. number[c] \in 1..Len(versions)
        BY <4>1 DEF Invention, Shape
      <4> QED
        BY <1>a, <2>1, <4>2 DEF Truncated, Kept, Invention, Source, NothingIsInvented
    <3>3. x \in Possible
      BY <3>2, FilledEffect DEF Possible
    <3> QED
      BY <2>1, <3>1, <3>3, PutInvention
  <2>2. CASE job[c].op # "keep"
    <3>1. UNCHANGED versions
      BY <2>2 DEF Fill
    <3> QED
      BY <3>1, LenProperties DEF Invention, TypeOK, Source, NothingIsInvented
  <2> QED
    BY <2>1, <2>2
<1>4. /\ held \subseteq held' /\ held' \subseteq Contents
      /\ target' \in Possible' \cup {"absent"}
      /\ target' = "absent" => target = "absent" /\ held' = {}
      /\ job[c].op = "write" => overlapped \/ payload[c] \in held'
      /\ target' \in OnDisk \cup {"absent"}
  <2>1. CASE job[c].op = "keep"
    <3>1. UNCHANGED <<target, held>>
      BY <2>1 DEF Fill
    <3> QED
      BY <1>1, <2>1, <3>1 DEF Invention, TypeOK, Source, Possible
  <2>2. CASE job[c].op = "write"
    <3>1. /\ target' \in Filled(target, payload[c])
          /\ held' = held \cup ({target'} \cap Contents)
      BY <2>2 DEF Fill
    <3>2. /\ target' \in {target, payload[c], "mixed"}
          /\ ~overlapped => target' = payload[c]
      BY <1>a, <2>2, <3>1, FilledEffect DEF Truncated
    <3>3. payload[c] \in Contents /\ target \in Possible \cup {"absent"}
          /\ target \in OnDisk \cup {"absent"} /\ held \subseteq Contents
      BY DEF Invention, TypeOK, Source
    <3>4. held \subseteq held' /\ held' \subseteq Contents
      BY <3>1, <3>3
    <3>5. target' \in Possible' \cup {"absent"}
      BY <1>1, <3>1, <3>2, <3>3 DEF Possible
    <3>6. ASSUME target' = "absent" PROVE target = "absent" /\ held' = {}
      <4>1. target = "absent"
        BY <3>2, <3>3, <3>6, ContentsAssumption
      <4> QED
        BY <3>1, <3>6, <4>1, ContentsAssumption DEF Invention, Source
    <3>7. overlapped \/ payload[c] \in held'
      BY <3>1, <3>2, <3>3
    <3>8. target' \in OnDisk \cup {"absent"}
      BY <3>2, <3>3 DEF OnDisk
    <3> QED
      BY <3>4, <3>5, <3>6, <3>7, <3>8
  <2> QED
    BY <1>1, <2>1, <2>2
<1>b. Possible \subseteq Possible'
  BY <1>1, <1>4 DEF Possible
<1>5. TypeOK'
  BY <1>1, <1>2, <1>3, <1>4 DEF Invention, TypeOK, inputs, trail
<1>6. Shape' /\ Owing'
  BY <1>1, <1>3, <1>4 DEF Invention, TypeOK, Shape, Owing, Pending, Job, NoJob, trail
<1>7. Alone'
  <2> SUFFICES ASSUME ~overlapped PROVE
          AloneAtWork' /\ \A d \in Calls : job'[d].stage = "begun" => Truncated(d)'
    BY <1>1 DEF Alone
  <2>1. job'[c].stage = "done" /\ \A d \in Calls \ {c} : job'[d] = job[d] /\ ~Busy(d)
    BY <1>1 DEF Invention, TypeOK, Alone, AloneAtWork, Busy, Job
  <2> QED
    BY <1>1, <2>1 DEF AloneAtWork, Busy, Pending
<1>8. Source'
  <2>1. NothingIsInvented'
    BY <1>1, <1>3, <1>4, <1>b DEF Invention, Source, NothingIsInvented, trail
  <2>3. ASSUME NEW d \in Calls
        PROVE  /\ job'[d].op = "keep" \/ job'[d] = Job("read", "done") => previous'[d] \in Possible
               /\ job'[d] = Job("write", "done") \/ job'[d].op = "register" =>
                    overlapped \/ payload'[d] \in held'
    <3>1. CASE d # c
      BY <1>1, <1>4, <3>1 DEF Invention, TypeOK, Source, inputs
    <3>2. CASE d = c
      <4>1. job'[c] = Job(job[c].op, "done")
        BY <1>1 DEF Invention, TypeOK
      <4> QED
        BY <1>1, <1>4, <3>2, <4>1 DEF Invention, Source, inputs, Job
    <3> QED
      BY <3>1, <3>2
  <2> QED
    BY <1>1, <1>4, <1>b, <2>1, <2>3 DEF Source
<1> QED
  BY <1>5, <1>6, <1>7, <1>8 DEF Invention

(* The process dies with all calls and threads.                            *)
LEMMA CrashInvention ==
    ASSUME Invention, Crash
    PROVE  Invention'
<1>1. \A c \in Calls :
        /\ job'[c] = NoJob
        /\ pc'[c] = IF pc[c] = "running" THEN "stopped" ELSE pc[c]
  BY DEF Crash, Invention, TypeOK
<1>0. Interrupted(Calls) /\ UNCHANGED <<inputs, previous, number, trail, overlapped>>
  BY DEF Crash
<1>a. /\ target' \in Possible' \cup {"absent"} /\ (target' = "absent" => held' = {})
      /\ NothingIsInvented' /\ target' \in OnDisk \cup {"absent"}
      /\ versions' \in Seq(OnDisk) /\ UNCHANGED held
      /\ ~overlapped => UNCHANGED <<target, versions>>
  BY <1>0, InterruptedInvention, InterruptedEffect DEF trail, disk
<1>2. TypeOK'
  <2>1. job' \in [Calls -> [op : Ops, stage : {"queued", "begun", "done"}]]
    BY DEF Crash, NoJob, Job, Ops
  <2>2. pc' \in [Calls -> Outcomes \cup {"ready", "running"}]
    BY DEF Crash, Invention, TypeOK, Outcomes
  <2>3. crashes' \in 0..MaxCrashes
    BY CrashesAssumption DEF Crash, Invention, TypeOK
  <2> QED
    BY <1>0, <1>a, <2>1, <2>2, <2>3 DEF Invention, TypeOK, inputs, trail
<1>3. Shape' /\ Owing'
  BY <1>0, <1>1 DEF Invention, TypeOK, Shape, Owing, Pending, NoJob, Job, trail
<1>4. Alone'
  BY <1>0, <1>1, <1>a, AloneStill DEF NoJob, Job, Busy, Pending
<1>5. Source'
  BY <1>1, <1>a DEF Source, NoJob, Job
<1> QED
  BY <1>2, <1>3, <1>4, <1>5 DEF Invention

(* Every step keeps the invariant.                                         *)
LEMMA StepInvention == Invention /\ [Next]_vars => Invention'
<1> SUFFICES ASSUME Invention, [Next]_vars PROVE Invention'
  OBVIOUS
<1>1. ASSUME NEW c \in Calls,
             \/ Refuse(c) \/ Start(c) \/ AfterRead(c) \/ AfterKeep(c)
             \/ AfterWrite(c) \/ Record(c) \/ Begin(c) \/ Fill(c) \/ Fails(c) \/ Cancel(c)
      PROVE  Invention'
  BY <1>1, RefuseInvention, StartInvention, AfterReadInvention, NextJobInvention,
     RecordInvention, BeginInvention, FillInvention,
     FailsInvention, CancelInvention
<1>2. CASE Crash
  BY <1>2, CrashInvention
<1>3. CASE UNCHANGED vars
  BY <1>3 DEF Invention, TypeOK, Shape, Owing, Alone, AloneAtWork, Truncated, Kept, Source,
              Possible, NothingIsInvented, Busy, Pending, vars, inputs, disk, locals, trail
<1> QED
  BY <1>1, <1>2, <1>3 DEF Next

(* The states of the model are of the types it names.                      *)
THEOREM FilesTypes == Spec => []TypeOK
<1>1. Invention => TypeOK
  BY DEF Invention
<1> QED
  BY <1>1, InitInvention, StepInvention, PTL DEF Spec

(* However the calls meet, fail, are stopped or die with the process, what *)
(* .versions keeps is a content the file once held, a write cut short or,  *)
(* only after calls met, a mixture; and unless calls met, an entry of the  *)
(* trail names a content the file held.                                    *)
THEOREM InventsNothing == Spec => []NothingIsInvented
<1>1. Invention => NothingIsInvented
  BY DEF Invention, Source
<1> QED
  BY <1>1, InitInvention, StepInvention, PTL DEF Spec

-----------------------------------------------------------------------------
(* The calls in order *)

(* What InOrder says of a step of the one busy call.                       *)
LEMMA OneAtWork ==
    ASSUME InOrder, Orderly, NEW c \in Calls, Busy(c),
           \A d \in Calls \ {c} : pc'[d] = pc[d] /\ job'[d] = job[d]
    PROVE  Stands(c) /\ \A d \in Calls : Busy(d)' => d = c
BY DEF InOrder, AloneAtWork, Busy, Pending

(* The invariant, from the one call that may be at work.                   *)
LEMMA OrderIsKept ==
    ASSUME NEW c \in Calls, \A d \in Calls : Busy(d)' => d = c,
           Busy(c)' => Stands(c)',
           OrderlyVersionsAreKept', KeptIsWhatWasReplaced', LastWrite'
    PROVE  InOrder'
BY DEF InOrder, AloneAtWork

(* While the disk is left alone, the versions on it are.                   *)
LEMMA DiskStill ==
    ASSUME InOrder, Orderly, UNCHANGED <<disk, trail>>
    PROVE  OrderlyVersionsAreKept' /\ KeptIsWhatWasReplaced' /\ LastWrite'
BY DEF InOrder, OrderlyVersionsAreKept, KeptIsWhatWasReplaced, LastWrite, Found, disk, trail

(* A call that is refused.                                                 *)
LEMMA RefuseOrder ==
    ASSUME NEW c \in Calls, Invention, InOrder, Orderly, Refuse(c)
    PROVE  InOrder'
<1>1. /\ pc[c] = "ready" /\ pc'[c] = "refused" /\ job[c].stage = "done"
      /\ \A d \in Calls \ {c} : pc'[d] = pc[d]
      /\ UNCHANGED <<inputs, disk, job, previous, number, trail, crashes, overlapped>>
  BY DEF Refuse, Invention, TypeOK, Shape, NoJob, Job
<1>2. AloneAtWork' /\ \A d \in Calls : Busy(d)' => Busy(d) /\ d # c
  BY <1>1 DEF InOrder, AloneAtWork, Busy, Pending
<1>3. ASSUME NEW d \in Calls, Busy(d)' PROVE Stands(d)'
  <2>1. Stands(d)
    BY <1>2, <1>3 DEF InOrder
  <2> QED
    BY <1>1, <1>2, <1>3, <2>1 DEF Stands, Kept, disk, inputs, trail
<1> QED
  BY <1>1, <1>2, <1>3, DiskStill DEF InOrder

(* A call that starts while no other is at work.                           *)
LEMMA StartOrder ==
    ASSUME NEW c \in Calls, Invention, InOrder, Orderly, Start(c), ~overlapped'
    PROVE  InOrder'
<1>1. /\ pc[c] = "ready" /\ pc'[c] = "running" /\ number[c] = 0
      /\ \A d \in Calls \ {c} : pc'[d] = pc[d] /\ job'[d] = job[d] /\ ~Busy(d)
      /\ UNCHANGED <<inputs, disk, trail, crashes>>
  BY DEF Start, Keep, Submit, Invention, TypeOK, Shape
<1>2. \A d \in Calls : Busy(d)' => d = c
  BY <1>1 DEF Busy, Pending
<1>3. Stands(c)'
  <2>1. CASE target = "absent"
    <3>1. job'[c] = Job("write", "queued") /\ number'[c] = 0 /\ held' = {}
      BY <1>1, <2>1 DEF Start, Submit, Invention, TypeOK, Source, disk
    <3> QED
      BY <3>1 DEF Stands, Job
  <2>2. CASE target # "absent" /\ tool = "write_file"
    <3>1. job'[c] = Job("read", "queued")
      BY <2>2 DEF Start, Submit, Invention, TypeOK
    <3> QED
      BY <3>1 DEF Stands, Job
  <2>3. CASE target # "absent" /\ tool # "write_file"
    <3>1. PICK y \in Midway(target, Writing) : Keep(c, y)
      BY <2>3 DEF Start
    <3>2. y = target
      BY MidwayFile DEF Orderly
    <3>3. /\ job'[c] = Job("keep", "queued") /\ previous'[c] = target
          /\ number'[c] = Len(versions) + 1
      BY <3>1, <3>2 DEF Keep, Submit, Number, Orderly, Invention, TypeOK
    <3> QED
      BY <1>1, <3>3 DEF Stands, Job, disk
  <2> QED
    BY <2>1, <2>2, <2>3
<1> QED
  BY <1>1, <1>2, <1>3, DiskStill, OrderIsKept

(* What was read is kept next, or replaced at once.                        *)
LEMMA AfterReadOrder ==
    ASSUME NEW c \in Calls, Invention, InOrder, Orderly, AfterRead(c)
    PROVE  InOrder'
<1>1. /\ pc[c] = "running" /\ job[c] = Job("read", "done") /\ Busy(c)
      /\ \A d \in Calls \ {c} : pc'[d] = pc[d] /\ job'[d] = job[d]
      /\ UNCHANGED <<inputs, disk, trail, crashes, overlapped>>
  BY DEF AfterRead, Resumes, Keep, Submit, Invention, TypeOK, Busy
<1>2. Stands(c) /\ \A d \in Calls : Busy(d)' => d = c
  BY <1>1, OneAtWork
<1>3. ASSUME Busy(c)' PROVE Stands(c)'
  <2>1. CASE previous[c] = payload[c]
    <3>1. pc'[c] = "unchanged" /\ job'[c] = job[c]
      BY <2>1 DEF AfterRead, Invention, TypeOK
    <3> QED
      BY <1>1, <1>3, <3>1 DEF Busy, Pending, Job
  <2>2. CASE previous[c] # payload[c]
    <3>1. /\ job'[c] = Job("keep", "queued") /\ previous'[c] = previous[c]
          /\ number'[c] = Len(versions) + 1
      BY <2>2 DEF AfterRead, Keep, Submit, Number, Orderly, Invention, TypeOK
    <3>2. previous[c] = target
      BY <1>1, <1>2 DEF Stands
    <3> QED
      BY <1>1, <3>1, <3>2 DEF Stands, Job, disk
  <2> QED
    BY <2>1, <2>2
<1> QED
  BY <1>1, <1>2, <1>3, DiskStill, OrderIsKept

(* The version is kept; the write comes next.                              *)
LEMMA AfterKeepOrder ==
    ASSUME NEW c \in Calls, Invention, InOrder, Orderly, AfterKeep(c)
    PROVE  InOrder'
<1>1. /\ pc[c] = "running" /\ job[c] = Job("keep", "done") /\ Busy(c)
      /\ job'[c] = Job("write", "queued")
      /\ \A d \in Calls \ {c} : pc'[d] = pc[d] /\ job'[d] = job[d]
      /\ UNCHANGED <<inputs, disk, pc, previous, number, trail, crashes, overlapped>>
  BY DEF AfterKeep, Resumes, Submit, Invention, TypeOK, Busy
<1>2. Stands(c) /\ \A d \in Calls : Busy(d)' => d = c
  BY <1>1, OneAtWork
<1>3. Stands(c)'
  <2>1. /\ number[c] \in 1..Len(versions)
        /\ versions[number[c]] = target
        /\ Kept(number[c], previous[c])
    <3>1. number[c] \in 1..(Len(versions) + 1) /\ Len(versions) \in Nat
      BY <1>1, LenProperties DEF Invention, TypeOK, Shape, Job
    <3>2. previous[c] = target /\ Kept(number[c], previous[c])
      BY <1>1, <1>2 DEF Stands, Job
    <3> QED
      BY <3>1, <3>2 DEF Kept
  <2>2. \A x \in held : \E n \in 1..Len(versions) : versions[n] = x
    BY <2>1 DEF InOrder, OrderlyVersionsAreKept, Found
  <2> QED
    BY <1>1, <2>1, <2>2 DEF Stands, Kept, Job, disk
<1> QED
  BY <1>1, <1>2, <1>3, DiskStill, OrderIsKept

(* The file is written; the entry comes next.                              *)
LEMMA AfterWriteOrder ==
    ASSUME NEW c \in Calls, Invention, InOrder, Orderly, AfterWrite(c)
    PROVE  InOrder'
<1>1. /\ pc[c] = "running" /\ job[c] = Job("write", "done") /\ Busy(c)
      /\ job'[c] = Job("register", "queued")
      /\ \A d \in Calls \ {c} : pc'[d] = pc[d] /\ job'[d] = job[d]
      /\ UNCHANGED <<inputs, disk, pc, previous, number, trail, crashes, overlapped>>
  BY DEF AfterWrite, Resumes, Submit, Invention, TypeOK, Busy
<1>2. Stands(c) /\ \A d \in Calls : Busy(d)' => d = c
  BY <1>1, OneAtWork
<1>3. Stands(c)'
  BY <1>1, <1>2 DEF Stands, Kept, Job, disk, inputs, trail
<1> QED
  BY <1>1, <1>2, <1>3, DiskStill, OrderIsKept

(* The entry names the version that holds what was replaced.               *)
LEMMA RecordOrder ==
    ASSUME NEW c \in Calls, Invention, InOrder, Orderly, Record(c)
    PROVE  InOrder'
<1> DEFINE e == [content |-> payload[c], kept |-> number[c], replaced |-> previous[c]]
<1>1. /\ pc[c] = "running" /\ Busy(c)
      /\ job[c] = Job("register", "done") \/ job[c] = Job("write", "done")
      /\ \/ pc'[c] = "written" /\ entries' = Append(entries, e) /\ unrecorded' = {}
         \/ pc'[c] = "unlogged" /\ UNCHANGED trail
      /\ \A d \in Calls \ {c} : pc'[d] = pc[d] /\ job'[d] = job[d]
      /\ UNCHANGED <<inputs, disk, job, previous, number, crashes, overlapped>>
  BY DEF Record, Recordable, Resumes, Invention, TypeOK, Busy
<1>2. Stands(c) /\ \A d \in Calls : Busy(d)' => d = c
  BY <1>1, OneAtWork
<1>3. ~Busy(c)'
  BY <1>1 DEF Busy, Pending, Job
<1>4. target = payload[c] /\ (number[c] > 0 => Kept(number[c], previous[c]))
  BY <1>1, <1>2 DEF Stands, Job
<1>a. CASE UNCHANGED trail
  BY <1>1, <1>2, <1>3, <1>a, DiskStill, OrderIsKept
<1> SUFFICES ASSUME entries' = Append(entries, e), unrecorded' = {} PROVE InOrder'
  BY <1>1, <1>a
<1>5. e \in Write /\ entries \in Seq(Write)
  BY DEF Invention, TypeOK, Write
<1>6. /\ Len(entries) \in Nat /\ Len(entries') = Len(entries) + 1
      /\ entries'[Len(entries')] = e
      /\ \A i \in 1..Len(entries) : entries'[i] = entries[i]
  BY <1>5, AppendProperties, LenProperties
<1>7. OrderlyVersionsAreKept'
  BY <1>1 DEF InOrder, OrderlyVersionsAreKept, Found, disk
<1>8. KeptIsWhatWasReplaced'
  <2> SUFFICES ASSUME NEW i \in 1..Len(entries'), entries'[i].kept > 0
               PROVE  /\ entries'[i].kept <= Len(versions)
                      /\ versions[entries'[i].kept] = entries'[i].replaced
    BY <1>1 DEF KeptIsWhatWasReplaced, disk
  <2>1. CASE i \in 1..Len(entries)
    BY <1>6, <2>1 DEF InOrder, KeptIsWhatWasReplaced
  <2>2. CASE i = Len(entries')
    BY <1>4, <1>6, <2>2 DEF Kept
  <2> QED
    BY <1>6, <2>1, <2>2
<1>9. LastWrite'
  BY <1>1, <1>4, <1>6 DEF LastWrite, disk
<1> QED
  BY <1>2, <1>3, <1>7, <1>8, <1>9, OrderIsKept

(* A call that fails.                                                      *)
LEMMA FailsOrder ==
    ASSUME NEW c \in Calls, Invention, InOrder, Orderly, Fails(c)
    PROVE  InOrder'
<1>1. /\ Busy(c) /\ ~Busy(c)' /\ pc'[c] \in {"failed", "stopped"}
      /\ \A d \in Calls \ {c} : pc'[d] = pc[d] /\ job'[d] = job[d]
      /\ UNCHANGED <<disk, trail>>
  BY InterruptedEffect DEF Fails, Orderly, Invention, TypeOK, Shape, Busy, Pending, NoJob, Job
<1>2. \A d \in Calls : Busy(d)' => d = c
  BY <1>1, OneAtWork
<1> QED
  BY <1>1, <1>2, DiskStill, OrderIsKept

(* A call that is stopped.                                                 *)
LEMMA CancelOrder ==
    ASSUME NEW c \in Calls, Invention, InOrder, Orderly, Cancel(c)
    PROVE  InOrder'
<1>1. /\ Busy(c) /\ pc'[c] = "stopped" /\ job'[c] \in {job[c], NoJob}
      /\ \A d \in Calls \ {c} : pc'[d] = pc[d] /\ job'[d] = job[d]
      /\ UNCHANGED <<inputs, disk, previous, number, trail, overlapped>>
  BY DEF Cancel, Invention, TypeOK, Busy
<1>2. Stands(c) /\ \A d \in Calls : Busy(d)' => d = c
  BY <1>1, OneAtWork
<1>3. ASSUME Busy(c)' PROVE Stands(c)'
  <2>1. job'[c] = job[c]
    BY <1>1, <1>3 DEF Busy, Pending, NoJob, Job
  <2> QED
    BY <1>1, <1>2, <2>1 DEF Stands, Kept, disk, inputs, trail
<1> QED
  BY <1>1, <1>2, <1>3, DiskStill, OrderIsKept

(* The process dies.                                                       *)
LEMMA CrashOrder ==
    ASSUME Invention, InOrder, Orderly, Crash
    PROVE  InOrder'
<1>1. /\ \A d \in Calls : ~Busy(d)' /\ job'[d] = NoJob
      /\ \A d \in Calls : pc'[d] = IF pc[d] = "running" THEN "stopped" ELSE pc[d]
      /\ UNCHANGED <<disk, trail>>
  BY InterruptedEffect DEF Crash, Orderly, Busy, Pending, NoJob, Job
<1> QED
  BY <1>1, DiskStill DEF InOrder, AloneAtWork

(* An entry names a version by its number.                                 *)
LEMMA KeptNumbers ==
    ASSUME Invention, NEW i \in 1..Len(entries)
    PROVE  entries[i].kept \in Nat
<1>1. entries \in Seq(Write)
  BY DEF Invention, TypeOK, Write
<1>2. entries[i] \in Write
  BY <1>1, ElementOfSeq
<1> QED
  BY <1>2 DEF Write

(* A thread begins on the file the others left.                            *)
LEMMA BeginOrder ==
    ASSUME NEW c \in Calls, Invention, InOrder, Orderly, Begin(c)
    PROVE  InOrder'
<1>1. /\ Busy(c) /\ job[c].stage = "queued" /\ pc[c] \in {"running", "stopped"}
      /\ job[c].op \in {"read", "keep", "write", "register"}
      /\ job'[c] = Job(job[c].op,
                       IF job[c].op \in {"keep", "write"} THEN "begun" ELSE "done")
      /\ \A d \in Calls \ {c} : pc'[d] = pc[d] /\ job'[d] = job[d]
      /\ UNCHANGED <<inputs, pc, number, entries, crashes, overlapped>>
  <2>1. /\ Pending(c) /\ job[c].stage = "queued"
        /\ job[c].op \in {"read", "keep", "write", "register"}
        /\ job' = [job EXCEPT ![c] = Job(job[c].op,
                      IF job[c].op \in {"keep", "write"} THEN "begun" ELSE "done")]
        /\ UNCHANGED <<inputs, pc, number, entries, crashes, overlapped>>
    BY BeginEffect
  <2> QED
    BY <2>1 DEF Invention, TypeOK, Shape, Busy
<1>2. Stands(c) /\ \A d \in Calls : Busy(d)' => d = c
  BY <1>1, OneAtWork
<1>3. job[c] = Job(job[c].op, "queued")
  BY <1>1 DEF Invention, TypeOK, Job
<1>4. CASE job[c].op = "read"
  <2>1. /\ previous'[c] = target /\ job'[c] = Job("read", "done")
        /\ UNCHANGED <<disk, trail>>
    BY <1>1, <1>4, BeginEffect, MidwayFile DEF Orderly, Invention, TypeOK, trail
  <2>2. Stands(c)'
    BY <2>1 DEF Stands, Job, disk
  <2> QED
    BY <1>1, <1>2, <2>1, <2>2, DiskStill, OrderIsKept
<1>5. CASE job[c].op = "keep"
  <2>1. /\ Put(number[c], "torn") /\ job'[c] = Job("keep", "begun")
        /\ UNCHANGED <<target, held, previous, unrecorded>>
    BY <1>1, <1>5, BeginEffect
  <2>2. number[c] = Len(versions) + 1 /\ previous[c] = target
    BY <1>2, <1>3, <1>5 DEF Stands
  <2>3. /\ Len(versions) \in Nat /\ Len(versions') = number[c]
        /\ versions'[number[c]] = "torn"
        /\ \A n \in 1..Len(versions) : versions'[n] = versions[n]
    <3>1. versions \in Seq(OnDisk) /\ "torn" \in OnDisk /\ Len(versions) \in Nat
      BY LenProperties DEF Invention, TypeOK, OnDisk
    <3>2. number[c] \in 1..(Len(versions) + 1)
      BY <2>2, <3>1
    <3>3. /\ Len(versions') = IF number[c] = Len(versions) + 1 THEN number[c] ELSE Len(versions)
          /\ versions'[number[c]] = "torn"
          /\ \A m \in 1..Len(versions) : m # number[c] => versions'[m] = versions[m]
      BY <2>1, <3>1, <3>2, PutEffect
    <3> QED
      BY <2>2, <3>1, <3>3
  <2>4. \A i \in 1..Len(entries) : entries[i].kept \in 0..Len(versions)
    <3>1. \A i \in 1..Len(entries) : entries[i].kept \in Nat
      BY KeptNumbers
    <3> QED
      BY <2>3, <3>1 DEF InOrder, KeptIsWhatWasReplaced
  <2>5. Stands(c)'
    BY <1>1, <2>1, <2>2, <2>3, <2>4 DEF Stands, Job
  <2>6. OrderlyVersionsAreKept'
    BY <2>1, <2>2, <2>3 DEF InOrder, OrderlyVersionsAreKept, Found
  <2>7. KeptIsWhatWasReplaced'
    <3> SUFFICES ASSUME NEW i \in 1..Len(entries), entries[i].kept > 0
                 PROVE  /\ entries[i].kept <= Len(versions')
                        /\ versions'[entries[i].kept] = entries[i].replaced
      BY <1>1 DEF KeptIsWhatWasReplaced
    <3> QED
      BY <2>2, <2>3, <2>4 DEF InOrder, KeptIsWhatWasReplaced
  <2>8. LastWrite'
    BY <1>1, <2>1 DEF InOrder, LastWrite
  <2> QED
    BY <1>2, <2>5, <2>6, <2>7, <2>8, OrderIsKept
<1>6. CASE job[c].op = "write"
  <2>1. /\ target' = "torn" /\ job'[c] = Job("write", "begun")
        /\ unrecorded' = unrecorded \cup {c}
        /\ UNCHANGED <<versions, held, previous>>
    BY <1>1, <1>6, BeginEffect
  <2>2. \A x \in held : \E n \in 1..Len(versions) : versions[n] = x
    BY <1>1, <1>2, <1>6 DEF Stands
  <2>3. Stands(c)'
    BY <1>1, <1>2, <1>6, <2>1, <2>2 DEF Stands, Kept, Job
  <2>4. OrderlyVersionsAreKept'
    BY <2>1, <2>2 DEF OrderlyVersionsAreKept, Found
  <2>5. KeptIsWhatWasReplaced'
    BY <1>1, <2>1 DEF InOrder, KeptIsWhatWasReplaced
  <2>6. LastWrite'
    BY <2>1 DEF LastWrite
  <2> QED
    BY <1>2, <2>3, <2>4, <2>5, <2>6, OrderIsKept
<1>7. CASE job[c].op = "register"
  <2>1. job'[c] = Job("register", "done") /\ UNCHANGED <<disk, previous, trail>>
    BY <1>1, <1>7, BeginEffect DEF trail
  <2>2. Stands(c)'
    BY <1>1, <1>2, <1>7, <2>1 DEF Stands, Kept, Job, disk, inputs, trail
  <2> QED
    BY <1>1, <1>2, <2>1, <2>2, DiskStill, OrderIsKept
<1> QED
  BY <1>1, <1>4, <1>5, <1>6, <1>7

(* A thread ends, and its content is the file or a version.                *)
LEMMA FillOrder ==
    ASSUME NEW c \in Calls, Invention, InOrder, Orderly, Fill(c)
    PROVE  InOrder'
<1>1. /\ Busy(c) /\ job[c].stage = "begun" /\ pc[c] \in {"running", "stopped"}
      /\ job[c].op \in {"keep", "write"}
      /\ job'[c] = Job(job[c].op, "done")
      /\ \A d \in Calls \ {c} : pc'[d] = pc[d] /\ job'[d] = job[d]
      /\ UNCHANGED <<inputs, pc, previous, number, trail, crashes, overlapped>>
  <2>1. job' = [job EXCEPT ![c].stage = "done"]
    BY DEF Fill
  <2>2. job' = [job EXCEPT ![c] = Job(job[c].op, "done")]
    BY <2>1, StageEffect DEF Invention
  <2> QED
    BY <2>2 DEF Invention, TypeOK, Shape, Busy, Pending, Fill
<1>2. Stands(c) /\ \A d \in Calls : Busy(d)' => d = c
  BY <1>1, OneAtWork
<1>3. job[c] = Job(job[c].op, "begun")
  BY <1>1 DEF Invention, TypeOK, Job
<1>4. CASE job[c].op = "keep"
  <2>0. versions[number[c]] = "torn"
    BY <1>2, <1>3, <1>4 DEF Stands
  <2>1. Put(number[c], previous[c]) /\ UNCHANGED <<target, held>>
    BY <1>4, <2>0 DEF Fill, Filled
  <2>2. /\ number[c] = Len(versions) /\ previous[c] = target
        /\ versions[number[c]] = "torn"
        /\ \A i \in 1..Len(entries) : entries[i].kept < number[c]
    BY <1>2, <1>3, <1>4 DEF Stands
  <2>3. /\ Len(versions) \in Nat /\ Len(versions') = Len(versions)
        /\ number[c] \in 1..Len(versions)
        /\ versions'[number[c]] = target
        /\ \A n \in 1..Len(versions) : n # number[c] => versions'[n] = versions[n]
    <3>1. versions \in Seq(OnDisk) /\ Len(versions) \in Nat
      BY LenProperties DEF Invention, TypeOK
    <3>2. number[c] \in 1..(Len(versions) + 1) /\ previous[c] \in OnDisk
      BY <1>4 DEF Invention, TypeOK, Shape, Source, Possible, OnDisk
    <3>3. /\ Len(versions') = IF number[c] = Len(versions) + 1 THEN number[c] ELSE Len(versions)
          /\ versions'[number[c]] = previous[c]
          /\ \A m \in 1..Len(versions) : m # number[c] => versions'[m] = versions[m]
      BY <2>1, <3>1, <3>2, PutEffect
    <3> QED
      BY <2>2, <3>1, <3>2, <3>3
  <2>4. Stands(c)'
    BY <1>1, <1>4, <2>1, <2>2, <2>3 DEF Stands, Kept, Job
  <2>5. OrderlyVersionsAreKept'
    <3> SUFFICES ASSUME NEW x \in held, x # target
                 PROVE  \E n \in 1..Len(versions') : versions'[n] = x
      BY <2>1 DEF OrderlyVersionsAreKept, Found
    <3>1. PICK n \in 1..Len(versions) : versions[n] = x
      BY DEF InOrder, OrderlyVersionsAreKept, Found
    <3>2. CASE n = number[c]
      BY <2>2, <3>1, <3>2, ContentsAssumption DEF Invention, TypeOK
    <3>3. CASE n # number[c]
      BY <2>3, <3>1, <3>3
    <3> QED
      BY <3>2, <3>3
  <2>6. KeptIsWhatWasReplaced'
    <3> SUFFICES ASSUME NEW i \in 1..Len(entries), entries[i].kept > 0
                 PROVE  /\ entries[i].kept <= Len(versions')
                        /\ versions'[entries[i].kept] = entries[i].replaced
      BY <1>1 DEF KeptIsWhatWasReplaced, trail
    <3>1. entries[i].kept \in Nat
      BY KeptNumbers
    <3> QED
      BY <2>2, <2>3, <3>1 DEF InOrder, KeptIsWhatWasReplaced
  <2>7. LastWrite'
    BY <1>1, <2>1 DEF InOrder, LastWrite, trail
  <2> QED
    BY <1>2, <2>4, <2>5, <2>6, <2>7, OrderIsKept
<1>5. CASE job[c].op = "write"
  <2>1. /\ target' = payload[c] /\ held' = held \cup {payload[c]}
        /\ UNCHANGED versions /\ job'[c] = Job("write", "done")
    <3>1. target = "torn" /\ payload[c] \in Contents
      BY <1>1, <1>5 DEF Invention, TypeOK, Alone, Orderly, Truncated
    <3> QED
      BY <1>1, <1>5, <3>1 DEF Fill, Filled
  <2>a. c \in unrecorded
    BY <1>1, <1>2, <1>5 DEF Stands
  <2>2. Stands(c)'
    BY <1>1, <1>2, <1>5, <2>1, <2>a DEF Stands, Kept, Job, inputs, trail
  <2>3. OrderlyVersionsAreKept'
    <3>1. \A x \in held : \E n \in 1..Len(versions) : versions[n] = x
      BY <1>1, <1>2, <1>5 DEF Stands
    <3> QED
      BY <2>1, <3>1 DEF OrderlyVersionsAreKept, Found
  <2>4. KeptIsWhatWasReplaced'
    BY <1>1, <2>1 DEF InOrder, KeptIsWhatWasReplaced, trail
  <2>5. LastWrite'
    BY <1>1, <2>a DEF LastWrite, trail
  <2> QED
    BY <1>2, <2>2, <2>3, <2>4, <2>5, OrderIsKept
<1> QED
  BY <1>1, <1>4, <1>5

(* Every step keeps the invariant.                                         *)
LEMMA StepOrder == Invention /\ InOrder /\ [Next]_vars => InOrder'
<1> SUFFICES ASSUME Invention, InOrder, [Next]_vars, Orderly' PROVE InOrder'
  BY DEF InOrder
<1>1. Orderly /\ ~overlapped'
  <2>1. plain' = plain /\ (overlapped => overlapped')
    <3>1. CASE \E c \in Calls : Start(c)
      BY <3>1 DEF Start, inputs
    <3>2. CASE \E c \in Calls : Begin(c)
      BY <3>2 DEF Begin, inputs
    <3>3. CASE \E c \in Calls : Refuse(c) \/ AfterRead(c) \/ AfterKeep(c) \/ AfterWrite(c)
      BY <3>3 DEF Refuse, AfterRead, AfterKeep, AfterWrite, inputs
    <3>4. CASE \E c \in Calls : Record(c) \/ Fill(c) \/ Fails(c) \/ Cancel(c)
      BY <3>4 DEF Record, Fill, Fails, Cancel, inputs
    <3>5. CASE Crash \/ UNCHANGED vars
      BY <3>5 DEF Crash, vars, inputs
    <3> QED
      BY <3>1, <3>2, <3>3, <3>4, <3>5 DEF Next
  <2> QED
    BY <2>1 DEF Orderly
<1>2. ASSUME NEW c \in Calls,
             \/ Refuse(c) \/ Start(c) \/ AfterRead(c) \/ AfterKeep(c)
             \/ AfterWrite(c) \/ Record(c) \/ Begin(c) \/ Fill(c) \/ Fails(c) \/ Cancel(c)
      PROVE  InOrder'
  BY <1>1, <1>2, RefuseOrder, StartOrder, AfterReadOrder, AfterKeepOrder, AfterWriteOrder,
     RecordOrder, BeginOrder, FillOrder, FailsOrder, CancelOrder
<1>3. CASE Crash
  BY <1>1, <1>3, CrashOrder
<1>4. CASE UNCHANGED vars
  BY <1>4 DEF InOrder, Orderly, AloneAtWork, Busy, Pending, Stands, Kept, Found,
              OrderlyVersionsAreKept, KeptIsWhatWasReplaced, LastWrite,
              vars, inputs, disk, locals, trail
<1> QED
  BY <1>2, <1>3, <1>4 DEF Next

(* The initial state satisfies the invariant.                              *)
LEMMA InitOrder == Init => InOrder
BY DEF Init, InOrder, AloneAtWork, Busy, Pending, NoJob, Job, OrderlyVersionsAreKept,
       KeptIsWhatWasReplaced, LastWrite

(* While the calls on a file follow one another, threads included, and its *)
(* name reads as itself in a glob, no content the file has held is lost:   *)
(* whatever fails, is stopped or crashes between keeping and writing, it   *)
(* is the file's or a version's.                                           *)
THEOREM OrderlyKeepsVersions == Spec => []OrderlyVersionsAreKept
<1>1. InOrder => OrderlyVersionsAreKept
  BY DEF InOrder, OrderlyVersionsAreKept
<1> QED
  BY <1>1, InitInvention, StepInvention, InitOrder, StepOrder, PTL DEF Spec

(* Under the same condition the version an entry of the trail calls "kept" *)
(* holds what that write replaced, and goes on holding it.                 *)
THEOREM OrderlyKeptIsReplaced == Spec => []KeptIsWhatWasReplaced
<1>1. InOrder => KeptIsWhatWasReplaced
  BY DEF InOrder, KeptIsWhatWasReplaced
<1> QED
  BY <1>1, InitInvention, StepInvention, InitOrder, StepOrder, PTL DEF Spec

(* Under the same condition the file holds what the last entry of the      *)
(* trail says, unless a call that began to write since then is under way,  *)
(* failed or was stopped, or could not write its entry.                    *)
THEOREM OrderlyTrailTells == Spec => []TrailTellsTheFile
<1>1. Invention /\ InOrder => TrailTellsTheFile
  BY DEF Invention, Owing, InOrder, LastWrite, TrailTellsTheFile, Busy
<1> QED
  BY <1>1, InitInvention, StepInvention, InitOrder, StepOrder, PTL DEF Spec

-----------------------------------------------------------------------------
(* The calibration check: dates, limits and verdicts.                        *)

(* A date of the calendar.                                                 *)
IsDate(d) ==
    /\ d = <<d[1], d[2], d[3]>>
    /\ d[1] \in Years /\ d[2] \in 1 .. 12 /\ d[3] \in 1 .. DaysIn(d[1], d[2])

(* A month has 28 to 31 days, and they come after those of the months      *)
(* before it.                                                              *)
LEMMA MonthLength ==
    ASSUME NEW y \in Int, NEW m \in 1 .. 12
    PROVE  DaysIn(y, m) \in 28 .. 31 /\ DaysBefore[m] \in 0 .. 334
<1>1. \/ m = 1 \/ m = 2 \/ m = 3 \/ m = 4 \/ m = 5 \/ m = 6
      \/ m = 7 \/ m = 8 \/ m = 9 \/ m = 10 \/ m = 11 \/ m = 12
  OBVIOUS
<1>2. MonthDays[m] \in 28 .. 31
  BY <1>1 DEF MonthDays
<1>3. DaysBefore[m] \in 0 .. 334
  BY <1>1 DEF DaysBefore
<1> QED
  BY <1>2, <1>3 DEF DaysIn

(* MakeDate makes a date of the calendar or none.                          *)
LEMMA MakeDateIs ==
    ASSUME NEW y \in Int, NEW m \in Int, NEW d \in Int
    PROVE  MakeDate(y, m, d) = NoDate \/ IsDate(MakeDate(y, m, d))
BY DEF MakeDate, IsDate

LEMMA NoDateIsNone == ~IsDate(NoDate)
<1>1. \A a, b, c : <<>> # <<a, b, c>>
  OBVIOUS
<1> QED
  BY <1>1 DEF IsDate, NoDate

(* What is read off a cell is a date of the calendar or none.              *)
LEMMA ParseDateIs ==
    ASSUME NEW cell \in DateCells
    PROVE  ParseDate(cell) = NoDate \/ IsDate(ParseDate(cell))
<1>1. CASE cell \in {Empty, Words}
  BY <1>1 DEF ParseDate, Empty, Words
<1>2. CASE cell \in [is : {"named"}, y : Nat, m : Nat, d : Nat]
  <2>1. ParseDate(cell) = MakeDate(cell.y, cell.m, cell.d)
    BY <1>2 DEF ParseDate
  <2>2. cell.y \in Int /\ cell.m \in Int /\ cell.d \in Int
    BY <1>2
  <2> QED
    BY <2>1, <2>2, MakeDateIs
<1>3. CASE cell \in [is : {"numeric"}, a : Nat, b : Nat, y : Nat]
  <2> DEFINE y == IF cell.y < 100 THEN cell.y + 2000 ELSE cell.y
  <2>1. cell.a \in Int /\ cell.b \in Int /\ y \in Int
    BY <1>3
  <2>2. ParseDate(cell) = NumericDate(cell.a, cell.b, cell.y)
    BY <1>3 DEF ParseDate
  <2>3. \/ NumericDate(cell.a, cell.b, cell.y) = MakeDate(y, cell.b, cell.a)
        \/ NumericDate(cell.a, cell.b, cell.y) = MakeDate(y, cell.a, cell.b)
    BY DEF NumericDate
  <2> HIDE DEF y
  <2> QED
    BY <2>1, <2>2, <2>3, MakeDateIs
<1> QED
  BY <1>1, <1>2, <1>3 DEF DateCells

(* A year of the calendar is positive.                                     *)
LEMMA YearsArePositive ==
    ASSUME NEW y \in Years
    PROVE  y \in Int /\ y > 0
BY DEF Years

(* Days are numbered from the first of the first year.                     *)
LEMMA OrdinalPositive ==
    ASSUME NEW y \in Int, y > 0, NEW m \in 1 .. 12, NEW d \in 1 .. 31
    PROVE  Ordinal(<<y, m, d>>) \in Nat /\ Ordinal(<<y, m, d>>) > 0
<1> DEFINE z == y - 1
           leap == IF m > 2 /\ Leap(y) THEN 1 ELSE 0
<1>1. z \in Nat /\ leap \in 0 .. 1
  OBVIOUS
<1>2. Ordinal(<<y, m, d>>) = 365 * z + (z \div 4) - (z \div 100) + (z \div 400)
                             + DaysBefore[m] + leap + d
  BY DEF Ordinal
<1>3. DaysBefore[m] \in 0 .. 334
  BY MonthLength
<1>4. (z \div 4) \in Nat /\ (z \div 100) \in Nat /\ (z \div 400) \in Nat /\ z \div 100 <= z \div 4
  BY <1>1
<1> DEFINE a == z \div 4
           b == z \div 100
           c == z \div 400
           before == DaysBefore[m]
<1>5. Ordinal(<<y, m, d>>) = 365 * z + a - b + c + before + leap + d
  BY <1>2
<1>6. a \in Nat /\ b \in Nat /\ c \in Nat /\ b <= a /\ before \in 0 .. 334
  BY <1>3, <1>4
<1> HIDE DEF z, leap, a, b, c, before
<1> QED
  BY <1>1, <1>5, <1>6

(* Their number, of a year, a month and a day.                             *)
DayNumber(y, m, d) == Ordinal(<<y, m, d>>)

(* The greatest number up to two bounds is the lesser of them.             *)
LEMMA LesserOfTwo ==
    ASSUME NEW a \in Int, a > 0, NEW b \in Int, b > 0
    PROVE  LatestDay(a, b) = IF b <= a THEN b ELSE a
<1> DEFINE days == (1 .. a) \cap (1 .. b)
           least == IF b <= a THEN b ELSE a
           top == CHOOSE d \in days : \A e \in days : e <= d
<1>1. least \in days /\ (\A e \in days : e <= least) /\ days \subseteq Int
  OBVIOUS
<1> HIDE DEF days, least
<1>2. top \in days /\ \A e \in days : e <= top
  BY <1>1
<1> HIDE DEF top
<1>3. top = least
  BY <1>1, <1>2
<1> QED
  BY <1>3 DEF top, days, least, LatestDay

(* The number of a day is positive.                                        *)
LEMMA DayNumberPositive ==
    ASSUME NEW a \in Int, a > 0, NEW b \in 1 .. 12, NEW c \in 1 .. 31
    PROVE  DayNumber(a, b, c) \in Nat /\ DayNumber(a, b, c) > 0
BY OrdinalPositive DEF DayNumber

(* An interval ends on the day it stands for: the arithmetic of add_offset *)
(* and the reference definition of a month's end agree.                    *)
LEMMA OffsetOfParts ==
    ASSUME NEW start, NEW y \in Int, y > 0, NEW mo \in 1 .. 12, NEW d \in 1 .. 31,
           start[1] = y, start[2] = mo, start[3] = d,
           NEW months \in Nat, NEW days \in Nat
    PROVE  /\ AddOffset(start, months, days) = MonthsOn(start, months) + days
           /\ MonthsOn(start, months) \in Nat /\ MonthsOn(start, months) > 0
<1> DEFINE m == mo - 1 + months
           year == y + m \div 12
           month == (m % 12) + 1
           total == 12 * y + mo - 1 + months
           most == DaysIn(year, month)
           day == IF d <= most THEN d ELSE most
<1>2. m \in Nat /\ total = 12 * y + m
  OBVIOUS
<1>3. AddOffset(start, months, days) = DayNumber(year, month, day) + days
  BY DEF AddOffset, DayNumber
<1>a. m \div 12 \in Nat /\ m % 12 \in 0 .. 11
  <2> HIDE DEF m
  <2> QED
    BY <1>2
<1>b. year \in Int /\ year > 0 /\ month \in 1 .. 12
  <2> DEFINE q == m \div 12
             r == m % 12
  <2>1. q \in Nat /\ r \in 0 .. 11 /\ year = y + q /\ month = r + 1
    BY <1>a
  <2> HIDE DEF q, r, year, month
  <2> QED
    BY <2>1
<1>4. total \div 12 = year /\ (total % 12) + 1 = month
  <2> HIDE DEF m, total
  <2>1. (12 * y + m) \div 12 = y + m \div 12 /\ (12 * y + m) % 12 = m % 12
    BY <1>2
  <2> QED
    BY <1>2, <1>a, <2>1
<1>5. MonthsOn(start, months) = DayNumber(year, month, LatestDay(most, d))
  <2> DEFINE Of(a, b) == DayNumber(a, b, LatestDay(DaysIn(a, b), d))
  <2>1. MonthsOn(start, months) = Of(total \div 12, (total % 12) + 1)
    BY DEF MonthsOn, DayNumber
  <2>2. Of(year, month) = DayNumber(year, month, LatestDay(most, d))
    OBVIOUS
  <2> HIDE DEF Of, year, month, total
  <2> QED
    BY ONLY <1>4, <2>1, <2>2
<1>6. most \in 28 .. 31
  <2> HIDE DEF year, month
  <2>1. year \in Int
    BY <1>b
  <2> QED
    BY ONLY <1>b, <2>1, MonthLength DEF most
<1>7. LatestDay(most, d) = day /\ day \in 1 .. 31
  <2> HIDE DEF most
  <2>1. most \in Int /\ most > 0 /\ d \in Int /\ d > 0
    BY <1>6
  <2>2. LatestDay(most, d) = day
    BY ONLY <2>1, LesserOfTwo DEF day
  <2> QED
    BY <1>6, <2>2
<1> HIDE DEF year, month, day, most
<1>8. DayNumber(year, month, day) \in Nat /\ DayNumber(year, month, day) > 0
  BY ONLY <1>b, <1>7, DayNumberPositive
<1>9. MonthsOn(start, months) = DayNumber(year, month, day)
  BY ONLY <1>5, <1>7
<1> QED
  BY ONLY <1>3, <1>8, <1>9

(* The same of a date of the calendar.                                     *)
LEMMA OffsetIsMonthsOn ==
    ASSUME NEW start, IsDate(start), NEW months \in Nat, NEW days \in Nat
    PROVE  /\ AddOffset(start, months, days) = MonthsOn(start, months) + days
           /\ AddOffset(start, months, days) \in Nat /\ AddOffset(start, months, days) > 0
<1> DEFINE k == start[1]
           n == start[2]
           e == start[3]
<1>1. start = <<k, n, e>> /\ k \in Int /\ k > 0 /\ n \in 1 .. 12 /\ e \in 1 .. DaysIn(k, n)
  BY YearsArePositive DEF IsDate
<1>0. start[1] = k /\ start[2] = n /\ start[3] = e
  OBVIOUS
<1> HIDE DEF k, n, e
<1>3. DaysIn(k, n) \in 28 .. 31
  BY ONLY <1>1, MonthLength
<1>4. e \in 1 .. 31
  BY <1>1, <1>3
<1>5. /\ AddOffset(start, months, days) = MonthsOn(start, months) + days
      /\ MonthsOn(start, months) \in Nat /\ MonthsOn(start, months) > 0
  BY <1>0, <1>1, <1>4, OffsetOfParts
<1> QED
  BY <1>5

(* Days of the calendar have a positive number.                            *)
LEMMA DateNumber ==
    ASSUME NEW start, IsDate(start)
    PROVE  Ordinal(start) \in Nat /\ Ordinal(start) > 0
<1> DEFINE k == start[1]
           n == start[2]
           e == start[3]
<1>1. start = <<k, n, e>> /\ k \in Int /\ k > 0 /\ n \in 1 .. 12 /\ e \in 1 .. DaysIn(k, n)
  BY YearsArePositive DEF IsDate
<1> HIDE DEF k, n, e
<1>2. DaysIn(k, n) \in 28 .. 31
  BY ONLY <1>1, MonthLength
<1>3. e \in 1 .. 31
  BY <1>1, <1>2
<1>4. DayNumber(k, n, e) \in Nat /\ DayNumber(k, n, e) > 0
  BY ONLY <1>1, <1>3, DayNumberPositive
<1> QED
  BY <1>1, <1>4 DEF DayNumber

(* An interval is a number of months and a number of days, or none.        *)
LEMMA IntervalIs ==
    ASSUME NEW i \in InstrumentCells
    PROVE  Interval(i) = NoInterval \/ (Interval(i)[1] \in Nat /\ Interval(i)[2] \in Nat)
<1> DEFINE cell == i.interval
           p == ParseInterval(cell)
<1>1. cell \in IntervalCells
  BY DEF InstrumentCells
<1>2. p = NoInterval \/ (p[1] \in Nat /\ p[2] \in Nat)
  <2> HIDE DEF cell
  <2>1. CASE cell \in {Empty, Words}
    BY <2>1 DEF ParseInterval, Empty, Words
  <2>2. CASE cell \in [is : {"interval"}, n : Nat, unit : {"year", "month", "week", "day"}]
    <3> DEFINE n == cell.n
    <3>1. n \in Nat /\ cell.is = "interval"
      BY <2>2
    <3>2. p = <<12 * n, 0>> \/ p = <<0, 7 * n>> \/ p = <<0, n>> \/ p = <<n, 0>>
      BY <2>2, <3>1 DEF ParseInterval
    <3> HIDE DEF n, p
    <3> QED
      BY <3>1, <3>2
  <2> QED
    BY <1>1, <2>1, <2>2 DEF IntervalCells
<1>3. Interval(i) = p \/ (DefaultIntervalMonths > 0 /\ Interval(i) = <<DefaultIntervalMonths, 0>>)
  BY DEF Interval
<1> HIDE DEF p
<1> QED
  BY <1>2, <1>3, ValvesAssumption

(* The limits of an instrument are its stated and its computed due date.   *)
LEMMA LimitsAre ==
    ASSUME NEW i \in InstrumentCells
    PROVE  /\ StatedDue(i) \in Nat /\ ComputedDue(i) \in Nat
           /\ \A d : d \in Limits(i) <=> d \in {StatedDue(i), ComputedDue(i)} /\ d # NoDue
<1> DEFINE last == ParseDate(i.last)
           due == ParseDate(i.due)
           a == Interval(i)[1]
           b == Interval(i)[2]
<1>1. i.last \in DateCells /\ i.due \in DateCells
  BY DEF InstrumentCells
<1>2. (last = NoDate \/ IsDate(last)) /\ (due = NoDate \/ IsDate(due))
  BY <1>1, ParseDateIs
<1>3. StatedDue(i) \in Nat
  BY <1>2, DateNumber DEF StatedDue, NoDue
<1>4. CASE last = NoDate \/ Interval(i) = NoInterval
  <2>1. ComputedDue(i) = NoDue
    BY <1>4 DEF ComputedDue
  <2>2. Limits(i) = {d \in {StatedDue(i)} : d # NoDue}
    BY <1>4 DEF Limits
  <2> QED
    BY <1>3, <2>1, <2>2 DEF NoDue
<1>5. CASE last # NoDate /\ Interval(i) # NoInterval
  <2>1. ComputedDue(i) = AddOffset(last, a, b)
    BY <1>5 DEF ComputedDue
  <2>2. Limits(i) = {d \in {StatedDue(i)} : d # NoDue} \cup {MonthsOn(last, a) + b}
    BY <1>5 DEF Limits
  <2>3. IsDate(last) /\ a \in Nat /\ b \in Nat
    BY <1>2, <1>5, IntervalIs
  <2> HIDE DEF last, a, b
  <2>4. AddOffset(last, a, b) = MonthsOn(last, a) + b /\ AddOffset(last, a, b) \in Nat /\ AddOffset(last, a, b) > 0
    BY ONLY <2>3, OffsetIsMonthsOn
  <2> DEFINE c == AddOffset(last, a, b)
             s == StatedDue(i)
  <2>5. Limits(i) = {d \in {s} : d # NoDue} \cup {c} /\ ComputedDue(i) = c /\ c \in Nat /\ c > 0
    BY <2>1, <2>2, <2>4
  <2> HIDE DEF c, s
  <2> QED
    BY <1>3, <2>5 DEF NoDue, s
<1> QED
  BY <1>4, <1>5

(* The due date is a limit, if there is one, and past no other by more     *)
(* than a day.                                                             *)
LEMMA DueIsALimit ==
    ASSUME NEW i \in InstrumentCells
    PROVE  /\ Due(i) \in Nat
           /\ Due(i) # NoDue <=> Limits(i) # {}
           /\ \A d \in Limits(i) : d \in Nat /\ Due(i) <= d + 1
<1> DEFINE s == StatedDue(i)
           c == ComputedDue(i)
<1>1. s \in Nat /\ c \in Nat /\ \A d : d \in Limits(i) <=> d \in {s, c} /\ d # 0
  BY LimitsAre DEF NoDue
<1>2. Due(i) = IF s # 0 /\ c # 0 /\ Abs(s - c) > 1
               THEN IF s < c THEN s ELSE c
               ELSE IF s # 0 THEN s ELSE c
  BY DEF Due, NoDue
<1> HIDE DEF s, c
<1>3. Due(i) \in {s, c} /\ (Due(i) # 0 <=> s # 0 \/ c # 0)
  BY <1>1, <1>2
<1>4. Due(i) # NoDue <=> Limits(i) # {}
  BY <1>1, <1>3 DEF NoDue
<1>5. ASSUME NEW d \in {s, c}, d # 0
      PROVE  Due(i) <= d + 1
  BY <1>1, <1>2, <1>5 DEF Abs
<1> QED
  BY <1>1, <1>3, <1>4, <1>5

(* Calibrated after the reading.                                           *)
Late(i) == ParseDate(i.last) # NoDate /\ Ordinal(ParseDate(i.last)) > When

(* What the status of an instrument says of its dates.                     *)
LEMMA StatusSays ==
    ASSUME NEW i \in InstrumentCells
    PROVE  /\ Status(i) # "CAL AFTER READING" => ~Late(i)
           /\ Status(i) \in {"VALID", "DUE SOON", "PAST DUE (GRACE)"} =>
                 Due(i) # NoDue /\ When <= Due(i) + AtLeastZero(GraceDays)
           /\ Status(i) = "VALID" => When < Due(i)
           /\ ~Late(i) /\ Due(i) # NoDue /\ When > Due(i) + AtLeastZero(GraceDays) => Status(i) = "OVERDUE"
           /\ Status(i) \in {"CAL AFTER READING", "NO DATA", "OVERDUE", "PAST DUE (GRACE)",
                             "DUE SOON", "VALID"}
<1> DEFINE u == Due(i)
           grace == AtLeastZero(GraceDays)
           soon == AtLeastZero(DueSoonDays)
<1>1. u \in Nat /\ grace \in Nat /\ soon \in Nat /\ When \in Nat
  BY DueIsALimit, ValvesAssumption DEF AtLeastZero
<1>2. Status(i) = IF Late(i) THEN "CAL AFTER READING"
                  ELSE IF u = NoDue THEN "NO DATA"
                  ELSE IF u - When < -grace THEN "OVERDUE"
                  ELSE IF u - When < 0 THEN "PAST DUE (GRACE)"
                  ELSE IF u - When <= soon THEN "DUE SOON"
                  ELSE "VALID"
  BY DEF Status, Late
<1> HIDE DEF u, grace, soon
<1> DEFINE Goal(st) ==
             /\ st # "CAL AFTER READING" => ~Late(i)
             /\ st \in {"VALID", "DUE SOON", "PAST DUE (GRACE)"} => u # NoDue /\ When <= u + grace
             /\ st = "VALID" => When < u
             /\ ~Late(i) /\ u # NoDue /\ When > u + grace => st = "OVERDUE"
             /\ st \in {"CAL AFTER READING", "NO DATA", "OVERDUE", "PAST DUE (GRACE)",
                        "DUE SOON", "VALID"}
<1>3. CASE Late(i)
  <2>1. Status(i) = "CAL AFTER READING"
    BY <1>2, <1>3
  <2>2. Goal("CAL AFTER READING")
    BY <1>3
  <2> QED
    BY <2>1, <2>2 DEF u, grace
<1>4. CASE ~Late(i) /\ u = NoDue
  <2>1. Status(i) = "NO DATA"
    BY <1>2, <1>4
  <2>2. Goal("NO DATA")
    BY <1>4
  <2> QED
    BY <2>1, <2>2 DEF u, grace
<1>5. CASE ~Late(i) /\ u # NoDue
  <2>1. CASE u - When < -grace
    <3>1. Status(i) = "OVERDUE"
      BY <1>1, <1>2, <1>5, <2>1
    <3>2. Goal("OVERDUE")
      BY <1>1, <1>5, <2>1
    <3> QED
      BY <3>1, <3>2 DEF u, grace
  <2>2. CASE ~(u - When < -grace) /\ u - When < 0
    <3>1. Status(i) = "PAST DUE (GRACE)"
      BY <1>1, <1>2, <1>5, <2>2
    <3>2. Goal("PAST DUE (GRACE)")
      BY <1>1, <1>5, <2>2
    <3> QED
      BY <3>1, <3>2 DEF u, grace
  <2>3. CASE ~(u - When < 0) /\ u - When <= soon
    <3>0. ~(u - When < -grace)
      BY <1>1, <2>3
    <3>1. Status(i) = "DUE SOON"
      BY <1>2, <1>5, <2>3, <3>0
    <3>2. Goal("DUE SOON")
      BY <1>1, <1>5, <2>3
    <3> QED
      BY <3>1, <3>2 DEF u, grace
  <2>4. CASE ~(u - When < 0) /\ ~(u - When <= soon)
    <3>0. ~(u - When < -grace)
      BY <1>1, <2>4
    <3>1. Status(i) = "VALID"
      BY <1>2, <1>5, <2>4, <3>0
    <3>2. Goal("VALID")
      BY <1>1, <1>5, <2>4
    <3> QED
      BY <3>1, <3>2 DEF u, grace
  <2> QED
    BY <1>1, <2>1, <2>2, <2>3, <2>4
<1> QED
  BY <1>3, <1>4, <1>5

(* What the verdict of an instrument says of its error.                    *)
LEMMA VerdictSays ==
    ASSUME NEW i \in InstrumentCells
    PROVE  LET comparable == Readable(i.found) /\ Readable(i.tolerance) /\ i.found.unit = i.tolerance.unit
           IN  /\ comparable /\ ~WithinTolerance(i) => ToleranceVerdict(i) = "OUT OF TOLERANCE"
               /\ \/ ToleranceVerdict(i) \in {"UNREADABLE", "NO TOLERANCE", "NOT COMPARABLE", "OUT OF TOLERANCE"}
                  \/ Recorded(i) => WithinTolerance(i)
<1> DEFINE f == i.found
           t == i.tolerance
           comparable == Readable(f) /\ Readable(t) /\ f.unit = t.unit
<1>1. f \in QuantityCells /\ t \in QuantityCells
  BY DEF InstrumentCells
<1>2. ASSUME NEW c \in QuantityCells
      PROVE  Readable(c) => c # Empty /\ c.v \in Int
  BY DEF QuantityCells, Readable, Empty, Words
<1>3. /\ Recorded(i) <=> f # Empty
      /\ WithinTolerance(i) <=> comparable /\ f.v \in -Abs(t.v) .. Abs(t.v)
  BY DEF Recorded, WithinTolerance
<1>4. ToleranceVerdict(i) =
        IF (f # Empty /\ ~Readable(f)) \/ (t # Empty /\ ~Readable(t)) THEN "UNREADABLE"
        ELSE IF f = Empty THEN "NOT RECORDED"
        ELSE IF t = Empty THEN "NO TOLERANCE"
        ELSE IF f.unit # t.unit THEN "NOT COMPARABLE"
        ELSE IF Abs(f.v) > Abs(t.v) THEN "OUT OF TOLERANCE"
        ELSE "IN TOLERANCE"
  BY DEF ToleranceVerdict
<1> HIDE DEF f, t
<1>5. ASSUME Readable(f), Readable(t)
      PROVE  f.v \in -Abs(t.v) .. Abs(t.v) <=> ~(Abs(f.v) > Abs(t.v))
  <2> DEFINE a == f.v
             b == t.v
  <2>1. a \in Int /\ b \in Int
    BY <1>1, <1>2, <1>5
  <2> HIDE DEF a, b
  <2>2. a \in -Abs(b) .. Abs(b) <=> ~(Abs(a) > Abs(b))
    BY <2>1 DEF Abs
  <2> QED
    BY <2>2 DEF a, b
<1>6. ASSUME comparable, ~WithinTolerance(i)
      PROVE  ToleranceVerdict(i) = "OUT OF TOLERANCE"
  BY <1>1, <1>2, <1>3, <1>4, <1>5, <1>6
<1>7. ASSUME ToleranceVerdict(i) \notin {"UNREADABLE", "NO TOLERANCE", "NOT COMPARABLE", "OUT OF TOLERANCE"},
             f # Empty
      PROVE  WithinTolerance(i)
  <2>1. Readable(f) /\ Readable(t) /\ f.unit = t.unit /\ ~(Abs(f.v) > Abs(t.v))
    BY <1>4, <1>7
  <2> QED
    BY <1>3, <1>5, <2>1
<1> QED
  BY <1>3, <1>6, <1>7 DEF f, t

(* A disposition that clears the register clears each of its instruments.  *)
LEMMA ClearSays ==
    ASSUME NEW rs, NEW sk, NEW d \in {"ALL CURRENT", "CALIBRATION DUE"}, d = Disposition(rs, sk)
    PROVE  /\ sk = {}
           /\ \A i \in {r.inst : r \in rs} :
                 /\ ToleranceVerdict(i) # "OUT OF TOLERANCE" /\ Status(i) # "OVERDUE"
                 /\ ~Incomplete(i)
                 /\ d = "ALL CURRENT" => Status(i) \notin {"DUE SOON", "PAST DUE (GRACE)"}
<1> DEFINE is == {r.inst : r \in rs}
<1>1. d = IF \E i \in is : ToleranceVerdict(i) = "OUT OF TOLERANCE" THEN "OUT OF TOLERANCE - RESULTS IN DOUBT"
          ELSE IF \E i \in is : Status(i) = "OVERDUE"       THEN "OUT OF CALIBRATION - RESULTS IN DOUBT"
          ELSE IF (\E i \in is : Incomplete(i)) \/ sk # {}  THEN "CHECK INCOMPLETE"
          ELSE IF \E i \in is : Status(i) \in {"DUE SOON", "PAST DUE (GRACE)"} THEN "CALIBRATION DUE"
          ELSE "ALL CURRENT"
  BY DEF Disposition
<1> HIDE DEF is
<1>3. ~(\E i \in is : ToleranceVerdict(i) = "OUT OF TOLERANCE")
  BY <1>1
<1>4. ~(\E i \in is : Status(i) = "OVERDUE")
  BY <1>1, <1>3
<1>5. ~((\E i \in is : Incomplete(i)) \/ sk # {})
  BY <1>1, <1>3, <1>4
<1>6. d = "ALL CURRENT" => ~(\E i \in is : Status(i) \in {"DUE SOON", "PAST DUE (GRACE)"})
  BY <1>1, <1>3, <1>4, <1>5
<1> QED
  BY <1>3, <1>4, <1>5, <1>6 DEF is

(* An instrument out of tolerance, or overdue, is the disposition's.       *)
LEMMA DoubtSays ==
    ASSUME NEW rs, NEW sk, NEW i \in {r.inst : r \in rs},
           ToleranceVerdict(i) = "OUT OF TOLERANCE" \/ Status(i) = "OVERDUE"
    PROVE  Disposition(rs, sk) \in {"OUT OF CALIBRATION - RESULTS IN DOUBT", "OUT OF TOLERANCE - RESULTS IN DOUBT"}
<1> DEFINE is == {r.inst : r \in rs}
           d == Disposition(rs, sk)
<1>1. d = IF \E j \in is : ToleranceVerdict(j) = "OUT OF TOLERANCE" THEN "OUT OF TOLERANCE - RESULTS IN DOUBT"
          ELSE IF \E j \in is : Status(j) = "OVERDUE"       THEN "OUT OF CALIBRATION - RESULTS IN DOUBT"
          ELSE IF (\E j \in is : Incomplete(j)) \/ sk # {}  THEN "CHECK INCOMPLETE"
          ELSE IF \E j \in is : Status(j) \in {"DUE SOON", "PAST DUE (GRACE)"} THEN "CALIBRATION DUE"
          ELSE "ALL CURRENT"
  BY DEF Disposition
<1>2. i \in is
  OBVIOUS
<1> HIDE DEF is, d
<1>3. CASE \E j \in is : ToleranceVerdict(j) = "OUT OF TOLERANCE"
  BY <1>1, <1>3 DEF d
<1>4. CASE ~(\E j \in is : ToleranceVerdict(j) = "OUT OF TOLERANCE")
  <2>1. \E j \in is : Status(j) = "OVERDUE"
    BY <1>2, <1>4
  <2> QED
    BY <1>1, <1>4, <2>1 DEF d
<1> QED
  BY <1>3, <1>4

(* A cleared instrument is one whose dates and error are as they should be. *)
LEMMA ClearedInstrument ==
    ASSUME NEW i \in InstrumentCells,
           ToleranceVerdict(i) # "OUT OF TOLERANCE", Status(i) # "OVERDUE", ~Incomplete(i)
    PROVE  /\ UnreadableDates(i) = {}
           /\ ParseDate(i.last) # NoDate => Ordinal(ParseDate(i.last)) <= When
           /\ Recorded(i) => WithinTolerance(i)
           /\ Limits(i) # {}
           /\ \A d \in Limits(i) : When <= d + 1 + AtLeastZero(GraceDays)
           /\ Status(i) \notin {"DUE SOON", "PAST DUE (GRACE)"} => \A d \in Limits(i) : When <= d
<1>1. /\ Status(i) \notin {"NO DATA", "CAL AFTER READING"}
      /\ ToleranceVerdict(i) \notin {"NO TOLERANCE", "NOT COMPARABLE", "UNREADABLE"}
      /\ UnreadableDates(i) = {}
  BY DEF Incomplete
<1>2. Status(i) \in {"VALID", "DUE SOON", "PAST DUE (GRACE)"}
  BY <1>1, StatusSays
<1>3. ~Late(i) /\ Due(i) # NoDue /\ When <= Due(i) + AtLeastZero(GraceDays)
      /\ (Status(i) = "VALID" => When < Due(i))
  BY <1>1, <1>2, StatusSays
<1>4. Due(i) \in Nat /\ Limits(i) # {} /\ \A d \in Limits(i) : d \in Nat /\ Due(i) <= d + 1
  BY <1>3, DueIsALimit
<1>5. When \in Nat /\ AtLeastZero(GraceDays) \in Nat
  BY ONLY ValvesAssumption DEF AtLeastZero
<1>6. ParseDate(i.last) # NoDate => Ordinal(ParseDate(i.last)) <= When
  <2>1. SUFFICES ASSUME ParseDate(i.last) # NoDate
                 PROVE  Ordinal(ParseDate(i.last)) <= When
    OBVIOUS
  <2>2. i.last \in DateCells
    BY DEF InstrumentCells
  <2>3. Ordinal(ParseDate(i.last)) \in Nat
    BY <2>1, <2>2, ParseDateIs, DateNumber
  <2> QED
    BY ONLY <1>3, <1>5, <2>1, <2>3 DEF Late
<1>7. Recorded(i) => WithinTolerance(i)
  BY <1>1, VerdictSays
<1> DEFINE u == Due(i)
           grace == AtLeastZero(GraceDays)
<1>8. ASSUME NEW d \in Limits(i)
      PROVE  When <= d + 1 + grace /\ (Status(i) = "VALID" => When <= d)
  <2>1. d \in Nat /\ u \in Nat /\ grace \in Nat /\ u <= d + 1 /\ When <= u + grace /\ When \in Nat
        /\ (Status(i) = "VALID" => When < u)
    BY <1>3, <1>4, <1>5
  <2> HIDE DEF u, grace
  <2> QED
    BY ONLY <2>1
<1> HIDE DEF u, grace
<1>9. Status(i) \notin {"DUE SOON", "PAST DUE (GRACE)"} => Status(i) = "VALID"
  BY <1>2
<1> QED
  BY <1>1, <1>4, <1>6, <1>7, <1>8, <1>9 DEF grace

(* A failed instrument is out of tolerance or overdue.                     *)
LEMMA FailedInstrument ==
    ASSUME NEW i \in InstrumentCells,
           \/ /\ Readable(i.found) /\ Readable(i.tolerance)
              /\ i.found.unit = i.tolerance.unit
              /\ ~WithinTolerance(i)
           \/ /\ ParseDate(i.last) # NoDate => Ordinal(ParseDate(i.last)) <= When
              /\ \E d \in Limits(i) : When > d + 1 + AtLeastZero(GraceDays)
    PROVE  ToleranceVerdict(i) = "OUT OF TOLERANCE" \/ Status(i) = "OVERDUE"
<1>1. CASE /\ Readable(i.found) /\ Readable(i.tolerance)
           /\ i.found.unit = i.tolerance.unit
           /\ ~WithinTolerance(i)
  BY <1>1, VerdictSays
<1>2. CASE /\ ParseDate(i.last) # NoDate => Ordinal(ParseDate(i.last)) <= When
           /\ \E d \in Limits(i) : When > d + 1 + AtLeastZero(GraceDays)
  <2>1. PICK d \in Limits(i) : When > d + 1 + AtLeastZero(GraceDays)
    BY <1>2
  <2>2. Due(i) \in Nat /\ Due(i) # NoDue /\ d \in Nat /\ Due(i) <= d + 1
    BY DueIsALimit
  <2>3. When \in Nat /\ AtLeastZero(GraceDays) \in Nat
    BY ValvesAssumption DEF AtLeastZero
  <2>4. When > Due(i) + AtLeastZero(GraceDays)
    <3> DEFINE u == Due(i)
               grace == AtLeastZero(GraceDays)
    <3>1. u \in Nat /\ d \in Nat /\ grace \in Nat /\ When \in Nat /\ u <= d + 1 /\ When > d + 1 + grace
      BY <2>1, <2>2, <2>3
    <3> HIDE DEF u, grace
    <3>2. When > u + grace
      BY <3>1
    <3> QED
      BY <3>2 DEF u, grace
  <2>5. ~Late(i)
    <3>1. CASE ParseDate(i.last) = NoDate
      BY <3>1 DEF Late
    <3>2. CASE ParseDate(i.last) # NoDate
      <4>1. i.last \in DateCells
        BY DEF InstrumentCells
      <4>2. Ordinal(ParseDate(i.last)) \in Nat
        BY <3>2, <4>1, ParseDateIs, DateNumber
      <4> QED
        BY <1>2, <2>3, <3>2, <4>2 DEF Late
    <3> QED
      BY <3>1, <3>2
  <2> QED
    BY <2>2, <2>4, <2>5, StatusSays
<1> QED
  BY <1>1, <1>2

(* Each answer is one of the seven.                                        *)
LEMMA DispositionIs ==
    ASSUME NEW rs, NEW sk
    PROVE  Disposition(rs, sk) \in {"ALL CURRENT", "CALIBRATION DUE", "CHECK INCOMPLETE",
                "OUT OF CALIBRATION - RESULTS IN DOUBT", "OUT OF TOLERANCE - RESULTS IN DOUBT"}
BY DEF Disposition

(* A row of headings is made of cells, and a sentence is.                  *)
LEMMA CellsOfRows ==
    /\ HeadingRow \in InstrumentCells
    /\ \A i \in InstrumentCells : [i EXCEPT !.prose = TRUE] \in InstrumentCells
BY DEF HeadingRow, Instrument, InstrumentCells, DateCells, IntervalCells, QuantityCells

-----------------------------------------------------------------------------
(* The calibration check: reading the register.                              *)

(* The heading of a register: a heading line and its separator.            *)
HeadingAt(text, h) == h < Len(text) /\ text[h] = "head" /\ IsSeparator(text[h + 1])

(* A line at which the reading of a table ends.                            *)
Ends(text, k) ==
    /\ text[k] # "blank"
    /\ ~Pipe(text[k]) \/ (k < Len(text) /\ IsSeparator(text[k + 1]))

(* Below the heading of a register.                                        *)
Under(text, n) ==
    \E h \in 1 .. n - 2 :
        /\ text[h] = "head" /\ IsSeparator(text[h + 1])
        /\ \A k \in h + 2 .. n - 1 :
              \/ text[k] = "blank"
              \/ Pipe(text[k]) /\ ~IsSeparator(text[k + 1])

(* The lines that hold an instrument, or fail to.                          *)
RowKinds == {"row", "short", "untagged"}

(* The first line not yet read.                                            *)
Frontier == IF stage = "rows" THEN position ELSE index

(* The register and what was read of it.                                   *)
Register ==
    /\ lines \in Seq(LineKinds)
    /\ cells \in DOMAIN Instruments
    /\ \A r \in rows : r.inst \in InstrumentCells

(* Inside a table the outer loop stands at its heading, and no other       *)
(* heading lies between the two places; at the end no table can start.     *)
Place ==
    /\ stage = "rows" =>
          /\ HeadingAt(lines, index) /\ index + 2 <= position
          /\ \A h \in index + 1 .. position - 1 : ~HeadingAt(lines, h)
    /\ stage \in {"close", "done", "raised"} => index >= Len(lines)

(* Each table behind a line ended at a line that ends tables.              *)
ClosedBy(text, x) ==
    x <= Len(text) =>
        \A h \in 1 .. x - 1 : HeadingAt(text, h) => \E k \in h + 2 .. x : Ends(text, k)
Closed == ClosedBy(lines, index)

(* What has been read below a heading has been answered.                   *)
AnsweredBy(text, x, answers) ==
    \A n \in 1 .. x - 1 : n <= Len(text) /\ text[n] \in RowKinds /\ Under(text, n) => n \in answers
Answers == skipped \cup {r.line : r \in rows}
Answering == AnsweredBy(lines, Frontier, Answers)

(* The disposition is given once, over all that was read.                  *)
Disposed ==
    /\ stage # "done" => disposition = ""
    /\ stage = "done" => \/ rows = {} /\ disposition = "NOTHING ASSESSED"
                         \/ rows # {} /\ disposition = Disposition(rows, skipped)

(* The inductive invariant of the reading.                                 *)
Reading == CalibrationTypeOK /\ Register /\ Place /\ Closed /\ Answering /\ Disposed

(* A row below a heading, with every table above closed, is the heading of *)
(* the next table.                                                         *)
LEMMA RowBelowIsHeading ==
    ASSUME NEW text \in Seq(LineKinds), NEW x \in 1 .. Len(text), ClosedBy(text, x),
           text[x] \in RowKinds, Under(text, x)
    PROVE  x < Len(text) /\ IsSeparator(text[x + 1])
<1>1. PICK h \in 1 .. x - 2 :
           /\ text[h] = "head" /\ IsSeparator(text[h + 1])
           /\ \A k \in h + 2 .. x - 1 : text[k] = "blank" \/ (Pipe(text[k]) /\ ~IsSeparator(text[k + 1]))
  BY DEF Under
<1>2. h \in 1 .. x - 1 /\ HeadingAt(text, h)
  BY <1>1 DEF HeadingAt
<1>3. PICK k \in h + 2 .. x : Ends(text, k)
  BY <1>2 DEF ClosedBy
<1>4. ~(k \in h + 2 .. x - 1)
  BY <1>1, <1>3 DEF Ends
<1>5. k = x
  BY <1>4
<1>6. Pipe(text[x])
  BY DEF RowKinds, Pipe
<1> QED
  BY <1>3, <1>5, <1>6 DEF Ends

(* Reading one more line: it answers, or asks for no answer.               *)
LEMMA AnswerMore ==
    ASSUME NEW text, NEW x \in Nat, NEW answers, NEW more, AnsweredBy(text, x, answers),
           answers \subseteq more,
           x <= Len(text) /\ text[x] \in RowKinds /\ Under(text, x) => x \in more
    PROVE  AnsweredBy(text, x + 1, more)
<1> SUFFICES ASSUME NEW n \in 1 .. x + 1 - 1, n <= Len(text), text[n] \in RowKinds, Under(text, n)
             PROVE  n \in more
  BY DEF AnsweredBy
<1>1. CASE n = x
  BY <1>1
<1>2. CASE n \in 1 .. x - 1
  BY <1>2 DEF AnsweredBy
<1> QED
  BY <1>1, <1>2

(* Tables stay closed past a line that is not a heading.                   *)
LEMMA CloseMore ==
    ASSUME NEW text \in Seq(LineKinds), NEW x \in 1 .. Len(text), ClosedBy(text, x), ~HeadingAt(text, x)
    PROVE  ClosedBy(text, x + 1)
<1> SUFFICES ASSUME NEW h \in 1 .. x + 1 - 1, HeadingAt(text, h)
             PROVE  \E k \in h + 2 .. x + 1 : Ends(text, k)
  BY DEF ClosedBy
<1>1. h \in 1 .. x - 1
  <2>1. h # x
    OBVIOUS
  <2> QED
    BY <2>1
<1>2. PICK k \in h + 2 .. x : Ends(text, k)
  BY <1>1 DEF ClosedBy
<1>3. k \in h + 2 .. x + 1
  OBVIOUS
<1> QED
  BY <1>2, <1>3

(* The table at a heading closes at a line that ends tables, when no other *)
(* heading lies between.                                                   *)
LEMMA CloseAt ==
    ASSUME NEW text \in Seq(LineKinds), NEW x \in 1 .. Len(text), NEW y \in Nat, x + 2 <= y,
           ClosedBy(text, x), \A h \in x + 1 .. y - 1 : ~HeadingAt(text, h),
           y <= Len(text) => Ends(text, y)
    PROVE  ClosedBy(text, y)
<1> SUFFICES ASSUME y <= Len(text), NEW h \in 1 .. y - 1, HeadingAt(text, h)
             PROVE  \E k \in h + 2 .. y : Ends(text, k)
  BY DEF ClosedBy
<1>1. h \in 1 .. x
  OBVIOUS
<1>2. CASE h = x
  <2>1. y \in h + 2 .. y
    BY <1>2
  <2> QED
    BY <2>1
<1>3. CASE h \in 1 .. x - 1
  <2>1. PICK k \in h + 2 .. x : Ends(text, k)
    BY <1>3 DEF ClosedBy
  <2>2. k \in h + 2 .. y
    OBVIOUS
  <2> QED
    BY <2>1, <2>2
<1> QED
  BY <1>1, <1>2, <1>3

(* The reading starts at the first line, with nothing read.                *)
LEMMA ReadingInit ==
    CalibrationInit => Reading
<1> SUFFICES ASSUME CalibrationInit
             PROVE  Reading
  OBVIOUS
<1>1. lines \in Seq(LineKinds) /\ cells \in DOMAIN Instruments
  BY RegistersAssumption DEF CalibrationInit
<1>2. /\ stage = "scan" /\ index = 1 /\ position = 0 /\ fromTable = FALSE
      /\ skipped = {} /\ rows = {} /\ disposition = ""
  BY DEF CalibrationInit
<1>3. Len(lines) \in Nat
  BY ONLY <1>1
<1>4. CalibrationTypeOK
  <2>1. {r.line : r \in rows} = {}
    BY ONLY <1>2
  <2>2. index = 1 /\ position = 0
    BY ONLY <1>2
  <2>3. index \in 1 .. Len(lines) + 1 /\ position \in 0 .. Len(lines) + 1
    BY ONLY <1>3, <2>2
  <2> QED
    BY ONLY <1>2, <2>1, <2>3 DEF CalibrationTypeOK
<1>5. Register
  BY ONLY <1>1, <1>2 DEF Register
<1>6. Place /\ Disposed
  BY ONLY <1>2 DEF Place, Disposed
<1>9. Frontier = 1
  BY ONLY <1>2 DEF Frontier
<1>0. 1 .. 1 - 1 = {}
  OBVIOUS
<1>7. Closed
  BY ONLY <1>0, <1>2, Zenon DEF Closed, ClosedBy
<1>8. Answering
  BY ONLY <1>0, <1>9, Zenon DEF Answering, AnsweredBy
<1> QED
  BY <1>4, <1>5, <1>6, <1>7, <1>8 DEF Reading

(* What the invariant says of the text and of the places in it.            *)
LEMMA ReadingSays ==
    ASSUME Reading
    PROVE  /\ Len(lines) \in Nat /\ index \in 1 .. Len(lines) + 1 /\ position \in 0 .. Len(lines) + 1
           /\ lines \in Seq(LineKinds) /\ DOMAIN lines = 1 .. Len(lines)
           /\ \A n \in 1 .. Len(lines) : lines[n] \in LineKinds
<1>1. lines \in Seq(LineKinds)
  BY DEF Reading, Register
<1>2. index \in 1 .. Len(lines) + 1 /\ position \in 0 .. Len(lines) + 1
  BY DEF Reading, CalibrationTypeOK
<1>3. Len(lines) \in Nat /\ DOMAIN lines = 1 .. Len(lines) /\ \A n \in 1 .. Len(lines) : lines[n] \in LineKinds
  BY ONLY <1>1
<1> QED
  BY <1>1, <1>2, <1>3

(* The outer loop's steps keep the invariant.                              *)
LEMMA ReadingScan ==
    ASSUME Reading, PassLine \/ SkipTable \/ OpenTable \/ EndScan
    PROVE  Reading'
<1>1. /\ CalibrationTypeOK /\ Register /\ Place /\ Closed /\ Answering /\ Disposed
      /\ stage = "scan" /\ Frontier = index
  BY DEF Reading, PassLine, SkipTable, OpenTable, EndScan, Scanning, Frontier
<1>2. /\ Len(lines) \in Nat /\ index \in 1 .. Len(lines) + 1 /\ position \in 0 .. Len(lines) + 1
      /\ lines \in Seq(LineKinds) /\ DOMAIN lines = 1 .. Len(lines)
      /\ \A n \in 1 .. Len(lines) : lines[n] \in LineKinds
  BY ReadingSays
<1>3. ClosedBy(lines, index) /\ AnsweredBy(lines, index, Answers)
  BY <1>1 DEF Closed, Answering
<1>4. CASE PassLine
  <2> USE <1>4 DEF PassLine, Scanning
  <2>a. Register'
    BY <1>1 DEF Register
  <2>1. CalibrationTypeOK'
    <3>1. index' \in 1 .. Len(lines) + 1
      BY <1>2
    <3> QED
      BY <1>1, <3>1 DEF CalibrationTypeOK
  <2>2. Place' /\ Disposed'
    BY <1>1 DEF Place, Disposed
  <2>3. index \in 1 .. Len(lines) /\ ~HeadingAt(lines, index)
    BY <1>2 DEF HeadingAt, AtTable, Pipe
  <2>4. ClosedBy(lines, index + 1)
    BY <1>2, <1>3, <2>3, CloseMore
  <2>5. ~(lines[index] \in RowKinds /\ Under(lines, index))
    <3>1. SUFFICES ASSUME lines[index] \in RowKinds, Under(lines, index)
                   PROVE  FALSE
      OBVIOUS
    <3>2. IsSeparator(lines[index + 1])
      BY <1>2, <1>3, <2>3, <3>1, RowBelowIsHeading
    <3>3. Pipe(lines[index])
      BY <3>1 DEF RowKinds, Pipe
    <3> QED
      BY <3>2, <3>3 DEF AtTable
  <2>6. AnsweredBy(lines, index + 1, Answers)
    BY <1>2, <1>3, <2>5, AnswerMore
  <2>7. Closed' /\ Answering'
    BY <1>1, <2>4, <2>6 DEF Closed, Answering, Frontier, Answers
  <2> QED
    BY <2>a, <2>1, <2>2, <2>7 DEF Reading
<1>5. CASE SkipTable
  <2> USE <1>5 DEF SkipTable, Scanning
  <2>a. Register'
    BY <1>1 DEF Register
  <2>1. CalibrationTypeOK'
    <3>1. index' \in 1 .. Len(lines) + 1 /\ index \in DOMAIN lines
      BY <1>2
    <3> QED
      BY <1>1, <3>1 DEF CalibrationTypeOK
  <2>2. Place' /\ Disposed'
    BY <1>1 DEF Place, Disposed
  <2>3. index \in 1 .. Len(lines) /\ ~HeadingAt(lines, index)
    BY <1>2 DEF HeadingAt
  <2>4. ClosedBy(lines, index + 1)
    BY <1>2, <1>3, <2>3, CloseMore
  <2>5. Answers \subseteq Answers \cup {index} /\ Answers' = Answers \cup {index}
    BY DEF Answers
  <2>6. AnsweredBy(lines, index + 1, Answers \cup {index})
    BY <1>2, <1>3, <2>5, AnswerMore
  <2>7. Closed' /\ Answering'
    BY <1>1, <2>4, <2>5, <2>6 DEF Closed, Answering, Frontier
  <2> QED
    BY <2>a, <2>1, <2>2, <2>7 DEF Reading
<1>6. CASE OpenTable
  <2> USE <1>6 DEF OpenTable, Scanning
  <2>a. Register'
    BY <1>1 DEF Register
  <2>1. CalibrationTypeOK'
    <3>1. position' \in 0 .. Len(lines) + 1
      BY <1>2
    <3> QED
      BY <1>1, <3>1 DEF CalibrationTypeOK
  <2>2. Disposed' /\ Closed'
    BY <1>1 DEF Disposed, Closed
  <2>3. HeadingAt(lines, index) /\ ~HeadingAt(lines, index + 1)
    BY <1>2 DEF HeadingAt, AtTable, IsSeparator
  <2>4. \A h \in index + 1 .. (index + 2) - 1 : h = index + 1
    BY <1>2
  <2>5. Place'
    BY <1>2, <2>3, <2>4 DEF Place
  <2>6. lines[index] \notin RowKinds /\ lines[index + 1] \notin RowKinds
    BY DEF AtTable, IsSeparator, RowKinds
  <2>7. AnsweredBy(lines, index + 1, Answers)
    BY <1>2, <1>3, <2>6, AnswerMore
  <2>8. AnsweredBy(lines, (index + 1) + 1, Answers)
    BY <1>2, <2>6, <2>7, AnswerMore
  <2>9. Answering'
    <3>1. (index + 1) + 1 = index + 2 /\ Frontier' = index + 2 /\ Answers' = Answers
      BY <1>2 DEF Frontier, Answers
    <3> QED
      BY <2>8, <3>1 DEF Answering
  <2> QED
    BY <2>a, <2>1, <2>2, <2>5, <2>9 DEF Reading
<1>7. CASE EndScan
  <2> USE <1>7 DEF EndScan, Scanning
  <2>a. Register'
    BY <1>1 DEF Register
  <2>1. CalibrationTypeOK'
    BY <1>1, <1>2 DEF CalibrationTypeOK
  <2>2. Disposed' /\ Closed'
    BY <1>1 DEF Disposed, Closed
  <2>b. Place'
    BY <1>1, <1>2 DEF Place
  <2>3. Answering'
    BY <1>1, <1>3 DEF Answering, Frontier, Answers
  <2> QED
    BY <2>a, <2>b, <2>1, <2>2, <2>3 DEF Reading
<1> QED
  BY <1>4, <1>5, <1>6, <1>7

(* The inner loop's steps keep the invariant.                              *)
LEMMA ReadingTable ==
    ASSUME Reading, NEW i \in Instruments[cells] \cup {HeadingRow},
           PassBlank \/ SkipRow \/ ReadRow(i) \/ CloseTable
    PROVE  Reading'
<1>1. /\ CalibrationTypeOK /\ Register /\ Place /\ Closed /\ Answering /\ Disposed
      /\ stage = "rows" /\ Frontier = position
  BY DEF Reading, PassBlank, SkipRow, ReadRow, CloseTable, InTable, Frontier
<1>2. /\ Len(lines) \in Nat /\ index \in 1 .. Len(lines) + 1 /\ position \in 0 .. Len(lines) + 1
      /\ lines \in Seq(LineKinds) /\ DOMAIN lines = 1 .. Len(lines)
      /\ \A n \in 1 .. Len(lines) : lines[n] \in LineKinds
  BY ReadingSays
<1>3. AnsweredBy(lines, position, Answers)
  BY <1>1 DEF Answering
<1>4. HeadingAt(lines, index) /\ index + 2 <= position /\ \A h \in index + 1 .. position - 1 : ~HeadingAt(lines, h)
  BY <1>1 DEF Place
<1>5. ASSUME position <= Len(lines), stage' = stage, position' = position + 1, lines' = lines,
             index' = index, disposition' = disposition,
             ~HeadingAt(lines, position), Answers \subseteq Answers',
             lines[position] \in RowKinds => position \in Answers'
      PROVE  Place' /\ Closed' /\ Answering' /\ Disposed'
  <2> DEFINE more == Answers'
  <2>0. /\ position \in Nat /\ AnsweredBy(lines, position, Answers) /\ Answers \subseteq more
        /\ lines[position] \in RowKinds => position \in more
    BY <1>2, <1>3, <1>5
  <2> HIDE DEF more
  <2>a. AnsweredBy(lines, position + 1, more)
    BY ONLY <2>0, AnswerMore
  <2>1. AnsweredBy(lines, position + 1, Answers')
    BY <2>a DEF more
  <2>2. Frontier' = position + 1
    BY <1>1, <1>5 DEF Frontier
  <2>3. \A h \in index + 1 .. (position + 1) - 1 : h \in index + 1 .. position - 1 \/ h = position
    BY <1>2
  <2>4. Place'
    BY <1>1, <1>2, <1>4, <1>5, <2>3 DEF Place
  <2>5. Answering'
    BY <1>5, <2>1, <2>2 DEF Answering
  <2>6. Closed'
    BY <1>1, <1>5 DEF Closed
  <2>7. Disposed'
    BY <1>1, <1>5 DEF Disposed
  <2> QED
    BY <2>4, <2>5, <2>6, <2>7
<1>6. CASE PassBlank
  <2> USE <1>6 DEF PassBlank, InTable
  <2>1. Register'
    BY <1>1 DEF Register
  <2>2. CalibrationTypeOK'
    <3>1. position' \in 0 .. Len(lines) + 1
      BY <1>2
    <3> QED
      BY <1>1, <3>1 DEF CalibrationTypeOK
  <2>3. ~HeadingAt(lines, position) /\ lines[position] \notin RowKinds
    BY DEF HeadingAt, RowKinds
  <2>4. Answers' = Answers
    BY DEF Answers
  <2>5. Place' /\ Closed' /\ Answering' /\ Disposed'
    BY <1>5, <2>3, <2>4
  <2> QED
    BY <2>1, <2>2, <2>5 DEF Reading
<1>7. CASE SkipRow
  <2> USE <1>7 DEF SkipRow, InTable
  <2>1. Register'
    BY <1>1 DEF Register
  <2>2. CalibrationTypeOK'
    <3>1. position' \in 0 .. Len(lines) + 1 /\ position \in DOMAIN lines
      BY <1>2, <1>4
    <3> QED
      BY <1>1, <3>1 DEF CalibrationTypeOK
  <2>3. ~HeadingAt(lines, position)
    BY DEF HeadingAt
  <2>4. Answers' = Answers \cup {position}
    BY DEF Answers
  <2>5. Place' /\ Closed' /\ Answering' /\ Disposed'
    BY <1>5, <2>3, <2>4
  <2> QED
    BY <2>1, <2>2, <2>5 DEF Reading
<1>8. CASE ReadRow(i)
  <2> USE <1>8 DEF ReadRow, InTable
  <2>0. i \in InstrumentCells
    BY <1>1, RegistersAssumption, CellsOfRows DEF Register
  <2>1. Register'
    BY <1>1, <2>0 DEF Register
  <2>4. {r.line : r \in rows'} = {r.line : r \in rows} \cup {position}
    <3> DEFINE record == [line |-> position, inst |-> i]
    <3>1. rows' = rows \cup {record} /\ record.line = position
      OBVIOUS
    <3> HIDE DEF record
    <3> QED
      BY ONLY <3>1
  <2>2. CalibrationTypeOK'
    <3>1. position' \in 0 .. Len(lines) + 1 /\ position \in 0 .. Len(lines)
      BY <1>2
    <3> QED
      BY <1>1, <2>4, <3>1 DEF CalibrationTypeOK
  <2>3. ~HeadingAt(lines, position)
    BY DEF HeadingAt, EndsTable, Pipe
  <2>5. Answers \subseteq Answers' /\ position \in Answers'
    BY <2>4 DEF Answers
  <2>6. Place' /\ Closed' /\ Answering' /\ Disposed'
    BY <1>5, <2>3, <2>5
  <2> QED
    BY <2>1, <2>2, <2>6 DEF Reading
<1>9. CASE CloseTable
  <2> USE <1>9 DEF CloseTable
  <2>0. index' = position
    BY <1>2, <1>4
  <2>1. Register'
    BY <1>1 DEF Register
  <2>2. CalibrationTypeOK'
    <3>1. position \in 1 .. Len(lines) + 1
      BY <1>2, <1>4
    <3> QED
      BY <1>1, <2>0, <3>1 DEF CalibrationTypeOK
  <2>3. Place' /\ Disposed'
    BY <1>1 DEF Place, Disposed
  <2>4. position <= Len(lines) => Ends(lines, position)
    BY <1>1 DEF InTable, EndsTable, Ends
  <2>5. index \in 1 .. Len(lines) /\ ClosedBy(lines, index) /\ position \in Nat
    BY <1>1, <1>2, <1>4 DEF Closed, HeadingAt
  <2>6. ClosedBy(lines, position)
    BY <1>2, <1>4, <2>4, <2>5, CloseAt
  <2>7. Closed' /\ Answering'
    BY <1>3, <2>0, <2>6 DEF Closed, Answering, Frontier, Answers
  <2> QED
    BY <2>1, <2>2, <2>3, <2>7 DEF Reading
<1> QED
  BY <1>6, <1>7, <1>8, <1>9

(* The answer keeps the invariant.                                         *)
LEMMA ReadingAnswer ==
    ASSUME Reading,
           \/ NothingRead \/ Dispose
           \/ \E i \in Instruments[cells] : ReadProse(i) \/ Raise(i)
    PROVE  Reading'
<1>1. /\ CalibrationTypeOK /\ Register /\ Place /\ Closed /\ Answering /\ Disposed
      /\ stage = "close" /\ Frontier = index
  BY DEF Reading, NothingRead, Dispose, ReadProse, Raise, Closing, Frontier
<1>2. Len(lines) \in Nat
  BY ReadingSays
<1>3. AnsweredBy(lines, index, Answers)
  BY <1>1 DEF Answering
<1>4. ASSUME UNCHANGED <<lines, index, position>>, stage' \in {"done", "raised"}, Answers' = Answers
      PROVE  Place' /\ Closed' /\ Answering'
  BY <1>1, <1>3, <1>4 DEF Place, Closed, Answering, Frontier
<1>5. CASE NothingRead
  <2> USE <1>5 DEF NothingRead
  <2>1. Register'
    BY <1>1 DEF Register
  <2>2. CalibrationTypeOK'
    BY <1>1 DEF CalibrationTypeOK
  <2>3. Disposed'
    BY DEF Disposed
  <2>4. Place' /\ Closed' /\ Answering'
    BY <1>4 DEF Answers
  <2> QED
    BY <2>1, <2>2, <2>3, <2>4 DEF Reading
<1>6. CASE Dispose
  <2> USE <1>6 DEF Dispose
  <2>1. Register'
    BY <1>1 DEF Register
  <2>2. CalibrationTypeOK'
    BY <1>1, DispositionIs DEF CalibrationTypeOK
  <2>3. Disposed'
    BY DEF Disposed
  <2>4. Place' /\ Closed' /\ Answering'
    BY <1>4 DEF Answers
  <2> QED
    BY <2>1, <2>2, <2>3, <2>4 DEF Reading
<1>7. ASSUME NEW i \in Instruments[cells], ReadProse(i)
      PROVE  Reading'
  <2> USE <1>7 DEF ReadProse
  <2> DEFINE told == [i EXCEPT !.prose = TRUE]
  <2>0. told \in InstrumentCells
    BY <1>1, RegistersAssumption, CellsOfRows DEF Register
  <2>a. rows' = {[line |-> 0, inst |-> told]}
    OBVIOUS
  <2> HIDE DEF told
  <2>1. Register'
    <3>1. lines' = lines /\ cells' = cells
      OBVIOUS
    <3> QED
      BY ONLY <1>1, <2>0, <2>a, <3>1 DEF Register
  <2>b. {r.line : r \in rows'} = {0} /\ rows' # {} /\ 0 \in 0 .. Len(lines)
    BY <1>2, <2>a
  <2>2. CalibrationTypeOK'
    BY <1>1, <2>b, DispositionIs DEF CalibrationTypeOK
  <2>3. Disposed'
    BY <2>b DEF Disposed
  <2>4. Place' /\ Closed'
    BY <1>1 DEF Place, Closed
  <2>5. Answers \subseteq Answers'
    BY DEF Answers
  <2>6. Answering'
    BY <1>1, <1>3, <2>5 DEF Answering, AnsweredBy, Frontier
  <2> QED
    BY <2>1, <2>2, <2>3, <2>4, <2>6 DEF Reading
<1>8. ASSUME NEW i \in Instruments[cells], Raise(i)
      PROVE  Reading'
  <2> USE <1>8 DEF Raise
  <2>1. Register'
    BY <1>1 DEF Register
  <2>2. CalibrationTypeOK'
    BY <1>1 DEF CalibrationTypeOK
  <2>3. Disposed'
    BY <1>1 DEF Disposed
  <2>4. Place' /\ Closed' /\ Answering'
    BY <1>4 DEF Answers
  <2> QED
    BY <2>1, <2>2, <2>3, <2>4 DEF Reading
<1> QED
  BY <1>5, <1>6, <1>7, <1>8

(* Every step of the reading keeps its invariant.                          *)
LEMMA ReadingHolds ==
    CalibrationSpec => []Reading
<1>1. ASSUME Reading, [CalibrationNext]_calibrationVars
      PROVE  Reading'
  <2>1. CASE PassLine \/ SkipTable \/ OpenTable \/ EndScan
    BY <1>1, <2>1, ReadingScan
  <2>2. CASE PassBlank \/ SkipRow \/ CloseTable \/ \E i \in Instruments[cells] \cup {HeadingRow} : ReadRow(i)
    BY <1>1, <2>2, ReadingTable
  <2>3. CASE \/ NothingRead \/ Dispose
             \/ \E i \in Instruments[cells] : ReadProse(i) \/ Raise(i)
    BY <1>1, <2>3, ReadingAnswer
  <2>4. CASE UNCHANGED calibrationVars
    <3> USE <1>1, <2>4 DEF calibrationVars, Reading
    <3>1. Register'
      BY DEF Register
    <3>2. CalibrationTypeOK'
      BY DEF CalibrationTypeOK
    <3>3. Place' /\ Closed' /\ Disposed'
      BY DEF Place, Closed, Disposed
    <3>4. Answering'
      BY DEF Answering, Frontier, Answers
    <3> QED
      BY <3>1, <3>2, <3>3, <3>4
  <2> QED
    BY <1>1, <2>1, <2>2, <2>3, <2>4 DEF CalibrationNext
<1> QED
  BY <1>1, ReadingInit, PTL DEF CalibrationSpec

(* The reader of a register never leaves the text: both of its places stay *)
(* within it or one past its end, what it skips and what it reads are      *)
(* lines of it, and its answer is one of the seven (parse_table_report,    *)
(* check_calibration).                                                     *)
THEOREM CalibrationTypes == CalibrationSpec => []CalibrationTypeOK
<1>1. Reading => CalibrationTypeOK
  BY DEF Reading
<1> QED
  BY <1>1, ReadingHolds, PTL

(* A cleared register is one in which nothing was skipped, every date was  *)
(* read, every recorded error is within its tolerance and every reading    *)
(* was taken in time, for every register and every valve (assess and the   *)
(* disposition of check_calibration).                                      *)
THEOREM ClearedIsEarned == CalibrationSpec => []AllClearIsEarned
<1>1. Reading => AllClearIsEarned
  <2> SUFFICES ASSUME Reading, disposition \in {"ALL CURRENT", "CALIBRATION DUE"}
               PROVE  /\ skipped = {} /\ rows # {}
                      /\ \A i \in {r.inst : r \in rows} :
                            /\ UnreadableDates(i) = {}
                            /\ ParseDate(i.last) # NoDate => Ordinal(ParseDate(i.last)) <= When
                            /\ Recorded(i) => WithinTolerance(i)
                            /\ Limits(i) # {}
                            /\ \A d \in Limits(i) :
                                  When <= IF disposition = "ALL CURRENT" THEN d
                                          ELSE d + 1 + AtLeastZero(GraceDays)
    BY DEF AllClearIsEarned
  <2>1. rows # {} /\ disposition = Disposition(rows, skipped)
    BY DEF Reading, Disposed
  <2>3. /\ skipped = {}
        /\ \A j \in {r.inst : r \in rows} :
              /\ ToleranceVerdict(j) # "OUT OF TOLERANCE" /\ Status(j) # "OVERDUE"
              /\ ~Incomplete(j)
              /\ disposition = "ALL CURRENT" => Status(j) \notin {"DUE SOON", "PAST DUE (GRACE)"}
    BY <2>1, ClearSays, Zenon
  <2>4. ASSUME NEW i \in {r.inst : r \in rows}
        PROVE  /\ UnreadableDates(i) = {}
               /\ ParseDate(i.last) # NoDate => Ordinal(ParseDate(i.last)) <= When
               /\ Recorded(i) => WithinTolerance(i)
               /\ Limits(i) # {}
               /\ \A d \in Limits(i) :
                     When <= IF disposition = "ALL CURRENT" THEN d
                             ELSE d + 1 + AtLeastZero(GraceDays)
    <3>1. i \in InstrumentCells
      BY DEF Reading, Register
    <3>2. /\ ToleranceVerdict(i) # "OUT OF TOLERANCE" /\ Status(i) # "OVERDUE" /\ ~Incomplete(i)
          /\ disposition = "ALL CURRENT" => Status(i) \notin {"DUE SOON", "PAST DUE (GRACE)"}
      BY <2>3, Zenon
    <3>3. /\ UnreadableDates(i) = {}
          /\ ParseDate(i.last) # NoDate => Ordinal(ParseDate(i.last)) <= When
          /\ Recorded(i) => WithinTolerance(i)
          /\ Limits(i) # {}
          /\ \A d \in Limits(i) : When <= d + 1 + AtLeastZero(GraceDays)
          /\ Status(i) \notin {"DUE SOON", "PAST DUE (GRACE)"} => \A d \in Limits(i) : When <= d
      BY ONLY <3>1, <3>2, ClearedInstrument
    <3>4. \A d \in Limits(i) :
             When <= IF disposition = "ALL CURRENT" THEN d ELSE d + 1 + AtLeastZero(GraceDays)
      BY ONLY <3>2, <3>3
    <3> QED
      BY ONLY <3>3, <3>4
  <2> QED
    BY ONLY <2>1, <2>3, <2>4
<1> QED
  BY <1>1, ReadingHolds, PTL

(* One instrument out of its tolerance, or read past the grace of either   *)
(* of its limits, is named in the answer whatever else the register holds, *)
(* for every register and every valve (the first branches of the           *)
(* disposition).                                                           *)
THEOREM DoubtIsAlwaysNamed == CalibrationSpec => []DoubtIsNamed
<1>1. Reading => DoubtIsNamed
  <2> SUFFICES ASSUME Reading, stage = "done", NEW i \in {r.inst : r \in rows},
                      \/ /\ Readable(i.found) /\ Readable(i.tolerance)
                         /\ i.found.unit = i.tolerance.unit
                         /\ ~WithinTolerance(i)
                      \/ /\ ParseDate(i.last) # NoDate => Ordinal(ParseDate(i.last)) <= When
                         /\ \E d \in Limits(i) : When > d + 1 + AtLeastZero(GraceDays)
               PROVE  disposition \in {"OUT OF CALIBRATION - RESULTS IN DOUBT",
                                       "OUT OF TOLERANCE - RESULTS IN DOUBT"}
    BY DEF DoubtIsNamed
  <2>1. i \in InstrumentCells
    BY DEF Reading, Register
  <2>2. disposition = Disposition(rows, skipped)
    BY DEF Reading, Disposed
  <2>3. ToleranceVerdict(i) = "OUT OF TOLERANCE" \/ Status(i) = "OVERDUE"
    BY <2>1, FailedInstrument
  <2> QED
    BY <2>2, <2>3, DoubtSays
<1> QED
  BY <1>1, ReadingHolds, PTL

(* Every table line below a register heading is in the answer, read or     *)
(* skipped, for a text of any length (parse_table_report).                 *)
THEOREM EveryRowIsAnswered == CalibrationSpec => []RowsAreAnswered
<1>1. Reading => RowsAreAnswered
  <2> SUFFICES ASSUME Reading, stage = "done", NEW n \in DOMAIN lines,
                      lines[n] \in RowKinds, UnderHeading(n)
               PROVE  Answered(n)
    BY DEF RowsAreAnswered, RowKinds
  <2>1. /\ Len(lines) \in Nat /\ index \in 1 .. Len(lines) + 1 /\ position \in 0 .. Len(lines) + 1
        /\ lines \in Seq(LineKinds) /\ DOMAIN lines = 1 .. Len(lines)
    BY ReadingSays
  <2>2. n \in 1 .. Len(lines) /\ Under(lines, n)
    BY <2>1 DEF UnderHeading, Under
  <2>3. index >= Len(lines) /\ AnsweredBy(lines, index, Answers) /\ ClosedBy(lines, index)
    BY DEF Reading, Place, Answering, Frontier, Closed
  <2>4. n # index
    BY <2>1, <2>2, <2>3, RowBelowIsHeading
  <2>5. n \in 1 .. index - 1
    BY <2>1, <2>2, <2>3, <2>4
  <2>6. n \in Answers
    BY <2>2, <2>3, <2>5 DEF AnsweredBy
  <2> QED
    BY <2>6 DEF Answers, Answered
<1> QED
  BY <1>1, ReadingHolds, PTL
=============================================================================
