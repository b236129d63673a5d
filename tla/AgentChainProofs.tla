--------------------------- MODULE AgentChainProofs ---------------------------
(***************************************************************************)
(* Theorems about one turn of the orchestrator, for every set of requests  *)
(* and settings and any number of artifacts.                               *)
(***************************************************************************)
EXTENDS AgentChain, SequenceTheorems, TLAPS

USE DEF record

-----------------------------------------------------------------------------
(* Facts about the data the actions are built from *)

(* Text grows by whole sections.                                           *)
LEMMA TextType ==
  /\ <<>> \in Text
  /\ \A t \in Text, s \in Sections : Append(t, s) \in Text
  /\ \A s \in Sections : <<s>> \in Text
  BY DEF Text

(* An entry with a known action and subject extends a record.              *)
LEMMA EntryType ==
  ASSUME NEW t \in Entries, NEW a \in EntryActions, NEW o \in Subjects
  PROVE  Append(t, Entry(a, o)) \in Entries
  BY DEF Entries, Entry

(* A status event keeps the type of the history.                           *)
LEMMA SayType ==
  ASSUME status \in StatusHistory, NEW mark, NEW done \in BOOLEAN,
         Say(mark, done)
  PROVE  status' \in StatusHistory
  BY DEF Say, StatusHistory

(* Storing an answer keeps the type of the message.                        *)
LEMMA StoreType ==
  ASSUME message \in Messages, NEW c \in Contents, Store(c)
  PROVE  message' \in Messages
  BY DEF Store, Messages

(* The stages the tools before FRIDAY lead to.                             *)
Onward == {"audit", "image", "sop", "sheet", "survey", "calc", "friday"}

(* They are stages of the turn.                                            *)
LEMMA OnwardStages == Onward \subseteq Stages
  BY DEF Onward, Stages

(* Whatever the tools returned, the next stage is one of these.            *)
LEMMA AfterType ==
  ASSUME NEW g
  PROVE  /\ AfterSurvey \in Onward
         /\ AfterSheet(g) \in Onward
         /\ AfterSop(g) \in Onward
         /\ AfterImage(g) \in Onward
         /\ AfterAudit(g) \in Onward
         /\ AfterRoute(g) \in Onward
<1> USE DEF Onward
<1>1. AfterSurvey \in Onward
  BY DEF AfterSurvey
<1>2. AfterSheet(g) \in Onward
  BY <1>1 DEF AfterSheet
<1>3. AfterSop(g) \in Onward
  BY <1>2 DEF AfterSop
<1>4. AfterImage(g) \in Onward
  BY <1>3 DEF AfterImage
<1>5. AfterAudit(g) \in Onward
  BY <1>4 DEF AfterAudit
<1>6. AfterRoute(g) \in Onward
  BY <1>5 DEF AfterRoute
<1>. QED
  BY <1>1, <1>2, <1>3, <1>4, <1>5, <1>6

(* Moving on to a stage keeps the types of pc and attempts.                *)
LEMMA ProceedType ==
  ASSUME attempts \in Nat, NEW s \in Stages, Proceed(s)
  PROVE  pc' \in Stages /\ attempts' \in Nat
  BY DEF Proceed

(* What a release writes are files of a release.                           *)
LEMMA FilingsType ==
  ASSUME NEW n \in 0..MaxArtifacts
  PROVE  Filings(n) \in Seq(Released)
<1> DEFINE m == IF Attached("save_artifact") THEN n ELSE 0
           a == [i \in 1..m |-> "artifact"]
           x == IF "xlsx" \in req.office THEN <<"xlsx">> ELSE <<>>
           p == IF "pptx" \in req.office THEN <<"pptx">> ELSE <<>>
           c == IF planned THEN <<"copy">> ELSE <<>>
           w == IF req.task \in {"document", "vision"} THEN <<"word">> ELSE <<>>
<1>1. m \in Nat
  BY MaxArtifactsAssumption
<1>2. a \in Seq(Released)
  <2> HIDE DEF m
  <2>. QED BY <1>1 DEF Released
<1>3. /\ <<>> \in Seq(Released) /\ <<"xlsx">> \in Seq(Released)
      /\ <<"pptx">> \in Seq(Released) /\ <<"copy">> \in Seq(Released)
      /\ <<"word">> \in Seq(Released)
  BY DEF Released
<1>4. /\ x \in Seq(Released) /\ p \in Seq(Released)
      /\ c \in Seq(Released) /\ w \in Seq(Released)
  BY <1>3, Zenon
<1>5. Filings(n) = <<>> \/ Filings(n) = a \o x \o p \o c \o w
  BY DEF Filings
<1> HIDE DEF a, x, p, c, w
<1>6. a \o x \in Seq(Released)
  BY <1>2, <1>4, ConcatProperties
<1>7. a \o x \o p \in Seq(Released)
  BY <1>6, <1>4, ConcatProperties
<1>8. a \o x \o p \o c \in Seq(Released)
  BY <1>7, <1>4, ConcatProperties
<1>9. a \o x \o p \o c \o w \in Seq(Released)
  BY <1>8, <1>4, ConcatProperties
<1>. QED
  BY <1>3, <1>5, <1>9

-----------------------------------------------------------------------------
(* Type correctness *)

(* The initial state has its type.                                         *)
LEMMA InitTypeOK == Init => TypeOK
<1> SUFFICES ASSUME Init PROVE TypeOK
  OBVIOUS
<1>1. InputsOK
  BY RequestsAssumption, SettingsAssumption DEF Init, InputsOK
<1>2. ControlOK
  BY DEF Init, ControlOK, Stages
<1>3. DraftOK
  BY TextType DEF Init, DraftOK
<1>4. GateOK
  BY TextType DEF Init, GateOK
<1>5. FilesOK
  BY DEF Init, FilesOK
<1>6. ChatOK
  <2>1. NoContent \in Contents
    BY DEF NoContent, Contents
  <2>2. QED
    BY <2>1 DEF Init, ChatOK, Entries, StatusHistory, Messages
<1>7. RecordOK
  BY DEF Init, RecordOK, Echoes
<1>8. QED
  BY <1>1, <1>2, <1>3, <1>4, <1>5, <1>6, <1>7 DEF TypeOK

(* A part of the state that a step leaves alone keeps its type.            *)
LEMMA FrameType ==
  ASSUME TypeOK
  PROVE  /\ UNCHANGED inputs => InputsOK'
         /\ UNCHANGED draftVars => DraftOK'
         /\ UNCHANGED gateVars => GateOK'
         /\ UNCHANGED <<todo, files>> => FilesOK'
         /\ UNCHANGED chatVars /\ UNCHANGED trail => ChatOK'
<1>1. UNCHANGED inputs => InputsOK'
  BY DEF TypeOK, InputsOK, inputs
<1>2. UNCHANGED draftVars => DraftOK'
  BY DEF TypeOK, DraftOK, draftVars
<1>3. UNCHANGED gateVars => GateOK'
  BY DEF TypeOK, GateOK, gateVars
<1>4. UNCHANGED <<todo, files>> => FilesOK'
  BY DEF TypeOK, FilesOK
<1>5. UNCHANGED chatVars /\ UNCHANGED trail => ChatOK'
  BY DEF TypeOK, ChatOK, chatVars
<1>. QED
  BY <1>1, <1>2, <1>3, <1>4, <1>5

(* A step hands entries to the trail, some of which may be refused, or     *)
(* leaves the record alone; only the end of a turn chooses its words.      *)
LEMMA RecordStep ==
  ASSUME [Next]_vars
  PROVE  /\ Recording \/ UNCHANGED refused
         /\ echo' \in Echoes \/ UNCHANGED echo
<1>1. CASE Decline \/ Admit \/ Retrieve \/ NoModel \/ Route \/ ChatReply
           \/ ReadImage \/ Annotate \/ Finish \/ Close \/ Return \/ RecordStop
           \/ Cancel
  BY <1>1, EchoedAssumption DEF Decline, Admit, Retrieve, NoModel, Route, ChatReply, ReadImage,
     Annotate, Finish, Close, Return, RecordStop, Cancel, ModelCall, Log, chatVars
<1>2. CASE AuditSovereignty \/ CheckRequestSop \/ ReadSheet \/ CheckSurvey
           \/ CalculateLife \/ CheckAnalysisSop
  BY <1>2 DEF AuditSovereignty, CheckRequestSop, ReadSheet, CheckSurvey,
     CalculateLife, CheckAnalysisSop, Gather, Consult, Log
<1>3. CASE FridayAnalyses \/ JarvisDrafts \/ PreviewSheet \/ StoreProduced
           \/ LogProduced \/ RunCode \/ UltronJudges
  BY <1>3 DEF FridayAnalyses, JarvisDrafts, PreviewSheet, StoreProduced,
     LogProduced, RunCode, UltronJudges, ModelCall, Log, chatVars
<1>4. CASE Conclude \/ SignOff
  <2>1. (\E d, e : Release(d, e)) \/ (\E d, o : Withhold(d, o)) \/ Recording
    BY <1>4 DEF Conclude, SignOff
  <2>2. Recording
    BY <2>1 DEF Release, Withhold, Log
  <2>3. UNCHANGED echo
    BY <1>4 DEF Conclude, SignOff
  <2>. QED BY <2>2, <2>3
<1>5. CASE StoreFile \/ LogFile \/ FileReturned \/ FileNotWritten
  BY <1>5 DEF StoreFile, LogFile, FileReturned, FileNotWritten, NextFile, Log,
     chatVars
<1>6. CASE UNCHANGED vars
  BY <1>6 DEF vars, chatVars
<1>7. CASE Work
  BY <1>1, <1>2, <1>3, <1>4, <1>5, <1>7 DEF Work
<1>. QED
  BY <1>1, <1>6, <1>7 DEF Next

(* Every step keeps the type, given that files are still to be written     *)
(* while the release is writing them.                                      *)
LEMMA NextTypeOK == TypeOK /\ GateInvariant /\ [Next]_vars => TypeOK'
<1> SUFFICES ASSUME TypeOK, GateInvariant, [Next]_vars
             PROVE  TypeOK'
  OBVIOUS
<1>r. RecordOK'
  <2>1. trail \in Seq([action : EntryActions, of : Subjects]) /\ RecordOK
    BY DEF TypeOK, ChatOK, Entries
  <2>2. Len(trail) \in Nat
    BY <2>1
  <2>3. Recording => refused' \subseteq Nat
    <3> SUFFICES ASSUME Recording PROVE refused' \subseteq Nat
      OBVIOUS
    <3>1. PICK lost \in SUBSET {i \in (Len(trail) + 1)..Len(trail') : trail'[i].action \in Fallible} :
            refused' = refused \cup lost
      BY DEF Recording
    <3>2. lost \subseteq Nat
      BY <2>2, <3>1
    <3>. QED BY <2>1, <3>1, <3>2 DEF RecordOK
  <2>. QED BY <2>1, <2>3, RecordStep DEF RecordOK
<1> USE FrameType, <1>r
<1>0. InputsOK /\ ControlOK /\ DraftOK /\ GateOK /\ FilesOK /\ ChatOK
  BY DEF TypeOK
<1>e. ASSUME NEW a \in EntryActions, NEW o \in Subjects
      PROVE  Append(trail, Entry(a, o)) \in Entries
  BY <1>0, EntryType DEF ChatOK
<1>1. CASE Decline
  <2>1. ControlOK'
    BY <1>0, <1>1 DEF Decline, ControlOK, fileVars, Ended
  <2>2. ChatOK'
    <3>1. [kind |-> "notice", receipt |-> "none"] \in Contents
      BY DEF Contents
    <3>2. status' \in StatusHistory
      BY <1>0, <1>1, SayType DEF Decline, ChatOK
    <3>3. message' \in Messages
      BY <1>0, <1>1, <3>1, StoreType DEF Decline, ChatOK
    <3>. QED BY <1>0, <1>1, <3>1, <3>2, <3>3 DEF Decline, ChatOK, Answer
  <2>. QED BY <1>1, <2>1, <2>2 DEF TypeOK, Decline, fileVars
<1>2. CASE Admit
  <2>1. ControlOK'
    BY <1>0, <1>2 DEF Admit, ControlOK, fileVars, Stages
  <2>2. ChatOK'
    BY <1>0, <1>e, <1>2, SayType
    DEF Admit, ChatOK, Log, EntryActions, Subjects
  <2>. QED BY <1>2, <2>1, <2>2 DEF TypeOK, Admit, fileVars
<1>3. CASE Retrieve
  <2>1. ControlOK'
    BY <1>0, <1>3 DEF Retrieve, ControlOK, fileVars, Stages
  <2>2. ChatOK'
    BY <1>0, <1>e, <1>3 DEF Retrieve, ChatOK, chatVars, Log, EntryActions, Subjects
  <2>. QED BY <1>3, <2>1, <2>2 DEF TypeOK, Retrieve, fileVars
<1>4. CASE NoModel
  <2>1. ControlOK'
    BY <1>0, <1>4 DEF NoModel, ControlOK, fileVars, Ended
  <2>2. ChatOK'
    <3>1. [kind |-> "notice", receipt |-> "none"] \in Contents
      BY DEF Contents
    <3>2. status' \in StatusHistory /\ message' \in Messages
      BY <1>0, <1>4, <3>1, SayType, StoreType DEF NoModel, ChatOK
    <3>. QED BY <1>0, <1>4, <3>1, <3>2 DEF NoModel, ChatOK, Answer
  <2>. QED BY <1>4, <2>1, <2>2 DEF TypeOK, NoModel, fileVars
<1>5. CASE Route
  <2>1. pc' \in Stages /\ attempts' \in Nat
    BY <1>0, <1>5, AfterType, OnwardStages, ProceedType DEF Route, DraftOK, Stages
  <2>2. ControlOK'
    BY <1>0, <1>5, <2>1 DEF Route, ControlOK, fileVars
  <2>3. DraftOK'
    BY <1>0, <1>5, <2>1 DEF Route, DraftOK
  <2>4. ChatOK'
    BY <1>0, <1>e, <1>5, SayType
    DEF Route, ChatOK, Log, EntryActions, Subjects
  <2>. QED BY <1>5, <2>2, <2>3, <2>4 DEF TypeOK, Route, fileVars
<1>6. CASE ChatReply
  <2>1. ControlOK'
    BY <1>0, <1>6 DEF ChatReply, ControlOK, fileVars, Stages
  <2>2. ChatOK'
    <3>1. answer' \in Contents
      <4>1. /\ [kind |-> "error", receipt |-> "none"] \in Contents
            /\ [kind |-> "direct", receipt |-> "none"] \in Contents
        BY DEF Contents
      <4>. QED BY <1>6, <4>1 DEF ChatReply, Answer
    <3>2. status' \in StatusHistory
      BY <1>0, <1>6, SayType DEF ChatReply, ChatOK
    <3>3. trail' \in Entries
      BY <1>e, <1>6 DEF ChatReply, ModelCall, Log, EntryActions, Subjects, Agents
    <3>. QED BY <1>0, <1>6, <3>1, <3>2, <3>3 DEF ChatReply, ChatOK
  <2>. QED BY <1>6, <2>1, <2>2 DEF TypeOK, ChatReply, fileVars
<1>7. ASSUME NEW stage \in {"audit", "sop", "sheet", "survey", "calc"},
             NEW tool \in Tools, NEW next \in Stages,
             Gather(stage, tool, next)
      PROVE  TypeOK'
  <2>1. pc' \in Stages /\ attempts' \in Nat
    BY <1>0, <1>7, ProceedType DEF Gather, DraftOK
  <2>2. ControlOK'
    BY <1>0, <1>7, <2>1 DEF Gather, ControlOK, fileVars
  <2>3. DraftOK'
    BY <1>0, <1>7, <2>1 DEF Gather, DraftOK
  <2>4. ChatOK'
    BY <1>0, <1>e, <1>7, SayType
    DEF Gather, Consult, ChatOK, Log, EntryActions, Subjects
  <2>. QED BY <1>7, <2>2, <2>3, <2>4 DEF TypeOK, Gather, fileVars
<1>8. CASE AuditSovereignty
  BY <1>7, <1>8, AfterType, OnwardStages DEF AuditSovereignty, Tools
<1>9. CASE CheckRequestSop
  BY <1>7, <1>9, AfterType, OnwardStages DEF CheckRequestSop, Tools
<1>10. CASE ReadSheet
  BY <1>7, <1>10, AfterType, OnwardStages DEF ReadSheet, Tools
<1>11. CASE CheckSurvey
  BY <1>7, <1>11, AfterType, OnwardStages DEF CheckSurvey, Tools
<1>12. CASE CalculateLife
  BY <1>7, <1>12 DEF CalculateLife, Tools, Stages
<1>13. CASE ReadImage
  <2>1. pc' \in Stages /\ attempts' \in Nat
    BY <1>0, <1>13, AfterType, OnwardStages, ProceedType
    DEF ReadImage, DraftOK, Stages
  <2>2. ControlOK'
    BY <1>0, <1>13, <2>1 DEF ReadImage, ControlOK, fileVars
  <2>3. DraftOK'
    BY <1>0, <1>13, <2>1 DEF ReadImage, DraftOK
  <2>4. ChatOK'
    BY <1>0, <1>e, <1>13, SayType
    DEF ReadImage, ChatOK, ModelCall, Log, EntryActions, Subjects, Agents
  <2>. QED BY <1>13, <2>2, <2>3, <2>4 DEF TypeOK, ReadImage, fileVars
<1>14. CASE Annotate
  <2>1. pc' \in Stages /\ attempts' \in Nat
    BY <1>0, <1>14, AfterType, OnwardStages, ProceedType DEF Annotate, DraftOK
  <2>2. ControlOK'
    BY <1>0, <1>14, <2>1 DEF Annotate, ControlOK
  <2>3. DraftOK'
    BY <1>0, <1>14, <2>1 DEF Annotate, DraftOK
  <2>4. FilesOK'
    BY <1>0, <1>14 DEF Annotate, FilesOK, Drafted
  <2>. QED BY <1>14, <2>2, <2>3, <2>4 DEF TypeOK, Annotate
<1>15. ASSUME Fail
       PROVE  pc' \in Stages /\ status' \in StatusHistory /\ answer' \in Contents
  <2>1. [kind |-> "error", receipt |-> "none"] \in Contents
    BY DEF Contents
  <2>. QED BY <1>0, <1>15, <2>1, SayType DEF Fail, ChatOK, Answer, Stages
<1>16. CASE FridayAnalyses
  <2>1. ControlOK'
    BY <1>0, <1>15, <1>16 DEF FridayAnalyses, ControlOK, fileVars, Stages
  <2>2. ChatOK'
    <3>1. trail' \in Entries
      BY <1>e, <1>16 DEF FridayAnalyses, ModelCall, Log, EntryActions, Subjects, Agents
    <3>2. status' \in StatusHistory /\ answer' \in Contents
      BY <1>0, <1>15, <1>16, SayType DEF FridayAnalyses, ChatOK
    <3>. QED BY <1>0, <1>16, <3>1, <3>2 DEF FridayAnalyses, ChatOK
  <2>. QED BY <1>16, <2>1, <2>2 DEF TypeOK, FridayAnalyses, fileVars
<1>17. CASE CheckAnalysisSop
  <2>1. ControlOK'
    BY <1>0, <1>17 DEF CheckAnalysisSop, ControlOK, fileVars, Stages
  <2>2. ChatOK'
    BY <1>0, <1>e, <1>17, SayType
    DEF CheckAnalysisSop, Consult, ChatOK, Log, EntryActions, Subjects, Tools
  <2>. QED BY <1>17, <2>1, <2>2 DEF TypeOK, CheckAnalysisSop, fileVars
<1>18. ASSUME NEW text \in Text, NEW hasCode \in BOOLEAN,
              FinishDraft(text, hasCode)
       PROVE  /\ pc' \in Stages
              /\ deliverable' \in Text
              /\ ran' \in {"none", "ok", "unverified", "problem", "final"}
              /\ verdict' \in Verdicts \cup {"none"}
  <2>1. deliverable' \in Text
    BY <1>18, TextType DEF FinishDraft, Sections
  <2>2. pc' \in Stages
    BY <1>18 DEF FinishDraft, Stages
  <2>3. ran' \in {"none", "ok", "unverified", "problem", "final"}
    BY <1>0, <1>18 DEF FinishDraft, DraftOK, NotExecuted
  <2>4. verdict' \in Verdicts \cup {"none"}
    BY <1>0, <1>18 DEF FinishDraft, DraftOK, Verdicts
  <2>. QED BY <2>1, <2>2, <2>3, <2>4
<1>19. CASE JarvisDrafts
  <2> DEFINE draft == <<IF attempts = 1 THEN "draft 1" ELSE "draft 2">>
  <2>1. draft \in Text
    BY TextType DEF Sections
  <2>2. trail' \in Entries
    BY <1>e, <1>19 DEF JarvisDrafts, ModelCall, Log, EntryActions, Subjects, Agents
  <2>3. CASE Fail /\ UNCHANGED <<deliverable, planned, ran, verdict>>
    <3>1. ControlOK'
      BY <1>0, <1>15, <1>19, <2>3 DEF JarvisDrafts, ControlOK, fileVars
    <3>2. DraftOK'
      BY <1>0, <1>19, <2>3 DEF JarvisDrafts, DraftOK
    <3>3. ChatOK'
      BY <1>0, <1>15, <1>19, <2>2, <2>3 DEF JarvisDrafts, ChatOK
    <3>. QED BY <1>19, <3>1, <3>2, <3>3 DEF TypeOK, JarvisDrafts, fileVars
  <2>4. CASE /\ planned' \in BOOLEAN
             /\ planned' => "sheet" \in got
             /\ IF planned' /\ Attached("write_sheet")
                THEN /\ pc' = "preview"
                     /\ deliverable' = draft
                     /\ UNCHANGED <<ran, verdict>>
                ELSE \E hasCode \in BOOLEAN : FinishDraft(draft, hasCode)
             /\ Say("jarvis", FALSE)
             /\ UNCHANGED answer
    <3>1. planned' \in BOOLEAN
      BY <2>4
    <3> HIDE DEF draft
    <3>2. /\ pc' \in Stages
          /\ deliverable' \in Text
          /\ ran' \in {"none", "ok", "unverified", "problem", "final"}
          /\ verdict' \in Verdicts \cup {"none"}
      <4>1. CASE planned' /\ Attached("write_sheet")
        BY <1>0, <2>1, <2>4, <4>1 DEF DraftOK, Stages
      <4>2. CASE ~(planned' /\ Attached("write_sheet"))
        BY <1>18, <2>1, <2>4, <4>2
      <4>. QED BY <4>1, <4>2
    <3>3. ControlOK'
      BY <1>0, <1>19, <3>2 DEF JarvisDrafts, ControlOK, fileVars
    <3>4. DraftOK'
      BY <1>0, <1>19, <3>1, <3>2 DEF JarvisDrafts, DraftOK
    <3>5. ChatOK'
      BY <1>0, <1>19, <2>2, <2>4, SayType DEF JarvisDrafts, ChatOK
    <3>. QED BY <1>19, <3>3, <3>4, <3>5 DEF TypeOK, JarvisDrafts, fileVars
  <2>. QED BY <1>19, <2>3, <2>4 DEF JarvisDrafts
<1>20. CASE PreviewSheet
  <2>1. /\ pc' \in Stages
        /\ deliverable' \in Text
        /\ ran' \in {"none", "ok", "unverified", "problem", "final"}
        /\ verdict' \in Verdicts \cup {"none"}
    <3>1. PICK applies \in BOOLEAN, hasCode \in BOOLEAN :
            FinishDraft(IF applies THEN Append(deliverable, "preview")
                        ELSE deliverable, hasCode)
      BY <1>20 DEF PreviewSheet
    <3>2. (IF applies THEN Append(deliverable, "preview") ELSE deliverable) \in Text
      BY <1>0, TextType DEF DraftOK, Sections
    <3>. QED BY <1>18, <3>1, <3>2
  <2>2. ControlOK'
    BY <1>0, <1>20, <2>1 DEF PreviewSheet, ControlOK, fileVars
  <2>3. DraftOK'
    BY <1>0, <1>20, <2>1 DEF PreviewSheet, DraftOK
  <2>4. ChatOK'
    BY <1>0, <1>e, <1>20
    DEF PreviewSheet, ChatOK, chatVars, Log, EntryActions, Subjects, Tools
  <2>. QED BY <1>20, <2>2, <2>3, <2>4 DEF TypeOK, PreviewSheet, fileVars
<1>21. CASE StoreProduced
  <2>1. ControlOK'
    BY <1>0, <1>21 DEF StoreProduced, ControlOK
  <2>2. FilesOK'
    BY <1>0, <1>21 DEF StoreProduced, FilesOK, Drafted
  <2>. QED BY <1>21, <2>1, <2>2 DEF TypeOK, StoreProduced
<1>22. CASE LogProduced
  <2>1. ControlOK'
    BY <1>0, <1>22 DEF LogProduced, ControlOK
  <2>2. ChatOK'
    BY <1>0, <1>e, <1>22
    DEF LogProduced, ChatOK, chatVars, Log, EntryActions, Subjects, Drafted
  <2>. QED BY <1>22, <2>1, <2>2 DEF TypeOK, LogProduced
<1>23. CASE RunCode
  <2>1. ControlOK'
    BY <1>0, <1>23 DEF RunCode, ControlOK, Stages
  <2>2. DraftOK'
    <3>1. deliverable' \in Text
      BY <1>0, <1>23, TextType DEF RunCode, DraftOK, Sections
    <3>2. verdict' \in Verdicts \cup {"none"}
      BY <1>0, <1>23 DEF RunCode, DraftOK, Verdicts
    <3>3. ran' \in {"none", "ok", "unverified", "problem", "final"}
      BY <1>23 DEF RunCode, Outcomes
    <3>. QED BY <1>0, <1>23, <3>1, <3>2, <3>3 DEF RunCode, DraftOK
  <2>3. ChatOK'
    BY <1>0, <1>e, <1>23, SayType
    DEF RunCode, ChatOK, Log, InputsOK, Setting, EntryActions, Subjects, Tools
  <2>. QED BY <1>23, <2>1, <2>2, <2>3 DEF TypeOK, RunCode
<1>24. CASE UltronJudges
  <2>1. pc' \in Stages /\ attempts' \in Nat
    BY <1>0, <1>24, ProceedType DEF UltronJudges, DraftOK, Stages
  <2>2. verdict' \in Verdicts
    BY <1>24 DEF UltronJudges, Words, Verdict, Verdicts
  <2>3. ControlOK'
    BY <1>0, <1>24, <2>1 DEF UltronJudges, ControlOK, fileVars
  <2>4. DraftOK'
    BY <1>0, <1>24, <2>1, <2>2 DEF UltronJudges, DraftOK
  <2>5. ChatOK'
    BY <1>0, <1>e, <1>24, SayType
    DEF UltronJudges, ChatOK, ModelCall, Log, EntryActions, Subjects, Agents
  <2>. QED BY <1>24, <2>3, <2>4, <2>5 DEF TypeOK, UltronJudges, fileVars
<1>25. ASSUME NEW decision \in Decisions, NEW entries \in Entries,
              Release(decision, entries)
       PROVE  /\ pc' \in Stages
              /\ approval' \in Decisions
              /\ fingerprint' \in Text
              /\ todo' \in Seq(Released)
              /\ trail' \in Entries
  <2>1. fingerprint' \in Text
    BY <1>0, <1>25, TextType DEF Release, Fingerprint, DraftOK
  <2>2. pc' \in Stages
    BY <1>25 DEF Release, Stages
  <2>3. todo' \in Seq(Released)
    BY <1>0, <1>25, FilingsType DEF Release, FilesOK
  <2>4. trail' \in Entries
    BY <1>25, EntryType DEF Release, EntryActions, Subjects
  <2>. QED BY <1>25, <2>1, <2>2, <2>3, <2>4 DEF Release
<1>26. CASE Conclude
  <2> DEFINE entries == Append(trail, Entry("verdict", verdict))
  <2>1. entries \in Entries
    BY <1>0, <1>e, <1>26 DEF Conclude, GateInvariant, DraftOK, EntryActions, Subjects
  <2>2. Append(entries, Entry("approval", "not obtained")) \in Entries
    BY <2>1, EntryType DEF EntryActions, Subjects
  <2>3. ControlOK' /\ GateOK' /\ FilesOK' /\ ChatOK'
    <3> HIDE DEF entries
    <3>1. CASE /\ Release("not required", entries)
               /\ UNCHANGED <<shown, status>>
      BY <1>0, <1>25, <1>26, <2>1, <3>1
      DEF Conclude, ControlOK, GateOK, FilesOK, ChatOK, Decisions
    <3>2. CASE /\ Release("no session",
                          Append(entries, Entry("approval", "not obtained")))
               /\ UNCHANGED <<shown, status>>
      BY <1>0, <1>25, <1>26, <2>2, <3>2
      DEF Conclude, ControlOK, GateOK, FilesOK, ChatOK, Decisions
    <3>3. CASE /\ pc' = "signoff"
               /\ trail' = entries
               /\ shown' = deliverable
               /\ Say("approval", FALSE)
               /\ UNCHANGED <<approval, fingerprint, todo>>
      BY <1>0, <1>26, <2>1, <3>3, SayType
      DEF Conclude, ControlOK, DraftOK, GateOK, FilesOK, ChatOK, Stages
    <3>. QED BY <1>26, <3>1, <3>2, <3>3 DEF Conclude, entries
  <2>. QED BY <1>26, <2>3 DEF TypeOK, Conclude
<1>27. CASE SignOff
  <2>1. ASSUME NEW decision \in Decisions, NEW of \in Subjects,
               Withhold(decision, of)
        PROVE  /\ pc' \in Stages
               /\ approval' \in Decisions
               /\ fingerprint' \in Text
               /\ todo' \in Seq(Released)
               /\ trail' \in Entries
               /\ status' \in StatusHistory
               /\ answer' \in Contents
    <3>1. answer' \in Contents
      BY <2>1 DEF Withhold, Answer, Contents
    <3>2. trail' \in Entries
      BY <1>e, <2>1 DEF Withhold, Log, EntryActions
    <3>. QED BY <1>0, <2>1, <3>1, <3>2, SayType
         DEF Withhold, GateOK, FilesOK, ChatOK, Stages
  <2>2. Append(trail, Entry("approval", "approved")) \in Entries
    BY <1>e DEF EntryActions, Subjects
  <2>3. /\ pc' \in Stages
        /\ approval' \in Decisions
        /\ fingerprint' \in Text
        /\ todo' \in Seq(Released)
        /\ trail' \in Entries
        /\ status' \in StatusHistory
        /\ answer' \in Contents
    <3>1. PICK reply \in Replies :
            CASE Decision(reply) = "approved" ->
                   /\ Release("approved",
                              Append(trail, Entry("approval", "approved")))
                   /\ UNCHANGED <<status, answer>>
              [] Decision(reply) = "rejected" -> Withhold("rejected", "rejected")
              [] OTHER -> Withhold("no answer", "not obtained")
      BY <1>27 DEF SignOff
    <3>2. CASE Decision(reply) = "approved"
      BY <1>0, <1>25, <2>2, <3>1, <3>2 DEF Decisions, ChatOK
    <3>3. CASE Decision(reply) = "rejected"
      BY <2>1, <3>1, <3>3 DEF Decisions, Subjects
    <3>4. CASE Decision(reply) \notin {"approved", "rejected"}
      BY <2>1, <3>1, <3>4 DEF Decisions, Subjects
    <3>. QED BY <3>2, <3>3, <3>4
  <2>4. ControlOK' /\ GateOK' /\ FilesOK' /\ ChatOK'
    BY <1>0, <1>27, <2>3 DEF SignOff, ControlOK, GateOK, FilesOK, ChatOK
  <2>. QED BY <1>27, <2>4 DEF TypeOK, SignOff
<1>28. pc = "filing" => todo # <<>> /\ Head(todo) \in Released
  <2>1. pc = "filing" => todo # <<>>
    BY DEF GateInvariant
  <2>. QED BY <1>0, <2>1 DEF FilesOK
<1>29. \A f \in Released : ToolOf[f] \in Tools
  BY DEF Released, ToolOf, Tools
<1>30. CASE StoreFile
  <2>1. ControlOK'
    BY <1>0, <1>30 DEF StoreFile, ControlOK
  <2>2. FilesOK'
    BY <1>0, <1>28, <1>30 DEF StoreFile, FilesOK
  <2>3. ChatOK'
    BY <1>0, <1>30, SayType DEF StoreFile, ChatOK
  <2>. QED BY <1>30, <2>1, <2>2, <2>3 DEF TypeOK, StoreFile
<1>31. CASE LogFile
  <2>1. ControlOK'
    BY <1>0, <1>31 DEF LogFile, ControlOK
  <2>2. ChatOK'
    BY <1>0, <1>e, <1>28, <1>31
    DEF LogFile, ChatOK, chatVars, Log, EntryActions, Subjects
  <2>. QED BY <1>31, <2>1, <2>2 DEF TypeOK, LogFile
<1>32. ASSUME pc = "filing", NEW entries \in Entries, NextFile(entries)
       PROVE  pc' \in Stages /\ todo' \in Seq(Released) /\ trail' \in Entries
  <2>1. todo' \in Seq(Released)
    BY <1>0, <1>28, <1>32 DEF NextFile, FilesOK
  <2>2. trail' \in Entries
    BY <1>32, EntryType DEF NextFile, EntryActions, Subjects
  <2>. QED BY <1>32, <2>1, <2>2 DEF NextFile, Stages
<1>33. pc = "filing" =>
         Append(trail, Entry("tool.call", ToolOf[Head(todo)])) \in Entries
  BY <1>e, <1>28, <1>29 DEF EntryActions, Subjects
<1>34. CASE FileReturned
  <2>1. pc' \in Stages /\ todo' \in Seq(Released) /\ trail' \in Entries
    BY <1>32, <1>33, <1>34 DEF FileReturned
  <2>2. deliverable' \in Text
    BY <1>0, <1>34, TextType DEF FileReturned, DraftOK, Sections
  <2>3. ControlOK' /\ FilesOK'
    BY <1>0, <1>34, <2>1 DEF FileReturned, ControlOK, FilesOK
  <2>4. DraftOK'
    BY <1>0, <1>34, <2>2 DEF FileReturned, DraftOK
  <2>5. ChatOK'
    BY <1>0, <1>34, <2>1, SayType DEF FileReturned, ChatOK
  <2>. QED BY <1>34, <2>3, <2>4, <2>5 DEF TypeOK, FileReturned
<1>35. CASE FileNotWritten
  <2>1. pc' \in Stages /\ todo' \in Seq(Released) /\ trail' \in Entries
    BY <1>0, <1>32, <1>33, <1>35 DEF FileNotWritten, ChatOK
  <2>2. deliverable' \in Text
    BY <1>0, <1>35, TextType DEF FileNotWritten, DraftOK, Sections
  <2>3. ControlOK' /\ FilesOK'
    BY <1>0, <1>35, <2>1 DEF FileNotWritten, ControlOK, FilesOK
  <2>4. DraftOK'
    BY <1>0, <1>35, <2>2 DEF FileNotWritten, DraftOK
  <2>5. ChatOK'
    BY <1>0, <1>35, <2>1 DEF FileNotWritten, ChatOK, chatVars
  <2>. QED BY <1>35, <2>3, <2>4, <2>5 DEF TypeOK, FileNotWritten
<1>36. CASE Finish
  <2>1. answer' \in Contents
    <3>1. approval \in Decisions
      BY <1>0, <1>36 DEF Finish, GateInvariant, GateOK
    <3>. QED BY <1>36, <3>1 DEF Finish, Answer, Contents
  <2>2. ControlOK'
    BY <1>0, <1>36 DEF Finish, ControlOK, fileVars, Stages
  <2>3. ChatOK'
    BY <1>0, <1>36, <2>1, SayType DEF Finish, ChatOK
  <2>. QED BY <1>36, <2>2, <2>3 DEF TypeOK, Finish, fileVars
<1>37. CASE Close
  <2>1. ControlOK'
    BY <1>0, <1>37 DEF Close, ControlOK, fileVars, Stages
  <2>. QED BY <1>37, <2>1 DEF TypeOK, Close, fileVars
<1>38. CASE Return
  <2>1. ControlOK'
    BY <1>0, <1>38 DEF Return, ControlOK, fileVars, Ended
  <2>2. ChatOK'
    BY <1>0, <1>38, StoreType DEF Return, ChatOK
  <2>. QED BY <1>38, <2>1, <2>2 DEF TypeOK, Return, fileVars
<1>39. CASE RecordStop
  <2>1. ControlOK'
    BY <1>0, <1>39 DEF RecordStop, ControlOK, fileVars, Ended
  <2>2. ChatOK'
    <3>1. [kind |-> "stopped", receipt |-> "none"] \in Contents
      BY DEF Contents
    <3>2. message' \in Messages
      BY <1>0, <1>39, <3>1, StoreType DEF RecordStop, ChatOK
    <3>3. status' \in StatusHistory
      BY <1>0, <1>39, SayType DEF RecordStop, ChatOK
    <3>. QED BY <1>0, <1>39, <3>2, <3>3 DEF RecordStop, ChatOK
  <2>. QED BY <1>39, <2>1, <2>2 DEF TypeOK, RecordStop, fileVars
<1>40. CASE Cancel
  <2>1. ControlOK'
    BY <1>0, <1>40 DEF Cancel, ControlOK, fileVars
  <2>. QED BY <1>40, <2>1 DEF TypeOK, Cancel, fileVars
<1>41. CASE UNCHANGED vars
  <2>1. ControlOK'
    BY <1>0, <1>41 DEF vars, ControlOK, fileVars
  <2>. QED BY <1>41, <2>1 DEF TypeOK, vars, fileVars
<1>42. CASE Work
  BY <1>42, <1>1, <1>2, <1>3, <1>4, <1>5, <1>6, <1>8, <1>9, <1>10, <1>11,
     <1>12, <1>13, <1>14, <1>16, <1>17, <1>19, <1>20, <1>21, <1>22, <1>23,
     <1>24, <1>26, <1>27, <1>30, <1>31, <1>34, <1>35, <1>36, <1>37, <1>38,
     <1>39
  DEF Work
<1>. QED
  BY <1>40, <1>41, <1>42 DEF Next

-----------------------------------------------------------------------------
(* The gate.  As far as the gate is concerned a step is one of four kinds. *)

Opening == {"approved", "not required"}

(* It leaves the decision and what is out alone.                           *)
Aside ==
  /\ UNCHANGED <<valves, approval, fingerprint>>
  /\ files' \cap Released = files \cap Released
  /\ ReleaseReported' <=> ReleaseReported
  /\ Reported("approval", "approved") => Reported("approval", "approved")'
  /\ pc' \in BeforeDecision => pc \in BeforeDecision
  /\ pc' = "filing" => pc = "filing" /\ UNCHANGED todo
  /\ pc' = "finish" => pc = "finish"
  /\ pc' = "verdict" => verdict' # "none"
  /\ pc' = "signoff" => valves.require_approval
  /\ approval # "undecided" => UNCHANGED <<verdict, judged, shown>>

(* It makes the decision.                                                  *)
Decides ==
  /\ approval = "undecided"
  /\ UNCHANGED <<valves, files>>
  /\ approval' \in Decisions
  /\ valves.require_approval <=> approval' # "not required"
  /\ approval' = "approved" => Reported("approval", "approved")'
  /\ fingerprint' # <<>> \/ ReleaseReported' => approval' \in Opening
  /\ pc' \in {"filing", "finish", "closing"}
  /\ pc' = "finish" /\ approval' \in Opening => ReleaseReported'
  /\ pc' = "filing" => /\ approval' \in Opening
                       /\ todo' # <<>>
                       /\ ~ReleaseReported'

(* It stores a file of the release.                                        *)
Writes ==
  /\ pc = "filing"
  /\ UNCHANGED <<valves, pc, approval, fingerprint, todo, trail, verdict,
                 judged, shown>>
  /\ \E f \in Released : files' = files \cup {f}

(* It is done with a file, the last one with the release entry.            *)
MovesOn ==
  /\ pc = "filing"
  /\ UNCHANGED <<valves, approval, fingerprint, files, verdict, judged, shown>>
  /\ Reported("approval", "approved") => Reported("approval", "approved")'
  /\ \/ pc' = "filing" /\ todo' # <<>> /\ ~ReleaseReported'
     \/ pc' = "finish" /\ ReleaseReported'

(* A record holds an appended entry and what it held before, no more.      *)
LEMMA HasAppend ==
  ASSUME NEW t \in Entries, NEW d, NEW e
  PROVE  Has(Append(t, d), e) <=> Has(t, e) \/ d = e
  BY DEF Has, Entries

(* An entry that is no approval and no release leaves both as they were.   *)
LEMMA LogAside ==
  ASSUME TypeOK, NEW a, NEW o, Log(a, o), a \notin {"approval", "release"}
  PROVE  /\ ReleaseReported' <=> ReleaseReported
         /\ Reported("approval", "approved") <=> Reported("approval", "approved")'
<1>1. trail \in Entries
  BY DEF TypeOK, ChatOK
<1>2. /\ Entry(a, o) # Entry("release", "turn")
      /\ Entry(a, o) # Entry("approval", "approved")
  BY DEF Entry
<1>. QED
  BY <1>1, <1>2, HasAppend DEF Log, ReleaseReported, Reported

(* So does leaving the record alone.                                       *)
LEMMA SilentAside ==
  ASSUME UNCHANGED trail
  PROVE  /\ ReleaseReported' <=> ReleaseReported
         /\ Reported("approval", "approved") <=> Reported("approval", "approved")'
  BY DEF ReleaseReported, Reported, Has

(* While nothing is decided, nothing is out.                               *)
LEMMA UndecidedNothingOut ==
  ASSUME GateInvariant, approval = "undecided"
  PROVE  ~ReleaseReported /\ files \cap Released = {} /\ fingerprint = <<>>
  BY DEF GateInvariant, Out

(* A step of each kind keeps the invariant of the gate.                    *)
LEMMA KindKeepsGate ==
  ASSUME GateInvariant, Aside \/ Decides \/ Writes \/ MovesOn
  PROVE  GateInvariant'
<1> USE DEF GateInvariant, Out, BeforeDecision, Opening
<1>1. CASE Aside
  BY <1>1 DEF Aside
<1>2. CASE Decides
  <2>1. Out' => approval' \in Opening
    BY <1>2, UndecidedNothingOut DEF Decides
  <2>2. approval' # "undecided"
    BY <1>2 DEF Decides, Decisions
  <2>3. approval' = "not required" => ~valves'.require_approval
    BY <1>2 DEF Decides
  <2>. QED
    BY <1>2, <2>1, <2>2, <2>3 DEF Decides
<1>3. CASE Writes
  BY <1>3, SilentAside DEF Writes
<1>4. CASE MovesOn
  BY <1>4 DEF MovesOn
<1>. QED
  BY <1>1, <1>2, <1>3, <1>4

(* Each action is a step of one of the kinds.                              *)
LEMMA StepKinds ==
  ASSUME TypeOK, GateInvariant, [Next]_vars
  PROVE  Aside \/ Decides \/ Writes \/ MovesOn
<1> DEFINE Noted == \/ UNCHANGED trail
                    \/ \E a, o : Log(a, o) /\ a \notin {"approval", "release"}
           Quiet == /\ UNCHANGED <<valves, approval, fingerprint, files>>
                    /\ pc' = "verdict" => verdict' # "none"
                    /\ pc' = "signoff" => valves.require_approval
                    /\ pc \in BeforeDecision
                       \/ UNCHANGED <<verdict, judged, shown>>
                    /\ Noted
<1>n. ASSUME NEW a, NEW o, Log(a, o), a \notin {"approval", "release"}
      PROVE  Noted
  BY <1>n
<1>u. ASSUME UNCHANGED trail PROVE Noted
  BY <1>u
<1>q. ASSUME Quiet,
             pc' \in BeforeDecision => pc \in BeforeDecision,
             pc' = "filing" => pc = "filing" /\ UNCHANGED todo,
             pc' = "finish" => pc = "finish"
      PROVE  Aside
  <2>1. /\ ReleaseReported' <=> ReleaseReported
        /\ Reported("approval", "approved") <=> Reported("approval", "approved")'
    BY <1>q, LogAside, SilentAside DEF Noted
  <2>. QED BY <1>q, <2>1 DEF Aside, GateInvariant
<1> HIDE DEF Noted
<1> USE <1>n, <1>u DEF BeforeDecision, Stages
<1>1. CASE Decline \/ NoModel \/ Close \/ Return \/ RecordStop \/ Cancel
  BY <1>1, <1>q
  DEF Decline, NoModel, Close, Return, RecordStop, Cancel, Ended, inputs,
      draftVars, gateVars, fileVars
<1>2. CASE Admit \/ Retrieve \/ ChatReply
  BY <1>2, <1>q
  DEF Admit, Retrieve, ChatReply, ModelCall, inputs, draftVars, gateVars, fileVars
<1>3. CASE Route
  <2>1. AfterRoute(got) \in Onward
    BY AfterType
  <2>2. Quiet
    BY <1>3, <2>1 DEF Route, Proceed, Onward, inputs, draftVars, gateVars, fileVars
  <2>. QED BY <1>q, <1>3, <2>1, <2>2 DEF Route, Proceed, Onward
<1>4. ASSUME NEW stage \in Stages, NEW tool, NEW next \in Onward,
             stage \in BeforeDecision, Gather(stage, tool, next)
      PROVE  Aside
  <2>1. Quiet
    BY <1>4 DEF Gather, Consult, Proceed, Onward, inputs, gateVars, fileVars
  <2>. QED BY <1>q, <1>4, <2>1 DEF Gather, Proceed, Onward
<1>5. CASE AuditSovereignty \/ CheckRequestSop \/ ReadSheet \/ CheckSurvey
           \/ CalculateLife
  <2>1. CASE AuditSovereignty
    BY <1>4, <2>1, AfterType DEF AuditSovereignty
  <2>2. CASE CheckRequestSop
    BY <1>4, <2>2, AfterType DEF CheckRequestSop
  <2>3. CASE ReadSheet
    BY <1>4, <2>3, AfterType DEF ReadSheet
  <2>4. CASE CheckSurvey
    BY <1>4, <2>4, AfterType DEF CheckSurvey
  <2>5. CASE CalculateLife
    BY <1>4, <2>5 DEF CalculateLife, Onward
  <2>. QED BY <1>5, <2>1, <2>2, <2>3, <2>4, <2>5
<1>6. CASE ReadImage
  <2>1. AfterImage(got) \in Onward
    BY AfterType
  <2>2. Quiet
    BY <1>6, <2>1 DEF ReadImage, ModelCall, Proceed, Onward, inputs, gateVars, fileVars
  <2>. QED BY <1>q, <1>6, <2>1, <2>2 DEF ReadImage, Proceed, Onward
<1>7. CASE Annotate
  <2>1. pc' \in Onward
    BY <1>7, AfterType DEF Annotate, Proceed
  <2>2. files' \cap Released = files \cap Released
    BY <1>7 DEF Annotate, Released
  <2>. QED
    BY <1>7, <2>1, <2>2, SilentAside
    DEF Annotate, Aside, Onward, inputs, gateVars, GateInvariant
<1>8. CASE FridayAnalyses \/ CheckAnalysisSop
  <2>1. Quiet
    BY <1>8
    DEF FridayAnalyses, ModelCall, Fail, CheckAnalysisSop, Consult, inputs, draftVars,
        gateVars, fileVars
  <2>. QED BY <1>q, <1>8, <2>1 DEF FridayAnalyses, Fail, CheckAnalysisSop
<1>9. ASSUME NEW text, NEW hasCode, FinishDraft(text, hasCode)
      PROVE  /\ pc' \in {"execute", "ultron", "verdict"}
             /\ pc' = "verdict" => verdict' # "none"
  BY <1>9 DEF FinishDraft
<1>10. CASE JarvisDrafts
  <2>1. /\ pc' \in {"closing", "preview", "execute", "ultron", "verdict"}
        /\ pc' = "verdict" => verdict' # "none"
    BY <1>9, <1>10 DEF JarvisDrafts, Fail
  <2>2. Quiet
    BY <1>10, <2>1 DEF JarvisDrafts, ModelCall, inputs, gateVars, fileVars
  <2>. QED BY <1>q, <1>10, <2>1, <2>2 DEF JarvisDrafts
<1>11. CASE PreviewSheet
  <2>1. /\ pc' \in {"execute", "ultron", "verdict"}
        /\ pc' = "verdict" => verdict' # "none"
    BY <1>9, <1>11 DEF PreviewSheet
  <2>2. Quiet
    BY <1>11, <2>1 DEF PreviewSheet, inputs, gateVars, fileVars
  <2>. QED BY <1>q, <1>11, <2>1, <2>2 DEF PreviewSheet
<1>12. CASE StoreProduced
  <2>1. files' \cap Released = files \cap Released
    BY <1>12 DEF StoreProduced, Released
  <2>. QED
    BY <1>12, <2>1, SilentAside
    DEF StoreProduced, Aside, inputs, draftVars, gateVars
<1>13. CASE LogProduced
  BY <1>13, <1>q DEF LogProduced, inputs, draftVars, gateVars
<1>14. CASE RunCode
  <2>1. Quiet
    BY <1>14 DEF RunCode, inputs, gateVars
  <2>. QED BY <1>q, <1>14, <2>1 DEF RunCode
<1>15. CASE UltronJudges
  <2>1. pc' \in {"friday", "verdict"} /\ verdict' # "none"
    BY <1>15 DEF UltronJudges, Words, Proceed, Verdict
  <2>2. Quiet
    BY <1>15, <2>1 DEF UltronJudges, ModelCall, inputs, gateVars, fileVars
  <2>. QED BY <1>q, <1>15, <2>1, <2>2 DEF UltronJudges
<1>16. ASSUME NEW decision \in Decisions, NEW entries \in Entries,
              approval = "undecided", UNCHANGED <<valves, files>>,
              valves.require_approval <=> decision # "not required",
              ~Has(entries, Entry("release", "turn")),
              decision = "approved" => Has(entries, Entry("approval", "approved")),
              Release(decision, entries)
       PROVE  Decides
  <2>1. \/ trail' = entries
        \/ /\ trail' = Append(entries, Entry("release", "turn"))
           /\ pc' = "finish"
           /\ decision \in Opening
    BY <1>16 DEF Release, Releasing, Opening
  <2>2. decision = "approved" => Reported("approval", "approved")'
    <3>1. Has(entries, Entry("approval", "approved")) =>
            Has(Append(entries, Entry("release", "turn")),
                Entry("approval", "approved"))
      BY <1>16, HasAppend
    <3>2. decision = "approved" => Has(trail', Entry("approval", "approved"))
      BY <1>16, <2>1, <3>1
    <3>. QED BY <3>2 DEF Reported
  <2>3. ReleaseReported' => decision \in Opening /\ pc' = "finish"
    BY <1>16, <2>1 DEF ReleaseReported, Reported
  <2>4. fingerprint' # <<>> => decision \in Opening
    BY <1>16 DEF Release, Fingerprint, Releasing, Opening
  <2>5. /\ pc' \in {"filing", "finish"}
        /\ pc' = "filing" => decision \in Opening /\ todo' # <<>>
    BY <1>16 DEF Release, Releasing, Opening
  <2>6. pc' = "finish" /\ decision \in Opening => ReleaseReported'
    <3>1. pc' = "finish" /\ decision \in Opening =>
            trail' = Append(entries, Entry("release", "turn"))
      BY <1>16 DEF Release, Releasing, Opening
    <3>2. Has(Append(entries, Entry("release", "turn")), Entry("release", "turn"))
      BY <1>16, HasAppend
    <3>. QED BY <3>1, <3>2 DEF ReleaseReported, Reported
  <2>. QED
    BY <1>16, <2>2, <2>3, <2>4, <2>5, <2>6 DEF Decides, Release
<1>17. trail \in Entries /\ verdict \in Verdicts \cup {"none"}
  BY DEF TypeOK, ChatOK, DraftOK
<1>18. CASE Conclude
  <2> DEFINE entries == Append(trail, Entry("verdict", verdict))
             unasked == Append(entries, Entry("approval", "not obtained"))
  <2>1. approval = "undecided" /\ ~ReleaseReported
    BY <1>18, UndecidedNothingOut DEF Conclude, GateInvariant
  <2>2. entries \in Entries /\ unasked \in Entries
    BY <1>17, <1>18, EntryType DEF Conclude, GateInvariant, EntryActions, Subjects
  <2>3. /\ ~Has(entries, Entry("release", "turn"))
        /\ ~Has(unasked, Entry("release", "turn"))
    <3>1. /\ Entry("verdict", verdict) # Entry("release", "turn")
          /\ Entry("approval", "not obtained") # Entry("release", "turn")
      BY DEF Entry
    <3>2. ~Has(entries, Entry("release", "turn"))
      BY <1>17, <2>1, <3>1, HasAppend DEF ReleaseReported, Reported
    <3> HIDE DEF entries
    <3>3. ~Has(unasked, Entry("release", "turn"))
      BY <2>2, <3>1, <3>2, HasAppend
    <3>. QED BY <3>2, <3>3
  <2>4. UNCHANGED <<valves, files>>
    BY <1>18 DEF Conclude, inputs
  <2> HIDE DEF entries, unasked
  <2>5. CASE ~valves.require_approval /\ Release("not required", entries)
    BY <1>16, <2>1, <2>2, <2>3, <2>4, <2>5 DEF Decisions
  <2>6. CASE valves.require_approval /\ Release("no session", unasked)
    BY <1>16, <2>1, <2>2, <2>3, <2>4, <2>6 DEF Decisions
  <2>7. CASE /\ valves.require_approval
             /\ pc' = "signoff" /\ trail' = entries /\ Recording
             /\ UNCHANGED <<approval, fingerprint, todo>>
    <3>1. Log("verdict", verdict)
      BY <2>7 DEF entries, Log
    <3>2. Quiet
      BY <1>18, <2>4, <2>7, <3>1 DEF Conclude
    <3>. QED BY <1>q, <1>18, <2>7, <3>2 DEF Conclude
  <2>. QED BY <1>18, <2>5, <2>6, <2>7 DEF Conclude, entries, unasked
<1>19. CASE SignOff
  <2>1. /\ approval = "undecided" /\ ~ReleaseReported
        /\ fingerprint = <<>> /\ valves.require_approval
    BY <1>19, UndecidedNothingOut DEF SignOff, GateInvariant
  <2>2. UNCHANGED <<valves, files>>
    BY <1>19 DEF SignOff, inputs
  <2>3. ASSUME NEW decision \in Decisions \ Opening, NEW of \in Subjects,
               Withhold(decision, of)
        PROVE  Decides
    <3>1. ~ReleaseReported'
      <4>1. Entry("approval", of) # Entry("release", "turn")
        BY DEF Entry
      <4>. QED BY <1>17, <2>1, <2>3, <4>1, HasAppend
           DEF Withhold, Log, ReleaseReported, Reported
    <3>. QED BY <2>1, <2>2, <2>3, <3>1 DEF Withhold, Decides, Opening
  <2>4. ASSUME Release("approved", Append(trail, Entry("approval", "approved")))
        PROVE  Decides
    <3> DEFINE entries == Append(trail, Entry("approval", "approved"))
    <3>1. entries \in Entries
      BY <1>17, EntryType DEF EntryActions, Subjects
    <3>2. /\ ~Has(entries, Entry("release", "turn"))
          /\ Has(entries, Entry("approval", "approved"))
      <4>1. Entry("approval", "approved") # Entry("release", "turn")
        BY DEF Entry
      <4>. QED BY <1>17, <2>1, <4>1, HasAppend DEF ReleaseReported, Reported
    <3>3. Release("approved", entries)
      BY <2>4
    <3> HIDE DEF entries
    <3>. QED BY <1>16, <2>1, <2>2, <3>1, <3>2, <3>3 DEF Decisions
  <2>5. PICK reply \in Replies :
          CASE Decision(reply) = "approved" ->
                 /\ Release("approved",
                            Append(trail, Entry("approval", "approved")))
                 /\ UNCHANGED <<status, answer>>
            [] Decision(reply) = "rejected" -> Withhold("rejected", "rejected")
            [] OTHER -> Withhold("no answer", "not obtained")
    BY <1>19 DEF SignOff
  <2>6. CASE Decision(reply) = "approved"
    BY <2>4, <2>5, <2>6
  <2>7. CASE Decision(reply) = "rejected"
    BY <2>3, <2>5, <2>7 DEF Decisions, Opening, Subjects
  <2>8. CASE Decision(reply) \notin {"approved", "rejected"}
    BY <2>3, <2>5, <2>8 DEF Decisions, Opening, Subjects
  <2>. QED BY <2>6, <2>7, <2>8
<1>20. pc = "filing" => todo # <<>> /\ Head(todo) \in Released /\ ~ReleaseReported
  <2>1. pc = "filing" => todo # <<>> /\ ~ReleaseReported
    BY DEF GateInvariant
  <2>. QED BY <2>1 DEF TypeOK, FilesOK
<1>21. CASE StoreFile
  BY <1>20, <1>21 DEF StoreFile, Writes, inputs, draftVars, gateVars
<1>22. CASE LogFile
  BY <1>22, <1>q DEF LogFile, inputs, draftVars, gateVars
<1>23. ASSUME pc = "filing", NEW entries \in Entries, NextFile(entries),
              \A e : e # Entry("release", "turn") => (Has(trail, e) => Has(entries, e)),
              ~Has(entries, Entry("release", "turn")),
              UNCHANGED <<valves, approval, fingerprint, files, verdict, judged, shown>>
       PROVE  MovesOn
  <2>1. CASE Tail(todo) = <<>>
    <3>1. trail' = Append(entries, Entry("release", "turn")) /\ pc' = "finish"
      BY <1>23, <2>1 DEF NextFile
    <3>2. ReleaseReported'
      BY <1>23, <3>1, HasAppend DEF ReleaseReported, Reported
    <3>3. Reported("approval", "approved") => Reported("approval", "approved")'
      <4>1. Entry("approval", "approved") # Entry("release", "turn")
        BY DEF Entry
      <4>2. Has(entries, Entry("approval", "approved")) =>
              Has(Append(entries, Entry("release", "turn")),
                  Entry("approval", "approved"))
        BY <1>23, HasAppend
      <4>. QED BY <1>23, <3>1, <4>1, <4>2 DEF Reported
    <3>. QED BY <1>23, <3>1, <3>2, <3>3 DEF MovesOn
  <2>2. CASE Tail(todo) # <<>>
    <3>1. trail' = entries /\ pc' = "filing" /\ todo' # <<>>
      BY <1>23, <2>2 DEF NextFile
    <3>2. ~ReleaseReported'
      BY <1>23, <3>1 DEF ReleaseReported, Reported
    <3>3. Reported("approval", "approved") => Reported("approval", "approved")'
      <4>1. Entry("approval", "approved") # Entry("release", "turn")
        BY DEF Entry
      <4>. QED BY <1>23, <3>1, <4>1 DEF Reported
    <3>. QED BY <1>23, <3>1, <3>2, <3>3 DEF MovesOn
  <2>. QED BY <2>1, <2>2
<1>24. CASE FileReturned \/ FileNotWritten
  <2> DEFINE called == Append(trail, Entry("tool.call", ToolOf[Head(todo)]))
  <2>1. pc = "filing"
    BY <1>24 DEF FileReturned, FileNotWritten
  <2>2. called \in Entries
    <3>1. ToolOf[Head(todo)] \in Tools
      BY <1>20, <2>1 DEF Released, ToolOf, Tools
    <3>. QED BY <1>17, <3>1, EntryType DEF EntryActions, Subjects
  <2>3. ~Has(trail, Entry("release", "turn"))
    BY <1>20, <2>1 DEF ReleaseReported, Reported
  <2>4. ~Has(called, Entry("release", "turn"))
    <3>1. Entry("tool.call", ToolOf[Head(todo)]) # Entry("release", "turn")
      BY DEF Entry
    <3>. QED BY <1>17, <2>3, <3>1, HasAppend
  <2>5. \A e : Has(trail, e) => Has(called, e)
    BY <1>17, HasAppend
  <2>6. UNCHANGED <<valves, approval, fingerprint, files, verdict, judged, shown>>
    BY <1>24 DEF FileReturned, FileNotWritten, inputs, gateVars
  <2>7. NextFile(trail) \/ NextFile(called)
    BY <1>24 DEF FileReturned, FileNotWritten
  <2> HIDE DEF called
  <2>. QED BY <1>17, <1>23, <2>1, <2>2, <2>3, <2>4, <2>5, <2>6, <2>7
<1>25. CASE Finish
  BY <1>25, <1>q DEF Finish, inputs, draftVars, gateVars, fileVars
<1>26. CASE UNCHANGED vars
  <2>1. UNCHANGED <<valves, approval, fingerprint, files, trail, pc, todo,
                    verdict, judged, shown>>
    BY <1>26 DEF vars, inputs, draftVars, gateVars, fileVars
  <2>2. Quiet
    BY <2>1 DEF GateInvariant
  <2>. QED BY <1>q, <2>1, <2>2
<1>27. CASE Work
  BY <1>1, <1>2, <1>3, <1>5, <1>6, <1>7, <1>8, <1>10, <1>11, <1>12, <1>13,
     <1>14, <1>15, <1>18, <1>19, <1>21, <1>22, <1>24, <1>25, <1>27
  DEF Work
<1>. QED
  BY <1>1, <1>26, <1>27 DEF Next

-----------------------------------------------------------------------------
(* The theorems *)

(* The initial state satisfies the invariant of the gate.                  *)
LEMMA InitGate == Init => GateInvariant
  BY DEF Init, GateInvariant, Out, ReleaseReported, Reported, Has, BeforeDecision

(* The two invariants are inductive together.                              *)
LEMMA Inductive ==
  /\ Init => TypeOK /\ GateInvariant
  /\ TypeOK /\ GateInvariant /\ [Next]_vars => (TypeOK /\ GateInvariant)'
  BY InitTypeOK, InitGate, NextTypeOK, StepKinds, KindKeepsGate

(* Every reachable state has its type, for any requests and settings.      *)
THEOREM TypeCorrect == Spec => []TypeOK
  BY Inductive, PTL DEF Spec

(* The invariant of the gate holds in every reachable state.               *)
THEOREM GateHolds == Spec => []GateInvariant
  BY Inductive, PTL DEF Spec

(* Approval fails closed: where it is required, nothing goes out of a turn *)
(* - no file of the release, no fingerprint, no release entry - unless the *)
(* reviewer approved and the approval was handed to the trail, which holds *)
(* it or failed to write it, however many entries it fails to write.       *)
THEOREM FailsClosed == Spec => []NothingReleasedUnapproved
<1>1. GateInvariant => NothingReleasedUnapproved
  <2> SUFFICES ASSUME GateInvariant, valves.require_approval, Out
               PROVE  \/ OnFile("approval", "approved")
                      \/ \E i \in refused : trail[i] = Entry("approval", "approved")
    BY DEF NothingReleasedUnapproved
  <2>1. Reported("approval", "approved")
    BY DEF GateInvariant
  <2>. QED BY <2>1 DEF Reported, Has, OnFile
<1>. QED
  BY <1>1, GateHolds, PTL

(* The chain implements the abstract gate: the sign-off's promise, with    *)
(* one decision, files only under it and none after the release entry.     *)
THEOREM ChainImplementsGate == Spec => ImplementsGate
<1>1. Init => Gate!Init
  BY SettingsAssumption
  DEF Init, Gate!Init, GateDecision, ReleaseReported, Reported, Has, Setting
<1>2. TypeOK /\ GateInvariant /\ [Next]_vars => [Gate!Next]_(Gate!gate)
  <2> SUFFICES ASSUME TypeOK, GateInvariant, [Next]_vars
               PROVE  Gate!Next \/ UNCHANGED Gate!gate
    OBVIOUS
  <2>0. ReleaseReported \in BOOLEAN /\ ReleaseReported' \in BOOLEAN
    BY DEF ReleaseReported, Reported, Has
  <2>1. CASE Aside
    <3>1. ReleaseReported' = ReleaseReported
      BY <2>0, <2>1 DEF Aside
    <3>. QED BY <2>1, <3>1 DEF Aside, Gate!gate, GateDecision
  <2>2. CASE Decides
    <3>1. GateDecision = "pending" /\ ~ReleaseReported
      BY <2>2, UndecidedNothingOut DEF Decides, GateDecision
    <3>2. GateDecision' \in IF valves.require_approval
                            THEN {"approved", "withheld"} ELSE {"waived"}
      BY <2>2 DEF Decides, GateDecision, Decisions
    <3>3. ReleaseReported' = FALSE \/ ReleaseReported' = TRUE
      BY <2>0
    <3>4. ReleaseReported' => Gate!Open(GateDecision') = TRUE
      BY <2>2 DEF Decides, GateDecision, Opening, Gate!Open
    <3>5. ReleaseReported' \in {FALSE, Gate!Open(GateDecision')}
      BY <3>3, <3>4, Zenon
    <3>. QED BY <2>2, <3>1, <3>2, <3>5 DEF Decides, Gate!Next, Gate!Decide
  <2>3. pc = "filing" => Gate!Open(GateDecision) /\ ~ReleaseReported
    BY DEF GateInvariant, Gate!Open, GateDecision
  <2>4. CASE Writes
    <3>1. PICK f \in Released : files' = files \cup {f}
      BY <2>4 DEF Writes
    <3>2. (files \cap Released)' = (files \cap Released) \cup {f}
      BY <3>1
    <3>3. ReleaseReported' = ReleaseReported /\ GateDecision' = GateDecision
      BY <2>4 DEF Writes, ReleaseReported, Reported, GateDecision
    <3>4. Gate!Write
      BY <2>3, <2>4, <3>2, <3>3 DEF Writes, Gate!Write
    <3>. QED BY <3>4 DEF Gate!Next
  <2>5. CASE MovesOn
    <3>1. GateDecision' = GateDecision
      BY <2>5 DEF MovesOn, GateDecision
    <3>2. CASE ReleaseReported'
      <4>1. Gate!Release
        BY <2>0, <2>3, <2>5, <3>1, <3>2 DEF MovesOn, Gate!Release
      <4>. QED BY <4>1 DEF Gate!Next
    <3>3. CASE ~ReleaseReported'
      <4>1. ReleaseReported' = ReleaseReported
        BY <2>0, <2>3, <2>5, <3>3 DEF MovesOn
      <4>. QED BY <2>5, <3>1, <4>1 DEF MovesOn, Gate!gate
    <3>. QED BY <3>2, <3>3
  <2>. QED BY <2>1, <2>2, <2>4, <2>5, StepKinds
<1>. QED
  BY <1>1, <1>2, Inductive, PTL DEF Spec, ImplementsGate, Gate!Spec

-----------------------------------------------------------------------------
(* The text that is released *)

(* Why the released text is the reviewed one: between the verdict and the  *)
(* decision nobody touches the text, and after it only links are added.    *)
TextInvariant ==
  /\ pc \in {"verdict", "signoff"} /\ verdict # "SKIPPED" => judged = deliverable
  /\ pc = "signoff" => shown = deliverable
  /\ fingerprint # <<>> => Len(fingerprint) <= Len(deliverable)
  /\ ReleasedTextIsReviewedText

(* A step that leaves the text and what was decided on it alone.           *)
LEMMA TextLeftAlone ==
  ASSUME TextInvariant,
         UNCHANGED <<deliverable, judged, verdict, shown, approval, fingerprint>>,
         pc' \in {"verdict", "signoff"} => pc' = pc
  PROVE  TextInvariant'
  BY DEF TextInvariant, ReleasedTextIsReviewedText

(* A link is added behind the released text.                               *)
LEMMA LinkAdded ==
  ASSUME TypeOK, TextInvariant, pc' \notin {"verdict", "signoff"},
         UNCHANGED <<judged, verdict, shown, approval, fingerprint>>,
         deliverable' = Append(deliverable, "link")
  PROVE  TextInvariant'
<1>1. deliverable \in Seq(Sections) /\ fingerprint \in Seq(Sections)
  BY DEF TypeOK, DraftOK, GateOK, Text
<1>2. /\ Len(deliverable') = Len(deliverable) + 1
      /\ deliverable'[Len(deliverable) + 1] = "link"
      /\ \A i \in 1..Len(deliverable) : deliverable'[i] = deliverable[i]
  BY <1>1
<1>3. Len(deliverable) \in Nat /\ Len(fingerprint) \in Nat
  BY <1>1
<1>. QED
  BY <1>2, <1>3 DEF TextInvariant, ReleasedTextIsReviewedText

(* Nothing changes the text between the verdict and the decision, and the  *)
(* decision fingerprints the text as it stands.                            *)
LEMMA TextStep ==
  ASSUME TypeOK, GateInvariant, TextInvariant, [Next]_vars
  PROVE  TextInvariant'
<1> USE DEF BeforeDecision, Stages
<1>1. CASE Decline \/ NoModel \/ Close \/ Return \/ RecordStop \/ Cancel
           \/ Admit \/ Retrieve \/ ChatReply \/ FridayAnalyses
           \/ CheckAnalysisSop \/ StoreProduced \/ LogProduced
           \/ StoreFile \/ LogFile \/ Finish
  BY <1>1, TextLeftAlone
  DEF Decline, NoModel, Close, Return, RecordStop, Cancel, Admit, Retrieve,
      ChatReply, FridayAnalyses, Fail, CheckAnalysisSop, StoreProduced,
      LogProduced, StoreFile, LogFile, Finish, Ended, draftVars, gateVars
<1>2. CASE AuditSovereignty \/ CheckRequestSop \/ ReadSheet \/ CheckSurvey
           \/ CalculateLife \/ Route \/ ReadImage \/ Annotate
  <2>1. /\ UNCHANGED <<deliverable, judged, verdict, shown, approval, fingerprint>>
        /\ pc' \in Onward \cup {"chat", "annotate"}
    BY <1>2, AfterType
    DEF AuditSovereignty, CheckRequestSop, ReadSheet, CheckSurvey, CalculateLife,
        Gather, Route, ReadImage, Annotate, Proceed, Onward, gateVars
  <2>. QED BY <2>1, TextLeftAlone DEF Onward
<1>3. CASE JarvisDrafts \/ PreviewSheet \/ RunCode \/ UltronJudges
  <2>1. fingerprint = <<>>
    BY <1>3, UndecidedNothingOut
    DEF JarvisDrafts, PreviewSheet, RunCode, UltronJudges, GateInvariant
  <2>2. UNCHANGED fingerprint
    BY <1>3 DEF JarvisDrafts, PreviewSheet, RunCode, UltronJudges, gateVars
  <2>3. /\ pc' # "signoff"
        /\ pc' = "verdict" => verdict' = "SKIPPED" \/ judged' = deliverable'
    <3>1. CASE JarvisDrafts
      BY <3>1 DEF JarvisDrafts, Fail, FinishDraft
    <3>2. CASE PreviewSheet
      BY <3>2 DEF PreviewSheet, FinishDraft
    <3>3. CASE RunCode
      BY <3>3 DEF RunCode
    <3>4. CASE UltronJudges
      BY <3>4 DEF UltronJudges, Proceed
    <3>. QED BY <1>3, <3>1, <3>2, <3>3, <3>4
  <2>. QED BY <2>1, <2>2, <2>3 DEF TextInvariant, ReleasedTextIsReviewedText
<1>4. ASSUME NEW decision, NEW entries, Release(decision, entries),
             UNCHANGED <<deliverable, judged, verdict, shown>>,
             pc \in {"verdict", "signoff"},
             decision = "approved" => pc = "signoff"
      PROVE  TextInvariant'
  <2>1. /\ pc' \notin {"verdict", "signoff"}
        /\ approval' = decision
        /\ fingerprint' \in {<<>>, deliverable}
    BY <1>4 DEF Release, Fingerprint
  <2>2. Len(deliverable) \in Nat
    BY DEF TypeOK, DraftOK, Text
  <2>. QED BY <1>4, <2>1, <2>2 DEF TextInvariant, ReleasedTextIsReviewedText
<1>5. CASE Conclude
  <2>1. UNCHANGED <<deliverable, judged, verdict>> /\ pc = "verdict"
    BY <1>5 DEF Conclude, draftVars
  <2>2. CASE UNCHANGED shown /\ \E d, e : d # "approved" /\ Release(d, e)
    BY <1>4, <2>1, <2>2
  <2>3. CASE /\ pc' = "signoff" /\ shown' = deliverable
             /\ UNCHANGED <<approval, fingerprint>>
    <3>1. fingerprint = <<>>
      BY <1>5, UndecidedNothingOut DEF Conclude, GateInvariant
    <3>. QED BY <2>1, <2>3, <3>1 DEF TextInvariant, ReleasedTextIsReviewedText
  <2>. QED BY <1>5, <2>2, <2>3 DEF Conclude
<1>6. CASE SignOff
  <2>1. UNCHANGED <<deliverable, judged, verdict, shown>> /\ pc = "signoff"
    BY <1>6 DEF SignOff, draftVars
  <2>2. CASE \E d, e : Release(d, e)
    BY <1>4, <2>1, <2>2
  <2>3. CASE \E d, o : Withhold(d, o)
    <3>1. fingerprint = <<>>
      BY <1>6, UndecidedNothingOut DEF SignOff, GateInvariant
    <3>. QED BY <2>3, <3>1 DEF Withhold, TextInvariant, ReleasedTextIsReviewedText
  <2>. QED BY <1>6, <2>2, <2>3 DEF SignOff
<1>7. CASE FileReturned \/ FileNotWritten
  <2>1. /\ UNCHANGED <<judged, verdict, shown, approval, fingerprint>>
        /\ deliverable' \in {deliverable, Append(deliverable, "link")}
        /\ pc' \in {"filing", "finish"}
    BY <1>7 DEF FileReturned, FileNotWritten, NextFile, gateVars
  <2>. QED BY <2>1, TextLeftAlone, LinkAdded
<1>8. CASE UNCHANGED vars
  BY <1>8, TextLeftAlone DEF vars, draftVars, gateVars
<1>9. CASE Work
  BY <1>1, <1>2, <1>3, <1>5, <1>6, <1>7, <1>9 DEF Work
<1>. QED
  BY <1>1, <1>8, <1>9 DEF Next

(* The text that is fingerprinted, and so the text the receipt vouches for *)
(* and the files are made from, is the text the reviewer was shown and     *)
(* ULTRON judged, whatever was redrafted before it.                        *)
THEOREM ReviewedIsReleased == Spec => []ReleasedTextIsReviewedText
<1>1. Init => TextInvariant
  BY DEF Init, TextInvariant, ReleasedTextIsReviewedText
<1>2. TypeOK /\ GateInvariant /\ TextInvariant /\ [Next]_vars => TextInvariant'
  BY TextStep
<1>3. TextInvariant => ReleasedTextIsReviewedText
  BY DEF TextInvariant
<1>. QED
  BY <1>1, <1>2, <1>3, Inductive, PTL DEF Spec

-----------------------------------------------------------------------------
(* Who is called in a step *)

(* A record that grew, but not by a call of this agent.                    *)
Spares(t, u, a) ==
  /\ t \in Entries /\ u \in Entries
  /\ Len(t) <= Len(u)
  /\ \A i \in 1..Len(t) : u[i] = t[i]
  /\ \A i \in 1..Len(u) : i > Len(t) => u[i] # Entry("model.call", a)

(* One more entry that is no such call.                                    *)
LEMMA SparesMore ==
  ASSUME NEW t, NEW u, NEW a, Spares(t, u, a),
         NEW c \in EntryActions, NEW o \in Subjects, c # "model.call" \/ o # a
  PROVE  Spares(t, Append(u, Entry(c, o)), a)
<1> DEFINE v == Append(u, Entry(c, o))
<1>1. v \in Entries
  BY EntryType DEF Spares
<1>2. Entry(c, o) # Entry("model.call", a)
  BY DEF Entry
<1>3. /\ Len(t) \in Nat /\ Len(u) \in Nat
      /\ Len(v) = Len(u) + 1 /\ v[Len(u) + 1] = Entry(c, o)
      /\ \A i \in 1..Len(u) : v[i] = u[i]
  BY DEF Spares, Entries
<1> HIDE DEF v
<1>4. \A i \in 1..Len(t) : v[i] = t[i]
  BY <1>3 DEF Spares
<1>5. \A i \in 1..Len(v) : i > Len(t) => v[i] # Entry("model.call", a)
  <2> SUFFICES ASSUME NEW i \in 1..Len(v), i > Len(t)
               PROVE  v[i] # Entry("model.call", a)
    OBVIOUS
  <2>1. CASE i = Len(u) + 1
    BY <1>2, <1>3, <2>1
  <2>2. CASE i # Len(u) + 1
    <3>1. i \in 1..Len(u)
      BY <1>3, <2>2
    <3>. QED BY <1>3, <3>1 DEF Spares
  <2>. QED BY <2>1, <2>2
<1>6. Spares(t, v, a)
  BY <1>1, <1>3, <1>4, <1>5 DEF Spares
<1>. QED
  BY <1>6 DEF v

(* FRIDAY and JARVIS are called in their own stages and nowhere else.      *)
LEMMA WhoCalls ==
  ASSUME TypeOK, GateInvariant, [Next]_vars
  PROVE  /\ FridayAnalyses \/ Spares(trail, trail', "FRIDAY")
         /\ JarvisDrafts \/ Spares(trail, trail', "JARVIS")
<1> SUFFICES ASSUME NEW a \in {"FRIDAY", "JARVIS"},
                    a = "FRIDAY" => ~FridayAnalyses,
                    a = "JARVIS" => ~JarvisDrafts
             PROVE  Spares(trail, trail', a)
  OBVIOUS
<1>0. Spares(trail, trail, a)
  <2>1. trail \in Seq([action : EntryActions, of : Subjects])
    BY DEF TypeOK, ChatOK, Entries
  <2>. QED BY <2>1 DEF Spares, Entries
<1>u. UNCHANGED trail => Spares(trail, trail', a)
  BY <1>0
<1>l. ASSUME NEW c \in EntryActions, NEW o \in Subjects, Log(c, o),
             c # "model.call" \/ o # a
      PROVE  Spares(trail, trail', a)
  BY <1>0, <1>l, SparesMore DEF Log
<1>m. ASSUME NEW o \in Agents \ {a}, ModelCall(o)
      PROVE  Spares(trail, trail', a)
  BY <1>l, <1>m DEF ModelCall, EntryActions, Subjects
<1>s. EntryActions = {"request", "sources", "route", "model.call", "tool.call",
                      "file.write", "verdict", "approval", "release"}
  BY DEF EntryActions
<1>1. CASE Decline \/ NoModel \/ Close \/ Return \/ RecordStop \/ Cancel
           \/ StoreProduced \/ StoreFile \/ Finish \/ Annotate \/ UNCHANGED vars
  BY <1>1, <1>u
  DEF Decline, NoModel, Close, Return, RecordStop, Cancel, StoreProduced,
      StoreFile, Finish, Annotate, vars
<1>2. CASE Admit \/ Retrieve \/ Route
  BY <1>2, <1>l, <1>s, <1>u DEF Admit, Retrieve, Route, Subjects
<1>3. CASE ChatReply \/ ReadImage \/ FridayAnalyses \/ JarvisDrafts \/ UltronJudges
  BY <1>3, <1>m, <1>u
  DEF ChatReply, ReadImage, FridayAnalyses, JarvisDrafts, UltronJudges, Agents
<1>4. ASSUME NEW tool \in Tools, NEW useful, Consult(tool, useful)
      PROVE  Spares(trail, trail', a)
  BY <1>4, <1>l, <1>s, <1>u DEF Consult, Subjects
<1>5. CASE AuditSovereignty \/ CheckRequestSop \/ ReadSheet \/ CheckSurvey
           \/ CalculateLife \/ CheckAnalysisSop
  BY <1>4, <1>5
  DEF AuditSovereignty, CheckRequestSop, ReadSheet, CheckSurvey, CalculateLife,
      Gather, CheckAnalysisSop, Tools
<1>6. CASE PreviewSheet \/ LogProduced \/ RunCode
  BY <1>6, <1>l, <1>s DEF PreviewSheet, LogProduced, RunCode, Subjects, Tools, Drafted
<1>7. pc = "filing" => Head(todo) \in Released
  <2>1. pc = "filing" => todo # <<>>
    BY DEF GateInvariant
  <2>. QED BY <2>1 DEF TypeOK, FilesOK
<1>8. CASE LogFile
  BY <1>7, <1>8, <1>l, <1>s DEF LogFile, Subjects
<1>9. ASSUME NEW entries, Spares(trail, entries, a),
             \/ trail' = entries
             \/ trail' = Append(entries, Entry("release", "turn"))
      PROVE  Spares(trail, trail', a)
  BY <1>9, <1>s, SparesMore DEF Subjects
<1>10. CASE Conclude
  <2>1. verdict \in Verdicts
    BY <1>10 DEF Conclude, GateInvariant, TypeOK, DraftOK
  <2>2. PICK entries : entries = Append(trail, Entry("verdict", verdict))
    OBVIOUS
  <2>3. Spares(trail, entries, a)
    BY <1>0, <1>s, <2>1, <2>2, SparesMore DEF Subjects
  <2>4. Spares(trail, Append(entries, Entry("approval", "not obtained")), a)
    BY <1>s, <2>3, SparesMore DEF Subjects
  <2>. QED BY <1>9, <1>10, <2>2, <2>3, <2>4 DEF Conclude, Release
<1>11. CASE SignOff
  <2>1. ASSUME NEW of \in {"approved", "rejected", "not obtained"}
        PROVE  Spares(trail, Append(trail, Entry("approval", of)), a)
    BY <1>0, <1>s, SparesMore DEF Subjects
  <2>. QED BY <1>9, <1>11, <2>1 DEF SignOff, Release, Withhold, Log
<1>12. CASE FileReturned \/ FileNotWritten
  <2>1. ToolOf[Head(todo)] \in Tools
    BY <1>7, <1>12 DEF FileReturned, FileNotWritten, Released, ToolOf, Tools
  <2>2. Spares(trail, Append(trail, Entry("tool.call", ToolOf[Head(todo)])), a)
    BY <1>0, <1>s, <2>1, SparesMore DEF Subjects
  <2>. QED BY <1>0, <1>9, <1>12, <2>2 DEF FileReturned, FileNotWritten, NextFile
<1>13. CASE Work
  BY <1>1, <1>2, <1>3, <1>5, <1>6, <1>8, <1>10, <1>11, <1>12, <1>13 DEF Work
<1>. QED
  BY <1>1, <1>13 DEF Next

-----------------------------------------------------------------------------
(* Code is run before it passes *)

(* The stages before the verdict.                                          *)
Drafting == BeforeDecision \ {"verdict", "signoff"}

(* The sandbox ran a program after JARVIS last wrote one.                  *)
RunSinceDraft(t) ==
  \E i \in 1..Len(t) :
    /\ t[i] = Entry("tool.call", "run_python")
    /\ \A j \in i..Len(t) : t[j] # Entry("model.call", "JARVIS")

(* Why unrun code never passes: a PASS is not carried into another try,    *)
(* and what ULTRON is given to judge was run or is known not to have been. *)
RunInvariant ==
  /\ verdict = "PASS" => pc \notin Drafting
  /\ req.task = "code" /\ pc = "ultron" =>
       ran \in {"problem", "final"} \/ RunSinceDraft(trail)
  /\ UnrunCodeNeverPasses

(* Entries that are no call of JARVIS leave a run behind them standing.    *)
LEMMA RunStands ==
  ASSUME NEW t, NEW u, Spares(t, u, "JARVIS"), RunSinceDraft(t)
  PROVE  RunSinceDraft(u)
<1>1. PICK i \in 1..Len(t) :
        /\ t[i] = Entry("tool.call", "run_python")
        /\ \A j \in i..Len(t) : t[j] # Entry("model.call", "JARVIS")
  BY DEF RunSinceDraft
<1>2. Len(t) \in Nat /\ Len(u) \in Nat
  BY DEF Spares, Entries
<1>3. i \in 1..Len(u) /\ u[i] = Entry("tool.call", "run_python")
  BY <1>1, <1>2 DEF Spares
<1>4. ASSUME NEW j \in i..Len(u)
      PROVE  u[j] # Entry("model.call", "JARVIS")
  <2>1. CASE j > Len(t)
    BY <1>1, <1>2, <2>1 DEF Spares
  <2>2. CASE j <= Len(t)
    <3>1. j \in i..Len(t) /\ j \in 1..Len(t)
      BY <1>1, <1>2, <2>2
    <3>. QED BY <1>1, <3>1 DEF Spares
  <2>. QED BY <1>2, <2>1, <2>2
<1>. QED
  BY <1>3, <1>4 DEF RunSinceDraft

(* The sandbox's own entry is such a run.                                  *)
LEMMA RunRecorded ==
  ASSUME NEW t \in Entries
  PROVE  RunSinceDraft(Append(t, Entry("tool.call", "run_python")))
<1> DEFINE e == Entry("tool.call", "run_python")
           n == Len(t) + 1
<1>1. /\ Len(t) \in Nat /\ Len(Append(t, e)) = n /\ Append(t, e)[n] = e
  BY DEF Entries
<1>2. e # Entry("model.call", "JARVIS")
  BY DEF Entry
<1>3. n \in 1..n /\ \A j \in n..n : j = n
  BY <1>1
<1> HIDE DEF n
<1>. QED
  BY <1>1, <1>2, <1>3 DEF RunSinceDraft

(* A PASS stands only on a program that was run since it was written.      *)
LEMMA RunStep ==
  ASSUME TypeOK, GateInvariant, RunInvariant, [Next]_vars
  PROVE  RunInvariant'
<1> USE DEF Drafting, BeforeDecision, Stages
<1>0. UNCHANGED req
  BY DEF Next, Work, vars, inputs, Decline, Admit, Retrieve, NoModel, Route, ChatReply,
         AuditSovereignty, CheckRequestSop, ReadSheet, CheckSurvey, CalculateLife,
         Gather, ReadImage, Annotate, FridayAnalyses, CheckAnalysisSop, JarvisDrafts,
         PreviewSheet, StoreProduced, LogProduced, RunCode, UltronJudges, Conclude,
         SignOff, StoreFile, LogFile, FileReturned, FileNotWritten, Finish, Close,
         Return, RecordStop, Cancel
<1>1. ~JarvisDrafts => (RunSinceDraft(trail) => RunSinceDraft(trail'))
  BY WhoCalls, RunStands
<1>2. ASSUME pc # "jarvis" \/ UNCHANGED trail, UNCHANGED verdict,
             pc' \in Drafting => pc \in Drafting, pc' # "ultron"
      PROVE  RunInvariant'
  BY <1>0, <1>1, <1>2
  DEF RunInvariant, UnrunCodeNeverPasses, RunSinceDraft, JarvisDrafts
<1>3. CASE Decline \/ NoModel \/ Close \/ Return \/ RecordStop \/ Cancel
           \/ StoreProduced \/ StoreFile \/ Finish
           \/ Admit \/ Retrieve \/ ChatReply \/ FridayAnalyses \/ CheckAnalysisSop
           \/ LogProduced \/ LogFile
  BY <1>2, <1>3
  DEF Decline, NoModel, Close, Return, RecordStop, Cancel, StoreProduced, StoreFile,
      Finish, Admit, Retrieve, ChatReply, FridayAnalyses, Fail, CheckAnalysisSop,
      LogProduced, LogFile, Ended, draftVars
<1>4. CASE AuditSovereignty \/ CheckRequestSop \/ ReadSheet \/ CheckSurvey
           \/ CalculateLife \/ Route \/ ReadImage \/ Annotate
  <2>1. /\ UNCHANGED verdict
        /\ pc \in Drafting \ {"jarvis"} /\ pc' \in Onward \cup {"chat", "annotate"}
    BY <1>4, AfterType
    DEF AuditSovereignty, CheckRequestSop, ReadSheet, CheckSurvey, CalculateLife,
        Gather, Route, ReadImage, Annotate, Proceed, Onward
  <2>. QED BY <1>2, <2>1 DEF Onward
<1>5. CASE JarvisDrafts \/ PreviewSheet
  <2>1. verdict # "PASS"
    BY <1>5 DEF JarvisDrafts, PreviewSheet, RunInvariant
  <2>2. /\ verdict' \in {verdict, "SKIPPED"}
        /\ req.task = "code" /\ pc' = "ultron" => ran' \in {"problem", "final"}
    BY <1>5 DEF JarvisDrafts, PreviewSheet, Fail, FinishDraft, NotExecuted
  <2>. QED BY <1>0, <2>1, <2>2 DEF RunInvariant, UnrunCodeNeverPasses
<1>6. CASE RunCode
  <2>1. RunSinceDraft(trail')
    BY <1>6, RunRecorded DEF RunCode, Log, TypeOK, ChatOK
  <2>2. verdict' # "PASS"
    BY <1>6 DEF RunCode, RunInvariant
  <2>. QED BY <1>6, <2>1, <2>2 DEF RunInvariant, UnrunCodeNeverPasses, RunSinceDraft
<1>7. CASE UltronJudges
  <2>1. /\ pc = "ultron" /\ pc' # "ultron"
        /\ verdict' = "PASS" => ran \notin {"problem", "final"} /\ pc' = "verdict"
    BY <1>7 DEF UltronJudges, Verdict, Proceed
  <2>2. verdict' = "PASS" /\ req.task = "code" => RunSinceDraft(trail')
    BY <1>1, <1>7, <2>1 DEF RunInvariant, JarvisDrafts
  <2>. QED BY <1>0, <2>1, <2>2 DEF RunInvariant, UnrunCodeNeverPasses, RunSinceDraft
<1>8. CASE Conclude \/ SignOff \/ FileReturned \/ FileNotWritten
  <2>1. UNCHANGED verdict
    BY <1>8 DEF Conclude, SignOff, FileReturned, FileNotWritten, draftVars
  <2>2. pc # "jarvis" /\ pc' \in {"signoff", "filing", "finish", "closing"}
    BY <1>8
    DEF Conclude, SignOff, Release, Withhold, FileReturned, FileNotWritten, NextFile
  <2>. QED BY <1>2, <2>1, <2>2
<1>9. CASE UNCHANGED vars
  BY <1>9 DEF vars, inputs, draftVars, RunInvariant, UnrunCodeNeverPasses
<1>10. CASE Work
  BY <1>3, <1>4, <1>5, <1>6, <1>7, <1>8, <1>10 DEF Work
<1>. QED
  BY <1>3, <1>9, <1>10 DEF Next

(* Code nobody ran has not been verified: for every request and setting, a *)
(* PASS on a code task stands on a run of this try's program.              *)
THEOREM CodeIsRunBeforeItPasses == Spec => []UnrunCodeNeverPasses
<1>1. Init => RunInvariant
  BY DEF Init, RunInvariant, UnrunCodeNeverPasses
<1>2. TypeOK /\ GateInvariant /\ RunInvariant /\ [Next]_vars => RunInvariant'
  BY RunStep
<1>3. RunInvariant => UnrunCodeNeverPasses
  BY DEF RunInvariant
<1>. QED
  BY <1>1, <1>2, <1>3, Inductive, PTL DEF Spec

-----------------------------------------------------------------------------
(* One replan, on a verdict *)

(* The calls of an agent in the record: none, at most one, and, of two,    *)
(* ULTRON's in between.                                                    *)
CalledAt(t, a, i) == i \in 1..Len(t) /\ t[i] = Entry("model.call", a)

Never(t, a) == \A i : ~CalledAt(t, a, i)
Once(t, a) == \A i, j : CalledAt(t, a, i) /\ CalledAt(t, a, j) => i = j
JudgedSince(t, a) == \E k : CalledAt(t, "ULTRON", k) /\ \A i : CalledAt(t, a, i) => i < k
Earned(t, a) ==
  \A i, j : CalledAt(t, a, i) /\ CalledAt(t, a, j) /\ i < j =>
    /\ \A m : CalledAt(t, a, m) => m \in {i, j}
    /\ \E k \in i..j : CalledAt(t, "ULTRON", k)

(* An agent that has not been called in this try, and one that has.        *)
Ready(a) == \/ attempts = 1 /\ Never(trail, a)
            \/ attempts = 2 /\ Once(trail, a) /\ JudgedSince(trail, a)
Called(a) == \/ attempts = 1 /\ Once(trail, a)
             \/ attempts = 2 /\ Earned(trail, a)

(* The stages before the first try, and those of a try.                    *)
Preparing == {"admit", "retrieve", "route", "chat", "audit", "image", "annotate", "sop",
              "sheet", "survey", "calc"}

(* Why a replan is earned once: which agents each try has called so far,   *)
(* and ULTRON's call between one try's and the next's.                     *)
TryInvariant ==
  /\ pc \in Preparing => attempts = 0 /\ Never(trail, "FRIDAY") /\ Never(trail, "JARVIS")
  /\ pc = "friday" => Ready("FRIDAY") /\ Ready("JARVIS")
  /\ pc \in {"sop_try", "jarvis"} => Called("FRIDAY") /\ Ready("JARVIS")
  /\ pc \in {"preview", "execute", "ultron"} => Called("FRIDAY") /\ Called("JARVIS")
  /\ Earned(trail, "FRIDAY") /\ Earned(trail, "JARVIS")

(* An agent that is spared has the calls it had, and ULTRON's stand.       *)
LEMMA SparedCalls ==
  ASSUME NEW t, NEW u, NEW a, Spares(t, u, a)
  PROVE  /\ \A i : CalledAt(u, a, i) <=> CalledAt(t, a, i)
         /\ \A k : CalledAt(t, "ULTRON", k) => CalledAt(u, "ULTRON", k)
<1>1. Len(t) \in Nat /\ Len(u) \in Nat
  BY DEF Spares, Entries
<1>. QED
  BY <1>1 DEF Spares, CalledAt

(* So what holds of its calls still does.                                  *)
LEMMA Spared ==
  ASSUME NEW t, NEW u, NEW a, Spares(t, u, a)
  PROVE  /\ Never(t, a) => Never(u, a)
         /\ Once(t, a) => Once(u, a)
         /\ JudgedSince(t, a) => JudgedSince(u, a)
         /\ Earned(t, a) => Earned(u, a)
<1>1. /\ \A i : CalledAt(u, a, i) <=> CalledAt(t, a, i)
      /\ \A k : CalledAt(t, "ULTRON", k) => CalledAt(u, "ULTRON", k)
  BY SparedCalls
<1>2. Never(t, a) => Never(u, a)
  BY <1>1 DEF Never
<1>3. Once(t, a) => Once(u, a)
  BY <1>1 DEF Once
<1>4. JudgedSince(t, a) => JudgedSince(u, a)
  BY <1>1 DEF JudgedSince
<1>5. Earned(t, a) => Earned(u, a)
  BY <1>1 DEF Earned
<1>. QED
  BY <1>2, <1>3, <1>4, <1>5

(* No call is at most one, and of at most one call none was unearned.      *)
LEMMA FewAreEarned ==
  ASSUME NEW t, NEW a
  PROVE  /\ Never(t, a) => Once(t, a)
         /\ Once(t, a) => Earned(t, a)
<1>1. \A i, j : CalledAt(t, a, i) /\ CalledAt(t, a, j) /\ i < j => i # j
  BY DEF CalledAt
<1>. QED
  BY <1>1 DEF Never, Once, Earned

(* The first call of an agent is its only one, and a second one after      *)
(* ULTRON has judged is earned.                                            *)
LEMMA OwnCall ==
  ASSUME NEW t \in Entries, NEW a, a # "ULTRON"
  PROVE  LET u == Append(t, Entry("model.call", a)) IN
           /\ Never(t, a) => Once(u, a)
           /\ Once(t, a) /\ JudgedSince(t, a) => Earned(u, a)
<1> DEFINE n == Len(t) + 1
<1>1. PICK u : u = Append(t, Entry("model.call", a))
  OBVIOUS
<1>2. /\ Len(t) \in Nat /\ Len(u) = n /\ u[n] = Entry("model.call", a)
      /\ \A i \in 1..Len(t) : u[i] = t[i]
  BY <1>1 DEF Entries
<1>3. \A i : CalledAt(u, a, i) <=> CalledAt(t, a, i) \/ i = n
  BY <1>2 DEF CalledAt
<1>4. \A k : CalledAt(t, "ULTRON", k) => CalledAt(u, "ULTRON", k)
  BY <1>2 DEF CalledAt
<1>5. \A b, i : CalledAt(t, b, i) => i \in Int /\ i < n
  BY <1>2 DEF CalledAt
<1>6. n \in Int
  BY <1>2
<1> HIDE DEF n
<1>7. Never(t, a) => Once(u, a)
  BY <1>3 DEF Never, Once
<1>8. ASSUME Once(t, a), JudgedSince(t, a)
      PROVE  Earned(u, a)
  <2>1. PICK k : CalledAt(t, "ULTRON", k) /\ \A i : CalledAt(t, a, i) => i < k
    BY <1>8 DEF JudgedSince
  <2> SUFFICES ASSUME NEW i, NEW j, CalledAt(u, a, i), CalledAt(u, a, j), i < j
               PROVE  /\ \A m : CalledAt(u, a, m) => m \in {i, j}
                      /\ \E l \in i..j : CalledAt(u, "ULTRON", l)
    BY DEF Earned
  <2>2. i # n
    BY <1>3, <1>5, <1>6
  <2>3. CalledAt(t, a, i) /\ i \in Int
    BY <1>3, <1>5, <2>2
  <2>4. j = n
    <3>1. ASSUME CalledAt(t, a, j) PROVE FALSE
      BY <1>8, <2>3, <3>1 DEF Once
    <3>. QED BY <1>3, <3>1
  <2>5. \A m : CalledAt(u, a, m) => m \in {i, j}
    BY <1>3, <1>8, <2>3, <2>4 DEF Once
  <2>6. k \in i..j
    BY <1>5, <1>6, <2>1, <2>3, <2>4
  <2>. QED BY <1>4, <2>1, <2>5, <2>6
<1>. QED
  BY <1>1, <1>7, <1>8

(* When ULTRON answers, every draft so far has been judged.                *)
LEMMA UltronCall ==
  ASSUME NEW t \in Entries, NEW a, a # "ULTRON"
  PROVE  JudgedSince(Append(t, Entry("model.call", "ULTRON")), a)
<1> DEFINE n == Len(t) + 1
<1>1. PICK u : u = Append(t, Entry("model.call", "ULTRON"))
  OBVIOUS
<1>2. /\ Len(t) \in Nat /\ Len(u) = n /\ u[n] = Entry("model.call", "ULTRON")
  BY <1>1 DEF Entries
<1>3. CalledAt(u, "ULTRON", n)
  BY <1>2 DEF CalledAt
<1>4. ~CalledAt(u, a, n)
  BY <1>2 DEF CalledAt, Entry
<1>5. \A i : CalledAt(u, a, i) => i \in 1..n
  BY <1>2 DEF CalledAt
<1>6. \A i : CalledAt(u, a, i) => i < n
  BY <1>2, <1>4, <1>5
<1>. QED
  BY <1>1, <1>3, <1>6 DEF JudgedSince

(* Which agents a try has called follows the stage it is in.               *)
LEMMA TryStep ==
  ASSUME TypeOK, GateInvariant, TryInvariant, [Next]_vars
  PROVE  TryInvariant'
<1> USE DEF Preparing
<1>t. trail \in Entries
  BY DEF TypeOK, ChatOK
<1>f. ~FridayAnalyses =>
        /\ Never(trail, "FRIDAY") => Never(trail', "FRIDAY")
        /\ Once(trail, "FRIDAY") => Once(trail', "FRIDAY")
        /\ JudgedSince(trail, "FRIDAY") => JudgedSince(trail', "FRIDAY")
        /\ Earned(trail, "FRIDAY") => Earned(trail', "FRIDAY")
  BY WhoCalls, Spared
<1>j. ~JarvisDrafts =>
        /\ Never(trail, "JARVIS") => Never(trail', "JARVIS")
        /\ Once(trail, "JARVIS") => Once(trail', "JARVIS")
        /\ JudgedSince(trail, "JARVIS") => JudgedSince(trail', "JARVIS")
        /\ Earned(trail, "JARVIS") => Earned(trail', "JARVIS")
  BY WhoCalls, Spared
<1>c. \A a : (Called(a) => Earned(trail, a)) /\ (Called(a)' => Earned(trail', a))
  BY FewAreEarned DEF Called
<1>p. ASSUME pc \in Preparing, ~FridayAnalyses, ~JarvisDrafts,
             \/ pc' \in Preparing \cup {"usage", "returned", "stopping"} /\ UNCHANGED attempts
             \/ pc' = "friday" /\ attempts' = attempts + 1
      PROVE  TryInvariant'
  <2>1. attempts = 0 /\ Never(trail', "FRIDAY") /\ Never(trail', "JARVIS")
    BY <1>f, <1>j, <1>p DEF TryInvariant
  <2>2. Earned(trail', "FRIDAY") /\ Earned(trail', "JARVIS")
    BY <1>f, <1>j, <1>p DEF TryInvariant
  <2>. QED BY <1>p, <2>1, <2>2 DEF TryInvariant, Ready
<1>o. ASSUME ~FridayAnalyses, ~JarvisDrafts,
             pc' \notin Preparing \cup {"friday", "sop_try", "jarvis", "preview",
                                        "execute", "ultron"}
      PROVE  TryInvariant'
  BY <1>f, <1>j, <1>o DEF TryInvariant
<1>1. CASE Decline \/ NoModel \/ Close \/ Return \/ RecordStop \/ Cancel \/ Finish
  <2>1. /\ pc' \in {"returned", "usage", "stopped", "stopping"}
        /\ UNCHANGED trail
    BY <1>1 DEF Decline, NoModel, Close, Return, RecordStop, Cancel, Finish
  <2>. QED BY <2>1 DEF TryInvariant
<1>2. CASE Admit \/ Retrieve \/ ChatReply
  <2>1. pc \in Preparing /\ pc' \in Preparing \cup {"usage"} /\ UNCHANGED attempts
    BY <1>2 DEF Admit, Retrieve, ChatReply, draftVars
  <2>. QED BY <1>p, <2>1 DEF FridayAnalyses, JarvisDrafts
<1>3. CASE AuditSovereignty \/ CheckRequestSop \/ ReadSheet \/ CheckSurvey
           \/ CalculateLife \/ Route \/ ReadImage \/ Annotate
  <2>1. pc \in Preparing
    BY <1>3
    DEF AuditSovereignty, CheckRequestSop, ReadSheet, CheckSurvey, CalculateLife,
        Gather, Route, ReadImage, Annotate
  <2>2. \/ pc' \in {"chat", "annotate"} /\ UNCHANGED attempts
        \/ \E s \in Onward : Proceed(s)
    BY <1>3, AfterType
    DEF AuditSovereignty, CheckRequestSop, ReadSheet, CheckSurvey, CalculateLife,
        Gather, Route, ReadImage, Annotate, Onward
  <2>. QED BY <1>p, <2>1, <2>2 DEF FridayAnalyses, JarvisDrafts, Proceed, Onward
<1>4. CASE FridayAnalyses
  <2>1. /\ pc = "friday" /\ pc' \in {"closing", "sop_try", "jarvis"}
        /\ trail' = Append(trail, Entry("model.call", "FRIDAY"))
        /\ UNCHANGED attempts
    BY <1>4 DEF FridayAnalyses, Fail, ModelCall, Log, draftVars
  <2>2. Called("FRIDAY")'
    BY <1>t, <2>1, OwnCall DEF TryInvariant, Ready, Called
  <2>3. Ready("JARVIS")' /\ Earned(trail', "JARVIS")
    BY <1>j, <2>1 DEF TryInvariant, Ready, JarvisDrafts
  <2>. QED BY <1>c, <2>1, <2>2, <2>3 DEF TryInvariant
<1>5. CASE CheckAnalysisSop
  <2>1. pc = "sop_try" /\ pc' = "jarvis" /\ UNCHANGED attempts
    BY <1>5 DEF CheckAnalysisSop, draftVars
  <2>2. Called("FRIDAY")' /\ Earned(trail', "FRIDAY")
    BY <1>f, <2>1 DEF TryInvariant, Called, FridayAnalyses
  <2>3. Ready("JARVIS")' /\ Earned(trail', "JARVIS")
    BY <1>j, <2>1 DEF TryInvariant, Ready, JarvisDrafts
  <2>. QED BY <2>1, <2>2, <2>3 DEF TryInvariant
<1>6. CASE JarvisDrafts
  <2>1. /\ pc = "jarvis"
        /\ pc' \in {"closing", "preview", "execute", "ultron", "verdict"}
        /\ trail' = Append(trail, Entry("model.call", "JARVIS"))
        /\ UNCHANGED attempts
    BY <1>6 DEF JarvisDrafts, Fail, FinishDraft, ModelCall, Log
  <2>2. Called("JARVIS")'
    BY <1>t, <2>1, OwnCall DEF TryInvariant, Ready, Called
  <2>3. Called("FRIDAY")' /\ Earned(trail', "FRIDAY")
    BY <1>f, <2>1 DEF TryInvariant, Called, FridayAnalyses
  <2>. QED BY <1>c, <2>1, <2>2, <2>3 DEF TryInvariant
<1>7. CASE PreviewSheet \/ StoreProduced \/ LogProduced \/ RunCode
  <2>1. /\ pc \in {"preview", "execute"}
        /\ pc' \in {"execute", "ultron", "verdict"}
        /\ UNCHANGED attempts
    BY <1>7 DEF PreviewSheet, FinishDraft, StoreProduced, LogProduced, RunCode, draftVars
  <2>2. Called("FRIDAY")' /\ Earned(trail', "FRIDAY")
    BY <1>f, <2>1 DEF TryInvariant, Called, FridayAnalyses
  <2>3. Called("JARVIS")' /\ Earned(trail', "JARVIS")
    BY <1>j, <2>1 DEF TryInvariant, Called, JarvisDrafts
  <2>. QED BY <2>1, <2>2, <2>3 DEF TryInvariant
<1>8. CASE UltronJudges
  <2>1. /\ pc = "ultron"
        /\ trail' = Append(trail, Entry("model.call", "ULTRON"))
        /\ \/ pc' = "verdict"
           \/ pc' = "friday" /\ attempts <= 1 /\ attempts' = attempts + 1
    BY <1>8 DEF UltronJudges, Proceed, MayReplan, ModelCall, Log
  <2>2. ASSUME NEW a \in {"FRIDAY", "JARVIS"}, pc' = "friday" PROVE Ready(a)'
    <3>1. attempts = 1 /\ Once(trail, a)
      BY <2>1, <2>2 DEF TryInvariant, Called
    <3>2. Once(trail', a)
      BY <1>f, <1>j, <2>1, <3>1 DEF FridayAnalyses, JarvisDrafts
    <3>3. JudgedSince(trail', a)
      BY <1>t, <2>1, UltronCall
    <3>. QED BY <2>1, <2>2, <3>1, <3>2, <3>3 DEF Ready
  <2>3. Earned(trail', "FRIDAY") /\ Earned(trail', "JARVIS")
    BY <1>f, <1>j, <2>1 DEF TryInvariant, FridayAnalyses, JarvisDrafts
  <2>. QED BY <2>1, <2>2, <2>3 DEF TryInvariant
<1>9. CASE Conclude \/ SignOff \/ StoreFile \/ LogFile \/ FileReturned \/ FileNotWritten
  <2>1. /\ pc \in {"verdict", "signoff", "filing"}
        /\ pc' \in {"signoff", "filing", "finish", "closing"}
    BY <1>9
    DEF Conclude, SignOff, Release, Withhold, StoreFile, LogFile, FileReturned,
        FileNotWritten, NextFile
  <2>. QED BY <1>o, <2>1 DEF FridayAnalyses, JarvisDrafts
<1>10. CASE UNCHANGED vars
  BY <1>10 DEF vars, draftVars, TryInvariant, Ready, Called
<1>11. CASE Work
  BY <1>1, <1>2, <1>3, <1>4, <1>5, <1>6, <1>7, <1>8, <1>9, <1>11 DEF Work
<1>. QED
  BY <1>1, <1>10, <1>11 DEF Next

(* TONY replans once, and only on a verdict: no drafting agent is called a *)
(* third time, and ULTRON judged between its two calls.                    *)
THEOREM ReplanOnce == Spec => []ReplanIsEarnedOnce
<1>1. Init => TryInvariant
  BY DEF Init, TryInvariant, Never, Earned, CalledAt
<1>2. TypeOK /\ GateInvariant /\ TryInvariant /\ [Next]_vars => TryInvariant'
  BY TryStep
<1>3. TryInvariant => ReplanIsEarnedOnce
  <2> SUFFICES ASSUME NEW a \in {"FRIDAY", "JARVIS"}, Earned(trail, a),
                      NEW i \in {n \in 1..Len(trail) : trail[n] = Entry("model.call", a)},
                      NEW j \in {n \in 1..Len(trail) : trail[n] = Entry("model.call", a)},
                      i < j
               PROVE  /\ {n \in 1..Len(trail) : trail[n] = Entry("model.call", a)} = {i, j}
                      /\ \E k \in i..j : trail[k] = Entry("model.call", "ULTRON")
    BY DEF TryInvariant, ReplanIsEarnedOnce
  <2>1. CalledAt(trail, a, i) /\ CalledAt(trail, a, j)
    BY DEF CalledAt
  <2>2. /\ \A m : CalledAt(trail, a, m) => m \in {i, j}
        /\ \E k \in i..j : CalledAt(trail, "ULTRON", k)
    BY <2>1 DEF Earned
  <2>. QED BY <2>2 DEF CalledAt
<1>. QED
  BY <1>1, <1>2, <1>3, Inductive, PTL DEF Spec

-----------------------------------------------------------------------------
(* The order of the record *)

(* The rank of the last entry a stage may stand after.                     *)
Level(stage) ==
  CASE stage = "admit" -> 0
    [] stage \in {"retrieve", "route"} -> 1
    [] stage = "signoff" -> 3
    [] stage = "filing" -> 5
    [] stage \in BeforeDecision \ {"admit", "retrieve", "route", "signoff"} -> 2
    [] OTHER -> 6

(* A record in order, with no entry above a rank.                          *)
Ordered(t, n) ==
  /\ \A i, j \in 1..Len(t) :
       i < j /\ Rank(t[i]) # 0 /\ Rank(t[j]) # 0 =>
         Rank(t[i]) < Rank(t[j]) \/ (Rank(t[i]) = 5 /\ Rank(t[j]) = 5)
  /\ \A i \in 1..Len(t) : Rank(t[i]) <= n

(* Why the record is in order: no entry outranks the stage it stands in.   *)
OrderInvariant == Ordered(trail, Level(pc))

(* Ranks run from 0 to 6.                                                  *)
LEMMA RankType == \A e : Rank(e) \in 0..6
  BY DEF Rank

(* The levels of the stages.                                               *)
LEMMA Levels ==
  /\ \A s : Level(s) \in 0..6
  /\ Level("admit") = 0 /\ Level("retrieve") = 1 /\ Level("route") = 1
  /\ \A s \in Onward \cup {"chat", "annotate", "sop_try", "jarvis", "preview",
                           "execute", "ultron", "verdict"} : Level(s) = 2
  /\ Level("signoff") = 3 /\ Level("filing") = 5
  /\ \A s \in {"finish", "closing", "usage", "stopping"} \cup Ended : Level(s) = 6
  BY DEF Level, BeforeDecision, Stages, Onward, Ended

(* A higher bound holds as well.                                           *)
LEMMA OrderedBelow ==
  ASSUME NEW t, NEW n \in 0..6, NEW m \in 0..6, Ordered(t, n), n <= m
  PROVE  Ordered(t, m)
  BY RankType DEF Ordered

(* An entry that outranks what stands before it, or has no rank, or is one *)
(* more file, keeps the order.                                             *)
LEMMA OrderedMore ==
  ASSUME NEW t \in Entries, NEW e, NEW n \in 0..6, NEW m \in 0..6, Ordered(t, n),
         n <= m, Rank(e) <= m,
         Rank(e) = 0 \/ Rank(e) > n \/ (Rank(e) = 5 /\ n = 5)
  PROVE  Ordered(Append(t, e), m)
<1>1. PICK u : u = Append(t, e)
  OBVIOUS
<1>2. /\ Len(t) \in Nat /\ Len(u) = Len(t) + 1 /\ u[Len(t) + 1] = e
      /\ \A i \in 1..Len(t) : u[i] = t[i]
  BY <1>1 DEF Entries
<1>3. ASSUME NEW i \in 1..Len(u)
      PROVE  Rank(u[i]) <= m
  <2>1. CASE i = Len(t) + 1
    BY <1>2, <2>1
  <2>2. CASE i # Len(t) + 1
    <3>1. i \in 1..Len(t)
      BY <1>2, <2>2
    <3>. QED BY <1>2, <3>1, RankType DEF Ordered
  <2>. QED BY <2>1, <2>2
<1>4. ASSUME NEW i \in 1..Len(u), NEW j \in 1..Len(u),
             i < j, Rank(u[i]) # 0, Rank(u[j]) # 0
      PROVE  Rank(u[i]) < Rank(u[j]) \/ (Rank(u[i]) = 5 /\ Rank(u[j]) = 5)
  <2>1. i \in 1..Len(t) /\ u[i] = t[i]
    BY <1>2, <1>4
  <2>2. CASE j = Len(t) + 1
    <3>1. u[j] = e /\ Rank(t[i]) <= n
      BY <1>2, <2>1, <2>2 DEF Ordered
    <3>2. Rank(t[i]) \in 0..6 /\ Rank(e) \in 0..6
      BY RankType
    <3>3. CASE Rank(e) > n
      BY <2>1, <3>1, <3>2, <3>3
    <3>4. CASE Rank(e) = 5 /\ n = 5
      BY <2>1, <3>1, <3>2, <3>4
    <3>. QED BY <1>4, <3>1, <3>3, <3>4
  <2>3. CASE j # Len(t) + 1
    <3>1. j \in 1..Len(t) /\ u[j] = t[j]
      BY <1>2, <2>3
    <3>. QED BY <1>4, <2>1, <3>1 DEF Ordered
  <2>. QED BY <2>2, <2>3
<1>. QED
  BY <1>1, <1>3, <1>4 DEF Ordered

(* The ranks of the entries the actions record.                            *)
LEMMA Ranks ==
  /\ Rank(Entry("request", "turn")) = 1 /\ Rank(Entry("route", "turn")) = 2
  /\ \A v : Rank(Entry("verdict", v)) = 3
  /\ \A v : Rank(Entry("approval", v)) = 4
  /\ \A f \in Released : Rank(Entry("file.write", f)) = 5
  /\ Rank(Entry("release", "turn")) = 6
  /\ Rank(Entry("sources", "turn")) = 0
  /\ Rank(Entry("file.write", "produced")) = 0
  /\ \A o : Rank(Entry("model.call", o)) = 0 /\ Rank(Entry("tool.call", o)) = 0
  BY DEF Rank, Entry, Released

(* Each stage records what its level leaves room for.                      *)
LEMMA OrderStep ==
  ASSUME TypeOK, GateInvariant, OrderInvariant, [Next]_vars
  PROVE  OrderInvariant'
<1>t. trail \in Entries /\ Level(pc) \in 0..6 /\ Level(pc') \in 0..6
  BY Levels DEF TypeOK, ChatOK
<1>u. ASSUME UNCHANGED trail, Level(pc) <= Level(pc')
      PROVE  OrderInvariant'
  BY <1>t, <1>u, OrderedBelow DEF OrderInvariant
<1>l. ASSUME NEW a, NEW o, Log(a, o), Level(pc) <= Level(pc'),
             \/ Rank(Entry(a, o)) = 0
             \/ Level(pc) < Rank(Entry(a, o)) /\ Rank(Entry(a, o)) <= Level(pc')
             \/ Rank(Entry(a, o)) = 5 /\ Level(pc) = 5
      PROVE  OrderInvariant'
  <2>1. Rank(Entry(a, o)) \in 0..6
    BY RankType
  <2>2. Rank(Entry(a, o)) <= Level(pc')
    BY <1>l, <1>t, <2>1
  <2>. QED BY <1>l, <1>t, <2>1, <2>2, OrderedMore DEF OrderInvariant, Log
<1>p. ASSUME NEW o, ModelCall(o) \/ Log("tool.call", o), Level(pc) <= Level(pc')
      PROVE  OrderInvariant'
  BY <1>l, <1>p, Ranks DEF ModelCall
<1>1. CASE Decline \/ NoModel \/ Close \/ Return \/ RecordStop \/ Cancel \/ Finish
  <2>1. UNCHANGED trail /\ pc' \in {"usage", "stopping"} \cup Ended
    BY <1>1 DEF Decline, NoModel, Close, Return, RecordStop, Cancel, Finish, Ended
  <2>2. Level(pc') = 6
    BY <2>1, Levels
  <2>. QED BY <1>t, <1>u, <2>1, <2>2
<1>2. CASE Admit
  BY <1>2, <1>l, Levels, Ranks DEF Admit
<1>3. CASE Retrieve
  BY <1>3, <1>l, <1>u, Levels, Ranks DEF Retrieve
<1>4. CASE Route
  <2>1. pc = "route" /\ Log("route", "turn") /\ pc' \in Onward \cup {"chat"}
    BY <1>4, AfterType DEF Route, Proceed
  <2>. QED BY <1>l, <2>1, Levels, Ranks
<1>5. CASE ChatReply \/ FridayAnalyses \/ JarvisDrafts \/ UltronJudges
  <2>1. \E o : ModelCall(o)
    BY <1>5 DEF ChatReply, FridayAnalyses, JarvisDrafts, UltronJudges
  <2>2. /\ pc \in {"chat", "friday", "jarvis", "ultron"}
        /\ pc' \in {"usage", "closing", "sop_try", "jarvis", "preview", "execute",
                    "ultron", "verdict", "friday"}
    BY <1>5
    DEF ChatReply, FridayAnalyses, JarvisDrafts, UltronJudges, Fail, FinishDraft, Proceed
  <2>3. Level(pc) = 2 /\ Level(pc') \in {2, 6}
    BY <2>2, Levels DEF Onward
  <2>. QED BY <1>p, <2>1, <2>3
<1>6. CASE AuditSovereignty \/ CheckRequestSop \/ ReadSheet \/ CheckSurvey
           \/ CalculateLife \/ CheckAnalysisSop \/ ReadImage \/ Annotate
  <2>1. \/ UNCHANGED trail
        \/ \E o : ModelCall(o) \/ Log("tool.call", o)
    BY <1>6
    DEF AuditSovereignty, CheckRequestSop, ReadSheet, CheckSurvey, CalculateLife,
        Gather, Consult, CheckAnalysisSop, ReadImage, Annotate
  <2>2. /\ pc \in {"audit", "sop", "sheet", "survey", "calc", "sop_try", "image",
                   "annotate"}
        /\ pc' \in Onward \cup {"annotate", "jarvis"}
    BY <1>6, AfterType
    DEF AuditSovereignty, CheckRequestSop, ReadSheet, CheckSurvey, CalculateLife,
        Gather, CheckAnalysisSop, ReadImage, Annotate, Proceed, Onward
  <2>3. Level(pc) = 2 /\ Level(pc') = 2
    BY <2>2, Levels DEF Onward
  <2>. QED BY <1>p, <1>u, <2>1, <2>3
<1>7. CASE PreviewSheet \/ RunCode \/ StoreProduced \/ LogProduced
  <2>1. /\ pc \in {"preview", "execute"} /\ pc' \in {"execute", "ultron", "verdict"}
        /\ \/ UNCHANGED trail
           \/ \E o : Log("tool.call", o)
           \/ Log("file.write", "produced")
    BY <1>7 DEF PreviewSheet, FinishDraft, RunCode, StoreProduced, LogProduced
  <2>2. Level(pc) = 2 /\ Level(pc') = 2
    BY <2>1, Levels
  <2>. QED BY <1>l, <1>p, <1>u, <2>1, <2>2, Ranks
<1>8. ASSUME NEW entries \in Entries, NEW n \in 0..5, Ordered(entries, n),
             \/ trail' = entries /\ n <= Level(pc')
             \/ /\ trail' = Append(entries, Entry("release", "turn"))
                /\ pc' = "finish"
      PROVE  OrderInvariant'
  <2>1. CASE trail' = entries /\ n <= Level(pc')
    BY <1>8, <1>t, <2>1, OrderedBelow DEF OrderInvariant
  <2>2. CASE /\ trail' = Append(entries, Entry("release", "turn"))
             /\ pc' = "finish"
    BY <1>8, <2>2, OrderedMore, Levels, Ranks DEF OrderInvariant
  <2>. QED BY <1>8, <2>1, <2>2
<1>r. ASSUME NEW d, NEW e \in Entries, NEW n \in 0..5, Ordered(e, n), Release(d, e)
      PROVE  OrderInvariant'
  <2>1. \/ trail' = e /\ pc' \in {"filing", "finish"}
        \/ trail' = Append(e, Entry("release", "turn")) /\ pc' = "finish"
    BY <1>r DEF Release
  <2>. QED BY <1>8, <1>r, <2>1, Levels
<1>a. ASSUME NEW e \in Entries, Ordered(e, 3), NEW o \in Subjects
      PROVE  /\ Append(e, Entry("approval", o)) \in Entries
             /\ Ordered(Append(e, Entry("approval", o)), 4)
  <2>1. Append(e, Entry("approval", o)) \in Entries
    BY <1>a, EntryType DEF EntryActions
  <2>2. PICK d : d = Entry("approval", o) /\ Rank(d) = 4
    BY Ranks
  <2>3. Ordered(Append(e, d), 4)
    BY <1>a, <2>2, OrderedMore
  <2>. QED BY <2>1, <2>2, <2>3
<1>9. CASE Conclude
  <2>1. PICK entries : entries = Append(trail, Entry("verdict", verdict))
    OBVIOUS
  <2>2. PICK unasked : unasked = Append(entries, Entry("approval", "not obtained"))
    OBVIOUS
  <2>3. verdict \in Verdicts
    BY <1>9 DEF Conclude, GateInvariant, TypeOK, DraftOK
  <2>4. entries \in Entries
    BY <1>t, <2>1, <2>3, EntryType DEF EntryActions, Subjects
  <2>5. Ordered(trail, 2)
    BY <1>9, Levels DEF Conclude, OrderInvariant
  <2>6. Ordered(entries, 3)
    BY <1>t, <2>1, <2>5, OrderedMore, Ranks
  <2>7. unasked \in Entries /\ Ordered(unasked, 4)
    <3>1. "not obtained" \in Subjects
      BY DEF Subjects
    <3>. QED BY <1>a, <2>2, <2>4, <2>6, <3>1, Zenon
  <2>8. \/ \E d : Release(d, entries)
        \/ \E d : Release(d, unasked)
        \/ trail' = entries /\ pc' = "signoff"
    BY <1>9, <2>1, <2>2 DEF Conclude
  <2>. QED BY <1>8, <1>r, <2>4, <2>6, <2>7, <2>8, Levels
<1>10. CASE SignOff
  <2>1. Ordered(trail, 3)
    BY <1>10, Levels DEF SignOff, OrderInvariant
  <2>2. /\ "approved" \in Subjects /\ "rejected" \in Subjects
        /\ "not obtained" \in Subjects
    BY DEF Subjects
  <2>3. ASSUME NEW of \in Subjects,
               \/ \E d : Release(d, Append(trail, Entry("approval", of)))
               \/ \E d : Withhold(d, of)
        PROVE  OrderInvariant'
    <3>1. PICK entries : entries = Append(trail, Entry("approval", of))
      OBVIOUS
    <3>2. entries \in Entries /\ Ordered(entries, 4)
      BY <1>a, <1>t, <2>1, <3>1
    <3>3. (\E d : Release(d, entries)) \/ (trail' = entries /\ pc' = "closing")
      BY <2>3, <3>1 DEF Withhold, Log
    <3>. QED BY <1>8, <1>r, <3>2, <3>3, Levels
  <2>4. \/ Release("approved", Append(trail, Entry("approval", "approved")))
        \/ Withhold("rejected", "rejected")
        \/ Withhold("no answer", "not obtained")
    BY <1>10 DEF SignOff
  <2>. QED BY <2>2, <2>3, <2>4, Zenon
<1>11. pc = "filing" => Head(todo) \in Released
  <2>1. pc = "filing" => todo # <<>>
    BY DEF GateInvariant
  <2>. QED BY <2>1 DEF TypeOK, FilesOK
<1>12. CASE StoreFile \/ LogFile
  <2>1. /\ pc = "filing" /\ pc' = "filing"
        /\ UNCHANGED trail \/ Log("file.write", Head(todo))
    BY <1>12 DEF StoreFile, LogFile
  <2>. QED BY <1>l, <1>u, <1>11, <2>1, Levels, Ranks
<1>13. CASE FileReturned \/ FileNotWritten
  <2>1. PICK called : called = Append(trail, Entry("tool.call", ToolOf[Head(todo)]))
    OBVIOUS
  <2>2. /\ pc = "filing"
        /\ \E e \in {trail, called} :
             \/ trail' = e /\ pc' = "filing"
             \/ trail' = Append(e, Entry("release", "turn")) /\ pc' = "finish"
    BY <1>13, <2>1 DEF FileReturned, FileNotWritten, NextFile
  <2>3. called \in Entries
    <3>1. ToolOf[Head(todo)] \in Tools
      BY <1>11, <2>2 DEF Released, ToolOf, Tools
    <3>. QED BY <1>t, <2>1, <3>1, EntryType DEF EntryActions, Subjects
  <2>4. Ordered(trail, 5)
    BY <2>2, Levels DEF OrderInvariant
  <2>5. Ordered(called, 5)
    BY <1>t, <2>1, <2>4, OrderedMore, Ranks
  <2>. QED BY <1>8, <1>t, <2>2, <2>3, <2>4, <2>5, Levels
<1>14. CASE UNCHANGED vars
  BY <1>14 DEF vars, OrderInvariant
<1>15. CASE Work
  BY <1>1, <1>2, <1>3, <1>4, <1>5, <1>6, <1>7, <1>9, <1>10, <1>12, <1>13, <1>15
  DEF Work
<1>. QED
  BY <1>1, <1>14, <1>15 DEF Next

(* The audit trail tells every turn in the order it must happen: one       *)
(* verdict, one decision after it, the files, one release, and nothing of  *)
(* these out of place.                                                     *)
THEOREM RecordKeepsOrder == Spec => []RecordInOrder
<1>1. Init => OrderInvariant
  BY DEF Init, OrderInvariant, Ordered
<1>2. TypeOK /\ GateInvariant /\ OrderInvariant /\ [Next]_vars => OrderInvariant'
  BY OrderStep
<1>3. OrderInvariant => RecordInOrder
  BY DEF OrderInvariant, Ordered, RecordInOrder
<1>. QED
  BY <1>1, <1>2, <1>3, Inductive, PTL DEF Spec

-----------------------------------------------------------------------------
(* What the chat list says *)

(* The decisions that withhold, and what an answer may say of a decision.  *)
Withholding == {"rejected", "no answer", "no session"}

Honest(c, d, t) ==
  /\ c.receipt = "approved" => d = "approved" /\ Has(t, Entry("release", "turn"))
  /\ c.receipt \in Withholding \/ c.kind = "withheld" => d \in Withholding

(* The stages before anything is drafted, and those of a direct answer.    *)
Early == {"admit", "retrieve", "route", "chat"}
Direct == {"chat", "usage", "stopping", "returned", "stopped"}

(* Why the chat list does not overstate a run: the stored answer was true  *)
(* when it was given, and what it says cannot become false.                *)
OutcomeInvariant ==
  /\ pc \in Early => files = {} /\ attempts = 0
  /\ pc = "finish" /\ approval \in Opening => ReleaseReported
  /\ Honest(answer, approval, trail)
  /\ Honest(message.content, approval, trail)
  /\ "chat" \in status.marks => attempts = 0 /\ files = {} /\ pc \in Direct

(* A decision that withholds is none that opens.                           *)
LEMMA WithholdingKinds ==
  /\ "rejected" \in Withholding /\ "no answer" \in Withholding
  /\ "approved" \notin Withholding /\ "none" \notin Withholding
  /\ "undecided" \notin Withholding
  /\ \A d \in Withholding : d \notin Opening
  BY Zenon DEF Withholding, Opening

(* What an answer says of the decision cannot become false.                *)
LEMMA HonestStays ==
  ASSUME TypeOK, GateInvariant, [Next]_vars, NEW c, Honest(c, approval, trail)
  PROVE  Honest(c, approval', trail')
<1>1. approval # "undecided" => UNCHANGED approval
  BY StepKinds DEF Aside, Decides, Writes, MovesOn
<1>2. ReleaseReported => ReleaseReported'
  <2>1. pc = "filing" => ~ReleaseReported
    BY DEF GateInvariant
  <2>2. CASE Aside
    BY <2>2 DEF Aside
  <2>3. CASE Decides
    BY <2>3, UndecidedNothingOut DEF Decides
  <2>4. CASE Writes \/ MovesOn
    BY <2>1, <2>4 DEF Writes, MovesOn
  <2>. QED BY <2>2, <2>3, <2>4, StepKinds
<1>3. approval \in Withholding => approval # "undecided"
  BY WithholdingKinds
<1>. QED
  BY <1>1, <1>2, <1>3 DEF Honest, ReleaseReported, Reported

(* An answer that says nothing of a decision is honest.                    *)
LEMMA PlainIsHonest ==
  ASSUME NEW kind, kind # "withheld", NEW d, NEW t
  PROVE  Honest([kind |-> kind, receipt |-> "none"], d, t)
  BY WithholdingKinds DEF Honest

(* Only the chat status leaves the mark of a direct answer.                *)
LEMMA NoChatMark ==
  ASSUME NEW mark, mark # "chat", NEW done, UNCHANGED status \/ Say(mark, done)
  PROVE  "chat" \in status'.marks => "chat" \in status.marks
  BY DEF Say

(* Every answer is true of the decision when it is given and stored.       *)
LEMMA OutcomeStep ==
  ASSUME TypeOK, GateInvariant, OutcomeInvariant, [Next]_vars
  PROVE  OutcomeInvariant'
<1> DEFINE Told(c) == Honest(c, approval', trail')
           Marked == "chat" \in status'.marks => "chat" \in status.marks
<1>h. Told(answer) /\ Told(message.content)
  BY HonestStays DEF OutcomeInvariant
<1>p. ASSUME NEW k, k # "withheld" PROVE Told([kind |-> k, receipt |-> "none"])
  BY <1>p, PlainIsHonest
<1>s. ASSUME NEW c, Store(c), Told(c) PROVE Told(message'.content)
  BY <1>h, <1>s DEF Store
<1>m. ASSUME NEW mark, NEW done, mark # "chat", Say(mark, done) PROVE Marked
  BY <1>m, NoChatMark
<1>n. UNCHANGED status => Marked
  OBVIOUS
<1>f. pc' = "finish" /\ approval' \in Opening => ReleaseReported'
  <2>1. CASE Aside
    BY <2>1 DEF Aside, OutcomeInvariant
  <2>2. CASE Decides
    BY <2>2 DEF Decides
  <2>3. CASE Writes \/ MovesOn
    BY <2>3 DEF Writes, MovesOn
  <2>. QED BY <2>1, <2>2, <2>3, StepKinds
<1>o. ASSUME Told(answer'), Told(message'.content), Marked,
             pc' \in Early => pc \in Early /\ UNCHANGED <<files, attempts>>,
             pc \in Direct => pc' \in Direct /\ UNCHANGED <<files, attempts>>
      PROVE  OutcomeInvariant'
  BY <1>f, <1>o DEF OutcomeInvariant
<1> HIDE DEF Told, Marked
<1> USE DEF Early, Direct
<1>1. CASE Decline \/ NoModel
  <2>1. Told(answer') /\ Told(message'.content)
    BY <1>1, <1>h, <1>p, <1>s DEF Decline, NoModel, Answer
  <2>2. Marked
    BY <1>1, <1>m, <1>n DEF Decline, NoModel
  <2>3. pc \in {"admit", "route"} /\ pc' = "returned"
    BY <1>1 DEF Decline, NoModel
  <2>. QED BY <1>o, <2>1, <2>2, <2>3
<1>q. ASSUME UNCHANGED <<answer, message>>, Marked,
             pc \notin Direct,
             pc' \in Early => pc \in Early /\ UNCHANGED <<files, attempts>>
      PROVE  OutcomeInvariant'
  BY <1>h, <1>o, <1>q
<1>2. CASE Admit \/ Retrieve
  BY <1>2, <1>m, <1>n, <1>q DEF Admit, Retrieve, chatVars, draftVars, fileVars
<1>3. CASE Route
  <2>1. /\ pc = "route" /\ UNCHANGED <<answer, message, files>>
        /\ \/ pc' = "chat" /\ UNCHANGED attempts
           \/ pc' \in Onward /\ Say("router", FALSE)
    BY <1>3, AfterType DEF Route, Proceed, fileVars
  <2>2. CASE pc' = "chat" /\ UNCHANGED attempts
    BY <1>f, <1>h, <2>1, <2>2 DEF OutcomeInvariant, Told
  <2>3. CASE pc' \in Onward /\ Say("router", FALSE)
    BY <1>m, <1>q, <2>1, <2>3 DEF Onward
  <2>. QED BY <2>1, <2>2, <2>3
<1>4. CASE ChatReply
  <2>1. Told(answer')
    BY <1>4, <1>p DEF ChatReply, Answer
  <2>2. /\ UNCHANGED <<message, files, attempts>>
        /\ pc = "chat" /\ pc' = "usage"
    BY <1>4 DEF ChatReply, fileVars, draftVars
  <2>. QED BY <1>f, <1>h, <2>1, <2>2 DEF OutcomeInvariant, Told
<1>5. CASE AuditSovereignty \/ CheckRequestSop \/ ReadSheet \/ CheckSurvey
           \/ CalculateLife \/ CheckAnalysisSop \/ ReadImage \/ Annotate
  <2>1. UNCHANGED <<answer, message>> /\ Marked
    BY <1>5, <1>m, <1>n
    DEF AuditSovereignty, CheckRequestSop, ReadSheet, CheckSurvey, CalculateLife,
        Gather, CheckAnalysisSop, ReadImage, Annotate, chatVars
  <2>2. /\ pc \in {"audit", "sop", "sheet", "survey", "calc", "sop_try", "image",
                   "annotate"}
        /\ pc' \in Onward \cup {"annotate", "jarvis"}
    BY <1>5, AfterType
    DEF AuditSovereignty, CheckRequestSop, ReadSheet, CheckSurvey, CalculateLife,
        Gather, CheckAnalysisSop, ReadImage, Annotate, Proceed, Onward
  <2>. QED BY <1>q, <2>1, <2>2 DEF Onward
<1>6. CASE FridayAnalyses \/ JarvisDrafts
  <2>1. UNCHANGED message
    BY <1>6 DEF FridayAnalyses, JarvisDrafts
  <2>2. Told(answer') /\ Marked
    BY <1>6, <1>h, <1>p, <1>m DEF FridayAnalyses, JarvisDrafts, Fail, Answer
  <2>3. /\ pc \in {"friday", "jarvis"}
        /\ pc' \in {"closing", "sop_try", "jarvis", "preview", "execute", "ultron",
                    "verdict"}
    BY <1>6 DEF FridayAnalyses, JarvisDrafts, Fail, FinishDraft
  <2>. QED BY <1>h, <1>o, <2>1, <2>2, <2>3
<1>7. CASE PreviewSheet \/ StoreProduced \/ LogProduced \/ RunCode \/ UltronJudges
  <2>1. UNCHANGED <<answer, message>> /\ Marked
    BY <1>7, <1>m, <1>n
    DEF PreviewSheet, StoreProduced, LogProduced, RunCode, UltronJudges, chatVars
  <2>2. /\ pc \in {"preview", "execute", "ultron"}
        /\ pc' \in {"execute", "ultron", "verdict", "friday"}
    BY <1>7
    DEF PreviewSheet, FinishDraft, StoreProduced, LogProduced, RunCode,
        UltronJudges, Proceed
  <2>. QED BY <1>q, <2>1, <2>2
<1>8. CASE Conclude
  <2>1. UNCHANGED <<answer, message>> /\ Marked
    BY <1>8, <1>m, <1>n DEF Conclude
  <2>2. pc = "verdict" /\ pc' \in {"signoff", "filing", "finish"}
    BY <1>8 DEF Conclude, Release
  <2>. QED BY <1>q, <2>1, <2>2
<1>9. CASE SignOff
  <2>1. pc = "signoff" /\ UNCHANGED message
    BY <1>9 DEF SignOff
  <2>2. \/ (\E d, e : Release(d, e)) /\ UNCHANGED <<status, answer>>
        \/ Withhold("rejected", "rejected")
        \/ Withhold("no answer", "not obtained")
    BY <1>9 DEF SignOff
  <2>3. CASE (\E d, e : Release(d, e)) /\ UNCHANGED <<status, answer>>
    <3>1. pc' \in {"filing", "finish"}
      BY <2>3 DEF Release
    <3>. QED BY <1>n, <1>q, <2>1, <2>3, <3>1
  <2>4. ASSUME NEW d \in Withholding, NEW of, Withhold(d, of)
        PROVE  OutcomeInvariant'
    <3>1. /\ approval' = d /\ pc' = "closing"
          /\ answer' = [kind |-> "withheld", receipt |-> d]
      BY <2>4 DEF Withhold, Answer
    <3>2. Told(answer')
      BY <3>1, WithholdingKinds DEF Told, Honest
    <3>3. Marked
      BY <2>4, <1>m DEF Withhold
    <3>. QED BY <1>h, <1>o, <2>1, <3>1, <3>2, <3>3
  <2>. QED BY <2>2, <2>3, <2>4, WithholdingKinds, Zenon
<1>10. CASE StoreFile \/ LogFile \/ FileReturned \/ FileNotWritten
  <2>1. UNCHANGED <<answer, message>> /\ Marked
    BY <1>10, <1>m, <1>n
    DEF StoreFile, LogFile, FileReturned, FileNotWritten, chatVars
  <2>2. pc = "filing" /\ pc' \in {"filing", "finish"}
    BY <1>10 DEF StoreFile, LogFile, FileReturned, FileNotWritten, NextFile
  <2>. QED BY <1>q, <2>1, <2>2
<1>11. CASE Finish
  <2>1. /\ pc = "finish" /\ pc' = "usage" /\ UNCHANGED <<message, approval, trail>>
        /\ answer'.kind = "deliverable" /\ answer'.receipt \in {approval, "none"}
    BY <1>11 DEF Finish, Answer, gateVars
  <2>2. approval = "approved" => Has(trail, Entry("release", "turn"))
    BY <2>1 DEF OutcomeInvariant, Opening, ReleaseReported, Reported
  <2>3. Told(answer')
    BY <2>1, <2>2, WithholdingKinds DEF Told, Honest
  <2>4. Marked
    BY <1>11, <1>m DEF Finish
  <2>. QED BY <1>h, <1>o, <2>1, <2>3, <2>4
<1>12. CASE Close \/ Cancel
  <2>1. /\ UNCHANGED <<answer, message, status, files, attempts>>
        /\ pc' \in {"usage", "stopping"}
    BY <1>12 DEF Close, Cancel, chatVars, draftVars, fileVars
  <2>. QED BY <1>h, <1>n, <1>o, <2>1
<1>13. CASE Return \/ RecordStop
  <2>1. /\ UNCHANGED <<answer, files, attempts>> /\ pc' \in {"returned", "stopped"}
    BY <1>13 DEF Return, RecordStop, draftVars, fileVars
  <2>2. Marked
    BY <1>13, <1>m, <1>n DEF Return, RecordStop
  <2>3. Told(message'.content)
    BY <1>13, <1>h, <1>p, <1>s DEF Return, RecordStop
  <2>. QED BY <1>h, <1>o, <2>1, <2>2, <2>3
<1>14. CASE UNCHANGED vars
  <2>1. UNCHANGED <<answer, message, status, files, attempts, pc>>
    BY <1>14 DEF vars, chatVars, draftVars, fileVars
  <2>. QED BY <1>h, <1>n, <1>o, <2>1
<1>15. CASE Work
  BY <1>1, <1>2, <1>3, <1>4, <1>5, <1>6, <1>7, <1>8, <1>9, <1>10, <1>11, <1>12,
     <1>13, <1>15
  DEF Work
<1>. QED
  BY <1>12, <1>14, <1>15 DEF Next

(* The chat list never overstates a run: whatever fails, is withheld or is *)
(* stopped, "released" and "withheld" are read only from a message whose   *)
(* turn was just that, if the models' own text holds no receipt block and  *)
(* no withheld heading; "direct" is, whatever they wrote.                  *)
THEOREM ChatListIsHonest == Spec => []OutcomeNeverOverstates
<1>1. Init => OutcomeInvariant
  <2> SUFFICES ASSUME Init PROVE OutcomeInvariant
    OBVIOUS
  <2>1. Honest(answer, approval, trail) /\ Honest(message.content, approval, trail)
    BY PlainIsHonest DEF Init, NoContent
  <2>2. "chat" \notin status.marks /\ pc = "admit" /\ files = {} /\ attempts = 0
    BY DEF Init
  <2>. QED BY <2>1, <2>2 DEF OutcomeInvariant
<1>2. TypeOK /\ GateInvariant /\ OutcomeInvariant /\ [Next]_vars => OutcomeInvariant'
  BY OutcomeStep
<1>3. GateInvariant /\ OutcomeInvariant => OutcomeNeverOverstates
  <2> SUFFICES ASSUME GateInvariant, OutcomeInvariant PROVE OutcomeNeverOverstates
    OBVIOUS
  <2>0. ASSUME OwnWords
        PROVE  /\ FirstReceipt(message.content) = message.content.receipt
               /\ SaysWithheld(message.content) => message.content.kind = "withheld"
    BY <2>0 DEF OwnWords, FirstReceipt, SaysWithheld
  <2>1. OwnWords /\ fource_outcome = "released" =>
          approval = "approved" /\ ReleaseReported
    BY <2>0 DEF fource_outcome, OutcomeInvariant, Honest, ReleaseReported, Reported
  <2>2. ASSUME OwnWords, fource_outcome = "withheld"
        PROVE  ~ReleaseReported /\ files \cap Released = {}
    <3>1. message.content.receipt \in Withholding \/ message.content.kind = "withheld"
      BY <2>0, <2>2 DEF fource_outcome, Withholding
    <3>2. approval \notin Opening
      BY <3>1, WithholdingKinds DEF OutcomeInvariant, Honest
    <3>. QED BY <3>2 DEF GateInvariant, Out, Opening
  <2>3. fource_outcome = "direct" => attempts = 0 /\ files = {}
    BY DEF fource_outcome, OutcomeInvariant
  <2>. QED BY <2>1, <2>2, <2>3 DEF OutcomeNeverOverstates
<1>. QED
  BY <1>1, <1>2, <1>3, Inductive, PTL DEF Spec
===============================================================================
