------------------------------ MODULE AgentChain ------------------------------
(***************************************************************************)
(* One turn of the orchestrator pipe (4ce/functions/orchestrator.py): TONY *)
(* classifies and routes, the deterministic tools run, FRIDAY and JARVIS   *)
(* draft, the sandbox executes, ULTRON judges, TONY replans once, a person *)
(* signs off, the files are written and the release is recorded.           *)
(*                                                                         *)
(* The turn is a coroutine.  `pc' names the await it is suspended at, and  *)
(* an action is everything the code does from that await to the next one.  *)
(* The Stop button cancels the task at whichever await it is suspended at. *)
(*                                                                         *)
(* Text is abstracted to the sections it is made of, the audit trail to    *)
(* the action and subject of each entry this turn hands to it.  The trail  *)
(* may refuse an entry (a disk that is full): the turn goes on without it. *)
(***************************************************************************)
EXTENDS Naturals, Sequences, FiniteSets

CONSTANTS
    Requests,      \* the requests explored, a subset of Request
    Settings,      \* the valves and sessions explored, a subset of Setting
    MaxArtifacts,  \* bound: fenced blocks of a draft saved as files
    Echoed,        \* bound: what the models' own words may pass for, in Echoes
    Fallible       \* bound: the kinds of entries the trail may fail to write

TaskTypes == {"chat", "code", "vision", "document", "analysis"}

RETRIEVING_TASKS == {"document", "vision", "analysis"}

ImageKinds == {"none", "photo", "page", "drawing"}

Tools == {"verify_sovereignty", "check_sop_thresholds", "read_sheet",
          "calculate_remaining_life", "write_sheet", "run_python",
          "save_artifact", "create_spreadsheet", "create_presentation",
          "create_word_document"}

(* What a request asks for, as _classify and the _wants_ helpers read it:  *)
(* readings in the prompt, an attached sheet, holding survey rows or not,  *)
(* a remaining-life calculation, office files by name.                     *)
Request == [task : TaskTypes, image : ImageKinds, tools : SUBSET Tools,
            auditing : BOOLEAN, readings : BOOLEAN, sheet : BOOLEAN,
            survey : BOOLEAN, life : BOOLEAN,
            office : SUBSET {"xlsx", "pptx"}]

(* The valves the control flow reads; `session': a live session to prompt; *)
(* `saved': chat_id and message_id name a stored message.                  *)
Setting == [require_approval : BOOLEAN, enable_verification : BOOLEAN,
            enable_replan : BOOLEAN, show_reasoning : BOOLEAN,
            orchestrate_small_talk : BOOLEAN, session : BOOLEAN,
            saved : BOOLEAN]

ASSUME RequestsAssumption == Requests \subseteq Request
ASSUME SettingsAssumption == Settings \subseteq Setting
ASSUME MaxArtifactsAssumption == MaxArtifacts \in Nat

VARIABLES
    req, valves,
    pc,           \* the await the turn is suspended at
    call,         \* inside a tool that writes a file: idle, stored, logged
    got,          \* what the tools before FRIDAY returned
    attempts,
    deliverable,  \* the sections of the text, in order
    planned,      \* the draft asks for changes to the attached sheet
    ran,          \* _execution_check on this try's code
    verdict,      \* status of ULTRON's verdict after 4CE's own checks
    judged,       \* the text ULTRON was given
    shown,        \* the text the reviewer was given
    approval,
    fingerprint,  \* the text that is hashed for the release, <<>> for none
    todo,         \* files still to be written by the release
    files,        \* files stored, whoever stored them
    trail,        \* audit entries this turn handed to the trail, in order
    refused,      \* the places in it of the entries that were not written
    status,       \* the message's status history: marks, last one open
    answer,       \* what _run_chain returned
    echo,         \* what the models' own words in it pass for
    message       \* the stored message, as a reload shows it

inputs == <<req, valves>>
draftVars == <<attempts, deliverable, planned, ran, verdict, judged>>
gateVars == <<shown, approval, fingerprint>>
fileVars == <<call, todo, files>>
record == <<trail, refused>>
chatVars == <<status, answer, echo, message>>
vars == <<inputs, pc, got, draftVars, gateVars, fileVars, record, chatVars>>

-----------------------------------------------------------------------------
Stages == {"admit", "retrieve", "route", "chat", "audit", "image", "annotate",
           "sop", "sheet", "survey", "calc", "friday", "sop_try", "jarvis",
           "preview", "execute", "ultron", "verdict", "signoff", "filing",
           "finish", "closing", "usage"}

Ended == {"returned", "stopped"}

Agents == {"TONY", "READER", "FRIDAY", "JARVIS", "ULTRON"}

Verdicts == {"PASS", "FAIL", "ERROR", "SKIPPED"}

Decisions == {"not required", "no session", "no answer", "approved", "rejected"}

(* Files a release writes, and files stored while drafting: what the       *)
(* program left in /output, and the boxed copy of the image.               *)
Released == {"artifact", "xlsx", "pptx", "copy", "word"}
Drafted == {"produced", "annotated"}

ToolOf == [artifact |-> "save_artifact", xlsx |-> "create_spreadsheet",
           pptx |-> "create_presentation", copy |-> "write_sheet",
           word |-> "create_word_document"]

Sections == {"draft 1", "draft 2", "preview", "reading", "execution", "link"}

Entry(action, of) == [action |-> action, of |-> of]

EntryActions == {"request", "sources", "route", "model.call", "tool.call",
                 "file.write", "verdict", "approval", "release"}

ASSUME FallibleAssumption == Fallible \subseteq EntryActions

Subjects == Tools \cup Agents \cup Verdicts \cup Released \cup Drafted
            \cup {"turn", "approved", "rejected", "not obtained"}

Has(entries, e) == \E i \in 1..Len(entries) : entries[i] = e

(* Handed to the trail, and of these, written to the file.                 *)
Reported(action, of) == Has(trail, Entry(action, of))

OnFile(action, of) ==
    \E i \in 1..Len(trail) : i \notin refused /\ trail[i] = Entry(action, of)

NoContent == [kind |-> "none", receipt |-> "none"]

Contents == [kind : {"none", "notice", "error", "direct", "withheld",
                     "deliverable", "stopped"},
             receipt : Decisions \cup {"none"}]

(* What a reader of the stored text may take for the turn's own receipt    *)
(* although a model wrote it: a receipt block that says approved, rejected *)
(* or nothing a parser can use, or the heading of a withheld deliverable.  *)
Echoes == {"none", "approved", "rejected", "unreadable", "heading"}

ASSUME EchoedAssumption == Echoed \subseteq Echoes

Marks == {"error", "stopped", "chat"}

StatusHistory == [marks : SUBSET Marks, open : BOOLEAN]

Messages == [content : Contents, done : BOOLEAN]

Text == Seq(Sections)

Entries == Seq([action : EntryActions, of : Subjects])

InputsOK == req \in Request /\ valves \in Setting

ControlOK ==
    /\ pc \in Stages \cup Ended \cup {"stopping"}
    /\ call \in {"idle", "stored", "logged"}
    /\ got \subseteq {"audit", "reading", "sop", "sheet", "survey", "calc"}

DraftOK ==
    /\ attempts \in Nat
    /\ deliverable \in Text
    /\ planned \in BOOLEAN
    /\ ran \in {"none", "ok", "unverified", "problem", "final"}
    /\ verdict \in Verdicts \cup {"none"}
    /\ judged \in Text

GateOK ==
    /\ shown \in Text
    /\ approval \in Decisions \cup {"undecided"}
    /\ fingerprint \in Text

FilesOK ==
    /\ todo \in Seq(Released)
    /\ files \subseteq Released \cup Drafted

ChatOK ==
    /\ trail \in Entries
    /\ status \in StatusHistory
    /\ answer \in Contents
    /\ message \in Messages

RecordOK == refused \subseteq Nat /\ echo \in Echoes

TypeOK == InputsOK /\ ControlOK /\ DraftOK /\ GateOK /\ FilesOK /\ ChatOK
          /\ RecordOK

Init ==
    /\ req \in Requests
    /\ valves \in Settings
    /\ pc = "admit"
    /\ call = "idle"
    /\ got = {}
    /\ attempts = 0
    /\ deliverable = <<>>
    /\ planned = FALSE
    /\ ran = "none"
    /\ verdict = "none"
    /\ judged = <<>>
    /\ shown = <<>>
    /\ approval = "undecided"
    /\ fingerprint = <<>>
    /\ todo = <<>>
    /\ files = {}
    /\ trail = <<>>
    /\ refused = {}
    /\ status = [marks |-> {}, open |-> FALSE]
    /\ answer = NoContent
    /\ echo = "none"
    /\ message = [content |-> NoContent, done |-> FALSE]

-----------------------------------------------------------------------------
(* Helpers *)

(* record() returns None for an entry it could not write, and no caller    *)
(* looks: "Recording never fails the run".                                 *)
Recording ==
    \E lost \in SUBSET {i \in (Len(trail) + 1)..Len(trail') : trail'[i].action \in Fallible} :
        refused' = refused \cup lost

Log(action, of) == trail' = Append(trail, Entry(action, of)) /\ Recording

(* _agent_call: a model call is recorded when it returns, whatever it      *)
(* returned; a call that is cancelled leaves no entry.                     *)
ModelCall(agent) == Log("model.call", agent)

(* _status: the emitter adds the status to the stored message's history;   *)
(* a chat that is not saved has none.                                      *)
Say(mark, done) ==
    status' = IF valves.saved
              THEN [marks |-> status.marks \cup ({mark} \cap Marks),
                    open |-> ~done]
              ELSE status

(* _run_chain returns and the platform stores the text (external).         *)
Store(content) ==
    message' = IF valves.saved THEN [content |-> content, done |-> TRUE]
               ELSE message

Answer(kind, receipt) == answer' = [kind |-> kind, receipt |-> receipt]

Attached(tool) == tool \in req.tools

(* Which stage follows, given what the tools have returned so far.         *)
AfterSurvey == IF req.task # "chat" /\ req.life THEN "calc" ELSE "friday"

AfterSheet(g) ==
    IF req.task # "chat" /\ req.life /\ "sheet" \in g /\ req.survey
    THEN "survey" ELSE AfterSurvey

AfterSop(g) ==
    IF req.sheet /\ req.task # "chat" THEN "sheet" ELSE AfterSheet(g)

AfterImage(g) ==
    IF \/ req.task \in {"document", "analysis", "vision"} /\ req.readings
       \/ "reading" \in g /\ req.image # "drawing"
    THEN "sop" ELSE AfterSop(g)

AfterAudit(g) == IF req.image # "none" THEN "image" ELSE AfterImage(g)

AfterRoute(g) == IF req.auditing THEN "audit" ELSE AfterAudit(g)

(* Entering the loop body counts the try.                                  *)
Proceed(stage) ==
    /\ pc' = stage
    /\ attempts' = IF stage = "friday" THEN attempts + 1 ELSE attempts

-----------------------------------------------------------------------------
(* TONY: read the request, retrieve, route *)

(* An internal task, an empty request, an unknown user: no chain at all.   *)
Decline ==
    /\ pc = "admit"
    /\ pc' = "returned"
    /\ \E spoke \in BOOLEAN : IF spoke THEN Say("tony", FALSE)
                              ELSE UNCHANGED status
    /\ Answer("notice", "none")
    /\ \/ Store([kind |-> "notice", receipt |-> "none"])
       \/ UNCHANGED message        \* an internal task answers no message
    /\ UNCHANGED <<inputs, got, draftVars, gateVars, fileVars, record, echo>>

Admit ==
    /\ pc = "admit"
    /\ pc' = IF req.task \in RETRIEVING_TASKS /\ ~req.auditing
             THEN "retrieve" ELSE "route"
    /\ Say("tony", FALSE)
    /\ Log("request", "turn")
    /\ UNCHANGED <<inputs, got, draftVars, gateVars, fileVars, answer, echo,
                   message>>

Retrieve ==
    /\ pc = "retrieve"
    /\ pc' = "route"
    /\ \/ Log("sources", "turn")
       \/ UNCHANGED record          \* no collection, no passage, or it failed
    /\ UNCHANGED <<inputs, got, draftVars, gateVars, fileVars, chatVars>>

NoModel ==
    /\ pc = "route"
    /\ pc' = "returned"
    /\ Say("tony_plan", FALSE)
    /\ Answer("notice", "none")
    /\ Store([kind |-> "notice", receipt |-> "none"])
    /\ UNCHANGED <<inputs, got, draftVars, gateVars, fileVars, record, echo>>

Route ==
    /\ pc = "route"
    /\ Log("route", "turn")
    /\ IF req.task = "chat" /\ ~valves.orchestrate_small_talk
       THEN pc' = "chat" /\ Say("chat", FALSE) /\ UNCHANGED attempts
       ELSE Proceed(AfterRoute(got)) /\ Say("router", FALSE)
    /\ UNCHANGED <<inputs, got, deliverable, planned, ran, verdict, judged, gateVars,
                   fileVars, answer, echo,
                   message>>

ChatReply ==
    /\ pc = "chat"
    /\ pc' = "usage"
    /\ ModelCall("TONY")
    /\ \/ Say("error", TRUE) /\ Answer("error", "none")
       \/ Say("chat", TRUE) /\ Answer("direct", "none")
    /\ UNCHANGED <<inputs, got, draftVars, gateVars, fileVars, echo,
                   message>>

-----------------------------------------------------------------------------
(* The deterministic tools before FRIDAY *)

(* _use_tool on a tool that stores nothing: "" without a record when it is *)
(* not attached, else a tool.call entry and a usable result or not.        *)
Consult(tool, useful) ==
    /\ useful => Attached(tool)
    /\ IF Attached(tool) THEN Log("tool.call", tool) ELSE UNCHANGED record

Gather(stage, tool, next) ==
    /\ pc = stage
    /\ \E useful \in BOOLEAN :
         /\ Consult(tool, useful)
         /\ got' = IF useful THEN got \cup {stage} ELSE got
    /\ Proceed(next)
    /\ Say("tool", FALSE)
    /\ UNCHANGED <<inputs, deliverable, planned, ran, verdict, judged, gateVars,
                   fileVars, answer, echo,
                   message>>

AuditSovereignty == Gather("audit", "verify_sovereignty", AfterAudit(got'))
CheckRequestSop == Gather("sop", "check_sop_thresholds", AfterSop(got'))
ReadSheet == Gather("sheet", "read_sheet", AfterSheet(got'))
CheckSurvey == Gather("survey", "check_sop_thresholds", AfterSurvey)
CalculateLife == Gather("calc", "calculate_remaining_life", "friday")

(* The reading pass: fields, or nothing usable.                            *)
ReadImage ==
    /\ pc = "image"
    /\ Say("friday", FALSE)
    /\ \/ /\ ModelCall("READER")
          /\ \/ pc' = "annotate" /\ UNCHANGED attempts
             \/ Proceed(AfterImage(got))
       \/ Proceed(AfterImage(got)) /\ UNCHANGED record   \* no readable image
    /\ UNCHANGED <<inputs, got, deliverable, planned, ran, verdict, judged, gateVars,
                   fileVars, answer, echo,
                   message>>

(* _store_image puts the boxed copy in the file store; it may fail.        *)
Annotate ==
    /\ pc = "annotate"
    /\ \/ files' = files \cup {"annotated"}
       \/ UNCHANGED files
    /\ got' = got \cup {"reading"}
    /\ Proceed(AfterImage(got'))
    /\ UNCHANGED <<inputs, deliverable, planned, ran, verdict, judged, gateVars, call,
                   todo, record, chatVars>>

-----------------------------------------------------------------------------
(* FRIDAY, JARVIS and the sandbox *)

(* A reply that is a 4CE error ends the run there.                         *)
Fail ==
    /\ pc' = "closing"
    /\ Say("error", TRUE)
    /\ Answer("error", "none")

FridayAnalyses ==
    /\ pc = "friday"
    /\ ModelCall("FRIDAY")
    /\ \/ Fail
       \/ /\ pc' = IF /\ "sop" \notin got /\ req.task = "vision"
                      /\ "reading" \notin got /\ req.image # "drawing"
                   THEN "sop_try" ELSE "jarvis"
          /\ Say("friday", FALSE)
          /\ UNCHANGED answer
    /\ UNCHANGED <<inputs, got, draftVars, gateVars, fileVars, echo,
                   message>>

(* Readings that exist only in FRIDAY's analysis are assessed every try.   *)
CheckAnalysisSop ==
    /\ pc = "sop_try"
    /\ pc' = "jarvis"
    /\ \E useful \in BOOLEAN : Consult("check_sop_thresholds", useful)
    /\ Say("tool", FALSE)
    /\ UNCHANGED <<inputs, got, draftVars, gateVars, fileVars, answer, echo,
                   message>>

(* What _execution_check makes of a try that never reached the sandbox.    *)
NotExecuted(hasCode) ==
    IF req.task # "code" THEN "none"
    ELSE IF ~hasCode THEN "problem" ELSE "final"

(* The draft is complete but for the program's output: append the fields   *)
(* read from the image, then run the code, or go to ULTRON.                *)
FinishDraft(text, hasCode) ==
    /\ deliverable' = IF "reading" \in got THEN Append(text, "reading") ELSE text
    /\ IF req.task = "code" /\ hasCode /\ Attached("run_python")
       THEN pc' = "execute" /\ UNCHANGED <<ran, verdict>>
       ELSE /\ ran' = NotExecuted(hasCode)
            /\ IF valves.enable_verification
               THEN pc' = "ultron" /\ UNCHANGED verdict
               ELSE pc' = "verdict" /\ verdict' = "SKIPPED"

JarvisDrafts ==
    /\ pc = "jarvis"
    /\ ModelCall("JARVIS")
    /\ LET draft == <<IF attempts = 1 THEN "draft 1" ELSE "draft 2">> IN
       \/ Fail /\ UNCHANGED <<deliverable, planned, ran, verdict>>
       \/ /\ planned' \in BOOLEAN
          /\ planned' => "sheet" \in got
          /\ IF planned' /\ Attached("write_sheet")
             THEN /\ pc' = "preview"
                  /\ deliverable' = draft
                  /\ UNCHANGED <<ran, verdict>>
             ELSE \E hasCode \in BOOLEAN : FinishDraft(draft, hasCode)
          /\ Say("jarvis", FALSE)
          /\ UNCHANGED answer
    /\ UNCHANGED <<inputs, got, attempts, judged, gateVars, fileVars, echo,
                   message>>

(* write_sheet in preview mode writes nothing; what it would write joins   *)
(* the draft when the changes can be applied.                              *)
PreviewSheet ==
    /\ pc = "preview"
    /\ Log("tool.call", "write_sheet")
    /\ \E applies, hasCode \in BOOLEAN :
         FinishDraft(IF applies THEN Append(deliverable, "preview")
                     ELSE deliverable, hasCode)
    /\ UNCHANGED <<inputs, got, attempts, planned, judged, gateVars, fileVars,
                   chatVars>>

(* The program has exited and _deliver has put a file it left in /output   *)
(* into the file store; its file.write entry follows.                      *)
StoreProduced ==
    /\ pc = "execute" /\ call = "idle"
    /\ files' = files \cup {"produced"}
    /\ call' = "stored"
    /\ UNCHANGED <<inputs, pc, got, draftVars, gateVars, todo, record, chatVars>>

LogProduced ==
    /\ pc = "execute" /\ call = "stored"
    /\ Log("file.write", "produced")
    /\ call' = "logged"
    /\ UNCHANGED <<inputs, pc, got, draftVars, gateVars, todo, files, chatVars>>

(* What _execution_check reads from the sandbox's report: it ran and its   *)
(* asserts held, it ran and asserts nothing, it failed, or it did not run. *)
Outcomes == {"ok", "unverified", "problem", "final"}

(* run_python returned.  An exception in the tool leaves no report to      *)
(* append; a run that timed out collects no files.                         *)
RunCode ==
    /\ pc = "execute" /\ call # "stored"
    /\ call' = "idle"
    /\ Log("tool.call", "run_python")
    /\ \E outcome \in Outcomes :
         /\ call = "logged" => outcome # "final"
         /\ ran' = outcome
         /\ \/ deliverable' = Append(deliverable, "execution")
            \/ outcome = "final" /\ UNCHANGED deliverable
    /\ IF valves.enable_verification
       THEN pc' = "ultron" /\ UNCHANGED verdict
       ELSE pc' = "verdict" /\ verdict' = "SKIPPED"
    /\ Say("sandbox", ~valves.enable_verification)
    /\ UNCHANGED <<inputs, got, attempts, planned, judged, gateVars, todo, files,
                   answer, echo, message>>

-----------------------------------------------------------------------------
(* ULTRON and the replan *)

VerdictIgnoringUnrun(word, ownProblem) ==      \* mutant: `final' forgotten
    IF word = "PASS" /\ (ownProblem \/ ran = "problem") THEN "FAIL" ELSE word

(* 4CE's own checks turn a PASS into a FAIL: a problem it found itself, or *)
(* code that nobody ran.                                                   *)
Verdict(word, ownProblem) ==
    IF word = "PASS" /\ (ownProblem \/ ran \in {"problem", "final"})
    THEN "FAIL" ELSE word

MayReplanTwice ==                              \* mutant: off by one
    valves.enable_replan /\ attempts <= 2 /\ ran # "final"

MayReplan == valves.enable_replan /\ attempts <= 1 /\ ran # "final"

(* What _parse_verdict reads from ULTRON's reply: the first line's word,   *)
(* else the last one given; none at all is a FAIL, a failed call an ERROR. *)
Words == {"PASS", "FAIL", "ERROR"}

UltronJudges ==
    /\ pc = "ultron"
    /\ ModelCall("ULTRON")
    /\ judged' = deliverable
    /\ \E word \in Words, ownProblem \in BOOLEAN :
         verdict' = Verdict(word, ownProblem)
    /\ Proceed(IF verdict' # "PASS" /\ MayReplan THEN "friday" ELSE "verdict")
    /\ Say("ultron", FALSE)
    /\ UNCHANGED <<inputs, got, deliverable, planned, ran, gateVars, fileVars,
                   answer, echo, message>>

-----------------------------------------------------------------------------
(* Sign-off and release *)

ReleasingUnlessRejected(decision) == decision # "rejected"   \* mutant

Releasing(decision) == decision \in {"approved", "not required"}

(* The files the released text and the request call for, in the order the  *)
(* code writes them.  save_artifact is only reached when it is attached.   *)
Filings(artifacts) ==
    IF req.task = "chat" THEN <<>>
    ELSE [i \in 1..(IF Attached("save_artifact") THEN artifacts ELSE 0)
            |-> "artifact"]
         \o (IF "xlsx" \in req.office THEN <<"xlsx">> ELSE <<>>)
         \o (IF "pptx" \in req.office THEN <<"pptx">> ELSE <<>>)
         \o (IF planned THEN <<"copy">> ELSE <<>>)
         \o (IF req.task \in {"document", "vision"} THEN <<"word">> ELSE <<>>)

FingerprintWithLinks(decision) ==              \* mutant: hashed too late
    IF Releasing(decision) THEN Append(deliverable, "link") ELSE <<>>

(* The text whose SHA-256 the receipt, the record and the report carry.    *)
Fingerprint(decision) == IF Releasing(decision) THEN deliverable ELSE <<>>

(* From the decision to the next await: fingerprint the text and start on  *)
(* the files, or, with none to write, record the release.                  *)
Release(decision, entries) ==
    /\ approval' = decision
    /\ fingerprint' = Fingerprint(decision)
    /\ IF ~Releasing(decision)
       THEN pc' = "finish" /\ trail' = entries /\ Recording /\ UNCHANGED todo
       ELSE \E artifacts \in 0..MaxArtifacts :
              /\ todo' = Filings(artifacts)
              /\ IF todo' = <<>>
                 THEN /\ pc' = "finish"
                      /\ trail' = Append(entries, Entry("release", "turn"))
                      /\ Recording
                 ELSE pc' = "filing" /\ trail' = entries /\ Recording

(* The loop is over: the verdict is recorded and the gate decides whom to  *)
(* ask.  Without a session nobody can be asked, and nothing is released.   *)
Conclude ==
    /\ pc = "verdict"
    /\ LET entries == Append(trail, Entry("verdict", verdict)) IN
       \/ /\ ~valves.require_approval
          /\ Release("not required", entries)
          /\ UNCHANGED <<shown, status>>
       \/ /\ valves.require_approval /\ ~valves.session
          /\ Release("no session",
                     Append(entries, Entry("approval", "not obtained")))
          /\ UNCHANGED <<shown, status>>
       \/ /\ valves.require_approval /\ valves.session
          /\ pc' = "signoff"
          /\ trail' = entries /\ Recording
          /\ shown' = deliverable
          /\ Say("approval", FALSE)
          /\ UNCHANGED <<approval, fingerprint, todo>>
    /\ UNCHANGED <<inputs, got, draftVars, call, files, answer, echo, message>>

(* The reviewer's reply, reduced to what the code tells apart.             *)
Replies == {"approve", "other", "error"}

Decision(reply) ==
    CASE reply = "error" -> "no answer"
      [] reply = "approve" -> "approved"
      [] OTHER -> "rejected"

Withhold(decision, of) ==
    /\ approval' = decision
    /\ Log("approval", of)
    /\ pc' = "closing"
    /\ Say("approval", TRUE)
    /\ Answer("withheld", decision)
    /\ UNCHANGED <<fingerprint, todo>>

SignOff ==
    /\ pc = "signoff"
    /\ \E reply \in Replies :
         CASE Decision(reply) = "approved" ->
                /\ Release("approved",
                           Append(trail, Entry("approval", "approved")))
                /\ UNCHANGED <<status, answer>>
           [] Decision(reply) = "rejected" -> Withhold("rejected", "rejected")
           [] OTHER -> Withhold("no answer", "not obtained")
    /\ UNCHANGED <<inputs, got, draftVars, shown, call, files, echo, message>>

(* A release tool stores its file, records it, and returns.                *)
StoreFile ==
    /\ pc = "filing" /\ call = "idle"
    /\ Attached(ToolOf[Head(todo)])
    /\ files' = files \cup {Head(todo)}
    /\ call' = "stored"
    /\ Say("tool", FALSE)
    /\ UNCHANGED <<inputs, pc, got, draftVars, gateVars, todo, record, answer,
                   echo, message>>

LogFile ==
    /\ pc = "filing" /\ call = "stored"
    /\ Log("file.write", Head(todo))
    /\ call' = "logged"
    /\ UNCHANGED <<inputs, pc, got, draftVars, gateVars, todo, files, chatVars>>

NextFileTooSoon(entries) ==                    \* mutant: recorded in the loop
    /\ todo' = Tail(todo)
    /\ pc' = IF Tail(todo) = <<>> THEN "finish" ELSE pc
    /\ trail' = Append(entries, Entry("release", "turn"))
    /\ Recording

NextFileIfCalled(entries) ==                   \* mutant: waits for the tool
    IF entries = trail THEN UNCHANGED <<todo, pc, record>>
    ELSE /\ todo' = Tail(todo)
         /\ IF Tail(todo) = <<>>
            THEN /\ pc' = "finish"
                 /\ trail' = Append(entries, Entry("release", "turn"))
                 /\ Recording
            ELSE UNCHANGED pc /\ trail' = entries /\ Recording

(* On to the next file, or, after the last, the release entry.             *)
NextFile(entries) ==
    /\ todo' = Tail(todo)
    /\ IF Tail(todo) = <<>>
       THEN /\ pc' = "finish"
            /\ trail' = Append(entries, Entry("release", "turn"))
            /\ Recording
       ELSE UNCHANGED pc /\ trail' = entries /\ Recording

FileReturned ==
    /\ pc = "filing" /\ call = "logged"
    /\ call' = "idle"
    /\ deliverable' = Append(deliverable, "link")
    /\ NextFile(Append(trail, Entry("tool.call", ToolOf[Head(todo)])))
    /\ Say("deliverable", Tail(todo) = <<>>)
    /\ UNCHANGED <<inputs, got, attempts, planned, ran, verdict, judged, gateVars,
                   files, answer, echo, message>>

(* Not attached, refused or raised: nothing is stored and the release goes *)
(* on.  A refusal's text joins the answer, an exception's does not.        *)
FileNotWritten ==
    /\ pc = "filing" /\ call = "idle"
    /\ LET tool == ToolOf[Head(todo)] IN
       \/ ~Attached(tool) /\ NextFile(trail) /\ UNCHANGED deliverable
       \/ /\ Attached(tool)
          /\ NextFile(Append(trail, Entry("tool.call", tool)))
          /\ \/ UNCHANGED deliverable
             \/ deliverable' = Append(deliverable, "link")
    /\ UNCHANGED <<inputs, got, attempts, planned, ran, verdict, judged, gateVars,
                   call, files, chatVars>>

(* The closing status, then the text with or without its receipt.  What    *)
(* the models wrote comes before the receipt and goes out as it is.        *)
Finish ==
    /\ pc = "finish"
    /\ pc' = "usage"
    /\ Say("done", TRUE)
    /\ Answer("deliverable", IF valves.show_reasoning THEN approval ELSE "none")
    /\ echo' \in Echoed
    /\ UNCHANGED <<inputs, got, draftVars, gateVars, fileVars, record, message>>

Close ==
    /\ pc = "closing"
    /\ pc' = "usage"
    /\ UNCHANGED <<inputs, got, draftVars, gateVars, fileVars, record, chatVars>>

(* _report_usage, then pipe returns and the platform stores the answer.    *)
Return ==
    /\ pc = "usage"
    /\ pc' = "returned"
    /\ Store(answer)
    /\ UNCHANGED <<inputs, got, draftVars, gateVars, fileVars, record, status,
                   answer, echo>>

-----------------------------------------------------------------------------
(* The Stop button *)

(* Disabled verification goes from the draft to the gate without an await. *)
Suspended == pc \in Stages /\ ~(pc = "verdict" /\ verdict = "SKIPPED")

Cancel ==
    /\ Suspended
    /\ pc' = "stopping"
    /\ UNCHANGED <<inputs, got, draftVars, gateVars, fileVars, record, chatVars>>

(* The shielded record of a stopped turn: the status line and the bubble,  *)
(* then the stored message.  Either may fail and is then passed over.      *)
RecordStop ==
    /\ pc = "stopping"
    /\ pc' = "stopped"
    /\ \/ Say("stopped", TRUE)
       \/ UNCHANGED status
    /\ \/ Store([kind |-> "stopped", receipt |-> "none"])
       \/ UNCHANGED message
    /\ UNCHANGED <<inputs, got, draftVars, gateVars, fileVars, record, answer,
                   echo>>

-----------------------------------------------------------------------------
Work ==
    \/ Decline \/ Admit \/ Retrieve \/ NoModel \/ Route \/ ChatReply
    \/ AuditSovereignty \/ CheckRequestSop \/ ReadSheet \/ CheckSurvey
    \/ CalculateLife \/ ReadImage \/ Annotate
    \/ FridayAnalyses \/ CheckAnalysisSop \/ JarvisDrafts \/ PreviewSheet
    \/ StoreProduced \/ LogProduced \/ RunCode \/ UltronJudges
    \/ Conclude \/ SignOff
    \/ StoreFile \/ LogFile \/ FileReturned \/ FileNotWritten
    \/ Finish \/ Close \/ Return
    \/ RecordStop

Next == Work \/ Cancel

Spec == Init /\ [][Next]_vars

(* Every await returns: a model server answers or drops the connection, a  *)
(* tool returns or raises, and the sign-off ends with the caller's timeout *)
(* at the latest, as env.sovereign.example sets it.                        *)
FairSpec == Spec /\ WF_vars(Work)
-----------------------------------------------------------------------------
OutcomeNeedsReceipt ==                         \* mutant: no receipt, withheld
    LET content == message.content IN
    IF ~message.done THEN ""
    ELSE IF content.kind = "error" \/ status.marks # {} \/ status.open
    THEN "stopped"
    ELSE IF content.receipt = "approved" THEN "released" ELSE "withheld"

(* The first receipt block of the stored text: a model's own, if it wrote  *)
(* one, stands before the turn's.                                          *)
FirstReceipt(content) ==
    IF /\ content.kind = "deliverable"
       /\ echo \in {"approved", "rejected", "unreadable"}
    THEN echo ELSE content.receipt

SaysWithheld(content) ==
    \/ content.kind = "withheld"
    \/ content.kind = "deliverable" /\ echo = "heading"

(* How the chat list reads the stored message (utils/fource.py).           *)
fource_outcome ==
    LET content == message.content
        receipt == FirstReceipt(content)
    IN
    IF ~message.done THEN ""
    ELSE IF content.kind = "error" \/ status.marks \cap {"error", "stopped"} # {}
    THEN "stopped"
    ELSE IF status.open THEN "stopped"
    ELSE IF "chat" \in status.marks THEN "direct"
    ELSE IF receipt = "approved" THEN "released"
    ELSE IF receipt \in {"rejected", "no answer", "no session"}
    THEN "withheld"
    ELSE IF SaysWithheld(content) THEN "withheld"
    ELSE "done"

-----------------------------------------------------------------------------
(* Properties *)

ReleaseReported == Reported("release", "turn")

(* The chain implements the abstract gate: the files a release writes and  *)
(* the release entry come only after the one decision of the turn, an      *)
(* approval where one is required, through every replan, failed tool and   *)
(* stop.                                                                   *)
GateDecision ==
    CASE approval = "undecided" -> "pending"
      [] approval = "approved" -> "approved"
      [] approval = "not required" -> "waived"
      [] OTHER -> "withheld"

Gate == INSTANCE ApprovalGate WITH
    Files <- Released,
    required <- valves.require_approval,
    decision <- GateDecision,
    written <- files \cap Released,
    released <- ReleaseReported

ImplementsGate == Gate!Spec

(* Something has gone out: a file of the release, a fingerprint, an entry. *)
Out == files \cap Released # {} \/ fingerprint # <<>> \/ ReleaseReported

(* Approval fails closed: with require_approval on, a file of the release, *)
(* a fingerprint or a release entry exists only if the reviewer approved   *)
(* and that approval was handed to the audit trail before it: it is on     *)
(* file, or it is one of the entries the trail failed to write.            *)
NothingReleasedUnapproved ==
    valves.require_approval /\ Out =>
        \/ OnFile("approval", "approved")
        \/ \E i \in refused : trail[i] = Entry("approval", "approved")

(* The stages before the decision; a failed reply or a stop leaves them    *)
(* without one.                                                            *)
BeforeDecision == Stages \ {"filing", "finish", "closing", "usage"}

(* Why the gate holds: no stage before the decision has one, every stage   *)
(* after it does, a decision that opens the gate is backed by an entry     *)
(* or by the valve, whatever is out went out under one, and files are      *)
(* written only between the decision and the release entry.                *)
GateInvariant ==
    /\ pc = "verdict" => verdict # "none"
    /\ pc = "signoff" => valves.require_approval
    /\ pc = "finish" => approval # "undecided"
    /\ pc \in BeforeDecision => approval = "undecided"
    /\ approval = "approved" => Reported("approval", "approved")
    /\ approval = "not required" => ~valves.require_approval
    /\ Out => approval \in {"approved", "not required"}
    /\ pc = "filing" => /\ approval \in {"approved", "not required"}
                        /\ todo # <<>>
                        /\ ~ReleaseReported

(* The text that is fingerprinted is the text the reviewer was shown and   *)
(* the text ULTRON judged, and the answer is that text with only links     *)
(* added after it ("the text it checks is the text that is released").     *)
ReleasedTextIsReviewedText ==
    fingerprint # <<>> =>
        /\ approval = "approved" => fingerprint = shown
        /\ verdict # "SKIPPED" => fingerprint = judged
        /\ \A i \in 1..Len(deliverable) :
             IF i <= Len(fingerprint) THEN deliverable[i] = fingerprint[i]
             ELSE deliverable[i] = "link"

(* Code nobody ran has not been verified: on a code task a PASS stands     *)
(* only if the sandbox ran this try's program, after JARVIS wrote it.      *)
UnrunCodeNeverPasses ==
    req.task = "code" /\ verdict = "PASS" =>
        \E i \in 1..Len(trail) :
            /\ trail[i] = Entry("tool.call", "run_python")
            /\ \A j \in i..Len(trail) :
                 trail[j] # Entry("model.call", "JARVIS")

(* TONY replans once, and only on a verdict: between two calls of the same *)
(* drafting agent ULTRON judged, and no agent is called a third time.      *)
ReplanIsEarnedOnce ==
    \A a \in {"FRIDAY", "JARVIS"} :
        LET calls == {i \in 1..Len(trail) : trail[i] = Entry("model.call", a)}
        IN  \A i, j \in calls : i < j =>
                /\ calls = {i, j}
                /\ \E k \in i..j : trail[k] = Entry("model.call", "ULTRON")

(* The place of an entry in the record of a run; 0 for one that may stand  *)
(* anywhere.                                                               *)
Rank(e) ==
    CASE e.action = "request" -> 1
      [] e.action = "route" -> 2
      [] e.action = "verdict" -> 3
      [] e.action = "approval" -> 4
      [] e.action = "file.write" /\ e.of \in Released -> 5
      [] e.action = "release" -> 6
      [] OTHER -> 0

(* The turn tells the audit trail what it does in the order it must        *)
(* happen: request, route, one verdict, one decision, the files, one       *)
(* release, and no file after the release; so what the trail writes of it  *)
(* is in that order too.                                                   *)
RecordInOrder ==
    \A i, j \in 1..Len(trail) :
        i < j /\ Rank(trail[i]) # 0 /\ Rank(trail[j]) # 0 =>
            \/ Rank(trail[i]) < Rank(trail[j])
            \/ Rank(trail[i]) = 5 /\ Rank(trail[j]) = 5

(* The models wrote neither a receipt block nor the withheld heading.      *)
OwnWords == message.content.kind = "deliverable" => echo = "none"

(* The chat list never overstates a run, as long as the models' own text   *)
(* holds no receipt block and no withheld heading: "released" only for an  *)
(* approved run whose release was reported, "withheld" only when nothing   *)
(* went out; and, whatever they wrote, "direct" only for a turn that       *)
(* drafted nothing.                                                        *)
OutcomeNeverOverstates ==
    /\ OwnWords /\ fource_outcome = "released" =>
         approval = "approved" /\ ReleaseReported
    /\ OwnWords /\ fource_outcome = "withheld" =>
         ~ReleaseReported /\ files \cap Released = {}
    /\ fource_outcome = "direct" => attempts = 0 /\ files = {}

(* Every turn ends, returned or stopped, whatever fails on the way.        *)
TurnEnds == <>(pc \in Ended)

-----------------------------------------------------------------------------
(* What the documents say, which the code does not keep.                   *)

(* README.md:126, of the sign-off: "empty box and cancel both withhold,    *)
(* and no file is written".                                                *)
WithheldMeansNoFile == answer.kind = "withheld" => files = {}
===============================================================================
