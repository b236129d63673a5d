----------------------------- MODULE MCAgentChain -----------------------------
(* Small instances of AgentChain: a few requests that between them take    *)
(* every branch, and every combination of the valves that matter to them.  *)
EXTENDS AgentChain

Plain == [task |-> "analysis", image |-> "none", tools |-> Tools,
          auditing |-> FALSE, readings |-> FALSE, sheet |-> FALSE,
          survey |-> FALSE, life |-> FALSE, office |-> {}]

Greeting == [Plain EXCEPT !.task = "chat"]
Script == [Plain EXCEPT !.task = "code"]
ScriptNoSandbox == [Script EXCEPT !.tools = Tools \ {"run_python"}]
Note == [Plain EXCEPT !.task = "document", !.readings = TRUE,
                      !.office = {"pptx"}]
Unaided == [Note EXCEPT !.tools = {}]
Photo == [Plain EXCEPT !.task = "vision", !.image = "photo"]
Drawing == [Photo EXCEPT !.image = "drawing"]
Survey == [Plain EXCEPT !.sheet = TRUE, !.survey = TRUE, !.life = TRUE]
Workbook == [Plain EXCEPT !.life = TRUE, !.office = {"xlsx"}]
SovereigntyQuestion == [Plain EXCEPT !.auditing = TRUE]

EveryRequest == {Plain, Greeting, Script, ScriptNoSandbox, Note, Unaided,
                 Photo, Drawing, Survey, Workbook, SovereigntyQuestion}

(* As deployed: every valve at its default, in a chat that is open.        *)
Deployed == [require_approval |-> TRUE, enable_verification |-> TRUE,
             enable_replan |-> TRUE, show_reasoning |-> TRUE,
             orchestrate_small_talk |-> FALSE, session |-> TRUE,
             saved |-> TRUE]

(* Every valve varied on the deployed setting, two at a time where neither *)
(* bears on what the other does.                                           *)
EverySetting ==
    {Deployed,
     [Deployed EXCEPT !.require_approval = FALSE, !.enable_replan = FALSE],
     [Deployed EXCEPT !.enable_verification = FALSE],
     [Deployed EXCEPT !.require_approval = FALSE,
                      !.enable_verification = FALSE],
     [Deployed EXCEPT !.session = FALSE],
     [Deployed EXCEPT !.session = FALSE, !.saved = FALSE],
     [Deployed EXCEPT !.orchestrate_small_talk = TRUE,
                      !.show_reasoning = FALSE]}

DeployedOnly == {Deployed}
===============================================================================
