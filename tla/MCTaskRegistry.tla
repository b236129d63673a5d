--------------------------- MODULE MCTaskRegistry ---------------------------
(***************************************************************************)
(* Two tasks, two instances, one stop with Redis and two without: enough   *)
(* for a task created while another one is cleaned up, for a stop served   *)
(* by an instance that does not run the task, and for two stops that meet. *)
(***************************************************************************)
EXTENDS TaskRegistry

CONSTANTS t1, t2, s1, s2, i1, i2

TwoTasks == {t1, t2}
MCStopsIn == TRUE :> {s1} @@ FALSE :> {s1, s2}
TwoInstances == {i1, i2}
Homes == t1 :> i1 @@ t2 :> i2 @@ s1 :> i1 @@ s2 :> i2
=============================================================================
