---------------------------- MODULE MCSubagents ----------------------------
(***************************************************************************)
(* Two background sub-agents share one slot, so that the second may start  *)
(* only when the first has reported or is about to; two foreground ones    *)
(* wait for another; the user speaks twice, and presses Stop once.         *)
(***************************************************************************)
EXTENDS Subagents

CONSTANTS u1, u2, a1, a2, b1, b2, f1, f2
=============================================================================
