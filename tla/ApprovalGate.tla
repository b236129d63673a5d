----------------------------- MODULE ApprovalGate -----------------------------
(***************************************************************************)
(* What the sign-off promises (4ce/docs/decisions/0002): where approval is *)
(* required, one decision is made, once; files go out only after it was an *)
(* approval, and none goes out once the release has been recorded.         *)
(***************************************************************************)
CONSTANT Files

VARIABLES required, decision, written, released

gate == <<required, decision, written, released>>

GateTypeOK ==
    /\ required \in BOOLEAN
    /\ decision \in {"pending", "approved", "waived", "withheld"}
    /\ written \subseteq Files
    /\ released \in BOOLEAN

Open(d) == d \in {"approved", "waived"}

Init ==
    /\ required \in BOOLEAN
    /\ decision = "pending"
    /\ written = {}
    /\ released = FALSE

(* A decision with nothing to write may be a release in the same step.     *)
Decide ==
    /\ decision = "pending"
    /\ decision' \in IF required THEN {"approved", "withheld"} ELSE {"waived"}
    /\ released' \in {FALSE, Open(decision')}
    /\ UNCHANGED <<required, written>>

Write ==
    /\ Open(decision) /\ ~released
    /\ \E f \in Files : written' = written \cup {f}
    /\ UNCHANGED <<required, decision, released>>

Release ==
    /\ Open(decision) /\ ~released
    /\ released' = TRUE
    /\ UNCHANGED <<required, decision, written>>

Next == Decide \/ Write \/ Release

Spec == Init /\ [][Next]_gate
===============================================================================
