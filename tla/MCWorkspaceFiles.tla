-------------------------- MODULE MCWorkspaceFiles --------------------------
(* Three calls on one file: two that may meet and a third after them.      *)
EXTENDS WorkspaceFiles, TLC

CONSTANTS c1, c2, c3, a, b

ThreeCalls == {c1, c2, c3}
TwoContents == {a, b}

(* Neither calls nor contents are told apart, and nothing here is liveness. *)
Alike == Permutations(ThreeCalls) \cup Permutations(Contents)
=============================================================================
