------------------------------ MODULE MCTimers ------------------------------
(***************************************************************************)
(* Two timers of one chat, one that the user's next message cancels and    *)
(* one that reading the chat cancels; a first message, in whose turn they  *)
(* are set, a second one and a reading.  PostgreSQL with two instances,    *)
(* and SQLite with one.                                                    *)
(***************************************************************************)
EXTENDS Timers, TLC

CONSTANTS x1, x2, i1, i2, k1, k2, k3

TwoTimers == {x1, x2}
ThreeEvents == {k1, k2, k3}
Kinds == k1 :> "chat.user_message" @@ k2 :> "chat.user_message" @@ k3 :> "chat.read"
CancelledBy == x1 :> {"chat.user_message"} @@ x2 :> {"chat.read"}
Supported == {[postgres |-> TRUE, instances |-> {i1, i2}], [postgres |-> FALSE, instances |-> {i1}]}
=============================================================================
