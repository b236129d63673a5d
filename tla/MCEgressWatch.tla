---------------------------- MODULE MCEgressWatch ----------------------------
(* Small instances of EgressWatch.                                         *)
EXTENDS EgressWatch

Telemetry == [proc |-> "backend", local |-> "p1", remote |-> "internet"]
Again == [Telemetry EXCEPT !.local = "p2"]
Pull == [proc |-> "helper", local |-> "p1", remote |-> "internet"]

FewConns == {Telemetry, Again, Pull}
FewProcesses == {"helper", "model server"}
=============================================================================
