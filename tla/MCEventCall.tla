------------------------------ MODULE MCEventCall ------------------------------
(* A request from session s1, and sessions its user or another may open.   *)
EXTENDS EventCall

CONSTANTS s1, s2, s3
================================================================================
