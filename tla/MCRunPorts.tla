----------------------------- MODULE MCRunPorts -----------------------------
(***************************************************************************)
(* RunPorts with two candidates: what one leaves behind meets the other.   *)
(***************************************************************************)
EXTENDS RunPorts

CONSTANTS first, second

MCFound == <<first, second>>
=============================================================================
