---------------------------- MODULE MCSupervisor ----------------------------
(* Instances of Supervisor for model checking.                             *)
EXTENDS Supervisor

CONSTANTS agent, once
=============================================================================
