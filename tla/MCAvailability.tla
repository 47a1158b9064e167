--------------------------- MODULE MCAvailability ---------------------------
(* Instances of Availability for model checking.                           *)
EXTENDS Availability, TLC

CONSTANTS service, shell

\* The agent alone, and with the other commands beside it.
AgentAlone == [p \in Places |-> {"run"}]
AgentAndShell == service :> {"run"} @@ shell :> {"once", "doctor"}
=============================================================================
