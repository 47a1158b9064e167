---------------------------- MODULE MCCollector ----------------------------
(* Instances of Collector for model checking.                              *)
EXTENDS Collector, TLC

CONSTANT codex

OneProvider == <<codex>>

\* Two rounds of the probe, one of the cycle.
ProbesTwice == [j \in Jobs |-> IF j = Cycle THEN 1 ELSE 2]
=============================================================================
