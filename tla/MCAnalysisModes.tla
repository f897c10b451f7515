-------------------------- MODULE MCAnalysisModes --------------------------
(* Small instances of AnalysisModes for TLC.                               *)
EXTENDS AnalysisModes

Distinct == [j \in Jobs |-> j]
NoUnbuildable == {}
=============================================================================
