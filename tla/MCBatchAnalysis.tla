-------------------------- MODULE MCBatchAnalysis --------------------------
(* Small instances of BatchAnalysis for TLC.                               *)
EXTENDS BatchAnalysis, TLC

\* offers with their own content, or offer 3 beside two exact copies
Distinct == [j \in Jobs |-> j]
Copies == [j \in Jobs |-> IF j = 3 THEN 3 ELSE 1]

\* no request, or the evaluation of offer 3, cannot be built
NoUnbuildable == {}
Offer3TooLong == {<<"evaluation", 3>>}

\* runs are created in no particular order
RunSymmetry == Permutations(Runs)
=============================================================================
