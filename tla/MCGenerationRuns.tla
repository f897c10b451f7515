------------------------- MODULE MCGenerationRuns -------------------------
(* Small instances of GenerationRuns for TLC.                              *)
EXTENDS GenerationRuns

BothModes == {"batch", "immediate"}
BatchOnly == {"batch"}

Budget(n, e, f, t) == [steps |-> n, edits |-> e, faults |-> f, retries |-> t]

\* a failure and a retry over one call; a Stop and its resumption over two
Resumptions == {Budget(1, 0, 1, 1), Budget(2, 0, 0, 0)}

\* an edit and a failure over one call, an edit over two
Disturbances == {Budget(1, 1, 1, 0), Budget(2, 1, 0, 0)}
=============================================================================
