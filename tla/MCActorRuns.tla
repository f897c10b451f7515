---------------------------- MODULE MCActorRuns ----------------------------
(* Small instances of ActorRuns for TLC.                                    *)
EXTENDS ActorRuns

\* a collection and its recovery, with a killed process and a failing call, or
\* with a Stop; a collection with a failing call and a Stop; two collections at
\* once
Troubles ==
    {[begins |-> 2, alive |-> 1, faults |-> 1, crashes |-> 1, stops |-> 0],
     [begins |-> 2, alive |-> 1, faults |-> 0, crashes |-> 0, stops |-> 1],
     [begins |-> 1, alive |-> 1, faults |-> 1, crashes |-> 0, stops |-> 1],
     [begins |-> 2, alive |-> 2, faults |-> 0, crashes |-> 0, stops |-> 0]}
=============================================================================
