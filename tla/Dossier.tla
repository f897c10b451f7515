------------------------------- MODULE Dossier -------------------------------
(***************************************************************************)
(* What publication and deletion promise together: one application whose   *)
(* rows and files change at once.  "version" is the version of the         *)
(* documents one finds, once interrupted work is reconciled.               *)
(***************************************************************************)
CONSTANTS Token, None
VARIABLES status, version

Init == status = "none" /\ version = None

Reserve == status = "none" /\ status' = "reserved" /\ UNCHANGED version
GiveBack == status = "reserved" /\ status' = "none" /\ UNCHANGED version

Publish(t) ==
    /\ status \in {"reserved", "ready"} /\ version # t
    /\ status' = "ready" /\ version' = t

Send == status = "ready" /\ status' = "sent" /\ UNCHANGED version

Erase == status = "ready" /\ status' = "none" /\ version' = None

Next == Reserve \/ GiveBack \/ Send \/ Erase \/ \E t \in Token : Publish(t)

Spec == Init /\ [][Next]_<<status, version>>
=============================================================================
