------------------------- MODULE MCOutputPublication -------------------------
(* Small instances of OutputPublication. *)
EXTENDS OutputPublication, TLC

Symmetry == Permutations(Proc) \cup Permutations(Token) \cup Permutations(Plan)

=============================================================================
