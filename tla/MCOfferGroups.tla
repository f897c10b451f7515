--------------------------- MODULE MCOfferGroups ---------------------------
(* Three publications.  What they share: two have the same identity, and one *)
(* of them contradicts a third; all are copies of one text; two copies and   *)
(* a likely one; nothing is proven, texts are only alike, two too far apart. *)
EXTENDS OfferGroups

Evidence == [id |-> {}, text |-> {}, alike |-> {}, apart |-> {}, clash |-> {}]
AllPairs == kSubset(2, 1 .. N)

SameIdentity == [Evidence EXCEPT !.id = {{1, 2}}, !.alike = {{1, 3}, {2, 3}},
                                 !.clash = {{2, 3}}]
Copies == [Evidence EXCEPT !.text = AllPairs]
CopyAndLikely == [Evidence EXCEPT !.text = {{2, 3}}, !.alike = AllPairs]
Distant == [Evidence EXCEPT !.alike = {{1, 2}, {2, 3}}, !.apart = {{1, 3}}]

AllWorlds == {SameIdentity, Copies, CopyAndLikely, Distant}
=============================================================================
