-------------------------- MODULE OfferGroups_proof --------------------------
(***************************************************************************)
(* What TLAPS proves of OfferGroups.                                       *)
(***************************************************************************)
EXTENDS OfferGroups, FiniteSetTheorems, WellFoundedInduction, TLAPS

-----------------------------------------------------------------------------
(* Numbers, and recursive functions over them.                             *)

\* a set of numbers that is not empty has a least one
LEMMA LeastOf ==
    ASSUME NEW S, S \subseteq Nat, S # {}
    PROVE  \E x \in S : \A y \in S : x <= y
<1> DEFINE R == {ss \in Nat \X Nat : ss[1] < ss[2]}
<1>1. R = OpToRel(<, Nat) BY DEF OpToRel
<1>2. IsWellFoundedOn(R, Nat) BY NatLessThanWellFounded, <1>1
<1>3. \E x \in S : \A y \in S : ~ (<<y, x>> \in R) BY <1>2, WFMin
<1>4. PICK x \in S : \A y \in S : <<y, x>> \notin R BY <1>3
<1>5. ASSUME NEW y \in S PROVE x <= y
  <2>1. <<y, x>> \in Nat \X Nat => ~(y < x) BY <1>4
  <2> QED BY <2>1
<1> QED BY <1>5

LEMMA LeastIn ==
    ASSUME NEW S, S \subseteq Nat, S # {}
    PROVE  Min(S) \in S
BY LeastOf DEF Min

\* a bounded one has a greatest one
LEMMA GreatestIn ==
    ASSUME NEW m \in Nat, NEW S, S \subseteq 0 .. m, S # {}
    PROVE  Max(S) \in S
<1> DEFINE T == {x \in 0 .. m : m - x \in S}
<1>1. T # {} /\ T \subseteq Nat
  <2>1. PICK s \in S : TRUE OBVIOUS
  <2>2. m - s \in 0 .. m /\ m - (m - s) = s BY <2>1
  <2>3. m - s \in T BY <2>2, <2>1
  <2> QED BY <2>3
<1>2. PICK t \in T : \A y \in T : t <= y
  <2> HIDE DEF T
  <2> QED BY <1>1, LeastOf
<1>3. m - t \in S BY <1>2
<1>4. ASSUME NEW y \in S PROVE m - t >= y
  <2>1. y \in 0 .. m /\ m - (m - y) = y OBVIOUS
  <2>2. m - y \in T BY <2>1
  <2>3. t <= m - y BY <2>2, <1>2
  <2> QED BY <2>1, <2>3
<1> QED BY <1>3, <1>4 DEF Max

\* what holds of 0, and of every number whose predecessor it holds of
LEMMA UpTo ==
    ASSUME NEW m \in Nat, NEW G,
           0 \in G, \A n \in 1 .. m : n - 1 \in G => n \in G
    PROVE  \A n \in 0 .. m : n \in G
<1> DEFINE B == {n \in 0 .. m : n \notin G}
<1> SUFFICES ASSUME B # {} PROVE FALSE OBVIOUS
<1>1. PICK b \in B : \A y \in B : b <= y
  <2>1. B \subseteq Nat OBVIOUS
  <2> HIDE DEF B
  <2> QED BY <2>1, LeastOf
<1>2. b # 0 BY <1>1
<1>3. b \in 1 .. m /\ b - 1 \in 0 .. m /\ ~(b <= b - 1) BY <1>1, <1>2
<1>4. b - 1 \in G BY <1>1, <1>3
<1> QED BY <1>1, <1>3, <1>4

\* a function over 0 .. m given by its first value and by the step to the next
IsStep(S, step) == step \in [Nat -> [S -> S]]
Follows(S, a, m, step, h) ==
    h \in [0 .. m -> S] /\ h[0] = a /\ \A n \in 1 .. m : h[n] = step[n][h[n-1]]

LEMMA Recursion ==
    ASSUME NEW S, NEW a, NEW m, NEW step, a \in S, m \in Nat, IsStep(S, step)
    PROVE  \E h : Follows(S, a, m, step, h)
<1> USE DEF IsStep
<1> DEFINE Upto(k, h) == h = [n \in 0 .. k |-> IF n = 0 THEN a ELSE step[n][h[n-1]]]
           G == {k \in Nat : \E h \in [0 .. k -> S] : Upto(k, h)}
<1>1. 0 \in G
  <2> DEFINE h == [n \in 0 .. 0 |-> a]
  <2>1. h \in [0 .. 0 -> S] OBVIOUS
  <2>2. h = [n \in 0 .. 0 |-> IF n = 0 THEN a ELSE step[n][h[n-1]]] OBVIOUS
  <2> QED BY <2>1, <2>2
<1>2. ASSUME NEW n \in 1 .. m, n - 1 \in G PROVE n \in G
  <2>1. PICK h \in [0 .. n - 1 -> S] : Upto(n - 1, h) BY <1>2
  <2>2. n \in Nat /\ n - 1 \in Nat /\ n - 1 \in 0 .. n - 1 /\ n \notin 0 .. n - 1 /\ n # 0 BY <1>2
  <2>3. step[n] \in [S -> S] /\ h[n-1] \in S BY <2>1, <2>2
  <2> DEFINE g == [x \in 0 .. n |-> IF x = n THEN step[n][h[n-1]] ELSE h[x]]
  <2>4. g \in [0 .. n -> S]
    <3> SUFFICES ASSUME NEW x \in 0 .. n PROVE g[x] \in S OBVIOUS
    <3>1. CASE x = n BY <3>1, <2>3
    <3>2. CASE x # n
      <4>1. x \in 0 .. n - 1 BY <3>2, <1>2
      <4> QED BY <4>1, <3>2
    <3> QED BY <3>1, <3>2
  <2>5. ASSUME NEW x \in 0 .. n
        PROVE g[x] = IF x = 0 THEN a ELSE step[x][g[x-1]]
    <3>1. CASE x = n
      <4>1. g[n-1] = h[n-1] BY <2>2
      <4> QED BY <3>1, <4>1, <2>2
    <3>2. CASE x # n
      <4>1. x \in 0 .. n - 1 BY <3>2, <1>2
      <4>2. g[x] = h[x] BY <3>2
      <4>3. h[x] = IF x = 0 THEN a ELSE step[x][h[x-1]] BY <2>1, <4>1
      <4>4. CASE x = 0 BY <4>2, <4>3, <4>4
      <4>5. CASE x # 0
        <5>1. x - 1 \in 0 .. n /\ x - 1 # n BY <4>1, <4>5, <1>2
        <5>2. g[x-1] = h[x-1] BY <5>1
        <5> QED BY <4>2, <4>3, <4>5, <5>2
      <4> QED BY <4>4, <4>5
    <3> QED BY <3>1, <3>2
  <2>6. Upto(n, g) BY <2>5
  <2> HIDE DEF g, Upto
  <2> QED BY <2>2, <2>4, <2>6
<1>3. m \in G
  <2> HIDE DEF G
  <2>1. \A n \in 0 .. m : n \in G BY <1>1, <1>2, UpTo
  <2> QED BY <2>1
<1>4. PICK h \in [0 .. m -> S] : Upto(m, h) BY <1>3
<1>5. ASSUME NEW n \in 1 .. m PROVE h[n] = step[n][h[n-1]]
  <2>1. n \in 0 .. m /\ n # 0 OBVIOUS
  <2> QED BY <1>4, <2>1
<1>6. h[0] = a
  <2>1. 0 \in 0 .. m OBVIOUS
  <2> QED BY <1>4, <2>1
<1> QED BY <1>5, <1>6 DEF Follows

-----------------------------------------------------------------------------
(* Rows: what the operations on one offer do to each of its columns.       *)

LEMMA NoRowRow ==
    /\ NoRow \in Row /\ ~Stored(NoRow) /\ ~Pending(NoRow) /\ ~NoRow.archived
    /\ NoRow.canon = 0 /\ NoRow.possible = 0 /\ NoRow.app = "none"
    /\ ~NoRow.analysis /\ ~NoRow.choice
BY DEF NoRow, Row, Dossiers, Stored, Pending

LEMMA ArchivedRow ==
    ASSUME NEW o \in Row
    PROVE  LET a == Archived(o)
           IN  /\ a \in Row /\ Stored(a) /\ a.archived
               /\ a.canon = o.canon /\ a.possible = o.possible /\ a.review = o.review
               /\ a.app = o.app /\ a.analysis = o.analysis /\ a.choice = o.choice
BY DEF Archived, Row, Stored

LEMMA ReleasedRow ==
    ASSUME NEW o \in Row
    PROVE  LET a == Released(o)
           IN  /\ a \in Row /\ a.status = o.status /\ a.archived = o.archived
               /\ a.canon = o.canon /\ a.possible = 0 /\ a.review = "none"
               /\ a.app = o.app /\ a.analysis = o.analysis /\ a.choice = o.choice
               /\ a.analyzed = o.analyzed /\ a.filtered = o.filtered
BY DEF Released, Row

LEMMA AliasRow ==
    ASSUME NEW o \in Row, NEW k \in Offers
    PROVE  LET a == AliasOf(o, k)
           IN  /\ a \in Row /\ a.status = "archived" /\ a.archived
               /\ a.canon = k /\ a.possible = 0 /\ a.review = "confirmed"
               /\ a.app = o.app /\ a.analysis = o.analysis /\ a.choice = o.choice
BY DEF AliasOf, Archived, Row

LEMMA RescuedRow ==
    ASSUME NEW o \in Row
    PROVE  LET a == Rescued(o)
           IN  /\ a \in Row /\ a.status = "filtered" /\ ~a.archived
               /\ a.canon = o.canon /\ a.possible = o.possible /\ a.review = o.review
               /\ a.app = o.app
BY DEF Rescued, Row

LEMMA SynchronizedRow ==
    ASSUME NEW o \in Row, Stored(o)
    PROVE  LET a == Synchronized(o)
           IN  /\ a \in Row /\ Stored(a) /\ a.archived = o.archived
               /\ a.canon = o.canon /\ a.possible = o.possible /\ a.review = o.review
               /\ a.app = o.app
<1> DEFINE a == Synchronized(o)
<1>1. \E x \in {"archived", "review", "sent", "ready", "analyzed", o.status}, b \in BOOLEAN :
         a = [o EXCEPT !.status = x, !.analyzed = b]
  BY DEF Synchronized, Row
<1>2. PICK x \in {"archived", "review", "sent", "ready", "analyzed", o.status} :
         \E b \in BOOLEAN : a = [o EXCEPT !.status = x, !.analyzed = b]
  BY <1>1
<1>3. PICK b \in BOOLEAN : a = [o EXCEPT !.status = x, !.analyzed = b] BY <1>2
<1>4. x # "absent" BY DEF Stored
<1> HIDE DEF a
<1>5. /\ a \in Row /\ a.status = x /\ a.archived = o.archived /\ a.canon = o.canon
      /\ a.possible = o.possible /\ a.review = o.review /\ a.app = o.app
  BY <1>3 DEF Row
<1> QED BY <1>4, <1>5 DEF Stored, a

-----------------------------------------------------------------------------
(* Links.  r is a table, as in OfferGroups.                                *)

Tables == [Offers -> Row]

\* what each row says of itself and of the two rows it leads to
Fit(o) ==
    /\ ~Stored(o) => o = NoRow
    /\ o.canon # 0 => o.archived /\ ~Live(o.app) /\ o.possible = 0
    /\ Pending(o) <=> o.possible # 0
Points(r) ==
    \A k \in Offers :
        /\ Fit(r[k])
        /\ r[k].canon # 0 => Stored(r[r[k].canon])
        /\ r[k].possible # 0 => r[k].possible # k /\ Stored(r[r[k].possible])

\* No circle of aliases: above[k] holds the offers met on the way up from k, k
\* is not one of them, and top[k] is where the way ends.
Ways(r, above, top) ==
    \A k \in Offers :
        /\ k \notin above[k]
        /\ top[k] \in above[k] \cup {k}
        /\ r[k].canon = 0 => above[k] = {} /\ top[k] = k
        /\ r[k].canon # 0 => /\ above[k] = above[r[k].canon] \cup {r[k].canon}
                             /\ top[k] = top[r[k].canon]
        /\ \A a \in above[k] : above[a] \subseteq above[k] /\ top[a] = top[k]
Ends(r) == \E above \in [Offers -> SUBSET Offers], top \in [Offers -> Offers] :
              Ways(r, above, top)

Sound(r) == r \in Tables /\ Points(r) /\ Ends(r)

LEMMA LinkTypes ==
    ASSUME NEW r \in Tables, NEW k \in Offers
    PROVE  /\ r[k] \in Row
           /\ r[k].canon \in {0} \cup Offers /\ r[k].possible \in {0} \cup Offers
           /\ r[k].canon # 0 => r[k].canon \in Offers
           /\ r[k].possible # 0 => r[k].possible \in Offers
           /\ r[k].archived \in BOOLEAN /\ r[k].rescued \in BOOLEAN
           /\ r[k].app \in Dossiers
BY DEF Tables, Row

\* the way up from an offer has fewer steps than there are offers
LEMMA RootIsTop ==
    ASSUME ConstantsOK, NEW r \in Tables, Points(r),
           NEW above \in [Offers -> SUBSET Offers], NEW top \in [Offers -> Offers],
           Ways(r, above, top), NEW j \in Offers
    PROVE  /\ Root(r, j) = top[j]
           /\ r[Root(r, j)].canon = 0
           /\ Stored(r[j]) => Stored(r[Root(r, j)])
           /\ \A S \in SUBSET Offers :
                 j \in S /\ (\A k \in S : r[k].canon # 0 => r[k].canon \in S) => Root(r, j) \in S
<1> DEFINE next(k) == IF r[k].canon = 0 THEN k ELSE r[k].canon
           step == [n \in Nat |-> [k \in Offers |-> next(k)]]
           Rec(h) == h = [n \in 0 .. N - 1 |-> IF n = 0 THEN j ELSE next(h[n-1])]
<1>0. N \in Nat /\ N # 0 /\ N - 1 \in Nat BY ConstantsOK DEF ConstantsOK
<1>1. \A k \in Offers : next(k) \in Offers BY LinkTypes
<1>2. PICK h : Follows(Offers, j, N - 1, step, h)
  <2>1. IsStep(Offers, step) BY <1>1 DEF IsStep
  <2> HIDE DEF step
  <2> QED BY <1>0, <2>1, Recursion
<1>3. Rec(h)
  <2>1. ASSUME NEW n \in 0 .. N - 1
        PROVE  h[n] = IF n = 0 THEN j ELSE next(h[n-1])
    <3>1. n # 0 => n \in 1 .. N - 1 /\ n - 1 \in 0 .. N - 1 /\ n \in Nat BY <1>0
    <3>2. n # 0 => h[n-1] \in Offers BY <1>2, <3>1 DEF Follows
    <3>3. n # 0 => h[n] = next(h[n-1]) BY <1>2, <3>1, <3>2 DEF Follows
    <3> QED BY <1>2, <3>3 DEF Follows
  <2>2. h = [n \in 0 .. N - 1 |-> h[n]] BY <1>2 DEF Follows
  <2> QED BY <2>1, <2>2
<1>4. \A g : Rec(g) => g \in [0 .. N - 1 -> Offers]
  <2> SUFFICES ASSUME NEW g, Rec(g) PROVE g \in [0 .. N - 1 -> Offers] OBVIOUS
  <2> DEFINE G == {n \in 0 .. N - 1 : g[n] \in Offers}
  <2>1. 0 \in G BY <1>0
  <2>2. ASSUME NEW n \in 1 .. N - 1, n - 1 \in G PROVE n \in G
    <3>1. n \in 0 .. N - 1 /\ n # 0 BY <1>0
    <3>2. g[n] = next(g[n-1]) BY <3>1
    <3> QED BY <3>1, <3>2, <2>2, <1>1
  <2>3. \A n \in 0 .. N - 1 : n \in G
    <3> HIDE DEF G
    <3> QED BY <1>0, <2>1, <2>2, UpTo
  <2> QED BY <2>3
<1> DEFINE hop == CHOOSE g : Rec(g)
<1>5. Rec(hop) /\ Root(r, j) = hop[N - 1]
  <2>1. Rec(hop) BY <1>3
  <2> QED BY <2>1 DEF Root
<1>6. hop \in [0 .. N - 1 -> Offers] BY <1>4, <1>5
<1>7. PICK g \in [0 .. N - 1 -> Offers] : Rec(g) /\ Root(r, j) = g[N - 1]
  <2> HIDE DEF Rec, hop
  <2> QED BY <1>5, <1>6
<1>8. \A k \in Offers : IsFiniteSet(above[k]) /\ Cardinality(above[k]) \in Nat
                        /\ Cardinality(above[k]) <= N - 1
  <2> SUFFICES ASSUME NEW k \in Offers
               PROVE  IsFiniteSet(above[k]) /\ Cardinality(above[k]) \in Nat
                      /\ Cardinality(above[k]) <= N - 1
      OBVIOUS
  <2>1. IsFiniteSet(Offers) /\ Cardinality(Offers) = N BY <1>0, FS_Interval DEF Offers
  <2>2. IsFiniteSet(Offers \ {k}) /\ Cardinality(Offers \ {k}) = N - 1
    BY <2>1, FS_RemoveElement
  <2>3. above[k] \in SUBSET (Offers \ {k}) BY DEF Ways
  <2>4. IsFiniteSet(above[k]) /\ Cardinality(above[k]) <= Cardinality(Offers \ {k})
    BY <2>2, <2>3, FS_Subset
  <2>5. Cardinality(above[k]) \in Nat BY <2>4, FS_CardinalityType
  <2> QED BY <2>2, <2>4, <2>5
<1> DEFINE Climbed(n) == /\ top[g[n]] = top[j]
                         /\ Stored(r[j]) => Stored(r[g[n]])
                         /\ \/ r[g[n]].canon = 0
                            \/ Cardinality(above[g[n]]) <= N - 1 - n
           G == {n \in 0 .. N - 1 : Climbed(n)}
<1>9. 0 \in G
  <2>1. g[0] = j /\ 0 \in 0 .. N - 1 BY <1>0, <1>7
  <2> QED BY <2>1, <1>8, <1>0
<1>10. ASSUME NEW n \in 1 .. N - 1, n - 1 \in G PROVE n \in G
  <2> DEFINE a == g[n-1]
             b == g[n]
  <2>1. n \in 0 .. N - 1 /\ n # 0 /\ n - 1 \in 0 .. N - 1 /\ n \in Nat BY <1>0
  <2>2. a \in Offers /\ b \in Offers BY <2>1, <1>7
  <2>3. b = next(a) BY <2>1, <1>7
  <2>4. Climbed(n-1) BY <1>10
  <2>5. CASE r[a].canon = 0
    <3>1. b = a BY <2>3, <2>5
    <3> QED BY <3>1, <2>4, <2>1, <2>5
  <2>6. CASE r[a].canon # 0
    <3>1. b = r[a].canon BY <2>3, <2>6
    <3>2. above[a] = above[b] \cup {b} /\ top[a] = top[b] /\ b \notin above[b]
      BY <3>1, <2>2, <2>6 DEF Ways
    <3>3. Cardinality(above[a]) = Cardinality(above[b]) + 1
      BY <3>2, <2>2, <1>8, FS_AddElement
    <3>4. Cardinality(above[a]) <= N - 1 - (n - 1) BY <2>4, <2>6
    <3>5. Cardinality(above[b]) <= N - 1 - n BY <3>3, <3>4, <2>2, <1>8, <1>0, <2>1
    <3>6. Stored(r[b]) BY <3>1, <2>2, <2>6 DEF Points
    <3> QED BY <3>2, <3>5, <3>6, <2>4, <2>1
  <2> QED BY <2>5, <2>6
<1>11. Climbed(N - 1)
  <2>1. \A n \in 0 .. N - 1 : n \in G
    <3> HIDE DEF G
    <3> QED BY <1>0, <1>9, <1>10, UpTo
  <2>2. N - 1 \in 0 .. N - 1 BY <1>0
  <2> QED BY <2>1, <2>2
<1>15. ASSUME NEW S \in SUBSET Offers, j \in S, \A k \in S : r[k].canon # 0 => r[k].canon \in S
       PROVE  Root(r, j) \in S
  <2> DEFINE GS == {n \in 0 .. N - 1 : g[n] \in S}
  <2>1. 0 \in 0 .. N - 1 /\ N - 1 \in 0 .. N - 1 BY <1>0
  <2>2. 0 \in GS BY <2>1, <1>7, <1>15
  <2>3. ASSUME NEW n \in 1 .. N - 1, n - 1 \in GS PROVE n \in GS
    <3>1. n \in 0 .. N - 1 /\ n # 0 BY <1>0
    <3>2. g[n] = next(g[n-1]) BY <3>1, <1>7
    <3> QED BY <3>1, <3>2, <2>3, <1>15
  <2>4. \A n \in 0 .. N - 1 : n \in GS
    <3> HIDE DEF GS
    <3> QED BY <1>0, <2>2, <2>3, UpTo
  <2> QED BY <2>1, <2>4, <1>7
<1> DEFINE z == g[N - 1]
<1>12. z \in Offers BY <1>0, <1>7
<1>13. r[z].canon = 0
  <2> SUFFICES ASSUME r[z].canon # 0 PROVE FALSE OBVIOUS
  <2>1. Cardinality(above[z]) \in Nat /\ Cardinality(above[z]) <= N - 1 - (N - 1) BY <1>11, <1>12, <1>8
  <2>2. Cardinality(above[z]) = 0 BY <2>1, <1>0
  <2>3. above[z] = {} BY <2>2, <1>12, <1>8, FS_EmptySet
  <2>4. r[z].canon \in above[z] BY <1>12 DEF Ways
  <2> QED BY <2>3, <2>4
<1>14. top[z] = z BY <1>12, <1>13 DEF Ways
<1> QED BY <1>7, <1>11, <1>13, <1>14, <1>15

\* canonical_job ends at an offer that stands for itself
LEMMA RootEnds ==
    ASSUME ConstantsOK, NEW r, Sound(r), NEW j \in Offers
    PROVE  /\ Root(r, j) \in Offers /\ r[Root(r, j)].canon = 0
           /\ Stored(r[j]) => Stored(r[Root(r, j)])
           /\ r[j].canon = 0 => Root(r, j) = j
           /\ r[j].canon # 0 => Root(r, j) = Root(r, r[j].canon)
<1>1. r \in Tables /\ Points(r) BY DEF Sound
<1>2. PICK above \in [Offers -> SUBSET Offers], top \in [Offers -> Offers] : Ways(r, above, top)
  BY DEF Sound, Ends
<1>3. \A k \in Offers : Root(r, k) = top[k] BY <1>1, <1>2, RootIsTop
<1>4. r[Root(r, j)].canon = 0 /\ (Stored(r[j]) => Stored(r[Root(r, j)]))
  BY <1>1, <1>2, RootIsTop
<1>5. r[j].canon # 0 => r[j].canon \in Offers BY <1>1, LinkTypes
<1> QED BY <1>2, <1>3, <1>4, <1>5 DEF Ways

\* the offers of some confirmed groups are linked anew to w, one of them, or to none
LEMMA Regrouped ==
    ASSUME ConstantsOK, NEW r, Sound(r), NEW s \in Tables, NEW T, NEW w,
           \A k \in Offers :
              IF Root(r, k) \in T
              THEN s[k].canon # 0 => /\ s[k].canon = w /\ w # k /\ w \in Offers
                                     /\ Root(r, w) \in T /\ s[w].canon = 0
              ELSE s[k].canon = r[k].canon
    PROVE  Ends(s)
<1>1. r \in Tables /\ Points(r) BY DEF Sound
<1>2. PICK above \in [Offers -> SUBSET Offers], top \in [Offers -> Offers] : Ways(r, above, top)
  BY DEF Sound, Ends
<1>3. \A k \in Offers : Root(r, k) = top[k] BY <1>1, <1>2, RootIsTop
<1> DEFINE up == [k \in Offers |-> IF top[k] \in T
                                   THEN IF s[k].canon = 0 THEN {} ELSE {w} ELSE above[k]]
           to == [k \in Offers |-> IF top[k] \in T
                                   THEN IF s[k].canon = 0 THEN k ELSE w ELSE top[k]]
<1>4. \A k \in Offers : top[k] \in T =>
         (s[k].canon # 0 => s[k].canon = w /\ w # k /\ w \in Offers /\ top[w] \in T /\ s[w].canon = 0)
  BY <1>3
<1>5. \A k \in Offers : top[k] \notin T => s[k].canon = r[k].canon
  BY <1>3
<1>6. up \in [Offers -> SUBSET Offers] /\ to \in [Offers -> Offers] BY <1>4
<1>7. ASSUME NEW k \in Offers
      PROVE  /\ k \notin up[k]
             /\ to[k] \in up[k] \cup {k}
             /\ s[k].canon = 0 => up[k] = {} /\ to[k] = k
             /\ s[k].canon # 0 => /\ up[k] = up[s[k].canon] \cup {s[k].canon}
                                  /\ to[k] = to[s[k].canon]
             /\ \A a \in up[k] : up[a] \subseteq up[k] /\ to[a] = to[k]
  <2>1. CASE top[k] \in T BY <2>1, <1>4
  <2>2. CASE top[k] \notin T
    <3>1. up[k] = above[k] /\ to[k] = top[k] /\ s[k].canon = r[k].canon BY <2>2, <1>5
    <3>2. ASSUME NEW a \in above[k]
          PROVE  a \in Offers /\ up[a] = above[a] /\ to[a] = top[a] /\ top[a] = top[k]
                 /\ above[a] \subseteq above[k]
      <4>1. a \in Offers /\ top[a] = top[k] /\ above[a] \subseteq above[k] BY <1>2 DEF Ways
      <4> QED BY <4>1, <2>2
    <3>3. r[k].canon # 0 => r[k].canon \in above[k] BY <1>2 DEF Ways
    <3> HIDE DEF up, to
    <3> QED BY <3>1, <3>2, <3>3, <1>2 DEF Ways
  <2> QED BY <2>1, <2>2
<1>8. Ways(s, up, to) BY <1>7 DEF Ways
<1> HIDE DEF up, to
<1> QED BY <1>6, <1>8 DEF Ends

\* some offers that stood for themselves become aliases of another such offer
LEMMA Absorbed ==
    ASSUME ConstantsOK, NEW r, Sound(r), NEW s \in Tables, NEW L, NEW y \in Offers,
           y \notin L, r[y].canon = 0,
           \A k \in Offers : IF k \in L THEN r[k].canon = 0 /\ s[k].canon = y
                             ELSE s[k].canon = r[k].canon
    PROVE  Ends(s)
<1>1. r \in Tables /\ Points(r) BY DEF Sound
<1>2. PICK above \in [Offers -> SUBSET Offers], top \in [Offers -> Offers] : Ways(r, above, top)
  BY DEF Sound, Ends
<1> DEFINE up == [k \in Offers |-> IF top[k] \in L THEN above[k] \cup {y} ELSE above[k]]
           to == [k \in Offers |-> IF top[k] \in L THEN y ELSE top[k]]
<1>3. above[y] = {} /\ top[y] = y /\ y # 0 /\ up[y] = {} /\ to[y] = y BY <1>2 DEF Ways, Offers
<1>4. up \in [Offers -> SUBSET Offers] /\ to \in [Offers -> Offers] OBVIOUS
<1>5. ASSUME NEW k \in Offers
      PROVE  /\ k \notin up[k]
             /\ to[k] \in up[k] \cup {k}
             /\ s[k].canon = 0 => up[k] = {} /\ to[k] = k
             /\ s[k].canon # 0 => /\ up[k] = up[s[k].canon] \cup {s[k].canon}
                                  /\ to[k] = to[s[k].canon]
             /\ \A a \in up[k] : up[a] \subseteq up[k] /\ to[a] = to[k]
  <2>1. k = y => top[k] \notin L BY <1>3
  <2>2. k \notin up[k] BY <2>1, <1>2 DEF Ways
  <2>3. to[k] \in up[k] \cup {k} BY <1>2 DEF Ways
  <2>4. CASE k \in L
    <3>1. above[k] = {} /\ top[k] = k /\ s[k].canon = y /\ r[k].canon = 0 BY <2>4, <1>2 DEF Ways
    <3>2. up[k] = {y} /\ to[k] = y BY <3>1, <2>4
    <3> HIDE DEF up, to
    <3> QED BY <3>1, <3>2, <1>3, <2>2
  <2>5. CASE k \notin L
    <3>1. s[k].canon = r[k].canon BY <2>5
    <3>2. CASE r[k].canon = 0
      <4>1. above[k] = {} /\ top[k] = k BY <3>2, <1>2 DEF Ways
      <4> QED BY <4>1, <3>1, <3>2, <2>5
    <3>3. CASE r[k].canon # 0
      <4> DEFINE b == r[k].canon
      <4>1. b \in Offers BY <1>1, <3>3, LinkTypes
      <4>2. above[k] = above[b] \cup {b} /\ top[k] = top[b] BY <3>3, <1>2 DEF Ways
      <4>3. \A a \in above[k] : a \in Offers /\ above[a] \subseteq above[k] /\ top[a] = top[k]
        BY <1>2 DEF Ways
      <4>4. up[k] = up[b] \cup {b} /\ to[k] = to[b] BY <4>1, <4>2
      <4>5. ASSUME NEW a \in up[k] PROVE up[a] \subseteq up[k] /\ to[a] = to[k]
        <5>1. CASE a \in above[k] BY <5>1, <4>3
        <5>2. CASE a \notin above[k]
          <6>1. a = y /\ top[k] \in L BY <5>2
          <6> QED BY <6>1, <1>3
        <5> QED BY <5>1, <5>2
      <4> HIDE DEF up, to
      <4> QED BY <2>2, <2>3, <3>1, <3>3, <4>4, <4>5
    <3> QED BY <3>2, <3>3
  <2> QED BY <2>4, <2>5
<1>6. Ways(s, up, to) BY <1>5 DEF Ways
<1> HIDE DEF up, to
<1> QED BY <1>4, <1>6 DEF Ends

\* an alias stands for itself again, with the aliases below it
LEMMA Detached ==
    ASSUME ConstantsOK, NEW r, Sound(r), NEW s \in Tables, NEW p \in Offers,
           s[p].canon = 0, \A k \in Offers \ {p} : s[k].canon = r[k].canon
    PROVE  Ends(s)
<1>1. r \in Tables /\ Points(r) BY DEF Sound
<1>2. PICK above \in [Offers -> SUBSET Offers], top \in [Offers -> Offers] : Ways(r, above, top)
  BY DEF Sound, Ends
<1> DEFINE up == [k \in Offers |-> IF k = p THEN {}
                                   ELSE IF p \in above[k] THEN {a \in above[k] : p \in above[a]} \cup {p}
                                   ELSE above[k]]
           to == [k \in Offers |-> IF k = p \/ p \in above[k] THEN p ELSE top[k]]
<1>3. up \in [Offers -> SUBSET Offers] /\ to \in [Offers -> Offers] OBVIOUS
<1>4. \A k \in Offers : \A a \in above[k] :
         a \in Offers /\ above[a] \subseteq above[k] /\ top[a] = top[k] /\ a \notin above[a]
  BY <1>2 DEF Ways
<1>5. ASSUME NEW k \in Offers
      PROVE  /\ k \notin up[k]
             /\ to[k] \in up[k] \cup {k}
             /\ s[k].canon = 0 => up[k] = {} /\ to[k] = k
             /\ s[k].canon # 0 => /\ up[k] = up[s[k].canon] \cup {s[k].canon}
                                  /\ to[k] = to[s[k].canon]
             /\ \A a \in up[k] : up[a] \subseteq up[k] /\ to[a] = to[k]
  <2>0. k \notin above[k] /\ top[k] \in above[k] \cup {k} BY <1>2 DEF Ways
  <2>1. CASE k = p
    <3>1. up[k] = {} /\ to[k] = k /\ s[k].canon = 0 BY <2>1
    <3> QED BY <3>1
  <2>2. CASE k # p /\ r[k].canon = 0
    <3>1. s[k].canon = 0 /\ above[k] = {} /\ top[k] = k BY <2>2, <1>2 DEF Ways
    <3>2. up[k] = {} /\ to[k] = k BY <3>1, <2>2
    <3> QED BY <3>1, <3>2
  <2>3. CASE k # p /\ r[k].canon # 0
    <3> DEFINE b == r[k].canon
    <3>1. b \in Offers /\ s[k].canon = b /\ b # 0 BY <1>1, <2>3, LinkTypes
    <3>2. above[k] = above[b] \cup {b} /\ top[k] = top[b] BY <2>3, <1>2 DEF Ways
    <3>3. CASE p \notin above[k]
      <4>1. up[k] = above[k] /\ to[k] = top[k] BY <3>3, <2>3
      <4>2. b # p /\ p \notin above[b] /\ up[b] = above[b] /\ to[b] = top[b] BY <3>1, <3>2, <3>3
      <4>3. ASSUME NEW a \in above[k] PROVE up[a] = above[a] /\ to[a] = top[a]
        <5>1. a \in Offers /\ a # p /\ p \notin above[a] BY <3>3, <1>4
        <5> QED BY <5>1
      <4> HIDE DEF up, to
      <4> QED BY <2>0, <3>1, <3>2, <4>1, <4>2, <4>3, <1>4
    <3>4. CASE p \in above[k]
      <4>1. up[k] = {a \in above[k] : p \in above[a]} \cup {p} /\ to[k] = p BY <3>4, <2>3
      <4>2. to[b] = p /\ up[k] = up[b] \cup {b}
        <5>1. CASE b = p
          <6>1. \A a \in above[k] : p \notin above[a]
            BY <3>2, <5>1, <1>4, <3>1, <1>2 DEF Ways
          <6>2. up[b] = {} /\ to[b] = p BY <5>1
          <6> HIDE DEF up, to
          <6> QED BY <6>1, <6>2, <4>1, <5>1
        <5>2. CASE b # p
          <6>1. p \in above[b] BY <5>2, <3>2, <3>4
          <6>2. up[b] = {a \in above[b] : p \in above[a]} \cup {p} /\ to[b] = p BY <6>1, <5>2, <3>1
          <6> HIDE DEF up, to
          <6> QED BY <6>1, <6>2, <4>1, <3>2
        <5> QED BY <5>1, <5>2
      <4>3. ASSUME NEW a \in up[k] PROVE up[a] \subseteq up[k] /\ to[a] = p /\ a # k
        <5>1. CASE a = p BY <5>1, <2>3
        <5>2. CASE a # p
          <6>1. a \in above[k] /\ p \in above[a] BY <4>1, <5>2
          <6>2. a \in Offers /\ a # k /\ above[a] \subseteq above[k] BY <6>1, <1>4, <2>0
          <6>3. up[a] = {c \in above[a] : p \in above[c]} \cup {p} /\ to[a] = p BY <6>1, <6>2, <5>2
          <6> HIDE DEF up, to
          <6> QED BY <6>2, <6>3, <4>1
        <5> QED BY <5>1, <5>2
      <4> HIDE DEF up, to
      <4> QED BY <3>1, <4>1, <4>2, <4>3
    <3> QED BY <3>3, <3>4
  <2> QED BY <2>1, <2>2, <2>3
<1>6. Ways(s, up, to) BY <1>5 DEF Ways
<1> HIDE DEF up, to
<1> QED BY <1>3, <1>6 DEF Ends

\* a change that leaves the links alone, or takes reviews away
LEMMA FitKept ==
    ASSUME NEW q, Fit(q), NEW o, Stored(o),
           o.canon = q.canon, o.possible = q.possible, o.review = q.review,
           o.canon # 0 => o.archived /\ ~Live(o.app)
    PROVE  Fit(o)
BY DEF Fit, Pending

LEMMA SoundKept ==
    ASSUME ConstantsOK, NEW r, Sound(r), NEW s \in Tables,
           \A k \in Offers : /\ s[k].canon = r[k].canon
                             /\ s[k].possible \in {0, r[k].possible}
                             /\ Stored(r[k]) => Stored(s[k])
                             /\ Fit(s[k])
    PROVE  Sound(s)
<1>1. Ends(s)
  <2> DEFINE T == {}
             w == 0
  <2>1. \A k \in Offers :
           IF Root(r, k) \in T
           THEN s[k].canon # 0 => /\ s[k].canon = w /\ w # k /\ w \in Offers
                                  /\ Root(r, w) \in T /\ s[w].canon = 0
           ELSE s[k].canon = r[k].canon
    OBVIOUS
  <2> HIDE DEF T, w
  <2> QED BY <2>1, Regrouped
<1>2. r \in Tables /\ Points(r) BY DEF Sound
<1>3. ASSUME NEW k \in Offers
      PROVE  /\ s[k].canon # 0 => Stored(s[s[k].canon])
             /\ s[k].possible # 0 => s[k].possible # k /\ Stored(s[s[k].possible])
  <2>1. s[k].canon # 0 => s[k].canon \in Offers /\ Stored(r[s[k].canon])
    BY <1>2, LinkTypes DEF Points
  <2>2. s[k].possible # 0 => s[k].possible \in Offers /\ s[k].possible # k /\ Stored(r[s[k].possible])
    BY <1>2, LinkTypes DEF Points
  <2> QED BY <2>1, <2>2
<1>4. Points(s) BY <1>3 DEF Points
<1> QED BY <1>1, <1>4 DEF Sound

\* the same for one row
LEMMA SoundRow ==
    ASSUME ConstantsOK, NEW r, Sound(r), NEW j \in Offers, NEW o \in Row, Stored(o), Fit(o),
           o.canon = r[j].canon, o.possible \in {0, r[j].possible}
    PROVE  Sound([r EXCEPT ![j] = o])
<1>1. r \in Tables /\ Points(r) BY DEF Sound
<1> DEFINE s == [r EXCEPT ![j] = o]
<1>2. s \in Tables BY <1>1 DEF Tables
<1>3. \A k \in Offers : s[k] = IF k = j THEN o ELSE r[k] BY <1>1 DEF Tables
<1>4. \A k \in Offers : /\ s[k].canon = r[k].canon
                        /\ s[k].possible \in {0, r[k].possible}
                        /\ Stored(r[k]) => Stored(s[k])
                        /\ Fit(s[k])
  BY <1>1, <1>3 DEF Points
<1>5. Sound(s)
  <2> HIDE DEF s
  <2> QED BY <1>2, <1>4, SoundKept
<1> QED BY <1>5

\* an offer under review is stored, is no alias and may be released
LEMMA PendingRow ==
    ASSUME NEW r \in Tables, Points(r), NEW j \in Offers, Pending(r[j])
    PROVE  /\ Stored(r[j]) /\ r[j].canon = 0
           /\ r[j].possible \in Offers /\ r[j].possible # j /\ Stored(r[r[j].possible])
<1>1. Fit(r[j]) BY DEF Points
<1>2. r[j].possible # 0 /\ r[j].canon = 0 BY <1>1 DEF Fit
<1>3. Stored(r[j]) BY <1>1, NoRowRow DEF Fit
<1> QED BY <1>2, <1>3, LinkTypes DEF Points

LEMMA FitReleased ==
    ASSUME NEW q \in Row, Fit(q), Stored(q)
    PROVE  Fit(Released(q)) /\ Stored(Released(q))
<1>1. Stored(Released(q)) BY ReleasedRow DEF Stored
<1> QED BY <1>1, ReleasedRow DEF Fit, Pending

-----------------------------------------------------------------------------
(* The review of open links, stage by stage.                               *)

\* what a review may do to each offer of r: keep it visible where it is, or
\* hide one that stood for itself and on which no work was done
Spared(r, s) ==
    \A k \in Offers :
        /\ s[k].app = r[k].app /\ s[k].analysis = r[k].analysis /\ s[k].choice = r[k].choice
        /\ Stored(s[k]) <=> Stored(r[k])
        /\ \/ /\ s[k].canon = r[k].canon /\ s[k].status = r[k].status
              /\ s[k].archived = r[k].archived
           \/ r[k].canon = 0 /\ s[k].canon # 0 /\ Stored(r[k]) /\ ~Worked(r[k])

LEMMA SparedItself ==
    ASSUME NEW r
    PROVE  Spared(r, r)
BY DEF Spared

LEMMA SparedTwice ==
    ASSUME NEW r, NEW s, NEW t, Spared(r, s), Spared(s, t)
    PROVE  Spared(r, t)
BY DEF Spared, Worked

LEMMA SparedRow ==
    ASSUME NEW r \in Tables, NEW j \in Offers, NEW o,
           /\ o.app = r[j].app /\ o.analysis = r[j].analysis /\ o.choice = r[j].choice
           /\ Stored(o) <=> Stored(r[j])
           /\ \/ /\ o.canon = r[j].canon /\ o.status = r[j].status
                 /\ o.archived = r[j].archived
              \/ r[j].canon = 0 /\ o.canon # 0 /\ Stored(r[j]) /\ ~Worked(r[j])
    PROVE  Spared(r, [r EXCEPT ![j] = o])
<1>1. \A k \in Offers : [r EXCEPT ![j] = o][k] = IF k = j THEN o ELSE r[k] BY DEF Tables
<1> QED BY <1>1 DEF Spared

LEMMA UnsupportedReleased ==
    ASSUME ConstantsOK, NEW r, Sound(r), NEW P, \A j \in P : Pending(r[j])
    PROVE  LET s == ReleaseUnsupported(r, P)
           IN  Sound(s) /\ Spared(r, s) /\ \A j \in Offers : s[j].canon = r[j].canon
<1> DEFINE s == ReleaseUnsupported(r, P)
<1>1. r \in Tables /\ Points(r) BY DEF Sound
<1>2. ASSUME NEW k \in Offers
      PROVE  /\ s[k] \in Row /\ s[k].canon = r[k].canon
             /\ s[k].possible \in {0, r[k].possible}
             /\ Stored(s[k]) <=> Stored(r[k])
             /\ Fit(s[k])
             /\ s[k].app = r[k].app /\ s[k].analysis = r[k].analysis /\ s[k].choice = r[k].choice
             /\ s[k].status = r[k].status /\ s[k].archived = r[k].archived
  <2>1. r[k] \in Row /\ Fit(r[k]) BY <1>1, LinkTypes DEF Points
  <2>2. CASE k \in P /\ Unsupported(r, k)
    <3>1. s[k] = Released(r[k]) BY <2>2 DEF ReleaseUnsupported
    <3>2. Stored(r[k]) BY <1>1, <2>2, PendingRow
    <3> HIDE DEF s
    <3> QED BY <3>1, <3>2, <2>1, ReleasedRow, FitReleased
  <2>3. CASE ~(k \in P /\ Unsupported(r, k))
    <3>1. s[k] = r[k] BY <2>3 DEF ReleaseUnsupported
    <3> HIDE DEF s
    <3> QED BY <3>1, <2>1
  <2> QED BY <2>2, <2>3
<1>3. s = [k \in Offers |-> s[k]] BY DEF ReleaseUnsupported
<1> HIDE DEF s
<1>4. s \in Tables BY <1>2, <1>3 DEF Tables
<1>5. Sound(s) BY <1>2, <1>4, SoundKept
<1>6. Spared(r, s) BY <1>2 DEF Spared
<1> QED BY <1>2, <1>5, <1>6 DEF s

LEMMA DistantReleased ==
    ASSUME ConstantsOK, NEW r, Sound(r), NEW j \in Offers
    PROVE  LET s == ReleaseDistant(j, r)
           IN  Sound(s) /\ Spared(r, s) /\ \A k \in Offers : s[k].canon = r[k].canon
<1>1. r \in Tables /\ Points(r) BY DEF Sound
<1>2. CASE ReleaseDistant(j, r) = r BY <1>2, SparedItself
<1>3. CASE Pending(r[j]) /\ ReleaseDistant(j, r) = [r EXCEPT ![j] = Released(r[j])]
  <2> DEFINE o == Released(r[j])
  <2>1. Stored(r[j]) /\ r[j] \in Row /\ Fit(r[j]) BY <1>1, <1>3, PendingRow, LinkTypes DEF Points
  <2>2. /\ o \in Row /\ Fit(o) /\ Stored(o) /\ o.canon = r[j].canon /\ o.possible = 0
        /\ o.app = r[j].app /\ o.analysis = r[j].analysis /\ o.choice = r[j].choice
        /\ o.status = r[j].status /\ o.archived = r[j].archived
    BY <2>1, ReleasedRow, FitReleased
  <2> HIDE DEF o
  <2>3. Sound([r EXCEPT ![j] = o]) BY <2>2, SoundRow
  <2>4. Spared(r, [r EXCEPT ![j] = o]) BY <1>1, <2>1, <2>2, SparedRow
  <2>5. \A k \in Offers : [r EXCEPT ![j] = o][k].canon = r[k].canon BY <1>1, <2>2 DEF Tables
  <2> QED BY <1>3, <2>3, <2>4, <2>5 DEF o
<1> QED BY <1>2, <1>3 DEF ReleaseDistant

LEMMA IdentityConfirmed ==
    ASSUME ConstantsOK, NEW r, Sound(r), NEW j \in Offers
    PROVE  LET s == ConfirmIdentity(j, r)
           IN  /\ Sound(s) /\ Spared(r, s)
               /\ \A k \in Offers : s[k].canon # r[k].canon => {k, s[k].canon} \in world.id
<1>1. r \in Tables /\ Points(r) BY DEF Sound
<1>2. CASE ConfirmIdentity(j, r) = r BY <1>2, SparedItself
<1>3. CASE /\ Pending(r[j]) /\ Unused(r[j]) /\ IdentitySafe(r, j, r[j].possible)
           /\ ConfirmIdentity(j, r) = [r EXCEPT ![j] = AliasOf(r[j], r[j].possible)]
  <2> DEFINE y == r[j].possible
             o == AliasOf(r[j], y)
             s == [r EXCEPT ![j] = o]
  <2>1. /\ r[j] \in Row /\ Stored(r[j]) /\ r[j].canon = 0
        /\ y \in Offers /\ y # j /\ Stored(r[y])
    BY <1>1, <1>3, PendingRow, LinkTypes
  <2>2. r[y].canon = 0 /\ {j, y} \in world.id BY <1>3 DEF IdentitySafe
  <2>3. r[j].app = "none" /\ ~r[j].analysis /\ ~r[j].choice BY <1>3 DEF Unused, Spare
  <2>4. /\ o \in Row /\ o.status = "archived" /\ o.archived
        /\ o.canon = y /\ o.possible = 0 /\ o.review = "confirmed"
        /\ o.app = r[j].app /\ o.analysis = r[j].analysis /\ o.choice = r[j].choice
    BY <2>1, AliasRow
  <2>5. Stored(o) /\ Fit(o) BY <2>3, <2>4 DEF Fit, Stored, Pending, Live
  <2> HIDE DEF o, y
  <2>6. s \in Tables /\ \A k \in Offers : s[k] = IF k = j THEN o ELSE r[k]
    BY <1>1, <2>4 DEF Tables
  <2> HIDE DEF s
  <2>7. Ends(s)
    <3> DEFINE L == {j}
    <3>1. y \notin L BY <2>1
    <3>2. \A k \in Offers : IF k \in L THEN r[k].canon = 0 /\ s[k].canon = y
                            ELSE s[k].canon = r[k].canon
      BY <2>1, <2>4, <2>6
    <3> HIDE DEF L
    <3> QED BY <2>1, <2>2, <2>6, <3>1, <3>2, Absorbed
  <2>8. Points(s)
    <3> SUFFICES ASSUME NEW k \in Offers
                 PROVE  /\ Fit(s[k])
                        /\ s[k].canon # 0 => Stored(s[s[k].canon])
                        /\ s[k].possible # 0 => s[k].possible # k /\ Stored(s[s[k].possible])
        BY DEF Points
    <3>1. \A m \in Offers : Stored(r[m]) => Stored(s[m]) BY <2>5, <2>6
    <3>2. CASE k = j BY <3>1, <3>2, <2>1, <2>4, <2>5, <2>6
    <3>3. CASE k # j
      <4>1. s[k] = r[k] BY <2>6, <3>3
      <4>2. /\ Fit(r[k]) /\ r[k].canon # 0 => r[k].canon \in Offers /\ Stored(r[r[k].canon])
        BY <1>1, LinkTypes DEF Points
      <4>3. r[k].possible # 0 => r[k].possible \in Offers /\ r[k].possible # k /\ Stored(r[r[k].possible])
        BY <1>1, LinkTypes DEF Points
      <4> QED BY <4>1, <4>2, <4>3, <3>1, <1>1 DEF Points
    <3> QED BY <3>2, <3>3
  <2>9. Sound(s) BY <2>6, <2>7, <2>8 DEF Sound
  <2>10. Spared(r, s)
    <3>1. ~Worked(r[j]) BY <2>3 DEF Worked
    <3>2. o.canon # 0 BY <2>1, <2>4 DEF Offers
    <3> QED BY <1>1, <2>1, <2>4, <2>5, <3>1, <3>2, SparedRow DEF s
  <2>11. \A k \in Offers : s[k].canon # r[k].canon => {k, s[k].canon} \in world.id
    BY <2>2, <2>4, <2>6
  <2> QED BY <1>3, <2>9, <2>10, <2>11 DEF s, o, y
<1> QED BY <1>2, <1>3 DEF ConfirmIdentity

\* the publication kept is one of those it is chosen from, and stands for itself
LEMMA KeeperIn ==
    ASSUME ConstantsOK, NEW r, NEW S, S \subseteq Offers, {k \in S : r[k].canon = 0} # {}
    PROVE  Keeper(r, S) \in S /\ r[Keeper(r, S)].canon = 0
<1> DEFINE roots == {k \in S : r[k].canon = 0}
           first(T, U) == IF T # {} THEN T ELSE U
           pool == first({k \in roots : ~Spare(r[k])},
                         first({k \in roots : Active(r[k])}, roots))
<1>1. Keeper(r, S) = Max(pool) BY DEF Keeper
<1>2. pool # {} /\ pool \subseteq roots OBVIOUS
<1>3. pool \subseteq 0 .. N
  <2>1. pool \subseteq Offers BY <1>2
  <2> HIDE DEF pool
  <2> QED BY <2>1, ConstantsOK DEF Offers, ConstantsOK
<1>4. Max(pool) \in pool
  <2> HIDE DEF pool
  <2> QED BY <1>2, <1>3, ConstantsOK, GreatestIn DEF ConstantsOK
<1> QED BY <1>1, <1>2, <1>4

LEMMA CopiesConfirmed ==
    ASSUME ConstantsOK, NEW r, Sound(r),
           NEW group, group \subseteq Offers, \A k \in group : Stored(r[k])
    PROVE  LET s == ConfirmCopies(group, r)
           IN  /\ Sound(s) /\ Spared(r, s)
               /\ \A k \in Offers : k \notin group =>
                     s[k].canon = r[k].canon /\ s[k].status = r[k].status
                     /\ s[k].archived = r[k].archived
               /\ \A k \in group : r[k].canon = 0 /\ s[k].canon # 0 =>
                     /\ s[k].canon \in group
                     /\ Active(r[k]) => Active(s[s[k].canon])
<1> DEFINE open == {k \in group : Pending(r[k])}
           strays == {k \in open : r[k].possible \notin group}
           tied(k) == {r[k].possible, Root(r, r[k].possible)} \cap group
           copies == UNION {{k} \cup tied(k) : k \in {m \in open : tied(m) # {}}}
           guarded == {k \in copies : r[k].canon = 0 /\ ~Spare(r[k])}
           pool == IF guarded # {} THEN guarded
                   ELSE IF strays \cap copies # {} THEN strays \cap copies ELSE copies
           y == Keeper(r, pool)
           L == {k \in copies \ ({y} \cup strays) :
                        /\ Spare(r[k])
                        /\ Active(r[k]) => Active(r[y])
                        /\ CopySafe(r, k, y)}
           frees(k) == k = y /\ k \in open /\ r[k].possible \in L
           s == [k \in Offers |-> IF k \in L THEN AliasOf(r[k], y)
                                  ELSE IF frees(k) THEN Released(r[k]) ELSE r[k]]
           idle == \/ \E k \in group : AwaitsUser(r[k])
                   \/ {k \in pool : r[k].canon = 0} = {}
<1>1. ConfirmCopies(group, r) = IF idle THEN r ELSE s BY DEF ConfirmCopies
<1>2. r \in Tables /\ Points(r) BY DEF Sound
<1>3. CASE idle BY <1>1, <1>3, SparedItself
<1>4. CASE ~idle
  <2>1. copies \subseteq group OBVIOUS
  <2>2. pool \subseteq copies OBVIOUS
  <2> HIDE DEF copies
  <2>3. {k \in pool : r[k].canon = 0} # {} BY <1>4
  <2> HIDE DEF pool
  <2>4. y \in pool /\ r[y].canon = 0 BY <2>1, <2>2, <2>3, KeeperIn
  <2>5. y \in group /\ y \in Offers /\ y # 0 /\ Stored(r[y])
    <3> HIDE DEF y
    <3>1. y \in group BY <2>1, <2>2, <2>4
    <3>2. 0 \notin Offers BY ConstantsOK DEF Offers, ConstantsOK
    <3>3. y \in Offers BY <3>1
    <3> QED BY <3>1, <3>2, <3>3
  <2>6. \A k \in L : /\ k \in group /\ k \in Offers /\ k # y /\ Spare(r[k])
                     /\ Active(r[k]) => Active(r[y])
    BY <2>1
  <2> HIDE DEF y
  <2>7. \A k \in L : /\ r[k].canon = 0 /\ r[k].app = "none" /\ ~r[k].analysis /\ ~r[k].choice
    BY <2>6 DEF Spare
  <2>8. y \notin L BY <2>6
  <2> HIDE DEF L
  <2>9. ASSUME NEW k \in L
        PROVE  /\ s[k] \in Row /\ Fit(s[k]) /\ Stored(s[k])
               /\ s[k].canon = y /\ s[k].possible = 0
               /\ s[k].app = r[k].app /\ s[k].analysis = r[k].analysis /\ s[k].choice = r[k].choice
    <3> DEFINE o == AliasOf(r[k], y)
    <3>1. s[k] = o BY <2>6
    <3>2. r[k] \in Row BY <1>2, <2>6, LinkTypes
    <3>3. /\ o \in Row /\ o.status = "archived" /\ o.archived
          /\ o.canon = y /\ o.possible = 0 /\ o.review = "confirmed"
          /\ o.app = r[k].app /\ o.analysis = r[k].analysis /\ o.choice = r[k].choice
      BY <3>2, <2>5, AliasRow
    <3>4. Stored(o) /\ Fit(o) BY <3>3, <2>7 DEF Fit, Stored, Pending, Live
    <3> HIDE DEF o, s
    <3> QED BY <3>1, <3>3, <3>4
  <2>10. ASSUME NEW k \in Offers, k \notin L
         PROVE  /\ s[k] \in Row /\ Fit(s[k]) /\ (Stored(s[k]) <=> Stored(r[k]))
                /\ s[k].canon = r[k].canon /\ s[k].possible \in {0, r[k].possible}
                /\ s[k].app = r[k].app /\ s[k].analysis = r[k].analysis /\ s[k].choice = r[k].choice
                /\ s[k].status = r[k].status /\ s[k].archived = r[k].archived
    <3>1. r[k] \in Row /\ Fit(r[k]) BY <1>2, LinkTypes DEF Points
    <3>2. CASE frees(k)
      <4>1. s[k] = Released(r[k]) BY <2>10, <3>2
      <4>2. Stored(r[k]) BY <3>2, <2>5
      <4> HIDE DEF s
      <4> QED BY <4>1, <4>2, <3>1, ReleasedRow, FitReleased
    <3>3. CASE ~frees(k)
      <4>1. s[k] = r[k] BY <2>10, <3>3
      <4> HIDE DEF s
      <4> QED BY <4>1, <3>1
    <3> QED BY <3>2, <3>3
  <2>11. s = [k \in Offers |-> s[k]] OBVIOUS
  <2> HIDE DEF s
  <2>21. L \subseteq Offers BY <2>6
  <2>12. s \in Tables
    <3>1. ASSUME NEW k \in Offers PROVE s[k] \in Row
      <4>1. CASE k \in L BY <4>1, <2>9
      <4>2. CASE k \notin L BY <4>2, <2>10
      <4> QED BY <4>1, <4>2
    <3> QED BY <3>1, <2>11 DEF Tables
  <2>13. Ends(s)
    <3>1. \A k \in Offers : IF k \in L THEN r[k].canon = 0 /\ s[k].canon = y
                            ELSE s[k].canon = r[k].canon
      BY <2>7, <2>9, <2>10
    <3> QED BY <3>1, <2>4, <2>5, <2>8, <2>12, Absorbed
  <2>14. \A k \in Offers : Stored(r[k]) <=> Stored(s[k])
    <3> SUFFICES ASSUME NEW k \in Offers PROVE Stored(r[k]) <=> Stored(s[k]) OBVIOUS
    <3>1. CASE k \in L
      <4>1. Stored(r[k]) BY <3>1, <2>6
      <4> QED BY <4>1, <3>1, <2>9
    <3>2. CASE k \notin L BY <3>2, <2>10
    <3> QED BY <3>1, <3>2
  <2>15. Points(s)
    <3> SUFFICES ASSUME NEW k \in Offers
                 PROVE  /\ Fit(s[k])
                        /\ s[k].canon # 0 => Stored(s[s[k].canon])
                        /\ s[k].possible # 0 => s[k].possible # k /\ Stored(s[s[k].possible])
        BY DEF Points
    <3>1. r[k].canon # 0 => r[k].canon \in Offers /\ Stored(r[r[k].canon])
      BY <1>2, LinkTypes DEF Points
    <3>2. r[k].possible # 0 => r[k].possible \in Offers /\ r[k].possible # k /\ Stored(r[r[k].possible])
      BY <1>2, LinkTypes DEF Points
    <3>3. CASE k \in L BY <3>3, <2>9, <2>14, <2>5
    <3>4. CASE k \notin L
      <4>1. Fit(s[k]) /\ s[k].canon = r[k].canon /\ s[k].possible \in {0, r[k].possible}
        BY <3>4, <2>10
      <4> QED BY <4>1, <2>14, <3>1, <3>2
    <3> QED BY <3>3, <3>4
  <2>16. Sound(s) BY <2>12, <2>13, <2>15 DEF Sound
  <2>17. Spared(r, s)
    <3> SUFFICES ASSUME NEW k \in Offers
                 PROVE  /\ s[k].app = r[k].app /\ s[k].analysis = r[k].analysis
                        /\ s[k].choice = r[k].choice
                        /\ Stored(s[k]) <=> Stored(r[k])
                        /\ \/ /\ s[k].canon = r[k].canon /\ s[k].status = r[k].status
                              /\ s[k].archived = r[k].archived
                           \/ r[k].canon = 0 /\ s[k].canon # 0 /\ Stored(r[k]) /\ ~Worked(r[k])
        BY DEF Spared
    <3>1. CASE k \in L
      <4>1. ~Worked(r[k]) BY <3>1, <2>7 DEF Worked
      <4> QED BY <4>1, <3>1, <2>5, <2>6, <2>7, <2>9
    <3>2. CASE k \notin L
      <4>1. /\ s[k].canon = r[k].canon /\ (Stored(s[k]) <=> Stored(r[k]))
            /\ s[k].app = r[k].app /\ s[k].analysis = r[k].analysis /\ s[k].choice = r[k].choice
            /\ s[k].status = r[k].status /\ s[k].archived = r[k].archived
        BY <3>2, <2>10
      <4> QED BY <4>1
    <3> QED BY <3>1, <3>2
  <2>18. ASSUME NEW k \in Offers, k \notin group
         PROVE  s[k].canon = r[k].canon /\ s[k].status = r[k].status /\ s[k].archived = r[k].archived
    BY <2>18, <2>6, <2>10
  <2>19. ASSUME NEW k \in group, r[k].canon = 0, s[k].canon # 0
         PROVE  s[k].canon \in group /\ (Active(r[k]) => Active(s[s[k].canon]))
    <3>1. k \in L BY <2>10, <2>19
    <3>2. s[k].canon = y BY <3>1, <2>9
    <3>3. Active(r[y]) => Active(s[y]) BY <2>5, <2>8, <2>10 DEF Active
    <3> QED BY <3>1, <3>2, <3>3, <2>5, <2>6
  <2>20. ConfirmCopies(group, r) = s BY <1>1, <1>4
  <2> HIDE DEF idle
  <2> QED BY <2>16, <2>17, <2>18, <2>19, <2>20
<1> QED BY <1>3, <1>4

-----------------------------------------------------------------------------
(* The stages in their order.                                              *)

LEMMA DistancedSound ==
    ASSUME ConstantsOK, NEW r, Sound(r), NEW P, \A j \in P : Pending(r[j])
    PROVE  /\ Sound(Distanced(r, P)) /\ Spared(r, Distanced(r, P))
           /\ \A j \in Offers : Distanced(r, P)[j].canon = r[j].canon
<1> DEFINE Reached(t) == Sound(t) /\ Spared(r, t) /\ \A j \in Offers : t[j].canon = r[j].canon
           S == {t \in Tables : Reached(t)}
           a == ReleaseUnsupported(r, P)
           next(n, t) == IF n \in P THEN ReleaseDistant(n, t) ELSE t
           step == [n \in Nat |-> [t \in S |-> IF n \in Offers THEN next(n, t) ELSE t]]
           Rec(h) == h = [n \in 0 .. N |-> IF n = 0 THEN a ELSE next(n, h[n-1])]
<1>0. N \in Nat /\ N \in 0 .. N BY ConstantsOK DEF ConstantsOK
<1>1. a \in S
  <2> HIDE DEF a
  <2>1. Reached(a) BY UnsupportedReleased DEF a
  <2> QED BY <2>1 DEF Sound
<1>2. ASSUME NEW n \in Offers, NEW t \in S PROVE next(n, t) \in S
  <2> DEFINE s == next(n, t)
  <2>1. Sound(t) /\ Spared(r, t) /\ \A j \in Offers : t[j].canon = r[j].canon OBVIOUS
  <2>2. Sound(s) /\ Spared(t, s) /\ \A j \in Offers : s[j].canon = t[j].canon
    <3>1. CASE n \in P BY <2>1, <3>1, DistantReleased
    <3>2. CASE n \notin P BY <2>1, <3>2, SparedItself
    <3> QED BY <3>1, <3>2
  <2> HIDE DEF s
  <2>3. Reached(s) BY <2>1, <2>2, SparedTwice
  <2>4. s \in S BY <2>3 DEF Sound
  <2> QED BY <2>4 DEF s
<1>3. IsStep(S, step)
  <2> HIDE DEF S, next
  <2> QED BY <1>2 DEF IsStep
<1> HIDE DEF a, S, next
<1>4. PICK h : Follows(S, a, N, step, h)
  <2> HIDE DEF step
  <2> QED BY <1>0, <1>1, <1>3, Recursion
<1>5. Rec(h)
  <2>1. ASSUME NEW n \in 0 .. N
        PROVE  h[n] = IF n = 0 THEN a ELSE next(n, h[n-1])
    <3>1. n # 0 => n \in 1 .. N /\ n - 1 \in 0 .. N /\ n \in Nat /\ n \in Offers BY <1>0 DEF Offers
    <3>2. n # 0 => h[n-1] \in S BY <1>4, <3>1 DEF Follows
    <3>3. n # 0 => h[n] = next(n, h[n-1]) BY <1>4, <3>1, <3>2 DEF Follows
    <3> QED BY <1>4, <3>3 DEF Follows
  <2>2. h = [n \in 0 .. N |-> h[n]] BY <1>4 DEF Follows
  <2> QED BY <2>1, <2>2
<1> DEFINE stage == CHOOSE g : Rec(g)
<1>6. Rec(stage) /\ Distanced(r, P) = stage[N]
  <2>1. Rec(stage) BY <1>5
  <2> QED BY <2>1 DEF Distanced, a, next
<1> HIDE DEF stage
<1>7. \A n \in 0 .. N : n \in {m \in 0 .. N : stage[m] \in S}
  <2> DEFINE G == {m \in 0 .. N : stage[m] \in S}
  <2>1. 0 \in G BY <1>0, <1>1, <1>6
  <2>2. ASSUME NEW n \in 1 .. N, n - 1 \in G PROVE n \in G
    <3>1. n \in 0 .. N /\ n # 0 /\ n \in Offers BY <1>0 DEF Offers
    <3>2. stage[n] = next(n, stage[n-1]) BY <3>1, <1>6
    <3> QED BY <3>1, <3>2, <2>2, <1>2
  <2> HIDE DEF G
  <2>3. \A n \in 0 .. N : n \in G BY <1>0, <2>1, <2>2, UpTo
  <2> QED BY <2>3 DEF G
<1>8. stage[N] \in S BY <1>0, <1>7
<1> QED BY <1>6, <1>8 DEF S

LEMMA IdentifiedSound ==
    ASSUME ConstantsOK, NEW r, Sound(r), NEW P
    PROVE  /\ Sound(Identified(r, P)) /\ Spared(r, Identified(r, P))
           /\ \A j \in Offers : r[j].canon = 0 /\ Identified(r, P)[j].canon # 0
                 => {j, Identified(r, P)[j].canon} \in world.id
<1> DEFINE Proven(t) == \A j \in Offers : r[j].canon = 0 /\ t[j].canon # 0
                                             => {j, t[j].canon} \in world.id
           Reached(t) == Sound(t) /\ Spared(r, t) /\ Proven(t)
           S == {t \in Tables : Reached(t)}
           next(n, t) == IF n \in P THEN ConfirmIdentity(n, t) ELSE t
           step == [n \in Nat |-> [t \in S |-> IF n \in Offers THEN next(n, t) ELSE t]]
           Rec(h) == h = [n \in 0 .. N |-> IF n = 0 THEN r ELSE next(n, h[n-1])]
<1>0. N \in Nat /\ N \in 0 .. N BY ConstantsOK DEF ConstantsOK
<1>1. r \in S
  <2>1. Reached(r) BY SparedItself
  <2> QED BY <2>1 DEF Sound
<1>2. ASSUME NEW n \in Offers, NEW t \in S PROVE next(n, t) \in S
  <2> DEFINE s == next(n, t)
  <2>1. Sound(t) /\ Spared(r, t) /\ Proven(t) OBVIOUS
  <2>2. /\ Sound(s) /\ Spared(t, s)
        /\ \A k \in Offers : s[k].canon # t[k].canon => {k, s[k].canon} \in world.id
    <3>1. CASE n \in P BY <2>1, <3>1, IdentityConfirmed
    <3>2. CASE n \notin P BY <2>1, <3>2, SparedItself
    <3> QED BY <3>1, <3>2
  <2> HIDE DEF s
  <2>3. Proven(s)
    <3> SUFFICES ASSUME NEW j \in Offers, r[j].canon = 0, s[j].canon # 0
                 PROVE  {j, s[j].canon} \in world.id
        OBVIOUS
    <3>1. CASE s[j].canon = t[j].canon BY <3>1, <2>1
    <3>2. CASE s[j].canon # t[j].canon BY <3>2, <2>2
    <3> QED BY <3>1, <3>2
  <2> HIDE DEF Proven
  <2>4. Reached(s) BY <2>1, <2>2, <2>3, SparedTwice
  <2>5. s \in S BY <2>4 DEF Sound
  <2> QED BY <2>5 DEF s
<1>3. IsStep(S, step)
  <2> HIDE DEF S, next
  <2> QED BY <1>2 DEF IsStep
<1> HIDE DEF S, next
<1>4. PICK h : Follows(S, r, N, step, h)
  <2> HIDE DEF step
  <2> QED BY <1>0, <1>1, <1>3, Recursion
<1>5. Rec(h)
  <2>1. ASSUME NEW n \in 0 .. N
        PROVE  h[n] = IF n = 0 THEN r ELSE next(n, h[n-1])
    <3>1. n # 0 => n \in 1 .. N /\ n - 1 \in 0 .. N /\ n \in Nat /\ n \in Offers BY <1>0 DEF Offers
    <3>2. n # 0 => h[n-1] \in S BY <1>4, <3>1 DEF Follows
    <3>3. n # 0 => h[n] = next(n, h[n-1]) BY <1>4, <3>1, <3>2 DEF Follows
    <3> QED BY <1>4, <3>3 DEF Follows
  <2>2. h = [n \in 0 .. N |-> h[n]] BY <1>4 DEF Follows
  <2> QED BY <2>1, <2>2
<1> DEFINE stage == CHOOSE g : Rec(g)
<1>6. Rec(stage) /\ Identified(r, P) = stage[N]
  <2>1. Rec(stage) BY <1>5
  <2> QED BY <2>1 DEF Identified, next
<1> HIDE DEF stage
<1>7. \A n \in 0 .. N : n \in {m \in 0 .. N : stage[m] \in S}
  <2> DEFINE G == {m \in 0 .. N : stage[m] \in S}
  <2>1. 0 \in G BY <1>0, <1>1, <1>6
  <2>2. ASSUME NEW n \in 1 .. N, n - 1 \in G PROVE n \in G
    <3>1. n \in 0 .. N /\ n # 0 /\ n \in Offers BY <1>0 DEF Offers
    <3>2. stage[n] = next(n, stage[n-1]) BY <3>1, <1>6
    <3> QED BY <3>1, <3>2, <2>2, <1>2
  <2> HIDE DEF G
  <2>3. \A n \in 0 .. N : n \in G BY <1>0, <2>1, <2>2, UpTo
  <2> QED BY <2>3 DEF G
<1>8. stage[N] \in S BY <1>0, <1>7
<1> QED BY <1>6, <1>8 DEF S

\* two groups of copies have no offer in common
First(r, n) == Stored(r[n]) /\ \A k \in StrictCopies(r, n) : n <= k

LEMMA GroupsApart ==
    ASSUME ConstantsOK, world \in Worlds, NEW r, NEW m \in Offers, NEW n \in Offers,
           First(r, m), First(r, n), NEW k, k \in StrictCopies(r, m), k \in StrictCopies(r, n)
    PROVE  m = n
<1>1. k \in Offers BY DEF StrictCopies, TextOf
<1>2. \A a, b, c \in Offers : {a, b} \in world.text /\ {b, c} \in world.text /\ a # c
                                 => {a, c} \in world.text
  BY EvidenceOK
<1>3. (k = m \/ {m, k} \in world.text) /\ (k = n \/ {n, k} \in world.text)
  BY DEF StrictCopies, TextOf
<1>4. {m, k} = {k, m} /\ {n, k} = {k, n} /\ {m, n} = {n, m} OBVIOUS
<1>5. m # n => {m, n} \in world.text BY <1>1, <1>2, <1>3, <1>4
<1>6. m # n => n \in StrictCopies(r, m) /\ m \in StrictCopies(r, n)
  BY <1>4, <1>5 DEF StrictCopies, TextOf, First
<1>7. m # n => m <= n /\ n <= m BY <1>6 DEF First
<1>8. m \in Nat /\ n \in Nat BY ConstantsOK DEF Offers, ConstantsOK
<1> QED BY <1>7, <1>8

\* what the groups up to number n have changed
Unmoved(r, t, j) == /\ t[j].canon = r[j].canon /\ t[j].status = r[j].status
                    /\ t[j].archived = r[j].archived
Behind(r, t, j, m) == /\ First(r, m) /\ j \in StrictCopies(r, m)
                      /\ t[j].canon \in StrictCopies(r, m)
                      /\ Active(r[j]) => Active(t[t[j].canon])
Settling(r, t, n) ==
    \A j \in Offers :
        /\ (\A m \in 1 .. n : First(r, m) => j \notin StrictCopies(r, m)) => Unmoved(r, t, j)
        /\ r[j].canon = 0 /\ t[j].canon # 0 => \E m \in 1 .. n : Behind(r, t, j, m)

LEMMA SettledStep ==
    ASSUME ConstantsOK, world \in Worlds, NEW r, NEW t, Sound(t), Spared(r, t),
           NEW n \in Offers, Settling(r, t, n - 1),
           NEW s, s = IF First(r, n) THEN ConfirmCopies(StrictCopies(r, n), t) ELSE t
    PROVE  Sound(s) /\ Spared(r, s) /\ Settling(r, s, n)
<1> DEFINE G == StrictCopies(r, n)
<1>0. N \in Nat /\ Offers = 1 .. N /\ n \in 1 .. n /\ n - 1 \in Nat
      /\ \A m \in 1 .. n : m \in Offers /\ (m = n \/ m \in 1 .. n - 1)
  BY ConstantsOK DEF Offers, ConstantsOK
<1>00. \A m \in 1 .. n - 1 : m \in 1 .. n /\ m # n /\ m \in Offers BY <1>0
<1>1. CASE ~First(r, n)
  <2>1. s = t BY <1>1
  <2>2. ASSUME NEW j \in Offers
        PROVE  /\ (\A m \in 1 .. n : First(r, m) => j \notin StrictCopies(r, m)) => Unmoved(r, s, j)
               /\ r[j].canon = 0 /\ s[j].canon # 0 => \E m \in 1 .. n : Behind(r, s, j, m)
    BY <2>1, <1>00 DEF Settling
  <2> QED BY <2>1, <2>2 DEF Settling
<1>2. CASE First(r, n)
  <2>1. G \subseteq Offers /\ \A k \in G : Stored(t[k])
    BY DEF StrictCopies, TextOf, Spared
  <2> HIDE DEF G
  <2>2. s = ConfirmCopies(G, t) BY <1>2 DEF G
  <2>3. /\ Sound(s) /\ Spared(t, s)
        /\ \A k \in Offers : k \notin G => Unmoved(t, s, k)
        /\ \A k \in G : t[k].canon = 0 /\ s[k].canon # 0 =>
              s[k].canon \in G /\ (Active(t[k]) => Active(s[s[k].canon]))
    BY <2>1, <2>2, CopiesConfirmed DEF Unmoved
  <2>4. \A m \in 1 .. n - 1 : First(r, m) => \A k \in StrictCopies(r, m) : k \notin G
    <3> SUFFICES ASSUME NEW m \in 1 .. n - 1, First(r, m), NEW k \in StrictCopies(r, m), k \in G
                 PROVE  FALSE
        OBVIOUS
    <3>1. m \in Offers /\ m # n BY <1>00
    <3>2. m = n BY <3>1, <1>2, GroupsApart DEF G
    <3> QED BY <3>1, <3>2
  <2>5. ASSUME NEW j \in Offers, \A m \in 1 .. n : First(r, m) => j \notin StrictCopies(r, m)
        PROVE  Unmoved(r, s, j)
    <3>1. j \notin G BY <2>5, <1>0, <1>2 DEF G
    <3>2. \A m \in 1 .. n - 1 : First(r, m) => j \notin StrictCopies(r, m) BY <2>5, <1>00
    <3>3. Unmoved(r, t, j) BY <3>2 DEF Settling
    <3>4. Unmoved(t, s, j) BY <3>1, <2>3
    <3> QED BY <3>3, <3>4 DEF Unmoved
  <2>6. ASSUME NEW j \in Offers, r[j].canon = 0, s[j].canon # 0
        PROVE  \E m \in 1 .. n : Behind(r, s, j, m)
    <3>1. CASE j \in G
      <4>1. \A m \in 1 .. n - 1 : First(r, m) => j \notin StrictCopies(r, m) BY <3>1, <2>4
      <4>2. Unmoved(r, t, j) BY <4>1 DEF Settling
      <4>3. t[j].canon = 0 /\ (Active(r[j]) => Active(t[j]))
        BY <4>2, <2>6 DEF Unmoved, Active, Stored
      <4>4. s[j].canon \in G /\ (Active(t[j]) => Active(s[s[j].canon])) BY <4>3, <3>1, <2>3, <2>6
      <4>5. Behind(r, s, j, n) BY <4>3, <4>4, <3>1, <1>2 DEF Behind, G
      <4> QED BY <4>5, <1>0
    <3>2. CASE j \notin G
      <4>1. t[j].canon = s[j].canon BY <3>2, <2>3 DEF Unmoved
      <4>2. PICK m \in 1 .. n - 1 : Behind(r, t, j, m) BY <4>1, <2>6 DEF Settling
      <4>3. t[j].canon \in Offers /\ t[j].canon \notin G
        <5>1. t[j].canon \in StrictCopies(r, m) /\ First(r, m) BY <4>2 DEF Behind
        <5>2. t[j].canon \in Offers BY <5>1, <1>00 DEF StrictCopies, TextOf
        <5>3. \A k \in StrictCopies(r, m) : k \notin G BY <5>1, <2>4
        <5>4. t[j].canon \notin G BY <5>1, <5>3
        <5> QED BY <5>2, <5>4
      <4>4. Active(t[t[j].canon]) => Active(s[s[j].canon])
        BY <4>1, <4>3, <2>3 DEF Unmoved, Active, Stored
      <4>5. Behind(r, s, j, m) BY <4>1, <4>2, <4>4 DEF Behind
      <4> QED BY <4>5, <1>00
    <3> QED BY <3>1, <3>2
  <2>7. Settling(r, s, n) BY <2>5, <2>6 DEF Settling
  <2> QED BY <2>3, <2>7, SparedTwice
<1> QED BY <1>1, <1>2

LEMMA SettledSound ==
    ASSUME ConstantsOK, world \in Worlds, NEW r, Sound(r)
    PROVE  Sound(Settled(r)) /\ Spared(r, Settled(r)) /\ Settling(r, Settled(r), N)
<1> DEFINE S == {t \in Tables : Sound(t) /\ Spared(r, t)}
           next(n, t) == IF Stored(r[n]) /\ \A k \in StrictCopies(r, n) : n <= k
                         THEN ConfirmCopies(StrictCopies(r, n), t) ELSE t
           step == [n \in Nat |-> [t \in S |-> IF n \in Offers THEN next(n, t) ELSE t]]
           Rec(h) == h = [n \in 0 .. N |-> IF n = 0 THEN r ELSE next(n, h[n-1])]
<1>0. N \in Nat /\ N \in 0 .. N BY ConstantsOK DEF ConstantsOK
<1>1. r \in S BY SparedItself DEF Sound
<1>2. ASSUME NEW n \in Offers, NEW t, Sound(t), Spared(r, t), Settling(r, t, n - 1)
      PROVE  Sound(next(n, t)) /\ Spared(r, next(n, t)) /\ Settling(r, next(n, t), n)
  <2> DEFINE s == next(n, t)
  <2>1. s = IF First(r, n) THEN ConfirmCopies(StrictCopies(r, n), t) ELSE t BY DEF First
  <2> HIDE DEF s
  <2>2. Sound(s) /\ Spared(r, s) /\ Settling(r, s, n) BY <1>2, <2>1, SettledStep
  <2> QED BY <2>2 DEF s
<1>3. ASSUME NEW n \in Offers, NEW t \in S PROVE next(n, t) \in S
  <2> DEFINE s == next(n, t)
             G == StrictCopies(r, n)
  <2>1. G \subseteq Offers /\ \A k \in G : Stored(t[k])
    BY DEF StrictCopies, TextOf, Spared
  <2>2. Sound(t) /\ Spared(r, t) OBVIOUS
  <2>3. s = t \/ s = ConfirmCopies(G, t) OBVIOUS
  <2> HIDE DEF G, s
  <2>4. Sound(s) /\ Spared(t, s) BY <2>1, <2>2, <2>3, CopiesConfirmed, SparedItself
  <2>5. Sound(s) /\ Spared(r, s) BY <2>2, <2>4, SparedTwice
  <2>6. s \in S BY <2>5 DEF Sound
  <2> QED BY <2>6 DEF s
<1>4. IsStep(S, step)
  <2> HIDE DEF S, next
  <2> QED BY <1>3 DEF IsStep
<1> HIDE DEF S, next
<1>5. PICK h : Follows(S, r, N, step, h)
  <2> HIDE DEF step
  <2> QED BY <1>0, <1>1, <1>4, Recursion
<1>6. Rec(h)
  <2>1. ASSUME NEW n \in 0 .. N
        PROVE  h[n] = IF n = 0 THEN r ELSE next(n, h[n-1])
    <3>1. n # 0 => n \in 1 .. N /\ n - 1 \in 0 .. N /\ n \in Nat /\ n \in Offers BY <1>0 DEF Offers
    <3>2. n # 0 => h[n-1] \in S BY <1>5, <3>1 DEF Follows
    <3>3. n # 0 => h[n] = next(n, h[n-1]) BY <1>5, <3>1, <3>2 DEF Follows
    <3> QED BY <1>5, <3>3 DEF Follows
  <2>2. h = [n \in 0 .. N |-> h[n]] BY <1>5 DEF Follows
  <2> QED BY <2>1, <2>2
<1> DEFINE stage == CHOOSE g : Rec(g)
<1>7. Rec(stage) /\ Settled(r) = stage[N]
  <2>1. Rec(stage) BY <1>6
  <2> QED BY <2>1 DEF Settled, next
<1> HIDE DEF stage
<1> DEFINE Done(t, n) == Sound(t) /\ Spared(r, t) /\ Settling(r, t, n)
           G == {m \in 0 .. N : Done(stage[m], m)}
<1>8. 0 \in G
  <2>1. Settling(r, r, 0)
    <3>1. \A j \in Offers : Unmoved(r, r, j) BY DEF Unmoved
    <3> QED BY <3>1 DEF Settling
  <2>2. stage[0] = r BY <1>7, <1>0
  <2> QED BY <2>1, <2>2, <1>0, SparedItself
<1>9. ASSUME NEW n \in 1 .. N, n - 1 \in G PROVE n \in G
  <2>1. n \in 0 .. N /\ n # 0 /\ n \in Offers BY <1>0 DEF Offers
  <2>2. stage[n] = next(n, stage[n-1]) BY <2>1, <1>7
  <2>3. Done(stage[n-1], n - 1) BY <1>9
  <2>4. Done(next(n, stage[n-1]), n) BY <2>1, <2>3, <1>2
  <2> QED BY <2>1, <2>2, <2>4
<1>10. \A n \in 0 .. N : n \in G
  <2> HIDE DEF G
  <2> QED BY <1>0, <1>8, <1>9, UpTo
<1>11. Done(stage[N], N) BY <1>0, <1>10
<1> QED BY <1>7, <1>11

\* what reconcile_pending_reviews plans keeps every link in order and spares
\* the offers on which work was done; an active offer hidden behind another has
\* its identity, or the other stays active
Visible(r, s) ==
    \A j \in Offers : Active(r[j]) /\ r[j].canon = 0 /\ s[j].canon # 0
        => {j, s[j].canon} \in world.id \/ Active(s[s[j].canon])

LEMMA ReviewedSound ==
    ASSUME ConstantsOK, world \in Worlds, NEW r, Sound(r)
    PROVE  Sound(Reviewed(r)) /\ Spared(r, Reviewed(r)) /\ Visible(r, Reviewed(r))
<1> DEFINE P == {j \in Offers : Pending(r[j]) /\ ~AwaitsUser(r[j])}
           d == Distanced(r, P)
           i == Identified(d, P)
           s == Settled(i)
<1>1. Reviewed(r) = IF P = {} THEN r ELSE s BY DEF Reviewed
<1>2. CASE P = {} BY <1>1, <1>2, SparedItself DEF Visible
<1>3. CASE P # {}
  <2>1. \A j \in P : Pending(r[j]) OBVIOUS
  <2> HIDE DEF P
  <2>2. Sound(d) /\ Spared(r, d) /\ \A j \in Offers : d[j].canon = r[j].canon
    BY <2>1, DistancedSound
  <2> HIDE DEF d
  <2>3. /\ Sound(i) /\ Spared(d, i)
        /\ \A j \in Offers : d[j].canon = 0 /\ i[j].canon # 0 => {j, i[j].canon} \in world.id
    BY <2>2, IdentifiedSound
  <2> HIDE DEF i
  <2>4. Sound(s) /\ Spared(i, s) /\ Settling(i, s, N) BY <2>3, SettledSound
  <2> HIDE DEF s
  <2>5. Spared(r, i) /\ Spared(r, s) BY <2>2, <2>3, <2>4, SparedTwice
  <2>6. ASSUME NEW j \in Offers, Active(r[j]), r[j].canon = 0, s[j].canon # 0
        PROVE  {j, s[j].canon} \in world.id \/ Active(s[s[j].canon])
    <3>1. CASE i[j].canon # 0
      <4>1. s[j].canon = i[j].canon BY <3>1, <2>4 DEF Spared
      <4>2. d[j].canon = 0 BY <2>2, <2>6
      <4> QED BY <3>1, <4>1, <4>2, <2>3
    <3>2. CASE i[j].canon = 0
      <4>1. Active(i[j]) BY <3>2, <2>5, <2>6 DEF Spared, Active, Stored
      <4>2. PICK m \in 1 .. N : Behind(i, s, j, m) BY <3>2, <2>4, <2>6 DEF Settling
      <4> QED BY <4>1, <4>2 DEF Behind
    <3> QED BY <3>1, <3>2
  <2>7. Visible(r, s) BY <2>6 DEF Visible
  <2>8. Reviewed(r) = s BY <1>1, <1>3
  <2> QED BY <2>4, <2>5, <2>7, <2>8
<1> QED BY <1>2, <1>3

-----------------------------------------------------------------------------
(* Groups: the offers that links lead to, followed either way.             *)

Closed(r, S) ==
    \A k \in Offers : \A m \in S : Linked(r, k, m) \/ Linked(r, m, k) => k \in S

\* the group of an offer: nothing links it to the rest, and no smaller set does
LEMMA ComponentOf ==
    ASSUME ConstantsOK, NEW r, NEW j \in Offers
    PROVE  /\ Component(r, j) \subseteq Offers /\ j \in Component(r, j)
           /\ Closed(r, Component(r, j))
           /\ \A S : j \in S /\ Closed(r, S) => Component(r, j) \subseteq S
<1> DEFINE around(S) == S \cup {k \in Offers : \E m \in S : Linked(r, k, m) \/ Linked(r, m, k)}
           S0 == {S \in SUBSET Offers : TRUE}
           step == [n \in Nat |-> [S \in S0 |-> around(S)]]
           Rec(h) == h = [n \in 0 .. N - 1 |-> IF n = 0 THEN {j} ELSE around(h[n-1])]
<1>0. N \in Nat /\ N # 0 /\ N - 1 \in Nat /\ N - 1 \in 0 .. N - 1 /\ 0 \in 0 .. N - 1
  BY ConstantsOK DEF ConstantsOK
<1>1. \A S \in S0 : around(S) \in S0 OBVIOUS
<1>2. PICK h : Follows(S0, {j}, N - 1, step, h)
  <2>1. IsStep(S0, step)
    <3> HIDE DEF around, S0
    <3> QED BY <1>1 DEF IsStep
  <2>2. {j} \in S0 OBVIOUS
  <2> HIDE DEF step, S0
  <2> QED BY <1>0, <2>1, <2>2, Recursion
<1>3. Rec(h)
  <2>1. ASSUME NEW n \in 0 .. N - 1
        PROVE  h[n] = IF n = 0 THEN {j} ELSE around(h[n-1])
    <3>1. n # 0 => n \in 1 .. N - 1 /\ n - 1 \in 0 .. N - 1 /\ n \in Nat BY <1>0
    <3> HIDE DEF S0, around
    <3>2. n # 0 => h[n-1] \in S0 BY <1>2, <3>1 DEF Follows
    <3>3. n # 0 => h[n] = around(h[n-1]) BY <1>2, <3>1, <3>2 DEF Follows
    <3> QED BY <1>2, <3>3 DEF Follows
  <2>2. h = [n \in 0 .. N - 1 |-> h[n]] BY <1>2 DEF Follows
  <2> HIDE DEF around
  <2> QED BY <2>1, <2>2
<1> DEFINE grow == CHOOSE g : Rec(g)
<1>4. Rec(grow) /\ Component(r, j) = grow[N - 1]
  <2>1. Rec(grow) BY <1>3
  <2> QED BY <2>1 DEF Component
<1> HIDE DEF grow
<1>5. grow[0] = {j} /\ \A n \in 1 .. N - 1 : n \in 0 .. N - 1 /\ grow[n] = around(grow[n-1])
  <2> HIDE DEF around
  <2>1. \A n \in 1 .. N - 1 : n \in 0 .. N - 1 /\ n # 0 BY <1>0
  <2> QED BY <1>0, <1>4, <2>1
<1>6. IsFiniteSet(Offers) /\ Cardinality(Offers) = N BY <1>0, FS_Interval DEF Offers
<1> DEFINE Grown(n) == /\ grow[n] \subseteq Offers /\ j \in grow[n]
                       /\ Closed(r, grow[n]) \/ Cardinality(grow[n]) >= n + 1
                       /\ \A S : j \in S /\ Closed(r, S) => grow[n] \subseteq S
           G == {n \in 0 .. N - 1 : Grown(n)}
<1>7. 0 \in G
  <2>0. Cardinality({j}) = 1 BY FS_Singleton
  <2>1. Cardinality({j}) >= 0 + 1 BY <2>0
  <2>2. grow[0] = {j} BY <1>5
  <2>3. Grown(0) BY <2>1, <2>2
  <2> HIDE DEF Grown
  <2> QED BY <2>3, <1>0
<1>8. ASSUME NEW n \in 1 .. N - 1, n - 1 \in G PROVE n \in G
  <2> DEFINE A == grow[n-1]
             B == grow[n]
  <2>1. n \in 0 .. N - 1 /\ n - 1 \in Nat /\ n \in Nat BY <1>0
  <2>2. Grown(n-1) BY <1>8
  <2>3. B = around(A) BY <1>5
  <2>4. B \subseteq Offers /\ j \in B /\ A \subseteq B BY <2>2, <2>3
  <2>5. ASSUME NEW S, j \in S, Closed(r, S) PROVE B \subseteq S
    <3>1. A \subseteq S BY <2>2, <2>5
    <3> QED BY <2>3, <2>5, <3>1 DEF Closed
  <2>6. Closed(r, B) \/ Cardinality(B) >= n + 1
    <3>1. CASE Closed(r, A)
      <4>1. B = A BY <2>3, <3>1 DEF Closed
      <4> QED BY <3>1, <4>1
    <3>2. CASE ~Closed(r, A)
      <4>1. PICK k \in Offers : k \in B /\ k \notin A BY <2>3, <3>2 DEF Closed
      <4>2. IsFiniteSet(A) /\ IsFiniteSet(B) BY <2>2, <2>4, <1>6, FS_Subset
      <4>3. IsFiniteSet(A \cup {k}) /\ Cardinality(A \cup {k}) = Cardinality(A) + 1
        BY <4>1, <4>2, FS_AddElement
      <4>4. A \cup {k} \in SUBSET B BY <2>4, <4>1
      <4>5. Cardinality(A \cup {k}) <= Cardinality(B) BY <4>2, <4>4, FS_Subset
      <4>6. Cardinality(A) >= n - 1 + 1 BY <2>2, <3>2
      <4>7. Cardinality(A) \in Nat /\ Cardinality(B) \in Nat BY <4>2, FS_CardinalityType
      <4> QED BY <4>3, <4>5, <4>6, <4>7, <2>1
    <3> QED BY <3>1, <3>2
  <2> HIDE DEF A, B
  <2>7. \A S : j \in S /\ Closed(r, S) => B \subseteq S BY <2>5
  <2> QED BY <2>1, <2>4, <2>6, <2>7 DEF B
<1>9. Grown(N - 1)
  <2>1. \A n \in 0 .. N - 1 : n \in G
    <3> HIDE DEF G
    <3> QED BY <1>0, <1>7, <1>8, UpTo
  <2> HIDE DEF Grown
  <2> QED BY <1>0, <2>1
<1> DEFINE C == grow[N - 1]
<1>10. Closed(r, C)
  <2> SUFFICES ASSUME ~Closed(r, C) PROVE FALSE OBVIOUS
  <2>1. Cardinality(C) >= N BY <1>9, <1>0
  <2>2. PICK x \in Offers : x \notin C BY DEF Closed
  <2>3. C \in SUBSET (Offers \ {x}) BY <1>9, <2>2
  <2>4. IsFiniteSet(Offers \ {x}) /\ Cardinality(Offers \ {x}) = N - 1
    BY <1>6, FS_RemoveElement
  <2>5. IsFiniteSet(C) /\ Cardinality(C) <= N - 1 BY <2>3, <2>4, FS_Subset
  <2>6. Cardinality(C) \in Nat BY <2>5, FS_CardinalityType
  <2> QED BY <1>0, <2>1, <2>5, <2>6
<1> QED BY <1>4, <1>9, <1>10

LEMMA ClosedOutside ==
    ASSUME NEW r, NEW S, Closed(r, S)
    PROVE  Closed(r, Offers \ S)
BY DEF Closed, Linked

\* two groups are the same or have nothing in common
LEMMA GroupsDisjoint ==
    ASSUME ConstantsOK, NEW r, NEW i \in Offers, NEW j \in Offers,
           NEW k, k \in Component(r, i), k \in Component(r, j)
    PROVE  Component(r, i) = Component(r, j)
<1> SUFFICES ASSUME NEW a \in Offers, NEW b \in Offers,
                    k \in Component(r, a), k \in Component(r, b)
             PROVE  Component(r, a) \subseteq Component(r, b)
    <2>1. \A a, b \in Offers : k \in Component(r, a) /\ k \in Component(r, b)
             => Component(r, a) \subseteq Component(r, b)
      OBVIOUS
    <2> QED BY <2>1
<1> DEFINE A == Component(r, a)
           B == Component(r, b)
<1>1. A \subseteq Offers /\ a \in A /\ Closed(r, A) /\ \A S : a \in S /\ Closed(r, S) => A \subseteq S
  BY ComponentOf
<1>2. B \subseteq Offers /\ b \in B /\ Closed(r, B) BY ComponentOf
<1>3. k \in A /\ k \in B OBVIOUS
<1> HIDE DEF A, B
<1>4. a \in B
  <2> SUFFICES ASSUME a \notin B PROVE FALSE OBVIOUS
  <2>1. Closed(r, Offers \ B) BY <1>2, ClosedOutside
  <2>2. A \subseteq Offers \ B BY <1>1, <2>1
  <2> QED BY <1>3, <2>2
<1>5. A \subseteq B BY <1>1, <1>2, <1>4
<1> QED BY <1>5 DEF A, B

\* links that change inside one group leave the others as they are, or smaller
LEMMA ChangedApart ==
    ASSUME ConstantsOK, NEW r, NEW s, NEW D, NEW j \in Offers,
           Component(r, j) \cap D = {},
           \A k \in Offers : \/ s[k].canon = r[k].canon /\ s[k].possible = r[k].possible
                             \/ k \in D /\ {s[k].canon, s[k].possible} \subseteq D \cup {0, r[k].possible}
    PROVE  Component(s, j) \subseteq Component(r, j)
<1> DEFINE C == Component(r, j)
<1>1. C \subseteq Offers /\ j \in C /\ Closed(r, C) BY ComponentOf
<1> HIDE DEF C
<1>2. 0 \notin Offers BY ConstantsOK DEF Offers, ConstantsOK
<1>3. C \cap D = {} BY DEF C
<1>4. Closed(s, C)
  <2> SUFFICES ASSUME NEW k \in Offers, NEW m \in C, Linked(s, k, m) \/ Linked(s, m, k)
               PROVE  k \in C
      BY DEF Closed
  <2>1. m \in Offers /\ m # 0 BY <1>1, <1>2
  <2>2. Linked(r, k, m) \/ Linked(r, m, k) BY <1>2, <1>3, <2>1 DEF Linked
  <2> QED BY <1>1, <2>2 DEF Closed
<1>5. Component(s, j) \subseteq C BY <1>1, <1>4, ComponentOf
<1> QED BY <1>5 DEF C

\* the offer a group stands for belongs to it, and so do all that lead there
LEMMA RootInside ==
    ASSUME ConstantsOK, NEW r, Sound(r), NEW i \in Offers
    PROVE  /\ Root(r, i) \in Component(r, i)
           /\ \A j \in Offers : Root(r, j) \in Component(r, i) => j \in Component(r, i)
<1>1. r \in Tables /\ Points(r) BY DEF Sound
<1>2. PICK above \in [Offers -> SUBSET Offers], top \in [Offers -> Offers] : Ways(r, above, top)
  BY DEF Sound, Ends
<1>3. \A j \in Offers : \A S \in SUBSET Offers :
         j \in S /\ (\A k \in S : r[k].canon # 0 => r[k].canon \in S) => Root(r, j) \in S
  BY <1>1, <1>2, RootIsTop
<1> DEFINE C == Component(r, i)
<1>4. C \in SUBSET Offers /\ i \in C /\ Closed(r, C) BY ComponentOf
<1>5. Closed(r, Offers \ C) BY <1>4, ClosedOutside
<1> HIDE DEF C
<1>6. ASSUME NEW S \in SUBSET Offers, Closed(r, S)
      PROVE  \A k \in S : r[k].canon # 0 => r[k].canon \in S
  <2>1. \A k \in Offers : r[k].canon # 0 => r[k].canon \in Offers BY <1>1, LinkTypes
  <2> QED BY <1>6, <2>1 DEF Closed, Linked
<1>7. Root(r, i) \in C BY <1>3, <1>4, <1>6
<1>8. ASSUME NEW j \in Offers, Root(r, j) \in C PROVE j \in C
  <2> SUFFICES ASSUME j \notin C PROVE FALSE OBVIOUS
  <2>1. Root(r, j) \in Offers \ C
    <3> DEFINE S == Offers \ C
    <3>1. S \in SUBSET Offers /\ j \in S OBVIOUS
    <3>2. Closed(r, S) BY <1>5
    <3> HIDE DEF S
    <3>3. Root(r, j) \in S BY <3>1, <3>2, <1>3, <1>6
    <3> QED BY <3>3 DEF S
  <2> QED BY <2>1, <1>8
<1> QED BY <1>7, <1>8 DEF C

-----------------------------------------------------------------------------
(* What each action does to the table.                                     *)

\* every offer keeps its links and stays in the database
Plain(r, s) == \A k \in Offers : Links(s[k]) = Links(r[k]) /\ (Stored(r[k]) => Stored(s[k]))
\* offers change within the group of j only
Inside(r, s, j) ==
    \A k \in Offers :
        \/ Links(s[k]) = Links(r[k]) /\ (Stored(r[k]) => Stored(s[k]))
        \/ /\ k \in Component(r, j)
           /\ {s[k].canon, s[k].possible} \subseteq Component(r, j) \cup {0, r[k].possible}

LEMMA PlainItself ==
    ASSUME NEW r
    PROVE  Plain(r, r)
BY DEF Plain

LEMMA PlainInside ==
    ASSUME NEW r, NEW s, NEW j, Plain(r, s)
    PROVE  Inside(r, s, j)
BY DEF Plain, Inside

LEMMA SoundPlain ==
    ASSUME ConstantsOK, NEW r, Sound(r), NEW s \in Tables, Plain(r, s),
           \A k \in Offers : Fit(s[k])
    PROVE  Sound(s)
<1>1. \A k \in Offers : s[k].canon = r[k].canon /\ s[k].possible = r[k].possible
                        /\ (Stored(r[k]) => Stored(s[k]))
  BY DEF Plain, Links
<1> QED BY <1>1, SoundKept

LEMMA PlainRow ==
    ASSUME ConstantsOK, NEW r, Sound(r), NEW j \in Offers, NEW o \in Row,
           Links(o) = Links(r[j]), Stored(o),
           o.canon # 0 => o.archived /\ ~Live(o.app)
    PROVE  Sound([r EXCEPT ![j] = o]) /\ Plain(r, [r EXCEPT ![j] = o])
<1> DEFINE s == [r EXCEPT ![j] = o]
<1>1. r \in Tables /\ Points(r) BY DEF Sound
<1>2. s \in Tables /\ \A k \in Offers : s[k] = IF k = j THEN o ELSE r[k] BY <1>1 DEF Tables
<1> HIDE DEF s
<1>3. Plain(r, s) BY <1>2 DEF Plain
<1>4. Fit(o)
  <2>1. Fit(r[j]) BY <1>1 DEF Points
  <2>2. o.canon = r[j].canon /\ o.possible = r[j].possible /\ o.review = r[j].review BY DEF Links
  <2> QED BY <2>1, <2>2, FitKept
<1>5. \A k \in Offers : Fit(s[k]) BY <1>1, <1>2, <1>4 DEF Points
<1>6. Sound(s) BY <1>2, <1>3, <1>5, SoundPlain
<1> QED BY <1>3, <1>6 DEF s

\* a row of a sound table
LEMMA RowOf ==
    ASSUME NEW r, Sound(r), NEW j \in Offers
    PROVE  /\ r \in Tables /\ r[j] \in Row /\ Fit(r[j])
           /\ ~r[j].archived => r[j].canon = 0
           /\ Live(r[j].app) => r[j].canon = 0
           /\ ~Stored(r[j]) => r[j] = NoRow
<1>1. r \in Tables /\ Fit(r[j]) BY DEF Sound, Points
<1>2. r[j] \in Row BY <1>1 DEF Tables
<1> QED BY <1>1, <1>2 DEF Fit

LEMMA ArchiveJobSound ==
    ASSUME ConstantsOK, NEW r, Sound(r), NEW j \in Offers
    PROVE  LET s == [r EXCEPT ![j] = [Archived(@) EXCEPT !.choice = TRUE]]
           IN  Sound(s) /\ Plain(r, s)
<1> DEFINE o == [Archived(r[j]) EXCEPT !.choice = TRUE]
<1>1. r[j] \in Row /\ Fit(r[j]) BY RowOf
<1>2. /\ o \in Row /\ Links(o) = Links(r[j]) /\ Stored(o) /\ o.archived
      /\ o.canon = r[j].canon /\ o.app = r[j].app
  BY <1>1 DEF Archived, Row, Links, Stored
<1> HIDE DEF o
<1>3. o.canon # 0 => o.archived /\ ~Live(o.app) BY <1>1, <1>2 DEF Fit
<1>4. Sound([r EXCEPT ![j] = o]) /\ Plain(r, [r EXCEPT ![j] = o]) BY <1>2, <1>3, PlainRow
<1> QED BY <1>4 DEF o

LEMMA ArchiveApplicationSound ==
    ASSUME ConstantsOK, NEW r, Sound(r), NEW j \in Offers
    PROVE  LET s == [r EXCEPT ![j] = [Archived(@) EXCEPT !.choice = TRUE,
                                                        !.app = Shelved(r[j].app)]]
           IN  Sound(s) /\ Plain(r, s)
<1> DEFINE a == Archived(r[j])
           x == Shelved(r[j].app)
           o == [a EXCEPT !.choice = TRUE, !.app = x]
<1>1. r[j] \in Row BY RowOf
<1>2. /\ a \in Row /\ Stored(a) /\ a.archived
      /\ a.canon = r[j].canon /\ a.possible = r[j].possible /\ a.review = r[j].review
  BY <1>1, ArchivedRow
<1>3. x \in Dossiers /\ ~Live(x) BY DEF Shelved, Dossiers, Live, PutAway
<1> HIDE DEF a, x
<1>4. /\ o \in Row /\ o.status = a.status /\ o.archived = a.archived /\ o.app = x
      /\ o.canon = a.canon /\ o.possible = a.possible /\ o.review = a.review
  BY <1>2, <1>3 DEF Row
<1> HIDE DEF o
<1>5. Links(o) = Links(r[j]) /\ Stored(o) /\ o.archived
  BY <1>2, <1>4 DEF Links, Stored
<1>6. Sound([r EXCEPT ![j] = o]) /\ Plain(r, [r EXCEPT ![j] = o])
  BY <1>3, <1>4, <1>5, PlainRow
<1> QED BY <1>6 DEF o, a, x

LEMMA MarkSentSound ==
    ASSUME ConstantsOK, NEW r, Sound(r), NEW j \in Offers, ~r[j].archived
    PROVE  LET s == [r EXCEPT ![j].app = "sent", ![j].status = "sent"]
           IN  Sound(s) /\ Plain(r, s)
<1> DEFINE o == [r[j] EXCEPT !.app = "sent", !.status = "sent"]
<1>1. r \in Tables /\ r[j] \in Row /\ r[j].canon = 0 BY RowOf
<1>2. o \in Row /\ Links(o) = Links(r[j]) /\ Stored(o) /\ o.canon = 0
  BY <1>1 DEF Row, Links, Stored, Dossiers
<1>3. [r EXCEPT ![j].app = "sent", ![j].status = "sent"] = [r EXCEPT ![j] = o]
  BY <1>1 DEF Tables
<1> HIDE DEF o
<1> QED BY <1>2, <1>3, PlainRow

LEMMA ShortlistSound ==
    ASSUME ConstantsOK, NEW r, Sound(r), NEW j \in Offers, ~r[j].archived,
           NEW x \in {"shortlisted", "analyzed", "filtered"}
    PROVE  LET s == [r EXCEPT ![j].status = x, ![j].choice = TRUE]
           IN  Sound(s) /\ Plain(r, s)
<1> DEFINE o == [r[j] EXCEPT !.status = x, !.choice = TRUE]
<1>1. r \in Tables /\ r[j] \in Row /\ r[j].canon = 0 BY RowOf
<1>2. o \in Row /\ Links(o) = Links(r[j]) /\ Stored(o) /\ o.canon = 0
  BY <1>1 DEF Row, Links, Stored
<1>3. [r EXCEPT ![j].status = x, ![j].choice = TRUE] = [r EXCEPT ![j] = o]
  BY <1>1 DEF Tables
<1> HIDE DEF o
<1> QED BY <1>2, <1>3, PlainRow

LEMMA AnalysisSound ==
    ASSUME ConstantsOK, NEW r, Sound(r), NEW j \in Offers, r[j].canon = 0
    PROVE  LET s == [r EXCEPT ![j].analyzed = TRUE, ![j].analysis = TRUE,
                              ![j].status = "analyzed"]
           IN  Sound(s) /\ Plain(r, s)
<1> DEFINE o == [r[j] EXCEPT !.analyzed = TRUE, !.analysis = TRUE, !.status = "analyzed"]
<1>1. r \in Tables /\ r[j] \in Row BY RowOf
<1>2. o \in Row /\ Links(o) = Links(r[j]) /\ Stored(o) /\ o.canon = 0
  BY <1>1 DEF Row, Links, Stored
<1>3. [r EXCEPT ![j].analyzed = TRUE, ![j].analysis = TRUE, ![j].status = "analyzed"]
        = [r EXCEPT ![j] = o]
  BY <1>1 DEF Tables
<1> HIDE DEF o
<1> QED BY <1>2, <1>3, PlainRow

\* the dossier of an offer changes, and perhaps its status
LEMMA DossierSound ==
    ASSUME ConstantsOK, NEW r, Sound(r), NEW j \in Offers, NEW app \in Dossiers,
           Stored(r[j]), ~Live(app) \/ r[j].canon = 0
    PROVE  Sound([r EXCEPT ![j].app = app]) /\ Plain(r, [r EXCEPT ![j].app = app])
<1> DEFINE o == [r[j] EXCEPT !.app = app]
<1>1. r \in Tables /\ r[j] \in Row /\ Fit(r[j]) BY RowOf
<1>2. o \in Row /\ Links(o) = Links(r[j]) /\ Stored(o) /\ o.canon = r[j].canon
      /\ o.archived = r[j].archived /\ o.app = app
  BY <1>1 DEF Row, Links, Stored
<1>3. [r EXCEPT ![j].app = app] = [r EXCEPT ![j] = o]
  BY <1>1 DEF Tables
<1> HIDE DEF o
<1>4. o.canon # 0 => o.archived /\ ~Live(o.app) BY <1>1, <1>2 DEF Fit
<1> QED BY <1>2, <1>3, <1>4, PlainRow

LEMMA PublishSound ==
    ASSUME ConstantsOK, NEW r, Sound(r), NEW j \in Offers, r[j].canon = 0
    PROVE  LET s == [r EXCEPT ![j].app = "ready", ![j].status = "ready"]
           IN  Sound(s) /\ Plain(r, s)
<1> DEFINE o == [r[j] EXCEPT !.app = "ready", !.status = "ready"]
<1>1. r \in Tables /\ r[j] \in Row BY RowOf
<1>2. o \in Row /\ Links(o) = Links(r[j]) /\ Stored(o) /\ o.canon = 0
  BY <1>1 DEF Row, Links, Stored, Dossiers
<1>3. [r EXCEPT ![j].app = "ready", ![j].status = "ready"] = [r EXCEPT ![j] = o]
  BY <1>1 DEF Tables
<1> HIDE DEF o
<1> QED BY <1>2, <1>3, PlainRow

LEMMA ShownSentSound ==
    ASSUME ConstantsOK, NEW r, Sound(r), NEW j \in Offers, r[j].canon = 0
    PROVE  LET s == [r EXCEPT ![j].archived = FALSE, ![j].status = "sent", ![j].app = "sent"]
           IN  Sound(s) /\ Plain(r, s)
<1> DEFINE o == [r[j] EXCEPT !.archived = FALSE, !.status = "sent", !.app = "sent"]
<1>1. r \in Tables /\ r[j] \in Row BY RowOf
<1>2. o \in Row /\ Links(o) = Links(r[j]) /\ Stored(o) /\ o.canon = 0
  BY <1>1 DEF Row, Links, Stored, Dossiers
<1>3. [r EXCEPT ![j].archived = FALSE, ![j].status = "sent", ![j].app = "sent"]
        = [r EXCEPT ![j] = o]
  BY <1>1 DEF Tables
<1> HIDE DEF o
<1> QED BY <1>2, <1>3, PlainRow

LEMMA RescuedSound ==
    ASSUME ConstantsOK, NEW r, Sound(r), NEW j \in Offers, r[j].canon = 0
    PROVE  LET s == [r EXCEPT ![j] = Rescued(@)] IN Sound(s) /\ Plain(r, s)
<1> DEFINE o == Rescued(r[j])
<1>1. r[j] \in Row BY RowOf
<1>2. o \in Row /\ Links(o) = Links(r[j]) /\ Stored(o) /\ o.canon = 0
  BY <1>1, RescuedRow DEF Links, Stored
<1> HIDE DEF o
<1>3. Sound([r EXCEPT ![j] = o]) /\ Plain(r, [r EXCEPT ![j] = o]) BY <1>2, PlainRow
<1> QED BY <1>3 DEF o

LEMMA UnroutedSound ==
    ASSUME ConstantsOK, NEW r, Sound(r), NEW j \in Offers
    PROVE  Sound(Unrouted(r, j)) /\ Plain(r, Unrouted(r, j))
<1> DEFINE s == Unrouted(r, j)
<1>1. ASSUME NEW k \in Offers
      PROVE  /\ s[k] \in Row /\ Links(s[k]) = Links(r[k]) /\ Fit(s[k])
             /\ Stored(r[k]) => Stored(s[k])
  <2>1. r[k] \in Row /\ Fit(r[k]) /\ (~Stored(r[k]) => r[k] = NoRow) BY RowOf
  <2>2. CASE r[k].route = j
    <3> DEFINE o == [r[k] EXCEPT !.route = 0]
    <3>1. s[k] = o BY <2>2 DEF Unrouted
    <3>2. 0 \notin Offers BY ConstantsOK DEF Offers, ConstantsOK
    <3>3. Stored(r[k]) BY <2>1, <2>2, <3>2 DEF NoRow
    <3>4. /\ o \in Row /\ o.canon = r[k].canon /\ o.possible = r[k].possible
          /\ o.review = r[k].review /\ o.status = r[k].status
          /\ o.archived = r[k].archived /\ o.app = r[k].app
      BY <2>1 DEF Row
    <3> HIDE DEF o, s
    <3> QED BY <2>1, <3>1, <3>3, <3>4 DEF Links, Stored, Fit, Pending
  <2>3. CASE r[k].route # j
    <3>1. s[k] = r[k] BY <2>3 DEF Unrouted
    <3> HIDE DEF s
    <3> QED BY <3>1, <2>1
  <2> QED BY <2>2, <2>3
<1>2. s = [k \in Offers |-> s[k]] BY DEF Unrouted
<1> HIDE DEF s
<1>3. s \in Tables BY <1>1, <1>2 DEF Tables
<1>4. Plain(r, s) BY <1>1 DEF Plain
<1>5. Sound(s) BY <1>1, <1>3, <1>4, SoundPlain
<1> QED BY <1>4, <1>5 DEF s

LEMMA InsidePlain ==
    ASSUME NEW r, NEW q, NEW s, NEW j, Inside(r, q, j), Plain(q, s)
    PROVE  Inside(r, s, j)
BY DEF Inside, Plain, Links

\* reject_duplicate
LEMMA RejectSound ==
    ASSUME ConstantsOK, NEW r, Sound(r), NEW j \in Offers, Pending(r[j]),
           NEW x \in {"archived", "analyzed", "filtered", "scraped"}
    PROVE  LET q == [r EXCEPT ![j] = [@ EXCEPT !.possible = 0, !.review = "rejected", !.status = x]]
           IN  Sound(Unrouted(q, j)) /\ Inside(r, Unrouted(q, j), j)
<1> DEFINE o == [r[j] EXCEPT !.possible = 0, !.review = "rejected", !.status = x]
           q == [r EXCEPT ![j] = o]
<1>1. r \in Tables /\ r[j] \in Row /\ Points(r) BY RowOf DEF Sound
<1>2. r[j].canon = 0 BY <1>1, PendingRow
<1>3. o \in Row /\ o.canon = 0 /\ o.possible = 0 /\ Stored(o) /\ Fit(o)
  BY <1>1, <1>2 DEF Row, Stored, Pending, Fit
<1> HIDE DEF o
<1>4. q \in Tables /\ \A k \in Offers : q[k] = IF k = j THEN o ELSE r[k] BY <1>1, <1>3 DEF Tables
<1>5. Sound(q)
  <2>1. Sound([r EXCEPT ![j] = o]) BY <1>2, <1>3, SoundRow
  <2> QED BY <2>1
<1>6. j \in Component(r, j) BY ComponentOf
<1> HIDE DEF q
<1>7. Inside(r, q, j) BY <1>3, <1>4, <1>6 DEF Inside, Links
<1>8. Sound(Unrouted(q, j)) /\ Plain(q, Unrouted(q, j)) BY <1>5, UnroutedSound
<1>9. Inside(r, Unrouted(q, j), j) BY <1>7, <1>8, InsidePlain
<1> QED BY <1>8, <1>9 DEF q, o

\* filter_pending
LEMMA FilterSound ==
    ASSUME ConstantsOK, NEW r, Sound(r), NEW T, NEW R,
           \A k \in T : Active(r[k]) /\ r[k].canon = 0, R \subseteq T
    PROVE  LET s == [k \in Offers |-> IF k \in R THEN Archived(r[k])
                                      ELSE IF k \in T THEN [r[k] EXCEPT !.filtered = TRUE]
                                      ELSE r[k]]
           IN  Sound(s) /\ Plain(r, s)
<1> DEFINE s == [k \in Offers |-> IF k \in R THEN Archived(r[k])
                                  ELSE IF k \in T THEN [r[k] EXCEPT !.filtered = TRUE]
                                  ELSE r[k]]
<1>1. ASSUME NEW k \in Offers
      PROVE  /\ s[k] \in Row /\ Links(s[k]) = Links(r[k]) /\ Fit(s[k])
             /\ Stored(r[k]) => Stored(s[k])
  <2>1. r[k] \in Row /\ Fit(r[k]) BY RowOf
  <2>2. CASE k \in R
    <3> DEFINE o == Archived(r[k])
    <3>1. s[k] = o /\ r[k].canon = 0 BY <2>2
    <3>2. /\ o \in Row /\ Stored(o) /\ o.canon = r[k].canon /\ o.possible = r[k].possible
          /\ o.review = r[k].review
      BY <2>1, ArchivedRow
    <3> HIDE DEF o, s
    <3>3. Fit(o) BY <2>1, <3>1, <3>2, FitKept
    <3> QED BY <3>1, <3>2, <3>3 DEF Links
  <2>3. CASE k \notin R /\ k \in T
    <3> DEFINE o == [r[k] EXCEPT !.filtered = TRUE]
    <3>1. s[k] = o /\ r[k].canon = 0 /\ Stored(r[k]) BY <2>3 DEF Active
    <3>2. /\ o \in Row /\ o.status = r[k].status /\ o.canon = r[k].canon
          /\ o.possible = r[k].possible /\ o.review = r[k].review
      BY <2>1 DEF Row
    <3> HIDE DEF o, s
    <3>3. Stored(o) BY <3>1, <3>2 DEF Stored
    <3>4. Fit(o) BY <2>1, <3>1, <3>2, <3>3, FitKept
    <3> QED BY <3>1, <3>2, <3>3, <3>4 DEF Links
  <2>4. CASE k \notin T
    <3>1. s[k] = r[k] BY <2>4
    <3> HIDE DEF s
    <3> QED BY <3>1, <2>1
  <2> QED BY <2>2, <2>3, <2>4
<1>2. s = [k \in Offers |-> s[k]] OBVIOUS
<1> HIDE DEF s
<1>3. s \in Tables BY <1>1, <1>2 DEF Tables
<1>4. Plain(r, s) BY <1>1 DEF Plain
<1>5. Sound(s) BY <1>1, <1>3, <1>4, SoundPlain
<1> QED BY <1>4, <1>5 DEF s

\* Root stays within any set that aliases do not leave
LEMMA RootStays ==
    ASSUME ConstantsOK, NEW r, Sound(r), NEW j \in Offers, NEW S \in SUBSET Offers, j \in S,
           \A k \in S : r[k].canon # 0 => r[k].canon \in S
    PROVE  Root(r, j) \in S
<1>1. r \in Tables /\ Points(r) BY DEF Sound
<1>2. PICK above \in [Offers -> SUBSET Offers], top \in [Offers -> Offers] : Ways(r, above, top)
  BY DEF Sound, Ends
<1>3. \A Q \in SUBSET Offers :
         j \in Q /\ (\A k \in Q : r[k].canon # 0 => r[k].canon \in Q) => Root(r, j) \in Q
  BY <1>1, <1>2, RootIsTop
<1> QED BY <1>3

\* it depends on the aliases only
LEMMA SameRoots ==
    ASSUME ConstantsOK, NEW r, Sound(r), NEW s, Sound(s),
           \A k \in Offers : s[k].canon = r[k].canon, NEW j \in Offers
    PROVE  Root(s, j) = Root(r, j)
<1>1. r \in Tables /\ Points(r) /\ s \in Tables /\ Points(s) BY DEF Sound
<1>2. PICK above \in [Offers -> SUBSET Offers], top \in [Offers -> Offers] : Ways(r, above, top)
  BY DEF Sound, Ends
<1>3. Ways(s, above, top) BY <1>2 DEF Ways
<1>4. Root(r, j) = top[j] BY <1>1, <1>2, RootIsTop
<1>5. Root(s, j) = top[j] BY <1>1, <1>3, RootIsTop
<1> QED BY <1>4, <1>5

\* what is linked to a stored offer is stored
LEMMA StoredGroup ==
    ASSUME ConstantsOK, NEW r, Sound(r), NEW j \in Offers, Stored(r[j])
    PROVE  \A k \in Component(r, j) : Stored(r[k])
<1> DEFINE S == {k \in Offers : Stored(r[k])}
<1>1. r \in Tables /\ Points(r) BY DEF Sound
<1>2. 0 \notin Offers BY ConstantsOK DEF Offers, ConstantsOK
<1>3. \A k \in Offers : ~Stored(r[k]) => r[k].canon = 0 /\ r[k].possible = 0
  BY <1>1, NoRowRow DEF Points, Fit
<1>4. Closed(r, S)
  <2> SUFFICES ASSUME NEW k \in Offers, NEW m \in S, Linked(r, k, m) \/ Linked(r, m, k)
               PROVE  k \in S
      BY DEF Closed
  <2>1. CASE Linked(r, k, m) BY <2>1, <1>2, <1>3 DEF Linked
  <2>2. CASE Linked(r, m, k) BY <2>2, <1>1, <1>2 DEF Linked, Points
  <2> QED BY <2>1, <2>2
<1>5. j \in S OBVIOUS
<1> HIDE DEF S
<1>6. Component(r, j) \subseteq S BY <1>4, <1>5, ComponentOf
<1> QED BY <1>6 DEF S

\* an offer just found enters the table, linked to y if at all
LEMMA StoreSound ==
    ASSUME ConstantsOK, NEW r, Sound(r), NEW j \in Offers, ~Stored(r[j]),
           NEW o \in Row, Stored(o), Fit(o), NEW y,
           {o.canon, o.possible} \subseteq {0, y},
           o.canon # 0 \/ o.possible # 0 => y \in Offers /\ y # j /\ Stored(r[y]) /\ r[y].canon = 0
    PROVE  Sound([r EXCEPT ![j] = o])
<1> DEFINE s == [r EXCEPT ![j] = o]
<1>1. r \in Tables /\ Points(r) /\ r[j] = NoRow BY RowOf DEF Sound
<1>2. s \in Tables /\ \A k \in Offers : s[k] = IF k = j THEN o ELSE r[k] BY <1>1 DEF Tables
<1> HIDE DEF s
<1>3. r[j].canon = 0 BY <1>1, NoRowRow
<1>4. Ends(s)
  <2>1. CASE o.canon = 0
    <3> DEFINE T == {}
               w == 0
    <3>1. \A k \in Offers :
             IF Root(r, k) \in T
             THEN s[k].canon # 0 => /\ s[k].canon = w /\ w # k /\ w \in Offers
                                    /\ Root(r, w) \in T /\ s[w].canon = 0
             ELSE s[k].canon = r[k].canon
      BY <1>2, <1>3, <2>1
    <3> HIDE DEF T, w
    <3> QED BY <3>1, <1>2, Regrouped
  <2>2. CASE o.canon # 0
    <3> DEFINE L == {j}
    <3>1. y \in Offers /\ y \notin L /\ r[y].canon = 0 /\ o.canon = y BY <2>2
    <3>2. \A k \in Offers : IF k \in L THEN r[k].canon = 0 /\ s[k].canon = y
                            ELSE s[k].canon = r[k].canon
      BY <1>2, <1>3, <3>1
    <3> HIDE DEF L
    <3> QED BY <3>1, <3>2, <1>2, Absorbed
  <2> QED BY <2>1, <2>2
<1>5. Points(s)
  <2> SUFFICES ASSUME NEW k \in Offers
               PROVE  /\ Fit(s[k])
                      /\ s[k].canon # 0 => Stored(s[s[k].canon])
                      /\ s[k].possible # 0 => s[k].possible # k /\ Stored(s[s[k].possible])
      BY DEF Points
  <2>1. \A m \in Offers : Stored(r[m]) => Stored(s[m]) BY <1>2
  <2>2. CASE k = j BY <2>1, <2>2, <1>2
  <2>3. CASE k # j
    <3>1. s[k] = r[k] BY <1>2, <2>3
    <3>2. Fit(r[k]) /\ (r[k].canon # 0 => r[k].canon \in Offers /\ Stored(r[r[k].canon]))
      BY <1>1, LinkTypes DEF Points
    <3>3. r[k].possible # 0 => r[k].possible \in Offers /\ r[k].possible # k /\ Stored(r[r[k].possible])
      BY <1>1, LinkTypes DEF Points
    <3> QED BY <3>1, <3>2, <3>3, <2>1
  <2> QED BY <2>2, <2>3
<1>6. Sound(s) BY <1>2, <1>4, <1>5 DEF Sound
<1> QED BY <1>6 DEF s

\* delete_ready_offer
LEMMA DeleteSound ==
    ASSUME ConstantsOK, NEW r, Sound(r), NEW j \in Offers
    PROVE  LET group == Confirmed(r, j)
               s == [k \in Offers |->
                       IF k \in group THEN NoRow
                       ELSE IF r[k].possible \in group THEN Synchronized(Released(r[k]))
                       ELSE r[k]]
           IN  Sound(s) /\ Inside(r, s, j)
<1> DEFINE G == Confirmed(r, j)
           s == [k \in Offers |-> IF k \in G THEN NoRow
                                  ELSE IF r[k].possible \in G THEN Synchronized(Released(r[k]))
                                  ELSE r[k]]
<1>1. r \in Tables /\ Points(r) BY DEF Sound
<1>2. G \subseteq Offers /\ \A k \in Offers : k \in G <=> Root(r, k) = Root(r, j) BY DEF Confirmed
<1>3. 0 \notin Offers BY ConstantsOK DEF Offers, ConstantsOK
<1> HIDE DEF G
<1>4. \A k \in G : s[k] = NoRow BY <1>2
<1>5. \A k \in Offers : k \notin G /\ r[k].possible \notin G => s[k] = r[k] OBVIOUS
<1>6. ASSUME NEW k \in Offers, k \notin G, r[k].possible \in G
      PROVE  /\ s[k] \in Row /\ Fit(s[k]) /\ Stored(s[k]) /\ Stored(r[k])
             /\ s[k].canon = 0 /\ s[k].possible = 0 /\ r[k].canon = 0
  <2> DEFINE q == Released(r[k])
             o == Synchronized(q)
  <2>1. r[k].possible # 0 /\ r[k] \in Row /\ Fit(r[k]) BY <1>2, <1>3, <1>6, RowOf
  <2>2. Pending(r[k]) BY <2>1 DEF Fit
  <2>3. Stored(r[k]) /\ r[k].canon = 0 BY <1>1, <2>2, PendingRow
  <2>4. q \in Row /\ Fit(q) /\ Stored(q) /\ q.canon = 0 /\ q.possible = 0
    BY <2>1, <2>3, FitReleased, ReleasedRow
  <2>5. s[k] = o BY <1>6
  <2> HIDE DEF q
  <2>6. /\ o \in Row /\ Stored(o) /\ o.archived = q.archived /\ o.canon = q.canon
        /\ o.possible = q.possible /\ o.review = q.review /\ o.app = q.app
    BY <2>4, SynchronizedRow
  <2> HIDE DEF o, s
  <2>7. Fit(o) BY <2>4, <2>6, FitKept
  <2> QED BY <2>3, <2>4, <2>5, <2>6, <2>7
<1>7. s = [k \in Offers |-> s[k]] OBVIOUS
<1> HIDE DEF s
<1>8. s \in Tables
  <2>1. ASSUME NEW k \in Offers PROVE s[k] \in Row BY <1>4, <1>5, <1>6, NoRowRow, RowOf
  <2> QED BY <2>1, <1>7 DEF Tables
<1>9. Ends(s)
  <2> DEFINE T == {Root(r, j)}
             w == 0
  <2>1. ASSUME NEW k \in Offers
        PROVE  IF Root(r, k) \in T
               THEN s[k].canon # 0 => /\ s[k].canon = w /\ w # k /\ w \in Offers
                                      /\ Root(r, w) \in T /\ s[w].canon = 0
               ELSE s[k].canon = r[k].canon
    <3>1. k \in G => s[k].canon = 0 BY <1>4, NoRowRow
    <3>2. k \notin G => s[k].canon = r[k].canon BY <1>5, <1>6
    <3> QED BY <3>1, <3>2, <1>2
  <2> HIDE DEF T, w
  <2> QED BY <2>1, <1>8, Regrouped
<1>10. \A k \in Offers : k \notin G /\ Stored(r[k]) => Stored(s[k]) BY <1>5, <1>6
<1>11. Points(s)
  <2> SUFFICES ASSUME NEW k \in Offers
               PROVE  /\ Fit(s[k])
                      /\ s[k].canon # 0 => Stored(s[s[k].canon])
                      /\ s[k].possible # 0 => s[k].possible # k /\ Stored(s[s[k].possible])
      BY DEF Points
  <2>1. CASE k \in G BY <2>1, <1>4, NoRowRow DEF Fit
  <2>2. CASE k \notin G /\ r[k].possible \in G BY <2>2, <1>6
  <2>3. CASE k \notin G /\ r[k].possible \notin G
    <3>1. s[k] = r[k] BY <1>5, <2>3
    <3>2. Fit(r[k]) BY <1>1 DEF Points
    <3>3. r[k].canon # 0 => r[k].canon \in Offers /\ Stored(r[r[k].canon]) /\ r[k].canon \notin G
      <4>1. r[k].canon # 0 => r[k].canon \in Offers /\ Stored(r[r[k].canon])
        BY <1>1, LinkTypes DEF Points
      <4>2. r[k].canon # 0 => Root(r, k) = Root(r, r[k].canon) BY RootEnds
      <4> QED BY <4>1, <4>2, <2>3, <1>2
    <3>4. r[k].possible # 0 => r[k].possible \in Offers /\ r[k].possible # k /\ Stored(r[r[k].possible])
      BY <1>1, LinkTypes DEF Points
    <3> QED BY <3>1, <3>2, <3>3, <3>4, <1>10, <2>3
  <2> QED BY <2>1, <2>2, <2>3
<1>12. Sound(s) BY <1>8, <1>9, <1>11 DEF Sound
<1>13. Inside(r, s, j)
  <2> DEFINE C == Component(r, j)
  <2>1. C \subseteq Offers /\ Closed(r, C) BY ComponentOf
  <2>2. G \subseteq C BY <1>2, RootInside
  <2>3. ASSUME NEW k \in Offers
        PROVE  \/ Links(s[k]) = Links(r[k]) /\ (Stored(r[k]) => Stored(s[k]))
               \/ k \in C /\ {s[k].canon, s[k].possible} \subseteq C \cup {0, r[k].possible}
    <3> HIDE DEF C
    <3>1. CASE k \in G BY <3>1, <2>2, <1>4, NoRowRow
    <3>2. CASE k \notin G /\ r[k].possible \in G
      <4>1. k \in C BY <3>2, <2>1, <2>2 DEF Closed, Linked
      <4> QED BY <4>1, <3>2, <1>6
    <3>3. CASE k \notin G /\ r[k].possible \notin G BY <3>3, <1>5
    <3> QED BY <3>1, <3>2, <3>3
  <2> QED BY <2>3 DEF Inside
<1> QED BY <1>12, <1>13 DEF s, G

\* rescue_jobs: a confirmed link becomes a review again
LEMMA OpenedSound ==
    ASSUME ConstantsOK, NEW r, Sound(r), NEW p \in Offers, NEW root \in Offers, p # root,
           Stored(r[root])
    PROVE  LET s == Opened(r, p, root)
           IN  /\ Sound(s) /\ s[p].canon = 0 /\ s[p].possible = root /\ Stored(s[p])
               /\ \A k \in Offers \ {p} : s[k] = r[k]
<1> DEFINE a == Rescued(r[p])
           o == [a EXCEPT !.canon = 0, !.possible = root, !.review = "pending"]
           s == [r EXCEPT ![p] = o]
<1>1. r \in Tables /\ Points(r) /\ r[p] \in Row BY RowOf DEF Sound
<1>2. a \in Row /\ a.status = "filtered" BY <1>1, RescuedRow
<1> HIDE DEF a
<1>3. o \in Row /\ o.canon = 0 /\ o.possible = root /\ o.review = "pending" /\ o.status = "filtered"
  BY <1>2 DEF Row
<1> HIDE DEF o
<1>4. Opened(r, p, root) = s BY DEF Opened, s, o, a
<1>5. s \in Tables /\ \A k \in Offers : s[k] = IF k = p THEN o ELSE r[k] BY <1>1, <1>3 DEF Tables
<1> HIDE DEF s
<1>6. 0 \notin Offers BY ConstantsOK DEF Offers, ConstantsOK
<1>7. Ends(s) BY <1>3, <1>5, Detached
<1>8. Stored(o) /\ Fit(o) BY <1>3, <1>6 DEF Stored, Fit, Pending
<1>9. Points(s)
  <2> SUFFICES ASSUME NEW k \in Offers
               PROVE  /\ Fit(s[k])
                      /\ s[k].canon # 0 => Stored(s[s[k].canon])
                      /\ s[k].possible # 0 => s[k].possible # k /\ Stored(s[s[k].possible])
      BY DEF Points
  <2>1. \A m \in Offers : Stored(r[m]) => Stored(s[m]) BY <1>5, <1>8
  <2>2. CASE k = p BY <2>1, <2>2, <1>3, <1>5, <1>8
  <2>3. CASE k # p
    <3>1. s[k] = r[k] BY <1>5, <2>3
    <3>2. Fit(r[k]) /\ (r[k].canon # 0 => r[k].canon \in Offers /\ Stored(r[r[k].canon]))
      BY <1>1, LinkTypes DEF Points
    <3>3. r[k].possible # 0 => r[k].possible \in Offers /\ r[k].possible # k /\ Stored(r[r[k].possible])
      BY <1>1, LinkTypes DEF Points
    <3> QED BY <3>1, <3>2, <3>3, <2>1
  <2> QED BY <2>2, <2>3
<1>10. Sound(s) BY <1>5, <1>7, <1>9 DEF Sound
<1> QED BY <1>3, <1>4, <1>5, <1>8, <1>10

LEMMA ShownSound ==
    ASSUME ConstantsOK, NEW r, Sound(r), NEW p \in Offers, NEW ref \in Offers,
           r[p].canon = 0, r[ref].canon = 0, Stored(r[p]), Stored(r[ref])
    PROVE  Sound(Shown(r, p, ref)) /\ Plain(r, Shown(r, p, ref))
<1> DEFINE s == Shown(r, p, ref)
<1>1. ASSUME NEW k \in Offers
      PROVE  /\ s[k] \in Row /\ Links(s[k]) = Links(r[k]) /\ Fit(s[k])
             /\ Stored(r[k]) => Stored(s[k])
  <2>1. r[k] \in Row /\ Fit(r[k]) BY RowOf
  <2>2. CASE k \in {p, ref}
    <3>1. r[k].canon = 0 /\ Stored(r[k]) BY <2>2
    <3>2. PICK v \in {Rescued(r[k]), r[k]} :
             \E x \in {p, v.route} : s[k] = [v EXCEPT !.route = x]
      BY <2>2 DEF Shown
    <3>9. PICK x \in {p, v.route} : s[k] = [v EXCEPT !.route = x] BY <3>2
    <3> DEFINE o == [v EXCEPT !.route = x]
    <3>3. /\ v \in Row /\ Stored(v) /\ v.canon = r[k].canon /\ v.possible = r[k].possible
          /\ v.review = r[k].review
      BY <2>1, <3>1, RescuedRow DEF Stored
    <3>4. x \in {0} \cup Offers BY <3>3 DEF Row
    <3>5. /\ o \in Row /\ o.status = v.status /\ o.canon = v.canon /\ o.possible = v.possible
          /\ o.review = v.review
      BY <3>3, <3>4 DEF Row
    <3>6. s[k] = o BY <3>9
    <3> HIDE DEF o, s
    <3>7. Stored(o) BY <3>3, <3>5 DEF Stored
    <3>8. Fit(o) BY <2>1, <3>1, <3>3, <3>5, <3>7, FitKept
    <3> QED BY <3>3, <3>5, <3>6, <3>7, <3>8 DEF Links
  <2>3. CASE k \notin {p, ref}
    <3>1. s[k] = r[k] BY <2>3 DEF Shown
    <3> HIDE DEF s
    <3> QED BY <3>1, <2>1
  <2> QED BY <2>2, <2>3
<1>2. s = [k \in Offers |-> s[k]] BY DEF Shown
<1> HIDE DEF s
<1>3. s \in Tables BY <1>1, <1>2 DEF Tables
<1>4. Plain(r, s) BY <1>1 DEF Plain
<1>5. Sound(s) BY <1>1, <1>3, <1>4, SoundPlain
<1> QED BY <1>4, <1>5 DEF s

\* confirm_duplicate: the dossier goes to the offer that remains
LEMMA MovedSound ==
    ASSUME ConstantsOK, NEW r, Sound(r), NEW owner \in Offers, NEW winner \in Offers,
           r[owner].app # "none", r[winner].canon = 0
    PROVE  LET s == Moved(r, owner, winner)
           IN  /\ Sound(s) /\ Plain(r, s) /\ s[winner].canon = 0
               /\ owner # winner => s[owner].app = "none"
               /\ \A k \in Offers \ {owner, winner} : s[k] = r[k]
<1> DEFINE app == r[owner].app
           x == StatusOf(app)
           b == r[winner].archived \/ PutAway(app)
           s == Moved(r, owner, winner)
           o == [r[winner] EXCEPT !.app = app, !.status = x, !.archived = b]
           q == [r[owner] EXCEPT !.app = "none"]
<1>1. /\ r \in Tables /\ r[owner] \in Row /\ r[winner] \in Row
      /\ Fit(r[owner]) /\ Fit(r[winner])
  BY RowOf
<1>2. Stored(r[owner])
  <2>1. ~Stored(r[owner]) => r[owner] = NoRow BY <1>1 DEF Fit
  <2> QED BY <2>1, NoRowRow
<1>3. /\ app \in Dossiers /\ b \in BOOLEAN
      /\ x \in {"analyzed", "ready", "sent", "archived"}
  BY <1>1 DEF Row, StatusOf, PutAway, Dossiers
<1>4. /\ s[winner] = o
      /\ owner # winner => s[owner] = q
      /\ \A k \in Offers \ {owner, winner} : s[k] = r[k]
      /\ s = [k \in Offers |-> s[k]]
  BY <1>1 DEF Moved, Tables, Row
<1> HIDE DEF s, app, x, b
<1>5. /\ o \in Row /\ Stored(o) /\ o.canon = r[winner].canon /\ o.possible = r[winner].possible
      /\ o.review = r[winner].review
  BY <1>1, <1>3 DEF Row, Stored
<1>6. /\ q \in Row /\ Stored(q) /\ q.canon = r[owner].canon /\ q.possible = r[owner].possible
      /\ q.review = r[owner].review /\ q.app = "none" /\ q.archived = r[owner].archived
  BY <1>1, <1>2 DEF Row, Stored, Dossiers
<1> HIDE DEF o, q
<1>7. Fit(o) BY <1>1, <1>5, FitKept
<1>8. Fit(q)
  <2>1. q.canon # 0 => q.archived /\ ~Live(q.app) BY <1>1, <1>6 DEF Fit, Live
  <2> QED BY <2>1, <1>1, <1>6, FitKept
<1>9. ASSUME NEW k \in Offers
      PROVE  /\ s[k] \in Row /\ Links(s[k]) = Links(r[k]) /\ Fit(s[k])
             /\ Stored(r[k]) => Stored(s[k])
  <2>1. CASE k = winner BY <2>1, <1>4, <1>5, <1>7 DEF Links
  <2>2. CASE k # winner /\ k = owner BY <2>2, <1>4, <1>6, <1>8 DEF Links
  <2>3. CASE k \notin {owner, winner}
    <3>1. s[k] = r[k] /\ r[k] \in Row /\ Fit(r[k]) BY <2>3, <1>4, RowOf
    <3> QED BY <3>1
  <2> QED BY <2>1, <2>2, <2>3
<1>10. s \in Tables BY <1>4, <1>9 DEF Tables
<1>11. Plain(r, s) BY <1>9 DEF Plain
<1>12. Sound(s) BY <1>9, <1>10, <1>11, SoundPlain
<1> QED BY <1>4, <1>5, <1>6, <1>11, <1>12 DEF s

\* confirm_duplicate: one group around the offer that remains.  a and b are the
\* two offers of the review, w the one that remains, members those that join
\* it, up the offer a waits for, if any, and C a group that holds them all.
Joining(r, a, b, w, members, up, C) ==
    /\ a \in Offers /\ r[a].canon = 0 /\ Stored(r[a])
    /\ b \in Offers /\ r[b].canon = 0 /\ Stored(r[b])
    /\ w = a \/ w = b
    /\ members \subseteq Offers
    /\ \A k \in Offers : k \in members <=> Root(r, k) = a \/ Root(r, k) = b
    /\ \A k \in members : k = w \/ ~Live(r[k].app)
    /\ up \in {0} \cup Offers /\ (up # 0 => Stored(r[up]))
    /\ C \subseteq Offers /\ members \subseteq C /\ (up # 0 => up \in C)
    /\ \A k \in C : r[k].canon # 0 => r[k].canon \in C

LEMMA GroupedSound ==
    ASSUME ConstantsOK, NEW r, Sound(r), NEW a, NEW b, NEW w, NEW members, NEW up, NEW C,
           Joining(r, a, b, w, members, up, C)
    PROVE  LET s == Grouped(r, members, w, up)
           IN  /\ Sound(s)
               /\ \A k \in Offers :
                     \/ Links(s[k]) = Links(r[k]) /\ (Stored(r[k]) => Stored(s[k]))
                     \/ k \in C /\ {s[k].canon, s[k].possible} \subseteq C \cup {0}
<1>0. /\ a \in Offers /\ r[a].canon = 0 /\ Stored(r[a])
      /\ b \in Offers /\ r[b].canon = 0 /\ Stored(r[b])
      /\ w = a \/ w = b
      /\ members \subseteq Offers
      /\ \A k \in Offers : k \in members <=> Root(r, k) = a \/ Root(r, k) = b
      /\ \A k \in members : k = w \/ ~Live(r[k].app)
      /\ up \in {0} \cup Offers /\ (up # 0 => Stored(r[up]))
      /\ C \subseteq Offers /\ members \subseteq C /\ (up # 0 => up \in C)
      /\ \A k \in C : r[k].canon # 0 => r[k].canon \in C
  BY DEF Joining
<1> USE <1>0
<1> DEFINE o == [r[w] EXCEPT !.canon = 0, !.possible = 0, !.review = "confirmed"]
           t == [k \in Offers |->
                   IF k = w THEN [r[k] EXCEPT !.canon = 0, !.possible = 0, !.review = "confirmed"]
                   ELSE IF k \in members THEN AliasOf(r[k], w) ELSE r[k]]
           s == Grouped(r, members, w, up)
<1>1. r \in Tables /\ Points(r) /\ w \in Offers /\ r[w] \in Row /\ Fit(r[w])
  BY RowOf DEF Sound
<1>2. 0 \notin Offers BY ConstantsOK DEF Offers, ConstantsOK
<1>3. Root(r, w) = w /\ w \in members /\ r[w].canon = 0 /\ Stored(r[w])
  <2>1. r[w].canon = 0 /\ Stored(r[w]) OBVIOUS
  <2>2. Root(r, w) = w BY <1>1, <2>1, RootEnds
  <2> QED BY <2>1, <2>2, <1>1
<1>4. /\ o \in Row /\ o.canon = 0 /\ o.possible = 0 /\ o.review = "confirmed"
      /\ o.status = r[w].status
  BY <1>1 DEF Row
<1>5. s = IF up # 0 /\ Root(t, up) # w
          THEN [t EXCEPT ![w].possible = Root(t, up), ![w].review = "pending"] ELSE t
  BY DEF Grouped
<1>6. t[w] = o BY <1>1
<1> HIDE DEF o, s
<1>7. Stored(o) /\ Fit(o) BY <1>2, <1>3, <1>4 DEF Stored, Fit, Pending
<1>8. ASSUME NEW k \in members, k # w
      PROVE  /\ t[k] \in Row /\ Fit(t[k]) /\ Stored(t[k])
             /\ t[k].canon = w /\ t[k].possible = 0
  <2> DEFINE x == AliasOf(r[k], w)
  <2>1. k \in Offers /\ t[k] = x BY <1>8
  <2>2. r[k] \in Row BY <2>1, RowOf
  <2>3. /\ x \in Row /\ x.status = "archived" /\ x.archived /\ x.canon = w
        /\ x.possible = 0 /\ x.review = "confirmed" /\ x.app = r[k].app
    BY ONLY <1>1, <2>2, AliasRow DEF x
  <2> HIDE DEF x, t
  <2>4. Stored(x) /\ Fit(x) BY <2>3, <1>8 DEF Stored, Fit, Pending
  <2> QED BY <2>1, <2>3, <2>4
<1>9. \A k \in Offers : k \notin members => t[k] = r[k] BY <1>3
<1>10. t = [k \in Offers |-> t[k]] OBVIOUS
<1> HIDE DEF t
<1>11. t \in Tables
  <2>1. ASSUME NEW k \in Offers PROVE t[k] \in Row
    <3>1. CASE k = w BY <3>1, <1>4, <1>6
    <3>2. CASE k # w /\ k \in members BY <3>2, <1>8
    <3>3. CASE k \notin members BY <3>3, <1>9, RowOf
    <3> QED BY <3>1, <3>2, <3>3
  <2> QED BY <2>1, <1>10 DEF Tables
<1>12. \A k \in Offers : Stored(r[k]) => Stored(t[k])
  <2> SUFFICES ASSUME NEW k \in Offers, Stored(r[k]) PROVE Stored(t[k]) OBVIOUS
  <2>1. CASE k = w BY <2>1, <1>6, <1>7
  <2>2. CASE k # w /\ k \in members BY <2>2, <1>8
  <2>3. CASE k \notin members BY <2>3, <1>9
  <2> QED BY <2>1, <2>2, <2>3
<1>13. Ends(t)
  <2> DEFINE T == {a, b}
  <2>1. ASSUME NEW k \in Offers
        PROVE  IF Root(r, k) \in T
               THEN t[k].canon # 0 => /\ t[k].canon = w /\ w # k /\ w \in Offers
                                      /\ Root(r, w) \in T /\ t[w].canon = 0
               ELSE t[k].canon = r[k].canon
    <3>1. CASE k = w BY <3>1, <1>1, <1>3, <1>4, <1>6
    <3>2. CASE k # w /\ k \in members BY <3>2, <1>1, <1>3, <1>4, <1>6, <1>8
    <3>3. CASE k \notin members BY <3>3, <1>9
    <3> QED BY <3>1, <3>2, <3>3
  <2> HIDE DEF T
  <2> QED BY <2>1, <1>11, Regrouped
<1>14. ASSUME NEW k \in Offers
       PROVE  /\ Fit(t[k])
              /\ t[k].canon # 0 => Stored(t[t[k].canon])
              /\ t[k].possible # 0 => t[k].possible # k /\ Stored(t[t[k].possible])
  <2>1. CASE k = w BY <2>1, <1>4, <1>6, <1>7
  <2>2. CASE k # w /\ k \in members BY <2>2, <1>6, <1>7, <1>8
  <2>3. CASE k \notin members
    <3>1. t[k] = r[k] BY <1>9, <2>3
    <3>2. Fit(r[k]) /\ (r[k].canon # 0 => r[k].canon \in Offers /\ Stored(r[r[k].canon]))
      BY <1>1, LinkTypes DEF Points
    <3>3. r[k].possible # 0 => r[k].possible \in Offers /\ r[k].possible # k /\ Stored(r[r[k].possible])
      BY <1>1, LinkTypes DEF Points
    <3> QED BY <3>1, <3>2, <3>3, <1>12
  <2> QED BY <2>1, <2>2, <2>3
<1>15. Sound(t) BY <1>11, <1>13, <1>14 DEF Sound, Points
<1>16. ASSUME NEW k \in Offers
       PROVE  \/ Links(t[k]) = Links(r[k]) /\ (Stored(r[k]) => Stored(t[k]))
              \/ k \in C /\ {t[k].canon, t[k].possible} \subseteq C \cup {0}
  <2>1. CASE k = w BY <2>1, <1>3, <1>4, <1>6
  <2>2. CASE k # w /\ k \in members BY <2>2, <1>3, <1>8
  <2>3. CASE k \notin members BY <2>3, <1>9
  <2> QED BY <2>1, <2>2, <2>3
<1>17. CASE ~(up # 0 /\ Root(t, up) # w)
  <2>1. s = t BY <1>5, <1>17
  <2> QED BY <2>1, <1>15, <1>16 DEF s
<1>18. CASE up # 0 /\ Root(t, up) # w
  <2> DEFINE R == Root(t, up)
             x == [o EXCEPT !.possible = R, !.review = "pending"]
  <2>1. /\ R \in Offers /\ R # w /\ Stored(t[R])
    BY <1>12, <1>15, <1>18, RootEnds
  <2>2. R \in C
    <3>1. \A k \in C : t[k].canon # 0 => t[k].canon \in C
      <4> SUFFICES ASSUME NEW k \in C, t[k].canon # 0 PROVE t[k].canon \in C OBVIOUS
      <4>1. CASE k = w BY <4>1, <1>4, <1>6
      <4>2. CASE k # w /\ k \in members BY <4>2, <1>3, <1>8
      <4>3. CASE k \notin members BY <4>3, <1>9
      <4> QED BY <4>1, <4>2, <4>3
    <3> QED BY <3>1, <1>15, <1>18, RootStays
  <2> HIDE DEF R
  <2>3. s = [t EXCEPT ![w] = x]
    <3>1. s = [t EXCEPT ![w].possible = R, ![w].review = "pending"] BY <1>5, <1>18 DEF R
    <3> QED BY <3>1, <1>1, <1>6, <1>11 DEF Tables
  <2>4. x \in Row /\ x.canon = 0 /\ x.possible = R /\ x.review = "pending" /\ x.status = o.status
    BY <1>4, <2>1 DEF Row
  <2> HIDE DEF x
  <2>5. s \in Tables /\ \A k \in Offers : s[k] = IF k = w THEN x ELSE t[k]
    BY <2>3, <2>4, <1>11 DEF Tables
  <2>6. Stored(x) /\ Fit(x) BY <2>1, <2>4, <1>2, <1>7 DEF Stored, Fit, Pending
  <2>7. Ends(s)
    <3> DEFINE T == {}
               z == 0
    <3>1. \A k \in Offers :
             IF Root(t, k) \in T
             THEN s[k].canon # 0 => /\ s[k].canon = z /\ z # k /\ z \in Offers
                                    /\ Root(t, z) \in T /\ s[z].canon = 0
             ELSE s[k].canon = t[k].canon
      BY <2>4, <2>5, <1>4, <1>6
    <3> HIDE DEF T, z
    <3> QED BY <3>1, <2>5, <1>15, Regrouped
  <2>8. Points(s)
    <3> SUFFICES ASSUME NEW k \in Offers
                 PROVE  /\ Fit(s[k])
                        /\ s[k].canon # 0 => Stored(s[s[k].canon])
                        /\ s[k].possible # 0 => s[k].possible # k /\ Stored(s[s[k].possible])
        BY DEF Points
    <3>1. \A m \in Offers : Stored(t[m]) => Stored(s[m]) BY <2>5, <2>6
    <3>2. CASE k = w BY <3>1, <3>2, <2>1, <2>4, <2>5, <2>6
    <3>3. CASE k # w
      <4>1. s[k] = t[k] BY <2>5, <3>3
      <4>2. (t[k].canon # 0 => t[k].canon \in Offers)
            /\ (t[k].possible # 0 => t[k].possible \in Offers)
        BY <1>11, LinkTypes
      <4> QED BY <4>1, <4>2, <1>14, <3>1
    <3> QED BY <3>2, <3>3
  <2>9. Sound(s) BY <2>5, <2>7, <2>8 DEF Sound
  <2>10. ASSUME NEW k \in Offers
         PROVE  \/ Links(s[k]) = Links(r[k]) /\ (Stored(r[k]) => Stored(s[k]))
                \/ k \in C /\ {s[k].canon, s[k].possible} \subseteq C \cup {0}
    <3>1. CASE k = w BY <3>1, <2>2, <2>4, <2>5, <1>3
    <3>2. CASE k # w BY <3>2, <2>5, <1>16
    <3> QED BY <3>1, <3>2
  <2> QED BY <2>9, <2>10 DEF s
<1> QED BY <1>17, <1>18

-----------------------------------------------------------------------------
(* The inductive invariant.                                                *)

Kinds == {"none", "known", "alias", "review", "new"}
Plans == [offer : {0} \cup Offers, kind : Kinds, ref : {0} \cup Offers, deps : SUBSET Offers,
          apps : {<<>>} \cup UNION {[S -> Dossiers] : S \in SUBSET Offers}]
Ingests == [pc : {"idle", "reviewing", "matching", "writing", "closing", "filtering"},
            todo : SUBSET Offers, kept : SUBSET Offers, reviews : SUBSET Offers,
            plan : Plans, stale : BOOLEAN, seen : {<<>>} \cup Tables]
Tasks == [op : {"none", "analyse", "create", "restore", "apply"}, job : {0} \cup Offers,
          held : SUBSET Offers, made : BOOLEAN]

\* A plan that no change has outdated still says what to do with its offer: it
\* is not in the table, its reference is, stands for itself and, unless it has
\* the same identity, is active.
Matched(r, p, w) ==
    /\ p.kind \in {"alias", "review", "new"} => ~Stored(r[p.offer])
    /\ p.kind \in {"alias", "review"} => /\ p.ref \in Offers /\ p.ref \in p.deps
                                         /\ Stored(r[p.ref]) /\ r[p.ref].canon = 0
    /\ p.kind = "alias" => {p.offer, p.ref} \in w.id \/ Active(r[p.ref])
PlanHolds == ingest.pc = "writing" /\ ~ingest.stale
                => ingest.plan.offer \in Offers /\ Matched(rows, ingest.plan, world)

\* what a task holds is in the table
TaskHolds == task.op # "none" => /\ task.job \in Offers /\ task.job \in task.held
                                 /\ \A k \in task.held : Stored(rows[k])

Inv == /\ world \in Worlds /\ ingest \in Ingests /\ task \in Tasks
       /\ Sound(rows) /\ PlanHolds /\ TaskHolds

\* what the action properties say of one step
SparesStep ==
    Collecting => \A k \in Offers : Worked(rows[k]) =>
        /\ rows'[k].status = rows[k].status
        /\ rows'[k].canon = rows[k].canon
        /\ rows'[k].app = rows[k].app
VisibleStep ==
    \A j \in Offers :
        LET k == rows'[j].canon
        IN  Collecting /\ ~rows[j].archived /\ rows[j].canon = 0 /\ k # 0
              => {j, k} \in world.id \/ Active(rows'[k])
GroupStep ==
    task.op # "none" =>
        /\ \A k \in task.held : Stored(rows'[k]) /\ Links(rows'[k]) = Links(rows[k])
        /\ \/ ingest.pc \in {"reviewing", "closing"} /\ ingest'.pc # ingest.pc
           \/ Component(rows', task.job) \subseteq Component(rows, task.job)
Effects == Inv' /\ SparesStep /\ VisibleStep /\ GroupStep

LEMMA InitInv ==
    ASSUME ConstantsOK, Init
    PROVE  Inv
<1>1. NoRow \in Row /\ NoRow.canon = 0 /\ NoRow.possible = 0 /\ ~Pending(NoRow)
      /\ ~Stored(NoRow)
  BY NoRowRow
<1>2. rows \in Tables /\ \A k \in Offers : rows[k] = NoRow BY <1>1 DEF Init, Tables
<1>3. Fit(NoRow) BY <1>1 DEF Fit
<1>4. Points(rows) BY <1>1, <1>2, <1>3 DEF Points
<1>5. Ends(rows)
  <2> DEFINE above == [k \in Offers |-> {}]
             top == [k \in Offers |-> k]
  <2>1. above \in [Offers -> SUBSET Offers] /\ top \in [Offers -> Offers] OBVIOUS
  <2>2. Ways(rows, above, top) BY <1>1, <1>2 DEF Ways
  <2> HIDE DEF above, top
  <2> QED BY <2>1, <2>2 DEF Ends
<1>6. Sound(rows) BY <1>2, <1>4, <1>5 DEF Sound
<1>7. world \in Worlds /\ ingest \in Ingests /\ task \in Tasks
  BY DEF Init, NoIngest, NoPlan, NoTask, Ingests, Plans, Kinds, Tasks
<1>8. PlanHolds /\ TaskHolds BY DEF Init, NoIngest, NoTask, PlanHolds, TaskHolds
<1> QED BY <1>6, <1>7, <1>8 DEF Inv

\* the trigger: a plan that is not outdated has seen every offer as it is
LEMMA ChangeStep ==
    ASSUME ConstantsOK, Inv, NEW s, s \in Tables, Change(s), world' = world
    PROVE  rows' = s /\ ingest' \in Ingests /\ ingest'.pc = ingest.pc /\ PlanHolds'
<1>1. rows' = s /\ ingest \in Ingests /\ rows \in Tables BY DEF Change, Inv, Sound
<1> DEFINE b == ingest.pc = "writing"
                /\ (ingest.stale \/ \E k \in Offers : JobPart(rows'[k]) # JobPart(rows[k]))
<1>2. ingest' = [ingest EXCEPT !.stale = b] BY <1>1 DEF Change, Ingests
<1>3. b \in BOOLEAN BY <1>1 DEF Ingests
<1>4. /\ ingest' \in Ingests /\ ingest'.pc = ingest.pc /\ ingest'.stale = b
      /\ ingest'.plan = ingest.plan
  <2> HIDE DEF b
  <2> QED BY <1>1, <1>2, <1>3 DEF Ingests
<1>5. ASSUME ingest'.pc = "writing", ~ingest'.stale
      PROVE  ingest'.plan.offer \in Offers /\ Matched(rows', ingest'.plan, world')
  <2>1. \A k \in Offers : JobPart(rows'[k]) = JobPart(rows[k]) BY <1>4, <1>5
  <2>2. ~ingest.stale /\ ingest.pc = "writing" BY <1>4, <1>5
  <2>3. ingest.plan.offer \in Offers /\ Matched(rows, ingest.plan, world) BY <2>2 DEF Inv, PlanHolds
  <2>4. ASSUME NEW k \in Offers
        PROVE  /\ Stored(rows'[k]) = Stored(rows[k]) /\ rows'[k].canon = rows[k].canon
               /\ Active(rows'[k]) = Active(rows[k])
    BY <2>1 DEF JobPart, Stored, Active
  <2> QED BY <1>4, <2>3, <2>4 DEF Matched
<1>6. PlanHolds' BY <1>5 DEF PlanHolds
<1> QED BY <1>1, <1>4, <1>6

\* a step that leaves the collection where it is
LEMMA NotCollecting ==
    ASSUME ingest'.pc = ingest.pc \/ ingest.pc \notin {"reviewing", "closing", "writing"}
    PROVE  SparesStep /\ VisibleStep
BY DEF SparesStep, VisibleStep, Collecting

\* a decision reserves the group of its offer for its transaction
LEMMA DecideStep ==
    ASSUME ConstantsOK, Inv, NEW j \in Offers, NEW s, Sound(s), Inside(rows, s, j), Decide(j, s)
    PROVE  Effects
<1>1. Change(s) /\ world' = world /\ task' = task /\ Free({j}) BY DEF Decide
<1>2. rows' = s /\ ingest' \in Ingests /\ ingest'.pc = ingest.pc /\ PlanHolds'
  <2>1. s \in Tables BY DEF Sound
  <2> QED BY <1>1, <2>1, ChangeStep
<1>3. ASSUME task.op # "none"
      PROVE  /\ \A k \in task.held : Stored(s[k]) /\ Links(s[k]) = Links(rows[k])
             /\ Component(s, task.job) \subseteq Component(rows, task.job)
  <2> DEFINE D == Component(rows, j)
  <2>1. /\ task.job \in Offers /\ task.job \in task.held /\ task.held \subseteq Offers
        /\ \A k \in task.held : Stored(rows[k])
    BY <1>3 DEF Inv, TaskHolds, Tasks
  <2>2. D \cap task.held = {} BY <1>1, <2>1 DEF Free
  <2>3. \A k \in task.held : Stored(s[k]) /\ Links(s[k]) = Links(rows[k])
    BY <2>1, <2>2 DEF Inside
  <2>4. Component(rows, task.job) \cap D = {}
    <3> SUFFICES ASSUME NEW k, k \in Component(rows, task.job), k \in D PROVE FALSE OBVIOUS
    <3>1. Component(rows, task.job) = D BY <2>1, GroupsDisjoint
    <3>2. task.job \in D BY <2>1, <3>1, ComponentOf
    <3> QED BY <2>1, <2>2, <3>2
  <2>5. \A k \in Offers :
           \/ s[k].canon = rows[k].canon /\ s[k].possible = rows[k].possible
           \/ k \in D /\ {s[k].canon, s[k].possible} \subseteq D \cup {0, rows[k].possible}
    BY DEF Inside, Links
  <2> HIDE DEF D
  <2>6. Component(s, task.job) \subseteq Component(rows, task.job)
    BY <2>1, <2>4, <2>5, ChangedApart
  <2> QED BY <2>3, <2>6
<1>4. TaskHolds' BY <1>1, <1>2, <1>3 DEF TaskHolds, Inv
<1>5. GroupStep BY <1>2, <1>3 DEF GroupStep
<1>6. Inv' BY <1>1, <1>2, <1>4 DEF Inv
<1> QED BY <1>2, <1>5, <1>6, NotCollecting DEF Effects

\* a step that keeps every link
LEMMA PlainEffects ==
    ASSUME ConstantsOK, Inv, NEW s, Sound(s), Plain(rows, s), rows' = s, world' = world,
           ingest' \in Ingests, PlanHolds', SparesStep, VisibleStep,
           task' \in Tasks,
           \/ task'.op = "none"
           \/ task'.job = task.job /\ task'.held = task.held /\ task.op # "none"
    PROVE  Effects
<1>1. ASSUME task.op # "none"
      PROVE  /\ \A k \in task.held : Stored(s[k]) /\ Links(s[k]) = Links(rows[k])
             /\ Component(s, task.job) \subseteq Component(rows, task.job)
  <2>1. /\ task.job \in Offers /\ task.job \in task.held /\ task.held \subseteq Offers
        /\ \A k \in task.held : Stored(rows[k])
    BY <1>1 DEF Inv, TaskHolds, Tasks
  <2>2. \A k \in task.held : Stored(s[k]) /\ Links(s[k]) = Links(rows[k])
    BY <2>1 DEF Plain
  <2> DEFINE D == {}
  <2>3. \A k \in Offers :
           \/ s[k].canon = rows[k].canon /\ s[k].possible = rows[k].possible
           \/ k \in D /\ {s[k].canon, s[k].possible} \subseteq D \cup {0, rows[k].possible}
    BY DEF Plain, Links
  <2>4. Component(rows, task.job) \cap D = {} OBVIOUS
  <2> HIDE DEF D
  <2>5. Component(s, task.job) \subseteq Component(rows, task.job)
    BY <2>1, <2>3, <2>4, ChangedApart
  <2> QED BY <2>2, <2>5
<1>2. TaskHolds' BY <1>1 DEF TaskHolds, Inv
<1>3. GroupStep BY <1>1 DEF GroupStep
<1>4. Inv' BY <1>2 DEF Inv
<1> QED BY <1>3, <1>4 DEF Effects

LEMMA PlainStep ==
    ASSUME ConstantsOK, Inv, NEW s, Sound(s), Plain(rows, s), Change(s), world' = world,
           task' \in Tasks,
           \/ task'.op = "none"
           \/ task'.job = task.job /\ task'.held = task.held /\ task.op # "none"
    PROVE  Effects
<1>1. rows' = s /\ ingest' \in Ingests /\ ingest'.pc = ingest.pc /\ PlanHolds'
  <2>1. s \in Tables BY DEF Sound
  <2> QED BY <2>1, ChangeStep
<1>2. SparesStep /\ VisibleStep BY <1>1, NotCollecting
<1> QED BY <1>1, <1>2, PlainEffects

\* a step that only looks at the table
LEMMA LookStep ==
    ASSUME ConstantsOK, Inv, rows' = rows, world' = world, ingest' \in Ingests, PlanHolds',
           task' = task \/ task' = NoTask
    PROVE  Effects
<1>1. Sound(rows) /\ Plain(rows, rows) /\ task \in Tasks BY PlainItself DEF Inv
<1>2. SparesStep /\ VisibleStep BY DEF SparesStep, VisibleStep
<1>3. NoTask \in Tasks /\ NoTask.op = "none" BY DEF NoTask, Tasks
<1>4. CASE task' = NoTask BY <1>1, <1>2, <1>3, <1>4, PlainEffects
<1>5. CASE task' = task BY <1>1, <1>2, <1>5, PlainEffects
<1> QED BY <1>4, <1>5

\* a task begins with the group of its offer
LEMMA BeginStep ==
    ASSUME ConstantsOK, Inv, NEW op \in {"analyse", "create", "restore"}, NEW j \in Offers,
           NEW s, Sound(s), Plain(rows, s), Begin(op, j, s)
    PROVE  Effects
<1> DEFINE C == Component(rows, j)
<1>1. /\ task.op = "none" /\ Stored(rows[j]) /\ Change(s) /\ world' = world
      /\ task' = [op |-> op, job |-> j, held |-> C, made |-> FALSE]
  BY DEF Begin
<1>2. rows' = s /\ ingest' \in Ingests /\ ingest'.pc = ingest.pc /\ PlanHolds'
  <2>1. s \in Tables BY DEF Sound
  <2> QED BY <1>1, <2>1, ChangeStep
<1>3. C \subseteq Offers /\ j \in C /\ \A k \in C : Stored(rows[k])
  BY <1>1, ComponentOf, StoredGroup DEF Inv
<1> HIDE DEF C
<1>4. \A k \in C : Stored(s[k]) BY <1>3 DEF Plain
<1>5. task' \in Tasks /\ TaskHolds' BY <1>1, <1>2, <1>3, <1>4 DEF Tasks, TaskHolds
<1>6. Inv' BY <1>1, <1>2, <1>5 DEF Inv
<1>7. GroupStep BY <1>1 DEF GroupStep
<1> QED BY <1>2, <1>6, <1>7, NotCollecting DEF Effects

-----------------------------------------------------------------------------
(* The user's decisions and the tasks.                                     *)

LEMMA SimpleDecisions ==
    ASSUME ConstantsOK, Inv, NEW j \in Offers,
           ArchiveJob(j) \/ ArchiveApplication(j) \/ MarkSent(j) \/ Shortlist(j) \/ Unlist(j)
    PROVE  Effects
<1>1. Sound(rows) BY DEF Inv
<1>2. CASE ArchiveJob(j)
  <2> DEFINE s == [rows EXCEPT ![j] = [Archived(@) EXCEPT !.choice = TRUE]]
  <2>1. Decide(j, s) BY <1>2 DEF ArchiveJob
  <2>2. Sound(s) /\ Plain(rows, s) BY <1>1, ArchiveJobSound
  <2> HIDE DEF s
  <2> QED BY <2>1, <2>2, DecideStep, PlainInside
<1>3. CASE ArchiveApplication(j)
  <2> DEFINE s == [rows EXCEPT ![j] = [Archived(@) EXCEPT !.choice = TRUE,
                                                         !.app = Shelved(rows[j].app)]]
  <2>1. Decide(j, s) BY <1>3 DEF ArchiveApplication
  <2>2. Sound(s) /\ Plain(rows, s) BY <1>1, ArchiveApplicationSound
  <2> HIDE DEF s
  <2> QED BY <2>1, <2>2, DecideStep, PlainInside
<1>4. CASE MarkSent(j)
  <2> DEFINE s == [rows EXCEPT ![j].app = "sent", ![j].status = "sent"]
  <2>1. Decide(j, s) /\ ~rows[j].archived BY <1>4 DEF MarkSent
  <2>2. Sound(s) /\ Plain(rows, s) BY <1>1, <2>1, MarkSentSound
  <2> HIDE DEF s
  <2> QED BY <2>1, <2>2, DecideStep, PlainInside
<1>5. CASE Shortlist(j)
  <2> DEFINE s == [rows EXCEPT ![j].status = "shortlisted", ![j].choice = TRUE]
  <2>1. Decide(j, s) /\ ~rows[j].archived BY <1>5 DEF Shortlist
  <2>2. Sound(s) /\ Plain(rows, s) BY <1>1, <2>1, ShortlistSound
  <2> HIDE DEF s
  <2> QED BY <2>1, <2>2, DecideStep, PlainInside
<1>6. CASE Unlist(j)
  <2> DEFINE x == IF rows[j].analyzed THEN "analyzed" ELSE "filtered"
             s == [rows EXCEPT ![j].status = x, ![j].choice = TRUE]
  <2>1. ~rows[j].archived /\ x \in {"shortlisted", "analyzed", "filtered"} BY <1>6 DEF Unlist
  <2>2. Decide(j, s) BY <1>6 DEF Unlist
  <2> HIDE DEF x
  <2>3. Sound(s) /\ Plain(rows, s) BY <1>1, <2>1, ShortlistSound
  <2> HIDE DEF s
  <2> QED BY <2>2, <2>3, DecideStep, PlainInside
<1> QED BY <1>2, <1>3, <1>4, <1>5, <1>6

LEMMA RejectStep ==
    ASSUME ConstantsOK, Inv, NEW j \in Offers, Reject(j)
    PROVE  Effects
<1> DEFINE x == IF rows[j].archived THEN "archived"
                ELSE IF rows[j].analyzed THEN "analyzed"
                ELSE IF rows[j].filtered THEN "filtered" ELSE "scraped"
           q == [rows EXCEPT ![j] = [@ EXCEPT !.possible = 0, !.review = "rejected", !.status = x]]
           s == Unrouted(q, j)
<1>1. Sound(rows) /\ Pending(rows[j]) /\ Decide(j, s) BY DEF Inv, Reject
<1>2. x \in {"archived", "analyzed", "filtered", "scraped"} OBVIOUS
<1> HIDE DEF x
<1>3. Sound(s) /\ Inside(rows, s, j) BY <1>1, <1>2, RejectSound
<1> HIDE DEF s
<1> QED BY <1>1, <1>3, DecideStep

LEMMA DeleteStep ==
    ASSUME ConstantsOK, Inv, NEW j \in Offers, Delete(j)
    PROVE  Effects
<1> DEFINE group == Confirmed(rows, j)
           s == [k \in Offers |->
                   IF k \in group THEN NoRow
                   ELSE IF rows[k].possible \in group THEN Synchronized(Released(rows[k]))
                   ELSE rows[k]]
<1>1. Sound(rows) /\ Decide(j, s) BY DEF Inv, Delete
<1>2. Sound(s) /\ Inside(rows, s, j) BY <1>1, DeleteSound
<1> HIDE DEF s
<1> QED BY <1>1, <1>2, DecideStep

LEMMA TaskSteps ==
    ASSUME ConstantsOK, Inv, AnalysisDone \/ Reserve \/ Publish \/ Fail
    PROVE  Effects
<1> DEFINE j == task.job
<1>1. Sound(rows) /\ task \in Tasks BY DEF Inv
<1>2. task.op # "none" BY DEF AnalysisDone, Reserve, Publish, Fail
<1>3. j \in Offers /\ Stored(rows[j]) BY <1>2 DEF Inv, TaskHolds
<1>4. NoTask \in Tasks /\ NoTask.op = "none" BY DEF NoTask, Tasks
<1>5. ~rows[j].archived => rows[j].canon = 0 BY <1>1, <1>3, RowOf
<1> HIDE DEF j
<1>6. CASE AnalysisDone
  <2> DEFINE s == [rows EXCEPT ![j].analyzed = TRUE, ![j].analysis = TRUE,
                               ![j].status = "analyzed"]
  <2>1. Change(s) /\ world' = world /\ task' \in {NoTask, task} BY <1>6 DEF AnalysisDone, j
  <2>2. Candidate(j, FALSE) \/ Candidate(j, TRUE) BY <1>6 DEF AnalysisDone, j
  <2>3. rows[j].canon = 0 BY <2>2 DEF Candidate
  <2>4. Sound(s) /\ Plain(rows, s) BY <1>1, <1>3, <2>3, AnalysisSound
  <2> HIDE DEF s
  <2>5. task' \in Tasks /\ (task'.op = "none" \/ task' = task) BY <1>1, <1>4, <2>1
  <2> QED BY <1>2, <2>1, <2>4, <2>5, PlainStep
<1>7. CASE Reserve
  <2> DEFINE again == task.op = "restore" /\ HasDocuments(rows[j].app)
             x == IF again THEN "redo"
                  ELSE IF rows[j].app = "none" THEN "reserved" ELSE rows[j].app
             s == [rows EXCEPT ![j].app = x]
  <2>1. /\ Change([rows EXCEPT ![j].app = IF again THEN "redo"
                                          ELSE IF @ = "none" THEN "reserved" ELSE @])
        /\ world' = world /\ task' = [task EXCEPT !.op = "apply", !.made = ~again]
        /\ JobIsActive(rows[j])
    BY <1>7 DEF Reserve, j
  <2>2. Change(s)
    <3>1. s = [rows EXCEPT ![j].app = IF again THEN "redo"
                                      ELSE IF @ = "none" THEN "reserved" ELSE @]
      OBVIOUS
    <3> QED BY <2>1, <3>1
  <2>3. rows[j].canon = 0 BY <1>5, <2>1 DEF JobIsActive, Active
  <2>4. x \in Dossiers BY <1>1, <1>3, RowOf DEF Row, Dossiers
  <2>5. again \in BOOLEAN OBVIOUS
  <2> HIDE DEF x, again
  <2>6. Sound(s) /\ Plain(rows, s) BY <1>1, <1>3, <2>3, <2>4, DossierSound
  <2> HIDE DEF s
  <2>7. task' \in Tasks /\ task'.job = task.job /\ task'.held = task.held
    BY <1>1, <2>1, <2>5 DEF Tasks
  <2> QED BY <1>2, <2>1, <2>2, <2>6, <2>7, PlainStep
<1>8. CASE Publish
  <2> DEFINE s == [rows EXCEPT ![j].app = "ready", ![j].status = "ready"]
  <2>1. Change(s) /\ world' = world /\ task' = NoTask /\ JobIsActive(rows[j])
    BY <1>8 DEF Publish, j
  <2>2. rows[j].canon = 0 BY <1>5, <2>1 DEF JobIsActive, Active
  <2>3. Sound(s) /\ Plain(rows, s) BY <1>1, <1>3, <2>2, PublishSound
  <2> HIDE DEF s
  <2> QED BY <1>4, <2>1, <2>3, PlainStep
<1>9. CASE Fail
  <2> DEFINE app == rows[j].app
             x == IF app = "redo" THEN "archived"
                  ELSE IF task.op = "apply" /\ task.made /\ app = "reserved" THEN "none" ELSE app
             s == [rows EXCEPT ![j].app = x]
  <2>1. /\ Change([rows EXCEPT ![j].app =
              IF @ = "redo" THEN "archived"
              ELSE IF task.op = "apply" /\ task.made /\ @ = "reserved" THEN "none" ELSE @])
        /\ world' = world /\ task' = NoTask
    BY <1>9 DEF Fail, j
  <2>2. Change(s)
    <3>1. s = [rows EXCEPT ![j].app =
              IF @ = "redo" THEN "archived"
              ELSE IF task.op = "apply" /\ task.made /\ @ = "reserved" THEN "none" ELSE @]
      OBVIOUS
    <3> QED BY <2>1, <3>1
  <2>3. x \in Dossiers /\ (~Live(x) \/ x = app)
    BY <1>1, <1>3, RowOf DEF Row, Dossiers, Live, PutAway
  <2>4. Live(app) => rows[j].canon = 0 BY <1>1, <1>3, RowOf
  <2> HIDE DEF x
  <2>5. Sound(s) /\ Plain(rows, s) BY <1>1, <1>3, <2>3, <2>4, DossierSound
  <2> HIDE DEF s
  <2> QED BY <1>4, <2>1, <2>2, <2>5, PlainStep
<1> QED BY <1>6, <1>7, <1>8, <1>9

LEMMA StartSteps ==
    ASSUME ConstantsOK, Inv, NEW j \in Offers, StartAnalysis(j) \/ StartCreation(j)
    PROVE  Effects
<1>1. Begin("analyse", j, rows) \/ Begin("create", j, rows) BY DEF StartAnalysis, StartCreation
<1>2. Sound(rows) /\ Plain(rows, rows) BY PlainItself DEF Inv
<1> QED BY <1>1, <1>2, BeginStep

\* confirm_duplicate, on a table where the dossier is already where it goes
LEMMA ConfirmedSound ==
    ASSUME ConstantsOK, NEW r, Sound(r), NEW j \in Offers, Pending(r[j]),
           NEW a, a = Root(r, r[j].possible), NEW w \in {a, j},
           NEW members, members = {a, j} \cup {k \in Offers : r[k].canon # 0 /\ Root(r, k) \in {a, j}},
           NEW up, up = IF Pending(r[a]) THEN r[a].possible ELSE 0,
           NEW q, Sound(q), Plain(r, q), \A k \in members \ {w} : ~Live(q[k].app)
    PROVE  LET s == Unrouted(Grouped(q, members, w, up), j)
           IN  Sound(s) /\ Inside(r, s, j)
<1>1. r \in Tables /\ Points(r) /\ \A k \in Offers : q[k].canon = r[k].canon
  BY DEF Sound, Plain, Links
<1>2. r[j].canon = 0 /\ Stored(r[j]) /\ r[j].possible \in Offers /\ Stored(r[r[j].possible])
  BY <1>1, PendingRow
<1>3. a \in Offers /\ r[a].canon = 0 /\ Stored(r[a]) BY <1>2, RootEnds
<1>4. members = {k \in Offers : Root(q, k) \in {a, j}}
  <2>1. \A k \in Offers : Root(q, k) = Root(r, k) BY <1>1, SameRoots
  <2>2. \A k \in Offers : r[k].canon = 0 => Root(r, k) = k BY RootEnds
  <2> QED BY <2>1, <2>2, <1>2, <1>3
<1>5. up \in {0} \cup Offers /\ (up # 0 => Stored(r[up]) /\ Linked(r, a, up))
  <2>1. CASE Pending(r[a])
    <3>1. r[a].possible \in Offers /\ Stored(r[r[a].possible]) BY <2>1, <1>1, <1>3, PendingRow
    <3> QED BY <3>1, <2>1 DEF Linked
  <2>2. CASE ~Pending(r[a]) BY <2>2
  <2> QED BY <2>1, <2>2
<1> DEFINE C == Component(r, j)
<1>6. C \in SUBSET Offers /\ j \in C /\ Closed(r, C) BY ComponentOf
<1>7. a \in C /\ \A k \in Offers : Root(r, k) \in C => k \in C
  <2>1. r[j].possible \in C BY <1>2, <1>6 DEF Closed, Linked
  <2>2. Component(r, r[j].possible) = C
    <3>1. r[j].possible \in Component(r, r[j].possible) BY <1>2, ComponentOf
    <3> QED BY <2>1, <3>1, <1>2, GroupsDisjoint
  <2> QED BY <1>2, <2>2, RootInside
<1> HIDE DEF C
<1>8. members \subseteq C
  <2>1. \A k \in members : k \in Offers /\ Root(q, k) = Root(r, k) BY <1>1, <1>4, SameRoots
  <2> QED BY <2>1, <1>4, <1>6, <1>7
<1>9. up # 0 => up \in C BY <1>5, <1>6, <1>7 DEF Closed
<1>10. \A k \in C : q[k].canon # 0 => q[k].canon \in C
  <2>1. \A k \in C : k \in Offers /\ (r[k].canon # 0 => r[k].canon \in Offers)
    BY <1>1, <1>6, LinkTypes
  <2> QED BY <2>1, <1>1, <1>6 DEF Closed, Linked
<1>11. q[a].canon = 0 /\ q[j].canon = 0 /\ Stored(q[a]) /\ Stored(q[j]) /\ (up # 0 => Stored(q[up]))
  BY <1>1, <1>2, <1>3, <1>5 DEF Plain
<1> DEFINE g == Grouped(q, members, w, up)
<1>12. /\ Sound(g)
       /\ \A k \in Offers :
             \/ Links(g[k]) = Links(q[k]) /\ (Stored(q[k]) => Stored(g[k]))
             \/ k \in C /\ {g[k].canon, g[k].possible} \subseteq C \cup {0}
  <2>1. /\ members \subseteq Offers
        /\ \A k \in Offers : k \in members <=> Root(q, k) = a \/ Root(q, k) = j
        /\ \A k \in members : k = w \/ ~Live(q[k].app)
    BY <1>4
  <2>2. w = a \/ w = j OBVIOUS
  <2>3. C \subseteq Offers BY <1>6
  <2>4. Joining(q, a, j, w, members, up, C)
    BY <1>3, <1>5, <1>8, <1>9, <1>10, <1>11, <2>1, <2>2, <2>3 DEF Joining
  <2> QED BY ONLY ConstantsOK, Sound(q), <2>4, GroupedSound DEF g
<1> HIDE DEF g
<1>13. Inside(r, g, j) BY <1>12 DEF Inside, Plain, C
<1>14. Sound(Unrouted(g, j)) /\ Plain(g, Unrouted(g, j)) BY <1>12, UnroutedSound
<1>15. Inside(r, Unrouted(g, j), j) BY <1>13, <1>14, InsidePlain
<1> QED BY <1>14, <1>15 DEF g

\* the dossier that comes first is one of those of the group
LEMMA FirstIsOne ==
    ASSUME NEW r, NEW S, NEW k \in FirstDossiers(r, S)
    PROVE  k \in S /\ r[k].app # "none"
BY DEF FirstDossiers

LEMMA ConfirmStep ==
    ASSUME ConstantsOK, Inv, NEW j \in Offers, Confirm(j)
    PROVE  Effects
<1> DEFINE a == Root(rows, rows[j].possible)
           members == {a, j} \cup {k \in Offers : rows[k].canon # 0 /\ Root(rows, k) \in {a, j}}
           w == IF Active(rows[a]) = Active(rows[j]) THEN Max({a, j})
                ELSE CHOOSE k \in {a, j} : Active(rows[k])
           up == IF Pending(rows[a]) THEN rows[a].possible ELSE 0
           owners == {k \in members : rows[k].app # "none"}
<1>1. Sound(rows) /\ Pending(rows[j]) BY DEF Inv, Confirm
<1>2. \/ owners = {} /\ Decide(j, Unrouted(Grouped(rows, members, w, up), j))
      \/ \E owner \in FirstDossiers(rows, members) :
            /\ \A k \in owners \ {owner} : PutAway(rows[k].app)
            /\ owner = w \/ rows[w].app = "none"
            /\ Decide(j, Unrouted(Grouped(Moved(rows, owner, w), members, w, up), j))
  BY DEF Confirm
<1>3. rows \in Tables /\ Points(rows) BY <1>1 DEF Sound
<1>4. rows[j].canon = 0 /\ Stored(rows[j]) /\ rows[j].possible \in Offers
      /\ Stored(rows[rows[j].possible])
  BY <1>1, <1>3, PendingRow
<1>5. a \in Offers /\ rows[a].canon = 0 BY <1>1, <1>4, RootEnds
<1>6. w \in {a, j}
  <2>1. CASE Active(rows[a]) = Active(rows[j])
    <3> DEFINE S == {a, j}
    <3>1. N \in Nat BY ConstantsOK DEF ConstantsOK
    <3>2. S \subseteq 0 .. N /\ S # {} BY <3>1, <1>5 DEF Offers
    <3> HIDE DEF S, a
    <3>3. Max(S) \in S BY <3>1, <3>2, GreatestIn
    <3> QED BY <2>1, <3>3 DEF S
  <2>2. CASE Active(rows[a]) # Active(rows[j])
    <3>1. Active(rows[a]) \in BOOLEAN /\ Active(rows[j]) \in BOOLEAN
      BY <1>1, <1>5, RowOf DEF Active, Stored, Row
    <3>2. \E k \in {a, j} : Active(rows[k]) BY <2>2, <3>1
    <3> QED BY <2>2, <3>2
  <2> QED BY <2>1, <2>2
<1> DEFINE s(q) == Unrouted(Grouped(q, members, w, up), j)
<1>7. ASSUME NEW q, Sound(q), Plain(rows, q), \A k \in members \ {w} : ~Live(q[k].app)
      PROVE  Sound(s(q)) /\ Inside(rows, s(q), j)
  <2> HIDE DEF w
  <2> QED BY <1>1, <1>6, <1>7, ConfirmedSound
<1>8. \A k \in members : k \in Offers BY <1>5
<1>9. w \in Offers /\ rows[w].canon = 0 BY <1>4, <1>5, <1>6
<1> HIDE DEF w, up, a
<1>10. CASE owners = {} /\ Decide(j, s(rows))
  <2>1. \A k \in members \ {w} : ~Live(rows[k].app) BY <1>10 DEF Live
  <2>2. Plain(rows, rows) BY PlainItself
  <2>3. Sound(s(rows)) /\ Inside(rows, s(rows), j) BY <1>1, <1>7, <2>1, <2>2
  <2> QED BY <1>10, <2>3, DecideStep
<1>11. ASSUME NEW owner \in FirstDossiers(rows, members),
              \A k \in owners \ {owner} : PutAway(rows[k].app),
              Decide(j, s(Moved(rows, owner, w)))
       PROVE  Effects
  <2> DEFINE q == Moved(rows, owner, w)
  <2>1. owner \in members /\ rows[owner].app # "none" BY FirstIsOne
  <2>2. /\ Sound(q) /\ Plain(rows, q)
        /\ owner # w => q[owner].app = "none"
        /\ \A k \in Offers \ {owner, w} : q[k] = rows[k]
    BY <1>1, <1>8, <1>9, <2>1, MovedSound
  <2>3. Decide(j, s(q)) BY <1>11
  <2> HIDE DEF q
  <2>4. ASSUME NEW k \in members \ {w} PROVE ~Live(q[k].app)
    <3>1. CASE k = owner BY <3>1, <2>2 DEF Live
    <3>2. CASE k # owner
      <4>1. q[k] = rows[k] BY <3>2, <1>8, <2>2
      <4> QED BY <3>2, <4>1, <1>11 DEF Live
    <3> QED BY <3>1, <3>2
  <2>5. Sound(s(q)) /\ Inside(rows, s(q), j) BY <1>7, <2>2, <2>4
  <2> QED BY <2>3, <2>5, DecideStep
<1> QED BY <1>2, <1>10, <1>11

\* the review of p, or the link of p to root, is shown to the user
LEMMA ReopenSound ==
    ASSUME ConstantsOK, Inv, NEW j \in Offers, Stored(rows[j]),
           NEW root, root = Root(rows, j), NEW asked, asked = ReviewsOf(rows, root),
           NEW p, \/ p \in asked
                  \/ asked = {} /\ p = j /\ rows[j].canon # 0
                  \/ asked = {} /\ p \in Offers /\ rows[j].canon = 0 /\ rows[p].canon = root,
           Reopen(j, root, asked, p)
    PROVE  Effects
<1>1. Sound(rows) /\ rows \in Tables /\ Points(rows) BY DEF Inv, Sound
<1>2. root \in Offers /\ rows[root].canon = 0 /\ Stored(rows[root]) /\ Root(rows, root) = root
  BY <1>1, RootEnds
<1>3. 0 \notin Offers BY ConstantsOK DEF Offers, ConstantsOK
<1>4. CASE p \in asked
  <2> DEFINE ref == Root(rows, rows[p].possible)
  <2>1. p \in Offers /\ Pending(rows[p]) BY <1>2, <1>4 DEF ReviewsOf
  <2>2. /\ rows[p].canon = 0 /\ Stored(rows[p]) /\ rows[p].possible \in Offers
        /\ Stored(rows[rows[p].possible])
    BY <1>1, <2>1, PendingRow
  <2>3. ref \in Offers /\ rows[ref].canon = 0 /\ Stored(rows[ref]) BY <1>1, <2>2, RootEnds
  <2>4. rows[p].possible # 0 /\ asked # {} BY <1>3, <1>4, <2>2
  <2>5. Decide(j, Shown(rows, p, ref)) BY <2>4 DEF Reopen
  <2> HIDE DEF ref
  <2>6. Sound(Shown(rows, p, ref)) /\ Plain(rows, Shown(rows, p, ref))
    BY <1>1, <2>1, <2>2, <2>3, ShownSound
  <2> QED BY <2>5, <2>6, PlainInside, DecideStep
<1>5. CASE p \notin asked
  <2> DEFINE open == Opened(rows, p, root)
             C == Component(rows, j)
  <2>1. asked = {} /\ p \in Offers /\ rows[p].canon # 0 BY <1>2, <1>3, <1>5
  <2>2. Root(rows, p) = root BY <1>1, <1>2, <1>5, <2>1, RootEnds
  <2>3. p # root BY <1>2, <2>1
  <2>4. /\ Sound(open) /\ open[p].canon = 0 /\ open[p].possible = root /\ Stored(open[p])
        /\ \A k \in Offers \ {p} : open[k] = rows[k]
    BY <1>1, <1>2, <2>1, <2>3, OpenedSound
  <2> HIDE DEF open
  <2>5. open[root].canon = 0 /\ Stored(open[root]) BY <1>2, <2>3, <2>4
  <2>6. Root(open, root) = root BY <1>2, <2>4, <2>5, RootEnds
  <2>7. Decide(j, Shown(open, p, root)) BY <1>2, <1>3, <2>1, <2>4, <2>6 DEF Reopen, open
  <2>8. Sound(Shown(open, p, root)) /\ Plain(open, Shown(open, p, root))
    BY <1>2, <2>1, <2>4, <2>5, ShownSound
  <2>9. root \in C /\ p \in C BY <1>1, <2>1, <2>2, RootInside
  <2> HIDE DEF C
  <2>10. Inside(rows, open, j) BY <2>4, <2>9 DEF Inside, C
  <2>11. Inside(rows, Shown(open, p, root), j) BY <2>8, <2>10, InsidePlain
  <2> QED BY <2>7, <2>8, <2>11, DecideStep
<1> QED BY <1>4, <1>5

LEMMA RescueStep ==
    ASSUME ConstantsOK, Inv, NEW j \in Offers, Rescue(j)
    PROVE  Effects
<1> DEFINE root == Root(rows, j)
           links == IF rows[j].canon # 0 THEN {j} ELSE {k \in Offers : rows[k].canon = root}
           asked == ReviewsOf(rows, root)
           p == Min(IF asked # {} THEN asked ELSE links)
           sent == [rows EXCEPT ![j].archived = FALSE, ![j].status = "sent", ![j].app = "sent"]
           again == [rows EXCEPT ![j] = Rescued(@)]
<1>1. Sound(rows) BY DEF Inv
<1>2. \/ asked \cup links # {} /\ Reopen(j, root, asked, p)
      \/ asked \cup links = {} /\ Decide(j, sent)
      \/ asked \cup links = {} /\ Begin("restore", j, again)
  <2> DEFINE A == asked \cup links # {}
             B == asked \cup links = {} /\ Submitted(rows[j].app)
             X == Reopen(j, root, asked, p)
             Y == Decide(j, sent)
             Z == Free({j}) /\ Begin("restore", j, again)
  <2>1. (CASE A -> X [] B -> Y [] OTHER -> Z)
    <3> HIDE DEF Free, Begin, Decide, Reopen
    <3> QED BY DEF Rescue
  <2>2. B => ~A OBVIOUS
  <2>3. ~A => asked \cup links = {} OBVIOUS
  <2> HIDE DEF A, B, X, Y, Z
  <2>4. (A /\ X) \/ (B /\ Y) \/ (~A /\ Z) BY <2>1, <2>2
  <2> QED BY <2>3, <2>4 DEF A, B, X, Y, Z
<1>3. CASE asked \cup links # {} /\ Reopen(j, root, asked, p)
  <2> DEFINE S == IF asked # {} THEN asked ELSE links
  <2>1. Stored(rows[j]) BY <1>3 DEF Reopen, Decide
  <2>2. root \in Offers BY <1>1, RootEnds
  <2>3. S \subseteq Offers /\ S # {} BY <1>3, <2>2 DEF ReviewsOf
  <2>4. S \subseteq Nat BY <2>3 DEF Offers
  <2>5. p \in S
    <3> HIDE DEF S
    <3>1. Min(S) \in S BY <2>3, <2>4, LeastIn
    <3> QED BY <3>1 DEF S
  <2> HIDE DEF p
  <2>6. \/ p \in asked
        \/ asked = {} /\ p = j /\ rows[j].canon # 0
        \/ asked = {} /\ p \in Offers /\ rows[j].canon = 0 /\ rows[p].canon = root
    BY <2>5
  <2> HIDE DEF S, root, asked
  <2> QED BY <1>3, <2>1, <2>6, ReopenSound DEF root, asked
<1>4. CASE asked \cup links = {} /\ Decide(j, sent)
  <2>1. rows[j].canon = 0 BY <1>4
  <2>2. Sound(sent) /\ Plain(rows, sent) BY <1>1, <2>1, ShownSentSound
  <2> HIDE DEF sent
  <2> QED BY <1>4, <2>2, PlainInside, DecideStep
<1>5. CASE asked \cup links = {} /\ Begin("restore", j, again)
  <2>1. rows[j].canon = 0 BY <1>5
  <2>2. Sound(again) /\ Plain(rows, again) BY <1>1, <2>1, RescuedSound
  <2> HIDE DEF again
  <2> QED BY <1>5, <2>2, BeginStep
<1> QED BY <1>2, <1>3, <1>4, <1>5

-----------------------------------------------------------------------------
(* A collection.                                                           *)

\* _job_identity_priority chooses one of the offers it compares
LEMMA FirstKnownIn ==
    ASSUME ConstantsOK, NEW S, S \subseteq Offers, S # {}
    PROVE  FirstKnown(S) \in S
<1> DEFINE weight(k) == (IF rows[k].app = "none" THEN 2 * N ELSE 0)
                        + (IF rows[k].analyzed THEN 0 ELSE N) + k
           W == {weight(k) : k \in S}
<1>1. N \in Nat BY ConstantsOK DEF ConstantsOK
<1>2. \A k \in S : weight(k) \in Nat
  <2> SUFFICES ASSUME NEW k \in S PROVE weight(k) \in Nat OBVIOUS
  <2>1. k \in Nat BY DEF Offers
  <2>2. (IF rows[k].app = "none" THEN 2 * N ELSE 0) \in Nat BY <1>1
  <2>3. (IF rows[k].analyzed THEN 0 ELSE N) \in Nat BY <1>1
  <2> QED BY <2>1, <2>2, <2>3
<1> HIDE DEF weight
<1>3. W \subseteq Nat /\ W # {} BY <1>2
<1>4. PICK x \in W : \A y \in W : x <= y
  <2> HIDE DEF W
  <2> QED BY <1>3, LeastOf
<1>5. \E k \in S : \A m \in S : weight(k) <= weight(m) BY <1>4
<1>6. FirstKnown(S) = CHOOSE k \in S : \A m \in S : weight(k) <= weight(m)
  BY DEF FirstKnown, weight
<1> QED BY <1>5, <1>6

\* what a match may say of an offer: with an evidence of identity an archive is
\* joined too, with a copy of the text only what is active
LEMMA RecognisedOK ==
    ASSUME ConstantsOK, Inv, NEW j \in Offers, NEW m \in Recognised(j)
    PROVE  /\ m.kind \in Kinds /\ m.ref \in {0} \cup Offers
           /\ m.kind \in {"alias", "review", "new"} => ~Stored(rows[j])
           /\ m.kind \in {"alias", "review"} =>
                 m.ref \in Offers /\ Stored(rows[m.ref]) /\ rows[m.ref].canon = 0
           /\ m.kind = "alias" => {j, m.ref} \in world.id \/ Active(rows[m.ref])
<1> DEFINE url == KnownBy(j, world.id)
           direct == IF url = {} THEN {} ELSE {Root(rows, FirstKnown(url))}
           sure == {k \in direct : AutoMatch(rows, j, k)}
           copies == {Root(rows, k) : k \in {i \in TextOf(j) \ {j} : Stored(rows[i])}}
           proven == {k \in copies : AutoMatch(rows, j, k)}
           likely == {Root(rows, k) : k \in KnownBy(j, world.alike \cup world.text)}
           as(kind, S) == {[kind |-> kind, ref |-> k] : k \in S}
           Base(k) == k \in Offers /\ Stored(rows[k]) /\ rows[k].canon = 0
<1>1. Sound(rows) BY DEF Inv
<1>2. \A k \in Offers : Stored(rows[k]) => Base(Root(rows, k)) BY <1>1, RootEnds
<1>3. \A f : KnownBy(j, f) \subseteq Offers /\ \A k \in KnownBy(j, f) : Stored(rows[k])
  BY DEF KnownBy
<1>4. \A k \in direct : Base(k)
  <2>1. CASE url = {} BY <2>1
  <2>2. CASE url # {}
    <3>1. url \subseteq Offers /\ \A k \in url : Stored(rows[k]) BY <1>3
    <3> HIDE DEF url, Base
    <3>2. FirstKnown(url) \in url BY <2>2, <3>1, FirstKnownIn
    <3> QED BY <1>2, <3>1, <3>2
  <2> QED BY <2>1, <2>2
<1>5. \A k \in copies : Base(k)
  <2>1. \A i \in TextOf(j) \ {j} : i \in Offers BY DEF TextOf
  <2> HIDE DEF Base
  <2> QED BY <1>2, <2>1
<1>6. \A k \in likely : Base(k)
  <2> HIDE DEF Base
  <2> QED BY <1>2, <1>3
<1>7. ASSUME ~Stored(rows[j]), NEW k \in Offers, AutoMatch(rows, j, k)
      PROVE  {j, k} \in world.id \/ Active(rows[k])
  <2>1. ~rows[j].archived BY <1>1, <1>7, RowOf, NoRowRow
  <2> QED BY <1>7, <2>1 DEF AutoMatch, IdentitySafe, CopySafe
<1> DEFINE Good == /\ m.kind \in Kinds /\ m.ref \in {0} \cup Offers
                   /\ m.kind \in {"alias", "review", "new"} => ~Stored(rows[j])
                   /\ m.kind \in {"alias", "review"} => Base(m.ref)
                   /\ m.kind = "alias" => {j, m.ref} \in world.id \/ Active(rows[m.ref])
<1>8. m \in IF Stored(rows[j]) THEN as("known", {j})
            ELSE IF sure # {} THEN as("alias", sure)
            ELSE IF proven # {} THEN as("alias", proven)
            ELSE IF direct # {} THEN as("review", direct)
            ELSE IF likely = {} THEN as("new", {0})
            ELSE {[kind |-> IF AutoMatch(rows, j, k) THEN "alias" ELSE "review",
                   ref |-> k] : k \in likely}
  BY DEF Recognised
<1>9. \A S \in {sure, proven} : \A k \in S : Base(k) /\ AutoMatch(rows, j, k) BY <1>4, <1>5
<1> HIDE DEF direct, sure, proven, copies, likely, url
<1>10. CASE Stored(rows[j])
  <2>1. m.kind = "known" /\ m.ref = j BY <1>8, <1>10
  <2> QED BY <1>10, <2>1 DEF Kinds
<1>11. CASE ~Stored(rows[j])
  <2>1. \/ \E k \in sure \cup proven : m = [kind |-> "alias", ref |-> k]
        \/ \E k \in direct : m = [kind |-> "review", ref |-> k]
        \/ m = [kind |-> "new", ref |-> 0]
        \/ \E k \in likely : m = [kind |-> IF AutoMatch(rows, j, k) THEN "alias" ELSE "review",
                                  ref |-> k]
    BY <1>8, <1>11
  <2>2. ASSUME NEW k \in sure \cup proven, m = [kind |-> "alias", ref |-> k] PROVE Good
    <3>1. m.kind = "alias" /\ m.ref = k BY <2>2
    <3>2. Base(k) /\ AutoMatch(rows, j, k) BY <1>9
    <3> QED BY <3>1, <3>2, <1>7, <1>11 DEF Kinds
  <2>3. ASSUME NEW k \in direct, m = [kind |-> "review", ref |-> k] PROVE Good
    <3>1. m.kind = "review" /\ m.ref = k BY <2>3
    <3> QED BY <3>1, <1>4, <1>11 DEF Kinds
  <2>4. ASSUME m = [kind |-> "new", ref |-> 0] PROVE Good
    <3>1. m.kind = "new" /\ m.ref = 0 BY <2>4
    <3> QED BY <3>1, <1>11 DEF Kinds
  <2>5. ASSUME NEW k \in likely,
               m = [kind |-> IF AutoMatch(rows, j, k) THEN "alias" ELSE "review", ref |-> k]
        PROVE  Good
    <3>1. m.kind \in {"alias", "review"} /\ m.ref = k BY <2>5
    <3>2. m.kind = "alias" => AutoMatch(rows, j, k) BY <2>5
    <3> QED BY <3>1, <3>2, <1>6, <1>7, <1>11 DEF Kinds
  <2> QED BY <2>1, <2>2, <2>3, <2>4, <2>5
<1> QED BY <1>10, <1>11

LEMMA MatchStep ==
    ASSUME ConstantsOK, Inv, NEW j \in Offers, Match(j)
    PROVE  Effects
<1>1. PICK m \in Recognised(j) :
         LET deps == IF m.ref = 0 THEN {} ELSE Component(rows, m.ref)
         IN  ingest' = [ingest EXCEPT
                !.pc = "writing", !.stale = FALSE,
                !.plan = [offer |-> j, kind |-> m.kind, ref |-> m.ref, deps |-> deps,
                          apps |-> [k \in deps |-> rows[k].app]]]
  BY DEF Match
<1>2. rows' = rows /\ world' = world /\ task' = task BY DEF Match
<1>3. /\ m.kind \in Kinds /\ m.ref \in {0} \cup Offers
      /\ m.kind \in {"alias", "review", "new"} => ~Stored(rows[j])
      /\ m.kind \in {"alias", "review"} =>
            m.ref \in Offers /\ Stored(rows[m.ref]) /\ rows[m.ref].canon = 0
      /\ m.kind = "alias" => {j, m.ref} \in world.id \/ Active(rows[m.ref])
  BY RecognisedOK
<1> DEFINE deps == IF m.ref = 0 THEN {} ELSE Component(rows, m.ref)
           apps == [k \in deps |-> rows[k].app]
           plan == [offer |-> j, kind |-> m.kind, ref |-> m.ref, deps |-> deps, apps |-> apps]
<1>4. deps \subseteq Offers /\ (m.ref \in Offers => m.ref \in deps)
  <2>1. 0 \notin Offers BY ConstantsOK DEF Offers, ConstantsOK
  <2> QED BY <1>3, <2>1, ComponentOf
<1>5. ingest' = [ingest EXCEPT !.pc = "writing", !.stale = FALSE, !.plan = plan] BY <1>1
<1> HIDE DEF deps
<1>6. apps \in {<<>>} \cup UNION {[S -> Dossiers] : S \in SUBSET Offers}
  <2>1. \A k \in deps : rows[k].app \in Dossiers BY <1>4, RowOf DEF Inv, Row
  <2>2. apps \in [deps -> Dossiers] BY <2>1
  <2> HIDE DEF apps
  <2> QED BY <2>2, <1>4
<1> HIDE DEF apps
<1>7. /\ plan \in Plans /\ plan.offer = j /\ plan.kind = m.kind /\ plan.ref = m.ref
      /\ plan.deps = deps
  BY <1>3, <1>4, <1>6 DEF Plans
<1> HIDE DEF plan
<1>8. ingest \in Ingests BY DEF Inv
<1>9. ingest' \in Ingests /\ ingest'.plan = plan BY <1>5, <1>7, <1>8 DEF Ingests
<1>10. Matched(rows, plan, world) BY <1>3, <1>4, <1>7 DEF Matched
<1>11. PlanHolds' BY <1>2, <1>7, <1>9, <1>10 DEF PlanHolds
<1> QED BY <1>2, <1>9, <1>11, LookStep

\* after an offer the collection goes on to the next one
LEMMA OnwardOK ==
    ASSUME ingest \in Ingests, NEW S, S \subseteq Offers
    PROVE  Onward(S) \in Ingests /\ Onward(S).pc = "matching"
BY DEF Onward, Ingests, NoPlan, Plans, Kinds

LEMMA LookingSteps ==
    ASSUME ConstantsOK, Inv,
           StartCollection \/ SkipBusy \/ Rematch \/ CloseCollection \/ Quit \/ UNCHANGED vars
    PROVE  Effects
<1>1. Sound(rows) /\ rows \in Tables /\ ingest \in Ingests BY DEF Inv, Sound
<1>2. NoIngest \in Ingests /\ NoIngest.pc = "idle"
  BY DEF NoIngest, Ingests, NoPlan, Plans, Kinds
<1>3. CASE StartCollection
  <2> DEFINE settled == Reviewed(rows) = rows
  <2>1. PICK S \in SUBSET Offers :
           ingest' = [NoIngest EXCEPT !.todo = S,
                         !.pc = IF settled THEN "matching" ELSE "reviewing",
                         !.seen = IF settled THEN <<>> ELSE rows]
    BY <1>3 DEF StartCollection
  <2>2. rows' = rows /\ world' = world /\ task' = task BY <1>3 DEF StartCollection
  <2> HIDE DEF settled
  <2>3. ingest' \in Ingests /\ ingest'.pc # "writing" BY <1>1, <1>2, <2>1 DEF Ingests
  <2>4. PlanHolds' BY <2>3 DEF PlanHolds
  <2> QED BY <2>2, <2>3, <2>4, LookStep
<1>4. CASE SkipBusy \/ Rematch
  <2>1. PICK S \in SUBSET Offers : ingest' = Onward(S)
    BY <1>1, <1>4 DEF SkipBusy, Rematch, Ingests
  <2>2. rows' = rows /\ world' = world /\ task' = task BY <1>4 DEF SkipBusy, Rematch
  <2>3. ingest' \in Ingests /\ ingest'.pc = "matching" BY <1>1, <2>1, OnwardOK
  <2>4. PlanHolds' BY <2>3 DEF PlanHolds
  <2> QED BY <2>2, <2>3, <2>4, LookStep
<1>5. CASE CloseCollection
  <2>1. \/ ingest' = [ingest EXCEPT !.pc = "closing", !.seen = rows]
        \/ ingest' = [ingest EXCEPT !.pc = "filtering"]
    BY <1>5 DEF CloseCollection
  <2>2. rows' = rows /\ world' = world /\ task' = task BY <1>5 DEF CloseCollection
  <2>3. ingest' \in Ingests /\ ingest'.pc # "writing" BY <1>1, <2>1 DEF Ingests
  <2>4. PlanHolds' BY <2>3 DEF PlanHolds
  <2> QED BY <2>2, <2>3, <2>4, LookStep
<1>6. CASE Quit
  <2>1. rows' = rows /\ world' = world /\ task' = NoTask /\ ingest' = NoIngest BY <1>6 DEF Quit
  <2>2. PlanHolds' BY <1>2, <2>1 DEF PlanHolds
  <2> QED BY <1>2, <2>1, <2>2, LookStep
<1>7. CASE UNCHANGED vars
  <2>1. rows' = rows /\ world' = world /\ task' = task /\ ingest' = ingest BY <1>7 DEF vars
  <2>2. PlanHolds' BY <2>1 DEF PlanHolds, Inv
  <2> QED BY <1>1, <2>1, <2>2, LookStep
<1> QED BY <1>3, <1>4, <1>5, <1>6, <1>7

\* An offer enters the table, linked to y if at all: y is not in the group of
\* the task, or the whole group of y would be.
LEMMA StoreEffects ==
    ASSUME ConstantsOK, Inv, NEW j \in Offers, ~Stored(rows[j]),
           NEW o \in Row, Stored(o), Fit(o), o.app = "none",
           NEW y, {o.canon, o.possible} \subseteq {0, y},
           o.canon # 0 \/ o.possible # 0
              => y \in Offers /\ Stored(rows[y]) /\ rows[y].canon = 0 /\ Free({y}),
           o.canon # 0 => {j, y} \in world.id \/ Active(rows[y]),
           rows' = [rows EXCEPT ![j] = o], world' = world, task' = task,
           ingest' \in Ingests, ingest'.pc # "writing"
    PROVE  Effects
<1>1. Sound(rows) /\ rows \in Tables BY DEF Inv, Sound
<1>2. \A k \in Offers : rows'[k] = IF k = j THEN o ELSE rows[k] BY <1>1 DEF Tables
<1>3. rows[j] = NoRow BY <1>1, RowOf
<1>4. Sound(rows')
  <2>1. o.canon # 0 \/ o.possible # 0 => y # j OBVIOUS
  <2>2. Sound([rows EXCEPT ![j] = o]) BY <1>1, <2>1, StoreSound
  <2> QED BY <2>2
<1>5. ASSUME task.op # "none"
      PROVE  /\ \A k \in task.held : k \in Offers /\ k # j /\ rows'[k] = rows[k] /\ Stored(rows[k])
             /\ Component(rows', task.job) \subseteq Component(rows, task.job)
  <2>1. /\ task.job \in Offers /\ task.job \in task.held /\ task.held \subseteq Offers
        /\ \A k \in task.held : Stored(rows[k])
    BY <1>5 DEF Inv, TaskHolds, Tasks
  <2>2. \A k \in task.held : k \in Offers /\ k # j /\ rows'[k] = rows[k] /\ Stored(rows[k])
    BY <1>2, <2>1
  <2>3. j \notin Component(rows, task.job) BY <1>1, <2>1, StoredGroup
  <2>4. o.canon # 0 \/ o.possible # 0 => y \notin Component(rows, task.job)
    <3> SUFFICES ASSUME o.canon # 0 \/ o.possible # 0, y \in Component(rows, task.job)
                 PROVE  FALSE
        OBVIOUS
    <3>1. y \in Offers /\ y \in Component(rows, y) BY ComponentOf
    <3>2. Component(rows, y) = Component(rows, task.job) BY <2>1, <3>1, GroupsDisjoint
    <3>3. task.job \in Component(rows, y) BY <2>1, <3>2, ComponentOf
    <3>4. Component(rows, y) \cap task.held = {} BY <2>1 DEF Free
    <3> QED BY <2>1, <3>3, <3>4
  <2> DEFINE D == IF o.canon # 0 \/ o.possible # 0 THEN {j, y} ELSE {j}
  <2>5. Component(rows, task.job) \cap D = {} BY <2>3, <2>4
  <2>6. \A k \in Offers :
           \/ rows'[k].canon = rows[k].canon /\ rows'[k].possible = rows[k].possible
           \/ k \in D /\ {rows'[k].canon, rows'[k].possible} \subseteq D \cup {0, rows[k].possible}
    BY <1>2
  <2> HIDE DEF D
  <2>7. Component(rows', task.job) \subseteq Component(rows, task.job)
    BY ONLY ConstantsOK, <2>1, <2>5, <2>6, ChangedApart
  <2> QED BY <2>2, <2>7
<1>6. SparesStep
  <2>1. ~Worked(rows[j]) BY <1>3, NoRowRow DEF Worked
  <2> QED BY <1>2, <2>1 DEF SparesStep
<1>7. VisibleStep
  <2> SUFFICES ASSUME NEW k \in Offers, rows[k].canon = 0, rows'[k].canon # 0
               PROVE  {k, rows'[k].canon} \in world.id \/ Active(rows'[rows'[k].canon])
      BY DEF VisibleStep
  <2>1. k = j /\ rows'[k].canon = y /\ o.canon # 0 BY <1>2
  <2>2. y \in Offers /\ y # j BY <2>1
  <2>3. rows'[y] = rows[y] BY <1>2, <2>2
  <2> QED BY <2>1, <2>3
<1>8. GroupStep BY <1>5 DEF GroupStep
<1>9. TaskHolds' BY <1>5 DEF TaskHolds, Inv
<1>10. PlanHolds' BY DEF PlanHolds
<1>11. Inv' BY <1>4, <1>9, <1>10 DEF Inv
<1> QED BY <1>6, <1>7, <1>8, <1>11 DEF Effects

LEMMA StoreStep ==
    ASSUME ConstantsOK, Inv, Store
    PROVE  Effects
<1> DEFINE j == ingest.plan.offer
           ref == ingest.plan.ref
           done == Onward(ingest.todo \ {j})
           kept == [done EXCEPT !.kept = @ \cup {j}]
           asked == [kept EXCEPT !.reviews = @ \cup {j}]
<1>1. /\ ingest.pc = "writing" /\ Free(ingest.plan.deps) /\ ~Outdated
      /\ world' = world /\ task' = task
  BY DEF Store
<1>2. j \in Offers /\ Matched(rows, ingest.plan, world) BY <1>1 DEF Inv, PlanHolds, Outdated
<1>3. \A s \in {done, kept, asked} : s \in Ingests /\ s.pc = "matching"
  <2>1. ingest \in Ingests BY DEF Inv
  <2>2. ingest.todo \ {j} \subseteq Offers BY <2>1 DEF Ingests
  <2>3. done \in Ingests /\ done.pc = "matching" BY <2>1, <2>2, OnwardOK
  <2> HIDE DEF done, j
  <2>4. kept \in Ingests /\ kept.pc = "matching" BY <1>2, <2>3 DEF Ingests
  <2> HIDE DEF kept
  <2>5. asked \in Ingests /\ asked.pc = "matching" BY <1>2, <2>4 DEF Ingests
  <2> QED BY <2>3, <2>4, <2>5
<1>4. /\ NewOffer \in Row /\ NewOffer.status = "scraped" /\ NewOffer.canon = 0
      /\ NewOffer.possible = 0 /\ NewOffer.review = "none" /\ NewOffer.app = "none"
  BY DEF NewOffer, NoRow, Row, Dossiers
<1>5. 0 \notin Offers BY ConstantsOK DEF Offers, ConstantsOK
<1>6. \/ ingest.plan.kind = "known" /\ rows' = rows /\ ingest' \in {done, kept, asked}
      \/ /\ ingest.plan.kind = "alias" /\ ingest' = done
         /\ rows' = [rows EXCEPT ![j] = AliasOf(NewOffer, ref)]
      \/ /\ ingest.plan.kind = "review" /\ ingest' = asked
         /\ rows' = [rows EXCEPT ![j] = [NewOffer EXCEPT !.possible = ref, !.review = "pending"]]
      \/ /\ ingest.plan.kind = "new" /\ ingest' = kept
         /\ rows' = [rows EXCEPT ![j] = NewOffer]
  BY DEF Store
<1>7. ingest.plan.kind \in {"alias", "review"} => Free({ref}) /\ ref \in Offers
  BY <1>1, <1>2 DEF Free, Matched
<1> HIDE DEF done, kept, asked
<1>8. CASE ingest.plan.kind = "known" /\ rows' = rows /\ ingest' \in {done, kept, asked}
  <2>1. ingest' \in Ingests /\ ingest'.pc = "matching" BY <1>3, <1>8
  <2>2. PlanHolds' BY <2>1 DEF PlanHolds
  <2> QED BY <1>1, <1>8, <2>1, <2>2, LookStep
<1>9. CASE /\ ingest.plan.kind = "alias" /\ ingest' = done
           /\ rows' = [rows EXCEPT ![j] = AliasOf(NewOffer, ref)]
  <2> DEFINE o == AliasOf(NewOffer, ref)
  <2>1. /\ ~Stored(rows[j]) /\ ref \in Offers /\ Stored(rows[ref]) /\ rows[ref].canon = 0
        /\ {j, ref} \in world.id \/ Active(rows[ref])
    BY <1>2, <1>9 DEF Matched
  <2>2. /\ o \in Row /\ o.status = "archived" /\ o.archived /\ o.canon = ref
        /\ o.possible = 0 /\ o.review = "confirmed" /\ o.app = "none"
    BY <1>4, <2>1, AliasRow
  <2>3. rows' = [rows EXCEPT ![j] = o] BY <1>9
  <2> HIDE DEF o, j, ref
  <2>4. Stored(o) /\ Fit(o) BY <2>2 DEF Stored, Fit, Pending, Live
  <2>5. ingest' \in Ingests /\ ingest'.pc # "writing" BY <1>3, <1>9
  <2>6. Free({ref}) BY <1>7, <1>9
  <2>7. {o.canon, o.possible} \subseteq {0, ref} BY <2>2
  <2> QED BY <1>1, <1>2, <2>1, <2>2, <2>3, <2>4, <2>5, <2>6, <2>7, StoreEffects
<1>10. CASE /\ ingest.plan.kind = "review" /\ ingest' = asked
            /\ rows' = [rows EXCEPT ![j] = [NewOffer EXCEPT !.possible = ref, !.review = "pending"]]
  <2> DEFINE o == [NewOffer EXCEPT !.possible = ref, !.review = "pending"]
  <2>1. ~Stored(rows[j]) /\ ref \in Offers /\ Stored(rows[ref]) /\ rows[ref].canon = 0
    BY <1>2, <1>10 DEF Matched
  <2>2. /\ o \in Row /\ o.status = "scraped" /\ o.canon = 0
        /\ o.possible = ref /\ o.review = "pending" /\ o.app = "none"
    BY <1>4, <2>1 DEF Row
  <2>3. rows' = [rows EXCEPT ![j] = o] BY <1>10
  <2> HIDE DEF o, j, ref
  <2>4. Stored(o) /\ Fit(o) BY <1>5, <2>1, <2>2 DEF Stored, Fit, Pending
  <2>5. ingest' \in Ingests /\ ingest'.pc # "writing" BY <1>3, <1>10
  <2>6. Free({ref}) BY <1>7, <1>10
  <2>7. {o.canon, o.possible} \subseteq {0, ref} BY <2>2
  <2> QED BY <1>1, <1>2, <2>1, <2>2, <2>3, <2>4, <2>5, <2>6, <2>7, StoreEffects
<1>11. CASE /\ ingest.plan.kind = "new" /\ ingest' = kept
            /\ rows' = [rows EXCEPT ![j] = NewOffer]
  <2> DEFINE o == NewOffer
  <2>1. ~Stored(rows[j]) BY <1>2, <1>11 DEF Matched
  <2>2. rows' = [rows EXCEPT ![j] = o] BY <1>11
  <2>3. o \in Row /\ o.canon = 0 /\ o.possible = 0 /\ o.app = "none" BY <1>4
  <2>4. Stored(o) /\ Fit(o) BY <1>4 DEF Stored, Fit, Pending
  <2> HIDE DEF o, j
  <2>5. ingest' \in Ingests /\ ingest'.pc # "writing" BY <1>3, <1>11
  <2>6. {o.canon, o.possible} \subseteq {0, 0} BY <2>3
  <2> QED BY <1>1, <1>2, <2>1, <2>2, <2>3, <2>4, <2>5, <2>6, StoreEffects
<1> QED BY <1>6, <1>8, <1>9, <1>10, <1>11

\* a review is written only when nothing changed since it was planned and what
\* it changes is not held by a task
LEMMA ApplyReviewsStep ==
    ASSUME ConstantsOK, Inv, ApplyReviews
    PROVE  Effects
<1> DEFINE plan == Reviewed(ingest.seen)
           touched == {k \in Offers : plan[k] # ingest.seen[k]}
<1>1. /\ ingest.pc \in {"reviewing", "closing"} /\ world' = world /\ task' = task
      /\ rows' = IF Free(touched) /\ rows = ingest.seen THEN plan ELSE rows
      /\ ingest' = [ingest EXCEPT
            !.seen = <<>>,
            !.pc = IF @ = "reviewing" THEN "matching" ELSE "filtering"]
  BY DEF ApplyReviews
<1>2. Sound(rows) /\ ingest \in Ingests /\ world \in Worlds BY DEF Inv
<1>3. ingest' \in Ingests /\ ingest'.pc \in {"matching", "filtering"} BY <1>1, <1>2 DEF Ingests
<1>4. PlanHolds' BY <1>3 DEF PlanHolds
<1>5. CASE rows' = rows BY <1>1, <1>3, <1>4, <1>5, LookStep
<1>6. CASE rows' # rows
  <2> DEFINE s == Reviewed(rows)
  <2>1. rows' = s /\ Free({k \in Offers : s[k] # rows[k]}) BY <1>1, <1>6
  <2>2. Sound(s) /\ Spared(rows, s) /\ Visible(rows, s) BY <1>2, ReviewedSound
  <2> HIDE DEF s
  <2>3. ASSUME task.op # "none"
        PROVE  \A k \in task.held : k \in Offers /\ s[k] = rows[k] /\ Stored(rows[k])
    <3>1. task.held \subseteq Offers /\ \A k \in task.held : Stored(rows[k])
      BY <2>3 DEF Inv, TaskHolds, Tasks
    <3>2. ASSUME NEW k \in task.held, s[k] # rows[k] PROVE FALSE
      <4>1. k \in Offers /\ Component(rows, k) \cap task.held = {} BY <2>1, <3>1, <3>2 DEF Free
      <4>2. k \in Component(rows, k) BY <4>1, ComponentOf
      <4> QED BY <3>2, <4>1, <4>2
    <3> QED BY <3>1, <3>2
  <2>4. TaskHolds' BY <1>1, <2>1, <2>3 DEF TaskHolds, Inv
  <2>5. GroupStep BY <1>1, <1>3, <2>1, <2>3 DEF GroupStep
  <2>6. SparesStep BY <2>1, <2>2 DEF SparesStep, Spared
  <2>7. VisibleStep
    <3> SUFFICES ASSUME NEW j \in Offers, ~rows[j].archived, rows[j].canon = 0, s[j].canon # 0
                 PROVE  {j, s[j].canon} \in world.id \/ Active(s[s[j].canon])
        BY <2>1 DEF VisibleStep
    <3>1. Active(rows[j]) BY <2>2 DEF Spared, Active
    <3> QED BY <2>2, <3>1 DEF Visible
  <2>8. Inv' BY <1>1, <1>2, <1>3, <1>4, <2>1, <2>2, <2>4 DEF Inv
  <2> QED BY <2>5, <2>6, <2>7, <2>8 DEF Effects
<1> QED BY <1>5, <1>6

LEMMA FilterStep ==
    ASSUME ConstantsOK, Inv, Filter
    PROVE  Effects
<1> DEFINE ids == ingest.kept \cup {rows[k].possible : k \in {m \in ingest.kept : Pending(rows[m])}}
           targets == {k \in ids \ {0} : /\ Active(rows[k]) /\ rows[k].canon = 0
                                         /\ ~rows[k].analyzed /\ ~rows[k].filtered}
<1>1. PICK rejected \in SUBSET {k \in targets : ~rows[k].rescued} :
         rows' = [k \in Offers |->
                    IF k \in rejected THEN Archived(rows[k])
                    ELSE IF k \in targets THEN [rows[k] EXCEPT !.filtered = TRUE]
                    ELSE rows[k]]
  BY DEF Filter
<1>2. ingest' = NoIngest /\ world' = world /\ task' = task /\ ingest.pc = "filtering"
  BY DEF Filter
<1>3. \A k \in targets : Active(rows[k]) /\ rows[k].canon = 0 OBVIOUS
<1>4. rejected \subseteq targets OBVIOUS
<1> HIDE DEF targets
<1> DEFINE s == [k \in Offers |->
                   IF k \in rejected THEN Archived(rows[k])
                   ELSE IF k \in targets THEN [rows[k] EXCEPT !.filtered = TRUE]
                   ELSE rows[k]]
<1>5. rows' = s BY <1>1
<1>6. Sound(rows) BY DEF Inv
<1>7. Sound(s) /\ Plain(rows, s) BY <1>3, <1>4, <1>6, FilterSound
<1> HIDE DEF s
<1>8. ingest' \in Ingests /\ ingest'.pc = "idle"
  BY <1>2 DEF NoIngest, Ingests, NoPlan, Plans, Kinds
<1>9. PlanHolds' BY <1>8 DEF PlanHolds
<1>10. SparesStep /\ VisibleStep
  <2>1. ingest.pc \notin {"reviewing", "closing", "writing"} BY <1>2
  <2> QED BY <2>1, NotCollecting
<1>11. task \in Tasks BY DEF Inv
<1> QED BY <1>2, <1>5, <1>7, <1>8, <1>9, <1>10, <1>11, PlainEffects

-----------------------------------------------------------------------------
(* Every step.                                                             *)

LEMMA NextStep ==
    ASSUME ConstantsOK, Inv, [Next]_vars
    PROVE  Effects
<1>1. CASE \/ StartCollection \/ SkipBusy \/ Rematch \/ CloseCollection \/ Quit \/ UNCHANGED vars
  BY <1>1, LookingSteps
<1>2. CASE ApplyReviews BY <1>2, ApplyReviewsStep
<1>3. CASE Store BY <1>3, StoreStep
<1>4. CASE Filter BY <1>4, FilterStep
<1>5. CASE AnalysisDone \/ Reserve \/ Publish \/ Fail BY <1>5, TaskSteps
<1>6. ASSUME NEW j \in Offers,
             \/ Match(j) \/ Confirm(j) \/ Reject(j) \/ Rescue(j)
             \/ ArchiveJob(j) \/ ArchiveApplication(j) \/ MarkSent(j)
             \/ Shortlist(j) \/ Unlist(j) \/ Delete(j) \/ StartAnalysis(j) \/ StartCreation(j)
      PROVE  Effects
  <2>1. CASE Match(j) BY <2>1, MatchStep
  <2>2. CASE Confirm(j) BY <2>2, ConfirmStep
  <2>3. CASE Reject(j) BY <2>3, RejectStep
  <2>4. CASE Rescue(j) BY <2>4, RescueStep
  <2>5. CASE \/ ArchiveJob(j) \/ ArchiveApplication(j) \/ MarkSent(j)
             \/ Shortlist(j) \/ Unlist(j)
    BY <2>5, SimpleDecisions
  <2>6. CASE Delete(j) BY <2>6, DeleteStep
  <2>7. CASE StartAnalysis(j) \/ StartCreation(j) BY <2>7, StartSteps
  <2> QED BY <1>6, <2>1, <2>2, <2>3, <2>4, <2>5, <2>6, <2>7
<1> QED BY <1>1, <1>2, <1>3, <1>4, <1>5, <1>6 DEF Next

\* Every reachable state keeps its links in order, plans that no change has
\* outdated and tasks whose groups are in the database.
THEOREM InvHolds == Spec => []Inv
<1>1. Init => Inv BY ConstantsOK, InitInv
<1>2. Inv /\ [Next]_vars => Inv' BY ConstantsOK, NextStep DEF Effects
<1> QED BY <1>1, <1>2, PTL DEF Spec

\* every offer, collection and task stays of its kind
THEOREM TypeCorrect == Spec => []TypeOK
<1>1. Inv => TypeOK BY DEF Inv, TypeOK, Sound, Tables, Ingests, Tasks
<1> QED BY <1>1, InvHolds, PTL

\* Links end, whatever decisions, reviews and restorations follow each other: an
\* alias is archived and stands for a stored offer that stands for itself; an
\* offer under review is no alias and its reference is another stored offer.
THEOREM LinksEndHold == Spec => []LinksEnd
<1>1. ASSUME Inv, NEW j \in Offers
      PROVE  /\ rows[j].canon # 0 => /\ rows[Root(rows, j)].canon = 0
                                     /\ Stored(rows[Root(rows, j)])
                                     /\ rows[j].archived
             /\ Pending(rows[j]) => /\ rows[j].canon = 0 /\ rows[j].possible \notin {0, j}
                                    /\ Stored(rows[rows[j].possible])
  <2>1. Sound(rows) /\ rows \in Tables /\ Points(rows) BY <1>1 DEF Inv, Sound
  <2>2. rows[Root(rows, j)].canon = 0 /\ (Stored(rows[j]) => Stored(rows[Root(rows, j)]))
    BY ConstantsOK, <2>1, RootEnds
  <2>3. rows[j].canon # 0 => Stored(rows[j]) /\ rows[j].archived
    BY <2>1, NoRowRow DEF Points, Fit
  <2>4. Pending(rows[j]) => /\ rows[j].canon = 0 /\ rows[j].possible \in Offers
                            /\ rows[j].possible # j /\ Stored(rows[rows[j].possible])
    BY <2>1, PendingRow
  <2>5. 0 \notin Offers BY ConstantsOK DEF Offers, ConstantsOK
  <2> QED BY <2>2, <2>3, <2>4, <2>5
<1>2. Inv => LinksEnd BY <1>1 DEF LinksEnd
<1> QED BY <1>2, InvHolds, PTL

\* A dossier in use belongs to the offer its group stands for, whoever moves it,
\* links it or restores it.
THEOREM DossiersAtRoots == Spec => []DossierAtRoot
<1>1. Inv => DossierAtRoot BY RowOf DEF Inv, DossierAtRoot
<1> QED BY <1>1, InvHolds, PTL

\* Storing offers and reviewing their links archive and hide none on which work
\* was done.
THEOREM CollectionsSpareWork == Spec => CollectionSparesWork
<1>1. Inv /\ [Next]_vars => SparesStep BY ConstantsOK, NextStep DEF Effects
<1>2. SparesStep => [Collecting => \A k \in Offers : Worked(rows[k]) =>
                        /\ rows'[k].status = rows[k].status
                        /\ rows'[k].canon = rows[k].canon
                        /\ rows'[k].app = rows[k].app]_vars
  BY DEF SparesStep
<1> QED BY <1>1, <1>2, InvHolds, PTL DEF Spec, CollectionSparesWork

\* Without a common identity an active offer, or one just found, becomes the alias
\* of an active one only.
THEOREM CopiesVisible == Spec => CopiesStayVisible
<1>1. Inv /\ [Next]_vars => VisibleStep BY ConstantsOK, NextStep DEF Effects
<1>2. VisibleStep =>
        [\A j \in Offers :
            LET k == rows'[j].canon
            IN  Collecting /\ ~rows[j].archived /\ rows[j].canon = 0 /\ k # 0
                  => {j, k} \in world.id \/ Active(rows'[k])]_vars
  BY DEF VisibleStep
<1> QED BY <1>1, <1>2, InvHolds, PTL DEF Spec, CopiesStayVisible

\* What a task has reserved stays in the database with the links it had, in every
\* step, and no step but a review adds to the group of its offer.
THEOREM GroupsSettled == Spec => GroupSettled
<1>1. Inv /\ [Next]_vars => GroupStep BY ConstantsOK, NextStep DEF Effects
<1>2. GroupStep =>
        [task.op # "none" =>
            /\ \A k \in task.held : Stored(rows'[k]) /\ Links(rows'[k]) = Links(rows[k])
            /\ \/ ingest.pc \in {"reviewing", "closing"} /\ ingest'.pc # ingest.pc
               \/ Component(rows', task.job) \subseteq Component(rows, task.job)]_vars
  BY DEF GroupStep
<1> QED BY <1>1, <1>2, InvHolds, PTL DEF Spec, GroupSettled

=============================================================================
