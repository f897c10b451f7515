----------------------- MODULE GenerationRuns_proof -----------------------
(***************************************************************************)
(* Theorems about GenerationRuns, for every number of offers, runs, calls, *)
(* waves, edits, faults and retries.                                       *)
(***************************************************************************)
EXTENDS GenerationRuns, WellFoundedInduction, TLAPS

Journals == [Runs -> [Jobs -> [Positions -> CallRecs]]]
Items == [Runs -> [Jobs -> ItemRecs]]
Pcs == {"idle", "sync", "waves", "upload", "commit", "post", "posted", "refused",
        "unknown", "read", "items", "reserved", "replay", "intent", "answer",
        "fresh", "send", "finish"}

(* The inductive invariant.                                                *)

ItemPcs == {"items", "reserved", "replay", "intent", "answer"}
CallPcs == {"intent", "answer"}
WavePcs == {"upload", "commit", "post", "posted", "refused", "unknown"}
TransportPcs == WavePcs \cup {"waves"}
BatchPcs == TransportPcs \cup {"sync", "fresh", "send"}

\* the items a follow-up still has to execute are unfinished, and it holds one
\* while it replays; a call is about to be made for a missing answer
HandOf(r) ==
    /\ co[r].pc \in ItemPcs => co[r].jobs \subseteq Remaining(r)
    /\ co[r].pc \in ItemPcs \ {"items"} => co[r].jobs # {}
    /\ co[r].pc \in CallPcs => run[r].mode = "immediate" /\ Missing(r, Current(r)) # {}
InHand == \A r \in Runs : HandOf(r)

\* the transport belongs to the run that holds its lock, and so do the waves it
\* follows there
TransportOf(r) ==
    /\ co[r].pc \in BatchPcs => run[r].mode = "batch" /\ co[r].phase # "none"
    /\ co[r].pc \in TransportPcs => lock = r
    /\ co[r].pc \in WavePcs => co[r].waves # {}
    /\ co[r].waves # {} => co[r].pc \in TransportPcs
    /\ \A w \in co[r].waves : wave[w].run = r
InTransport == \A r \in Runs : TransportOf(r)

\* a run that is not registered has nothing
Unborn ==
    \A r \in Runs : run[r].state = "none" =>
        /\ co[r].pc = "idle" /\ r \notin due
        /\ \A j \in Jobs : item[r][j].state = "none"
        /\ \A w \in Waves : wave[w].run # r
        /\ \A j \in Jobs, k \in Positions : call[r][j][k].state # "completed"

\* an outstanding wave belongs to a batch run and has requests; they are linked to it and
\* have no answer, and one that failed is of an offer the run gave up
LinkOf(w) ==
    IF wave[w].run = NoRun THEN wave[w].calls = {}
    ELSE /\ run[wave[w].run].mode = "batch" /\ wave[w].calls # {}
         /\ \A j \in Jobs, k \in Positions : <<j, k>> \in wave[w].calls =>
              /\ call[wave[w].run][j][k].wave = w
              /\ call[wave[w].run][j][k].state # "completed"
              /\ call[wave[w].run][j][k].state = "failed" =>
                    item[wave[w].run][j].state \in TerminalItemStates
Linked == \A w \in Waves : LinkOf(w)

IInv == TypeOK /\ InHand /\ InTransport /\ Unborn /\ Linked /\ OneOwner /\ OneDossier

----------------------------------------------------------------------------
(* Types of what the actions write.                                        *)

\* each way the follow-up of a run is written keeps its type
LEMMA CoWriteType ==
    ASSUME TypeOK, NEW r \in Runs
    PROVE  /\ \A p \in Pcs : Go(r, p) => co' \in [Runs -> CoRecs]
           /\ NextItem(r) => co' \in [Runs -> CoRecs]
           /\ \A went \in BOOLEAN : NextWave(r, went) => co' \in [Runs -> CoRecs]
           /\ \A ws \in SUBSET Waves : Reach(r, ws) => co' \in [Runs -> CoRecs] /\ lock' \in Runs
           /\ \A p \in Pcs, f \in {"none", "first", "send", "last"} :
                 [co EXCEPT ![r].pc = p, ![r].phase = f] \in [Runs -> CoRecs]
<1>1. co \in [Runs -> CoRecs] /\ co[r] \in CoRecs BY DEF TypeOK
<1>2. ASSUME NEW p \in Pcs PROVE [co[r] EXCEPT !.pc = p] \in CoRecs
  BY <1>1 DEF CoRecs, Pcs
<1>3. \A p \in Pcs : Go(r, p) => co' \in [Runs -> CoRecs]
  BY <1>1, <1>2 DEF Go
<1>4. [co[r] EXCEPT !.pc = "items", !.jobs = co[r].jobs \ {Current(r)}] \in CoRecs
  BY <1>1 DEF CoRecs
<1>5. NextItem(r) => co' \in [Runs -> CoRecs]
  BY <1>1, <1>4 DEF NextItem
<1>6. ASSUME NEW ws \in SUBSET Waves
      PROVE  [co[r] EXCEPT !.pc = "waves", !.waves = ws] \in CoRecs
  BY <1>1 DEF CoRecs
<1>7. ASSUME NEW went \in BOOLEAN, NextWave(r, went) PROVE co' \in [Runs -> CoRecs]
  <2> DEFINE ws == IF co[r].phase = "send" /\ ~went THEN {} ELSE co[r].waves \ {Handled(r)}
  <2>1. ws \in SUBSET Waves BY <1>1 DEF CoRecs
  <2>2. co' = [co EXCEPT ![r] = [co[r] EXCEPT !.pc = "waves", !.waves = ws]]
    BY <1>7 DEF NextWave
  <2> QED BY <1>1, <1>6, <2>1, <2>2
<1>8. ASSUME NEW ws \in SUBSET Waves, Reach(r, ws)
      PROVE  co' \in [Runs -> CoRecs] /\ lock' \in Runs
  BY <1>1, <1>6, <1>8 DEF Reach
<1>9. ASSUME NEW p \in Pcs, NEW f \in {"none", "first", "send", "last"}
      PROVE  [co EXCEPT ![r].pc = p, ![r].phase = f] \in [Runs -> CoRecs]
  <2>1. [co[r] EXCEPT !.pc = p, !.phase = f] \in CoRecs BY <1>1 DEF CoRecs, Pcs
  <2> QED BY <1>1, <2>1
<1> QED BY <1>3, <1>5, <1>7, <1>8, <1>9

\* the idle follow-up, and the failed one
LEMMA IdleType ==
    ASSUME TypeOK
    PROVE  /\ IdleCo \in CoRecs
           /\ \A r \in Runs : [co EXCEPT ![r] = IdleCo] \in [Runs -> CoRecs]
           /\ \A r \in Runs : Freed(r) \in Runs \cup {NoRun}
           /\ \A r \in Runs, s \in RunStates : [run EXCEPT ![r].state = s] \in [Runs -> RunRecs]
<1>1. IdleCo \in CoRecs BY DEF IdleCo, CoRecs
<1>2. co \in [Runs -> CoRecs] BY DEF TypeOK
<1>3. \A r \in Runs : Freed(r) \in Runs \cup {NoRun} BY DEF TypeOK, Freed
<1>4. ASSUME NEW r \in Runs, NEW s \in RunStates
      PROVE  [run EXCEPT ![r].state = s] \in [Runs -> RunRecs]
  <2>1. run \in [Runs -> RunRecs] BY DEF TypeOK
  <2>2. [run[r] EXCEPT !.state = s] \in RunRecs BY <2>1 DEF RunRecs
  <2> QED BY <2>1, <2>2
<1> QED BY <1>1, <1>2, <1>3, <1>4

\* releasing reservations
LEMMA ReleaseType ==
    ASSUME TypeOK, NEW js, NEW its \in Items
    PROVE  OffersReleased(js) \in [Jobs -> OfferRecs] /\ Unlinked(its, js) \in Items
<1>1. ASSUME NEW j \in Jobs
      PROVE  (IF j \in AppReleased(js) THEN [offer[j] EXCEPT !.app = "none"] ELSE offer[j])
                \in OfferRecs
  <2>1. offer[j] \in OfferRecs BY DEF TypeOK
  <2>2. [offer[j] EXCEPT !.app = "none"] \in OfferRecs BY <2>1 DEF OfferRecs
  <2> QED BY <2>1, <2>2
<1>2. ASSUME NEW r \in Runs, NEW j \in Jobs
      PROVE  (IF j \in AppReleased(js) THEN [its[r][j] EXCEPT !.app = FALSE] ELSE its[r][j])
                \in ItemRecs
  <2>1. its[r][j] \in ItemRecs BY DEF Items
  <2>2. [its[r][j] EXCEPT !.app = FALSE] \in ItemRecs BY <2>1 DEF ItemRecs
  <2> QED BY <2>1, <2>2
<1> QED BY <1>1, <1>2 DEF OffersReleased, Unlinked, Items

\* calls of a wave, and the end of their link to it
LEMMA WaveCallsType ==
    ASSUME TypeOK, NEW r \in Runs, NEW w
    PROVE  /\ \A s \in CallStates : WaveCalls(r, w, s) \in Journals
           /\ \A c \in Journals : Unlink(c, r, w) \in Journals
<1>1. call \in Journals BY DEF TypeOK, Journals
<1>2. ASSUME NEW s \in CallStates PROVE WaveCalls(r, w, s) \in Journals
  <2> DEFINE f == [j \in Jobs |-> [k \in Positions |->
                    IF <<j, k>> \in wave[w].calls THEN [call[r][j][k] EXCEPT !.state = s]
                    ELSE call[r][j][k]]]
  <2>1. ASSUME NEW j \in Jobs, NEW k \in Positions
        PROVE  [call[r][j][k] EXCEPT !.state = s] \in CallRecs /\ call[r][j][k] \in CallRecs
    <3>1. call[r][j][k] \in CallRecs BY <1>1 DEF Journals
    <3>2. [call[r][j][k] EXCEPT !.state = s] \in CallRecs BY <3>1 DEF CallRecs
    <3> QED BY <3>1, <3>2
  <2>2. f \in [Jobs -> [Positions -> CallRecs]] BY <2>1
  <2>3. WaveCalls(r, w, s) = [call EXCEPT ![r] = f] BY DEF WaveCalls
  <2> HIDE DEF f
  <2> QED BY <1>1, <2>2, <2>3 DEF Journals
<1>3. ASSUME NEW c \in Journals PROVE Unlink(c, r, w) \in Journals
  <2> DEFINE f == [j \in Jobs |-> [k \in Positions |->
                    IF c[r][j][k].wave = w THEN [c[r][j][k] EXCEPT !.wave = 0]
                    ELSE c[r][j][k]]]
  <2>1. ASSUME NEW j \in Jobs, NEW k \in Positions
        PROVE  [c[r][j][k] EXCEPT !.wave = 0] \in CallRecs /\ c[r][j][k] \in CallRecs
    <3>1. c[r][j][k] \in CallRecs BY DEF Journals
    <3>2. [c[r][j][k] EXCEPT !.wave = 0] \in CallRecs BY <3>1 DEF CallRecs
    <3> QED BY <3>1, <3>2
  <2>2. f \in [Jobs -> [Positions -> CallRecs]] BY <2>1
  <2>3. Unlink(c, r, w) = [c EXCEPT ![r] = f] BY DEF Unlink
  <2> HIDE DEF f
  <2> QED BY <2>2, <2>3 DEF Journals
<1> QED BY <1>2, <1>3

\* the least of some offers or waves is one of them
LEMMA MinIn ==
    ASSUME NEW S, S \subseteq Nat, S # {}
    PROVE  Min(S) \in S
<1> DEFINE R == {ss \in Nat \X Nat : ss[1] < ss[2]}
<1>1. R = OpToRel(<, Nat) BY DEF OpToRel
<1>2. IsWellFoundedOn(R, Nat) BY NatLessThanWellFounded, <1>1
<1>3. \E x \in S : \A y \in S : ~ (<<y, x>> \in R) BY <1>2, WFMin
<1>4. PICK x \in S : \A y \in S : <<y, x>> \notin R BY <1>3
<1>5. ASSUME NEW y \in S PROVE x <= y
  <2>1. <<y, x>> \in Nat \X Nat => ~(y < x) BY <1>4
  <2> QED BY <2>1
<1> QED BY <1>5 DEF Min

\* writing one call, or one item
LEMMA WriteType ==
    ASSUME TypeOK, NEW r \in Runs, NEW j
    PROVE  /\ \A k : \A s \in CallStates : [call EXCEPT ![r][j][k].state = s] \in Journals
           /\ \A k : [call EXCEPT ![r][j][k].state = IF @ = "none" THEN "prepared" ELSE @] \in Journals
           /\ \A s \in ItemStates : [item EXCEPT ![r][j].state = s] \in Items
           /\ [item EXCEPT ![r][j].app = TRUE] \in Items
<1>1. call[r] \in [Jobs -> [Positions -> CallRecs]] /\ item[r] \in [Jobs -> ItemRecs]
      /\ call \in Journals /\ item \in Items
  BY DEF TypeOK, Journals, Items
<1>2. ASSUME NEW c \in CallRecs, NEW s \in CallStates PROVE [c EXCEPT !.state = s] \in CallRecs
  BY DEF CallRecs
<1>3. ASSUME NEW c \in CallRecs
      PROVE  [c EXCEPT !.state = IF @ = "none" THEN "prepared" ELSE @] \in CallRecs
  BY DEF CallRecs, CallStates
<1>4. ASSUME NEW i \in ItemRecs, NEW s \in ItemStates PROVE [i EXCEPT !.state = s] \in ItemRecs
  BY DEF ItemRecs
<1>5. ASSUME NEW i \in ItemRecs PROVE [i EXCEPT !.app = TRUE] \in ItemRecs
  BY DEF ItemRecs
<1>a. ASSUME NEW k, NEW c, j \in Jobs /\ k \in Positions => c \in CallRecs
      PROVE  [call EXCEPT ![r][j][k] = c] \in Journals
  <2>1. j \in Jobs => [call[r][j] EXCEPT ![k] = c] \in [Positions -> CallRecs]
    BY <1>1, <1>a
  <2>2. [call[r] EXCEPT ![j][k] = c] \in [Jobs -> [Positions -> CallRecs]]
    BY <1>1, <2>1
  <2> QED BY <1>1, <2>2 DEF Journals
<1>6. ASSUME NEW k, NEW s \in CallStates PROVE [call EXCEPT ![r][j][k].state = s] \in Journals
  <2>1. j \in Jobs /\ k \in Positions => [call[r][j][k] EXCEPT !.state = s] \in CallRecs
    BY <1>1, <1>2
  <2> QED BY <1>a, <2>1
<1>7. ASSUME NEW k
      PROVE  [call EXCEPT ![r][j][k].state = IF @ = "none" THEN "prepared" ELSE @] \in Journals
  <2>1. j \in Jobs /\ k \in Positions =>
           [call[r][j][k] EXCEPT !.state = IF @ = "none" THEN "prepared" ELSE @] \in CallRecs
    BY <1>1, <1>3
  <2> QED BY <1>a, <2>1
<1>8. ASSUME NEW s \in ItemStates PROVE [item EXCEPT ![r][j].state = s] \in Items
  BY <1>1, <1>4 DEF Items
<1>9. [item EXCEPT ![r][j].app = TRUE] \in Items
  BY <1>1, <1>5 DEF Items
<1> QED BY <1>6, <1>7, <1>8, <1>9

\* pruning the requests of changed offers
LEMMA PruneType ==
    ASSUME TypeOK, NEW r \in Runs, NEW w \in Waves, Prune(r, w)
    PROVE  wave' \in [Waves -> WaveRecs] /\ item' \in Items /\ call' \in Journals
<1>1. wave[w] \in WaveRecs /\ item \in Items /\ call \in Journals
  BY DEF TypeOK, Items, Journals
<1>2. Kept(r, w) \in SUBSET (Jobs \X Positions) BY <1>1 DEF Kept, WaveRecs
<1>3. [wave[w] EXCEPT !.calls = Kept(r, w)] \in WaveRecs BY <1>1, <1>2 DEF WaveRecs
<1>4. NoWave \in WaveRecs BY DEF NoWave, WaveRecs
<1>5. wave' \in [Waves -> WaveRecs]
  BY <1>3, <1>4 DEF Prune, TypeOK
<1> DEFINE out == wave[w].calls \ Kept(r, w)
           f == [j \in Jobs |-> IF j \in Eligible(r) /\ \E c \in out : c[1] = j
                                THEN [item[r][j] EXCEPT !.state = "stale"] ELSE item[r][j]]
           g == [j \in Jobs |-> [k \in Positions |->
                    IF <<j, k>> \in out THEN [call[r][j][k] EXCEPT !.state = "failed"]
                    ELSE call[r][j][k]]]
           calls == [call EXCEPT ![r] = g]
<1>6. ASSUME NEW j \in Jobs
      PROVE  [item[r][j] EXCEPT !.state = "stale"] \in ItemRecs /\ item[r][j] \in ItemRecs
  <2>1. item[r][j] \in ItemRecs BY <1>1 DEF Items
  <2>2. [item[r][j] EXCEPT !.state = "stale"] \in ItemRecs
    BY <2>1 DEF ItemRecs, ItemStates, TerminalItemStates
  <2> QED BY <2>1, <2>2
<1>7. f \in [Jobs -> ItemRecs] BY <1>6
<1>8. item' = [item EXCEPT ![r] = f] BY DEF Prune
<1>9. item' \in Items
  <2> HIDE DEF f
  <2> QED BY <1>1, <1>7, <1>8 DEF Items
<1>10. ASSUME NEW j \in Jobs, NEW k \in Positions
       PROVE  [call[r][j][k] EXCEPT !.state = "failed"] \in CallRecs /\ call[r][j][k] \in CallRecs
  <2>1. call[r][j][k] \in CallRecs BY <1>1 DEF Journals
  <2>2. [call[r][j][k] EXCEPT !.state = "failed"] \in CallRecs BY <2>1 DEF CallRecs, CallStates
  <2> QED BY <2>1, <2>2
<1>11. g \in [Jobs -> [Positions -> CallRecs]] BY <1>10
<1>12. calls \in Journals
  <2> HIDE DEF g
  <2> QED BY <1>1, <1>11 DEF Journals
<1>13. call' = IF Kept(r, w) = {} THEN Unlink(calls, r, w) ELSE calls BY DEF Prune
<1>14. call' \in Journals
  <2> HIDE DEF calls
  <2> QED BY <1>12, <1>13, WaveCallsType
<1> QED BY <1>5, <1>9, <1>14

\* giving up an item
LEMMA DiscardType ==
    ASSUME TypeOK, NEW r \in Runs, Discard(r)
    PROVE  /\ item' \in Items /\ call' \in Journals
           /\ offer' \in [Jobs -> OfferRecs] /\ co' \in [Runs -> CoRecs]
<1> DEFINE j == Current(r)
           js == IF item[r][j].app THEN {j} ELSE {}
           f == [k \in Positions |->
                  IF call[r][j][k].state = "prepared" THEN [call[r][j][k] EXCEPT !.state = "failed"]
                  ELSE call[r][j][k]]
<1>1. item \in Items /\ call \in Journals BY DEF TypeOK, Items, Journals
<1>2. Unlinked(item, js) \in Items /\ OffersReleased(js) \in [Jobs -> OfferRecs]
  BY <1>1, ReleaseType
<1>3. item' = [Unlinked(item, js) EXCEPT ![r][j].state = "stale"]
      /\ offer' = OffersReleased(js) /\ call' = [call EXCEPT ![r][j] = f] /\ NextItem(r)
  BY DEF Discard
<1>4. co' \in [Runs -> CoRecs] BY <1>3, CoWriteType
<1>5. ASSUME NEW its \in Items PROVE [its EXCEPT ![r][j].state = "stale"] \in Items
  <2>1. ASSUME NEW i \in ItemRecs PROVE [i EXCEPT !.state = "stale"] \in ItemRecs
    BY DEF ItemRecs, ItemStates, TerminalItemStates
  <2> QED BY <2>1 DEF Items
<1>6. j \in Jobs => f \in [Positions -> CallRecs]
  <2> SUFFICES ASSUME j \in Jobs, NEW k \in Positions
               PROVE  [call[r][j][k] EXCEPT !.state = "failed"] \in CallRecs
                      /\ call[r][j][k] \in CallRecs
    OBVIOUS
  <2>1. call[r][j][k] \in CallRecs BY <1>1 DEF Journals
  <2>2. [call[r][j][k] EXCEPT !.state = "failed"] \in CallRecs BY <2>1 DEF CallRecs, CallStates
  <2> QED BY <2>1, <2>2
<1>7. call' \in Journals
  <2> HIDE DEF f, j
  <2> QED BY <1>1, <1>3, <1>6 DEF Journals
<1> QED BY <1>2, <1>3, <1>4, <1>5, <1>7

\* a run at the end of its follow-up, and one its offers left
LEMMA SettledType ==
    ASSUME TypeOK, NEW r \in Runs
    PROVE  /\ \A b \in BOOLEAN : Settled(r, b) \in RunRecs
           /\ \A js : SourceAfter(r, js) \in RunRecs
<1>1. run[r] \in RunRecs BY DEF TypeOK
<1>2. ASSUME NEW s \in RunStates
      PROVE  /\ [run[r] EXCEPT !.state = s] \in RunRecs
             /\ [run[r] EXCEPT !.stop = TRUE, !.state = s] \in RunRecs
  BY <1>1 DEF RunRecs
<1>3. \A s \in {"active", "attention", "completed", "paused", "partial", "failed", "cancelled"} :
         s \in RunStates
  BY DEF RunStates, ReservedRunStates, FollowedRunStates
<1>4. run[r].state \in RunStates BY <1>1 DEF RunRecs
<1>5. ASSUME NEW b \in BOOLEAN PROVE Settled(r, b) \in RunRecs
  BY <1>1, <1>2, <1>3 DEF Settled
<1>6. ASSUME NEW js PROVE SourceAfter(r, js) \in RunRecs
  BY <1>1, <1>2, <1>3, <1>4 DEF SourceAfter
<1> QED BY <1>5, <1>6

\* the offer or the wave a follow-up has in hand
LEMMA HandFacts ==
    ASSUME IInv, NEW r \in Runs
    PROVE  /\ co[r].jobs # {} => Current(r) \in co[r].jobs /\ Current(r) \in Jobs
           /\ co[r].waves # {} => Handled(r) \in co[r].waves /\ Handled(r) \in Waves
           /\ co[r].pc \in ItemPcs \ {"items"} =>
                 Current(r) \in co[r].jobs /\ Current(r) \in Remaining(r)
           /\ co[r].pc \in WavePcs => Handled(r) \in Waves /\ wave[Handled(r)].run = r
<1>1. co[r].jobs \subseteq Jobs /\ co[r].waves \subseteq Waves
  BY DEF IInv, TypeOK, CoRecs
<1>2. Jobs \subseteq Nat /\ Waves \subseteq Nat
  BY GenerationAssumption DEF GenerationAssumption, Waves
<1>3. co[r].jobs # {} => Current(r) \in co[r].jobs
  BY <1>1, <1>2, MinIn DEF Current
<1>4. co[r].waves # {} => Handled(r) \in co[r].waves
  BY <1>1, <1>2, MinIn DEF Handled
<1>5. co[r].pc \in ItemPcs \ {"items"} => co[r].jobs # {} /\ co[r].jobs \subseteq Remaining(r)
  BY DEF IInv, InHand, HandOf
<1>6. co[r].pc \in WavePcs => co[r].waves # {}
  BY DEF IInv, InTransport, TransportOf
<1>7. \A w \in co[r].waves : wave[w].run = r
  BY DEF IInv, InTransport, TransportOf
<1> QED BY <1>1, <1>3, <1>4, <1>5, <1>6, <1>7

\* the run an offer is resumed from is the only one that still has it
LEMMA SourceIs ==
    ASSUME IInv, NEW j \in Jobs, Sources(j) # {}
    PROVE  /\ SourceOf(j) \in Runs /\ j \in Remaining(SourceOf(j))
           /\ \A s \in Runs : j \in Remaining(s) => s = SourceOf(j)
<1>1. PICK t \in Runs : j \in Remaining(t) BY DEF Sources
<1>2. \A s \in Runs : j \in Remaining(s) => s = t
  BY <1>1 DEF IInv, OneOwner, Sources
<1>3. Sources(j) = {t} BY <1>1, <1>2 DEF Sources
<1>4. t \in Nat BY GenerationAssumption DEF GenerationAssumption
<1>5. SourceOf(j) = t BY <1>3, <1>4 DEF SourceOf, Max
<1> QED BY <1>1, <1>2, <1>5

\* what a run takes over of an offer
LEMMA NewItemType ==
    ASSUME IInv, NEW j \in Jobs
    PROVE  NewItem(j) \in ItemRecs /\ Copied(j) \in [Positions -> CallRecs]
<1>1. offer[j] \in OfferRecs BY DEF IInv, TypeOK
<1>2. Sources(j) # {} => SourceOf(j) \in Runs BY SourceIs
<1>3. Sources(j) # {} => item[SourceOf(j)][j] \in ItemRecs
                         /\ call[SourceOf(j)][j] \in [Positions -> CallRecs]
  BY <1>2 DEF IInv, TypeOK
<1>4. NewItem(j) \in ItemRecs
  BY <1>1, <1>3 DEF NewItem, ItemRecs, OfferRecs, ItemStates
<1>5. NoCalls \in [Positions -> CallRecs] BY DEF NoCalls, CallRecs, CallStates
<1>6. CASE Sources(j) # {}
  <2> DEFINE s == call[SourceOf(j)][j]
             f == [k \in Positions |->
                    [state |-> IF s[k].state \in {"none", "completed"} THEN s[k].state
                               ELSE "prepared", wave |-> 0]]
  <2>1. Copied(j) = f BY <1>6 DEF Copied
  <2>2. f \in [Positions -> CallRecs] BY DEF CallRecs, CallStates
  <2> QED BY <1>4, <2>1, <2>2
<1>7. CASE Sources(j) = {}
  BY <1>4, <1>5, <1>7 DEF Copied
<1> QED BY <1>6, <1>7

\* starting a run
LEMMA StartType ==
    ASSUME IInv, NEW r \in Runs, NEW js \in SUBSET Jobs, NEW mode \in Modes, Start(r, js, mode)
    PROVE  TypeOK'
<1>1. TypeOK BY DEF IInv
<1>2. mode \in {"batch", "immediate"} BY GenerationAssumption DEF GenerationAssumption
<1>3. ASSUME NEW s \in Runs PROVE run'[s] \in RunRecs
  <2>1. [state |-> "active", mode |-> mode, stop |-> FALSE] \in RunRecs
    BY <1>2 DEF RunRecs, RunStates, ReservedRunStates, FollowedRunStates
  <2>2. run[s] \in RunRecs BY <1>1 DEF TypeOK
  <2> QED BY <1>1, <2>1, <2>2, SettledType DEF Start
<1>4. run' \in [Runs -> RunRecs] BY <1>3 DEF Start
<1>5. Transferred(js) \in Items
  <2>1. ASSUME NEW s \in Runs, NEW j \in Jobs
        PROVE  [item[s][j] EXCEPT !.state = "transferred"] \in ItemRecs /\ item[s][j] \in ItemRecs
    <3>1. item[s][j] \in ItemRecs BY <1>1 DEF TypeOK
    <3>2. [item[s][j] EXCEPT !.state = "transferred"] \in ItemRecs
      BY <3>1 DEF ItemRecs, ItemStates, TerminalItemStates
    <3> QED BY <3>1, <3>2
  <2> QED BY <2>1 DEF Transferred, Items
<1> DEFINE f == [j \in Jobs |-> IF j \in js THEN NewItem(j) ELSE item[r][j]]
           g == [j \in Jobs |-> IF j \in js THEN Copied(j) ELSE NoCalls]
<1>6. f \in [Jobs -> ItemRecs] BY <1>1, NewItemType DEF TypeOK
<1>7. g \in [Jobs -> [Positions -> CallRecs]]
  <2>1. NoCalls \in [Positions -> CallRecs] BY DEF NoCalls, CallRecs, CallStates
  <2> QED BY <2>1, NewItemType
<1>8. item' = [Transferred(js) EXCEPT ![r] = f] /\ call' = [call EXCEPT ![r] = g]
  BY DEF Start
<1>9. item' \in Items /\ call' \in Journals
  <2> HIDE DEF f, g
  <2> QED BY <1>1, <1>5, <1>6, <1>7, <1>8 DEF Items, Journals, TypeOK
<1>10. due' \subseteq Runs BY <1>1 DEF Start, TypeOK
<1>11. UNCHANGED <<world, wave, co, lock, left>> BY DEF Start
<1> QED BY <1>1, <1>4, <1>9, <1>10, <1>11 DEF TypeOK, world, Items, Journals

\* starting, retrying and stopping a run, and following it
LEMMA UserType ==
    ASSUME IInv, NEW r \in Runs,
           Advance(r) \/ Retry(r) \/ Cancel(r) \/ Abandon(r) \/ Sync(r) \/ SyncImmediate(r)
    PROVE  TypeOK'
<1> USE DEF Items, Journals
<1>1. TypeOK BY DEF IInv
<1>2. "active" \in RunStates /\ "cancelled" \in RunStates
  BY DEF RunStates, ReservedRunStates, FollowedRunStates
<1>3. run \in [Runs -> RunRecs] /\ run[r] \in RunRecs /\ item \in Items /\ call \in Journals
  BY <1>1 DEF TypeOK
<1>4. CASE Advance(r)
  <2> DEFINE p == IF run[r].mode = "batch" THEN "sync" ELSE "read"
  <2>1. [co EXCEPT ![r].pc = p, ![r].phase = "first"] \in [Runs -> CoRecs]
    BY <1>1, CoWriteType DEF Pcs
  <2>2. co' \in [Runs -> CoRecs] BY <1>1, <1>4, <2>1 DEF Advance, TypeOK
  <2> QED BY <1>1, <1>4, <2>2 DEF Advance, TypeOK, world, journal
<1>5. CASE Retry(r)
  <2>1. RetryCalls(r) \in [Jobs -> [Positions -> CallRecs]]
    <3>1. [state |-> "prepared", wave |-> 0] \in CallRecs BY DEF CallRecs, CallStates
    <3> QED BY <1>3, <3>1 DEF RetryCalls
  <2>2. RetryItems(r) \in [Jobs -> ItemRecs]
    <3>1. ASSUME NEW j \in Jobs
          PROVE  [item[r][j] EXCEPT !.state = "pending"] \in ItemRecs /\ item[r][j] \in ItemRecs
      <4>1. item[r][j] \in ItemRecs BY <1>3
      <4>2. [item[r][j] EXCEPT !.state = "pending"] \in ItemRecs
        BY <4>1 DEF ItemRecs, ItemStates
      <4> QED BY <4>1, <4>2
    <3> QED BY <3>1 DEF RetryItems
  <2>3. [run[r] EXCEPT !.state = "active", !.stop = FALSE] \in RunRecs
    BY <1>2, <1>3 DEF RunRecs
  <2>4. run' \in [Runs -> RunRecs] BY <1>3, <1>5, <2>3 DEF Retry
  <2>5. item' \in Items /\ call' \in Journals BY <1>3, <1>5, <2>1, <2>2 DEF Retry
  <2>6. co' \in [Runs -> CoRecs] BY <1>1, <1>5, CoWriteType DEF Retry, Pcs
  <2>7. left' \in [steps : Positions, edits : Nat, faults : Nat, retries : Nat]
    <3>1. left \in [steps : Positions, edits : Nat, faults : Nat, retries : Nat]
      BY <1>1 DEF TypeOK
    <3>2. left.retries > 0 /\ left' = [left EXCEPT !.retries = @ - 1] BY <1>5 DEF Retry
    <3> QED BY <3>1, <3>2
  <2>8. UNCHANGED <<world, due, wave, lock>> BY <1>5 DEF Retry
  <2> QED BY <1>1, <2>4, <2>5, <2>6, <2>7, <2>8 DEF TypeOK, world
<1>6. CASE Cancel(r)
  <2>1. [run[r] EXCEPT !.stop = TRUE] \in RunRecs BY <1>3 DEF RunRecs
  <2>2. run' \in [Runs -> RunRecs] BY <1>3, <1>6, <2>1 DEF Cancel
  <2> QED BY <1>1, <1>6, <2>2 DEF Cancel, TypeOK, world
<1>7. CASE Abandon(r)
  <2>1. run' \in [Runs -> RunRecs] BY <1>1, <1>2, <1>7, IdleType DEF Abandon
  <2> QED BY <1>1, <1>3, <1>7, <2>1, ReleaseType DEF Abandon, TypeOK
<1>8. CASE Sync(r)
  BY <1>1, <1>8, CoWriteType DEF Sync, Pcs, TypeOK, world, journal
<1>9. CASE SyncImmediate(r)
  <2> DEFINE f == [j \in Jobs |-> [k \in Positions |->
                    IF call[r][j][k].state = "submitting"
                    THEN [call[r][j][k] EXCEPT !.state = "uncertain"] ELSE call[r][j][k]]]
  <2>1. ASSUME NEW j \in Jobs, NEW k \in Positions
        PROVE  [call[r][j][k] EXCEPT !.state = "uncertain"] \in CallRecs /\ call[r][j][k] \in CallRecs
    <3>1. call[r][j][k] \in CallRecs BY <1>3
    <3>2. [call[r][j][k] EXCEPT !.state = "uncertain"] \in CallRecs
      BY <3>1 DEF CallRecs, CallStates
    <3> QED BY <3>1, <3>2
  <2>2. f \in [Jobs -> [Positions -> CallRecs]] BY <2>1
  <2>3. call' = [call EXCEPT ![r] = f] BY <1>9 DEF SyncImmediate
  <2>4. call' \in Journals
    <3> HIDE DEF f
    <3> QED BY <1>3, <2>2, <2>3
  <2>5. run' \in [Runs -> RunRecs] BY <1>1, <1>3, <1>9, SettledType DEF SyncImmediate
  <2>6. offer' \in [Jobs -> OfferRecs] /\ item' \in Items
    BY <1>1, <1>3, <1>9, ReleaseType DEF SyncImmediate
  <2>7. UNCHANGED <<outside, remote, wave, due, co, lock, left>> BY <1>9 DEF SyncImmediate
  <2> QED BY <1>1, <2>4, <2>5, <2>6, <2>7 DEF TypeOK
<1> QED BY <1>4, <1>5, <1>6, <1>7, <1>8, <1>9

\* waves before they are sent
LEMMA SendType ==
    ASSUME IInv, NEW r \in Runs
    PROVE  /\ TakeSync(r) \/ LockBusy(r) \/ TakeSend(r) \/ LeaveTransport(r) => TypeOK'
           /\ \A w \in Waves : DropPrepared(r, w) \/ SkipBlocked(r, w) \/ Prepare(r, w) => TypeOK'
           /\ Upload(r) \/ UploadFails(r) \/ Commit(r) => TypeOK'
<1> USE DEF Items, Journals
<1>1. TypeOK BY DEF IInv
<1>2. wave \in [Waves -> WaveRecs] /\ call \in Journals /\ NoWave \in WaveRecs
  BY <1>1 DEF TypeOK, NoWave, WaveRecs
<1>3. \A p \in {"upload", "commit", "post", "read", "finish"} : p \in Pcs BY DEF Pcs
<1>4. ASSUME TakeSync(r) PROVE TypeOK'
  <2>1. Outstanding(r) \in SUBSET Waves BY DEF Outstanding
  <2> QED BY <1>1, <1>4, <2>1, CoWriteType DEF TakeSync, TypeOK, world, journal
<1>5. ASSUME LockBusy(r) PROVE TypeOK'
  <2>1. "blocked" \in RunStates BY DEF RunStates, ReservedRunStates, FollowedRunStates
  <2> QED BY <1>1, <1>5, <2>1, IdleType DEF LockBusy, Block, TypeOK, world
<1>6. ASSUME TakeSend(r) PROVE TypeOK'
  <2>1. CASE run[r].stop \/ run[r].state # "active"
    <3>1. Reach(r, {}) /\ UNCHANGED <<wave, call>> BY <1>6, <2>1 DEF TakeSend
    <3>2. co' \in [Runs -> CoRecs] /\ lock' \in Runs BY <1>1, <3>1, CoWriteType
    <3> QED BY <1>1, <1>6, <3>1, <3>2 DEF TakeSend, TypeOK, world
  <2>2. CASE ~(run[r].stop \/ run[r].state # "active")
    <3> DEFINE f == [j \in Jobs |-> [k \in Positions |->
                      IF j \in Unsent(r, k) THEN [state |-> "prepared", wave |-> WaveOf(r, k)]
                      ELSE call[r][j][k]]]
               ws == {w \in Waves : wave'[w].run = r /\ wave'[w].state = "prepared"}
    <3>1. /\ \A k \in SentPositions(r) : WaveOf(r, k) \in Waves
          /\ wave' = NewWaves(r) /\ call' = [call EXCEPT ![r] = f] /\ Reach(r, ws)
      BY <1>6, <2>2 DEF TakeSend
    <3>2. ASSUME NEW j \in Jobs, NEW k \in Positions, j \in Unsent(r, k)
          PROVE  [state |-> "prepared", wave |-> WaveOf(r, k)] \in CallRecs
      <4>1. WaveOf(r, k) \in Waves BY <3>1, <3>2 DEF SentPositions
      <4> QED BY <4>1 DEF CallRecs, CallStates
    <3>3. f \in [Jobs -> [Positions -> CallRecs]] BY <1>2, <3>2
    <3>4. call' \in Journals
      <4> HIDE DEF f
      <4> QED BY <1>2, <3>1, <3>3
    <3>5. ASSUME NEW k \in Positions
          PROVE  [run |-> r, state |-> "prepared", calls |-> {<<j, k>> : j \in Unsent(r, k)}]
                   \in WaveRecs
      <4>1. Unsent(r, k) \subseteq Jobs BY DEF Unsent, Eligible
      <4> QED BY <4>1 DEF WaveRecs, OutstandingWaveStates
    <3>6. wave' \in [Waves -> WaveRecs]
      <4> SUFFICES ASSUME NEW w \in Waves PROVE NewWaves(r)[w] \in WaveRecs
        BY <3>1 DEF NewWaves
      <4>1. CASE \E k \in SentPositions(r) : w = WaveOf(r, k)
        <5> DEFINE k == CHOOSE p \in SentPositions(r) : w = WaveOf(r, p)
        <5>1. k \in SentPositions(r) BY <4>1
        <5>2. k \in Positions BY <5>1 DEF SentPositions
        <5>3. NewWaves(r)[w] =
                [run |-> r, state |-> "prepared", calls |-> {<<j, k>> : j \in Unsent(r, k)}]
          BY <4>1 DEF NewWaves
        <5> HIDE DEF k
        <5> QED BY <3>5, <5>2, <5>3
      <4>2. CASE ~\E k \in SentPositions(r) : w = WaveOf(r, k)
        BY <1>2, <4>2 DEF NewWaves
      <4> QED BY <4>1, <4>2
    <3>7. co' \in [Runs -> CoRecs] /\ lock' \in Runs
      <4>1. ws \in SUBSET Waves OBVIOUS
      <4> HIDE DEF ws
      <4> QED BY <1>1, <3>1, <4>1, CoWriteType
    <3>8. UNCHANGED <<world, run, item, due, left>> BY <1>6 DEF TakeSend
    <3> QED BY <1>1, <3>4, <3>6, <3>7, <3>8 DEF TypeOK, world
  <2> QED BY <2>1, <2>2
<1>7. ASSUME LeaveTransport(r) PROVE TypeOK'
  <2>1. co \in [Runs -> CoRecs] /\ co[r] \in CoRecs /\ run[r].stop \in BOOLEAN
    BY <1>1 DEF TypeOK, RunRecs
  <2>2. co[r].phase \in {"none", "first", "send", "last"} BY <2>1 DEF CoRecs
  <2>3. [co[r] EXCEPT !.pc = IF run[r].stop THEN "sync" ELSE "finish",
                      !.phase = IF run[r].stop THEN "last" ELSE @,
                      !.stopped = run[r].stop] \in CoRecs
    BY <2>1 DEF CoRecs
  <2>4. CASE co[r].phase \in {"first", "last"}
    <3>1. Go(r, "read") \/ Go(r, "finish") BY <1>7, <2>4 DEF LeaveTransport
    <3>2. co' \in [Runs -> CoRecs] BY <1>1, <1>3, <3>1, CoWriteType
    <3> QED BY <1>1, <1>7, <3>2 DEF LeaveTransport, TypeOK, world, journal
  <2>5. CASE co[r].phase = "send"
    <3>1. co' = [co EXCEPT ![r] = [co[r] EXCEPT
                   !.pc = IF run[r].stop THEN "sync" ELSE "finish",
                   !.phase = IF run[r].stop THEN "last" ELSE @,
                   !.stopped = run[r].stop]]
      BY <1>7, <2>5 DEF LeaveTransport
    <3>2. co' \in [Runs -> CoRecs] BY <2>1, <2>3, <3>1
    <3> QED BY <1>1, <1>7, <3>2 DEF LeaveTransport, TypeOK, world, journal
  <2>6. co[r].phase # "none" BY <1>7 DEF LeaveTransport, At, IInv, InTransport, TransportOf, BatchPcs, TransportPcs
  <2> QED BY <2>2, <2>4, <2>5, <2>6
<1>8. ASSUME NEW w \in Waves, DropPrepared(r, w) PROVE TypeOK'
  <2>1. "prepared" \in CallStates BY DEF CallStates
  <2>2. call' \in Journals
    BY <1>1, <1>8, <2>1, WaveCallsType DEF DropPrepared, CancelPrepared
  <2>3. wave' \in [Waves -> WaveRecs]
    BY <1>2, <1>8 DEF DropPrepared, CancelPrepared, EndWave
  <2> QED BY <1>1, <1>8, <2>2, <2>3, CoWriteType DEF DropPrepared, TypeOK, world
<1>9. ASSUME NEW w \in Waves, SkipBlocked(r, w) PROVE TypeOK'
  BY <1>1, <1>9, CoWriteType DEF SkipBlocked, TypeOK, world, journal
<1>10. ASSUME NEW w \in Waves, Prepare(r, w) PROVE TypeOK'
  BY <1>1, <1>3, <1>10, CoWriteType, PruneType DEF Prepare, TypeOK, world
<1>11. ASSUME Upload(r) PROVE TypeOK'
  <2>1. Handled(r) \in Waves BY <1>11, HandFacts DEF Upload, At, WavePcs
  <2> QED BY <1>1, <1>3, <1>11, <2>1, CoWriteType, PruneType DEF Upload, TypeOK, world
<1>12. ASSUME UploadFails(r) PROVE TypeOK'
  <2>1. "blocked" \in RunStates BY DEF RunStates, ReservedRunStates, FollowedRunStates
  <2>2. left' \in [steps : Positions, edits : Nat, faults : Nat, retries : Nat]
    BY <1>1, <1>12 DEF TypeOK, UploadFails, Failing
  <2> QED BY <1>1, <1>12, <2>1, <2>2, IdleType DEF UploadFails, Block, TypeOK, world
<1>13. ASSUME Commit(r) PROVE TypeOK'
  <2>1. "prepared" \in CallStates /\ "submitting" \in CallStates BY DEF CallStates
  <2>2. ASSUME NEW v \in WaveRecs PROVE [v EXCEPT !.state = "submitting"] \in WaveRecs
    BY DEF WaveRecs, OutstandingWaveStates
  <2>3. wave' \in [Waves -> WaveRecs]
    BY <1>2, <1>13, <2>2 DEF Commit, CancelPrepared, EndWave
  <2>4. call' \in Journals
    <3>1. \/ call' = Unlink(WaveCalls(r, Handled(r), "prepared"), r, Handled(r))
          \/ call' = WaveCalls(r, Handled(r), "submitting")
      BY <1>13 DEF Commit, CancelPrepared
    <3> QED BY <1>1, <2>1, <3>1, WaveCallsType
  <2>5. co' \in [Runs -> CoRecs]
    BY <1>1, <1>3, <1>13, CoWriteType DEF Commit
  <2>6. UNCHANGED <<world, run, item, due, lock, left>> BY <1>13 DEF Commit
  <2> QED BY <1>1, <2>3, <2>4, <2>5, <2>6 DEF TypeOK, world
<1> QED BY <1>4, <1>5, <1>6, <1>7, <1>8, <1>9, <1>10, <1>11, <1>12, <1>13

\* a failure is counted
LEMMA FailingType ==
    ASSUME TypeOK, Failing
    PROVE  left' \in [steps : Positions, edits : Nat, faults : Nat, retries : Nat]
<1>1. left \in [steps : Positions, edits : Nat, faults : Nat, retries : Nat] BY DEF TypeOK
<1>2. left.faults > 0 /\ left' = [left EXCEPT !.faults = @ - 1] BY DEF Failing
<1> QED BY <1>1, <1>2

\* the paid POST and what follows from its answer
LEMMA PostType ==
    ASSUME IInv, NEW r \in Runs
    PROVE  Post(r) \/ PostLost(r) \/ Posted(r) \/ PostRefused(r) \/ PostUnknown(r) => TypeOK'
<1> USE DEF Items, Journals
<1>1. TypeOK BY DEF IInv
<1>2. /\ wave \in [Waves -> WaveRecs] /\ call \in Journals /\ NoWave \in WaveRecs
      /\ remote \in [Waves -> {"absent", "running", "cancelling", "ended"}]
  BY <1>1 DEF TypeOK, NoWave, WaveRecs
<1>3. \A p \in {"posted", "refused", "unknown", "waves"} : p \in Pcs BY DEF Pcs
<1>4. "active" \in RunStates /\ "attention" \in RunStates
  BY DEF RunStates, ReservedRunStates, FollowedRunStates
<1>5. \A s \in {"submitted", "failed", "uncertain"} : s \in CallStates BY DEF CallStates
<1>6. ASSUME NEW v \in WaveRecs
      PROVE  [v EXCEPT !.state = "submitted"] \in WaveRecs
             /\ [v EXCEPT !.state = "submission_unknown"] \in WaveRecs
  BY DEF WaveRecs, OutstandingWaveStates
<1>7. ASSUME Post(r) PROVE TypeOK'
  <2>1. co' \in [Runs -> CoRecs] BY <1>1, <1>3, <1>7, CoWriteType DEF Post
  <2>2. remote' \in [Waves -> {"absent", "running", "cancelling", "ended"}]
    BY <1>2, <1>7 DEF Post
  <2> QED BY <1>1, <1>7, <2>1, <2>2 DEF Post, TypeOK, journal
<1>8. ASSUME PostLost(r) PROVE TypeOK'
  <2>1. co' \in [Runs -> CoRecs] BY <1>1, <1>3, <1>8, CoWriteType DEF PostLost
  <2>2. remote' \in [Waves -> {"absent", "running", "cancelling", "ended"}]
    BY <1>2, <1>8 DEF PostLost
  <2>3. left' \in [steps : Positions, edits : Nat, faults : Nat, retries : Nat]
    BY <1>1, <1>8, FailingType DEF PostLost
  <2> QED BY <1>1, <1>8, <2>1, <2>2, <2>3 DEF PostLost, TypeOK, journal
<1>9. ASSUME Posted(r) PROVE TypeOK'
  <2>1. run' \in [Runs -> RunRecs]
    BY <1>1, <1>4, <1>9, IdleType DEF Posted, SaveSnapshot, TypeOK
  <2>2. wave' \in [Waves -> WaveRecs] BY <1>2, <1>6, <1>9 DEF Posted
  <2>3. call' \in Journals BY <1>1, <1>5, <1>9, WaveCallsType DEF Posted
  <2>4. co' \in [Runs -> CoRecs] BY <1>1, <1>3, <1>9, CoWriteType DEF Posted
  <2> QED BY <1>1, <1>9, <2>1, <2>2, <2>3, <2>4 DEF Posted, TypeOK, world
<1>10. ASSUME PostRefused(r) PROVE TypeOK'
  <2>1. wave' \in [Waves -> WaveRecs] BY <1>2, <1>10 DEF PostRefused, EndWave
  <2>2. call' \in Journals BY <1>1, <1>5, <1>10, WaveCallsType DEF PostRefused
  <2>3. co' \in [Runs -> CoRecs] BY <1>1, <1>10, CoWriteType DEF PostRefused
  <2> QED BY <1>1, <1>10, <2>1, <2>2, <2>3 DEF PostRefused, TypeOK, world
<1>11. ASSUME PostUnknown(r) PROVE TypeOK'
  <2>1. run' \in [Runs -> RunRecs] BY <1>1, <1>4, <1>11, IdleType DEF PostUnknown
  <2>2. wave' \in [Waves -> WaveRecs] BY <1>2, <1>6, <1>11 DEF PostUnknown
  <2>3. call' \in Journals BY <1>1, <1>5, <1>11, WaveCallsType DEF PostUnknown
  <2>4. co' \in [Runs -> CoRecs] BY <1>1, <1>11, CoWriteType DEF PostUnknown
  <2> QED BY <1>1, <1>11, <2>1, <2>2, <2>3, <2>4 DEF PostUnknown, TypeOK, world
<1> QED BY <1>7, <1>8, <1>9, <1>10, <1>11

\* looking a wave up at the provider, and importing its answers
LEMMA RefreshType ==
    ASSUME IInv, NEW r \in Runs, NEW w \in Waves
    PROVE  RefreshMissing(r, w) \/ RefreshRunning(r, w) \/ Import(r, w) \/ RefreshFails(r, w)
             => TypeOK'
<1> USE DEF Items, Journals
<1>1. TypeOK BY DEF IInv
<1>2. /\ wave \in [Waves -> WaveRecs] /\ call \in Journals /\ NoWave \in WaveRecs
      /\ remote \in [Waves -> {"absent", "running", "cancelling", "ended"}]
  BY <1>1 DEF TypeOK, NoWave, WaveRecs
<1>3. \A s \in {"active", "attention", "blocked"} : s \in RunStates
  BY DEF RunStates, ReservedRunStates, FollowedRunStates
<1>4. SaveSnapshot(r, w) => run' \in [Runs -> RunRecs]
  BY <1>1, <1>3, IdleType DEF SaveSnapshot, TypeOK
<1>5. ASSUME RefreshMissing(r, w) PROVE TypeOK'
  <2>1. run' \in [Runs -> RunRecs] BY <1>1, <1>3, <1>5, IdleType DEF RefreshMissing
  <2> QED BY <1>1, <1>5, <2>1, CoWriteType DEF RefreshMissing, TypeOK, world
<1>6. ASSUME RefreshRunning(r, w) PROVE TypeOK'
  <2>1. remote' \in [Waves -> {"absent", "running", "cancelling", "ended"}]
    BY <1>2, <1>6 DEF RefreshRunning
  <2>2. wave' \in [Waves -> WaveRecs]
    <3>1. ASSUME NEW v \in WaveRecs PROVE [v EXCEPT !.state = "submitted"] \in WaveRecs
      BY DEF WaveRecs, OutstandingWaveStates
    <3> QED BY <1>2, <1>6, <3>1 DEF RefreshRunning
  <2>3. "submitted" \in CallStates BY DEF CallStates
  <2>4. call' \in Journals BY <1>1, <1>6, <2>3, WaveCallsType DEF RefreshRunning
  <2>5. co' \in [Runs -> CoRecs] BY <1>1, <1>6, CoWriteType DEF RefreshRunning
  <2> QED BY <1>1, <1>4, <1>6, <2>1, <2>2, <2>4, <2>5 DEF RefreshRunning, TypeOK
<1>7. ASSUME Import(r, w) PROVE TypeOK'
  <2>1. PICK good \in SUBSET wave[w].calls :
           call' = Unlink([call EXCEPT ![r] = [j \in Jobs |-> [k \in Positions |->
              IF <<j, k>> \in wave[w].calls
              THEN [call[r][j][k] EXCEPT !.state = IF <<j, k>> \in good THEN "completed" ELSE "failed"]
              ELSE call[r][j][k]]]], r, w)
    BY <1>7 DEF Import
  <2> DEFINE f == [j \in Jobs |-> [k \in Positions |->
              IF <<j, k>> \in wave[w].calls
              THEN [call[r][j][k] EXCEPT !.state = IF <<j, k>> \in good THEN "completed" ELSE "failed"]
              ELSE call[r][j][k]]]
  <2>2. ASSUME NEW j \in Jobs, NEW k \in Positions
        PROVE  f[j][k] \in CallRecs
    <3>1. call[r][j][k] \in CallRecs BY <1>2
    <3>2. \A s \in {"completed", "failed"} : [call[r][j][k] EXCEPT !.state = s] \in CallRecs
      BY <3>1 DEF CallRecs, CallStates
    <3> QED BY <3>1, <3>2
  <2>3. f \in [Jobs -> [Positions -> CallRecs]] BY <2>2
  <2>4. [call EXCEPT ![r] = f] \in Journals
    <3> HIDE DEF f
    <3> QED BY <1>2, <2>3
  <2>5. call' = Unlink([call EXCEPT ![r] = f], r, w) BY <2>1
  <2>6. call' \in Journals
    <3> HIDE DEF f
    <3> QED BY <1>1, <2>4, <2>5, WaveCallsType
  <2>7. wave' \in [Waves -> WaveRecs] BY <1>2, <1>7 DEF Import, EndWave
  <2>8. remote' \in [Waves -> {"absent", "running", "cancelling", "ended"}]
    BY <1>2, <1>7 DEF Import, Ended
  <2>9. co' \in [Runs -> CoRecs] BY <1>1, <1>7, CoWriteType DEF Import
  <2>10. UNCHANGED <<offer, outside, item, due, lock, left>> /\ run' \in [Runs -> RunRecs]
    BY <1>4, <1>7 DEF Import
  <2> QED BY <1>1, <2>6, <2>7, <2>8, <2>9, <2>10 DEF TypeOK
<1>8. ASSUME RefreshFails(r, w) PROVE TypeOK'
  <2>1. left' \in [steps : Positions, edits : Nat, faults : Nat, retries : Nat]
    BY <1>1, <1>8, FailingType DEF RefreshFails
  <2> QED BY <1>1, <1>3, <1>8, <2>1, IdleType DEF RefreshFails, Block, TypeOK, world
<1> QED BY <1>5, <1>6, <1>7, <1>8

\* the outcome of an item
LEMMA RecordType ==
    ASSUME TypeOK, NEW r \in Runs, NEW s \in ItemStates, Record(r, s)
    PROVE  item' \in Items /\ co' \in [Runs -> CoRecs]
BY WriteType, CoWriteType DEF Record

\* executing items
LEMMA ExecuteType ==
    ASSUME IInv, NEW r \in Runs,
           \/ ReadItems(r) \/ ItemStale(r) \/ ItemFails(r) \/ ItemStillWaits(r) \/ Reserve(r)
           \/ Acknowledge(r) \/ ReplayStops(r) \/ ReplayStale(r) \/ ReplayMismatch(r)
    PROVE  TypeOK'
<1> USE DEF Items, Journals
<1>1. TypeOK BY DEF IInv
<1>2. \A s \in {"failed", "waiting", "stale", "completed"} : s \in ItemStates
  BY DEF ItemStates, TerminalItemStates
<1>3. \A p \in {"items", "replay", "reserved"} : p \in Pcs BY DEF Pcs
<1>4. CASE ReadItems(r)
  <2> DEFINE ws == {j \in Eligible(r) :
              /\ run[r].mode = "batch" /\ item[r][j].state = "waiting"
              /\ LastCall(r, j) # 0
              /\ call[r][j][LastCall(r, j)].state \in UnresolvedCallStates}
  <2>1. Eligible(r) \subseteq Jobs /\ ws \subseteq Jobs BY DEF Eligible
  <2>2. co' = [co EXCEPT ![r] = [co[r] EXCEPT !.pc = "items", !.jobs = Eligible(r),
                                              !.seen = Eligible(r), !.wait = ws]]
    BY <1>4 DEF ReadItems
  <2>3. co \in [Runs -> CoRecs] /\ co[r] \in CoRecs BY <1>1 DEF TypeOK
  <2> HIDE DEF ws
  <2>4. [co[r] EXCEPT !.pc = "items", !.jobs = Eligible(r),
                      !.seen = Eligible(r), !.wait = ws] \in CoRecs
    BY <2>1, <2>3 DEF CoRecs
  <2>5. co' \in [Runs -> CoRecs] BY <2>2, <2>3, <2>4
  <2> QED BY <1>1, <1>4, <2>5 DEF ReadItems, TypeOK, world, journal
<1>5. CASE ItemStale(r)
  BY <1>1, <1>5, DiscardType DEF ItemStale, TypeOK
<1>6. CASE ItemFails(r)
  <2>1. item' \in Items /\ co' \in [Runs -> CoRecs]
    BY <1>1, <1>2, <1>6, RecordType DEF ItemFails
  <2>2. left' \in [steps : Positions, edits : Nat, faults : Nat, retries : Nat]
    BY <1>1, <1>6, FailingType DEF ItemFails
  <2> QED BY <1>1, <1>6, <2>1, <2>2 DEF ItemFails, TypeOK, world
<1>7. CASE ItemStillWaits(r)
  BY <1>1, <1>7, CoWriteType DEF ItemStillWaits, TypeOK, world, journal
<1>8. CASE Reserve(r)
  <2>1. co' \in [Runs -> CoRecs] BY <1>1, <1>3, <1>8, CoWriteType DEF Reserve
  <2>2. item' \in Items
    <3>1. item' = [item EXCEPT ![r][Current(r)].app = TRUE] \/ UNCHANGED item
      BY <1>8 DEF Reserve
    <3>2. item \in Items BY <1>1 DEF TypeOK
    <3>3. [item EXCEPT ![r][Current(r)].app = TRUE] \in Items BY <1>1, WriteType
    <3> QED BY <3>1, <3>2, <3>3
  <2>3. ASSUME NEW o \in OfferRecs PROVE [o EXCEPT !.app = "empty"] \in OfferRecs
    BY DEF OfferRecs
  <2>4. offer' \in [Jobs -> OfferRecs] BY <1>1, <1>8, <2>3 DEF Reserve, TypeOK
  <2>5. UNCHANGED <<outside, run, call, wave, remote, due, lock, left>> BY <1>8 DEF Reserve
  <2> QED BY <1>1, <2>1, <2>2, <2>4, <2>5 DEF TypeOK
<1>9. CASE Acknowledge(r)
  <2>1. co' \in [Runs -> CoRecs] BY <1>1, <1>3, <1>9, CoWriteType DEF Acknowledge
  <2>2. item' \in Items BY <1>1, <1>9, WriteType DEF Acknowledge
  <2> QED BY <1>1, <1>9, <2>1, <2>2 DEF Acknowledge, TypeOK, world
<1>10. CASE ReplayStops(r)
  BY <1>1, <1>10, CoWriteType DEF ReplayStops, TypeOK, world, journal
<1>11. CASE ReplayStale(r)
  BY <1>1, <1>11, DiscardType DEF ReplayStale, TypeOK
<1>12. CASE ReplayMismatch(r)
  <2>1. left' \in [steps : Positions, edits : Nat, faults : Nat, retries : Nat]
    BY <1>1, <1>12, FailingType DEF ReplayMismatch
  <2> QED BY <1>1, <1>12, <2>1, DiscardType DEF ReplayMismatch, TypeOK
<1> QED BY <1>4, <1>5, <1>6, <1>7, <1>8, <1>9, <1>10, <1>11, <1>12

\* replaying the pipeline of an item
LEMMA ReplayType ==
    ASSUME IInv, NEW r \in Runs,
           \/ ReplayWaits(r) \/ ReplayFails(r) \/ ReplayCalls(r) \/ Intend(r) \/ Answer(r)
           \/ AnswerFails(r) \/ Publish(r)
    PROVE  TypeOK'
<1> USE DEF Items, Journals
<1>1. TypeOK BY DEF IInv
<1>2. \A s \in {"failed", "waiting", "completed"} : s \in ItemStates
  BY DEF ItemStates, TerminalItemStates
<1>3. \A p \in {"replay", "intent", "answer"} : p \in Pcs BY DEF Pcs
<1>4. \A s \in {"submitting", "completed", "failed", "uncertain"} : s \in CallStates
  BY DEF CallStates
<1>5. CASE ReplayWaits(r)
  <2>1. call' \in Journals BY <1>1, <1>5, WriteType DEF ReplayWaits
  <2>2. item' \in Items /\ co' \in [Runs -> CoRecs]
    BY <1>1, <1>2, <1>5, RecordType DEF ReplayWaits
  <2> QED BY <1>1, <1>5, <2>1, <2>2 DEF ReplayWaits, TypeOK, world
<1>6. CASE ReplayFails(r)
  <2>1. item' \in Items /\ co' \in [Runs -> CoRecs]
    BY <1>1, <1>2, <1>6, RecordType DEF ReplayFails
  <2> QED BY <1>1, <1>6, <2>1 DEF ReplayFails, TypeOK, world
<1>7. CASE ReplayCalls(r)
  <2>1. call' \in Journals BY <1>1, <1>7, WriteType DEF ReplayCalls
  <2>2. co' \in [Runs -> CoRecs] BY <1>1, <1>3, <1>7, CoWriteType DEF ReplayCalls
  <2> QED BY <1>1, <1>7, <2>1, <2>2 DEF ReplayCalls, TypeOK, world
<1>8. CASE Intend(r)
  <2>1. call' \in Journals BY <1>1, <1>4, <1>8, WriteType DEF Intend
  <2>2. co' \in [Runs -> CoRecs] BY <1>1, <1>3, <1>8, CoWriteType DEF Intend
  <2> QED BY <1>1, <1>8, <2>1, <2>2 DEF Intend, TypeOK, world
<1>9. CASE Answer(r)
  <2>1. call' \in Journals BY <1>1, <1>4, <1>9, WriteType DEF Answer
  <2>2. co' \in [Runs -> CoRecs] BY <1>1, <1>3, <1>9, CoWriteType DEF Answer
  <2> QED BY <1>1, <1>9, <2>1, <2>2 DEF Answer, TypeOK, world
<1>10. CASE AnswerFails(r)
  <2>1. call' \in Journals
    <3>1. \E s \in {"failed", "uncertain"} :
             call' = [call EXCEPT ![r][Current(r)][NextCall(r)].state = s]
      BY <1>10 DEF AnswerFails
    <3>2. \A s \in CallStates :
             [call EXCEPT ![r][Current(r)][NextCall(r)].state = s] \in Journals
      BY <1>1, WriteType
    <3> HIDE DEF Journals
    <3>3. call' \in Journals BY <1>4, <3>1, <3>2
    <3> QED BY <3>3 DEF Journals
  <2>2. item' \in Items /\ co' \in [Runs -> CoRecs]
    BY <1>1, <1>2, <1>10, RecordType DEF AnswerFails
  <2>3. left' \in [steps : Positions, edits : Nat, faults : Nat, retries : Nat]
    BY <1>1, <1>10, FailingType DEF AnswerFails, TypeOK
  <2> QED BY <1>1, <1>10, <2>1, <2>2, <2>3 DEF AnswerFails, TypeOK, world
<1>11. CASE Publish(r)
  <2>1. item' \in Items /\ co' \in [Runs -> CoRecs]
    BY <1>1, <1>2, <1>11, RecordType DEF Publish
  <2>2. ASSUME NEW o \in OfferRecs PROVE [o EXCEPT !.app = "published"] \in OfferRecs
    BY DEF OfferRecs
  <2>3. offer' \in [Jobs -> OfferRecs] BY <1>1, <1>11, <2>2 DEF Publish, TypeOK
  <2>4. UNCHANGED <<outside, run, call, wave, remote, due, lock, left>> BY <1>11 DEF Publish
  <2> QED BY <1>1, <2>1, <2>3, <2>4 DEF TypeOK
<1> QED BY <1>5, <1>6, <1>7, <1>8, <1>9, <1>10, <1>11

\* the end of a follow-up
LEMMA EndType ==
    ASSUME IInv, NEW r \in Runs, AfterItems(r) \/ Recheck(r) \/ Finish(r)
    PROVE  TypeOK'
<1> USE DEF Items, Journals
<1>1. TypeOK BY DEF IInv
<1>2. co \in [Runs -> CoRecs] /\ co[r] \in CoRecs /\ run \in [Runs -> RunRecs]
      /\ run[r] \in RunRecs /\ item \in Items
  BY <1>1 DEF TypeOK
<1>3. run[r].stop \in BOOLEAN /\ run[r].mode \in {"batch", "immediate"} BY <1>2 DEF RunRecs
<1>4. CASE AfterItems(r)
  <2> DEFINE p == CASE run[r].mode = "immediate" -> "finish"
                    [] run[r].mode = "batch" /\ run[r].stop -> "sync"
                    [] OTHER -> "fresh"
             f == IF run[r].stop THEN "last" ELSE "send"
  <2>1. p \in {"finish", "sync", "fresh"} /\ f \in {"last", "send"} BY <1>3
  <2>2. co' = [co EXCEPT ![r] = [co[r] EXCEPT !.jobs = {}, !.wait = {}, !.stopped = run[r].stop,
                                              !.phase = f, !.pc = p]]
    BY <1>4 DEF AfterItems
  <2> HIDE DEF p, f
  <2>3. [co[r] EXCEPT !.jobs = {}, !.wait = {}, !.stopped = run[r].stop,
                      !.phase = f, !.pc = p] \in CoRecs
    BY <1>2, <1>3, <2>1 DEF CoRecs
  <2>4. co' \in [Runs -> CoRecs] BY <1>2, <2>2, <2>3
  <2> QED BY <1>1, <1>4, <2>4 DEF AfterItems, TypeOK, world, journal
<1>5. CASE Recheck(r)
  <2>1. "blocked" \in RunStates /\ "send" \in Pcs
    BY DEF RunStates, ReservedRunStates, FollowedRunStates, Pcs
  <2>2. CASE Go(r, "send") /\ UNCHANGED <<run, lock>>
    BY <1>1, <1>5, <2>1, <2>2, CoWriteType DEF Recheck, TypeOK, world
  <2>3. CASE Block(r)
    BY <1>1, <1>5, <2>1, <2>3, IdleType DEF Recheck, Block, TypeOK, world
  <2> QED BY <1>5, <2>2, <2>3 DEF Recheck
<1>6. CASE Finish(r)
  <2>1. co[r].stopped \in BOOLEAN BY <1>2 DEF CoRecs
  <2>2. run' \in [Runs -> RunRecs] BY <1>1, <1>2, <1>6, <2>1, SettledType DEF Finish
  <2>3. offer' \in [Jobs -> OfferRecs] /\ item' \in Items
    BY <1>1, <1>2, <1>6, ReleaseType DEF Finish
  <2>4. co' \in [Runs -> CoRecs] BY <1>1, <1>6, IdleType DEF Finish
  <2>5. UNCHANGED <<outside, remote, call, wave, due, lock, left>> BY <1>6 DEF Finish
  <2> QED BY <1>1, <2>2, <2>3, <2>4, <2>5 DEF TypeOK
<1> QED BY <1>4, <1>5, <1>6

\* everything else
LEMMA OutsideType ==
    ASSUME IInv
    PROVE  /\ Crash => TypeOK'
           /\ \A w \in Waves : BatchEnds(w) => TypeOK'
           /\ \A j \in Jobs : Enter(j) \/ Change(j) => TypeOK'
<1>1. TypeOK BY DEF IInv
<1>2. ASSUME Crash PROVE TypeOK'
  <2>1. left' \in [steps : Positions, edits : Nat, faults : Nat, retries : Nat]
    BY <1>1, <1>2, FailingType DEF Crash
  <2> QED BY <1>1, <1>2, <2>1, IdleType DEF Crash, TypeOK, world, journal
<1>3. ASSUME NEW w \in Waves, BatchEnds(w) PROVE TypeOK'
  BY <1>1, <1>3 DEF BatchEnds, TypeOK, journal
<1>4. ASSUME NEW j \in Jobs, Enter(j) PROVE TypeOK'
  <2>1. left \in [steps : Positions, edits : Nat, faults : Nat, retries : Nat]
    BY <1>1 DEF TypeOK
  <2>2. left' \in [steps : Positions, edits : Nat, faults : Nat, retries : Nat]
    BY <1>4, <2>1 DEF Enter
  <2> QED BY <1>1, <1>4, <2>2 DEF Enter, TypeOK, journal
<1>5. ASSUME NEW j \in Jobs, Change(j) PROVE TypeOK'
  <2>1. ASSUME NEW o \in OfferRecs
        PROVE  [o EXCEPT !.ver = @ + 1] \in OfferRecs /\ [o EXCEPT !.app = "published"] \in OfferRecs
    BY DEF OfferRecs
  <2>2. [offer[j] EXCEPT !.held = ~@] \in OfferRecs
    <3>1. offer[j] \in OfferRecs BY <1>1 DEF TypeOK
    <3>2. ASSUME NEW b \in BOOLEAN PROVE [offer[j] EXCEPT !.held = b] \in OfferRecs
      BY <3>1 DEF OfferRecs
    <3> HIDE DEF OfferRecs
    <3> QED BY <3>2
  <2>3. \/ offer' = [offer EXCEPT ![j] = [offer[j] EXCEPT !.ver = @ + 1]]
        \/ offer' = [offer EXCEPT ![j] = [offer[j] EXCEPT !.held = ~@]]
        \/ offer' = [offer EXCEPT ![j] = [offer[j] EXCEPT !.app = "published"]]
    BY <1>5 DEF Change
  <2>4. offer' \in [Jobs -> OfferRecs]
    <3>1. offer \in [Jobs -> OfferRecs] /\ offer[j] \in OfferRecs BY <1>1 DEF TypeOK
    <3>2. \A o \in OfferRecs : [offer EXCEPT ![j] = o] \in [Jobs -> OfferRecs] BY <3>1
    <3>3. /\ [offer[j] EXCEPT !.ver = @ + 1] \in OfferRecs
          /\ [offer[j] EXCEPT !.app = "published"] \in OfferRecs
      BY <2>1, <3>1
    <3> QED BY <2>2, <2>3, <3>2, <3>3
  <2> QED BY <1>1, <1>5, <2>4 DEF Change, TypeOK, journal
<1> QED BY <1>2, <1>3, <1>4, <1>5

\* every step keeps the types
LEMMA TypeKept == IInv /\ [Next]_vars => TypeOK'
<1> SUFFICES ASSUME IInv, [Next]_vars PROVE TypeOK'
  OBVIOUS
<1>1. ASSUME NEW r \in Runs, Follow(r) \/ Fails(r) PROVE TypeOK'
  BY <1>1, SendType, PostType, RefreshType, ExecuteType, ReplayType, EndType DEF Follow, Fails
<1>2. CASE User
  BY <1>2, StartType, UserType DEF User
<1>3. CASE UNCHANGED vars
  BY <1>3 DEF vars, world, journal, IInv, TypeOK
<1> QED BY <1>1, <1>2, <1>3, UserType, OutsideType DEF Next

----------------------------------------------------------------------------
(* What a step of one run does to the journal.                             *)

\* the follow-ups of the other runs stand where they were
CoFrame(r) == \A s \in Runs \ {r} : co'[s] = co[s]

\* so do the other runs; this one was registered and keeps its mode
RunFrame(r) ==
    /\ \A s \in Runs \ {r} : run'[s] = run[s]
    /\ run[r].state # "none" /\ run'[r].state # "none" /\ run'[r].mode = run[r].mode
    /\ due' \subseteq due \cup {r}

\* items that are over stay so; one is completed with its dossier
ItemFrame(r) ==
    /\ \A s \in Runs \ {r}, j \in Jobs : item'[s][j].state = item[s][j].state
    /\ \A j \in Jobs : item'[r][j].state # item[r][j].state =>
          /\ j \in Remaining(r) /\ item'[r][j].state \notin {"none", "transferred"}
          /\ item'[r][j].state = "completed" =>
                offer[j].app # "published" /\ offer'[j].app = "published" /\ Missing(r, j) = {}

\* answers stay
CallFrame(r) ==
    /\ \A s \in Runs \ {r} : call'[s] = call[s]
    /\ \A j \in Jobs, k \in Positions :
          call[r][j][k].state = "completed" => call'[r][j][k].state = "completed"

\* so do dossiers
OffersKept ==
    /\ \A j \in Jobs : offer[j].app = "published" => offer'[j].app = "published"
    /\ left'.steps = left.steps

\* the item in hand is done
OnlyCurrent(r) ==
    /\ NextItem(r)
    /\ \A j \in Jobs \ {Current(r)} : item'[r][j].state = item[r][j].state

StepOf(r) == CoFrame(r) /\ RunFrame(r) /\ ItemFrame(r) /\ CallFrame(r) /\ OffersKept

\* a run that is being followed is registered
LEMMA Born ==
    ASSUME IInv, NEW r \in Runs
    PROVE  /\ run[r].state = "none" => co[r].pc = "idle" /\ r \notin due /\ Remaining(r) = {}
           /\ run \in [Runs -> RunRecs] /\ run[r] \in RunRecs
           /\ item \in Items /\ call \in Journals /\ co \in [Runs -> CoRecs]
BY DEF IInv, TypeOK, Unborn, Remaining, ItemsOf, Items, Journals

\* what leaves items, calls or offers alone
LEMMA QuietFrames ==
    ASSUME NEW r \in Runs
    PROVE  /\ UNCHANGED item => ItemFrame(r)
           /\ UNCHANGED call => CallFrame(r)
           /\ UNCHANGED <<offer, left>> => OffersKept
BY DEF ItemFrame, CallFrame, OffersKept

\* writing where a follow-up stands
LEMMA CoFrames ==
    ASSUME IInv, NEW r \in Runs
    PROVE  /\ \A p : Go(r, p) => CoFrame(r)
           /\ NextItem(r) => CoFrame(r)
           /\ \A went : NextWave(r, went) => CoFrame(r)
           /\ \A ws : Reach(r, ws) => CoFrame(r)
           /\ \A c : co' = [co EXCEPT ![r] = c] => CoFrame(r)
           /\ Block(r) => CoFrame(r)
<1>1. co \in [Runs -> CoRecs] BY Born
<1>2. ASSUME NEW c, co' = [co EXCEPT ![r] = c] PROVE CoFrame(r)
  BY <1>1, <1>2 DEF CoFrame
<1>3. ASSUME NEW p, Go(r, p) PROVE CoFrame(r)
  BY <1>1, <1>3 DEF CoFrame, Go
<1>4. ASSUME NextItem(r) PROVE CoFrame(r)
  BY <1>1, <1>4 DEF CoFrame, NextItem
<1>5. ASSUME NEW went, NextWave(r, went) PROVE CoFrame(r)
  BY <1>1, <1>5 DEF CoFrame, NextWave
<1>6. ASSUME NEW ws, Reach(r, ws) PROVE CoFrame(r)
  BY <1>1, <1>6 DEF CoFrame, Reach
<1>7. ASSUME Block(r) PROVE CoFrame(r)
  BY <1>1, <1>7 DEF CoFrame, Block
<1> QED BY <1>2, <1>3, <1>4, <1>5, <1>6, <1>7

\* a settled run is still a run of its mode
LEMMA SettledKept ==
    ASSUME IInv, NEW r \in Runs, NEW b \in BOOLEAN, run[r].state # "none"
    PROVE  Settled(r, b).mode = run[r].mode /\ Settled(r, b).state # "none"
<1>1. run[r] \in RunRecs BY Born
<1>2. ASSUME NEW s PROVE /\ [run[r] EXCEPT !.state = s].mode = run[r].mode
                         /\ [run[r] EXCEPT !.state = s].state = s
                         /\ [run[r] EXCEPT !.stop = TRUE, !.state = s].mode = run[r].mode
                         /\ [run[r] EXCEPT !.stop = TRUE, !.state = s].state = s
  BY <1>1 DEF RunRecs
<1> QED BY <1>2 DEF Settled

\* writing the run
LEMMA RunFrames ==
    ASSUME IInv, NEW r \in Runs, run[r].state # "none", due' \subseteq due \cup {r}
    PROVE  /\ UNCHANGED run => RunFrame(r)
           /\ \A s : run' = [run EXCEPT ![r].state = s] /\ s # "none" => RunFrame(r)
           /\ run' = [run EXCEPT ![r].stop = TRUE] => RunFrame(r)
           /\ run' = [run EXCEPT ![r].state = "active", ![r].stop = FALSE] => RunFrame(r)
           /\ \A b \in BOOLEAN : run' = [run EXCEPT ![r] = Settled(r, b)] => RunFrame(r)
           /\ \A w : SaveSnapshot(r, w) => RunFrame(r)
           /\ Block(r) => RunFrame(r)
<1>1. run \in [Runs -> RunRecs] /\ run[r] \in RunRecs BY Born
<1>2. ASSUME NEW x, run' = [run EXCEPT ![r] = x], x.mode = run[r].mode, x.state # "none"
      PROVE  RunFrame(r)
  BY <1>1, <1>2 DEF RunFrame
<1>3. ASSUME UNCHANGED run PROVE RunFrame(r)
  BY <1>3 DEF RunFrame
<1>4. ASSUME NEW s, run' = [run EXCEPT ![r].state = s], s # "none" PROVE RunFrame(r)
  <2>1. [run[r] EXCEPT !.state = s].mode = run[r].mode /\ [run[r] EXCEPT !.state = s].state = s
    BY <1>1 DEF RunRecs
  <2> QED BY <1>2, <1>4, <2>1
<1>5. ASSUME run' = [run EXCEPT ![r].stop = TRUE] PROVE RunFrame(r)
  <2>1. [run[r] EXCEPT !.stop = TRUE].mode = run[r].mode
        /\ [run[r] EXCEPT !.stop = TRUE].state = run[r].state
    BY <1>1 DEF RunRecs
  <2> QED BY <1>2, <1>5, <2>1
<1>6. ASSUME run' = [run EXCEPT ![r].state = "active", ![r].stop = FALSE] PROVE RunFrame(r)
  <2>1. [run[r] EXCEPT !.state = "active", !.stop = FALSE].mode = run[r].mode
        /\ [run[r] EXCEPT !.state = "active", !.stop = FALSE].state = "active"
    BY <1>1 DEF RunRecs
  <2> QED BY <1>2, <1>6, <2>1
<1>7. ASSUME NEW b \in BOOLEAN, run' = [run EXCEPT ![r] = Settled(r, b)] PROVE RunFrame(r)
  BY <1>2, <1>7, SettledKept
<1>8. ASSUME NEW w, SaveSnapshot(r, w) PROVE RunFrame(r)
  BY <1>3, <1>4, <1>8 DEF SaveSnapshot
<1>9. ASSUME Block(r) PROVE RunFrame(r)
  BY <1>4, <1>9 DEF Block
<1> QED BY <1>3, <1>4, <1>5, <1>6, <1>7, <1>8, <1>9

\* an item has an outcome
LEMMA RecordKept ==
    ASSUME IInv, NEW r \in Runs, NEW s \in ItemStates \ {"none", "transferred"}, Record(r, s),
           Current(r) \in Remaining(r),
           s = "completed" => /\ offer[Current(r)].app # "published"
                              /\ offer'[Current(r)].app = "published"
                              /\ Missing(r, Current(r)) = {}
    PROVE  ItemFrame(r) /\ CoFrame(r) /\ OnlyCurrent(r)
<1>1. item \in Items BY Born
<1>2. item' = [item EXCEPT ![r][Current(r)].state = s] /\ NextItem(r) BY DEF Record
<1>3. \A j \in Jobs : item'[r][j].state # item[r][j].state =>
         j = Current(r) /\ item'[r][j].state = s
  BY <1>1, <1>2 DEF Items, ItemRecs
<1>4. \A t \in Runs \ {r} : item'[t] = item[t]
  BY <1>1, <1>2 DEF Items
<1> QED BY <1>2, <1>3, <1>4, CoFrames DEF ItemFrame, OnlyCurrent

\* releasing reservations changes no state, and no dossier
LEMMA ReleaseKept ==
    ASSUME TypeOK, NEW js, NEW its \in Items
    PROVE  /\ \A r \in Runs, j \in Jobs : Unlinked(its, js)[r][j].state = its[r][j].state
           /\ \A j \in Jobs : offer[j].app = "published" =>
                 OffersReleased(js)[j].app = "published"
<1>1. ASSUME NEW r \in Runs, NEW j \in Jobs
      PROVE  Unlinked(its, js)[r][j].state = its[r][j].state
  <2>1. its[r][j] \in ItemRecs BY DEF Items
  <2>2. [its[r][j] EXCEPT !.app = FALSE].state = its[r][j].state BY <2>1 DEF ItemRecs
  <2> QED BY <2>2 DEF Unlinked
<1>2. ASSUME NEW j \in Jobs, offer[j].app = "published"
      PROVE  OffersReleased(js)[j].app = "published"
  BY <1>2 DEF OffersReleased, AppReleased
<1> QED BY <1>1, <1>2

\* an item is given up
LEMMA DiscardKept ==
    ASSUME IInv, NEW r \in Runs, Discard(r), Current(r) \in Remaining(r),
           left'.steps = left.steps
    PROVE  CoFrame(r) /\ ItemFrame(r) /\ CallFrame(r) /\ OffersKept /\ OnlyCurrent(r)
<1> DEFINE j0 == Current(r)
           js == IF item[r][j0].app THEN {j0} ELSE {}
<1>1. item \in Items /\ call \in Journals /\ TypeOK /\ j0 \in Jobs
  BY Born DEF IInv, Remaining, ItemsOf
<1>2. /\ item' = [Unlinked(item, js) EXCEPT ![r][j0].state = "stale"]
      /\ offer' = OffersReleased(js) /\ NextItem(r)
      /\ call' = [call EXCEPT ![r][j0] = [k \in Positions |->
              IF call[r][j0][k].state = "prepared" THEN [call[r][j0][k] EXCEPT !.state = "failed"]
              ELSE call[r][j0][k]]]
  BY DEF Discard
<1>3. Unlinked(item, js) \in Items BY <1>1, ReleaseType
<1>4. \A t \in Runs, j \in Jobs : item'[t][j].state =
         IF t = r /\ j = j0 THEN "stale" ELSE Unlinked(item, js)[t][j].state
  <2> DEFINE its == Unlinked(item, js)
  <2>1. its \in Items /\ item' = [its EXCEPT ![r][j0].state = "stale"] BY <1>2, <1>3
  <2> HIDE DEF its, j0
  <2>2. ASSUME NEW t \in Runs, NEW j \in Jobs
        PROVE  item'[t][j].state = IF t = r /\ j = j0 THEN "stale" ELSE its[t][j].state
    <3>1. its[t][j] \in ItemRecs BY <2>1 DEF Items
    <3>2. CASE t = r /\ j = j0
      <4>1. item'[t][j] = [its[t][j] EXCEPT !.state = "stale"] BY <2>1, <3>2 DEF Items
      <4> QED BY <3>1, <3>2, <4>1 DEF ItemRecs
    <3>3. CASE ~(t = r /\ j = j0)
      <4>1. item'[t][j] = its[t][j] BY <2>1, <3>3 DEF Items
      <4> QED BY <3>3, <4>1
    <3> QED BY <3>2, <3>3
  <2> QED BY <2>2 DEF its
<1>5. \A t \in Runs, j \in Jobs : item'[t][j].state =
         IF t = r /\ j = j0 THEN "stale" ELSE item[t][j].state
  BY <1>1, <1>4, ReleaseKept
<1>6. CoFrame(r) BY <1>2, CoFrames
<1>7. ItemFrame(r) BY <1>5 DEF ItemFrame
<1>8. OffersKept BY <1>1, <1>2, ReleaseKept DEF OffersKept
<1>9. ASSUME NEW j \in Jobs, NEW k \in Positions, call[r][j][k].state = "completed"
      PROVE  call'[r][j][k].state = "completed"
  BY <1>1, <1>2, <1>9 DEF Journals
<1>10. \A t \in Runs \ {r} : call'[t] = call[t] BY <1>1, <1>2 DEF Journals
<1>11. OnlyCurrent(r) BY ZenonT(30), <1>2, <1>5 DEF OnlyCurrent
<1> QED BY <1>6, <1>7, <1>8, <1>9, <1>10, <1>11 DEF CallFrame

\* requests leave a wave
LEMMA PruneKept ==
    ASSUME IInv, NEW r \in Runs, NEW w \in Waves, Prune(r, w), wave[w].run = r,
           UNCHANGED offer
    PROVE  ItemFrame(r) /\ CallFrame(r)
<1>1. item \in Items /\ call \in Journals BY Born
<1> DEFINE out == wave[w].calls \ Kept(r, w)
           f == [j \in Jobs |-> IF j \in Eligible(r) /\ \E c \in out : c[1] = j
                                THEN [item[r][j] EXCEPT !.state = "stale"] ELSE item[r][j]]
           g == [j \in Jobs |-> [k \in Positions |->
                    IF <<j, k>> \in out THEN [call[r][j][k] EXCEPT !.state = "failed"]
                    ELSE call[r][j][k]]]
           calls == [call EXCEPT ![r] = g]
<1>2. item' = [item EXCEPT ![r] = f] BY DEF Prune
<1>3. \A j \in Jobs : item'[r][j] = f[j]
  <2> HIDE DEF f
  <2> QED BY <1>1, <1>2 DEF Items
<1>4. ASSUME NEW j \in Jobs, item'[r][j].state # item[r][j].state
      PROVE  j \in Remaining(r) /\ item'[r][j].state = "stale"
  <2>1. j \in Eligible(r) /\ item'[r][j] = [item[r][j] EXCEPT !.state = "stale"]
    BY <1>3, <1>4
  <2>2. item[r][j] \in ItemRecs BY <1>1 DEF Items
  <2>3. item'[r][j].state = "stale" BY <2>1, <2>2 DEF ItemRecs
  <2> QED BY <2>1, <2>3 DEF Eligible, Remaining, ItemsOf, TerminalItemStates
<1>5. ASSUME NEW t \in Runs \ {r} PROVE item'[t] = item[t]
  <2> HIDE DEF f
  <2> QED BY <1>1, <1>2 DEF Items
<1>6. ItemFrame(r) BY <1>4, <1>5 DEF ItemFrame
<1>7. call' = IF Kept(r, w) = {} THEN Unlink(calls, r, w) ELSE calls BY DEF Prune
<1>8. ASSUME NEW t \in Runs \ {r} PROVE call'[t] = call[t]
  <2>1. calls[t] = call[t]
    <3> HIDE DEF g
    <3> QED BY <1>1 DEF Journals
  <2>2. Unlink(calls, r, w)[t] = calls[t]
    <3>1. calls \in [Runs -> [Jobs -> [Positions -> CallRecs]]] \/ DOMAIN calls = Runs
      <4> HIDE DEF g
      <4> QED BY <1>1 DEF Journals
    <3> HIDE DEF calls
    <3> QED BY <3>1 DEF Unlink
  <2> HIDE DEF calls
  <2> QED BY <1>7, <2>1, <2>2
<1>9. ASSUME NEW j \in Jobs, NEW k \in Positions, call[r][j][k].state = "completed"
      PROVE  call'[r][j][k].state = "completed"
  <2>1. <<j, k>> \notin wave[w].calls
    BY <1>9, GenerationAssumption DEF IInv, Linked, LinkOf, GenerationAssumption
  <2>2. calls[r][j][k] = call[r][j][k]
    <3>1. g[j][k] = call[r][j][k] BY <2>1
    <3>2. calls[r] = g
      <4> HIDE DEF g
      <4> QED BY <1>1 DEF Journals
    <3> QED BY <3>1, <3>2
  <2>3. call[r][j][k] \in CallRecs BY <1>1 DEF Journals
  <2>4. Unlink(calls, r, w)[r][j][k].state = "completed"
    <3>1. DOMAIN calls = Runs
      <4> HIDE DEF g
      <4> QED BY <1>1 DEF Journals
    <3>2. Unlink(calls, r, w)[r][j][k] =
            IF calls[r][j][k].wave = w THEN [calls[r][j][k] EXCEPT !.wave = 0] ELSE calls[r][j][k]
      <4> HIDE DEF calls
      <4> QED BY <3>1 DEF Unlink
    <3> QED BY <1>9, <2>2, <2>3, <3>2 DEF CallRecs
  <2> HIDE DEF calls
  <2> QED BY <1>7, <1>9, <2>2, <2>4
<1> QED BY <1>6, <1>8, <1>9 DEF CallFrame

\* the calls of a wave in hand get a state, and may be unlinked
LEMMA WaveCallsKept ==
    ASSUME IInv, NEW r \in Runs, NEW w \in Waves, wave[w].run = r, NEW s \in CallStates
    PROVE  /\ \A t \in Runs \ {r} : WaveCalls(r, w, s)[t] = call[t]
           /\ \A c \in Journals, t \in Runs \ {r} : Unlink(c, r, w)[t] = c[t]
           /\ \A c \in Journals, j \in Jobs, k \in Positions :
                 Unlink(c, r, w)[r][j][k].state = c[r][j][k].state
           /\ \A j \in Jobs, k \in Positions :
                 WaveCalls(r, w, s)[r][j][k] =
                   IF <<j, k>> \in wave[w].calls THEN [call[r][j][k] EXCEPT !.state = s]
                   ELSE call[r][j][k]
           /\ \A j \in Jobs, k \in Positions :
                 call[r][j][k].state = "completed" =>
                    WaveCalls(r, w, s)[r][j][k].state = "completed"
<1>1. call \in Journals BY Born
<1>2. ASSUME NEW t \in Runs \ {r} PROVE WaveCalls(r, w, s)[t] = call[t]
  BY <1>1 DEF WaveCalls, Journals
<1>3. ASSUME NEW c \in Journals, NEW t \in Runs \ {r} PROVE Unlink(c, r, w)[t] = c[t]
  BY DEF Unlink, Journals
<1>4. ASSUME NEW c \in Journals, NEW j \in Jobs, NEW k \in Positions
      PROVE  Unlink(c, r, w)[r][j][k].state = c[r][j][k].state
  <2>1. c[r][j][k] \in CallRecs BY DEF Journals
  <2>2. Unlink(c, r, w)[r][j][k] =
          IF c[r][j][k].wave = w THEN [c[r][j][k] EXCEPT !.wave = 0] ELSE c[r][j][k]
    BY DEF Unlink, Journals
  <2> QED BY <2>1, <2>2 DEF CallRecs
<1>5. ASSUME NEW j \in Jobs, NEW k \in Positions
      PROVE  WaveCalls(r, w, s)[r][j][k] =
                IF <<j, k>> \in wave[w].calls THEN [call[r][j][k] EXCEPT !.state = s]
                ELSE call[r][j][k]
  BY <1>1 DEF WaveCalls, Journals
<1>6. ASSUME NEW j \in Jobs, NEW k \in Positions, call[r][j][k].state = "completed"
      PROVE  WaveCalls(r, w, s)[r][j][k].state = "completed"
  <2>1. <<j, k>> \notin wave[w].calls
    BY <1>6, GenerationAssumption DEF IInv, Linked, LinkOf, GenerationAssumption
  <2> QED BY <1>5, <1>6, <2>1
<1> QED BY <1>2, <1>3, <1>4, <1>5, <1>6

\* ... and so its answers stay
LEMMA WaveFrames ==
    ASSUME IInv, NEW r \in Runs, NEW w \in Waves, wave[w].run = r, NEW s \in CallStates
    PROVE  /\ call' = WaveCalls(r, w, s) => CallFrame(r)
           /\ call' = Unlink(WaveCalls(r, w, s), r, w) => CallFrame(r)
<1>1. WaveCalls(r, w, s) \in Journals BY WaveCallsType DEF IInv
<1>2. ASSUME call' = WaveCalls(r, w, s) PROVE CallFrame(r)
  BY <1>2, WaveCallsKept DEF CallFrame
<1>3. ASSUME call' = Unlink(WaveCalls(r, w, s), r, w) PROVE CallFrame(r)
  <2>1. ASSUME NEW t \in Runs \ {r} PROVE call'[t] = call[t]
    BY <1>1, <1>3, WaveCallsKept
  <2>2. ASSUME NEW j \in Jobs, NEW k \in Positions
        PROVE  call'[r][j][k].state = WaveCalls(r, w, s)[r][j][k].state
    BY <1>1, <1>3, WaveCallsKept
  <2> QED BY <2>1, <2>2, WaveCallsKept DEF CallFrame
<1> QED BY <1>2, <1>3

\* writing the next call of the item in hand
LEMMA NextCallFrame ==
    ASSUME IInv, NEW r \in Runs, Current(r) \in Jobs, Missing(r, Current(r)) # {}
    PROVE  /\ NextCall(r) \in Missing(r, Current(r)) /\ NextCall(r) \in Positions
           /\ \A s : call' = [call EXCEPT ![r][Current(r)][NextCall(r)].state = s] => CallFrame(r)
<1>1. left.steps \in Positions BY DEF IInv, TypeOK
<1>2. Missing(r, Current(r)) \subseteq Positions
  BY <1>1, GenerationAssumption DEF Missing, Positions, GenerationAssumption
<1>3. NextCall(r) \in Missing(r, Current(r))
  BY <1>2, MinIn DEF NextCall, Positions
<1>4. call[r][Current(r)][NextCall(r)].state # "completed" BY <1>3 DEF Missing
<1>5. ASSUME NEW s, call' = [call EXCEPT ![r][Current(r)][NextCall(r)].state = s]
      PROVE  CallFrame(r)
  <2> DEFINE jj == Current(r)
             kk == NextCall(r)
  <2>1. call \in Journals BY Born
  <2>2. call' = [call EXCEPT ![r][jj][kk].state = s] /\ call[r][jj][kk].state # "completed"
    BY <1>4, <1>5
  <2> HIDE DEF jj, kk
  <2>3. \A t \in Runs \ {r} : call'[t] = call[t] BY <2>1, <2>2 DEF Journals
  <2>4. ASSUME NEW j \in Jobs, NEW k \in Positions, call[r][j][k].state = "completed"
        PROVE  call'[r][j][k].state = "completed"
    <3>1. call'[r][j][k] = call[r][j][k] BY <2>1, <2>2, <2>4 DEF Journals
    <3> QED BY <2>4, <3>1
  <2> QED BY <2>3, <2>4 DEF CallFrame
<1> QED BY <1>2, <1>3, <1>5

\* what any step of a follow-up starts from
LEMMA FollowFacts ==
    ASSUME IInv, NEW r \in Runs
    PROVE  /\ co[r].pc # "idle" => run[r].state # "none"
           /\ \A w \in Waves : Handling(r, w) => wave[w].run = r
           /\ due \subseteq due \cup {r}
           /\ TypeOK /\ call \in Journals
<1>1. ASSUME NEW w \in Waves, Handling(r, w) PROVE wave[w].run = r
  <2>1. w \in co[r].waves BY <1>1, HandFacts DEF Handling
  <2> QED BY <2>1 DEF IInv, InTransport, TransportOf
<1> QED BY <1>1, Born DEF IInv

\* failing only counts a failure
LEMMA FailingKept ==
    ASSUME IInv, Failing
    PROVE  left'.steps = left.steps
<1>1. left \in [steps : Positions, edits : Nat, faults : Nat, retries : Nat]
  BY DEF IInv, TypeOK
<1>2. left' = [left EXCEPT !.faults = @ - 1] BY DEF Failing
<1> QED BY <1>1, <1>2

\* the transport
LEMMA SendStep ==
    ASSUME IInv, NEW r \in Runs
    PROVE  /\ TakeSync(r) \/ LockBusy(r) \/ TakeSend(r) \/ LeaveTransport(r) => StepOf(r)
           /\ \A w \in Waves : DropPrepared(r, w) \/ SkipBlocked(r, w) \/ Prepare(r, w) => StepOf(r)
           /\ Upload(r) \/ UploadFails(r) \/ Commit(r) => StepOf(r)
<1> USE QuietFrames, CoFrames, RunFrames, FollowFacts, Born DEF StepOf, At, world, journal
<1>1. ASSUME TakeSync(r) PROVE StepOf(r)
  BY <1>1 DEF TakeSync
<1>2. ASSUME LockBusy(r) PROVE StepOf(r)
  BY <1>2 DEF LockBusy
<1>3. ASSUME TakeSend(r) PROVE StepOf(r)
  <2>1. CASE run[r].stop \/ run[r].state # "active"
    BY <1>3, <2>1 DEF TakeSend
  <2>2. CASE ~(run[r].stop \/ run[r].state # "active")
    <3> DEFINE f == [j \in Jobs |-> [k \in Positions |->
                      IF j \in Unsent(r, k) THEN [state |-> "prepared", wave |-> WaveOf(r, k)]
                      ELSE call[r][j][k]]]
    <3>1. call' = [call EXCEPT ![r] = f] BY <1>3, <2>2 DEF TakeSend
    <3>2. ASSUME NEW j \in Jobs, NEW k \in Positions, call[r][j][k].state = "completed"
          PROVE  f[j][k].state = "completed"
      <4>1. j \notin Unsent(r, k) BY <3>2 DEF Unsent
      <4> QED BY <3>2, <4>1
    <3> HIDE DEF f
    <3>3. CallFrame(r) BY <3>1, <3>2 DEF CallFrame, Journals
    <3>4. CoFrame(r) BY <1>3, <2>2 DEF TakeSend
    <3> QED BY <1>3, <3>3, <3>4 DEF TakeSend
  <2> QED BY <2>1, <2>2
<1>4. ASSUME LeaveTransport(r) PROVE StepOf(r)
  <2>1. CoFrame(r)
    <3>1. co[r].phase \in {"first", "last", "send"}
      BY <1>4 DEF LeaveTransport, IInv, InTransport, TransportOf, BatchPcs, TransportPcs, TypeOK, CoRecs
    <3>2. CASE co[r].phase \in {"first", "last"} BY <1>4, <3>2 DEF LeaveTransport
    <3>3. CASE co[r].phase = "send" BY <1>4, <3>3 DEF LeaveTransport, CoFrame
    <3> QED BY <3>1, <3>2, <3>3
  <2> QED BY <1>4, <2>1 DEF LeaveTransport
<1>5. ASSUME NEW w \in Waves, DropPrepared(r, w) PROVE StepOf(r)
  <2>1. wave[w].run = r /\ "prepared" \in CallStates
    BY <1>5 DEF DropPrepared, CallStates
  <2>2. CallFrame(r) BY <1>5, <2>1, WaveFrames DEF DropPrepared, CancelPrepared
  <2> QED BY <1>5, <2>2 DEF DropPrepared, Handling
<1>6. ASSUME NEW w \in Waves, SkipBlocked(r, w) PROVE StepOf(r)
  BY <1>6 DEF SkipBlocked, Handling
<1>7. ASSUME NEW w \in Waves, Prepare(r, w) PROVE StepOf(r)
  <2>1. wave[w].run = r BY <1>7 DEF Prepare
  <2>2. ItemFrame(r) /\ CallFrame(r) BY <1>7, <2>1, PruneKept DEF Prepare
  <2> QED BY <1>7, <2>2 DEF Prepare, Handling
<1>8. ASSUME Upload(r) PROVE StepOf(r)
  <2>1. Handled(r) \in Waves /\ wave[Handled(r)].run = r
    BY <1>8, HandFacts DEF Upload, WavePcs
  <2>2. ItemFrame(r) /\ CallFrame(r) BY <1>8, <2>1, PruneKept DEF Upload
  <2> QED BY <1>8, <2>2 DEF Upload
<1>9. ASSUME UploadFails(r) PROVE StepOf(r)
  <2>1. OffersKept BY <1>9, FailingKept DEF UploadFails, OffersKept
  <2> QED BY <1>9, <2>1 DEF UploadFails
<1>10. ASSUME Commit(r) PROVE StepOf(r)
  <2>1. Handled(r) \in Waves /\ wave[Handled(r)].run = r
    BY <1>10, HandFacts DEF Commit, WavePcs
  <2>2. "prepared" \in CallStates /\ "submitting" \in CallStates BY DEF CallStates
  <2>3. \/ call' = Unlink(WaveCalls(r, Handled(r), "prepared"), r, Handled(r))
        \/ call' = WaveCalls(r, Handled(r), "submitting")
    BY <1>10 DEF Commit, CancelPrepared
  <2>4. CallFrame(r) BY <2>1, <2>2, <2>3, WaveFrames
  <2> QED BY <1>10, <2>4 DEF Commit
<1> QED BY <1>1, <1>2, <1>3, <1>4, <1>5, <1>6, <1>7, <1>8, <1>9, <1>10

\* the POST and its answers are steps of the run
LEMMA PostStep ==
    ASSUME IInv, NEW r \in Runs
    PROVE  Post(r) \/ PostLost(r) \/ Posted(r) \/ PostRefused(r) \/ PostUnknown(r) => StepOf(r)
<1> USE QuietFrames, CoFrames, RunFrames, FollowFacts, Born DEF StepOf, At, world, journal
<1>1. ASSUME co[r].pc \in WavePcs PROVE Handled(r) \in Waves /\ wave[Handled(r)].run = r
  BY <1>1, HandFacts
<1>2. "submitted" \in CallStates /\ "failed" \in CallStates /\ "uncertain" \in CallStates
  BY DEF CallStates
<1>3. ASSUME Post(r) PROVE StepOf(r)
  BY <1>3 DEF Post
<1>4. ASSUME PostLost(r) PROVE StepOf(r)
  <2>1. OffersKept BY <1>4, FailingKept DEF PostLost, OffersKept
  <2> QED BY <1>4, <2>1 DEF PostLost
<1>5. ASSUME Posted(r) PROVE StepOf(r)
  <2>1. CallFrame(r) BY <1>1, <1>2, <1>5, WaveFrames DEF Posted, WavePcs
  <2> QED BY <1>5, <2>1 DEF Posted
<1>6. ASSUME PostRefused(r) PROVE StepOf(r)
  <2>1. CallFrame(r) BY <1>1, <1>2, <1>6, WaveFrames DEF PostRefused, WavePcs
  <2> QED BY <1>6, <2>1 DEF PostRefused
<1>7. ASSUME PostUnknown(r) PROVE StepOf(r)
  <2>1. CallFrame(r) BY <1>1, <1>2, <1>7, WaveFrames DEF PostUnknown, WavePcs
  <2> QED BY <1>7, <2>1 DEF PostUnknown
<1> QED BY <1>3, <1>4, <1>5, <1>6, <1>7

\* so is what is learnt of a wave
LEMMA RefreshStep ==
    ASSUME IInv, NEW r \in Runs, NEW w \in Waves
    PROVE  RefreshMissing(r, w) \/ RefreshRunning(r, w) \/ Import(r, w) \/ RefreshFails(r, w)
             => StepOf(r)
<1> USE QuietFrames, CoFrames, RunFrames, FollowFacts, Born
    DEF StepOf, At, world, journal, Refreshing, Handling
<1>1. ASSUME RefreshMissing(r, w) PROVE StepOf(r)
  BY <1>1 DEF RefreshMissing
<1>2. ASSUME RefreshRunning(r, w) PROVE StepOf(r)
  <2>1. CallFrame(r)
    <3>1. "submitted" \in CallStates BY DEF CallStates
    <3>2. wave[w].run = r BY <1>2 DEF RefreshRunning
    <3> QED BY <1>2, <3>1, <3>2, WaveFrames DEF RefreshRunning
  <2> QED BY <1>2, <2>1 DEF RefreshRunning
<1>3. ASSUME Import(r, w) PROVE StepOf(r)
  <2>1. PICK good \in SUBSET wave[w].calls :
           call' = Unlink([call EXCEPT ![r] = [j \in Jobs |-> [k \in Positions |->
              IF <<j, k>> \in wave[w].calls
              THEN [call[r][j][k] EXCEPT !.state = IF <<j, k>> \in good THEN "completed" ELSE "failed"]
              ELSE call[r][j][k]]]], r, w)
    BY <1>3 DEF Import
  <2> DEFINE f == [j \in Jobs |-> [k \in Positions |->
              IF <<j, k>> \in wave[w].calls
              THEN [call[r][j][k] EXCEPT !.state = IF <<j, k>> \in good THEN "completed" ELSE "failed"]
              ELSE call[r][j][k]]]
             calls == [call EXCEPT ![r] = f]
  <2>2. wave[w].run = r BY <1>3 DEF Import
  <2>3. f \in [Jobs -> [Positions -> CallRecs]]
    <3>1. ASSUME NEW j \in Jobs, NEW k \in Positions PROVE f[j][k] \in CallRecs
      <4>1. call[r][j][k] \in CallRecs BY DEF Journals
      <4>2. \A s \in {"completed", "failed"} : [call[r][j][k] EXCEPT !.state = s] \in CallRecs
        BY <4>1 DEF CallRecs, CallStates
      <4> QED BY <4>1, <4>2
    <3> QED BY <3>1
  <2>4. ASSUME NEW j \in Jobs, NEW k \in Positions, call[r][j][k].state = "completed"
        PROVE  f[j][k].state = "completed"
    <3>1. <<j, k>> \notin wave[w].calls
      BY <2>2, <2>4, GenerationAssumption DEF IInv, Linked, LinkOf, GenerationAssumption
    <3> QED BY <2>4, <3>1
  <2>5. call' = Unlink(calls, r, w) BY <2>1
  <2>6. calls \in Journals /\ calls[r] = f /\ \A t \in Runs \ {r} : calls[t] = call[t]
    <3> HIDE DEF f
    <3> QED BY <2>3 DEF Journals
  <2>7. "failed" \in CallStates BY DEF CallStates
  <2>8. ASSUME NEW t \in Runs \ {r} PROVE call'[t] = call[t]
    <3> HIDE DEF calls
    <3> QED BY <2>2, <2>5, <2>6, <2>7, WaveCallsKept
  <2>9. ASSUME NEW j \in Jobs, NEW k \in Positions PROVE call'[r][j][k].state = f[j][k].state
    <3> HIDE DEF calls, f
    <3> QED BY <2>2, <2>5, <2>6, <2>7, WaveCallsKept
  <2>10. CallFrame(r)
    <3> HIDE DEF f
    <3> QED BY <2>4, <2>8, <2>9 DEF CallFrame
  <2> QED BY <1>3, <2>10 DEF Import
<1>4. ASSUME RefreshFails(r, w) PROVE StepOf(r)
  <2>1. OffersKept BY <1>4, FailingKept DEF RefreshFails, OffersKept
  <2> QED BY <1>4, <2>1 DEF RefreshFails
<1> QED BY <1>1, <1>2, <1>3, <1>4

\* the item a follow-up executes is one the run still has to do
LEMMA ItemInHand ==
    ASSUME IInv, NEW r \in Runs, Executing(r) \/ co[r].pc \in ItemPcs \ {"items"}
    PROVE  /\ Current(r) \in Jobs /\ Current(r) \in co[r].jobs /\ Current(r) \in Remaining(r)
           /\ run[r].state # "none"
<1>1. co[r].pc \in ItemPcs /\ co[r].jobs # {} /\ co[r].pc # "idle"
  BY DEF Executing, At, ItemPcs, IInv, InHand, HandOf
<1>2. co[r].jobs \subseteq Remaining(r) BY <1>1 DEF IInv, InHand, HandOf
<1> QED BY <1>1, <1>2, HandFacts, FollowFacts

\* the application of an item does not tell its state
LEMMA AppFrame ==
    ASSUME IInv, NEW r \in Runs, NEW j
    PROVE  item' = [item EXCEPT ![r][j].app = TRUE] => ItemFrame(r)
<1>1. item \in Items BY Born
<1>2. ASSUME item' = [item EXCEPT ![r][j].app = TRUE], NEW t \in Runs, NEW i \in Jobs
      PROVE  item'[t][i].state = item[t][i].state
  <2>1. item[t][i] \in ItemRecs BY <1>1 DEF Items
  <2>2. item'[t][i] = item[t][i] \/ item'[t][i] = [item[t][i] EXCEPT !.app = TRUE]
    BY <1>1, <1>2 DEF Items
  <2> QED BY <2>1, <2>2 DEF ItemRecs
<1> QED BY <1>2 DEF ItemFrame

\* so is the execution of an item, up to its replay
LEMMA ExecuteStep ==
    ASSUME IInv, NEW r \in Runs,
           \/ ReadItems(r) \/ ItemStale(r) \/ ItemFails(r) \/ ItemStillWaits(r) \/ Reserve(r)
           \/ Acknowledge(r) \/ ReplayStops(r) \/ ReplayStale(r) \/ ReplayMismatch(r)
    PROVE  StepOf(r)
<1> USE QuietFrames, CoFrames, RunFrames, FollowFacts DEF StepOf, world, journal
<1>1. CASE ReadItems(r)
  <2>1. CoFrame(r) BY <1>1, Born DEF ReadItems, CoFrame
  <2> QED BY <1>1, <2>1 DEF ReadItems, At
<1>2. CASE ItemStale(r)
  <2>1. Current(r) \in Remaining(r) /\ run[r].state # "none" BY <1>2, ItemInHand DEF ItemStale
  <2> QED BY <1>2, <2>1, DiscardKept DEF ItemStale
<1>3. CASE ItemFails(r)
  <2>1. Current(r) \in Remaining(r) /\ run[r].state # "none"
    BY <1>3, ItemInHand DEF ItemFails, At, ItemPcs
  <2>2. "failed" \in ItemStates \ {"none", "transferred"} BY DEF ItemStates
  <2>3. ItemFrame(r) /\ CoFrame(r) BY <1>3, <2>1, <2>2, RecordKept DEF ItemFails
  <2>4. OffersKept BY <1>3, FailingKept DEF ItemFails, OffersKept
  <2> QED BY <1>3, <2>1, <2>3, <2>4 DEF ItemFails
<1>4. CASE ItemStillWaits(r)
  <2>1. run[r].state # "none" BY <1>4, ItemInHand DEF ItemStillWaits
  <2> QED BY <1>4, <2>1 DEF ItemStillWaits
<1>5. CASE Reserve(r)
  <2>1. run[r].state # "none" BY <1>5, ItemInHand DEF Reserve
  <2>2. item' = [item EXCEPT ![r][Current(r)].app = TRUE] \/ UNCHANGED item
    BY <1>5 DEF Reserve
  <2>3. ItemFrame(r) BY <2>2, AppFrame
  <2>4. UNCHANGED offer \/ (offer[Current(r)].app = "none"
                            /\ offer' = [offer EXCEPT ![Current(r)].app = "empty"])
    BY <1>5 DEF Reserve
  <2>5. OffersKept
    <3>1. offer \in [Jobs -> OfferRecs] BY DEF IInv, TypeOK
    <3>2. left'.steps = left.steps BY <1>5 DEF Reserve
    <3> QED BY <2>4, <3>1, <3>2 DEF OffersKept
  <2>6. CoFrame(r) BY <1>5 DEF Reserve
  <2> QED BY <1>5, <2>1, <2>3, <2>5, <2>6 DEF Reserve
<1>6. CASE Acknowledge(r)
  <2>1. ItemFrame(r) BY <1>6, AppFrame DEF Acknowledge
  <2> QED BY <1>6, <2>1 DEF Acknowledge, At
<1>7. CASE ReplayStops(r)
  BY <1>7 DEF ReplayStops, At
<1>8. CASE ReplayStale(r)
  <2>1. Current(r) \in Remaining(r) BY <1>8, ItemInHand DEF ReplayStale, At, ItemPcs
  <2> QED BY <1>8, <2>1, DiscardKept DEF ReplayStale, At
<1>9. CASE ReplayMismatch(r)
  <2>1. Current(r) \in Remaining(r)
    BY <1>9, ItemInHand DEF ReplayMismatch, Replaying, At, ItemPcs
  <2>2. left'.steps = left.steps BY <1>9, FailingKept DEF ReplayMismatch
  <2> QED BY <1>9, <2>1, <2>2, DiscardKept DEF ReplayMismatch, Replaying, At
<1> QED BY <1>1, <1>2, <1>3, <1>4, <1>5, <1>6, <1>7, <1>8, <1>9

\* so are the replay and the immediate calls it makes
LEMMA ReplayStep ==
    ASSUME IInv, NEW r \in Runs,
           \/ ReplayWaits(r) \/ ReplayFails(r) \/ ReplayCalls(r) \/ Intend(r) \/ Answer(r)
           \/ AnswerFails(r) \/ Publish(r)
    PROVE  StepOf(r)
<1> USE QuietFrames, CoFrames, RunFrames, FollowFacts DEF StepOf, world, journal
<1>1. co[r].pc \in ItemPcs \ {"items"}
  BY DEF ReplayWaits, ReplayFails, ReplayCalls, Intend, Answer, AnswerFails, Publish, Replaying, At,
         ItemPcs
<1>2. Current(r) \in Jobs /\ Current(r) \in Remaining(r) /\ run[r].state # "none"
  BY <1>1, ItemInHand
<1>3. co[r].pc \in CallPcs => Missing(r, Current(r)) # {} BY DEF IInv, InHand, HandOf
<1>4. \A s \in {"failed", "waiting", "completed"} : s \in ItemStates \ {"none", "transferred"}
  BY DEF ItemStates, TerminalItemStates
<1>5. CASE ReplayWaits(r)
  <2>1. ItemFrame(r) /\ CoFrame(r) BY <1>2, <1>4, <1>5, RecordKept DEF ReplayWaits
  <2>2. Missing(r, Current(r)) # {} BY <1>5 DEF ReplayWaits, CallIs
  <2>3. CallFrame(r) BY <1>2, <1>5, <2>2, NextCallFrame DEF ReplayWaits
  <2> QED BY <1>2, <1>5, <2>1, <2>3 DEF ReplayWaits
<1>6. CASE ReplayFails(r)
  <2>1. ItemFrame(r) /\ CoFrame(r) BY <1>2, <1>4, <1>6, RecordKept DEF ReplayFails
  <2> QED BY <1>2, <1>6, <2>1 DEF ReplayFails
<1>7. CASE ReplayCalls(r)
  <2>1. Missing(r, Current(r)) # {} BY <1>7 DEF ReplayCalls, CallIs
  <2>2. CallFrame(r) BY <1>2, <1>7, <2>1, NextCallFrame DEF ReplayCalls
  <2> QED BY <1>2, <1>7, <2>2 DEF ReplayCalls
<1>8. CASE Intend(r)
  <2>1. CallFrame(r) BY <1>2, <1>3, <1>8, NextCallFrame DEF Intend, At, CallPcs
  <2> QED BY <1>2, <1>8, <2>1 DEF Intend
<1>9. CASE Answer(r)
  <2>1. CallFrame(r) BY <1>2, <1>3, <1>9, NextCallFrame DEF Answer, At, CallPcs
  <2> QED BY <1>2, <1>9, <2>1 DEF Answer
<1>10. CASE AnswerFails(r)
  <2>1. ItemFrame(r) /\ CoFrame(r) BY <1>2, <1>4, <1>10, RecordKept DEF AnswerFails
  <2>2. CallFrame(r) BY <1>2, <1>3, <1>10, NextCallFrame DEF AnswerFails, At, CallPcs
  <2>3. OffersKept BY <1>10, FailingKept DEF AnswerFails, OffersKept
  <2> QED BY <1>2, <1>10, <2>1, <2>2, <2>3 DEF AnswerFails
<1>11. CASE Publish(r)
  <2>1. offer \in [Jobs -> OfferRecs] BY DEF IInv, TypeOK
  <2>2. offer[Current(r)].app # "published" /\ offer'[Current(r)].app = "published"
        /\ Missing(r, Current(r)) = {}
    BY <1>2, <1>11, <2>1 DEF Publish, Replaying, OfferRecs
  <2>3. ItemFrame(r) /\ CoFrame(r) BY <1>2, <1>4, <1>11, <2>2, RecordKept DEF Publish
  <2>4. OffersKept BY <1>11, <2>1 DEF Publish, OffersKept, OfferRecs
  <2> QED BY <1>2, <1>11, <2>3, <2>4 DEF Publish
<1> QED BY <1>5, <1>6, <1>7, <1>8, <1>9, <1>10, <1>11

\* so is the end of a follow-up
LEMMA EndStep ==
    ASSUME IInv, NEW r \in Runs, AfterItems(r) \/ Recheck(r) \/ Finish(r)
    PROVE  StepOf(r)
<1> USE QuietFrames, CoFrames, RunFrames, FollowFacts DEF StepOf, world, journal, At
<1>1. CASE AfterItems(r)
  <2>1. CoFrame(r) BY <1>1, Born DEF AfterItems, CoFrame
  <2> QED BY <1>1, <2>1 DEF AfterItems
<1>2. CASE Recheck(r)
  BY <1>2 DEF Recheck
<1>3. CASE Finish(r)
  <2>1. co[r].stopped \in BOOLEAN
    <3>1. co[r] \in CoRecs BY Born
    <3> QED BY <3>1 DEF CoRecs
  <2>2. run[r].state # "none" /\ run' = [run EXCEPT ![r] = Settled(r, co[r].stopped)]
    BY <1>3 DEF Finish
  <2>3. RunFrame(r) BY <1>3, <2>1, <2>2 DEF Finish
  <2>4. \E js : offer' = OffersReleased(js) /\ item' = Unlinked(item, js)
    BY <1>3 DEF Finish
  <2>5. ItemFrame(r) BY <2>4, Born, ReleaseKept DEF ItemFrame
  <2>6. OffersKept BY ZenonT(30), <1>3, <2>4, Born, ReleaseKept DEF OffersKept, Finish
  <2> QED BY <1>3, <2>3, <2>5, <2>6 DEF Finish
<1> QED BY <1>1, <1>2, <1>3

\* so is what the user and the timer ask
LEMMA UserStep ==
    ASSUME IInv, NEW r \in Runs,
           Advance(r) \/ Retry(r) \/ Cancel(r) \/ Abandon(r) \/ Sync(r) \/ SyncImmediate(r)
    PROVE  StepOf(r)
<1> USE QuietFrames, CoFrames, RunFrames, FollowFacts DEF StepOf, world, journal
<1>1. CASE Advance(r)
  <2>1. run[r].state # "none" BY <1>1, Born DEF Advance
  <2>2. CoFrame(r) BY <1>1, Born DEF Advance, CoFrame
  <2>3. due' \subseteq due \cup {r} BY <1>1 DEF Advance
  <2> QED BY <1>1, <2>1, <2>2, <2>3 DEF Advance
<1>2. CASE Retry(r)
  <2>1. run[r].state # "none" BY <1>2 DEF Retry
  <2>2. CoFrame(r) BY <1>2, Born DEF Retry, CoFrame
  <2>3. ItemFrame(r)
    <3>1. item' = [item EXCEPT ![r] = RetryItems(r)] /\ item \in Items BY <1>2, Born DEF Retry
    <3>2. \A s \in Runs \ {r} : item'[s] = item[s] BY <3>1 DEF Items
    <3>3. ASSUME NEW j \in Jobs, item'[r][j].state # item[r][j].state
          PROVE  j \in Remaining(r) /\ item'[r][j].state = "pending"
      <4>1. item'[r][j] = RetryItems(r)[j] /\ item[r][j] \in ItemRecs BY <3>1 DEF Items
      <4>2. item[r][j].state \in {"failed", "waiting"}
            /\ item'[r][j] = [item[r][j] EXCEPT !.state = "pending"]
        BY <3>3, <4>1 DEF RetryItems
      <4> QED BY <4>1, <4>2 DEF ItemRecs, Remaining, ItemsOf, TerminalItemStates
    <3> QED BY <3>2, <3>3 DEF ItemFrame
  <2>4. CallFrame(r)
    <3>1. call' = [call EXCEPT ![r] = RetryCalls(r)] /\ call \in Journals BY <1>2 DEF Retry
    <3>2. \A s \in Runs \ {r} : call'[s] = call[s] BY <3>1 DEF Journals
    <3>3. \A j \in Jobs, k \in Positions : call'[r][j][k] = RetryCalls(r)[j][k]
      BY <3>1 DEF Journals
    <3> QED BY <3>2, <3>3 DEF CallFrame, RetryCalls
  <2>5. OffersKept
    <3>1. left \in [steps : Positions, edits : Nat, faults : Nat, retries : Nat]
      BY DEF TypeOK
    <3>2. left' = [left EXCEPT !.retries = @ - 1] /\ UNCHANGED offer BY <1>2 DEF Retry
    <3> QED BY <3>1, <3>2 DEF OffersKept
  <2>6. RunFrame(r) BY <1>2, <2>1 DEF Retry
  <2> QED BY <2>2, <2>3, <2>4, <2>5, <2>6
<1>3. CASE Cancel(r)
  <2>1. run[r].state # "none" /\ due' \subseteq due \cup {r}
    BY <1>3 DEF Cancel, ReservedRunStates, FollowedRunStates
  <2>2. CoFrame(r) BY <1>3 DEF Cancel, CoFrame
  <2>3. RunFrame(r) BY <1>3, <2>1 DEF Cancel
  <2> QED BY <1>3, <2>2, <2>3 DEF Cancel
<1>4. CASE Abandon(r)
  <2>1. run[r].state # "none" /\ due' \subseteq due \cup {r} BY <1>4 DEF Abandon
  <2>2. CoFrame(r) BY <1>4 DEF Abandon, CoFrame
  <2>3. RunFrame(r) BY <1>4, <2>1 DEF Abandon
  <2>4. \E js : offer' = OffersReleased(js) /\ item' = Unlinked(item, js)
    BY <1>4 DEF Abandon
  <2>5. ItemFrame(r) BY <2>4, Born, ReleaseKept DEF ItemFrame
  <2>6. OffersKept BY ZenonT(30), <1>4, <2>4, Born, ReleaseKept DEF OffersKept, Abandon
  <2> QED BY <1>4, <2>2, <2>3, <2>5, <2>6 DEF Abandon
<1>5. CASE Sync(r)
  <2>1. run[r].state # "none" BY <1>5 DEF Sync, FollowedRunStates
  <2>2. CoFrame(r) BY <1>5, Born DEF Sync, CoFrame
  <2> QED BY <1>5, <2>1, <2>2 DEF Sync
<1>6. CASE SyncImmediate(r)
  <2>1. run[r].state # "none" /\ due' \subseteq due \cup {r}
    BY <1>6 DEF SyncImmediate, FollowedRunStates
  <2>2. CoFrame(r) BY <1>6 DEF SyncImmediate, CoFrame
  <2>3. RunFrame(r) BY <1>6, <2>1 DEF SyncImmediate
  <2>4. \E js : offer' = OffersReleased(js) /\ item' = Unlinked(item, js)
    BY <1>6 DEF SyncImmediate
  <2>5. ItemFrame(r) BY <2>4, Born, ReleaseKept DEF ItemFrame
  <2>6. OffersKept
    <3>1. left'.steps = left.steps BY <1>6 DEF SyncImmediate
    <3> QED BY <2>4, <3>1, Born, ReleaseKept DEF OffersKept
  <2>7. CallFrame(r)
    <3> DEFINE f == [j \in Jobs |-> [k \in Positions |->
              IF call[r][j][k].state = "submitting"
              THEN [call[r][j][k] EXCEPT !.state = "uncertain"] ELSE call[r][j][k]]]
    <3>1. call' = [call EXCEPT ![r] = f] BY <1>6 DEF SyncImmediate
    <3>2. \A j \in Jobs, k \in Positions :
             call[r][j][k].state = "completed" => f[j][k].state = "completed"
      OBVIOUS
    <3> HIDE DEF f
    <3> QED BY <3>1, <3>2 DEF CallFrame, Journals
  <2> QED BY <2>2, <2>3, <2>5, <2>6, <2>7
<1> QED BY <1>1, <1>2, <1>3, <1>4, <1>5, <1>6

----------------------------------------------------------------------------
(* One owner, one dossier.                                                 *)

\* no step of a run gives it an item, and none takes a dossier back
LEMMA OwnerKept ==
    ASSUME IInv, NEW r \in Runs, StepOf(r)
    PROVE  OneOwner' /\ OneDossier'
<1> USE DEF StepOf
<1>1. ASSUME NEW s \in Runs, NEW j \in Jobs, j \in Remaining(s)' PROVE j \in Remaining(s)
  BY <1>1 DEF ItemFrame, Remaining, ItemsOf
<1>2. OneOwner' BY <1>1 DEF IInv, OneOwner, Sources
<1>3. ASSUME NEW s \in Runs, NEW j \in Jobs, item'[s][j].state = "completed",
             item[s][j].state # "completed"
      PROVE  s = r /\ offer[j].app # "published" /\ offer'[j].app = "published" /\ Missing(r, j) = {}
  BY <1>3 DEF ItemFrame
<1>4. ASSUME NEW s \in Runs, NEW j \in Jobs, Missing(s, j) = {} PROVE Missing(s, j)' = {}
  <2>1. left.steps \in Positions /\ left'.steps = left.steps
    BY DEF IInv, TypeOK, OffersKept
  <2>2. 1..left.steps \subseteq Positions
    BY <2>1, GenerationAssumption DEF Positions, GenerationAssumption
  <2>3. \A k \in Positions : call[s][j][k].state = "completed" => call'[s][j][k].state = "completed"
    BY DEF CallFrame
  <2> QED BY <1>4, <2>1, <2>2, <2>3 DEF Missing
<1>5. ASSUME NEW s \in Runs, NEW j \in Jobs, item'[s][j].state = "completed"
      PROVE  offer'[j].app = "published" /\ Missing(s, j)' = {}
  <2>1. CASE item[s][j].state = "completed"
    <3>1. offer[j].app = "published" /\ Missing(s, j) = {} BY <2>1 DEF IInv, OneDossier
    <3> QED BY <1>4, <3>1 DEF OffersKept
  <2>2. CASE item[s][j].state # "completed" BY <1>3, <1>4, <1>5, <2>2
  <2> QED BY <2>1, <2>2
<1>6. ASSUME NEW s \in Runs, NEW t \in Runs, NEW j \in Jobs,
             item'[s][j].state = "completed", item'[t][j].state = "completed"
      PROVE  s = t
  <2>1. CASE item[s][j].state = "completed" /\ item[t][j].state = "completed"
    BY <2>1 DEF IInv, OneDossier
  <2>2. CASE item[s][j].state = "completed" /\ item[t][j].state # "completed"
    BY <1>3, <1>6, <2>2 DEF IInv, OneDossier
  <2>3. CASE item[s][j].state # "completed" /\ item[t][j].state = "completed"
    BY <1>3, <1>6, <2>3 DEF IInv, OneDossier
  <2>4. CASE item[s][j].state # "completed" /\ item[t][j].state # "completed"
    BY <1>3, <1>6, <2>4
  <2> QED BY <2>1, <2>2, <2>3, <2>4
<1>7. OneDossier' BY <1>5, <1>6 DEF OneDossier
<1> QED BY <1>2, <1>7

\* neither does what leaves the journal alone
LEMMA OwnerApart ==
    ASSUME IInv, UNCHANGED <<item, call>>, OffersKept
    PROVE  OneOwner' /\ OneDossier'
<1>1. OneOwner' BY DEF IInv, OneOwner, Sources, Remaining, ItemsOf
<1>2. \A s \in Runs, j \in Jobs : Missing(s, j)' = Missing(s, j) BY DEF Missing, OffersKept
<1>3. OneDossier' BY <1>2 DEF IInv, OneDossier, OffersKept
<1> QED BY <1>1, <1>3

\* what starting a run does to the items
LEMMA StartItems ==
    ASSUME IInv, NEW r \in Runs, NEW js \in SUBSET Jobs, NEW mode \in Modes, Start(r, js, mode)
    PROVE  /\ \A j \in Jobs : item'[r][j].state = IF j \in js THEN "pending" ELSE "none"
           /\ \A s \in Runs \ {r}, j \in Jobs :
                 item'[s][j].state = IF j \in js /\ Sources(j) # {} /\ s = SourceOf(j)
                                     THEN "transferred" ELSE item[s][j].state
           /\ \A s \in Runs \ {r} : call'[s] = call[s]
           /\ call'[r] = [j \in Jobs |-> IF j \in js THEN Copied(j) ELSE NoCalls]
           /\ run[r].state = "none"
           /\ \A j \in js : Sources(j) # {} => SourceOf(j) # r
<1>1. /\ run[r].state = "none"
      /\ item' = [Transferred(js) EXCEPT ![r] =
              [j \in Jobs |-> IF j \in js THEN NewItem(j) ELSE item[r][j]]]
      /\ call' = [call EXCEPT ![r] = [j \in Jobs |-> IF j \in js THEN Copied(j) ELSE NoCalls]]
  BY DEF Start
<1>2. \A j \in Jobs : item[r][j].state = "none" BY <1>1 DEF IInv, Unborn
<1>3. item \in Items /\ call \in Journals BY Born
<1>4. \A j \in Jobs : item'[r][j] = IF j \in js THEN NewItem(j) ELSE item[r][j]
  BY <1>1 DEF Transferred
<1>5. \A j \in Jobs : item'[r][j].state = IF j \in js THEN "pending" ELSE "none"
  <2>1. \A j \in Jobs : NewItem(j).state = "pending" BY DEF NewItem
  <2> QED BY <1>2, <1>4, <2>1
<1>6. ASSUME NEW s \in Runs \ {r}, NEW j \in Jobs
      PROVE  item'[s][j].state = IF j \in js /\ Sources(j) # {} /\ s = SourceOf(j)
                                 THEN "transferred" ELSE item[s][j].state
  <2>1. item[s][j] \in ItemRecs BY <1>3 DEF Items
  <2>2. item'[s][j] = IF j \in js /\ Sources(j) # {} /\ s = SourceOf(j)
                      THEN [item[s][j] EXCEPT !.state = "transferred"] ELSE item[s][j]
    BY <1>1 DEF Transferred
  <2> QED BY <2>1, <2>2 DEF ItemRecs
<1>7. \A s \in Runs \ {r} : call'[s] = call[s] BY <1>1, <1>3 DEF Journals
<1>8. call'[r] = [j \in Jobs |-> IF j \in js THEN Copied(j) ELSE NoCalls]
  BY <1>1, <1>3 DEF Journals
<1>9. ASSUME NEW j \in js, Sources(j) # {} PROVE SourceOf(j) # r
  <2>1. j \in Remaining(SourceOf(j)) BY <1>9, SourceIs
  <2> QED BY <1>2, <2>1 DEF Remaining, ItemsOf
<1> QED BY <1>1, <1>5, <1>6, <1>7, <1>8, <1>9

\* a new run is the only owner of what it takes
LEMMA OwnerStart ==
    ASSUME IInv, NEW r \in Runs, NEW js \in SUBSET Jobs, NEW mode \in Modes, Start(r, js, mode)
    PROVE  OneOwner' /\ OneDossier'
<1> DEFINE Leaves(s, j) == j \in js /\ Sources(j) # {} /\ s = SourceOf(j)
<1>a. \A j \in Jobs : item'[r][j].state = IF j \in js THEN "pending" ELSE "none"
  BY StartItems
<1>b. \A s \in Runs \ {r}, j \in Jobs :
         item'[s][j].state = IF Leaves(s, j) THEN "transferred" ELSE item[s][j].state
  BY StartItems
<1>c. \A s \in Runs \ {r} : call'[s] = call[s]
  BY StartItems
<1>1. ASSUME NEW s \in Runs, NEW j \in Jobs, j \in Remaining(s)', s # r
      PROVE  j \in Remaining(s) /\ j \notin js
  <2>1. item'[s][j].state \notin TerminalItemStates \cup {"none"}
    BY <1>1 DEF Remaining, ItemsOf
  <2>2. ~Leaves(s, j) /\ item'[s][j].state = item[s][j].state
    <3>1. s \in Runs \ {r} BY <1>1
    <3> HIDE DEF Leaves
    <3> QED BY <1>b, <2>1, <3>1 DEF TerminalItemStates
  <2>3. j \in Remaining(s) BY <2>1, <2>2 DEF Remaining, ItemsOf
  <2>4. Sources(j) # {} BY <2>3 DEF Sources
  <2>5. s = SourceOf(j) BY <2>3, <2>4, SourceIs
  <2> QED BY <2>2, <2>3, <2>4, <2>5
<1>2. ASSUME NEW j \in Jobs, j \in Remaining(r)' PROVE j \in js
  BY <1>2, <1>a DEF Remaining, ItemsOf
<1>3. ASSUME NEW j \in Jobs, NEW s \in Sources(j)', NEW t \in Sources(j)' PROVE s = t
  <2>1. s \in Runs /\ t \in Runs /\ j \in Remaining(s)' /\ j \in Remaining(t)' BY DEF Sources
  <2>2. CASE s = r \/ t = r BY <1>1, <1>2, <2>1, <2>2
  <2>3. CASE s # r /\ t # r
    <3>1. s \in Sources(j) /\ t \in Sources(j) BY <1>1, <2>1, <2>3 DEF Sources
    <3> QED BY <3>1 DEF IInv, OneOwner
  <2> QED BY <2>2, <2>3
<1>4. OneOwner' BY <1>3 DEF OneOwner
<1>5. ASSUME NEW s \in Runs, NEW j \in Jobs, item'[s][j].state = "completed"
      PROVE  s # r /\ item[s][j].state = "completed"
  <2>1. s # r BY <1>5, <1>a
  <2>2. s \in Runs \ {r} BY <2>1
  <2> HIDE DEF Leaves
  <2> QED BY <1>5, <1>b, <2>1, <2>2
<1>6. UNCHANGED <<offer, left>> BY DEF Start, world
<1>7. \A s \in Runs \ {r}, j \in Jobs : Missing(s, j)' = Missing(s, j)
  BY <1>6, <1>c DEF Missing
<1>8. OneDossier' BY <1>5, <1>6, <1>7 DEF IInv, OneDossier
<1> QED BY <1>4, <1>8

----------------------------------------------------------------------------
(* What a run has in hand, and its waves.                                  *)

\* whoever does not hold the transport lock leaves the waves of the others alone
WaveFrame(r) ==
    /\ \/ lock = NoRun
       \/ /\ lock' = lock \/ lock = r
          /\ \A v \in Waves : wave[v].run # r => wave'[v] = wave[v]
    /\ \A v \in Waves : wave'[v].run \in {wave[v].run, r, NoRun}
    /\ \A v \in Waves : wave[v].state # "submitting" /\ wave'[v].state = "submitting" =>
          wave'[v].run = r /\ ~run[r].stop

\* where a follow-up stands after each way of writing it
LEMMA CoAfter ==
    ASSUME IInv, NEW r \in Runs
    PROVE  /\ \A p : Go(r, p) => /\ co'[r].pc = p /\ co'[r].jobs = co[r].jobs
                                 /\ co'[r].waves = co[r].waves /\ co'[r].phase = co[r].phase
           /\ NextItem(r) => /\ co'[r].pc = "items" /\ co'[r].jobs = co[r].jobs \ {Current(r)}
                             /\ co'[r].waves = co[r].waves /\ co'[r].phase = co[r].phase
           /\ \A went : NextWave(r, went) =>
                             /\ co'[r].pc = "waves" /\ co'[r].waves \subseteq co[r].waves \ {Handled(r)}
                             /\ co'[r].phase = co[r].phase
           /\ \A ws : Reach(r, ws) => /\ co'[r].pc = "waves" /\ co'[r].waves = ws
                                      /\ co'[r].phase = co[r].phase /\ lock' = r
           /\ Block(r) => co'[r] = IdleCo /\ lock' = Freed(r)
<1>1. co \in [Runs -> CoRecs] /\ co[r] \in CoRecs BY Born
<1>2. ASSUME NEW p, Go(r, p)
      PROVE  /\ co'[r].pc = p /\ co'[r].jobs = co[r].jobs
             /\ co'[r].waves = co[r].waves /\ co'[r].phase = co[r].phase
  <2>1. co'[r] = [co[r] EXCEPT !.pc = p] BY <1>1, <1>2 DEF Go
  <2> QED BY <1>1, <2>1 DEF CoRecs
<1>3. ASSUME NextItem(r)
      PROVE  /\ co'[r].pc = "items" /\ co'[r].jobs = co[r].jobs \ {Current(r)}
             /\ co'[r].waves = co[r].waves /\ co'[r].phase = co[r].phase
  <2>1. co'[r] = [co[r] EXCEPT !.pc = "items", !.jobs = @ \ {Current(r)}]
    BY <1>1, <1>3 DEF NextItem
  <2> QED BY <1>1, <2>1 DEF CoRecs
<1>4. ASSUME NEW went, NextWave(r, went)
      PROVE  /\ co'[r].pc = "waves" /\ co'[r].waves \subseteq co[r].waves \ {Handled(r)}
             /\ co'[r].phase = co[r].phase
  <2>1. co'[r] = [co[r] EXCEPT !.pc = "waves",
              !.waves = IF co[r].phase = "send" /\ ~went THEN {} ELSE @ \ {Handled(r)}]
    BY <1>1, <1>4 DEF NextWave
  <2> QED BY <1>1, <2>1 DEF CoRecs
<1>5. ASSUME NEW ws, Reach(r, ws)
      PROVE  /\ co'[r].pc = "waves" /\ co'[r].waves = ws
             /\ co'[r].phase = co[r].phase /\ lock' = r
  <2>1. co'[r] = [co[r] EXCEPT !.pc = "waves", !.waves = ws] BY <1>1, <1>5 DEF Reach
  <2>2. lock' = r BY <1>5 DEF Reach
  <2> QED BY <1>1, <2>1, <2>2 DEF CoRecs
<1>6. ASSUME Block(r) PROVE co'[r] = IdleCo /\ lock' = Freed(r)
  BY <1>1, <1>6 DEF Block
<1> QED BY <1>2, <1>3, <1>4, <1>5, <1>6

\* a follow-up at rest has nothing in hand
LEMMA RestHolds ==
    ASSUME NEW r \in Runs, co'[r] = IdleCo
    PROVE  HandOf(r)' /\ TransportOf(r)'
BY DEF HandOf, TransportOf, IdleCo, ItemPcs, CallPcs, BatchPcs, TransportPcs, WavePcs

\* other runs keep what they have in hand
LEMMA OthersHold ==
    ASSUME IInv, NEW r \in Runs, StepOf(r), WaveFrame(r), NEW s \in Runs \ {r}
    PROVE  HandOf(s)' /\ TransportOf(s)'
<1>1. co'[s] = co[s] /\ run'[s] = run[s] /\ call'[s] = call[s] /\ left'.steps = left.steps
      /\ \A j \in Jobs : item'[s][j].state = item[s][j].state
  BY DEF StepOf, CoFrame, RunFrame, CallFrame, ItemFrame, OffersKept
<1>2. Remaining(s)' = Remaining(s) BY <1>1 DEF Remaining, ItemsOf
<1>3. Current(s)' = Current(s) BY <1>1 DEF Current
<1>4. Missing(s, Current(s))' = Missing(s, Current(s)) BY <1>1, <1>3 DEF Missing
<1>5. HandOf(s)' BY <1>1, <1>2, <1>4 DEF IInv, InHand, HandOf
<1>6. TransportOf(s) /\ s # NoRun
  BY GenerationAssumption DEF IInv, InTransport, GenerationAssumption
<1>7. co[s].waves \subseteq Waves
  <2>1. co[s] \in CoRecs BY Born
  <2> QED BY <2>1 DEF CoRecs
<1>8. co[s].pc \in TransportPcs => lock' = s
  BY <1>6 DEF TransportOf, WaveFrame
<1>9. \A w \in co[s].waves : wave'[w].run = s
  BY <1>6, <1>7 DEF TransportOf, WaveFrame
<1>10. TransportOf(s)' BY <1>1, <1>6, <1>8, <1>9 DEF TransportOf
<1> QED BY <1>5, <1>10

\* a run that is not registered still has nothing
LEMMA UnbornKept ==
    ASSUME IInv, NEW r \in Runs, StepOf(r), WaveFrame(r)
    PROVE  Unborn'
<1> SUFFICES ASSUME NEW s \in Runs, run'[s].state = "none"
             PROVE  /\ co'[s].pc = "idle" /\ s \notin due'
                    /\ \A j \in Jobs : item'[s][j].state = "none"
                    /\ \A w \in Waves : wave'[w].run # s
                    /\ \A j \in Jobs, k \in Positions : call'[s][j][k].state # "completed"
  BY DEF Unborn
<1>1. s # r BY DEF StepOf, RunFrame
<1>2. s # NoRun BY GenerationAssumption DEF GenerationAssumption
<1>3. run[s].state = "none" /\ co'[s] = co[s] BY <1>1 DEF StepOf, RunFrame, CoFrame
<1>4. /\ co[s].pc = "idle" /\ s \notin due
      /\ \A w \in Waves : wave[w].run # s
      /\ \A j \in Jobs : item[s][j].state = "none"
      /\ \A j \in Jobs, k \in Positions : call[s][j][k].state # "completed"
  BY <1>3 DEF IInv, Unborn
<1>5. s \notin due' BY <1>1, <1>4 DEF StepOf, RunFrame
<1>6. \A w \in Waves : wave'[w].run # s BY <1>1, <1>2, <1>4 DEF WaveFrame
<1>7. \A j \in Jobs : item'[s][j].state = "none" 
  <2>1. s \in Runs \ {r} BY <1>1
  <2>2. ItemFrame(r) BY DEF StepOf
  <2>3. \A j \in Jobs : item'[s][j].state = item[s][j].state BY <2>1, <2>2 DEF ItemFrame
  <2> QED BY <1>4, <2>3
<1>8. call'[s] = call[s] BY <1>1 DEF StepOf, CallFrame
<1> QED BY <1>3, <1>4, <1>5, <1>6, <1>7, <1>8

\* a wave stays linked when its calls keep their link and get no answer
LEMMA LinkUnless ==
    ASSUME IInv, NEW r \in Runs, StepOf(r), NEW v \in Waves, wave'[v] = wave[v],
           wave[v].run = r => \A j \in Jobs, k \in Positions : <<j, k>> \in wave[v].calls =>
               /\ call'[r][j][k].wave = call[r][j][k].wave
               /\ \/ call'[r][j][k].state = call[r][j][k].state
                  \/ call'[r][j][k].state \notin {"completed", "failed"}
                  \/ call'[r][j][k].state = "failed" /\ item'[r][j].state \in TerminalItemStates
    PROVE  LinkOf(v)'
<1> DEFINE s == wave[v].run
<1>1. wave[v] \in WaveRecs /\ LinkOf(v) BY DEF IInv, TypeOK, Linked
<1>2. s \in Runs \cup {NoRun} BY <1>1 DEF WaveRecs
<1>3. CASE s = NoRun BY <1>1, <1>3 DEF LinkOf
<1>4. CASE s \in Runs /\ s # NoRun
  <2>1. run'[s].mode = run[s].mode BY <1>4 DEF StepOf, RunFrame
  <2>2. ASSUME NEW j \in Jobs, item[s][j].state \in TerminalItemStates
        PROVE  item'[s][j].state \in TerminalItemStates
    <3>1. j \notin Remaining(s) BY <2>2 DEF Remaining
    <3> QED BY <1>4, <2>2, <3>1 DEF StepOf, ItemFrame
  <2>3. ASSUME NEW j \in Jobs, NEW k \in Positions, <<j, k>> \in wave[v].calls
        PROVE  /\ call'[s][j][k].wave = v
               /\ call'[s][j][k].state # "completed"
               /\ call'[s][j][k].state = "failed" => item'[s][j].state \in TerminalItemStates
    <3>1. /\ call[s][j][k].wave = v /\ call[s][j][k].state # "completed"
          /\ call[s][j][k].state = "failed" => item[s][j].state \in TerminalItemStates
      BY <1>1, <1>4, <2>3 DEF LinkOf
    <3>2. CASE s # r
      <4>1. call'[s] = call[s] BY <1>4, <3>2 DEF StepOf, CallFrame
      <4> QED BY <2>2, <3>1, <4>1
    <3>3. CASE s = r
      BY <2>2, <2>3, <3>1, <3>3
    <3> QED BY <3>2, <3>3
  <2> QED BY <1>1, <1>4, <2>1, <2>3 DEF LinkOf
<1> QED BY <1>2, <1>3, <1>4

\* what writes no wave, and no call of one
LEMMA QuietWaves ==
    ASSUME IInv, NEW r \in Runs, StepOf(r), UNCHANGED wave
    PROVE  /\ UNCHANGED lock \/ lock' = Freed(r) \/ lock = r => WaveFrame(r)
           /\ UNCHANGED call \/ run[r].mode = "immediate" => Linked'
<1>1. UNCHANGED lock \/ lock' = Freed(r) \/ lock = r => WaveFrame(r)
  BY DEF WaveFrame, Freed
<1>2. ASSUME UNCHANGED call PROVE Linked'
  BY <1>2, LinkUnless DEF Linked
<1>3. ASSUME run[r].mode = "immediate" PROVE Linked'
  <2>1. ASSUME NEW v \in Waves, wave[v].run = r PROVE FALSE
    <3>1. LinkOf(v) /\ r # NoRun
      BY GenerationAssumption DEF IInv, Linked, GenerationAssumption
    <3> QED BY <1>3, <2>1, <3>1 DEF LinkOf
  <2>2. \A v \in Waves : wave[v].run # r BY <2>1
  <2>3. ASSUME NEW v \in Waves PROVE LinkOf(v)' BY <2>2, LinkUnless
  <2> QED BY <2>3 DEF Linked
<1> QED BY <1>1, <1>2, <1>3

\* the calls of wave w get a state: the other waves keep theirs
LEMMA OtherLinks ==
    ASSUME IInv, NEW r \in Runs, StepOf(r), NEW w \in Waves, wave[w].run = r,
           NEW s \in CallStates, NEW v \in Waves \ {w}, wave'[v] = wave[v],
           call' = WaveCalls(r, w, s) \/ call' = Unlink(WaveCalls(r, w, s), r, w)
    PROVE  LinkOf(v)'
<1> SUFFICES ASSUME wave[v].run = r, NEW j \in Jobs, NEW k \in Positions,
                    <<j, k>> \in wave[v].calls
             PROVE  call'[r][j][k] = call[r][j][k]
  BY LinkUnless
<1>1. LinkOf(v) /\ LinkOf(w) /\ r # NoRun
  BY GenerationAssumption DEF IInv, Linked, GenerationAssumption
<1>2. call[r][j][k].wave = v BY <1>1 DEF LinkOf
<1>3. <<j, k>> \notin wave[w].calls BY <1>1, <1>2 DEF LinkOf
<1>4. WaveCalls(r, w, s)[r][j][k] = call[r][j][k]
  <2>1. WaveCalls(r, w, s)[r][j][k] =
          IF <<j, k>> \in wave[w].calls THEN [call[r][j][k] EXCEPT !.state = s]
          ELSE call[r][j][k]
    BY WaveCallsKept
  <2> QED BY <1>3, <2>1
<1>5. WaveCalls(r, w, s) \in Journals BY WaveCallsType DEF IInv
<1>6. Unlink(WaveCalls(r, w, s), r, w)[r][j][k] = call[r][j][k]
  <2> DEFINE c == WaveCalls(r, w, s)
  <2>1. c \in Journals /\ c[r][j][k].wave # w BY <1>2, <1>4, <1>5
  <2> HIDE DEF c
  <2>2. Unlink(c, r, w)[r][j][k] = c[r][j][k] BY <2>1 DEF Unlink, Journals
  <2> QED BY <1>4, <2>2 DEF c
<1> QED BY <1>4, <1>6

\* a wave that is over, and one whose calls are written together
LEMMA WaveLinks ==
    ASSUME IInv, NEW r \in Runs, StepOf(r), NEW w \in Waves, wave[w].run = r,
           \A v \in Waves \ {w} : wave'[v] = wave[v],
           NEW s \in CallStates,
           \/ wave'[w] = NoWave /\ call' = Unlink(WaveCalls(r, w, s), r, w)
           \/ /\ wave'[w].run = r /\ wave'[w].calls = wave[w].calls
              /\ call' = WaveCalls(r, w, s) /\ s \notin {"completed", "failed"}
    PROVE  Linked'
<1>1. \A v \in Waves \ {w} : LinkOf(v)' BY OtherLinks
<1>2. CASE wave'[w] = NoWave
  BY <1>1, <1>2 DEF Linked, LinkOf, NoWave
<1>3. CASE /\ wave'[w].run = r /\ wave'[w].calls = wave[w].calls
           /\ call' = WaveCalls(r, w, s) /\ s \notin {"completed", "failed"}
  <2>1. LinkOf(w) /\ r # NoRun
    BY GenerationAssumption DEF IInv, Linked, GenerationAssumption
  <2>2. run'[r].mode = "batch" BY <2>1 DEF LinkOf, StepOf, RunFrame
  <2>3. ASSUME NEW j \in Jobs, NEW k \in Positions, <<j, k>> \in wave[w].calls
        PROVE  call'[r][j][k].wave = w /\ call'[r][j][k].state = s
    <3>1. call[r][j][k] \in CallRecs BY Born DEF Journals
    <3>2. call'[r][j][k] = [call[r][j][k] EXCEPT !.state = s] BY <1>3, <2>3, WaveCallsKept
    <3>3. call[r][j][k].wave = w BY <2>1, <2>3 DEF LinkOf
    <3> QED BY <3>1, <3>2, <3>3 DEF CallRecs
  <2>4. LinkOf(w)' BY <1>3, <2>1, <2>2, <2>3 DEF LinkOf
  <2> QED BY <1>1, <2>4 DEF Linked
<1> QED BY <1>2, <1>3

\* what each step of a follow-up has to show
Holds(r) == HandOf(r)' /\ TransportOf(r)' /\ WaveFrame(r) /\ Linked'

\* a follow-up that stays out of the items has no item in hand
LEMMA NoItem ==
    ASSUME NEW r \in Runs, co'[r].pc \notin ItemPcs
    PROVE  HandOf(r)'
BY DEF HandOf, ItemPcs, CallPcs

\* a follow-up in the transport, and out of it
LEMMA InTransportFacts ==
    ASSUME IInv, NEW r \in Runs
    PROVE  /\ co[r].pc \in TransportPcs =>
                 /\ lock = r /\ run[r].mode = "batch" /\ co[r].phase # "none"
                 /\ \A w \in co[r].waves : wave[w].run = r
           /\ co[r].pc \in BatchPcs => run[r].mode = "batch" /\ co[r].phase # "none"
           /\ co[r].pc \notin TransportPcs => co[r].waves = {}
           /\ co[r].waves \subseteq Waves
<1>1. co[r] \in CoRecs BY Born
<1>2. TransportOf(r) BY DEF IInv, InTransport
<1> QED BY <1>1, <1>2 DEF TransportOf, BatchPcs, CoRecs

\* it goes on in the transport, over waves of its own
LEMMA StaysInTransport ==
    ASSUME IInv, NEW r \in Runs, StepOf(r), run[r].mode = "batch", lock' = r,
           co'[r].pc \in TransportPcs, co'[r].phase # "none",
           co'[r].pc \in WavePcs => co'[r].waves # {},
           \A w \in co'[r].waves : wave'[w].run = r
    PROVE  TransportOf(r)' /\ HandOf(r)'
<1>1. TransportOf(r)' BY DEF TransportOf, StepOf, RunFrame
<1>2. HandOf(r)' BY NoItem DEF ItemPcs, TransportPcs, WavePcs
<1> QED BY <1>1, <1>2

\* it stays out of it
LEMMA StaysOutside ==
    ASSUME IInv, NEW r \in Runs, StepOf(r),
           co'[r].pc \notin TransportPcs, co'[r].waves = {},
           co'[r].pc \in BatchPcs => run[r].mode = "batch" /\ co'[r].phase # "none"
    PROVE  TransportOf(r)'
BY DEF TransportOf, StepOf, RunFrame, BatchPcs, TransportPcs

\* taking and leaving the transport
LEMMA SendHolds ==
    ASSUME IInv, NEW r \in Runs,
           TakeSync(r) \/ LockBusy(r) \/ TakeSend(r) \/ LeaveTransport(r)
    PROVE  Holds(r)
<1> USE DEF Holds, At, world, journal
<1>1. StepOf(r) BY SendStep
<1>2. CASE TakeSync(r)
  <2>1. Reach(r, Outstanding(r)) /\ UNCHANGED <<wave, call>> /\ lock = NoRun BY <1>2 DEF TakeSync
  <2>2. \A w \in Outstanding(r) : wave[w].run = r BY DEF Outstanding
  <2>3. run[r].mode = "batch" /\ co[r].phase # "none"
    BY <1>2, InTransportFacts DEF TakeSync, BatchPcs
  <2>4. HandOf(r)' /\ TransportOf(r)'
    BY <1>1, <2>1, <2>2, <2>3, CoAfter, StaysInTransport DEF TransportPcs, WavePcs
  <2>5. WaveFrame(r) BY <2>1 DEF WaveFrame
  <2> QED BY <1>1, <2>1, <2>4, <2>5, QuietWaves
<1>3. CASE LockBusy(r)
  <2>1. Block(r) /\ UNCHANGED <<wave, call>> BY <1>3 DEF LockBusy
  <2>2. co'[r] = IdleCo /\ lock' = Freed(r) BY <2>1, CoAfter
  <2> QED BY <1>1, <2>1, <2>2, QuietWaves, RestHolds
<1>4. CASE TakeSend(r) /\ (run[r].stop \/ run[r].state # "active")
  <2>1. Reach(r, {}) /\ UNCHANGED <<wave, call>> /\ lock = NoRun BY <1>4 DEF TakeSend
  <2>2. run[r].mode = "batch" /\ co[r].phase # "none"
    BY <1>4, InTransportFacts DEF TakeSend, BatchPcs
  <2>3. HandOf(r)' /\ TransportOf(r)'
    BY <1>1, <2>1, <2>2, CoAfter, StaysInTransport DEF TransportPcs, WavePcs
  <2>4. WaveFrame(r) BY <2>1 DEF WaveFrame
  <2> QED BY <1>1, <2>1, <2>3, <2>4, QuietWaves
<1>5. CASE TakeSend(r) /\ ~(run[r].stop \/ run[r].state # "active")
  <2> DEFINE f == [j \in Jobs |-> [k \in Positions |->
                    IF j \in Unsent(r, k) THEN [state |-> "prepared", wave |-> WaveOf(r, k)]
                    ELSE call[r][j][k]]]
             ws == {w \in Waves : wave'[w].run = r /\ wave'[w].state = "prepared"}
             new(w) == \E k \in SentPositions(r) : w = WaveOf(r, k)
  <2>1. /\ wave' = NewWaves(r) /\ call' = [call EXCEPT ![r] = f] /\ Reach(r, ws) /\ lock = NoRun
    BY <1>5 DEF TakeSend
  <2>2. run[r].mode = "batch" /\ co[r].phase # "none"
    BY <1>5, InTransportFacts DEF TakeSend, BatchPcs
  <2>3. HandOf(r)' /\ TransportOf(r)'
    <3>1. co'[r].waves = ws /\ co'[r].pc = "waves" /\ co'[r].phase # "none" /\ lock' = r
      <4> HIDE DEF ws
      <4> QED BY <2>1, <2>2, CoAfter
    <3> QED BY <1>1, <2>2, <3>1, StaysInTransport DEF TransportPcs, WavePcs
  <2>4. ASSUME NEW w \in Waves, new(w)
        PROVE  \E k \in SentPositions(r) :
                  /\ w = WaveOf(r, k)
                  /\ wave'[w] = [run |-> r, state |-> "prepared",
                                 calls |-> {<<j, k>> : j \in Unsent(r, k)}]
    <3> DEFINE kk == CHOOSE p \in SentPositions(r) : w = WaveOf(r, p)
    <3>1. kk \in SentPositions(r) /\ w = WaveOf(r, kk) BY <2>4
    <3>2. wave'[w] = [run |-> r, state |-> "prepared", calls |-> {<<j, kk>> : j \in Unsent(r, kk)}]
      BY <2>1, <2>4 DEF NewWaves
    <3> HIDE DEF kk
    <3> QED BY <3>1, <3>2
  <2>5. ASSUME NEW w \in Waves, ~new(w) PROVE wave'[w] = wave[w]
    BY <2>1, <2>5 DEF NewWaves
  <2>6. WaveFrame(r)
    <3>1. ASSUME NEW w \in Waves
          PROVE  wave'[w] = wave[w] \/ (wave'[w].run = r /\ wave'[w].state = "prepared")
      <4>1. CASE new(w)
        <5>1. PICK k \in SentPositions(r) :
                 wave'[w] = [run |-> r, state |-> "prepared",
                             calls |-> {<<j, k>> : j \in Unsent(r, k)}]
          BY <2>4, <4>1
        <5> QED BY <5>1
      <4>2. CASE ~new(w) BY <2>5, <4>2
      <4> QED BY <4>1, <4>2
    <3> QED BY <2>1, <3>1 DEF WaveFrame
  <2>7. \A j \in Jobs, k \in Positions : call'[r][j][k] = f[j][k]
    <3> HIDE DEF f
    <3>1. call \in Journals BY Born
    <3>2. call'[r] = f BY <2>1, <3>1 DEF Journals
    <3> QED BY <3>2
  <2>8. ASSUME NEW w \in Waves, ~new(w) PROVE LinkOf(w)'
    <3> SUFFICES ASSUME wave[w].run = r, NEW j \in Jobs, NEW k \in Positions,
                        <<j, k>> \in wave[w].calls
                 PROVE  call'[r][j][k] = call[r][j][k]
      BY <1>1, <2>5, <2>8, LinkUnless
    <3>1. LinkOf(w) /\ r # NoRun
      BY GenerationAssumption DEF IInv, Linked, GenerationAssumption
    <3>2. call[r][j][k].wave = w BY <3>1 DEF LinkOf
    <3>3. w # 0 BY DEF Waves
    <3>4. j \notin Unsent(r, k) BY <3>2, <3>3 DEF Unsent
    <3> QED BY <2>7, <3>4
  <2>9. ASSUME NEW w \in Waves, new(w) PROVE LinkOf(w)'
    <3>1. PICK k0 \in SentPositions(r) :
             /\ w = WaveOf(r, k0)
             /\ wave'[w] = [run |-> r, state |-> "prepared",
                            calls |-> {<<j, k0>> : j \in Unsent(r, k0)}]
      BY <2>4, <2>9
    <3>2. wave'[w].run = r /\ r # NoRun /\ run'[r].mode = "batch"
      BY <1>1, <2>2, <3>1, GenerationAssumption DEF GenerationAssumption, StepOf, RunFrame
    <3>3. ASSUME NEW j \in Jobs, NEW k \in Positions, <<j, k>> \in wave'[w].calls
          PROVE  call'[r][j][k] = [state |-> "prepared", wave |-> w]
      <4>1. k = k0 /\ j \in Unsent(r, k0) BY <3>1, <3>3
      <4> QED BY <2>7, <3>1, <4>1
    <3>4. wave'[w].calls # {}
      <4>1. PICK j0 \in Unsent(r, k0) : TRUE BY DEF SentPositions
      <4>2. <<j0, k0>> \in {<<j, k0>> : j \in Unsent(r, k0)} BY <4>1
      <4>3. wave'[w].calls = {<<j, k0>> : j \in Unsent(r, k0)} BY <3>1
      <4> QED BY <4>2, <4>3
    <3> QED BY <3>2, <3>3, <3>4 DEF LinkOf
  <2>10. Linked' BY <2>8, <2>9 DEF Linked
  <2> QED BY <2>3, <2>6, <2>10
<1>6. CASE LeaveTransport(r)
  <2>1. co[r].pc = "waves" /\ co[r].waves = {} /\ lock' = NoRun /\ UNCHANGED <<wave, call>>
    BY <1>6 DEF LeaveTransport
  <2>2. lock = r /\ run[r].mode = "batch" /\ co[r].phase \in {"first", "last", "send"}
    <3>1. co[r] \in CoRecs BY Born
    <3> QED BY <2>1, <3>1, InTransportFacts DEF TransportPcs, CoRecs
  <2>3. /\ co'[r].pc \in {"read", "finish", "sync"} /\ co'[r].waves = {}
        /\ co'[r].phase # "none"
    <3>1. CASE co[r].phase \in {"first", "last"}
      BY <1>6, <2>1, <3>1, CoAfter DEF LeaveTransport
    <3>2. CASE co[r].phase = "send"
      <4>1. co \in [Runs -> CoRecs] /\ co[r] \in CoRecs BY Born
      <4>2. co'[r] = [co[r] EXCEPT !.pc = IF run[r].stop THEN "sync" ELSE "finish",
                                   !.phase = IF run[r].stop THEN "last" ELSE @,
                                   !.stopped = run[r].stop]
        BY <1>6, <3>2, <4>1 DEF LeaveTransport
      <4> QED BY <2>1, <3>2, <4>1, <4>2 DEF CoRecs
    <3> QED BY <2>2, <3>1, <3>2
  <2>4. HandOf(r)' /\ TransportOf(r)'
    BY <1>1, <2>2, <2>3, NoItem, StaysOutside DEF ItemPcs, TransportPcs, WavePcs
  <2> QED BY <1>1, <2>1, <2>2, <2>4, QuietWaves
<1> QED BY <1>2, <1>3, <1>4, <1>5, <1>6

\* a wave ends, or gets a state
LEMMA WaveWrite ==
    ASSUME IInv, NEW w \in Waves
    PROVE  /\ EndWave(w) => wave'[w] = NoWave /\ \A v \in Waves \ {w} : wave'[v] = wave[v]
           /\ \A s : wave' = [wave EXCEPT ![w].state = s] =>
                 /\ wave'[w].run = wave[w].run /\ wave'[w].calls = wave[w].calls
                 /\ wave'[w].state = s
                 /\ \A v \in Waves \ {w} : wave'[v] = wave[v]
<1>1. wave \in [Waves -> WaveRecs] /\ wave[w] \in WaveRecs BY DEF IInv, TypeOK
<1>2. ASSUME EndWave(w)
      PROVE  wave'[w] = NoWave /\ \A v \in Waves \ {w} : wave'[v] = wave[v]
  BY <1>1, <1>2 DEF EndWave
<1>3. ASSUME NEW s, wave' = [wave EXCEPT ![w].state = s]
      PROVE  /\ wave'[w].run = wave[w].run /\ wave'[w].calls = wave[w].calls
             /\ wave'[w].state = s
             /\ \A v \in Waves \ {w} : wave'[v] = wave[v]
  <2>1. wave'[w] = [wave[w] EXCEPT !.state = s] BY <1>1, <1>3
  <2>2. \A v \in Waves \ {w} : wave'[v] = wave[v] BY <1>1, <1>3
  <2> QED BY <1>1, <2>1, <2>2 DEF WaveRecs
<1> QED BY <1>2, <1>3

\* the follow-up goes on from the wave it has in hand, or with it
LEMMA HandledHolds ==
    ASSUME IInv, NEW r \in Runs, StepOf(r), co[r].pc \in TransportPcs, co[r].waves # {},
           UNCHANGED lock,
           \A v \in Waves \ {Handled(r)} : wave'[v] = wave[v],
           \/ wave'[Handled(r)].run \in {r, NoRun} /\ \E went : NextWave(r, went)
           \/ wave'[Handled(r)].run = r /\ \E p \in TransportPcs : Go(r, p),
           \/ wave[Handled(r)].state = "submitting" \/ wave'[Handled(r)].state # "submitting"
           \/ wave'[Handled(r)].run = r /\ ~run[r].stop
    PROVE  HandOf(r)' /\ TransportOf(r)' /\ WaveFrame(r)
<1>1. /\ lock = r /\ run[r].mode = "batch" /\ co[r].phase # "none"
      /\ \A w \in co[r].waves : wave[w].run = r
      /\ co[r].waves \subseteq Waves
  BY InTransportFacts
<1>2. Handled(r) \in co[r].waves /\ Handled(r) \in Waves BY HandFacts
<1>3. WaveFrame(r)
  <2>1. \A v \in Waves : wave[v].run # r => wave'[v] = wave[v] BY <1>1, <1>2
  <2>2. \A v \in Waves : wave'[v].run \in {wave[v].run, r, NoRun} BY <1>2
  <2>3. \A v \in Waves : wave[v].state # "submitting" /\ wave'[v].state = "submitting" =>
           wave'[v].run = r /\ ~run[r].stop
    BY <1>2
  <2> QED BY <1>1, <2>1, <2>2, <2>3 DEF WaveFrame
<1>4. CASE \E went : NextWave(r, went)
  <2>1. /\ co'[r].pc = "waves" /\ co'[r].waves \subseteq co[r].waves \ {Handled(r)}
        /\ co'[r].phase = co[r].phase
    BY <1>4, CoAfter
  <2>2. \A w \in co'[r].waves : wave'[w].run = r BY <1>1, <2>1
  <2>3. co'[r].pc \in TransportPcs /\ co'[r].pc \notin WavePcs BY <2>1 DEF TransportPcs, WavePcs
  <2> QED BY <1>1, <1>3, <2>1, <2>2, <2>3, StaysInTransport
<1>5. CASE wave'[Handled(r)].run = r /\ \E p \in TransportPcs : Go(r, p)
  <2>1. PICK p \in TransportPcs : Go(r, p) BY <1>5
  <2>2. co'[r].pc = p /\ co'[r].waves = co[r].waves /\ co'[r].phase = co[r].phase
    BY <2>1, CoAfter
  <2>3. \A w \in co'[r].waves : wave'[w].run = r BY <1>1, <1>5, <2>2
  <2> QED BY <1>1, <1>3, <2>1, <2>2, <2>3, StaysInTransport
<1> QED BY <1>4, <1>5

\* the wave a follow-up handles is in its hands
LEMMA InHands ==
    ASSUME IInv, NEW r \in Runs
    PROVE  /\ \A w \in Waves : Handling(r, w) =>
                 /\ w = Handled(r) /\ wave[w].run = r
                 /\ co[r].pc \in TransportPcs /\ co[r].waves # {}
           /\ co[r].pc \in WavePcs =>
                 /\ Handled(r) \in Waves /\ wave[Handled(r)].run = r
                 /\ co[r].pc \in TransportPcs /\ co[r].waves # {}
<1>1. co[r].pc \in WavePcs => co[r].waves # {} BY DEF IInv, InTransport, TransportOf
<1> QED BY <1>1, FollowFacts, HandFacts DEF Handling, At, TransportPcs

\* requests leave the wave in hand: those that stay are linked as before
LEMMA PruneLinks ==
    ASSUME IInv, NEW r \in Runs, StepOf(r), NEW w \in Waves, wave[w].run = r, Prune(r, w)
    PROVE  /\ Linked' /\ \A v \in Waves \ {w} : wave'[v] = wave[v]
           /\ IF Kept(r, w) = {} THEN wave'[w] = NoWave
              ELSE wave'[w].run = r /\ wave'[w].state = wave[w].state
<1> DEFINE out == wave[w].calls \ Kept(r, w)
           g == [j \in Jobs |-> [k \in Positions |->
                    IF <<j, k>> \in out THEN [call[r][j][k] EXCEPT !.state = "failed"]
                    ELSE call[r][j][k]]]
           calls == [call EXCEPT ![r] = g]
           f == [j \in Jobs |-> IF j \in Eligible(r) /\ \E c \in out : c[1] = j
                                THEN [item[r][j] EXCEPT !.state = "stale"] ELSE item[r][j]]
<1>1. wave \in [Waves -> WaveRecs] /\ wave[w] \in WaveRecs /\ item \in Items /\ call \in Journals
  BY Born DEF IInv, TypeOK
<1>2. /\ wave' = [wave EXCEPT ![w] =
              IF Kept(r, w) = {} THEN NoWave ELSE [@ EXCEPT !.calls = Kept(r, w)]]
      /\ item' = [item EXCEPT ![r] = f]
      /\ call' = IF Kept(r, w) = {} THEN Unlink(calls, r, w) ELSE calls
  BY DEF Prune
<1>3. \A v \in Waves \ {w} : wave'[v] = wave[v] BY <1>1, <1>2
<1>4. Kept(r, w) = {} => wave'[w] = NoWave BY <1>1, <1>2
<1>5. Kept(r, w) # {} => /\ wave'[w].run = r /\ wave'[w].state = wave[w].state
                         /\ wave'[w].calls = Kept(r, w)
  <2>1. Kept(r, w) # {} => wave'[w] = [wave[w] EXCEPT !.calls = Kept(r, w)] BY <1>1, <1>2
  <2> QED BY <1>1, <2>1 DEF WaveRecs
<1>6. ASSUME NEW j \in Jobs, NEW k \in Positions, <<j, k>> \notin out, call[r][j][k].wave # w \/ Kept(r, w) # {}
      PROVE  call'[r][j][k] = call[r][j][k]
  <2>1. DOMAIN calls = Runs /\ calls[r] = g
    <3> HIDE DEF g
    <3> QED BY <1>1 DEF Journals
  <2>2. calls[r][j][k] = call[r][j][k] BY <1>6, <2>1
  <2>3. Unlink(calls, r, w)[r][j][k] =
            IF calls[r][j][k].wave = w THEN [calls[r][j][k] EXCEPT !.wave = 0] ELSE calls[r][j][k]
    <3> HIDE DEF calls
    <3> QED BY <2>1 DEF Unlink
  <2> HIDE DEF calls
  <2> QED BY <1>2, <1>6, <2>2, <2>3
<1>7. LinkOf(w) /\ r # NoRun
  BY GenerationAssumption DEF IInv, Linked, GenerationAssumption
<1>8. ASSUME NEW v \in Waves \ {w} PROVE LinkOf(v)'
  <2> SUFFICES ASSUME wave[v].run = r, NEW j \in Jobs, NEW k \in Positions,
                      <<j, k>> \in wave[v].calls
               PROVE  call'[r][j][k] = call[r][j][k]
    BY <1>3, LinkUnless
  <2>1. call[r][j][k].wave = v BY DEF IInv, Linked, LinkOf
  <2>2. <<j, k>> \notin wave[w].calls BY <1>7, <2>1 DEF LinkOf
  <2> QED BY <1>6, <2>1, <2>2
<1>9. LinkOf(w)'
  <2>1. CASE Kept(r, w) = {} BY <1>4, <2>1 DEF LinkOf, NoWave
  <2>2. CASE Kept(r, w) # {}
    <3>1. run'[r].mode = "batch" BY <1>7 DEF LinkOf, StepOf, RunFrame
    <3>2. ASSUME NEW j \in Jobs, NEW k \in Positions, <<j, k>> \in Kept(r, w)
          PROVE  call'[r][j][k].wave = w /\ call'[r][j][k].state \notin {"completed", "failed"}
      <4>1. <<j, k>> \in wave[w].calls /\ j \in Eligible(r) BY <3>2 DEF Kept, Sendable
      <4>2. /\ call[r][j][k].wave = w /\ call[r][j][k].state # "completed"
            /\ call[r][j][k].state = "failed" => item[r][j].state \in TerminalItemStates
        BY <1>7, <4>1 DEF LinkOf
      <4>3. call[r][j][k].state # "failed" BY <4>1, <4>2 DEF Eligible, TerminalItemStates
      <4> QED BY <1>6, <2>2, <3>2, <4>2, <4>3
    <3> QED BY <1>5, <1>7, <2>2, <3>1, <3>2 DEF LinkOf
  <2> QED BY <2>1, <2>2
<1> QED BY <1>3, <1>4, <1>5, <1>8, <1>9 DEF Linked

\* waves that are dropped, skipped or made ready
LEMMA PrepareHolds ==
    ASSUME IInv, NEW r \in Runs, NEW w \in Waves,
           DropPrepared(r, w) \/ SkipBlocked(r, w) \/ Prepare(r, w)
    PROVE  Holds(r)
<1> USE DEF Holds, world, journal
<1>1. StepOf(r) BY SendStep
<1>2. /\ w = Handled(r) /\ wave[w].run = r /\ wave[w].state = "prepared"
      /\ co[r].pc \in TransportPcs /\ co[r].waves # {} /\ UNCHANGED lock
  BY InHands DEF DropPrepared, SkipBlocked, Prepare
<1>3. "prepared" \in CallStates BY DEF CallStates
<1>4. CASE DropPrepared(r, w)
  <2>1. wave'[w] = NoWave /\ \A v \in Waves \ {w} : wave'[v] = wave[v]
    BY <1>4, WaveWrite DEF DropPrepared, CancelPrepared
  <2>2. wave'[w].run = NoRun /\ wave'[w].state # "submitting" BY <2>1 DEF NoWave
  <2>3. NextWave(r, FALSE) /\ call' = Unlink(WaveCalls(r, w, "prepared"), r, w)
    BY <1>4 DEF DropPrepared, CancelPrepared
  <2>4. Linked' BY <1>1, <1>2, <1>3, <2>1, <2>3, WaveLinks
  <2>5. HandOf(r)' /\ TransportOf(r)' /\ WaveFrame(r)
    BY <1>1, <1>2, <2>1, <2>2, <2>3, HandledHolds
  <2> QED BY <2>4, <2>5
<1>5. CASE SkipBlocked(r, w)
  <2>1. NextWave(r, FALSE) /\ UNCHANGED <<wave, call>> BY <1>5 DEF SkipBlocked
  <2>2. HandOf(r)' /\ TransportOf(r)' /\ WaveFrame(r)
    BY <1>1, <1>2, <2>1, HandledHolds
  <2> QED BY <1>1, <2>1, <2>2, QuietWaves
<1>6. CASE Prepare(r, w)
  <2>1. Prune(r, w) /\ IF Kept(r, w) = {} THEN NextWave(r, FALSE) ELSE Go(r, "upload")
    BY <1>6 DEF Prepare
  <2>2. /\ Linked' /\ \A v \in Waves \ {w} : wave'[v] = wave[v]
        /\ IF Kept(r, w) = {} THEN wave'[w] = NoWave
           ELSE wave'[w].run = r /\ wave'[w].state = wave[w].state
    BY <1>1, <1>2, <2>1, PruneLinks
  <2>3. wave'[w].run \in {r, NoRun} /\ wave'[w].state # "submitting" BY <1>2, <2>2 DEF NoWave
  <2>4. "upload" \in TransportPcs BY DEF TransportPcs, WavePcs
  <2>5. HandOf(r)' /\ TransportOf(r)' /\ WaveFrame(r)
    BY <1>1, <1>2, <2>1, <2>2, <2>3, <2>4, HandledHolds
  <2> QED BY <2>2, <2>5
<1> QED BY <1>4, <1>5, <1>6

\* what blocks the run lets go of the transport
LEMMA BlockHolds ==
    ASSUME IInv, NEW r \in Runs, StepOf(r), Block(r), UNCHANGED <<wave, call>>
    PROVE  Holds(r)
<1>1. co'[r] = IdleCo /\ lock' = Freed(r) BY CoAfter
<1>2. HandOf(r)' /\ TransportOf(r)' BY <1>1, RestHolds
<1> QED BY <1>1, <1>2, QuietWaves DEF Holds

\* the upload, and the intent before the paid POST
LEMMA CommitHolds ==
    ASSUME IInv, NEW r \in Runs, Upload(r) \/ UploadFails(r) \/ Commit(r)
    PROVE  Holds(r)
<1> USE DEF Holds, world, journal
<1> DEFINE w == Handled(r)
<1>1. StepOf(r) BY SendStep
<1>2. /\ w \in Waves /\ wave[w].run = r /\ co[r].pc \in TransportPcs /\ co[r].waves # {}
  BY InHands DEF Upload, UploadFails, Commit, At, WavePcs
<1>3. "prepared" \in CallStates /\ "submitting" \in CallStates BY DEF CallStates
<1>4. CASE Upload(r)
  <2>1. Prune(r, w) /\ UNCHANGED lock
        /\ IF Kept(r, w) = wave[w].calls THEN Go(r, "commit") ELSE NextWave(r, FALSE)
    BY <1>4 DEF Upload
  <2>2. /\ Linked' /\ \A v \in Waves \ {w} : wave'[v] = wave[v]
        /\ IF Kept(r, w) = {} THEN wave'[w] = NoWave
           ELSE wave'[w].run = r /\ wave'[w].state = wave[w].state
    BY <1>1, <1>2, <2>1, PruneLinks
  <2>3. wave'[w].run \in {r, NoRun} /\ (wave[w].state = "submitting" \/ wave'[w].state # "submitting")
    BY <2>2 DEF NoWave
  <2>4. "commit" \in TransportPcs BY DEF TransportPcs, WavePcs
  <2>5. CASE wave[w].calls # {} \/ Kept(r, w) # wave[w].calls
    <3>1. wave'[w].run = r \/ Kept(r, w) # wave[w].calls BY <2>2, <2>5
    <3>2. HandOf(r)' /\ TransportOf(r)' /\ WaveFrame(r)
      BY <1>1, <1>2, <2>1, <2>2, <2>3, <2>4, <3>1, HandledHolds
    <3> QED BY <2>2, <3>2
  <2>6. CASE wave[w].calls = {} /\ Kept(r, w) = wave[w].calls
    <3>1. LinkOf(w) /\ r # NoRun
      BY <1>2, GenerationAssumption DEF IInv, Linked, GenerationAssumption
    <3> QED BY <1>2, <2>6, <3>1 DEF LinkOf
  <2> QED BY <2>5, <2>6
<1>5. CASE UploadFails(r)
  BY <1>1, <1>5, BlockHolds DEF UploadFails
<1>6. CASE Commit(r) /\ run[r].stop
  <2>1. /\ EndWave(w) /\ NextWave(r, FALSE) /\ UNCHANGED lock
        /\ call' = Unlink(WaveCalls(r, w, "prepared"), r, w)
    BY <1>6 DEF Commit, CancelPrepared
  <2>2. wave'[w] = NoWave /\ \A v \in Waves \ {w} : wave'[v] = wave[v]
    BY <1>2, <2>1, WaveWrite
  <2>3. wave'[w].run = NoRun /\ wave'[w].state # "submitting" BY <2>2 DEF NoWave
  <2>4. Linked' BY <1>1, <1>2, <1>3, <2>1, <2>2, WaveLinks
  <2>5. HandOf(r)' /\ TransportOf(r)' /\ WaveFrame(r)
    BY <1>1, <1>2, <2>1, <2>2, <2>3, HandledHolds
  <2> QED BY <2>4, <2>5
<1>7. CASE Commit(r) /\ ~run[r].stop
  <2>1. /\ wave' = [wave EXCEPT ![w].state = "submitting"] /\ Go(r, "post") /\ UNCHANGED lock
        /\ call' = WaveCalls(r, w, "submitting")
    BY <1>7 DEF Commit
  <2>2. /\ wave'[w].run = r /\ wave'[w].calls = wave[w].calls
        /\ \A v \in Waves \ {w} : wave'[v] = wave[v]
    BY <1>2, <2>1, WaveWrite
  <2>3. "submitting" \notin {"completed", "failed"} /\ "post" \in TransportPcs
    BY DEF TransportPcs, WavePcs
  <2>4. Linked' BY <1>1, <1>2, <1>3, <2>1, <2>2, <2>3, WaveLinks
  <2>5. HandOf(r)' /\ TransportOf(r)' /\ WaveFrame(r)
    BY <1>1, <1>2, <1>7, <2>1, <2>2, <2>3, HandledHolds
  <2> QED BY <2>4, <2>5
<1> QED BY <1>4, <1>5, <1>6, <1>7

\* the POST and its answers
LEMMA PostHolds ==
    ASSUME IInv, NEW r \in Runs,
           Post(r) \/ PostLost(r) \/ Posted(r) \/ PostRefused(r) \/ PostUnknown(r)
    PROVE  Holds(r)
<1> USE DEF Holds, world, journal
<1> DEFINE w == Handled(r)
<1>1. StepOf(r) BY PostStep
<1>2. /\ w \in Waves /\ wave[w].run = r /\ co[r].pc \in TransportPcs /\ co[r].waves # {}
      /\ UNCHANGED lock
  BY InHands DEF Post, PostLost, Posted, PostRefused, PostUnknown, At, WavePcs
<1>3. "submitted" \in CallStates /\ "failed" \in CallStates /\ "uncertain" \in CallStates
  BY DEF CallStates
<1>4. \A p \in {"posted", "refused", "unknown", "waves"} : p \in TransportPcs
  BY DEF TransportPcs, WavePcs
<1>5. CASE Post(r) \/ PostLost(r)
  <2>1. UNCHANGED <<wave, call>> /\ \E p \in {"posted", "refused", "unknown"} : Go(r, p)
    BY <1>5 DEF Post, PostLost
  <2>2. HandOf(r)' /\ TransportOf(r)' /\ WaveFrame(r)
    <3>1. \E p \in TransportPcs : Go(r, p) BY <1>4, <2>1
    <3> QED BY <1>1, <1>2, <2>1, <3>1, HandledHolds
  <2> QED BY <1>1, <2>1, <2>2, QuietWaves
<1>6. CASE Posted(r)
  <2>1. /\ wave' = [wave EXCEPT ![w].state = "submitted"] /\ call' = WaveCalls(r, w, "submitted")
        /\ NextWave(r, TRUE) \/ Go(r, "waves")
    BY <1>6 DEF Posted
  <2>2. /\ wave'[w].run = r /\ wave'[w].calls = wave[w].calls /\ wave'[w].state = "submitted"
        /\ \A v \in Waves \ {w} : wave'[v] = wave[v]
    BY <1>2, <2>1, WaveWrite
  <2>3. "submitted" \notin {"completed", "failed"} OBVIOUS
  <2>4. Linked' BY <1>1, <1>2, <1>3, <2>1, <2>2, <2>3, WaveLinks
  <2>5. HandOf(r)' /\ TransportOf(r)' /\ WaveFrame(r)
    BY <1>1, <1>2, <1>4, <2>1, <2>2, HandledHolds
  <2> QED BY <2>4, <2>5
<1>7. CASE PostRefused(r)
  <2>1. EndWave(w) /\ call' = Unlink(WaveCalls(r, w, "failed"), r, w) /\ NextWave(r, FALSE)
    BY <1>7 DEF PostRefused
  <2>2. wave'[w] = NoWave /\ \A v \in Waves \ {w} : wave'[v] = wave[v]
    BY <1>2, <2>1, WaveWrite
  <2>3. wave'[w].run = NoRun /\ wave'[w].state # "submitting" BY <2>2 DEF NoWave
  <2>4. Linked' BY <1>1, <1>2, <1>3, <2>1, <2>2, WaveLinks
  <2>5. HandOf(r)' /\ TransportOf(r)' /\ WaveFrame(r)
    BY <1>1, <1>2, <2>1, <2>2, <2>3, HandledHolds
  <2> QED BY <2>4, <2>5
<1>8. CASE PostUnknown(r)
  <2>1. /\ wave' = [wave EXCEPT ![w].state = "submission_unknown"]
        /\ call' = WaveCalls(r, w, "uncertain") /\ NextWave(r, FALSE)
    BY <1>8 DEF PostUnknown
  <2>2. /\ wave'[w].run = r /\ wave'[w].calls = wave[w].calls
        /\ wave'[w].state = "submission_unknown"
        /\ \A v \in Waves \ {w} : wave'[v] = wave[v]
    BY <1>2, <2>1, WaveWrite
  <2>3. "uncertain" \notin {"completed", "failed"} OBVIOUS
  <2>4. Linked' BY <1>1, <1>2, <1>3, <2>1, <2>2, <2>3, WaveLinks
  <2>5. HandOf(r)' /\ TransportOf(r)' /\ WaveFrame(r)
    BY <1>1, <1>2, <2>1, <2>2, HandledHolds
  <2> QED BY <2>4, <2>5
<1> QED BY <1>5, <1>6, <1>7, <1>8

\* a wave that is looked up: still running, imported, or out of reach
LEMMA RefreshHolds ==
    ASSUME IInv, NEW r \in Runs, NEW w \in Waves,
           RefreshMissing(r, w) \/ RefreshRunning(r, w) \/ Import(r, w) \/ RefreshFails(r, w)
    PROVE  Holds(r)
<1> USE DEF Holds, world, journal
<1>1. StepOf(r) BY RefreshStep
<1>2. /\ w = Handled(r) /\ wave[w].run = r /\ co[r].pc \in TransportPcs /\ co[r].waves # {}
  BY InHands DEF RefreshMissing, RefreshRunning, Import, RefreshFails, Refreshing
<1>3. "submitted" \in CallStates /\ "submitted" \notin {"completed", "failed"} BY DEF CallStates
<1>4. CASE RefreshMissing(r, w)
  <2>1. UNCHANGED <<wave, call, lock>> /\ NextWave(r, TRUE) BY <1>4 DEF RefreshMissing
  <2>2. HandOf(r)' /\ TransportOf(r)' /\ WaveFrame(r) BY <1>1, <1>2, <2>1, HandledHolds
  <2> QED BY <1>1, <2>1, <2>2, QuietWaves
<1>5. CASE RefreshRunning(r, w)
  <2>1. /\ wave' = [wave EXCEPT ![w].state = "submitted"] /\ call' = WaveCalls(r, w, "submitted")
        /\ NextWave(r, TRUE) /\ UNCHANGED lock
    BY <1>5 DEF RefreshRunning
  <2>2. /\ wave'[w].run = r /\ wave'[w].calls = wave[w].calls /\ wave'[w].state = "submitted"
        /\ \A v \in Waves \ {w} : wave'[v] = wave[v]
    BY <1>2, <2>1, WaveWrite
  <2>3. Linked' BY <1>1, <1>2, <1>3, <2>1, <2>2, WaveLinks
  <2>4. HandOf(r)' /\ TransportOf(r)' /\ WaveFrame(r)
    BY <1>1, <1>2, <2>1, <2>2, HandledHolds
  <2> QED BY <2>3, <2>4
<1>6. CASE Import(r, w)
  <2>1. EndWave(w) /\ NextWave(r, TRUE) /\ UNCHANGED lock BY <1>6 DEF Import
  <2>2. wave'[w] = NoWave /\ \A v \in Waves \ {w} : wave'[v] = wave[v]
    BY <2>1, WaveWrite
  <2>3. wave'[w].run = NoRun /\ wave'[w].state # "submitting" BY <2>2 DEF NoWave
  <2>4. HandOf(r)' /\ TransportOf(r)' /\ WaveFrame(r)
    BY <1>1, <1>2, <2>1, <2>2, <2>3, HandledHolds
  <2>5. PICK good \in SUBSET wave[w].calls :
           call' = Unlink([call EXCEPT ![r] = [j \in Jobs |-> [k \in Positions |->
              IF <<j, k>> \in wave[w].calls
              THEN [call[r][j][k] EXCEPT !.state = IF <<j, k>> \in good THEN "completed" ELSE "failed"]
              ELSE call[r][j][k]]]], r, w)
    BY <1>6 DEF Import
  <2> DEFINE f == [j \in Jobs |-> [k \in Positions |->
              IF <<j, k>> \in wave[w].calls
              THEN [call[r][j][k] EXCEPT !.state = IF <<j, k>> \in good THEN "completed" ELSE "failed"]
              ELSE call[r][j][k]]]
             calls == [call EXCEPT ![r] = f]
  <2>6. call \in Journals BY Born
  <2>7. DOMAIN calls = Runs /\ calls[r] = f
    <3> HIDE DEF f
    <3> QED BY <2>6 DEF Journals
  <2>8. ASSUME NEW v \in Waves \ {w} PROVE LinkOf(v)'
    <3> SUFFICES ASSUME wave[v].run = r, NEW j \in Jobs, NEW k \in Positions,
                        <<j, k>> \in wave[v].calls
                 PROVE  call'[r][j][k] = call[r][j][k]
      BY <1>1, <2>2, LinkUnless
    <3>1. LinkOf(v) /\ LinkOf(w) /\ r # NoRun
      BY GenerationAssumption DEF IInv, Linked, GenerationAssumption
    <3>2. call[r][j][k].wave = v BY <3>1 DEF LinkOf
    <3>3. <<j, k>> \notin wave[w].calls BY <1>2, <3>1, <3>2 DEF LinkOf
    <3>4. calls[r][j][k] = call[r][j][k] BY <2>7, <3>3
    <3>5. Unlink(calls, r, w)[r][j][k] =
            IF calls[r][j][k].wave = w THEN [calls[r][j][k] EXCEPT !.wave = 0] ELSE calls[r][j][k]
      <4> HIDE DEF calls
      <4> QED BY <2>7 DEF Unlink
    <3>6. call' = Unlink(calls, r, w) BY <2>5
    <3> HIDE DEF calls
    <3> QED BY <3>2, <3>4, <3>5, <3>6
  <2>9. LinkOf(w)' BY <2>2 DEF LinkOf, NoWave
  <2>10. Linked' BY <2>8, <2>9 DEF Linked
  <2> QED BY <2>4, <2>10
<1>7. CASE RefreshFails(r, w)
  BY <1>1, <1>7, BlockHolds DEF RefreshFails
<1> QED BY <1>4, <1>5, <1>6, <1>7

\* a follow-up that executes items is out of the transport
LEMMA OutOfTransport ==
    ASSUME IInv, NEW r \in Runs, StepOf(r), UNCHANGED <<wave, lock>>,
           co[r].pc \notin TransportPcs,
           co'[r].pc \notin BatchPcs, co'[r].waves = co[r].waves
    PROVE  TransportOf(r)' /\ WaveFrame(r)
<1>1. co[r].waves = {} BY InTransportFacts
<1>2. TransportOf(r)' BY <1>1, StaysOutside DEF BatchPcs
<1> QED BY <1>2, QuietWaves

\* it goes on with the item in hand
LEMMA ItemGoesOn ==
    ASSUME IInv, NEW r \in Runs, StepOf(r), UNCHANGED <<wave, lock>>,
           co[r].pc \in ItemPcs, co[r].jobs # {},
           NEW p \in ItemPcs \ {"items"}, Go(r, p),
           \A j \in Jobs : item'[r][j].state = item[r][j].state,
           p \in CallPcs => run[r].mode = "immediate" /\ Missing(r, Current(r))' # {}
    PROVE  HandOf(r)' /\ TransportOf(r)' /\ WaveFrame(r)
<1>1. co'[r].pc = p /\ co'[r].jobs = co[r].jobs /\ co'[r].waves = co[r].waves BY CoAfter
<1>2. co[r].pc \notin TransportPcs /\ p \notin BatchPcs
  BY DEF ItemPcs, TransportPcs, WavePcs, BatchPcs
<1>3. TransportOf(r)' /\ WaveFrame(r) BY <1>1, <1>2, OutOfTransport
<1>4. co[r].jobs \subseteq Remaining(r) BY DEF IInv, InHand, HandOf
<1>5. Remaining(r) = Remaining(r)' BY DEF Remaining, ItemsOf
<1>6. run'[r].mode = run[r].mode BY DEF StepOf, RunFrame
<1>7. HandOf(r)' BY <1>1, <1>4, <1>5, <1>6 DEF HandOf
<1> QED BY <1>3, <1>7

\* it is done with the item in hand
LEMMA ItemIsDone ==
    ASSUME IInv, NEW r \in Runs, StepOf(r), UNCHANGED <<wave, lock>>,
           co[r].pc \in ItemPcs, OnlyCurrent(r)
    PROVE  HandOf(r)' /\ TransportOf(r)' /\ WaveFrame(r)
<1>1. /\ co'[r].pc = "items" /\ co'[r].jobs = co[r].jobs \ {Current(r)}
      /\ co'[r].waves = co[r].waves
  BY CoAfter DEF OnlyCurrent
<1>2. co[r].pc \notin TransportPcs /\ "items" \notin BatchPcs
  BY DEF ItemPcs, TransportPcs, WavePcs, BatchPcs
<1>3. TransportOf(r)' /\ WaveFrame(r) BY <1>1, <1>2, OutOfTransport
<1>4. co[r].jobs \subseteq Remaining(r) BY DEF IInv, InHand, HandOf
<1>5. ASSUME NEW j \in co'[r].jobs PROVE j \in Remaining(r)'
  <2>1. j \in Remaining(r) /\ j \in Jobs /\ j # Current(r)
    BY <1>1, <1>4 DEF Remaining, ItemsOf
  <2>2. item'[r][j].state = item[r][j].state BY <2>1 DEF OnlyCurrent
  <2> QED BY <2>1, <2>2 DEF Remaining, ItemsOf
<1>6. HandOf(r)' BY <1>1, <1>5 DEF HandOf, CallPcs
<1> QED BY <1>3, <1>6

\* writing calls that no answer comes to keeps the waves linked
LEMMA ItemLinks ==
    ASSUME IInv, NEW r \in Runs, StepOf(r), UNCHANGED wave,
           \A j \in Jobs, k \in Positions :
               /\ call'[r][j][k].wave = call[r][j][k].wave
               /\ \/ call'[r][j][k].state = call[r][j][k].state
                  \/ call'[r][j][k].state \notin {"completed", "failed"}
                  \/ call'[r][j][k].state = "failed" /\ item'[r][j].state \in TerminalItemStates
    PROVE  Linked'
BY LinkUnless DEF Linked

\* so does giving an item up
LEMMA DiscardLinks ==
    ASSUME IInv, NEW r \in Runs, StepOf(r), UNCHANGED wave, Discard(r), Current(r) \in Remaining(r)
    PROVE  Linked'
<1> DEFINE j0 == Current(r)
           js == IF item[r][j0].app THEN {j0} ELSE {}
           f == [k \in Positions |->
              IF call[r][j0][k].state = "prepared" THEN [call[r][j0][k] EXCEPT !.state = "failed"]
              ELSE call[r][j0][k]]
<1>1. item \in Items /\ call \in Journals /\ j0 \in Jobs /\ TypeOK
  BY Born DEF IInv, Remaining, ItemsOf
<1>2. /\ item' = [Unlinked(item, js) EXCEPT ![r][j0].state = "stale"]
      /\ call' = [call EXCEPT ![r][j0] = f]
  BY DEF Discard
<1>3. item'[r][j0].state = "stale"
  <2> DEFINE its == Unlinked(item, js)
  <2>1. its \in Items BY <1>1, ReleaseType
  <2>2. item' = [its EXCEPT ![r][j0].state = "stale"] BY <1>2
  <2> HIDE DEF its, j0
  <2>3. item'[r][j0] = [its[r][j0] EXCEPT !.state = "stale"] BY <1>1, <2>1, <2>2 DEF Items
  <2>4. its[r][j0] \in ItemRecs BY <1>1, <2>1 DEF Items
  <2> QED BY <2>3, <2>4 DEF ItemRecs
<1>4. ASSUME NEW j \in Jobs, NEW k \in Positions
      PROVE  /\ call'[r][j][k].wave = call[r][j][k].wave
             /\ \/ call'[r][j][k].state = call[r][j][k].state
                \/ call'[r][j][k].state = "failed" /\ j = j0
  <2>1. call[r][j][k] \in CallRecs BY <1>1 DEF Journals
  <2>2. call'[r][j] = IF j = j0 THEN f ELSE call[r][j]
    <3> HIDE DEF f, j0
    <3> QED BY <1>1, <1>2 DEF Journals
  <2>3. call'[r][j][k] = call[r][j][k] \/ (j = j0 /\ call'[r][j][k] = [call[r][j][k] EXCEPT !.state = "failed"])
    BY <2>2
  <2> HIDE DEF j0
  <2> QED BY <2>1, <2>3 DEF CallRecs
<1> HIDE DEF j0
<1>5. \A j \in Jobs, k \in Positions :
          /\ call'[r][j][k].wave = call[r][j][k].wave
          /\ \/ call'[r][j][k].state = call[r][j][k].state
             \/ call'[r][j][k].state = "failed" /\ item'[r][j].state \in TerminalItemStates
  BY <1>3, <1>4 DEF TerminalItemStates
<1> QED BY <1>5, ItemLinks

\* executing items, up to the replay
LEMMA ExecuteHolds ==
    ASSUME IInv, NEW r \in Runs,
           \/ ReadItems(r) \/ ItemStale(r) \/ ItemFails(r) \/ ItemStillWaits(r) \/ Reserve(r)
           \/ Acknowledge(r) \/ ReplayStops(r) \/ ReplayStale(r) \/ ReplayMismatch(r)
    PROVE  Holds(r)
<1> USE DEF Holds, world, journal
<1>1. StepOf(r) /\ item \in Items BY ExecuteStep, Born
<1>2. CASE ReadItems(r)
  <2>1. co \in [Runs -> CoRecs] /\ co[r] \in CoRecs BY Born
  <2>2. UNCHANGED <<wave, lock, call, item>> /\ co[r].pc = "read" BY <1>2 DEF ReadItems, At
  <2>3. co'[r].pc = "items" /\ co'[r].jobs = Eligible(r) /\ co'[r].waves = co[r].waves
    <3> DEFINE wt == {j \in Eligible(r) :
              /\ run[r].mode = "batch" /\ item[r][j].state = "waiting"
              /\ LastCall(r, j) # 0
              /\ call[r][j][LastCall(r, j)].state \in UnresolvedCallStates}
    <3>1. co' = [co EXCEPT ![r].pc = "items", ![r].jobs = Eligible(r), ![r].seen = Eligible(r),
                           ![r].wait = wt]
      BY <1>2 DEF ReadItems
    <3> HIDE DEF wt
    <3>2. co'[r] = [co[r] EXCEPT !.pc = "items", !.jobs = Eligible(r), !.seen = Eligible(r),
                                 !.wait = wt]
      BY <2>1, <3>1
    <3> QED BY <2>1, <3>2 DEF CoRecs
  <2>4. "read" \notin TransportPcs /\ "items" \notin BatchPcs
    BY DEF TransportPcs, WavePcs, BatchPcs
  <2>5. TransportOf(r)' /\ WaveFrame(r) BY <1>1, <2>2, <2>3, <2>4, OutOfTransport
  <2>6. Eligible(r) \subseteq Remaining(r)'
    BY <2>2 DEF Eligible, Remaining, ItemsOf, TerminalItemStates
  <2>7. HandOf(r)' BY <2>3, <2>6 DEF HandOf, CallPcs
  <2> QED BY <1>1, <2>2, <2>5, <2>7, QuietWaves
<1>3. CASE ItemStale(r) \/ ReplayStale(r) \/ ReplayMismatch(r)
  <2>1. co[r].pc \in ItemPcs /\ Current(r) \in Remaining(r)
    BY <1>3, ItemInHand DEF ItemStale, ReplayStale, ReplayMismatch, Replaying, Executing, At, ItemPcs
  <2>2. Discard(r) /\ UNCHANGED <<wave, lock>>
    BY <1>3 DEF ItemStale, ReplayStale, ReplayMismatch
  <2>3. left'.steps = left.steps BY <1>1 DEF StepOf, OffersKept
  <2>4. OnlyCurrent(r) BY <2>1, <2>2, <2>3, DiscardKept
  <2>5. HandOf(r)' /\ TransportOf(r)' /\ WaveFrame(r) BY <1>1, <2>1, <2>2, <2>4, ItemIsDone
  <2> QED BY <1>1, <2>1, <2>2, <2>5, DiscardLinks
<1>4. CASE ItemFails(r)
  <2>1. co[r].pc \in ItemPcs /\ Current(r) \in Remaining(r)
    BY <1>4, ItemInHand DEF ItemFails, Executing, At, ItemPcs
  <2>2. Record(r, "failed") /\ UNCHANGED <<wave, lock, call>> BY <1>4 DEF ItemFails
  <2>3. "failed" \in ItemStates \ {"none", "transferred"} BY DEF ItemStates
  <2>4. OnlyCurrent(r) BY <2>1, <2>2, <2>3, RecordKept
  <2>5. HandOf(r)' /\ TransportOf(r)' /\ WaveFrame(r) BY <1>1, <2>1, <2>2, <2>4, ItemIsDone
  <2> QED BY <1>1, <2>2, <2>5, QuietWaves
<1>5. CASE ItemStillWaits(r) \/ ReplayStops(r)
  <2>1. co[r].pc \in ItemPcs /\ NextItem(r) /\ UNCHANGED <<wave, lock, call, item>>
    BY <1>5 DEF ItemStillWaits, ReplayStops, Executing, At, ItemPcs
  <2>2. OnlyCurrent(r) BY <2>1 DEF OnlyCurrent
  <2>3. HandOf(r)' /\ TransportOf(r)' /\ WaveFrame(r) BY <1>1, <2>1, <2>2, ItemIsDone
  <2> QED BY <1>1, <2>1, <2>3, QuietWaves
<1>6. CASE Reserve(r) \/ Acknowledge(r)
  <2>1. co[r].pc \in ItemPcs /\ co[r].jobs # {} /\ UNCHANGED <<wave, lock, call>>
    BY <1>6, ItemInHand DEF Reserve, Acknowledge, Executing, At, ItemPcs
  <2>2. item' = [item EXCEPT ![r][Current(r)].app = TRUE] \/ UNCHANGED item
    BY <1>6 DEF Reserve, Acknowledge
  <2>3. ASSUME NEW j \in Jobs PROVE item'[r][j].state = item[r][j].state
    <3>1. item[r][j] \in ItemRecs BY <1>1 DEF Items
    <3>2. item'[r][j] = item[r][j] \/ item'[r][j] = [item[r][j] EXCEPT !.app = TRUE]
      BY <1>1, <2>2 DEF Items
    <3> QED BY <3>1, <3>2 DEF ItemRecs
  <2>4. PICK p \in {"reserved", "replay"} : Go(r, p) BY <1>6 DEF Reserve, Acknowledge
  <2>5. p \in ItemPcs \ {"items"} /\ p \notin CallPcs BY <2>4 DEF ItemPcs, CallPcs
  <2>6. HandOf(r)' /\ TransportOf(r)' /\ WaveFrame(r)
    BY <1>1, <2>1, <2>3, <2>4, <2>5, ItemGoesOn
  <2> QED BY <1>1, <2>1, <2>6, QuietWaves
<1> QED BY <1>2, <1>3, <1>4, <1>5, <1>6

\* the next call of the item in hand gets a state
Wrote(r, s) == call' = [call EXCEPT ![r][Current(r)][NextCall(r)].state = s]

\* ... and no other call does
LEMMA NextCallWrite ==
    ASSUME IInv, NEW r \in Runs, Current(r) \in Jobs, NextCall(r) \in Positions
    PROVE  \A s : Wrote(r, s) =>
             \A j \in Jobs, k \in Positions :
               /\ call'[r][j][k].wave = call[r][j][k].wave
               /\ call'[r][j][k].state =
                     IF j = Current(r) /\ k = NextCall(r) THEN s ELSE call[r][j][k].state
<1> DEFINE jj == Current(r)
           kk == NextCall(r)
<1>1. call \in Journals /\ jj \in Jobs /\ kk \in Positions BY Born
<1> SUFFICES ASSUME NEW s, call' = [call EXCEPT ![r][jj][kk].state = s],
                    NEW j \in Jobs, NEW k \in Positions
             PROVE  /\ call'[r][j][k].wave = call[r][j][k].wave
                    /\ call'[r][j][k].state =
                          IF j = jj /\ k = kk THEN s ELSE call[r][j][k].state
  BY DEF Wrote
<1> HIDE DEF jj, kk
<1>2. call[r][j][k] \in CallRecs BY <1>1 DEF Journals
<1>3. call'[r] = [call[r] EXCEPT ![jj][kk].state = s] BY <1>1 DEF Journals
<1>4. call'[r][j] = IF j = jj THEN [call[r][j] EXCEPT ![kk].state = s] ELSE call[r][j]
  BY <1>1, <1>3 DEF Journals
<1>5. CASE j = jj /\ k = kk
  <2>1. call'[r][j][k] = [call[r][j][k] EXCEPT !.state = s] BY <1>1, <1>4, <1>5 DEF Journals
  <2> QED BY <1>2, <1>5, <2>1 DEF CallRecs
<1>6. CASE ~(j = jj /\ k = kk)
  <2>1. call'[r][j][k] = call[r][j][k] BY <1>1, <1>4, <1>6 DEF Journals
  <2> QED BY <1>6, <2>1
<1> QED BY <1>5, <1>6

\* a call that gets no answer is still missing
LEMMA StillMissing ==
    ASSUME IInv, NEW r \in Runs, Current(r) \in Jobs, UNCHANGED <<left, item>>,
           co'[r].jobs = co[r].jobs, Missing(r, Current(r)) # {},
           NEW s, s # "completed",
           call' = [call EXCEPT ![r][Current(r)][NextCall(r)].state = s]
    PROVE  Missing(r, Current(r))' # {}
<1>1. NextCall(r) \in Missing(r, Current(r)) /\ NextCall(r) \in Positions BY NextCallFrame
<1>2. call'[r][Current(r)][NextCall(r)].state = s
  <2>1. Wrote(r, s) BY DEF Wrote
  <2> QED BY <1>1, <2>1, NextCallWrite
<1>3. Current(r)' = Current(r) BY DEF Current
<1>4. NextCall(r) \in Missing(r, Current(r))' BY <1>1, <1>2, <1>3 DEF Missing
<1> QED BY <1>4

\* the replay of saved answers, and the immediate call it leads to
LEMMA ReplayHolds ==
    ASSUME IInv, NEW r \in Runs,
           \/ ReplayWaits(r) \/ ReplayFails(r) \/ ReplayCalls(r) \/ Intend(r) \/ Answer(r)
           \/ AnswerFails(r) \/ Publish(r)
    PROVE  Holds(r)
<1> USE DEF Holds, world, journal
<1>1. StepOf(r) BY ReplayStep
<1>2. /\ co[r].pc \in ItemPcs \ {"items"} /\ UNCHANGED <<wave, lock>>
  BY DEF ReplayWaits, ReplayFails, ReplayCalls, Intend, Answer, AnswerFails, Publish, Replaying, At,
         ItemPcs
<1>3. /\ Current(r) \in Jobs /\ Current(r) \in Remaining(r)
      /\ co[r].jobs # {}
  BY <1>2, ItemInHand
<1>4. co[r].pc \in CallPcs => run[r].mode = "immediate" /\ Missing(r, Current(r)) # {}
  BY DEF IInv, InHand, HandOf
<1>5. \A s \in {"failed", "waiting", "completed"} : s \in ItemStates \ {"none", "transferred"}
  BY DEF ItemStates, TerminalItemStates
<1>6. CASE ReplayWaits(r)
  <2>1. Record(r, "waiting") /\ Missing(r, Current(r)) # {} BY <1>6 DEF ReplayWaits, CallIs
  <2>2. OnlyCurrent(r) BY <1>3, <1>5, <2>1, RecordKept
  <2>3. HandOf(r)' /\ TransportOf(r)' /\ WaveFrame(r) BY <1>1, <1>2, <2>2, ItemIsDone
  <2>4. NextCall(r) \in Positions BY <1>3, <2>1, NextCallFrame
  <2> DEFINE s0 == call[r][Current(r)][NextCall(r)].state
             s == IF s0 = "none" THEN "prepared" ELSE s0
  <2>5. call' = [call EXCEPT ![r][Current(r)][NextCall(r)].state = s]
    BY <1>6 DEF ReplayWaits
  <2>6. s = s0 \/ s = "prepared" OBVIOUS
  <2>7. \A j \in Jobs, k \in Positions :
             /\ call'[r][j][k].wave = call[r][j][k].wave
             /\ call'[r][j][k].state =
                   IF j = Current(r) /\ k = NextCall(r) THEN s ELSE call[r][j][k].state
    <3>1. Wrote(r, s) BY <2>5 DEF Wrote
    <3> HIDE DEF s
    <3> QED BY <1>3, <2>4, <3>1, NextCallWrite
  <2>8. \A j \in Jobs, k \in Positions :
             /\ call'[r][j][k].wave = call[r][j][k].wave
             /\ \/ call'[r][j][k].state = call[r][j][k].state
                \/ call'[r][j][k].state \notin {"completed", "failed"}
    <3> HIDE DEF s
    <3> QED BY <2>6, <2>7
  <2>9. Linked' BY <1>1, <1>2, <2>8, ItemLinks
  <2> QED BY <2>3, <2>9
<1>7. CASE ReplayFails(r) \/ Publish(r)
  <2>1. PICK s \in {"failed", "completed"} : Record(r, s) /\ (s = "completed" => Publish(r))
    BY <1>7 DEF ReplayFails, Publish
  <2>2. s = "completed" => /\ offer[Current(r)].app # "published"
                           /\ offer'[Current(r)].app = "published"
                           /\ Missing(r, Current(r)) = {}
    <3>1. offer \in [Jobs -> OfferRecs] BY DEF IInv, TypeOK
    <3> QED BY <1>3, <2>1, <3>1 DEF Publish, Replaying, OfferRecs
  <2>3. OnlyCurrent(r) BY <1>3, <1>5, <2>1, <2>2, RecordKept
  <2>4. HandOf(r)' /\ TransportOf(r)' /\ WaveFrame(r) BY <1>1, <1>2, <2>3, ItemIsDone
  <2>5. UNCHANGED call BY <1>7 DEF ReplayFails, Publish
  <2> QED BY <1>1, <1>2, <2>4, <2>5, QuietWaves
<1>8. CASE ReplayCalls(r) \/ Intend(r)
  <2>1. run[r].mode = "immediate" /\ Missing(r, Current(r)) # {}
    BY <1>4, <1>8 DEF ReplayCalls, CallIs, Intend, At, CallPcs
  <2>2. PICK p \in {"intent", "answer"} : Go(r, p) BY <1>8 DEF ReplayCalls, Intend
  <2>3. co'[r].jobs = co[r].jobs /\ UNCHANGED <<left, item>>
    BY <1>8, <2>2, CoAfter DEF ReplayCalls, Intend
  <2>4. PICK s : s # "completed" /\ call' = [call EXCEPT ![r][Current(r)][NextCall(r)].state = s]
    <3> DEFINE s0 == call[r][Current(r)][NextCall(r)].state
               s1 == IF s0 = "none" THEN "prepared" ELSE s0
    <3>1. CASE ReplayCalls(r)
      <4>1. s0 # "completed" BY <3>1 DEF ReplayCalls, CallIs
      <4>2. call' = [call EXCEPT ![r][Current(r)][NextCall(r)].state = s1]
        BY <3>1 DEF ReplayCalls
      <4>3. s1 # "completed" BY <4>1
      <4> HIDE DEF s1
      <4> QED BY <4>2, <4>3
    <3>2. CASE Intend(r) BY <3>2 DEF Intend
    <3> QED BY <1>8, <3>1, <3>2
  <2>5. Missing(r, Current(r))' # {} BY <1>3, <2>1, <2>3, <2>4, StillMissing
  <2>6. p \in ItemPcs \ {"items"} /\ \A j \in Jobs : item'[r][j].state = item[r][j].state
    BY <2>2, <2>3 DEF ItemPcs
  <2>7. HandOf(r)' /\ TransportOf(r)' /\ WaveFrame(r)
    BY <1>1, <1>2, <1>3, <2>1, <2>2, <2>5, <2>6, ItemGoesOn
  <2> QED BY <1>1, <1>2, <2>1, <2>7, QuietWaves
<1>9. CASE Answer(r)
  <2>1. run[r].mode = "immediate" /\ Go(r, "replay") /\ UNCHANGED item
    BY <1>4, <1>9 DEF Answer, At, CallPcs
  <2>2. "replay" \in ItemPcs \ {"items"} /\ "replay" \notin CallPcs BY DEF ItemPcs, CallPcs
  <2>3. HandOf(r)' /\ TransportOf(r)' /\ WaveFrame(r)
    BY <1>1, <1>2, <1>3, <2>1, <2>2, ItemGoesOn
  <2> QED BY <1>1, <1>2, <2>1, <2>3, QuietWaves
<1>10. CASE AnswerFails(r)
  <2>1. run[r].mode = "immediate" /\ Record(r, "failed")
    BY <1>4, <1>10 DEF AnswerFails, At, CallPcs
  <2>2. OnlyCurrent(r) BY <1>3, <1>5, <2>1, RecordKept
  <2>3. HandOf(r)' /\ TransportOf(r)' /\ WaveFrame(r) BY <1>1, <1>2, <2>2, ItemIsDone
  <2> QED BY <1>1, <1>2, <2>1, <2>3, QuietWaves
<1> QED BY <1>6, <1>7, <1>8, <1>9, <1>10

\* the end of a follow-up
LEMMA EndHolds ==
    ASSUME IInv, NEW r \in Runs, AfterItems(r) \/ Recheck(r) \/ Finish(r)
    PROVE  Holds(r)
<1> USE DEF Holds, world, journal
<1>1. StepOf(r) BY EndStep
<1>2. co \in [Runs -> CoRecs] /\ co[r] \in CoRecs /\ run[r] \in RunRecs BY Born
<1>3. CASE AfterItems(r)
  <2>1. co[r].pc = "items" /\ UNCHANGED <<wave, lock, call>> BY <1>3 DEF AfterItems, At
  <2>2. co[r].waves = {} BY <2>1, InTransportFacts DEF TransportPcs, WavePcs
  <2>3. co'[r] = [co[r] EXCEPT !.jobs = {}, !.wait = {}, !.stopped = run[r].stop,
              !.phase = IF run[r].stop THEN "last" ELSE "send",
              !.pc = CASE run[r].mode = "immediate" -> "finish"
                      [] run[r].mode = "batch" /\ run[r].stop -> "sync"
                      [] OTHER -> "fresh"]
    BY <1>2, <1>3 DEF AfterItems
  <2>4. run[r].mode \in {"batch", "immediate"} BY <1>2 DEF RunRecs
  <2>5. co'[r].waves = {} /\ co'[r].phase # "none" BY <1>2, <2>2, <2>3 DEF CoRecs
  <2>6. /\ co'[r].pc \in {"finish", "sync", "fresh"}
        /\ co'[r].pc \in {"sync", "fresh"} => run[r].mode = "batch"
    BY <1>2, <2>3, <2>4 DEF CoRecs
  <2>7. co'[r].pc \notin TransportPcs /\ co'[r].pc \notin ItemPcs
        /\ (co'[r].pc \in BatchPcs => run[r].mode = "batch")
    BY <2>6 DEF TransportPcs, WavePcs, ItemPcs, BatchPcs
  <2>8. HandOf(r)' /\ TransportOf(r)' BY <1>1, <2>5, <2>7, NoItem, StaysOutside
  <2> QED BY <1>1, <2>1, <2>8, QuietWaves
<1>4. CASE Recheck(r)
  <2>1. co[r].pc = "fresh" /\ UNCHANGED <<wave, call>> BY <1>4 DEF Recheck, At
  <2>2. CASE Block(r) BY <1>1, <2>1, <2>2, BlockHolds
  <2>3. CASE Go(r, "send") /\ UNCHANGED lock
    <3>1. co[r].waves = {} /\ run[r].mode = "batch" /\ co[r].phase # "none"
      BY <2>1, InTransportFacts DEF TransportPcs, WavePcs, BatchPcs
    <3>2. co'[r].pc = "send" /\ co'[r].waves = {} /\ co'[r].phase # "none"
      BY <2>3, <3>1, CoAfter
    <3>3. co'[r].pc \notin TransportPcs /\ co'[r].pc \notin ItemPcs
      BY <3>2 DEF TransportPcs, WavePcs, ItemPcs
    <3>4. HandOf(r)' /\ TransportOf(r)' BY <1>1, <3>1, <3>2, <3>3, NoItem, StaysOutside
    <3> QED BY <1>1, <2>1, <2>3, <3>4, QuietWaves
  <2> QED BY <1>4, <2>2, <2>3 DEF Recheck
<1>5. CASE Finish(r)
  <2>1. co' = [co EXCEPT ![r] = IdleCo] /\ UNCHANGED <<wave, lock, call>> BY <1>5 DEF Finish
  <2>2. co'[r] = IdleCo BY <1>2, <2>1
  <2> QED BY <1>1, <2>1, <2>2, RestHolds, QuietWaves
<1> QED BY <1>3, <1>4, <1>5

\* a run that nobody follows, and the start of a follow-up
LEMMA IdleHolds ==
    ASSUME IInv, NEW r \in Runs, StepOf(r), UNCHANGED <<wave, lock>>,
           co[r].pc = "idle",
           UNCHANGED co \/ \E p \in {"sync", "read"} :
                co' = [co EXCEPT ![r].pc = p, ![r].phase = "first"]
                /\ (p = "sync" => run[r].mode = "batch")
    PROVE  HandOf(r)' /\ TransportOf(r)' /\ WaveFrame(r)
<1>1. co \in [Runs -> CoRecs] /\ co[r] \in CoRecs BY Born
<1>2. co[r].waves = {} BY InTransportFacts DEF TransportPcs, WavePcs
<1>3. CASE UNCHANGED co
  <2>1. co'[r].pc = "idle" /\ co'[r].waves = {} BY <1>2, <1>3
  <2>2. "idle" \notin TransportPcs /\ "idle" \notin BatchPcs /\ "idle" \notin ItemPcs
    BY DEF TransportPcs, WavePcs, BatchPcs, ItemPcs
  <2> QED BY <2>1, <2>2, NoItem, StaysOutside, QuietWaves
<1>4. ASSUME NEW p \in {"sync", "read"}, p = "sync" => run[r].mode = "batch",
             co' = [co EXCEPT ![r].pc = p, ![r].phase = "first"]
      PROVE  HandOf(r)' /\ TransportOf(r)' /\ WaveFrame(r)
  <2>1. co'[r] = [co[r] EXCEPT !.pc = p, !.phase = "first"] BY <1>1, <1>4
  <2>2. co'[r].pc = p /\ co'[r].phase = "first" /\ co'[r].waves = {} BY <1>1, <1>2, <2>1 DEF CoRecs
  <2>3. p \notin TransportPcs /\ p \notin ItemPcs /\ (p \in BatchPcs => p = "sync")
    BY DEF TransportPcs, WavePcs, BatchPcs, ItemPcs
  <2> QED BY <1>4, <2>2, <2>3, NoItem, StaysOutside, QuietWaves
<1> QED BY <1>3, <1>4

\* a step that touches neither the follow-up nor what it has in hand
LEMMA SameHolds ==
    ASSUME IInv, NEW r \in Runs, StepOf(r), UNCHANGED <<co, wave, lock, item, call, left>>
    PROVE  Holds(r)
<1>1. HandOf(r) /\ TransportOf(r) /\ run'[r].mode = run[r].mode
  BY DEF IInv, InHand, InTransport, StepOf, RunFrame
<1>2. Remaining(r)' = Remaining(r) /\ Missing(r, Current(r))' = Missing(r, Current(r))
  BY DEF Remaining, ItemsOf, Missing, Current
<1>3. HandOf(r)' BY <1>1, <1>2 DEF HandOf
<1>4. TransportOf(r)' BY <1>1 DEF TransportOf
<1> QED BY <1>3, <1>4, QuietWaves DEF Holds

\* what the user and the timer ask
LEMMA UserHolds ==
    ASSUME IInv, NEW r \in Runs,
           Advance(r) \/ Retry(r) \/ Cancel(r) \/ Abandon(r) \/ Sync(r) \/ SyncImmediate(r)
    PROVE  Holds(r)
<1> USE DEF Holds, world, journal, At
<1>1. StepOf(r) BY UserStep
<1>2. run[r] \in RunRecs BY Born
<1>3. CASE Advance(r) /\ co[r].pc = "idle"
  <2> DEFINE p == IF run[r].mode = "batch" THEN "sync" ELSE "read"
  <2>1. UNCHANGED <<wave, lock, call>> /\ p \in {"sync", "read"}
        /\ co' = [co EXCEPT ![r].pc = p, ![r].phase = "first"]
    BY <1>3 DEF Advance
  <2>2. p = "sync" => run[r].mode = "batch" OBVIOUS
  <2> HIDE DEF p
  <2>3. HandOf(r)' /\ TransportOf(r)' /\ WaveFrame(r) BY <1>1, <1>3, <2>1, <2>2, IdleHolds
  <2> QED BY <1>1, <2>1, <2>3, QuietWaves
<1>4. CASE Advance(r) /\ co[r].pc # "idle"
  <2>1. UNCHANGED <<co, wave, lock, item, call, left>> BY <1>4 DEF Advance
  <2> QED BY <1>1, <2>1, SameHolds
<1>5. CASE Retry(r)
  <2> DEFINE p == IF run[r].mode = "batch" THEN "sync" ELSE "read"
  <2>1. UNCHANGED <<wave, lock>> /\ p \in {"sync", "read"} /\ co[r].pc = "idle"
        /\ co' = [co EXCEPT ![r].pc = p, ![r].phase = "first"]
    BY <1>5 DEF Retry
  <2>2. p = "sync" => run[r].mode = "batch" OBVIOUS
  <2> HIDE DEF p
  <2>3. HandOf(r)' /\ TransportOf(r)' /\ WaveFrame(r) BY <1>1, <2>1, <2>2, IdleHolds
  <2>4. call' = [call EXCEPT ![r] = RetryCalls(r)] /\ call \in Journals BY <1>5, Born DEF Retry
  <2>5. \A j \in Jobs, k \in Positions : call'[r][j][k] = RetryCalls(r)[j][k]
    <3>1. call'[r] = RetryCalls(r) BY <2>4 DEF Journals
    <3> QED BY <3>1
  <2>6. ASSUME NEW v \in Waves PROVE LinkOf(v)'
    <3> SUFFICES ASSUME wave[v].run = r, NEW j \in Jobs, NEW k \in Positions,
                        <<j, k>> \in wave[v].calls
                 PROVE  call'[r][j][k] = call[r][j][k]
      BY <1>1, <2>1, LinkUnless
    <3>1. LinkOf(v) /\ r # NoRun
      BY GenerationAssumption DEF IInv, Linked, GenerationAssumption
    <3>2. call[r][j][k].state = "failed" => item[r][j].state \in TerminalItemStates
      BY <3>1 DEF LinkOf
    <3>3. ~(j \in Remaining(r) /\ call[r][j][k].state = "failed")
      BY <3>2 DEF Remaining
    <3>4. RetryCalls(r)[j][k] = call[r][j][k] BY <3>3 DEF RetryCalls
    <3> QED BY <2>5, <3>4
  <2> QED BY <2>3, <2>6 DEF Linked
<1>6. CASE Cancel(r)
  <2>1. UNCHANGED <<co, wave, lock, item, call, left>> BY <1>6 DEF Cancel
  <2> QED BY <1>1, <2>1, SameHolds
<1>7. CASE Abandon(r)
  <2>1. UNCHANGED <<co, wave, lock, call>> /\ co[r].pc = "idle" BY <1>7 DEF Abandon
  <2>2. HandOf(r)' /\ TransportOf(r)' /\ WaveFrame(r) BY <1>1, <2>1, IdleHolds
  <2> QED BY <1>1, <2>1, <2>2, QuietWaves
<1>8. CASE Sync(r)
  <2>1. UNCHANGED <<wave, lock, call>> /\ co[r].pc = "idle" /\ run[r].mode = "batch"
        /\ co' = [co EXCEPT ![r].pc = "sync", ![r].phase = "first"]
    BY <1>8 DEF Sync
  <2>2. HandOf(r)' /\ TransportOf(r)' /\ WaveFrame(r) BY <1>1, <2>1, IdleHolds
  <2> QED BY <1>1, <2>1, <2>2, QuietWaves
<1>9. CASE SyncImmediate(r)
  <2>1. UNCHANGED <<co, wave, lock>> /\ co[r].pc = "idle" /\ run[r].mode = "immediate"
    BY <1>9 DEF SyncImmediate
  <2>2. HandOf(r)' /\ TransportOf(r)' /\ WaveFrame(r) BY <1>1, <2>1, IdleHolds
  <2> QED BY <1>1, <2>1, <2>2, QuietWaves
<1> QED BY <1>3, <1>4, <1>5, <1>6, <1>7, <1>8, <1>9

----------------------------------------------------------------------------
(* Starting a run, and what concerns no run.                               *)

\* a new run takes offers from runs that are at rest only
LEMMA StartHolds ==
    ASSUME IInv, NEW r \in Runs, NEW js \in SUBSET Jobs, NEW mode \in Modes, Start(r, js, mode)
    PROVE  InHand' /\ InTransport' /\ Unborn' /\ Linked'
<1> DEFINE Leaves(s, j) == j \in js /\ Sources(j) # {} /\ s = SourceOf(j)
<1>1. /\ UNCHANGED <<world, wave, co, lock, left>> /\ run[r].state = "none"
      /\ \A j \in js : Startable(j)
      /\ due' \subseteq due \cup {r}
  BY DEF Start
<1>2. \A s \in Runs \ {r}, j \in Jobs :
         item'[s][j].state = IF Leaves(s, j) THEN "transferred" ELSE item[s][j].state
  BY StartItems
<1>3. \A s \in Runs \ {r} : call'[s] = call[s] BY StartItems
<1>4. co[r].pc = "idle" /\ \A w \in Waves : wave[w].run # r BY <1>1 DEF IInv, Unborn
<1>5. ASSUME NEW s \in Runs \ {r} PROVE run'[s].mode = run[s].mode
                                        /\ (run'[s].state = "none" => run[s].state = "none")
  <2>1. run[s] \in RunRecs BY Born
  <2>2. \E ks : run'[s] = run[s] \/ run'[s] = SourceAfter(s, ks) BY DEF Start
  <2>3. \A ks : \E x \in {"cancelled", "completed", "failed", run[s].state} :
           SourceAfter(s, ks) = [run[s] EXCEPT !.state = x]
    BY DEF SourceAfter
  <2> QED BY <2>1, <2>2, <2>3 DEF RunRecs
<1>6. ASSUME NEW s \in Runs \ {r}, NEW j \in Jobs, Leaves(s, j)
      PROVE  co[s].pc = "idle" /\ j \in Remaining(s)
  <2>1. Startable(j) BY <1>1, <1>6
  <2>2. j \in Remaining(SourceOf(j)) BY <1>6, SourceIs
  <2> QED BY <1>6, <2>1, <2>2 DEF Startable, At
<1>7. ASSUME NEW s \in Runs PROVE HandOf(s)'
  <2>1. CASE co[s].pc \notin ItemPcs
    BY <1>1, <2>1, NoItem
  <2>2. CASE co[s].pc \in ItemPcs
    <3>1. s \in Runs \ {r} BY <1>4, <2>2 DEF ItemPcs
    <3>2. co[s].pc # "idle" BY <2>2 DEF ItemPcs
    <3>3. \A j \in Jobs : item'[s][j].state = item[s][j].state
      <4> HIDE DEF Leaves
      <4> QED BY <1>2, <1>6, <3>1, <3>2
    <3>4. Remaining(s)' = Remaining(s) BY <3>3 DEF Remaining, ItemsOf
    <3>5. Missing(s, Current(s))' = Missing(s, Current(s)) BY <1>1, <1>3, <3>1 DEF Missing, Current
    <3>6. HandOf(s) BY DEF IInv, InHand
    <3> QED BY <1>1, <1>5, <3>1, <3>4, <3>5, <3>6 DEF HandOf
  <2> QED BY <2>1, <2>2
<1>8. ASSUME NEW s \in Runs PROVE TransportOf(s)'
  <2>1. TransportOf(s) BY DEF IInv, InTransport
  <2>2. CASE s = r
    BY <1>1, <1>4, <2>1, <2>2 DEF TransportOf, BatchPcs, TransportPcs, WavePcs
  <2>3. CASE s # r BY <1>1, <1>5, <2>1, <2>3 DEF TransportOf
  <2> QED BY <2>2, <2>3
<1>9. ASSUME NEW s \in Runs, run'[s].state = "none"
      PROVE  /\ co'[s].pc = "idle" /\ s \notin due'
             /\ \A j \in Jobs : item'[s][j].state = "none"
             /\ \A w \in Waves : wave'[w].run # s
             /\ \A j \in Jobs, k \in Positions : call'[s][j][k].state # "completed"
  <2>1. s \in Runs \ {r}
    <3>1. run'[r].state = "active" BY DEF Start
    <3> QED BY <1>9, <3>1
  <2>2. run[s].state = "none" BY <1>5, <1>9, <2>1
  <2>3. /\ co[s].pc = "idle" /\ s \notin due /\ \A j \in Jobs : item[s][j].state = "none"
        /\ \A w \in Waves : wave[w].run # s
        /\ \A j \in Jobs, k \in Positions : call[s][j][k].state # "completed"
    BY <2>2 DEF IInv, Unborn
  <2>4. ASSUME NEW j \in Jobs PROVE item'[s][j].state = "none"
    <3>1. j \notin Remaining(s) BY <2>3 DEF Remaining, ItemsOf
    <3>2. ~Leaves(s, j) BY <1>6, <2>1, <3>1
    <3> HIDE DEF Leaves
    <3> QED BY <1>2, <2>1, <2>3, <3>2
  <2>5. call'[s] = call[s] BY <1>3, <2>1
  <2>6. s \notin due' BY <1>1, <2>1, <2>3
  <2> QED BY <1>1, <2>3, <2>4, <2>5, <2>6
<1>10. ASSUME NEW w \in Waves PROVE LinkOf(w)'
  <2> DEFINE s == wave[w].run
  <2>1. wave[w] \in WaveRecs /\ LinkOf(w) /\ wave' = wave BY <1>1 DEF IInv, TypeOK, Linked
  <2>2. CASE s = NoRun BY <2>1, <2>2 DEF LinkOf
  <2>3. CASE s # NoRun
    <3>1. s \in Runs \ {r} BY <1>4, <2>1, <2>3 DEF WaveRecs
    <3>2. call'[s] = call[s] /\ run'[s].mode = run[s].mode BY <1>3, <1>5, <3>1
    <3>3. ASSUME NEW j \in Jobs, item[s][j].state \in TerminalItemStates
          PROVE  item'[s][j].state \in TerminalItemStates
      <4>1. item'[s][j].state \in {"transferred", item[s][j].state}
        <5> HIDE DEF Leaves, s
        <5> QED BY <1>2, <3>1
      <4> QED BY <3>3, <4>1 DEF TerminalItemStates
    <3> QED BY <2>1, <2>3, <3>2, <3>3 DEF LinkOf
  <2> QED BY <2>2, <2>3
<1> QED BY <1>7, <1>8, <1>9, <1>10 DEF InHand, InTransport, Unborn, Linked

\* a crash, the provider and the other operations leave the journal alone
LEMMA ApartHolds ==
    ASSUME IInv, Crash \/ (\E w \in Waves : BatchEnds(w)) \/ (\E j \in Jobs : Enter(j) \/ Change(j))
    PROVE  InHand' /\ InTransport' /\ Unborn' /\ Linked' /\ OneOwner' /\ OneDossier'
<1> USE DEF journal, world
<1>1. UNCHANGED <<run, item, call, wave>> BY DEF Crash, BatchEnds, Enter, Change
<1>2. left'.steps = left.steps
  <2>1. left \in [steps : Positions, edits : Nat, faults : Nat, retries : Nat]
    BY DEF IInv, TypeOK
  <2>2. \/ left' = left \/ left' = [left EXCEPT !.edits = @ - 1]
        \/ left' = [left EXCEPT !.faults = @ - 1]
    BY DEF Crash, BatchEnds, Enter, Change, Failing
  <2> QED BY <2>1, <2>2
<1>3. \A j \in Jobs : offer[j].app = "published" => offer'[j].app = "published"
  <2>1. offer \in [Jobs -> OfferRecs] BY DEF IInv, TypeOK
  <2>2. CASE UNCHANGED offer BY <2>2
  <2>3. CASE \E j \in Jobs : Change(j)
    <3>1. PICK i \in Jobs : \/ offer' = [offer EXCEPT ![i].ver = @ + 1]
                            \/ offer' = [offer EXCEPT ![i].held = ~@]
                            \/ offer' = [offer EXCEPT ![i].app = "published"]
      BY <2>3 DEF Change
    <3> QED BY <2>1, <3>1 DEF OfferRecs
  <2> QED BY <2>2, <2>3 DEF Crash, BatchEnds, Enter
<1>4. OneOwner' /\ OneDossier' BY <1>1, <1>2, <1>3, OwnerApart DEF OffersKept
<1>5. Linked' BY <1>1 DEF IInv, Linked, LinkOf
<1>6. CASE Crash
  <2>1. \A r \in Runs : co'[r] = IdleCo BY <1>6 DEF Crash
  <2>2. InHand' /\ InTransport' BY <2>1, RestHolds DEF InHand, InTransport
  <2>3. due' = {} BY <1>6 DEF Crash
  <2>4. Unborn' BY <1>1, <2>1, <2>3 DEF IInv, Unborn, IdleCo
  <2> QED BY <1>4, <1>5, <2>2, <2>4
<1>7. CASE ~Crash
  <2>1. UNCHANGED <<co, lock, due>> BY <1>7 DEF BatchEnds, Enter, Change
  <2>2. \A r \in Runs : Remaining(r)' = Remaining(r)
                        /\ Missing(r, Current(r))' = Missing(r, Current(r))
    BY <1>1, <1>2, <2>1 DEF Remaining, ItemsOf, Missing, Current
  <2>3. ASSUME NEW r \in Runs PROVE HandOf(r)' /\ TransportOf(r)'
    <3>1. HandOf(r) /\ TransportOf(r) BY DEF IInv, InHand, InTransport
    <3> QED BY <1>1, <2>1, <2>2, <3>1 DEF HandOf, TransportOf
  <2>4. Unborn' BY <1>1, <2>1 DEF IInv, Unborn
  <2> QED BY <1>4, <1>5, <2>3, <2>4 DEF InHand, InTransport
<1> QED BY <1>6, <1>7

----------------------------------------------------------------------------
(* The theorems.                                                           *)

\* a step of a run is a step of its follow-up, of its user or of its timer
LEMMA RunSteps ==
    ASSUME IInv, NEW r \in Runs,
           \/ Retry(r) \/ Cancel(r) \/ Abandon(r)
           \/ Advance(r) \/ Sync(r) \/ SyncImmediate(r) \/ Follow(r) \/ Fails(r)
    PROVE  StepOf(r) /\ Holds(r)
<1>1. CASE Retry(r) \/ Cancel(r) \/ Abandon(r) \/ Advance(r) \/ Sync(r) \/ SyncImmediate(r)
  BY <1>1, UserStep, UserHolds
<1>2. CASE TakeSync(r) \/ LockBusy(r) \/ TakeSend(r) \/ LeaveTransport(r)
  BY <1>2, SendStep, SendHolds
<1>3. CASE \E w \in Waves : DropPrepared(r, w) \/ SkipBlocked(r, w) \/ Prepare(r, w)
  BY <1>3, SendStep, PrepareHolds
<1>4. CASE \E w \in Waves :
              RefreshMissing(r, w) \/ RefreshRunning(r, w) \/ Import(r, w) \/ RefreshFails(r, w)
  BY <1>4, RefreshStep, RefreshHolds
<1>5. CASE Upload(r) \/ UploadFails(r) \/ Commit(r)
  BY <1>5, SendStep, CommitHolds
<1>6. CASE Post(r) \/ PostLost(r) \/ Posted(r) \/ PostRefused(r) \/ PostUnknown(r)
  BY <1>6, PostStep, PostHolds
<1>7. CASE \/ ReadItems(r) \/ ItemStale(r) \/ ItemFails(r) \/ ItemStillWaits(r) \/ Reserve(r)
           \/ Acknowledge(r) \/ ReplayStops(r) \/ ReplayStale(r) \/ ReplayMismatch(r)
  BY <1>7, ExecuteStep, ExecuteHolds
<1>8. CASE \/ ReplayWaits(r) \/ ReplayFails(r) \/ ReplayCalls(r) \/ Intend(r) \/ Answer(r)
           \/ AnswerFails(r) \/ Publish(r)
  BY <1>8, ReplayStep, ReplayHolds
<1>9. CASE AfterItems(r) \/ Recheck(r) \/ Finish(r)
  BY <1>9, EndStep, EndHolds
<1> QED BY <1>1, <1>2, <1>3, <1>4, <1>5, <1>6, <1>7, <1>8, <1>9 DEF Follow, Fails

\* every step is one of a run, a start, or leaves the journal alone
LEMMA NextSteps ==
    ASSUME IInv, Next
    PROVE  \/ \E r \in Runs : StepOf(r) /\ Holds(r)
           \/ \E r \in Runs, js \in SUBSET Jobs, mode \in Modes : Start(r, js, mode)
           \/ Crash \/ (\E w \in Waves : BatchEnds(w)) \/ (\E j \in Jobs : Enter(j) \/ Change(j))
BY RunSteps DEF Next, User

\* the invariant holds at the start
LEMMA InitInv == Init => IInv
<1> SUFFICES ASSUME Init PROVE IInv
  OBVIOUS
<1> USE DEF Init
<1>1. TypeOK
  <2>1. offer \in [Jobs -> OfferRecs] BY DEF OfferRecs
  <2>2. run \in [Runs -> RunRecs] BY DEF RunRecs, RunStates
  <2>3. item \in [Runs -> [Jobs -> ItemRecs]] BY DEF ItemRecs, ItemStates
  <2>4. NoCalls \in [Positions -> CallRecs] BY DEF NoCalls, CallRecs, CallStates
  <2>5. wave \in [Waves -> WaveRecs] BY DEF WaveRecs, NoWave
  <2>6. co \in [Runs -> CoRecs]
    <3>1. IdleCo \in CoRecs BY DEF IdleCo, CoRecs
    <3> QED BY <3>1
  <2>7. left \in [steps : Positions, edits : Nat, faults : Nat, retries : Nat]
    BY GenerationAssumption DEF GenerationAssumption, Positions
  <2> QED BY <2>1, <2>2, <2>3, <2>4, <2>5, <2>6, <2>7 DEF TypeOK
<1>2. \A r \in Runs : Remaining(r) = {} BY DEF Remaining, ItemsOf
<1>3. InHand BY DEF InHand, HandOf, IdleCo, ItemPcs, CallPcs
<1>4. InTransport
  BY DEF InTransport, TransportOf, IdleCo, BatchPcs, TransportPcs, WavePcs
<1>5. Unborn
  <2>1. \A r \in Runs : r # NoRun BY GenerationAssumption DEF GenerationAssumption
  <2> QED BY <2>1 DEF Unborn, IdleCo, NoWave, NoCalls
<1>6. Linked BY DEF Linked, LinkOf, NoWave
<1>7. OneOwner BY <1>2 DEF OneOwner, Sources
<1>8. OneDossier BY DEF OneDossier
<1> QED BY <1>1, <1>3, <1>4, <1>5, <1>6, <1>7, <1>8 DEF IInv

\* every step keeps the invariant
LEMMA NextInv == IInv /\ [Next]_vars => IInv'
<1> SUFFICES ASSUME IInv, [Next]_vars PROVE IInv'
  OBVIOUS
<1>1. TypeOK' BY TypeKept
<1>2. ASSUME NEW r \in Runs, StepOf(r), Holds(r) PROVE IInv'
  <2>1. OneOwner' /\ OneDossier' BY <1>2, OwnerKept
  <2>2. Unborn' /\ Linked' BY <1>2, UnbornKept DEF Holds
  <2>3. ASSUME NEW s \in Runs PROVE HandOf(s)' /\ TransportOf(s)'
    <3>1. CASE s = r BY <1>2, <3>1 DEF Holds
    <3>2. CASE s # r
      <4>1. s \in Runs \ {r} /\ WaveFrame(r) BY <1>2, <3>2 DEF Holds
      <4> QED BY <1>2, <4>1, OthersHold
    <3> QED BY <3>1, <3>2
  <2>4. InHand' /\ InTransport' BY <2>3 DEF InHand, InTransport
  <2> QED BY <1>1, <2>1, <2>2, <2>4 DEF IInv
<1>3. ASSUME NEW r \in Runs, NEW js \in SUBSET Jobs, NEW mode \in Modes, Start(r, js, mode)
      PROVE  IInv'
  BY <1>1, <1>3, StartHolds, OwnerStart DEF IInv
<1>4. CASE Crash \/ (\E w \in Waves : BatchEnds(w)) \/ (\E j \in Jobs : Enter(j) \/ Change(j))
  BY <1>1, <1>4, ApartHolds DEF IInv
<1>5. CASE UNCHANGED vars
  <2> USE <1>5 DEF vars, journal, world
  <2>1. UNCHANGED <<offer, run, item, call, wave, co, lock, due, left>> OBVIOUS
  <2>2. \A r \in Runs : Remaining(r)' = Remaining(r)
                        /\ Missing(r, Current(r))' = Missing(r, Current(r))
    BY <2>1 DEF Remaining, ItemsOf, Missing, Current
  <2>3. InHand' BY <2>1, <2>2 DEF IInv, InHand, HandOf
  <2>4. InTransport' BY <2>1 DEF IInv, InTransport, TransportOf
  <2>5. Unborn' BY <2>1 DEF IInv, Unborn
  <2>6. Linked' BY <2>1 DEF IInv, Linked, LinkOf
  <2>7. OneOwner' /\ OneDossier' BY <2>1, OwnerApart DEF OffersKept
  <2> QED BY <1>1, <2>3, <2>4, <2>5, <2>6, <2>7 DEF IInv
<1> QED BY <1>2, <1>3, <1>4, <1>5, NextSteps

\* IInv is an invariant: nothing a run has in hand, no outstanding wave and no
\* owner of an offer is lost whatever the interleaving, crash or lost answer.
THEOREM Invariance == Spec => []IInv
BY InitInv, NextInv, PTL DEF Spec

\* Every variable always holds a value the offers, the journal's columns and a
\* follow-up can hold.
THEOREM TypeCorrect == Spec => []TypeOK
<1>1. IInv => TypeOK BY DEF IInv
<1> QED BY <1>1, Invariance, PTL

\* Whatever is stopped, abandoned, resumed in another run or retried, at most one
\* run has the unfinished item of an offer.
THEOREM OwnersAreUnique == Spec => []OneOwner
<1>1. IInv => OneOwner BY DEF IInv
<1> QED BY <1>1, Invariance, PTL

\* An offer gets one dossier from all its runs, made of answers that are in the
\* journal of the run that published it.
THEOREM DossiersAreUnique == Spec => []OneDossier
<1>1. IInv => OneDossier BY DEF IInv
<1> QED BY <1>1, Invariance, PTL

\* No batch of a run is submitted from the moment its Stop is recorded until the
\* user resumes it.
THEOREM StopIsRespected == Spec => StopHolds
<1>1. IInv /\ [Next]_vars =>
        [\A w \in Waves : wave[w].state # "submitting" /\ wave'[w].state = "submitting"
             => ~run[wave'[w].run].stop]_vars
  <2> SUFFICES ASSUME IInv, Next, NEW w \in Waves,
                      wave[w].state # "submitting", wave'[w].state = "submitting"
               PROVE  ~run[wave'[w].run].stop
    OBVIOUS
  <2>1. ~UNCHANGED wave OBVIOUS
  <2>2. PICK r \in Runs : Holds(r)
    <3>1. Crash => UNCHANGED wave BY DEF Crash, journal
    <3>2. \A v \in Waves : BatchEnds(v) => UNCHANGED wave BY DEF BatchEnds, journal
    <3>3. \A j \in Jobs : Enter(j) \/ Change(j) => UNCHANGED wave BY DEF Enter, Change, journal
    <3>4. \A r \in Runs, js \in SUBSET Jobs, mode \in Modes : Start(r, js, mode) => UNCHANGED wave
      BY DEF Start
    <3> QED BY <2>1, <3>1, <3>2, <3>3, <3>4, NextSteps
  <2>3. WaveFrame(r) BY <2>2 DEF Holds
  <2> QED BY <2>3 DEF WaveFrame
<1> QED BY <1>1, Invariance, PTL DEF Spec, StopHolds

\* a run that takes an offer over takes its answers along
LEMMA AnswersMove ==
    ASSUME IInv, NEW r \in Runs, NEW js \in SUBSET Jobs, NEW mode \in Modes, Start(r, js, mode)
    PROVE  \A t \in Runs, i \in Jobs, k \in Positions : call[t][i][k].state = "completed" =>
              /\ call'[t][i][k].state = "completed"
              /\ item[t][i].state # "transferred" /\ item'[t][i].state = "transferred" =>
                    /\ item[r][i].state = "none" /\ item'[r][i].state = "pending"
                    /\ call'[r][i][k].state = "completed"
<1> DEFINE Leaves(s, j) == j \in js /\ Sources(j) # {} /\ s = SourceOf(j)
<1>1. \A j \in Jobs : item'[r][j].state = IF j \in js THEN "pending" ELSE "none"
  BY StartItems
<1>2. \A s \in Runs \ {r}, j \in Jobs :
         item'[s][j].state = IF Leaves(s, j) THEN "transferred" ELSE item[s][j].state
  BY StartItems
<1>3. \A s \in Runs \ {r} : call'[s] = call[s]
  BY StartItems
<1>4. call'[r] = [j \in Jobs |-> IF j \in js THEN Copied(j) ELSE NoCalls]
  BY StartItems
<1>5. run[r].state = "none" BY DEF Start
<1> SUFFICES ASSUME NEW t \in Runs, NEW i \in Jobs, NEW k \in Positions,
                    call[t][i][k].state = "completed"
             PROVE  /\ call'[t][i][k].state = "completed"
                    /\ item[t][i].state # "transferred" /\ item'[t][i].state = "transferred" =>
                          /\ item[r][i].state = "none" /\ item'[r][i].state = "pending"
                          /\ call'[r][i][k].state = "completed"
  OBVIOUS
<1>6. t \in Runs \ {r} /\ item[r][i].state = "none" BY <1>5 DEF IInv, Unborn
<1>7. call'[t][i][k].state = "completed" BY <1>3, <1>6
<1>8. ASSUME item[t][i].state # "transferred", item'[t][i].state = "transferred"
      PROVE  item'[r][i].state = "pending" /\ call'[r][i][k].state = "completed"
  <2>1. Leaves(t, i)
    <3> HIDE DEF Leaves
    <3> QED BY <1>2, <1>6, <1>8
  <2>2. Copied(i)[k].state = "completed" BY <2>1 DEF Copied
  <2>3. call'[r][i] = Copied(i) BY <1>4, <2>1
  <2> QED BY <1>1, <2>1, <2>2, <2>3
<1> QED BY <1>6, <1>7, <1>8

\* A paid answer stays in the journal, and goes along when another run takes the
\* offer over.
THEOREM AnswersAreKept == Spec => AnswersKept
<1> DEFINE Kept1(r, j, k) ==
        call[r][j][k].state = "completed" =>
          /\ call'[r][j][k].state = "completed"
          /\ item[r][j].state # "transferred" /\ item'[r][j].state = "transferred" =>
                \E s \in Runs : /\ item[s][j].state = "none" /\ item'[s][j].state = "pending"
                                /\ call'[s][j][k].state = "completed"
<1>1. ASSUME IInv, Next, NEW r \in Runs, NEW j \in Jobs, NEW k \in Positions
      PROVE  Kept1(r, j, k)
  <2> SUFFICES ASSUME call[r][j][k].state = "completed"
               PROVE  /\ call'[r][j][k].state = "completed"
                      /\ item[r][j].state # "transferred" /\ item'[r][j].state = "transferred" =>
                            \E s \in Runs :
                               /\ item[s][j].state = "none" /\ item'[s][j].state = "pending"
                               /\ call'[s][j][k].state = "completed"
    OBVIOUS
  <2>1. ASSUME NEW q \in Runs, StepOf(q)
        PROVE  /\ call'[r][j][k].state = "completed"
               /\ item'[r][j].state = "transferred" => item[r][j].state = "transferred"
    <3>1. CallFrame(q) /\ ItemFrame(q) BY <2>1 DEF StepOf
    <3> QED BY <3>1 DEF CallFrame, ItemFrame
  <2>2. ASSUME NEW q \in Runs, NEW js \in SUBSET Jobs, NEW mode \in Modes, Start(q, js, mode)
        PROVE  /\ call'[r][j][k].state = "completed"
               /\ item[r][j].state # "transferred" /\ item'[r][j].state = "transferred" =>
                      /\ item[q][j].state = "none" /\ item'[q][j].state = "pending"
                      /\ call'[q][j][k].state = "completed"
    BY <1>1, <2>2, AnswersMove
  <2>3. CASE Crash \/ (\E w \in Waves : BatchEnds(w)) \/ (\E i \in Jobs : Enter(i) \/ Change(i))
    <3>1. UNCHANGED <<item, call>> BY <2>3 DEF Crash, BatchEnds, Enter, Change, journal
    <3> QED BY <3>1
  <2> QED BY <1>1, <2>1, <2>2, <2>3, NextSteps
<1>2. IInv /\ [Next]_vars => [\A r \in Runs, j \in Jobs, k \in Positions : Kept1(r, j, k)]_vars
  <2> HIDE DEF Kept1
  <2> QED BY <1>1
<1> QED BY <1>2, Invariance, PTL DEF Spec, AnswersKept

----------------------------------------------------------------------------
(* What is paid, and what is published.                                    *)

\* runs are registered in the order of their ids
BornInOrder == \A s, r \in Runs : s < r /\ run[r].state # "none" => run[s].state # "none"

\* an offer that a later run has, or that a run completed, is not to be done by
\* an earlier one, or by any
Later == \A s, r \in Runs, j \in Jobs :
            s < r /\ item[r][j].state # "none" => j \notin Remaining(s)
Closed == \A s, r \in Runs, j \in Jobs : item[s][j].state = "completed" => j \notin Remaining(r)

\* an offer that was handed over has no payment under way where it was, and some
\* later run has it
HandedOver ==
    \A s \in Runs, j \in Jobs : item[s][j].state = "transferred" =>
        /\ \A k \in Positions :
              /\ call[s][j][k].state \notin UnresolvedCallStates
              /\ \A w \in Waves : wave[w].run = s => <<j, k>> \notin wave[w].calls
        /\ \E t \in Runs : s < t /\ item[t][j].state \notin {"none", "transferred"}

\* its answers are where its work goes on
AnswersFollow ==
    \A s, r \in Runs, j \in Jobs, k \in Positions :
        /\ item[s][j].state = "transferred" /\ call[s][j][k].state = "completed"
        /\ s < r /\ item[r][j].state \notin {"none", "stale"} /\ ~GivenUpBetween(s, r, j)
        => call[r][j][k].state = "completed"

\* requests of a prepared wave were not sent; every wave of a run is outstanding
Unsold(w) ==
    /\ wave[w].state = "prepared" =>
          \A j \in Jobs, k \in Positions : <<j, k>> \in wave[w].calls =>
              call[wave[w].run][j][k].state \in {"prepared", "failed"}
    /\ wave[w].run # NoRun => wave[w].state \in OutstandingWaveStates
FreshWaves == \A w \in Waves : Unsold(w)

\* what is about to be paid was not sent, and is of offers that are to be done
PayOf(r) ==
    /\ co[r].pc \in {"upload", "commit"} =>
          /\ wave[Handled(r)].state = "prepared"
          /\ \A c \in wave[Handled(r)].calls : c[1] \in Eligible(r)
    /\ co[r].pc = "intent" => call[r][Current(r)][NextCall(r)].state = "prepared"

\* immediate calls are never in a batch
AtOnce(r) == run[r].mode = "immediate" =>
                \A j \in Jobs, k \in Positions : call[r][j][k].state # "submitted"

\* an empty application is replayed over by the run that reserved it
ClaimOf(r) ==
    co[r].pc \in {"replay", "intent", "answer"} /\ offer[Current(r)].app = "empty" =>
        item[r][Current(r)].app

WInv ==
    /\ BornInOrder /\ Later /\ Closed /\ HandedOver /\ AnswersFollow /\ FreshWaves
    /\ \A r \in Runs : PayOf(r) /\ AtOnce(r) /\ ClaimOf(r)

(* What a step of one run does to payments.                                *)

\* calls of offers that were handed over are left alone
CallsOver(r) ==
    \A j \in Jobs, k \in Positions : item[r][j].state = "transferred" =>
        /\ call'[r][j][k].state = "completed" => call[r][j][k].state = "completed"
        /\ call'[r][j][k].state \in UnresolvedCallStates =>
              call[r][j][k].state \in UnresolvedCallStates

\* waves of other runs are left alone, and requests join one only to be done
WavesOf(r) ==
    \A w \in Waves :
        /\ wave'[w].run \notin {r, NoRun} => wave'[w] = wave[w]
        /\ wave'[w].run = r =>
              /\ \A j \in Jobs, k \in Positions : <<j, k>> \in wave'[w].calls =>
                    \/ wave[w].run = r /\ <<j, k>> \in wave[w].calls
                    \/ j \in Remaining(r)
              /\ Unsold(w)'

\* an application becomes empty by a reservation, and is forgotten with it
Claims(r) ==
    \A j \in Jobs : offer'[j].app = "empty" =>
        /\ offer[j].app = "empty" \/ j \in Remaining(r)
        /\ \A s \in Runs : item[s][j].app => item'[s][j].app

\* what is paid was prepared, of an offer that is to be done
SendsOf(r) ==
    \A j \in Jobs, k \in Positions :
        Sending(r, j, k) => j \in Remaining(r) /\ call[r][j][k].state = "prepared"

\* what is published is the reserved application of the offer it was made for
PublishesOf(r) ==
    \A j \in Jobs : item[r][j].state # "completed" /\ item'[r][j].state = "completed"
                        => Valid(r, j) /\ offer[j].app = "empty" /\ item[r][j].app

Pays(r) == CallsOver(r) /\ WavesOf(r) /\ PayOf(r)' /\ AtOnce(r)' /\ SendsOf(r)
Owns(r) == Claims(r) /\ ClaimOf(r)' /\ PublishesOf(r)

----------------------------------------------------------------------------
(* Each step, run by run.                                                  *)

\* a follow-up that is not about to pay
LEMMA NotPaying ==
    ASSUME NEW r \in Runs, co'[r].pc \notin {"upload", "commit", "intent"}
    PROVE  PayOf(r)'
BY DEF PayOf

\* what writes neither a call nor a wave
LEMMA QuietPays ==
    ASSUME IInv, WInv, NEW r \in Runs, StepOf(r), UNCHANGED <<wave, call>>
    PROVE  CallsOver(r) /\ WavesOf(r) /\ AtOnce(r)' /\ SendsOf(r)
<1>1. r # NoRun /\ run'[r].mode = run[r].mode
  BY GenerationAssumption DEF GenerationAssumption, StepOf, RunFrame
<1>2. CallsOver(r) /\ SendsOf(r) BY DEF CallsOver, SendsOf, Sending
<1>3. AtOnce(r)' BY <1>1 DEF AtOnce, WInv
<1>4. WavesOf(r)
  <2>1. ASSUME NEW w \in Waves PROVE Unsold(w)' BY DEF WInv, FreshWaves, Unsold
  <2> QED BY <2>1 DEF WavesOf
<1> QED BY <1>2, <1>3, <1>4

\* what writes calls: those of waves are at most prepared again, or failed
LEMMA CallPays ==
    ASSUME IInv, WInv, NEW r \in Runs, StepOf(r), UNCHANGED wave,
           \A j \in Jobs, k \in Positions :
              \/ call'[r][j][k].state = call[r][j][k].state
              \/ /\ call'[r][j][k].state \in {"prepared", "failed"}
              \/ /\ run[r].mode = "immediate" /\ call'[r][j][k].state # "submitted"
                 /\ \/ j \in Remaining(r)
                    \/ call[r][j][k].state = "submitting" /\ call'[r][j][k].state = "uncertain"
    PROVE  CallsOver(r) /\ WavesOf(r) /\ AtOnce(r)'
<1>1. r # NoRun /\ run'[r].mode = run[r].mode
  BY GenerationAssumption DEF GenerationAssumption, StepOf, RunFrame
<1>2. CallsOver(r)
  <2>1. ASSUME NEW j \in Jobs, NEW k \in Positions, item[r][j].state = "transferred"
        PROVE  j \notin Remaining(r)
    BY <2>1 DEF Remaining, TerminalItemStates
  <2> QED BY <2>1 DEF CallsOver, UnresolvedCallStates
<1>3. AtOnce(r)' BY <1>1 DEF AtOnce, WInv
<1>4. ASSUME NEW w \in Waves, wave[w].run = r PROVE Unsold(w)'
  <2>1. run[r].mode = "batch" BY <1>1, <1>4 DEF IInv, Linked, LinkOf
  <2>2. Unsold(w) BY DEF WInv, FreshWaves
  <2> QED BY <1>4, <2>1, <2>2 DEF Unsold
<1>5. WavesOf(r) BY <1>4 DEF WavesOf
<1> QED BY <1>2, <1>3, <1>5

\* what leaves the offers and their applications alone
LEMMA QuietOwns ==
    ASSUME IInv, WInv, NEW r \in Runs, StepOf(r), UNCHANGED offer,
           \A s \in Runs, j \in Jobs : item[s][j].app => item'[s][j].app
    PROVE  /\ Claims(r)
           /\ co'[r].pc \notin {"replay", "intent", "answer"} => ClaimOf(r)'
           /\ /\ co[r].pc \in {"replay", "intent", "answer"} /\ co'[r].jobs = co[r].jobs
              => ClaimOf(r)'
           /\ (\A j \in Jobs : item'[r][j].state = "completed" =>
                                  item[r][j].state = "completed") => PublishesOf(r)
<1>1. Claims(r) BY DEF Claims
<1>2. co'[r].pc \notin {"replay", "intent", "answer"} => ClaimOf(r)' BY DEF ClaimOf
<1>3. ASSUME co[r].pc \in {"replay", "intent", "answer"}, co'[r].jobs = co[r].jobs
      PROVE  ClaimOf(r)'
  <2>1. Current(r)' = Current(r) BY <1>3 DEF Current
  <2>2. Current(r) \in Jobs BY <1>3, HandFacts DEF ItemPcs, IInv, Remaining, ItemsOf
  <2>3. ClaimOf(r) BY DEF WInv
  <2> QED BY <1>3, <2>1, <2>2, <2>3 DEF ClaimOf
<1> QED BY <1>1, <1>2, <1>3 DEF PublishesOf

\* what releases applications, and may give an item of the run up
LEMMA ReleaseOwns ==
    ASSUME IInv, WInv, NEW r \in Runs, StepOf(r), NEW js \in SUBSET Jobs,
           offer' = OffersReleased(js),
           \A s \in Runs, j \in Jobs :
              \/ item'[s][j].app = item[s][j].app
              \/ j \in AppReleased(js),
           \A j \in Jobs : item'[r][j].state = "completed" => item[r][j].state = "completed",
           co'[r].pc \notin {"replay", "intent", "answer"}
    PROVE  Owns(r)
<1>1. ASSUME NEW j \in Jobs, offer'[j].app = "empty"
      PROVE  offer[j].app = "empty" /\ j \notin AppReleased(js)
  <2>1. offer[j] \in OfferRecs BY DEF IInv, TypeOK
  <2>2. offer'[j] = IF j \in AppReleased(js) THEN [offer[j] EXCEPT !.app = "none"] ELSE offer[j]
    BY DEF OffersReleased
  <2> QED BY <1>1, <2>1, <2>2 DEF OfferRecs
<1>2. Claims(r) BY <1>1 DEF Claims
<1>3. ClaimOf(r)' BY DEF ClaimOf
<1> QED BY <1>2, <1>3 DEF Owns, PublishesOf

\* what writes a wave of the run, and its calls only
LEMMA WavePays ==
    ASSUME IInv, WInv, NEW r \in Runs, StepOf(r), NEW w \in Waves, wave[w].run = r,
           \A v \in Waves \ {w} : wave'[v] = wave[v],
           wave'[w].run \in {r, NoRun},
           wave'[w].run = r => wave'[w].calls \subseteq wave[w].calls /\ Unsold(w)',
           \A j \in Jobs, k \in Positions : <<j, k>> \notin wave[w].calls =>
              call'[r][j][k].state = call[r][j][k].state
    PROVE  CallsOver(r) /\ WavesOf(r) /\ AtOnce(r)'
<1>1. r # NoRun /\ run'[r].mode = run[r].mode
  BY GenerationAssumption DEF GenerationAssumption, StepOf, RunFrame
<1>2. LinkOf(w) /\ run[r].mode = "batch" BY <1>1 DEF IInv, Linked, LinkOf
<1>3. AtOnce(r)' BY <1>1, <1>2 DEF AtOnce
<1>4. CallsOver(r)
  <2>1. \A j \in Jobs, k \in Positions :
           item[r][j].state = "transferred" => <<j, k>> \notin wave[w].calls
    BY DEF WInv, HandedOver
  <2> QED BY <2>1 DEF CallsOver
<1>5. ASSUME NEW v \in Waves \ {w}, wave[v].run = r PROVE Unsold(v)'
  <2>1. \A j \in Jobs, k \in Positions :
           <<j, k>> \in wave[v].calls => <<j, k>> \notin wave[w].calls
    <3>1. LinkOf(v) BY DEF IInv, Linked
    <3> QED BY <1>1, <1>2, <1>5, <3>1 DEF LinkOf
  <2>2. Unsold(v) BY DEF WInv, FreshWaves
  <2> QED BY <1>5, <2>1, <2>2 DEF Unsold
<1>6. WavesOf(r) BY <1>1, <1>5 DEF WavesOf
<1> QED BY <1>3, <1>4, <1>6

\* the calls of a wave get a state together
LEMMA StatesOf ==
    ASSUME IInv, NEW r \in Runs, NEW w \in Waves, wave[w].run = r, NEW s \in CallStates,
           call' = WaveCalls(r, w, s) \/ call' = Unlink(WaveCalls(r, w, s), r, w)
    PROVE  \A j \in Jobs, k \in Positions :
              call'[r][j][k].state =
                 IF <<j, k>> \in wave[w].calls THEN s ELSE call[r][j][k].state
<1>1. WaveCalls(r, w, s) \in Journals /\ call \in Journals BY WaveCallsType, Born DEF IInv
<1> SUFFICES ASSUME NEW j \in Jobs, NEW k \in Positions
             PROVE  call'[r][j][k].state =
                       IF <<j, k>> \in wave[w].calls THEN s ELSE call[r][j][k].state
  OBVIOUS
<1>2. call[r][j][k] \in CallRecs BY <1>1 DEF Journals
<1>3. WaveCalls(r, w, s)[r][j][k].state =
        IF <<j, k>> \in wave[w].calls THEN s ELSE call[r][j][k].state
  <2>1. WaveCalls(r, w, s)[r][j][k] =
          IF <<j, k>> \in wave[w].calls THEN [call[r][j][k] EXCEPT !.state = s]
          ELSE call[r][j][k]
    BY WaveCallsKept
  <2> QED BY <1>2, <2>1 DEF CallRecs
<1>4. Unlink(WaveCalls(r, w, s), r, w)[r][j][k].state = WaveCalls(r, w, s)[r][j][k].state
  BY <1>1, WaveCallsKept
<1> QED BY <1>3, <1>4

\* requests leave a wave, and the offers that changed are given up
LEMMA PruneStates ==
    ASSUME IInv, NEW r \in Runs, NEW w \in Waves, wave[w].run = r, Prune(r, w)
    PROVE  /\ \A j \in Jobs, k \in Positions :
                 call'[r][j][k].state =
                    IF <<j, k>> \in wave[w].calls \ Kept(r, w) THEN "failed"
                    ELSE call[r][j][k].state
           /\ \A j \in Jobs : Sendable(r, j) => item'[r][j].state = item[r][j].state
           /\ \A s \in Runs, j \in Jobs : item'[s][j].app = item[s][j].app
           /\ \A j \in Jobs : item'[r][j].state = "completed" => item[r][j].state = "completed"
           /\ IF Kept(r, w) = {} THEN wave'[w] = NoWave
              ELSE /\ wave'[w].run = r /\ wave'[w].state = wave[w].state
                   /\ wave'[w].calls = Kept(r, w)
           /\ \A v \in Waves \ {w} : wave'[v] = wave[v]
<1>1. /\ item \in Items /\ call \in Journals
      /\ wave \in [Waves -> WaveRecs] /\ wave[w] \in WaveRecs
  BY Born DEF IInv, TypeOK
<1> DEFINE out == wave[w].calls \ Kept(r, w)
           f == [j \in Jobs |-> IF j \in Eligible(r) /\ \E c \in out : c[1] = j
                                THEN [item[r][j] EXCEPT !.state = "stale"] ELSE item[r][j]]
           g == [j \in Jobs |-> [k \in Positions |->
                    IF <<j, k>> \in out THEN [call[r][j][k] EXCEPT !.state = "failed"]
                    ELSE call[r][j][k]]]
           calls == [call EXCEPT ![r] = g]
<1>2. /\ wave' = [wave EXCEPT ![w] =
              IF Kept(r, w) = {} THEN NoWave ELSE [@ EXCEPT !.calls = Kept(r, w)]]
      /\ item' = [item EXCEPT ![r] = f]
      /\ call' = IF Kept(r, w) = {} THEN Unlink(calls, r, w) ELSE calls
  BY DEF Prune
<1>3. \A v \in Waves \ {w} : wave'[v] = wave[v] BY <1>1, <1>2
<1>4. IF Kept(r, w) = {} THEN wave'[w] = NoWave
      ELSE /\ wave'[w].run = r /\ wave'[w].state = wave[w].state
           /\ wave'[w].calls = Kept(r, w)
  <2>1. wave'[w] = IF Kept(r, w) = {} THEN NoWave ELSE [wave[w] EXCEPT !.calls = Kept(r, w)]
    BY <1>1, <1>2
  <2> QED BY <1>1, <2>1 DEF WaveRecs
<1>5. ASSUME NEW s \in Runs, NEW j \in Jobs
      PROVE  /\ item'[s][j].app = item[s][j].app
             /\ s = r /\ Sendable(r, j) => item'[s][j].state = item[s][j].state
             /\ item'[s][j].state \in {item[s][j].state, "stale"}
  <2>1. item[s][j] \in ItemRecs BY <1>1 DEF Items
  <2>2. item'[s][j] = IF s = r THEN f[j] ELSE item[s][j]
    <3> HIDE DEF f
    <3> QED BY <1>1, <1>2 DEF Items
  <2>3. Sendable(r, j) => ~\E c \in out : c[1] = j BY DEF Kept
  <2>4. \/ item'[s][j] = item[s][j]
        \/ item'[s][j] = [item[s][j] EXCEPT !.state = "stale"] /\ ~(s = r /\ Sendable(r, j))
    BY <2>2, <2>3
  <2> QED BY <2>1, <2>4 DEF ItemRecs
<1>6. ASSUME NEW j \in Jobs, NEW k \in Positions
      PROVE  call'[r][j][k].state = IF <<j, k>> \in out THEN "failed" ELSE call[r][j][k].state
  <2>1. call[r][j][k] \in CallRecs BY <1>1 DEF Journals
  <2>2. calls[r] = g /\ DOMAIN calls = Runs
    <3> HIDE DEF g
    <3> QED BY <1>1 DEF Journals
  <2>3. calls[r][j][k].state = IF <<j, k>> \in out THEN "failed" ELSE call[r][j][k].state
    <3>1. g[j][k].state = IF <<j, k>> \in out THEN "failed" ELSE call[r][j][k].state
      BY <2>1 DEF CallRecs
    <3> HIDE DEF calls, g
    <3> QED BY <2>2, <3>1
  <2>4. calls \in Journals
    <3>1. g \in [Jobs -> [Positions -> CallRecs]]
      <4>1. ASSUME NEW i \in Jobs, NEW l \in Positions
            PROVE  (IF <<i, l>> \in out THEN [call[r][i][l] EXCEPT !.state = "failed"]
                    ELSE call[r][i][l]) \in CallRecs
        <5>1. call[r][i][l] \in CallRecs BY <1>1 DEF Journals
        <5>2. [call[r][i][l] EXCEPT !.state = "failed"] \in CallRecs
          BY <5>1 DEF CallRecs, CallStates
        <5> QED BY <5>1, <5>2
      <4> QED BY <4>1
    <3> HIDE DEF g
    <3> QED BY <1>1, <3>1 DEF Journals
  <2>5. "failed" \in CallStates BY DEF CallStates
  <2>6. Unlink(calls, r, w)[r][j][k].state = calls[r][j][k].state
    <3> HIDE DEF calls
    <3> QED BY <2>4, <2>5, WaveCallsKept
  <2> HIDE DEF calls, out
  <2> QED BY <1>2, <2>3, <2>6
<1>7. \A j \in Jobs : item'[r][j].state = "completed" => item[r][j].state = "completed"
  BY <1>5
<1> QED BY <1>3, <1>4, <1>5, <1>6, <1>7

\* a wave is over, or gets a state with its calls, and nothing is paid
LEMMA WaveSpends ==
    ASSUME IInv, WInv, NEW r \in Runs, StepOf(r), NEW w \in Waves, wave[w].run = r,
           UNCHANGED <<offer, item>>,
           \A v \in Waves \ {w} : wave'[v] = wave[v],
           \/ wave'[w] = NoWave
           \/ /\ wave'[w].run = r /\ wave'[w].calls = wave[w].calls
              /\ wave'[w].state \in OutstandingWaveStates \ {"prepared"},
           NEW s \in CallStates, s # "submitting",
           call' = WaveCalls(r, w, s) \/ call' = Unlink(WaveCalls(r, w, s), r, w),
           co'[r].pc = "waves"
    PROVE  Pays(r) /\ Owns(r)
<1>1. \A j \in Jobs, k \in Positions :
         call'[r][j][k].state = IF <<j, k>> \in wave[w].calls THEN s ELSE call[r][j][k].state
  BY StatesOf
<1>2. NoWave.run = NoRun /\ r # NoRun
  BY GenerationAssumption DEF NoWave, GenerationAssumption
<1>3. wave'[w].run = r => wave'[w].calls \subseteq wave[w].calls /\ Unsold(w)'
  BY <1>2 DEF Unsold
<1>4. CallsOver(r) /\ WavesOf(r) /\ AtOnce(r)' BY <1>1, <1>2, <1>3, WavePays
<1>5. SendsOf(r) BY <1>1 DEF SendsOf, Sending
<1>6. Claims(r) /\ ClaimOf(r)' /\ PublishesOf(r) BY QuietOwns
<1> QED BY <1>4, <1>5, <1>6, NotPaying DEF Pays, Owns

\* taking and leaving the transport
LEMMA SendSpends ==
    ASSUME IInv, WInv, NEW r \in Runs,
           TakeSync(r) \/ LockBusy(r) \/ TakeSend(r) \/ LeaveTransport(r)
    PROVE  Pays(r) /\ Owns(r)
<1> USE DEF Pays, Owns, At, world, journal
<1>1. StepOf(r) BY SendStep
<1>2. UNCHANGED <<offer, item>> BY DEF TakeSync, LockBusy, TakeSend, LeaveTransport
<1>3. co'[r].pc \in {"waves", "idle", "read", "finish", "sync"}
  <2>1. CASE TakeSync(r) \/ TakeSend(r) BY <2>1, CoAfter DEF TakeSync, TakeSend
  <2>2. CASE LockBusy(r) BY <2>2, CoAfter DEF LockBusy, IdleCo
  <2>3. CASE LeaveTransport(r)
    <3>1. co[r] \in CoRecs /\ co \in [Runs -> CoRecs] /\ co[r].phase # "none"
      BY <2>3, Born, InTransportFacts DEF LeaveTransport, TransportPcs
    <3>2. CASE co[r].phase \in {"first", "last"}
      BY <2>3, <3>2, CoAfter DEF LeaveTransport
    <3>3. CASE co[r].phase = "send"
      <4>1. co'[r] = [co[r] EXCEPT !.pc = IF run[r].stop THEN "sync" ELSE "finish",
                                   !.phase = IF run[r].stop THEN "last" ELSE @,
                                   !.stopped = run[r].stop]
        BY <2>3, <3>1, <3>3 DEF LeaveTransport
      <4> QED BY <3>1, <4>1 DEF CoRecs
    <3> QED BY <3>1, <3>2, <3>3 DEF CoRecs
  <2> QED BY <2>1, <2>2, <2>3
<1>4. Owns(r) /\ PayOf(r)' BY <1>1, <1>2, <1>3, QuietOwns, NotPaying
<1>5. CASE UNCHANGED <<wave, call>>
  BY <1>1, <1>4, <1>5, QuietPays
<1>6. CASE TakeSend(r) /\ ~(run[r].stop \/ run[r].state # "active")
  <2> DEFINE f == [j \in Jobs |-> [k \in Positions |->
                    IF j \in Unsent(r, k) THEN [state |-> "prepared", wave |-> WaveOf(r, k)]
                    ELSE call[r][j][k]]]
             new(w) == \E k \in SentPositions(r) : w = WaveOf(r, k)
  <2>1. wave' = NewWaves(r) /\ call' = [call EXCEPT ![r] = f]
    BY <1>6 DEF TakeSend
  <2>2. run[r].mode = "batch" /\ run'[r].mode = run[r].mode
    BY <1>1, <1>6, InTransportFacts DEF TakeSend, BatchPcs, StepOf, RunFrame
  <2>3. ASSUME NEW j \in Jobs, NEW k \in Positions
        PROVE  call'[r][j][k].state = call[r][j][k].state
    <3>1. call'[r] = f
      <4> HIDE DEF f
      <4> QED BY <2>1, Born DEF Journals
    <3>2. j \in Unsent(r, k) => call[r][j][k].state = "prepared" BY DEF Unsent
    <3> QED BY <3>1, <3>2
  <2>4. CallsOver(r) /\ SendsOf(r) /\ AtOnce(r)'
    BY <2>2, <2>3 DEF CallsOver, SendsOf, Sending, AtOnce
  <2>5. ASSUME NEW w \in Waves, ~new(w)
        PROVE  wave'[w] = wave[w] /\ (wave'[w].run = r => Unsold(w)')
    <3>1. wave'[w] = wave[w] BY <2>1, <2>5 DEF NewWaves
    <3>2. Unsold(w) BY DEF WInv, FreshWaves
    <3> QED BY <2>3, <3>1, <3>2 DEF Unsold
  <2>6. ASSUME NEW w \in Waves, new(w)
        PROVE  /\ wave'[w].run = r /\ Unsold(w)'
               /\ \A j \in Jobs, k \in Positions :
                     <<j, k>> \in wave'[w].calls => j \in Remaining(r)
    <3> DEFINE kk == CHOOSE p \in SentPositions(r) : w = WaveOf(r, p)
    <3>1. kk \in SentPositions(r) BY <2>6
    <3>2. wave'[w] = [run |-> r, state |-> "prepared", calls |-> {<<j, kk>> : j \in Unsent(r, kk)}]
      BY <2>1, <2>6 DEF NewWaves
    <3> HIDE DEF kk
    <3>3. ASSUME NEW j \in Jobs, NEW k \in Positions, <<j, k>> \in wave'[w].calls
          PROVE  j \in Remaining(r) /\ call[r][j][k].state = "prepared"
      <4>1. k = kk /\ j \in Unsent(r, kk) BY <3>2, <3>3
      <4> QED BY <4>1 DEF Unsent, Eligible, Remaining, ItemsOf, TerminalItemStates
    <3>4. wave'[w].run = r /\ wave'[w].state = "prepared" BY <3>2
    <3> QED BY <2>3, <3>3, <3>4 DEF Unsold, OutstandingWaveStates
  <2>7. WavesOf(r)
    <3> HIDE DEF new
    <3> QED BY <2>5, <2>6 DEF WavesOf
  <2> QED BY <1>4, <2>4, <2>7
<1> QED BY <1>5, <1>6 DEF TakeSync, LockBusy, TakeSend, LeaveTransport

\* pruning the wave in hand, before and after its upload
LEMMA PruneSpends ==
    ASSUME IInv, WInv, NEW r \in Runs, StepOf(r), UNCHANGED offer,
           co[r].pc \in TransportPcs, co[r].waves # {},
           wave[Handled(r)].state = "prepared", Prune(r, Handled(r)),
           \/ NextWave(r, FALSE)
           \/ Kept(r, Handled(r)) # {} /\ \E p \in {"upload", "commit"} : Go(r, p)
    PROVE  Pays(r) /\ Owns(r)
<1> USE DEF Pays, Owns
<1>0. PICK w \in Waves : w = Handled(r)
  BY HandFacts, InTransportFacts
<1>1. wave[w].run = r /\ w \in co[r].waves
  BY <1>0, HandFacts, InTransportFacts
<1>2. /\ \A j \in Jobs, k \in Positions :
            call'[r][j][k].state =
               IF <<j, k>> \in wave[w].calls \ Kept(r, w) THEN "failed"
               ELSE call[r][j][k].state
      /\ \A j \in Jobs : Sendable(r, j) => item'[r][j].state = item[r][j].state
      /\ \A s \in Runs, j \in Jobs : item'[s][j].app = item[s][j].app
      /\ \A j \in Jobs : item'[r][j].state = "completed" => item[r][j].state = "completed"
      /\ IF Kept(r, w) = {} THEN wave'[w] = NoWave
         ELSE /\ wave'[w].run = r /\ wave'[w].state = wave[w].state
              /\ wave'[w].calls = Kept(r, w)
      /\ \A v \in Waves \ {w} : wave'[v] = wave[v]
  BY <1>0, <1>1, PruneStates
<1>3. r # NoRun /\ NoWave.run = NoRun
  BY GenerationAssumption DEF GenerationAssumption, NoWave
<1>4. ASSUME wave'[w].run = r PROVE wave'[w].calls \subseteq wave[w].calls /\ Unsold(w)'
  <2>1. wave'[w].calls = Kept(r, w) BY <1>2, <1>3, <1>4
  <2>2. Unsold(w) BY <1>1 DEF WInv, FreshWaves
  <2> QED BY <1>0, <1>1, <1>2, <1>3, <1>4, <2>1, <2>2 DEF Unsold, Kept
<1>5. CallsOver(r) /\ WavesOf(r) /\ AtOnce(r)'
  BY <1>1, <1>2, <1>3, <1>4, WavePays
<1>6. SendsOf(r) BY <1>2 DEF SendsOf, Sending
<1>7. co'[r].pc \in {"waves", "upload", "commit"} BY CoAfter
<1>8. Owns(r) BY <1>2, <1>7, QuietOwns
<1>9. CASE NextWave(r, FALSE)
  <2>1. co'[r].pc = "waves" BY <1>9, CoAfter
  <2> QED BY <1>5, <1>6, <1>8, <2>1, NotPaying
<1>10. CASE Kept(r, w) # {} /\ \E p \in {"upload", "commit"} : Go(r, p)
  <2>1. co'[r].waves = co[r].waves /\ co'[r].pc \in {"upload", "commit"} BY <1>10, CoAfter
  <2>2. Handled(r)' = w BY <1>0, <2>1 DEF Handled
  <2>3. wave'[w].state = "prepared" /\ wave'[w].calls = Kept(r, w) BY <1>0, <1>2, <1>3, <1>10
  <2>4. ASSUME NEW c \in Kept(r, w) PROVE c[1] \in Eligible(r)'
    <3>1. Sendable(r, c[1]) BY DEF Kept
    <3>2. c[1] \in Jobs /\ item[r][c[1]].state \in {"pending", "waiting"}
      BY <3>1 DEF Sendable, Eligible
    <3> QED BY <1>2, <3>1, <3>2 DEF Eligible
  <2>5. PayOf(r)' BY <2>1, <2>2, <2>3, <2>4 DEF PayOf
  <2> QED BY <1>5, <1>6, <1>8, <2>5
<1> QED BY <1>0, <1>9, <1>10

\* dropping, skipping or making a wave ready
LEMMA PrepareSpends ==
    ASSUME IInv, WInv, NEW r \in Runs, NEW w \in Waves,
           DropPrepared(r, w) \/ SkipBlocked(r, w) \/ Prepare(r, w)
    PROVE  Pays(r) /\ Owns(r)
<1> USE DEF Pays, Owns, world, journal
<1>1. StepOf(r) BY SendStep
<1>2. /\ w = Handled(r) /\ wave[w].run = r /\ wave[w].state = "prepared"
      /\ co[r].pc \in TransportPcs /\ co[r].waves # {} /\ UNCHANGED offer
  BY InHands DEF DropPrepared, SkipBlocked, Prepare
<1>3. CASE DropPrepared(r, w)
  <2>1. wave'[w] = NoWave /\ \A v \in Waves \ {w} : wave'[v] = wave[v]
    BY <1>3, WaveWrite DEF DropPrepared, CancelPrepared
  <2>2. /\ NextWave(r, FALSE) /\ call' = Unlink(WaveCalls(r, w, "prepared"), r, w)
        /\ UNCHANGED item /\ "prepared" \in CallStates
    BY <1>3 DEF DropPrepared, CancelPrepared, CallStates
  <2>3. co'[r].pc = "waves" BY <2>2, CoAfter
  <2>4. Pays(r) /\ Owns(r) BY <1>1, <1>2, <2>1, <2>2, <2>3, WaveSpends
  <2> QED BY <2>4
<1>4. CASE SkipBlocked(r, w)
  <2>1. NextWave(r, FALSE) /\ UNCHANGED <<wave, call, item>> BY <1>4 DEF SkipBlocked
  <2>2. co'[r].pc = "waves" BY <2>1, CoAfter
  <2> QED BY <1>1, <1>2, <2>1, <2>2, QuietPays, QuietOwns, NotPaying
<1>5. CASE Prepare(r, w)
  <2>1. Prune(r, w) /\ IF Kept(r, w) = {} THEN NextWave(r, FALSE) ELSE Go(r, "upload")
    BY <1>5 DEF Prepare
  <2>2. Pays(r) /\ Owns(r)
    BY <1>1, <1>2, <2>1, PruneSpends
  <2> QED BY <2>2
<1> QED BY <1>3, <1>4, <1>5

\* uploading the wave in hand and committing its submission
LEMMA CommitSpends ==
    ASSUME IInv, WInv, NEW r \in Runs, Upload(r) \/ UploadFails(r) \/ Commit(r)
    PROVE  Pays(r) /\ Owns(r)
<1> USE DEF world, journal
<1>1. StepOf(r) BY SendStep
<1>2. co[r].pc \in {"upload", "commit"} /\ co[r].pc \in WavePcs
  BY DEF Upload, UploadFails, Commit, At, WavePcs
<1>3. /\ Handled(r) \in Waves /\ wave[Handled(r)].run = r
      /\ co[r].pc \in TransportPcs /\ co[r].waves # {}
  BY <1>2, InHands
<1>4. /\ wave[Handled(r)].state = "prepared"
      /\ \A c \in wave[Handled(r)].calls : c[1] \in Eligible(r)
  BY <1>2 DEF WInv, PayOf
<1>5. r # NoRun BY GenerationAssumption DEF GenerationAssumption
<1>6. CASE Upload(r)
  <2>1. /\ Prune(r, Handled(r)) /\ UNCHANGED offer
        /\ IF Kept(r, Handled(r)) = wave[Handled(r)].calls THEN Go(r, "commit")
           ELSE NextWave(r, FALSE)
    BY <1>6 DEF Upload
  <2>2. wave[Handled(r)].calls # {} BY <1>3, <1>5 DEF IInv, Linked, LinkOf
  <2> QED BY <1>1, <1>3, <1>4, <2>1, <2>2, PruneSpends
<1>7. CASE UploadFails(r)
  <2>1. Block(r) /\ UNCHANGED <<offer, item, wave, call>> BY <1>7 DEF UploadFails
  <2>2. co'[r].pc = "idle" BY <2>1, CoAfter DEF IdleCo
  <2> QED BY <1>1, <2>1, <2>2, QuietPays, QuietOwns, NotPaying DEF Pays, Owns
<1>8. CASE Commit(r)
  <2>1. PICK w \in Waves : w = Handled(r) BY <1>3
  <2>2. wave[w].run = r /\ UNCHANGED <<offer, item>> BY <1>3, <1>8, <2>1 DEF Commit
  <2>3. CASE run[r].stop
    <3>1. wave'[w] = NoWave /\ \A v \in Waves \ {w} : wave'[v] = wave[v]
      BY <1>8, <2>1, <2>3, WaveWrite DEF Commit, CancelPrepared
    <3>2. /\ NextWave(r, FALSE) /\ call' = Unlink(WaveCalls(r, w, "prepared"), r, w)
          /\ "prepared" \in CallStates
      BY <1>8, <2>1, <2>3 DEF Commit, CancelPrepared, CallStates
    <3>3. co'[r].pc = "waves" BY <3>2, CoAfter
    <3> QED BY <1>1, <2>2, <3>1, <3>2, <3>3, WaveSpends
  <2>4. CASE ~run[r].stop
    <3>1. /\ wave' = [wave EXCEPT ![w].state = "submitting"]
          /\ call' = WaveCalls(r, w, "submitting") /\ Go(r, "post")
          /\ "submitting" \in CallStates
      BY <1>8, <2>1, <2>4 DEF Commit, CallStates
    <3>2. /\ wave'[w].run = r /\ wave'[w].calls = wave[w].calls
          /\ wave'[w].state = "submitting"
          /\ \A v \in Waves \ {w} : wave'[v] = wave[v]
      BY <2>2, <3>1, WaveWrite
    <3>3. \A j \in Jobs, k \in Positions :
             call'[r][j][k].state = IF <<j, k>> \in wave[w].calls THEN "submitting"
                                    ELSE call[r][j][k].state
      BY <2>2, <3>1, StatesOf
    <3>4. Unsold(w)' BY <3>2 DEF Unsold, OutstandingWaveStates
    <3>5. CallsOver(r) /\ WavesOf(r) /\ AtOnce(r)'
      BY <1>1, <2>2, <3>2, <3>3, <3>4, WavePays
    <3>6. ASSUME NEW j \in Jobs, NEW k \in Positions, Sending(r, j, k)
          PROVE  j \in Remaining(r) /\ call[r][j][k].state = "prepared"
      <4>1. <<j, k>> \in wave[w].calls BY <3>3, <3>6 DEF Sending
      <4>2. j \in Eligible(r) BY <1>4, <2>1, <4>1
      <4>3. j \in Remaining(r)
        BY <4>2 DEF Eligible, Remaining, ItemsOf, TerminalItemStates
      <4>4. call[r][j][k].state \in {"prepared", "failed"}
        BY <1>4, <2>1, <2>2, <4>1 DEF WInv, FreshWaves, Unsold
      <4>5. call[r][j][k].state = "failed" => item[r][j].state \in TerminalItemStates
        BY <1>5, <2>2, <4>1 DEF IInv, Linked, LinkOf
      <4> QED BY <4>3, <4>4, <4>5 DEF Remaining
    <3>7. SendsOf(r) BY <3>6 DEF SendsOf
    <3>8. co'[r].pc = "post" BY <3>1, CoAfter
    <3> QED BY <1>1, <2>2, <3>5, <3>7, <3>8, QuietOwns, NotPaying DEF Pays, Owns
  <2> QED BY <2>3, <2>4
<1> QED BY <1>6, <1>7, <1>8

\* the POST and its answers
LEMMA PostSpends ==
    ASSUME IInv, WInv, NEW r \in Runs,
           Post(r) \/ PostLost(r) \/ Posted(r) \/ PostRefused(r) \/ PostUnknown(r)
    PROVE  Pays(r) /\ Owns(r)
<1> USE DEF world, journal
<1>1. StepOf(r) BY PostStep
<1>2. co[r].pc \in WavePcs BY DEF Post, PostLost, Posted, PostRefused, PostUnknown, At, WavePcs
<1>3. PICK w \in Waves : w = Handled(r) BY <1>2, InHands
<1>4. wave[w].run = r BY <1>2, <1>3, InHands
<1>5. {"submitted", "failed", "uncertain"} \subseteq CallStates \ {"submitting"} BY DEF CallStates
<1>6. UNCHANGED <<offer, item>> BY DEF Post, PostLost, Posted, PostRefused, PostUnknown
<1>7. CASE Post(r) \/ PostLost(r)
  <2>1. UNCHANGED <<wave, call>> BY <1>7 DEF Post, PostLost
  <2>2. co'[r].pc \in {"posted", "refused", "unknown"} BY <1>7, CoAfter DEF Post, PostLost
  <2> QED BY <1>1, <1>6, <2>1, <2>2, QuietPays, QuietOwns, NotPaying DEF Pays, Owns
<1>8. CASE Posted(r)
  <2>1. /\ wave' = [wave EXCEPT ![w].state = "submitted"] /\ call' = WaveCalls(r, w, "submitted")
        /\ NextWave(r, TRUE) \/ Go(r, "waves")
    BY <1>3, <1>8 DEF Posted
  <2>2. /\ wave'[w].run = r /\ wave'[w].calls = wave[w].calls /\ wave'[w].state = "submitted"
        /\ \A v \in Waves \ {w} : wave'[v] = wave[v]
    BY <1>4, <2>1, WaveWrite
  <2>3. co'[r].pc = "waves" BY <2>1, CoAfter
  <2> QED BY <1>1, <1>4, <1>5, <1>6, <2>1, <2>2, <2>3, WaveSpends DEF OutstandingWaveStates
<1>9. CASE PostRefused(r)
  <2>1. /\ EndWave(w) /\ call' = Unlink(WaveCalls(r, w, "failed"), r, w) /\ NextWave(r, FALSE)
    BY <1>3, <1>9 DEF PostRefused
  <2>2. wave'[w] = NoWave /\ \A v \in Waves \ {w} : wave'[v] = wave[v] BY <2>1, WaveWrite
  <2>3. co'[r].pc = "waves" BY <2>1, CoAfter
  <2> QED BY <1>1, <1>4, <1>5, <1>6, <2>1, <2>2, <2>3, WaveSpends
<1>10. CASE PostUnknown(r)
  <2>1. /\ wave' = [wave EXCEPT ![w].state = "submission_unknown"]
        /\ call' = WaveCalls(r, w, "uncertain") /\ NextWave(r, FALSE)
    BY <1>3, <1>10 DEF PostUnknown
  <2>2. /\ wave'[w].run = r /\ wave'[w].calls = wave[w].calls
        /\ wave'[w].state = "submission_unknown"
        /\ \A v \in Waves \ {w} : wave'[v] = wave[v]
    BY <1>4, <2>1, WaveWrite
  <2>3. co'[r].pc = "waves" BY <2>1, CoAfter
  <2> QED BY <1>1, <1>4, <1>5, <1>6, <2>1, <2>2, <2>3, WaveSpends DEF OutstandingWaveStates
<1> QED BY <1>7, <1>8, <1>9, <1>10

\* what is learnt of a wave
LEMMA RefreshSpends ==
    ASSUME IInv, WInv, NEW r \in Runs, NEW w \in Waves,
           \/ RefreshMissing(r, w) \/ RefreshRunning(r, w) \/ Import(r, w) \/ RefreshFails(r, w)
    PROVE  Pays(r) /\ Owns(r)
<1> USE DEF world, journal
<1>1. StepOf(r) BY RefreshStep
<1>2. /\ wave[w].run = r /\ UNCHANGED <<offer, item>>
      /\ NoWave.run = NoRun /\ r # NoRun
  BY FollowFacts, GenerationAssumption
     DEF RefreshMissing, RefreshRunning, Import, RefreshFails, Refreshing, NoWave,
         GenerationAssumption
<1>3. CASE RefreshMissing(r, w) \/ RefreshFails(r, w)
  <2>1. UNCHANGED <<wave, call>> BY <1>3 DEF RefreshMissing, RefreshFails
  <2>2. NextWave(r, TRUE) \/ Block(r) BY <1>3 DEF RefreshMissing, RefreshFails
  <2>3. co'[r].pc \in {"waves", "idle"}
    <3>1. CASE NextWave(r, TRUE) BY <3>1, CoAfter
    <3>2. CASE Block(r) BY <3>2, CoAfter DEF IdleCo
    <3> QED BY <2>2, <3>1, <3>2
  <2>4. CallsOver(r) /\ WavesOf(r) /\ AtOnce(r)' /\ SendsOf(r) BY <1>1, <2>1, QuietPays
  <2>5. PayOf(r)' BY <2>3, NotPaying
  <2>6. Owns(r) BY <1>1, <1>2, <2>3, QuietOwns DEF Owns
  <2> QED BY <2>4, <2>5, <2>6 DEF Pays
<1>4. CASE RefreshRunning(r, w)
  <2>1. /\ wave' = [wave EXCEPT ![w].state = "submitted"] /\ call' = WaveCalls(r, w, "submitted")
        /\ NextWave(r, TRUE) /\ "submitted" \in CallStates
    BY <1>4 DEF RefreshRunning, CallStates
  <2>2. /\ wave'[w].run = r /\ wave'[w].calls = wave[w].calls /\ wave'[w].state = "submitted"
        /\ \A v \in Waves \ {w} : wave'[v] = wave[v]
    BY <1>2, <2>1, WaveWrite
  <2>3. co'[r].pc = "waves" BY <2>1, CoAfter
  <2> QED BY <1>1, <1>2, <2>1, <2>2, <2>3, WaveSpends DEF OutstandingWaveStates
<1>5. CASE Import(r, w)
  <2>1. PICK good \in SUBSET wave[w].calls :
           call' = Unlink([call EXCEPT ![r] = [j \in Jobs |-> [k \in Positions |->
              IF <<j, k>> \in wave[w].calls
              THEN [call[r][j][k] EXCEPT !.state = IF <<j, k>> \in good THEN "completed" ELSE "failed"]
              ELSE call[r][j][k]]]], r, w)
    BY <1>5 DEF Import
  <2> DEFINE f == [j \in Jobs |-> [k \in Positions |->
              IF <<j, k>> \in wave[w].calls
              THEN [call[r][j][k] EXCEPT !.state = IF <<j, k>> \in good THEN "completed" ELSE "failed"]
              ELSE call[r][j][k]]]
             calls == [call EXCEPT ![r] = f]
  <2>2. call \in Journals BY Born
  <2>3. ASSUME NEW j \in Jobs, NEW k \in Positions
        PROVE  /\ f[j][k] \in CallRecs
               /\ <<j, k>> \notin wave[w].calls => f[j][k] = call[r][j][k]
               /\ <<j, k>> \in wave[w].calls => f[j][k].state # "submitting"
    <3>1. call[r][j][k] \in CallRecs BY <2>2 DEF Journals
    <3>2. ASSUME NEW s \in {"completed", "failed"}
          PROVE  /\ [call[r][j][k] EXCEPT !.state = s] \in CallRecs
                 /\ [call[r][j][k] EXCEPT !.state = s].state = s
      BY <3>1 DEF CallRecs, CallStates
    <3> QED BY <3>1, <3>2
  <2>4. call' = Unlink(calls, r, w) BY <2>1
  <2>5. calls \in Journals /\ calls[r] = f
    <3>1. f \in [Jobs -> [Positions -> CallRecs]] BY <2>3
    <3> HIDE DEF f
    <3> QED BY <2>2, <3>1 DEF Journals
  <2>6. "failed" \in CallStates BY DEF CallStates
  <2>7. ASSUME NEW j \in Jobs, NEW k \in Positions PROVE call'[r][j][k].state = f[j][k].state
    <3> HIDE DEF calls, f
    <3> QED BY <1>2, <2>4, <2>5, <2>6, WaveCallsKept
  <2> HIDE DEF f, calls
  <2>8. EndWave(w) /\ NextWave(r, TRUE) BY <1>5 DEF Import
  <2>9. wave'[w] = NoWave /\ \A v \in Waves \ {w} : wave'[v] = wave[v] BY <2>8, WaveWrite
  <2>10. \A j \in Jobs, k \in Positions :
            /\ <<j, k>> \notin wave[w].calls => call'[r][j][k].state = call[r][j][k].state
            /\ <<j, k>> \in wave[w].calls => call'[r][j][k].state # "submitting"
    BY <2>3, <2>7
  <2>11. CallsOver(r) /\ WavesOf(r) /\ AtOnce(r)' BY <1>1, <1>2, <2>9, <2>10, WavePays
  <2>12. SendsOf(r) BY <2>10 DEF SendsOf, Sending
  <2>13. co'[r].pc = "waves" BY <2>8, CoAfter
  <2> QED BY <1>1, <1>2, <2>11, <2>12, <2>13, QuietOwns, NotPaying DEF Pays, Owns
<1> QED BY <1>3, <1>4, <1>5

\* releasing applications changes no state
LEMMA UnlinkedItems ==
    ASSUME IInv, NEW js \in SUBSET Jobs, item' = Unlinked(item, js)
    PROVE  \A s \in Runs, j \in Jobs :
              /\ item'[s][j].app = item[s][j].app \/ j \in AppReleased(js)
              /\ item'[s][j].state = item[s][j].state
<1> SUFFICES ASSUME NEW s \in Runs, NEW j \in Jobs
             PROVE  /\ item'[s][j].app = item[s][j].app \/ j \in AppReleased(js)
                    /\ item'[s][j].state = item[s][j].state
  OBVIOUS
<1>1. item[s][j] \in ItemRecs BY Born DEF Items
<1>2. item'[s][j] =
         IF j \in AppReleased(js) THEN [item[s][j] EXCEPT !.app = FALSE] ELSE item[s][j]
  BY DEF Unlinked
<1> QED BY <1>1, <1>2 DEF ItemRecs

\* what releases applications, and nothing else
LEMMA FreeSpends ==
    ASSUME IInv, WInv, NEW r \in Runs, StepOf(r), UNCHANGED <<call, wave>>,
           NEW js \in SUBSET Jobs, offer' = OffersReleased(js), item' = Unlinked(item, js),
           co'[r].pc = "idle"
    PROVE  Pays(r) /\ Owns(r)
<1>1. \A s \in Runs, j \in Jobs :
         /\ item'[s][j].app = item[s][j].app \/ j \in AppReleased(js)
         /\ item'[s][j].state = item[s][j].state
  BY UnlinkedItems
<1>2. Owns(r) BY <1>1, ReleaseOwns
<1>3. CallsOver(r) /\ WavesOf(r) /\ AtOnce(r)' /\ SendsOf(r) BY QuietPays
<1> QED BY <1>2, <1>3, NotPaying DEF Pays

\* an item is given up, with its empty application
LEMMA DiscardSpends ==
    ASSUME IInv, WInv, NEW r \in Runs, StepOf(r), UNCHANGED wave,
           Discard(r), Current(r) \in Remaining(r)
    PROVE  Pays(r) /\ Owns(r)
<1> DEFINE j0 == Current(r)
           js == IF item[r][j0].app THEN {j0} ELSE {}
<1>1. item \in Items /\ call \in Journals /\ j0 \in Jobs BY Born DEF Remaining, ItemsOf
<1>2. /\ item' = [Unlinked(item, js) EXCEPT ![r][j0].state = "stale"]
      /\ offer' = OffersReleased(js) /\ NextItem(r)
      /\ call' = [call EXCEPT ![r][j0] = [k \in Positions |->
              IF call[r][j0][k].state = "prepared" THEN [call[r][j0][k] EXCEPT !.state = "failed"]
              ELSE call[r][j0][k]]]
  BY DEF Discard
<1>3. js \in SUBSET Jobs BY <1>1
<1> HIDE DEF j0, js
<1>4. ASSUME NEW j \in Jobs, NEW k \in Positions
      PROVE  call'[r][j][k].state = call[r][j][k].state \/ call'[r][j][k].state = "failed"
  <2>1. call[r][j][k] \in CallRecs BY <1>1 DEF Journals
  <2>2. call'[r][j][k] = call[r][j][k] \/ call'[r][j][k] = [call[r][j][k] EXCEPT !.state = "failed"]
    BY <1>1, <1>2 DEF Journals
  <2> QED BY <2>1, <2>2 DEF CallRecs
<1>5. ASSUME NEW s \in Runs, NEW j \in Jobs
      PROVE  /\ item'[s][j].app = item[s][j].app \/ j \in AppReleased(js)
             /\ item'[s][j].state \in {item[s][j].state, "stale"}
  <2> DEFINE its == Unlinked(item, js)
  <2>1. item[s][j] \in ItemRecs BY <1>1 DEF Items
  <2>2. its[s][j] = IF j \in AppReleased(js) THEN [item[s][j] EXCEPT !.app = FALSE] ELSE item[s][j]
    BY DEF Unlinked
  <2>3. its[s][j] \in ItemRecs BY <2>1, <2>2 DEF ItemRecs
  <2>4. its = [t \in Runs |-> [i \in Jobs |-> its[t][i]]] BY DEF Unlinked
  <2>5. item'[s][j] = its[s][j] \/ item'[s][j] = [its[s][j] EXCEPT !.state = "stale"]
    <3>1. item' = [its EXCEPT ![r][j0].state = "stale"] BY <1>2
    <3> HIDE DEF its
    <3> QED BY <1>1, <2>4, <3>1
  <2> HIDE DEF its
  <2> QED BY <2>1, <2>2, <2>3, <2>5 DEF ItemRecs
<1>6. co'[r].pc = "items" BY <1>2, CoAfter
<1>7. CallsOver(r) /\ WavesOf(r) /\ AtOnce(r)' BY <1>4, CallPays
<1>8. SendsOf(r) BY <1>4 DEF SendsOf, Sending
<1>9. PayOf(r)' BY <1>6, NotPaying
<1>10. Owns(r) BY <1>2, <1>3, <1>5, <1>6, ReleaseOwns
<1> QED BY <1>7, <1>8, <1>9, <1>10 DEF Pays

\* an outcome of the item in hand leaves applications alone
LEMMA RecordItems ==
    ASSUME IInv, NEW r \in Runs, NEW s, Record(r, s)
    PROVE  /\ \A t \in Runs, j \in Jobs : item'[t][j].app = item[t][j].app
           /\ \A j \in Jobs : \/ item'[r][j].state = item[r][j].state
                              \/ item'[r][j].state = s /\ j = Current(r)
           /\ co'[r].pc = "items"
<1>1. item' = [item EXCEPT ![r][Current(r)].state = s] /\ NextItem(r) BY DEF Record
<1>2. item \in Items BY Born
<1>3. ASSUME NEW t \in Runs, NEW j \in Jobs
      PROVE  /\ item'[t][j].app = item[t][j].app
             /\ \/ item'[t][j].state = item[t][j].state
                \/ item'[t][j].state = s /\ j = Current(r)
  <2>1. item[t][j] \in ItemRecs BY <1>2 DEF Items
  <2>2. \/ item'[t][j] = item[t][j]
        \/ item'[t][j] = [item[t][j] EXCEPT !.state = s] /\ j = Current(r)
    BY <1>1, <1>2 DEF Items
  <2> QED BY <2>1, <2>2 DEF ItemRecs
<1> QED BY <1>1, <1>3, CoAfter

\* the item in hand has its application
LEMMA ClaimItems ==
    ASSUME IInv, NEW r \in Runs, NEW i \in Jobs, item' = [item EXCEPT ![r][i].app = TRUE]
    PROVE  /\ item'[r][i].app
           /\ \A t \in Runs, j \in Jobs : item[t][j].app => item'[t][j].app
           /\ \A j \in Jobs : item'[r][j].state = item[r][j].state
<1>1. item \in Items BY Born
<1>2. \A t \in Runs \ {r} : item'[t] = item[t] BY <1>1 DEF Items
<1>3. item'[r] = [item[r] EXCEPT ![i].app = TRUE] BY <1>1 DEF Items
<1>4. \A j \in Jobs \ {i} : item'[r][j] = item[r][j] BY <1>1, <1>3 DEF Items
<1>5. item'[r][i].app = TRUE /\ item'[r][i].state = item[r][i].state
  <2>1. item'[r][i] = [item[r][i] EXCEPT !.app = TRUE] BY <1>1, <1>3 DEF Items
  <2>2. item[r][i] \in ItemRecs BY <1>1 DEF Items
  <2> QED BY <2>1, <2>2 DEF ItemRecs
<1>6. \A t \in Runs, j \in Jobs : item[t][j].app => item'[t][j].app
  BY <1>2, <1>4, <1>5, Zenon
<1> QED BY <1>4, <1>5, <1>6

\* what only moves the follow-up on
LEMMA MoveSpends ==
    ASSUME IInv, WInv, NEW r \in Runs, StepOf(r), UNCHANGED <<offer, item, call, wave>>,
           co'[r].pc \notin {"upload", "commit", "intent", "replay", "answer"}
    PROVE  Pays(r) /\ Owns(r)
<1>1. CallsOver(r) /\ WavesOf(r) /\ AtOnce(r)' /\ SendsOf(r) BY QuietPays
<1>2. Claims(r) /\ ClaimOf(r)' /\ PublishesOf(r) BY QuietOwns
<1>3. PayOf(r)' BY NotPaying
<1> QED BY <1>1, <1>2, <1>3 DEF Pays, Owns

\* executing an item, up to its replay
LEMMA ExecuteSpends ==
    ASSUME IInv, WInv, NEW r \in Runs,
           \/ ReadItems(r) \/ ItemStale(r) \/ ItemFails(r) \/ ItemStillWaits(r) \/ Reserve(r)
           \/ Acknowledge(r) \/ ReplayStops(r) \/ ReplayStale(r) \/ ReplayMismatch(r)
    PROVE  Pays(r) /\ Owns(r)
<1> USE DEF world, journal
<1>1. StepOf(r) BY ExecuteStep
<1>2. CASE ReadItems(r)
  <2>1. UNCHANGED <<offer, item, call, wave>> BY <1>2 DEF ReadItems
  <2>2. co'[r].pc = "items"
    <3>1. co \in [Runs -> CoRecs] /\ co[r] \in CoRecs BY Born
    <3> QED BY <1>2, <3>1 DEF ReadItems, CoRecs
  <2> QED BY <1>1, <2>1, <2>2, MoveSpends
<1>3. CASE ItemStillWaits(r) \/ ReplayStops(r)
  <2>1. UNCHANGED <<offer, item, call, wave>> /\ NextItem(r)
    BY <1>3 DEF ItemStillWaits, ReplayStops
  <2>2. co'[r].pc = "items" BY <2>1, CoAfter
  <2> QED BY <1>1, <2>1, <2>2, MoveSpends
<1>4. CASE ItemStale(r) \/ ReplayStale(r) \/ ReplayMismatch(r)
  <2>1. Executing(r) \/ co[r].pc \in ItemPcs \ {"items"}
    BY <1>4 DEF ItemStale, ReplayStale, ReplayMismatch, Replaying, At, ItemPcs
  <2>2. Discard(r) /\ UNCHANGED wave BY <1>4 DEF ItemStale, ReplayStale, ReplayMismatch
  <2> QED BY <1>1, <2>1, <2>2, ItemInHand, DiscardSpends
<1>5. CASE ItemFails(r)
  <2>1. Record(r, "failed") /\ UNCHANGED <<offer, call, wave>> BY <1>5 DEF ItemFails
  <2>2. /\ co'[r].pc = "items" /\ \A t \in Runs, j \in Jobs : item'[t][j].app = item[t][j].app
        /\ \A j \in Jobs : item'[r][j].state = "completed" => item[r][j].state = "completed"
    BY <2>1, RecordItems
  <2>3. CallsOver(r) /\ WavesOf(r) /\ AtOnce(r)' /\ SendsOf(r) BY <1>1, <2>1, QuietPays
  <2>4. PayOf(r)' BY <2>2, NotPaying
  <2> QED BY <1>1, <2>1, <2>2, <2>3, <2>4, QuietOwns DEF Pays, Owns
<1>6. CASE Reserve(r) \/ Acknowledge(r)
  <2>1. Executing(r) \/ co[r].pc \in ItemPcs \ {"items"}
    BY <1>6 DEF Reserve, Acknowledge, At, ItemPcs
  <2>2. Current(r) \in Jobs /\ Current(r) \in Remaining(r) BY <2>1, ItemInHand
  <2>3. UNCHANGED <<call, wave>> BY <1>6 DEF Reserve, Acknowledge
  <2>4. /\ co'[r].pc \in {"replay", "reserved"} /\ co'[r].jobs = co[r].jobs
        /\ Current(r)' = Current(r)
    <3>1. Go(r, "replay") \/ Go(r, "reserved") BY <1>6 DEF Reserve, Acknowledge
    <3> QED BY <3>1, CoAfter DEF Current
  <2>5. Pays(r) BY <1>1, <2>3, <2>4, QuietPays, NotPaying DEF Pays
  <2>6. CASE Reserve(r) /\ item[r][Current(r)].app /\ UNCHANGED <<offer, item>>
    BY <1>1, <2>4, <2>5, <2>6, QuietOwns DEF Owns, ClaimOf
  <2>7. CASE item' = [item EXCEPT ![r][Current(r)].app = TRUE] /\ UNCHANGED offer
    <3>1. /\ item'[r][Current(r)].app
          /\ \A t \in Runs, j \in Jobs : item[t][j].app => item'[t][j].app
          /\ \A j \in Jobs : item'[r][j].state = item[r][j].state
      BY <2>2, <2>7, ClaimItems
    <3>2. ClaimOf(r)' BY <2>4, <3>1 DEF ClaimOf
    <3> QED BY <1>1, <2>5, <2>7, <3>1, <3>2, QuietOwns DEF Owns
  <2>8. CASE /\ offer' = [offer EXCEPT ![Current(r)].app = "empty"] /\ UNCHANGED item
             /\ Go(r, "reserved")
    <3>1. Claims(r)
      <4>1. offer \in [Jobs -> OfferRecs] BY DEF IInv, TypeOK
      <4> QED BY <2>2, <2>8, <4>1 DEF Claims
    <3>2. co'[r].pc = "reserved" BY <2>8, CoAfter
    <3>3. ClaimOf(r)' BY <3>2 DEF ClaimOf
    <3>4. PublishesOf(r) BY <2>8 DEF PublishesOf
    <3> QED BY <2>5, <3>1, <3>3, <3>4 DEF Owns
  <2> QED BY <1>6, <2>6, <2>7, <2>8 DEF Reserve, Acknowledge
<1> QED BY <1>2, <1>3, <1>4, <1>5, <1>6

\* the replay of saved answers, the immediate call it leads to, and publication
LEMMA ReplaySpends ==
    ASSUME IInv, WInv, NEW r \in Runs,
           \/ ReplayWaits(r) \/ ReplayFails(r) \/ ReplayCalls(r) \/ Intend(r) \/ Answer(r)
           \/ AnswerFails(r) \/ Publish(r)
    PROVE  Pays(r) /\ Owns(r)
<1> USE DEF world, journal
<1>1. StepOf(r) BY ReplayStep
<1>2. co[r].pc \in {"replay", "intent", "answer"}
  BY DEF ReplayWaits, ReplayFails, ReplayCalls, Intend, Answer, AnswerFails, Publish, Replaying, At
<1>3. Current(r) \in Jobs /\ Current(r) \in Remaining(r)
  BY <1>2, ItemInHand DEF ItemPcs
<1>4. co[r].pc \in CallPcs => run[r].mode = "immediate" /\ Missing(r, Current(r)) # {}
  BY DEF IInv, InHand, HandOf
<1>5. Missing(r, Current(r)) # {} => NextCall(r) \in Missing(r, Current(r)) /\ NextCall(r) \in Positions
  BY <1>3, NextCallFrame
<1>6. ASSUME NEW s, s # "submitting", Missing(r, Current(r)) # {}, Wrote(r, s), UNCHANGED wave,
             run[r].mode = "immediate" /\ s # "submitted"
      PROVE  CallsOver(r) /\ WavesOf(r) /\ AtOnce(r)' /\ SendsOf(r)
  <2>1. \A j \in Jobs, k \in Positions :
           call'[r][j][k].state =
              IF j = Current(r) /\ k = NextCall(r) THEN s ELSE call[r][j][k].state
    BY <1>3, <1>5, <1>6, NextCallWrite
  <2>2. SendsOf(r) BY <1>6, <2>1 DEF SendsOf, Sending
  <2>3. CallsOver(r) /\ WavesOf(r) /\ AtOnce(r)' BY <1>1, <1>3, <1>6, <2>1, CallPays
  <2> QED BY <2>2, <2>3
<1>7. ASSUME NEW s, s # "completed", Record(r, s), UNCHANGED offer
      PROVE  PayOf(r)' /\ Owns(r)
  <2>1. /\ co'[r].pc = "items" /\ \A t \in Runs, j \in Jobs : item'[t][j].app = item[t][j].app
        /\ \A j \in Jobs : item'[r][j].state = "completed" => item[r][j].state = "completed"
    BY <1>7, RecordItems
  <2> QED BY <1>1, <1>7, <2>1, QuietOwns, NotPaying DEF Owns
<1>8. ASSUME NEW p, Go(r, p), UNCHANGED <<offer, item>>
      PROVE  Owns(r) /\ co'[r].pc = p /\ co'[r].jobs = co[r].jobs /\ Current(r)' = Current(r)
  <2>1. co'[r].pc = p /\ co'[r].jobs = co[r].jobs BY <1>8, CoAfter
  <2> QED BY <1>1, <1>2, <1>8, <2>1, QuietOwns DEF Owns, Current
<1>9. CASE ReplayWaits(r)
  <2>1. PICK s : s = IF call[r][Current(r)][NextCall(r)].state = "none" THEN "prepared"
                     ELSE call[r][Current(r)][NextCall(r)].state
    OBVIOUS
  <2>2. Missing(r, Current(r)) # {} /\ UNCHANGED wave BY <1>9 DEF ReplayWaits, CallIs
  <2>3. Wrote(r, s) /\ Record(r, "waiting") /\ UNCHANGED offer
    BY <1>9, <2>1 DEF ReplayWaits, Wrote
  <2>4. CallsOver(r) /\ WavesOf(r) /\ AtOnce(r)' /\ SendsOf(r)
    <3>1. \A j \in Jobs, k \in Positions :
             \/ call'[r][j][k].state = call[r][j][k].state
             \/ call'[r][j][k].state = "prepared"
      BY <1>3, <1>5, <2>1, <2>2, <2>3, NextCallWrite
    <3>2. SendsOf(r) BY <3>1 DEF SendsOf, Sending
    <3>3. CallsOver(r) /\ WavesOf(r) /\ AtOnce(r)' BY <1>1, <2>2, <3>1, CallPays
    <3> QED BY <3>2, <3>3
  <2> QED BY <1>7, <2>3, <2>4 DEF Pays
<1>10. CASE ReplayFails(r)
  <2>1. Record(r, "failed") /\ UNCHANGED <<offer, call, wave>> BY <1>10 DEF ReplayFails
  <2> QED BY <1>1, <1>7, <2>1, QuietPays DEF Pays
<1>11. CASE ReplayCalls(r)
  <2>1. /\ Missing(r, Current(r)) # {} /\ UNCHANGED <<offer, item, wave, left>>
        /\ run[r].mode = "immediate" /\ Go(r, "intent")
        /\ call[r][Current(r)][NextCall(r)].state \in {"none", "prepared", "submitted"}
    BY <1>11 DEF ReplayCalls, CallIs
  <2>2. call[r][Current(r)][NextCall(r)].state # "submitted"
    BY <1>3, <1>5, <2>1 DEF WInv, AtOnce
  <2>3. Wrote(r, "prepared")
    <3>1. PICK s : s = IF call[r][Current(r)][NextCall(r)].state = "none" THEN "prepared"
                       ELSE call[r][Current(r)][NextCall(r)].state
      OBVIOUS
    <3>2. Wrote(r, s) BY <1>11, <3>1 DEF ReplayCalls, Wrote
    <3>3. s = "prepared" BY <2>1, <2>2, <3>1
    <3> QED BY <3>2, <3>3
  <2>4. CallsOver(r) /\ WavesOf(r) /\ AtOnce(r)' /\ SendsOf(r) BY <1>6, <2>1, <2>3
  <2>5. Owns(r) /\ co'[r].pc = "intent" /\ Current(r)' = Current(r) BY <1>8, <2>1
  <2>6. \A j \in Jobs, k \in Positions :
           call'[r][j][k].state =
              IF j = Current(r) /\ k = NextCall(r) THEN "prepared" ELSE call[r][j][k].state
    BY <1>3, <1>5, <2>1, <2>3, NextCallWrite
  <2>7. Missing(r, Current(r))' = Missing(r, Current(r))
    <3>1. left.steps \in Positions BY DEF IInv, TypeOK
    <3>2. 1..left.steps \subseteq Positions
      BY <3>1, GenerationAssumption DEF Positions, GenerationAssumption
    <3>3. call[r][Current(r)][NextCall(r)].state # "completed" BY <2>1
    <3> QED BY <1>3, <2>1, <2>5, <2>6, <3>2, <3>3 DEF Missing
  <2>8. NextCall(r)' = NextCall(r) BY <2>7 DEF NextCall
  <2>9. PayOf(r)' BY <1>3, <1>5, <2>1, <2>5, <2>6, <2>8 DEF PayOf
  <2> QED BY <2>4, <2>5, <2>9 DEF Pays
<1>12. CASE Intend(r)
  <2>1. /\ Wrote(r, "submitting") /\ Go(r, "answer") /\ UNCHANGED <<offer, item, wave>>
        /\ co[r].pc = "intent" /\ co[r].pc \in CallPcs
    BY <1>12 DEF Intend, Wrote, At, CallPcs
  <2>2. \A j \in Jobs, k \in Positions :
           call'[r][j][k].state =
              IF j = Current(r) /\ k = NextCall(r) THEN "submitting" ELSE call[r][j][k].state
    BY <1>3, <1>4, <1>5, <2>1, NextCallWrite
  <2>3. call[r][Current(r)][NextCall(r)].state = "prepared" BY <2>1 DEF WInv, PayOf
  <2>4. SendsOf(r) BY <1>3, <2>2, <2>3 DEF SendsOf, Sending
  <2>5. CallsOver(r) /\ WavesOf(r) /\ AtOnce(r)' BY <1>1, <1>3, <1>4, <2>1, <2>2, CallPays
  <2>6. Owns(r) /\ co'[r].pc = "answer" BY <1>8, <2>1
  <2> QED BY <2>4, <2>5, <2>6, NotPaying DEF Pays
<1>13. CASE Answer(r)
  <2>1. Wrote(r, "completed") /\ Go(r, "replay") /\ UNCHANGED <<offer, item, wave>>
        /\ co[r].pc \in CallPcs
    BY <1>13 DEF Answer, Wrote, At, CallPcs
  <2>2. Owns(r) /\ co'[r].pc = "replay" BY <1>8, <2>1
  <2> QED BY <1>4, <1>6, <2>1, <2>2, NotPaying DEF Pays
<1>14. CASE AnswerFails(r)
  <2>1. PICK s \in {"failed", "uncertain"} : Wrote(r, s)
    BY <1>14 DEF AnswerFails, Wrote
  <2>2. Record(r, "failed") /\ UNCHANGED <<offer, wave>> /\ co[r].pc \in CallPcs
    BY <1>14 DEF AnswerFails, At, CallPcs
  <2> QED BY <1>4, <1>6, <1>7, <2>1, <2>2 DEF Pays
<1>15. CASE Publish(r)
  <2>1. /\ Record(r, "completed") /\ UNCHANGED <<call, wave>> /\ co[r].pc = "replay"
        /\ Valid(r, Current(r)) /\ offer[Current(r)].app = "empty"
        /\ offer' = [offer EXCEPT ![Current(r)].app = "published"]
    BY <1>15 DEF Publish, Replaying, At
  <2>2. /\ co'[r].pc = "items" /\ \A t \in Runs, j \in Jobs : item'[t][j].app = item[t][j].app
        /\ \A j \in Jobs : item'[r][j].state = item[r][j].state \/ j = Current(r)
    BY <2>1, RecordItems
  <2>3. item[r][Current(r)].app BY <2>1 DEF WInv, ClaimOf
  <2>4. PublishesOf(r) BY <2>1, <2>2, <2>3 DEF PublishesOf
  <2>5. Claims(r)
    <3>1. offer \in [Jobs -> OfferRecs] /\ offer[Current(r)] \in OfferRecs
      BY <1>3 DEF IInv, TypeOK
    <3>2. \A j \in Jobs : offer'[j].app = "empty" => offer[j].app = "empty"
      BY <2>1, <3>1 DEF OfferRecs
    <3> QED BY <2>2, <3>2 DEF Claims
  <2>6. ClaimOf(r)' BY <2>2 DEF ClaimOf
  <2>7. CallsOver(r) /\ WavesOf(r) /\ AtOnce(r)' /\ SendsOf(r) BY <1>1, <2>1, QuietPays
  <2>8. PayOf(r)' BY <2>2, NotPaying
  <2> QED BY <2>4, <2>5, <2>6, <2>7, <2>8 DEF Pays, Owns
<1> QED BY <1>9, <1>10, <1>11, <1>12, <1>13, <1>14, <1>15

\* the end of a follow-up
LEMMA EndSpends ==
    ASSUME IInv, WInv, NEW r \in Runs, AfterItems(r) \/ Recheck(r) \/ Finish(r)
    PROVE  Pays(r) /\ Owns(r)
<1> USE DEF world, journal
<1>1. StepOf(r) BY EndStep
<1>2. co \in [Runs -> CoRecs] /\ co[r] \in CoRecs BY Born
<1>3. CASE AfterItems(r)
  <2>1. UNCHANGED <<offer, item, call, wave>> BY <1>3 DEF AfterItems
  <2>2. co'[r].pc \in {"finish", "sync", "fresh"}
    <3>1. co'[r] = [co[r] EXCEPT !.jobs = {}, !.wait = {}, !.stopped = run[r].stop,
              !.phase = IF run[r].stop THEN "last" ELSE "send",
              !.pc = CASE run[r].mode = "immediate" -> "finish"
                       [] run[r].mode = "batch" /\ run[r].stop -> "sync"
                       [] OTHER -> "fresh"]
      BY <1>2, <1>3 DEF AfterItems
    <3> QED BY <1>2, <3>1 DEF CoRecs
  <2> QED BY <1>1, <2>1, <2>2, MoveSpends
<1>4. CASE Recheck(r)
  <2>1. UNCHANGED <<offer, item, call, wave>> BY <1>4 DEF Recheck
  <2>2. co'[r].pc \in {"send", "idle"}
    <3>1. CASE Go(r, "send") BY <3>1, CoAfter
    <3>2. CASE Block(r) BY <3>2, CoAfter DEF IdleCo
    <3> QED BY <1>4, <3>1, <3>2 DEF Recheck
  <2> QED BY <1>1, <2>1, <2>2, MoveSpends
<1>5. CASE Finish(r)
  <2>1. PICK js \in SUBSET Jobs : offer' = OffersReleased(js) /\ item' = Unlinked(item, js)
    <3> DEFINE js == {j \in ItemsOf(r) : item[r][j].state = "stale" /\ item[r][j].app}
    <3>1. js \in SUBSET Jobs /\ offer' = OffersReleased(js) /\ item' = Unlinked(item, js)
      BY <1>5 DEF Finish, ItemsOf
    <3> QED BY <3>1
  <2>2. UNCHANGED <<call, wave>> BY <1>5 DEF Finish
  <2>3. co'[r].pc = "idle" BY <1>2, <1>5 DEF Finish, IdleCo
  <2> QED BY <1>1, <2>1, <2>2, <2>3, FreeSpends
<1> QED BY <1>3, <1>4, <1>5

\* what the user and the timer ask
LEMMA UserSpends ==
    ASSUME IInv, WInv, NEW r \in Runs,
           Advance(r) \/ Retry(r) \/ Cancel(r) \/ Abandon(r) \/ Sync(r) \/ SyncImmediate(r)
    PROVE  Pays(r) /\ Owns(r)
<1> USE DEF world, journal, At
<1>1. StepOf(r) BY UserStep
<1>2. co \in [Runs -> CoRecs] /\ co[r] \in CoRecs BY Born
<1>3. CASE UNCHANGED <<offer, item, call, wave, left>> /\ co'[r] = co[r]
  <2>1. Pays(r)
    <3>1. Handled(r)' = Handled(r) /\ Eligible(r)' = Eligible(r) /\ Current(r)' = Current(r)
      BY <1>3 DEF Handled, Eligible, Current
    <3>2. NextCall(r)' = NextCall(r) BY <1>3, <3>1 DEF NextCall, Missing
    <3>3. PayOf(r)' BY <1>3, <3>1, <3>2 DEF WInv, PayOf
    <3> QED BY <1>1, <1>3, <3>3, QuietPays DEF Pays
  <2>2. Owns(r) BY <1>1, <1>3, QuietOwns DEF Owns
  <2> QED BY <2>1, <2>2
<1>4. CASE UNCHANGED <<offer, item, call, wave>> /\ co'[r].pc \in {"sync", "read"}
  BY <1>1, <1>4, MoveSpends
<1>5. CASE Advance(r)
  <2>1. UNCHANGED <<offer, item, call, wave, left>> BY <1>5 DEF Advance
  <2>2. CASE co[r].pc = "idle"
    <3>1. co' = [co EXCEPT ![r].pc = IF run[r].mode = "batch" THEN "sync" ELSE "read",
                           ![r].phase = "first"]
      BY <1>5, <2>2 DEF Advance
    <3>2. co'[r].pc \in {"sync", "read"} BY <1>2, <3>1 DEF CoRecs
    <3> QED BY <1>4, <2>1, <3>2
  <2>3. CASE co[r].pc # "idle"
    <3>1. UNCHANGED co BY <1>5, <2>3 DEF Advance
    <3> QED BY <1>3, <2>1, <3>1
  <2> QED BY <2>2, <2>3
<1>6. CASE Cancel(r)
  BY <1>3, <1>6 DEF Cancel
<1>7. CASE Sync(r)
  <2>1. co'[r].pc = "sync" BY <1>2, <1>7 DEF Sync, CoRecs
  <2> QED BY <1>4, <1>7, <2>1 DEF Sync
<1>8. CASE Abandon(r)
  <2>1. PICK js \in SUBSET Jobs : offer' = OffersReleased(js) /\ item' = Unlinked(item, js)
    <3> DEFINE js == {j \in Remaining(r) : item[r][j].app}
    <3>1. js \in SUBSET Jobs /\ offer' = OffersReleased(js) /\ item' = Unlinked(item, js)
      BY <1>8 DEF Abandon, Remaining, ItemsOf
    <3> QED BY <3>1
  <2>2. UNCHANGED <<call, wave, co>> /\ co[r].pc = "idle" BY <1>8 DEF Abandon
  <2> QED BY <1>1, <2>1, <2>2, FreeSpends
<1>9. CASE Retry(r)
  <2>1. /\ call' = [call EXCEPT ![r] = RetryCalls(r)] /\ call \in Journals
        /\ item' = [item EXCEPT ![r] = RetryItems(r)] /\ item \in Items
        /\ UNCHANGED <<offer, wave>>
        /\ co' = [co EXCEPT ![r].pc = IF run[r].mode = "batch" THEN "sync" ELSE "read",
                            ![r].phase = "first"]
    BY <1>9, Born DEF Retry
  <2>2. co'[r].pc \in {"sync", "read"} BY <1>2, <2>1 DEF CoRecs
  <2>3. ASSUME NEW j \in Jobs, NEW k \in Positions
        PROVE  \/ call'[r][j][k].state = call[r][j][k].state
               \/ call'[r][j][k].state = "prepared"
    <3>1. call'[r][j][k] = RetryCalls(r)[j][k] BY <2>1 DEF Journals
    <3> QED BY <3>1 DEF RetryCalls
  <2>4. ASSUME NEW s \in Runs, NEW j \in Jobs
        PROVE  /\ item[s][j].app => item'[s][j].app
               /\ item'[s][j].state \in {item[s][j].state, "pending"}
    <3>1. item[s][j] \in ItemRecs BY <2>1 DEF Items
    <3>2. item'[s][j] = item[s][j] \/ item'[s][j] = [item[s][j] EXCEPT !.state = "pending"]
      BY <2>1 DEF Items, RetryItems
    <3> QED BY <3>1, <3>2 DEF ItemRecs
  <2>5. CallsOver(r) /\ WavesOf(r) /\ AtOnce(r)' BY <1>1, <2>1, <2>3, CallPays
  <2>6. SendsOf(r) BY <2>3 DEF SendsOf, Sending
  <2>7. PayOf(r)' BY <2>2, NotPaying
  <2>8. Owns(r) BY <1>1, <2>1, <2>2, <2>4, QuietOwns DEF Owns
  <2> QED BY <2>5, <2>6, <2>7, <2>8 DEF Pays
<1>10. CASE SyncImmediate(r)
  <2>1. /\ run[r].mode = "immediate" /\ co[r].pc = "idle" /\ UNCHANGED <<co, wave>>
        /\ call' = [call EXCEPT ![r] = [j \in Jobs |-> [k \in Positions |->
              IF call[r][j][k].state = "submitting"
              THEN [call[r][j][k] EXCEPT !.state = "uncertain"] ELSE call[r][j][k]]]]
    BY <1>10 DEF SyncImmediate
  <2>2. PICK js \in SUBSET Jobs : offer' = OffersReleased(js) /\ item' = Unlinked(item, js)
    <3> DEFINE js == {j \in ItemsOf(r) : item[r][j].state = "stale" /\ item[r][j].app}
    <3>1. js \in SUBSET Jobs /\ offer' = OffersReleased(js) /\ item' = Unlinked(item, js)
      BY <1>10 DEF SyncImmediate, ItemsOf
    <3> QED BY <3>1
  <2>3. ASSUME NEW j \in Jobs, NEW k \in Positions
        PROVE  \/ call'[r][j][k].state = call[r][j][k].state
               \/ /\ call[r][j][k].state = "submitting"
                  /\ call'[r][j][k].state = "uncertain"
    <3>1. call \in Journals /\ call[r][j][k] \in CallRecs BY Born DEF Journals
    <3>2. call'[r][j][k] = IF call[r][j][k].state = "submitting"
                           THEN [call[r][j][k] EXCEPT !.state = "uncertain"] ELSE call[r][j][k]
      BY <2>1, <3>1 DEF Journals
    <3> QED BY <3>1, <3>2 DEF CallRecs
  <2>4. CallsOver(r) /\ WavesOf(r) /\ AtOnce(r)' BY <1>1, <2>1, <2>3, CallPays
  <2>5. SendsOf(r) BY <2>3 DEF SendsOf, Sending
  <2>6. PayOf(r)' BY <2>1, NotPaying
  <2>7. Owns(r)
    <3>1. /\ \A s \in Runs, j \in Jobs :
                item'[s][j].app = item[s][j].app \/ j \in AppReleased(js)
          /\ \A j \in Jobs : item'[r][j].state = item[r][j].state
      BY <2>2, UnlinkedItems
    <3> QED BY <1>1, <2>1, <2>2, <3>1, ReleaseOwns
  <2> QED BY <2>4, <2>5, <2>6, <2>7 DEF Pays
<1> QED BY <1>5, <1>6, <1>7, <1>8, <1>9, <1>10

\* every step of a run pays for what is due and prepared, and publishes what it
\* reserved
LEMMA RunSpends ==
    ASSUME IInv, WInv, NEW r \in Runs,
           \/ Retry(r) \/ Cancel(r) \/ Abandon(r)
           \/ Advance(r) \/ Sync(r) \/ SyncImmediate(r) \/ Follow(r) \/ Fails(r)
    PROVE  Pays(r) /\ Owns(r)
<1>1. CASE Retry(r) \/ Cancel(r) \/ Abandon(r) \/ Advance(r) \/ Sync(r) \/ SyncImmediate(r)
  BY <1>1, UserSpends
<1>2. CASE TakeSync(r) \/ LockBusy(r) \/ TakeSend(r) \/ LeaveTransport(r)
  BY <1>2, SendSpends
<1>3. CASE \E w \in Waves : DropPrepared(r, w) \/ SkipBlocked(r, w) \/ Prepare(r, w)
  BY <1>3, PrepareSpends
<1>4. CASE \E w \in Waves :
              RefreshMissing(r, w) \/ RefreshRunning(r, w) \/ Import(r, w) \/ RefreshFails(r, w)
  BY <1>4, RefreshSpends
<1>5. CASE Upload(r) \/ UploadFails(r) \/ Commit(r)
  BY <1>5, CommitSpends
<1>6. CASE Post(r) \/ PostLost(r) \/ Posted(r) \/ PostRefused(r) \/ PostUnknown(r)
  BY <1>6, PostSpends
<1>7. CASE \/ ReadItems(r) \/ ItemStale(r) \/ ItemFails(r) \/ ItemStillWaits(r) \/ Reserve(r)
           \/ Acknowledge(r) \/ ReplayStops(r) \/ ReplayStale(r) \/ ReplayMismatch(r)
  BY <1>7, ExecuteSpends
<1>8. CASE \/ ReplayWaits(r) \/ ReplayFails(r) \/ ReplayCalls(r) \/ Intend(r) \/ Answer(r)
           \/ AnswerFails(r) \/ Publish(r)
  BY <1>8, ReplaySpends
<1>9. CASE AfterItems(r) \/ Recheck(r) \/ Finish(r)
  BY <1>9, EndSpends
<1> QED BY <1>1, <1>2, <1>3, <1>4, <1>5, <1>6, <1>7, <1>8, <1>9 DEF Follow, Fails

----------------------------------------------------------------------------
(* The invariant is kept, and so are the two properties.                   *)

\* a step of a run leaves items that are over as they are, and those to be done
\* were to be done
LEMMA SpendFacts ==
    ASSUME IInv, NEW r \in Runs, StepOf(r)
    PROVE  /\ \A s \in Runs : (run'[s].state = "none") <=> (run[s].state = "none")
           /\ \A s \in Runs, j \in Jobs :
                 /\ j \in Remaining(s)' => j \in Remaining(s)
                 /\ \A x \in {"none", "transferred"} :
                       (item'[s][j].state = x) <=> (item[s][j].state = x)
                 /\ item[s][j].state = "stale" => item'[s][j].state = "stale"
                 /\ item'[s][j].state = "completed" =>
                       item[s][j].state = "completed" \/ (s = r /\ j \in Remaining(r))
<1>1. \A s \in Runs : (run'[s].state = "none") <=> (run[s].state = "none")
  BY DEF StepOf, RunFrame
<1>2. ItemFrame(r) BY DEF StepOf
<1> SUFFICES ASSUME NEW s \in Runs, NEW j \in Jobs
             PROVE  /\ j \in Remaining(s)' => j \in Remaining(s)
                    /\ \A x \in {"none", "transferred"} :
                          (item'[s][j].state = x) <=> (item[s][j].state = x)
                    /\ item[s][j].state = "stale" => item'[s][j].state = "stale"
                    /\ item'[s][j].state = "completed" =>
                          item[s][j].state = "completed" \/ (s = r /\ j \in Remaining(r))
  BY <1>1
<1>3. CASE item'[s][j].state = item[s][j].state
  BY <1>3 DEF Remaining, ItemsOf
<1>4. CASE item'[s][j].state # item[s][j].state
  <2>1. s = r BY <1>2, <1>4 DEF ItemFrame
  <2>2. j \in Remaining(r) /\ item'[r][j].state \notin {"none", "transferred"}
    BY <1>2, <1>4, <2>1 DEF ItemFrame
  <2> QED BY <2>1, <2>2 DEF Remaining, ItemsOf, TerminalItemStates
<1> QED BY <1>3, <1>4

\* what happens to the other runs
LEMMA OthersSpend ==
    ASSUME IInv, WInv, NEW r \in Runs, StepOf(r), WaveFrame(r), Claims(r),
           NEW s \in Runs \ {r}
    PROVE  PayOf(s)' /\ AtOnce(s)' /\ ClaimOf(s)'
<1>1. co'[s] = co[s] /\ run'[s] = run[s] /\ call'[s] = call[s] /\ left'.steps = left.steps
      /\ \A j \in Jobs : item'[s][j].state = item[s][j].state
  BY DEF StepOf, CoFrame, RunFrame, CallFrame, ItemFrame, OffersKept
<1>2. Eligible(s)' = Eligible(s) BY <1>1 DEF Eligible
<1>3. Current(s)' = Current(s) /\ Handled(s)' = Handled(s) BY <1>1 DEF Current, Handled
<1>4. NextCall(s)' = NextCall(s) BY <1>1, <1>3 DEF NextCall, Missing
<1>5. s # NoRun BY GenerationAssumption DEF GenerationAssumption
<1>6. PayOf(s) /\ AtOnce(s) /\ ClaimOf(s) BY DEF WInv
<1>7. ASSUME co[s].pc \in {"upload", "commit"}
      PROVE  wave'[Handled(s)] = wave[Handled(s)]
  <2>1. co[s].pc \in WavePcs BY <1>7 DEF WavePcs
  <2>2. Handled(s) \in Waves /\ wave[Handled(s)].run = s /\ co[s].pc \in TransportPcs
    BY <2>1, InHands
  <2>3. lock = s BY <2>2, InTransportFacts
  <2> QED BY <1>5, <2>2, <2>3 DEF WaveFrame
<1>8. PayOf(s)' BY <1>1, <1>2, <1>3, <1>4, <1>6, <1>7 DEF PayOf
<1>9. AtOnce(s)' BY <1>1, <1>6 DEF AtOnce
<1>10. ClaimOf(s)'
  <2> SUFFICES ASSUME co[s].pc \in {"replay", "intent", "answer"},
                      offer'[Current(s)].app = "empty"
               PROVE  item'[s][Current(s)].app
    BY <1>1, <1>3 DEF ClaimOf
  <2>1. Current(s) \in Jobs /\ Current(s) \in Remaining(s)
    BY ItemInHand DEF ItemPcs
  <2>2. Current(s) \notin Remaining(r)
    <3>1. OneOwner BY DEF IInv
    <3> QED BY <2>1, <3>1 DEF OneOwner, Sources
  <2>3. offer[Current(s)].app = "empty" BY <2>1, <2>2 DEF Claims
  <2>4. item[s][Current(s)].app BY <1>6, <2>3 DEF ClaimOf
  <2> QED BY <2>1, <2>4 DEF Claims
<1> QED BY <1>8, <1>9, <1>10

\* a step of a run
LEMMA SpendsKept ==
    ASSUME IInv, IInv', WInv, NEW r \in Runs, StepOf(r), WaveFrame(r), Pays(r), Owns(r)
    PROVE  WInv'
<1> USE DEF Pays, Owns
<1>1. /\ \A s \in Runs : (run'[s].state = "none") <=> (run[s].state = "none")
      /\ \A s \in Runs, j \in Jobs :
            /\ j \in Remaining(s)' => j \in Remaining(s)
            /\ (item'[s][j].state = "none") <=> (item[s][j].state = "none")
            /\ (item'[s][j].state = "transferred") <=> (item[s][j].state = "transferred")
            /\ item[s][j].state = "stale" => item'[s][j].state = "stale"
            /\ item'[s][j].state = "completed" =>
                  item[s][j].state = "completed" \/ (s = r /\ j \in Remaining(r))
  BY SpendFacts
<1>2. CallFrame(r) /\ \A s \in Runs \ {r} : call'[s] = call[s] BY DEF StepOf, CallFrame
<1>3. BornInOrder' BY <1>1 DEF WInv, BornInOrder
<1>4. Later' BY <1>1 DEF WInv, Later
<1>5. Closed'
  <2> SUFFICES ASSUME NEW s \in Runs, NEW t \in Runs, NEW j \in Jobs,
                      item'[s][j].state = "completed", j \in Remaining(t)'
               PROVE  FALSE
    BY DEF Closed
  <2>1. j \in Remaining(t) BY <1>1
  <2>2. s = r /\ j \in Remaining(r) BY <1>1, <2>1 DEF WInv, Closed
  <2>3. t = s
    <3>1. OneOwner BY DEF IInv
    <3> QED BY <2>1, <2>2, <3>1 DEF OneOwner, Sources
  <2> QED BY <2>3 DEF Remaining, TerminalItemStates
<1>6. HandedOver'
  <2> SUFFICES ASSUME NEW s \in Runs, NEW j \in Jobs, item'[s][j].state = "transferred"
               PROVE  /\ \A k \in Positions :
                            /\ call'[s][j][k].state \notin UnresolvedCallStates
                            /\ \A w \in Waves : wave'[w].run = s => <<j, k>> \notin wave'[w].calls
                      /\ \E t \in Runs : s < t /\ item'[t][j].state \notin {"none", "transferred"}
    BY DEF HandedOver
  <2>1. item[s][j].state = "transferred" /\ j \notin Remaining(s)
    BY <1>1 DEF Remaining, TerminalItemStates
  <2>2. \E t \in Runs : s < t /\ item'[t][j].state \notin {"none", "transferred"}
    <3>1. PICK t \in Runs : s < t /\ item[t][j].state \notin {"none", "transferred"}
      BY <2>1 DEF WInv, HandedOver
    <3> QED BY <1>1, <3>1
  <2>3. ASSUME NEW k \in Positions
        PROVE  call'[s][j][k].state \notin UnresolvedCallStates
    <3>1. call[s][j][k].state \notin UnresolvedCallStates BY <2>1 DEF WInv, HandedOver
    <3> QED BY <1>2, <2>1, <3>1 DEF CallsOver
  <2>4. ASSUME NEW k \in Positions, NEW w \in Waves, wave'[w].run = s, <<j, k>> \in wave'[w].calls
        PROVE  FALSE
    <3>1. \A v \in Waves : wave[v].run = s => <<j, k>> \notin wave[v].calls
      BY <2>1 DEF WInv, HandedOver
    <3>2. s # NoRun BY GenerationAssumption DEF GenerationAssumption
    <3> QED BY <2>1, <2>4, <3>1, <3>2 DEF WavesOf
  <2> QED BY <2>2, <2>3, <2>4
<1>7. AnswersFollow'
  <2> SUFFICES ASSUME NEW s \in Runs, NEW t \in Runs, NEW j \in Jobs, NEW k \in Positions,
                      item'[s][j].state = "transferred", call'[s][j][k].state = "completed",
                      s < t, item'[t][j].state \notin {"none", "stale"},
                      ~GivenUpBetween(s, t, j)'
               PROVE  call'[t][j][k].state = "completed"
    BY DEF AnswersFollow
  <2>1. item[s][j].state = "transferred" /\ item[t][j].state \notin {"none", "stale"} BY <1>1
  <2>2. ~GivenUpBetween(s, t, j) BY <1>1 DEF GivenUpBetween
  <2>3. call[s][j][k].state = "completed" BY <1>2, <2>1 DEF CallsOver
  <2>4. call[t][j][k].state = "completed" BY <2>1, <2>2, <2>3 DEF WInv, AnswersFollow
  <2> QED BY <1>2, <2>4 DEF CallFrame
<1>8. FreshWaves'
  <2> SUFFICES ASSUME NEW w \in Waves PROVE Unsold(w)'
    BY DEF FreshWaves
  <2>1. CASE wave'[w].run = r BY <2>1 DEF WavesOf
  <2>2. CASE wave'[w].run = NoRun
    <3>1. wave'[w].calls = {} BY <2>2 DEF IInv, Linked, LinkOf
    <3> QED BY <2>2, <3>1 DEF Unsold
  <2>3. CASE wave'[w].run \notin {r, NoRun}
    <3>1. wave'[w] = wave[w] BY <2>3 DEF WavesOf
    <3>2. wave[w].run \in Runs \ {r}
      <4>1. wave[w] \in WaveRecs BY DEF IInv, TypeOK
      <4> QED BY <2>3, <3>1, <4>1 DEF WaveRecs
    <3>3. Unsold(w) BY DEF WInv, FreshWaves
    <3> QED BY <1>2, <3>1, <3>2, <3>3 DEF Unsold
  <2> QED BY <2>1, <2>2, <2>3
<1>9. ASSUME NEW s \in Runs PROVE PayOf(s)' /\ AtOnce(s)' /\ ClaimOf(s)'
  <2>1. CASE s = r BY <2>1
  <2>2. CASE s # r
    <3>1. s \in Runs \ {r} BY <2>2
    <3> QED BY <3>1, OthersSpend
  <2> QED BY <2>1, <2>2
<1> QED BY <1>3, <1>4, <1>5, <1>6, <1>7, <1>8, <1>9 DEF WInv

\* a new run is the newest that is registered, and takes offers no run completed
LEMMA StartFacts ==
    ASSUME IInv, WInv, NEW r \in Runs, NEW js \in SUBSET Jobs, NEW mode \in Modes, Start(r, js, mode)
    PROVE  /\ \A s \in Runs : s # r /\ run[s].state # "none" => s < r
           /\ \A s \in Runs, j \in Jobs : s # r /\ item[s][j].state # "none" => s < r
           /\ \A s \in Runs : run'[s].state = "none" <=> (s # r /\ run[s].state = "none")
           /\ \A s \in Runs : s < r => run[s].state # "none"
           /\ \A s \in Runs \ {r} : run'[s].mode = run[s].mode
           /\ \A s \in Runs, j \in js : item[s][j].state # "completed"
           /\ \A s \in Runs, j \in Jobs : s # r => item'[s][j].app = item[s][j].app
           /\ co[r].pc = "idle"
<1> DEFINE sources == {s \in Runs : \E j \in js : Sources(j) # {} /\ s = SourceOf(j)}
           gone(s) == {j \in js : Sources(j) # {} /\ SourceOf(j) = s}
<1>1. /\ run[r].state = "none" /\ \A s \in Runs : s < r => run[s].state # "none"
      /\ \A j \in js : Startable(j)
      /\ run' = [s \in Runs |->
              IF s = r THEN [state |-> "active", mode |-> mode, stop |-> FALSE]
              ELSE IF s \in sources THEN SourceAfter(s, gone(s)) ELSE run[s]]
      /\ item' = [Transferred(js) EXCEPT ![r] =
              [j \in Jobs |-> IF j \in js THEN NewItem(j) ELSE item[r][j]]]
  BY DEF Start
<1>2. Runs \subseteq Nat BY GenerationAssumption DEF GenerationAssumption
<1>3. ASSUME NEW s \in Runs, s # r, run[s].state # "none" PROVE s < r
  <2>1. ~(r < s) BY <1>1, <1>3 DEF WInv, BornInOrder
  <2> QED BY <1>2, <1>3, <2>1
<1>4. ASSUME NEW s \in Runs, NEW j \in Jobs, s # r, item[s][j].state # "none" PROVE s < r
  <2>1. run[s].state # "none" BY <1>4 DEF IInv, Unborn
  <2> QED BY <1>3, <1>4, <2>1
<1>5. ASSUME NEW s \in sources PROVE run[s].state # "none"
  <2>1. PICK j \in js : Sources(j) # {} /\ s = SourceOf(j) BY <1>5
  <2>2. j \in Remaining(s) BY <2>1, SourceIs
  <2> QED BY <2>2, Born
<1>6. ASSUME NEW s \in Runs
      PROVE  LET new == SourceAfter(s, gone(s))
             IN  new.mode = run[s].mode /\ (run[s].state # "none" => new.state # "none")
  <2>1. run[s] \in RunRecs BY Born
  <2>2. SourceAfter(s, gone(s)) = run[s] \/ \E x \in {"cancelled", "completed", "failed", run[s].state} :
           SourceAfter(s, gone(s)) = [run[s] EXCEPT !.state = x]
    BY DEF SourceAfter
  <2> QED BY <2>1, <2>2 DEF RunRecs
<1>7. ASSUME NEW s \in Runs
      PROVE  /\ run'[s].state = "none" <=> (s # r /\ run[s].state = "none")
             /\ s # r => run'[s].mode = run[s].mode
  <2>1. run'[s] = IF s = r THEN [state |-> "active", mode |-> mode, stop |-> FALSE]
                  ELSE IF s \in sources THEN SourceAfter(s, gone(s)) ELSE run[s]
    BY <1>1
  <2> HIDE DEF sources, gone
  <2> QED BY <1>5, <1>6, <2>1
<1>8. ASSUME NEW s \in Runs, NEW j \in js, item[s][j].state = "completed" PROVE FALSE
  <2>1. Sources(j) = {} BY <1>8 DEF WInv, Closed, Sources
  <2>2. offer[j].app = "published" BY <1>8 DEF IInv, OneDossier
  <2>3. offer[j].app # "published" BY <1>1, <2>1 DEF Startable
  <2> QED BY <2>2, <2>3
<1>9. ASSUME NEW s \in Runs, NEW j \in Jobs, s # r PROVE item'[s][j].app = item[s][j].app
  <2>1. item[s][j] \in ItemRecs BY Born DEF Items
  <2>2. item'[s][j] = item[s][j] \/ item'[s][j] = [item[s][j] EXCEPT !.state = "transferred"]
    BY <1>1, <1>9 DEF Transferred
  <2> QED BY <2>1, <2>2 DEF ItemRecs
<1>10. co[r].pc = "idle" BY <1>1, Born
<1> QED BY <1>1, <1>3, <1>4, <1>7, <1>8, <1>9, <1>10

\* the answers of an offer are in the run that takes it over, unless it was given
\* up meanwhile
LEMMA StartAnswers ==
    ASSUME IInv, WInv, NEW r \in Runs, NEW js \in SUBSET Jobs, NEW mode \in Modes, Start(r, js, mode)
    PROVE  AnswersFollow' /\ HandedOver'
<1> DEFINE Leaves(s, j) == j \in js /\ Sources(j) # {} /\ s = SourceOf(j)
<1>1. /\ \A j \in Jobs : item'[r][j].state = IF j \in js THEN "pending" ELSE "none"
      /\ \A s \in Runs \ {r}, j \in Jobs :
            item'[s][j].state = IF Leaves(s, j) THEN "transferred" ELSE item[s][j].state
      /\ \A s \in Runs \ {r} : call'[s] = call[s]
      /\ call'[r] = [j \in Jobs |-> IF j \in js THEN Copied(j) ELSE NoCalls]
  BY StartItems
<1>2. \A s \in Runs, j \in Jobs : Leaves(s, j) => j \in Remaining(s) /\ s \in Sources(j)
  BY SourceIs DEF Sources
<1>3. UNCHANGED <<wave, offer>> /\ \A j \in js : Startable(j) BY DEF Start, world
<1>4. /\ \A s \in Runs, j \in Jobs : s # r /\ item[s][j].state # "none" => s < r
      /\ \A s \in Runs, j \in js : item[s][j].state # "completed"
      /\ \A j \in Jobs : item[r][j].state = "none"
  <2>1. run[r].state = "none" BY DEF Start
  <2> QED BY <2>1, StartFacts DEF IInv, Unborn
<1>5. Runs \subseteq Nat /\ NoRun \notin Runs
  BY GenerationAssumption DEF GenerationAssumption
<1> HIDE DEF Leaves
<1>6. ASSUME NEW s \in Runs, NEW j \in Jobs, item'[s][j].state = "transferred"
      PROVE  s # r /\ s < r /\ (Leaves(s, j) \/ item[s][j].state = "transferred")
  <2>1. s # r BY <1>1, <1>6
  <2>2. Leaves(s, j) \/ item[s][j].state = "transferred" BY <1>1, <1>6, <2>1
  <2>3. item[s][j].state # "none" BY <1>2, <2>2 DEF Remaining, ItemsOf
  <2> QED BY <1>4, <2>1, <2>2, <2>3
<1>7. HandedOver'
  <2> SUFFICES ASSUME NEW s \in Runs, NEW j \in Jobs, item'[s][j].state = "transferred"
               PROVE  /\ \A k \in Positions :
                            /\ call'[s][j][k].state \notin UnresolvedCallStates
                            /\ \A w \in Waves : wave'[w].run = s => <<j, k>> \notin wave'[w].calls
                      /\ \E t \in Runs : s < t /\ item'[t][j].state \notin {"none", "transferred"}
    BY DEF HandedOver
  <2>1. call'[s] = call[s] /\ s < r BY <1>1, <1>6
  <2>2. CASE Leaves(s, j)
    <3>1. ~Unresolved(s, j)
      BY <1>3, <2>2 DEF Leaves, Startable, Resumable
    <3>2. ASSUME NEW k \in Positions, NEW w \in Waves, wave[w].run = s
          PROVE  <<j, k>> \notin wave[w].calls
      <4>1. <<j, k>> \in wave[w].calls => call[s][j][k].wave = w
        BY <1>5, <3>2 DEF IInv, Linked, LinkOf
      <4>2. wave[w].state \in OutstandingWaveStates
        BY <1>5, <3>2 DEF WInv, FreshWaves, Unsold
      <4> QED BY <3>1, <4>1, <4>2 DEF Unresolved
    <3>3. \A k \in Positions : call[s][j][k].state \notin UnresolvedCallStates
      BY <3>1 DEF Unresolved
    <3>4. item'[r][j].state = "pending" BY <1>1, <2>2 DEF Leaves
    <3> QED BY <1>3, <2>1, <3>2, <3>3, <3>4
  <2>3. CASE item[s][j].state = "transferred"
    <3>1. /\ \A k \in Positions :
                /\ call[s][j][k].state \notin UnresolvedCallStates
                /\ \A w \in Waves : wave[w].run = s => <<j, k>> \notin wave[w].calls
          /\ \E t \in Runs : s < t /\ item[t][j].state \notin {"none", "transferred"}
      BY <2>3 DEF WInv, HandedOver
    <3>2. PICK t \in Runs : s < t /\ item[t][j].state \notin {"none", "transferred"} BY <3>1
    <3>3. \E u \in Runs : s < u /\ item'[u][j].state \notin {"none", "transferred"}
      <4>1. t # r BY <1>4, <3>2
      <4>2. CASE Leaves(t, j)
        <5>1. item'[r][j].state = "pending" BY <1>1, <4>2 DEF Leaves
        <5> QED BY <2>1, <5>1
      <4>3. CASE ~Leaves(t, j)
        <5>1. item'[t][j].state = item[t][j].state BY <1>1, <4>1, <4>3
        <5> QED BY <3>2, <5>1
      <4> QED BY <4>2, <4>3
    <3> QED BY <1>3, <2>1, <3>1, <3>3
  <2> QED BY <1>6, <2>2, <2>3
<1>8. AnswersFollow'
  <2> SUFFICES ASSUME NEW s \in Runs, NEW t \in Runs, NEW j \in Jobs, NEW k \in Positions,
                      item'[s][j].state = "transferred", call'[s][j][k].state = "completed",
                      s < t, item'[t][j].state \notin {"none", "stale"},
                      ~GivenUpBetween(s, t, j)'
               PROVE  call'[t][j][k].state = "completed"
    BY DEF AnswersFollow
  <2>1. s # r /\ s < r /\ (Leaves(s, j) \/ item[s][j].state = "transferred") BY <1>6
  <2>2. call[s][j][k].state = "completed" BY <1>1, <2>1
  <2>3. \A u \in Runs : item[u][j].state = "stale" => item'[u][j].state = "stale"
    <3>1. \A u \in Runs : item[u][j].state = "stale" => u # r /\ ~Leaves(u, j)
      BY <1>2, <1>4 DEF Remaining, TerminalItemStates
    <3> QED BY <1>1, <3>1
  <2>4. CASE t = r
    <3>1. j \in js /\ call'[r][j] = Copied(j) BY <1>1, <2>4
    <3>2. CASE Sources(j) # {}
      <4>1. PICK S \in Runs : S = SourceOf(j) /\ j \in Remaining(S) BY <3>2, SourceIs
      <4>2. S # r /\ S < r BY <1>4, <4>1 DEF Remaining, ItemsOf
      <4>3. call[S][j][k].state = "completed"
        <5>1. CASE Leaves(s, j) BY <2>2, <4>1, <5>1 DEF Leaves
        <5>2. CASE item[s][j].state = "transferred"
          <6>1. ~(S < s) BY <4>1, <5>2 DEF WInv, Later
          <6>2. S # s BY <4>1, <5>2 DEF Remaining, TerminalItemStates
          <6>3. s < S BY <1>5, <6>1, <6>2
          <6>4. ~GivenUpBetween(s, S, j)
            <7>1. \A u \in Runs : u < S => u < r BY <1>5, <4>2
            <7> QED BY <2>3, <2>4, <7>1 DEF GivenUpBetween
          <6>5. item[S][j].state \notin {"none", "stale"}
            BY <4>1 DEF Remaining, ItemsOf, TerminalItemStates
          <6> QED BY <2>2, <5>2, <6>3, <6>4, <6>5 DEF WInv, AnswersFollow
        <5> QED BY <2>1, <5>1, <5>2
      <4>4. Copied(j)[k].state = "completed" BY <3>2, <4>1, <4>3 DEF Copied
      <4> QED BY <2>4, <3>1, <4>4
    <3>3. CASE Sources(j) = {}
      <4>1. item[s][j].state = "transferred" BY <2>1, <3>3 DEF Leaves
      <4>2. PICK u \in Runs : s < u /\ item[u][j].state \notin {"none", "transferred"}
        BY <4>1 DEF WInv, HandedOver
      <4>3. item[u][j].state \in {"completed", "stale"}
        <5>1. j \notin Remaining(u) BY <3>3 DEF Sources
        <5> QED BY <4>2, <5>1 DEF Remaining, ItemsOf, TerminalItemStates
      <4>4. item[u][j].state = "stale" BY <1>4, <3>1, <4>3
      <4>5. u # r /\ u < r BY <1>4, <4>2
      <4>6. GivenUpBetween(s, t, j)' BY <2>3, <2>4, <4>2, <4>4, <4>5 DEF GivenUpBetween
      <4> QED BY <4>6
    <3> QED BY <3>2, <3>3
  <2>5. CASE t # r
    <3>1. item[t][j].state \notin {"none", "stale"}
      BY <1>1, <1>2, <2>5 DEF Remaining, ItemsOf, TerminalItemStates
    <3>2. ~Leaves(s, j) BY <1>2, <3>1 DEF WInv, Later
    <3>3. ~GivenUpBetween(s, t, j) BY <2>3 DEF GivenUpBetween
    <3>4. call[t][j][k].state = "completed"
      BY <2>1, <2>2, <3>1, <3>2, <3>3 DEF WInv, AnswersFollow
    <3> QED BY <1>1, <2>5, <3>4
  <2> QED BY <2>4, <2>5
<1> QED BY <1>7, <1>8

\* a start
LEMMA StartSpends ==
    ASSUME IInv, WInv, NEW r \in Runs, NEW js \in SUBSET Jobs, NEW mode \in Modes, Start(r, js, mode)
    PROVE  WInv'
<1> DEFINE Leaves(s, j) == j \in js /\ Sources(j) # {} /\ s = SourceOf(j)
<1>1. /\ \A j \in Jobs : item'[r][j].state = IF j \in js THEN "pending" ELSE "none"
      /\ \A s \in Runs \ {r}, j \in Jobs :
            item'[s][j].state = IF Leaves(s, j) THEN "transferred" ELSE item[s][j].state
      /\ \A s \in Runs \ {r} : call'[s] = call[s]
      /\ call'[r] = [j \in Jobs |-> IF j \in js THEN Copied(j) ELSE NoCalls]
  BY StartItems
<1>2. \A s \in Runs, j \in Jobs : Leaves(s, j) => j \in Remaining(s) /\ co[s].pc = "idle"
  <2>1. \A j \in js : Startable(j) BY DEF Start
  <2> QED BY <2>1, SourceIs DEF Startable, At
<1>3. UNCHANGED <<wave, offer, co, left>> BY DEF Start, world
<1>4. /\ \A s \in Runs : s # r /\ run[s].state # "none" => s < r
      /\ \A s \in Runs, j \in Jobs : s # r /\ item[s][j].state # "none" => s < r
      /\ \A s \in Runs : run'[s].state = "none" <=> (s # r /\ run[s].state = "none")
      /\ \A s \in Runs : s < r => run[s].state # "none"
      /\ \A s \in Runs \ {r} : run'[s].mode = run[s].mode
      /\ \A s \in Runs, j \in js : item[s][j].state # "completed"
      /\ \A s \in Runs, j \in Jobs : s # r => item'[s][j].app = item[s][j].app
      /\ co[r].pc = "idle"
  BY StartFacts
<1>5. Runs \subseteq Nat /\ NoRun \notin Runs
  BY GenerationAssumption DEF GenerationAssumption
<1>6. \A s \in Runs, j \in Jobs :
         j \in Remaining(s)' => (s = r /\ j \in js) \/ (s # r /\ j \in Remaining(s) /\ j \notin js)
  <2> SUFFICES ASSUME NEW s \in Runs, NEW j \in Jobs, j \in Remaining(s)'
               PROVE  (s = r /\ j \in js) \/ (s # r /\ j \in Remaining(s) /\ j \notin js)
    OBVIOUS
  <2>1. item'[s][j].state \notin TerminalItemStates \cup {"none"} BY DEF Remaining, ItemsOf
  <2>2. CASE s = r BY <1>1, <2>1, <2>2
  <2>3. CASE s # r
    <3>1. ~Leaves(s, j) /\ item'[s][j].state = item[s][j].state
      <4> HIDE DEF Leaves
      <4> QED BY <1>1, <2>1, <2>3 DEF TerminalItemStates
    <3>2. j \in Remaining(s) BY <2>1, <3>1 DEF Remaining, ItemsOf
    <3>3. j \notin js BY <3>1, <3>2, SourceIs DEF Sources
    <3> QED BY <2>3, <3>2, <3>3
  <2> QED BY <2>2, <2>3
<1>7. BornInOrder' BY <1>4, <1>5 DEF WInv, BornInOrder
<1> HIDE DEF Leaves
<1>8. ASSUME NEW s \in Runs, NEW j \in Jobs, s # r
      PROVE  /\ (item'[s][j].state = "none") <=> (item[s][j].state = "none")
             /\ item'[s][j].state = "completed" => item[s][j].state = "completed"
  BY <1>1, <1>2, <1>8 DEF Remaining, ItemsOf
<1>9. Later'
  <2> SUFFICES ASSUME NEW s \in Runs, NEW t \in Runs, NEW j \in Jobs,
                      s < t, item'[t][j].state # "none", j \in Remaining(s)'
               PROVE  FALSE
    BY DEF Later
  <2>1. CASE t = r
    <3>1. j \in js BY <1>1, <2>1
    <3>2. s = r BY <1>6, <3>1
    <3> QED BY <1>5, <2>1, <3>2
  <2>2. CASE t # r
    <3>1. item[t][j].state # "none" BY <1>8, <2>2
    <3>2. t < r BY <1>4, <2>2, <3>1
    <3>3. s # r BY <1>5, <3>2
    <3>4. j \in Remaining(s) BY <1>6, <3>3
    <3> QED BY <3>1, <3>4 DEF WInv, Later
  <2> QED BY <2>1, <2>2
<1>10. Closed'
  <2> SUFFICES ASSUME NEW s \in Runs, NEW t \in Runs, NEW j \in Jobs,
                      item'[s][j].state = "completed", j \in Remaining(t)'
               PROVE  FALSE
    BY DEF Closed
  <2>1. s # r BY <1>1
  <2>2. item[s][j].state = "completed" BY <1>8, <2>1
  <2>3. j \notin js BY <1>4, <2>2
  <2>4. j \in Remaining(t) BY <1>6, <2>3
  <2> QED BY <2>2, <2>4 DEF WInv, Closed
<1>11. FreshWaves'
  <2> SUFFICES ASSUME NEW w \in Waves PROVE Unsold(w)'
    BY DEF FreshWaves
  <2>1. Unsold(w) BY DEF WInv, FreshWaves
  <2>2. CASE wave[w].run = NoRun
    <3>1. wave[w].calls = {} BY <2>2 DEF IInv, Linked, LinkOf
    <3> QED BY <1>3, <2>2, <3>1 DEF Unsold
  <2>3. CASE wave[w].run # NoRun
    <3>1. wave[w] \in WaveRecs BY DEF IInv, TypeOK
    <3>2. run[r].state = "none" BY DEF Start
    <3>3. wave[w].run \in Runs \ {r} BY <2>3, <3>1, <3>2 DEF WaveRecs, IInv, Unborn
    <3> QED BY <1>1, <1>3, <2>1, <3>3 DEF Unsold
  <2> QED BY <2>2, <2>3
<1>12. ASSUME NEW s \in Runs PROVE PayOf(s)' /\ AtOnce(s)' /\ ClaimOf(s)'
  <2>1. CASE s = r
    <3>1. PayOf(s)' /\ ClaimOf(s)' BY <1>3, <1>4, <2>1 DEF PayOf, ClaimOf
    <3>2. AtOnce(s)'
      <4>1. ASSUME NEW j \in Jobs, NEW k \in Positions PROVE call'[r][j][k].state # "submitted"
        <5>1. NoCalls[k].state # "submitted" BY DEF NoCalls
        <5>2. Copied(j)[k].state # "submitted" BY DEF Copied, NoCalls
        <5> QED BY <1>1, <5>1, <5>2
      <4> QED BY <2>1, <4>1 DEF AtOnce
    <3> QED BY <3>1, <3>2
  <2>2. CASE s # r
    <3>1. call'[s] = call[s] /\ run'[s].mode = run[s].mode BY <1>1, <1>4, <2>2
    <3>2. AtOnce(s)' BY <3>1 DEF WInv, AtOnce
    <3>3. Current(s)' = Current(s) /\ Handled(s)' = Handled(s) /\ NextCall(s)' = NextCall(s)
      BY <1>3, <3>1 DEF Current, Handled, NextCall, Missing
    <3>4. co[s].pc # "idle" => \A j \in Jobs : item'[s][j].state = item[s][j].state
      BY <1>1, <1>2, <2>2
    <3>5. co[s].pc # "idle" => Eligible(s)' = Eligible(s) BY <3>4 DEF Eligible
    <3>6. PayOf(s)' BY <1>3, <3>1, <3>3, <3>5 DEF WInv, PayOf
    <3>7. ClaimOf(s)'
      <4>1. co[s].pc \in {"replay", "intent", "answer"} => Current(s) \in Jobs
        BY ItemInHand DEF ItemPcs
      <4>2. \A j \in Jobs : item'[s][j].app = item[s][j].app BY <1>4, <2>2
      <4> QED BY <1>3, <3>3, <4>1, <4>2 DEF WInv, ClaimOf
    <3> QED BY <3>2, <3>6, <3>7
  <2> QED BY <2>1, <2>2
<1>13. AnswersFollow' /\ HandedOver' BY StartAnswers
<1> QED BY <1>7, <1>9, <1>10, <1>11, <1>12, <1>13 DEF WInv

\* what leaves the journal alone: crashes, the provider and other operations
LEMMA ApartSpends ==
    ASSUME IInv, WInv, UNCHANGED journal, left'.steps = left.steps,
           \A r \in Runs : co'[r] = co[r] \/ co'[r] = IdleCo,
           \A j \in Jobs : offer'[j].app = "empty" => offer[j].app = "empty"
    PROVE  WInv'
<1>1. UNCHANGED <<run, item, call, wave>> BY DEF journal
<1>2. ASSUME NEW r \in Runs
      PROVE  Remaining(r)' = Remaining(r) /\ Eligible(r)' = Eligible(r)
  BY <1>1 DEF Remaining, ItemsOf, Eligible
<1>3. BornInOrder' /\ Later' /\ Closed' BY <1>1, <1>2 DEF WInv, BornInOrder, Later, Closed
<1>4. HandedOver' BY <1>1 DEF WInv, HandedOver
<1>5. AnswersFollow' BY <1>1 DEF WInv, AnswersFollow, GivenUpBetween
<1>6. FreshWaves' BY <1>1 DEF WInv, FreshWaves, Unsold
<1>7. ASSUME NEW r \in Runs PROVE PayOf(r)' /\ AtOnce(r)' /\ ClaimOf(r)'
  <2>1. AtOnce(r)' BY <1>1 DEF WInv, AtOnce
  <2>2. CASE co'[r] = IdleCo BY <2>1, <2>2 DEF PayOf, ClaimOf, IdleCo
  <2>3. CASE co'[r] = co[r]
    <3>1. Current(r)' = Current(r) /\ Handled(r)' = Handled(r) BY <2>3 DEF Current, Handled
    <3>2. NextCall(r)' = NextCall(r) BY <1>1, <3>1 DEF NextCall, Missing
    <3>3. PayOf(r)' BY <1>1, <1>2, <2>3, <3>1, <3>2 DEF WInv, PayOf
    <3>4. co[r].pc \in {"replay", "intent", "answer"} => Current(r) \in Jobs
      BY ItemInHand DEF ItemPcs
    <3>5. ClaimOf(r)' BY <1>1, <2>3, <3>1, <3>4 DEF WInv, ClaimOf
    <3> QED BY <2>1, <3>3, <3>5
  <2> QED BY <2>2, <2>3
<1> QED BY <1>3, <1>4, <1>5, <1>6, <1>7 DEF WInv

\* every step keeps the invariant
LEMMA NextSpends == IInv /\ WInv /\ [Next]_vars => WInv'
<1> SUFFICES ASSUME IInv, WInv, [Next]_vars PROVE WInv'
  OBVIOUS
<1>1. IInv' BY NextInv
<1>2. CASE \E r \in Runs :
              \/ Retry(r) \/ Cancel(r) \/ Abandon(r)
              \/ Advance(r) \/ Sync(r) \/ SyncImmediate(r) \/ Follow(r) \/ Fails(r)
  <2>1. PICK r \in Runs :
              \/ Retry(r) \/ Cancel(r) \/ Abandon(r)
              \/ Advance(r) \/ Sync(r) \/ SyncImmediate(r) \/ Follow(r) \/ Fails(r)
    BY <1>2
  <2>2. StepOf(r) /\ WaveFrame(r) BY <2>1, RunSteps DEF Holds
  <2>3. Pays(r) /\ Owns(r) BY <2>1, RunSpends
  <2> QED BY <1>1, <2>2, <2>3, SpendsKept
<1>3. CASE \E r \in Runs, js \in SUBSET Jobs, mode \in Modes : Start(r, js, mode)
  BY <1>3, StartSpends
<1>4. left \in [steps : Positions, edits : Nat, faults : Nat, retries : Nat]
      /\ offer \in [Jobs -> OfferRecs]
  BY DEF IInv, TypeOK
<1>5. CASE Crash
  <2>1. left'.steps = left.steps BY <1>5, FailingKept DEF Crash
  <2> QED BY <1>5, <2>1, ApartSpends DEF Crash, world
<1>6. CASE \E w \in Waves : BatchEnds(w)
  BY <1>6, ApartSpends DEF BatchEnds
<1>7. CASE \E j \in Jobs : Enter(j)
  <2>1. left'.steps = left.steps BY <1>4, <1>7 DEF Enter
  <2> QED BY <1>7, <2>1, ApartSpends DEF Enter
<1>8. CASE \E j \in Jobs : Change(j)
  <2>1. PICK j \in Jobs : Change(j) BY <1>8
  <2>2. ASSUME NEW i \in Jobs, offer'[i].app = "empty" PROVE offer[i].app = "empty"
    BY <1>4, <2>1, <2>2 DEF Change, OfferRecs
  <2> QED BY <2>1, <2>2, ApartSpends DEF Change
<1>9. CASE UNCHANGED vars
  BY <1>9, ApartSpends DEF vars, world
<1> QED BY <1>2, <1>3, <1>5, <1>6, <1>7, <1>8, <1>9 DEF Next, User

\* it holds at the start
LEMMA InitSpends == Init => WInv
<1> SUFFICES ASSUME Init PROVE WInv
  OBVIOUS
<1> USE DEF Init
<1>1. \A r \in Runs : Remaining(r) = {} BY DEF Remaining, ItemsOf
<1>2. BornInOrder /\ Later /\ Closed BY <1>1 DEF BornInOrder, Later, Closed
<1>3. HandedOver /\ AnswersFollow BY DEF HandedOver, AnswersFollow
<1>4. FreshWaves BY DEF FreshWaves, Unsold, NoWave
<1>5. \A r \in Runs : PayOf(r) /\ AtOnce(r) /\ ClaimOf(r)
  BY DEF PayOf, AtOnce, ClaimOf, IdleCo
<1> QED BY <1>2, <1>3, <1>4, <1>5 DEF WInv

\* what a run sends was neither sent nor answered in the work it goes on with
LEMMA SentOnce ==
    ASSUME IInv, WInv, NEW r \in Runs, SendsOf(r), NEW s \in Runs, NEW j \in Jobs,
           NEW k \in Positions, Sending(r, j, k),
           item[s][j].state \notin {"none", "stale"}, ~GivenUpBetween(s, r, j)
    PROVE  call[s][j][k].state \notin UnresolvedCallStates \cup {"completed"}
<1>1. j \in Remaining(r) /\ call[r][j][k].state = "prepared" BY DEF SendsOf
<1>2. item[s][j].state \in ItemStates
  <2>1. item[s][j] \in ItemRecs BY Born DEF Items
  <2> QED BY <2>1 DEF ItemRecs
<1>3. CASE s = r BY <1>1, <1>3 DEF UnresolvedCallStates
<1>4. CASE j \in Remaining(s)
  <2>1. OneOwner BY DEF IInv
  <2>2. s = r BY <1>1, <1>4, <2>1 DEF OneOwner, Sources
  <2> QED BY <1>3, <2>2
<1>5. CASE item[s][j].state = "completed" BY <1>1, <1>5 DEF WInv, Closed
<1>6. CASE s # r /\ item[s][j].state = "transferred"
  <2>1. call[s][j][k].state \notin UnresolvedCallStates BY <1>6 DEF WInv, HandedOver
  <2>2. s < r
    <3>1. ~(r < s) BY <1>1, <1>6 DEF WInv, Later
    <3> QED BY <1>6, <3>1, GenerationAssumption DEF GenerationAssumption
  <2>3. item[r][j].state \notin {"none", "stale"}
    BY <1>1 DEF Remaining, ItemsOf, TerminalItemStates
  <2>4. call[s][j][k].state # "completed"
    BY <1>1, <1>6, <2>2, <2>3 DEF WInv, AnswersFollow
  <2> QED BY <2>1, <2>4
<1> QED BY <1>2, <1>3, <1>4, <1>5, <1>6 DEF Remaining, ItemsOf, TerminalItemStates

\* one step pays for nothing twice, and publishes what was reserved
LEMMA NextPays ==
    ASSUME IInv, WInv, [Next]_vars
    PROVE  /\ \A r, s \in Runs, j \in Jobs, k \in Positions :
                 Sending(r, j, k) /\ item[s][j].state \notin {"none", "stale"}
                       /\ ~GivenUpBetween(s, r, j)
                    => call[s][j][k].state \notin UnresolvedCallStates \cup {"completed"}
           /\ \A r \in Runs, j \in Jobs :
                 item[r][j].state # "completed" /\ item'[r][j].state = "completed"
                    => Valid(r, j) /\ offer[j].app = "empty" /\ item[r][j].app
<1>1. CASE UNCHANGED <<item, call>> BY <1>1 DEF Sending
<1>2. ASSUME NEW r \in Runs, StepOf(r), Pays(r), Owns(r)
      PROVE  /\ \A s \in Runs : SendsOf(s) /\ PublishesOf(s)
  <2>1. SendsOf(r) /\ PublishesOf(r) BY <1>2 DEF Pays, Owns
  <2>2. ASSUME NEW s \in Runs \ {r} PROVE SendsOf(s) /\ PublishesOf(s)
    <3>1. call'[s] = call[s] /\ \A j \in Jobs : item'[s][j].state = item[s][j].state
      BY <1>2 DEF StepOf, CallFrame, ItemFrame
    <3> QED BY <3>1 DEF SendsOf, Sending, PublishesOf
  <2> QED BY <2>1, <2>2
<1>3. CASE \E r \in Runs :
              \/ Retry(r) \/ Cancel(r) \/ Abandon(r)
              \/ Advance(r) \/ Sync(r) \/ SyncImmediate(r) \/ Follow(r) \/ Fails(r)
  <2>1. \A s \in Runs : SendsOf(s) /\ PublishesOf(s) BY <1>2, <1>3, RunSteps, RunSpends
  <2> QED BY <2>1, SentOnce DEF PublishesOf
<1>4. CASE \E r \in Runs, js \in SUBSET Jobs, mode \in Modes : Start(r, js, mode)
  <2>1. PICK r \in Runs, js \in SUBSET Jobs, mode \in Modes : Start(r, js, mode) BY <1>4
  <2>2. \A s \in Runs \ {r} : call'[s] = call[s] BY <2>1, StartItems
  <2>3. \A j \in Jobs, k \in Positions : call'[r][j][k].state # "submitting"
    <3>1. call'[r] = [j \in Jobs |-> IF j \in js THEN Copied(j) ELSE NoCalls]
      BY <2>1, StartItems
    <3>2. ASSUME NEW j \in Jobs, NEW k \in Positions
          PROVE  NoCalls[k].state # "submitting" /\ Copied(j)[k].state # "submitting"
      BY DEF NoCalls, Copied
    <3> QED BY <3>1, <3>2
  <2>4. ASSUME NEW s \in Runs, NEW j \in Jobs, item'[s][j].state = "completed"
        PROVE  item[s][j].state = "completed"
    <3>1. \A i \in Jobs : item'[r][i].state \in {"pending", "none"} BY <2>1, StartItems
    <3>2. s # r BY <2>4, <3>1
    <3>3. \A t \in Runs \ {r}, i \in Jobs :
            item'[t][i].state = IF i \in js /\ Sources(i) # {} /\ t = SourceOf(i)
                                THEN "transferred" ELSE item[t][i].state
      BY ZenonT(30), <2>1, StartItems
    <3> QED BY <2>4, <3>2, <3>3
  <2> QED BY <2>2, <2>3, <2>4 DEF Sending
<1>5. CASE Crash \/ (\E w \in Waves : BatchEnds(w)) \/ (\E j \in Jobs : Enter(j) \/ Change(j))
  BY <1>1, <1>5 DEF Crash, BatchEnds, Enter, Change, journal
<1>6. CASE UNCHANGED vars BY <1>1, <1>6 DEF vars, journal
<1> QED BY <1>3, <1>4, <1>5, <1>6 DEF Next, User

\* WInv is an invariant too: whatever is stopped, crashed, given up or taken over,
\* an answer is in the newest run that goes on with the work it belongs to.
THEOREM WorkFollows == Spec => [](IInv /\ WInv)
<1>1. Init => IInv /\ WInv BY InitInv, InitSpends
<1>2. IInv /\ WInv /\ [Next]_vars => IInv' /\ WInv' BY NextInv, NextSpends
<1> QED BY <1>1, <1>2, PTL DEF Spec

\* A request is never paid for while an earlier payment of it is unknown, in
\* flight or answered, in this run or in one whose work on the offer it goes on
\* with: over any number of runs, stops, crashes, lost answers and resumptions.
THEOREM NeverPaidTwice == Spec => NeverResent
<1>1. IInv /\ WInv /\ [Next]_vars =>
        [\A r, s \in Runs, j \in Jobs, k \in Positions :
            Sending(r, j, k) /\ item[s][j].state \notin {"none", "stale"}
                  /\ ~GivenUpBetween(s, r, j)
               => call[s][j][k].state \notin UnresolvedCallStates \cup {"completed"}]_vars
  BY NextPays
<1> QED BY <1>1, WorkFollows, PTL DEF Spec, NeverResent

\* Documents are published for the offer the run was created with, over the
\* application it reserved, whoever changes the offer while answers are awaited.
THEOREM PublishesWhatIsReserved == Spec => PublishesReserved
<1>1. IInv /\ WInv /\ [Next]_vars =>
        [\A r \in Runs, j \in Jobs :
            item[r][j].state # "completed" /\ item'[r][j].state = "completed"
               => Valid(r, j) /\ offer[j].app = "empty" /\ item[r][j].app]_vars
  BY NextPays
<1> QED BY <1>1, WorkFollows, PTL DEF Spec, PublishesReserved
=============================================================================
