------------------------ MODULE BatchAnalysis_proof ------------------------
(***************************************************************************)
(* Theorems about BatchAnalysis, for every number of offers, runs, waves,  *)
(* edits, faults and retries.  Two inductive invariants: IInv, the types   *)
(* with the agreement of journal and provider that keeps them              *)
(* (JournalInv); and RInv, which adds what the coordinator may have in     *)
(* hand (FollowInv).                                                       *)
(***************************************************************************)
EXTENDS BatchAnalysis, TLAPS

IInv == TypeOK /\ JournalInv

\* pcs at which JournalInv asks nothing of the wave in hand
QuietPcs == {"idle", "reserve", "created", "followup", "pass", "wave", "unsure"}

----------------------------------------------------------------------------
(* The coordinator's record.                                               *)

\* the idle coordinator is well typed
LEMMA IdleCoType == IdleCo \in CoRecs
BY BatchAssumption DEF BatchAssumption, IdleCo, CoRecs

\* a run may be followed from any operation
LEMMA AdvancingType ==
    ASSUME NEW o \in {"sync", "retry", "cancel"}, NEW r \in Runs
    PROVE  /\ Advancing(o, r) \in CoRecs
           /\ Advancing(o, r).pc = "pass" /\ Advancing(o, r).run = r
<1>1. Passes \in 0..Passes BY BatchAssumption DEF BatchAssumption
<1> QED BY <1>1, IdleCoType DEF Advancing, CoRecs

\* a returned operation is idle, or a start that looks at Stop once more
LEMMA ReturnedType ==
    ASSUME co \in CoRecs
    PROVE  /\ Returned \in CoRecs
           /\ Returned.pc \in {"idle", "followup"}
           /\ Returned.pc = "followup" => Returned.run = co.run
<1>1. CASE co.op = "start" BY <1>1 DEF Returned, CoRecs
<1>2. CASE co.op # "start" BY <1>2, IdleCoType DEF Returned, IdleCo
<1> QED BY <1>1, <1>2

\* the next wave, the next pass, or the end of _advance
LEMMA ContinueType ==
    ASSUME co \in CoRecs, NEW w \in Waves, NEW wait \in BOOLEAN, Continue(w, wait)
    PROVE  /\ co' \in CoRecs
           /\ co'.pc \in {"idle", "followup", "pass", "wave"}
           /\ co'.pc # "idle" => co'.run = co.run
<1>1. CASE co.todo \ {w} # {}
  BY <1>1 DEF Continue, CoRecs
<1>2. CASE co.todo \ {w} = {} /\ (co.waiting \/ wait)
  BY <1>2, ReturnedType DEF Continue
<1>3. CASE co.todo \ {w} = {} /\ ~(co.waiting \/ wait)
  BY <1>3 DEF Continue, CoRecs
<1> QED BY <1>1, <1>2, <1>3

\* two waves are never handled at once
LEMMA HandlingUnique ==
    ASSUME co \in CoRecs, BatchAssumption, NEW v \in Waves, NEW w \in Waves, Handling(v), Handling(w)
    PROVE  v = w
BY DEF Handling, Waves, CoRecs, BatchAssumption
----------------------------------------------------------------------------
(* The run's record.                                                       *)

\* each way a run is written keeps its type
LEMMA RunWriteType ==
    ASSUME TypeOK, NEW r \in Runs
    PROVE  /\ \A c \in BOOLEAN : [run EXCEPT ![r].cancel = c] \in [Runs -> RunRecs]
           /\ \A s \in RunStates : [run EXCEPT ![r].state = s] \in [Runs -> RunRecs]
           /\ \A e \in {"none", "denied", "other"} : [run EXCEPT ![r].err = e] \in [Runs -> RunRecs]
           /\ \A s \in RunStates, e \in {"none", "denied", "other"} :
                 [run EXCEPT ![r].state = s, ![r].err = e] \in [Runs -> RunRecs]
<1>1. run \in [Runs -> RunRecs] /\ run[r] \in RunRecs BY DEF TypeOK
<1>2. ASSUME NEW c \in BOOLEAN PROVE [run EXCEPT ![r].cancel = c] \in [Runs -> RunRecs]
  <2>1. [run[r] EXCEPT !.cancel = c] \in RunRecs BY <1>1 DEF RunRecs
  <2> QED BY <1>1, <2>1
<1>3. ASSUME NEW s \in RunStates PROVE [run EXCEPT ![r].state = s] \in [Runs -> RunRecs]
  <2>1. [run[r] EXCEPT !.state = s] \in RunRecs BY <1>1 DEF RunRecs
  <2> QED BY <1>1, <2>1
<1>4. ASSUME NEW e \in {"none", "denied", "other"}
      PROVE  [run EXCEPT ![r].err = e] \in [Runs -> RunRecs]
  <2>1. [run[r] EXCEPT !.err = e] \in RunRecs BY <1>1 DEF RunRecs
  <2> QED BY <1>1, <2>1
<1>5. ASSUME NEW s \in RunStates, NEW e \in {"none", "denied", "other"}
      PROVE  [run EXCEPT ![r].state = s, ![r].err = e] \in [Runs -> RunRecs]
  <2>1. [run[r] EXCEPT !.state = s, !.err = e] \in RunRecs BY <1>1 DEF RunRecs
  <2> QED BY <1>1, <2>1
<1> QED BY <1>2, <1>3, <1>4, <1>5

\* the states a run may be given
LEMMA RunStatesAre ==
    {"active", "attention", "blocked", "completed", "partial", "failed", "cancelled"} \subseteq RunStates
BY DEF RunStates, ActiveRunStates, TerminalRunStates

----------------------------------------------------------------------------
(* Items and offers after their results.                                   *)

\* an answered item keeps its type, whatever the phase and the answer
LEMMA ItemAfterType ==
    ASSUME TypeOK, NEW r \in Runs, NEW p \in Phases, NEW j \in Jobs, NEW o \in Verdicts
    PROVE  ItemAfter(r, p, j, o) \in ItemRecs
<1>1. item[r][j] \in ItemRecs BY DEF TypeOK
<1>2. p # "screening" => FailedOf[p] \in ItemStates
  BY DEF Phases, FailedOf, ItemStates
<1> QED BY <1>1, <1>2 DEF ItemAfter, ItemRecs, ItemStates, Phases, PendingItemStates, PendingOf

\* an answered offer keeps its type
LEMMA JobAfterType ==
    ASSUME TypeOK, NEW r \in Runs, NEW p \in Phases, NEW j \in Jobs, NEW o \in Verdicts
    PROVE  JobAfter(r, p, j, o) \in JobRecs
<1>1. job[j] \in JobRecs BY DEF TypeOK
<1> QED BY <1>1 DEF JobAfter, JobRecs, Phases

\* ... and so do all of them
LEMMA AfterType ==
    ASSUME TypeOK, NEW r \in Runs, NEW p \in Phases, NEW out,
           \A j \in Jobs : j \in DOMAIN out => out[j] \in Verdicts
    PROVE  /\ ItemsAfter(r, p, out) \in [Runs -> [Jobs -> ItemRecs]]
           /\ JobsAfter(r, p, out) \in [Jobs -> JobRecs]
<1>1. [j \in Jobs |-> IF j \in DOMAIN out THEN ItemAfter(r, p, j, out[j]) ELSE item[r][j]]
         \in [Jobs -> ItemRecs]
  BY ItemAfterType DEF TypeOK
<1>2. ItemsAfter(r, p, out) \in [Runs -> [Jobs -> ItemRecs]]
  BY <1>1 DEF ItemsAfter, TypeOK
<1>3. JobsAfter(r, p, out) \in [Jobs -> JobRecs]
  BY JobAfterType DEF JobsAfter, TypeOK
<1> QED BY <1>2, <1>3

\* skipping and cancelling items, in one form
LEMMA ItemStatesType ==
    ASSUME TypeOK, NEW r \in Runs, NEW f, f \in [Jobs -> ItemRecs]
    PROVE  [item EXCEPT ![r] = f] \in [Runs -> [Jobs -> ItemRecs]]
BY DEF TypeOK

\* skipping obsolete items keeps their type (_prune_prepared, import_result)
LEMMA SkipStaleType ==
    ASSUME TypeOK, NEW r \in Runs, NEW S
    PROVE  SkipStale(r, S) \in [Runs -> [Jobs -> ItemRecs]]
<1> DEFINE f == [j \in Jobs |-> IF j \in S /\ ~Current(r, j)
                                THEN [item[r][j] EXCEPT !.state = "skipped"]
                                ELSE item[r][j]]
<1>1. ASSUME NEW j \in Jobs
      PROVE  [item[r][j] EXCEPT !.state = "skipped"] \in ItemRecs
  <2>1. item[r][j] \in ItemRecs BY DEF TypeOK
  <2>2. "skipped" \in ItemStates BY DEF ItemStates
  <2> QED BY <2>1, <2>2 DEF ItemRecs
<1>2. f \in [Jobs -> ItemRecs] BY <1>1 DEF TypeOK
<1>3. SkipStale(r, S) = [item EXCEPT ![r] = f] BY DEF SkipStale
<1> QED BY <1>2, <1>3, ItemStatesType

\* what a run starts with
LEMMA NewItemType ==
    ASSUME TypeOK, NEW j \in Jobs
    PROVE  NewItem(j) \in ItemRecs
<1>1. job[j].ver \in Nat BY DEF TypeOK, JobRecs
<1>2. PendingItemStates = {"screening_pending", "extraction_pending", "evaluation_pending"}
  BY DEF PendingItemStates, PendingOf, Phases
<1>3. NewItem(j).state \in ItemStates BY <1>2 DEF NewItem, ItemStates
<1>4. NewItem(j).offer \in BOOLEAN BY DEF NewItem, HasExtraction
<1>5. NewItem(j) = [state |-> NewItem(j).state, snap |-> job[j].ver, offer |-> NewItem(j).offer]
  BY DEF NewItem
<1> QED BY <1>1, <1>3, <1>4, <1>5 DEF ItemRecs
----------------------------------------------------------------------------
(* Waves.                                                                  *)

\* the keys requests are made of
LEMMA RequestKeyType ==
    ASSUME TypeOK, NEW r \in Runs, NEW p \in Phases, NEW j \in Jobs
    PROVE  RequestKey(r, p, j) \in Keys
<1>1. job[j].body \in Nat BY DEF TypeOK, JobRecs
<1>2. run[r].prof \in Nat BY DEF TypeOK, RunRecs
<1>3. (IF p = "evaluation" THEN run[r].prof ELSE 0) \in Nat BY <1>2
<1> QED BY <1>1, <1>3 DEF RequestKey, Keys

\* pruning only removes offers from requests
LEMMA PrunedType ==
    ASSUME TypeOK, NEW w \in Waves
    PROVE  /\ Pruned(w) \subseteq Requests
           /\ PrunedWave(w) \in WaveRecs
<1>1. wave[w] \in WaveRecs BY DEF TypeOK
<1>2. ASSUME NEW s \in wave[w].reqs
      PROVE  [s EXCEPT !.items = {j \in s.items : Current(co.run, j)}] \in Requests
  BY <1>1, <1>2 DEF WaveRecs, Requests
<1>3. Pruned(w) \subseteq Requests BY <1>2 DEF Pruned
<1>4. (wave[w].file /\ Pruned(w) = wave[w].reqs) \in BOOLEAN OBVIOUS
<1>5. QED BY <1>1, <1>3, <1>4 DEF PrunedWave, WaveRecs, WaveStates

\* a journaled chunk of requests
LEMMA NewWaveType ==
    ASSUME NEW r \in Runs, NEW p \in Phases, NEW reqs, reqs \subseteq Requests
    PROVE  NewWave(r, p, reqs) \in WaveRecs
BY DEF NewWave, WaveRecs, WaveStates

\* the offers of a wave are offers, and each is in one of its requests
LEMMA ItemsOfType ==
    ASSUME TypeOK, NEW w \in Waves
    PROVE  /\ ItemsOf(w) \subseteq Jobs
           /\ \A j \in ItemsOf(w) : \E q \in wave[w].reqs : j \in q.items
<1>1. wave[w].reqs \subseteq Requests BY DEF TypeOK, WaveRecs
<1> QED BY <1>1 DEF ItemsOf, Requests
----------------------------------------------------------------------------
(* Steps and JournalInv.                                                   *)

\* a step that leaves waves and provider alone and ends where nothing is asked
\* of the wave in hand
LEMMA QuietStep ==
    ASSUME JournalInv, UNCHANGED <<wave, remote>>, co'.pc \in QuietPcs,
           co'.pc # "idle" => co'.run \in Runs
    PROVE  JournalInv'
BY DEF JournalInv, WaveSound, HandSound, At, QuietPcs

\* the same for a step that writes waves soundly
LEMMA QuietWaveStep ==
    ASSUME \A v \in Waves : WaveSound(v)', co'.pc \in QuietPcs,
           co'.pc # "idle" => co'.run \in Runs
    PROVE  JournalInv'
BY DEF JournalInv, HandSound, At, QuietPcs

\* a step that stays with the wave in hand
LEMMA HandStep ==
    ASSUME TypeOK, JournalInv, NEW w \in Waves, Handling(w), ~At("idle"),
           co'.todo = co.todo, co'.run = co.run,
           \A v \in Waves : WaveSound(v)', HandSound(w)'
    PROVE  JournalInv'
<1>1. co.run \in Runs BY DEF JournalInv
<1>2. ASSUME NEW v \in Waves, Handling(v)'
      PROVE  v = w
  <2>1. Handling(v) BY <1>2 DEF Handling
  <2> QED BY <2>1, HandlingUnique, BatchAssumption DEF TypeOK
<1> QED BY <1>1, <1>2 DEF JournalInv

\* a step that writes one wave
LEMMA OneWaveStep ==
    ASSUME TypeOK, JournalInv, NEW w \in Waves, NEW rec, rec \in WaveRecs,
           wave' = [wave EXCEPT ![w] = rec], UNCHANGED remote,
           rec.state \in {"unused", "prepared"} => remote[w].posts = 0,
           rec.batch => remote[w].posts = 1,
           rec.state = "imported" /\ remote[w].posts > 0 => rec.consumed
    PROVE  /\ wave' \in [Waves -> WaveRecs]
           /\ \A v \in Waves : WaveSound(v)'
<1>1. wave' \in [Waves -> WaveRecs] BY DEF TypeOK
<1>2. ASSUME NEW v \in Waves PROVE WaveSound(v)'
  <2>1. CASE v = w BY <2>1 DEF TypeOK, JournalInv, WaveSound
  <2>2. CASE v # w BY <2>2 DEF TypeOK, JournalInv, WaveSound
  <2> QED BY <2>1, <2>2
<1> QED BY <1>1, <1>2
----------------------------------------------------------------------------
(* Starting, following, retrying and cancelling.                           *)

\* start reads the offers (analysis_candidates)
LEMMA StartReadStep ==
    ASSUME IInv, NEW r \in Runs, NEW S, StartRead(r, S)
    PROVE  IInv'
<1>1. \A j \in Jobs : job[j].ver \in Nat BY DEF IInv, TypeOK, JobRecs
<1>2. prof \in Nat BY DEF IInv, TypeOK
<1>3. S \subseteq Jobs BY DEF StartRead
<1>4. {<<j, job[j].ver>> : j \in S} \in SUBSET (Jobs \X Nat) BY <1>1, <1>3
<1>5. co' \in CoRecs /\ co'.pc = "reserve" /\ co'.run = r
  BY <1>2, <1>4, IdleCoType DEF StartRead, CoRecs
<1>6. TypeOK' BY <1>5 DEF IInv, TypeOK, StartRead
<1>7. JournalInv' BY <1>5, QuietStep DEF IInv, StartRead, QuietPcs
<1> QED BY <1>6, <1>7 DEF IInv

\* start creates the run and its items
LEMMA StartCreateStep ==
    ASSUME IInv, StartCreate
    PROVE  IInv'
<1>1. co.run \in Runs BY DEF IInv, JournalInv, StartCreate, At
<1>2. co \in CoRecs BY DEF IInv, TypeOK
<1>3. co' \in CoRecs /\ co'.pc = "created" /\ co'.run = co.run
  BY <1>2 DEF StartCreate, CoRecs
<1>4. run' \in [Runs -> RunRecs]
  <2>1. run[co.run] \in RunRecs /\ co.prof \in Nat /\ "active" \in RunStates
    BY <1>1, <1>2, RunStatesAre DEF IInv, TypeOK, CoRecs
  <2>2. [run[co.run] EXCEPT !.state = "active", !.prof = co.prof] \in RunRecs
    BY <2>1 DEF RunRecs
  <2> QED BY <1>1, <2>2 DEF IInv, TypeOK, StartCreate
<1>5. item' \in [Runs -> [Jobs -> ItemRecs]]
  <2> DEFINE f == [j \in Jobs |-> IF j \in StillPicked THEN NewItem(j) ELSE item[co.run][j]]
  <2>1. f \in [Jobs -> ItemRecs] BY <1>1, NewItemType DEF IInv, TypeOK
  <2>2. item' = [item EXCEPT ![co.run] = f] BY DEF StartCreate
  <2> QED BY <1>1, <2>1, <2>2, ItemStatesType DEF IInv
<1>6. job' \in [Jobs -> JobRecs]
  <2>1. ASSUME NEW j \in Jobs PROVE [job[j] EXCEPT !.state = "archived"] \in JobRecs
    BY DEF IInv, TypeOK, JobRecs
  <2> QED BY <2>1 DEF IInv, TypeOK, StartCreate
<1>7. TypeOK' BY <1>3, <1>4, <1>5, <1>6 DEF IInv, TypeOK, StartCreate
<1>8. JournalInv' BY <1>1, <1>3, QuietStep DEF IInv, StartCreate, QuietPcs
<1> QED BY <1>7, <1>8 DEF IInv

\* the other steps of start, and Stop
LEMMA StartControlStep ==
    ASSUME IInv, StartRefused \/ StartAdvance \/ StartFollowUp \/ RequestStop
    PROVE  IInv'
<1> USE DEF IInv
<1>1. CASE StartRefused
  <2>1. co' \in CoRecs /\ co'.pc = "idle" BY <1>1, IdleCoType DEF StartRefused, IdleCo
  <2>2. TypeOK' BY <1>1, <2>1 DEF TypeOK, StartRefused
  <2> QED BY <1>1, <2>1, <2>2, QuietStep DEF StartRefused, QuietPcs
<1>2. CASE StartAdvance
  <2>1. co.run \in Runs BY <1>2 DEF JournalInv, StartAdvance, At
  <2>2. Passes \in 0..Passes BY BatchAssumption DEF BatchAssumption
  <2>3. co' \in CoRecs /\ co'.pc = "pass" /\ co'.run = co.run
    BY <1>2, <2>2 DEF TypeOK, StartAdvance, CoRecs
  <2>4. run' \in [Runs -> RunRecs]
    <3>1. (run[co.run].cancel \/ co.stop) \in BOOLEAN BY <2>1 DEF TypeOK, RunRecs, CoRecs
    <3> QED BY <1>2, <2>1, <3>1, RunWriteType DEF StartAdvance
  <2>5. TypeOK' BY <1>2, <2>3, <2>4 DEF TypeOK, StartAdvance
  <2> QED BY <1>2, <2>1, <2>3, <2>5, QuietStep DEF StartAdvance, QuietPcs
<1>3. CASE StartFollowUp
  <2>1. co.run \in Runs BY <1>3 DEF JournalInv, StartFollowUp, At
  <2>2. \/ run' = [run EXCEPT ![co.run].cancel = TRUE] /\ co' = Advancing("cancel", co.run)
        \/ run' = run /\ co' = IdleCo
    BY <1>3, Zenon DEF StartFollowUp
  <2>3. co' \in CoRecs /\ co'.pc \in {"idle", "pass"} /\ (co'.pc = "pass" => co'.run = co.run)
    <3>1. IdleCo.pc = "idle" BY DEF IdleCo
    <3> QED BY <2>1, <2>2, <3>1, AdvancingType, IdleCoType
  <2>4. run' \in [Runs -> RunRecs]
    <3>1. [run EXCEPT ![co.run].cancel = TRUE] \in [Runs -> RunRecs] BY <2>1, RunWriteType
    <3> QED BY <2>2, <3>1 DEF TypeOK
  <2>5. TypeOK' BY <1>3, <2>3, <2>4 DEF TypeOK, StartFollowUp
  <2> QED BY <1>3, <2>1, <2>3, <2>5, QuietStep DEF StartFollowUp, QuietPcs
<1>4. CASE RequestStop
  <2>1. co' \in CoRecs /\ co'.pc = co.pc /\ co'.run = co.run /\ co'.todo = co.todo
    BY <1>4 DEF TypeOK, RequestStop, CoRecs
  <2>2. TypeOK' BY <1>4, <2>1 DEF TypeOK, RequestStop
  <2>3. JournalInv' BY <1>4, <2>1 DEF RequestStop, JournalInv, WaveSound, HandSound, Handling, At
  <2> QED BY <2>2, <2>3
<1> QED BY <1>1, <1>2, <1>3, <1>4

\* sync, cancel and an upgrade that breaks a frozen configuration
LEMMA FollowStep ==
    ASSUME IInv, NEW r \in Runs, Sync(r) \/ Cancel(r) \/ BreakConfiguration(r)
    PROVE  IInv'
<1> USE DEF IInv
<1>1. CASE Sync(r)
  <2>1. co' \in CoRecs /\ co'.pc = "pass" /\ co'.run = r BY <1>1, AdvancingType DEF Sync
  <2>2. TypeOK' BY <1>1, <2>1 DEF TypeOK, Sync
  <2> QED BY <1>1, <2>1, <2>2, QuietStep DEF Sync, QuietPcs
<1>2. CASE Cancel(r)
  <2>1. co' \in CoRecs /\ co'.pc = "pass" /\ co'.run = r BY <1>2, AdvancingType DEF Cancel
  <2>2. run' \in [Runs -> RunRecs] BY <1>2, RunWriteType DEF Cancel
  <2>3. TypeOK' BY <1>2, <2>1, <2>2 DEF TypeOK, Cancel
  <2> QED BY <1>2, <2>1, <2>3, QuietStep DEF Cancel, QuietPcs
<1>3. CASE BreakConfiguration(r)
  <2>1. run' \in [Runs -> RunRecs] BY <1>3 DEF TypeOK, BreakConfiguration, RunRecs
  <2>2. TypeOK' BY <1>3, <2>1 DEF TypeOK, BreakConfiguration
  <2>3. co'.pc = "idle" BY <1>3 DEF BreakConfiguration, At
  <2> QED BY <1>3, <2>2, <2>3, QuietStep DEF BreakConfiguration, QuietPcs
<1> QED BY <1>1, <1>2, <1>3

\* retry asks failed items again
LEMMA RetryStep ==
    ASSUME IInv, NEW r \in Runs, Retry(r)
    PROVE  IInv'
<1> USE DEF IInv
<1>1. co' \in CoRecs /\ co'.pc = "pass" /\ co'.run = r BY AdvancingType DEF Retry
<1>2. used' \in [edits : Nat, faults : Nat, retries : Nat] BY DEF TypeOK, Retry
<1>3. run' \in [Runs -> RunRecs]
  <2>1. [run EXCEPT ![r].state = "active", ![r].err = "none"] \in [Runs -> RunRecs]
    BY RunWriteType, RunStatesAre
  <2> QED BY <2>1 DEF TypeOK, Retry
<1>4. item' \in [Runs -> [Jobs -> ItemRecs]]
  <2> DEFINE f == [j \in Jobs |-> IF j \notin Retryable(r) THEN item[r][j]
                                  ELSE [item[r][j] EXCEPT !.state = Retried(r, j)]]
  <2>1. ASSUME NEW j \in Jobs PROVE [item[r][j] EXCEPT !.state = Retried(r, j)] \in ItemRecs
    <3>1. item[r][j] \in ItemRecs BY DEF TypeOK
    <3>2. Retried(r, j) \in ItemStates
      BY DEF Retried, ItemStates, PendingItemStates, PendingOf, Phases
    <3> QED BY <3>1, <3>2 DEF ItemRecs
  <2>2. f \in [Jobs -> ItemRecs] BY <2>1 DEF TypeOK
  <2>3. item' = item \/ item' = [item EXCEPT ![r] = f] BY DEF Retry
  <2> QED BY <2>2, <2>3, ItemStatesType DEF TypeOK
<1>5. TypeOK' BY <1>1, <1>2, <1>3, <1>4 DEF TypeOK, Retry
<1> QED BY <1>1, <1>5, QuietStep DEF Retry, QuietPcs
----------------------------------------------------------------------------
(* The ways a step of _advance ends.                                       *)

\* the operation goes on with its own run, where nothing is asked of the wave
CoQuiet == co' \in CoRecs /\ co'.pc \in QuietPcs /\ (co'.pc # "idle" => co'.run = co.run)

\* _advance returned
LEMMA ReturnedQuiet ==
    ASSUME IInv, co' = Returned
    PROVE  CoQuiet
BY ReturnedType DEF IInv, TypeOK, CoQuiet, QuietPcs

\* the loop over waves went on
LEMMA ContinueQuiet ==
    ASSUME IInv, NEW w \in Waves, NEW wait \in BOOLEAN, Continue(w, wait)
    PROVE  CoQuiet
BY ContinueType DEF IInv, TypeOK, CoQuiet, QuietPcs

\* _safely_advance recorded an exception
LEMMA RaiseQuiet ==
    ASSUME IInv, NEW r \in Runs, NEW text \in {"none", "denied", "other"},
           Raise(r, text) \/ RaiseFrozen(r)
    PROVE  CoQuiet /\ run' \in [Runs -> RunRecs]
<1>1. co' = Returned BY DEF Raise, RaiseFrozen
<1>2. CASE Raise(r, text)
  <2>1. [run EXCEPT ![r].err = text] \in [Runs -> RunRecs] BY RunWriteType DEF IInv
  <2> QED BY <1>1, <1>2, <2>1, ReturnedQuiet DEF Raise
<1>3. CASE RaiseFrozen(r)
  <2>1. [run EXCEPT ![r].err = "other", ![r].state = "blocked"] \in [Runs -> RunRecs]
    <3>1. run[r] \in RunRecs /\ "blocked" \in RunStates
      BY RunStatesAre DEF IInv, TypeOK
    <3>2. [run[r] EXCEPT !.err = "other", !.state = "blocked"] \in RunRecs BY <3>1 DEF RunRecs
    <3> QED BY <3>2 DEF IInv, TypeOK
  <2> QED BY <1>1, <1>3, <2>1, ReturnedQuiet DEF RaiseFrozen
<1> QED BY <1>2, <1>3

\* a step that only moves the operation and the run
LEMMA RunOnlyStep ==
    ASSUME IInv, ~At("idle"), CoQuiet, run' \in [Runs -> RunRecs],
           item' \in [Runs -> [Jobs -> ItemRecs]],
           used' \in [edits : Nat, faults : Nat, retries : Nat],
           UNCHANGED <<job, prof, cache, claims, wave, remote>>
    PROVE  IInv'
<1>1. TypeOK' BY DEF IInv, TypeOK, CoQuiet
<1>2. co.run \in Runs BY DEF IInv, JournalInv
<1>3. JournalInv' BY <1>2, QuietStep DEF IInv, CoQuiet
<1> QED BY <1>1, <1>3 DEF IInv

\* what is known of the wave in hand
LEMMA InHand ==
    ASSUME IInv, NEW w \in Waves
    PROVE  /\ wave[w] \in WaveRecs /\ remote[w] \in RemoteRecs
           /\ item \in [Runs -> [Jobs -> ItemRecs]] /\ run \in [Runs -> RunRecs]
           /\ job \in [Jobs -> JobRecs] /\ cache \subseteq [key : Keys, verdict : Verdicts]
           /\ co \in CoRecs /\ used \in [edits : Nat, faults : Nat, retries : Nat]
           /\ ~At("idle") => co.run \in Runs
           /\ WaveSound(w) /\ (Handling(w) => HandSound(w))
BY DEF IInv, TypeOK, JournalInv
\* a step that writes one wave and moves on
LEMMA WaveStep ==
    ASSUME IInv, ~At("idle"), CoQuiet, NEW w \in Waves, NEW rec, rec \in WaveRecs,
           wave' = [wave EXCEPT ![w] = rec], UNCHANGED <<prof, claims, remote>>,
           rec.state \in {"unused", "prepared"} => remote[w].posts = 0,
           rec.batch => remote[w].posts = 1,
           rec.state = "imported" /\ remote[w].posts > 0 => rec.consumed,
           run' \in [Runs -> RunRecs], item' \in [Runs -> [Jobs -> ItemRecs]],
           job' \in [Jobs -> JobRecs], cache' \subseteq [key : Keys, verdict : Verdicts],
           used' \in [edits : Nat, faults : Nat, retries : Nat]
    PROVE  IInv'
<1>1. wave' \in [Waves -> WaveRecs] /\ \A v \in Waves : WaveSound(v)'
  BY OneWaveStep DEF IInv
<1>2. TypeOK' BY <1>1 DEF IInv, TypeOK, CoQuiet
<1>3. co.run \in Runs BY DEF IInv, JournalInv
<1>4. JournalInv' BY <1>1, <1>3, QuietWaveStep DEF CoQuiet
<1> QED BY <1>2, <1>4 DEF IInv

\* ... when the wave was never sent
LEMMA UnsentWaveStep ==
    ASSUME IInv, ~At("idle"), CoQuiet, NEW w \in Waves, NEW rec, rec \in WaveRecs,
           wave' = [wave EXCEPT ![w] = rec],
           UNCHANGED <<job, prof, cache, claims, remote, used>>,
           remote[w].posts = 0, ~rec.batch,
           run' \in [Runs -> RunRecs], item' \in [Runs -> [Jobs -> ItemRecs]]
    PROVE  IInv'
<1>1. /\ job' \in [Jobs -> JobRecs] /\ cache' \subseteq [key : Keys, verdict : Verdicts]
      /\ used' \in [edits : Nat, faults : Nat, retries : Nat]
  BY DEF IInv, TypeOK
<1>2. ~(remote[w].posts > 0) OBVIOUS
<1> QED BY <1>1, <1>2, WaveStep

\* the same, staying with that wave
LEMMA HandWaveStep ==
    ASSUME IInv, ~At("idle"), NEW w \in Waves, Handling(w), NEW rec, rec \in WaveRecs,
           co' \in CoRecs, co'.todo = co.todo, co'.run = co.run,
           wave' = [wave EXCEPT ![w] = rec],
           UNCHANGED <<job, prof, cache, claims, remote, used>>,
           rec.state \in {"unused", "prepared"} => remote[w].posts = 0,
           rec.batch => remote[w].posts = 1,
           rec.state = "imported" /\ remote[w].posts > 0 => rec.consumed,
           run' \in [Runs -> RunRecs], item' \in [Runs -> [Jobs -> ItemRecs]],
           HandSound(w)'
    PROVE  IInv'
<1>1. wave' \in [Waves -> WaveRecs] /\ \A v \in Waves : WaveSound(v)'
  BY OneWaveStep DEF IInv
<1>2. TypeOK' BY <1>1 DEF IInv, TypeOK
<1>3. JournalInv' BY <1>1, HandStep DEF IInv
<1> QED BY <1>2, <1>3 DEF IInv

----------------------------------------------------------------------------
(* A pass of _advance.                                                     *)

\* the steps of a pass that write no wave
LEMMA PassStep ==
    ASSUME IInv, PassStops \/ PassWaves \/ FinishCancel \/ Finish \/ (\E p \in Phases : PrepareFrozen(p))
    PROVE  IInv'
<1>1. At("pass") /\ ~At("idle") /\ co.run \in Runs
  BY DEF PassStops, PassWaves, FinishCancel, Finish, PrepareFrozen, PassIdle, InPass, At, IInv, JournalInv
<1>2. /\ run \in [Runs -> RunRecs] /\ item \in [Runs -> [Jobs -> ItemRecs]]
      /\ used \in [edits : Nat, faults : Nat, retries : Nat]
  BY DEF IInv, TypeOK
<1>3. CASE PassStops
  <2>1. [run EXCEPT ![co.run].state = "blocked"] \in [Runs -> RunRecs]
    BY <1>1, RunWriteType, RunStatesAre DEF IInv
  <2>2. run' \in [Runs -> RunRecs] BY <1>2, <1>3, <2>1 DEF PassStops
  <2> QED BY <1>1, <1>2, <1>3, <2>2, ReturnedQuiet, RunOnlyStep DEF PassStops
<1>4. CASE PassWaves
  <2>1. co.passes - 1 \in 0..Passes
    BY <1>4, BatchAssumption DEF PassWaves, InPass, IInv, TypeOK, CoRecs, BatchAssumption
  <2>2. OpenWaves(co.run) \in SUBSET Waves BY DEF OpenWaves
  <2>3. run[co.run].cancel \in BOOLEAN BY <1>1, <1>2 DEF RunRecs
  <2>4. CoQuiet BY <1>4, <2>1, <2>2, <2>3 DEF PassWaves, IInv, TypeOK, CoRecs, CoQuiet, QuietPcs
  <2> QED BY <1>1, <1>2, <1>4, <2>4, RunOnlyStep DEF PassWaves
<1>5. CASE FinishCancel
  <2> DEFINE f == [j \in Jobs |-> IF item[co.run][j].state \in PendingItemStates
                                  THEN [item[co.run][j] EXCEPT !.state = "cancelled"]
                                  ELSE item[co.run][j]]
  <2>1. ASSUME NEW j \in Jobs
        PROVE  [item[co.run][j] EXCEPT !.state = "cancelled"] \in ItemRecs
    <3>1. item[co.run][j] \in ItemRecs /\ "cancelled" \in ItemStates
      BY <1>1, <1>2 DEF ItemStates
    <3> QED BY <3>1 DEF ItemRecs
  <2>2. f \in [Jobs -> ItemRecs] BY <1>1, <1>2, <2>1
  <2>3. item' = [item EXCEPT ![co.run] = f] BY <1>5 DEF FinishCancel
  <2>4. item' \in [Runs -> [Jobs -> ItemRecs]] BY <1>1, <2>2, <2>3, ItemStatesType DEF IInv
  <2>5. [run EXCEPT ![co.run].state = "cancelled"] \in [Runs -> RunRecs]
    BY <1>1, RunWriteType, RunStatesAre DEF IInv
  <2> QED BY <1>1, <1>2, <1>5, <2>4, <2>5, ReturnedQuiet, RunOnlyStep DEF FinishCancel
<1>6. CASE Finish
  <2>1. PICK s \in {"completed", "partial", "failed"} :
           run' = [run EXCEPT ![co.run].state = s, ![co.run].err = "none"]
    BY <1>6 DEF Finish
  <2>2. [run EXCEPT ![co.run].state = s, ![co.run].err = "none"] \in [Runs -> RunRecs]
    BY <1>1, RunWriteType, RunStatesAre DEF IInv
  <2> QED BY <1>1, <1>2, <1>6, <2>1, <2>2, ReturnedQuiet, RunOnlyStep DEF Finish
<1>7. CASE \E p \in Phases : PrepareFrozen(p)
  <2>1. RaiseFrozen(co.run) /\ UNCHANGED <<job, prof, cache, claims, item, wave, remote, used>>
    BY <1>7 DEF PrepareFrozen
  <2> QED BY <1>1, <1>2, <2>1, RaiseQuiet, RunOnlyStep
<1> QED BY <1>3, <1>4, <1>5, <1>6, <1>7
----------------------------------------------------------------------------
(* Journaling the next phase.                                              *)

\* _prepare_waves: results from the cache, and the journaled chunks
LEMMA PrepareStep ==
    ASSUME IInv, NEW p \in Phases, NEW left \in {cache, {}}, Prepare(p, left)
    PROVE  IInv'
<1> DEFINE r == co.run
           live == {j \in InPhase(r, p) : Current(r, j)}
           bad == {j \in live : <<p, j>> \in Unbuildable}
           hit(j) == {e \in left : e.key = RequestKey(r, p, j)}
           hits == {j \in live \ bad : hit(j) # {}}
           rest == live \ (bad \cup hits)
           out == [j \in InPhase(r, p) \ rest |->
                      IF j \in hits THEN (CHOOSE e \in hit(j) : TRUE).verdict ELSE "failed"]
           stale == InPhase(r, p) \ live
           reqs == {[key |-> k, items |-> {j \in rest : RequestKey(r, p, j) = k}] :
                        k \in {RequestKey(r, p, j) : j \in rest}}
<1>1. At("pass") /\ ~At("idle") /\ r \in Runs /\ co.passes > 0
  BY DEF Prepare, PassIdle, InPass, At, IInv, JournalInv
<1>2. /\ item \in [Runs -> [Jobs -> ItemRecs]] /\ wave \in [Waves -> WaveRecs]
      /\ co \in CoRecs
  BY DEF IInv, TypeOK
<1>3. left \subseteq [key : Keys, verdict : Verdicts] BY DEF IInv, TypeOK
<1>4. rest \subseteq Jobs BY DEF InPhase
<1>5. \A j \in Jobs : j \in DOMAIN out => out[j] \in Verdicts
  <2>1. ASSUME NEW j \in hits PROVE (CHOOSE e \in hit(j) : TRUE).verdict \in Verdicts
    <3>1. hit(j) # {} BY <2>1
    <3>2. (CHOOSE e \in hit(j) : TRUE) \in hit(j) BY <3>1
    <3>3. (CHOOSE e \in hit(j) : TRUE) \in [key : Keys, verdict : Verdicts] BY <1>3, <3>2
    <3> QED BY <3>3
  <2>2. "failed" \in Verdicts BY DEF Verdicts
  <2> HIDE DEF hits, hit, rest
  <2> QED BY <2>1, <2>2
<1>6. reqs \subseteq Requests
  <2>1. \A j \in rest : RequestKey(r, p, j) \in Keys BY <1>1, <1>4, RequestKeyType DEF IInv
  <2> HIDE DEF rest, r
  <2> QED BY <1>4, <2>1 DEF Requests
<1> HIDE DEF reqs, out, stale, live, r
<1>7. /\ job' = JobsAfter(r, p, out)
      /\ item' = [ItemsAfter(r, p, out) EXCEPT ![r] = [j \in Jobs |->
                    IF j \in stale THEN [item[r][j] EXCEPT !.state = "skipped"] ELSE @[j]]]
      /\ cache' = left
      /\ \E plan \in [reqs -> Unused] :
            wave' = [w \in Waves |->
                        IF \E q \in reqs : plan[q] = w
                        THEN NewWave(r, p, {q \in reqs : plan[q] = w}) ELSE wave[w]]
      /\ co' = [co EXCEPT !.passes = @ - 1]
      /\ UNCHANGED <<prof, claims, run, remote, used>>
  BY DEF Prepare, reqs, out, stale, live, r
<1>8. /\ ItemsAfter(r, p, out) \in [Runs -> [Jobs -> ItemRecs]]
      /\ job' \in [Jobs -> JobRecs]
  BY <1>1, <1>5, <1>7, AfterType DEF IInv
<1>9. item' \in [Runs -> [Jobs -> ItemRecs]]
  <2>1. ASSUME NEW j \in Jobs PROVE [item[r][j] EXCEPT !.state = "skipped"] \in ItemRecs
    <3>1. item[r][j] \in ItemRecs /\ "skipped" \in ItemStates BY <1>1, <1>2 DEF ItemStates
    <3> QED BY <3>1 DEF ItemRecs
  <2> QED BY <1>1, <1>7, <1>8, <2>1
<1>10. wave' \in [Waves -> WaveRecs] /\ \A v \in Waves : WaveSound(v)'
  <2>1. PICK plan \in [reqs -> Unused] :
           wave' = [w \in Waves |->
                       IF \E q \in reqs : plan[q] = w
                       THEN NewWave(r, p, {q \in reqs : plan[q] = w}) ELSE wave[w]]
    BY <1>7
  <2>2. \A v \in Waves : NewWave(r, p, {q \in reqs : plan[q] = v}) \in WaveRecs
    BY <1>1, <1>6, NewWaveType
  <2>3. wave' \in [Waves -> WaveRecs] BY <1>2, <2>1, <2>2
  <2>4. ASSUME NEW v \in Waves PROVE WaveSound(v)'
    <3>1. WaveSound(v) /\ remote'[v] = remote[v] BY <1>7 DEF IInv, JournalInv
    <3>2. CASE \E q \in reqs : plan[q] = v
      <4>1. wave[v].state = "unused" BY <3>2 DEF Unused
      <4>2. wave'[v] = NewWave(r, p, {q \in reqs : plan[q] = v}) BY <2>1, <3>2
      <4> QED BY <3>1, <4>1, <4>2 DEF WaveSound, NewWave
    <3>3. CASE ~ \E q \in reqs : plan[q] = v
      BY <2>1, <3>1, <3>3 DEF WaveSound
    <3> QED BY <3>2, <3>3
  <2> QED BY <2>3, <2>4
<1>11. co' \in CoRecs /\ co'.pc = "pass" /\ co'.run = r
  <2>1. co.passes - 1 \in 0..Passes
    BY <1>1, <1>2, BatchAssumption DEF CoRecs, BatchAssumption
  <2> QED BY <1>1, <1>2, <1>7, <2>1 DEF CoRecs, At, r
<1>12. TypeOK' BY <1>3, <1>7, <1>8, <1>9, <1>10, <1>11 DEF IInv, TypeOK
<1>13. JournalInv' BY <1>1, <1>10, <1>11, QuietWaveStep DEF QuietPcs
<1> QED BY <1>12, <1>13 DEF IInv
----------------------------------------------------------------------------
(* Submitting a wave.                                                      *)

\* _abandon_prepared
LEMMA AbandonStep ==
    ASSUME IInv, NEW w \in Waves, Abandon(w)
    PROVE  IInv'
<1>1. ~At("idle") /\ co.run \in Runs /\ CoQuiet
  BY InHand, ContinueQuiet DEF Abandon, At
<1> DEFINE rec == [wave[w] EXCEPT !.state = "imported"]
<1>2. wave[w] \in WaveRecs /\ remote[w].posts = 0 /\ ~wave[w].batch
  BY InHand DEF Abandon, WaveSound, WaveRecs
<1>3. rec \in WaveRecs /\ rec.state = "imported" /\ ~rec.batch
  BY <1>2 DEF WaveRecs, WaveStates
<1>4. wave' = [wave EXCEPT ![w] = rec] BY DEF Abandon
<1>5. UNCHANGED <<job, prof, cache, claims, run, item, remote, used>> BY DEF Abandon
<1> HIDE DEF rec
<1>6. run' \in [Runs -> RunRecs] /\ item' \in [Runs -> [Jobs -> ItemRecs]] BY <1>5, InHand
<1> QED BY <1>1, <1>2, <1>3, <1>4, <1>5, <1>6, UnsentWaveStep

\* what pruning leaves of a wave that was never sent
LEMMA PrunedSound ==
    ASSUME IInv, NEW w \in Waves, wave[w].state = "prepared"
    PROVE  /\ PrunedWave(w) \in WaveRecs
           /\ remote[w].posts = 0
           /\ ~PrunedWave(w).batch
           /\ Pruned(w) # {} => PrunedWave(w).state = "prepared"
<1>1. wave[w] \in WaveRecs /\ WaveSound(w) BY InHand
<1>2. remote[w].posts = 0 /\ ~wave[w].batch BY <1>1 DEF WaveSound, WaveRecs
<1>3. PrunedWave(w).batch = wave[w].batch BY <1>1 DEF PrunedWave, WaveRecs
<1>4. Pruned(w) # {} => PrunedWave(w).state = "prepared" BY <1>1 DEF PrunedWave, WaveRecs
<1> QED BY <1>2, <1>3, <1>4, PrunedType DEF IInv

\* the revalidation before the upload
LEMMA SubmitPruneStep ==
    ASSUME IInv, NEW w \in Waves, SubmitPrune(w)
    PROVE  IInv'
<1>1. ~At("idle") /\ co.run \in Runs /\ Handling(w)
  BY InHand DEF SubmitPrune, At
<1>2. /\ PrunedWave(w) \in WaveRecs /\ remote[w].posts = 0 /\ ~PrunedWave(w).batch
      /\ Pruned(w) # {} => PrunedWave(w).state = "prepared"
  BY PrunedSound DEF SubmitPrune
<1>3. item' \in [Runs -> [Jobs -> ItemRecs]]
  BY <1>1, SkipStaleType DEF SubmitPrune, IInv
<1>4. UNCHANGED <<job, prof, cache, claims, remote, used>> BY DEF SubmitPrune
<1>5. CASE /\ wave' = [wave EXCEPT ![w] = PrunedWave(w)]
           /\ Continue(w, FALSE) /\ UNCHANGED run
  <2>1. CoQuiet /\ run' \in [Runs -> RunRecs] BY <1>5, ContinueQuiet, InHand
  <2> QED BY <1>1, <1>2, <1>3, <1>4, <1>5, <2>1, UnsentWaveStep
<1>6. CASE wave' = [wave EXCEPT ![w] = PrunedWave(w)] /\ RaiseFrozen(co.run)
  <2>1. CoQuiet /\ run' \in [Runs -> RunRecs] BY <1>1, <1>6, RaiseQuiet
  <2> QED BY <1>1, <1>2, <1>3, <1>4, <1>6, <2>1, UnsentWaveStep
<1>7. CASE /\ wave' = [wave EXCEPT ![w] = [PrunedWave(w) EXCEPT !.state = "imported"]]
           /\ run' = [run EXCEPT ![co.run].cancel = TRUE]
           /\ Continue(w, FALSE)
  <2>1. [PrunedWave(w) EXCEPT !.state = "imported"] \in WaveRecs
        /\ ~[PrunedWave(w) EXCEPT !.state = "imported"].batch
    BY <1>2 DEF WaveRecs, WaveStates
  <2>2. run' \in [Runs -> RunRecs] BY <1>1, <1>7, RunWriteType DEF IInv
  <2>3. CoQuiet BY <1>7, ContinueQuiet
  <2>4. [PrunedWave(w) EXCEPT !.state = "imported"].state = "imported" BY <1>2 DEF WaveRecs
  <2> DEFINE rec == [PrunedWave(w) EXCEPT !.state = "imported"]
  <2>5. rec \in WaveRecs /\ ~rec.batch /\ rec.state = "imported" /\ wave' = [wave EXCEPT ![w] = rec]
    BY <1>7, <2>1, <2>4
  <2> HIDE DEF rec
  <2> QED BY <1>1, <1>2, <1>3, <1>4, <1>7, <2>2, <2>3, <2>5, UnsentWaveStep
<1>8. CASE /\ Pruned(w) # {} /\ wave' = [wave EXCEPT ![w] = PrunedWave(w)]
           /\ co' = [co EXCEPT !.pc = IF PrunedWave(w).file THEN "commit" ELSE "upload"]
           /\ UNCHANGED run
  <2>1. /\ co' \in CoRecs /\ co'.todo = co.todo /\ co'.run = co.run
        /\ co'.pc \in {"upload", "commit"}
    BY <1>8, InHand DEF CoRecs
  <2>2. wave'[w] = PrunedWave(w) BY <1>8 DEF IInv, TypeOK
  <2>3. HandSound(w)' BY <1>2, <1>8, <2>1, <2>2 DEF HandSound
  <2> QED BY <1>1, <1>2, <1>3, <1>4, <1>8, <2>1, <2>3, InHand, HandWaveStep
<1> QED BY <1>5, <1>6, <1>7, <1>8 DEF SubmitPrune
\* a prefilter wave that failed before it was sent, or was refused
LEMMA ScreeningFailedStep ==
    ASSUME IInv, NEW w \in Waves, ~At("idle"), CoQuiet, remote[w].posts = 0,
           ScreeningFailed(w), run' \in [Runs -> RunRecs],
           used' \in [edits : Nat, faults : Nat, retries : Nat],
           UNCHANGED <<prof, cache, claims, remote>>
    PROVE  IInv'
<1> DEFINE out == [j \in ItemsOf(w) |-> "failed"]
           rec == [wave[w] EXCEPT !.state = "imported", !.consumed = TRUE]
<1>1. co.run \in Runs /\ wave[w] \in WaveRecs /\ WaveSound(w) BY InHand
<1>2. \A j \in Jobs : j \in DOMAIN out => out[j] \in Verdicts BY DEF Verdicts
<1>3. "screening" \in Phases BY DEF Phases
<1>4. /\ ItemsAfter(co.run, "screening", out) \in [Runs -> [Jobs -> ItemRecs]]
      /\ JobsAfter(co.run, "screening", out) \in [Jobs -> JobRecs]
  BY <1>1, <1>2, <1>3, AfterType DEF IInv
<1>5. item' = ItemsAfter(co.run, "screening", out) /\ job' = JobsAfter(co.run, "screening", out)
  BY DEF ScreeningFailed
<1>6. rec \in WaveRecs /\ rec.state = "imported" /\ rec.batch = wave[w].batch
  BY <1>1 DEF WaveRecs, WaveStates
<1>7. wave' = [wave EXCEPT ![w] = rec] BY DEF ScreeningFailed
<1>8. ~rec.batch /\ ~(remote[w].posts > 0) BY <1>1, <1>6 DEF WaveSound, WaveRecs
<1>9. cache' \subseteq [key : Keys, verdict : Verdicts] BY DEF IInv, TypeOK
<1> HIDE DEF rec, out
<1> QED BY <1>4, <1>5, <1>6, <1>7, <1>8, <1>9, WaveStep

\* one more fault is counted
LEMMA FailingType ==
    ASSUME IInv, Failing
    PROVE  used' \in [edits : Nat, faults : Nat, retries : Nat]
BY DEF IInv, TypeOK, Failing

\* the upload, and its failures
LEMMA UploadStep ==
    ASSUME IInv, UploadOk \/ (\E w \in Waves : UploadFails(w))
    PROVE  IInv'
<1>1. CASE UploadOk
  <2>1. co' \in CoRecs /\ co'.pc = "commit" /\ co'.run = co.run /\ co'.todo = co.todo
        /\ co.pc = "upload"
    BY <1>1 DEF UploadOk, IInv, TypeOK, CoRecs, At
  <2>2. TypeOK' BY <1>1, <2>1 DEF UploadOk, IInv, TypeOK
  <2>3. JournalInv'
    BY <1>1, <2>1 DEF UploadOk, IInv, JournalInv, WaveSound, HandSound, Handling, At
  <2> QED BY <2>2, <2>3 DEF IInv
<1>2. ASSUME NEW w \in Waves, UploadFails(w) PROVE IInv'
  <2>1. ~At("idle") /\ co.run \in Runs /\ Handling(w) /\ co.pc = "upload"
    BY <1>2, InHand DEF UploadFails, At
  <2>2. used' \in [edits : Nat, faults : Nat, retries : Nat]
    BY <1>2, FailingType DEF UploadFails
  <2>3. /\ item \in [Runs -> [Jobs -> ItemRecs]] /\ run \in [Runs -> RunRecs]
        /\ UNCHANGED <<prof, cache, claims, remote>>
    BY <1>2, InHand DEF UploadFails
  <2>4. CASE ScreeningFailed(w) /\ Continue(w, FALSE) /\ UNCHANGED run
    <3>1. remote[w].posts = 0 BY <2>1, InHand DEF HandSound, WaveSound
    <3>2. CoQuiet BY <2>4, ContinueQuiet
    <3> QED BY <2>1, <2>2, <2>3, <2>4, <3>1, <3>2, ScreeningFailedStep
  <2>5. CASE /\ run' = [run EXCEPT ![co.run].state = "blocked", ![co.run].err = "other"]
             /\ co' = Returned /\ UNCHANGED <<job, item, wave>>
    <3>1. [run EXCEPT ![co.run].state = "blocked", ![co.run].err = "other"] \in [Runs -> RunRecs]
      BY <2>1, RunWriteType, RunStatesAre DEF IInv
    <3> QED BY <2>1, <2>2, <2>3, <2>5, <3>1, ReturnedQuiet, RunOnlyStep
  <2>6. CASE (\E text \in {"denied", "other"} : Raise(co.run, text)) /\ UNCHANGED <<job, item, wave>>
    BY <2>1, <2>2, <2>3, <2>6, RaiseQuiet, RunOnlyStep
  <2> QED BY <1>2, <2>4, <2>5, <2>6 DEF UploadFails
<1> QED BY <1>1, <1>2

\* the revalidation before the POST, and the durable mark
LEMMA CommitStep ==
    ASSUME IInv, NEW w \in Waves, Commit(w)
    PROVE  IInv'
<1>1. ~At("idle") /\ co.run \in Runs /\ Handling(w) /\ wave[w].state = "prepared"
  BY InHand DEF Commit, At, HandSound
<1>2. /\ PrunedWave(w) \in WaveRecs /\ remote[w].posts = 0 /\ ~PrunedWave(w).batch
      /\ wave[w] \in WaveRecs
  BY <1>1, PrunedSound, InHand
<1>3. ~wave[w].batch BY <1>2, InHand DEF WaveSound, WaveRecs
<1>4. item' \in [Runs -> [Jobs -> ItemRecs]]
  BY <1>1, SkipStaleType DEF Commit, IInv
<1>5. UNCHANGED <<job, prof, cache, claims, remote, used>> BY DEF Commit
<1>6. CASE /\ wave' = [wave EXCEPT ![w] = PrunedWave(w)]
           /\ Continue(w, FALSE) /\ UNCHANGED run
  <2>1. CoQuiet /\ run' \in [Runs -> RunRecs] BY <1>6, ContinueQuiet, InHand
  <2> QED BY <1>1, <1>2, <1>4, <1>5, <1>6, <2>1, UnsentWaveStep
<1>7. CASE /\ wave' = [wave EXCEPT ![w].state = "imported"]
           /\ run' = [run EXCEPT ![co.run].cancel = TRUE]
           /\ Continue(w, FALSE)
  <2> DEFINE rec == [wave[w] EXCEPT !.state = "imported"]
  <2>1. rec \in WaveRecs /\ ~rec.batch /\ wave' = [wave EXCEPT ![w] = rec]
    BY <1>2, <1>3, <1>7 DEF WaveRecs, WaveStates
  <2>2. run' \in [Runs -> RunRecs] BY <1>1, <1>7, RunWriteType DEF IInv
  <2>3. CoQuiet BY <1>7, ContinueQuiet
  <2> HIDE DEF rec
  <2> QED BY <1>1, <1>2, <1>4, <1>5, <2>1, <2>2, <2>3, UnsentWaveStep
<1>8. CASE /\ wave' = [wave EXCEPT ![w].state = "submitting", ![w].file = TRUE]
           /\ co' = [co EXCEPT !.pc = "post"]
           /\ UNCHANGED run
  <2> DEFINE rec == [wave[w] EXCEPT !.state = "submitting", !.file = TRUE]
  <2>1. rec \in WaveRecs /\ ~rec.batch /\ rec.state = "submitting" /\ wave' = [wave EXCEPT ![w] = rec]
    BY <1>2, <1>3, <1>8 DEF WaveRecs, WaveStates
  <2>2. co' \in CoRecs /\ co'.todo = co.todo /\ co'.run = co.run /\ co'.pc = "post"
    BY <1>8, InHand DEF CoRecs
  <2>3. wave'[w] = rec BY <2>1 DEF IInv, TypeOK
  <2>4. HandSound(w)' BY <1>2, <1>5, <2>1, <2>2, <2>3 DEF HandSound
  <2>5. run' \in [Runs -> RunRecs] BY <1>8, InHand
  <2> HIDE DEF rec
  <2> QED BY <1>1, <1>2, <1>4, <1>5, <2>1, <2>2, <2>4, <2>5, HandWaveStep
<1> QED BY <1>6, <1>7, <1>8 DEF Commit

\* the POST and its three answers
LEMMA PostStep ==
    ASSUME IInv, NEW w \in Waves, NEW answer \in {"posted", "unsure", "rejected"}, Post(w, answer)
    PROVE  IInv'
<1>1. ~At("idle") /\ co.run \in Runs /\ Handling(w) /\ co.pc = "post"
  BY InHand DEF Post, At
<1>2. /\ wave[w].state = "submitting" /\ remote[w].posts = 0 /\ WaveSound(w)
      /\ wave[w] \in WaveRecs /\ remote[w] \in RemoteRecs
  BY <1>1, InHand DEF HandSound
<1>3. co' \in CoRecs /\ co'.pc = answer /\ co'.todo = co.todo /\ co'.run = co.run
  BY InHand DEF Post, CoRecs
<1>4. UNCHANGED <<job, prof, cache, claims, run, item, wave, used>> BY DEF Post
<1>5. /\ remote' = remote \/ remote' = Accepted(w)
      /\ answer = "posted" => remote' = Accepted(w)
      /\ answer = "rejected" => remote' = remote
  BY DEF Post
<1>6. Accepted(w) = [remote EXCEPT ![w] = [posts |-> 1, status |-> "running"]]
  BY <1>2 DEF Accepted, RemoteRecs
<1>7. remote' \in [Waves -> RemoteRecs]
  BY <1>5, <1>6 DEF IInv, TypeOK, RemoteRecs, RemoteStates
<1>8. ASSUME NEW v \in Waves PROVE WaveSound(v)'
  <2>1. CASE remote' = remote BY <1>4, <2>1 DEF IInv, JournalInv, WaveSound
  <2>2. CASE remote' = Accepted(w) /\ v = w
    <3>1. remote'[v] = [posts |-> 1, status |-> "running"] BY <1>6, <2>2 DEF IInv, TypeOK
    <3> QED BY <1>2, <1>4, <2>2, <3>1 DEF WaveSound
  <2>3. CASE remote' = Accepted(w) /\ v # w
    BY <1>4, <1>6, <2>3 DEF IInv, TypeOK, JournalInv, WaveSound
  <2> QED BY <1>5, <2>1, <2>2, <2>3
<1>9. HandSound(w)'
  <2>1. CASE answer = "posted"
    <3>1. remote'[w].posts = 1 BY <1>5, <1>6, <2>1 DEF IInv, TypeOK
    <3> QED BY <1>3, <2>1, <3>1 DEF HandSound
  <2>2. CASE answer = "rejected" BY <1>2, <1>3, <1>4, <1>5, <2>2 DEF HandSound
  <2>3. CASE answer = "unsure" BY <1>3, <2>3 DEF HandSound
  <2> QED BY <2>1, <2>2, <2>3
<1>10. TypeOK' BY <1>3, <1>4, <1>7 DEF IInv, TypeOK
<1>11. JournalInv' BY <1>1, <1>3, <1>8, <1>9, HandStep DEF IInv
<1> QED BY <1>10, <1>11 DEF IInv
----------------------------------------------------------------------------
(* After the POST, and following a submitted wave.                         *)

\* a saved snapshot of a batch the provider accepted
LEMMA SnapshotType ==
    ASSUME IInv, NEW w \in Waves, NEW status \in {"running", "cancelling", "ended"},
           SaveSnapshot(w, status), co.run \in Runs
    PROVE  /\ run' \in [Runs -> RunRecs]
           /\ \E rec \in WaveRecs :
                 /\ wave' = [wave EXCEPT ![w] = rec]
                 /\ rec.batch /\ rec.state = status
<1>1. [run EXCEPT ![co.run].state = "active", ![co.run].err = "none"] \in [Runs -> RunRecs]
  BY RunWriteType, RunStatesAre DEF IInv
<1> DEFINE rec == [wave[w] EXCEPT !.batch = TRUE, !.state = status]
<1>2. rec \in WaveRecs /\ rec.batch /\ rec.state = status
  BY InHand DEF WaveRecs, WaveStates
<1>3. wave' = [wave EXCEPT ![w] = rec] BY DEF SaveSnapshot
<1> QED BY <1>1, <1>2, <1>3 DEF SaveSnapshot

\* the saved id of an accepted batch
LEMMA CreatedStep ==
    ASSUME IInv, NEW w \in Waves, Created(w)
    PROVE  IInv'
<1>1. /\ ~At("idle") /\ co.run \in Runs /\ remote[w].posts = 1
      /\ UNCHANGED <<job, prof, cache, claims, item, remote, used>>
  BY InHand DEF Created, At, HandSound
<1>2. PICK rec \in WaveRecs : /\ wave' = [wave EXCEPT ![w] = rec]
                              /\ rec.batch /\ rec.state = "running"
  BY <1>1, SnapshotType DEF Created
<1>3. run' \in [Runs -> RunRecs] BY <1>1, SnapshotType DEF Created
<1>4. CoQuiet BY InHand DEF Created, CoRecs, CoQuiet, QuietPcs
<1>5. /\ job' \in [Jobs -> JobRecs] /\ cache' \subseteq [key : Keys, verdict : Verdicts]
      /\ item' \in [Runs -> [Jobs -> ItemRecs]]
      /\ used' \in [edits : Nat, faults : Nat, retries : Nat]
  BY <1>1 DEF IInv, TypeOK
<1> QED BY <1>1, <1>2, <1>3, <1>4, <1>5, WaveStep

\* a refused batch
LEMMA RejectedStep ==
    ASSUME IInv, NEW w \in Waves, CreateRejected(w)
    PROVE  IInv'
<1>1. /\ ~At("idle") /\ co.run \in Runs /\ remote[w].posts = 0 /\ CoQuiet
      /\ UNCHANGED <<prof, cache, claims, run, remote, used>>
  BY InHand, ContinueQuiet DEF CreateRejected, At, HandSound
<1>2. /\ run' \in [Runs -> RunRecs] /\ used' \in [edits : Nat, faults : Nat, retries : Nat]
      /\ item \in [Runs -> [Jobs -> ItemRecs]] /\ wave[w] \in WaveRecs /\ ~wave[w].batch
  BY <1>1, InHand DEF IInv, TypeOK, WaveSound, WaveRecs
<1>3. CASE ScreeningFailed(w) BY <1>1, <1>2, <1>3, ScreeningFailedStep
<1>4. CASE /\ wave[w].phase # "screening"
           /\ item' = [item EXCEPT ![co.run] = [j \in Jobs |->
                 IF j \in ItemsOf(w) THEN [item[co.run][j] EXCEPT !.state = FailedOf[wave[w].phase]]
                 ELSE item[co.run][j]]]
           /\ wave' = [wave EXCEPT ![w].state = "imported"]
           /\ UNCHANGED job
  <2>1. FailedOf[wave[w].phase] \in ItemStates
    BY <1>2, <1>4 DEF WaveRecs, Phases, FailedOf, ItemStates
  <2>2. ASSUME NEW j \in Jobs
        PROVE  [item[co.run][j] EXCEPT !.state = FailedOf[wave[w].phase]] \in ItemRecs
    <3>1. item[co.run][j] \in ItemRecs BY <1>1, <1>2
    <3> QED BY <2>1, <3>1 DEF ItemRecs
  <2>3. item' \in [Runs -> [Jobs -> ItemRecs]] BY <1>1, <1>2, <1>4, <2>2
  <2> DEFINE rec == [wave[w] EXCEPT !.state = "imported"]
  <2>4. rec \in WaveRecs /\ ~rec.batch /\ wave' = [wave EXCEPT ![w] = rec]
    BY <1>2, <1>4 DEF WaveRecs, WaveStates
  <2> HIDE DEF rec
  <2> QED BY <1>1, <1>2, <1>4, <2>3, <2>4, UnsentWaveStep
<1> QED BY <1>3, <1>4 DEF CreateRejected

\* the steps that ask for attention or block the run
LEMMA AttentionStep ==
    ASSUME IInv, NEW w \in Waves,
           CreateUnsure(w) \/ RefreshMissing(w) \/ RefreshFrozen(w) \/ CancelRefused(w)
    PROVE  IInv'
<1>1. /\ ~At("idle") /\ co.run \in Runs
      /\ UNCHANGED <<job, prof, cache, claims, item, wave, remote, used>>
  BY InHand DEF CreateUnsure, RefreshMissing, RefreshFrozen, CancelRefused, Refreshing, At
<1>2. item' \in [Runs -> [Jobs -> ItemRecs]] /\ used' \in [edits : Nat, faults : Nat, retries : Nat]
  BY <1>1 DEF IInv, TypeOK
<1>3. [run EXCEPT ![co.run].state = "attention", ![co.run].err = "other"] \in [Runs -> RunRecs]
  BY <1>1, RunWriteType, RunStatesAre DEF IInv
<1>4. CoQuiet /\ run' \in [Runs -> RunRecs]
  <2>1. CASE CreateUnsure(w) BY <1>3, <2>1, ReturnedQuiet DEF CreateUnsure
  <2>2. CASE RefreshMissing(w) BY <1>3, <2>2, ContinueQuiet DEF RefreshMissing
  <2>3. CASE RefreshFrozen(w) BY <1>1, <2>3, RaiseQuiet DEF RefreshFrozen
  <2>4. CASE CancelRefused(w)
    <3>1. Raise(co.run, "other") BY <2>4 DEF CancelRefused
    <3> QED BY <1>1, <3>1, RaiseQuiet
  <2> QED BY <2>1, <2>2, <2>3, <2>4
<1> QED BY <1>1, <1>2, <1>4, RunOnlyStep

\* a snapshot of the wave in hand, with the batch either known or recovered
LEMMA RefreshFoundStep ==
    ASSUME IInv, NEW w \in Waves, RefreshFound(w)
    PROVE  IInv'
<1>1. /\ ~At("idle") /\ co.run \in Runs /\ Handling(w) /\ remote[w].posts = 1
      /\ UNCHANGED <<job, prof, cache, claims, item, remote, used>>
  BY InHand DEF RefreshFound, Refreshing, At, WaveSound, Recovered
<1>2. remote[w].status \in {"running", "cancelling", "ended"}
  BY <1>1, InHand DEF WaveSound, RemoteRecs, RemoteStates
<1>3. SaveSnapshot(w, remote[w].status) BY DEF RefreshFound
<1>4. PICK rec \in WaveRecs : /\ wave' = [wave EXCEPT ![w] = rec]
                              /\ rec.batch /\ rec.state = remote[w].status
  BY <1>1, <1>2, <1>3, SnapshotType
<1>5. run' \in [Runs -> RunRecs] BY <1>1, <1>2, <1>3, SnapshotType
<1>6. /\ job' \in [Jobs -> JobRecs] /\ cache' \subseteq [key : Keys, verdict : Verdicts]
      /\ item' \in [Runs -> [Jobs -> ItemRecs]] /\ co \in CoRecs
      /\ used' \in [edits : Nat, faults : Nat, retries : Nat]
  BY <1>1 DEF IInv, TypeOK
<1>7. CASE Continue(w, TRUE)
  <2>1. CoQuiet BY <1>7, ContinueQuiet
  <2> QED BY <1>1, <1>2, <1>4, <1>5, <1>6, <2>1, WaveStep
<1>8. CASE co' = [co EXCEPT !.pc = "import"] \/ co' = [co EXCEPT !.pc = "cancelcall"]
  <2>1. /\ co' \in CoRecs /\ co'.todo = co.todo /\ co'.run = co.run
        /\ co'.pc \in {"import", "cancelcall"}
    BY <1>6, <1>8 DEF CoRecs
  <2>2. HandSound(w)' BY <1>1, <2>1 DEF HandSound
  <2> QED BY <1>1, <1>2, <1>4, <1>5, <1>6, <2>1, <2>2, HandWaveStep
<1> QED BY <1>7, <1>8 DEF RefreshFound

\* the cancellation at the provider
LEMMA CancelCallStep ==
    ASSUME IInv, NEW w \in Waves, CancelCall(w)
    PROVE  IInv'
<1> DEFINE status == IF remote[w].status = "ended" THEN "ended" ELSE "cancelling"
<1>1. /\ ~At("idle") /\ co.run \in Runs /\ Handling(w) /\ remote[w].posts = 1
      /\ UNCHANGED <<job, prof, cache, claims, item, used>> /\ co \in CoRecs
      /\ remote[w] \in RemoteRecs
  BY InHand DEF CancelCall, At, HandSound
<1>2. /\ remote' = [remote EXCEPT ![w].status = status] /\ SaveSnapshot(w, status)
      /\ \/ status = "ended" /\ co' = [co EXCEPT !.pc = "import"]
         \/ status = "cancelling" /\ Continue(w, TRUE)
  BY DEF CancelCall
<1>3. status \in {"running", "cancelling", "ended"} OBVIOUS
<1> HIDE DEF status
<1>4. PICK rec \in WaveRecs : /\ wave' = [wave EXCEPT ![w] = rec]
                              /\ rec.batch /\ rec.state = status
  BY <1>1, <1>2, <1>3, SnapshotType
<1>5. run' \in [Runs -> RunRecs] BY <1>1, <1>2, <1>3, SnapshotType
<1>6. remote'[w].posts = 1 /\ remote'[w].status = status /\ remote' \in [Waves -> RemoteRecs]
  BY <1>1, <1>2, <1>3 DEF IInv, TypeOK, RemoteRecs, RemoteStates
<1>7. wave' \in [Waves -> WaveRecs] /\ wave'[w] = rec BY <1>4 DEF IInv, TypeOK
<1>8. ASSUME NEW v \in Waves PROVE WaveSound(v)'
  <2>1. CASE v = w BY <1>3, <1>4, <1>6, <1>7, <2>1 DEF WaveSound
  <2>2. CASE v # w
    <3>1. remote'[v] = remote[v] /\ wave'[v] = wave[v] BY <1>2, <1>4, <2>2 DEF IInv, TypeOK
    <3> QED BY <3>1 DEF IInv, JournalInv, WaveSound
  <2> QED BY <2>1, <2>2
<1>9. CASE Continue(w, TRUE)
  <2>1. CoQuiet BY <1>9, ContinueQuiet
  <2>2. TypeOK' BY <1>1, <1>5, <1>6, <1>7, <2>1 DEF IInv, TypeOK, CoQuiet
  <2>3. JournalInv' BY <1>1, <1>8, <2>1, QuietWaveStep DEF CoQuiet
  <2> QED BY <2>2, <2>3 DEF IInv
<1>10. CASE co' = [co EXCEPT !.pc = "import"]
  <2>1. /\ co' \in CoRecs /\ co'.todo = co.todo /\ co'.run = co.run /\ co'.pc = "import"
    BY <1>1, <1>10 DEF CoRecs
  <2>2. HandSound(w)' BY <1>6, <2>1 DEF HandSound
  <2>3. TypeOK' BY <1>1, <1>5, <1>6, <1>7, <2>1 DEF IInv, TypeOK
  <2>4. JournalInv' BY <1>1, <1>8, <2>1, <2>2, HandStep DEF IInv
  <2> QED BY <2>3, <2>4 DEF IInv
<1> QED BY <1>2, <1>9, <1>10

\* import_result
LEMMA ImportStep ==
    ASSUME IInv, NEW w \in Waves, ImportWave(w)
    PROVE  IInv'
<1>1. /\ ~At("idle") /\ co.run \in Runs /\ CoQuiet /\ wave[w] \in WaveRecs
      /\ UNCHANGED <<prof, claims, run, remote, used>> /\ remote[w].posts = 1
  BY InHand, ContinueQuiet DEF ImportWave, At, HandSound
<1>2. PICK res \in [wave[w].reqs -> OutcomesOf[wave[w].phase]] : Import(w, res)
  BY DEF ImportWave
<1> DEFINE p == wave[w].phase
           out == [j \in ItemsOf(w) |-> res[CHOOSE q \in wave[w].reqs : j \in q.items]]
           fresh == {[key |-> q.key, verdict |-> res[q]] : q \in {s \in wave[w].reqs : res[s] # "failed"}}
           rec == [wave[w] EXCEPT !.state = "imported", !.consumed = TRUE]
<1>3. p \in Phases /\ wave[w].reqs \subseteq Requests BY <1>1 DEF WaveRecs
<1>4. \A q \in wave[w].reqs : res[q] \in Verdicts
  BY <1>2, <1>3 DEF OutcomesOf, Verdicts, Phases
<1>5. ASSUME NEW j \in ItemsOf(w) PROVE out[j] \in Verdicts
  <2>1. \E q \in wave[w].reqs : j \in q.items BY ItemsOfType DEF IInv
  <2>2. (CHOOSE q \in wave[w].reqs : j \in q.items) \in wave[w].reqs BY <2>1
  <2> QED BY <1>4, <2>2
<1>6. fresh \subseteq [key : Keys, verdict : Verdicts] BY <1>3, <1>4 DEF Requests
<1>7. rec \in WaveRecs /\ rec.consumed /\ rec.state = "imported" /\ rec.batch = wave[w].batch
  BY <1>1 DEF WaveRecs, WaveStates
<1>8. /\ item' = ItemsAfter(co.run, p, out) /\ job' = JobsAfter(co.run, p, out)
      /\ cache' = {e \in cache : \A f \in fresh : f.key # e.key} \cup fresh
      /\ wave' = [wave EXCEPT ![w] = rec]
  BY <1>2 DEF Import
<1>9. item' \in [Runs -> [Jobs -> ItemRecs]] /\ job' \in [Jobs -> JobRecs]
  <2>1. \A j \in Jobs : j \in DOMAIN out => out[j] \in Verdicts BY <1>5
  <2> HIDE DEF out, p
  <2> QED BY <1>1, <1>3, <1>8, <2>1, AfterType DEF IInv
<1>10. cache' \subseteq [key : Keys, verdict : Verdicts]
  BY <1>6, <1>8 DEF IInv, TypeOK
<1>11. /\ run' \in [Runs -> RunRecs] /\ used' \in [edits : Nat, faults : Nat, retries : Nat]
  BY <1>1 DEF IInv, TypeOK
<1> HIDE DEF rec, out, p, fresh
<1> QED BY <1>1, <1>7, <1>8, <1>9, <1>10, <1>11, WaveStep
----------------------------------------------------------------------------
(* The environment.                                                        *)

\* a failed provider call and a crash
LEMMA FaultStep ==
    ASSUME IInv, FollowFails \/ Crash
    PROVE  IInv'
<1>1. used' \in [edits : Nat, faults : Nat, retries : Nat]
  BY FailingType DEF FollowFails, Crash
<1>2. ~At("idle") BY DEF FollowFails, Crash, Refreshing, At
<1>3. co.run \in Runs BY <1>2 DEF IInv, JournalInv
<1>4. UNCHANGED <<job, prof, cache, claims, item, wave, remote>> BY DEF FollowFails, Crash
<1>5. item' \in [Runs -> [Jobs -> ItemRecs]] /\ run \in [Runs -> RunRecs]
  BY <1>4 DEF IInv, TypeOK
<1>6. CASE FollowFails
  <2>1. Raise(co.run, "other") BY <1>6 DEF FollowFails
  <2>2. CoQuiet /\ run' \in [Runs -> RunRecs] BY <1>3, <2>1, RaiseQuiet
  <2> QED BY <1>1, <1>2, <1>4, <1>5, <2>2, RunOnlyStep
<1>7. CASE Crash
  <2>1. CoQuiet BY <1>7, IdleCoType DEF Crash, IdleCo, CoQuiet, QuietPcs
  <2>2. run' \in [Runs -> RunRecs] BY <1>5, <1>7 DEF Crash
  <2> QED BY <1>1, <1>2, <1>4, <1>5, <2>1, <2>2, RunOnlyStep
<1> QED BY <1>6, <1>7

\* the provider ends a batch
LEMMA BatchEndsStep ==
    ASSUME IInv, NEW w \in Waves, BatchEnds(w)
    PROVE  IInv'
<1>1. /\ remote[w] \in RemoteRecs /\ WaveSound(w)
      /\ remote' = [remote EXCEPT ![w].status = "ended"]
      /\ UNCHANGED <<job, prof, cache, claims, run, item, wave, co, used>>
  BY InHand DEF BatchEnds
<1>2. remote[w].posts # 0 BY <1>1 DEF BatchEnds, WaveSound
<1>3. remote' \in [Waves -> RemoteRecs] BY <1>1 DEF IInv, TypeOK, RemoteRecs, RemoteStates
<1>4. \A v \in Waves : remote'[v].posts = remote[v].posts
  BY <1>1 DEF IInv, TypeOK, RemoteRecs
<1>5. ASSUME NEW v \in Waves PROVE WaveSound(v)'
  <2>1. remote'[v].status = "absent" <=> remote[v].status = "absent"
    BY <1>1, <1>2 DEF IInv, TypeOK, RemoteRecs, WaveSound
  <2> QED BY <1>1, <1>4, <2>1 DEF IInv, JournalInv, WaveSound
<1>6. TypeOK' BY <1>1, <1>3 DEF IInv, TypeOK
<1>7. JournalInv' BY <1>1, <1>4, <1>5 DEF IInv, JournalInv, HandSound, Handling, At
<1> QED BY <1>6, <1>7 DEF IInv

\* edits of offers and of the profile
LEMMA EditStep ==
    ASSUME IInv, \/ ChangeProfile
                 \/ \E j \in Jobs : EditJob(j) \/ ArchiveJob(j) \/ RescueJob(j)
    PROVE  IInv'
<1> DEFINE Edits == [edits : Nat, faults : Nat, retries : Nat]
<1>1. used' \in Edits /\ UNCHANGED <<cache, claims, run, item, wave, remote, co>>
  <2>1. used' = [used EXCEPT !.edits = @ + 1]
    BY DEF Editing, ChangeProfile, EditJob, ArchiveJob, RescueJob
  <2>2. used \in Edits BY DEF IInv, TypeOK
  <2>3. used' \in Edits BY <2>1, <2>2
  <2>4. UNCHANGED <<cache, claims, run, item, wave, remote, co>>
    BY DEF ChangeProfile, EditJob, ArchiveJob, RescueJob
  <2> QED BY <2>3, <2>4
<1>2. prof' \in Nat
  <2>1. prof' = prof \/ prof' = prof + 1 BY DEF ChangeProfile, EditJob, ArchiveJob, RescueJob
  <2>2. prof \in Nat BY DEF IInv, TypeOK
  <2> QED BY <2>1, <2>2
<1>3. job' \in [Jobs -> JobRecs]
  <2>1. CASE ChangeProfile BY <2>1 DEF ChangeProfile, IInv, TypeOK
  <2>2. ASSUME NEW j \in Jobs, EditJob(j) \/ ArchiveJob(j) \/ RescueJob(j)
        PROVE  job' \in [Jobs -> JobRecs]
    <3>1. job \in [Jobs -> JobRecs] /\ job[j] \in JobRecs BY DEF IInv, TypeOK
    <3>2. job[j].ver + 1 \in Nat /\ job[j].body + 1 \in Nat BY <3>1 DEF JobRecs
    <3>3. CASE EditJob(j)
      <4>1. [job[j] EXCEPT !.ver = @ + 1, !.body = @ + 1] \in JobRecs BY <3>1, <3>2 DEF JobRecs
      <4> QED BY <3>1, <3>3, <4>1 DEF EditJob
    <3>4. CASE ArchiveJob(j)
      <4>1. [job[j] EXCEPT !.state = "archived", !.ver = @ + 1] \in JobRecs BY <3>1, <3>2 DEF JobRecs
      <4> QED BY <3>1, <3>4, <4>1 DEF ArchiveJob
    <3>5. CASE RescueJob(j)
      <4>1. [job[j] EXCEPT !.state = "open", !.kept = TRUE, !.ver = @ + 1] \in JobRecs
        BY <3>1, <3>2 DEF JobRecs
      <4> QED BY <3>1, <3>5, <4>1 DEF RescueJob
    <3> QED BY <2>2, <3>3, <3>4, <3>5
  <2> QED BY <2>1, <2>2
<1>4. TypeOK' BY <1>1, <1>2, <1>3 DEF IInv, TypeOK
<1>5. JournalInv' BY <1>1 DEF IInv, JournalInv, WaveSound, HandSound, Handling, At
<1> QED BY <1>4, <1>5 DEF IInv
----------------------------------------------------------------------------
(* The theorems.                                                           *)

\* the first invariant holds initially ...
LEMMA InitIInv == Init => IInv
<1> SUFFICES ASSUME Init PROVE IInv OBVIOUS
<1>1. IdleCo \in CoRecs /\ IdleCo.pc = "idle" BY IdleCoType DEF IdleCo
<1>2. job \in [Jobs -> JobRecs] BY DEF Init, JobRecs, Verdicts
<1>3. run \in [Runs -> RunRecs]
  BY DEF Init, RunRecs, RunStates
<1>4. item \in [Runs -> [Jobs -> ItemRecs]]
  <2>1. [state |-> "none", snap |-> 0, offer |-> FALSE] \in ItemRecs BY DEF ItemRecs, ItemStates
  <2> QED BY <2>1 DEF Init
<1>5. wave \in [Waves -> WaveRecs]
  BY DEF Init, WaveRecs, WaveStates, Phases
<1>6. remote \in [Waves -> RemoteRecs] BY DEF Init, RemoteRecs, RemoteStates
<1>7. TypeOK BY <1>1, <1>2, <1>3, <1>4, <1>5, <1>6 DEF Init, TypeOK
<1>8. JournalInv BY <1>1 DEF Init, JournalInv, WaveSound, HandSound, At
<1> QED BY <1>7, <1>8 DEF IInv

\* ... and is kept by every step
LEMMA NextIInv == IInv /\ [Next]_vars => IInv'
<1> SUFFICES ASSUME IInv, [Next]_vars PROVE IInv' OBVIOUS
<1>1. CASE UNCHANGED vars
  BY <1>1 DEF vars, IInv, TypeOK, JournalInv, WaveSound, HandSound, Handling, At
<1>2. CASE Work
  <2>1. CASE StartRefused \/ StartAdvance \/ StartFollowUp BY <2>1, StartControlStep
  <2>2. CASE StartCreate BY <2>2, StartCreateStep
  <2>3. CASE PassStops \/ PassWaves \/ FinishCancel \/ Finish \/ (\E p \in Phases : PrepareFrozen(p))
    BY <2>3, PassStep
  <2>4. CASE \E p \in Phases, left \in IF CacheExpires THEN {cache, {}} ELSE {cache} : Prepare(p, left)
    BY <2>4, PrepareStep
  <2>5. ASSUME NEW w \in Waves,
               \/ Abandon(w) \/ SubmitPrune(w) \/ Commit(w)
               \/ \E answer \in {"posted", "unsure", "rejected"} : Post(w, answer)
               \/ Created(w) \/ CreateRejected(w) \/ CreateUnsure(w)
               \/ RefreshFrozen(w) \/ RefreshFound(w) \/ RefreshMissing(w)
               \/ CancelCall(w) \/ CancelRefused(w) \/ ImportWave(w)
        PROVE  IInv'
    BY <2>5, AbandonStep, SubmitPruneStep, CommitStep, PostStep, CreatedStep, RejectedStep,
       AttentionStep, RefreshFoundStep, CancelCallStep, ImportStep
  <2>6. CASE UploadOk BY <2>6, UploadStep
  <2> QED BY <1>2, <2>1, <2>2, <2>3, <2>4, <2>5, <2>6 DEF Work
<1>3. CASE Environment
  <2>1. ASSUME NEW r \in Runs, Retry(r) \/ Cancel(r) \/ BreakConfiguration(r) PROVE IInv'
    BY <2>1, RetryStep, FollowStep
  <2>2. ASSUME NEW r \in Runs, NEW S \in SUBSET Jobs, StartRead(r, S) PROVE IInv'
    BY <2>2, StartReadStep
  <2>3. CASE RequestStop BY <2>3, StartControlStep
  <2>4. CASE FollowFails BY <2>4, FaultStep
  <2>5. CASE \E w \in Waves : UploadFails(w) BY <2>5, UploadStep
  <2>6. CASE ChangeProfile \/ \E j \in Jobs : EditJob(j) \/ ArchiveJob(j) \/ RescueJob(j)
    BY <2>6, EditStep
  <2> QED BY <1>3, <2>1, <2>2, <2>3, <2>4, <2>5, <2>6 DEF Environment
<1>4. ASSUME NEW r \in Runs, Sync(r) PROVE IInv' BY <1>4, FollowStep
<1>5. ASSUME NEW w \in Waves, BatchEnds(w) PROVE IInv' BY <1>5, BatchEndsStep
<1>6. CASE Crash BY <1>6, FaultStep
<1> QED BY <1>1, <1>2, <1>3, <1>4, <1>5, <1>6 DEF Next, Steps

\* Every state of a run of the coordinator is well typed, and the journal agrees
\* with what the provider accepted (_submit, _refresh_wave), for any number of
\* offers, runs, waves, crashes and lost answers.
THEOREM JournalAgrees == Spec => [](TypeOK /\ JournalInv)
<1>1. Init => IInv BY InitIInv
<1>2. IInv /\ [Next]_vars => IInv' BY NextIInv
<1> QED BY <1>1, <1>2, PTL DEF Spec, IInv

\* No wave is ever accepted twice by the provider: the durable "submitting" mark
\* of _submit and the search by wave id of _refresh_wave are enough.
THEOREM SubmittedOnce == Spec => []SubmitOnce
<1>1. IInv => SubmitOnce BY DEF IInv, JournalInv, WaveSound, SubmitOnce
<1>2. Init => IInv BY InitIInv
<1>3. IInv /\ [Next]_vars => IInv' BY NextIInv
<1> QED BY <1>1, <1>2, <1>3, PTL DEF Spec

\* A wave the provider accepted leaves the journal's follow-up only through
\* import_result, which consumes its paid answers.
THEOREM PaidResultsAreConsumed == Spec => []PaidResultsConsumed
<1>1. IInv => PaidResultsConsumed BY DEF IInv, JournalInv, WaveSound, PaidResultsConsumed
<1>2. Init => IInv BY InitIInv
<1>3. IInv /\ [Next]_vars => IInv' BY NextIInv
<1> QED BY <1>1, <1>2, <1>3, PTL DEF Spec
----------------------------------------------------------------------------
(* A second invariant, on top of the first: reservations and Stop.         *)

RInv == IInv /\ FollowInv

\* runs that reserve their offers go on reserving them
RunsKept == \A r \in Runs : run[r].state \in ActiveRunStates => run'[r].state \in ActiveRunStates

\* the writes of a run that leave it active
LEMMA KeptByWrite ==
    ASSUME IInv, NEW r \in Runs,
           \/ run' = run
           \/ \E c \in BOOLEAN : run' = [run EXCEPT ![r].cancel = c]
           \/ \E e \in {"none", "denied", "other"} : run' = [run EXCEPT ![r].err = e]
           \/ \E s \in ActiveRunStates, e \in {"none", "denied", "other"} :
                 run' = [run EXCEPT ![r].state = s, ![r].err = e]
           \/ \E s \in ActiveRunStates : run' = [run EXCEPT ![r].state = s]
    PROVE  RunsKept
<1>1. run \in [Runs -> RunRecs] BY DEF IInv, TypeOK
<1>2. \A q \in Runs : q # r => run'[q] = run[q] BY <1>1
<1>3. run[r].state \in ActiveRunStates => run'[r].state \in ActiveRunStates
  <2>1. run[r] \in RunRecs BY <1>1
  <2>2. ASSUME NEW c \in BOOLEAN, run' = [run EXCEPT ![r].cancel = c]
        PROVE  run'[r].state = run[r].state
    BY <1>1, <2>1, <2>2 DEF RunRecs
  <2>3. ASSUME NEW e \in {"none", "denied", "other"}, run' = [run EXCEPT ![r].err = e]
        PROVE  run'[r].state = run[r].state
    BY <1>1, <2>1, <2>3 DEF RunRecs
  <2>4. ASSUME NEW s \in ActiveRunStates, NEW e \in {"none", "denied", "other"},
               run' = [run EXCEPT ![r].state = s, ![r].err = e]
        PROVE  run'[r].state = s
    BY <1>1, <2>1, <2>4 DEF RunRecs
  <2>5. ASSUME NEW s \in ActiveRunStates, run' = [run EXCEPT ![r].state = s]
        PROVE  run'[r].state = s
    BY <1>1, <2>1, <2>5 DEF RunRecs
  <2> QED BY <2>2, <2>3, <2>4, <2>5
<1> QED BY <1>2, <1>3 DEF RunsKept

\* an operation that ends, or leaves a wave, forgets the wave
LEMMA ReturnedTodo == Returned.todo = {} /\ IdleCo.todo = {}
BY DEF Returned, IdleCo

\* the next wave, the next pass or the end: the wave left is not to do
LEMMA ContinueTodo ==
    ASSUME co \in CoRecs, NEW w \in Waves, NEW wait \in BOOLEAN, Continue(w, wait)
    PROVE  /\ co'.todo \subseteq co.todo \ {w}
           /\ co'.pc = "idle" => co'.todo = {}
<1>1. CASE co.todo \ {w} # {} BY <1>1 DEF Continue, CoRecs
<1>2. CASE co.todo \ {w} = {} /\ (co.waiting \/ wait) BY <1>2, ReturnedTodo DEF Continue
<1>3. CASE co.todo \ {w} = {} /\ ~(co.waiting \/ wait) BY <1>3 DEF Continue, CoRecs
<1> QED BY <1>1, <1>2, <1>3

\* a step that writes the wave in hand and leaves it
LEMMA LeaveWave ==
    ASSUME RInv, NEW w \in Waves, NEW rec \in WaveRecs,
           co.pc \notin {"idle", "reserve", "followup"}, RunsKept,
           wave' = [wave EXCEPT ![w] = rec], rec.run = wave[w].run,
           w \in co.todo, rec.state = "prepared" => rec.reqs # {},
           co'.pc \in {"idle", "followup", "pass", "wave"},
           co'.pc # "idle" => co'.run = co.run,
           co'.pc = "idle" => co'.todo = {}, co'.todo \subseteq co.todo \ {w}
    PROVE  FollowInv'
<1>1. co.run \in Runs /\ wave \in [Waves -> WaveRecs] /\ co.todo \in SUBSET Waves
  BY DEF RInv, IInv, TypeOK, JournalInv, At, CoRecs
<1>2. co'.pc \notin {"idle", "reserve", "followup"} => run'[co'.run].state \in ActiveRunStates
  BY <1>1 DEF RInv, FollowInv, RunsKept
<1>3. ASSUME NEW v \in Waves
      PROVE  /\ Open(v)' => wave'[v].run \in Runs /\ run'[wave'[v].run].state \in ActiveRunStates
             /\ v \in co'.todo => Open(v)' /\ wave'[v].run = co'.run
             /\ wave'[v].state = "prepared" => wave'[v].reqs # {}
  <2>1. CASE v = w
    <3>1. Open(w) /\ wave'[v] = rec BY <1>1, <2>1 DEF RInv, FollowInv
    <3> QED BY <2>1, <3>1 DEF RInv, FollowInv, RunsKept, Open
  <2>2. CASE v # w
    <3>1. wave'[v] = wave[v] BY <2>2, <1>1
    <3>2. v \in co'.todo => co'.run = co.run
      OBVIOUS
    <3> QED BY <3>1, <3>2 DEF RInv, FollowInv, RunsKept, Open
  <2> QED BY <2>1, <2>2
<1> QED BY <1>2, <1>3 DEF FollowInv, At

\* a step that leaves waves alone and forgets the wave in hand
LEMMA RunMoves ==
    ASSUME RInv, RunsKept, UNCHANGED wave, co'.todo = {}, co'.pc # "post",
           co'.pc \notin {"idle", "reserve", "followup"} => run'[co'.run].state \in ActiveRunStates
    PROVE  FollowInv'
BY DEF RInv, FollowInv, RunsKept, Open, At

\* a step that stays with the wave in hand
LEMMA StayOnWave ==
    ASSUME RInv, NEW w \in Waves, NEW rec \in WaveRecs,
           co.pc \notin {"idle", "reserve", "followup"}, RunsKept,
           wave' = [wave EXCEPT ![w] = rec], rec.run = wave[w].run,
           rec.state \notin {"unused", "imported"}, w \in co.todo,
           rec.state = "prepared" => rec.reqs # {},
           co'.todo = co.todo, co'.run = co.run,
           co'.pc = "post" => ~run'[co.run].cancel
    PROVE  FollowInv'
<1>1. co.run \in Runs /\ wave \in [Waves -> WaveRecs]
  BY DEF RInv, IInv, TypeOK, JournalInv, At
<1>2. run'[co'.run].state \in ActiveRunStates
  BY <1>1 DEF RInv, FollowInv, RunsKept
<1>3. ASSUME NEW v \in Waves
      PROVE  /\ Open(v)' => wave'[v].run \in Runs /\ run'[wave'[v].run].state \in ActiveRunStates
             /\ v \in co'.todo => Open(v)' /\ wave'[v].run = co'.run
             /\ wave'[v].state = "prepared" => wave'[v].reqs # {}
  <2>1. CASE v = w
    <3>1. Open(w) /\ wave'[v] = rec BY <1>1, <2>1 DEF RInv, FollowInv
    <3> QED BY <2>1, <3>1 DEF RInv, FollowInv, RunsKept, Open
  <2>2. CASE v # w
    <3>1. wave'[v] = wave[v] BY <2>2, <1>1
    <3> QED BY <3>1 DEF RInv, FollowInv, RunsKept, Open
  <2> QED BY <2>1, <2>2
<1> QED BY <1>2, <1>3 DEF FollowInv, At

\* a step that touches neither the operation nor waves
LEMMA Elsewhere ==
    ASSUME RInv, UNCHANGED <<wave, run>>, co'.pc = co.pc, co'.run = co.run, co'.todo = co.todo
    PROVE  FollowInv'
BY DEF RInv, FollowInv, Open, At
----------------------------------------------------------------------------
\* the steps of start keep the second invariant
LEMMA StartFollow ==
    ASSUME RInv, \/ StartRefused \/ StartCreate \/ StartAdvance \/ StartFollowUp
                 \/ \E r \in Runs, S \in SUBSET Jobs : StartRead(r, S)
    PROVE  FollowInv'
<1> USE DEF RInv
<1>1. CASE StartRefused
  <2>1. co' = IdleCo /\ IdleCo.pc = "idle" BY <1>1 DEF StartRefused, IdleCo
  <2>2. RunsKept BY <1>1 DEF StartRefused, RunsKept
  <2> QED BY <1>1, <2>1, <2>2, ReturnedTodo, RunMoves DEF StartRefused
<1>2. CASE StartCreate
  <2>1. co.run \in Runs /\ run \in [Runs -> RunRecs] /\ co \in CoRecs /\ co.pc = "reserve"
    BY <1>2 DEF StartCreate, At, IInv, JournalInv, TypeOK
  <2>2. run'[co.run].state = "active" /\ \A q \in Runs : q # co.run => run'[q] = run[q]
    BY <1>2, <2>1 DEF StartCreate, RunRecs
  <2>3. RunsKept /\ run'[co.run].state \in ActiveRunStates
    BY <2>2 DEF RunsKept, ActiveRunStates
  <2>4. co'.pc = "created" /\ co'.run = co.run /\ co'.todo = co.todo /\ UNCHANGED wave
    BY <1>2, <2>1 DEF StartCreate, CoRecs
  <2> QED BY <2>1, <2>3, <2>4 DEF FollowInv, RunsKept, Open, At
<1>3. CASE StartAdvance
  <2>1. co.run \in Runs /\ co \in CoRecs /\ co.pc = "created" /\ run[co.run].state \in ActiveRunStates
        /\ run \in [Runs -> RunRecs]
    BY <1>3 DEF StartAdvance, At, IInv, JournalInv, TypeOK, FollowInv
  <2>2. run' = [run EXCEPT ![co.run].cancel = run[co.run].cancel \/ co.stop]
        /\ (run[co.run].cancel \/ co.stop) \in BOOLEAN
    BY <1>3, <2>1 DEF StartAdvance, RunRecs, CoRecs
  <2>3. RunsKept BY <2>1, <2>2, KeptByWrite
  <2>4. co'.pc = "pass" /\ co'.run = co.run /\ co'.todo = co.todo /\ UNCHANGED wave
    BY <1>3, <2>1 DEF StartAdvance, CoRecs
  <2> QED BY <2>1, <2>3, <2>4 DEF FollowInv, RunsKept, Open, At
<1>4. CASE StartFollowUp
  <2>1. co.run \in Runs /\ run \in [Runs -> RunRecs] /\ UNCHANGED wave
    BY <1>4 DEF StartFollowUp, At, IInv, JournalInv, TypeOK
  <2>2. \/ /\ run[co.run].state \in ActiveRunStates
           /\ run' = [run EXCEPT ![co.run].cancel = TRUE] /\ co' = Advancing("cancel", co.run)
        \/ run' = run /\ co' = IdleCo
    BY <1>4, Zenon DEF StartFollowUp
  <2>3. CASE run' = run /\ co' = IdleCo
    <3>1. IdleCo.pc = "idle" BY DEF IdleCo
    <3> QED BY <2>1, <2>3, <3>1, ReturnedTodo, RunMoves DEF RunsKept
  <2>4. CASE /\ run[co.run].state \in ActiveRunStates
             /\ run' = [run EXCEPT ![co.run].cancel = TRUE] /\ co' = Advancing("cancel", co.run)
    <3>1. RunsKept BY <2>1, <2>4, KeptByWrite
    <3>2. co'.pc = "pass" /\ co'.run = co.run /\ co'.todo = {}
      BY <2>1, <2>4, AdvancingType DEF Advancing, IdleCo
    <3>3. run'[co'.run].state \in ActiveRunStates BY <2>1, <2>4, <3>1, <3>2 DEF RunsKept
    <3> QED BY <2>1, <3>1, <3>2, <3>3, RunMoves
  <2> QED BY <2>2, <2>3, <2>4
<1>5. ASSUME NEW r \in Runs, NEW S \in SUBSET Jobs, StartRead(r, S) PROVE FollowInv'
  <2>1. co'.pc = "reserve" /\ co'.todo = {} BY <1>5 DEF StartRead, IdleCo
  <2> QED BY <1>5, <2>1, RunMoves DEF StartRead, RunsKept
<1> QED BY <1>1, <1>2, <1>3, <1>4, <1>5

\* following a run that reserves its offers
LEMMA AdvanceFollow ==
    ASSUME RInv, NEW r \in Runs, NEW o \in {"sync", "retry", "cancel"}, RunsKept,
           run'[r].state \in ActiveRunStates, co' = Advancing(o, r), UNCHANGED wave
    PROVE  FollowInv'
<1>1. co'.pc = "pass" /\ co'.run = r /\ co'.todo = {}
  BY AdvancingType DEF Advancing, IdleCo
<1> QED BY <1>1, RunMoves

\* sync, retry, cancel and an upgrade keep it
LEMMA OperationFollow ==
    ASSUME RInv, NEW r \in Runs, Sync(r) \/ Retry(r) \/ Cancel(r) \/ BreakConfiguration(r)
    PROVE  FollowInv'
<1> USE DEF RInv
<1>0. run \in [Runs -> RunRecs] BY DEF IInv, TypeOK
<1>1. CASE Sync(r)
  <2>1. run'[r].state \in ActiveRunStates
    BY <1>1 DEF Sync, PollingRunStates, ActiveRunStates
  <2> QED BY <1>1, <2>1, AdvanceFollow DEF Sync, RunsKept
<1>2. CASE Retry(r)
  <2>1. \/ run' = [run EXCEPT ![r].state = "active", ![r].err = "none"]
        \/ run' = run /\ run[r].state \in PollingRunStates
    BY <1>2 DEF Retry
  <2>2. CASE run' = [run EXCEPT ![r].state = "active", ![r].err = "none"]
    <3>1. "active" \in ActiveRunStates BY DEF ActiveRunStates
    <3>2. RunsKept BY <2>2, <3>1, KeptByWrite
    <3>3. run'[r].state = "active" BY <1>0, <2>2 DEF RunRecs
    <3> QED BY <1>2, <3>1, <3>2, <3>3, AdvanceFollow DEF Retry
  <2>3. CASE run' = run /\ run[r].state \in PollingRunStates
    <3>1. run'[r].state \in ActiveRunStates BY <2>3 DEF PollingRunStates, ActiveRunStates
    <3> QED BY <1>2, <2>3, <3>1, AdvanceFollow DEF Retry, RunsKept
  <2> QED BY <2>1, <2>2, <2>3
<1>3. CASE Cancel(r)
  <2>1. run' = [run EXCEPT ![r].cancel = TRUE] BY <1>3 DEF Cancel
  <2>2. RunsKept BY <2>1, KeptByWrite
  <2>3. run'[r].state \in ActiveRunStates BY <1>3, <2>2 DEF Cancel, RunsKept
  <2> QED BY <1>3, <2>2, <2>3, AdvanceFollow DEF Cancel
<1>4. CASE BreakConfiguration(r)
  <2>1. \A q \in Runs : run'[q].state = run[q].state
    BY <1>0, <1>4 DEF BreakConfiguration, RunRecs
  <2>2. co' = co /\ wave' = wave /\ co.pc = "idle" BY <1>4 DEF BreakConfiguration, At
  <2> QED BY <2>1, <2>2 DEF FollowInv, Open, At
<1> QED BY <1>1, <1>2, <1>3, <1>4
\* what a pass starts from
LEMMA PassFollow ==
    ASSUME RInv, \/ PassStops \/ PassWaves \/ FinishCancel \/ Finish
                 \/ (\E p \in Phases : PrepareFrozen(p))
    PROVE  FollowInv'
<1> USE DEF RInv
<1>1. /\ co.pc = "pass" /\ co.run \in Runs /\ run[co.run].state \in ActiveRunStates
      /\ run \in [Runs -> RunRecs] /\ co \in CoRecs /\ UNCHANGED wave
  BY DEF PassStops, PassWaves, FinishCancel, Finish, PrepareFrozen, PassIdle, InPass, At,
         IInv, JournalInv, TypeOK, FollowInv
<1>2. "blocked" \in ActiveRunStates BY DEF ActiveRunStates
<1>3. CASE PassStops
  <2>1. RunsKept BY <1>1, <1>2, <1>3, KeptByWrite DEF PassStops
  <2> QED BY <1>1, <1>3, <2>1, ReturnedType, ReturnedTodo, RunMoves DEF PassStops
<1>4. CASE PassWaves
  <2>1. co'.pc = "wave" /\ co'.run = co.run /\ co'.todo = OpenWaves(co.run) /\ run' = run
    BY <1>1, <1>4 DEF PassWaves, CoRecs
  <2> QED BY <1>1, <2>1 DEF FollowInv, OpenWaves, Open, At
<1>5. CASE FinishCancel \/ Finish
  <2>1. \A q \in Runs : q # co.run => run'[q] = run[q]
    BY <1>1, <1>5 DEF FinishCancel, Finish
  <2>2. OpenWaves(co.run) = {} /\ co' = Returned
    BY <1>5 DEF FinishCancel, Finish, PassIdle
  <2>3. \A w \in Waves : Open(w) => wave[w].run # co.run BY <2>2 DEF OpenWaves
  <2>4. co'.pc \in {"idle", "followup"} /\ co'.todo = {}
    BY <1>1, <2>2, ReturnedType, ReturnedTodo
  <2> QED BY <1>1, <2>1, <2>3, <2>4 DEF FollowInv, Open, At
<1>6. CASE \E p \in Phases : PrepareFrozen(p)
  <2>1. RaiseFrozen(co.run) BY <1>6 DEF PrepareFrozen
  <2>2. co' = Returned /\ run' = [run EXCEPT ![co.run].err = "other", ![co.run].state = "blocked"]
    BY <2>1 DEF RaiseFrozen
  <2>3. run[co.run] \in RunRecs BY <1>1
  <2>4. run'[co.run].state = "blocked" /\ \A q \in Runs : q # co.run => run'[q] = run[q]
    BY <1>1, <2>2, <2>3 DEF RunRecs
  <2>5. RunsKept BY <1>2, <2>4 DEF RunsKept
  <2> QED BY <1>1, <2>2, <2>5, ReturnedType, ReturnedTodo, RunMoves
<1> QED BY <1>3, <1>4, <1>5, <1>6

\* _prepare_waves journals non-empty chunks for a run that is active
LEMMA PrepareFollow ==
    ASSUME RInv, NEW p \in Phases, NEW left, Prepare(p, left)
    PROVE  FollowInv'
<1> USE DEF RInv
<1>1. /\ co.pc = "pass" /\ co.run \in Runs /\ run[co.run].state \in ActiveRunStates
      /\ wave \in [Waves -> WaveRecs] /\ co \in CoRecs
  BY DEF Prepare, PassIdle, InPass, At, IInv, JournalInv, TypeOK, FollowInv
<1>2. co'.pc = "pass" /\ co'.run = co.run /\ co'.todo = co.todo /\ run' = run
  BY <1>1 DEF Prepare, CoRecs
<1> DEFINE live == {j \in InPhase(co.run, p) : Current(co.run, j)}
           bad == {j \in live : <<p, j>> \in Unbuildable}
           hits == {j \in live \ bad : {e \in left : e.key = RequestKey(co.run, p, j)} # {}}
           rest == live \ (bad \cup hits)
           reqs == {[key |-> k, items |-> {j \in rest : RequestKey(co.run, p, j) = k}] :
                        k \in {RequestKey(co.run, p, j) : j \in rest}}
<1> HIDE DEF reqs
<1>3. PICK plan \in [reqs -> Unused] :
         wave' = [w \in Waves |->
                     IF \E q \in reqs : plan[q] = w
                     THEN NewWave(co.run, p, {q \in reqs : plan[q] = w}) ELSE wave[w]]
  BY DEF Prepare, reqs
<1>4. ASSUME NEW v \in Waves
      PROVE  /\ Open(v)' => wave'[v].run \in Runs /\ run'[wave'[v].run].state \in ActiveRunStates
             /\ v \in co'.todo => Open(v)' /\ wave'[v].run = co'.run
             /\ wave'[v].state = "prepared" => wave'[v].reqs # {}
  <2>1. CASE \E q \in reqs : plan[q] = v
    <3>1. wave'[v] = NewWave(co.run, p, {q \in reqs : plan[q] = v}) BY <1>3, <2>1
    <3>2. wave[v].state = "unused" BY <1>3, <2>1 DEF Unused
    <3>3. v \notin co.todo BY <3>2 DEF FollowInv, Open
    <3> QED BY <1>1, <1>2, <2>1, <3>1, <3>3 DEF NewWave
  <2>2. CASE ~ \E q \in reqs : plan[q] = v
    <3>1. wave'[v] = wave[v] BY <1>3, <2>2
    <3> QED BY <1>2, <3>1 DEF FollowInv, Open
  <2> QED BY <2>1, <2>2
<1> QED BY <1>1, <1>2, <1>4 DEF FollowInv, At

\* what a step on the wave in hand starts from
LEMMA OnWave ==
    ASSUME RInv, NEW w \in Waves, Handling(w), co.pc \notin {"idle", "reserve", "followup"}
    PROVE  /\ w \in co.todo /\ Open(w) /\ wave[w].run = co.run /\ wave[w] \in WaveRecs
           /\ co.run \in Runs /\ run \in [Runs -> RunRecs] /\ co \in CoRecs
           /\ wave[w].state = "prepared" => wave[w].reqs # {}
           /\ wave = [wave EXCEPT ![w] = wave[w]]
BY DEF RInv, IInv, TypeOK, JournalInv, FollowInv, Handling, At

\* leaving the wave in hand by `continue' or by the end of the pass
LEMMA ContinueFollow ==
    ASSUME RInv, NEW w \in Waves, NEW wait \in BOOLEAN, NEW rec \in WaveRecs,
           Handling(w), co.pc \notin {"idle", "reserve", "followup"}, Continue(w, wait), RunsKept,
           wave' = [wave EXCEPT ![w] = rec], rec.run = wave[w].run,
           rec.state = "prepared" => rec.reqs # {}
    PROVE  FollowInv'
BY OnWave, ContinueType, ContinueTodo, LeaveWave

\* leaving it by an exception or a return
LEMMA ReturnFollow ==
    ASSUME RInv, NEW w \in Waves, NEW rec \in WaveRecs,
           Handling(w), co.pc \notin {"idle", "reserve", "followup"}, co' = Returned, RunsKept,
           wave' = [wave EXCEPT ![w] = rec], rec.run = wave[w].run,
           rec.state = "prepared" => rec.reqs # {}
    PROVE  FollowInv'
BY OnWave, ReturnedType, ReturnedTodo, LeaveWave

\* an exception leaves an active run active
LEMMA RaiseKept ==
    ASSUME IInv, NEW r \in Runs, NEW text \in {"none", "denied", "other"},
           Raise(r, text) \/ RaiseFrozen(r)
    PROVE  RunsKept /\ co' = Returned
<1>1. CASE Raise(r, text)
  <2>1. run' = [run EXCEPT ![r].err = text] BY <1>1 DEF Raise
  <2> QED BY <1>1, <2>1, KeptByWrite DEF Raise
<1>2. CASE RaiseFrozen(r)
  <2>1. run \in [Runs -> RunRecs] BY DEF IInv, TypeOK
  <2>2. run[r] \in RunRecs BY <2>1
  <2>3. run'[r].state = "blocked" /\ \A q \in Runs : q # r => run'[q] = run[q]
    BY <1>2, <2>1, <2>2 DEF RaiseFrozen, RunRecs
  <2>4. "blocked" \in ActiveRunStates BY DEF ActiveRunStates
  <2> QED BY <1>2, <2>3, <2>4 DEF RunsKept, RaiseFrozen
<1> QED BY <1>1, <1>2

\* pruning keeps a wave with its run
LEMMA PrunedFollow ==
    ASSUME RInv, NEW w \in Waves, wave[w] \in WaveRecs, wave[w].state = "prepared"
    PROVE  /\ PrunedWave(w) \in WaveRecs /\ PrunedWave(w).run = wave[w].run
           /\ PrunedWave(w).reqs = Pruned(w)
           /\ PrunedWave(w).state = "prepared" => Pruned(w) # {}
BY PrunedType DEF RInv, IInv, PrunedWave, WaveRecs

\* the steps of _submit before the POST
LEMMA SubmitFollow ==
    ASSUME RInv, NEW w \in Waves, Abandon(w) \/ SubmitPrune(w) \/ Commit(w)
    PROVE  FollowInv'
<1> USE DEF RInv
<1>1. Handling(w) /\ co.pc \in {"wave", "commit"} /\ co.pc \notin {"idle", "reserve", "followup"}
  BY DEF Abandon, SubmitPrune, Commit, At
<1>2. wave[w].state = "prepared"
  BY <1>1, InHand DEF Abandon, SubmitPrune, Commit, At, HandSound
<1>3. /\ w \in co.todo /\ wave[w].run = co.run /\ wave[w] \in WaveRecs /\ co.run \in Runs
      /\ wave[w].reqs # {} /\ co \in CoRecs /\ run \in [Runs -> RunRecs]
  BY <1>1, <1>2, OnWave
<1>4. /\ PrunedWave(w) \in WaveRecs /\ PrunedWave(w).run = wave[w].run
      /\ PrunedWave(w).reqs = Pruned(w)
      /\ PrunedWave(w).state = "prepared" => PrunedWave(w).reqs # {}
  BY <1>2, <1>3, PrunedFollow
<1> DEFINE done == [wave[w] EXCEPT !.state = "imported"]
           stopped == [PrunedWave(w) EXCEPT !.state = "imported"]
<1>5. /\ done \in WaveRecs /\ done.run = wave[w].run /\ done.state # "prepared"
      /\ stopped \in WaveRecs /\ stopped.run = wave[w].run /\ stopped.state # "prepared"
  BY <1>3, <1>4 DEF WaveRecs, WaveStates
<1> HIDE DEF done, stopped
<1>6. CASE /\ wave' = [wave EXCEPT ![w] = PrunedWave(w)]
           /\ Continue(w, FALSE) /\ UNCHANGED run
  <2>1. RunsKept BY <1>6 DEF RunsKept
  <2> QED BY <1>1, <1>4, <1>6, <2>1, ContinueFollow
<1>7. CASE wave' = [wave EXCEPT ![w] = PrunedWave(w)] /\ RaiseFrozen(co.run)
  <2>1. RunsKept /\ co' = Returned BY <1>3, <1>7, RaiseKept
  <2> QED BY <1>1, <1>4, <1>7, <2>1, ReturnFollow
<1>8. CASE /\ \/ wave' = [wave EXCEPT ![w] = done]
              \/ wave' = [wave EXCEPT ![w] = stopped]
           /\ \/ run' = [run EXCEPT ![co.run].cancel = TRUE]
              \/ UNCHANGED run
           /\ Continue(w, FALSE)
  <2>1. RunsKept BY <1>3, <1>8, KeptByWrite
  <2> QED BY <1>1, <1>5, <1>8, <2>1, ContinueFollow
<1>9. CASE /\ Pruned(w) # {} /\ wave' = [wave EXCEPT ![w] = PrunedWave(w)]
           /\ co' = [co EXCEPT !.pc = IF PrunedWave(w).file THEN "commit" ELSE "upload"]
           /\ UNCHANGED run
  <2>1. co'.todo = co.todo /\ co'.run = co.run /\ co'.pc # "post" BY <1>3, <1>9 DEF CoRecs
  <2>2. PrunedWave(w).state = "prepared"
    BY <1>2, <1>3, <1>9 DEF PrunedWave, WaveRecs
  <2>3. RunsKept BY <1>9 DEF RunsKept
  <2> QED BY <1>1, <1>3, <1>4, <1>9, <2>1, <2>2, <2>3, StayOnWave
<1>10. CASE /\ Pruned(w) = wave[w].reqs
            /\ wave' = [wave EXCEPT ![w].state = "submitting", ![w].file = TRUE]
            /\ co' = [co EXCEPT !.pc = "post"]
            /\ UNCHANGED run
  <2>1. co'.todo = co.todo /\ co'.run = co.run BY <1>3, <1>10 DEF CoRecs
  <2>2. ~run[co.run].cancel BY <1>3, <1>10 DEF Pruned
  <2> DEFINE rec == [wave[w] EXCEPT !.state = "submitting", !.file = TRUE]
  <2>3. rec \in WaveRecs /\ rec.run = wave[w].run /\ rec.state = "submitting"
        /\ wave' = [wave EXCEPT ![w] = rec]
    BY <1>3, <1>10 DEF WaveRecs, WaveStates
  <2>4. RunsKept BY <1>10 DEF RunsKept
  <2> HIDE DEF rec
  <2> QED BY <1>1, <1>3, <1>10, <2>1, <2>2, <2>3, <2>4, StayOnWave
<1>11. CASE Abandon(w) BY <1>8, <1>11 DEF Abandon, done
<1>12. CASE SubmitPrune(w) BY <1>6, <1>7, <1>8, <1>9, <1>12 DEF SubmitPrune, stopped
<1>13. CASE Commit(w) BY <1>6, <1>8, <1>10, <1>13 DEF Commit, done
<1> QED BY <1>11, <1>12, <1>13

\* an exception or a missing answer: the wave stays as it is
LEMMA RaiseFollow ==
    ASSUME RInv, UNCHANGED wave, co' = Returned, RunsKept
    PROVE  FollowInv'
<1>1. co \in CoRecs BY DEF RInv, IInv, TypeOK
<1> QED BY <1>1, ReturnedType, ReturnedTodo, RunMoves

\* the upload
LEMMA UploadFollow ==
    ASSUME RInv, UploadOk \/ (\E w \in Waves : UploadFails(w))
    PROVE  FollowInv'
<1> USE DEF RInv
<1>1. CASE UploadOk
  <2>1. /\ co.pc = "upload" /\ co'.pc = "commit" /\ co'.run = co.run /\ co'.todo = co.todo
        /\ UNCHANGED <<wave, run>>
    BY <1>1 DEF UploadOk, IInv, TypeOK, CoRecs, At
  <2> QED BY <2>1 DEF FollowInv, Open, At
<1>2. ASSUME NEW w \in Waves, UploadFails(w) PROVE FollowInv'
  <2>1. Handling(w) /\ co.pc = "upload" /\ co.pc \notin {"idle", "reserve", "followup"}
    BY <1>2 DEF UploadFails, At
  <2>2. co.run \in Runs /\ wave[w] \in WaveRecs BY <2>1, OnWave
  <2>3. CASE ScreeningFailed(w) /\ Continue(w, FALSE) /\ UNCHANGED run
    <3> DEFINE rec == [wave[w] EXCEPT !.state = "imported", !.consumed = TRUE]
    <3>1. /\ rec \in WaveRecs /\ rec.run = wave[w].run /\ rec.state # "prepared"
          /\ wave' = [wave EXCEPT ![w] = rec]
      BY <2>2, <2>3 DEF WaveRecs, WaveStates, ScreeningFailed
    <3>2. RunsKept BY <2>3 DEF RunsKept
    <3> HIDE DEF rec
    <3> QED BY <2>1, <2>3, <3>1, <3>2, ContinueFollow
  <2>4. CASE /\ run' = [run EXCEPT ![co.run].state = "blocked", ![co.run].err = "other"]
             /\ co' = Returned /\ UNCHANGED wave
    <3>1. "blocked" \in ActiveRunStates BY DEF ActiveRunStates
    <3>2. RunsKept BY <2>2, <2>4, <3>1, KeptByWrite
    <3> QED BY <2>4, <3>2, RaiseFollow
  <2>5. CASE (\E text \in {"denied", "other"} : Raise(co.run, text)) /\ UNCHANGED wave
    <3>1. RunsKept /\ co' = Returned BY <2>2, <2>5, RaiseKept
    <3> QED BY <2>5, <3>1, RaiseFollow
  <2> QED BY <1>2, <2>3, <2>4, <2>5 DEF UploadFails
<1> QED BY <1>1, <1>2

\* the POST and its answers
LEMMA AnswerFollow ==
    ASSUME RInv, NEW w \in Waves,
           \/ \E answer \in {"posted", "unsure", "rejected"} : Post(w, answer)
           \/ CreateRejected(w) \/ CreateUnsure(w)
    PROVE  FollowInv'
<1> USE DEF RInv
<1>1. Handling(w) /\ co.pc \notin {"idle", "reserve", "followup"}
  BY DEF Post, CreateRejected, CreateUnsure, At
<1>2. co.run \in Runs /\ wave[w] \in WaveRecs /\ co \in CoRecs BY <1>1, OnWave
<1>3. ASSUME NEW answer \in {"posted", "unsure", "rejected"}, Post(w, answer) PROVE FollowInv'
  <2>1. co.pc = "post" /\ co'.pc = answer /\ co'.run = co.run /\ co'.todo = co.todo
        /\ UNCHANGED <<wave, run>>
    BY <1>2, <1>3 DEF Post, CoRecs, At
  <2> QED BY <2>1 DEF FollowInv, Open, At
<1>4. CASE CreateRejected(w)
  <2> DEFINE failed == [wave[w] EXCEPT !.state = "imported", !.consumed = TRUE]
             refused == [wave[w] EXCEPT !.state = "imported"]
  <2>1. /\ failed \in WaveRecs /\ failed.run = wave[w].run /\ failed.state # "prepared"
        /\ refused \in WaveRecs /\ refused.run = wave[w].run /\ refused.state # "prepared"
    BY <1>2 DEF WaveRecs, WaveStates
  <2>2. wave' = [wave EXCEPT ![w] = failed] \/ wave' = [wave EXCEPT ![w] = refused]
    BY <1>4 DEF CreateRejected, ScreeningFailed
  <2>3. RunsKept /\ Continue(w, FALSE) BY <1>4 DEF CreateRejected, RunsKept
  <2> HIDE DEF failed, refused
  <2> QED BY <1>1, <2>1, <2>2, <2>3, ContinueFollow
<1>5. CASE CreateUnsure(w)
  <2>1. "attention" \in ActiveRunStates BY DEF ActiveRunStates
  <2>2. RunsKept BY <1>2, <1>5, <2>1, KeptByWrite DEF CreateUnsure
  <2> QED BY <1>5, <2>2, RaiseFollow DEF CreateUnsure
<1> QED BY <1>3, <1>4, <1>5

\* a snapshot keeps the wave with its run, which is active
LEMMA SnapshotFollow ==
    ASSUME RInv, NEW w \in Waves, NEW status \in {"running", "cancelling", "ended"},
           SaveSnapshot(w, status), co.run \in Runs
    PROVE  /\ RunsKept
           /\ \E rec \in WaveRecs :
                 /\ wave' = [wave EXCEPT ![w] = rec]
                 /\ rec.run = wave[w].run /\ rec.state = status
<1>1. "active" \in ActiveRunStates BY DEF ActiveRunStates
<1>2. RunsKept BY <1>1, KeptByWrite DEF SaveSnapshot, RInv
<1> DEFINE rec == [wave[w] EXCEPT !.batch = TRUE, !.state = status]
<1>3. rec \in WaveRecs /\ rec.run = wave[w].run /\ rec.state = status
  BY InHand DEF RInv, WaveRecs, WaveStates
<1>4. wave' = [wave EXCEPT ![w] = rec] BY DEF SaveSnapshot
<1> QED BY <1>2, <1>3, <1>4

\* following, cancelling and importing a wave
LEMMA RefreshFollow ==
    ASSUME RInv, NEW w \in Waves,
           \/ Created(w) \/ RefreshFound(w) \/ CancelCall(w) \/ ImportWave(w)
           \/ RefreshMissing(w) \/ RefreshFrozen(w) \/ CancelRefused(w)
    PROVE  FollowInv'
<1> USE DEF RInv
<1>1. /\ Handling(w) /\ co.pc \notin {"idle", "reserve", "followup"}
      /\ co.pc \in {"posted", "wave", "cancelcall", "import"}
  BY DEF Created, RefreshFound, CancelCall, ImportWave, RefreshMissing, RefreshFrozen,
         CancelRefused, Refreshing, At
<1>2. /\ co.run \in Runs /\ wave[w] \in WaveRecs /\ co \in CoRecs /\ w \in co.todo
      /\ wave = [wave EXCEPT ![w] = wave[w]] /\ (wave[w].state = "prepared" => wave[w].reqs # {})
  BY <1>1, OnWave
<1>3. ASSUME NEW status \in {"running", "cancelling", "ended"}, SaveSnapshot(w, status),
             \/ \E wait \in BOOLEAN : Continue(w, wait)
             \/ \E pc \in {"wave", "import", "cancelcall"} : co' = [co EXCEPT !.pc = pc]
      PROVE  FollowInv'
  <2>1. RunsKept BY <1>2, <1>3, SnapshotFollow
  <2>2. PICK rec \in WaveRecs : /\ wave' = [wave EXCEPT ![w] = rec]
                                /\ rec.run = wave[w].run /\ rec.state = status
    BY <1>2, <1>3, SnapshotFollow
  <2>3. CASE \E wait \in BOOLEAN : Continue(w, wait)
    BY <1>1, <2>1, <2>2, <2>3, ContinueFollow
  <2>4. CASE \E pc \in {"wave", "import", "cancelcall"} : co' = [co EXCEPT !.pc = pc]
    <3>1. co'.todo = co.todo /\ co'.run = co.run /\ co'.pc # "post" BY <1>2, <2>4 DEF CoRecs
    <3> QED BY <1>1, <1>2, <2>1, <2>2, <3>1, StayOnWave
  <2> QED BY <1>3, <2>3, <2>4
<1>4. CASE Created(w) BY <1>3, <1>4 DEF Created
<1>5. CASE RefreshFound(w)
  <2>1. remote[w].posts = 1 BY <1>5, InHand DEF RefreshFound, Recovered, WaveSound
  <2>2. remote[w].status \in {"running", "cancelling", "ended"}
    BY <2>1, InHand DEF WaveSound, RemoteRecs, RemoteStates
  <2> QED BY <1>3, <1>5, <2>2 DEF RefreshFound
<1>6. CASE CancelCall(w) BY <1>3, <1>6 DEF CancelCall
<1>7. CASE ImportWave(w)
  <2> DEFINE rec == [wave[w] EXCEPT !.state = "imported", !.consumed = TRUE]
  <2>1. /\ rec \in WaveRecs /\ rec.run = wave[w].run /\ rec.state # "prepared"
        /\ wave' = [wave EXCEPT ![w] = rec]
    BY <1>2, <1>7 DEF WaveRecs, WaveStates, ImportWave, Import
  <2>2. RunsKept /\ Continue(w, FALSE) BY <1>7 DEF ImportWave, RunsKept
  <2> HIDE DEF rec
  <2> QED BY <1>1, <2>1, <2>2, ContinueFollow
<1>8. CASE RefreshMissing(w)
  <2>1. "attention" \in ActiveRunStates BY DEF ActiveRunStates
  <2>2. RunsKept BY <1>2, <1>8, <2>1, KeptByWrite DEF RefreshMissing
  <2>3. Continue(w, TRUE) /\ wave' = [wave EXCEPT ![w] = wave[w]]
    BY <1>2, <1>8 DEF RefreshMissing
  <2> QED BY <1>1, <1>2, <2>2, <2>3, ContinueFollow
<1>9. CASE RefreshFrozen(w) \/ CancelRefused(w)
  <2>1. RaiseFrozen(co.run) \/ Raise(co.run, "other") BY <1>9 DEF RefreshFrozen, CancelRefused
  <2>2. RunsKept /\ co' = Returned BY <1>2, <2>1, RaiseKept
  <2> QED BY <1>9, <2>2, RaiseFollow DEF RefreshFrozen, CancelRefused
<1> QED BY <1>4, <1>5, <1>6, <1>7, <1>8, <1>9

\* crash, faults, edits and the provider
LEMMA EnvironmentFollow ==
    ASSUME RInv, \/ RequestStop \/ FollowFails \/ Crash \/ ChangeProfile
                 \/ (\E w \in Waves : BatchEnds(w))
                 \/ \E j \in Jobs : EditJob(j) \/ ArchiveJob(j) \/ RescueJob(j)
    PROVE  FollowInv'
<1> USE DEF RInv
<1>1. CASE RequestStop
  <2>1. co'.pc = co.pc /\ co'.run = co.run /\ co'.todo = co.todo
    BY <1>1 DEF RequestStop, IInv, TypeOK, CoRecs
  <2> QED BY <1>1, <2>1, Elsewhere DEF RequestStop
<1>2. CASE FollowFails
  <2>1. co.run \in Runs BY <1>2 DEF FollowFails, Refreshing, At, IInv, JournalInv
  <2>2. Raise(co.run, "other") BY <1>2 DEF FollowFails
  <2>3. RunsKept /\ co' = Returned BY <2>1, <2>2, RaiseKept
  <2> QED BY <1>2, <2>3, RaiseFollow DEF FollowFails
<1>3. CASE Crash
  <2>1. co'.pc = "idle" /\ co'.todo = {} BY <1>3 DEF Crash, IdleCo
  <2> QED BY <1>3, <2>1, RunMoves DEF Crash, RunsKept
<1>4. CASE ChangeProfile \/ (\E w \in Waves : BatchEnds(w))
           \/ \E j \in Jobs : EditJob(j) \/ ArchiveJob(j) \/ RescueJob(j)
  <2>1. UNCHANGED <<wave, run, co>>
    BY <1>4 DEF ChangeProfile, BatchEnds, EditJob, ArchiveJob, RescueJob
  <2> QED BY <2>1, Elsewhere
<1> QED BY <1>1, <1>2, <1>3, <1>4

\* the second invariant is kept by every step ...
LEMMA NextRInv == RInv /\ [Next]_vars => RInv'
<1> SUFFICES ASSUME RInv, [Next]_vars PROVE RInv' OBVIOUS
<1>0. IInv' BY NextIInv DEF RInv
<1>1. CASE UNCHANGED vars BY <1>1, Elsewhere, <1>0 DEF vars, RInv
<1>2. CASE Work
  <2> SUFFICES FollowInv' BY <1>0 DEF RInv
  <2>1. ASSUME NEW w \in Waves,
               \/ Abandon(w) \/ SubmitPrune(w) \/ Commit(w)
               \/ \E answer \in {"posted", "unsure", "rejected"} : Post(w, answer)
               \/ Created(w) \/ CreateRejected(w) \/ CreateUnsure(w)
               \/ RefreshFrozen(w) \/ RefreshFound(w) \/ RefreshMissing(w)
               \/ CancelCall(w) \/ CancelRefused(w) \/ ImportWave(w)
        PROVE  FollowInv'
    BY <2>1, SubmitFollow, AnswerFollow, RefreshFollow
  <2>2. CASE \E p \in Phases, left \in IF CacheExpires THEN {cache, {}} ELSE {cache} : Prepare(p, left)
    BY <2>2, PrepareFollow
  <2>3. CASE StartRefused \/ StartCreate \/ StartAdvance \/ StartFollowUp BY <2>3, StartFollow
  <2>4. CASE PassStops \/ PassWaves \/ FinishCancel \/ Finish \/ (\E p \in Phases : PrepareFrozen(p))
    BY <2>4, PassFollow
  <2>5. CASE UploadOk BY <2>5, UploadFollow
  <2> QED BY <1>2, <2>1, <2>2, <2>3, <2>4, <2>5 DEF Work
<1>3. CASE Environment
  <2> SUFFICES FollowInv' BY <1>0 DEF RInv
  <2>1. ASSUME NEW r \in Runs, Retry(r) \/ Cancel(r) \/ BreakConfiguration(r) PROVE FollowInv'
    BY <2>1, OperationFollow
  <2>2. ASSUME NEW r \in Runs, NEW S \in SUBSET Jobs, StartRead(r, S) PROVE FollowInv'
    BY <2>2, StartFollow
  <2>3. CASE \E w \in Waves : UploadFails(w) BY <2>3, UploadFollow
  <2>4. CASE \/ RequestStop \/ FollowFails \/ ChangeProfile
             \/ \E j \in Jobs : EditJob(j) \/ ArchiveJob(j) \/ RescueJob(j)
    BY <2>4, EnvironmentFollow
  <2> QED BY <1>3, <2>1, <2>2, <2>3, <2>4 DEF Environment
<1>4. ASSUME NEW r \in Runs, Sync(r) PROVE RInv' BY <1>0, <1>4, OperationFollow DEF RInv
<1>5. CASE (\E w \in Waves : BatchEnds(w)) \/ Crash BY <1>0, <1>5, EnvironmentFollow DEF RInv
<1> QED BY <1>1, <1>2, <1>3, <1>4, <1>5 DEF Next, Steps

\* ... and holds initially
LEMMA InitRInv == Init => RInv
<1> SUFFICES ASSUME Init PROVE RInv OBVIOUS
<1>1. co.pc = "idle" /\ co.todo = {} BY DEF Init, IdleCo
<1>2. \A w \in Waves : wave[w].state = "unused" BY DEF Init
<1> QED BY <1>1, <1>2, InitIInv DEF RInv, FollowInv, Open, At

\* A run that the provider still works for keeps its offers reserved: neither
\* _finish, _finish_cancel, a rejected prefilter wave nor any failure ends a run
\* over an accepted batch whose results are not imported.
THEOREM PaidRunsReserved == Spec => []InFlightReserved
<1>1. RInv => InFlightReserved
  <2> SUFFICES ASSUME RInv, NEW w \in Waves, InFlight(w)
               PROVE  run[wave[w].run].state \in ActiveRunStates
    BY DEF InFlightReserved
  <2>1. remote[w].posts > 0 /\ wave[w].state # "imported" BY DEF InFlight
  <2>2. wave[w].state # "unused" BY <2>1 DEF RInv, IInv, JournalInv, WaveSound
  <2> QED BY <2>1, <2>2 DEF RInv, FollowInv, Open
<1>2. Init => RInv BY InitRInv
<1>3. RInv /\ [Next]_vars => RInv' BY NextRInv
<1> QED BY <1>1, <1>2, <1>3, PTL DEF Spec

\* The strengthening itself: the coordinator only handles open waves of its run.
THEOREM FollowedRuns == Spec => []FollowInv
<1>1. Init => RInv BY InitRInv
<1>2. RInv /\ [Next]_vars => RInv' BY NextRInv
<1>3. RInv => FollowInv BY DEF RInv
<1> QED BY <1>1, <1>2, <1>3, PTL DEF Spec
----------------------------------------------------------------------------
(* Stop is final.                                                          *)

CancelsKept == \A r \in Runs : run[r].cancel => run'[r].cancel
NothingPosted == \A w \in Waves : ~Posting(w)

\* a write of one run that keeps its cancellation
LEMMA CancelsKeptByWrite ==
    ASSUME IInv, NEW q \in Runs, NEW rec,
           run' = run \/ run' = [run EXCEPT ![q] = rec],
           run[q].cancel => rec.cancel
    PROVE  CancelsKept
<1>1. run \in [Runs -> RunRecs] BY DEF IInv, TypeOK
<1> QED BY <1>1 DEF CancelsKept

\* the writes of the coordinator that do not ask for a cancellation, and those
\* that do
LEMMA CancelsKeptByField ==
    ASSUME IInv, NEW q \in Runs,
           \/ run' = run
           \/ \E s, e : run' = [run EXCEPT ![q].state = s, ![q].err = e]
           \/ \E s, e : run' = [run EXCEPT ![q].err = e, ![q].state = s]
           \/ \E s : run' = [run EXCEPT ![q].state = s]
           \/ \E e : run' = [run EXCEPT ![q].err = e]
           \/ run' = [run EXCEPT ![q].frozen = TRUE]
           \/ run' = [run EXCEPT ![q].cancel = TRUE]
           \/ \E stop : run' = [run EXCEPT ![q].cancel = @ \/ stop]
    PROVE  CancelsKept
<1>1. run[q] \in RunRecs /\ run \in [Runs -> RunRecs] BY DEF IInv, TypeOK
<1>2. run[q].cancel => run'[q].cancel BY <1>1 DEF RunRecs
<1>3. \A r \in Runs : r # q => run'[r] = run[r] BY <1>1
<1> QED BY <1>2, <1>3 DEF CancelsKept

\* start neither withdraws a cancellation nor calls the provider
LEMMA StopOfStart ==
    ASSUME IInv, \/ StartRefused \/ StartCreate \/ StartAdvance \/ StartFollowUp \/ RequestStop
                 \/ \E r \in Runs, S \in SUBSET Jobs : StartRead(r, S)
    PROVE  CancelsKept /\ remote' = remote
<1>1. remote' = remote
  BY DEF StartRefused, StartCreate, StartAdvance, StartFollowUp, RequestStop, StartRead
<1>2. CASE StartRefused \/ RequestStop \/ \E r \in Runs, S \in SUBSET Jobs : StartRead(r, S)
  BY <1>1, <1>2 DEF StartRefused, RequestStop, StartRead, CancelsKept
<1>3. CASE StartCreate
  <2>1. co.run \in Runs BY <1>3 DEF StartCreate, At, IInv, JournalInv
  <2> DEFINE rec == [run[co.run] EXCEPT !.state = "active", !.prof = co.prof]
  <2>2. run' = [run EXCEPT ![co.run] = rec] BY <1>3 DEF StartCreate
  <2>3. run[co.run].cancel => rec.cancel BY <2>1 DEF IInv, TypeOK, RunRecs
  <2> QED BY <1>1, <2>1, <2>2, <2>3, CancelsKeptByWrite
<1>4. CASE StartAdvance
  <2>1. co.run \in Runs BY <1>4 DEF StartAdvance, At, IInv, JournalInv
  <2> QED BY <1>1, <1>4, <2>1, CancelsKeptByField DEF StartAdvance
<1>5. CASE StartFollowUp
  <2>1. co.run \in Runs BY <1>5 DEF StartFollowUp, At, IInv, JournalInv
  <2>2. run' = run \/ run' = [run EXCEPT ![co.run].cancel = TRUE]
    BY <1>5, Zenon DEF StartFollowUp
  <2> QED BY <1>1, <2>1, <2>2, CancelsKeptByField
<1> QED BY <1>2, <1>3, <1>4, <1>5

\* nor do sync, retry, cancel and an upgrade
LEMMA StopOfOperation ==
    ASSUME IInv, NEW r \in Runs, Sync(r) \/ Retry(r) \/ Cancel(r) \/ BreakConfiguration(r)
    PROVE  CancelsKept /\ remote' = remote
<1>1. /\ remote' = remote
      /\ \/ run' = run
         \/ run' = [run EXCEPT ![r].state = "active", ![r].err = "none"]
         \/ run' = [run EXCEPT ![r].cancel = TRUE]
         \/ run' = [run EXCEPT ![r].frozen = TRUE]
  BY DEF Sync, Retry, Cancel, BreakConfiguration
<1> QED BY <1>1, CancelsKeptByField

\* every step of _advance but the POST
LEMMA StopOfAdvance ==
    ASSUME IInv,
           \/ PassStops \/ PassWaves \/ FinishCancel \/ Finish \/ UploadOk \/ FollowFails
           \/ \E p \in Phases : PrepareFrozen(p) \/ \E left : Prepare(p, left)
           \/ \E w \in Waves :
                 \/ Abandon(w) \/ SubmitPrune(w) \/ Commit(w) \/ UploadFails(w)
                 \/ Created(w) \/ CreateRejected(w) \/ CreateUnsure(w)
                 \/ RefreshFrozen(w) \/ RefreshFound(w) \/ RefreshMissing(w)
                 \/ CancelRefused(w) \/ ImportWave(w)
    PROVE  CancelsKept /\ remote' = remote
<1>1. remote' = remote
  BY ZenonT(30) DEF PassStops, PassWaves, FinishCancel, Finish, UploadOk, FollowFails, PrepareFrozen,
         Prepare, Abandon, SubmitPrune, Commit, UploadFails, Created, CreateRejected,
         CreateUnsure, RefreshFrozen, RefreshFound, RefreshMissing, CancelRefused, ImportWave
<1>2. co.run \in Runs
  BY ZenonT(30) DEF IInv, JournalInv, At, Refreshing, PassIdle, InPass, PassStops, PassWaves, FinishCancel,
         Finish, UploadOk, FollowFails, PrepareFrozen, Prepare, Abandon, SubmitPrune, Commit,
         UploadFails, Created, CreateRejected, CreateUnsure, RefreshFrozen, RefreshFound,
         RefreshMissing, CancelRefused, ImportWave
<1>3. CASE \/ PassStops \/ PassWaves \/ FinishCancel \/ Finish \/ UploadOk
           \/ \E p \in Phases : \E left : Prepare(p, left)
  <2>1. \/ run' = run
        \/ \E s : run' = [run EXCEPT ![co.run].state = s]
        \/ \E s, e : run' = [run EXCEPT ![co.run].state = s, ![co.run].err = e]
    BY ZenonT(30), <1>3 DEF PassStops, PassWaves, FinishCancel, Finish, UploadOk, Prepare
  <2> QED BY <1>1, <1>2, <2>1, CancelsKeptByField
<1>4. CASE FollowFails \/ (\E p \in Phases : PrepareFrozen(p))
           \/ \E w \in Waves : RefreshFrozen(w) \/ CancelRefused(w)
  <2>1. \/ \E e : run' = [run EXCEPT ![co.run].err = e]
        \/ \E s, e : run' = [run EXCEPT ![co.run].err = e, ![co.run].state = s]
    BY <1>4 DEF FollowFails, PrepareFrozen, RefreshFrozen, CancelRefused, Raise, RaiseFrozen
  <2> QED BY <1>1, <1>2, <2>1, CancelsKeptByField
<1>5. ASSUME NEW w \in Waves, Abandon(w) \/ SubmitPrune(w) \/ Commit(w)
      PROVE  CancelsKept
  <2>1. \/ run' = run
        \/ \E s, e : run' = [run EXCEPT ![co.run].err = e, ![co.run].state = s]
        \/ run' = [run EXCEPT ![co.run].cancel = TRUE]
    BY <1>5 DEF Abandon, SubmitPrune, Commit, RaiseFrozen
  <2> QED BY <1>2, <2>1, CancelsKeptByField
<1>6. ASSUME NEW w \in Waves, UploadFails(w) PROVE CancelsKept
  <2>1. \/ run' = run
        \/ \E e : run' = [run EXCEPT ![co.run].err = e]
        \/ \E s, e : run' = [run EXCEPT ![co.run].state = s, ![co.run].err = e]
    BY <1>6 DEF UploadFails, Raise
  <2> QED BY <1>2, <2>1, CancelsKeptByField
<1>7. ASSUME NEW w \in Waves,
             \/ Created(w) \/ CreateRejected(w) \/ CreateUnsure(w)
             \/ RefreshFound(w) \/ RefreshMissing(w) \/ ImportWave(w)
      PROVE  CancelsKept
  <2>1. \/ run' = run
        \/ \E s, e : run' = [run EXCEPT ![co.run].state = s, ![co.run].err = e]
    BY <1>7 DEF Created, CreateRejected, CreateUnsure, RefreshFound, RefreshMissing, ImportWave,
       SaveSnapshot
  <2> QED BY <1>2, <2>1, CancelsKeptByField
<1> QED BY <1>1, <1>3, <1>4, <1>5, <1>6, <1>7

\* the two steps that touch the provider without a POST, and the rest
LEMMA StopOfOthers ==
    ASSUME IInv, \/ Crash \/ ChangeProfile
                 \/ (\E w \in Waves : CancelCall(w) \/ BatchEnds(w))
                 \/ \E j \in Jobs : EditJob(j) \/ ArchiveJob(j) \/ RescueJob(j)
    PROVE  CancelsKept /\ NothingPosted
<1>0. remote \in [Waves -> RemoteRecs] BY DEF IInv, TypeOK
<1>1. ASSUME NEW w \in Waves, NEW status, remote' = [remote EXCEPT ![w].status = status]
      PROVE  NothingPosted
  <2>1. \A v \in Waves : remote'[v].posts = remote[v].posts /\ remote[v].posts \in Nat
    BY <1>0, <1>1 DEF RemoteRecs
  <2> QED BY <2>1 DEF NothingPosted, Posting
<1>2. ASSUME NEW w \in Waves, CancelCall(w) PROVE CancelsKept /\ NothingPosted
  <2>1. co.run \in Runs BY <1>2 DEF CancelCall, At, IInv, JournalInv
  <2>2. \E s, e : run' = [run EXCEPT ![co.run].state = s, ![co.run].err = e]
    BY <1>2 DEF CancelCall, SaveSnapshot
  <2>3. NothingPosted BY <1>1, <1>2 DEF CancelCall
  <2> QED BY <2>1, <2>2, <2>3, CancelsKeptByField
<1>3. ASSUME NEW w \in Waves, BatchEnds(w) PROVE CancelsKept /\ NothingPosted
  BY <1>1, <1>3 DEF BatchEnds, CancelsKept
<1>4. CASE Crash \/ ChangeProfile \/ \E j \in Jobs : EditJob(j) \/ ArchiveJob(j) \/ RescueJob(j)
  <2>1. remote' = remote /\ run' = run
    BY <1>4 DEF Crash, ChangeProfile, EditJob, ArchiveJob, RescueJob
  <2> QED BY <1>0, <2>1 DEF CancelsKept, NothingPosted, Posting, RemoteRecs
<1> QED BY <1>2, <1>3, <1>4

\* the POST: the run in hand is not stopped, and only its wave is sent
LEMMA StopOfPost ==
    ASSUME RInv, NEW w \in Waves, NEW answer, Post(w, answer)
    PROVE  /\ CancelsKept
           /\ \A v \in Waves : Posting(v) => ~run[wave[v].run].cancel
<1>1. remote \in [Waves -> RemoteRecs] /\ wave[w].run = co.run /\ ~run[co.run].cancel
  BY OnWave DEF RInv, IInv, TypeOK, Post, At, FollowInv
<1>2. remote' = remote \/ remote' = Accepted(w) BY DEF Post
<1>3. \A v \in Waves : v # w => remote'[v] = remote[v] BY <1>1, <1>2 DEF Accepted
<1>4. \A v \in Waves : Posting(v) => v = w BY <1>1, <1>3 DEF Posting, RemoteRecs
<1> QED BY <1>1, <1>4 DEF Post, CancelsKept

\* Stop is final: a cancellation recorded by cancel, start or _record_stop is
\* never withdrawn, and from then on no wave of that run is submitted, whatever
\* the order of Stop, revalidation, upload and commit in _submit.
THEOREM StoppedForGood == Spec => StopIsFinal
<1> DEFINE A == \A r \in Runs : run[r].cancel =>
                   run'[r].cancel /\ \A w \in Waves : wave[w].run = r => ~Posting(w)
<1>1. ASSUME RInv, remote' = remote PROVE NothingPosted
  BY <1>1 DEF RInv, IInv, TypeOK, RemoteRecs, NothingPosted, Posting
<1>2. ASSUME RInv, [Next]_vars PROVE [A]_vars
  <2> SUFFICES ASSUME Next PROVE A BY <1>2
  <2> SUFFICES \/ CancelsKept /\ NothingPosted
               \/ CancelsKept /\ \A v \in Waves : Posting(v) => ~run[wave[v].run].cancel
    BY DEF CancelsKept, NothingPosted
  <2>1. CASE Work
    <3>1. ASSUME NEW w \in Waves, NEW answer \in {"posted", "unsure", "rejected"}, Post(w, answer)
          PROVE  CancelsKept /\ \A v \in Waves : Posting(v) => ~run[wave[v].run].cancel
      BY <1>2, <3>1, StopOfPost
    <3>2. CASE StartRefused \/ StartCreate \/ StartAdvance \/ StartFollowUp
      BY <1>1, <1>2, <3>2, StopOfStart DEF RInv
    <3>3. CASE \/ PassStops \/ PassWaves \/ FinishCancel \/ Finish \/ UploadOk
               \/ \E p \in Phases : PrepareFrozen(p) \/ \E left : Prepare(p, left)
      BY <1>1, <1>2, <3>3, StopOfAdvance DEF RInv
    <3>4. ASSUME NEW w \in Waves,
                 \/ Abandon(w) \/ SubmitPrune(w) \/ Commit(w)
                 \/ Created(w) \/ CreateRejected(w) \/ CreateUnsure(w)
                 \/ RefreshFrozen(w) \/ RefreshFound(w) \/ RefreshMissing(w)
                 \/ CancelRefused(w) \/ ImportWave(w)
          PROVE  CancelsKept /\ NothingPosted
      BY <1>1, <1>2, <3>4, StopOfAdvance DEF RInv
    <3>5. ASSUME NEW w \in Waves, CancelCall(w) PROVE CancelsKept /\ NothingPosted
      BY <1>2, <3>5, StopOfOthers DEF RInv
    <3> QED BY <2>1, <3>1, <3>2, <3>3, <3>4, <3>5 DEF Work
  <2>2. CASE Environment
    <3>1. ASSUME NEW r \in Runs, Retry(r) \/ Cancel(r) \/ BreakConfiguration(r)
          PROVE  CancelsKept /\ NothingPosted
      BY <1>1, <1>2, <3>1, StopOfOperation DEF RInv
    <3>2. CASE RequestStop \/ \E r \in Runs, S \in SUBSET Jobs : StartRead(r, S)
      BY <1>1, <1>2, <3>2, StopOfStart DEF RInv
    <3>3. CASE FollowFails \/ \E w \in Waves : UploadFails(w)
      BY <1>1, <1>2, <3>3, StopOfAdvance DEF RInv
    <3>4. CASE ChangeProfile \/ \E j \in Jobs : EditJob(j) \/ ArchiveJob(j) \/ RescueJob(j)
      BY <1>2, <3>4, StopOfOthers DEF RInv
    <3> QED BY <2>2, <3>1, <3>2, <3>3, <3>4 DEF Environment
  <2>3. ASSUME NEW r \in Runs, Sync(r) PROVE CancelsKept /\ NothingPosted
    BY <1>1, <1>2, <2>3, StopOfOperation DEF RInv
  <2>4. CASE (\E w \in Waves : BatchEnds(w)) \/ Crash BY <1>2, <2>4, StopOfOthers DEF RInv
  <2> QED BY <1>2, <2>1, <2>2, <2>3, <2>4 DEF Next, Steps
<1>3. Init => RInv BY InitRInv
<1>4. RInv /\ [Next]_vars => RInv' BY NextRInv
<1> QED BY <1>2, <1>3, <1>4, PTL DEF Spec, StopIsFinal
=============================================================================
