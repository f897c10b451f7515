-------------------------- MODULE BatchItems_proof --------------------------
(***************************************************************************)
(* Theorems about what the runs of BatchAnalysis do with their offers: who *)
(* works on an offer, what is paid for and what is published.  They extend *)
(* RInv (what the coordinator has in hand) by what the items, the open     *)
(* waves and the response cache say of the offers: the invariant SInv.     *)
(***************************************************************************)
EXTENDS BatchAnalysis_proof

\* no item of a run that was never created, and a run being created is new
Born ==
    /\ At("reserve") => run[co.run].state = "none"
    /\ \A r \in Runs, j \in Jobs : run[r].state = "none" => item[r][j].state = "none"

\* a run that ended has nothing left to ask
Settled ==
    \A r \in Runs, j \in Jobs :
        run[r].state \in TerminalRunStates => item[r][j].state \notin PendingItemStates

\* what an item says of its offer
Items ==
    \A r \in Runs, j \in Jobs :
        /\ item[r][j].snap <= job[j].ver
        /\ item[r][j].state = "extraction_pending" => ~item[r][j].offer
        /\ item[r][j].state = "evaluation_pending" => item[r][j].offer
        /\ item[r][j].state = "completed" => job[j].state = "analyzed"

\* a run and a start in progress hold a profile that existed
Profiles == co.prof <= prof /\ \A r \in Runs : run[r].prof <= prof

\* the cache only holds answers of the phase they were asked in
CacheSound == \A e \in cache : e.verdict \in OutcomesOf[e.key[1]] \ {"failed"}

\* what an open wave asks is still to be asked, and is asked in its own words
WaveWanted(w) ==
    LET r == wave[w].run
        p == wave[w].phase
    IN  Open(w) => \A q \in wave[w].reqs :
            /\ q.key[1] = p
            /\ \A j \in q.items : /\ item[r][j].state = PendingOf[p]
                                  /\ Current(r, j) => q.key = RequestKey(r, p, j)

\* the open waves of a run are of one phase and share no request and no offer
Apart ==
    \A v, w \in Waves : Open(v) /\ Open(w) /\ wave[v].run = wave[w].run =>
        /\ wave[v].phase = wave[w].phase
        /\ \A q \in wave[v].reqs, s \in wave[w].reqs :
              q.key = s.key \/ q.items \cap s.items # {} => v = w /\ q = s

Wanted == \A w \in Waves : WaveWanted(w)

SInv ==
    /\ RInv /\ Born /\ Settled /\ Items /\ Profiles /\ CacheSound
    /\ ExclusiveReservation /\ Wanted /\ Apart

----------------------------------------------------------------------------
(* What a step may do to offers, runs and items.                           *)

\* an offer is only published or archived under its version, and stays published
JobMoves ==
    \A j \in Jobs :
        /\ job'[j].ver >= job[j].ver
        /\ job[j].state = "analyzed" => job'[j].state = "analyzed"
        /\ job'[j].ver = job[j].ver =>
              job'[j].body = job[j].body /\ (job'[j].state = "open" => job[j].state = "open")

\* no run begins, and one that ends has nothing left to ask
RunsGoOn ==
    \A r \in Runs :
        /\ run'[r].prof = run[r].prof
        /\ run'[r].state \in ActiveRunStates => run[r].state \in ActiveRunStates
        /\ run'[r].state = "none" <=> run[r].state = "none"
        /\ run'[r].state \in TerminalRunStates =>
              \/ run[r].state \in TerminalRunStates
              \/ \A j \in Jobs : item'[r][j].state \notin PendingItemStates

\* items only move while they are asked for, by a run that reserves them
ItemMoves ==
    \A r \in Runs, j \in Jobs : item'[r][j] # item[r][j] =>
        /\ run[r].state \in ActiveRunStates /\ item[r][j].state \in PendingItemStates
        /\ item'[r][j].snap = item[r][j].snap
        /\ item'[r][j].state = "extraction_pending" => ~item'[r][j].offer
        /\ item'[r][j].state = "evaluation_pending" => item'[r][j].offer
        /\ item'[r][j].state = "completed" => Current(r, j) /\ job'[j].state = "analyzed"

\* profiles only grow, and no start is begun
ProfilesGrow ==
    /\ prof' >= prof /\ co'.prof <= prof'
    /\ co'.pc = "reserve" => co.pc = "reserve" /\ co'.run = co.run

\* what is published now was current, and its offer is analysed
Published ==
    \A r \in Runs, j \in Jobs :
        item[r][j].state # "completed" /\ item'[r][j].state = "completed" =>
            Current(r, j) /\ job'[j].state = "analyzed"

Moves == JobMoves /\ RunsGoOn /\ ItemMoves /\ ProfilesGrow

\* no offer is reserved that was not
Stays == ReservedBy(Runs)' \subseteq ReservedBy(Runs)
Steady == Published /\ JobMoves /\ (Stays \/ StartCreate \/ \E r \in Runs : Retry(r))

\* states of items are not states of one another's kind
LEMMA PendingStates ==
    /\ PendingItemStates = {"screening_pending", "extraction_pending", "evaluation_pending"}
    /\ \A p \in Phases : PendingOf[p] \in PendingItemStates
    /\ ActiveRunStates \cap TerminalRunStates = {}
    /\ "none" \notin ActiveRunStates \cup TerminalRunStates
BY DEF PendingItemStates, PendingOf, Phases, ActiveRunStates, TerminalRunStates

\* the versions and profiles that are compared are numbers
LEMMA Numbers ==
    ASSUME TypeOK, NEW r \in Runs, NEW j \in Jobs
    PROVE  /\ job[j].ver \in Nat /\ item[r][j].snap \in Nat /\ run[r].prof \in Nat
           /\ prof \in Nat /\ co.prof \in Nat
BY DEF TypeOK, JobRecs, ItemRecs, RunRecs, CoRecs

\* such a step reserves no further offer
LEMMA MovesReserve ==
    ASSUME Moves
    PROVE  JobMoves /\ Stays
<1>1. "none" \notin PendingItemStates BY PendingStates
<1> QED BY <1>1 DEF Stays, ReservedBy, Moves, RunsGoOn, ItemMoves

\* what is current after such a step was current before, in the same words
LEMMA CurrentBefore ==
    ASSUME SInv, TypeOK', Moves, NEW r \in Runs, NEW j \in Jobs, Current(r, j)'
    PROVE  Current(r, j) /\ \A p : RequestKey(r, p, j)' = RequestKey(r, p, j)
<1>1. /\ job[j].ver \in Nat /\ item[r][j].snap \in Nat /\ run[r].prof \in Nat /\ prof \in Nat
      /\ job'[j].ver \in Nat /\ item'[r][j].snap \in Nat /\ prof' \in Nat
  BY Numbers DEF SInv, RInv, IInv, TypeOK, JobRecs, ItemRecs
<1>2. item'[r][j].snap = item[r][j].snap BY DEF Moves, ItemMoves
<1>3. item'[r][j].snap = job'[j].ver /\ job'[j].state = "open" /\ run'[r].prof = prof'
  BY DEF Current, Candidate
<1>4. item[r][j].snap <= job[j].ver /\ run[r].prof <= prof BY DEF SInv, Items, Profiles
<1>5. job'[j].ver >= job[j].ver /\ prof' >= prof /\ run'[r].prof = run[r].prof
  BY DEF Moves, JobMoves, RunsGoOn, ProfilesGrow
<1>6. job'[j].ver = job[j].ver /\ item[r][j].snap = job[j].ver
  BY <1>1, <1>2, <1>3, <1>4, <1>5
<1>7. run[r].prof = prof BY <1>1, <1>3, <1>4, <1>5
<1>8. job[j].state = "open" /\ job'[j].body = job[j].body
  BY <1>3, <1>6 DEF Moves, JobMoves
<1> QED BY <1>5, <1>6, <1>7, <1>8 DEF Current, Candidate, RequestKey

\* the invariants of items, runs and offers after such a step
LEMMA MovesKeep ==
    ASSUME SInv, TypeOK', Moves
    PROVE  Born' /\ Settled' /\ Items' /\ Profiles' /\ ExclusiveReservation'
<1> USE PendingStates DEF SInv, Moves
<1>0. TypeOK BY DEF RInv, IInv
<1>1. Born'
  <2>1. At("reserve")' => run'[co'.run].state = "none"
    <3> SUFFICES ASSUME co'.pc = "reserve" PROVE run'[co'.run].state = "none" BY DEF At
    <3>1. co.pc = "reserve" /\ co'.run = co.run BY DEF ProfilesGrow
    <3>2. co.run \in Runs /\ run[co.run].state = "none"
      BY <3>1 DEF Born, At, RInv, IInv, JournalInv
    <3> QED BY <3>1, <3>2 DEF RunsGoOn
  <2>2. ASSUME NEW r \in Runs, NEW j \in Jobs, run'[r].state = "none"
        PROVE  item'[r][j].state = "none"
    BY <2>2 DEF RunsGoOn, ItemMoves, Born
  <2> QED BY <2>1, <2>2 DEF Born
<1>2. Settled' BY DEF Settled, RunsGoOn, ItemMoves
<1>3. Items'
  <2> SUFFICES ASSUME NEW r \in Runs, NEW j \in Jobs
               PROVE  /\ item'[r][j].snap <= job'[j].ver
                      /\ item'[r][j].state = "extraction_pending" => ~item'[r][j].offer
                      /\ item'[r][j].state = "evaluation_pending" => item'[r][j].offer
                      /\ item'[r][j].state = "completed" => job'[j].state = "analyzed"
    BY DEF Items
  <2>1. item'[r][j].snap = item[r][j].snap BY DEF ItemMoves
  <2>2. job[j].ver \in Nat /\ job'[j].ver \in Nat /\ item[r][j].snap \in Nat
    BY <1>0 DEF TypeOK, JobRecs, ItemRecs
  <2>3. item'[r][j].snap <= job'[j].ver BY <2>1, <2>2 DEF Items, JobMoves
  <2>4. CASE item'[r][j] = item[r][j] BY <2>3, <2>4 DEF Items, JobMoves
  <2>5. CASE item'[r][j] # item[r][j] BY <2>3, <2>5 DEF ItemMoves
  <2> QED BY <2>4, <2>5
<1>4. Profiles'
  <2>1. ASSUME NEW r \in Runs PROVE run'[r].prof <= prof'
    <3>1. run[r].prof \in Nat /\ prof \in Nat /\ prof' \in Nat BY <1>0 DEF TypeOK, RunRecs
    <3> QED BY <3>1 DEF Profiles, RunsGoOn, ProfilesGrow
  <2> QED BY <2>1 DEF Profiles, ProfilesGrow
<1>5. ExclusiveReservation'
  <2>1. ASSUME NEW r \in Runs, NEW j \in Jobs, Works(r, j)' PROVE Works(r, j)
    BY <2>1 DEF Works, RunsGoOn, ItemMoves
  <2>2. ASSUME NEW r \in Runs, NEW s \in Runs, NEW j \in Jobs, r # s,
               item'[r][j].state = "completed", item[r][j].state # "completed"
        PROVE  item'[s][j].state # "completed"
    <3>1. Current(r, j) BY <2>2 DEF ItemMoves
    <3>2. job[j].state = "open" BY <3>1 DEF Current, Candidate
    <3>3. item[s][j].state # "completed" BY <3>2 DEF Items
    <3>4. SUFFICES ASSUME item'[s][j].state = "completed" PROVE FALSE OBVIOUS
    <3>5. Works(r, j) BY <2>2 DEF ItemMoves, Works
    <3>6. Works(s, j) BY <3>3, <3>4 DEF ItemMoves, Works
    <3> QED BY <2>2, <3>5, <3>6 DEF ExclusiveReservation
  <2>3. ASSUME NEW r \in Runs, NEW s \in Runs, NEW j \in Jobs, r # s
        PROVE  ~(Works(r, j)' /\ Works(s, j)')
    BY <2>1, <2>3 DEF ExclusiveReservation
  <2>4. ASSUME NEW r \in Runs, NEW s \in Runs, NEW j \in Jobs, r # s
        PROVE  ~(item'[r][j].state = "completed" /\ item'[s][j].state = "completed")
    BY <2>2, <2>4 DEF ExclusiveReservation
  <2> QED BY <2>3, <2>4 DEF ExclusiveReservation
<1> QED BY <1>1, <1>2, <1>3, <1>4, <1>5

----------------------------------------------------------------------------
(* What a step may do to open waves.                                       *)

\* an open wave was open, for the same run and phase, and only loses offers
Narrows(w) ==
    Open(w)' =>
        /\ Open(w) /\ wave'[w].run = wave[w].run /\ wave'[w].phase = wave[w].phase
        /\ \E K \in SUBSET Jobs : \A q \in wave'[w].reqs : \E s \in wave[w].reqs :
              q.key = s.key /\ q.items = s.items \cap K

\* the offers it still asks for wait where they were, and ask in the same words
Serves(w) ==
    \A r \in Runs, j \in Jobs : Open(w)' /\ wave[w].run = r /\ j \in ItemsOf(w)' =>
        /\ item'[r][j].state = item[r][j].state
        /\ Current(r, j)' => Current(r, j) /\ \A p : RequestKey(r, p, j)' = RequestKey(r, p, j)

WavesKeep == \A w \in Waves : Narrows(w) /\ Serves(w)

\* the requests of a wave are keyed sets of offers
LEMMA ReqsType ==
    ASSUME TypeOK, NEW w \in Waves, NEW q \in wave[w].reqs
    PROVE  q \in [key : Keys, items : SUBSET Jobs] /\ q.items \subseteq ItemsOf(w)
BY DEF TypeOK, WaveRecs, Requests, ItemsOf

\* waves that only shrink go on asking what is to be asked, apart from one another
LEMMA WavesStay ==
    ASSUME SInv, RInv', WavesKeep
    PROVE  Wanted' /\ Apart'
<1>0. TypeOK /\ TypeOK' BY DEF SInv, RInv, IInv
<1>1. ASSUME NEW w \in Waves, Open(w)', NEW q \in wave'[w].reqs
      PROVE  \E s \in wave[w].reqs : q.key = s.key /\ q.items \subseteq s.items
  BY <1>1 DEF WavesKeep, Narrows
<1>2. ASSUME NEW w \in Waves PROVE WaveWanted(w)'
  <2> SUFFICES ASSUME Open(w)', NEW q \in wave'[w].reqs
               PROVE  /\ q.key[1] = wave'[w].phase
                      /\ \A j \in q.items :
                            /\ item'[wave'[w].run][j].state = PendingOf[wave'[w].phase]
                            /\ Current(wave[w].run, j)' => q.key = RequestKey(wave[w].run, wave[w].phase, j)'
    BY DEF WaveWanted
  <2>1. /\ Open(w) /\ wave'[w].run = wave[w].run /\ wave'[w].phase = wave[w].phase
        /\ wave[w].run \in Runs
    BY <1>0 DEF WavesKeep, Narrows, SInv, RInv, FollowInv
  <2>2. PICK s \in wave[w].reqs : q.key = s.key /\ q.items \subseteq s.items BY <1>1
  <2>3. q.items \subseteq Jobs /\ q.items \subseteq ItemsOf(w)' BY <1>0, ReqsType DEF TypeOK, WaveRecs, Requests, ItemsOf
  <2>4. s.key[1] = wave[w].phase BY <2>1 DEF SInv, Wanted, WaveWanted
  <2> DEFINE r == wave[w].run
             p == wave[w].phase
  <2>5. ASSUME NEW j \in q.items
        PROVE  /\ item'[wave'[w].run][j].state = PendingOf[wave'[w].phase]
               /\ Current(wave[w].run, j)' => q.key = RequestKey(wave[w].run, wave[w].phase, j)'
    <3>1. PICK rr \in Runs : rr = wave[w].run BY <2>1
    <3>2. PICK pp \in Phases : pp = wave[w].phase BY <1>0 DEF TypeOK, WaveRecs
    <3>3. j \in s.items /\ j \in Jobs /\ j \in ItemsOf(w)' BY <2>2, <2>3
    <3>4. item[rr][j].state = PendingOf[pp] /\ (Current(rr, j) => s.key = RequestKey(rr, pp, j))
      BY <2>1, <3>1, <3>2, <3>3 DEF SInv, Wanted, WaveWanted
    <3>5. /\ item'[rr][j].state = item[rr][j].state
          /\ Current(rr, j)' => Current(rr, j) /\ RequestKey(rr, pp, j)' = RequestKey(rr, pp, j)
      BY <3>1, <3>3 DEF WavesKeep, Serves
    <3>6. Current(rr, j)' => q.key = RequestKey(rr, pp, j)' BY <2>2, <3>4, <3>5
    <3>7. wave'[w].run = rr /\ wave'[w].phase = pp BY <2>1, <3>1, <3>2
    <3> QED BY <3>4, <3>5, <3>6, <3>7 DEF Current, RequestKey, Candidate
  <2> QED BY <2>1, <2>2, <2>4, <2>5
<1>3. Apart'
  <2> SUFFICES ASSUME NEW v \in Waves, NEW w \in Waves, Open(v)', Open(w)', wave'[v].run = wave'[w].run
               PROVE  /\ wave'[v].phase = wave'[w].phase
                      /\ \A q \in wave'[v].reqs, s \in wave'[w].reqs :
                            q.key = s.key \/ q.items \cap s.items # {} => v = w /\ q = s
    BY DEF Apart
  <2>1. /\ Open(v) /\ Open(w) /\ wave[v].run = wave[w].run
        /\ wave'[v].phase = wave[v].phase /\ wave'[w].phase = wave[w].phase
    BY DEF WavesKeep, Narrows
  <2>2. ASSUME NEW q \in wave'[v].reqs, NEW s \in wave'[w].reqs,
               q.key = s.key \/ q.items \cap s.items # {}
        PROVE  v = w /\ q = s
    <3>1. PICK q0 \in wave[v].reqs : q.key = q0.key /\ q.items \subseteq q0.items BY <1>1
    <3>2. PICK s0 \in wave[w].reqs : s.key = s0.key /\ s.items \subseteq s0.items BY <1>1
    <3>3. q0.key = s0.key \/ q0.items \cap s0.items # {} BY <2>2, <3>1, <3>2
    <3>4. v = w /\ q0 = s0 BY <2>1, <3>3 DEF SInv, Apart
    <3>5. PICK K \in SUBSET Jobs : \A a \in wave'[w].reqs : \E b \in wave[w].reqs :
              a.key = b.key /\ a.items = b.items \cap K
      BY DEF WavesKeep, Narrows
    <3>6. PICK b \in wave[w].reqs : q.key = b.key /\ q.items = b.items \cap K BY <3>4, <3>5
    <3>7. PICK c \in wave[w].reqs : s.key = c.key /\ s.items = c.items \cap K BY <3>5
    <3>8. b = q0 /\ c = q0
      <4>1. \A x, y \in wave[w].reqs : x.key = y.key => x = y BY <2>1 DEF SInv, Apart
      <4>2. q0 \in wave[w].reqs BY <3>4
      <4>3. b.key = q0.key /\ c.key = q0.key BY <3>1, <3>2, <3>4, <3>6, <3>7
      <4> QED BY <4>1, <4>2, <4>3
    <3>9. q.key = s.key /\ q.items = s.items BY <3>6, <3>7, <3>8
    <3>10. q \in [key : Keys, items : SUBSET Jobs] /\ s \in [key : Keys, items : SUBSET Jobs]
      BY <1>0 DEF TypeOK, WaveRecs, Requests
    <3> QED BY <3>4, <3>9, <3>10
  <2> QED BY <2>1, <2>2 DEF SInv, Apart
<1> QED BY <1>2, <1>3 DEF Wanted

\* a step that moves items, offers, runs and waves as it may
LEMMA Keeps ==
    ASSUME SInv, RInv', Moves, WavesKeep, CacheSound'
    PROVE  SInv' /\ Published /\ JobMoves /\ Stays
<1>1. TypeOK' BY DEF RInv, IInv
<1>2. Published BY DEF Moves, ItemMoves, Published
<1> QED BY <1>1, <1>2, MovesReserve, MovesKeep, WavesStay DEF SInv

\* such a step serves the waves whose items it leaves
LEMMA ServesByMoves ==
    ASSUME SInv, TypeOK', Moves, NEW w \in Waves,
           \A r \in Runs, j \in Jobs : Open(w)' /\ wave[w].run = r /\ j \in ItemsOf(w)' =>
               item'[r][j].state = item[r][j].state
    PROVE  Serves(w)
BY CurrentBefore DEF Serves

\* a wave whose requests are left, if it is still open
LEMMA SameNarrows ==
    ASSUME TypeOK, NEW w \in Waves,
           Open(w)' => /\ Open(w) /\ wave'[w].run = wave[w].run
                       /\ wave'[w].phase = wave[w].phase /\ wave'[w].reqs = wave[w].reqs
    PROVE  Narrows(w)
<1>1. \A s \in wave[w].reqs : s.items \cap Jobs = s.items BY ReqsType
<1> QED BY <1>1 DEF Narrows

\* a step that leaves items and the requests of open waves
LEMMA Controls ==
    ASSUME SInv, RInv', Moves, UNCHANGED <<item, cache>>,
           \A w \in Waves : Open(w)' => /\ Open(w) /\ wave'[w].run = wave[w].run
                                        /\ wave'[w].phase = wave[w].phase
                                        /\ wave'[w].reqs = wave[w].reqs
    PROVE  SInv' /\ Published /\ JobMoves /\ Stays
<1>0. TypeOK /\ TypeOK' BY DEF SInv, RInv, IInv
<1>1. \A w \in Waves : Narrows(w) BY <1>0, SameNarrows
<1>2. \A w \in Waves : Serves(w) BY <1>0, ServesByMoves
<1>3. CacheSound' BY DEF SInv, CacheSound
<1> QED BY <1>1, <1>2, <1>3, Keeps DEF WavesKeep

\* a step that writes the wave in hand and the items of its requests
LEMMA WritesWave ==
    ASSUME SInv, RInv', Moves, CacheSound', NEW w \in Waves, Open(w), NEW rec,
           wave' = [wave EXCEPT ![w] = rec],
           Narrows(w),
           \A r \in Runs, j \in Jobs : item'[r][j].state # item[r][j].state =>
               r = wave[w].run /\ j \in ItemsOf(w),
           \A r \in Runs, j \in Jobs : Open(w)' /\ wave[w].run = r /\ j \in ItemsOf(w)' =>
               item'[r][j].state = item[r][j].state
    PROVE  SInv' /\ Published /\ JobMoves /\ Stays
<1>0. TypeOK /\ TypeOK' BY DEF SInv, RInv, IInv
<1>1. ASSUME NEW v \in Waves PROVE Narrows(v) /\ Serves(v)
  <2>1. CASE v = w BY <1>0, <2>1, ServesByMoves
  <2>2. CASE v # w
    <3>1. wave'[v] = wave[v] BY <1>0, <2>2 DEF TypeOK
    <3>2. Narrows(v) BY <1>0, <3>1, SameNarrows DEF Open
    <3>3. ASSUME NEW r \in Runs, NEW j \in Jobs, Open(v)', wave[v].run = r, j \in ItemsOf(v)'
          PROVE  item'[r][j].state = item[r][j].state
      <4> SUFFICES ASSUME r = wave[w].run, j \in ItemsOf(w) PROVE FALSE OBVIOUS
      <4>1. Open(v) BY <3>1, <3>3 DEF Open
      <4>2. PICK q \in wave[v].reqs : j \in q.items BY <3>1, <3>3 DEF ItemsOf
      <4>3. PICK s \in wave[w].reqs : j \in s.items BY DEF ItemsOf
      <4> QED BY <2>2, <3>3, <4>1, <4>2, <4>3 DEF SInv, Apart
    <3> QED BY <1>0, <3>2, <3>3, ServesByMoves
  <2> QED BY <2>1, <2>2
<1> QED BY <1>1, Keeps DEF WavesKeep
----------------------------------------------------------------------------
(* Steps that only move the operation, its run and the state of waves.     *)

\* the writes of a run that leave it active
LEMMA GoesOnByWrite ==
    ASSUME TypeOK, NEW q \in Runs, run[q].state \in ActiveRunStates,
           \/ run' = run
           \/ \E s \in ActiveRunStates : \E e : run' = [run EXCEPT ![q].state = s, ![q].err = e]
           \/ \E s \in ActiveRunStates : \E e : run' = [run EXCEPT ![q].err = e, ![q].state = s]
           \/ \E s \in ActiveRunStates : run' = [run EXCEPT ![q].state = s]
           \/ \E e : run' = [run EXCEPT ![q].err = e]
           \/ \E c : run' = [run EXCEPT ![q].cancel = c]
    PROVE  RunsGoOn
<1>1. run[q] \in RunRecs /\ run \in [Runs -> RunRecs] BY DEF TypeOK
<1>2. run'[q].prof = run[q].prof /\ run'[q].state \in ActiveRunStates BY ZenonT(30), <1>1 DEF RunRecs
<1>3. \A r \in Runs : r # q => run'[r] = run[r] BY <1>1
<1>4. ASSUME NEW r \in Runs
      PROVE  /\ run'[r].prof = run[r].prof
             /\ run'[r].state \in ActiveRunStates => run[r].state \in ActiveRunStates
             /\ run'[r].state = "none" <=> run[r].state = "none"
             /\ run'[r].state \in TerminalRunStates => run[r].state \in TerminalRunStates
  <2>1. CASE r = q BY <1>2, <2>1, PendingStates
  <2>2. CASE r # q BY <1>3, <2>2
  <2> QED BY <2>1, <2>2
<1> QED BY <1>4 DEF RunsGoOn

\* runs whose state and profile are left
LEMMA GoesOnBySame ==
    ASSUME \A r \in Runs : run'[r].state = run[r].state /\ run'[r].prof = run[r].prof
    PROVE  RunsGoOn
BY DEF RunsGoOn

\* an operation that ends, goes on or is replaced begins no start
LEMMA CoEnds ==
    ASSUME co \in CoRecs
    PROVE  /\ Returned.prof \in {co.prof, 0} /\ Returned.pc # "reserve"
           /\ IdleCo.prof = 0 /\ IdleCo.pc # "reserve"
           /\ \A o, r : Advancing(o, r).prof = 0 /\ Advancing(o, r).pc # "reserve"
           /\ \A w \in Waves, wait \in BOOLEAN : Continue(w, wait) =>
                 co'.prof \in {co.prof, 0} /\ co'.pc # "reserve"
<1>1. IdleCo.prof = 0 /\ IdleCo.pc # "reserve" BY DEF IdleCo
<1>2. Returned.prof \in {co.prof, 0} /\ Returned.pc # "reserve"
  <2>1. CASE co.op = "start" BY <2>1 DEF Returned, CoRecs
  <2>2. CASE co.op # "start" BY <2>2, <1>1 DEF Returned
  <2> QED BY <2>1, <2>2
<1>3. ASSUME NEW o, NEW r PROVE Advancing(o, r).prof = 0 /\ Advancing(o, r).pc # "reserve"
  BY DEF Advancing, IdleCo
<1>4. ASSUME NEW w \in Waves, NEW wait \in BOOLEAN, Continue(w, wait)
      PROVE  co'.prof \in {co.prof, 0} /\ co'.pc # "reserve"
  <2>1. CASE co.todo \ {w} # {} BY <1>4, <2>1 DEF Continue, CoRecs
  <2>2. CASE co.todo \ {w} = {} /\ (co.waiting \/ wait) BY <1>2, <1>4, <2>2 DEF Continue
  <2>3. CASE co.todo \ {w} = {} /\ ~(co.waiting \/ wait) BY <1>4, <2>3 DEF Continue, CoRecs
  <2> QED BY <2>1, <2>2, <2>3
<1> QED BY <1>1, <1>2, <1>3, <1>4

\* the profile is left and no start is begun
CoStays == /\ prof' = prof /\ co'.prof \in {co.prof, 0}
           /\ co'.pc = "reserve" => co.pc = "reserve" /\ co'.run = co.run

\* ... then the profile of the next run is still the one in hand
LEMMA GrowsByStay ==
    ASSUME SInv, CoStays
    PROVE  ProfilesGrow
<1>1. prof \in Nat /\ co.prof \in Nat /\ co.prof <= prof
  BY DEF SInv, RInv, IInv, TypeOK, CoRecs, Profiles
<1> QED BY <1>1 DEF ProfilesGrow, CoStays

\* such a step leaves items and offers
LEMMA ControlMoves ==
    ASSUME SInv, UNCHANGED <<job, item>>, RunsGoOn, CoStays
    PROVE  Moves
<1>1. \A j \in Jobs : job[j].ver \in Nat BY DEF SInv, RInv, IInv, TypeOK, JobRecs
<1>2. JobMoves BY <1>1 DEF JobMoves
<1> QED BY <1>2, GrowsByStay DEF Moves, ItemMoves

\* ... and keeps the invariant
LEMMA ControlStep ==
    ASSUME SInv, RInv', UNCHANGED <<job, item, cache>>, RunsGoOn, CoStays,
           \A w \in Waves : Open(w)' => /\ Open(w) /\ wave'[w].run = wave[w].run
                                        /\ wave'[w].phase = wave[w].phase
                                        /\ wave'[w].reqs = wave[w].reqs
    PROVE  SInv' /\ Published /\ JobMoves /\ Stays
BY ControlMoves, Controls

\* ... when waves are left too
LEMMA QuietControlStep ==
    ASSUME SInv, RInv', UNCHANGED <<job, item, cache, wave>>, RunsGoOn, CoStays
    PROVE  SInv' /\ Published /\ JobMoves /\ Stays
BY ControlStep DEF Open

\* the control steps of start
LEMMA StartKeeps ==
    ASSUME SInv, RInv', StartRefused \/ StartAdvance \/ StartFollowUp \/ RequestStop
    PROVE  SInv' /\ Published /\ JobMoves /\ Stays
<1>0. TypeOK /\ co \in CoRecs BY DEF SInv, RInv, IInv, TypeOK
<1>1. UNCHANGED <<job, prof, item, cache, wave>>
  BY DEF StartRefused, StartAdvance, StartFollowUp, RequestStop
<1>2. CASE StartRefused
  <2>1. CoStays BY <1>0, <1>1, <1>2, CoEnds DEF StartRefused, CoStays
  <2>2. RunsGoOn BY <1>0, <1>2, GoesOnBySame DEF StartRefused
  <2> QED BY <1>1, <2>1, <2>2, QuietControlStep
<1>3. CASE StartAdvance
  <2>1. co.run \in Runs /\ run[co.run].state \in ActiveRunStates
    BY <1>3 DEF StartAdvance, At, SInv, RInv, IInv, JournalInv, FollowInv
  <2>2. \E c : run' = [run EXCEPT ![co.run].cancel = c]
    BY <1>3 DEF StartAdvance
  <2>3. RunsGoOn BY <1>0, <2>1, <2>2, GoesOnByWrite
  <2>4. CoStays BY <1>0, <1>1, <1>3 DEF StartAdvance, CoStays, CoRecs
  <2> QED BY <1>1, <2>3, <2>4, QuietControlStep
<1>4. CASE StartFollowUp
  <2>1. co.run \in Runs BY <1>4 DEF StartFollowUp, At, SInv, RInv, IInv, JournalInv
  <2>2. \/ /\ run[co.run].state \in ActiveRunStates
           /\ run' = [run EXCEPT ![co.run].cancel = TRUE] /\ co' = Advancing("cancel", co.run)
        \/ run' = run /\ co' = IdleCo
    BY <1>4, Zenon DEF StartFollowUp
  <2>3. CoStays BY <1>0, <1>1, <2>2, CoEnds DEF CoStays
  <2>4. RunsGoOn BY <1>0, <2>1, <2>2, GoesOnByWrite, GoesOnBySame
  <2> QED BY <1>1, <2>3, <2>4, QuietControlStep
<1>5. CASE RequestStop
  <2>1. CoStays BY <1>0, <1>1, <1>5 DEF RequestStop, CoStays, CoRecs
  <2>2. RunsGoOn BY <1>5, GoesOnBySame DEF RequestStop
  <2> QED BY <1>1, <2>1, <2>2, QuietControlStep
<1> QED BY <1>2, <1>3, <1>4, <1>5

\* following, cancelling and resuming a run, and an upgrade
LEMMA OperationKeeps ==
    ASSUME SInv, RInv', NEW r \in Runs,
           \/ Sync(r) \/ Cancel(r) \/ BreakConfiguration(r)
           \/ Retry(r) /\ run[r].state \notin TerminalRunStates
    PROVE  SInv' /\ Published /\ JobMoves /\ Stays
<1>0. TypeOK /\ co \in CoRecs /\ run \in [Runs -> RunRecs] BY DEF SInv, RInv, IInv, TypeOK
<1>1. UNCHANGED <<job, prof, item, cache, wave>>
  BY PendingStates DEF Sync, Cancel, BreakConfiguration, Retry
<1>2. CASE Sync(r)
  <2>1. CoStays BY <1>0, <1>1, <1>2, CoEnds DEF Sync, CoStays
  <2>2. RunsGoOn BY <1>2, GoesOnBySame DEF Sync
  <2> QED BY <1>1, <2>1, <2>2, QuietControlStep
<1>3. CASE Cancel(r)
  <2>1. CoStays BY <1>0, <1>1, <1>3, CoEnds DEF Cancel, CoStays
  <2>2. RunsGoOn BY <1>0, <1>3, GoesOnByWrite DEF Cancel
  <2> QED BY <1>1, <2>1, <2>2, QuietControlStep
<1>4. CASE BreakConfiguration(r)
  <2>1. CoStays BY <1>0, <1>1, <1>4 DEF BreakConfiguration, CoStays, CoRecs
  <2>2. \A q \in Runs : run'[q].state = run[q].state /\ run'[q].prof = run[q].prof
    BY <1>0, <1>4 DEF BreakConfiguration, RunRecs
  <2>3. RunsGoOn BY <2>2, GoesOnBySame
  <2> QED BY <1>1, <2>1, <2>3, QuietControlStep
<1>5. CASE Retry(r) /\ run[r].state \notin TerminalRunStates
  <2>1. CoStays BY <1>0, <1>1, <1>5, CoEnds DEF Retry, CoStays
  <2>2. \/ run' = run
        \/ /\ run[r].state = "blocked"
           /\ run' = [run EXCEPT ![r].state = "active", ![r].err = "none"]
    BY <1>5 DEF Retry
  <2>3. "blocked" \in ActiveRunStates /\ "active" \in ActiveRunStates BY DEF ActiveRunStates
  <2>4. RunsGoOn BY <1>0, <2>2, <2>3, GoesOnByWrite, GoesOnBySame
  <2> QED BY <1>1, <2>1, <2>4, QuietControlStep
<1> QED BY <1>2, <1>3, <1>4, <1>5

\* the steps of _advance that leave every wave
LEMMA AdvanceKeeps ==
    ASSUME SInv, RInv',
           \/ PassStops \/ PassWaves \/ UploadOk \/ FollowFails \/ Crash
           \/ \E p \in Phases : PrepareFrozen(p)
           \/ \E w \in Waves :
                 \/ \E answer \in {"posted", "unsure", "rejected"} : Post(w, answer)
                 \/ CreateUnsure(w) \/ RefreshFrozen(w) \/ RefreshMissing(w)
                 \/ CancelRefused(w) \/ BatchEnds(w)
                 \/ UploadFails(w) /\ wave[w].phase # "screening"
    PROVE  SInv' /\ Published /\ JobMoves /\ Stays
<1>0. TypeOK /\ co \in CoRecs BY DEF SInv, RInv, IInv, TypeOK
<1>1. UNCHANGED <<job, prof, item, cache, wave>>
  BY DEF PassStops, PassWaves, UploadOk, FollowFails, Crash, PrepareFrozen, Post, CreateUnsure,
         RefreshFrozen, RefreshMissing, CancelRefused, BatchEnds, UploadFails
<1>2. \/ co' = Returned \/ co' = IdleCo \/ co' = co
      \/ \E w \in Waves : Continue(w, TRUE)
      \/ co'.prof = co.prof /\ co'.pc # "reserve"
  BY <1>0 DEF PassStops, PassWaves, UploadOk, FollowFails, Crash, PrepareFrozen, Post, CreateUnsure,
         RefreshFrozen, RefreshMissing, CancelRefused, BatchEnds, UploadFails, Raise, RaiseFrozen,
         CoRecs
<1>3. CoStays BY <1>0, <1>1, <1>2, CoEnds DEF CoStays
<1>4. CASE Crash \/ UploadOk \/ PassWaves
           \/ \E w \in Waves : BatchEnds(w)
                               \/ \E answer \in {"posted", "unsure", "rejected"} : Post(w, answer)
  <2>1. RunsGoOn BY <1>4, GoesOnBySame DEF Crash, UploadOk, PassWaves, BatchEnds, Post
  <2> QED BY <1>1, <1>3, <2>1, QuietControlStep
<1>5. CASE \/ PassStops \/ FollowFails
           \/ \E p \in Phases : PrepareFrozen(p)
           \/ \E w \in Waves : \/ CreateUnsure(w) \/ RefreshFrozen(w) \/ RefreshMissing(w)
                               \/ CancelRefused(w)
                               \/ UploadFails(w) /\ wave[w].phase # "screening"
  <2>1. co.pc \notin {"idle", "reserve", "followup"}
    BY <1>5 DEF PassStops, FollowFails, PrepareFrozen, PassIdle, InPass, CreateUnsure, RefreshFrozen,
           RefreshMissing, CancelRefused, UploadFails, Refreshing, At
  <2>2. co.run \in Runs /\ run[co.run].state \in ActiveRunStates
    BY <2>1 DEF SInv, RInv, IInv, JournalInv, FollowInv, At
  <2>3. "blocked" \in ActiveRunStates /\ "attention" \in ActiveRunStates BY DEF ActiveRunStates
  <2>4. \/ run' = run
        \/ \E s \in ActiveRunStates : \E e : run' = [run EXCEPT ![co.run].state = s, ![co.run].err = e]
        \/ \E s \in ActiveRunStates : \E e : run' = [run EXCEPT ![co.run].err = e, ![co.run].state = s]
        \/ \E s \in ActiveRunStates : run' = [run EXCEPT ![co.run].state = s]
        \/ \E e : run' = [run EXCEPT ![co.run].err = e]
    BY <1>5, <2>3 DEF PassStops, FollowFails, PrepareFrozen, CreateUnsure, RefreshFrozen,
           RefreshMissing, CancelRefused, UploadFails, Raise, RaiseFrozen
  <2>5. RunsGoOn BY <1>0, <2>2, <2>4, GoesOnByWrite
  <2> QED BY <1>1, <1>3, <2>5, QuietControlStep
<1> QED BY <1>4, <1>5

\* the steps that only write the state of the wave in hand
LEMMA WaveStateKeeps ==
    ASSUME SInv, RInv', NEW w \in Waves,
           Abandon(w) \/ Created(w) \/ RefreshFound(w) \/ CancelCall(w)
    PROVE  SInv' /\ Published /\ JobMoves /\ Stays
<1>0. TypeOK /\ co \in CoRecs /\ wave \in [Waves -> WaveRecs] BY DEF SInv, RInv, IInv, TypeOK
<1>1. UNCHANGED <<job, prof, item, cache>>
  BY DEF Abandon, Created, RefreshFound, CancelCall
<1>2. Handling(w) /\ co.pc \notin {"idle", "reserve", "followup"}
  BY DEF Abandon, Created, RefreshFound, CancelCall, Refreshing, At
<1>3. Open(w) /\ co.run \in Runs /\ run[co.run].state \in ActiveRunStates /\ wave[w] \in WaveRecs
  BY <1>2, OnWave DEF SInv, RInv, FollowInv
<1>4. \/ co'.prof = co.prof /\ co'.pc # "reserve"
      \/ Continue(w, TRUE) \/ Continue(w, FALSE)
  BY <1>0 DEF Abandon, Created, RefreshFound, CancelCall, CoRecs
<1>5. CoStays BY <1>0, <1>1, <1>4, CoEnds DEF CoStays
<1>6. "active" \in ActiveRunStates BY DEF ActiveRunStates
<1>7. \/ run' = run
      \/ \E s \in ActiveRunStates : \E e : run' = [run EXCEPT ![co.run].state = s, ![co.run].err = e]
  BY <1>6 DEF Abandon, Created, RefreshFound, CancelCall, SaveSnapshot
<1>8. RunsGoOn BY <1>0, <1>3, <1>7, GoesOnByWrite
<1>9. \/ \E s : wave' = [wave EXCEPT ![w].state = s]
      \/ \E s : wave' = [wave EXCEPT ![w].batch = TRUE, ![w].state = s]
  BY DEF Abandon, Created, RefreshFound, CancelCall, SaveSnapshot
<1>10. /\ wave'[w].run = wave[w].run /\ wave'[w].phase = wave[w].phase /\ wave'[w].reqs = wave[w].reqs
       /\ \A v \in Waves : v # w => wave'[v] = wave[v]
  BY <1>0, <1>3, <1>9 DEF WaveRecs
<1>11. \A v \in Waves : Open(v)' => /\ Open(v) /\ wave'[v].run = wave[v].run
                                    /\ wave'[v].phase = wave[v].phase
                                    /\ wave'[v].reqs = wave[v].reqs
  BY <1>3, <1>10 DEF Open
<1> QED BY <1>1, <1>5, <1>8, <1>11, ControlStep

\* edits of offers and of the profile
LEMMA EditKeeps ==
    ASSUME SInv, RInv', ChangeProfile \/ \E j \in Jobs : EditJob(j) \/ ArchiveJob(j) \/ RescueJob(j)
    PROVE  SInv' /\ Published /\ JobMoves /\ Stays
<1>0. TypeOK /\ job \in [Jobs -> JobRecs] /\ prof \in Nat /\ co \in CoRecs
  BY DEF SInv, RInv, IInv, TypeOK
<1>1. UNCHANGED <<run, item, cache, wave, co>>
  BY DEF ChangeProfile, EditJob, ArchiveJob, RescueJob
<1>2. JobMoves
  <2>0. \A k \in Jobs : job[k].ver \in Nat /\ job[k] \in JobRecs BY <1>0 DEF JobRecs
  <2>1. CASE ChangeProfile BY <2>0, <2>1 DEF ChangeProfile, JobMoves
  <2>2. ASSUME NEW j \in Jobs, EditJob(j) \/ ArchiveJob(j) \/ RescueJob(j) PROVE JobMoves
    <3>1. \A k \in Jobs : k # j => job'[k] = job[k]
      BY <1>0, <2>2 DEF EditJob, ArchiveJob, RescueJob
    <3>2. job'[j].ver = job[j].ver + 1 /\ (job[j].state = "analyzed" => job'[j].state = "analyzed")
      <4>1. job[j] \in JobRecs BY <1>0
      <4>2. CASE EditJob(j)
        <5>1. job'[j] = [job[j] EXCEPT !.ver = job[j].ver + 1, !.body = job[j].body + 1]
          BY <1>0, <4>2 DEF EditJob
        <5> QED BY <4>1, <5>1 DEF JobRecs
      <4>3. CASE ArchiveJob(j) BY <1>0, <4>1, <4>3 DEF ArchiveJob, JobRecs
      <4>4. CASE RescueJob(j)
        <5>1. job'[j] = [job[j] EXCEPT !.state = "open", !.kept = TRUE, !.ver = job[j].ver + 1]
          BY <1>0, <4>4 DEF RescueJob
        <5> QED BY <4>1, <4>4, <5>1 DEF JobRecs, RescueJob
      <4> QED BY <2>2, <4>2, <4>3, <4>4
    <3> QED BY <2>0, <3>1, <3>2 DEF JobMoves
  <2> QED BY <2>1, <2>2
<1>3. ProfilesGrow
  <2>1. prof' = prof \/ prof' = prof + 1 BY DEF ChangeProfile, EditJob, ArchiveJob, RescueJob
  <2>2. co.prof <= prof /\ co.prof \in Nat BY <1>0 DEF SInv, Profiles, CoRecs
  <2> QED BY <1>0, <1>1, <2>1, <2>2 DEF ProfilesGrow
<1>4. RunsGoOn BY <1>1, GoesOnBySame
<1>5. Moves BY <1>1, <1>2, <1>3, <1>4 DEF Moves, ItemMoves
<1> QED BY <1>1, <1>5, Controls DEF Open

\* the end of a run: nothing is left to ask
LEMMA FinishKeeps ==
    ASSUME SInv, RInv', Finish \/ FinishCancel
    PROVE  SInv' /\ Published /\ JobMoves /\ Stays
<1>0. /\ TypeOK /\ co \in CoRecs /\ run \in [Runs -> RunRecs] /\ item \in [Runs -> [Jobs -> ItemRecs]]
      /\ job \in [Jobs -> JobRecs] /\ TypeOK'
  BY DEF SInv, RInv, IInv, TypeOK
<1>1. UNCHANGED <<job, prof, cache, wave>> /\ co' = Returned /\ co.pc = "pass"
      /\ OpenWaves(co.run) = {}
  BY DEF Finish, FinishCancel, PassIdle, InPass, At
<1>2. co.run \in Runs /\ run[co.run].state \in ActiveRunStates
  BY <1>1 DEF SInv, RInv, IInv, JournalInv, FollowInv, At
<1>3. CoStays BY <1>0, <1>1, CoEnds DEF CoStays
<1>4. /\ run[co.run] \in RunRecs
      /\ \A r \in Runs : r # co.run => run'[r] = run[r] /\ item'[r] = item[r]
      /\ run'[co.run].prof = run[co.run].prof /\ run'[co.run].state \in TerminalRunStates
  <2>1. CASE Finish BY <1>0, <1>2, <2>1 DEF Finish, RunRecs, TerminalRunStates
  <2>2. CASE FinishCancel BY <1>0, <1>2, <2>2 DEF FinishCancel, RunRecs, TerminalRunStates
  <2> QED BY <2>1, <2>2
<1>5. ASSUME NEW j \in Jobs
      PROVE  /\ item'[co.run][j].state \notin PendingItemStates
             /\ \/ item'[co.run][j] = item[co.run][j]
                \/ /\ item[co.run][j].state \in PendingItemStates
                   /\ item'[co.run][j] = [item[co.run][j] EXCEPT !.state = "cancelled"]
  <2>1. CASE Finish
    <3>1. \A p \in Phases : item[co.run][j].state # PendingOf[p] BY <2>1 DEF Finish, InPhase
    <3> QED BY <2>1, <3>1 DEF Finish, PendingItemStates
  <2>2. CASE FinishCancel
    <3>1. "cancelled" \notin PendingItemStates BY PendingStates
    <3>2. item[co.run][j] \in ItemRecs BY <1>0, <1>2
    <3>3. item'[co.run][j] = IF item[co.run][j].state \in PendingItemStates
                             THEN [item[co.run][j] EXCEPT !.state = "cancelled"]
                             ELSE item[co.run][j]
      BY <1>0, <1>2, <2>2 DEF FinishCancel
    <3>4. [item[co.run][j] EXCEPT !.state = "cancelled"].state = "cancelled" BY <3>2 DEF ItemRecs
    <3> QED BY <3>1, <3>3, <3>4
  <2> QED BY <2>1, <2>2
<1>6. RunsGoOn
  <2>1. ASSUME NEW r \in Runs
        PROVE  /\ run'[r].prof = run[r].prof
               /\ run'[r].state \in ActiveRunStates => run[r].state \in ActiveRunStates
               /\ run'[r].state = "none" <=> run[r].state = "none"
               /\ run'[r].state \in TerminalRunStates =>
                     \/ run[r].state \in TerminalRunStates
                     \/ \A j \in Jobs : item'[r][j].state \notin PendingItemStates
    <3>1. CASE r = co.run BY <1>2, <1>4, <1>5, <3>1, PendingStates
    <3>2. CASE r # co.run BY <1>4, <3>2
    <3> QED BY <3>1, <3>2
  <2> QED BY <2>1 DEF RunsGoOn
<1>7. ItemMoves
  <2>1. ASSUME NEW r \in Runs, NEW j \in Jobs, item'[r][j] # item[r][j]
        PROVE  /\ run[r].state \in ActiveRunStates /\ item[r][j].state \in PendingItemStates
               /\ item'[r][j].snap = item[r][j].snap
               /\ item'[r][j].state = "cancelled"
    <3>1. r = co.run BY <1>4, <2>1
    <3>2. item[r][j] \in ItemRecs BY <1>0
    <3> QED BY <1>2, <1>5, <2>1, <3>1, <3>2 DEF ItemRecs
  <2> QED BY <2>1 DEF ItemMoves
<1>8. JobMoves BY <1>1 DEF JobMoves, JobRecs, TypeOK, SInv, RInv, IInv
<1>9. Moves BY <1>3, <1>6, <1>7, <1>8, GrowsByStay DEF Moves
<1>10. ASSUME NEW w \in Waves PROVE Narrows(w) /\ Serves(w)
  <2>1. Narrows(w) BY <1>0, <1>1, SameNarrows DEF Open
  <2>2. Open(w)' => wave[w].run # co.run BY <1>1 DEF OpenWaves, Open
  <2>3. \A r \in Runs, j \in Jobs : Open(w)' /\ wave[w].run = r => item'[r][j].state = item[r][j].state
    BY <1>4, <2>2
  <2> QED BY <1>0, <1>9, <2>1, <2>3, ServesByMoves
<1>11. CacheSound' BY <1>1 DEF SInv, CacheSound
<1> QED BY <1>9, <1>10, <1>11, Keeps DEF WavesKeep
----------------------------------------------------------------------------
(* Steps that publish answers, and those that drop obsolete items.         *)

\* how one item and one offer may move
ItemMove(r, j, i, b) ==
    /\ i.snap = item[r][j].snap
    /\ i.state = "extraction_pending" => ~i.offer
    /\ i.state = "evaluation_pending" => i.offer
    /\ i.state = "completed" => Current(r, j) /\ b.state = "analyzed"
JobMove(j, b) ==
    /\ b.ver = job[j].ver /\ b.body = job[j].body
    /\ b.state = "open" => job[j].state = "open"
    /\ job[j].state = "analyzed" => b.state = "analyzed"

\* an answer to what an item asks (accept_result, fail_open_screening)
LEMMA AnsweredItem ==
    ASSUME TypeOK, NEW r \in Runs, NEW p \in Phases, NEW j \in Jobs, NEW o \in OutcomesOf[p]
    PROVE  /\ ItemMove(r, j, ItemAfter(r, p, j, o), JobAfter(r, p, j, o))
           /\ JobMove(j, JobAfter(r, p, j, o))
<1>1. item[r][j] \in ItemRecs /\ job[j] \in JobRecs BY DEF TypeOK
<1>2. JobMove(j, JobAfter(r, p, j, o))
  BY <1>1 DEF JobMove, JobAfter, JobRecs, Current, Candidate, Phases
<1>3. CASE o = "failed" /\ p # "screening"
  <2>1. ItemAfter(r, p, j, o) = [item[r][j] EXCEPT !.state = FailedOf[p]] BY <1>3 DEF ItemAfter
  <2>2. FailedOf[p] \in {"extraction_failed", "evaluation_failed"} BY <1>3 DEF FailedOf, Phases
  <2> QED BY <1>1, <1>2, <2>1, <2>2 DEF ItemMove, ItemRecs
<1>4. CASE ~(o = "failed" /\ p # "screening") /\ ~Current(r, j)
  BY <1>1, <1>2, <1>4 DEF ItemAfter, ItemMove, ItemRecs
<1>5. CASE ~(o = "failed" /\ p # "screening") /\ Current(r, j)
  <2>1. CASE p = "screening"
    BY <1>1, <1>2, <1>5, <2>1 DEF ItemAfter, ItemMove, ItemRecs
  <2>2. CASE p = "extraction"
    BY <1>1, <1>2, <1>5, <2>2 DEF ItemAfter, ItemMove, ItemRecs
  <2>3. CASE p = "evaluation"
    <3>1. o = "ok" BY <1>5, <2>3 DEF OutcomesOf
    <3>2. JobAfter(r, p, j, o).state = "analyzed" BY <1>1, <1>5, <2>3, <3>1 DEF JobAfter, JobRecs
    <3> QED BY <1>1, <1>2, <1>5, <2>3, <3>2 DEF ItemAfter, ItemMove, ItemRecs
  <2> QED BY <2>1, <2>2, <2>3 DEF Phases
<1> QED BY <1>2, <1>3, <1>4, <1>5

\* an obsolete item
LEMMA SkippedItem ==
    ASSUME TypeOK, NEW r \in Runs, NEW j \in Jobs, NEW b
    PROVE  /\ ItemMove(r, j, [item[r][j] EXCEPT !.state = "skipped"], b)
           /\ JobMove(j, job[j])
BY DEF TypeOK, ItemRecs, ItemMove, JobMove

\* a step that moves items the run is working on and their offers
LEMMA AnswersMove ==
    ASSUME SInv, NEW r \in Runs, run[r].state \in ActiveRunStates, RunsGoOn, CoStays,
           NEW S \in SUBSET Jobs, \A j \in S : item[r][j].state \in PendingItemStates,
           \A j \in Jobs : IF j \in S THEN ItemMove(r, j, item'[r][j], job'[j])
                           ELSE item'[r][j] = item[r][j],
           \A q \in Runs : q # r => item'[q] = item[q],
           \A j \in Jobs : JobMove(j, job'[j])
    PROVE  Moves
<1>1. JobMoves
  <2>1. \A j \in Jobs : job[j].ver \in Nat BY DEF SInv, RInv, IInv, TypeOK, JobRecs
  <2> QED BY <2>1 DEF JobMoves, JobMove
<1>2. ItemMoves
  <2> SUFFICES ASSUME NEW q \in Runs, NEW j \in Jobs, item'[q][j] # item[q][j]
               PROVE  /\ run[q].state \in ActiveRunStates /\ item[q][j].state \in PendingItemStates
                      /\ item'[q][j].snap = item[q][j].snap
                      /\ item'[q][j].state = "extraction_pending" => ~item'[q][j].offer
                      /\ item'[q][j].state = "evaluation_pending" => item'[q][j].offer
                      /\ item'[q][j].state = "completed" => Current(q, j) /\ job'[j].state = "analyzed"
    BY DEF ItemMoves
  <2>1. q = r /\ j \in S OBVIOUS
  <2> QED BY <2>1 DEF ItemMove
<1> QED BY <1>1, <1>2, GrowsByStay DEF Moves

\* the offers of the wave in hand wait for its answers
LEMMA WaveWaits ==
    ASSUME SInv, NEW w \in Waves, Open(w)
    PROVE  /\ ItemsOf(w) \subseteq Jobs
           /\ \A j \in ItemsOf(w) : /\ item[wave[w].run][j].state = PendingOf[wave[w].phase]
                                    /\ item[wave[w].run][j].state \in PendingItemStates
<1>1. TypeOK /\ wave[w].phase \in Phases BY DEF SInv, RInv, IInv, TypeOK, WaveRecs
<1>2. ItemsOf(w) \subseteq Jobs BY <1>1, ItemsOfType
<1>3. ASSUME NEW j \in ItemsOf(w) PROVE item[wave[w].run][j].state = PendingOf[wave[w].phase]
  <2>1. PICK q \in wave[w].reqs : j \in q.items BY DEF ItemsOf
  <2> QED BY <2>1 DEF SInv, Wanted, WaveWanted
<1> QED BY <1>1, <1>2, <1>3, PendingStates

\* a wave that leaves the journal's follow-up with answers for its offers
LEMMA WaveAnswered ==
    ASSUME SInv, RInv', NEW w \in Waves, Open(w), wave[w].run = co.run,
           run[co.run].state \in ActiveRunStates, co.run \in Runs, RunsGoOn, CoStays, CacheSound',
           NEW rec, rec.state = "imported", wave' = [wave EXCEPT ![w] = rec],
           \A j \in Jobs : IF j \in ItemsOf(w) THEN ItemMove(co.run, j, item'[co.run][j], job'[j])
                           ELSE item'[co.run][j] = item[co.run][j],
           \A q \in Runs : q # co.run => item'[q] = item[q],
           \A j \in Jobs : JobMove(j, job'[j])
    PROVE  SInv' /\ Published /\ JobMoves /\ Stays
<1>1. ItemsOf(w) \in SUBSET Jobs /\ \A j \in ItemsOf(w) : item[co.run][j].state \in PendingItemStates
  BY WaveWaits
<1> DEFINE S == ItemsOf(w)
<1>2. \A j \in Jobs : IF j \in S THEN ItemMove(co.run, j, item'[co.run][j], job'[j])
                      ELSE item'[co.run][j] = item[co.run][j]
  OBVIOUS
<1>3. PICK r \in Runs : r = co.run OBVIOUS
<1> HIDE DEF S
<1>4. Moves
  <2>1. S \in SUBSET Jobs /\ \A j \in S : item[r][j].state \in PendingItemStates
    BY <1>1, <1>3 DEF S
  <2>2. \A j \in Jobs : IF j \in S THEN ItemMove(r, j, item'[r][j], job'[j])
                        ELSE item'[r][j] = item[r][j]
    BY <1>2, <1>3
  <2> QED BY <1>3, <2>1, <2>2, AnswersMove
<1>5. ~Open(w)' BY DEF SInv, RInv, IInv, TypeOK, Open
<1>6. Narrows(w) BY <1>5 DEF Narrows
<1>7. \A q \in Runs, j \in Jobs : item'[q][j].state # item[q][j].state =>
          q = wave[w].run /\ j \in ItemsOf(w)
  BY <1>3 DEF S
<1>8. \A q \in Runs, j \in Jobs : Open(w)' /\ wave[w].run = q /\ j \in ItemsOf(w)' =>
          item'[q][j].state = item[q][j].state
  BY <1>5
<1> QED BY <1>4, <1>6, <1>7, <1>8, WritesWave

\* the answers to what every offer of a set asks
LEMMA AfterMoves ==
    ASSUME TypeOK, NEW r \in Runs, NEW p \in Phases, NEW out,
           \A j \in DOMAIN out : out[j] \in OutcomesOf[p],
           item' = ItemsAfter(r, p, out), job' = JobsAfter(r, p, out)
    PROVE  /\ \A j \in Jobs : IF j \in DOMAIN out THEN ItemMove(r, j, item'[r][j], job'[j])
                              ELSE item'[r][j] = item[r][j] /\ job'[j] = job[j]
           /\ \A q \in Runs : q # r => item'[q] = item[q]
           /\ \A j \in Jobs : JobMove(j, job'[j])
<1>1. item \in [Runs -> [Jobs -> ItemRecs]] /\ job \in [Jobs -> JobRecs] BY DEF TypeOK
<1>2. \A j \in Jobs : /\ item'[r][j] = IF j \in DOMAIN out THEN ItemAfter(r, p, j, out[j]) ELSE item[r][j]
                      /\ job'[j] = IF j \in DOMAIN out THEN JobAfter(r, p, j, out[j]) ELSE job[j]
  BY <1>1 DEF ItemsAfter, JobsAfter
<1>3. \A q \in Runs : q # r => item'[q] = item[q] BY <1>1 DEF ItemsAfter
<1>4. ASSUME NEW j \in Jobs, j \in DOMAIN out
      PROVE  ItemMove(r, j, item'[r][j], job'[j]) /\ JobMove(j, job'[j])
  <2>1. out[j] \in OutcomesOf[p] BY <1>4
  <2>2. item'[r][j] = ItemAfter(r, p, j, out[j]) /\ job'[j] = JobAfter(r, p, j, out[j])
    BY <1>2, <1>4
  <2> QED BY <2>1, <2>2, AnsweredItem
<1>5. ASSUME NEW j \in Jobs, j \notin DOMAIN out PROVE JobMove(j, job'[j])
  <2>1. job'[j] = job[j] BY <1>2, <1>5
  <2> QED BY <2>1 DEF JobMove
<1> QED BY <1>2, <1>3, <1>4, <1>5

\* the results of a batch are published and kept in the cache
LEMMA ImportKeeps ==
    ASSUME SInv, RInv', NEW w \in Waves, ImportWave(w)
    PROVE  SInv' /\ Published /\ JobMoves /\ Stays
<1>0. TypeOK /\ co \in CoRecs /\ wave[w] \in WaveRecs BY DEF SInv, RInv, IInv, TypeOK
<1>1. Handling(w) /\ co.pc \notin {"idle", "reserve", "followup"} /\ Continue(w, FALSE)
      /\ UNCHANGED <<prof, run>>
  BY DEF ImportWave, At
<1>2. /\ Open(w) /\ wave[w].run = co.run /\ co.run \in Runs /\ run[co.run].state \in ActiveRunStates
  BY <1>1, OnWave DEF SInv, RInv, FollowInv
<1>3. PICK res \in [wave[w].reqs -> OutcomesOf[wave[w].phase]] : Import(w, res)
  BY DEF ImportWave
<1> DEFINE p == wave[w].phase
           out == [j \in ItemsOf(w) |-> res[CHOOSE q \in wave[w].reqs : j \in q.items]]
           fresh == {[key |-> q.key, verdict |-> res[q]] : q \in {s \in wave[w].reqs : res[s] # "failed"}}
           rec == [wave[w] EXCEPT !.state = "imported", !.consumed = TRUE]
<1>4. /\ item' = ItemsAfter(co.run, p, out) /\ job' = JobsAfter(co.run, p, out)
      /\ cache' = {e \in cache : \A f \in fresh : f.key # e.key} \cup fresh
      /\ wave' = [wave EXCEPT ![w] = rec]
  BY <1>3 DEF Import
<1>5. p \in Phases /\ rec.state = "imported" BY <1>0 DEF WaveRecs
<1>6. \A j \in DOMAIN out : out[j] \in OutcomesOf[p]
  <2> SUFFICES ASSUME NEW j \in ItemsOf(w) PROVE out[j] \in OutcomesOf[p] OBVIOUS
  <2>1. \E q \in wave[w].reqs : j \in q.items BY <1>0, ItemsOfType
  <2>2. (CHOOSE q \in wave[w].reqs : j \in q.items) \in wave[w].reqs BY <2>1
  <2> QED BY <2>2
<1>7. CacheSound'
  <2>1. ASSUME NEW e \in fresh PROVE e.verdict \in OutcomesOf[e.key[1]] \ {"failed"}
    <3>1. PICK q \in wave[w].reqs : res[q] # "failed" /\ e = [key |-> q.key, verdict |-> res[q]]
      BY <2>1
    <3>2. q.key[1] = p BY <1>2 DEF SInv, Wanted, WaveWanted
    <3> QED BY <3>1, <3>2
  <2> QED BY <1>4, <2>1 DEF SInv, CacheSound
<1>8. CoStays BY <1>0, <1>1, CoEnds DEF CoStays
<1>9. RunsGoOn BY <1>1, GoesOnBySame
<1>10. DOMAIN out = ItemsOf(w) OBVIOUS
<1> HIDE DEF rec, out, fresh, p
<1>11. /\ \A j \in Jobs : IF j \in ItemsOf(w) THEN ItemMove(co.run, j, item'[co.run][j], job'[j])
                          ELSE item'[co.run][j] = item[co.run][j]
       /\ \A q \in Runs : q # co.run => item'[q] = item[q]
       /\ \A j \in Jobs : JobMove(j, job'[j])
  <2>1. PICK r \in Runs : r = co.run BY <1>2
  <2>2. item' = ItemsAfter(r, p, out) /\ job' = JobsAfter(r, p, out) BY <1>4, <2>1
  <2>3. /\ \A j \in Jobs : IF j \in DOMAIN out THEN ItemMove(r, j, item'[r][j], job'[j])
                           ELSE item'[r][j] = item[r][j] /\ job'[j] = job[j]
        /\ \A q \in Runs : q # r => item'[q] = item[q]
        /\ \A j \in Jobs : JobMove(j, job'[j])
    BY <1>0, <1>5, <1>6, <2>2, AfterMoves
  <2> QED BY <1>10, <2>1, <2>3
<1> QED BY <1>2, <1>4, <1>5, <1>7, <1>8, <1>9, <1>11, WaveAnswered

\* a wave that never reached the provider is answered by failures
LEMMA RefusedKeeps ==
    ASSUME SInv, RInv', NEW w \in Waves,
           CreateRejected(w) \/ (UploadFails(w) /\ wave[w].phase = "screening")
    PROVE  SInv' /\ Published /\ JobMoves /\ Stays
<1>0. /\ TypeOK /\ co \in CoRecs /\ wave[w] \in WaveRecs /\ item \in [Runs -> [Jobs -> ItemRecs]]
      /\ job \in [Jobs -> JobRecs]
  BY DEF SInv, RInv, IInv, TypeOK
<1>1. Handling(w) /\ co.pc \notin {"idle", "reserve", "followup"} /\ Continue(w, FALSE)
      /\ UNCHANGED <<prof, run, cache>>
  BY DEF CreateRejected, UploadFails, At
<1>2. /\ Open(w) /\ wave[w].run = co.run /\ co.run \in Runs /\ run[co.run].state \in ActiveRunStates
  BY <1>1, OnWave DEF SInv, RInv, FollowInv
<1>3. CoStays BY <1>0, <1>1, CoEnds DEF CoStays
<1>4. RunsGoOn BY <1>1, GoesOnBySame
<1>5. CacheSound' BY <1>1 DEF SInv, CacheSound
<1>6. PICK r \in Runs : r = co.run BY <1>2
<1>7. CASE ScreeningFailed(w) /\ wave[w].phase = "screening"
  <2> DEFINE out == [j \in ItemsOf(w) |-> "failed"]
             rec == [wave[w] EXCEPT !.state = "imported", !.consumed = TRUE]
  <2>1. /\ item' = ItemsAfter(r, "screening", out) /\ job' = JobsAfter(r, "screening", out)
        /\ wave' = [wave EXCEPT ![w] = rec]
    BY <1>6, <1>7 DEF ScreeningFailed
  <2>2. rec.state = "imported" BY <1>0 DEF WaveRecs
  <2>3. "screening" \in Phases /\ \A j \in DOMAIN out : out[j] \in OutcomesOf["screening"]
    BY DEF Phases, OutcomesOf
  <2>4. DOMAIN out = ItemsOf(w) OBVIOUS
  <2> HIDE DEF out, rec
  <2>5. /\ \A j \in Jobs : IF j \in DOMAIN out THEN ItemMove(r, j, item'[r][j], job'[j])
                           ELSE item'[r][j] = item[r][j] /\ job'[j] = job[j]
        /\ \A q \in Runs : q # r => item'[q] = item[q]
        /\ \A j \in Jobs : JobMove(j, job'[j])
    BY <1>0, <2>1, <2>3, AfterMoves
  <2>6. /\ \A j \in Jobs : IF j \in ItemsOf(w) THEN ItemMove(co.run, j, item'[co.run][j], job'[j])
                           ELSE item'[co.run][j] = item[co.run][j]
        /\ \A q \in Runs : q # co.run => item'[q] = item[q]
    BY <1>6, <2>4, <2>5
  <2> QED BY <1>2, <1>3, <1>4, <1>5, <2>1, <2>2, <2>5, <2>6, WaveAnswered
<1>8. CASE CreateRejected(w) /\ wave[w].phase # "screening"
  <2> DEFINE rec == [wave[w] EXCEPT !.state = "imported"]
  <2>1. /\ item' = [item EXCEPT ![r] = [j \in Jobs |->
               IF j \in ItemsOf(w) THEN [item[r][j] EXCEPT !.state = FailedOf[wave[w].phase]]
               ELSE item[r][j]]]
        /\ wave' = [wave EXCEPT ![w] = rec] /\ job' = job
    BY <1>6, <1>8 DEF CreateRejected
  <2>2. rec.state = "imported" BY <1>0 DEF WaveRecs
  <2>3. FailedOf[wave[w].phase] \in {"extraction_failed", "evaluation_failed"}
    BY <1>0, <1>8 DEF FailedOf, Phases, WaveRecs
  <2>4. \A j \in Jobs : IF j \in ItemsOf(w) THEN ItemMove(r, j, item'[r][j], job'[j])
                        ELSE item'[r][j] = item[r][j]
    BY <1>0, <2>1, <2>3 DEF ItemMove, ItemRecs
  <2>5. \A j \in Jobs : JobMove(j, job'[j]) BY <2>1 DEF JobMove
  <2>6. \A q \in Runs : q # co.run => item'[q] = item[q] BY <1>0, <1>6, <2>1
  <2> HIDE DEF rec
  <2>7. \A j \in Jobs : IF j \in ItemsOf(w) THEN ItemMove(co.run, j, item'[co.run][j], job'[j])
                        ELSE item'[co.run][j] = item[co.run][j]
    BY <1>6, <2>4
  <2> QED BY <1>2, <1>3, <1>4, <1>5, <2>1, <2>2, <2>5, <2>6, <2>7, WaveAnswered
<1> QED BY <1>7, <1>8 DEF CreateRejected, UploadFails

\* what pruning leaves of the requests of a wave
LEMMA PrunedRequests ==
    ASSUME TypeOK, NEW w \in Waves, NEW q \in Pruned(w)
    PROVE  \E s \in wave[w].reqs :
              q.key = s.key /\ q.items = s.items \cap {j \in Jobs : Current(co.run, j)}
<1>1. PICK s \in wave[w].reqs : q = [s EXCEPT !.items = {j \in s.items : Current(co.run, j)}]
  BY DEF Pruned
<1>2. s \in [key : Keys, items : SUBSET Jobs] BY ReqsType
<1>3. q.key = s.key /\ q.items = {j \in s.items : Current(co.run, j)} BY <1>1, <1>2
<1> QED BY <1>2, <1>3

\* the revalidations of _submit: obsolete items are dropped, current ones still asked
LEMMA PruningKeeps ==
    ASSUME SInv, RInv', NEW w \in Waves, SubmitPrune(w) \/ Commit(w)
    PROVE  SInv' /\ Published /\ JobMoves /\ Stays
<1>0. /\ TypeOK /\ TypeOK' /\ co \in CoRecs /\ wave[w] \in WaveRecs /\ wave \in [Waves -> WaveRecs]
      /\ item \in [Runs -> [Jobs -> ItemRecs]] /\ job \in [Jobs -> JobRecs]
  BY DEF SInv, RInv, IInv, TypeOK
<1>1. /\ Handling(w) /\ co.pc \notin {"idle", "reserve", "followup"}
      /\ UNCHANGED <<prof, job, cache>>
  BY DEF SubmitPrune, Commit, At
<1>2. /\ Open(w) /\ wave[w].run = co.run /\ co.run \in Runs /\ run[co.run].state \in ActiveRunStates
  BY <1>1, OnWave DEF SInv, RInv, FollowInv
<1>3. \/ co' = Returned \/ Continue(w, FALSE)
      \/ co'.prof = co.prof /\ co'.pc # "reserve"
  BY <1>0 DEF SubmitPrune, Commit, RaiseFrozen, CoRecs
<1>4. CoStays BY <1>0, <1>1, <1>3, CoEnds DEF CoStays
<1>5. "blocked" \in ActiveRunStates BY DEF ActiveRunStates
<1>6. \/ run' = run
      \/ \E s \in ActiveRunStates : \E e : run' = [run EXCEPT ![co.run].err = e, ![co.run].state = s]
      \/ \E c : run' = [run EXCEPT ![co.run].cancel = c]
  BY <1>5 DEF SubmitPrune, Commit, RaiseFrozen
<1>7. RunsGoOn BY <1>0, <1>2, <1>6, GoesOnByWrite
<1>8. PICK r \in Runs : r = co.run BY <1>2
<1>9. item' = SkipStale(r, ItemsOf(w)) BY <1>8 DEF SubmitPrune, Commit
<1>10. /\ \A j \in Jobs : item'[r][j] = IF j \in ItemsOf(w) /\ ~Current(r, j)
                                        THEN [item[r][j] EXCEPT !.state = "skipped"]
                                        ELSE item[r][j]
       /\ \A q \in Runs : q # r => item'[q] = item[q]
  BY <1>0, <1>9 DEF SkipStale
<1>11. ItemsOf(w) \in SUBSET Jobs /\ \A j \in ItemsOf(w) : item[r][j].state \in PendingItemStates
  BY <1>2, <1>8, WaveWaits
<1>12. Moves
  <2> DEFINE S == {j \in ItemsOf(w) : ~Current(r, j)}
  <2>1. S \in SUBSET Jobs /\ \A j \in S : item[r][j].state \in PendingItemStates BY <1>11
  <2>2. \A j \in Jobs : IF j \in S THEN ItemMove(r, j, item'[r][j], job'[j])
                        ELSE item'[r][j] = item[r][j]
    <3>1. ASSUME NEW j \in Jobs, j \in S PROVE ItemMove(r, j, item'[r][j], job'[j])
      <4>1. item'[r][j] = [item[r][j] EXCEPT !.state = "skipped"] BY <1>10, <3>1
      <4> QED BY <1>0, <4>1, SkippedItem
    <3>2. ASSUME NEW j \in Jobs, j \notin S PROVE item'[r][j] = item[r][j] BY <1>10, <3>2
    <3> QED BY <3>1, <3>2
  <2>3. \A j \in Jobs : JobMove(j, job'[j]) BY <1>1 DEF JobMove
  <2> HIDE DEF S
  <2> QED BY <1>2, <1>4, <1>7, <1>8, <1>10, <2>1, <2>2, <2>3, AnswersMove
<1>13. CacheSound' BY <1>1 DEF SInv, CacheSound
<1>14. \/ wave' = [wave EXCEPT ![w] = PrunedWave(w)]
       \/ wave' = [wave EXCEPT ![w] = [PrunedWave(w) EXCEPT !.state = "imported"]]
       \/ wave' = [wave EXCEPT ![w].state = "imported"]
       \/ /\ Pruned(w) = wave[w].reqs
          /\ wave' = [wave EXCEPT ![w].state = "submitting", ![w].file = TRUE]
  BY DEF SubmitPrune, Commit
<1>15. PICK rec : /\ wave' = [wave EXCEPT ![w] = rec]
                  /\ \/ rec = PrunedWave(w)
                     \/ rec = [PrunedWave(w) EXCEPT !.state = "imported"]
                     \/ rec = [wave[w] EXCEPT !.state = "imported"]
                     \/ /\ Pruned(w) = wave[w].reqs
                        /\ rec = [wave[w] EXCEPT !.state = "submitting", !.file = TRUE]
  BY <1>14
<1>16. /\ PrunedWave(w) \in WaveRecs /\ PrunedWave(w).run = wave[w].run
       /\ PrunedWave(w).phase = wave[w].phase /\ PrunedWave(w).reqs = Pruned(w)
  BY <1>0, PrunedType DEF PrunedWave, WaveRecs
<1>17. rec.state # "imported" => /\ rec.run = wave[w].run /\ rec.phase = wave[w].phase
                                 /\ rec.reqs = Pruned(w)
  BY <1>0, <1>15, <1>16 DEF WaveRecs
<1>18. Open(w)' => /\ wave'[w].run = wave[w].run /\ wave'[w].phase = wave[w].phase
                   /\ wave'[w].reqs = Pruned(w)
  BY <1>0, <1>15, <1>17 DEF Open
<1>19. Narrows(w)
  <2> SUFFICES ASSUME Open(w)'
               PROVE  \E K \in SUBSET Jobs : \A q \in wave'[w].reqs : \E s \in wave[w].reqs :
                         q.key = s.key /\ q.items = s.items \cap K
    BY <1>2, <1>18 DEF Narrows
  <2> DEFINE K == {j \in Jobs : Current(co.run, j)}
  <2>1. \A q \in Pruned(w) : \E s \in wave[w].reqs : q.key = s.key /\ q.items = s.items \cap K
    BY <1>0, PrunedRequests
  <2>2. K \in SUBSET Jobs OBVIOUS
  <2> HIDE DEF K
  <2> QED BY <1>18, <2>1, <2>2
<1>20. ASSUME NEW j \in Jobs, Open(w)', j \in ItemsOf(w)'
       PROVE  item'[r][j] = item[r][j]
  <2>1. PICK q \in Pruned(w) : j \in q.items BY <1>18, <1>20 DEF ItemsOf
  <2>2. Current(r, j) BY <1>0, <1>8, <2>1, PrunedRequests
  <2> QED BY <1>10, <2>2
<1>21. \A q \in Runs, j \in Jobs : item'[q][j].state # item[q][j].state =>
           q = wave[w].run /\ j \in ItemsOf(w)
  BY <1>2, <1>8, <1>10
<1>22. \A q \in Runs, j \in Jobs : Open(w)' /\ wave[w].run = q /\ j \in ItemsOf(w)' =>
           item'[q][j].state = item[q][j].state
  BY <1>2, <1>8, <1>20
<1> QED BY <1>2, <1>12, <1>13, <1>15, <1>19, <1>21, <1>22, WritesWave
----------------------------------------------------------------------------
(* Creating and resuming a run.                                            *)

\* waves are left, and no item of an open wave's run moves, nor its offers' words
LEMMA OtherRunStep ==
    ASSUME SInv, RInv', UNCHANGED wave, NEW r \in Runs, ~\E w \in Waves : Open(w) /\ wave[w].run = r,
           \A q \in Runs : q # r => item'[q] = item[q] /\ run'[q].prof = run[q].prof,
           \A q \in Runs, j \in Jobs : q # r /\ Current(q, j)' => Current(q, j),
           \A j \in Jobs : job'[j].body = job[j].body
    PROVE  Wanted' /\ Apart'
<1>0. TypeOK BY DEF SInv, RInv, IInv
<1>1. ASSUME NEW w \in Waves PROVE Narrows(w) /\ Serves(w)
  <2>1. Narrows(w) BY <1>0, SameNarrows DEF Open
  <2>2. Open(w)' => wave[w].run # r BY DEF Open
  <2>3. ASSUME NEW q \in Runs, NEW j \in Jobs, q # r
        PROVE  /\ item'[q][j].state = item[q][j].state
               /\ Current(q, j)' => Current(q, j) /\ \A p : RequestKey(q, p, j)' = RequestKey(q, p, j)
    BY <2>3 DEF RequestKey
  <2> QED BY <2>1, <2>2, <2>3 DEF Serves
<1> QED BY <1>1, WavesStay DEF WavesKeep

\* start has read the offers
LEMMA StartReadKeeps ==
    ASSUME SInv, RInv', NEW r \in Runs, NEW S, StartRead(r, S)
    PROVE  SInv' /\ Published /\ JobMoves /\ Stays
<1>1. /\ UNCHANGED <<job, prof, cache, run, item, wave>> /\ run[r].state = "none"
      /\ co'.run = r /\ co'.prof = prof
  BY DEF StartRead, IdleCo
<1>2. Born' BY <1>1 DEF SInv, Born, At
<1>3. Settled' /\ Items' /\ CacheSound' /\ ExclusiveReservation'
  BY <1>1 DEF SInv, Settled, Items, CacheSound, ExclusiveReservation, Works
<1>4. Profiles'
  <2>1. prof \in Nat BY DEF SInv, RInv, IInv, TypeOK
  <2> QED BY <1>1, <2>1 DEF SInv, Profiles
<1>5. Wanted' BY <1>1 DEF SInv, Wanted, WaveWanted, Open, Current, Candidate, RequestKey
<1>6. Apart' BY <1>1 DEF SInv, Apart, Open
<1>7. Published BY <1>1 DEF Published
<1>8. JobMoves BY <1>1 DEF JobMoves, JobRecs, TypeOK, SInv, RInv, IInv
<1>9. Stays BY <1>1 DEF Stays, ReservedBy
<1> QED BY <1>2, <1>3, <1>4, <1>5, <1>6, <1>7, <1>8, <1>9 DEF SInv

\* the run and its items are created
LEMMA StartCreateKeeps ==
    ASSUME SInv, RInv', StartCreate
    PROVE  SInv' /\ Published /\ JobMoves
<1>0. /\ TypeOK /\ TypeOK' /\ co \in CoRecs /\ run \in [Runs -> RunRecs]
      /\ item \in [Runs -> [Jobs -> ItemRecs]] /\ job \in [Jobs -> JobRecs] /\ prof \in Nat
  BY DEF SInv, RInv, IInv, TypeOK
<1>1. PICK r \in Runs : r = co.run
  BY DEF StartCreate, At, SInv, RInv, IInv, JournalInv
<1>2. /\ run[r].state = "none" /\ co.prof <= prof /\ UNCHANGED <<prof, cache, wave>>
      /\ \A j \in Jobs : item[r][j].state = "none"
  BY <1>1 DEF StartCreate, SInv, Born, At, Profiles
<1>3. /\ run'[r].state = "active" /\ run'[r].prof = co.prof
      /\ \A q \in Runs : q # r => run'[q] = run[q]
  BY <1>0, <1>1 DEF StartCreate, RunRecs
<1>4. /\ \A j \in Jobs : item'[r][j] = IF j \in StillPicked THEN NewItem(j) ELSE item[r][j]
      /\ \A q \in Runs : q # r => item'[q] = item[q]
  BY <1>0, <1>1 DEF StartCreate
<1>5. \A j \in Jobs : job'[j] = IF j \in StillPicked /\ ScreenedOut(j)
                                THEN [job[j] EXCEPT !.state = "archived"] ELSE job[j]
  BY DEF StartCreate
<1>6. ASSUME NEW j \in Jobs
      PROVE  /\ job'[j].ver = job[j].ver /\ job'[j].body = job[j].body
             /\ job'[j].state = "open" => job[j].state = "open"
             /\ job[j].state = "analyzed" => job'[j].state = "analyzed"
  <2>1. job[j] \in JobRecs BY <1>0
  <2>2. j \in StillPicked => job[j].state = "open" BY DEF StillPicked, Candidate
  <2> QED BY <1>5, <2>1, <2>2 DEF JobRecs
<1>7. ASSUME NEW j \in StillPicked
      PROVE  /\ j \in Jobs /\ NewItem(j).snap = job[j].ver /\ NewItem(j).state # "completed"
             /\ NewItem(j).state = "extraction_pending" => ~NewItem(j).offer
             /\ NewItem(j).state = "evaluation_pending" => NewItem(j).offer
             /\ \A q \in Runs : ~Works(q, j)
  <2>1. j \in Jobs /\ j \notin ReservedBy(Runs) BY DEF StillPicked
  <2>2. ASSUME NEW q \in Runs PROVE ~Works(q, j)
    <3>1. "none" \notin PendingItemStates BY PendingStates
    <3> QED BY <2>1, <3>1 DEF ReservedBy, Works
  <2> QED BY <2>1, <2>2 DEF NewItem
<1>8. co'.pc = "created" /\ co'.prof = co.prof BY <1>0 DEF StartCreate, CoRecs
<1>9. Born' BY <1>3, <1>4, <1>8 DEF SInv, Born, At
<1>10. Settled' BY <1>3, <1>4, PendingStates DEF SInv, Settled, TerminalRunStates
<1>11. Items'
  <2> SUFFICES ASSUME NEW q \in Runs, NEW j \in Jobs
               PROVE  /\ item'[q][j].snap <= job'[j].ver
                      /\ item'[q][j].state = "extraction_pending" => ~item'[q][j].offer
                      /\ item'[q][j].state = "evaluation_pending" => item'[q][j].offer
                      /\ item'[q][j].state = "completed" => job'[j].state = "analyzed"
    BY DEF Items
  <2>1. CASE q = r /\ j \in StillPicked
    <3>1. job[j].ver \in Nat BY <1>0 DEF JobRecs
    <3> QED BY <1>4, <1>6, <1>7, <2>1, <3>1
  <2>2. CASE ~(q = r /\ j \in StillPicked)
    <3>1. item'[q][j] = item[q][j] BY <1>4, <2>2
    <3> QED BY <1>6, <3>1 DEF SInv, Items
  <2> QED BY <2>1, <2>2
<1>12. Profiles' BY <1>2, <1>3, <1>8 DEF SInv, Profiles
<1>13. CacheSound' BY <1>2 DEF SInv, CacheSound
<1>14. ExclusiveReservation'
  <2>1. ASSUME NEW q \in Runs, NEW j \in Jobs, Works(q, j)'
        PROVE  IF q = r THEN \A s \in Runs : ~Works(s, j) ELSE Works(q, j)
    <3>1. CASE q # r BY <1>3, <1>4, <2>1, <3>1 DEF Works
    <3>2. CASE q = r
      <4>1. "none" \notin PendingItemStates BY PendingStates
      <4>2. j \in StillPicked BY <1>2, <1>4, <2>1, <3>2, <4>1 DEF Works
      <4> QED BY <1>7, <3>2, <4>2
    <3> QED BY <3>1, <3>2
  <2>2. ASSUME NEW q \in Runs, NEW j \in Jobs, item'[q][j].state = "completed"
        PROVE  item[q][j].state = "completed"
    BY <1>2, <1>4, <1>7, <2>2
  <2>3. ASSUME NEW q \in Runs, NEW s \in Runs, NEW j \in Jobs, q # s
        PROVE  ~(Works(q, j)' /\ Works(s, j)')
    BY <2>1, <2>3 DEF SInv, ExclusiveReservation
  <2>4. ASSUME NEW q \in Runs, NEW s \in Runs, NEW j \in Jobs, q # s
        PROVE  ~(item'[q][j].state = "completed" /\ item'[s][j].state = "completed")
    BY <2>2, <2>4 DEF SInv, ExclusiveReservation
  <2> QED BY <2>3, <2>4 DEF ExclusiveReservation
<1>15. Wanted' /\ Apart'
  <2>1. ~\E w \in Waves : Open(w) /\ wave[w].run = r
    BY <1>2, PendingStates DEF SInv, RInv, FollowInv
  <2>2. \A q \in Runs : q # r => item'[q] = item[q] /\ run'[q].prof = run[q].prof
    BY <1>3, <1>4
  <2>3. ASSUME NEW q \in Runs, NEW j \in Jobs, q # r, Current(q, j)' PROVE Current(q, j)
    BY <1>2, <1>3, <1>4, <1>6, <2>3 DEF Current, Candidate
  <2> QED BY <1>2, <1>6, <2>1, <2>2, <2>3, OtherRunStep
<1>16. Published
  <2>1. \A q \in Runs, j \in Jobs : item'[q][j].state = "completed" => item[q][j].state = "completed"
    BY <1>2, <1>4, <1>7
  <2> QED BY <2>1 DEF Published
<1>17. JobMoves BY <1>0, <1>6 DEF JobMoves, JobRecs
<1> QED BY <1>9, <1>10, <1>11, <1>12, <1>13, <1>14, <1>15, <1>16, <1>17 DEF SInv

\* the failed items of a finished run are asked again
LEMMA RetryKeeps ==
    ASSUME SInv, RInv', NEW r \in Runs, Retry(r), run[r].state \in TerminalRunStates
    PROVE  SInv' /\ Published /\ JobMoves
<1>0. /\ TypeOK /\ TypeOK' /\ co \in CoRecs /\ run \in [Runs -> RunRecs]
      /\ item \in [Runs -> [Jobs -> ItemRecs]] /\ prof \in Nat
  BY DEF SInv, RInv, IInv, TypeOK
<1>1. /\ UNCHANGED <<job, prof, cache, wave>> /\ co' = Advancing("retry", r)
      /\ run' = [run EXCEPT ![r].state = "active", ![r].err = "none"]
      /\ item' = [item EXCEPT ![r] = [j \in Jobs |->
             IF j \notin Retryable(r) THEN item[r][j]
             ELSE [item[r][j] EXCEPT !.state = Retried(r, j)]]]
  <2>1. run[r].state # "blocked" /\ run[r].state \notin PollingRunStates
    BY DEF TerminalRunStates, PollingRunStates
  <2> QED BY <2>1 DEF Retry
<1>2. co'.prof = 0 /\ co'.pc # "reserve" BY <1>0, <1>1, CoEnds
<1>3. /\ run'[r].state = "active" /\ run'[r].prof = run[r].prof
      /\ \A q \in Runs : q # r => run'[q] = run[q]
  BY <1>0, <1>1 DEF RunRecs
<1>4. /\ \A j \in Jobs : item'[r][j] = IF j \notin Retryable(r) THEN item[r][j]
                                       ELSE [item[r][j] EXCEPT !.state = Retried(r, j)]
      /\ \A q \in Runs : q # r => item'[q] = item[q]
  BY <1>0, <1>1
<1>5. \A j \in Jobs : item[r][j].state \notin PendingItemStates BY DEF SInv, Settled
<1>6. ASSUME NEW j \in Jobs
      PROVE  /\ item'[r][j].snap = item[r][j].snap
             /\ item'[r][j].state = "extraction_pending" => ~item'[r][j].offer
             /\ item'[r][j].state = "evaluation_pending" => item'[r][j].offer
             /\ item'[r][j].state = "completed" => item[r][j].state = "completed"
             /\ item'[r][j].state \in PendingItemStates => \A s \in Runs : ~Works(s, j)
  <2>1. item[r][j] \in ItemRecs BY <1>0
  <2>2. CASE j \notin Retryable(r)
    BY <1>4, <1>5, <2>2, PendingStates DEF SInv, Items
  <2>3. CASE j \in Retryable(r)
    <3>1. item'[r][j] = [item[r][j] EXCEPT !.state = Retried(r, j)] BY <1>4, <2>3
    <3>2. ASSUME NEW s \in Runs PROVE ~Works(s, j)
      <4>1. CASE s = r BY <1>5, <4>1 DEF Works
      <4>2. CASE s # r
        <5>1. j \notin ReservedBy(Runs \ {r}) BY <2>3 DEF Retryable
        <5>2. "none" \notin PendingItemStates BY PendingStates
        <5> QED BY <4>2, <5>1, <5>2 DEF ReservedBy, Works
      <4> QED BY <4>1, <4>2
    <3> QED BY <2>1, <3>1, <3>2 DEF Retried, ItemRecs
  <2> QED BY <2>2, <2>3
<1>7. Born' BY <1>2, <1>3, <1>4 DEF SInv, Born, At
<1>8. Settled' BY <1>3, <1>4, PendingStates DEF SInv, Settled, TerminalRunStates
<1>9. Items'
  <2>1. ASSUME NEW q \in Runs, NEW j \in Jobs
        PROVE  /\ item'[q][j].snap <= job[j].ver
               /\ item'[q][j].state = "extraction_pending" => ~item'[q][j].offer
               /\ item'[q][j].state = "evaluation_pending" => item'[q][j].offer
               /\ item'[q][j].state = "completed" => job[j].state = "analyzed"
    BY <1>4, <1>6 DEF SInv, Items
  <2> QED BY <1>1, <2>1 DEF Items
<1>10. Profiles'
  <2>1. \A q \in Runs : run'[q].prof = run[q].prof BY <1>3
  <2> QED BY <1>0, <1>1, <1>2, <2>1 DEF SInv, Profiles
<1>11. CacheSound' BY <1>1 DEF SInv, CacheSound
<1>12. ExclusiveReservation'
  <2>1. ASSUME NEW q \in Runs, NEW j \in Jobs, Works(q, j)'
        PROVE  IF q = r THEN \A s \in Runs : ~Works(s, j) ELSE Works(q, j)
    BY <1>3, <1>4, <1>6, <2>1 DEF Works
  <2>2. ASSUME NEW q \in Runs, NEW j \in Jobs, item'[q][j].state = "completed"
        PROVE  item[q][j].state = "completed"
    BY <1>4, <1>6, <2>2
  <2>3. ASSUME NEW q \in Runs, NEW s \in Runs, NEW j \in Jobs, q # s
        PROVE  ~(Works(q, j)' /\ Works(s, j)')
    BY <2>1, <2>3 DEF SInv, ExclusiveReservation
  <2>4. ASSUME NEW q \in Runs, NEW s \in Runs, NEW j \in Jobs, q # s
        PROVE  ~(item'[q][j].state = "completed" /\ item'[s][j].state = "completed")
    BY <2>2, <2>4 DEF SInv, ExclusiveReservation
  <2> QED BY <2>3, <2>4 DEF ExclusiveReservation
<1>13. Wanted' /\ Apart'
  <2>1. ~\E w \in Waves : Open(w) /\ wave[w].run = r
    BY PendingStates DEF SInv, RInv, FollowInv
  <2>2. \A q \in Runs : q # r => item'[q] = item[q] /\ run'[q].prof = run[q].prof
    BY <1>3, <1>4
  <2>3. ASSUME NEW q \in Runs, NEW j \in Jobs, q # r, Current(q, j)' PROVE Current(q, j)
    BY <1>1, <1>3, <1>4, <2>3 DEF Current, Candidate
  <2> QED BY <1>1, <2>1, <2>2, <2>3, OtherRunStep
<1>14. Published
  <2>1. \A q \in Runs, j \in Jobs : item'[q][j].state = "completed" => item[q][j].state = "completed"
    BY <1>4, <1>6
  <2> QED BY <2>1 DEF Published
<1>15. JobMoves BY <1>0, <1>1 DEF JobMoves, JobRecs, TypeOK
<1> QED BY <1>7, <1>8, <1>9, <1>10, <1>11, <1>12, <1>13, <1>14, <1>15 DEF SInv
----------------------------------------------------------------------------
(* Journaling the next phase, and the invariant of every step.             *)

\* _prepare_waves: what can be answered is, what is left is asked apart
LEMMA PrepareKeeps ==
    ASSUME SInv, RInv', NEW p \in Phases, NEW left \in {cache, {}}, Prepare(p, left)
    PROVE  SInv' /\ Published /\ JobMoves /\ Stays
<1> DEFINE live == {j \in InPhase(co.run, p) : Current(co.run, j)}
           bad == {j \in live : <<p, j>> \in Unbuildable}
           hit(j) == {e \in left : e.key = RequestKey(co.run, p, j)}
           hits == {j \in live \ bad : hit(j) # {}}
           rest == live \ (bad \cup hits)
           out == [j \in InPhase(co.run, p) \ rest |->
                      IF j \in hits THEN (CHOOSE e \in hit(j) : TRUE).verdict ELSE "failed"]
           stale == InPhase(co.run, p) \ live
           reqs == {[key |-> k, items |-> {j \in rest : RequestKey(co.run, p, j) = k}] :
                        k \in {RequestKey(co.run, p, j) : j \in rest}}
<1>0. /\ TypeOK /\ TypeOK' /\ co \in CoRecs /\ item \in [Runs -> [Jobs -> ItemRecs]]
      /\ job \in [Jobs -> JobRecs] /\ wave \in [Waves -> WaveRecs]
  BY DEF SInv, RInv, IInv, TypeOK
<1>1. PICK r \in Runs : r = co.run
  BY DEF Prepare, PassIdle, InPass, At, SInv, RInv, IInv, JournalInv
<1>2. run[r].state \in ActiveRunStates
  BY <1>1 DEF Prepare, PassIdle, InPass, At, SInv, RInv, FollowInv
<1>3. ~\E w \in Waves : Open(w) /\ wave[w].run = r
  BY <1>1 DEF Prepare, PassIdle, OpenWaves
<1>4. /\ \A j \in InPhase(r, p) : /\ j \in Jobs /\ item[r][j].state = PendingOf[p]
                                  /\ item[r][j].state \in PendingItemStates
      /\ rest \subseteq InPhase(r, p) /\ stale \subseteq InPhase(r, p) \ rest
      /\ \A j \in rest : Current(r, j)
  BY <1>1, PendingStates DEF InPhase
<1>5. \A j \in DOMAIN out : out[j] \in OutcomesOf[p]
  <2>1. ASSUME NEW j \in hits PROVE (CHOOSE e \in hit(j) : TRUE).verdict \in OutcomesOf[p]
    <3>1. hit(j) # {} BY <2>1
    <3>2. PICK e \in hit(j) : e = (CHOOSE x \in hit(j) : TRUE) BY <3>1
    <3>3. e \in cache /\ e.key = RequestKey(co.run, p, j) BY <3>2
    <3>4. e.key[1] = p BY <3>3 DEF RequestKey
    <3> QED BY <3>2, <3>3, <3>4 DEF SInv, CacheSound
  <2>2. "failed" \in OutcomesOf[p] BY DEF OutcomesOf, Phases
  <2> HIDE DEF hits, hit, rest
  <2> QED BY <2>1, <2>2
<1>6. \A q \in reqs : /\ q.items \subseteq rest
                      /\ \A j \in q.items : RequestKey(r, p, j) = q.key
                      /\ q.key[1] = p
  <2> SUFFICES ASSUME NEW q \in reqs
               PROVE  /\ q.items \subseteq rest /\ q.key[1] = p
                      /\ \A j \in q.items : RequestKey(r, p, j) = q.key
    OBVIOUS
  <2>1. PICK i \in rest : q = [key |-> RequestKey(co.run, p, i),
                               items |-> {j \in rest : RequestKey(co.run, p, j) = RequestKey(co.run, p, i)}]
    OBVIOUS
  <2>2. q.key[1] = p BY <2>1 DEF RequestKey
  <2> HIDE DEF rest
  <2> QED BY <1>1, <2>1, <2>2
<1>7. \A q, s \in reqs : q.key = s.key \/ q.items \cap s.items # {} => q = s
  <2>1. \A q, s \in reqs : q.key = s.key => q = s
    <3> HIDE DEF rest
    <3> QED OBVIOUS
  <2> HIDE DEF reqs
  <2> QED BY <1>6, <2>1
<1> HIDE DEF reqs, out, stale, rest, live
<1>8. /\ job' = JobsAfter(co.run, p, out)
      /\ item' = [ItemsAfter(co.run, p, out) EXCEPT ![co.run] = [j \in Jobs |->
                    IF j \in stale THEN [item[co.run][j] EXCEPT !.state = "skipped"] ELSE @[j]]]
      /\ cache' = left
      /\ \E plan \in [reqs -> Unused] :
            wave' = [w \in Waves |->
                        IF \E q \in reqs : plan[q] = w
                        THEN NewWave(co.run, p, {q \in reqs : plan[q] = w}) ELSE wave[w]]
      /\ co' = [co EXCEPT !.passes = @ - 1]
      /\ UNCHANGED <<prof, run>>
  BY DEF Prepare, reqs, out, stale, rest, live
<1>9. DOMAIN out = InPhase(r, p) \ rest BY <1>1 DEF out
<1>10. /\ \A j \in Jobs : IF j \in DOMAIN out
                          THEN ItemMove(r, j, item'[r][j], job'[j])
                          ELSE item'[r][j] = item[r][j] /\ job'[j] = job[j]
       /\ \A q \in Runs : q # r => item'[q] = item[q]
       /\ \A j \in Jobs : JobMove(j, job'[j])
  <2> DEFINE items == ItemsAfter(co.run, p, out)
             jobs == JobsAfter(co.run, p, out)
  <2>1. /\ \A j \in Jobs :
              /\ items[r][j] = IF j \in DOMAIN out THEN ItemAfter(r, p, j, out[j]) ELSE item[r][j]
              /\ jobs[j] = IF j \in DOMAIN out THEN JobAfter(r, p, j, out[j]) ELSE job[j]
        /\ \A q \in Runs : q # r => items[q] = item[q]
        /\ DOMAIN items = Runs
    BY <1>0, <1>1 DEF ItemsAfter, JobsAfter
  <2>2. job' = jobs /\ item' = [items EXCEPT ![co.run] = [j \in Jobs |->
             IF j \in stale THEN [item[co.run][j] EXCEPT !.state = "skipped"] ELSE items[co.run][j]]]
    BY <1>8
  <2> HIDE DEF items, jobs
  <2>3. \A j \in Jobs : item'[r][j] = IF j \in stale THEN [item[r][j] EXCEPT !.state = "skipped"]
                                      ELSE items[r][j]
    BY <1>1, <2>1, <2>2
  <2>4. \A q \in Runs : q # r => item'[q] = item[q] BY <1>1, <2>1, <2>2
  <2>5. ASSUME NEW j \in Jobs, j \in DOMAIN out
        PROVE  ItemMove(r, j, item'[r][j], job'[j]) /\ JobMove(j, job'[j])
    <3>1. out[j] \in OutcomesOf[p] BY <1>5, <2>5
    <3>2. /\ ItemMove(r, j, ItemAfter(r, p, j, out[j]), JobAfter(r, p, j, out[j]))
          /\ JobMove(j, JobAfter(r, p, j, out[j]))
      BY <1>0, <3>1, AnsweredItem
    <3>3. job'[j] = JobAfter(r, p, j, out[j]) BY <2>1, <2>2, <2>5
    <3>4. CASE j \in stale
      <4>1. item'[r][j] = [item[r][j] EXCEPT !.state = "skipped"] BY <2>3, <3>4
      <4> QED BY <1>0, <3>2, <3>3, <4>1, SkippedItem
    <3>5. CASE j \notin stale
      <4>1. item'[r][j] = ItemAfter(r, p, j, out[j]) BY <2>1, <2>3, <2>5, <3>5
      <4> QED BY <3>2, <3>3, <4>1
    <3> QED BY <3>4, <3>5
  <2>6. ASSUME NEW j \in Jobs, j \notin DOMAIN out
        PROVE  item'[r][j] = item[r][j] /\ job'[j] = job[j] /\ JobMove(j, job'[j])
    <3>1. j \notin stale BY <1>4, <1>9, <2>6
    <3>2. item'[r][j] = item[r][j] /\ job'[j] = job[j] BY <2>1, <2>2, <2>3, <2>6, <3>1
    <3> QED BY <3>2 DEF JobMove
  <2> QED BY <2>4, <2>5, <2>6
<1>11. CoStays BY <1>0, <1>8 DEF CoStays, CoRecs, Prepare, PassIdle, InPass, At
<1>12. RunsGoOn BY <1>8, GoesOnBySame
<1>13. Moves
  <2> DEFINE S == DOMAIN out
  <2>1. S \in SUBSET Jobs /\ \A j \in S : item[r][j].state \in PendingItemStates
    BY <1>4, <1>9
  <2>2. \A j \in Jobs : IF j \in S THEN ItemMove(r, j, item'[r][j], job'[j])
                        ELSE item'[r][j] = item[r][j]
    BY <1>10
  <2> HIDE DEF S
  <2> QED BY <1>2, <1>10, <1>11, <1>12, <2>1, <2>2, AnswersMove
<1>14. CacheSound' BY <1>8 DEF SInv, CacheSound
<1>15. PICK plan \in [reqs -> Unused] :
          wave' = [w \in Waves |->
                      IF \E q \in reqs : plan[q] = w
                      THEN NewWave(co.run, p, {q \in reqs : plan[q] = w}) ELSE wave[w]]
  BY <1>8
<1>16. ASSUME NEW w \in Waves
       PROVE  \/ /\ wave'[w].run = r /\ wave'[w].phase = p
                 /\ wave'[w].reqs = {q \in reqs : plan[q] = w}
              \/ wave'[w] = wave[w]
  BY <1>1, <1>15 DEF NewWave
<1>17. ASSUME NEW w \in Waves, Open(w)', wave'[w].run # r
       PROVE  /\ Open(w) /\ wave'[w] = wave[w] /\ Serves(w)
  <2>1. wave'[w] = wave[w] BY <1>16, <1>17
  <2>2. \A q \in Runs, j \in Jobs : wave[w].run = q => item'[q][j].state = item[q][j].state
    BY <1>10, <1>17, <2>1
  <2> QED BY <1>0, <1>13, <1>17, <2>1, <2>2, ServesByMoves DEF Open
<1>18. ASSUME NEW w \in Waves, Open(w)', wave'[w].run = r
       PROVE  wave'[w].phase = p /\ wave'[w].reqs = {q \in reqs : plan[q] = w}
  <2>1. wave'[w] # wave[w] BY <1>3, <1>18 DEF Open
  <2> QED BY <1>16, <2>1
<1>19. Wanted'
  <2> SUFFICES ASSUME NEW w \in Waves, Open(w)' PROVE WaveWanted(w)' BY DEF Wanted, WaveWanted
  <2>1. CASE wave'[w].run = r
    <3> SUFFICES ASSUME NEW q \in wave'[w].reqs
                 PROVE  /\ q.key[1] = p
                        /\ \A j \in q.items : /\ item'[r][j].state = PendingOf[p]
                                              /\ Current(r, j)' => q.key = RequestKey(r, p, j)'
      BY <1>18, <2>1 DEF WaveWanted, Current, Candidate, RequestKey
    <3>1. q \in reqs BY <1>18, <2>1
    <3> SUFFICES ASSUME NEW j \in q.items
                 PROVE  /\ item'[r][j].state = PendingOf[p]
                        /\ Current(r, j)' => q.key = RequestKey(r, p, j)'
      BY <1>6, <3>1
    <3>2. j \in rest /\ RequestKey(r, p, j) = q.key BY <1>6, <3>1
    <3>3. j \in Jobs /\ j \notin DOMAIN out /\ item[r][j].state = PendingOf[p] BY <1>4, <1>9, <3>2
    <3>4. item'[r][j] = item[r][j] /\ job'[j] = job[j] BY <1>10, <3>3
    <3> QED BY <1>8, <3>2, <3>3, <3>4 DEF RequestKey
  <2>2. CASE wave'[w].run # r
    <3>1. Open(w) /\ wave'[w] = wave[w] /\ Serves(w) BY <1>17, <2>2
    <3>2. PICK s \in Runs : s = wave[w].run BY <3>1 DEF SInv, RInv, FollowInv
    <3>3. PICK pp \in Phases : pp = wave[w].phase BY <1>0 DEF WaveRecs
    <3> SUFFICES ASSUME NEW q \in wave[w].reqs
                 PROVE  /\ q.key[1] = pp
                        /\ \A j \in q.items : /\ item'[s][j].state = PendingOf[pp]
                                              /\ Current(s, j)' => q.key = RequestKey(s, pp, j)'
      BY <3>1, <3>2, <3>3 DEF WaveWanted, Current, Candidate, RequestKey
    <3>4. /\ q.key[1] = pp
          /\ \A j \in q.items : /\ item[s][j].state = PendingOf[pp]
                                /\ Current(s, j) => q.key = RequestKey(s, pp, j)
      BY <3>1, <3>2, <3>3 DEF SInv, Wanted, WaveWanted
    <3>5. ASSUME NEW j \in q.items
          PROVE  /\ item'[s][j].state = item[s][j].state
                 /\ Current(s, j)' => Current(s, j) /\ RequestKey(s, pp, j)' = RequestKey(s, pp, j)
      <4>1. j \in Jobs /\ j \in ItemsOf(w)' BY <1>0, <3>1, ReqsType DEF ItemsOf, WaveRecs, Requests
      <4> QED BY <2>2, <3>1, <3>2, <4>1 DEF Serves
    <3> QED BY <3>4, <3>5
  <2> QED BY <2>1, <2>2
<1>20. Apart'
  <2> SUFFICES ASSUME NEW v \in Waves, NEW w \in Waves, Open(v)', Open(w)', wave'[v].run = wave'[w].run
               PROVE  /\ wave'[v].phase = wave'[w].phase
                      /\ \A q \in wave'[v].reqs, s \in wave'[w].reqs :
                            q.key = s.key \/ q.items \cap s.items # {} => v = w /\ q = s
    BY DEF Apart
  <2>1. CASE wave'[v].run = r
    <3>1. /\ wave'[v].phase = p /\ wave'[v].reqs = {q \in reqs : plan[q] = v}
          /\ wave'[w].phase = p /\ wave'[w].reqs = {q \in reqs : plan[q] = w}
      BY <1>18, <2>1
    <3> QED BY <1>7, <3>1
  <2>2. CASE wave'[v].run # r
    <3>1. Open(v) /\ Open(w) /\ wave'[v] = wave[v] /\ wave'[w] = wave[w] BY <1>17, <2>2
    <3> QED BY <3>1 DEF SInv, Apart
  <2> QED BY <2>1, <2>2
<1>21. Born' /\ Settled' /\ Items' /\ Profiles' /\ ExclusiveReservation'
  BY <1>0, <1>13, MovesKeep
<1>22. Published BY <1>13 DEF Moves, ItemMoves, Published
<1> QED BY <1>13, MovesReserve, <1>14, <1>19, <1>20, <1>21, <1>22 DEF SInv

\* the initial state has no item and no wave
LEMMA InitSInv == Init => SInv
<1> SUFFICES ASSUME Init PROVE SInv OBVIOUS
<1>1. RInv BY InitRInv
<1>2. /\ \A r \in Runs : run[r].state = "none" /\ run[r].prof = 0
      /\ \A r \in Runs, j \in Jobs : item[r][j].state = "none" /\ item[r][j].snap = 0
      /\ \A w \in Waves : ~Open(w)
      /\ \A j \in Jobs : job[j].ver = 1
      /\ cache = {} /\ prof = 1 /\ co.pc = "idle" /\ co.prof = 0
  BY DEF Init, Open, IdleCo
<1>3. Born /\ CacheSound /\ Wanted /\ Apart
  BY <1>2 DEF Born, At, CacheSound, Wanted, WaveWanted, Apart
<1>4. Settled /\ Items /\ Profiles BY <1>2, PendingStates DEF Settled, Items, Profiles
<1>5. ExclusiveReservation BY <1>2, PendingStates DEF ExclusiveReservation, Works
<1> QED BY <1>1, <1>3, <1>4, <1>5 DEF SInv

\* ... every step keeps the invariant, and publishes only what is current
LEMMA NextSInv == SInv /\ [Next]_vars => SInv' /\ Steady
<1> SUFFICES ASSUME SInv, [Next]_vars PROVE SInv' /\ Steady OBVIOUS
<1> USE DEF Steady
<1>0. RInv' BY NextRInv DEF SInv
<1>1. CASE UNCHANGED vars
  <2>1. UNCHANGED <<job, item, cache, wave, prof, co, run>> BY <1>1 DEF vars
  <2>2. RunsGoOn BY <2>1, GoesOnBySame
  <2> QED BY <1>0, <2>1, <2>2, QuietControlStep DEF CoStays
<1>2. CASE Work
  <2>1. CASE StartRefused \/ StartAdvance \/ StartFollowUp BY <1>0, <2>1, StartKeeps
  <2>2. CASE StartCreate BY <1>0, <2>2, StartCreateKeeps
  <2>3. CASE PassStops \/ PassWaves \/ UploadOk \/ (\E p \in Phases : PrepareFrozen(p))
    BY <1>0, <2>3, AdvanceKeeps
  <2>4. CASE Finish \/ FinishCancel BY <1>0, <2>4, FinishKeeps
  <2>5. CASE \E p \in Phases, left \in IF CacheExpires THEN {cache, {}} ELSE {cache} : Prepare(p, left)
    BY <1>0, <2>5, PrepareKeeps
  <2>6. ASSUME NEW w \in Waves,
               \/ Abandon(w) \/ SubmitPrune(w) \/ Commit(w)
               \/ \E answer \in {"posted", "unsure", "rejected"} : Post(w, answer)
               \/ Created(w) \/ CreateRejected(w) \/ CreateUnsure(w)
               \/ RefreshFrozen(w) \/ RefreshFound(w) \/ RefreshMissing(w)
               \/ CancelCall(w) \/ CancelRefused(w) \/ ImportWave(w)
        PROVE  SInv' /\ Steady
    <3>1. CASE Abandon(w) \/ Created(w) \/ RefreshFound(w) \/ CancelCall(w)
      BY <1>0, <3>1, WaveStateKeeps
    <3>2. CASE SubmitPrune(w) \/ Commit(w) BY <1>0, <3>2, PruningKeeps
    <3>3. CASE CreateRejected(w) BY <1>0, <3>3, RefusedKeeps
    <3>4. CASE ImportWave(w) BY <1>0, <3>4, ImportKeeps
    <3>5. CASE \/ \E answer \in {"posted", "unsure", "rejected"} : Post(w, answer)
               \/ CreateUnsure(w) \/ RefreshFrozen(w) \/ RefreshMissing(w) \/ CancelRefused(w)
      BY <1>0, <3>5, AdvanceKeeps
    <3> QED BY <2>6, <3>1, <3>2, <3>3, <3>4, <3>5
  <2> QED BY <1>2, <2>1, <2>2, <2>3, <2>4, <2>5, <2>6 DEF Work
<1>3. CASE Environment
  <2>1. ASSUME NEW r \in Runs, Retry(r) \/ Cancel(r) \/ BreakConfiguration(r) PROVE SInv' /\ Steady
    <3>1. CASE Retry(r) /\ run[r].state \in TerminalRunStates BY <1>0, <3>1, RetryKeeps
    <3> QED BY <1>0, <2>1, <3>1, OperationKeeps
  <2>2. ASSUME NEW r \in Runs, NEW S \in SUBSET Jobs, StartRead(r, S) PROVE SInv' /\ Steady
    BY <1>0, <2>2, StartReadKeeps
  <2>3. CASE RequestStop BY <1>0, <2>3, StartKeeps
  <2>4. CASE FollowFails BY <1>0, <2>4, AdvanceKeeps
  <2>5. ASSUME NEW w \in Waves, UploadFails(w) PROVE SInv' /\ Steady
    BY <1>0, <2>5, AdvanceKeeps, RefusedKeeps
  <2>6. CASE ChangeProfile \/ \E j \in Jobs : EditJob(j) \/ ArchiveJob(j) \/ RescueJob(j)
    BY <1>0, <2>6, EditKeeps
  <2> QED BY <1>3, <2>1, <2>2, <2>3, <2>4, <2>5, <2>6 DEF Environment
<1>4. ASSUME NEW r \in Runs, Sync(r) PROVE SInv' /\ Steady BY <1>0, <1>4, OperationKeeps
<1>5. CASE Crash \/ \E w \in Waves : BatchEnds(w) BY <1>0, <1>5, AdvanceKeeps
<1> QED BY <1>1, <1>2, <1>3, <1>4, <1>5 DEF Next, Steps

\* only the POST of the wave in hand is accepted by the provider
LEMMA OnlyPost ==
    ASSUME RInv, Next
    PROVE  NothingPosted \/ \E w \in Waves, answer \in {"posted", "unsure", "rejected"} : Post(w, answer)
<1>0. IInv BY DEF RInv
<1>1. remote' = remote => NothingPosted
  BY <1>0 DEF IInv, TypeOK, RemoteRecs, NothingPosted, Posting
<1>2. CASE Work
  <2>1. CASE StartRefused \/ StartCreate \/ StartAdvance \/ StartFollowUp
    BY <1>0, <1>1, <2>1, StopOfStart
  <2>2. CASE \/ PassStops \/ PassWaves \/ FinishCancel \/ Finish \/ UploadOk
             \/ \E p \in Phases : PrepareFrozen(p) \/ \E left : Prepare(p, left)
    BY <1>0, <1>1, <2>2, StopOfAdvance
  <2>3. ASSUME NEW w \in Waves,
               \/ Abandon(w) \/ SubmitPrune(w) \/ Commit(w)
               \/ Created(w) \/ CreateRejected(w) \/ CreateUnsure(w)
               \/ RefreshFrozen(w) \/ RefreshFound(w) \/ RefreshMissing(w)
               \/ CancelRefused(w) \/ ImportWave(w)
        PROVE  NothingPosted
    BY <1>0, <1>1, <2>3, StopOfAdvance
  <2>4. ASSUME NEW w \in Waves, CancelCall(w) PROVE NothingPosted BY <1>0, <2>4, StopOfOthers
  <2> QED BY <1>2, <2>1, <2>2, <2>3, <2>4 DEF Work
<1>3. CASE Environment
  <2>1. ASSUME NEW r \in Runs, Retry(r) \/ Cancel(r) \/ BreakConfiguration(r) PROVE NothingPosted
    BY <1>0, <1>1, <2>1, StopOfOperation
  <2>2. CASE RequestStop \/ \E r \in Runs, S \in SUBSET Jobs : StartRead(r, S)
    BY <1>0, <1>1, <2>2, StopOfStart
  <2>3. CASE FollowFails \/ \E w \in Waves : UploadFails(w)
    BY <1>0, <1>1, <2>3, StopOfAdvance
  <2>4. CASE ChangeProfile \/ \E j \in Jobs : EditJob(j) \/ ArchiveJob(j) \/ RescueJob(j)
    BY <1>0, <2>4, StopOfOthers
  <2> QED BY <1>3, <2>1, <2>2, <2>3, <2>4 DEF Environment
<1>4. ASSUME NEW r \in Runs, Sync(r) PROVE NothingPosted BY <1>0, <1>1, <1>4, StopOfOperation
<1>5. CASE (\E w \in Waves : BatchEnds(w)) \/ Crash BY <1>0, <1>5, StopOfOthers
<1> QED BY <1>2, <1>3, <1>4, <1>5 DEF Next, Steps
----------------------------------------------------------------------------
(* The theorems.                                                           *)

\* Every offer, run, item and wave stays within the columns of the journal.
THEOREM TypesHold == Spec => []TypeOK
<1>1. Init => IInv BY InitIInv
<1>2. IInv /\ [Next]_vars => IInv' BY NextIInv
<1>3. IInv => TypeOK BY DEF IInv
<1> QED BY <1>1, <1>2, <1>3, PTL DEF Spec

\* Reservations are exclusive: reserved_analysis_job_ids and Retryable let one
\* run at a time work on an offer, and only one of all its runs publishes it.
THEOREM Exclusive == Spec => []ExclusiveReservation
<1>1. Init => SInv BY InitSInv
<1>2. SInv /\ [Next]_vars => SInv' BY NextSInv
<1>3. SInv => ExclusiveReservation BY DEF SInv
<1> QED BY <1>1, <1>2, <1>3, PTL DEF Spec

\* No offer is paid for twice at once: two accepted batches whose results are not
\* imported never ask for the same offer in the same phase, whatever was retried,
\* lost, cancelled or started again.
THEOREM PaidOnce == Spec => []NoDoublePurchase
<1>1. ASSUME SInv PROVE NoDoublePurchase
  <2> SUFFICES ASSUME NEW v \in Waves, NEW w \in Waves, InFlight(v), InFlight(w), v # w,
                      NEW j \in ItemsOf(v), j \in ItemsOf(w)
               PROVE  FALSE
    BY DEF NoDoublePurchase
  <2>0. TypeOK BY <1>1 DEF SInv, RInv, IInv
  <2>1. ASSUME NEW u \in Waves, InFlight(u)
        PROVE  Open(u) /\ wave[u].run \in Runs /\ run[wave[u].run].state \in ActiveRunStates
    <3>1. Open(u) BY <1>1, <2>1 DEF InFlight, Open, SInv, RInv, IInv, JournalInv, WaveSound
    <3> QED BY <1>1, <3>1 DEF SInv, RInv, FollowInv
  <2>2. j \in Jobs BY <2>0, ItemsOfType
  <2>3. item[wave[v].run][j].state \in PendingItemStates /\ item[wave[w].run][j].state \in PendingItemStates
    BY <1>1, <2>1, WaveWaits
  <2>4. Works(wave[v].run, j) /\ Works(wave[w].run, j) BY <2>1, <2>3 DEF Works
  <2>5. wave[v].run = wave[w].run
    BY <1>1, <2>1, <2>2, <2>4 DEF SInv, ExclusiveReservation
  <2>6. PICK q \in wave[v].reqs : j \in q.items BY DEF ItemsOf
  <2>7. PICK s \in wave[w].reqs : j \in s.items BY DEF ItemsOf
  <2> QED BY <1>1, <2>1, <2>5, <2>6, <2>7 DEF SInv, Apart
<1>2. Init => SInv BY InitSInv
<1>3. SInv /\ [Next]_vars => SInv' BY NextSInv
<1> QED BY <1>1, <1>2, <1>3, PTL DEF Spec

\* Exact copies share one request: _prepare_waves groups current items by the key
\* of their request, and no later chunk or phase asks the same content again.
THEOREM CopiesShare == Spec => []CopiesShareRequest
<1>1. ASSUME SInv PROVE CopiesShareRequest
  <2> SUFFICES ASSUME NEW r \in Runs, NEW v \in OpenWaves(r), NEW w \in OpenWaves(r),
                      NEW i \in ItemsOf(v), NEW j \in ItemsOf(w), Current(r, i), Current(r, j),
                      KeyOf[i] = KeyOf[j], job[i].body = job[j].body
               PROVE  \E q \in wave[v].reqs : {i, j} \subseteq q.items
    BY DEF CopiesShareRequest
  <2>1. v \in Waves /\ w \in Waves /\ Open(v) /\ Open(w) /\ wave[v].run = r /\ wave[w].run = r
    BY DEF OpenWaves
  <2>2. wave[v].phase = wave[w].phase BY <1>1, <2>1 DEF SInv, Apart
  <2>3. PICK q \in wave[v].reqs : i \in q.items BY DEF ItemsOf
  <2>4. PICK s \in wave[w].reqs : j \in s.items BY DEF ItemsOf
  <2>5. q.key = RequestKey(r, wave[v].phase, i) /\ s.key = RequestKey(r, wave[w].phase, j)
    BY <1>1, <2>1, <2>3, <2>4 DEF SInv, Wanted, WaveWanted
  <2>6. q.key = s.key BY <2>2, <2>5 DEF RequestKey
  <2>7. q = s BY <1>1, <2>1, <2>6 DEF SInv, Apart
  <2> QED BY <2>3, <2>4, <2>7
<1>2. Init => SInv BY InitSInv
<1>3. SInv /\ [Next]_vars => SInv' BY NextSInv
<1> QED BY <1>1, <1>2, <1>3, PTL DEF Spec

\* An analysis is only published for the version of the offer and the profile the
\* run was created with (current_job in accept_result), in the same transaction.
THEOREM PublishedCurrent == Spec => PublishesCurrent
<1> DEFINE A == \A r \in Runs, j \in Jobs :
                   item[r][j].state # "completed" /\ item'[r][j].state = "completed" =>
                       /\ job[j].state = "open" /\ job'[j].state = "analyzed"
                       /\ item[r][j].snap = job[j].ver /\ run[r].prof = prof
<1>1. SInv /\ [Next]_vars => A
  BY NextSInv DEF Steady, Published, Current, Candidate
<1>2. Init => SInv BY InitSInv
<1>3. SInv /\ [Next]_vars => SInv' BY NextSInv
<1> QED BY <1>1, <1>2, <1>3, PTL DEF Spec, PublishesCurrent

\* What is sent is what is missing: at the POST every item of the wave still
\* waits in the phase of the wave, an evaluation with its facts, an extraction
\* without them.
THEOREM PaysForMissing == Spec => PaysOnlyForMissing
<1> DEFINE A == \A w \in Waves : Posting(w) => \A j \in ItemsOf(w) :
                   LET i == item[wave[w].run][j]
                   IN  /\ i.state = PendingOf[wave[w].phase]
                       /\ wave[w].phase # "screening" => (i.offer <=> wave[w].phase = "evaluation")
<1>1. ASSUME SInv, [Next]_vars PROVE [A]_vars
  <2> SUFFICES ASSUME Next, NEW w \in Waves, Posting(w), NEW j \in ItemsOf(w)
               PROVE  /\ item[wave[w].run][j].state = PendingOf[wave[w].phase]
                      /\ wave[w].phase # "screening" =>
                            (item[wave[w].run][j].offer <=> wave[w].phase = "evaluation")
    BY <1>1
  <2>0. RInv /\ TypeOK BY <1>1 DEF SInv, RInv, IInv
  <2>1. PICK v \in Waves, answer \in {"posted", "unsure", "rejected"} : Post(v, answer)
    BY <2>0, OnlyPost DEF NothingPosted
  <2>2. w = v
    <3>1. remote \in [Waves -> RemoteRecs] BY <2>0 DEF TypeOK
    <3>2. remote' = remote \/ remote' = Accepted(v) BY <2>1 DEF Post
    <3> QED BY <3>1, <3>2 DEF Accepted, Posting, RemoteRecs
  <2>3. Open(w) /\ wave[w].run \in Runs /\ wave[w].phase \in Phases
    BY <2>0, <2>1, <2>2, OnWave DEF Post, At, WaveRecs
  <2>4. j \in Jobs /\ item[wave[w].run][j].state = PendingOf[wave[w].phase]
    BY <1>1, <2>3, WaveWaits
  <2>5. /\ item[wave[w].run][j].state = "extraction_pending" => ~item[wave[w].run][j].offer
        /\ item[wave[w].run][j].state = "evaluation_pending" => item[wave[w].run][j].offer
    BY <1>1, <2>3, <2>4 DEF SInv, Items
  <2> QED BY <2>3, <2>4, <2>5 DEF Phases, PendingOf
<1>2. Init => SInv BY InitSInv
<1>3. SInv /\ [Next]_vars => SInv' BY NextSInv
<1> QED BY <1>1, <1>2, <1>3, PTL DEF Spec, PaysOnlyForMissing
=============================================================================
