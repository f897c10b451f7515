------------------------ MODULE AnalysisModes_proof ------------------------
(***************************************************************************)
(* Theorems about the two analysis modes side by side.  An immediate step  *)
(* keeps the invariant of the batch runs (SInv), so that what is proved of *)
(* them holds beside it; and the runs leave what it has read recognisable. *)
(***************************************************************************)
EXTENDS AnalysisModes, BatchItems_proof

ImRecs == [pc : {"idle", "screening", "extraction", "evaluation"}, job : Jobs \cup {NoJob},
           ver : Nat, body : Nat, prof : Nat, offer : BOOLEAN, verdict : Verdicts \cup {"none"}]

ImType == im \in ImRecs /\ shared \in BOOLEAN /\ (im.pc # "idle" => im.job \in Jobs)

\* an unchanged version of the offer in hand has the text that was read
ImSeen ==
    im.pc # "idle" =>
        /\ im.ver <= job[im.job].ver
        /\ im.ver = job[im.job].ver => im.body = job[im.job].body

\* in one process the offer in hand is claimed, and no run reserves it
ImAlone ==
    shared /\ used.retries = 0 /\ im.pc # "idle" => im.job \in claims \ ReservedBy(Runs)

MInv == SInv /\ ImType /\ ImSeen /\ ImAlone

\* what a batch step publishes is current, and what it retains is the present text
JobFresh ==
    \A j \in Jobs :
        /\ job[j].state # "analyzed" /\ job'[j].state = "analyzed" => \E r \in Runs : Current(r, j)
        /\ job'[j].ckpt \notin {job[j].ckpt, 0} => job'[j].ckpt = job'[j].body

\* the answers to the offers of a run are fresh
LEMMA AnswersFresh ==
    ASSUME TypeOK, NEW r \in Runs, NEW p, NEW out, job' = JobsAfter(r, p, out)
    PROVE  JobFresh
<1> SUFFICES ASSUME NEW j \in Jobs
             PROVE  /\ job[j].state # "analyzed" /\ job'[j].state = "analyzed" => Current(r, j)
                    /\ job'[j].ckpt \notin {job[j].ckpt, 0} => job'[j].ckpt = job'[j].body
  BY DEF JobFresh
<1>1. job[j] \in JobRecs BY DEF TypeOK
<1>2. job'[j] = IF j \in DOMAIN out THEN JobAfter(r, p, j, out[j]) ELSE job[j] BY DEF JobsAfter
<1>3. CASE job'[j] = job[j] BY <1>3
<1>4. CASE job'[j] = JobAfter(r, p, j, out[j]) /\ Current(r, j)
  <2>1. CASE p = "screening" BY <1>1, <1>4, <2>1 DEF JobAfter, JobRecs
  <2>2. CASE p # "screening" BY <1>1, <1>4, <2>2 DEF JobAfter, JobRecs
  <2> QED BY <2>1, <2>2
<1>5. CASE job'[j] = JobAfter(r, p, j, out[j]) /\ ~Current(r, j)
  BY <1>5 DEF JobAfter
<1> QED BY <1>2, <1>3, <1>4, <1>5

\* what a batch run or an edit writes of an offer is fresh
LEMMA StepsFresh ==
    ASSUME RInv, Next
    PROVE  JobFresh
<1>0. TypeOK /\ (~At("idle") => co.run \in Runs) BY DEF RInv, IInv, JournalInv
<1>1. CASE job' = job BY <1>1 DEF JobFresh
<1>2. CASE StartCreate
  <2>1. \A j \in Jobs : job[j] \in JobRecs BY <1>0 DEF TypeOK
  <2>2. \A j \in Jobs : job'[j] = IF j \in StillPicked /\ ScreenedOut(j)
                                  THEN [job[j] EXCEPT !.state = "archived"] ELSE job[j]
    BY <1>2 DEF StartCreate
  <2> QED BY <2>1, <2>2 DEF JobFresh, JobRecs
<1>3. ASSUME NEW p \in Phases, NEW left, Prepare(p, left) PROVE JobFresh
  <2>1. co.run \in Runs BY <1>0, <1>3 DEF Prepare, PassIdle, InPass, At
  <2>2. PICK out : job' = JobsAfter(co.run, p, out) BY <1>3 DEF Prepare
  <2> QED BY <1>0, <2>1, <2>2, AnswersFresh
<1>4. ASSUME NEW w \in Waves, ScreeningFailed(w), ~At("idle") PROVE JobFresh
  <2>1. PICK out : job' = JobsAfter(co.run, "screening", out) BY <1>4 DEF ScreeningFailed
  <2> QED BY <1>0, <1>4, <2>1, AnswersFresh
<1>5. ASSUME NEW w \in Waves, ImportWave(w) PROVE JobFresh
  <2>1. PICK out : job' = JobsAfter(co.run, wave[w].phase, out) BY <1>5 DEF ImportWave, Import
  <2> QED BY <1>0, <1>5, <2>1, AnswersFresh DEF ImportWave, At
<1>6. ASSUME NEW k \in Jobs, EditJob(k) \/ ArchiveJob(k) \/ RescueJob(k) PROVE JobFresh
  <2>1. \A j \in Jobs : job[j] \in JobRecs BY <1>0 DEF TypeOK
  <2>2. \A j \in Jobs : j # k => job'[j] = job[j]
    BY <1>0, <1>6 DEF EditJob, ArchiveJob, RescueJob, TypeOK
  <2>3. job'[k].ckpt = job[k].ckpt /\ (job'[k].state = "analyzed" => job[k].state = "analyzed")
    BY <1>0, <1>6, <2>1 DEF EditJob, ArchiveJob, RescueJob, JobRecs, TypeOK
  <2> QED BY <2>2, <2>3 DEF JobFresh
<1>7. CASE Work
  <2>1. ASSUME NEW w \in Waves, CreateRejected(w) PROVE JobFresh
    BY <1>1, <1>4, <2>1 DEF CreateRejected, At
  <2>2. job' = job \/ StartCreate \/ (\E p \in Phases : \E left : Prepare(p, left))
        \/ \E w \in Waves : CreateRejected(w) \/ ImportWave(w)
    BY <1>7 DEF Work, StartRefused, StartAdvance, StartFollowUp, PassStops, PassWaves,
                FinishCancel, Finish, PrepareFrozen, UploadOk, Abandon, SubmitPrune, Commit, Post,
                Created, CreateUnsure, RefreshFrozen, RefreshFound, RefreshMissing, CancelCall,
                CancelRefused
  <2> QED BY <1>1, <1>2, <1>3, <1>5, <2>1, <2>2
<1>8. CASE Environment
  <2>1. ASSUME NEW w \in Waves, UploadFails(w) PROVE JobFresh
    BY <1>1, <1>4, <2>1 DEF UploadFails, At
  <2>2. job' = job \/ (\E k \in Jobs : EditJob(k) \/ ArchiveJob(k) \/ RescueJob(k))
        \/ \E w \in Waves : UploadFails(w)
    BY <1>8 DEF Environment, Retry, Cancel, BreakConfiguration, StartRead, RequestStop,
                FollowFails, ChangeProfile
  <2> QED BY <1>1, <1>6, <2>1, <2>2
<1> QED BY <1>1, <1>7, <1>8 DEF Next, Steps, Sync, BatchEnds, Crash

\* a batch step leaves the claims, and counts every retry
LEMMA StepsClaim ==
    ASSUME TypeOK, Next
    PROVE  /\ claims' = claims
           /\ used'.retries = 0 => used.retries = 0 /\ ~\E r \in Runs : Retry(r)
<1>0. used \in [edits : Nat, faults : Nat, retries : Nat] BY DEF TypeOK
<1>1. ASSUME Failing PROVE used'.retries = used.retries BY <1>0, <1>1 DEF Failing
<1>2. ASSUME Editing PROVE used'.retries = used.retries BY <1>0, <1>2 DEF Editing
<1>3. ASSUME NEW r \in Runs, Retry(r) PROVE used'.retries # 0 /\ claims' = claims
  BY <1>0, <1>3 DEF Retry
<1>4. CASE Work
  <2>1. ASSUME StartRefused \/ StartCreate \/ StartAdvance \/ StartFollowUp
        PROVE  claims' = claims /\ used' = used
    BY <2>1 DEF StartRefused, StartCreate, StartAdvance, StartFollowUp
  <2>2. ASSUME \/ PassStops \/ PassWaves \/ FinishCancel \/ Finish \/ UploadOk
               \/ \E p \in Phases : PrepareFrozen(p) \/ \E rest : Prepare(p, rest)
        PROVE  claims' = claims /\ used' = used
    BY <2>2 DEF PassStops, PassWaves, FinishCancel, Finish, Prepare, PrepareFrozen, UploadOk
  <2>3. ASSUME NEW w \in Waves,
               \/ Abandon(w) \/ SubmitPrune(w) \/ Commit(w) \/ \E answer : Post(w, answer)
               \/ Created(w) \/ CreateRejected(w) \/ CreateUnsure(w)
        PROVE  claims' = claims /\ used' = used
    BY <2>3 DEF Abandon, SubmitPrune, Commit, Post, Created, CreateRejected, CreateUnsure
  <2>4. ASSUME NEW w \in Waves,
               \/ RefreshFrozen(w) \/ RefreshFound(w) \/ RefreshMissing(w)
               \/ CancelCall(w) \/ CancelRefused(w) \/ ImportWave(w)
        PROVE  claims' = claims /\ used' = used
    BY <2>4 DEF RefreshFrozen, RefreshFound, RefreshMissing, CancelCall, CancelRefused, ImportWave
  <2>5. claims' = claims /\ used' = used BY <1>4, <2>1, <2>2, <2>3, <2>4 DEF Work
  <2> QED BY <1>3, <2>5
<1>5. CASE Environment
  <2>1. claims' = claims /\ (used' = used \/ Failing \/ Editing \/ \E r \in Runs : Retry(r))
    BY <1>3, <1>5 DEF Environment, Cancel, BreakConfiguration, StartRead, RequestStop,
                FollowFails, ChangeProfile, UploadFails, EditJob, ArchiveJob, RescueJob
  <2> QED BY <1>1, <1>2, <1>3, <2>1
<1>6. CASE Crash BY <1>1, <1>3, <1>6 DEF Crash
<1>7. CASE (\E r \in Runs : Sync(r)) \/ \E w \in Waves : BatchEnds(w)
  BY <1>3, <1>7 DEF Sync, BatchEnds
<1> QED BY <1>4, <1>5, <1>6, <1>7 DEF Next, Steps
----------------------------------------------------------------------------
(* The immediate analysis.                                                 *)

\* an answer is one of its phase
LEMMA AnswerTyped ==
    ASSUME CacheSound, NEW p \in Phases, NEW o \in Answers(p)
    PROVE  o \in OutcomesOf[p]
<1>1. CASE {e \in cache : e.key = ImKey(p)} = {} BY <1>1 DEF Answers
<1>2. CASE {e \in cache : e.key = ImKey(p)} # {}
  <2>1. PICK e \in cache : e.key = ImKey(p) /\ o = e.verdict BY <1>2 DEF Answers
  <2>2. e.key[1] = p BY <2>1 DEF ImKey
  <2> QED BY <2>1, <2>2 DEF CacheSound
<1> QED BY <1>1, <1>2

\* what it leaves in the cache is an answer of the phase it was asked in
LEMMA RememberedTyped ==
    ASSUME TypeOK, CacheSound, ImType, im.pc # "idle", NEW p \in Phases, NEW o \in OutcomesOf[p],
           cache' = Remembered(p, o)
    PROVE  cache' \subseteq [key : Keys, verdict : Verdicts] /\ CacheSound'
<1>1. ImKey(p) \in Keys
  <2>1. im.job \in Jobs /\ im.body \in Nat /\ im.prof \in Nat BY DEF ImType, ImRecs
  <2> QED BY <2>1 DEF ImKey, Keys
<1>2. ImKey(p)[1] = p BY DEF ImKey
<1>3. o \in Verdicts BY DEF Verdicts, OutcomesOf, Phases
<1>4. [key |-> ImKey(p), verdict |-> o] \in [key : Keys, verdict : Verdicts] BY <1>1, <1>3
<1>5. cache' \subseteq cache \cup {[key |-> ImKey(p), verdict |-> o]}
  BY DEF Remembered
<1>6. o = "failed" => cache' = cache BY DEF Remembered
<1>7. ASSUME NEW e \in cache' PROVE e.verdict \in OutcomesOf[e.key[1]] \ {"failed"}
  <2>1. CASE e \in cache BY <2>1 DEF CacheSound
  <2>2. CASE e \notin cache
    <3>1. e = [key |-> ImKey(p), verdict |-> o] /\ o # "failed" BY <1>5, <1>6, <1>7, <2>2
    <3> QED BY <1>2, <3>1
  <2> QED BY <2>1, <2>2
<1> QED BY <1>4, <1>5, <1>7 DEF TypeOK, CacheSound

\* a step that leaves the runs and the coordinator where they are keeps their invariant
LEMMA BesideKeeps ==
    ASSUME SInv, BatchUnchanged, job' \in [Jobs -> JobRecs], claims' \subseteq Jobs, JobMoves,
           cache' \subseteq [key : Keys, verdict : Verdicts], CacheSound'
    PROVE  SInv'
<1>0. TypeOK BY DEF SInv, RInv, IInv
<1>1. UNCHANGED <<prof, run, item, wave, remote, co, used>> BY DEF BatchUnchanged
<1>2. TypeOK' BY <1>0, <1>1 DEF TypeOK
<1>3. JournalInv' BY <1>1 DEF SInv, RInv, IInv, JournalInv, At, WaveSound, Handling, HandSound
<1>4. FollowInv' BY <1>1 DEF SInv, RInv, FollowInv, Open, At
<1>5. RInv' BY <1>2, <1>3, <1>4 DEF RInv, IInv
<1>6. Moves
  <2>1. RunsGoOn BY <1>1, GoesOnBySame
  <2>2. ItemMoves BY <1>1 DEF ItemMoves
  <2>3. ProfilesGrow BY <1>0, <1>1 DEF ProfilesGrow, SInv, Profiles, TypeOK
  <2> QED BY <2>1, <2>2, <2>3 DEF Moves
<1>7. WavesKeep
  <2>1. \A w \in Waves : Narrows(w) BY <1>0, <1>1, SameNarrows DEF Open
  <2>2. \A w \in Waves : Serves(w) BY <1>1, <1>2, <1>6, ServesByMoves
  <2> QED BY <2>1, <2>2 DEF WavesKeep
<1> QED BY <1>5, <1>6, <1>7, Keeps

\* a crash of the process that runs both modes
LEMMA CrashKeeps ==
    ASSUME SInv, Failing, co' = IdleCo, claims' = {},
           UNCHANGED <<job, prof, cache, run, item, wave, remote>>
    PROVE  SInv'
<1>0. TypeOK BY DEF SInv, RInv, IInv
<1>1. co' \in CoRecs /\ co'.pc = "idle" /\ co'.prof = 0 /\ co'.todo = {}
  BY IdleCoType DEF IdleCo
<1>2. used' \in [edits : Nat, faults : Nat, retries : Nat] BY <1>0 DEF Failing, TypeOK
<1>3. TypeOK' BY <1>0, <1>1, <1>2 DEF TypeOK
<1>4. JournalInv' BY <1>1 DEF SInv, RInv, IInv, JournalInv, At, WaveSound, Handling
<1>5. FollowInv' BY <1>1 DEF SInv, RInv, FollowInv, Open, At
<1>6. RInv' BY <1>3, <1>4, <1>5 DEF RInv, IInv
<1>7. RunsGoOn BY GoesOnBySame
<1>8. CoStays BY <1>0, <1>1 DEF CoStays
<1> QED BY <1>6, <1>7, <1>8, QuietControlStep

\* a batch step leaves what the immediate analysis has read recognisable, and its
\* offer alone
LEMMA BatchStep ==
    ASSUME MInv, Next, UNCHANGED <<im, shared>>
    PROVE  MInv' /\ JobMoves /\ JobFresh
<1>0. TypeOK /\ RInv BY DEF MInv, SInv, RInv, IInv
<1>1. SInv' /\ Steady BY NextSInv DEF MInv
<1>2. TypeOK' BY <1>1 DEF SInv, RInv, IInv
<1>3. ImType' BY DEF MInv, ImType
<1>4. ImSeen'
  <2> SUFFICES ASSUME im.pc # "idle"
               PROVE  /\ im.ver <= job'[im.job].ver
                      /\ im.ver = job'[im.job].ver => im.body = job'[im.job].body
    BY DEF ImSeen
  <2>1. PICK j \in Jobs : j = im.job BY DEF MInv, ImType
  <2>2. job[j].ver \in Nat /\ job'[j].ver \in Nat /\ im.ver \in Nat
    BY <1>0, <1>2 DEF TypeOK, JobRecs, MInv, ImType, ImRecs
  <2>3. im.ver <= job[j].ver /\ (im.ver = job[j].ver => im.body = job[j].body)
    BY <2>1 DEF MInv, ImSeen
  <2>4. /\ job'[j].ver >= job[j].ver
        /\ job'[j].ver = job[j].ver => job'[j].body = job[j].body
    BY <1>1 DEF Steady, JobMoves
  <2>5. im.ver <= job'[j].ver BY <2>2, <2>3, <2>4
  <2>6. ASSUME im.ver = job'[j].ver PROVE im.body = job'[j].body
    <3>1. job'[j].ver = job[j].ver BY <2>2, <2>3, <2>4, <2>6
    <3> QED BY <2>3, <2>4, <2>6, <3>1
  <2> QED BY <2>1, <2>5, <2>6
<1>5. ImAlone'
  <2> SUFFICES ASSUME shared, used'.retries = 0, im.pc # "idle"
               PROVE  im.job \in claims' /\ im.job \notin ReservedBy(Runs)'
    BY DEF ImAlone
  <2>1. claims' = claims /\ used.retries = 0 /\ ~\E r \in Runs : Retry(r)
    BY <1>0, StepsClaim
  <2>2. im.job \in claims /\ im.job \notin ReservedBy(Runs) BY <2>1 DEF MInv, ImAlone
  <2>3. CASE Stays BY <2>1, <2>2, <2>3 DEF Stays
  <2>4. CASE StartCreate
    <3>1. im.job \notin StillPicked
      <4>1. ~Conflict BY <2>4 DEF StartCreate
      <4>2. SUFFICES ASSUME <<im.job, job[im.job].ver>> \in co.picked PROVE FALSE BY DEF StillPicked
      <4>3. job[im.job].ver \in {p[2] : p \in co.picked} BY <4>2
      <4> QED BY <2>2, <4>1, <4>2, <4>3 DEF Conflict
    <3>2. ASSUME NEW r \in Runs, NEW j \in Jobs, j \notin StillPicked,
                 run'[r].state \in ActiveRunStates, item'[r][j].state # "none"
          PROVE  run[r].state \in ActiveRunStates /\ item[r][j].state # "none"
      <4>1. PICK s \in Runs : s = co.run
        BY <1>0, <2>4 DEF StartCreate, At, RInv, IInv, JournalInv
      <4>2. run[s].state = "none" /\ item[s][j].state = "none"
        BY <2>4, <4>1 DEF StartCreate, MInv, SInv, Born, At
      <4>3. item'[s][j] = item[s][j] BY <1>0, <2>4, <3>2, <4>1 DEF StartCreate, TypeOK
      <4>4. r # s BY <3>2, <4>2, <4>3
      <4>5. run'[r] = run[r] BY <1>0, <2>4, <4>1, <4>4 DEF StartCreate, TypeOK
      <4>6. item'[r] = item[r] BY <1>0, <2>4, <4>1, <4>4 DEF StartCreate, TypeOK
      <4> QED BY <3>2, <4>5, <4>6
    <3>3. im.job \in Jobs BY DEF MInv, ImType
    <3>4. SUFFICES ASSUME NEW r \in Runs, run'[r].state \in ActiveRunStates,
                          item'[r][im.job].state # "none"
                   PROVE  FALSE
      BY <2>1, <2>2 DEF ReservedBy
    <3>5. run[r].state \in ActiveRunStates /\ item[r][im.job].state # "none"
      BY <3>1, <3>2, <3>3, <3>4
    <3> QED BY <2>2, <3>3, <3>5 DEF ReservedBy
  <2> QED BY <1>1, <2>1, <2>3, <2>4 DEF Steady
<1> QED BY <1>0, <1>1, <1>3, <1>4, <1>5, StepsFresh DEF MInv, Steady

\* an immediate step writes one offer, as it was read
ImWrites ==
    \A j \in Jobs :
        /\ job'[j] \in JobRecs /\ job'[j].ver = job[j].ver /\ job'[j].body = job[j].body
        /\ job[j].state = "analyzed" => job'[j].state = "analyzed"
        /\ job'[j].state = "open" => job[j].state = "open"
        /\ job[j].state # "analyzed" /\ job'[j].state = "analyzed" =>
              /\ im.job = j /\ im.ver = job[j].ver /\ im.prof = prof /\ j \notin ReservedBy(Runs)
              /\ job[j].state = "open"
        /\ job'[j].ckpt \notin {job[j].ckpt, 0} => job'[j].ckpt = job'[j].body

\* such a write moves offers as a step may
LEMMA ImWritesMoves ==
    ASSUME TypeOK, ImWrites
    PROVE  JobMoves
BY DEF ImWrites, JobMoves, TypeOK, JobRecs

\* an immediate analysis begins with an offer no run reserves
LEMMA ImStartStep ==
    ASSUME MInv, NEW j \in Jobs, ImStart(j), shared' = shared
    PROVE  MInv' /\ ImWrites
<1>0. TypeOK BY DEF MInv, SInv, RInv, IInv
<1>1. UNCHANGED <<job, cache>> /\ BatchUnchanged BY DEF ImStart
<1>2. ImWrites BY <1>0, <1>1 DEF ImWrites, TypeOK
<1>3. claims' \subseteq Jobs BY <1>0 DEF ImStart, TypeOK
<1>4. CacheSound' BY <1>1 DEF MInv, SInv, CacheSound
<1>5. SInv' BY <1>0, <1>1, <1>2, <1>3, <1>4, ImWritesMoves, BesideKeeps DEF MInv, TypeOK
<1>6. job[j] \in JobRecs /\ prof \in Nat BY <1>0 DEF TypeOK
<1>7. job[j].scope.verdict \in Verdicts BY <1>6 DEF JobRecs
<1>8. HasExtraction(j) \in BOOLEAN BY DEF HasExtraction
<1>9. im' \in ImRecs
  <2>1. job[j].ver \in Nat /\ job[j].body \in Nat BY <1>6 DEF JobRecs
  <2>2. (IF HasVerdict(j) THEN job[j].scope.verdict ELSE "none") \in Verdicts \cup {"none"}
    BY <1>7
  <2> QED BY <1>6, <1>8, <2>1, <2>2 DEF ImStart, ImRecs
<1>10. im'.job = j /\ im'.ver = job[j].ver /\ im'.body = job[j].body BY DEF ImStart
<1>11. ImType' BY <1>9, <1>10 DEF ImType, MInv
<1>12. ImSeen' BY <1>1, <1>6, <1>10 DEF ImSeen, JobRecs
<1>13. ImAlone'
  <2>1. j \notin ReservedBy(Runs)' BY <1>1 DEF ImStart, ReservedBy, BatchUnchanged
  <2>2. shared' => j \in claims' BY DEF ImStart
  <2> QED BY <1>10, <2>1, <2>2 DEF ImAlone
<1> QED BY <1>2, <1>5, <1>11, <1>12, <1>13 DEF MInv

\* a later step of it writes its own offer and goes on or ends
LEMMA ImLaterStep ==
    ASSUME MInv, im.pc # "idle", BatchUnchanged, shared' = shared, ImWrites,
           job' \in [Jobs -> JobRecs],
           cache' \subseteq [key : Keys, verdict : Verdicts], CacheSound',
           \/ ImEnds
           \/ \E pc \in {"extraction", "evaluation"} : im' = [im EXCEPT !.pc = pc] /\ UNCHANGED claims
    PROVE  MInv'
<1>0. TypeOK /\ im \in ImRecs /\ im.job \in Jobs BY DEF MInv, SInv, RInv, IInv, ImType
<1>1. claims' \subseteq Jobs BY <1>0 DEF ImEnds, TypeOK
<1>2. SInv' BY <1>0, <1>1, ImWritesMoves, BesideKeeps DEF MInv
<1>3. CASE ImEnds
  <2>1. im' = IdleIm BY <1>3 DEF ImEnds
  <2>2. IdleIm \in ImRecs /\ IdleIm.pc = "idle" BY DEF IdleIm, ImRecs
  <2>3. ImType' /\ ImSeen' /\ ImAlone' BY <2>1, <2>2 DEF ImType, ImSeen, ImAlone, MInv
  <2> QED BY <1>2, <2>3 DEF MInv
<1>4. ASSUME NEW pc \in {"extraction", "evaluation"}, im' = [im EXCEPT !.pc = pc], UNCHANGED claims
      PROVE  MInv'
  <2>1. /\ im' \in ImRecs /\ im'.job = im.job /\ im'.ver = im.ver /\ im'.body = im.body
    BY <1>0, <1>4 DEF ImRecs
  <2>2. ImType' BY <1>0, <2>1 DEF ImType, MInv
  <2>3. job'[im.job].ver = job[im.job].ver /\ job'[im.job].body = job[im.job].body
    BY <1>0 DEF ImWrites
  <2>4. ImSeen' BY <2>1, <2>3 DEF ImSeen, MInv
  <2>5. ReservedBy(Runs)' = ReservedBy(Runs) BY DEF ReservedBy, BatchUnchanged
  <2>6. ImAlone' BY <1>4, <2>1, <2>5 DEF ImAlone, MInv, BatchUnchanged
  <2> QED BY <1>2, <2>2, <2>4, <2>6 DEF MInv
<1> QED BY <1>3, <1>4

\* the answer a step takes is kept in the cache, or none is asked
LEMMA AnswerKept ==
    ASSUME MInv, im.pc # "idle", NEW p \in Phases, NEW o, NEW kept \in BOOLEAN,
           ~kept => o \in Answers(p),
           cache' = IF kept THEN cache ELSE Remembered(p, o)
    PROVE  cache' \subseteq [key : Keys, verdict : Verdicts] /\ CacheSound'
<1>0. TypeOK /\ CacheSound /\ ImType BY DEF MInv, SInv, RInv, IInv
<1>1. CASE kept BY <1>0, <1>1 DEF TypeOK, CacheSound
<1>2. CASE ~kept
  <2>1. o \in OutcomesOf[p] BY <1>0, <1>2, AnswerTyped
  <2> QED BY <1>0, <1>2, <2>1, RememberedTyped
<1> QED BY <1>1, <1>2

\* writing one offer
LEMMA OneOffer ==
    ASSUME MInv, im.pc # "idle", NEW rec \in JobRecs,
           \/ job' = job
           \/ /\ job' = [job EXCEPT ![im.job] = rec] /\ SameOffer
              /\ rec.ver = job[im.job].ver /\ rec.body = job[im.job].body
              /\ \/ /\ rec.state \in {"open", "archived"}
                    /\ rec.ckpt = job[im.job].ckpt \/ rec.ckpt = im.body
                 \/ rec.ckpt = 0 /\ rec.state = "analyzed" /\ im.prof = prof /\ Admitted
    PROVE  ImWrites /\ job' \in [Jobs -> JobRecs]
<1>0. TypeOK /\ im.job \in Jobs BY DEF MInv, SInv, RInv, IInv, ImType
<1>1. job' \in [Jobs -> JobRecs] BY <1>0 DEF TypeOK
<1>2. CASE job' = job BY <1>0, <1>2 DEF ImWrites, TypeOK
<1>3. CASE job' # job
  <2>1. SameOffer /\ im.body = job[im.job].body BY <1>3 DEF SameOffer, MInv, ImSeen
  <2>2. job[im.job].state = "open" /\ im.ver = job[im.job].ver BY <2>1 DEF SameOffer
  <2>3. ASSUME NEW j \in Jobs, j # im.job PROVE job'[j] = job[j] BY <1>0, <2>3 DEF TypeOK
  <2>4. job'[im.job] = rec BY <1>0, <1>3 DEF TypeOK
  <2>5. /\ rec.ver = job[im.job].ver /\ rec.body = job[im.job].body
        /\ rec.ckpt \notin {job[im.job].ckpt, 0} => rec.ckpt = im.body
        /\ rec.state = "analyzed" => im.prof = prof /\ Admitted
    BY <1>3
  <2>6. Admitted => im.job \notin ReservedBy(Runs) BY DEF Admitted
  <2>7. ASSUME NEW j \in Jobs
        PROVE  /\ job'[j] \in JobRecs /\ job'[j].ver = job[j].ver /\ job'[j].body = job[j].body
               /\ job[j].state = "analyzed" => job'[j].state = "analyzed"
               /\ job'[j].state = "open" => job[j].state = "open"
               /\ job[j].state # "analyzed" /\ job'[j].state = "analyzed" =>
                     /\ im.job = j /\ im.ver = job[j].ver /\ im.prof = prof
                     /\ j \notin ReservedBy(Runs) /\ job[j].state = "open"
               /\ job'[j].ckpt \notin {job[j].ckpt, 0} => job'[j].ckpt = job'[j].body
    <3>1. CASE j = im.job BY <2>1, <2>2, <2>4, <2>5, <2>6, <3>1
    <3>2. CASE j # im.job BY <1>1, <2>3, <3>2
    <3> QED BY <3>1, <3>2
  <2> QED BY <1>1, <2>7 DEF ImWrites
<1> QED BY <1>1, <1>2, <1>3

\* the prefilter's answer is saved for the offer that was read
LEMMA ImScreenedStep ==
    ASSUME MInv, NEW o \in Verdicts, ImScreened(o), shared' = shared
    PROVE  MInv' /\ ImWrites
<1>0. TypeOK /\ im.job \in Jobs /\ im.pc # "idle" /\ im \in ImRecs
  BY DEF MInv, SInv, RInv, IInv, ImType, ImScreened
<1>1. BatchUnchanged BY DEF ImScreened
<1>2. cache' \subseteq [key : Keys, verdict : Verdicts] /\ CacheSound'
  <2> DEFINE kept == im.verdict # "none"
  <2>1. kept \in BOOLEAN /\ (~kept => o \in Answers("screening"))
        /\ cache' = IF kept THEN cache ELSE Remembered("screening", o)
    BY DEF ImScreened
  <2>2. "screening" \in Phases BY DEF Phases
  <2> HIDE DEF kept
  <2> QED BY <1>0, <2>1, <2>2, AnswerKept
<1> DEFINE rec == [job[im.job] EXCEPT !.scope = [body |-> im.body, verdict |-> o],
                                      !.state = IF Archives(im.job, o) THEN "archived" ELSE @]
<1>3. job[im.job] \in JobRecs /\ im.body \in Nat BY <1>0 DEF TypeOK, ImRecs
<1>4. rec \in JobRecs /\ rec.ver = job[im.job].ver /\ rec.body = job[im.job].body
      /\ rec.ckpt = job[im.job].ckpt /\ rec.state \in {"archived", job[im.job].state}
  BY <1>3 DEF JobRecs
<1>5. job' = job \/ (job' = [job EXCEPT ![im.job] = rec] /\ SameOffer)
  <2>1. CASE SameOffer
    <3>1. job' = [job EXCEPT ![im.job].scope = [body |-> im.body, verdict |-> o],
                             ![im.job].state = IF Archives(im.job, o) THEN "archived" ELSE @]
      BY <2>1 DEF ImScreened
    <3>2. \A j \in Jobs : job'[j] = IF j = im.job THEN rec ELSE job[j]
      BY <1>0, <1>3, <3>1 DEF TypeOK, JobRecs
    <3>3. job \in [Jobs -> JobRecs] /\ job' \in [Jobs -> JobRecs]
      BY <1>0, <1>4, <3>1, <3>2 DEF TypeOK
    <3> HIDE DEF rec
    <3>4. job' = [job EXCEPT ![im.job] = rec] BY <3>2, <3>3
    <3> QED BY <2>1, <3>4
  <2>2. CASE ~SameOffer
    <3>1. job' = job BY <2>2 DEF ImScreened
    <3> QED BY <3>1
  <2> QED BY <2>1, <2>2
<1>6. SameOffer => rec.state \in {"open", "archived"} BY <1>4 DEF SameOffer
<1>7. \/ ImEnds
      \/ \E pc \in {"extraction", "evaluation"} : im' = [im EXCEPT !.pc = pc] /\ UNCHANGED claims
  BY DEF ImScreened
<1> HIDE DEF rec
<1>8. ImWrites /\ job' \in [Jobs -> JobRecs] BY <1>0, <1>4, <1>5, <1>6, OneOffer
<1> QED BY <1>0, <1>1, <1>2, <1>7, <1>8, ImLaterStep

\* the extraction is retained for the offer that was read
LEMMA ImExtractedStep ==
    ASSUME MInv, NEW o \in Verdicts, ImExtracted(o), shared' = shared
    PROVE  MInv' /\ ImWrites
<1>0. TypeOK /\ im.job \in Jobs /\ im.pc # "idle" /\ im \in ImRecs
  BY DEF MInv, SInv, RInv, IInv, ImType, ImExtracted
<1>1. BatchUnchanged BY DEF ImExtracted
<1>2. cache' \subseteq [key : Keys, verdict : Verdicts] /\ CacheSound'
  <2>1. im.offer \in BOOLEAN /\ (~im.offer => o \in Answers("extraction"))
        /\ cache' = IF im.offer THEN cache ELSE Remembered("extraction", o)
    BY <1>0 DEF ImExtracted, ImRecs
  <2>2. "extraction" \in Phases BY DEF Phases
  <2> QED BY <1>0, <2>1, <2>2, AnswerKept
<1> DEFINE rec == [job[im.job] EXCEPT !.ckpt = im.body]
<1>3. job[im.job] \in JobRecs /\ im.body \in Nat BY <1>0 DEF TypeOK, ImRecs
<1>4. rec \in JobRecs /\ rec.ver = job[im.job].ver /\ rec.body = job[im.job].body
      /\ rec.ckpt = im.body /\ rec.state = job[im.job].state
  BY <1>3 DEF JobRecs
<1>5. job' = job \/ (job' = [job EXCEPT ![im.job] = rec] /\ SameOffer)
  <2>1. CASE o = "ok" /\ Admitted
    <3>1. job' = [job EXCEPT ![im.job] = rec] BY <2>1 DEF ImExtracted
    <3> QED BY <2>1, <3>1 DEF Admitted
  <2>2. CASE ~(o = "ok" /\ Admitted)
    <3>1. job' = job BY <2>2 DEF ImExtracted
    <3> QED BY <3>1
  <2> QED BY <2>1, <2>2
<1>6. SameOffer => rec.state \in {"open", "archived"} BY <1>4 DEF SameOffer
<1>7. \/ ImEnds
      \/ \E pc \in {"extraction", "evaluation"} : im' = [im EXCEPT !.pc = pc] /\ UNCHANGED claims
  BY DEF ImExtracted
<1> HIDE DEF rec
<1>8. ImWrites /\ job' \in [Jobs -> JobRecs] BY <1>0, <1>4, <1>5, <1>6, OneOffer
<1> QED BY <1>0, <1>1, <1>2, <1>7, <1>8, ImLaterStep

\* the analysis is published for the offer that was read
LEMMA ImPublishedStep ==
    ASSUME MInv, NEW o \in Verdicts, ImPublished(o), shared' = shared
    PROVE  MInv' /\ ImWrites
<1>0. TypeOK /\ im.job \in Jobs /\ im.pc # "idle" /\ im \in ImRecs
  BY DEF MInv, SInv, RInv, IInv, ImType, ImPublished
<1>1. BatchUnchanged /\ ImEnds BY DEF ImPublished
<1>2. cache' \subseteq [key : Keys, verdict : Verdicts] /\ CacheSound'
  <2>1. o \in Answers("evaluation") /\ cache' = Remembered("evaluation", o) BY DEF ImPublished
  <2>2. "evaluation" \in Phases BY DEF Phases
  <2> QED BY <1>0, <2>1, <2>2, AnswerKept
<1> DEFINE rec == [job[im.job] EXCEPT !.state = "analyzed", !.ckpt = 0]
<1>3. job[im.job] \in JobRecs BY <1>0 DEF TypeOK
<1>4. rec \in JobRecs /\ rec.ver = job[im.job].ver /\ rec.body = job[im.job].body
      /\ rec.ckpt = 0 /\ rec.state = "analyzed"
  BY <1>3 DEF JobRecs
<1>5. job' = job \/ (job' = [job EXCEPT ![im.job] = rec] /\ SameOffer /\ im.prof = prof /\ Admitted)
  <2>1. CASE o = "ok" /\ im.prof = prof /\ Admitted
    <3>1. job' = [job EXCEPT ![im.job].state = "analyzed", ![im.job].ckpt = 0]
      BY <2>1 DEF ImPublished
    <3>2. \A j \in Jobs : job'[j] = IF j = im.job THEN rec ELSE job[j]
      BY <1>0, <1>3, <3>1 DEF TypeOK, JobRecs
    <3>3. job \in [Jobs -> JobRecs] /\ job' \in [Jobs -> JobRecs]
      BY <1>0, <1>4, <3>1, <3>2 DEF TypeOK
    <3> HIDE DEF rec
    <3>4. job' = [job EXCEPT ![im.job] = rec] BY <3>2, <3>3
    <3> QED BY <2>1, <3>4 DEF Admitted
  <2>2. CASE ~(o = "ok" /\ im.prof = prof /\ Admitted)
    <3>1. job' = job BY <2>2 DEF ImPublished
    <3> QED BY <3>1
  <2> QED BY <2>1, <2>2
<1> HIDE DEF rec
<1>8. ImWrites /\ job' \in [Jobs -> JobRecs] BY <1>0, <1>4, <1>5, OneOffer
<1> QED BY <1>0, <1>1, <1>2, <1>8, ImLaterStep

\* Stop ends the analysis and writes nothing
LEMMA ImStopStep ==
    ASSUME MInv, ImStop, shared' = shared
    PROVE  MInv' /\ ImWrites
<1>0. TypeOK BY DEF MInv, SInv, RInv, IInv
<1>1. ImEnds /\ BatchUnchanged /\ UNCHANGED <<job, cache>> /\ im.pc # "idle" BY DEF ImStop
<1>2. ImWrites BY <1>0, <1>1 DEF ImWrites, TypeOK
<1>3. CacheSound' BY <1>1 DEF MInv, SInv, CacheSound
<1> QED BY <1>0, <1>1, <1>2, <1>3, ImLaterStep DEF TypeOK

\* the process that runs both modes dies
LEMMA SharedCrashStep ==
    ASSUME MInv, Failing, co' = IdleCo, im' = IdleIm, claims' = {}, shared' = shared,
           UNCHANGED <<job, prof, cache, run, item, wave, remote>>
    PROVE  MInv'
<1>1. SInv' BY CrashKeeps DEF MInv
<1>2. IdleIm \in ImRecs /\ IdleIm.pc = "idle" BY DEF IdleIm, ImRecs
<1> QED BY <1>1, <1>2 DEF MInv, ImType, ImSeen, ImAlone

----------------------------------------------------------------------------
(* The theorems.                                                           *)

\* no immediate analysis runs at first
LEMMA InitMInv == ModesInit => MInv
<1> SUFFICES ASSUME ModesInit PROVE MInv OBVIOUS
<1>1. SInv BY InitSInv DEF ModesInit
<1>2. IdleIm \in ImRecs /\ IdleIm.pc = "idle" BY DEF IdleIm, ImRecs
<1> QED BY <1>1, <1>2 DEF ModesInit, MInv, ImType, ImSeen, ImAlone

\* every step keeps the invariant, and writes what is fresh
LEMMA NextMInv ==
    ASSUME MInv, [ModesNext]_modesVars
    PROVE  MInv' /\ (JobFresh \/ ImWrites)
<1>1. CASE UNCHANGED modesVars
  <2>1. UNCHANGED <<job, prof, cache, claims, run, item, wave, remote, co, used, im, shared>>
    BY <1>1 DEF modesVars, vars
  <2>2. SInv' BY <1>1, NextSInv DEF MInv, modesVars
  <2>3. ReservedBy(Runs)' = ReservedBy(Runs) BY <2>1 DEF ReservedBy
  <2> QED BY <2>1, <2>2, <2>3 DEF MInv, ImType, ImSeen, ImAlone, JobFresh
<1>2. CASE (Steps \/ Crash) /\ UNCHANGED <<im, shared>> BY <1>2, BatchStep DEF Next
<1>3. CASE ImNext /\ UNCHANGED shared
  BY <1>3, ImStartStep, ImScreenedStep, ImExtractedStep, ImPublishedStep, ImStopStep DEF ImNext
<1>4. CASE /\ Failing /\ co' = IdleCo /\ im' = IdleIm /\ claims' = {} /\ UNCHANGED shared
           /\ UNCHANGED <<job, prof, cache, run, item, wave, remote>>
  BY <1>4, SharedCrashStep DEF JobFresh
<1> QED BY <1>1, <1>2, <1>3, <1>4 DEF ModesNext, ModesCrash

\* what is proved of the runs holds beside an immediate analysis, in one process
\* or in two: an offer is one run's at a time, and published by one of them
THEOREM ExclusiveBeside == ModesSpec => []ExclusiveReservation
<1>1. MInv => ExclusiveReservation BY DEF MInv, SInv
<1>2. ModesInit => MInv BY InitMInv
<1>3. MInv /\ [ModesNext]_modesVars => MInv' BY NextMInv
<1> QED BY <1>1, <1>2, <1>3, PTL DEF ModesSpec

\* A publication is of the offer and the profile as they are, by a run or by an
\* immediate analysis whose offer no run reserves, and a retained extraction is
\* one of the present text (save_extraction, persist_job_analysis).
THEOREM FreshPublications == ModesSpec => PublishesFresh
<1> DEFINE A == \A j \in Jobs :
          /\ job[j].state # "analyzed" /\ job'[j].state = "analyzed" =>
                /\ job[j].state = "open"
                /\ \/ \E r \in Runs : item[r][j].snap = job[j].ver /\ run[r].prof = prof
                   \/ im.job = j /\ im.ver = job[j].ver /\ im.prof = prof
                      /\ j \notin ReservedBy(Runs)
          /\ job'[j].ckpt \notin {job[j].ckpt, 0} => job'[j].ckpt = job'[j].body
<1>1. MInv /\ [ModesNext]_modesVars => A
  <2>1. JobFresh => A BY DEF JobFresh, Current, Candidate
  <2>2. ImWrites => A BY DEF ImWrites
  <2> QED BY <2>1, <2>2, NextMInv
<1>2. ModesInit => MInv BY InitMInv
<1>3. MInv /\ [ModesNext]_modesVars => MInv' BY NextMInv
<1> QED BY <1>1, <1>2, <1>3, PTL DEF ModesSpec, PublishesFresh

\* In one process, and without retries, the offer of the immediate analysis is in
\* no batch under way: job_operation keeps a start from taking it, and the
\* admission keeps the analysis from an offer a run reserves.
THEOREM DistinctOffers == ModesSpec => []ModesOnDistinctOffers
<1>1. ASSUME MInv PROVE ModesOnDistinctOffers
  <2> SUFFICES ASSUME shared, used.retries = 0, im.pc # "idle", NEW w \in Waves, InFlight(w),
                      im.job \in ItemsOf(w)
               PROVE  FALSE
    BY DEF ModesOnDistinctOffers
  <2>1. Open(w) BY <1>1 DEF InFlight, Open, MInv, SInv, RInv, IInv, JournalInv, WaveSound
  <2>2. wave[w].run \in Runs /\ run[wave[w].run].state \in ActiveRunStates
    BY <1>1, <2>1 DEF MInv, SInv, RInv, FollowInv
  <2>3. im.job \in Jobs /\ item[wave[w].run][im.job].state \in PendingItemStates
    BY <1>1, <2>1, WaveWaits DEF MInv, ImType
  <2>4. "none" \notin PendingItemStates BY PendingStates
  <2>5. im.job \in ReservedBy(Runs) BY <2>2, <2>3, <2>4 DEF ReservedBy
  <2> QED BY <1>1, <2>5 DEF MInv, ImAlone
<1>2. ModesInit => MInv BY InitMInv
<1>3. MInv /\ [ModesNext]_modesVars => MInv' BY NextMInv
<1> QED BY <1>1, <1>2, <1>3, PTL DEF ModesSpec
=============================================================================
