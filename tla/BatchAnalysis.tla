--------------------------- MODULE BatchAnalysis ---------------------------
(***************************************************************************)
(* Batch analysis of job offers: the coordinator that follows durable runs *)
(* (smartapply/pipeline/batch_analysis), the journal it keeps in SQLite    *)
(* (runs, items, waves), the provider's batch service, and the rest of the *)
(* application, which edits offers and the profile meanwhile.              *)
(*                                                                         *)
(* One action is one database transaction or one provider call of the      *)
(* coordinator.  batch_operation() lets a single operation (start, sync,   *)
(* retry, cancel) run at a time, so `co' is the one program counter; a     *)
(* crash drops it and leaves the journal.                                  *)
(***************************************************************************)
EXTENDS Naturals, FiniteSets

CONSTANTS
    Jobs,         \* offer ids; items of a run are read in this order
    Runs,         \* ids of analysis runs that may be started
    KeyOf,        \* content of an offer: equal for exact copies
    MaxWaves,     \* bound: waves 1..MaxWaves may be journaled
    ChunkSize,    \* most requests split_requests puts in one file
    Passes,       \* passes of one _advance (9 in the code)
    Unbuildable,  \* <<phase, offer>> whose request cannot be built
    Breakable,    \* runs whose frozen configuration an upgrade may break
    ListsRunning, \* TRUE: recovery finds a running batch (OpenAI); FALSE: ended only
    CacheExpires, \* TRUE: the response cache may have expired when purged
    MaxEdits,     \* bound: edits of offers and profile
    MaxFaults,    \* bound: crashes and failed provider calls
    MaxRetries,   \* bound: retries asked by the user
    NoRun         \* co.run when no operation runs

ASSUME BatchAssumption ==
    /\ Jobs \subseteq Nat
    /\ MaxWaves \in Nat /\ ChunkSize \in Nat \ {0} /\ Passes \in Nat \ {0}
    /\ MaxEdits \in Nat /\ MaxFaults \in Nat /\ MaxRetries \in Nat
    /\ NoRun \notin Runs
    /\ ListsRunning \in BOOLEAN /\ CacheExpires \in BOOLEAN

VARIABLES
    job,      \* offers, with their extraction and prefilter checkpoints
    prof,     \* version of the candidate profile
    cache,    \* LLM response cache: set of [key, verdict]
    claims,   \* offers held by another thread of this process
    run,      \* analysis_batch_runs
    item,     \* analysis_batch_items, one per run and offer
    wave,     \* analysis_batch_waves
    remote,   \* the provider: accepted POSTs per wave and batch status
    co,       \* the operation that holds batch_operation()
    used      \* how much of each bound is spent

vars == <<job, prof, cache, claims, run, item, wave, remote, co, used>>

Waves == 1..MaxWaves
Phases == {"screening", "extraction", "evaluation"}
PendingOf == [screening |-> "screening_pending",
              extraction |-> "extraction_pending",
              evaluation |-> "evaluation_pending"]
\* mutant: the failed state is built from the wrong phase name
MutantFailedOf == [extraction |-> "extraction_failed", evaluation |-> "screening_failed"]

FailedOf == [extraction |-> "extraction_failed", evaluation |-> "evaluation_failed"]
OutcomesOf == [screening |-> {"outside", "inside", "failed"},
               extraction |-> {"ok", "failed"},
               evaluation |-> {"ok", "failed"}]

PendingItemStates == {PendingOf[p] : p \in Phases}
ItemStates == PendingItemStates \cup
    {"none", "filtered_after_screening", "extraction_failed", "evaluation_failed",
     "skipped", "completed", "cancelled"}
ActiveRunStates == {"active", "attention", "blocked"}
PollingRunStates == {"active", "attention"}
TerminalRunStates == {"completed", "partial", "failed", "cancelled"}
RunStates == {"none"} \cup ActiveRunStates \cup TerminalRunStates
RemoteStates == {"absent", "running", "cancelling", "ended"}
WaveStates == {"unused", "prepared", "submitting", "running", "cancelling", "ended", "imported"}

----------------------------------------------------------------------------
(* Reading the offers and the journal.                                     *)

\* is_current_analysis_candidate without exclude_reserved
Candidate(j) == job[j].state = "open"

\* mutant: a run whose submission is uncertain no longer reserves its offers
MutantReservedBy(rs) ==
    {j \in Jobs : \E r \in rs : run[r].state = "active" /\ item[r][j].state # "none"}

\* reserved_analysis_job_ids, for the runs in rs
ReservedBy(rs) ==
    {j \in Jobs : \E r \in rs : run[r].state \in ActiveRunStates /\ item[r][j].state # "none"}

\* mutant: current_job without the version check
MutantCurrentAnyVersion(r, j) == Candidate(j) /\ run[r].prof = prof

\* current_job: same offer version, still admissible, same profile
Current(r, j) ==
    Candidate(j) /\ item[r][j].snap = job[j].ver /\ run[r].prof = prof

\* mutant: the request holds the item's own id, so exact copies never meet
MutantRequestKey(r, p, j) ==
    <<p, j, job[j].body, IF p = "evaluation" THEN run[r].prof ELSE 0>>

\* cache key of one request; only the evaluation prompt holds the profile
RequestKey(r, p, j) ==
    <<p, KeyOf[j], job[j].body, IF p = "evaluation" THEN run[r].prof ELSE 0>>

Open(w) == wave[w].state \notin {"unused", "imported"}
OpenWaves(r) == {w \in Waves : wave[w].run = r /\ Open(w)}
ItemsOf(w) == UNION {q.items : q \in wave[w].reqs}

----------------------------------------------------------------------------
(* Publishing outcomes.  `out' maps offers of run r to what their request  *)
(* of phase p returned: a verdict, "ok", or "failed".                      *)

\* apply_mission_screen: a decisive verdict archives, a manual keep protects
Archives(j, o) == o = "outside" /\ ~job[j].kept

\* accept_result, fail_open_screening and the two *_failed branches
ItemAfter(r, p, j, o) ==
    LET i == item[r][j] IN
    IF o = "failed" /\ p # "screening" THEN [i EXCEPT !.state = FailedOf[p]]
    ELSE IF ~Current(r, j) THEN [i EXCEPT !.state = "skipped"]
    ELSE CASE p = "screening" ->
                [i EXCEPT !.state = IF Archives(j, o) THEN "filtered_after_screening"
                                    ELSE IF i.offer THEN "evaluation_pending"
                                    ELSE "extraction_pending"]
           [] p = "extraction" -> [i EXCEPT !.state = "evaluation_pending", !.offer = TRUE]
           [] p = "evaluation" -> [i EXCEPT !.state = "completed"]

\* save_scope + apply_mission_screen, save_extraction, persist_job_analysis
JobAfter(r, p, j, o) ==
    LET b == job[j] IN
    IF ~Current(r, j) THEN b
    ELSE CASE p = "screening" ->
                [b EXCEPT !.scope = [body |-> b.body, verdict |-> o],
                          !.state = IF Archives(j, o) THEN "archived" ELSE @]
           [] p = "extraction" /\ o = "ok" -> [b EXCEPT !.ckpt = b.body]
           [] p = "evaluation" /\ o = "ok" -> [b EXCEPT !.state = "analyzed", !.ckpt = 0]
           [] OTHER -> b

ItemsAfter(r, p, out) ==
    [item EXCEPT ![r] = [j \in Jobs |-> IF j \in DOMAIN out THEN ItemAfter(r, p, j, out[j])
                                        ELSE item[r][j]]]
JobsAfter(r, p, out) ==
    [j \in Jobs |-> IF j \in DOMAIN out THEN JobAfter(r, p, j, out[j]) ELSE job[j]]

\* the items of S that current_job finds obsolete become "skipped"
SkipStale(r, S) ==
    [item EXCEPT ![r] = [j \in Jobs |-> IF j \in S /\ ~Current(r, j)
                                        THEN [item[r][j] EXCEPT !.state = "skipped"]
                                        ELSE item[r][j]]]

----------------------------------------------------------------------------
(* The coordinator's control.                                              *)

IdleCo == [pc |-> "idle", op |-> "none", run |-> NoRun, prof |-> 0, picked |-> {},
           todo |-> {}, cancelling |-> FALSE, waiting |-> FALSE, passes |-> 0, stop |-> FALSE]

Advancing(o, r) == [IdleCo EXCEPT !.pc = "pass", !.op = o, !.run = r, !.passes = Passes]

\* _advance returned or raised; start then looks at Stop once more
Returned == IF co.op = "start" THEN [co EXCEPT !.pc = "followup", !.todo = {}] ELSE IdleCo

At(pc) == co.pc = pc
\* waves are handled in the order they were journaled
Handling(w) == w \in co.todo /\ \A v \in co.todo : w <= v
StopSeen == co.op = "start" /\ co.stop

\* end of one iteration of `for wave in waves'
Continue(w, wait) ==
    LET left == co.todo \ {w}
        waits == co.waiting \/ wait
    IN  co' = IF left # {} THEN [co EXCEPT !.pc = "wave", !.todo = left, !.waiting = waits]
              ELSE IF waits THEN Returned
              ELSE [co EXCEPT !.pc = "pass", !.todo = {}, !.waiting = FALSE]

\* _safely_advance: the exception is recorded, the wave keeps its state
Raise(r, text) ==
    /\ co' = Returned
    /\ run' = [run EXCEPT ![r].err = text]
\* FrozenConfigurationError also blocks the run
RaiseFrozen(r) ==
    /\ co' = Returned
    /\ run' = [run EXCEPT ![r].err = "other", ![r].state = "blocked"]

----------------------------------------------------------------------------
(* Starting, following, retrying and cancelling a run.                     *)

\* prepare_analysis and analysis_candidates read the admissible offers
StartRead(r, S) ==
    /\ At("idle") /\ run[r].state = "none"
    /\ S # {} /\ S \subseteq {j \in Jobs : Candidate(j)} \ ReservedBy(Runs)
    /\ co' = [IdleCo EXCEPT !.pc = "reserve", !.op = "start", !.run = r, !.prof = prof,
                            !.picked = {<<j, job[j].ver>> : j \in S}]
    /\ UNCHANGED <<job, prof, cache, claims, run, item, wave, remote, used>>

\* the picked offers whose version and admission still hold
StillPicked == {j \in Jobs : <<j, job[j].ver>> \in co.picked /\ Candidate(j)} \ ReservedBy(Runs)
\* mutant: the preparation does not reserve its offers
MutantConflict == FALSE

\* job_operation refuses an offer another thread holds
Conflict == \E j \in claims, v \in {p[2] : p \in co.picked} : <<j, v>> \in co.picked

\* Stop, a conflicting operation, or nothing left to analyse: no run is created
StartRefused ==
    /\ At("reserve") /\ (co.stop \/ Conflict \/ StillPicked = {})
    /\ co' = IdleCo
    /\ UNCHANGED <<job, prof, cache, claims, run, item, wave, remote, used>>

\* new_item: a retained valid verdict and a retained extraction are reused
HasVerdict(j) == job[j].scope.body = job[j].body /\ job[j].scope.verdict # "failed"
HasExtraction(j) == job[j].ckpt = job[j].body
ScreenedOut(j) == HasVerdict(j) /\ Archives(j, job[j].scope.verdict)
NewItem(j) ==
    [state |-> IF ScreenedOut(j) THEN "filtered_after_screening"
               ELSE IF ~HasVerdict(j) THEN "screening_pending"
               ELSE IF HasExtraction(j) THEN "evaluation_pending"
               ELSE "extraction_pending",
     snap |-> job[j].ver, offer |-> HasExtraction(j)]

StartCreate ==
    /\ At("reserve") /\ ~co.stop /\ ~Conflict /\ StillPicked # {}
    /\ run' = [run EXCEPT ![co.run] = [@ EXCEPT !.state = "active", !.prof = co.prof]]
    /\ item' = [item EXCEPT ![co.run] =
                   [j \in Jobs |-> IF j \in StillPicked THEN NewItem(j) ELSE item[co.run][j]]]
    /\ job' = [j \in Jobs |-> IF j \in StillPicked /\ ScreenedOut(j)
                              THEN [job[j] EXCEPT !.state = "archived"] ELSE job[j]]
    /\ co' = [co EXCEPT !.pc = "created"]
    /\ UNCHANGED <<prof, cache, claims, wave, remote, used>>

\* Stop seen right after the run was created
StartAdvance ==
    /\ At("created")
    /\ run' = [run EXCEPT ![co.run].cancel = @ \/ co.stop]
    /\ co' = [co EXCEPT !.pc = "pass", !.passes = Passes]
    /\ UNCHANGED <<job, prof, cache, claims, item, wave, remote, used>>

\* Stop seen after the first _advance: cancel what is still active
StartFollowUp ==
    /\ At("followup")
    /\ IF co.stop /\ run[co.run].state \in ActiveRunStates
       THEN /\ run' = [run EXCEPT ![co.run].cancel = TRUE]
            /\ co' = Advancing("cancel", co.run)
       ELSE /\ co' = IdleCo /\ UNCHANGED run
    /\ UNCHANGED <<job, prof, cache, claims, item, wave, remote, used>>

\* the user presses Stop while the launch is still running
RequestStop ==
    /\ co.op = "start" /\ ~co.stop
    /\ co' = [co EXCEPT !.stop = TRUE]
    /\ UNCHANGED <<job, prof, cache, claims, run, item, wave, remote, used>>

\* mutant: a run that asks for attention is not followed
MutantSync(r) ==
    /\ At("idle") /\ run[r].state = "active"
    /\ co' = Advancing("sync", r)
    /\ UNCHANGED <<job, prof, cache, claims, run, item, wave, remote, used>>

\* the two-minute timer follows every polling run
Sync(r) ==
    /\ At("idle") /\ run[r].state \in PollingRunStates
    /\ co' = Advancing("sync", r)
    /\ UNCHANGED <<job, prof, cache, claims, run, item, wave, remote, used>>

\* mutant: offers another run reserves are retried too
MutantRetryable(r) ==
    {j \in Jobs : item[r][j].state \in {"extraction_failed", "evaluation_failed"}}

\* the failed items of a finished run that may be asked again
Retryable(r) ==
    {j \in Jobs : item[r][j].state \in {"extraction_failed", "evaluation_failed"}}
        \ ReservedBy(Runs \ {r})

\* mutant: the item's own facts are asked again
MutantRetried(r, j) == IF Current(r, j) THEN "extraction_pending" ELSE "skipped"

\* facts already extracted only need their evaluation
Retried(r, j) ==
    IF ~Current(r, j) THEN "skipped"
    ELSE IF item[r][j].offer THEN "evaluation_pending" ELSE "extraction_pending"

Retry(r) ==
    /\ At("idle") /\ run[r].state # "none" /\ used.retries < MaxRetries
    /\ \/ /\ run[r].state = "blocked"
          /\ run' = [run EXCEPT ![r].state = "active", ![r].err = "none"]
          /\ UNCHANGED item
       \/ /\ run[r].state \in PollingRunStates
          /\ UNCHANGED <<run, item>>
       \/ /\ run[r].state \in TerminalRunStates /\ ~run[r].cancel
          /\ \E j \in Retryable(r) : Current(r, j)
          /\ run' = [run EXCEPT ![r].state = "active", ![r].err = "none"]
          /\ item' = [item EXCEPT ![r] = [j \in Jobs |->
                 IF j \notin Retryable(r) THEN item[r][j]
                 ELSE [item[r][j] EXCEPT !.state = Retried(r, j)]]]
    /\ co' = Advancing("retry", r)
    /\ used' = [used EXCEPT !.retries = @ + 1]
    /\ UNCHANGED <<job, prof, cache, claims, wave, remote>>

Cancel(r) ==
    /\ At("idle") /\ run[r].state \in ActiveRunStates
    /\ run' = [run EXCEPT ![r].cancel = TRUE]
    /\ co' = Advancing("cancel", r)
    /\ UNCHANGED <<job, prof, cache, claims, item, wave, remote, used>>

----------------------------------------------------------------------------
(* One pass of _advance.                                                   *)

\* _is_stored_upload_access_error: an earlier denied upload is not repeated
StoredDenial(r) ==
    /\ run[r].state = "active" /\ run[r].err = "denied"
    /\ \E w \in OpenWaves(r) : wave[w].state = "prepared" /\ ~wave[w].file
    /\ \A w \in OpenWaves(r) : ~wave[w].batch
Held(r) == (run[r].state = "blocked" \/ StoredDenial(r)) /\ ~run[r].cancel
InPass == At("pass") /\ co.passes > 0

PassStops ==
    /\ At("pass") /\ (co.passes = 0 \/ Held(co.run))
    /\ run' = IF co.passes > 0 THEN [run EXCEPT ![co.run].state = "blocked"] ELSE run
    /\ co' = Returned
    /\ UNCHANGED <<job, prof, cache, claims, item, wave, remote, used>>

PassWaves ==
    /\ InPass /\ ~Held(co.run) /\ OpenWaves(co.run) # {}
    /\ co' = [co EXCEPT !.pc = "wave", !.todo = OpenWaves(co.run), !.waiting = FALSE,
                        !.cancelling = run[co.run].cancel, !.passes = @ - 1]
    /\ UNCHANGED <<job, prof, cache, claims, run, item, wave, remote, used>>

\* mutant: a submission without a batch id is not waited for
MutantPassIdle ==
    InPass /\ ~Held(co.run) /\ \A w \in OpenWaves(co.run) : ~wave[w].batch

\* no open wave and nothing holds the run
PassIdle == InPass /\ ~Held(co.run) /\ OpenWaves(co.run) = {}

\* _finish_cancel
FinishCancel ==
    /\ PassIdle /\ run[co.run].cancel
    /\ item' = [item EXCEPT ![co.run] = [j \in Jobs |->
           IF item[co.run][j].state \in PendingItemStates
           THEN [item[co.run][j] EXCEPT !.state = "cancelled"] ELSE item[co.run][j]]]
    /\ run' = [run EXCEPT ![co.run].state = "cancelled"]
    /\ co' = Returned
    /\ UNCHANGED <<job, prof, cache, claims, wave, remote, used>>

InPhase(r, p) == {j \in Jobs : item[r][j].state = PendingOf[p]}

\* the first phase that still has pending items
NextPhase(r, p) ==
    /\ InPhase(r, p) # {}
    /\ p = "extraction" => InPhase(r, "screening") = {}
    /\ p = "evaluation" => InPhase(r, "screening") \cup InPhase(r, "extraction") = {}

\* _finish
Finish ==
    /\ PassIdle /\ ~run[co.run].cancel
    /\ \A p \in Phases : InPhase(co.run, p) = {}
    /\ LET members == {j \in Jobs : item[co.run][j].state # "none"}
           done == {j \in members :
                       item[co.run][j].state \in {"completed", "filtered_after_screening"}}
       IN run' = [run EXCEPT ![co.run].state = IF done = members THEN "completed"
                                               ELSE IF done # {} THEN "partial" ELSE "failed",
                             ![co.run].err = "none"]
    /\ co' = Returned
    /\ UNCHANGED <<job, prof, cache, claims, item, wave, remote, used>>

----------------------------------------------------------------------------
(* Journaling the next phase.                                              *)

Unused == {w \in Waves : wave[w].state = "unused"}
NewWave(r, p, reqs) ==
    [state |-> "prepared", run |-> r, phase |-> p, reqs |-> reqs,
     file |-> FALSE, batch |-> FALSE, consumed |-> FALSE]

Before(a, b) == \E i \in a.items : \A k \in b.items : i < k
\* split_requests: consecutive chunks of at most ChunkSize requests, none lost
IsSplit(plan) ==
    /\ \A q, s \in DOMAIN plan : Before(q, s) => plan[q] <= plan[s]
    /\ \A w \in Unused : Cardinality({q \in DOMAIN plan : plan[q] = w}) <= ChunkSize
    /\ \A v, w \in Unused :
          (v < w /\ \E q \in DOMAIN plan : plan[q] = w) => \E q \in DOMAIN plan : plan[q] = v

\* _prepare_waves with what purge_expired_cache left of the cache
Prepare(p, left) ==
    LET r == co.run
        live == {j \in InPhase(r, p) : Current(r, j)}
        bad == {j \in live : <<p, j>> \in Unbuildable}
        hit(j) == {e \in left : e.key = RequestKey(r, p, j)}
        hits == {j \in live \ bad : hit(j) # {}}
        rest == live \ (bad \cup hits)
        out == [j \in InPhase(r, p) \ rest |->
                   IF j \in hits THEN (CHOOSE e \in hit(j) : TRUE).verdict ELSE "failed"]
        stale == InPhase(r, p) \ live
        reqs == {[key |-> k, items |-> {j \in rest : RequestKey(r, p, j) = k}] :
                     k \in {RequestKey(r, p, j) : j \in rest}}
    IN  /\ PassIdle /\ ~run[r].cancel /\ NextPhase(r, p)
        /\ ~(run[r].frozen /\ live # {})
        /\ job' = JobsAfter(r, p, out)
        /\ item' = [ItemsAfter(r, p, out) EXCEPT ![r] = [j \in Jobs |->
                       IF j \in stale THEN [item[r][j] EXCEPT !.state = "skipped"] ELSE @[j]]]
        /\ cache' = left
        /\ \E plan \in [reqs -> Unused] :
              /\ IsSplit(plan)
              /\ wave' = [w \in Waves |->
                     IF \E q \in reqs : plan[q] = w
                     THEN NewWave(r, p, {q \in reqs : plan[q] = w}) ELSE wave[w]]
        /\ co' = [co EXCEPT !.passes = @ - 1]
        /\ UNCHANGED <<prof, claims, run, remote, used>>

\* a request of an unrunnable frozen route raises and rolls everything back
PrepareFrozen(p) ==
    /\ PassIdle /\ ~run[co.run].cancel /\ NextPhase(co.run, p)
    /\ run[co.run].frozen /\ \E j \in InPhase(co.run, p) : Current(co.run, j)
    /\ RaiseFrozen(co.run)
    /\ UNCHANGED <<job, prof, cache, claims, item, wave, remote, used>>

----------------------------------------------------------------------------
(* Submitting a prepared wave.                                             *)

\* mutant: the abandoned wave is not marked
MutantAbandon(w) ==
    /\ At("wave") /\ Handling(w) /\ wave[w].state = "prepared" /\ co.cancelling
    /\ Continue(w, FALSE)
    /\ UNCHANGED <<job, prof, cache, claims, run, item, wave, remote, used>>

\* _abandon_prepared
Abandon(w) ==
    /\ At("wave") /\ Handling(w) /\ wave[w].state = "prepared" /\ co.cancelling
    /\ wave' = [wave EXCEPT ![w].state = "imported"]
    /\ Continue(w, FALSE)
    /\ UNCHANGED <<job, prof, cache, claims, run, item, remote, used>>

\* _prune_prepared: the requests that still serve a current item
Pruned(w) ==
    IF run[co.run].cancel THEN {}
    ELSE {q \in {[s EXCEPT !.items = {j \in s.items : Current(co.run, j)}] : s \in wave[w].reqs} :
             q.items # {}}
PrunedWave(w) ==
    [wave[w] EXCEPT !.reqs = Pruned(w),
                    !.file = @ /\ Pruned(w) = wave[w].reqs,
                    !.state = IF Pruned(w) = {} THEN "imported" ELSE @]

\* first revalidation, phase_route and the stop check before the upload
SubmitPrune(w) ==
    /\ At("wave") /\ Handling(w) /\ wave[w].state = "prepared" /\ ~co.cancelling
    /\ item' = SkipStale(co.run, ItemsOf(w))
    /\ \/ /\ Pruned(w) = {}
          /\ wave' = [wave EXCEPT ![w] = PrunedWave(w)]
          /\ Continue(w, FALSE) /\ UNCHANGED run
       \/ /\ Pruned(w) # {} /\ run[co.run].frozen
          /\ wave' = [wave EXCEPT ![w] = PrunedWave(w)]
          /\ RaiseFrozen(co.run)
       \/ /\ Pruned(w) # {} /\ ~run[co.run].frozen /\ StopSeen
          /\ wave' = [wave EXCEPT ![w] = [PrunedWave(w) EXCEPT !.state = "imported"]]
          /\ run' = [run EXCEPT ![co.run].cancel = TRUE]
          /\ Continue(w, FALSE)
       \/ /\ Pruned(w) # {} /\ ~run[co.run].frozen /\ ~StopSeen
          /\ wave' = [wave EXCEPT ![w] = PrunedWave(w)]
          /\ co' = [co EXCEPT !.pc = IF PrunedWave(w).file THEN "commit" ELSE "upload"]
          /\ UNCHANGED run
    /\ UNCHANGED <<job, prof, cache, claims, remote, used>>

UploadOk ==
    /\ At("upload")
    /\ co' = [co EXCEPT !.pc = "commit"]
    /\ UNCHANGED <<job, prof, cache, claims, run, item, wave, remote, used>>

\* _screening_wave_failed: every item continues without a verdict
ScreeningFailed(w) ==
    /\ item' = ItemsAfter(co.run, "screening", [j \in ItemsOf(w) |-> "failed"])
    /\ job' = JobsAfter(co.run, "screening", [j \in ItemsOf(w) |-> "failed"])
    /\ wave' = [wave EXCEPT ![w].state = "imported", ![w].consumed = TRUE]

Failing == used.faults < MaxFaults /\ used' = [used EXCEPT !.faults = @ + 1]

UploadFails(w) ==
    /\ At("upload") /\ Handling(w) /\ Failing
    /\ \/ /\ wave[w].phase = "screening"
          /\ ScreeningFailed(w) /\ Continue(w, FALSE) /\ UNCHANGED run
       \/ /\ wave[w].phase # "screening"          \* 401 or 403
          /\ run' = [run EXCEPT ![co.run].state = "blocked", ![co.run].err = "other"]
          /\ co' = Returned
          /\ UNCHANGED <<job, item, wave>>
       \/ /\ wave[w].phase # "screening"          \* any other exception
          /\ \E text \in {"denied", "other"} : Raise(co.run, text)
          /\ UNCHANGED <<job, item, wave>>
    /\ UNCHANGED <<prof, cache, claims, remote>>

\* second revalidation, then the durable "submitting" mark
Commit(w) ==
    /\ At("commit") /\ Handling(w)
    /\ item' = SkipStale(co.run, ItemsOf(w))
    /\ \/ /\ Pruned(w) # wave[w].reqs
          /\ wave' = [wave EXCEPT ![w] = PrunedWave(w)]
          /\ Continue(w, FALSE) /\ UNCHANGED run
       \/ /\ Pruned(w) = wave[w].reqs /\ StopSeen
          /\ wave' = [wave EXCEPT ![w].state = "imported"]
          /\ run' = [run EXCEPT ![co.run].cancel = TRUE]
          /\ Continue(w, FALSE)
       \/ /\ Pruned(w) = wave[w].reqs /\ ~StopSeen
          /\ wave' = [wave EXCEPT ![w].state = "submitting", ![w].file = TRUE]
          /\ co' = [co EXCEPT !.pc = "post"]
          /\ UNCHANGED run
    /\ UNCHANGED <<job, prof, cache, claims, remote, used>>

\* the paid POST: accepted or not, answered, refused or without an answer
Accepted(w) == [remote EXCEPT ![w] = [posts |-> @.posts + 1, status |-> "running"]]
Post(w, answer) ==
    /\ At("post") /\ Handling(w)
    /\ \/ answer = "posted" /\ remote' = Accepted(w)
       \/ answer = "unsure" /\ remote' \in {remote, Accepted(w)}
       \/ answer = "rejected" /\ UNCHANGED remote
    /\ co' = [co EXCEPT !.pc = answer]
    /\ UNCHANGED <<job, prof, cache, claims, run, item, wave, used>>

\* mutant: the run restarts as if cancellation had not been requested
MutantSaveSnapshot(w, status) ==
    /\ wave' = [wave EXCEPT ![w].batch = TRUE, ![w].state = status]
    /\ run' = [run EXCEPT ![co.run].state = "active", ![co.run].err = "none",
                          ![co.run].cancel = FALSE]

\* _save_snapshot
SaveSnapshot(w, status) ==
    /\ wave' = [wave EXCEPT ![w].batch = TRUE, ![w].state = status]
    /\ run' = [run EXCEPT ![co.run].state = "active", ![co.run].err = "none"]

\* _submit returned True: the same wave is refreshed at once
Created(w) ==
    /\ At("posted") /\ Handling(w)
    /\ SaveSnapshot(w, "running")
    /\ co' = [co EXCEPT !.pc = "wave"]
    /\ UNCHANGED <<job, prof, cache, claims, item, remote, used>>

CreateRejected(w) ==
    /\ At("rejected") /\ Handling(w)
    /\ \/ wave[w].phase = "screening" /\ ScreeningFailed(w)
       \/ /\ wave[w].phase # "screening"
          /\ item' = [item EXCEPT ![co.run] = [j \in Jobs |->
                 IF j \in ItemsOf(w) THEN [item[co.run][j] EXCEPT !.state = FailedOf[wave[w].phase]]
                 ELSE item[co.run][j]]]
          /\ wave' = [wave EXCEPT ![w].state = "imported"]
          /\ UNCHANGED job
    /\ Continue(w, FALSE)
    /\ UNCHANGED <<prof, cache, claims, run, remote, used>>

\* mutant: a submission without an answer is treated as refused
MutantCreateUnsure(w) ==
    /\ At("unsure") /\ Handling(w)
    /\ wave' = [wave EXCEPT ![w].state = "imported"]
    /\ Continue(w, FALSE)
    /\ UNCHANGED <<job, prof, cache, claims, run, item, remote, used>>

\* no answer establishes nothing: the run asks for attention
CreateUnsure(w) ==
    /\ At("unsure") /\ Handling(w)
    /\ run' = [run EXCEPT ![co.run].state = "attention", ![co.run].err = "other"]
    /\ co' = Returned
    /\ UNCHANGED <<job, prof, cache, claims, item, wave, remote, used>>

----------------------------------------------------------------------------
(* Following a submitted wave (_refresh_wave).                             *)

Refreshing(w) == At("wave") /\ Handling(w) /\ wave[w].state # "prepared"

\* recover: exactly one batch carries this wave's metadata
Recovered(w) ==
    remote[w].posts = 1 /\ (ListsRunning \/ remote[w].status = "ended")

RefreshFrozen(w) ==
    /\ Refreshing(w) /\ run[co.run].frozen
    /\ RaiseFrozen(co.run)
    /\ UNCHANGED <<job, prof, cache, claims, item, wave, remote, used>>

RefreshFound(w) ==
    /\ Refreshing(w) /\ ~run[co.run].frozen /\ (wave[w].batch \/ Recovered(w))
    /\ SaveSnapshot(w, remote[w].status)
    /\ CASE remote[w].status = "ended" -> co' = [co EXCEPT !.pc = "import"]
         [] remote[w].status = "running" /\ co.cancelling -> co' = [co EXCEPT !.pc = "cancelcall"]
         [] OTHER -> Continue(w, TRUE)
    /\ UNCHANGED <<job, prof, cache, claims, item, remote, used>>

\* mutant: a submission that is not found is prepared again
MutantRefreshMissing(w) ==
    /\ Refreshing(w) /\ ~run[co.run].frozen /\ ~wave[w].batch /\ ~Recovered(w)
    /\ wave' = [wave EXCEPT ![w].state = "prepared"]
    /\ Continue(w, TRUE)
    /\ UNCHANGED <<job, prof, cache, claims, run, item, remote, used>>

RefreshMissing(w) ==
    /\ Refreshing(w) /\ ~run[co.run].frozen /\ ~wave[w].batch /\ ~Recovered(w)
    /\ run' = [run EXCEPT ![co.run].state = "attention", ![co.run].err = "other"]
    /\ Continue(w, TRUE)
    /\ UNCHANGED <<job, prof, cache, claims, item, wave, remote, used>>

\* the provider takes the cancellation, or answers with a batch already ended
CancelCall(w) ==
    /\ At("cancelcall") /\ Handling(w)
    /\ LET status == IF remote[w].status = "ended" THEN "ended" ELSE "cancelling"
       IN  /\ remote' = [remote EXCEPT ![w].status = status]
           /\ SaveSnapshot(w, status)
           /\ IF status = "ended" THEN co' = [co EXCEPT !.pc = "import"] ELSE Continue(w, TRUE)
    /\ UNCHANGED <<job, prof, cache, claims, item, used>>

\* an ended batch refuses cancellation
CancelRefused(w) ==
    /\ At("cancelcall") /\ Handling(w) /\ remote[w].status = "ended"
    /\ Raise(co.run, "other")
    /\ UNCHANGED <<job, prof, cache, claims, item, wave, remote, used>>

\* download and the one transaction that consumes every result
Import(w, res) ==
    LET p == wave[w].phase
        out == [j \in ItemsOf(w) |-> res[CHOOSE q \in wave[w].reqs : j \in q.items]]
        fresh == {[key |-> q.key, verdict |-> res[q]] : q \in {s \in wave[w].reqs : res[s] # "failed"}}
    IN  /\ item' = ItemsAfter(co.run, p, out)
        /\ job' = JobsAfter(co.run, p, out)
        /\ cache' = {e \in cache : \A f \in fresh : f.key # e.key} \cup fresh
        /\ wave' = [wave EXCEPT ![w].state = "imported", ![w].consumed = TRUE]

ImportWave(w) ==
    /\ At("import") /\ Handling(w)
    /\ \E res \in [wave[w].reqs -> OutcomesOf[wave[w].phase]] : Import(w, res)
    /\ Continue(w, FALSE)
    /\ UNCHANGED <<prof, claims, run, remote, used>>

\* retrieve, recover, cancel or download raises
FollowFails ==
    /\ (At("wave") /\ \E w \in co.todo : Refreshing(w)) \/ At("cancelcall") \/ At("import")
    /\ Failing
    /\ Raise(co.run, "other")
    /\ UNCHANGED <<job, prof, cache, claims, item, wave, remote>>

----------------------------------------------------------------------------
(* Everything else: crash, provider progress, edits, upgrade.              *)

Crash ==
    /\ ~At("idle") /\ Failing
    /\ co' = IdleCo
    /\ UNCHANGED <<job, prof, cache, claims, run, item, wave, remote>>

BatchEnds(w) ==
    /\ remote[w].status \in {"running", "cancelling"}
    /\ remote' = [remote EXCEPT ![w].status = "ended"]
    /\ UNCHANGED <<job, prof, cache, claims, run, item, wave, co, used>>

Editing == used.edits < MaxEdits /\ used' = [used EXCEPT !.edits = @ + 1]

\* a new scrape or the user changes the source fields
EditJob(j) ==
    /\ Editing
    /\ job' = [job EXCEPT ![j].ver = @ + 1, ![j].body = @ + 1]
    /\ UNCHANGED <<prof, cache, claims, run, item, wave, remote, co>>

ArchiveJob(j) ==
    /\ Editing /\ job[j].state = "open"
    /\ job' = [job EXCEPT ![j].state = "archived", ![j].ver = @ + 1]
    /\ UNCHANGED <<prof, cache, claims, run, item, wave, remote, co>>

\* rescue_archived_job: open again, protected from a later prefilter verdict
RescueJob(j) ==
    /\ Editing /\ job[j].state = "archived"
    /\ job' = [job EXCEPT ![j].state = "open", ![j].kept = TRUE, ![j].ver = @ + 1]
    /\ UNCHANGED <<prof, cache, claims, run, item, wave, remote, co>>

ChangeProfile ==
    /\ Editing
    /\ prof' = prof + 1
    /\ UNCHANGED <<job, cache, claims, run, item, wave, remote, co>>

\* a new release no longer accepts the model or effort the run has frozen
BreakConfiguration(r) ==
    /\ At("idle") /\ r \in Breakable /\ run[r].state # "none" /\ ~run[r].frozen
    /\ run' = [run EXCEPT ![r].frozen = TRUE]
    /\ UNCHANGED <<job, prof, cache, claims, item, wave, remote, co, used>>

----------------------------------------------------------------------------
Init ==
    /\ job = [j \in Jobs |-> [state |-> "open", ver |-> 1, body |-> 1, kept |-> FALSE,
                              ckpt |-> 0, scope |-> [body |-> 0, verdict |-> "failed"]]]
    /\ prof = 1 /\ cache = {} /\ claims = {}
    /\ run = [r \in Runs |-> [state |-> "none", cancel |-> FALSE, prof |-> 0,
                              err |-> "none", frozen |-> FALSE]]
    /\ item = [r \in Runs |-> [j \in Jobs |-> [state |-> "none", snap |-> 0, offer |-> FALSE]]]
    /\ wave = [w \in Waves |-> [state |-> "unused", run |-> NoRun, phase |-> "screening",
                                reqs |-> {}, file |-> FALSE, batch |-> FALSE,
                                consumed |-> FALSE]]
    /\ remote = [w \in Waves |-> [posts |-> 0, status |-> "absent"]]
    /\ co = IdleCo
    /\ used = [edits |-> 0, faults |-> 0, retries |-> 0]

\* the operation in progress takes its next step
Work ==
    \/ StartRefused \/ StartCreate \/ StartAdvance \/ StartFollowUp
    \/ PassStops \/ PassWaves \/ FinishCancel \/ Finish
    \/ \E p \in Phases, left \in IF CacheExpires THEN {cache, {}} ELSE {cache} : Prepare(p, left)
    \/ \E p \in Phases : PrepareFrozen(p)
    \/ \E w \in Waves :
          \/ Abandon(w) \/ SubmitPrune(w) \/ Commit(w)
          \/ \E answer \in {"posted", "unsure", "rejected"} : Post(w, answer)
          \/ Created(w) \/ CreateRejected(w) \/ CreateUnsure(w)
          \/ RefreshFrozen(w) \/ RefreshFound(w) \/ RefreshMissing(w)
          \/ CancelCall(w) \/ CancelRefused(w) \/ ImportWave(w)
    \/ UploadOk

\* what the user, the network and the rest of the application may do
Environment ==
    \/ \E r \in Runs : Retry(r) \/ Cancel(r) \/ BreakConfiguration(r)
    \/ \E r \in Runs, S \in SUBSET Jobs : StartRead(r, S)
    \/ RequestStop \/ FollowFails \/ ChangeProfile
    \/ \E w \in Waves : UploadFails(w)
    \/ \E j \in Jobs : EditJob(j) \/ ArchiveJob(j) \/ RescueJob(j)

Steps ==
    \/ Work \/ Environment
    \/ \E r \in Runs : Sync(r)
    \/ \E w \in Waves : BatchEnds(w)

Next == Steps \/ Crash

Spec == Init /\ [][Next]_vars

\* The worker thread keeps running, the timer keeps coming back to every
\* polling run, and the provider ends every batch.
FairSpec ==
    /\ Spec /\ WF_vars(Work)
    /\ \A r \in Runs : SF_vars(Sync(r))
    /\ \A w \in Waves : WF_vars(BatchEnds(w))
----------------------------------------------------------------------------
(* Properties.                                                             *)

Verdicts == {"outside", "inside", "ok", "failed"}
Keys == Phases \X {KeyOf[j] : j \in Jobs} \X Nat \X Nat
Requests == [key : Keys, items : SUBSET Jobs]

JobRecs == [state : {"open", "analyzed", "archived"}, ver : Nat, body : Nat, kept : BOOLEAN,
            ckpt : Nat, scope : [body : Nat, verdict : Verdicts]]
RunRecs == [state : RunStates, cancel : BOOLEAN, prof : Nat, err : {"none", "denied", "other"}, frozen : BOOLEAN]
ItemRecs == [state : ItemStates, snap : Nat, offer : BOOLEAN]
WaveRecs == [state : WaveStates, run : Runs \cup {NoRun}, phase : Phases,
             reqs : SUBSET Requests, file : BOOLEAN, batch : BOOLEAN, consumed : BOOLEAN]
RemoteRecs == [posts : Nat, status : RemoteStates]
CoRecs == [pc : {"idle", "reserve", "created", "followup", "pass", "wave", "upload",
                 "commit", "post", "posted", "unsure", "rejected", "cancelcall", "import"},
           op : {"none", "start", "sync", "retry", "cancel"},
           run : Runs \cup {NoRun}, prof : Nat, picked : SUBSET (Jobs \X Nat),
           todo : SUBSET Waves, cancelling : BOOLEAN, waiting : BOOLEAN,
           passes : 0..Passes, stop : BOOLEAN]

\* Every variable holds a value the offers, the journal's columns and the
\* coordinator can hold.
TypeOK ==
    /\ job \in [Jobs -> JobRecs] /\ prof \in Nat
    /\ cache \subseteq [key : Keys, verdict : Verdicts] /\ claims \subseteq Jobs
    /\ run \in [Runs -> RunRecs] /\ item \in [Runs -> [Jobs -> ItemRecs]]
    /\ wave \in [Waves -> WaveRecs] /\ remote \in [Waves -> RemoteRecs]
    /\ co \in CoRecs /\ used \in [edits : Nat, faults : Nat, retries : Nat]

\* Submit once: whatever crashes, lost answers and retries happen between the
\* durable "submitting" mark and the saved snapshot, the provider never accepts
\* two paid batches for one journaled wave.
SubmitOnce == \A w \in Waves : remote[w].posts <= 1

\* what the journal says of a wave agrees with what the provider accepted
WaveSound(w) ==
    /\ remote[w].posts <= 1
    /\ remote[w].posts = 0 <=> remote[w].status = "absent"
    /\ wave[w].state \in {"unused", "prepared"} => remote[w].posts = 0
    /\ wave[w].batch => remote[w].posts = 1
    /\ wave[w].state = "imported" /\ remote[w].posts > 0 => wave[w].consumed

\* where the coordinator stands with the wave it handles
HandSound(w) ==
    /\ co.pc \in {"upload", "commit"} => wave[w].state = "prepared"
    /\ co.pc \in {"post", "rejected"} => wave[w].state = "submitting" /\ remote[w].posts = 0
    /\ co.pc \in {"posted", "cancelcall", "import"} => remote[w].posts = 1

\* Why SubmitOnce holds.  Before its commit a wave was never sent; at the POST it
\* is durably "submitting" and still unsent; a batch id is only known of an
\* accepted POST; an accepted wave is imported only with its results.
JournalInv ==
    /\ ~At("idle") => co.run \in Runs
    /\ \A w \in Waves : WaveSound(w) /\ (Handling(w) => HandSound(w))

\* Why no run ends over a paid batch, and why Stop is final: a followed run and
\* the run of every open wave reserve their offers, the coordinator only has open
\* waves of its run to handle, and it stands before a POST only unstopped.
FollowInv ==
    /\ co.pc \notin {"idle", "reserve", "followup"} => run[co.run].state \in ActiveRunStates
    /\ \A w \in Waves :
        /\ Open(w) => wave[w].run \in Runs /\ run[wave[w].run].state \in ActiveRunStates
        /\ w \in co.todo => Open(w) /\ wave[w].run = co.run
        /\ wave[w].state = "prepared" => wave[w].reqs # {}
    /\ At("post") => ~run[co.run].cancel

\* paid for and not yet imported
InFlight(w) == remote[w].posts > 0 /\ wave[w].state # "imported"

\* No offer is being paid for twice in the same phase, across runs, waves,
\* retries and uncertain submissions.
NoDoublePurchase ==
    \A v, w \in Waves :
        InFlight(v) /\ InFlight(w) /\ v # w /\ wave[v].phase = wave[w].phase
            => ItemsOf(v) \cap ItemsOf(w) = {}

\* A batch the provider has accepted belongs to a run that still reserves its
\* offers: no run ends, is cancelled or fails over an unimported paid batch.
InFlightReserved == \A w \in Waves : InFlight(w) => run[wave[w].run].state \in ActiveRunStates

\* A wave leaves the journal's follow-up after its paid results were consumed.
PaidResultsConsumed ==
    \A w \in Waves : wave[w].state = "imported" /\ remote[w].posts > 0 => wave[w].consumed

Works(r, j) == run[r].state \in ActiveRunStates /\ item[r][j].state \in PendingItemStates

\* Two runs never work on the same offer at the same time, and one of all its
\* runs publishes its analysis: a retry of an old run does not repeat what a newer
\* one works on or has done.
ExclusiveReservation ==
    \A r, s \in Runs, j \in Jobs : r # s =>
        /\ ~(Works(r, j) /\ Works(s, j))
        /\ ~(item[r][j].state = "completed" /\ item[s][j].state = "completed")

\* Exact copies that are current share one request: the same content is never in
\* two requests of a run's open waves.
CopiesShareRequest ==
    \A r \in Runs : \A v, w \in OpenWaves(r) :
        \A i \in ItemsOf(v), j \in ItemsOf(w) :
            (Current(r, i) /\ Current(r, j) /\ KeyOf[i] = KeyOf[j] /\ job[i].body = job[j].body)
                => \E q \in wave[v].reqs : {i, j} \subseteq q.items

\* The step that publishes an analysis does it for the offer version and the
\* profile the run was created with.
PublishesCurrent ==
    [][\A r \in Runs, j \in Jobs :
          item[r][j].state # "completed" /\ item'[r][j].state = "completed" =>
              /\ job[j].state = "open" /\ job'[j].state = "analyzed"
              /\ item[r][j].snap = job[j].ver /\ run[r].prof = prof]_vars

Posting(w) == remote'[w].posts > remote[w].posts

\* Stop is final: a recorded cancellation is never withdrawn by the follow-up of
\* waves in flight, and from then on nothing is submitted for that run.
StopIsFinal ==
    [][\A r \in Runs : run[r].cancel =>
          run'[r].cancel /\ \A w \in Waves : wave[w].run = r => ~Posting(w)]_vars

\* A POST pays only for what is missing: never for facts the item already
\* holds, and an evaluation only with facts to evaluate.
PaysOnlyForMissing ==
    [][\A w \in Waves : Posting(w) => \A j \in ItemsOf(w) :
          LET i == item[wave[w].run][j]
          IN  /\ i.state = PendingOf[wave[w].phase]
              /\ wave[w].phase # "screening" => (i.offer <=> wave[w].phase = "evaluation")]_vars

\* a submission that never reached the provider: by design the run asks for
\* attention for ever and is not submitted again
Lost(r) ==
    \E w \in Waves : wave[w].run = r /\ wave[w].state = "submitting" /\ remote[w].posts = 0

\* A followed run ends, or waits for the user, or is a lost submission.
RunSettles ==
    \A r \in Runs : run[r].state \in PollingRunStates
                       ~> (run[r].state \notin PollingRunStates \/ Lost(r))

\* A cancelled run that is being followed stops.
CancelSettles ==
    \A r \in Runs : run[r].cancel /\ run[r].state \in PollingRunStates
                       ~> (run[r].state \in TerminalRunStates \/ Lost(r))

=============================================================================
