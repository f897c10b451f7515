--------------------------- MODULE GenerationRuns ---------------------------
(***************************************************************************)
(* Creation of applications: durable runs that write the documents of      *)
(* analyzed offers, by provider batches or by immediate calls              *)
(* (smartapply/pipeline/generation).  Every structured call of an offer is *)
(* journaled at its position; following a run replays the same pipeline    *)
(* over the saved answers up to the first one that is missing.             *)
(*                                                                         *)
(* One action is one transaction or one provider call.  Whoever follows a  *)
(* run holds generation_operation(run), so `co' has one program counter    *)
(* per run; `lock' is the transport-wide generation_operation().  The Stop *)
(* flag of a worker is persisted where it is noticed, hence modelled as    *)
(* the persisted flag set at any earlier time.                             *)
(***************************************************************************)
EXTENDS Naturals, FiniteSetsExt

CONSTANTS
    Jobs,        \* offer ids; items of a run are executed in this order
    Runs,        \* run ids in order of creation
    Steps,       \* bound: structured calls the pipeline may need for one offer
    Modes,       \* modes the user chooses from
    MaxWaves,    \* bound: outstanding waves have a number in 1..MaxWaves
    Budgets,     \* bounds: [steps, edits, faults, retries] a behaviour may start with
    NoRun        \* holder of the free transport lock

ASSUME GenerationAssumption ==
    /\ Jobs \subseteq Nat /\ Runs \subseteq Nat
    /\ Steps \in Nat \ {0} /\ Modes \subseteq {"batch", "immediate"}
    /\ MaxWaves \in Nat /\ NoRun \notin Runs
    /\ Budgets \subseteq [steps : 1..Steps, edits : Nat, faults : Nat, retries : Nat]

VARIABLES
    offer,    \* offers, with the application each one has
    outside,  \* offers another process was changing when a run reserved them
    run,      \* generation_runs
    due,      \* runs their caller is about to advance, without the run's lock
    item,     \* generation_items, one per run and offer
    call,     \* generation_calls, one per item and position
    wave,     \* generation_waves that are outstanding; the others are not read again
    remote,   \* the provider's batches
    co,       \* per run, the operation that holds its lock
    lock,     \* holder of the transport-wide lock
    left      \* calls an offer needs; changes, failures and retries still to come

journal == <<run, item, call, wave>>
world == <<offer, outside, remote>>
vars == <<world, journal, due, co, lock, left>>

Waves == 1..MaxWaves
Positions == 1..Steps

TerminalItemStates == {"completed", "stale", "transferred"}
ItemStates == TerminalItemStates \cup {"none", "pending", "waiting", "failed"}
FollowedRunStates == {"active", "attention", "blocked"}
ReservedRunStates == FollowedRunStates \cup {"paused", "partial", "failed"}
ResumableRunStates == {"paused", "partial", "failed", "blocked", "cancelled"}
RunStates == ReservedRunStates \cup {"none", "completed", "cancelled"}
CallStates == {"none", "prepared", "submitting", "submitted", "uncertain", "completed", "failed"}
UnresolvedCallStates == {"submitting", "submitted", "uncertain"}
OutstandingWaveStates == {"prepared", "submitting", "submission_unknown", "submitted"}

NoCalls == [k \in Positions |-> [state |-> "none", wave |-> 0]]
NoWave == [run |-> NoRun, state |-> "none", calls |-> {}]
IdleCo == [pc |-> "idle", phase |-> "none", jobs |-> {}, wait |-> {}, seen |-> {},
           waves |-> {}, stopped |-> FALSE]

----------------------------------------------------------------------------
(* Reading the offers and the journal.                                     *)

ItemsOf(r) == {j \in Jobs : item[r][j].state # "none"}
Remaining(r) == {j \in ItemsOf(r) : item[r][j].state \notin TerminalItemStates}
Eligible(r) == {j \in Jobs : item[r][j].state \in {"pending", "waiting"}}
Outstanding(r) == {w \in Waves : wave[w].run = r /\ wave[w].state \in OutstandingWaveStates}

\* reserved_generation_job_ids, _generation_claims
Reserved(j) == \E r \in Runs : run[r].state \in ReservedRunStates /\ j \in Remaining(r)

\* _validate: same offer and analysis, active, no duplicate under review
Valid(r, j) == ~offer[j].held /\ item[r][j].snap = offer[j].ver

\* latest_offer_items: the newest run with an unfinished item of the offer
Sources(j) == {r \in Runs : j \in Remaining(r)}

\* has_unresolved_submission
Unresolved(r, j) ==
    \E k \in Positions :
        \/ call[r][j][k].state \in UnresolvedCallStates
        \/ \E w \in Waves : call[r][j][k].wave = w /\ wave[w].state \in OutstandingWaveStates

\* mutant: an offer is resumed while a submission of it is unresolved
MutantResumable(r, j) ==
    /\ run[r].state \in ResumableRunStates
    /\ Valid(r, j)
    /\ offer[j].app = "none" \/ (offer[j].app = "empty" /\ item[r][j].app)

\* can_resume_offer
Resumable(r, j) ==
    /\ run[r].state \in ResumableRunStates /\ ~Unresolved(r, j)
    /\ Valid(r, j)
    /\ offer[j].app = "none" \/ (offer[j].app = "empty" /\ item[r][j].app)

\* a call whose provider outcome is not known
Uncertain(r) ==
    \E j \in ItemsOf(r), k \in Positions : call[r][j][k].state \in {"uncertain", "submitting"}

Missing(r, j) == {k \in 1..left.steps : call[r][j][k].state # "completed"}

\* the last journaled call of an item, 0 if there is none
LastCall(r, j) ==
    Max({0} \cup {k \in Positions : call[r][j][k].state # "none"})

\* _release_empty_reservation for offers js: the application goes, and every
\* item of the offer forgets it
AppReleased(js) == {j \in js : offer[j].app = "empty"}
OffersReleased(js) ==
    [j \in Jobs |-> IF j \in AppReleased(js) THEN [offer[j] EXCEPT !.app = "none"] ELSE offer[j]]
Unlinked(its, js) ==
    [r \in Runs |-> [j \in Jobs |->
        IF j \in AppReleased(js) THEN [its[r][j] EXCEPT !.app = FALSE] ELSE its[r][j]]]

\* _finish: the run's state after a follow-up
Settled(r, stopped) ==
    LET states == {item[r][j].state : j \in ItemsOf(r)} \ {"transferred"}
        kept == run[r].state \in {"attention", "blocked"}   \* and last_error, always set with them
        unfinished == states \cap {"pending", "waiting"} # {} \/ Outstanding(r) # {}
    IN CASE Uncertain(r) -> [run[r] EXCEPT !.state = "attention"]
         [] ~Uncertain(r) /\ stopped ->
               [run[r] EXCEPT !.stop = TRUE,
                   !.state = CASE states \subseteq {"completed"} -> "completed"
                               [] Outstanding(r) # {} -> "active"
                               [] OTHER -> "paused"]
         [] ~Uncertain(r) /\ ~stopped /\ kept -> run[r]
         [] ~Uncertain(r) /\ ~stopped /\ ~kept ->
               [run[r] EXCEPT
                   !.state = CASE unfinished -> "active"
                               [] states \subseteq {"completed"} -> "completed"
                               [] "completed" \in states -> "partial"
                               [] OTHER -> "failed"]

----------------------------------------------------------------------------
(* Where a follow-up stands.                                               *)

At(r, p) == co[r].pc = p
Go(r, p) == co' = [co EXCEPT ![r].pc = p]
Current(r) == Min(co[r].jobs)
Handled(r) == Min(co[r].waves)
Freed(r) == IF lock = r THEN NoRun ELSE lock

Failing == left.faults > 0 /\ left' = [left EXCEPT !.faults = @ - 1]

\* the exception handler of _advance_locked
Block(r) ==
    /\ run' = [run EXCEPT ![r].state = "blocked"]
    /\ co' = [co EXCEPT ![r] = IdleCo]
    /\ lock' = Freed(r)

\* done with the current item
NextItem(r) == co' = [co EXCEPT ![r].pc = "items", ![r].jobs = @ \ {Current(r)}]

\* wave w is not outstanding any more
EndWave(w) == wave' = [wave EXCEPT ![w] = NoWave]
Ended(w) == remote' = [remote EXCEPT ![w] = "absent"]

\* done with the current wave; `went' tells what _submit returned, and
\* submit_pending stops at the first wave that did not go
NextWave(r, went) ==
    co' = [co EXCEPT ![r].pc = "waves",
                     ![r].waves = IF co[r].phase = "send" /\ ~went THEN {} ELSE @ \ {Handled(r)}]

\* the calls of wave w get a state; those of a wave that is over forget it
WaveCalls(r, w, state) ==
    [call EXCEPT ![r] = [j \in Jobs |-> [k \in Positions |->
        IF <<j, k>> \in wave[w].calls THEN [@[j][k] EXCEPT !.state = state] ELSE @[j][k]]]]
Unlink(calls, r, w) ==
    [calls EXCEPT ![r] = [j \in Jobs |-> [k \in Positions |->
        IF @[j][k].wave = w THEN [@[j][k] EXCEPT !.wave = 0] ELSE @[j][k]]]]

----------------------------------------------------------------------------
(* What the user asks (start, retry, cancel, abandon) and the timer (sync). *)

\* run of the item an offer is resumed from
SourceOf(j) == Max(Sources(j))

Startable(j) ==
    IF Sources(j) # {}
    THEN Resumable(SourceOf(j), j) /\ At(SourceOf(j), "idle")
    ELSE ~offer[j].held /\ offer[j].app # "published"

\* mutant: the source keeps its item, as if history did not own the offer
MutantTransferred(js) ==
    [s \in Runs |-> item[s]]

\* copy_offer_checkpoint, source side
Transferred(js) ==
    [s \in Runs |-> [j \in Jobs |->
        IF j \in js /\ Sources(j) # {} /\ s = SourceOf(j)
        THEN [item[s][j] EXCEPT !.state = "transferred"] ELSE item[s][j]]]

\* mutant: the checkpoint is copied without the answers already paid
MutantCopied(j) ==
    IF Sources(j) = {} THEN NoCalls
    ELSE [k \in Positions |->
            [state |-> IF call[SourceOf(j)][j][k].state = "none" THEN "none" ELSE "prepared",
             wave |-> 0]]

\* copy_offer_checkpoint, target side: answers are kept, the rest is prepared again
Copied(j) ==
    IF Sources(j) = {} THEN NoCalls
    ELSE [k \in Positions |->
            [state |-> IF call[SourceOf(j)][j][k].state \in {"none", "completed"}
                       THEN call[SourceOf(j)][j][k].state ELSE "prepared",
             wave |-> 0]]

NewItem(j) ==
    [state |-> "pending", snap |-> offer[j].ver,
     app |-> IF Sources(j) # {} THEN item[SourceOf(j)][j].app ELSE offer[j].app # "none"]

\* a source run of which offers js leave
SourceAfter(s, js) ==
    LET kept == {item[s][j].state : j \in {i \in ItemsOf(s) \ js : item[s][i].state # "transferred"}}
    IN  [run[s] EXCEPT !.state = CASE kept = {} -> "cancelled"
                                   [] kept # {} /\ kept \subseteq {"completed", "stale"} ->
                                        IF "completed" \in kept THEN "completed" ELSE "failed"
                                   [] OTHER -> @]

\* start: under the transport lock, the source runs' locks and the offers'
\* reservations, the run is registered in one transaction that checks again
\* everything read before it; its first follow-up comes later, and a batch run
\* that is active is followed by the timer as well
Start(r, js, mode) ==
    /\ run[r].state = "none" /\ \A s \in Runs : s < r => run[s].state # "none"
    /\ lock = NoRun
    /\ js # {} /\ \A j \in js : Startable(j)
    /\ LET sources == {s \in Runs : \E j \in js : Sources(j) # {} /\ s = SourceOf(j)} IN
        /\ run' = [s \in Runs |->
              IF s = r THEN [state |-> "active", mode |-> mode, stop |-> FALSE]
              ELSE IF s \in sources
                   THEN SourceAfter(s, {j \in js : Sources(j) # {} /\ SourceOf(j) = s})
                   ELSE run[s]]
        /\ item' = [Transferred(js) EXCEPT ![r] =
              [j \in Jobs |-> IF j \in js THEN NewItem(j) ELSE item[r][j]]]
        /\ call' = [call EXCEPT ![r] = [j \in Jobs |-> IF j \in js THEN Copied(j) ELSE NoCalls]]
        /\ due' = IF mode = "immediate" THEN due \cup {r} ELSE due
    /\ UNCHANGED <<world, wave, co, lock, left>>

\* _advance: takes the run's lock, or gives up (RuntimeError) if it is held
Advance(r) ==
    /\ r \in due /\ due' = due \ {r}
    /\ IF At(r, "idle")
       THEN co' = [co EXCEPT ![r].pc = IF run[r].mode = "batch" THEN "sync" ELSE "read",
                             ![r].phase = "first"]
       ELSE UNCHANGED co
    /\ UNCHANGED <<world, journal, lock, left>>

RetryCalls(r) ==
    [j \in Jobs |-> [k \in Positions |->
        IF j \in Remaining(r) /\ call[r][j][k].state = "failed"
        THEN [state |-> "prepared", wave |-> 0] ELSE call[r][j][k]]]

RetryItems(r) ==
    [j \in Jobs |-> IF item[r][j].state \in {"failed", "waiting"}
                    THEN [item[r][j] EXCEPT !.state = "pending"] ELSE item[r][j]]

\* retry, up to the follow-up it goes on with under the same lock
Retry(r) ==
    /\ left.retries > 0 /\ left' = [left EXCEPT !.retries = @ - 1]
    /\ run[r].state # "none" /\ At(r, "idle") /\ lock = NoRun
    /\ Remaining(r) # {}
    /\ \A j \in Remaining(r) :
        /\ offer[j].app # "published"
        /\ \A s \in Runs \ {r} : run[s].state \in ReservedRunStates => j \notin Remaining(s)
    /\ run[r].mode = "immediate" => ~Uncertain(r)
    /\ call' = [call EXCEPT ![r] = RetryCalls(r)]
    /\ item' = [item EXCEPT ![r] = RetryItems(r)]
    /\ run' = [run EXCEPT ![r].state = "active", ![r].stop = FALSE]
    /\ co' = [co EXCEPT ![r].pc = IF run[r].mode = "batch" THEN "sync" ELSE "read",
                        ![r].phase = "first"]
    /\ UNCHANGED <<world, due, wave, lock>>

\* cancel: Stop is persisted without any lock, then the run is advanced (a second
\* Stop would only advance it again)
Cancel(r) ==
    /\ run[r].state \in ReservedRunStates /\ ~run[r].stop
    /\ run' = [run EXCEPT ![r].stop = TRUE]
    /\ due' = due \cup {r}
    /\ UNCHANGED <<world, item, call, wave, co, lock, left>>

\* abandon: the offers are free again, the answers stay in the journal
Abandon(r) ==
    /\ At(r, "idle") /\ Outstanding(r) = {}
    /\ \/ run[r].state \in {"paused", "partial", "failed"}
       \/ run[r].mode = "immediate" /\ run[r].state = "attention"
    /\ LET js == {j \in Remaining(r) : item[r][j].app} IN
        /\ offer' = OffersReleased(js)
        /\ item' = Unlinked(item, js)
    /\ run' = [run EXCEPT ![r].state = "cancelled"]
    /\ UNCHANGED <<outside, due, call, wave, remote, co, lock, left>>

\* sync follows a batch run
Sync(r) ==
    /\ run[r].mode = "batch" /\ run[r].state \in FollowedRunStates /\ At(r, "idle")
    /\ co' = [co EXCEPT ![r].pc = "sync", ![r].phase = "first"]
    /\ UNCHANGED <<world, journal, due, lock, left>>

\* _pause_interrupted: nobody holds the lock of this immediate run, so its
\* worker is gone and the call it was making is uncertain
SyncImmediate(r) ==
    /\ run[r].mode = "immediate" /\ run[r].state \in FollowedRunStates /\ At(r, "idle")
    /\ LET calls == [j \in Jobs |-> [k \in Positions |->
              IF call[r][j][k].state = "submitting"
              THEN [call[r][j][k] EXCEPT !.state = "uncertain"] ELSE call[r][j][k]]]
           released == {j \in ItemsOf(r) : item[r][j].state = "stale" /\ item[r][j].app}
       IN /\ call' = [call EXCEPT ![r] = calls]
          /\ offer' = OffersReleased(released) /\ item' = Unlinked(item, released)
    /\ run' = [run EXCEPT ![r] = Settled(r, TRUE)]
    /\ UNCHANGED <<outside, remote, wave, due, co, lock, left>>

----------------------------------------------------------------------------
(* Batch transport: sync and submit_pending under the transport-wide lock. *)

Reach(r, waves) ==
    /\ lock' = r
    /\ co' = [co EXCEPT ![r].pc = "waves", ![r].waves = waves]

TakeSync(r) ==
    /\ At(r, "sync") /\ lock = NoRun
    /\ Reach(r, Outstanding(r))
    /\ UNCHANGED <<world, journal, due, left>>

\* generation_operation() is not blocking: the RuntimeError reaches the
\* exception handler of _advance_locked
LockBusy(r) ==
    /\ At(r, "sync") \/ At(r, "send")
    /\ lock # NoRun
    /\ Block(r)
    /\ UNCHANGED <<world, item, call, wave, due, left>>

\* submit_pending: prepared calls of eligible items, one wave per route
Unsent(r, k) == {j \in Eligible(r) : call[r][j][k] = [state |-> "prepared", wave |-> 0]}
SentPositions(r) == {k \in Positions : Unsent(r, k) # {}}
WaveOf(r, k) ==
    Max({0} \cup {w \in Waves : wave[w] # NoWave}) + Cardinality({p \in SentPositions(r) : p <= k})

NewWaves(r) ==
    [w \in Waves |->
        IF \E k \in SentPositions(r) : w = WaveOf(r, k)
        THEN LET k == CHOOSE p \in SentPositions(r) : w = WaveOf(r, p)
             IN  [run |-> r, state |-> "prepared", calls |-> {<<j, k>> : j \in Unsent(r, k)}]
        ELSE wave[w]]

TakeSend(r) ==
    /\ At(r, "send") /\ lock = NoRun
    /\ IF run[r].stop \/ run[r].state # "active"
       THEN Reach(r, {}) /\ UNCHANGED <<wave, call>>
       ELSE /\ \A k \in SentPositions(r) : WaveOf(r, k) \in Waves
            /\ wave' = NewWaves(r)
            /\ call' = [call EXCEPT ![r] = [j \in Jobs |-> [k \in Positions |->
                  IF j \in Unsent(r, k) THEN [state |-> "prepared", wave |-> WaveOf(r, k)]
                  ELSE call[r][j][k]]]]
            /\ Reach(r, {w \in Waves : wave'[w].run = r /\ wave'[w].state = "prepared"})
    /\ UNCHANGED <<world, run, item, due, left>>

\* the transport is done: its lock is released
LeaveTransport(r) ==
    /\ At(r, "waves") /\ co[r].waves = {}
    /\ lock' = NoRun
    /\ CASE co[r].phase = "first" -> Go(r, "read")
         [] co[r].phase = "last" -> Go(r, "finish")
         [] co[r].phase = "send" ->
               co' = [co EXCEPT ![r].pc = IF run[r].stop THEN "sync" ELSE "finish",
                                ![r].phase = IF run[r].stop THEN "last" ELSE @,
                                ![r].stopped = run[r].stop]
    /\ UNCHANGED <<world, journal, due, left>>

Handling(r, w) == At(r, "waves") /\ co[r].waves # {} /\ w = Handled(r)

CancelPrepared(r, w) ==
    /\ EndWave(w)
    /\ call' = Unlink(WaveCalls(r, w, "prepared"), r, w)

\* mutant: Stop leaves the prepared wave where it is
MutantDropPrepared(r, w) ==
    /\ Handling(r, w) /\ wave[w].state = "prepared" /\ run[r].stop
    /\ NextWave(r, FALSE)
    /\ UNCHANGED <<world, journal, due, lock, left>>

DropPrepared(r, w) ==
    /\ Handling(r, w) /\ wave[w].state = "prepared" /\ run[r].stop
    /\ CancelPrepared(r, w)
    /\ NextWave(r, FALSE)
    /\ UNCHANGED <<world, run, item, due, lock, left>>

SkipBlocked(r, w) ==
    /\ Handling(r, w) /\ wave[w].state = "prepared" /\ ~run[r].stop
    /\ run[r].state = "blocked" /\ co[r].phase # "send"
    /\ NextWave(r, FALSE)
    /\ UNCHANGED <<world, journal, due, lock, left>>

\* application of the item: absent, or its own and still empty
OwnEmptyApp(r, j) ==
    offer[j].app = "none" \/ (offer[j].app = "empty" /\ item[r][j].app)

Sendable(r, j) == j \in Eligible(r) /\ Valid(r, j) /\ OwnEmptyApp(r, j)
Kept(r, w) == {c \in wave[w].calls : Sendable(r, c[1])}

\* _prune_prepared: requests of changed offers leave the wave; a wave without
\* requests is completed
Prune(r, w) ==
    LET out == wave[w].calls \ Kept(r, w) IN
    /\ wave' = [wave EXCEPT ![w] =
          IF Kept(r, w) = {} THEN NoWave ELSE [@ EXCEPT !.calls = Kept(r, w)]]
    /\ item' = [item EXCEPT ![r] = [j \in Jobs |->
          IF j \in Eligible(r) /\ \E c \in out : c[1] = j
          THEN [item[r][j] EXCEPT !.state = "stale"] ELSE item[r][j]]]
    /\ LET calls == [call EXCEPT ![r] = [j \in Jobs |-> [k \in Positions |->
              IF <<j, k>> \in out THEN [call[r][j][k] EXCEPT !.state = "failed"]
              ELSE call[r][j][k]]]]
       IN  call' = IF Kept(r, w) = {} THEN Unlink(calls, r, w) ELSE calls

\* _submit, before the upload
Prepare(r, w) ==
    /\ Handling(r, w) /\ wave[w].state = "prepared" /\ ~run[r].stop
    /\ run[r].state = "blocked" => co[r].phase = "send"
    /\ Prune(r, w)
    /\ IF Kept(r, w) = {} THEN NextWave(r, FALSE) ELSE Go(r, "upload")
    /\ UNCHANGED <<world, run, due, lock, left>>

\* the file goes up; requests are pruned a second time, and a wave that
\* changed meanwhile is left prepared
Upload(r) ==
    /\ At(r, "upload")
    /\ LET w == Handled(r) IN
        /\ Prune(r, w)
        /\ IF Kept(r, w) = wave[w].calls THEN Go(r, "commit") ELSE NextWave(r, FALSE)
    /\ UNCHANGED <<world, run, due, lock, left>>

UploadFails(r) ==
    /\ At(r, "upload") /\ Failing
    /\ Block(r)
    /\ UNCHANGED <<world, item, call, wave, due>>

\* mutant: Stop is not read again in the transaction of the intent
MutantCommit(r) ==
    /\ At(r, "commit")
    /\ LET w == Handled(r) IN
        /\ wave' = [wave EXCEPT ![w].state = "submitting"]
        /\ call' = WaveCalls(r, w, "submitting")
        /\ Go(r, "post")
    /\ UNCHANGED <<world, run, item, due, lock, left>>

\* the intent is durable before the paid POST, unless Stop was recorded
Commit(r) ==
    /\ At(r, "commit")
    /\ LET w == Handled(r) IN
        IF run[r].stop
        THEN CancelPrepared(r, w) /\ NextWave(r, FALSE)
        ELSE /\ wave' = [wave EXCEPT ![w].state = "submitting"]
             /\ call' = WaveCalls(r, w, "submitting")
             /\ Go(r, "post")
    /\ UNCHANGED <<world, run, item, due, lock, left>>

\* the provider accepts the batch and answers, or answers a definite refusal
Post(r) ==
    /\ At(r, "post")
    /\ \/ remote' = [remote EXCEPT ![Handled(r)] = "running"] /\ Go(r, "posted")
       \/ UNCHANGED remote /\ Go(r, "refused")
    /\ UNCHANGED <<offer, outside, journal, due, lock, left>>

\* no answer: the batch may or may not have been accepted
PostLost(r) ==
    /\ At(r, "post") /\ Failing
    /\ remote' \in {remote, [remote EXCEPT ![Handled(r)] = "running"]}
    /\ Go(r, "unknown")
    /\ UNCHANGED <<offer, outside, journal, due, lock>>

OtherUnknown(r, w) ==
    \E v \in Waves \ {w} : wave[v].run = r /\ wave[v].state \in {"submitting", "submission_unknown"}

\* _save_snapshot: the batch is known, and attention ends with the last unknown
SaveSnapshot(r, w) ==
    run' = IF run[r].state = "attention" /\ ~OtherUnknown(r, w)
           THEN [run EXCEPT ![r].state = "active"] ELSE run

Posted(r) ==
    /\ At(r, "posted")
    /\ LET w == Handled(r) IN
        /\ SaveSnapshot(r, w)
        /\ wave' = [wave EXCEPT ![w].state = "submitted"]
        /\ call' = WaveCalls(r, w, "submitted")
    /\ IF co[r].phase = "send" THEN NextWave(r, TRUE) ELSE Go(r, "waves")
    /\ UNCHANGED <<world, item, due, lock, left>>

\* _fail_wave
PostRefused(r) ==
    /\ At(r, "refused")
    /\ LET w == Handled(r) IN
        /\ EndWave(w)
        /\ call' = Unlink(WaveCalls(r, w, "failed"), r, w)
    /\ NextWave(r, FALSE)
    /\ UNCHANGED <<world, run, item, due, lock, left>>

\* mutant: calls are given the state of the wave
MutantPostUnknown(r) ==
    /\ At(r, "unknown")
    /\ LET w == Handled(r) IN
        /\ wave' = [wave EXCEPT ![w].state = "submission_unknown"]
        /\ call' = WaveCalls(r, w, "submission_unknown")
    /\ run' = [run EXCEPT ![r].state = "attention"]
    /\ NextWave(r, FALSE)
    /\ UNCHANGED <<world, item, due, lock, left>>

PostUnknown(r) ==
    /\ At(r, "unknown")
    /\ LET w == Handled(r) IN
        /\ wave' = [wave EXCEPT ![w].state = "submission_unknown"]
        /\ call' = WaveCalls(r, w, "uncertain")
    /\ run' = [run EXCEPT ![r].state = "attention"]
    /\ NextWave(r, FALSE)
    /\ UNCHANGED <<world, item, due, lock, left>>

\* _refresh: a submission whose batch is unknown is looked up by its metadata
Refreshing(r, w) == Handling(r, w) /\ wave[w].state \in OutstandingWaveStates \ {"prepared"}

RefreshMissing(r, w) ==
    /\ Refreshing(r, w) /\ wave[w].state # "submitted" /\ remote[w] = "absent"
    /\ run' = [run EXCEPT ![r].state = "attention"]
    /\ NextWave(r, TRUE)
    /\ UNCHANGED <<world, item, call, wave, due, lock, left>>

\* still running: a stopped run has its batch cancelled
RefreshRunning(r, w) ==
    /\ Refreshing(r, w) /\ remote[w] \in {"running", "cancelling"}
    /\ remote' = [remote EXCEPT ![w] = IF run[r].stop THEN "cancelling" ELSE @]
    /\ SaveSnapshot(r, w)
    /\ wave' = [wave EXCEPT ![w].state = "submitted"]
    /\ call' = WaveCalls(r, w, "submitted")
    /\ NextWave(r, TRUE)
    /\ UNCHANGED <<offer, outside, item, due, lock, left>>

\* mutant: a wave without all its answers stays open
MutantImport(r, w) ==
    /\ Refreshing(r, w) /\ remote[w] = "ended"
    /\ SaveSnapshot(r, w)
    /\ \/ /\ EndWave(w) /\ Ended(w)
          /\ call' = Unlink(WaveCalls(r, w, "completed"), r, w)
       \/ /\ wave' = [wave EXCEPT ![w].state = "submitted"]
          /\ call' = WaveCalls(r, w, "submitted")
          /\ UNCHANGED remote
    /\ NextWave(r, TRUE)
    /\ UNCHANGED <<offer, outside, item, due, lock, left>>

\* ended, by itself or cancelled: download and the one transaction that imports
\* every answer; a request without a valid one has failed
Import(r, w) ==
    /\ Refreshing(r, w) /\ remote[w] = "ended"
    /\ SaveSnapshot(r, w)
    /\ EndWave(w) /\ Ended(w)
    /\ \E good \in SUBSET wave[w].calls :
        call' = Unlink([call EXCEPT ![r] = [j \in Jobs |-> [k \in Positions |->
              IF <<j, k>> \in wave[w].calls
              THEN [call[r][j][k] EXCEPT !.state = IF <<j, k>> \in good THEN "completed" ELSE "failed"]
              ELSE call[r][j][k]]]], r, w)
    /\ NextWave(r, TRUE)
    /\ UNCHANGED <<offer, outside, item, due, lock, left>>

\* retrieve, recover, cancel or download raises
RefreshFails(r, w) ==
    /\ Refreshing(r, w) /\ Failing
    /\ Block(r)
    /\ UNCHANGED <<world, item, call, wave, due>>

----------------------------------------------------------------------------
(* Executing items: _execute_item, ReplayProvider and the Applier.         *)

\* the items to execute, and those whose last call is still in flight
ReadItems(r) ==
    /\ At(r, "read")
    /\ co' = [co EXCEPT ![r].pc = "items", ![r].jobs = Eligible(r), ![r].seen = Eligible(r),
          ![r].wait = {j \in Eligible(r) :
              /\ run[r].mode = "batch" /\ item[r][j].state = "waiting"
              /\ LastCall(r, j) # 0
              /\ call[r][j][LastCall(r, j)].state \in UnresolvedCallStates}]
    /\ UNCHANGED <<world, journal, due, lock, left>>

\* the item's outcome, in the transaction that records it
Record(r, state) ==
    /\ item' = [item EXCEPT ![r][Current(r)].state = state]
    /\ NextItem(r)

\* StaleTaskResultError: the empty application goes, prepared calls are dropped
Discard(r) ==
    LET j == Current(r)
        js == IF item[r][j].app THEN {j} ELSE {}
    IN  /\ item' = [Unlinked(item, js) EXCEPT ![r][j].state = "stale"]
        /\ offer' = OffersReleased(js)
        /\ call' = [call EXCEPT ![r][j] = [k \in Positions |->
              IF call[r][j][k].state = "prepared" THEN [call[r][j][k] EXCEPT !.state = "failed"]
              ELSE call[r][j][k]]]
        /\ NextItem(r)

Executing(r) == At(r, "items") /\ co[r].jobs # {} /\ ~run[r].stop

\* _validate, or the guards of the reservation: the item's own empty application
ItemStale(r) ==
    /\ Executing(r)
    /\ LET j == Current(r) IN
        \/ ~Valid(r, j)
        \/ item[r][j].app /\ offer[j].app # "empty"
        \/ ~item[r][j].app /\ offer[j].app = "published"
    /\ Discard(r)
    /\ UNCHANGED <<outside, run, wave, remote, due, lock, left>>

\* any other exception: a conflicting operation, an invalid answer, a failed rendering
ItemFails(r) ==
    /\ Executing(r) \/ At(r, "replay")
    /\ Failing
    /\ Record(r, "failed")
    /\ UNCHANGED <<world, run, call, wave, due, lock>>

\* the answer an item waits for has not come: nothing to replay
ItemStillWaits(r) ==
    /\ Executing(r)
    /\ LET j == Current(r) IN
        Valid(r, j) /\ j \in co[r].wait /\ item[r][j].app /\ offer[j].app = "empty"
    /\ NextItem(r)
    /\ UNCHANGED <<world, journal, due, lock, left>>

\* reservation of the application, recovered if a crash lost its acknowledgement
Reserve(r) ==
    /\ Executing(r)
    /\ LET j == Current(r) IN
        /\ Valid(r, j) /\ offer[j].app # "published"
        /\ j \in co[r].wait => ~item[r][j].app
        /\ \/ item[r][j].app /\ offer[j].app = "empty" /\ Go(r, "replay") /\ UNCHANGED <<offer, item>>
           \/ /\ ~item[r][j].app /\ offer[j].app = "empty"
              /\ item' = [item EXCEPT ![r][j].app = TRUE]
              /\ Go(r, "replay") /\ UNCHANGED offer
           \/ /\ ~item[r][j].app /\ offer[j].app = "none"
              /\ offer' = [offer EXCEPT ![j].app = "empty"]
              /\ Go(r, "reserved") /\ UNCHANGED item
    /\ UNCHANGED <<outside, run, call, wave, remote, due, lock, left>>

\* reservation_callback
Acknowledge(r) ==
    /\ At(r, "reserved")
    /\ item' = [item EXCEPT ![r][Current(r)].app = TRUE]
    /\ Go(r, "replay")
    /\ UNCHANGED <<world, run, call, wave, due, lock, left>>

\* check_cancelled: the item keeps its state and its calls
ReplayStops(r) ==
    /\ At(r, "replay") /\ run[r].stop
    /\ NextItem(r)
    /\ UNCHANGED <<world, journal, due, lock, left>>

\* mutant: the saved answers are replayed over an offer that changed
MutantReplaying(r) ==
    At(r, "replay") /\ ~run[r].stop /\ offer[Current(r)].app = "empty"

Replaying(r) ==
    At(r, "replay") /\ ~run[r].stop /\ Valid(r, Current(r)) /\ offer[Current(r)].app = "empty"

\* the offer or the application changed
ReplayStale(r) ==
    /\ At(r, "replay") /\ ~run[r].stop /\ ~Replaying(r)
    /\ Discard(r)
    /\ UNCHANGED <<outside, run, wave, remote, due, lock, left>>

\* a release changed the request of a journaled call: no saved answer fits
ReplayMismatch(r) ==
    /\ Replaying(r) /\ LastCall(r, Current(r)) # 0 /\ Failing
    /\ Discard(r)
    /\ UNCHANGED <<outside, run, wave, remote, due, lock>>

NextCall(r) == Min(Missing(r, Current(r)))
CallIs(r, states) ==
    /\ Missing(r, Current(r)) # {}
    /\ call[r][Current(r)][NextCall(r)].state \in states

\* Batch: the next call is journaled, or its answer has not come
ReplayWaits(r) ==
    /\ Replaying(r) /\ run[r].mode = "batch"
    /\ CallIs(r, {"none", "prepared"} \cup UnresolvedCallStates)
    /\ call' = [call EXCEPT ![r][Current(r)][NextCall(r)].state = IF @ = "none" THEN "prepared" ELSE @]
    /\ Record(r, "waiting")
    /\ UNCHANGED <<world, run, wave, due, lock, left>>

\* a call that failed, or one whose outcome an immediate run does not know
ReplayFails(r) ==
    /\ Replaying(r)
    /\ CallIs(r, IF run[r].mode = "batch" THEN {"failed"} ELSE {"failed", "uncertain", "submitting"})
    /\ Record(r, "failed")
    /\ UNCHANGED <<world, run, call, wave, due, lock, left>>

\* Immediate: the call is journaled and every check made before its intent
ReplayCalls(r) ==
    /\ Replaying(r) /\ run[r].mode = "immediate" /\ CallIs(r, {"none", "prepared", "submitted"})
    /\ call' = [call EXCEPT ![r][Current(r)][NextCall(r)].state = IF @ = "none" THEN "prepared" ELSE @]
    /\ Go(r, "intent")
    /\ UNCHANGED <<world, run, item, wave, due, lock, left>>

\* the intent is durable before the provider is called
Intend(r) ==
    /\ At(r, "intent")
    /\ call' = [call EXCEPT ![r][Current(r)][NextCall(r)].state = "submitting"]
    /\ Go(r, "answer")
    /\ UNCHANGED <<world, run, item, wave, due, lock, left>>

\* the answer is saved before Stop is looked at
Answer(r) ==
    /\ At(r, "answer")
    /\ call' = [call EXCEPT ![r][Current(r)][NextCall(r)].state = "completed"]
    /\ Go(r, "replay")
    /\ UNCHANGED <<world, run, item, wave, due, lock, left>>

\* refused or invalid: failed; no answer: uncertain
AnswerFails(r) ==
    /\ At(r, "answer")
    /\ \/ Record(r, "failed") /\ UNCHANGED left
          /\ call' = [call EXCEPT ![r][Current(r)][NextCall(r)].state = "failed"]
       \/ Record(r, "failed") /\ Failing
          /\ call' = [call EXCEPT ![r][Current(r)][NextCall(r)].state = "uncertain"]
    /\ UNCHANGED <<world, run, wave, due, lock>>

\* every answer is there: documents, application and item are committed together
Publish(r) ==
    /\ Replaying(r) /\ Missing(r, Current(r)) = {}
    /\ offer' = [offer EXCEPT ![Current(r)].app = "published"]
    /\ Record(r, "completed")
    /\ UNCHANGED <<outside, run, call, wave, remote, due, lock, left>>

----------------------------------------------------------------------------
(* The end of a follow-up.                                                 *)

AfterItems(r) ==
    /\ At(r, "items") /\ (co[r].jobs = {} \/ run[r].stop)
    /\ co' = [co EXCEPT ![r].jobs = {}, ![r].wait = {}, ![r].stopped = run[r].stop,
          ![r].phase = IF run[r].stop THEN "last" ELSE "send",
          ![r].pc = CASE run[r].mode = "immediate" -> "finish"
                      [] run[r].mode = "batch" /\ run[r].stop -> "sync"
                      [] OTHER -> "fresh"]
    /\ UNCHANGED <<world, journal, due, lock, left>>

\* freshness is read again before paying: a changed offer raises
Recheck(r) ==
    /\ At(r, "fresh")
    /\ IF \A j \in co[r].seen \cap Eligible(r) : Valid(r, j)
       THEN Go(r, "send") /\ UNCHANGED <<run, lock>>
       ELSE Block(r)
    /\ UNCHANGED <<world, item, call, wave, due, left>>

Finish(r) ==
    /\ At(r, "finish")
    /\ run' = [run EXCEPT ![r] = Settled(r, co[r].stopped)]
    /\ LET released == {j \in ItemsOf(r) : item[r][j].state = "stale" /\ item[r][j].app} IN
        offer' = OffersReleased(released) /\ item' = Unlinked(item, released)
    /\ co' = [co EXCEPT ![r] = IdleCo]
    /\ UNCHANGED <<outside, remote, call, wave, due, lock, left>>

----------------------------------------------------------------------------
(* Everything else: crash, the provider, other operations on the offers.   *)

\* both processes may be gone: locks and counters are lost, the journal stays
Crash ==
    /\ due # {} \/ \E r \in Runs : ~At(r, "idle")
    /\ Failing
    /\ co' = [r \in Runs |-> IdleCo] /\ lock' = NoRun /\ due' = {}
    /\ UNCHANGED <<world, journal>>

BatchEnds(w) ==
    /\ remote[w] \in {"running", "cancelling"}
    /\ remote' = [remote EXCEPT ![w] = "ended"]
    /\ UNCHANGED <<offer, outside, journal, due, co, lock, left>>

\* job_operation of another process: it saw no reservation of the offer, and
\* a run may reserve it before the operation writes
Enter(j) ==
    /\ left.edits > 0 /\ j \notin outside /\ ~Reserved(j)
    /\ outside' = outside \cup {j}
    /\ left' = [left EXCEPT !.edits = @ - 1]
    /\ UNCHANGED <<offer, remote, journal, due, co, lock>>

\* a new version, an archival or a duplicate to review, its end, an application
Change(j) ==
    /\ j \in outside /\ outside' = outside \ {j}
    /\ \/ offer' = [offer EXCEPT ![j].ver = @ + 1]
       \/ offer' = [offer EXCEPT ![j].held = ~@]
       \/ ~offer[j].held /\ offer' = [offer EXCEPT ![j].app = "published"]
    /\ UNCHANGED <<remote, journal, due, co, lock, left>>

----------------------------------------------------------------------------
Init ==
    /\ offer = [j \in Jobs |-> [ver |-> 1, held |-> FALSE, app |-> "none"]]
    /\ outside = {} /\ due = {}
    /\ run = [r \in Runs |-> [state |-> "none", mode |-> "batch", stop |-> FALSE]]
    /\ item = [r \in Runs |-> [j \in Jobs |-> [state |-> "none", snap |-> 0, app |-> FALSE]]]
    /\ call = [r \in Runs |-> [j \in Jobs |-> NoCalls]]
    /\ wave = [w \in Waves |-> NoWave]
    /\ remote = [w \in Waves |-> "absent"]
    /\ co = [r \in Runs |-> IdleCo]
    /\ lock = NoRun
    /\ left \in Budgets

\* the thread that holds the lock of run r takes its next step
Follow(r) ==
    \/ TakeSync(r) \/ LockBusy(r) \/ TakeSend(r) \/ LeaveTransport(r)
    \/ \E w \in Waves :
          \/ DropPrepared(r, w) \/ SkipBlocked(r, w) \/ Prepare(r, w)
          \/ RefreshMissing(r, w) \/ RefreshRunning(r, w) \/ Import(r, w)
    \/ Upload(r) \/ Commit(r) \/ Post(r) \/ Posted(r) \/ PostRefused(r) \/ PostUnknown(r)
    \/ ReadItems(r) \/ ItemStale(r) \/ ItemStillWaits(r) \/ Reserve(r) \/ Acknowledge(r)
    \/ ReplayStops(r) \/ ReplayStale(r) \/ ReplayWaits(r) \/ ReplayFails(r) \/ ReplayCalls(r)
    \/ Intend(r) \/ Answer(r) \/ Publish(r)
    \/ AfterItems(r) \/ Recheck(r) \/ Finish(r)

\* what can go wrong for it
Fails(r) ==
    \/ UploadFails(r) \/ PostLost(r) \/ ItemFails(r) \/ ReplayMismatch(r) \/ AnswerFails(r)
    \/ \E w \in Waves : RefreshFails(r, w)

User ==
    \E r \in Runs :
        \/ \E js \in SUBSET Jobs, mode \in Modes : Start(r, js, mode)
        \/ Retry(r) \/ Cancel(r) \/ Abandon(r)

Next ==
    \/ User \/ Crash
    \/ \E r \in Runs : Advance(r) \/ Sync(r) \/ SyncImmediate(r) \/ Follow(r) \/ Fails(r)
    \/ \E w \in Waves : BatchEnds(w)
    \/ \E j \in Jobs : Enter(j) \/ Change(j)

Spec == Init /\ [][Next]_vars

\* Worker threads keep running, the timer keeps following batch runs, and the
\* provider ends every batch.
FairSpec ==
    /\ Spec
    /\ \A r \in Runs : WF_vars(Advance(r)) /\ WF_vars(Follow(r)) /\ SF_vars(Sync(r))
    /\ \A w \in Waves : WF_vars(BatchEnds(w))

----------------------------------------------------------------------------
(* Properties.                                                             *)

OfferRecs == [ver : Nat, held : BOOLEAN, app : {"none", "empty", "published"}]
RunRecs == [state : RunStates, mode : {"batch", "immediate"}, stop : BOOLEAN]
ItemRecs == [state : ItemStates, snap : Nat, app : BOOLEAN]
CallRecs == [state : CallStates, wave : {0} \cup Waves]
WaveRecs == [run : Runs \cup {NoRun}, state : OutstandingWaveStates \cup {"none"},
             calls : SUBSET (Jobs \X Positions)]
CoRecs == [pc : {"idle", "sync", "waves", "upload", "commit", "post", "posted", "refused",
                 "unknown", "read", "items", "reserved", "replay", "intent", "answer",
                 "fresh", "send", "finish"},
           phase : {"none", "first", "send", "last"},
           jobs : SUBSET Jobs, wait : SUBSET Jobs, seen : SUBSET Jobs,
           waves : SUBSET Waves, stopped : BOOLEAN]

\* Every variable holds a value the offers, the journal's columns and a
\* follow-up can hold.
TypeOK ==
    /\ offer \in [Jobs -> OfferRecs] /\ outside \subseteq Jobs /\ due \subseteq Runs
    /\ run \in [Runs -> RunRecs] /\ item \in [Runs -> [Jobs -> ItemRecs]]
    /\ call \in [Runs -> [Jobs -> [Positions -> CallRecs]]]
    /\ wave \in [Waves -> WaveRecs]
    /\ remote \in [Waves -> {"absent", "running", "cancelling", "ended"}]
    /\ co \in [Runs -> CoRecs] /\ lock \in Runs \cup {NoRun}
    /\ left \in [steps : Positions, edits : Nat, faults : Nat, retries : Nat]

\* Whatever is stopped, abandoned, resumed in another run or retried, at most one
\* run has the unfinished item of an offer.
OneOwner == \A j \in Jobs : \A r, s \in Sources(j) : r = s

\* An offer gets one dossier from all its runs, and each answer it is made of is
\* in the journal of the run that published it.
OneDossier ==
    \A r \in Runs, j \in Jobs : item[r][j].state = "completed" =>
        /\ offer[j].app = "published" /\ Missing(r, j) = {}
        /\ \A s \in Runs : item[s][j].state = "completed" => s = r

Sending(r, j, k) ==
    call[r][j][k].state # "submitting" /\ call'[r][j][k].state = "submitting"

GivenUpBetween(s, r, j) == \E t \in Runs : s < t /\ t < r /\ item[t][j].state = "stale"

\* A request is never paid for while an earlier payment of it is unknown, in
\* flight or answered, in this run or in one whose work on the offer it goes on
\* with; a run that gave the offer up as stale ends that work.
NeverResent ==
    [][\A r, s \in Runs, j \in Jobs, k \in Positions :
          Sending(r, j, k) /\ item[s][j].state \notin {"none", "stale"}
                /\ ~GivenUpBetween(s, r, j)
             => call[s][j][k].state \notin UnresolvedCallStates \cup {"completed"}]_vars

\* A paid answer stays in the journal, and goes along when another run takes the
\* offer over.
AnswersKept ==
    [][\A r \in Runs, j \in Jobs, k \in Positions : call[r][j][k].state = "completed" =>
          /\ call'[r][j][k].state = "completed"
          /\ item[r][j].state # "transferred" /\ item'[r][j].state = "transferred" =>
                \E s \in Runs : /\ item[s][j].state = "none" /\ item'[s][j].state = "pending"
                                /\ call'[s][j][k].state = "completed"]_vars

\* From the moment Stop is recorded until the user resumes the run, no batch of
\* it is submitted, wherever its follow-up stands.
StopHolds ==
    [][\A w \in Waves :
          wave[w].state # "submitting" /\ wave'[w].state = "submitting"
             => ~run[wave'[w].run].stop]_vars

\* Documents are published for the offer the run was created with, over the
\* application it reserved.
PublishesReserved ==
    [][\A r \in Runs, j \in Jobs :
          item[r][j].state # "completed" /\ item'[r][j].state = "completed"
             => Valid(r, j) /\ offer[j].app = "empty" /\ item[r][j].app]_vars

Lost(r) == \E w \in Outstanding(r) :
    /\ wave[w].state \in {"submitting", "submission_unknown"} /\ remote[w] = "absent"

\* An active batch run ends, or shows that it needs the user.
RunSettles ==
    \A r \in Runs : run[r].state = "active" /\ run[r].mode = "batch"
                        ~> (run[r].state # "active" \/ Lost(r))

\* A stopped run that is followed comes to rest.
StopSettles ==
    \A r \in Runs : run[r].stop /\ run[r].state \in FollowedRunStates /\ run[r].mode = "batch"
                        ~> (run[r].state \notin FollowedRunStates \/ Lost(r) \/ ~run[r].stop)
=============================================================================
