----------------------------- MODULE ActorRuns -----------------------------
(* The paid LinkedIn collection: Apify Actors started from several threads, *)
(* followed by id, read, stored and only then forgotten, with a journal     *)
(* that has to survive what happens in between.  One journal is modelled,   *)
(* with the collection that opened it and the recoveries that reuse it.     *)
(* Sources: scrapers/linkedin.py, scrapers/apify_recovery.py,               *)
(* pipeline/ingest/collection.py, pipeline/ingestor.py.                     *)
EXTENDS Integers, FiniteSets

CONSTANTS
    Titles,       \* the queries of the plan, numbered in its order
    Passes,       \* experience passes of a title: one, or two with a fallback
    Workers,      \* linkedin_max_concurrent_runs
    Executions,   \* threads that may collect at the same time
    MaxRuns,      \* Actor runs; enough for every collection
    Starts,       \* what a started run may already be when the POST is answered
    Ends,         \* how a run may end
    Budgets       \* bounds of a behaviour: collections begun and alive at once,
                  \* failing calls or journal writes, killed processes, Stops

ASSUME CollectionAssumption ==
    /\ Titles \subseteq Nat /\ IsFiniteSet(Titles) /\ Passes \in {1, 2}
    /\ Workers \in 1..5 /\ MaxRuns \in Nat
    /\ Ends \subseteq {"succeeded", "failed", "fatal"} /\ Starts \subseteq {"running"} \cup Ends
    /\ Executions \subseteq Nat
    /\ Budgets \subseteq [begins : Nat, alive : Nat, faults : Nat, crashes : Nat, stops : Nat]

VARIABLES
    actor,     \* the Actor runs the provider accepted
    journal,   \* the runs of the journal
    reserved,  \* its start reservations
    stored,    \* runs whose whole dataset is in the database
    exec,      \* the thread that runs a collection
    task,      \* the session of a title and the thread that makes its pass
    opened,    \* the collection that opened the journal has begun
    left       \* what is left of each bound

vars == <<actor, journal, reserved, stored, exec, task, opened, left>>

Run == 1..MaxRuns
Pass == Titles \X (1..Passes)
Terminal == {"succeeded", "failed", "aborted"}

-----------------------------------------------------------------------------
(* The provider and the journal.                                            *)

\* a failed run is "fatal" when its message speaks of quota or access
NoActor == [pass |-> <<0, 0>>, status |-> "none"]
Started(r) == actor[r].status # "none"
StatusOf(r) == IF actor[r].status = "fatal" THEN "failed" ELSE actor[r].status

NoEntry == [state |-> "none", status |-> "none", fatal |-> "unknown"]
Known(r) == journal[r].state # "none"
\* mutant: a run whose dataset was read is no longer looked for
MutantKnownOf(p) == {r \in Run : journal[r].state = "tracking" /\ actor[r].pass = p}
KnownOf(p) == {r \in Run : Known(r) /\ actor[r].pass = p}
Oldest(rs) == CHOOSE r \in rs : \A s \in rs : r <= s
Entry(r) == [run |-> r, state |-> journal[r].state, status |-> journal[r].status,
             fatal |-> journal[r].fatal]

-----------------------------------------------------------------------------
(* Collections, sessions and passes.                                        *)

IdleExec == [pc |-> "idle", fresh |-> FALSE, stop |-> FALSE, fatal |-> FALSE,
             later |-> {}, active |-> {}, done |-> {}]
NoTask == [pc |-> "none", todo |-> {}, recovery |-> FALSE, pass |-> 1, done |-> FALSE,
           run |-> 0, status |-> "none", fatal |-> "unknown", msg |-> FALSE,
           cancelled |-> FALSE, error |-> "none", whole |-> FALSE]

Init ==
    /\ actor = [r \in Run |-> NoActor] /\ journal = [r \in Run |-> NoEntry]
    /\ reserved = {} /\ stored = {}
    /\ exec = [e \in Executions |-> IdleExec]
    /\ task = [e \in Executions |-> [t \in Titles |-> NoTask]]
    /\ opened = FALSE /\ left \in Budgets

At(e, pc) == exec[e].pc = pc
Makes(e, t, pc) == At(e, "collect") /\ t \in exec[e].active /\ task[e][t].pc = pc
PassOf(e, t) == <<t, task[e][t].pass>>
Spend(what) == left[what] > 0 /\ left' = [left EXCEPT ![what] = @ - 1]
Fault == Spend("faults") /\ UNCHANGED opened

SetTask(e, t, new) == task' = [task EXCEPT ![e][t] = new]
Fails(e, t, error) ==
    SetTask(e, t, [task[e][t] EXCEPT !.pc = "end", !.error = error, !.done = TRUE])

\* the thread forgets what it had in hand
Quits(e) ==
    /\ exec' = [exec EXCEPT ![e] = IdleExec]
    /\ task' = [task EXCEPT ![e] = [t \in Titles |-> NoTask]]

\* a lost run or an uncertain start stops a recovery, not a fresh search
Unclear(e) == IF exec[e].fresh THEN "plain" ELSE "stop"

-----------------------------------------------------------------------------
(* The collection: sessions, cohorts, reduction, storage.                   *)

\* only the collection that opens the journal is a fresh search
Begin(e) ==
    /\ LET idle == {x \in Executions : At(x, "idle")}
       IN  /\ idle # {} /\ e = Oldest(idle)
           /\ Cardinality(Executions \ idle) < left.alive
    /\ Spend("begins") /\ opened' = TRUE
    /\ exec' = [exec EXCEPT ![e] = [IdleExec EXCEPT !.pc = "plan", !.later = Titles,
                                                    !.fresh = ~opened]]
    /\ UNCHANGED <<actor, journal, reserved, stored, task>>

\* the known runs of a title; those of the first pass are recovered first
Pending(t) == {Entry(r) : r \in {r \in Run : Known(r) /\ actor[r].pass[1] = t}}
First(todo) ==
    CHOOSE k \in todo : \A l \in todo :
        LET p == actor[k.run].pass[2]
            q == actor[l.run].pass[2]
        IN  p < q \/ (p = q /\ k.run <= l.run)

\* create_search_session, one title after the other
Plan(e) ==
    /\ At(e, "plan") /\ exec[e].later # {}
    /\ LET t == Oldest(exec[e].later)
           todo == IF exec[e].stop THEN {} ELSE Pending(t)
       IN  /\ exec' = [exec EXCEPT ![e].later = @ \ {t}]
           /\ SetTask(e, t, [NoTask EXCEPT !.todo = todo, !.recovery = todo # {},
                                           !.done = exec[e].stop])
    /\ UNCHANGED <<actor, journal, reserved, stored, opened, left>>

PlanFails(e) ==
    /\ At(e, "plan") /\ exec[e].later # {} /\ ~exec[e].stop /\ Fault /\ Quits(e)
    /\ UNCHANGED <<actor, journal, reserved, stored>>

\* known runs are recovered before anything new is started
Planned(e) ==
    /\ At(e, "plan") /\ exec[e].later = {}
    /\ LET old == {t \in Titles : task[e][t].recovery}
       IN  exec' = [exec EXCEPT ![e].pc = "collect", ![e].later = IF old # {} THEN old ELSE Titles]
    /\ UNCHANGED <<actor, journal, reserved, stored, task, opened, left>>

Launch(e, titles) ==
    [t \in Titles |-> IF t \in titles
        THEN [NoTask EXCEPT !.pc = "begin", !.todo = task[e][t].todo, !.pass = task[e][t].pass,
                            !.recovery = task[e][t].recovery, !.done = task[e][t].done]
        ELSE IF t \in exec[e].later THEN task[e][t] ELSE NoTask]
Over(e) == exec[e].later = {} \/ exec[e].fatal \/ exec[e].stop
Cohort(e) == {t \in exec[e].later : Cardinality({s \in exec[e].later : s < t}) < Workers}

NextCohort(e) ==
    /\ At(e, "collect") /\ exec[e].active = {} /\ ~Over(e)
    /\ exec' = [exec EXCEPT ![e].active = Cohort(e), ![e].later = @ \ Cohort(e)]
    /\ task' = [task EXCEPT ![e] = Launch(e, Cohort(e))]
    /\ UNCHANGED <<actor, journal, reserved, stored, opened, left>>

\* what a cohort brought: an error that stops, whole datasets, fallback passes
Halts(e) == \E t \in exec[e].active : task[e][t].error = "stop"
Complete(e) == {task[e][t].run : t \in {t \in exec[e].active : task[e][t].whole}}
Fallback(e) ==
    {t \in exec[e].active : /\ ~Halts(e) /\ ~exec[e].stop
                            /\ task[e][t].error = "none" /\ ~task[e][t].done}

\* every pass of the cohort has ended: the fallback passes form the next one
CohortEnds(e) ==
    /\ At(e, "collect") /\ exec[e].active # {}
    /\ \A t \in exec[e].active : task[e][t].pc = "end"
    /\ exec' = [exec EXCEPT ![e].fatal = @ \/ Halts(e), ![e].active = Fallback(e),
                            ![e].done = @ \cup Complete(e)]
    /\ task' = [task EXCEPT ![e] = Launch(e, Fallback(e))]
    /\ UNCHANGED <<actor, journal, reserved, stored, opened, left>>

\* a thread raised what no handler expects: the results of its peers are dropped
CohortRaises(e) ==
    /\ At(e, "collect") /\ exec[e].active # {} /\ Fault
    /\ \A t \in exec[e].active : task[e][t].pc = "end"
    /\ Quits(e) /\ UNCHANGED <<actor, journal, reserved, stored>>

\* nothing complete to store: the collection raises, or stores partial offers
Reduce(e) ==
    /\ At(e, "collect") /\ exec[e].active = {} /\ Over(e)
    /\ IF exec[e].done = {} THEN Quits(e)
       ELSE exec' = [exec EXCEPT ![e].pc = "persist"] /\ UNCHANGED task
    /\ UNCHANGED <<actor, journal, reserved, stored, opened, left>>

Persist(e) ==
    /\ At(e, "persist") /\ stored' = stored \cup exec[e].done
    /\ exec' = [exec EXCEPT ![e].pc = "ack"]
    /\ UNCHANGED <<actor, journal, reserved, task, opened, left>>

\* the transaction raises, or an offer was busy and its group left alone
PersistFails(e) ==
    /\ At(e, "persist") /\ Fault /\ Quits(e)
    /\ UNCHANGED <<actor, journal, reserved, stored>>

Acknowledge(e) ==
    /\ At(e, "ack") /\ Quits(e)
    /\ journal' = [r \in Run |-> IF r \in exec[e].done THEN NoEntry ELSE journal[r]]
    /\ UNCHANGED <<actor, reserved, stored, opened, left>>

AcknowledgeFails(e) ==
    /\ At(e, "ack") /\ Fault /\ Quits(e)
    /\ UNCHANGED <<actor, journal, reserved, stored>>

-----------------------------------------------------------------------------
(* One pass of one title: run_search_pass in a thread of its own.           *)

\* a run that has ended is only read
Follow(status) == IF status \in Terminal THEN "read" ELSE "track"

\* mutant: the cause of a failure is not asked for
MutantResumed(w, k) ==
    [w EXCEPT !.run = k.run, !.status = k.status, !.fatal = k.fatal, !.pc = Follow(k.status)]

\* where a known run is taken up again, from what the journal said of it
Resumed(w, k) ==
    [w EXCEPT !.run = k.run, !.status = k.status, !.fatal = k.fatal,
              !.pc = IF k.status \in Terminal \ {"succeeded"} /\ k.fatal = "unknown" THEN "refresh"
                     ELSE Follow(k.status)]

PassSkipped(e, t) ==
    /\ Makes(e, t, "begin") /\ (task[e][t].done \/ exec[e].stop)
    /\ SetTask(e, t, [task[e][t] EXCEPT !.pc = "end", !.done = TRUE])
    /\ UNCHANGED <<actor, journal, reserved, stored, exec, opened, left>>

PassResumes(e, t) ==
    /\ Makes(e, t, "begin") /\ ~task[e][t].done /\ ~exec[e].stop /\ task[e][t].recovery
    /\ SetTask(e, t, Resumed(task[e][t], First(task[e][t].todo)))
    /\ UNCHANGED <<actor, journal, reserved, stored, exec, opened, left>>

\* claim_start: a known run is resumed, a reserved start refused, else reserved
Claim(e, t) ==
    /\ Makes(e, t, "begin") /\ ~task[e][t].done /\ ~exec[e].stop /\ ~task[e][t].recovery
    /\ LET p == PassOf(e, t) IN
         \/ /\ KnownOf(p) # {} /\ UNCHANGED reserved
            /\ SetTask(e, t, Resumed(task[e][t], Entry(Oldest(KnownOf(p)))))
         \/ /\ KnownOf(p) = {} /\ p \in reserved /\ UNCHANGED reserved
            /\ Fails(e, t, Unclear(e))
         \/ /\ KnownOf(p) = {} /\ p \notin reserved /\ reserved' = reserved \cup {p}
            /\ SetTask(e, t, [task[e][t] EXCEPT !.pc = "post"])
    /\ UNCHANGED <<actor, journal, stored, exec, opened, left>>

ClaimFails(e, t) ==
    /\ Makes(e, t, "begin") /\ ~task[e][t].done /\ ~exec[e].stop /\ ~task[e][t].recovery
    /\ Fault /\ Fails(e, t, "stop")
    /\ UNCHANGED <<actor, journal, reserved, stored, exec>>

\* runs are numbered in the order the provider accepts them
IsNext(r) == ~Started(r) /\ \A s \in Run : s < r => Started(s)
Accept(r, p, status) == IsNext(r) /\ actor' = [actor EXCEPT ![r] = [pass |-> p, status |-> status]]

\* the POST, answered with an id
Post(e, t) ==
    /\ Makes(e, t, "post")
    /\ \E r \in Run, s \in Starts :
         /\ Accept(r, PassOf(e, t), s)
         /\ SetTask(e, t, [task[e][t] EXCEPT !.pc = "record", !.run = r, !.msg = s = "fatal",
                                             !.status = IF s = "fatal" THEN "failed" ELSE s])
    /\ UNCHANGED <<journal, reserved, stored, exec, opened, left>>

\* mutant: the reservation of a start without an answer is released
MutantPostUnclear(e, t) ==
    /\ Makes(e, t, "post") /\ Fault /\ Fails(e, t, Unclear(e))
    /\ reserved' = reserved \ {PassOf(e, t)}
    /\ \/ \E r \in Run : Accept(r, PassOf(e, t), "running")
       \/ UNCHANGED actor
    /\ UNCHANGED <<journal, stored, exec>>

\* a POST without a usable answer may have started a run
PostUnclear(e, t) ==
    /\ Makes(e, t, "post") /\ Fault /\ Fails(e, t, Unclear(e))
    /\ \/ \E r \in Run : Accept(r, PassOf(e, t), "running")
       \/ UNCHANGED actor
    /\ UNCHANGED <<journal, reserved, stored, exec>>

\* a refusal of the account or of the quota is definitive
PostRefused(e, t) ==
    /\ Makes(e, t, "post") /\ Fault
    /\ SetTask(e, t, [task[e][t] EXCEPT !.pc = "release"])
    /\ UNCHANGED <<actor, journal, reserved, stored, exec>>

Release(e, t) ==
    /\ Makes(e, t, "release") /\ Fails(e, t, "stop")
    /\ \/ reserved' = reserved \ {PassOf(e, t)} /\ UNCHANGED <<opened, left>>
       \/ Fault /\ UNCHANGED reserved
    /\ UNCHANGED <<actor, journal, stored, exec>>

\* record_started: the run replaces the reservation
RecordStarted(e, t) ==
    /\ Makes(e, t, "record")
    /\ journal' = [journal EXCEPT ![task[e][t].run] =
                      [state |-> "tracking", status |-> task[e][t].status, fatal |-> "unknown"]]
    /\ reserved' = reserved \ {PassOf(e, t)}
    /\ SetTask(e, t, [task[e][t] EXCEPT !.pc = Follow(task[e][t].status)])
    /\ UNCHANGED <<actor, stored, exec, opened, left>>

RecordFails(e, t) ==
    /\ Makes(e, t, "record") /\ Fault /\ Fails(e, t, "stop")
    /\ UNCHANGED <<actor, journal, reserved, stored, exec>>

\* an answer of the provider about the run
Seen(w) == [w EXCEPT !.status = StatusOf(w.run), !.msg = actor[w.run].status = "fatal",
                     !.pc = Follow(StatusOf(w.run))]

\* why a failed run failed was never recorded: ask again before going on
Refresh(e, t) ==
    /\ Makes(e, t, "refresh")
    /\ SetTask(e, t, Seen(task[e][t]))
    /\ UNCHANGED <<actor, journal, reserved, stored, exec, opened, left>>

RefreshFails(e, t) ==
    /\ Makes(e, t, "refresh") /\ Fault /\ Fails(e, t, "stop")
    /\ UNCHANGED <<actor, journal, reserved, stored, exec>>

Poll(e, t) ==
    /\ Makes(e, t, "track") /\ SetTask(e, t, Seen(task[e][t]))
    /\ UNCHANGED <<actor, journal, reserved, stored, exec, opened, left>>

\* Stop asks the provider to abort, once; the answer may get lost
Abort(e, t) ==
    /\ Makes(e, t, "track") /\ exec[e].stop /\ ~task[e][t].cancelled
    /\ \E taken, answered \in BOOLEAN :
         /\ actor' = IF taken /\ actor[task[e][t].run].status = "running"
                     THEN [actor EXCEPT ![task[e][t].run].status = "aborted"] ELSE actor
         /\ SetTask(e, t, [task[e][t] EXCEPT !.cancelled = TRUE,
                !.status = IF answered /\ actor' # actor THEN "aborted" ELSE @,
                !.pc = IF answered /\ actor' # actor THEN "read" ELSE @])
    /\ UNCHANGED <<journal, reserved, stored, exec, opened, left>>

\* the read budget is spent, or the account refuses: the run stays to be resumed
TrackFails(e, t) ==
    /\ Makes(e, t, "track") /\ Fault
    /\ \E error \in {"stop"} \cup (IF task[e][t].cancelled \/ exec[e].fresh THEN {"plain"} ELSE {}) :
         SetTask(e, t, [task[e][t] EXCEPT !.pc = "note", !.error = error])
    /\ UNCHANGED <<actor, journal, reserved, stored, exec>>

ReadDataset(e, t) ==
    /\ Makes(e, t, "read")
    /\ SetTask(e, t, [task[e][t] EXCEPT !.pc = "mark",
           !.fatal = IF @ # "unknown" THEN @ ELSE IF task[e][t].msg THEN "yes" ELSE "no"])
    /\ UNCHANGED <<actor, journal, reserved, stored, exec, opened, left>>

ReadFails(e, t) ==
    /\ Makes(e, t, "read") /\ Fault
    /\ \E error \in {"stop"} \cup (IF exec[e].stop \/ exec[e].fresh THEN {"plain"} ELSE {}) :
         SetTask(e, t, [task[e][t] EXCEPT !.pc = "note", !.error = error,
             !.fatal = IF @ # "unknown" THEN @ ELSE IF task[e][t].msg THEN "yes" ELSE "no"])
    /\ UNCHANGED <<actor, journal, reserved, stored, exec>>

\* _update: what the journal will say of the run, which must still be in it
Note(e, t, state) ==
    LET w == task[e][t]
    IN  /\ Known(w.run)
        /\ journal' = [journal EXCEPT ![w.run] =
                          [state |-> state, status |-> w.status,
                           fatal |-> IF w.fatal = "unknown" THEN @.fatal ELSE w.fatal]]

\* mark_recovery_required; partial offers are read without acknowledging the run
NoteFailure(e, t) ==
    /\ Makes(e, t, "note") /\ Note(e, t, "recovery") /\ Fails(e, t, task[e][t].error)
    /\ UNCHANGED <<actor, reserved, stored, exec, opened, left>>

\* mark_dataset_ready: the pass is complete
MarkReady(e, t) ==
    /\ Makes(e, t, "mark") /\ Note(e, t, "ready")
    /\ LET w == task[e][t]
           error == IF w.status = "succeeded" \/ w.cancelled THEN "none"
                    ELSE IF w.fatal = "yes" THEN "stop" ELSE "plain"
           rest == IF w.recovery THEN w.todo \ {First(w.todo)} ELSE {}
       IN  \E enough \in IF w.recovery THEN {FALSE} ELSE BOOLEAN :
             SetTask(e, t, [w EXCEPT !.pc = "end", !.error = error, !.whole = TRUE,
                 !.todo = rest, !.pass = IF w.recovery THEN @ ELSE @ + 1,
                 !.done = \/ error # "none" \/ exec[e].stop
                          \/ IF w.recovery THEN rest = {} ELSE enough \/ w.pass = Passes])
    /\ UNCHANGED <<actor, reserved, stored, exec, opened, left>>

\* the journal cannot be written, or another collection removed the run
NoteFails(e, t) ==
    /\ Makes(e, t, "note") \/ Makes(e, t, "mark")
    /\ \/ ~Known(task[e][t].run) /\ UNCHANGED <<opened, left>>
       \/ Known(task[e][t].run) /\ Fault
    /\ Fails(e, t, "stop")
    /\ UNCHANGED <<actor, journal, reserved, stored, exec>>

-----------------------------------------------------------------------------
(* The environment.                                                         *)

ActorEnds(r) ==
    /\ actor[r].status = "running"
    /\ \E s \in Ends : actor' = [actor EXCEPT ![r].status = s]
    /\ UNCHANGED <<journal, reserved, stored, exec, task, opened, left>>

RequestStop(e) ==
    /\ ~At(e, "idle") /\ ~exec[e].stop /\ Spend("stops")
    /\ exec' = [exec EXCEPT ![e].stop = TRUE]
    /\ UNCHANGED <<actor, journal, reserved, stored, task, opened>>

Crash(e) ==
    /\ ~At(e, "idle") /\ Spend("crashes") /\ Quits(e)
    /\ UNCHANGED <<actor, journal, reserved, stored, opened>>

-----------------------------------------------------------------------------
Collect(e) ==
    \/ Plan(e) \/ PlanFails(e) \/ Planned(e) \/ NextCohort(e) \/ CohortEnds(e) \/ CohortRaises(e)
    \/ Reduce(e) \/ Persist(e) \/ PersistFails(e) \/ Acknowledge(e) \/ AcknowledgeFails(e)

MakePass(e, t) ==
    \/ PassSkipped(e, t) \/ PassResumes(e, t) \/ Claim(e, t) \/ ClaimFails(e, t)
    \/ Post(e, t) \/ PostUnclear(e, t) \/ PostRefused(e, t) \/ Release(e, t)
    \/ RecordStarted(e, t) \/ RecordFails(e, t) \/ Refresh(e, t) \/ RefreshFails(e, t)
    \/ Poll(e, t) \/ Abort(e, t) \/ TrackFails(e, t) \/ ReadDataset(e, t) \/ ReadFails(e, t)
    \/ NoteFailure(e, t) \/ MarkReady(e, t) \/ NoteFails(e, t)

\* nothing is left to do within the bounds
Rest ==
    /\ left.begins = 0 /\ \A e \in Executions : At(e, "idle")
    /\ \A r \in Run : actor[r].status # "running"
    /\ UNCHANGED vars

Next ==
    \/ \E e \in Executions :
         \/ Begin(e) \/ RequestStop(e) \/ Crash(e) \/ Collect(e)
         \/ \E t \in Titles : MakePass(e, t)
    \/ \E r \in Run : ActorEnds(r)
    \/ Rest

Spec == Init /\ [][Next]_vars

-----------------------------------------------------------------------------
(* Properties.                                                              *)

Statuses == {"none", "running"} \cup Terminal
Causes == {"unknown", "yes", "no"}
States == {"none", "tracking", "recovery", "ready"}
ActorRecs == [pass : Pass \cup {<<0, 0>>}, status : Statuses \cup {"fatal"}]
JournalRecs == [state : States, status : Statuses, fatal : Causes]
EntryRecs == [run : Run, state : States, status : Statuses, fatal : Causes]
ExecRecs ==
    [pc : {"idle", "plan", "collect", "persist", "ack"}, fresh : BOOLEAN, stop : BOOLEAN,
     fatal : BOOLEAN, later : SUBSET Titles, active : SUBSET Titles, done : SUBSET Run]
TaskRecs ==
    [pc : {"none", "begin", "post", "release", "record", "refresh", "track", "read", "mark",
           "note", "end"},
     todo : SUBSET EntryRecs, recovery : BOOLEAN, pass : 1..(Passes + 1), done : BOOLEAN,
     run : 0..MaxRuns, status : Statuses, fatal : Causes, msg : BOOLEAN, cancelled : BOOLEAN,
     error : {"none", "plain", "stop"}, whole : BOOLEAN]

\* The types of the journal, of the runs and of the threads that follow them.
TypeOK ==
    /\ actor \in [Run -> ActorRecs] /\ journal \in [Run -> JournalRecs]
    /\ reserved \subseteq Pass /\ stored \subseteq Run
    /\ exec \in [Executions -> ExecRecs]
    /\ task \in [Executions -> [Titles -> TaskRecs]]
    /\ opened \in BOOLEAN
    /\ left \in [begins : Nat, alive : Nat, faults : Nat, crashes : Nat, stops : Nat]

\* Two paid runs of one pass never exist before the first is stored: whoever is
\* killed, refused or left without an answer, the same request is not paid for
\* twice by the collections that share a journal.
OneRunPerPass ==
    \A r, s \in Run : r # s /\ Started(r) /\ Started(s) /\ actor[r].pass = actor[s].pass
        => r \in stored \/ s \in stored

\* What was paid can be found again: a run the provider accepted is in the
\* database, or in the journal, or its uncertain start is still reserved.
NothingPaidIsForgotten ==
    \A r \in Run : Started(r) => r \in stored \/ Known(r) \/ actor[r].pass \in reserved

\* A run that ended for want of quota or access ends the collection that read
\* it, after any number of crashes between its end and its reading: no later
\* cohort is launched.
QuotaEndsCollection ==
    \A e \in Executions :
        (\E r \in exec[e].done : actor[r].status = "fatal") => exec[e].active = {}
=============================================================================
