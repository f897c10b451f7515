-------------------------- MODULE ActorRuns_proof --------------------------
(***************************************************************************)
(* Theorems about ActorRuns, for every plan of titles, every number of     *)
(* threads, Actor runs, failing calls, killed processes and Stops.         *)
(***************************************************************************)
EXTENDS ActorRuns, WellFoundedInduction, TLAPS

(* The inductive invariant.                                                *)

Ended(r) == actor[r].status \notin {"none", "running"}

\* what a reader or the journal says of a run agrees with the provider
Tells(r, status, fatal) ==
    /\ status \in Terminal => status = StatusOf(r)
    /\ fatal = "yes" => actor[r].status = "fatal"
    /\ fatal = "no" => actor[r].status \in Terminal
RunSound(r) ==
    /\ Started(r) => actor[r].pass \in Pass
    /\ Known(r) => Started(r) /\ Tells(r, journal[r].status, journal[r].fatal)

\* the runs a session will recover, and the pass it stands at
TodoSound(w) ==
    /\ w.pass > Passes => w.done
    /\ w.pc \notin {"none", "begin", "end"} => w.pass <= Passes
    /\ w.recovery /\ ~w.done => w.todo # {}
    /\ \A k \in w.todo : Started(k.run) /\ Tells(k.run, k.status, k.fatal)

\* what a thread knows of the run it follows; a fatal end it has read stops the
\* collection, unless the user did
RunPcs == {"record", "refresh", "track", "read", "mark", "note"}
FollowSound(w, stop) ==
    /\ w.pc \in RunPcs => w.run \in Run /\ Started(w.run) /\ Tells(w.run, w.status, w.fatal)
    /\ w.pc \in {"record", "read"} /\ w.status \in Terminal /\ w.fatal = "unknown"
          => (w.msg <=> actor[w.run].status = "fatal")
    /\ w.pc \in {"read", "mark"} => w.status \in Terminal
    /\ w.pc = "mark" => w.fatal # "unknown"
    /\ w.pc \in {"begin", "post"} => w.fatal = "unknown"
    /\ w.pc \in {"begin", "track"} \/ (w.pc = "record" /\ w.status \notin Terminal) => ~w.msg
    /\ w.cancelled => stop
    /\ w.whole => /\ w.pc = "end" /\ w.run \in Run /\ Ended(w.run)
                  /\ actor[w.run].status = "fatal" => w.error = "stop" \/ stop

\* a thread that starts a run owns the reservation of its pass, and every other
\* run of the pass is stored
OwnPcs == {"post", "record", "release"}
OwnSound(w, p) ==
    w.pc \in OwnPcs =>
        /\ p \in reserved
        /\ w.pc = "record" => actor[w.run].pass = p
        /\ \A r \in Run : Started(r) /\ actor[r].pass = p =>
              r \in stored \/ (w.pc = "record" /\ r = w.run)

Sessions == \A e \in Executions, t \in Titles : TodoSound(task[e][t])
Followed == \A e \in Executions, t \in Titles : FollowSound(task[e][t], exec[e].stop)
Owned == \A e \in Executions, t \in Titles : OwnSound(task[e][t], PassOf(e, t))
OneOwner ==
    \A e, f \in Executions, t \in Titles :
        e # f /\ task[e][t].pc \in OwnPcs /\ task[f][t].pc \in OwnPcs
            => task[e][t].pass # task[f][t].pass
Told == \A r \in Run : RunSound(r)
Kept ==
    \A e \in Executions :
        /\ exec[e].pc = "idle" => ~exec[e].stop
        /\ exec[e].pc = "ack" => exec[e].done \subseteq stored
        /\ \A r \in exec[e].done : Ended(r)
        /\ (\E r \in exec[e].done : actor[r].status = "fatal")
              => exec[e].active = {} /\ (exec[e].fatal \/ exec[e].stop)

IInv ==
    /\ TypeOK /\ Told /\ Sessions /\ Followed /\ Owned /\ OneOwner /\ Kept
    /\ NothingPaidIsForgotten /\ OneRunPerPass

-----------------------------------------------------------------------------
(* Types.                                                                   *)

Tasks == [Executions -> [Titles -> TaskRecs]]

\* the least of some numbers is one of them, and none is less
LEMMA OldestIs ==
    ASSUME NEW S, S \subseteq Nat, S # {}
    PROVE  Oldest(S) \in S /\ \A s \in S : Oldest(S) <= s
<1> DEFINE R == {ss \in Nat \X Nat : ss[1] < ss[2]}
<1>1. R = OpToRel(<, Nat) BY DEF OpToRel
<1>2. IsWellFoundedOn(R, Nat) BY NatLessThanWellFounded, <1>1
<1>3. PICK x \in S : \A y \in S : <<y, x>> \notin R BY <1>2, WFMin
<1>4. ASSUME NEW y \in S PROVE x <= y
  <2>1. <<y, x>> \in Nat \X Nat => ~(y < x) BY <1>3
  <2> QED BY <2>1
<1> QED BY <1>4 DEF Oldest

\* the first run a session recovers is one of its runs
LEMMA FirstIn ==
    ASSUME TypeOK, NEW todo, todo \subseteq EntryRecs, todo # {},
           \A k \in todo : Started(k.run) /\ actor[k.run].pass \in Pass
    PROVE  First(todo) \in todo
<1> DEFINE P == {actor[k.run].pass[2] : k \in todo}
           p == Oldest(P)
           K == {k \in todo : actor[k.run].pass[2] = p}
           N == {k.run : k \in K}
           n == Oldest(N)
<1>1. \A k \in todo : actor[k.run].pass[2] \in Nat BY DEF Pass
<1>2. P \subseteq Nat /\ P # {} BY <1>1
<1>3. p \in P /\ \A q \in P : p <= q BY <1>2, OldestIs
<1>4. K # {} BY <1>3
<1>5. N \subseteq Nat /\ N # {}
  <2>1. \A k \in EntryRecs : k.run \in Nat
    BY CollectionAssumption DEF EntryRecs, Run, CollectionAssumption
  <2> HIDE DEF p
  <2> QED BY <1>4, <2>1
<1>6. n \in N /\ \A q \in N : n <= q BY <1>5, OldestIs
<1>7. PICK k \in K : k.run = n BY <1>6
<1>8. ASSUME NEW l \in todo
      PROVE LET a == actor[k.run].pass[2]
                b == actor[l.run].pass[2]
            IN  a < b \/ (a = b /\ k.run <= l.run)
  <2>1. p <= actor[l.run].pass[2] BY <1>3
  <2>2. actor[l.run].pass[2] = p => l.run \in N OBVIOUS
  <2>3. p \in Nat /\ actor[l.run].pass[2] \in Nat BY <1>1, <1>2, <1>3
  <2> HIDE DEF p, n, P, N
  <2> QED BY <2>1, <2>2, <2>3, <1>6, <1>7
<1> QED BY <1>7, <1>8 DEF First

LeftRecs == [begins : Nat, alive : Nat, faults : Nat, crashes : Nat, stops : Nat]

\* only the session that moves is written
LEMMA TaskWrite ==
    ASSUME TypeOK, NEW e \in Executions, NEW t \in Titles, NEW new \in TaskRecs,
           SetTask(e, t, new)
    PROVE  /\ task' \in Tasks /\ task'[e][t] = new
           /\ \A f \in Executions, u \in Titles :
                 f # e \/ u # t => task'[f][u] = task[f][u]
<1>1. task \in [Executions -> [Titles -> TaskRecs]] BY DEF TypeOK
<1>2. task' = [task EXCEPT ![e] = [task[e] EXCEPT ![t] = new]] BY DEF SetTask
<1>3. [task[e] EXCEPT ![t] = new] \in [Titles -> TaskRecs] BY <1>1
<1> QED BY <1>1, <1>2, <1>3 DEF Tasks

\* a bound that is spent stays a number
LEMMA SpendType ==
    ASSUME TypeOK, NEW what \in {"begins", "alive", "faults", "crashes", "stops"}, Spend(what)
    PROVE  left' \in LeftRecs
BY DEF TypeOK, Spend, LeftRecs

\* a fault spends one of the allowed faults
LEMMA FaultType ==
    ASSUME TypeOK, Fault
    PROVE  left' \in LeftRecs /\ opened' \in BOOLEAN
BY SpendType DEF TypeOK, Fault

\* a session that is not done stands at a pass of the plan
LEMMA PassIn ==
    ASSUME TypeOK, Sessions, NEW e \in Executions, NEW t \in Titles,
           ~task[e][t].done \/ task[e][t].pc \notin {"none", "begin", "end"}
    PROVE  PassOf(e, t) \in Pass /\ task[e][t].pass \in 1..Passes
<1>1. task[e][t] \in TaskRecs /\ task[e][t].pass \in 1..(Passes + 1) BY DEF TypeOK, TaskRecs
<1>2. task[e][t].pass <= Passes
  BY <1>1, CollectionAssumption DEF Sessions, TodoSound, CollectionAssumption
<1> QED BY <1>1, <1>2, CollectionAssumption DEF PassOf, Pass, CollectionAssumption

\* a pass that fails stays of its type
LEMMA FailsType ==
    ASSUME TypeOK, NEW e \in Executions, NEW t \in Titles, NEW error \in {"none", "plain", "stop"},
           Fails(e, t, error)
    PROVE  task' \in Tasks
<1>1. task[e][t] \in TaskRecs BY DEF TypeOK
<1>2. [task[e][t] EXCEPT !.pc = "end", !.error = error, !.done = TRUE] \in TaskRecs
  BY <1>1 DEF TaskRecs
<1> QED BY <1>2, TaskWrite DEF Fails

\* the sessions and the empty one are of their type
LEMMA TaskInType ==
    ASSUME TypeOK, NEW e \in Executions, NEW t \in Titles
    PROVE  task[e][t] \in TaskRecs /\ NoTask \in TaskRecs
BY CollectionAssumption
   DEF TypeOK, NoTask, TaskRecs, Run, Statuses, Terminal, Causes, CollectionAssumption

\* what the journal says of a run is of its type
LEMMA EntryType ==
    ASSUME TypeOK, NEW r \in Run
    PROVE  Entry(r) \in EntryRecs
BY DEF TypeOK, Entry, EntryRecs, JournalRecs

\* a session that takes up a known run stays of its type
LEMMA ResumedType ==
    ASSUME NEW w \in TaskRecs, NEW k \in EntryRecs
    PROVE  Resumed(w, k) \in TaskRecs
<1>1. k.run \in 0..MaxRuns /\ k.status \in Statuses /\ k.fatal \in Causes
  BY CollectionAssumption DEF EntryRecs, Run, CollectionAssumption
<1>2. PICK pc \in {"refresh", "track", "read"} :
        Resumed(w, k) = [w EXCEPT !.run = k.run, !.status = k.status, !.fatal = k.fatal, !.pc = pc]
  BY DEF Resumed, Follow
<1> QED BY <1>1, <1>2 DEF TaskRecs

\* a session that saw an answer of the provider stays of its type
LEMMA SeenType ==
    ASSUME TypeOK, NEW w \in TaskRecs, w.run \in Run, Started(w.run)
    PROVE  Seen(w) \in TaskRecs
<1>1. StatusOf(w.run) \in Statuses BY DEF TypeOK, ActorRecs, StatusOf, Statuses, Terminal
<1> QED BY <1>1 DEF Seen, Follow, TaskRecs

\* the runs the provider accepts are of their type
LEMMA AcceptType ==
    ASSUME TypeOK, NEW r \in Run, NEW p \in Pass, NEW s \in Statuses \cup {"fatal"},
           Accept(r, p, s)
    PROVE  actor' \in [Run -> ActorRecs]
BY DEF TypeOK, Accept, ActorRecs

\* what is noted in the journal is of its type
LEMMA NoteType ==
    ASSUME TypeOK, NEW e \in Executions, NEW t \in Titles, NEW state \in States,
           Note(e, t, state)
    PROVE  journal' \in [Run -> JournalRecs]
<1>1. /\ journal \in [Run -> JournalRecs]
      /\ task[e][t].status \in Statuses /\ task[e][t].fatal \in Causes
  BY DEF TypeOK, TaskRecs
<1>2. CASE task[e][t].run \in Run
  <2>1. journal[task[e][t].run].fatal \in Causes BY <1>1, <1>2 DEF JournalRecs
  <2>2. PICK f \in Causes :
          journal' = [journal EXCEPT ![task[e][t].run] =
                        [state |-> state, status |-> task[e][t].status, fatal |-> f]]
    BY <1>1, <1>2, <2>1 DEF Note
  <2>3. [state |-> state, status |-> task[e][t].status, fatal |-> f] \in JournalRecs
    BY <1>1 DEF JournalRecs
  <2> QED BY <1>1, <2>2, <2>3
<1>3. CASE task[e][t].run \notin Run
  <2>1. PICK x : journal' = [journal EXCEPT ![task[e][t].run] = x] BY DEF Note
  <2> QED BY <1>1, <1>3, <2>1
<1> QED BY <1>2, <1>3

\* what a pass does in one step keeps the types
LEMMA PassType ==
    ASSUME TypeOK, Told, Sessions, Followed, NEW e \in Executions, NEW t \in Titles, MakePass(e, t)
    PROVE  TypeOK'
<1> DEFINE w == task[e][t]
<1>1. w \in TaskRecs /\ (~w.done \/ w.pc \notin {"none", "begin", "end"} => PassOf(e, t) \in Pass)
  BY TaskInType, PassIn
<1>2. /\ FollowSound(w, exec[e].stop) /\ TodoSound(w)
      /\ \A r \in Run : Known(r) => Started(r) /\ actor[r].pass \in Pass
  BY DEF Followed, Sessions, Told, RunSound
<1>3. Terminal \subseteq Statuses /\ "running" \in Statuses BY DEF Statuses
<1>4. SUFFICES /\ actor' \in [Run -> ActorRecs] /\ journal' \in [Run -> JournalRecs]
               /\ reserved' \subseteq Pass /\ task' \in Tasks
               /\ opened' \in BOOLEAN /\ left' \in LeftRecs
  <2>1. exec' = exec /\ stored' = stored
    BY DEF MakePass, PassSkipped, PassResumes, Claim, ClaimFails, Post, PostUnclear, PostRefused,
           Release, RecordStarted, RecordFails, Refresh, RefreshFails, Poll, Abort, TrackFails,
           ReadDataset, ReadFails, NoteFailure, MarkReady, NoteFails
  <2> QED BY <2>1 DEF TypeOK, Tasks, LeftRecs
<1>5. /\ actor \in [Run -> ActorRecs] /\ journal \in [Run -> JournalRecs]
      /\ reserved \subseteq Pass /\ task \in Tasks
      /\ opened \in BOOLEAN /\ left \in LeftRecs
  BY DEF TypeOK, Tasks, LeftRecs
<1>6. CASE PassSkipped(e, t)
  <2>1. [w EXCEPT !.pc = "end", !.done = TRUE] \in TaskRecs BY <1>1 DEF TaskRecs
  <2> QED BY <1>5, <1>6, <2>1, TaskWrite DEF PassSkipped
<1>7. CASE PassResumes(e, t)
  <2>1. w.todo # {} /\ w.todo \subseteq EntryRecs
        /\ \A k \in w.todo : Started(k.run) /\ k.run \in Run
    BY <1>1, <1>2, <1>7 DEF PassResumes, TaskRecs, TodoSound, EntryRecs
  <2>2. First(w.todo) \in EntryRecs
    BY <2>1, FirstIn DEF Told, RunSound
  <2>3. Resumed(w, First(w.todo)) \in TaskRecs BY <1>1, <2>2, ResumedType
  <2> QED BY <1>5, <1>7, <2>3, TaskWrite DEF PassResumes
<1>8. CASE Claim(e, t)
  <2>1. PassOf(e, t) \in Pass BY <1>1, <1>8 DEF Claim
  <2>2. CASE KnownOf(PassOf(e, t)) # {}
    <3>1. Oldest(KnownOf(PassOf(e, t))) \in Run
      BY <2>2, OldestIs, CollectionAssumption DEF KnownOf, Run, CollectionAssumption
    <3>2. Resumed(w, Entry(Oldest(KnownOf(PassOf(e, t))))) \in TaskRecs
      BY <1>1, <3>1, EntryType, ResumedType
    <3> QED BY <1>5, <1>8, <2>2, <3>2, TaskWrite DEF Claim
  <2>3. [w EXCEPT !.pc = "post"] \in TaskRecs BY <1>1 DEF TaskRecs
  <2>4. CASE KnownOf(PassOf(e, t)) = {} /\ PassOf(e, t) \in reserved
    BY <1>5, <1>8, <2>4, FailsType DEF Claim, Unclear
  <2>5. CASE KnownOf(PassOf(e, t)) = {} /\ PassOf(e, t) \notin reserved
    BY <1>5, <1>8, <2>1, <2>3, <2>5, TaskWrite DEF Claim
  <2> QED BY <2>2, <2>4, <2>5
<1>9. CASE ClaimFails(e, t) \/ RecordFails(e, t) \/ RefreshFails(e, t)
  BY <1>5, <1>9, FailsType, FaultType DEF ClaimFails, RecordFails, RefreshFails
<1>10. CASE Post(e, t)
  <2>1. PICK r \in Run, s \in Starts :
          /\ Accept(r, PassOf(e, t), s)
          /\ SetTask(e, t, [w EXCEPT !.pc = "record", !.run = r, !.msg = s = "fatal",
                                    !.status = IF s = "fatal" THEN "failed" ELSE s])
    BY <1>10 DEF Post
  <2>2. PassOf(e, t) \in Pass BY <1>1, <1>10 DEF Post, Makes
  <2>3. s \in Statuses \cup {"fatal"} /\ (IF s = "fatal" THEN "failed" ELSE s) \in Statuses
    BY CollectionAssumption DEF Statuses, Terminal, CollectionAssumption
  <2>4. actor' \in [Run -> ActorRecs] BY <2>1, <2>2, <2>3, AcceptType
  <2>5. r \in 0..MaxRuns BY CollectionAssumption DEF Run, CollectionAssumption
  <2>6. \A x \in Statuses, m \in BOOLEAN :
          [w EXCEPT !.pc = "record", !.run = r, !.msg = m, !.status = x] \in TaskRecs
    BY <1>1, <2>5 DEF TaskRecs
  <2> QED BY <1>5, <1>10, <2>1, <2>3, <2>4, <2>6, TaskWrite DEF Post
<1>11. CASE PostUnclear(e, t)
  <2>1. PassOf(e, t) \in Pass BY <1>1, <1>11 DEF PostUnclear, Makes
  <2>2. actor' \in [Run -> ActorRecs]
    BY <1>3, <1>5, <1>11, <2>1, AcceptType DEF PostUnclear
  <2> QED BY <1>5, <1>11, <2>2, FailsType, FaultType DEF PostUnclear, Unclear
<1>12. CASE PostRefused(e, t)
  <2>1. [w EXCEPT !.pc = "release"] \in TaskRecs BY <1>1 DEF TaskRecs
  <2> QED BY <1>5, <1>12, <2>1, TaskWrite, FaultType DEF PostRefused
<1>13. CASE Release(e, t)
  BY <1>5, <1>13, FailsType, FaultType DEF Release
<1>14. CASE RecordStarted(e, t)
  <2>1. w.run \in Run /\ w.status \in Statuses
    BY <1>1, <1>2, <1>14 DEF RecordStarted, Makes, FollowSound, RunPcs, TaskRecs
  <2>2. [state |-> "tracking", status |-> w.status, fatal |-> "unknown"] \in JournalRecs
    BY <2>1 DEF JournalRecs, States, Causes
  <2>3. [w EXCEPT !.pc = Follow(w.status)] \in TaskRecs BY <1>1 DEF TaskRecs, Follow
  <2> QED BY <1>5, <1>14, <2>1, <2>2, <2>3, TaskWrite DEF RecordStarted
<1>15. CASE Refresh(e, t) \/ Poll(e, t)
  <2>1. w.run \in Run /\ Started(w.run)
    BY <1>2, <1>15 DEF Refresh, Poll, Makes, FollowSound, RunPcs
  <2>2. Seen(w) \in TaskRecs BY <1>1, <2>1, SeenType
  <2> QED BY <1>5, <1>15, <2>2, TaskWrite DEF Refresh, Poll
<1>16. CASE Abort(e, t)
  <2>1. PICK taken \in BOOLEAN, answered \in BOOLEAN :
          /\ actor' = IF taken /\ actor[w.run].status = "running"
                      THEN [actor EXCEPT ![w.run].status = "aborted"] ELSE actor
          /\ SetTask(e, t, [w EXCEPT !.cancelled = TRUE,
                 !.status = IF answered /\ actor' # actor THEN "aborted" ELSE @,
                 !.pc = IF answered /\ actor' # actor THEN "read" ELSE @])
    BY <1>16 DEF Abort
  <2>2. actor' \in [Run -> ActorRecs]
    BY <1>3, <1>5, <2>1 DEF ActorRecs, Terminal
  <2>3. /\ [w EXCEPT !.cancelled = TRUE, !.status = "aborted", !.pc = "read"] \in TaskRecs
        /\ [w EXCEPT !.cancelled = TRUE, !.status = @, !.pc = @] \in TaskRecs
    BY <1>1, <1>3 DEF TaskRecs, Terminal
  <2> QED BY <1>5, <1>16, <2>1, <2>2, <2>3, TaskWrite DEF Abort
<1>17. CASE TrackFails(e, t)
  <2>1. \A error \in {"stop", "plain"} : [w EXCEPT !.pc = "note", !.error = error] \in TaskRecs
    BY <1>1 DEF TaskRecs
  <2>2. PICK error \in {"stop", "plain"} : SetTask(e, t, [w EXCEPT !.pc = "note", !.error = error])
    BY <1>17 DEF TrackFails
  <2> QED BY <1>5, <1>17, <2>1, <2>2, TaskWrite, FaultType DEF TrackFails
<1>18. CASE ReadDataset(e, t)
  <2>1. \A f \in Causes : [w EXCEPT !.pc = "mark", !.fatal = f] \in TaskRecs BY <1>1 DEF TaskRecs
  <2>2. PICK f \in Causes : SetTask(e, t, [w EXCEPT !.pc = "mark", !.fatal = f])
    <3>1. w.fatal \in Causes BY <1>1 DEF TaskRecs
    <3> QED BY <1>18, <3>1 DEF ReadDataset, Causes
  <2> QED BY <1>5, <1>18, <2>1, <2>2, TaskWrite DEF ReadDataset
<1>19. CASE ReadFails(e, t)
  <2>1. \A f \in Causes, error \in {"stop", "plain"} :
          [w EXCEPT !.pc = "note", !.error = error, !.fatal = f] \in TaskRecs
    BY <1>1 DEF TaskRecs
  <2>2. PICK f \in Causes, error \in {"stop", "plain"} :
          SetTask(e, t, [w EXCEPT !.pc = "note", !.error = error, !.fatal = f])
    <3>1. w.fatal \in Causes BY <1>1 DEF TaskRecs
    <3> QED BY <1>19, <3>1 DEF ReadFails, Causes
  <2> QED BY <1>5, <1>19, <2>1, <2>2, TaskWrite, FaultType DEF ReadFails
<1>20. CASE NoteFailure(e, t)
  <2>1. "recovery" \in States BY DEF States
  <2>2. w.error \in {"none", "plain", "stop"} BY <1>1 DEF TaskRecs
  <2> QED BY <1>5, <1>20, <2>1, <2>2, FailsType, NoteType DEF NoteFailure
<1>21. CASE MarkReady(e, t)
  <2>1. "ready" \in States BY DEF States
  <2>2. PICK error \in {"none", "plain", "stop"}, rest \in SUBSET w.todo, pass \in {w.pass, w.pass + 1},
             done \in BOOLEAN :
          SetTask(e, t, [w EXCEPT !.pc = "end", !.error = error, !.whole = TRUE, !.todo = rest,
                                  !.pass = pass, !.done = done])
    BY <1>21 DEF MarkReady
  <2>3. pass \in 1..(Passes + 1)
    BY <1>1, <1>21, PassIn, CollectionAssumption DEF MarkReady, Makes, CollectionAssumption
  <2>4. rest \in SUBSET EntryRecs BY <1>1, <2>2 DEF TaskRecs
  <2>5. [w EXCEPT !.pc = "end", !.error = error, !.whole = TRUE, !.todo = rest,
                  !.pass = pass, !.done = done] \in TaskRecs
    BY <1>1, <2>3, <2>4 DEF TaskRecs
  <2> QED BY <1>5, <1>21, <2>1, <2>2, <2>5, TaskWrite, NoteType DEF MarkReady
<1>22. CASE NoteFails(e, t)
  BY <1>5, <1>22, FailsType, FaultType DEF NoteFails
<1> QED
  BY <1>6, <1>7, <1>8, <1>9, <1>10, <1>11, <1>12, <1>13, <1>14, <1>15, <1>16, <1>17, <1>18,
     <1>19, <1>20, <1>21, <1>22
  DEF MakePass

\* the sessions of a launched cohort are of their type
LEMMA LaunchType ==
    ASSUME TypeOK, NEW e \in Executions, NEW S
    PROVE  Launch(e, S) \in [Titles -> TaskRecs]
<1>1. ASSUME NEW t \in Titles
      PROVE  [NoTask EXCEPT !.pc = "begin", !.todo = task[e][t].todo, !.pass = task[e][t].pass,
                            !.recovery = task[e][t].recovery, !.done = task[e][t].done] \in TaskRecs
  BY TaskInType DEF TaskRecs
<1> QED BY <1>1, TaskInType DEF Launch

\* a collection that gives up leaves the types
LEMMA QuitsType ==
    ASSUME TypeOK, NEW e \in Executions, Quits(e)
    PROVE  exec' \in [Executions -> ExecRecs] /\ task' \in Tasks
<1>1. IdleExec \in ExecRecs BY DEF IdleExec, ExecRecs
<1>2. [t \in Titles |-> NoTask] \in [Titles -> TaskRecs] BY TaskInType
<1> QED BY <1>1, <1>2 DEF Quits, TypeOK, Tasks

\* the runs a title has to recover are of their type
LEMMA PendingType ==
    ASSUME TypeOK, NEW t
    PROVE  Pending(t) \in SUBSET EntryRecs
BY EntryType DEF Pending

\* what a collection does in one step keeps the types
LEMMA CollectType ==
    ASSUME TypeOK, Followed, NEW e \in Executions, Collect(e)
    PROVE  TypeOK'
<1> DEFINE x == exec[e]
<1>1. /\ actor \in [Run -> ActorRecs] /\ journal \in [Run -> JournalRecs]
      /\ reserved \subseteq Pass /\ stored \subseteq Run
      /\ exec \in [Executions -> ExecRecs] /\ task \in Tasks
      /\ opened \in BOOLEAN /\ left \in LeftRecs
  BY DEF TypeOK, Tasks, LeftRecs
<1>2. x \in ExecRecs BY <1>1
<1>3. actor' = actor /\ reserved' = reserved
  BY DEF Collect, Plan, PlanFails, Planned, NextCohort, CohortEnds, CohortRaises, Reduce, Persist,
         PersistFails, Acknowledge, AcknowledgeFails
<1>4. SUFFICES /\ journal' \in [Run -> JournalRecs] /\ stored' \subseteq Run
               /\ exec' \in [Executions -> ExecRecs] /\ task' \in Tasks
               /\ opened' \in BOOLEAN /\ left' \in LeftRecs
  BY <1>1, <1>3 DEF TypeOK, Tasks, LeftRecs
<1>5. CASE Plan(e)
  <2>1. PICK todo \in {{}, Pending(Oldest(x.later))} :
          /\ exec' = [exec EXCEPT ![e].later = @ \ {Oldest(x.later)}]
          /\ SetTask(e, Oldest(x.later), [NoTask EXCEPT !.todo = todo, !.recovery = todo # {},
                                                       !.done = x.stop])
    BY <1>5 DEF Plan
  <2>2. Oldest(x.later) \in Titles
    BY <1>2, <1>5, OldestIs, CollectionAssumption DEF Plan, ExecRecs, CollectionAssumption
  <2>3. [NoTask EXCEPT !.todo = todo, !.recovery = todo # {}, !.done = x.stop] \in TaskRecs
    <3>1. todo \in SUBSET EntryRecs /\ x.stop \in BOOLEAN BY <1>2, PendingType DEF ExecRecs
    <3>2. PICK b \in BOOLEAN : b = (todo # {}) OBVIOUS
    <3>3. [NoTask EXCEPT !.todo = todo, !.recovery = b, !.done = x.stop] \in TaskRecs
      BY <3>1, TaskInType, <2>2 DEF TaskRecs
    <3> QED BY <3>2, <3>3
  <2>4. task' \in Tasks BY <2>1, <2>2, <2>3, TaskWrite
  <2>5. exec' \in [Executions -> ExecRecs] BY <1>1, <2>1 DEF ExecRecs
  <2> QED BY <1>1, <1>5, <2>4, <2>5 DEF Plan
<1>6. CASE PlanFails(e) \/ CohortRaises(e) \/ PersistFails(e) \/ AcknowledgeFails(e)
  BY <1>1, <1>6, QuitsType, FaultType DEF PlanFails, CohortRaises, PersistFails, AcknowledgeFails
<1>7. CASE Planned(e)
  <2>1. PICK l \in SUBSET Titles : exec' = [exec EXCEPT ![e].pc = "collect", ![e].later = l]
    BY <1>7 DEF Planned
  <2>2. exec' \in [Executions -> ExecRecs] BY ZenonT(30), <1>1, <2>1 DEF ExecRecs
  <2> QED BY <1>1, <1>7, <2>2 DEF Planned
<1>8. CASE NextCohort(e)
  <2>1. Cohort(e) \in SUBSET Titles BY <1>2 DEF Cohort, ExecRecs
  <2>2. exec' \in [Executions -> ExecRecs] BY ZenonT(30), <1>1, <1>8, <2>1 DEF NextCohort, ExecRecs
  <2>3. task' \in Tasks BY <1>1, <1>8, LaunchType DEF NextCohort, Tasks
  <2> QED BY <1>1, <1>8, <2>2, <2>3 DEF NextCohort
<1>9. CASE CohortEnds(e)
  <2>1. Complete(e) \subseteq Run
    BY <1>2 DEF Followed, FollowSound, ExecRecs, Complete
  <2>2. Fallback(e) \subseteq Titles BY <1>2 DEF ExecRecs, Fallback
  <2>3. exec' \in [Executions -> ExecRecs]
    <3>1. (x.fatal \/ Halts(e)) \in BOOLEAN OBVIOUS
    <3>2. [x EXCEPT !.fatal = @ \/ Halts(e), !.active = Fallback(e), !.done = @ \cup Complete(e)]
            \in ExecRecs
      BY <1>2, <2>1, <2>2, <3>1 DEF ExecRecs
    <3> QED BY <1>1, <1>9, <3>2 DEF CohortEnds
  <2>4. task' \in Tasks BY <1>1, <1>9, LaunchType DEF CohortEnds, Tasks
  <2> QED BY <1>1, <1>9, <2>3, <2>4 DEF CohortEnds
<1>10. CASE Reduce(e)
  BY <1>1, <1>10, QuitsType DEF Reduce, ExecRecs
<1>11. CASE Persist(e)
  BY <1>1, <1>2, <1>11 DEF Persist, ExecRecs
<1>12. CASE Acknowledge(e)
  <2>1. NoEntry \in JournalRecs BY DEF NoEntry, JournalRecs, States, Statuses, Causes
  <2> QED BY <1>1, <1>12, <2>1, QuitsType DEF Acknowledge
<1> QED BY <1>5, <1>6, <1>7, <1>8, <1>9, <1>10, <1>11, <1>12 DEF Collect

Beyond(e) == Begin(e) \/ RequestStop(e) \/ Crash(e)

\* a beginning, a Stop and a killed process leave the types
LEMMA BeyondType ==
    ASSUME TypeOK, NEW e \in Executions, Beyond(e)
    PROVE  TypeOK'
<1>1. CASE Begin(e)
  <2>1. [IdleExec EXCEPT !.pc = "plan", !.later = Titles, !.fresh = ~opened] \in ExecRecs
    BY DEF IdleExec, ExecRecs, TypeOK
  <2>2. left' \in LeftRecs BY <1>1, SpendType DEF Begin
  <2> QED BY <1>1, <2>1, <2>2 DEF TypeOK, Begin, LeftRecs
<1>2. CASE RequestStop(e)
  <2>1. left' \in LeftRecs BY <1>2, SpendType DEF RequestStop
  <2>2. exec' \in [Executions -> ExecRecs] BY ZenonT(30), <1>2 DEF TypeOK, RequestStop, ExecRecs
  <2> QED BY <1>2, <2>1, <2>2 DEF TypeOK, RequestStop, LeftRecs
<1>3. CASE Crash(e)
  <2>1. left' \in LeftRecs BY <1>3, SpendType DEF Crash
  <2> QED BY <1>3, <2>1, QuitsType DEF TypeOK, Crash, LeftRecs, Tasks
<1> QED BY <1>1, <1>2, <1>3 DEF Beyond

\* an Actor that ends leaves the types
LEMMA ActorType ==
    ASSUME TypeOK, NEW r \in Run, ActorEnds(r)
    PROVE  TypeOK'
<1>1. PICK s \in Ends : actor' = [actor EXCEPT ![r].status = s] BY DEF ActorEnds
<1>2. s \in Statuses \cup {"fatal"}
  BY CollectionAssumption DEF Statuses, Terminal, CollectionAssumption
<1>3. actor' \in [Run -> ActorRecs] BY <1>1, <1>2 DEF TypeOK, ActorRecs
<1> QED BY <1>3 DEF ActorEnds, TypeOK

-----------------------------------------------------------------------------
(* What stays true of the sessions, the runs and the journal.               *)

\* a run is accepted, or ends
Grows ==
    \A r \in Run :
        \/ actor'[r] = actor[r]
        \/ ~Started(r) /\ Started(r)' /\ actor'[r].pass \in Pass
        \/ actor[r].status = "running" /\ actor'[r].pass = actor[r].pass /\ Ended(r)'

\* what was said of a started run stays true
LEMMA GrowsTells ==
    ASSUME TypeOK, Grows, NEW r \in Run, Started(r)
    PROVE  /\ Started(r)' /\ actor'[r].pass = actor[r].pass
           /\ Ended(r) => actor'[r] = actor[r] /\ Ended(r)'
           /\ \A s, f : Tells(r, s, f) => Tells(r, s, f)' /\ (s \in Terminal => Ended(r))
           /\ RunSound(r) /\ journal'[r] = journal[r] => RunSound(r)'
<1>1. actor[r].status \in Statuses \cup {"fatal"} BY DEF TypeOK, ActorRecs
<1>2. /\ Started(r)' /\ actor'[r].pass = actor[r].pass
      /\ Ended(r) => actor'[r] = actor[r] /\ Ended(r)'
  BY DEF Grows, Started, Ended
<1>3. ASSUME NEW s, NEW f, Tells(r, s, f)
      PROVE  Tells(r, s, f)' /\ (s \in Terminal => Ended(r))
  <2>1. s \in Terminal => Ended(r)
    BY <1>3 DEF Tells, Ended, StatusOf, Terminal
  <2>2. f \in {"yes", "no"} => Ended(r)
    BY <1>3 DEF Tells, Ended, Terminal
  <2> QED BY <1>2, <1>3, <2>1, <2>2 DEF Tells, StatusOf
<1> QED BY <1>2, <1>3 DEF RunSound, Known

\* the runs a session has to recover stay as they were said to be
LEMMA GrowsTodo ==
    ASSUME TypeOK, Grows, NEW w \in TaskRecs, TodoSound(w)
    PROVE  TodoSound(w)'
<1>1. \A k \in w.todo : k.run \in Run BY DEF TaskRecs, EntryRecs
<1> QED BY <1>1, GrowsTells DEF TodoSound

\* what a thread knows of its run stays true, a Stop included
LEMMA GrowsFollow ==
    ASSUME TypeOK, Grows, NEW w \in TaskRecs, NEW a \in BOOLEAN, NEW b \in BOOLEAN, a => b,
           FollowSound(w, a)
    PROVE  FollowSound(w, b)'
<1>1. w.pc \in RunPcs => w.run \in Run /\ Started(w.run) /\ Tells(w.run, w.status, w.fatal)
  BY DEF FollowSound
<1>2. w.whole => w.run \in Run /\ Started(w.run) /\ Ended(w.run)
  BY DEF FollowSound, Ended, Started
<1>3. w.pc \in {"record", "read"} /\ w.status \in Terminal => actor'[w.run] = actor[w.run]
  BY <1>1, GrowsTells DEF RunPcs
<1>4. w.pc \in RunPcs => w.run \in Run /\ Started(w.run)' /\ Tells(w.run, w.status, w.fatal)'
  BY <1>1, GrowsTells
<1>5. w.whole => actor'[w.run] = actor[w.run] /\ Ended(w.run)' BY <1>2, GrowsTells
<1> QED BY <1>3, <1>4, <1>5 DEF FollowSound

\* the passes a thread may start or give back
Mine(e, t) == IF task[e][t].pc \in OwnPcs THEN {PassOf(e, t)} ELSE {}
Newly(r) == ~Started(r) /\ Started(r)'

\* a reservation stays owned while no other run of its pass is accepted
LEMMA OwnFrame ==
    ASSUME TypeOK, Grows, stored \subseteq stored', NEW w \in TaskRecs, NEW p, OwnSound(w, p),
           w.pc = "record" => w.run \in Run /\ Started(w.run),
           w.pc \in OwnPcs => p \in reserved' /\ \A r \in Run : Newly(r) => actor'[r].pass # p
    PROVE  OwnSound(w, p)'
<1>1. CASE w.pc \in OwnPcs
  <2>1. w.pc = "record" => actor'[w.run].pass = p BY <1>1, GrowsTells DEF OwnSound
  <2>2. ASSUME NEW r \in Run, Started(r)', actor'[r].pass = p
        PROVE  r \in stored' \/ (w.pc = "record" /\ r = w.run)
    <3>1. Started(r) BY <1>1, <2>2 DEF Newly
    <3>2. actor[r].pass = p BY <2>2, <3>1, GrowsTells
    <3> QED BY <1>1, <3>1, <3>2 DEF OwnSound
  <2> QED BY <1>1, <2>1, <2>2 DEF OwnSound
<1> QED BY <1>1 DEF OwnSound

\* one step of one pass
Local(e, t) ==
    /\ \A f \in Executions, u \in Titles : f # e \/ u # t => task'[f][u] = task[f][u]
    /\ exec' = exec /\ stored' = stored /\ Grows
    /\ reserved \ reserved' \subseteq Mine(e, t)
    /\ \A r \in Run : Newly(r) => actor'[r].pass \in Mine(e, t)
    /\ task'[e][t].pc \in OwnPcs =>
          /\ task'[e][t].pass = task[e][t].pass
          /\ task[e][t].pc \in OwnPcs \/ PassOf(e, t) \notin reserved
Sound(e, t) ==
    /\ TodoSound(task[e][t]) /\ FollowSound(task[e][t], exec[e].stop)
    /\ OwnSound(task[e][t], PassOf(e, t))
Holding == Sessions /\ Followed /\ Owned /\ OneOwner /\ Kept

\* what Kept says of one collection
KeptBy(x, all) ==
    /\ x.pc = "idle" => ~x.stop
    /\ x.pc = "ack" => x.done \subseteq all
    /\ \A r \in x.done : Ended(r)
    /\ (\E r \in x.done : actor[r].status = "fatal") => x.active = {} /\ (x.fatal \/ x.stop)

\* what a collection has read stays so
LEMMA KeptFrame ==
    ASSUME TypeOK, Grows, stored \subseteq stored', NEW x \in ExecRecs, KeptBy(x, stored)
    PROVE  KeptBy(x, stored)'
<1>1. x.done \subseteq Run BY DEF ExecRecs
<1>2. \A r \in x.done : Started(r) /\ Ended(r) BY DEF KeptBy, Started, Ended
<1>3. \A r \in x.done : actor'[r] = actor[r] /\ Ended(r)' BY <1>1, <1>2, GrowsTells
<1> QED BY <1>3 DEF KeptBy

\* a thread the step does not concern
LEMMA Bystander ==
    ASSUME IInv, TypeOK', Grows, stored \subseteq stored',
           NEW f \in Executions, NEW u \in Titles,
           task'[f][u] = task[f][u], exec[f].stop => exec'[f].stop,
           task[f][u].pc \in OwnPcs => PassOf(f, u) \in reserved',
           \A r \in Run : Newly(r) /\ task[f][u].pc \in OwnPcs => actor'[r].pass # PassOf(f, u)
    PROVE  Sound(f, u)'
<1>0. TypeOK /\ Sessions /\ Followed /\ Owned BY DEF IInv
<1>1. PICK w \in TaskRecs : w = task[f][u] BY <1>0 DEF TypeOK
<1>2. PICK p : p = PassOf(f, u) OBVIOUS
<1>3. PICK a \in BOOLEAN : a = exec[f].stop BY <1>0 DEF TypeOK, ExecRecs
<1>4. PICK b \in BOOLEAN : b = exec'[f].stop BY DEF TypeOK, ExecRecs
<1>5. TodoSound(w) /\ FollowSound(w, a) /\ OwnSound(w, p)
  BY <1>0, <1>1, <1>2, <1>3 DEF Sessions, Followed, Owned
<1>6. w.pc \in OwnPcs => p \in reserved' /\ \A r \in Run : Newly(r) => actor'[r].pass # p
  BY <1>1, <1>2
<1>7. w.pc = "record" => w.run \in Run /\ Started(w.run) BY <1>5 DEF FollowSound, RunPcs
<1>8. OwnSound(w, p)' BY <1>0, <1>5, <1>6, <1>7, OwnFrame
<1>9. a => b BY <1>3, <1>4
<1>10. TodoSound(w)' /\ FollowSound(w, b)' BY <1>0, <1>5, <1>9, GrowsTodo, GrowsFollow
<1>11. task'[f][u] = w /\ PassOf(f, u)' = p BY <1>1, <1>2 DEF PassOf
<1> QED BY <1>4, <1>8, <1>10, <1>11 DEF Sound

\* one step of one pass leaves the other threads in order
LEMMA LocalStep ==
    ASSUME IInv, TypeOK', NEW e \in Executions, NEW t \in Titles, Local(e, t), Sound(e, t)'
    PROVE  Holding'
<1>0. TypeOK /\ Owned /\ OneOwner /\ Kept BY DEF IInv
<1>1. ASSUME NEW f \in Executions, NEW u \in Titles
      PROVE  Sound(f, u)'
  <2>1. CASE f = e /\ u = t BY <2>1
  <2>2. CASE f # e \/ u # t
    <3>1. task[f][u].pc \in OwnPcs => PassOf(f, u) \in reserved /\ PassOf(f, u) \notin Mine(e, t)
      BY <1>0, <2>2 DEF OneOwner, Owned, OwnSound, Mine, PassOf
    <3> QED BY <2>2, <3>1, Bystander DEF Local
  <2> QED BY <2>1, <2>2
<1>2. OneOwner'
  <2>1. ASSUME NEW f \in Executions, f # e, task'[e][t].pc \in OwnPcs, task[f][t].pc \in OwnPcs
        PROVE  task'[e][t].pass # task[f][t].pass
    <3>1. task'[e][t].pass = task[e][t].pass BY <2>1 DEF Local
    <3>2. CASE task[e][t].pc \in OwnPcs BY <1>0, <2>1, <3>1, <3>2 DEF OneOwner
    <3>3. CASE PassOf(e, t) \notin reserved
      <4>1. PassOf(f, t) \in reserved BY <1>0, <2>1 DEF Owned, OwnSound
      <4> QED BY <3>1, <3>3, <4>1 DEF PassOf
    <3> QED BY <2>1, <3>2, <3>3 DEF Local
  <2>2. \A f \in Executions, u \in Titles : f # e \/ u # t => task'[f][u] = task[f][u]
    BY DEF Local
  <2> QED BY <1>0, <2>1, <2>2 DEF OneOwner
<1>3. ASSUME NEW f \in Executions PROVE KeptBy(exec[f], stored)'
  <2>1. PICK x \in ExecRecs : x = exec[f] /\ x = exec'[f] BY <1>0 DEF TypeOK, Local
  <2>2. Grows /\ stored \subseteq stored' BY DEF Local
  <2>3. KeptBy(x, stored) BY <1>0, <2>1 DEF Kept, KeptBy
  <2>4. KeptBy(x, stored)' BY <1>0, <2>2, <2>3, KeptFrame
  <2> QED BY <2>1, <2>4
<1>4. Kept' BY <1>3 DEF Kept, KeptBy
<1> QED BY <1>1, <1>2, <1>4 DEF Holding, Sound, Sessions, Followed, Owned

\* nothing new is paid, and nothing that was paid is dropped
Paid == NothingPaidIsForgotten /\ OneRunPerPass
Quiet ==
    /\ Grows /\ stored \subseteq stored' /\ reserved \subseteq reserved'
    /\ \A r \in Run : ~Newly(r) /\ (Known(r) => Known(r)' \/ r \in stored')

\* a step that starts no run keeps both promises about paid runs
LEMMA QuietPaid ==
    ASSUME IInv, Quiet
    PROVE  Paid'
<1>1. ASSUME NEW r \in Run, Started(r)'
      PROVE  Started(r) /\ actor'[r].pass = actor[r].pass
  <2>1. Started(r) BY <1>1 DEF Quiet, Newly
  <2> QED BY <2>1, GrowsTells DEF Quiet, IInv
<1>2. NothingPaidIsForgotten' BY <1>1 DEF IInv, Quiet, NothingPaidIsForgotten
<1>3. OneRunPerPass' BY <1>1 DEF IInv, Quiet, OneRunPerPass
<1> QED BY <1>2, <1>3 DEF Paid

\* an entry that is not rewritten stays true
LEMMA QuietTold ==
    ASSUME IInv, Grows, NEW r \in Run, journal'[r] = journal[r] \/ ~Known(r)'
    PROVE  RunSound(r)'
<1>1. TypeOK /\ RunSound(r) BY DEF IInv, Told
<1>2. CASE Started(r)
  <2>1. CASE journal'[r] = journal[r] BY <1>1, <1>2, <2>1, GrowsTells
  <2>2. CASE ~Known(r)' BY <1>1, <1>2, <2>2, GrowsTells DEF RunSound
  <2> QED BY <2>1, <2>2
<1>3. CASE ~Started(r)
  <2>1. ~Known(r)' BY <1>1, <1>3 DEF RunSound, Known
  <2>2. Started(r)' => actor'[r].pass \in Pass BY <1>3 DEF Grows, Started, Ended
  <2> QED BY <2>1, <2>2 DEF RunSound
<1> QED BY <1>2, <1>3

-----------------------------------------------------------------------------
(* The steps of a pass.                                                     *)

Idle == {"none", "begin", "end"}

\* a session stands at the pass it makes; its runs are still to be recovered
LEMMA TodoKeeps ==
    ASSUME NEW w \in TaskRecs, NEW v \in TaskRecs, TodoSound(w),
           v.todo = w.todo, v.recovery = w.recovery, v.pass = w.pass, w.done => v.done,
           v.pc \in Idle \/ ~w.done \/ w.pc \notin Idle
    PROVE  TodoSound(v)
<1>1. w.pass \in Nat /\ Passes \in Nat
  BY CollectionAssumption DEF TaskRecs, CollectionAssumption
<1>2. ~w.done \/ w.pc \notin Idle => w.pass <= Passes BY <1>1 DEF TodoSound, Idle
<1> QED BY <1>1, <1>2 DEF TodoSound, Idle

\* only what the thread has in hand changes
LEMMA TaskOnly ==
    ASSUME IInv, TypeOK', NEW e \in Executions, NEW t \in Titles,
           UNCHANGED <<actor, journal, reserved, stored, exec>>,
           NEW v \in TaskRecs, SetTask(e, t, v),
           TodoSound(v), FollowSound(v, exec[e].stop),
           v.pc \in OwnPcs => v.pc = "release" /\ task[e][t].pc = "post" /\ v.pass = task[e][t].pass
    PROVE  Holding' /\ Told' /\ Paid'
<1>0. TypeOK /\ OwnSound(task[e][t], PassOf(e, t)) BY DEF IInv, Owned
<1>1. /\ task'[e][t] = v
      /\ \A f \in Executions, u \in Titles : f # e \/ u # t => task'[f][u] = task[f][u]
  BY <1>0, TaskWrite
<1>2. Grows /\ \A r \in Run : ~Newly(r) BY DEF Grows, Newly, Started
<1>3. Local(e, t) BY <1>1, <1>2 DEF Local, OwnPcs
<1>4. OwnSound(v, PassOf(e, t))'
  <2>1. CASE v.pc = "release"
    <3>1. v.pc \in OwnPcs /\ v.pc # "record" BY <2>1 DEF OwnPcs
    <3>2. PassOf(e, t)' = PassOf(e, t) BY <1>1, <3>1 DEF PassOf
    <3>3. task[e][t].pc = "post" BY <3>1
    <3>4. PassOf(e, t) \in reserved /\ \A r \in Run : Started(r) /\ actor[r].pass = PassOf(e, t) => r \in stored
      BY <1>0, <3>3 DEF OwnSound, OwnPcs
    <3> QED BY <3>1, <3>2, <3>4 DEF OwnSound, Started
  <2>2. CASE v.pc # "release"
    <3>1. v.pc \notin OwnPcs BY <2>2
    <3>2. (v.pc \notin OwnPcs)' BY <3>1 DEF OwnPcs
    <3> QED BY <3>1 DEF OwnSound
  <2> QED BY <2>1, <2>2
<1>5. TodoSound(v)' /\ FollowSound(v, exec[e].stop)'
  BY DEF TodoSound, FollowSound, Started, Tells, StatusOf, Ended
<1>6. Sound(e, t)' BY <1>1, <1>4, <1>5 DEF Sound
<1>7. Holding' BY <1>3, <1>6, LocalStep
<1>8. Told' BY <1>2, QuietTold DEF Told
<1>9. Paid' BY <1>2, QuietPaid DEF Quiet, Known
<1> QED BY <1>7, <1>8, <1>9

\* what IInv says of the thread that moves
LEMMA InHand ==
    ASSUME IInv, NEW e \in Executions, NEW t \in Titles
    PROVE  /\ task[e][t] \in TaskRecs /\ exec[e].stop \in BOOLEAN
           /\ TodoSound(task[e][t]) /\ FollowSound(task[e][t], exec[e].stop)
           /\ OwnSound(task[e][t], PassOf(e, t))
           /\ task[e][t].whole => task[e][t].pc = "end"
<1>1. TypeOK /\ Sessions /\ Followed /\ Owned BY DEF IInv
<1> QED BY <1>1 DEF TypeOK, ExecRecs, Sessions, Followed, Owned, FollowSound

\* a pass that fails has no run in hand any more
LEMMA FailsKeeps ==
    ASSUME IInv, NEW e \in Executions, NEW t \in Titles, NEW error \in {"none", "plain", "stop"},
           task[e][t].pc # "end"
    PROVE  LET v == [task[e][t] EXCEPT !.pc = "end", !.error = error, !.done = TRUE]
           IN  v \in TaskRecs /\ TodoSound(v) /\ FollowSound(v, exec[e].stop) /\ v.pc \notin OwnPcs
<1> DEFINE w == task[e][t]
           v == [w EXCEPT !.pc = "end", !.error = error, !.done = TRUE]
<1>1. /\ w \in TaskRecs /\ TodoSound(w) /\ FollowSound(w, exec[e].stop) /\ ~w.whole
  BY InHand
<1>2. v \in TaskRecs BY <1>1 DEF TaskRecs
<1>3. /\ v.pc = "end" /\ v.done /\ v.todo = w.todo /\ v.recovery = w.recovery /\ v.pass = w.pass
      /\ v.cancelled = w.cancelled /\ v.whole = w.whole
  BY <1>1 DEF TaskRecs
<1>4. TodoSound(v) BY <1>1, <1>2, <1>3, TodoKeeps DEF Idle
<1>5. FollowSound(v, exec[e].stop)
  <2> HIDE DEF v
  <2> QED BY <1>1, <1>3 DEF FollowSound, RunPcs
<1> QED BY <1>2, <1>3, <1>4, <1>5 DEF OwnPcs

\* a pass that fails and changes nothing else
LEMMA FailsHolds ==
    ASSUME IInv, TypeOK', NEW e \in Executions, NEW t \in Titles,
           NEW error \in {"none", "plain", "stop"}, task[e][t].pc # "end", Fails(e, t, error),
           UNCHANGED <<actor, journal, reserved, stored, exec>>
    PROVE  Holding' /\ Told' /\ Paid'
<1>1. PICK v : v = [task[e][t] EXCEPT !.pc = "end", !.error = error, !.done = TRUE] OBVIOUS
<1>2. v \in TaskRecs /\ TodoSound(v) /\ FollowSound(v, exec[e].stop) /\ v.pc \notin OwnPcs
  BY <1>1, FailsKeeps
<1> QED BY <1>1, <1>2, TaskOnly DEF Fails

\* a pass that has nothing to do
LEMMA SkippedHolds ==
    ASSUME IInv, TypeOK', NEW e \in Executions, NEW t \in Titles, PassSkipped(e, t)
    PROVE  Holding' /\ Told' /\ Paid'
<1>1. PICK w \in TaskRecs : w = task[e][t] BY InHand
<1>2. PICK v : v = [w EXCEPT !.pc = "end", !.done = TRUE] OBVIOUS
<1>3. v \in TaskRecs /\ v.pc = "end" /\ v.done /\ v.todo = w.todo /\ v.recovery = w.recovery
      /\ v.pass = w.pass /\ v.cancelled = w.cancelled /\ v.whole = w.whole
  BY <1>2 DEF TaskRecs
<1>4. TodoSound(w) /\ FollowSound(w, exec[e].stop) /\ ~w.whole
  BY <1>1, InHand DEF PassSkipped, Makes
<1>5. TodoSound(v) BY <1>3, <1>4, TodoKeeps DEF Idle
<1>6. FollowSound(v, exec[e].stop) BY <1>3, <1>4 DEF FollowSound, RunPcs
<1>7. v.pc \notin OwnPcs BY <1>3 DEF OwnPcs
<1> QED BY <1>1, <1>2, <1>3, <1>5, <1>6, <1>7, TaskOnly DEF PassSkipped

\* a known run taken up again
LEMMA ResumedHolds ==
    ASSUME IInv, TypeOK', NEW e \in Executions, NEW t \in Titles,
           Makes(e, t, "begin"), ~task[e][t].done,
           NEW k \in EntryRecs, Started(k.run), Tells(k.run, k.status, k.fatal),
           SetTask(e, t, Resumed(task[e][t], k)),
           UNCHANGED <<actor, journal, reserved, stored, exec>>
    PROVE  Holding' /\ Told' /\ Paid'
<1>1. PICK w \in TaskRecs : w = task[e][t] BY InHand
<1>2. PICK v : v = Resumed(w, k) OBVIOUS
<1>3. v \in TaskRecs BY <1>2, ResumedType
<1>4. /\ v.todo = w.todo /\ v.recovery = w.recovery /\ v.pass = w.pass /\ v.done = w.done
      /\ v.cancelled = w.cancelled /\ v.whole = w.whole /\ v.msg = w.msg
      /\ v.run = k.run /\ v.status = k.status /\ v.fatal = k.fatal
      /\ v.pc \in {"refresh", "track", "read"}
      /\ v.pc = "read" => v.status \in Terminal /\ (v.status = "succeeded" \/ v.fatal # "unknown")
  BY <1>2 DEF Resumed, TaskRecs, Follow
<1>5. TodoSound(w) /\ FollowSound(w, exec[e].stop) /\ ~w.whole /\ w.pc = "begin" /\ ~w.done
  BY <1>1, InHand DEF Makes
<1>6. TodoSound(v) BY <1>3, <1>4, <1>5, TodoKeeps DEF Idle
<1>7. ~w.msg BY <1>5 DEF FollowSound
<1>8. k.run \in Run BY DEF EntryRecs
<1>9. v.status = "succeeded" /\ v.status \in Terminal => actor[v.run].status # "fatal"
  BY <1>4 DEF Tells, StatusOf
<1>10. FollowSound(v, exec[e].stop)
  BY <1>4, <1>5, <1>7, <1>8, <1>9 DEF FollowSound, RunPcs
<1>11. v.pc \notin OwnPcs BY <1>4 DEF OwnPcs
<1> QED BY <1>1, <1>2, <1>3, <1>6, <1>10, <1>11, TaskOnly

\* a recovery takes up the first of its runs
LEMMA ResumesHolds ==
    ASSUME IInv, TypeOK', NEW e \in Executions, NEW t \in Titles, PassResumes(e, t)
    PROVE  Holding' /\ Told' /\ Paid'
<1>1. PICK w \in TaskRecs : w = task[e][t] /\ TodoSound(w) BY InHand
<1>2. w.todo \subseteq EntryRecs /\ w.todo # {} BY <1>1 DEF TaskRecs, TodoSound, PassResumes
<1>3. \A k \in w.todo : k.run \in Run /\ Started(k.run) /\ Tells(k.run, k.status, k.fatal)
  BY <1>1, <1>2 DEF TodoSound, EntryRecs
<1>4. \A k \in w.todo : actor[k.run].pass \in Pass BY <1>3 DEF IInv, Told, RunSound
<1>5. First(w.todo) \in w.todo BY <1>2, <1>3, <1>4, FirstIn DEF IInv
<1> QED BY <1>1, <1>2, <1>3, <1>5, ResumedHolds DEF PassResumes

\* a start is resumed, refused or reserved
LEMMA ClaimHolds ==
    ASSUME IInv, TypeOK', NEW e \in Executions, NEW t \in Titles, Claim(e, t)
    PROVE  Holding' /\ Told' /\ Paid'
<1>1. PICK w \in TaskRecs : w = task[e][t] /\ w.pc = "begin" /\ ~w.done /\ ~w.whole
        /\ TodoSound(w) /\ FollowSound(w, exec[e].stop)
  BY InHand DEF Claim, Makes
<1>2. PICK p \in Pass : p = PassOf(e, t) BY <1>1, PassIn DEF IInv
<1>3. CASE KnownOf(p) # {}
  <2>1. Oldest(KnownOf(p)) \in KnownOf(p)
    BY <1>3, OldestIs, CollectionAssumption DEF KnownOf, Run, CollectionAssumption
  <2>2. PICK r \in Run : r = Oldest(KnownOf(p)) /\ Known(r) BY <2>1 DEF KnownOf
  <2>3. Entry(r) \in EntryRecs BY <2>2, EntryType DEF IInv
  <2>4. Entry(r).run = r /\ Entry(r).status = journal[r].status /\ Entry(r).fatal = journal[r].fatal
    BY DEF Entry
  <2>5. Started(r) /\ Tells(r, journal[r].status, journal[r].fatal)
    BY <2>2 DEF IInv, Told, RunSound
  <2> QED BY <1>1, <1>2, <1>3, <2>2, <2>3, <2>4, <2>5, ResumedHolds DEF Claim
<1>4. CASE KnownOf(p) = {} /\ p \in reserved
  BY <1>1, <1>2, <1>4, FailsHolds DEF Claim, Unclear
<1>5. CASE KnownOf(p) = {} /\ p \notin reserved
  <2>1. PICK v : v = [w EXCEPT !.pc = "post"] OBVIOUS
  <2>2. /\ v \in TaskRecs /\ v.pc = "post" /\ v.done = w.done /\ v.todo = w.todo
        /\ v.recovery = w.recovery /\ v.pass = w.pass /\ v.cancelled = w.cancelled
        /\ v.whole = w.whole /\ v.fatal = w.fatal
    BY <2>1 DEF TaskRecs
  <2>3. reserved' = reserved \cup {p} /\ SetTask(e, t, v) BY <1>1, <1>2, <1>5, <2>1 DEF Claim
  <2>4. UNCHANGED <<actor, journal, stored, exec>> BY DEF Claim
  <2>5. TodoSound(v) BY <1>1, <2>2, TodoKeeps DEF Idle
  <2>6. FollowSound(v, exec[e].stop) BY <1>1, <2>2 DEF FollowSound, RunPcs
  <2>7. \A r \in Run : Started(r) /\ actor[r].pass = p => r \in stored
    BY <1>5 DEF IInv, NothingPaidIsForgotten, KnownOf
  <2>8. /\ task'[e][t] = v
        /\ \A f \in Executions, u \in Titles : f # e \/ u # t => task'[f][u] = task[f][u]
    BY <2>2, <2>3, TaskWrite DEF IInv
  <2>9. Grows /\ \A r \in Run : ~Newly(r) BY <2>4 DEF Grows, Newly, Started
  <2>10. Local(e, t)
    BY <1>1, <1>2, <1>5, <2>2, <2>3, <2>4, <2>8, <2>9 DEF Local
  <2>11. PassOf(e, t)' = p BY <1>1, <1>2, <2>2, <2>8 DEF PassOf
  <2>12. OwnSound(v, p)'
    <3>1. v.pc # "record" BY <2>2
    <3>2. p \in reserved' /\ \A r \in Run : Started(r)' /\ actor'[r].pass = p => r \in stored'
      BY <2>3, <2>4, <2>7 DEF Started
    <3> QED BY <3>1, <3>2 DEF OwnSound
  <2>13. TodoSound(v)' /\ FollowSound(v, exec[e].stop)'
    BY <2>4, <2>5, <2>6 DEF TodoSound, FollowSound, Started, Tells, StatusOf, Ended
  <2>14. Holding' BY <2>8, <2>10, <2>11, <2>12, <2>13, LocalStep DEF Sound
  <2>15. Told' BY <2>4, <2>9, QuietTold DEF Told
  <2>16. Paid' BY <2>3, <2>4, <2>9, QuietPaid DEF Quiet, Known
  <2> QED BY <2>14, <2>15, <2>16
<1> QED BY <1>3, <1>4, <1>5

\* a run the provider accepts
LEMMA Accepted ==
    ASSUME TypeOK, NEW r \in Run, NEW p \in Pass, NEW s, s # "none", Accept(r, p, s)
    PROVE  /\ Grows /\ ~Started(r) /\ Started(r)'
           /\ actor'[r].pass = p /\ actor'[r].status = s
           /\ \A q \in Run : Newly(q) => q = r
           /\ \A q \in Run : q # r => actor'[q] = actor[q]
<1>1. actor' = [actor EXCEPT ![r] = [pass |-> p, status |-> s]] /\ ~Started(r)
  BY DEF Accept, IsNext
<1>2. actor'[r] = [pass |-> p, status |-> s] /\ \A q \in Run : q # r => actor'[q] = actor[q]
  BY <1>1 DEF TypeOK
<1>3. Started(r)' BY <1>2 DEF Started
<1> QED BY <1>1, <1>2, <1>3 DEF Grows, Newly, Started

\* the owner of a reservation may start its run: no other run of the pass is owed
LEMMA OwnerPaid ==
    ASSUME IInv, Grows, stored' = stored, journal' = journal, reserved' = reserved,
           NEW e \in Executions, NEW t \in Titles, task[e][t].pc = "post",
           NEW r \in Run,
           \A q \in Run : Newly(q) => q = r /\ actor'[q].pass = PassOf(e, t)
    PROVE  Paid'
<1>1. PICK p : p = PassOf(e, t) OBVIOUS
<1>2. OwnSound(task[e][t], p) BY <1>1, InHand
<1>3. p \in reserved /\ \A q \in Run : Started(q) /\ actor[q].pass = p => q \in stored
  BY <1>2 DEF OwnSound, OwnPcs
<1>4. ASSUME NEW q \in Run, Started(q)'
      PROVE  \/ Started(q) /\ actor'[q].pass = actor[q].pass
             \/ q = r /\ Newly(q) /\ actor'[q].pass = p
  <2>1. CASE Started(q) BY <2>1, GrowsTells DEF IInv
  <2>2. CASE ~Started(q) BY <1>1, <1>4, <2>2 DEF Newly
  <2> QED BY <2>1, <2>2
<1>5. NothingPaidIsForgotten'
  <2>1. \A q \in Run : Known(q)' = Known(q) BY DEF Known
  <2> QED BY <1>3, <1>4, <2>1 DEF IInv, NothingPaidIsForgotten
<1>6. ASSUME NEW a \in Run, NEW b \in Run, a # b, Started(a)', Started(b)',
             actor'[a].pass = actor'[b].pass
      PROVE  a \in stored' \/ b \in stored'
  <2>1. CASE Started(a) /\ Started(b) BY <1>4, <1>6, <2>1 DEF IInv, OneRunPerPass, Newly
  <2>2. CASE ~Started(a) BY <1>3, <1>4, <1>6, <2>2 DEF Newly
  <2>3. CASE ~Started(b) BY <1>3, <1>4, <1>6, <2>3 DEF Newly
  <2> QED BY <2>1, <2>2, <2>3
<1> QED BY <1>5, <1>6 DEF Paid, OneRunPerPass

\* an accepted run belongs to the thread that reserved its start
LEMMA PostHolds ==
    ASSUME IInv, TypeOK', NEW e \in Executions, NEW t \in Titles, Post(e, t)
    PROVE  Holding' /\ Told' /\ Paid'
<1>1. PICK w \in TaskRecs : w = task[e][t] /\ w.pc = "post" /\ ~w.whole
        /\ TodoSound(w) /\ FollowSound(w, exec[e].stop) /\ OwnSound(w, PassOf(e, t))
  BY InHand DEF Post, Makes
<1>2. PICK p \in Pass : p = PassOf(e, t) BY <1>1, PassIn DEF IInv
<1>3. PICK r \in Run, s \in Starts :
        /\ Accept(r, p, s)
        /\ SetTask(e, t, [w EXCEPT !.pc = "record", !.run = r, !.msg = s = "fatal",
                                  !.status = IF s = "fatal" THEN "failed" ELSE s])
  BY <1>1, <1>2 DEF Post
<1>4. UNCHANGED <<journal, reserved, stored, exec>> BY DEF Post
<1>5. s \in {"running", "succeeded", "failed", "fatal"}
  BY CollectionAssumption DEF CollectionAssumption
<1>6. /\ Grows /\ ~Started(r) /\ Started(r)' /\ actor'[r].pass = p /\ actor'[r].status = s
      /\ \A q \in Run : Newly(q) => q = r
      /\ \A q \in Run : q # r => actor'[q] = actor[q]
  BY <1>3, <1>5, Accepted DEF IInv
<1>7. PICK v : v = [w EXCEPT !.pc = "record", !.run = r, !.msg = s = "fatal",
                            !.status = IF s = "fatal" THEN "failed" ELSE s]
  OBVIOUS
<1>8. PICK x \in Statuses, m \in BOOLEAN :
        x = (IF s = "fatal" THEN "failed" ELSE s) /\ m = (s = "fatal")
  BY <1>5 DEF Statuses, Terminal
<1>9. v = [w EXCEPT !.pc = "record", !.run = r, !.msg = m, !.status = x] BY <1>7, <1>8
<1>10. r \in 0..MaxRuns BY CollectionAssumption DEF Run, CollectionAssumption
<1>11. /\ v \in TaskRecs /\ v.pc = "record" /\ v.run = r /\ v.msg = m /\ v.status = x
       /\ v.done = w.done /\ v.todo = w.todo /\ v.recovery = w.recovery /\ v.pass = w.pass
       /\ v.cancelled = w.cancelled /\ v.whole = w.whole /\ v.fatal = w.fatal
  BY <1>9, <1>10 DEF TaskRecs
<1>12. TodoSound(v) BY <1>1, <1>11, TodoKeeps DEF Idle
<1>13. TodoSound(v)' BY <1>6, <1>11, <1>12, GrowsTodo DEF IInv
<1>14. w.fatal = "unknown" BY <1>1 DEF FollowSound
<1>15. FollowSound(v, exec[e].stop)'
  <2>1. Tells(r, x, "unknown")' BY <1>6, <1>8 DEF Tells, StatusOf
  <2>2. m <=> actor'[r].status = "fatal" BY <1>6, <1>8
  <2>3. x \notin Terminal => ~m BY <1>8 DEF Terminal
  <2>4. w.cancelled => exec'[e].stop BY <1>1, <1>4 DEF FollowSound
  <2> QED BY <1>1, <1>6, <1>11, <1>14, <2>1, <2>2, <2>3, <2>4 DEF FollowSound, RunPcs
<1>16. /\ task'[e][t] = v
       /\ \A f \in Executions, u \in Titles : f # e \/ u # t => task'[f][u] = task[f][u]
  BY <1>3, <1>7, <1>11, TaskWrite DEF IInv
<1>17. PassOf(e, t)' = p BY <1>1, <1>2, <1>11, <1>16 DEF PassOf
<1>18. OwnSound(v, p)'
  <2>1. p \in reserved' /\ \A q \in Run : Started(q) /\ actor[q].pass = p => q \in stored
    BY <1>1, <1>2, <1>4 DEF OwnSound, OwnPcs
  <2>2. \A q \in Run : Started(q)' /\ actor'[q].pass = p => q \in stored' \/ q = r
    BY <1>4, <1>6, <2>1 DEF Newly, Started
  <2> QED BY <1>6, <1>11, <2>1, <2>2 DEF OwnSound
<1>19. Mine(e, t) = {p} BY <1>1, <1>2 DEF Mine, OwnPcs
<1>20. Local(e, t)
  BY <1>1, <1>4, <1>6, <1>11, <1>16, <1>19 DEF Local, OwnPcs
<1>21. Holding' BY <1>13, <1>15, <1>16, <1>17, <1>18, <1>20, LocalStep DEF Sound
<1>22. Told' BY <1>4, <1>6, QuietTold DEF Told
<1>23. Paid' BY <1>1, <1>2, <1>4, <1>6, OwnerPaid
<1> QED BY <1>21, <1>22, <1>23

\* an unanswered POST leaves its reservation
LEMMA UnclearHolds ==
    ASSUME IInv, TypeOK', NEW e \in Executions, NEW t \in Titles, PostUnclear(e, t)
    PROVE  Holding' /\ Told' /\ Paid'
<1>1. PICK w \in TaskRecs : w = task[e][t] /\ w.pc = "post" BY InHand DEF PostUnclear, Makes
<1>2. PICK p \in Pass : p = PassOf(e, t) BY <1>1, PassIn DEF IInv
<1>3. UNCHANGED <<journal, reserved, stored, exec>> /\ Fails(e, t, Unclear(e))
  BY DEF PostUnclear
<1>4. PICK error \in {"plain", "stop"} : error = Unclear(e) BY DEF Unclear
<1>5. CASE actor' = actor BY <1>1, <1>3, <1>4, <1>5, FailsHolds
<1>6. CASE \E r \in Run : Accept(r, p, "running")
  <2>1. PICK r \in Run : Accept(r, p, "running") BY <1>6
  <2>2. /\ Grows /\ actor'[r].pass = p /\ \A q \in Run : Newly(q) => q = r
    BY <2>1, Accepted DEF IInv
  <2>3. PICK v : v = [w EXCEPT !.pc = "end", !.error = error, !.done = TRUE] OBVIOUS
  <2>4. v \in TaskRecs /\ TodoSound(v) /\ FollowSound(v, exec[e].stop) /\ v.pc \notin OwnPcs
    BY <1>1, <2>3, FailsKeeps
  <2>5. /\ task'[e][t] = v
        /\ \A f \in Executions, u \in Titles : f # e \/ u # t => task'[f][u] = task[f][u]
    BY <1>1, <1>3, <1>4, <2>3, <2>4, TaskWrite DEF IInv, Fails
  <2>6. PICK a \in BOOLEAN : a = exec[e].stop BY InHand
  <2>7. TodoSound(v)' /\ FollowSound(v, a)'
    BY <2>2, <2>4, <2>6, GrowsTodo, GrowsFollow DEF IInv
  <2>8. OwnSound(v, PassOf(e, t))' BY <2>4, <2>5 DEF OwnSound
  <2>9. Mine(e, t) = {p} BY <1>1, <1>2 DEF Mine, OwnPcs
  <2>10. Local(e, t) BY <1>3, <2>2, <2>4, <2>5, <2>9 DEF Local
  <2>11. Holding' BY <1>3, <2>5, <2>6, <2>7, <2>8, <2>10, LocalStep DEF Sound
  <2>12. Told' BY <1>3, <2>2, QuietTold DEF Told
  <2>13. Paid' BY <1>1, <1>2, <1>3, <2>2, OwnerPaid
  <2> QED BY <2>11, <2>12, <2>13
<1> QED BY <1>2, <1>5, <1>6 DEF PostUnclear

\* a refused POST is still the owner of its reservation
LEMMA RefusedHolds ==
    ASSUME IInv, TypeOK', NEW e \in Executions, NEW t \in Titles, PostRefused(e, t)
    PROVE  Holding' /\ Told' /\ Paid'
<1>1. PICK w \in TaskRecs : w = task[e][t] /\ w.pc = "post" /\ ~w.whole
        /\ TodoSound(w) /\ FollowSound(w, exec[e].stop)
  BY InHand DEF PostRefused, Makes
<1>2. PICK v : v = [w EXCEPT !.pc = "release"] OBVIOUS
<1>3. /\ v \in TaskRecs /\ v.pc = "release" /\ v.done = w.done /\ v.todo = w.todo
      /\ v.recovery = w.recovery /\ v.pass = w.pass /\ v.cancelled = w.cancelled
      /\ v.whole = w.whole
  BY <1>2 DEF TaskRecs
<1>4. TodoSound(v) BY <1>1, <1>3, TodoKeeps DEF Idle
<1>5. FollowSound(v, exec[e].stop) BY <1>1, <1>3 DEF FollowSound, RunPcs
<1> QED BY <1>1, <1>2, <1>3, <1>4, <1>5, TaskOnly DEF PostRefused

\* a reservation is given back once every run of its pass is stored or known
LEMMA GivenBack ==
    ASSUME IInv, UNCHANGED <<actor, stored>>, NEW p, reserved' = reserved \ {p},
           \A r \in Run : Known(r) => Known(r)',
           \A r \in Run : Started(r) /\ actor[r].pass = p => r \in stored \/ Known(r)'
    PROVE  Paid'
<1>1. NothingPaidIsForgotten' BY DEF IInv, NothingPaidIsForgotten, Started
<1>2. OneRunPerPass' BY DEF IInv, OneRunPerPass, Started
<1> QED BY <1>1, <1>2 DEF Paid

\* a refused start gives its reservation back
LEMMA ReleaseHolds ==
    ASSUME IInv, TypeOK', NEW e \in Executions, NEW t \in Titles, Release(e, t)
    PROVE  Holding' /\ Told' /\ Paid'
<1>1. PICK w \in TaskRecs : w = task[e][t] /\ w.pc = "release" /\ OwnSound(w, PassOf(e, t))
  BY InHand DEF Release, Makes
<1>2. PICK p : p = PassOf(e, t) OBVIOUS
<1>3. UNCHANGED <<actor, journal, stored, exec>> /\ Fails(e, t, "stop") BY DEF Release
<1>4. CASE reserved' = reserved BY <1>1, <1>3, <1>4, FailsHolds
<1>5. CASE reserved' = reserved \ {p}
  <2>1. PICK v : v = [w EXCEPT !.pc = "end", !.error = "stop", !.done = TRUE] OBVIOUS
  <2>2. v \in TaskRecs /\ TodoSound(v) /\ FollowSound(v, exec[e].stop) /\ v.pc \notin OwnPcs
    BY <1>1, <2>1, FailsKeeps
  <2>3. /\ task'[e][t] = v
        /\ \A f \in Executions, u \in Titles : f # e \/ u # t => task'[f][u] = task[f][u]
    BY <1>1, <1>3, <2>1, <2>2, TaskWrite DEF IInv, Fails
  <2>4. Grows /\ \A r \in Run : ~Newly(r) BY <1>3 DEF Grows, Newly, Started
  <2>5. TodoSound(v)' /\ FollowSound(v, exec[e].stop)'
    BY <1>3, <2>2 DEF TodoSound, FollowSound, Started, Tells, StatusOf, Ended
  <2>6. OwnSound(v, PassOf(e, t))' BY <2>2, <2>3 DEF OwnSound
  <2>7. Mine(e, t) = {p} BY <1>1, <1>2 DEF Mine, OwnPcs
  <2>8. Local(e, t) BY <1>3, <1>5, <2>2, <2>3, <2>4, <2>7 DEF Local
  <2>9. Holding' BY <2>3, <2>5, <2>6, <2>8, LocalStep DEF Sound
  <2>10. Told' BY <1>3, <2>4, QuietTold DEF Told
  <2>11. \A r \in Run : Started(r) /\ actor[r].pass = p => r \in stored
    BY <1>1, <1>2 DEF OwnSound, OwnPcs
  <2>12. Paid' BY <1>3, <1>5, <2>11, GivenBack DEF Known
  <2> QED BY <2>9, <2>10, <2>12
<1> QED BY <1>2, <1>4, <1>5 DEF Release

\* a step of a thread that writes the journal: what it says of one run is true
LEMMA JournalHolds ==
    ASSUME IInv, TypeOK', NEW e \in Executions, NEW t \in Titles,
           UNCHANGED <<actor, stored, exec>>, NEW v \in TaskRecs, SetTask(e, t, v),
           TodoSound(v), FollowSound(v, exec[e].stop), v.pc \notin OwnPcs,
           NEW r \in Run, NEW j \in JournalRecs, journal' = [journal EXCEPT ![r] = j],
           j.state # "none", Started(r), Tells(r, j.status, j.fatal),
           reserved' = reserved \/ reserved' = reserved \ Mine(e, t)
    PROVE  /\ Holding' /\ Told'
           /\ \A q \in Run : Known(q)' <=> Known(q) \/ q = r
<1>1. /\ task'[e][t] = v
      /\ \A f \in Executions, u \in Titles : f # e \/ u # t => task'[f][u] = task[f][u]
  BY TaskWrite DEF IInv
<1>2. Grows /\ \A q \in Run : ~Newly(q) BY DEF Grows, Newly, Started
<1>3. TodoSound(v)' /\ FollowSound(v, exec[e].stop)'
  BY DEF TodoSound, FollowSound, Started, Tells, StatusOf, Ended
<1>4. OwnSound(v, PassOf(e, t))' BY DEF OwnSound
<1>5. Local(e, t) BY <1>1, <1>2 DEF Local
<1>6. Holding' BY <1>1, <1>3, <1>4, <1>5, LocalStep DEF Sound
<1>7. /\ journal'[r] = j /\ \A q \in Run : q # r => journal'[q] = journal[q]
  BY DEF IInv, TypeOK
<1>8. Told'
  <2>1. RunSound(r)'
    <3>1. actor[r].pass \in Pass BY DEF IInv, Told, RunSound
    <3> QED BY <1>7, <3>1 DEF RunSound, Started, Tells, StatusOf
  <2>2. \A q \in Run : q # r => RunSound(q)' BY <1>2, <1>7, QuietTold
  <2> QED BY <2>1, <2>2 DEF Told
<1> QED BY <1>6, <1>7, <1>8 DEF Known

\* the run replaces the reservation
LEMMA RecordHolds ==
    ASSUME IInv, TypeOK', NEW e \in Executions, NEW t \in Titles, RecordStarted(e, t)
    PROVE  Holding' /\ Told' /\ Paid'
<1>1. PICK w \in TaskRecs : w = task[e][t] /\ w.pc = "record" /\ ~w.whole
        /\ TodoSound(w) /\ FollowSound(w, exec[e].stop) /\ OwnSound(w, PassOf(e, t))
  BY InHand DEF RecordStarted, Makes
<1>2. PICK p : p = PassOf(e, t) OBVIOUS
<1>3. PICK v : v = [w EXCEPT !.pc = Follow(w.status)] OBVIOUS
<1>4. /\ v \in TaskRecs /\ v.pc = Follow(w.status) /\ v.done = w.done /\ v.todo = w.todo
      /\ v.recovery = w.recovery /\ v.pass = w.pass /\ v.cancelled = w.cancelled
      /\ v.whole = w.whole /\ v.run = w.run /\ v.status = w.status /\ v.fatal = w.fatal
      /\ v.msg = w.msg
  BY <1>3 DEF TaskRecs, Follow
<1>5. TodoSound(v) BY <1>1, <1>4, TodoKeeps DEF Idle
<1>6. FollowSound(v, exec[e].stop) BY <1>1, <1>4 DEF FollowSound, RunPcs, Follow
<1>7. v.pc \notin OwnPcs BY <1>4 DEF OwnPcs, Follow
<1>8. w.run \in Run /\ Started(w.run) /\ Tells(w.run, w.status, w.fatal)
  BY <1>1 DEF FollowSound, RunPcs
<1>9. PICK j : j = [state |-> "tracking", status |-> w.status, fatal |-> "unknown"] OBVIOUS
<1>10. j \in JournalRecs /\ j.state = "tracking" /\ j.status = w.status /\ j.fatal = "unknown"
  BY <1>9 DEF JournalRecs, States, TaskRecs, Causes
<1>11. Tells(w.run, j.status, j.fatal) BY <1>8, <1>10 DEF Tells
<1>12. /\ UNCHANGED <<actor, stored, exec>> /\ SetTask(e, t, v)
       /\ journal' = [journal EXCEPT ![w.run] = j] /\ reserved' = reserved \ {p}
  BY <1>1, <1>2, <1>3, <1>9 DEF RecordStarted
<1>13. Mine(e, t) = {p} BY <1>1, <1>2 DEF Mine, OwnPcs
<1>14. /\ Holding' /\ Told' /\ \A q \in Run : Known(q)' <=> Known(q) \/ q = w.run
  BY <1>4, <1>5, <1>6, <1>7, <1>8, <1>10, <1>11, <1>12, <1>13, JournalHolds
<1>15. \A q \in Run : Started(q) /\ actor[q].pass = p => q \in stored \/ q = w.run
  BY <1>1, <1>2 DEF OwnSound, OwnPcs
<1>16. Paid' BY <1>12, <1>14, <1>15, GivenBack
<1> QED BY <1>14, <1>16

\* an answer of the provider is believed
LEMMA SeenHolds ==
    ASSUME IInv, TypeOK', NEW e \in Executions, NEW t \in Titles, Refresh(e, t) \/ Poll(e, t)
    PROVE  Holding' /\ Told' /\ Paid'
<1>1. PICK w \in TaskRecs : w = task[e][t] /\ w.pc \in {"refresh", "track"} /\ ~w.whole
        /\ TodoSound(w) /\ FollowSound(w, exec[e].stop)
  BY InHand DEF Refresh, Poll, Makes
<1>2. PICK v : v = Seen(w) OBVIOUS
<1>3. w.run \in Run /\ Started(w.run) /\ Tells(w.run, w.status, w.fatal)
  BY <1>1 DEF FollowSound, RunPcs
<1>4. v \in TaskRecs BY <1>2, <1>3, SeenType DEF IInv
<1>5. /\ v.pc = Follow(v.status) /\ v.done = w.done /\ v.todo = w.todo
      /\ v.recovery = w.recovery /\ v.pass = w.pass /\ v.cancelled = w.cancelled
      /\ v.whole = w.whole /\ v.run = w.run /\ v.status = StatusOf(w.run) /\ v.fatal = w.fatal
      /\ v.msg = (actor[w.run].status = "fatal")
  BY <1>2 DEF TaskRecs, Follow, Seen
<1>6. TodoSound(v) BY <1>1, <1>4, <1>5, TodoKeeps DEF Idle
<1>7. Tells(w.run, v.status, w.fatal) BY <1>3, <1>5 DEF Tells
<1>8. v.status \notin Terminal => ~v.msg BY <1>5 DEF StatusOf, Terminal
<1>9. FollowSound(v, exec[e].stop)
  BY <1>1, <1>3, <1>5, <1>7, <1>8 DEF FollowSound, RunPcs, Follow
<1>10. v.pc \notin OwnPcs BY <1>5 DEF OwnPcs, Follow
<1> QED BY <1>1, <1>2, <1>4, <1>6, <1>9, <1>10, TaskOnly DEF Refresh, Poll

\* an abort ends the run, answered or not
LEMMA AbortHolds ==
    ASSUME IInv, TypeOK', NEW e \in Executions, NEW t \in Titles, Abort(e, t)
    PROVE  Holding' /\ Told' /\ Paid'
<1>1. PICK w \in TaskRecs : w = task[e][t] /\ w.pc = "track" /\ ~w.whole
        /\ TodoSound(w) /\ FollowSound(w, exec[e].stop)
  BY InHand DEF Abort, Makes
<1>2. PICK taken \in BOOLEAN, answered \in BOOLEAN :
        /\ actor' = IF taken /\ actor[w.run].status = "running"
                    THEN [actor EXCEPT ![w.run].status = "aborted"] ELSE actor
        /\ SetTask(e, t, [w EXCEPT !.cancelled = TRUE,
               !.status = IF answered /\ actor' # actor THEN "aborted" ELSE @,
               !.pc = IF answered /\ actor' # actor THEN "read" ELSE @])
  BY <1>1 DEF Abort
<1>3. w.run \in Run /\ Started(w.run) /\ Tells(w.run, w.status, w.fatal)
  BY <1>1 DEF FollowSound, RunPcs
<1>4. UNCHANGED <<journal, reserved, stored, exec>> /\ exec[e].stop BY DEF Abort
<1>5. actor \in [Run -> ActorRecs] BY DEF IInv, TypeOK
<1>6. /\ \A q \in Run : q # w.run => actor'[q] = actor[q]
      /\ actor'[w.run].pass = actor[w.run].pass
      /\ \/ actor' = actor
         \/ actor[w.run].status = "running" /\ actor'[w.run].status = "aborted"
  BY <1>2, <1>3, <1>5 DEF ActorRecs
<1>7. Grows BY <1>3, <1>6 DEF Grows, Ended
<1>8. \A q \in Run : ~Newly(q) BY <1>3, <1>6 DEF Newly, Started
<1>9. PICK v : /\ v = [w EXCEPT !.cancelled = TRUE,
                         !.status = IF answered /\ actor' # actor THEN "aborted" ELSE @,
                         !.pc = IF answered /\ actor' # actor THEN "read" ELSE @]
  OBVIOUS
<1>10. SetTask(e, t, v) BY <1>2, <1>9
<1>11. /\ v.cancelled /\ v.done = w.done /\ v.todo = w.todo /\ v.recovery = w.recovery
       /\ v.pass = w.pass /\ v.whole = w.whole /\ v.run = w.run /\ v.fatal = w.fatal
       /\ v.msg = w.msg
       /\ \/ v.status = w.status /\ v.pc = "track"
          \/ v.status = "aborted" /\ v.pc = "read" /\ actor' # actor
  BY <1>1, <1>9 DEF TaskRecs
<1>12. v \in TaskRecs
  <2>1. v = [w EXCEPT !.cancelled = TRUE, !.status = v.status, !.pc = v.pc]
    BY <1>1, <1>9, <1>11 DEF TaskRecs
  <2>2. v.status \in Statuses /\ v.pc \in {"track", "read"}
    BY <1>11 DEF Statuses, Terminal, TaskRecs
  <2>3. PICK x \in Statuses, c \in {"track", "read"} : x = v.status /\ c = v.pc BY <2>2
  <2>4. v = [w EXCEPT !.cancelled = TRUE, !.status = x, !.pc = c] BY <2>1, <2>3
  <2> QED BY <2>4 DEF TaskRecs
<1>13. TodoSound(v) BY <1>1, <1>11, <1>12, TodoKeeps DEF Idle
<1>14. TodoSound(v)' BY <1>7, <1>12, <1>13, GrowsTodo DEF IInv
<1>15. ~w.msg BY <1>1 DEF FollowSound
<1>16. FollowSound(v, exec[e].stop)'
  <2>1. CASE v.status = w.status /\ v.pc = "track"
    <3>1. Started(w.run)' /\ Tells(w.run, w.status, w.fatal)' BY <1>3, <1>7, GrowsTells DEF IInv
    <3> QED BY <1>1, <1>3, <1>4, <1>11, <1>15, <2>1, <3>1 DEF FollowSound, RunPcs
  <2>2. CASE v.status = "aborted" /\ v.pc = "read" /\ actor' # actor
    <3>1. actor[w.run].status = "running" /\ actor'[w.run].status = "aborted" BY <1>6, <2>2
    <3>2. w.fatal \in Causes BY DEF TaskRecs
    <3>3. w.fatal = "unknown" BY <1>3, <3>1, <3>2 DEF Tells, Causes, Terminal
    <3>4. Started(w.run)' /\ Tells(w.run, "aborted", w.fatal)'
      BY <3>1, <3>3 DEF Tells, StatusOf, Started
    <3> QED BY <1>1, <1>3, <1>4, <1>11, <1>15, <2>2, <3>1, <3>4 DEF FollowSound, RunPcs, Terminal
  <2> QED BY <1>11, <2>1, <2>2
<1>17. v.pc \notin OwnPcs BY <1>11 DEF OwnPcs
<1>18. /\ task'[e][t] = v
       /\ \A f \in Executions, u \in Titles : f # e \/ u # t => task'[f][u] = task[f][u]
  BY <1>10, <1>12, TaskWrite DEF IInv
<1>19. OwnSound(v, PassOf(e, t))' BY <1>17, <1>18 DEF OwnSound
<1>20. Local(e, t) BY <1>4, <1>7, <1>8, <1>17, <1>18 DEF Local
<1>21. Holding' BY <1>14, <1>16, <1>18, <1>19, <1>20, LocalStep DEF Sound
<1>22. Told' BY <1>4, <1>7, QuietTold DEF Told
<1>23. Paid' BY <1>4, <1>7, <1>8, QuietPaid DEF Quiet, Known
<1> QED BY <1>21, <1>22, <1>23

\* the run in hand stays, what is known of it grows
LEMMA ReadingHolds ==
    ASSUME IInv, TypeOK', NEW e \in Executions, NEW t \in Titles,
           UNCHANGED <<actor, journal, reserved, stored, exec>>,
           NEW w \in TaskRecs, w = task[e][t], w.pc \in {"track", "read"},
           NEW v \in TaskRecs, SetTask(e, t, v), v.pc \in {"mark", "note"},
           v.done = w.done, v.todo = w.todo, v.recovery = w.recovery, v.pass = w.pass,
           v.whole = w.whole, v.cancelled = w.cancelled, v.run = w.run, v.status = w.status,
           \/ v.pc = "note" /\ v.fatal = w.fatal
           \/ w.pc = "read" /\ v.fatal = IF w.fatal # "unknown" THEN w.fatal
                                         ELSE IF w.msg THEN "yes" ELSE "no"
    PROVE  Holding' /\ Told' /\ Paid'
<1>1. TodoSound(w) /\ FollowSound(w, exec[e].stop) /\ ~w.whole BY InHand
<1>2. w.run \in Run /\ Started(w.run) /\ Tells(w.run, w.status, w.fatal)
  BY <1>1 DEF FollowSound, RunPcs
<1>3. TodoSound(v) BY <1>1, TodoKeeps DEF Idle
<1>4. v.pc # "note" \/ v.fatal # w.fatal => w.pc = "read" /\ w.status \in Terminal /\ v.fatal # "unknown"
  BY <1>1 DEF FollowSound
<1>5. Tells(w.run, v.status, v.fatal)
  <2>1. CASE v.fatal = w.fatal BY <1>2, <2>1
  <2>2. CASE v.fatal # w.fatal
    <3>1. w.status \in Terminal /\ (w.msg <=> actor[w.run].status = "fatal")
      BY <1>1, <1>4, <2>2 DEF FollowSound
    <3>2. w.status = StatusOf(w.run) BY <1>2, <3>1 DEF Tells
    <3> QED BY <1>2, <1>4, <2>2, <3>1, <3>2 DEF Tells, StatusOf, Terminal
  <2> QED BY <2>1, <2>2
<1>6. FollowSound(v, exec[e].stop) BY <1>1, <1>2, <1>4, <1>5 DEF FollowSound, RunPcs
<1>7. v.pc \notin OwnPcs BY DEF OwnPcs
<1> QED BY <1>3, <1>6, <1>7, TaskOnly

\* a reading that succeeds or fails keeps the cause of the failure
LEMMA ReadingsHold ==
    ASSUME IInv, TypeOK', NEW e \in Executions, NEW t \in Titles,
           TrackFails(e, t) \/ ReadDataset(e, t) \/ ReadFails(e, t)
    PROVE  Holding' /\ Told' /\ Paid'
<1>1. PICK w \in TaskRecs : w = task[e][t] BY InHand
<1>2. PICK c \in Causes : c = IF w.fatal # "unknown" THEN w.fatal
                              ELSE IF w.msg THEN "yes" ELSE "no"
  BY DEF TaskRecs, Causes
<1>3. CASE TrackFails(e, t)
  <2>1. PICK error \in {"plain", "stop"} : SetTask(e, t, [w EXCEPT !.pc = "note", !.error = error])
    BY <1>1, <1>3 DEF TrackFails
  <2>2. PICK v : v = [w EXCEPT !.pc = "note", !.error = error] OBVIOUS
  <2>3. /\ v \in TaskRecs /\ v.pc = "note" /\ v.done = w.done /\ v.todo = w.todo
        /\ v.recovery = w.recovery /\ v.pass = w.pass /\ v.whole = w.whole /\ v.fatal = w.fatal
        /\ v.cancelled = w.cancelled /\ v.run = w.run /\ v.status = w.status
    BY <2>2 DEF TaskRecs
  <2> QED BY <1>1, <1>3, <2>1, <2>2, <2>3, ReadingHolds DEF TrackFails, Makes
<1>4. CASE ReadDataset(e, t)
  <2>1. PICK v : v = [w EXCEPT !.pc = "mark", !.fatal = c] OBVIOUS
  <2>2. /\ v \in TaskRecs /\ v.pc = "mark" /\ v.done = w.done /\ v.todo = w.todo
        /\ v.recovery = w.recovery /\ v.pass = w.pass /\ v.whole = w.whole /\ v.fatal = c
        /\ v.cancelled = w.cancelled /\ v.run = w.run /\ v.status = w.status
    BY <2>1 DEF TaskRecs
  <2>3. [w EXCEPT !.pc = "mark",
           !.fatal = IF @ # "unknown" THEN @ ELSE IF w.msg THEN "yes" ELSE "no"] = v
    BY <1>2, <2>1 DEF TaskRecs
  <2>4. SetTask(e, t, v) BY <1>1, <1>4, <2>3 DEF ReadDataset
  <2> QED BY <1>1, <1>2, <1>4, <2>2, <2>4, ReadingHolds DEF ReadDataset, Makes
<1>5. CASE ReadFails(e, t)
  <2>1. PICK error \in {"plain", "stop"} :
          SetTask(e, t, [w EXCEPT !.pc = "note", !.error = error,
             !.fatal = IF @ # "unknown" THEN @ ELSE IF w.msg THEN "yes" ELSE "no"])
    BY <1>1, <1>5 DEF ReadFails
  <2>2. PICK v : v = [w EXCEPT !.pc = "note", !.error = error, !.fatal = c] OBVIOUS
  <2>3. /\ v \in TaskRecs /\ v.pc = "note" /\ v.done = w.done /\ v.todo = w.todo
        /\ v.recovery = w.recovery /\ v.pass = w.pass /\ v.whole = w.whole /\ v.fatal = c
        /\ v.cancelled = w.cancelled /\ v.run = w.run /\ v.status = w.status
    BY <2>2 DEF TaskRecs
  <2>4. [w EXCEPT !.pc = "note", !.error = error,
           !.fatal = IF @ # "unknown" THEN @ ELSE IF w.msg THEN "yes" ELSE "no"] = v
    BY <1>2, <2>2 DEF TaskRecs
  <2>5. SetTask(e, t, v) BY <2>1, <2>4
  <2>6. w.pc = "read" /\ UNCHANGED <<actor, journal, reserved, stored, exec>>
    BY <1>1, <1>5 DEF ReadFails, Makes
  <2>7. v.fatal = IF w.fatal # "unknown" THEN w.fatal ELSE IF w.msg THEN "yes" ELSE "no"
    BY <1>2, <2>3
  <2> QED BY <1>1, <2>3, <2>5, <2>6, <2>7, ReadingHolds
<1> QED BY <1>3, <1>4, <1>5

\* what the journal notes of a run agrees with the provider
LEMMA Noted ==
    ASSUME IInv, NEW e \in Executions, NEW t \in Titles, NEW w \in TaskRecs, w = task[e][t],
           w.pc \in RunPcs, NEW state \in States \ {"none"}, Note(e, t, state)
    PROVE  /\ w.run \in Run /\ Started(w.run) /\ Known(w.run)
           /\ \E j \in JournalRecs :
                /\ journal' = [journal EXCEPT ![w.run] = j] /\ j.state # "none"
                /\ Tells(w.run, j.status, j.fatal)
<1>1. /\ w.run \in Run /\ Started(w.run) /\ Tells(w.run, w.status, w.fatal)
  BY InHand DEF FollowSound
<1>2. Known(w.run) /\ Tells(w.run, journal[w.run].status, journal[w.run].fatal)
  BY <1>1 DEF Note, IInv, Told, RunSound
<1>3. journal[w.run].fatal \in Causes BY <1>1 DEF IInv, TypeOK, JournalRecs
<1>4. PICK f \in Causes : f = IF w.fatal = "unknown" THEN journal[w.run].fatal ELSE w.fatal
  BY <1>3 DEF TaskRecs
<1>5. PICK j : j = [state |-> state, status |-> w.status, fatal |-> f] OBVIOUS
<1>6. j \in JournalRecs /\ j.state = state /\ j.status = w.status /\ j.fatal = f
  BY <1>5 DEF JournalRecs, TaskRecs
<1>7. journal' = [journal EXCEPT ![w.run] = j]
  <2>1. journal \in [Run -> JournalRecs] BY DEF IInv, TypeOK
  <2> QED BY <1>1, <1>4, <1>5, <2>1 DEF Note
<1>8. Tells(w.run, w.status, f) BY <1>1, <1>2, <1>4 DEF Tells
<1> QED BY <1>1, <1>2, <1>6, <1>7, <1>8

\* a journal that only gains or rewrites entries drops nothing
LEMMA NotedPaid ==
    ASSUME IInv, UNCHANGED <<actor, reserved, stored>>, \A q \in Run : Known(q) => Known(q)'
    PROVE  Paid'
BY QuietPaid DEF Quiet, Grows, Newly, Started

\* a failure is noted in the journal
LEMMA NoteFailureHolds ==
    ASSUME IInv, TypeOK', NEW e \in Executions, NEW t \in Titles, NoteFailure(e, t)
    PROVE  Holding' /\ Told' /\ Paid'
<1>1. PICK w \in TaskRecs : w = task[e][t] /\ w.pc = "note" BY InHand DEF NoteFailure, Makes
<1>2. /\ w.run \in Run /\ Started(w.run) /\ Known(w.run)
      /\ \E j \in JournalRecs :
           /\ journal' = [journal EXCEPT ![w.run] = j] /\ j.state # "none"
           /\ Tells(w.run, j.status, j.fatal)
  BY <1>1, Noted DEF NoteFailure, RunPcs, States
<1>3. PICK j \in JournalRecs :
        /\ journal' = [journal EXCEPT ![w.run] = j] /\ j.state # "none"
        /\ Tells(w.run, j.status, j.fatal)
  BY <1>2
<1>4. PICK error \in {"none", "plain", "stop"} : error = w.error BY DEF TaskRecs
<1>5. PICK v : v = [w EXCEPT !.pc = "end", !.error = error, !.done = TRUE] OBVIOUS
<1>6. v \in TaskRecs /\ TodoSound(v) /\ FollowSound(v, exec[e].stop) /\ v.pc \notin OwnPcs
  BY <1>1, <1>5, FailsKeeps
<1>7. SetTask(e, t, v) /\ UNCHANGED <<actor, reserved, stored, exec>>
  BY <1>1, <1>4, <1>5 DEF NoteFailure, Fails
<1>8. /\ Holding' /\ Told' /\ \A q \in Run : Known(q)' <=> Known(q) \/ q = w.run
  BY <1>2, <1>3, <1>6, <1>7, JournalHolds
<1> QED BY <1>7, <1>8, NotedPaid

\* a complete dataset is noted in the journal
LEMMA MarkHolds ==
    ASSUME IInv, TypeOK', NEW e \in Executions, NEW t \in Titles, MarkReady(e, t)
    PROVE  Holding' /\ Told' /\ Paid'
<1>1. PICK w \in TaskRecs : w = task[e][t] /\ w.pc = "mark"
        /\ TodoSound(w) /\ FollowSound(w, exec[e].stop)
  BY InHand DEF MarkReady, Makes
<1>2. PICK stop \in BOOLEAN : stop = exec[e].stop BY InHand
<1>3. /\ w.run \in Run /\ Started(w.run) /\ Known(w.run)
      /\ \E j \in JournalRecs :
           /\ journal' = [journal EXCEPT ![w.run] = j] /\ j.state # "none"
           /\ Tells(w.run, j.status, j.fatal)
  BY <1>1, Noted DEF MarkReady, RunPcs, States
<1>4. PICK j \in JournalRecs :
        /\ journal' = [journal EXCEPT ![w.run] = j] /\ j.state # "none"
        /\ Tells(w.run, j.status, j.fatal)
  BY <1>3
<1>5. PICK error \in {"none", "plain", "stop"} :
        error = IF w.status = "succeeded" \/ w.cancelled THEN "none"
                ELSE IF w.fatal = "yes" THEN "stop" ELSE "plain"
  OBVIOUS
<1>6. PICK rest \in SUBSET w.todo : rest = IF w.recovery THEN w.todo \ {First(w.todo)} ELSE {}
  OBVIOUS
<1>7. w.pass \in 1..Passes
  <2>1. ~w.done \/ w.pc \notin {"none", "begin", "end"} BY <1>1
  <2> QED BY <1>1, <2>1, PassIn DEF IInv
<1>8. PICK pass \in 1..(Passes + 1) : pass = IF w.recovery THEN w.pass ELSE w.pass + 1
  BY <1>7, CollectionAssumption DEF CollectionAssumption
<1>9. PICK enough \in BOOLEAN :
        SetTask(e, t, [w EXCEPT !.pc = "end", !.error = error, !.whole = TRUE,
            !.todo = rest, !.pass = IF w.recovery THEN @ ELSE @ + 1,
            !.done = \/ error # "none" \/ exec[e].stop
                     \/ IF w.recovery THEN rest = {} ELSE enough \/ w.pass = Passes])
  BY <1>1, <1>5, <1>6 DEF MarkReady
<1>10. PICK done \in BOOLEAN :
         done = (\/ error # "none" \/ stop
                 \/ IF w.recovery THEN rest = {} ELSE enough \/ w.pass = Passes)
  OBVIOUS
<1>11. PICK v : v = [w EXCEPT !.pc = "end", !.error = error, !.whole = TRUE,
                             !.todo = rest, !.pass = pass, !.done = done]
  OBVIOUS
<1>12. SetTask(e, t, v)
  <2>1. [w EXCEPT !.pc = "end", !.error = error, !.whole = TRUE,
            !.todo = rest, !.pass = IF w.recovery THEN @ ELSE @ + 1,
            !.done = \/ error # "none" \/ exec[e].stop
                     \/ IF w.recovery THEN rest = {} ELSE enough \/ w.pass = Passes] = v
    BY <1>2, <1>8, <1>10, <1>11 DEF TaskRecs
  <2> QED BY <1>9, <2>1
<1>13. /\ v \in TaskRecs /\ v.pc = "end" /\ v.error = error /\ v.whole /\ v.todo = rest
       /\ v.pass = pass /\ v.done = done /\ v.recovery = w.recovery /\ v.cancelled = w.cancelled
       /\ v.run = w.run
  BY <1>11 DEF TaskRecs
<1>14. TodoSound(v)
  <2>1. pass > Passes => done
    BY <1>7, <1>8, <1>10, CollectionAssumption DEF CollectionAssumption
  <2>2. w.recovery /\ ~done => rest # {} BY <1>10
  <2> QED BY <1>1, <1>13, <2>1, <2>2 DEF TodoSound
<1>15. FollowSound(v, exec[e].stop)
  <2>1. w.status \in Terminal /\ w.fatal # "unknown" /\ Tells(w.run, w.status, w.fatal)
    BY <1>1 DEF FollowSound, RunPcs
  <2>2. Ended(w.run) BY <2>1 DEF Tells, StatusOf, Ended, Terminal
  <2>3. actor[w.run].status = "fatal" => error = "stop" \/ exec[e].stop
    <3>1. SUFFICES ASSUME actor[w.run].status = "fatal", ~exec[e].stop PROVE error = "stop"
      OBVIOUS
    <3>2. w.status # "succeeded" BY <2>1, <3>1 DEF Tells, StatusOf
    <3>3. ~w.cancelled BY <1>1, <3>1 DEF FollowSound
    <3>4. w.fatal = "yes" BY <2>1, <3>1 DEF Tells, Terminal, TaskRecs, Causes
    <3> QED BY <1>5, <3>2, <3>3, <3>4
  <2>4. w.cancelled => exec[e].stop BY <1>1 DEF FollowSound
  <2> QED BY <1>3, <1>13, <2>2, <2>3, <2>4 DEF FollowSound, RunPcs
<1>16. v.pc \notin OwnPcs BY <1>13 DEF OwnPcs
<1>17. UNCHANGED <<actor, reserved, stored, exec>> BY DEF MarkReady
<1>18. /\ Holding' /\ Told' /\ \A q \in Run : Known(q)' <=> Known(q) \/ q = w.run
  BY <1>3, <1>4, <1>12, <1>13, <1>14, <1>15, <1>16, <1>17, JournalHolds
<1> QED BY <1>17, <1>18, NotedPaid

\* every step of a pass
LEMMA PassHolds ==
    ASSUME IInv, TypeOK', NEW e \in Executions, NEW t \in Titles, MakePass(e, t)
    PROVE  Holding' /\ Told' /\ Paid'
<1>1. CASE ClaimFails(e, t) \/ RecordFails(e, t) \/ RefreshFails(e, t) \/ NoteFails(e, t)
  <2>1. /\ Fails(e, t, "stop") /\ task[e][t].pc # "end"
        /\ UNCHANGED <<actor, journal, reserved, stored, exec>>
    BY <1>1 DEF ClaimFails, RecordFails, RefreshFails, NoteFails, Makes
  <2> QED BY <2>1, FailsHolds
<1> QED BY <1>1, SkippedHolds, ResumesHolds, ClaimHolds, PostHolds, UnclearHolds, RefusedHolds,
           ReleaseHolds, RecordHolds, SeenHolds, AbortHolds, ReadingsHold, NoteFailureHolds,
           MarkHolds DEF MakePass

-----------------------------------------------------------------------------
(* The steps of a collection, and of what surrounds it.                     *)

\* a step of one collection: its passes start nothing of their own
Alone(e) ==
    /\ \A f \in Executions : f # e => task'[f] = task[f] /\ exec'[f] = exec[f]
    /\ actor' = actor /\ reserved' = reserved /\ stored \subseteq stored'
    /\ \A t \in Titles :
         \/ task'[e][t] = task[e][t] /\ (exec[e].stop => exec'[e].stop)
         \/ /\ TodoSound(task[e][t])' /\ FollowSound(task[e][t], exec[e].stop)'
            /\ task'[e][t].pc \in {"none", "begin"}
    /\ KeptBy(exec[e], stored)'

\* a step of one collection leaves the other ones in order
LEMMA AloneHolds ==
    ASSUME IInv, TypeOK', NEW e \in Executions, Alone(e),
           \A r \in Run : journal'[r] = journal[r] \/ (~Known(r)' /\ r \in stored')
    PROVE  Holding' /\ Told' /\ Paid'
<1>0. TypeOK /\ Owned /\ OneOwner /\ Kept BY DEF IInv
<1>1. Grows /\ \A r \in Run : ~Newly(r) BY DEF Alone, Grows, Newly, Started
<1>2. ASSUME NEW f \in Executions, NEW u \in Titles
      PROVE  Sound(f, u)'
  <2>1. CASE task'[f][u] = task[f][u] /\ (exec[f].stop => exec'[f].stop)
    <3>1. task[f][u].pc \in OwnPcs => PassOf(f, u) \in reserved'
      BY <1>0 DEF Owned, OwnSound, Alone
    <3> QED BY <1>1, <2>1, <3>1, Bystander DEF Alone
  <2>2. CASE /\ TodoSound(task[f][u])' /\ FollowSound(task[f][u], exec[f].stop)'
             /\ task'[f][u].pc \in {"none", "begin"}
    <3>1. task'[f][u].pc \notin OwnPcs BY <2>2 DEF OwnPcs
    <3> QED BY <2>2, <3>1 DEF Sound, OwnSound
  <2> QED BY <2>1, <2>2 DEF Alone
<1>3. OneOwner'
  <2>1. \A f \in Executions, u \in Titles :
          task'[f][u].pc \in OwnPcs => task'[f][u] = task[f][u]
    BY DEF Alone, OwnPcs
  <2> QED BY <1>0, <2>1 DEF OneOwner
<1>4. ASSUME NEW f \in Executions PROVE KeptBy(exec[f], stored)'
  <2>1. CASE f = e BY <2>1 DEF Alone
  <2>2. CASE f # e
    <3>1. PICK x \in ExecRecs : x = exec[f] /\ x = exec'[f] BY <1>0, <2>2 DEF TypeOK, Alone
    <3>2. stored \subseteq stored' BY DEF Alone
    <3>3. KeptBy(x, stored) BY <1>0, <3>1 DEF Kept, KeptBy
    <3>4. KeptBy(x, stored)' BY <1>0, <1>1, <3>2, <3>3, KeptFrame
    <3> QED BY <3>1, <3>4
  <2> QED BY <2>1, <2>2
<1>5. Holding'
  BY <1>2, <1>3, <1>4 DEF Holding, Sound, Sessions, Followed, Owned, Kept, KeptBy
<1>6. Told' BY <1>1, QuietTold DEF Told
<1>7. Paid' BY <1>1, QuietPaid DEF Quiet, Known, Alone
<1> QED BY <1>5, <1>6, <1>7

\* a thread without anything in hand
LEMMA NoTaskSound ==
    ASSUME NEW stop \in BOOLEAN
    PROVE  TodoSound(NoTask)' /\ FollowSound(NoTask, stop)' /\ NoTask.pc = "none"
BY CollectionAssumption
   DEF TodoSound, FollowSound, NoTask, RunPcs, Terminal, CollectionAssumption

\* a collection that gives up has nothing in hand
LEMMA QuitsAlone ==
    ASSUME IInv, TypeOK', NEW e \in Executions, Quits(e),
           UNCHANGED <<actor, reserved, stored>>
    PROVE  Alone(e)
<1>1. exec \in [Executions -> ExecRecs] /\ task \in Tasks BY DEF IInv, TypeOK, Tasks
<1>2. /\ exec'[e] = IdleExec /\ task'[e] = [u \in Titles |-> NoTask]
      /\ \A f \in Executions : f # e => task'[f] = task[f] /\ exec'[f] = exec[f]
  BY <1>1 DEF Quits, Tasks
<1>3. \A t \in Titles : task'[e][t] = NoTask BY <1>2
<1>4. IdleExec.stop \in BOOLEAN BY DEF IdleExec
<1>5. /\ TodoSound(NoTask)' /\ FollowSound(NoTask, IdleExec.stop)' /\ NoTask.pc = "none"
  BY <1>4, NoTaskSound
<1>6. KeptBy(IdleExec, stored)' BY DEF KeptBy, IdleExec
<1> QED BY <1>2, <1>3, <1>5, <1>6 DEF Alone

\* a collection that gives up leaves what was paid in the journal
LEMMA QuitsHolds ==
    ASSUME IInv, TypeOK', NEW e \in Executions, Quits(e),
           UNCHANGED <<actor, reserved, stored, journal>>
    PROVE  Holding' /\ Told' /\ Paid'
BY QuitsAlone, AloneHolds

\* only runs that are stored are forgotten
LEMMA AcknowledgeHolds ==
    ASSUME IInv, TypeOK', NEW e \in Executions, Acknowledge(e)
    PROVE  Holding' /\ Told' /\ Paid'
<1>1. Alone(e) BY QuitsAlone DEF Acknowledge
<1>2. exec[e].done \subseteq stored BY DEF Acknowledge, At, IInv, Kept
<1>3. ASSUME NEW r \in Run
      PROVE  journal'[r] = journal[r] \/ (~Known(r)' /\ r \in stored')
  BY <1>2 DEF Acknowledge, Known, NoEntry
<1> QED BY <1>1, <1>3, AloneHolds

\* what IInv says of the collection that moves
LEMMA Collecting ==
    ASSUME IInv, NEW e \in Executions
    PROVE  /\ exec[e] \in ExecRecs /\ exec \in [Executions -> ExecRecs] /\ task \in Tasks
           /\ KeptBy(exec[e], stored)
BY DEF IInv, TypeOK, Tasks, Kept, KeptBy

\* a collection moves on; nothing outside changes
Moves(e) ==
    /\ UNCHANGED <<actor, journal, reserved>> /\ stored \subseteq stored'
    /\ \A f \in Executions : f # e => task'[f] = task[f] /\ exec'[f] = exec[f]

\* the whole datasets are stored
LEMMA PersistHolds ==
    ASSUME IInv, TypeOK', NEW e \in Executions, Persist(e)
    PROVE  Holding' /\ Told' /\ Paid'
<1>1. PICK x \in ExecRecs : x = exec[e] /\ KeptBy(x, stored) BY Collecting
<1>2. PICK y : y = [x EXCEPT !.pc = "ack"] OBVIOUS
<1>3. /\ y.pc = "ack" /\ y.stop = x.stop /\ y.done = x.done /\ y.active = x.active
      /\ y.fatal = x.fatal
  BY <1>2 DEF ExecRecs
<1>4. /\ exec'[e] = y /\ task' = task /\ UNCHANGED <<actor, journal, reserved>>
      /\ stored' = stored \cup x.done
      /\ \A f \in Executions : f # e => exec'[f] = exec[f]
  BY <1>1, <1>2, Collecting DEF Persist
<1>5. KeptBy(y, stored)'
  <2>1. \A r \in Run : Ended(r)' <=> Ended(r) BY <1>4 DEF Ended
  <2>2. x.done \subseteq Run BY DEF ExecRecs
  <2> QED BY <1>1, <1>3, <1>4, <2>1, <2>2 DEF KeptBy
<1>6. Alone(e) BY <1>1, <1>3, <1>4, <1>5 DEF Alone
<1> QED BY <1>4, <1>6, AloneHolds

\* a collection moves on: what changes is its own, and its passes start afresh
LEMMA MovesHolds ==
    ASSUME IInv, TypeOK', NEW e \in Executions, UNCHANGED <<actor, journal, reserved, stored>>,
           NEW y \in ExecRecs, exec' = [exec EXCEPT ![e] = y], KeptBy(y, stored),
           NEW ts \in [Titles -> TaskRecs], task' = [task EXCEPT ![e] = ts],
           exec[e].stop => y.stop,
           \A t \in Titles :
             \/ ts[t] = task[e][t]
             \/ TodoSound(ts[t]) /\ FollowSound(ts[t], y.stop) /\ ts[t].pc \in {"none", "begin"}
    PROVE  Holding' /\ Told' /\ Paid'
<1>1. exec \in [Executions -> ExecRecs] /\ task \in Tasks BY Collecting
<1>2. /\ exec'[e] = y /\ task'[e] = ts
      /\ \A f \in Executions : f # e => task'[f] = task[f] /\ exec'[f] = exec[f]
  BY <1>1 DEF Tasks
<1>3. KeptBy(y, stored)' BY DEF KeptBy, Ended
<1>4. ASSUME NEW t \in Titles
      PROVE  \/ task'[e][t] = task[e][t] /\ (exec[e].stop => exec'[e].stop)
             \/ /\ TodoSound(task[e][t])' /\ FollowSound(task[e][t], exec[e].stop)'
                /\ task'[e][t].pc \in {"none", "begin"}
  <2>1. CASE ts[t] = task[e][t] BY <1>2, <2>1
  <2>2. CASE TodoSound(ts[t]) /\ FollowSound(ts[t], y.stop) /\ ts[t].pc \in {"none", "begin"}
    <3>1. PICK v \in TaskRecs : v = ts[t] OBVIOUS
    <3>2. TodoSound(v)' /\ FollowSound(v, y.stop)'
      BY <2>2, <3>1 DEF TodoSound, FollowSound, Started, Tells, StatusOf, Ended
    <3> QED BY <1>2, <2>2, <3>1, <3>2
  <2> QED BY <2>1, <2>2
<1>5. Alone(e) BY <1>2, <1>3, <1>4 DEF Alone
<1> QED BY <1>5, AloneHolds

\* a session is created from what the journal says of its title
LEMMA PlanHolds ==
    ASSUME IInv, TypeOK', NEW e \in Executions, Plan(e)
    PROVE  Holding' /\ Told' /\ Paid'
<1>1. PICK x \in ExecRecs : x = exec[e] /\ KeptBy(x, stored) BY Collecting
<1>2. x.later \subseteq Titles /\ x.later # {} /\ Titles \subseteq Nat
  BY <1>1, CollectionAssumption DEF Plan, ExecRecs, CollectionAssumption
<1>3. PICK t \in Titles : t = Oldest(x.later)
  <2>1. x.later \subseteq Nat /\ x.later # {} BY <1>2
  <2>2. Oldest(x.later) \in x.later BY <2>1, OldestIs
  <2> QED BY <1>2, <2>2
<1>4. PICK todo : todo = IF x.stop THEN {} ELSE Pending(t) OBVIOUS
<1>5. /\ todo \subseteq EntryRecs
      /\ \A k \in todo : Started(k.run) /\ Tells(k.run, k.status, k.fatal)
  <2>1. ASSUME NEW r \in Run, Known(r)
        PROVE  /\ Entry(r) \in EntryRecs /\ Started(Entry(r).run)
               /\ Tells(Entry(r).run, Entry(r).status, Entry(r).fatal)
    <3>1. Entry(r) \in EntryRecs BY EntryType DEF IInv
    <3>2. Started(r) /\ Tells(r, journal[r].status, journal[r].fatal)
      BY <2>1 DEF IInv, Told, RunSound
    <3> QED BY <3>1, <3>2 DEF Entry
  <2> QED BY <1>4, <2>1 DEF Pending
<1>6. PICK v : v = [NoTask EXCEPT !.todo = todo, !.recovery = todo # {}, !.done = x.stop] OBVIOUS
<1>7. /\ v \in TaskRecs /\ v.pc = "none" /\ v.todo = todo /\ v.recovery = (todo # {})
      /\ v.done = x.stop /\ v.pass = 1 /\ v.cancelled = FALSE /\ v.whole = FALSE
  <2>1. NoTask \in TaskRecs BY TaskInType DEF IInv
  <2>2. PICK b \in BOOLEAN : b = (todo # {}) OBVIOUS
  <2>3. v = [NoTask EXCEPT !.todo = todo, !.recovery = b, !.done = x.stop] BY <1>6, <2>2
  <2>4. NoTask.pc = "none" /\ NoTask.pass = 1 /\ NoTask.cancelled = FALSE /\ NoTask.whole = FALSE
    BY DEF NoTask
  <2> QED BY <1>5, <2>1, <2>2, <2>3, <2>4 DEF TaskRecs, ExecRecs
<1>8. TodoSound(v)
  <2>1. v.recovery => v.todo # {} BY <1>7
  <2>2. ~(v.pass > Passes) BY <1>7, CollectionAssumption DEF CollectionAssumption
  <2> QED BY <1>5, <1>7, <2>1, <2>2 DEF TodoSound
<1>9. FollowSound(v, x.stop) BY <1>7 DEF FollowSound, RunPcs
<1>10. PICK ts : ts = [task[e] EXCEPT ![t] = v] OBVIOUS
<1>11. task[e] \in [Titles -> TaskRecs] BY Collecting DEF Tasks
<1>12. ts \in [Titles -> TaskRecs] /\ \A u \in Titles : ts[u] = task[e][u] \/ ts[u] = v
  BY <1>7, <1>10, <1>11
<1>13. task' = [task EXCEPT ![e] = ts]
  BY <1>1, <1>3, <1>4, <1>6, <1>10, Collecting DEF Plan, SetTask
<1>14. PICK y : y = [x EXCEPT !.later = @ \ {t}] OBVIOUS
<1>15. /\ y \in ExecRecs /\ y.pc = x.pc /\ y.stop = x.stop /\ y.done = x.done
       /\ y.active = x.active /\ y.fatal = x.fatal
  BY <1>14 DEF ExecRecs
<1>16. exec' = [exec EXCEPT ![e] = y] BY <1>1, <1>3, <1>14, Collecting DEF Plan
<1>17. KeptBy(y, stored) BY <1>1, <1>15 DEF KeptBy
<1>18. UNCHANGED <<actor, journal, reserved, stored>> BY DEF Plan
<1>19. \A u \in Titles :
         \/ ts[u] = task[e][u]
         \/ TodoSound(ts[u]) /\ FollowSound(ts[u], y.stop) /\ ts[u].pc \in {"none", "begin"}
  <2>1. v.pc \in {"none", "begin"} BY <1>7
  <2> QED BY <1>8, <1>9, <1>12, <1>15, <2>1
<1>20. exec[e].stop => y.stop BY <1>1, <1>15
<1> QED BY <1>12, <1>13, <1>15, <1>16, <1>17, <1>18, <1>19, <1>20, MovesHolds

\* the plan is made, or the datasets are reduced
LEMMA PlannedHolds ==
    ASSUME IInv, TypeOK', NEW e \in Executions, Planned(e) \/ (Reduce(e) /\ exec[e].done # {})
    PROVE  Holding' /\ Told' /\ Paid'
<1>1. PICK x \in ExecRecs : x = exec[e] /\ KeptBy(x, stored) BY Collecting
<1>2. PICK y \in ExecRecs :
        /\ exec' = [exec EXCEPT ![e] = y] /\ y.pc \in {"collect", "persist"}
        /\ y.stop = x.stop /\ y.done = x.done /\ y.active = x.active /\ y.fatal = x.fatal
  <2>1. CASE Planned(e)
    <3>1. PICK later \in SUBSET Titles :
            exec' = [exec EXCEPT ![e] = [x EXCEPT !.pc = "collect", !.later = later]]
      <4>1. PICK later \in SUBSET Titles :
              exec' = [exec EXCEPT ![e].pc = "collect", ![e].later = later]
        BY <2>1 DEF Planned
      <4> QED BY <1>1, <4>1, Collecting
    <3>2. PICK y : y = [x EXCEPT !.pc = "collect", !.later = later] OBVIOUS
    <3>3. /\ y \in ExecRecs /\ y.pc = "collect" /\ y.stop = x.stop /\ y.done = x.done
          /\ y.active = x.active /\ y.fatal = x.fatal
      BY <3>2 DEF ExecRecs
    <3> QED BY <3>1, <3>2, <3>3
  <2>2. CASE Reduce(e) /\ exec[e].done # {}
    <3>1. exec' = [exec EXCEPT ![e] = [x EXCEPT !.pc = "persist"]]
      BY <1>1, <2>2, Collecting DEF Reduce
    <3>2. PICK y : y = [x EXCEPT !.pc = "persist"] OBVIOUS
    <3>3. /\ y \in ExecRecs /\ y.pc = "persist" /\ y.stop = x.stop /\ y.done = x.done
          /\ y.active = x.active /\ y.fatal = x.fatal
      BY <3>2 DEF ExecRecs
    <3> QED BY <3>1, <3>2, <3>3
  <2> QED BY <2>1, <2>2
<1>3. KeptBy(y, stored) BY <1>1, <1>2 DEF KeptBy
<1>4. UNCHANGED <<actor, journal, reserved, stored, task>> BY DEF Planned, Reduce
<1>5. task[e] \in [Titles -> TaskRecs] /\ task' = [task EXCEPT ![e] = task[e]]
  BY <1>4, Collecting DEF Tasks
<1> QED BY <1>1, <1>2, <1>3, <1>4, <1>5, MovesHolds

\* the passes of a cohort stand where their sessions stand
LEMMA LaunchSound ==
    ASSUME IInv, NEW e \in Executions, NEW titles \in SUBSET Titles, NEW t \in Titles
    PROVE  LET v == Launch(e, titles)[t]
           IN  \/ v = task[e][t]
               \/ /\ TodoSound(v) /\ FollowSound(v, exec[e].stop) /\ v.pc \in {"none", "begin"}
<1>1. PICK w \in TaskRecs : w = task[e][t] /\ TodoSound(w) BY InHand
<1>2. NoTask \in TaskRecs BY TaskInType DEF IInv
<1>3. PICK v : v = Launch(e, titles)[t] OBVIOUS
<1>4. CASE t \in titles
  <2>1. v = [NoTask EXCEPT !.pc = "begin", !.todo = w.todo, !.pass = w.pass,
                           !.recovery = w.recovery, !.done = w.done]
    BY <1>1, <1>3, <1>4 DEF Launch
  <2>2. /\ NoTask.cancelled = FALSE /\ NoTask.whole = FALSE /\ NoTask.msg = FALSE
        /\ NoTask.fatal = "unknown"
    BY DEF NoTask
  <2>3. /\ v \in TaskRecs /\ v.pc = "begin" /\ v.todo = w.todo /\ v.pass = w.pass
        /\ v.recovery = w.recovery /\ v.done = w.done /\ v.cancelled = FALSE /\ v.whole = FALSE
        /\ v.msg = FALSE /\ v.fatal = "unknown"
    BY <1>2, <2>1, <2>2 DEF TaskRecs
  <2>4. TodoSound(v) BY <1>1, <2>3 DEF TodoSound
  <2>5. FollowSound(v, exec[e].stop) BY <2>3 DEF FollowSound, RunPcs
  <2> QED BY <1>3, <2>3, <2>4, <2>5
<1>5. CASE t \notin titles /\ v # task[e][t]
  <2>1. v = NoTask BY <1>3, <1>5 DEF Launch
  <2>2. TodoSound(NoTask) /\ FollowSound(NoTask, exec[e].stop) /\ NoTask.pc = "none"
    BY CollectionAssumption
       DEF TodoSound, FollowSound, NoTask, RunPcs, Terminal, CollectionAssumption
  <2> QED BY <1>3, <2>1, <2>2
<1> QED BY <1>3, <1>4, <1>5

\* a cohort is launched only when nothing halted the collection
LEMMA CohortHolds ==
    ASSUME IInv, TypeOK', NEW e \in Executions, NextCohort(e)
    PROVE  Holding' /\ Told' /\ Paid'
<1>1. PICK x \in ExecRecs : x = exec[e] /\ KeptBy(x, stored) /\ x.pc = "collect"
        /\ ~x.fatal /\ ~x.stop
  BY Collecting DEF NextCohort, At, Over
<1>2. PICK c \in SUBSET Titles : c = Cohort(e) BY <1>1 DEF Cohort, ExecRecs
<1>3. PICK y : y = [x EXCEPT !.active = c, !.later = @ \ c] OBVIOUS
<1>4. /\ y \in ExecRecs /\ y.pc = x.pc /\ y.stop = x.stop /\ y.done = x.done /\ y.fatal = x.fatal
  BY <1>3 DEF ExecRecs
<1>5. exec' = [exec EXCEPT ![e] = y] BY <1>1, <1>2, <1>3, Collecting DEF NextCohort
<1>6. KeptBy(y, stored) BY <1>1, <1>4 DEF KeptBy
<1>7. PICK ts : ts = Launch(e, c) OBVIOUS
<1>8. ts \in [Titles -> TaskRecs] BY <1>7, LaunchType DEF IInv
<1>9. task' = [task EXCEPT ![e] = ts] BY <1>2, <1>7 DEF NextCohort
<1>10. \A t \in Titles :
         \/ ts[t] = task[e][t]
         \/ TodoSound(ts[t]) /\ FollowSound(ts[t], y.stop) /\ ts[t].pc \in {"none", "begin"}
  BY <1>1, <1>4, <1>7, LaunchSound
<1>11. UNCHANGED <<actor, journal, reserved, stored>> BY DEF NextCohort
<1> QED BY <1>1, <1>4, <1>5, <1>6, <1>8, <1>9, <1>10, <1>11, MovesHolds

\* a cohort that halts, or was stopped, has no fallback
LEMMA CohortEndsHolds ==
    ASSUME IInv, TypeOK', NEW e \in Executions, CohortEnds(e)
    PROVE  Holding' /\ Told' /\ Paid'
<1>1. PICK x \in ExecRecs : x = exec[e] /\ KeptBy(x, stored) /\ x.pc = "collect" /\ x.active # {}
  BY Collecting DEF CohortEnds, At
<1>2. PICK c \in SUBSET Titles : c = Fallback(e) BY <1>1 DEF Fallback, ExecRecs
<1>3. PICK fatal \in BOOLEAN : fatal = (x.fatal \/ Halts(e)) OBVIOUS
<1>4. ASSUME NEW r \in Complete(e)
      PROVE  r \in Run /\ Ended(r) /\ (actor[r].status = "fatal" => Halts(e) \/ x.stop)
  <2>1. PICK t \in Titles : t \in x.active /\ task[e][t].whole /\ r = task[e][t].run
    BY <1>1, <1>4 DEF Complete, ExecRecs
  <2>2. FollowSound(task[e][t], x.stop) BY <1>1, InHand
  <2> QED BY <1>1, <2>1, <2>2 DEF FollowSound, Halts
<1>5. PICK d \in SUBSET Run : d = x.done \cup Complete(e) BY <1>4 DEF ExecRecs
<1>6. PICK y : y = [x EXCEPT !.fatal = fatal, !.active = c, !.done = d] OBVIOUS
<1>7. /\ y \in ExecRecs /\ y.pc = x.pc /\ y.stop = x.stop /\ y.done = d /\ y.fatal = fatal
      /\ y.active = c
  BY <1>6 DEF ExecRecs
<1>8. exec' = [exec EXCEPT ![e] = y]
  BY <1>1, <1>2, <1>3, <1>5, <1>6, Collecting DEF CohortEnds
<1>9. KeptBy(y, stored)
  <2>1. \A r \in d : Ended(r) BY <1>1, <1>4, <1>5 DEF KeptBy
  <2>2. ASSUME NEW r \in d, actor[r].status = "fatal"
        PROVE  c = {} /\ (fatal \/ x.stop)
    <3>1. r \in Complete(e) BY <1>1, <1>5, <2>2 DEF KeptBy
    <3>2. Halts(e) \/ x.stop BY <1>4, <2>2, <3>1
    <3> QED BY <1>1, <1>2, <1>3, <3>2 DEF Fallback
  <2> QED BY <1>1, <1>7, <2>1, <2>2 DEF KeptBy
<1>10. PICK ts : ts = Launch(e, c) OBVIOUS
<1>11. ts \in [Titles -> TaskRecs] BY <1>10, LaunchType DEF IInv
<1>12. task' = [task EXCEPT ![e] = ts] BY <1>2, <1>10 DEF CohortEnds
<1>13. \A t \in Titles :
         \/ ts[t] = task[e][t]
         \/ TodoSound(ts[t]) /\ FollowSound(ts[t], y.stop) /\ ts[t].pc \in {"none", "begin"}
  BY <1>1, <1>7, <1>10, LaunchSound
<1>14. UNCHANGED <<actor, journal, reserved, stored>> BY DEF CohortEnds
<1> QED BY <1>1, <1>7, <1>8, <1>9, <1>11, <1>12, <1>13, <1>14, MovesHolds

\* every step of a collection
LEMMA CollectHolds ==
    ASSUME IInv, TypeOK', NEW e \in Executions, Collect(e)
    PROVE  Holding' /\ Told' /\ Paid'
<1>1. CASE PlanFails(e) \/ CohortRaises(e) \/ PersistFails(e) \/ AcknowledgeFails(e)
           \/ (Reduce(e) /\ exec[e].done = {})
  <2>1. Quits(e) /\ UNCHANGED <<actor, journal, reserved, stored>>
    BY <1>1 DEF PlanFails, CohortRaises, PersistFails, AcknowledgeFails, Reduce
  <2> QED BY <2>1, QuitsHolds
<1>2. CASE Planned(e) \/ (Reduce(e) /\ exec[e].done # {}) BY <1>2, PlannedHolds
<1> QED BY <1>1, <1>2, PlanHolds, CohortHolds, CohortEndsHolds, PersistHolds, AcknowledgeHolds
        DEF Collect

\* a beginning, a Stop or a killed process
LEMMA BeyondHolds ==
    ASSUME IInv, TypeOK', NEW e \in Executions, Beyond(e)
    PROVE  Holding' /\ Told' /\ Paid'
<1>1. PICK x \in ExecRecs : x = exec[e] /\ KeptBy(x, stored) BY Collecting
<1>2. CASE Crash(e) BY <1>2, QuitsHolds DEF Crash
<1>3. CASE Begin(e) \/ RequestStop(e)
  <2>1. UNCHANGED <<actor, journal, reserved, stored, task>> BY <1>3 DEF Begin, RequestStop
  <2>2. PICK y \in ExecRecs :
          exec' = [exec EXCEPT ![e] = y] /\ KeptBy(y, stored) /\ (exec[e].stop => y.stop)
    <3>1. CASE Begin(e)
      <4>1. PICK y : y = [IdleExec EXCEPT !.pc = "plan", !.later = Titles, !.fresh = ~opened]
        OBVIOUS
      <4>2. y \in ExecRecs /\ y.pc = "plan" /\ y.done = {} BY <4>1 DEF IInv, TypeOK, IdleExec, ExecRecs
      <4>3. exec' = [exec EXCEPT ![e] = y] BY <3>1, <4>1 DEF Begin
      <4>4. x.pc = "idle"
        <5>1. PICK idle : idle = {f \in Executions : At(f, "idle")} /\ idle # {} /\ e = Oldest(idle)
          BY <3>1 DEF Begin
        <5>2. idle \subseteq Nat BY <5>1, CollectionAssumption DEF CollectionAssumption
        <5>3. e \in idle BY <5>1, <5>2, OldestIs
        <5> QED BY <1>1, <5>1, <5>3 DEF At
      <4>5. ~exec[e].stop BY <1>1, <4>4 DEF KeptBy
      <4>6. KeptBy(y, stored) BY <4>2 DEF KeptBy
      <4> QED BY <4>2, <4>3, <4>5, <4>6
    <3>2. CASE RequestStop(e)
      <4>1. PICK y : y = [x EXCEPT !.stop = TRUE] OBVIOUS
      <4>2. /\ y \in ExecRecs /\ y.pc = x.pc /\ y.stop /\ y.done = x.done /\ y.active = x.active
            /\ y.fatal = x.fatal
        BY <4>1 DEF ExecRecs
      <4>3. exec' = [exec EXCEPT ![e] = y] BY <1>1, <3>2, <4>1, Collecting DEF RequestStop
      <4>4. x.pc # "idle" BY <1>1, <3>2 DEF RequestStop, At
      <4>5. KeptBy(y, stored) BY <1>1, <4>2, <4>4 DEF KeptBy
      <4> QED BY <4>2, <4>3, <4>5
    <3> QED BY <1>3, <3>1, <3>2
  <2>3. task[e] \in [Titles -> TaskRecs] /\ task' = [task EXCEPT ![e] = task[e]]
    BY <2>1, Collecting DEF Tasks
  <2> QED BY <2>1, <2>2, <2>3, MovesHolds
<1> QED BY <1>2, <1>3 DEF Beyond

\* an Actor run ends
LEMMA ActorHolds ==
    ASSUME IInv, TypeOK', NEW r \in Run, ActorEnds(r)
    PROVE  Holding' /\ Told' /\ Paid'
<1>1. PICK s \in Ends : actor' = [actor EXCEPT ![r].status = s] BY DEF ActorEnds
<1>2. s \in {"succeeded", "failed", "fatal"} BY CollectionAssumption DEF CollectionAssumption
<1>3. /\ actor[r].status = "running" /\ UNCHANGED <<journal, reserved, stored, exec, task>>
  BY DEF ActorEnds
<1>4. /\ actor'[r].pass = actor[r].pass /\ actor'[r].status = s
      /\ \A q \in Run : q # r => actor'[q] = actor[q]
  <2>1. actor[r] \in ActorRecs /\ actor \in [Run -> ActorRecs] BY DEF IInv, TypeOK
  <2> QED BY <1>1, <2>1 DEF ActorRecs
<1>5. Grows BY <1>2, <1>3, <1>4 DEF Grows, Ended
<1>6. \A q \in Run : ~Newly(q) BY <1>2, <1>3, <1>4 DEF Newly, Started
<1>7. \A f \in Executions, u \in Titles : Sound(f, u)'
  <2>1. \A f \in Executions, u \in Titles : task[f][u].pc \in OwnPcs => PassOf(f, u) \in reserved'
    BY <1>3 DEF IInv, Owned, OwnSound
  <2> QED BY <1>3, <1>5, <1>6, <2>1, Bystander
<1>8. ASSUME NEW f \in Executions PROVE KeptBy(exec[f], stored)'
  <2>1. PICK x \in ExecRecs : x = exec[f] /\ KeptBy(x, stored) BY Collecting
  <2>2. KeptBy(x, stored)' BY <1>3, <1>5, <2>1, KeptFrame DEF IInv
  <2> QED BY <1>3, <2>1, <2>2
<1>9. OneOwner' BY <1>3 DEF IInv, OneOwner
<1>10. Holding' BY <1>7, <1>8, <1>9 DEF Holding, Sound, Sessions, Followed, Owned, Kept, KeptBy
<1>11. Told' BY <1>3, <1>5, QuietTold DEF Told
<1>12. Paid' BY <1>3, <1>5, <1>6, QuietPaid DEF Quiet, Known
<1> QED BY <1>10, <1>11, <1>12

-----------------------------------------------------------------------------
(* The theorems.                                                            *)

\* the initial states
LEMMA Initially ==
    ASSUME Init
    PROVE  IInv
<1>1. TypeOK
  <2>1. NoActor \in ActorRecs BY DEF NoActor, ActorRecs, Statuses
  <2>2. NoEntry \in JournalRecs BY DEF NoEntry, JournalRecs, States, Statuses, Causes
  <2>3. IdleExec \in ExecRecs BY DEF IdleExec, ExecRecs
  <2>4. NoTask \in TaskRecs
    BY CollectionAssumption
       DEF NoTask, TaskRecs, Run, Statuses, Terminal, Causes, CollectionAssumption
  <2>5. left \in LeftRecs BY CollectionAssumption DEF Init, LeftRecs, CollectionAssumption
  <2> QED BY <2>1, <2>2, <2>3, <2>4, <2>5 DEF TypeOK, Init, LeftRecs
<1>2. \A r \in Run : ~Started(r) /\ ~Known(r) BY DEF Init, Started, Known, NoActor, NoEntry
<1>3. Told /\ NothingPaidIsForgotten /\ OneRunPerPass
  BY <1>2 DEF Told, RunSound, NothingPaidIsForgotten, OneRunPerPass
<1>4. \A e \in Executions, t \in Titles : task[e][t] = NoTask BY DEF Init
<1>5. \A e \in Executions : exec[e] = IdleExec BY DEF Init
<1>6. TodoSound(NoTask) /\ FollowSound(NoTask, IdleExec.stop) /\ NoTask.pc = "none"
  BY CollectionAssumption
     DEF TodoSound, FollowSound, NoTask, IdleExec, RunPcs, Terminal, CollectionAssumption
<1>7. NoTask.pc \notin OwnPcs BY <1>6 DEF OwnPcs
<1>8. Sessions /\ Followed BY <1>4, <1>5, <1>6 DEF Sessions, Followed
<1>9. Owned /\ OneOwner BY <1>4, <1>7 DEF Owned, OneOwner, OwnSound
<1>10. Kept BY <1>5 DEF Kept, IdleExec
<1> QED BY <1>1, <1>3, <1>8, <1>9, <1>10 DEF IInv

\* every step
LEMMA Step ==
    ASSUME IInv, [Next]_vars
    PROVE  IInv'
<1>1. TypeOK /\ Told /\ Sessions /\ Followed BY DEF IInv
<1>2. ASSUME TypeOK', Holding' /\ Told' /\ Paid' PROVE IInv'
  BY <1>2 DEF IInv, Holding, Paid
<1>3. ASSUME NEW e \in Executions, Beyond(e) PROVE IInv'
  <2>1. TypeOK' BY <1>1, <1>3, BeyondType
  <2> QED BY <1>2, <1>3, <2>1, BeyondHolds
<1>4. ASSUME NEW e \in Executions, Collect(e) PROVE IInv'
  <2>1. TypeOK' BY <1>1, <1>4, CollectType
  <2> QED BY <1>2, <1>4, <2>1, CollectHolds
<1>5. ASSUME NEW e \in Executions, NEW t \in Titles, MakePass(e, t) PROVE IInv'
  <2>1. TypeOK' BY <1>1, <1>5, PassType
  <2> QED BY <1>2, <1>5, <2>1, PassHolds
<1>6. ASSUME NEW r \in Run, ActorEnds(r) PROVE IInv'
  <2>1. TypeOK' BY <1>1, <1>6, ActorType
  <2> QED BY <1>2, <1>6, <2>1, ActorHolds
<1>7. CASE UNCHANGED vars
  <2>1. TypeOK' BY <1>1, <1>7 DEF vars, TypeOK
  <2>2. \A r \in Run : Started(r)' = Started(r) /\ Known(r)' = Known(r)
    BY <1>7 DEF vars, Started, Known
  <2>3. ASSUME NEW f \in Executions, NEW u \in Titles PROVE Sound(f, u)'
    <3>1. Grows /\ \A r \in Run : ~Newly(r) BY <1>7, <2>2 DEF vars, Grows, Newly
    <3>2. task[f][u].pc \in OwnPcs => PassOf(f, u) \in reserved'
      BY <1>7 DEF vars, IInv, Owned, OwnSound
    <3> QED BY <1>7, <2>1, <3>1, <3>2, Bystander DEF vars
  <2>4. Sessions' /\ Followed' /\ Owned' BY <2>3 DEF Sound, Sessions, Followed, Owned
  <2>5. OneOwner' BY <1>7 DEF vars, IInv, OneOwner
  <2>6. Kept' BY <1>7 DEF vars, IInv, Kept, Ended
  <2>7. Told' BY <1>7, <2>2 DEF vars, IInv, Told, RunSound, Tells, StatusOf
  <2>8. Paid'
    BY <1>7, <2>2 DEF vars, IInv, Paid, NothingPaidIsForgotten, OneRunPerPass
  <2> QED BY <2>1, <2>4, <2>5, <2>6, <2>7, <2>8 DEF IInv, Paid
<1>8. CASE Rest BY <1>7, <1>8 DEF Rest
<1> QED BY <1>3, <1>4, <1>5, <1>6, <1>7, <1>8 DEF Next, Beyond

\* The invariant holds whatever the plan, the threads, the failures, the killed
\* processes and the Stops.
THEOREM Invariance == Spec => []IInv
<1>1. Init => IInv BY Initially
<1>2. IInv /\ [Next]_vars => IInv' BY Step
<1> QED BY <1>1, <1>2, PTL DEF Spec

\* The journal, the runs and the threads that follow them are of their types.
THEOREM TypeCorrect == Spec => []TypeOK
<1>1. IInv => TypeOK BY DEF IInv
<1> QED BY <1>1, Invariance, PTL

\* No two paid runs of one pass exist before the first is stored (claim_start,
\* record_started and release_start_reservation of apify_recovery.py).
THEOREM NeverPaidTwice == Spec => []OneRunPerPass
<1>1. IInv => OneRunPerPass BY DEF IInv
<1> QED BY <1>1, Invariance, PTL

\* A run the provider accepted is stored, known or still reserved (a start whose
\* outcome is uncertain keeps its reservation, a run is forgotten once stored).
THEOREM NothingIsForgotten == Spec => []NothingPaidIsForgotten
<1>1. IInv => NothingPaidIsForgotten BY DEF IInv
<1> QED BY <1>1, Invariance, PTL

\* A collection that read a run ended by quota or access launches no further
\* pass (run_search_pass and _run_linkedin_actor_pass_cohorts).
THEOREM QuotaEnds == Spec => []QuotaEndsCollection
<1>1. IInv => QuotaEndsCollection BY DEF IInv, Kept, QuotaEndsCollection
<1> QED BY <1>1, Invariance, PTL
=============================================================================
