-------------------------- MODULE OutputPublication --------------------------
(***************************************************************************)
(* The directory of one application, the rows that describe it, and the    *)
(* two durable journals that keep them together: the publication of a new  *)
(* version (pipeline/output_publication.py, output_paths.py, applier.py)   *)
(* and the permanent deletion (pipeline/output_deletion.py,                *)
(* desktop/offer_deletion.py).  Several processes run on one database and  *)
(* one file system; each may be killed between two steps.                  *)
(*                                                                         *)
(* A version of the documents is named by the token of the publication     *)
(* that rendered it.  One action is one rename, one removal or one         *)
(* database transaction.                                                   *)
(***************************************************************************)
EXTENDS Naturals

CONSTANTS Proc,        \* processes (windows) that share the database
          Token,       \* uuid4 of a publication, and the version it renders
          Plan,        \* uuid4 of a deletion
          None,
          MaxCrashes,  \* bound: processes killed in the middle of something
          MaxFaults,   \* bound: calls to the file system or SQLite that raise
          MaxTorn      \* bound: rmtree calls that stop half way

ASSUME BoundsAssumption == MaxCrashes \in Nat /\ MaxFaults \in Nat /\ MaxTorn \in Nat
ASSUME NoneAssumption == None \notin Proc \cup Token \cup Plan

VARIABLES dir,      \* the application directory and its hidden siblings
          trash,    \* per deletion, the directories renamed to .deleting-<token>
          journal,  \* pending_document_publication:<token> rows
          plan,     \* pending_document_deletion:<token> rows
          app,      \* status of the applications row
          docs,     \* version the application and document rows describe
          erased,   \* history: versions a committed deletion has erased
          minted,   \* tokens already drawn
          holder,   \* process that holds the file lock of the application
          proc,     \* program counter and locals of each process
          used      \* how much of each bound is spent
store == <<dir, trash, journal, plan, app, docs>>
vars == <<dir, trash, journal, plan, app, docs, erased, minted, holder, proc, used>>

-----------------------------------------------------------------------------
(* Directories.  "of" is the version the files belong to, "whole" says that *)
(* none of them is missing, "marked" that the marker file is there.         *)

Final      == <<"final", None>>
Staging(t) == <<"staging", t>>
Backup(t)  == <<"backup", t>>
Name == {Final} \cup ({"staging", "backup"} \X Token)

Content == [of : Token \cup {None}, whole : BOOLEAN, marked : BOOLEAN]
Absent  == [of |-> None, whole |-> FALSE, marked |-> FALSE]

Exists(n)     == dir[n] # Absent
Belongs(n, t) == dir[n].of = t /\ dir[n].marked
Holds(c, t)   == c.of = t /\ c.whole

Put(n, c)    == dir' = [dir EXCEPT ![n] = c]
Rename(n, m) == dir' = [dir EXCEPT ![m] = dir[n], ![n] = Absent]

SetAside(d, n, c) == trash' = [trash EXCEPT ![d][n] = c]

Pending == {t \in Token : journal[t].state # "none"}

-----------------------------------------------------------------------------
Labels == {"down", "bootPubs", "bootPlans", "idle",
           "lock", "write", "render", "prepare", "validate", "swapOut", "swapIn",
           "persist", "discard", "release", "recover",
           "plan", "begin", "stage", "erase", "restore", "purge"}

Resting(l) == [pc |-> l, tok |-> None, after |-> "exit", snap |-> "none",
               release |-> FALSE, plan |-> None, names |-> {}, keys |-> {},
               seen |-> [d \in Plan |-> "none"]]

Rows == {"none", "prepared", "committed"}
Locals == [pc : Labels, tok : Token \cup {None},
           after : {"exit", "write", "plan", "bootPubs", "bootPlans"},
           snap : {"none", "reserved", "ready"}, release : BOOLEAN,
           plan : Plan \cup {None}, names : SUBSET Name,
           keys : SUBSET Token, seen : [Plan -> Rows]]

TypeOK ==
    /\ dir \in [Name -> Content]
    /\ trash \in [Plan -> [Name -> Content]]
    /\ journal \in [Token -> [state : Rows, had : BOOLEAN]]
    /\ plan \in [Plan -> [state : Rows, entries : SUBSET Name]]
    /\ app \in {"none", "reserved", "ready", "sent"}
    /\ docs \in Token \cup {None}
    /\ erased \subseteq Token
    /\ minted \subseteq Token \cup Plan
    /\ holder \in Proc \cup {None}
    /\ proc \in [Proc -> Locals]
    /\ used \in [crashes : Nat, faults : Nat, torn : Nat]

Init ==
    /\ dir = [n \in Name |-> Absent]
    /\ trash = [d \in Plan |-> [n \in Name |-> Absent]]
    /\ journal = [t \in Token |-> [state |-> "none", had |-> FALSE]]
    /\ plan = [d \in Plan |-> [state |-> "none", entries |-> {}]]
    /\ app = "none" /\ docs = None
    /\ erased = {} /\ minted = {}
    /\ holder = None
    /\ proc = [p \in Proc |-> Resting("down")]
    /\ used = [crashes |-> 0, faults |-> 0, torn |-> 0]

Becomes(p, r) == proc' = [proc EXCEPT ![p] = r]
Goto(p, l) == Becomes(p, [proc[p] EXCEPT !.pc = l])

(* Back to the caller of a recovery. *)
Resume(p, l) == Becomes(p, [Resting(l) EXCEPT
    !.snap = proc[p].snap, !.release = proc[p].release,
    !.keys = proc[p].keys, !.seen = proc[p].seen])

(* A deletion holds BEGIN IMMEDIATE from its last check to its commit: no   *)
(* other process writes to the database meanwhile.                          *)
DbFree(p) == \A q \in Proc \ {p} : proc[q].pc \notin {"stage", "erase"}

(* The end of Applier.apply and of delete_ready_offer: the file lock is     *)
(* released, then a reservation this call created is given back on error.   *)
Exit(p) ==
    /\ holder' = None
    /\ Becomes(p, Resting(IF proc[p].release THEN "release" ELSE "idle"))

-----------------------------------------------------------------------------
(* recover_record: reconcile one publication with the database decision.   *)
(* The lock is held, and every test the code makes is a function of the    *)
(* record and of the directories, so that each step reads them again.      *)

Unsafe(t) ==
    IF journal[t].state = "committed"
    THEN \/ ~(Belongs(Final, t) /\ dir[Final].whole)
         \/ Exists(Backup(t)) /\ ~journal[t].had
    ELSE \/ journal[t].had /\ Exists(Backup(t)) /\ Exists(Final) /\ ~Belongs(Final, t)
         \/ journal[t].had /\ ~Exists(Backup(t)) /\ (~Exists(Final) \/ Belongs(Final, t))
         \/ ~journal[t].had /\ (Exists(Backup(t)) \/ (Exists(Final) /\ ~Belongs(Final, t)))

MustRestore(t) == journal[t].state = "prepared" /\ journal[t].had /\ Exists(Backup(t))

(* Mutant: an unfinished publication removes the directory in place, whoever *)
(* it belongs to.                                                           *)
MutantGarbageFinal(t) ==
    CASE journal[t].state = "committed" /\ Exists(Backup(t)) -> Backup(t)
      [] journal[t].state = "prepared" /\ Exists(Final) -> Final
      [] OTHER -> Staging(t)

(* The directory the next rmtree is called on. *)
Garbage(t) ==
    CASE journal[t].state = "committed" /\ Exists(Backup(t)) -> Backup(t)
      [] journal[t].state = "prepared" /\ Exists(Final) /\ Belongs(Final, t) -> Final
      [] OTHER -> Staging(t)

Return(p, ok) ==
    CASE proc[p].after = "bootPubs" -> holder' = None /\ Resume(p, "bootPubs")
      [] ok /\ proc[p].after \in {"write", "plan"} -> Resume(p, proc[p].after) /\ UNCHANGED holder
      [] OTHER -> Exit(p)

RecoverRefuses(p) ==
    LET t == proc[p].tok IN
    /\ proc[p].pc = "recover"
    /\ \/ Unsafe(t)
       \/ ~MustRestore(t) /\ Garbage(t) = Staging(t) /\ Exists(Staging(t))
             /\ ~Belongs(Staging(t), t)
    /\ Return(p, FALSE)
    /\ UNCHANGED <<store, erased, minted, used>>

Removable(t) ==
    /\ ~Unsafe(t)
    /\ Exists(Garbage(t))
    /\ Garbage(t) = Staging(t) => ~MustRestore(t) /\ Belongs(Staging(t), t)

RecoverRemoves(p) ==
    LET t == proc[p].tok IN
    /\ proc[p].pc = "recover" /\ Removable(t)
    /\ Put(Garbage(t), Absent)
    /\ UNCHANGED <<trash, journal, plan, app, docs, erased, minted, holder, proc, used>>

RecoverRestores(p) ==
    LET t == proc[p].tok IN
    /\ proc[p].pc = "recover"
    /\ ~Unsafe(t) /\ MustRestore(t) /\ ~Exists(Final)
    /\ Rename(Backup(t), Final)
    /\ UNCHANGED <<trash, journal, plan, app, docs, erased, minted, holder, proc, used>>

(* _finish_record *)
RecoverEnds(p) ==
    LET t == proc[p].tok IN
    /\ proc[p].pc = "recover"
    /\ ~Unsafe(t) /\ ~MustRestore(t) /\ ~Exists(Garbage(t))
    /\ journal' = [journal EXCEPT ![t] = [state |-> "none", had |-> FALSE]]
    /\ Return(p, TRUE)
    /\ UNCHANGED <<dir, trash, plan, app, docs, erased, minted, used>>

(* The recovery calls recover_record for t, then goes back to l. *)
Recovering(p, t, l) ==
    Becomes(p, [proc[p] EXCEPT !.pc = "recover", !.tok = t, !.after = l])

-----------------------------------------------------------------------------
(* Applier.apply *)

(* _reserve_application_id: a new reservation, an abandoned one taken over,  *)
(* a resumed one, or the regeneration of an unsent dossier.  The reservation *)
(* is given back on error only when this call made it and no caller keeps it *)
Reserve(p) ==
    /\ proc[p].pc = "idle" /\ DbFree(p)
    /\ app # "sent"
    /\ app' = IF app = "none" THEN "reserved" ELSE app
    /\ \E release \in IF app = "ready" THEN {FALSE} ELSE BOOLEAN :
          Becomes(p, [Resting("lock") EXCEPT !.release = release])
    /\ UNCHANGED <<dir, trash, journal, plan, docs, erased, minted, holder, used>>

(* application_publication, then PublicationSnapshot.capture and validate *)
EnterLock(p) ==
    /\ proc[p].pc = "lock"
    /\ IF holder # None
       THEN Becomes(p, Resting("idle")) /\ UNCHANGED holder
       ELSE IF app \in {"reserved", "ready"}
            THEN /\ holder' = p
                 /\ Becomes(p, [proc[p] EXCEPT !.pc = "write", !.snap = app])
            ELSE Exit(p)
    /\ UNCHANGED <<store, erased, minted, used>>

(* The texts are written; AtomicApplicationOutput.__init__ first reconciles *)
(* an interrupted publication                                               *)
OpenRecovers(p) ==
    /\ proc[p].pc = "write"
    /\ \E t \in Pending : Recovering(p, t, "write")
    /\ UNCHANGED <<store, erased, minted, holder, used>>

OrphanBackup == ~Exists(Final) /\ \E t \in Token : Exists(Backup(t))

Open(p) ==
    /\ proc[p].pc = "write" /\ Pending = {} /\ ~OrphanBackup
    /\ \E t \in Token \ minted :
          /\ minted' = minted \cup {t}
          /\ Put(Staging(t), [Absent EXCEPT !.of = t])
          /\ Becomes(p, [proc[p] EXCEPT !.pc = "render", !.tok = t])
    /\ UNCHANGED <<trash, journal, plan, app, docs, erased, holder, used>>

Render(p) ==
    LET s == Staging(proc[p].tok) IN
    /\ proc[p].pc = "render"
    /\ Put(s, [dir[s] EXCEPT !.whole = TRUE])
    /\ Goto(p, "prepare")
    /\ UNCHANGED <<trash, journal, plan, app, docs, erased, minted, holder, used>>

(* A failed or cancelled text, a refused orphan backup or mkdir; a failed or *)
(* cancelled rendering                                                      *)
GiveUp(p) ==
    /\ \/ proc[p].pc = "write" /\ Exit(p)
       \/ proc[p].pc = "render" /\ Goto(p, "discard") /\ UNCHANGED holder
    /\ UNCHANGED <<store, erased, minted, used>>

(* The marker, then the durable record.  Nothing reads the marker of a      *)
(* staging directory that has no record.                                    *)
Prepare(p) ==
    LET t == proc[p].tok IN
    /\ proc[p].pc = "prepare" /\ DbFree(p)
    /\ Put(Staging(t), [dir[Staging(t)] EXCEPT !.marked = TRUE])
    /\ journal' = [journal EXCEPT ![t] = [state |-> "prepared", had |-> Exists(Final)]]
    /\ Goto(p, "validate")
    /\ UNCHANGED <<trash, plan, app, docs, erased, minted, holder, used>>

(* snapshot.validate at the head of the publication transaction.  SQLite    *)
(* begins the transaction at the first write, in Persist.                   *)
Validate(p) ==
    /\ proc[p].pc = "validate"
    /\ IF app = proc[p].snap THEN Goto(p, "swapOut")
                             ELSE Recovering(p, proc[p].tok, "exit")
    /\ UNCHANGED <<store, erased, minted, holder, used>>

SwapOut(p) ==
    LET b == Backup(proc[p].tok) IN
    /\ proc[p].pc = "swapOut"
    /\ IF Exists(Final) THEN Rename(Final, b) ELSE UNCHANGED dir
    /\ Goto(p, "swapIn")
    /\ UNCHANGED <<trash, journal, plan, app, docs, erased, minted, holder, used>>

SwapIn(p) ==
    LET s == Staging(proc[p].tok) IN
    /\ proc[p].pc = "swapIn"
    /\ Rename(s, Final)
    /\ Goto(p, "persist")
    /\ UNCHANGED <<trash, journal, plan, app, docs, erased, minted, holder, used>>

(* Mutant: the rows of a regenerated dossier keep the previous version. *)
MutantPersist(p) ==
    LET t == proc[p].tok IN
    /\ proc[p].pc = "persist" /\ DbFree(p)
    /\ IF app = "none"
       THEN Recovering(p, t, "exit") /\ UNCHANGED <<journal, app, docs>>
       ELSE /\ app' = IF app = "reserved" THEN "ready" ELSE app
            /\ docs' = IF app = "reserved" THEN t ELSE docs
            /\ journal' = [journal EXCEPT ![t].state = "committed"]
            /\ Becomes(p, [Resting("recover") EXCEPT !.tok = t])
    /\ UNCHANGED <<dir, trash, plan, erased, minted, holder, used>>

(* _persist_application and mark_committed in one transaction.  The date of *)
(* submission is never written: what another process sent after Validate    *)
(* stays sent.  A row deleted meanwhile makes it fail.                      *)
Persist(p) ==
    LET t == proc[p].tok IN
    /\ proc[p].pc = "persist" /\ DbFree(p)
    /\ IF app = "none"
       THEN Recovering(p, t, "exit") /\ UNCHANGED <<journal, app, docs>>
       ELSE /\ app' = IF app = "reserved" THEN "ready" ELSE app
            /\ docs' = t
            /\ journal' = [journal EXCEPT ![t].state = "committed"]
            /\ Becomes(p, [Resting("recover") EXCEPT !.tok = t])
    /\ UNCHANGED <<dir, trash, plan, erased, minted, holder, used>>

(* rollback of a publication that has no record *)
Discard(p) ==
    /\ proc[p].pc = "discard"
    /\ Put(Staging(proc[p].tok), Absent)
    /\ Exit(p)
    /\ UNCHANGED <<trash, journal, plan, app, docs, erased, minted, used>>

(* _release_application_reservation, outside the file lock.  A row with a   *)
(* note stays.                                                              *)
Release(p) ==
    /\ proc[p].pc = "release" /\ DbFree(p)
    /\ IF app = "reserved" THEN app' \in {"none", "reserved"} ELSE UNCHANGED app
    /\ Becomes(p, Resting("idle"))
    /\ UNCHANGED <<dir, trash, journal, plan, docs, erased, minted, holder, used>>

-----------------------------------------------------------------------------
(* delete_ready_offer *)

DeleteStart(p) ==
    /\ proc[p].pc = "idle" /\ app = "ready" /\ holder = None
    /\ Plan \ minted # {}   \* bound
    /\ holder' = p
    /\ Becomes(p, Resting("plan"))
    /\ UNCHANGED <<store, erased, minted, used>>

DeleteRecovers(p) ==
    /\ proc[p].pc = "plan"
    /\ \E t \in Pending : Recovering(p, t, "plan")
    /\ UNCHANGED <<store, erased, minted, holder, used>>

(* ApplicationOutputDeletion.__init__ and prepare: the plan names the       *)
(* directory and the siblings an interrupted rendering left                 *)
DeletePlan(p) ==
    /\ proc[p].pc = "plan" /\ Pending = {} /\ DbFree(p)
    /\ IF app # "ready" THEN Exit(p) /\ UNCHANGED <<plan, minted>>
       ELSE \E d \in Plan \ minted :
              LET entries == {Final} \cup {n \in Name : Exists(n)} IN
              /\ minted' = minted \cup {d}
              /\ plan' = [plan EXCEPT ![d] = [state |-> "prepared", entries |-> entries]]
              /\ Becomes(p, [Resting("begin") EXCEPT !.plan = d, !.names = entries])
              /\ UNCHANGED holder
    /\ UNCHANGED <<dir, trash, journal, app, docs, erased, used>>

(* BEGIN IMMEDIATE and the last check *)
DeleteBegin(p) ==
    /\ proc[p].pc = "begin" /\ DbFree(p)
    /\ Goto(p, IF app = "ready" THEN "stage" ELSE "restore")
    /\ UNCHANGED <<store, erased, minted, holder, used>>

(* The application directory is the first entry. *)
FirstOf(S) == IF Final \in S THEN {Final} ELSE S

StageOne(p) ==
    LET d == proc[p].plan IN
    /\ proc[p].pc = "stage"
    /\ \E n \in FirstOf(proc[p].names) :
          /\ IF Exists(n) THEN SetAside(d, n, dir[n]) ELSE UNCHANGED trash
          /\ Put(n, Absent)
          /\ Becomes(p, [proc[p] EXCEPT
                !.names = proc[p].names \ {n},
                !.pc = IF proc[p].names = {n} THEN "erase" ELSE "stage"])
    /\ UNCHANGED <<journal, plan, app, docs, erased, minted, holder, used>>

(* Mutant: the plan is not marked with the rows. *)
MutantEraseUnmarked(p) ==
    /\ proc[p].pc = "erase"
    /\ app' = "none" /\ docs' = None
    /\ erased' = erased \cup ({docs} \ {None})
    /\ Goto(p, "purge")
    /\ UNCHANGED <<dir, trash, journal, plan, minted, holder, used>>

(* erase_offer_rows and mark_committed, then the commit *)
Erase(p) ==
    /\ proc[p].pc = "erase"
    /\ app' = "none" /\ docs' = None
    /\ erased' = erased \cup ({docs} \ {None})
    /\ plan' = [plan EXCEPT ![proc[p].plan].state = "committed"]
    /\ Goto(p, "purge")
    /\ UNCHANGED <<dir, trash, journal, minted, holder, used>>

Trashed(d) == {n \in Name : trash[d][n] # Absent}

LeaveDeletion(p) ==
    IF proc[p].after = "bootPlans" THEN holder' = None /\ Resume(p, "bootPlans")
                                   ELSE Exit(p)

(* rollback: an entry whose original name is taken again stops it *)
RestoreOne(p) ==
    LET d == proc[p].plan IN
    /\ proc[p].pc = "restore"
    /\ \E n \in FirstOf(Trashed(d)) :
          IF Exists(n) THEN LeaveDeletion(p) /\ UNCHANGED <<dir, trash>>
          ELSE /\ Put(n, trash[d][n])
               /\ SetAside(d, n, Absent)
               /\ UNCHANGED <<holder, proc>>
    /\ UNCHANGED <<journal, plan, app, docs, erased, minted, used>>

(* finish *)
PurgeOne(p) ==
    LET d == proc[p].plan IN
    /\ proc[p].pc = "purge"
    /\ \E n \in FirstOf(Trashed(d)) : SetAside(d, n, Absent)
    /\ UNCHANGED <<dir, journal, plan, app, docs, erased, minted, holder, proc, used>>

(* _forget *)
Forget(p) ==
    LET d == proc[p].plan IN
    /\ proc[p].pc \in {"restore", "purge"} /\ Trashed(d) = {} /\ DbFree(p)
    /\ plan' = [plan EXCEPT ![d] = [state |-> "none", entries |-> {}]]
    /\ LeaveDeletion(p)
    /\ UNCHANGED <<dir, trash, journal, app, docs, erased, minted, used>>

-----------------------------------------------------------------------------
(* init_db: recover_application_publications, which reads each record again *)
(* under its lock, then recover_application_deletions, which acts on the    *)
(* rows read before the locks                                               *)

(* Mutant: publications are not reconciled at start. *)
MutantBoot(p) ==
    /\ proc[p].pc = "down"
    /\ Becomes(p, Resting("bootPubs"))
    /\ UNCHANGED <<store, erased, minted, holder, used>>

Boot(p) ==
    /\ proc[p].pc = "down"
    /\ Becomes(p, [Resting("bootPubs") EXCEPT !.keys = Pending])
    /\ UNCHANGED <<store, erased, minted, holder, used>>

BootPub(p) ==
    /\ proc[p].pc = "bootPubs"
    /\ \E t \in proc[p].keys :
          LET rest == proc[p].keys \ {t} IN
          IF holder # None \/ journal[t].state = "none"
          THEN Becomes(p, [proc[p] EXCEPT !.keys = rest]) /\ UNCHANGED holder
          ELSE /\ holder' = p
               /\ Becomes(p, [proc[p] EXCEPT !.pc = "recover", !.tok = t,
                                             !.after = "bootPubs", !.keys = rest])
    /\ UNCHANGED <<store, erased, minted, used>>

BootReadPlans(p) ==
    /\ proc[p].pc = "bootPubs" /\ proc[p].keys = {}
    /\ Becomes(p, [Resting("bootPlans") EXCEPT !.seen = [d \in Plan |-> plan[d].state]])
    /\ UNCHANGED <<store, erased, minted, holder, used>>

(* Mutants: every deletion found at start is finished; every one is undone. *)
MutantBootPlanPurges(p) ==
    /\ proc[p].pc = "bootPlans"
    /\ \E d \in Plan :
          /\ proc[p].seen[d] # "none"
          /\ LET next == [proc[p] EXCEPT !.seen[d] = "none"] IN
             IF holder # None THEN Becomes(p, next) /\ UNCHANGED holder
             ELSE /\ holder' = p
                  /\ Becomes(p, [next EXCEPT
                        !.plan = d, !.after = "bootPlans", !.pc = "purge"])
    /\ UNCHANGED <<store, erased, minted, used>>
MutantBootPlanRestores(p) ==
    /\ proc[p].pc = "bootPlans"
    /\ \E d \in Plan :
          /\ proc[p].seen[d] # "none"
          /\ LET next == [proc[p] EXCEPT !.seen[d] = "none"] IN
             IF holder # None THEN Becomes(p, next) /\ UNCHANGED holder
             ELSE /\ holder' = p
                  /\ Becomes(p, [next EXCEPT
                        !.plan = d, !.after = "bootPlans", !.pc = "restore"])
    /\ UNCHANGED <<store, erased, minted, used>>

BootPlan(p) ==
    /\ proc[p].pc = "bootPlans"
    /\ \E d \in Plan :
          /\ proc[p].seen[d] # "none"
          /\ LET next == [proc[p] EXCEPT !.seen[d] = "none"] IN
             IF holder # None THEN Becomes(p, next) /\ UNCHANGED holder
             ELSE /\ holder' = p
                  /\ Becomes(p, [next EXCEPT
                        !.plan = d, !.after = "bootPlans",
                        !.pc = IF proc[p].seen[d] = "committed" THEN "purge" ELSE "restore"])
    /\ UNCHANGED <<store, erased, minted, used>>

Booted(p) ==
    /\ proc[p].pc = "bootPlans" /\ \A d \in Plan : proc[p].seen[d] = "none"
    /\ Goto(p, "idle")
    /\ UNCHANGED <<store, erased, minted, holder, used>>

-----------------------------------------------------------------------------
(* The environment *)

(* mark_job_sent and update_application: only with documents, and not while *)
(* this process works on the offer                                          *)
Send(p) ==
    /\ proc[p].pc = "idle" /\ DbFree(p)
    /\ app = "ready"
    /\ app' = "sent"
    /\ UNCHANGED <<dir, trash, journal, plan, docs, erased, minted, holder, proc, used>>

Quit(p) ==
    /\ proc[p].pc = "idle"
    /\ Goto(p, "down")
    /\ UNCHANGED <<store, erased, minted, holder, used>>

Killed(p) ==
    /\ Becomes(p, Resting("down"))
    /\ holder' = IF holder = p THEN None ELSE holder

Crash(p) ==
    /\ proc[p].pc \notin {"down", "idle"}
    /\ used.crashes < MaxCrashes /\ used' = [used EXCEPT !.crashes = @ + 1]
    /\ Killed(p)
    /\ UNCHANGED <<store, erased, minted>>

(* A call to the file system or to SQLite raises, and changes nothing. *)
Fails(p) ==
    /\ used.faults < MaxFaults /\ used' = [used EXCEPT !.faults = @ + 1]
    /\ \/ proc[p].pc = "prepare" /\ Goto(p, "discard") /\ UNCHANGED <<dir, holder>>
       \/ /\ proc[p].pc \in {"validate", "swapOut", "persist"}
          /\ Recovering(p, proc[p].tok, "exit") /\ UNCHANGED <<dir, holder>>
       \/ proc[p].pc = "recover" /\ Return(p, FALSE) /\ UNCHANGED dir
       \/ proc[p].pc \in {"discard", "plan"} /\ Exit(p) /\ UNCHANGED dir
       \/ proc[p].pc \in {"begin", "stage", "erase"} /\ Goto(p, "restore") /\ UNCHANGED <<dir, holder>>
       \/ proc[p].pc \in {"restore", "purge"} /\ LeaveDeletion(p) /\ UNCHANGED dir
    /\ UNCHANGED <<trash, journal, plan, app, docs, erased, minted>>

(* publish: the second rename raises, and the first one is undone if that   *)
(* rename does not raise too                                                *)
SwapInFails(p) ==
    LET b == Backup(proc[p].tok) IN
    /\ used.faults < MaxFaults /\ used' = [used EXCEPT !.faults = @ + 1]
    /\ proc[p].pc = "swapIn"
    /\ \/ UNCHANGED dir
       \/ Exists(b) /\ ~Exists(Final) /\ Rename(b, Final)
    /\ Recovering(p, proc[p].tok, "exit")
    /\ UNCHANGED <<trash, journal, plan, app, docs, erased, minted, holder>>

(* rmtree stops after it removed some files, the marker among them or not:  *)
(* it raises, or the process is killed.                                     *)
Torn(c) == {[c EXCEPT !.whole = FALSE, !.marked = m] : m \in {FALSE, c.marked}}

RecoverTorn(p) ==
    LET t == proc[p].tok IN
    /\ used.torn < MaxTorn /\ used' = [used EXCEPT !.torn = @ + 1]
    /\ proc[p].pc = "recover" /\ Removable(t)
    /\ \E c \in Torn(dir[Garbage(t)]) : Put(Garbage(t), c)
    /\ Return(p, FALSE) \/ Killed(p)
    /\ UNCHANGED <<trash, journal, plan, app, docs, erased, minted>>

PurgeTorn(p) ==
    LET d == proc[p].plan IN
    /\ used.torn < MaxTorn /\ used' = [used EXCEPT !.torn = @ + 1]
    /\ proc[p].pc = "purge"
    /\ \E n \in FirstOf(Trashed(d)) : \E c \in Torn(trash[d][n]) :
          SetAside(d, n, c)
    /\ LeaveDeletion(p) \/ Killed(p)
    /\ UNCHANGED <<dir, journal, plan, app, docs, erased, minted>>

-----------------------------------------------------------------------------
Publishing(p) ==
    \/ Reserve(p) \/ EnterLock(p) \/ OpenRecovers(p) \/ Open(p) \/ Render(p) \/ GiveUp(p)
    \/ Prepare(p) \/ Validate(p) \/ SwapOut(p) \/ SwapIn(p) \/ Persist(p)
    \/ Discard(p) \/ Release(p)
Reconciling(p) ==
    RecoverRefuses(p) \/ RecoverRemoves(p) \/ RecoverRestores(p) \/ RecoverEnds(p)
Deleting(p) ==
    \/ DeleteStart(p) \/ DeleteRecovers(p) \/ DeletePlan(p) \/ DeleteBegin(p) \/ StageOne(p)
    \/ Erase(p) \/ RestoreOne(p) \/ PurgeOne(p) \/ Forget(p)
Booting(p) == Boot(p) \/ BootPub(p) \/ BootReadPlans(p) \/ BootPlan(p) \/ Booted(p)
Troubles(p) == Crash(p) \/ Fails(p) \/ SwapInFails(p) \/ RecoverTorn(p) \/ PurgeTorn(p)

Next == \E p \in Proc :
    \/ Publishing(p) \/ Reconciling(p) \/ Deleting(p) \/ Booting(p)
    \/ Send(p) \/ Quit(p) \/ Troubles(p)

Spec == Init /\ [][Next]_vars

(* A process takes the next step of the call it is in, and the user opens   *)
(* the application again; nobody has to start a generation or a deletion.   *)
Working(p) ==
    \/ EnterLock(p) \/ OpenRecovers(p) \/ Open(p) \/ Render(p) \/ Prepare(p) \/ Validate(p)
    \/ GiveUp(p) \/ SwapOut(p) \/ SwapIn(p) \/ Persist(p) \/ Discard(p) \/ Release(p)
    \/ Reconciling(p) \/ DeleteRecovers(p) \/ DeletePlan(p) \/ DeleteBegin(p) \/ StageOne(p)
    \/ Erase(p) \/ RestoreOne(p) \/ PurgeOne(p) \/ Forget(p) \/ Booting(p)
FairSpec == Spec /\ \A p \in Proc : WF_vars(Working(p))

-----------------------------------------------------------------------------
(* Properties *)

(* A whole copy of the version the database describes is always somewhere   *)
(* a recovery looks: in its place, in the backup of an unfinished           *)
(* publication, or among the directories an unfinished deletion set aside.  *)
NeverLost == docs # None =>
    \/ Holds(dir[Final], docs)
    \/ \E t \in Token : /\ journal[t].state = "prepared" /\ journal[t].had
                        /\ Holds(dir[Backup(t)], docs)
    \/ \E d \in Plan : plan[d].state = "prepared" /\ Holds(trash[d][Final], docs)

(* Once the database has decided for a version, nothing takes its files out *)
(* of their place before its record is closed.                              *)
CommittedStays == \A t \in Token :
    journal[t].state = "committed" => docs = t /\ Holds(dir[Final], t) /\ Belongs(Final, t)

(* One publication at a time: a second one never starts before the record   *)
(* of the first is closed.                                                  *)
OneRecord == \A s, t \in Token :
    journal[s].state # "none" /\ journal[t].state # "none" => s = t

(* Files and rows agree whenever every window is up and at rest, however    *)
(* its earlier calls were killed (no call raised in the meantime): the      *)
(* described version is in place, and no journal row and no copy of a       *)
(* version that was replaced or erased is left.                             *)
AtRest == used.faults = 0 /\ \A p \in Proc : proc[p].pc = "idle"
FilesMatchDatabase == AtRest =>
    /\ IF docs = None THEN ~Exists(Final) ELSE Holds(dir[Final], docs)
    /\ \A t \in Token : journal[t].state = "none" /\ ~Exists(Backup(t))
    /\ \A d \in Plan : plan[d].state = "none" /\ Trashed(d) = {}

(* A version erased with its offer never comes back under the directory. *)
ErasedStaysErased == dir[Final].of \notin erased

(* The version one finds in place once interrupted work is reconciled: the  *)
(* backup of an unfinished publication, or the directory an unfinished      *)
(* deletion set aside, comes back.                                          *)
VersionOf(c) == IF c.whole THEN c.of ELSE None
Shown ==
    LET undone == {t \in Pending : journal[t].state = "prepared"}
        aside  == {d \in Plan : plan[d].state = "prepared" /\ trash[d][Final] # Absent} IN
    IF undone # {}
    THEN LET t == CHOOSE t \in undone : TRUE IN
         IF MustRestore(t) THEN VersionOf(dir[Backup(t)])
         ELSE IF journal[t].had THEN VersionOf(dir[Final]) ELSE None
    ELSE IF ~Exists(Final) /\ aside # {}
         THEN VersionOf(trash[CHOOSE d \in aside : TRUE][Final])
         ELSE VersionOf(dir[Final])

(* The rows and the files change at once: every step is a step of Dossier,  *)
(* or changes neither.                                                      *)
Atomic == INSTANCE Dossier WITH status <- app, version <- Shown
ChangesAtOnce == Atomic!Spec

(* Every record of an interrupted publication or deletion is closed. *)
RecordsClose ==
    /\ \A t \in Token : (journal[t].state # "none") ~> (journal[t].state = "none")
    /\ \A d \in Plan : (plan[d].state # "none") ~> (plan[d].state = "none")

=============================================================================
