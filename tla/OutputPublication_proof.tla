----------------------- MODULE OutputPublication_proof -----------------------
(***************************************************************************)
(* Proofs about OutputPublication, for any number of processes, tokens and *)
(* deletions, and any number of crashes and failures.                      *)
(***************************************************************************)
EXTENDS OutputPublication, TLAPS

-----------------------------------------------------------------------------
(* The inductive invariant *)

Locked == {"write", "render", "prepare", "validate", "swapOut", "swapIn", "persist",
           "discard", "recover", "plan", "begin", "stage", "erase", "restore", "purge"}

(* The file lock belongs to the process that is inside its section. *)
Locking == \A p \in Proc : proc[p].pc \in Locked <=> holder = p

(* What exists was named by a token that will not be drawn again. *)
Minting ==
    /\ docs # None => docs \in minted
    /\ \A t \in Token : journal[t].state # "none" => t \in minted
    /\ \A d \in Plan : plan[d].state # "none" => d \in minted
    /\ \A d \in Plan : trash[d][Final] # Absent => d \in minted

(* A version whose record is undecided is not the one the database has. *)
Undecided == \A t \in Token : journal[t].state = "prepared" => docs # t

Ready(c, t) == c.of = t /\ c.whole = TRUE /\ c.marked = TRUE
NoRecord == \A t \in Token : journal[t].state = "none"

(* The version of the database is somewhere no publication put it. *)
Kept == \/ Holds(dir[Final], docs)
        \/ \E d \in Plan : plan[d].state = "prepared" /\ Holds(trash[d][Final], docs)

(* What the place in its call says of the record and the directories *)
PhaseOf(r) ==
    /\ r.pc \in {"render", "prepare", "discard"} => r.tok \in Token
    /\ r.pc \in {"render", "prepare"} =>
          /\ r.tok \in minted /\ docs # r.tok /\ NoRecord
          /\ dir[Staging(r.tok)].of = r.tok
    /\ r.pc = "prepare" => dir[Staging(r.tok)].whole = TRUE
    /\ r.pc = "discard" => NoRecord
    /\ r.pc \in {"validate", "swapOut", "swapIn", "persist"} =>
          r.tok \in Token /\ journal[r.tok].state = "prepared"
    /\ r.pc \in {"validate", "swapOut", "swapIn"} => Ready(dir[Staging(r.tok)], r.tok)
    /\ r.pc \in {"validate", "swapOut"} =>
          /\ Exists(Final) => journal[r.tok].had = TRUE
          /\ docs # None => Kept
    /\ r.pc = "swapIn" => ~Exists(Final)
    /\ r.pc = "persist" => Ready(dir[Final], r.tok)
    /\ r.pc = "recover" => r.tok \in Token /\ journal[r.tok].state # "none"
    /\ r.pc \in {"begin", "stage", "erase"} =>
          r.plan \in Plan /\ plan[r.plan].state = "prepared" /\ NoRecord
    /\ r.pc \in {"begin", "stage"} /\ Final \in r.names => trash[r.plan][Final] = Absent
    /\ r.pc \in {"restore", "purge"} => r.plan \in Plan
    /\ r.pc = "purge" => plan[r.plan].state # "prepared"

(* A deletion row read before the lock may be out of date in one way only: *)
(* a row seen committed has not gone back.                                  *)
SeenOf(r) == \A d \in Plan :
    /\ r.seen[d] # "none" => d \in minted
    /\ r.seen[d] = "committed" => plan[d].state # "prepared"

Phases == \A p \in Proc : PhaseOf(proc[p]) /\ SeenOf(proc[p])

(* What is said of directories and rows alone *)
StoreOK ==
    /\ dir \in [Name -> Content] /\ trash \in [Plan -> [Name -> Content]]
    /\ journal \in [Token -> [state : Rows, had : BOOLEAN]]
    /\ plan \in [Plan -> [state : Rows, entries : SUBSET Name]]
    /\ app \in {"none", "reserved", "ready", "sent"} /\ docs \in Token \cup {None}
    /\ erased \subseteq Token /\ minted \subseteq Token \cup Plan
    /\ used \in [crashes : Nat, faults : Nat, torn : Nat]

SInv == StoreOK /\ Minting /\ Undecided /\ OneRecord /\ CommittedStays /\ NeverLost

IInv == TypeOK /\ Locking /\ Phases /\ SInv

-----------------------------------------------------------------------------
(* Directories and local states *)

LEMMA Names ==
    /\ Final \in Name
    /\ \A t \in Token : Staging(t) \in Name /\ Backup(t) \in Name
    /\ \A t \in Token : Final # Staging(t) /\ Final # Backup(t)
    /\ \A s, t \in Token : Staging(s) # Backup(t)
    /\ \A s, t \in Token : s # t => Backup(s) # Backup(t) /\ Staging(s) # Staging(t)
  <1>1. \A t \in Token : <<"staging", t>> \in {"staging", "backup"} \X Token
    OBVIOUS
  <1>2. \A t \in Token : <<"backup", t>> \in {"staging", "backup"} \X Token
    OBVIOUS
  <1>3. \A s, t : <<"staging", s>> # <<"backup", t>>
    OBVIOUS
  <1>4. \A t : <<"final", None>> # <<"staging", t>> /\ <<"final", None>> # <<"backup", t>>
    OBVIOUS
  <1>5. \A s, t : s # t => <<"backup", s>> # <<"backup", t>> /\ <<"staging", s>> # <<"staging", t>>
    OBVIOUS
  <1> QED BY <1>1, <1>2, <1>3, <1>4, <1>5 DEF Name, Final, Staging, Backup

LEMMA AbsentType == Absent \in Content /\ Absent.of = None /\ Absent.whole = FALSE
  BY DEF Absent, Content

LEMMA ContentUpdates ==
    ASSUME NEW c \in Content
    PROVE  /\ \A t \in Token : [Absent EXCEPT !.of = t] \in Content /\ [Absent EXCEPT !.of = t].of = t
           /\ [c EXCEPT !.whole = TRUE] \in Content
           /\ [c EXCEPT !.whole = TRUE].of = c.of /\ [c EXCEPT !.whole = TRUE].whole = TRUE
           /\ [c EXCEPT !.marked = TRUE] \in Content
           /\ c.whole = TRUE => Ready([c EXCEPT !.marked = TRUE], c.of)
           /\ \A x \in Torn(c) : x \in Content
           /\ \A t \in Token : Ready(c, t) => Holds(c, t) /\ c.marked /\ c.of = t
  <1>1. \A t \in Token : [Absent EXCEPT !.of = t] \in Content /\ [Absent EXCEPT !.of = t].of = t
    BY DEF Absent, Content
  <1>2. /\ [c EXCEPT !.whole = TRUE] \in Content
        /\ [c EXCEPT !.whole = TRUE].of = c.of /\ [c EXCEPT !.whole = TRUE].whole = TRUE
        /\ [c EXCEPT !.marked = TRUE] \in Content
    BY DEF Content
  <1>3. c.whole = TRUE => Ready([c EXCEPT !.marked = TRUE], c.of)
    BY DEF Content, Ready
  <1>4. \A m \in BOOLEAN : [c EXCEPT !.whole = FALSE, !.marked = m] \in Content
    BY DEF Content
  <1>5. \A x \in Torn(c) : x \in Content
    <2>1. c.marked \in BOOLEAN
      BY DEF Content
    <2> QED BY <1>4, <2>1 DEF Torn
  <1>6. \A t \in Token : Ready(c, t) => Holds(c, t) /\ c.marked /\ c.of = t
    BY DEF Content, Ready, Holds
  <1> QED BY <1>1, <1>2, <1>3, <1>5, <1>6

LEMMA PutEffect ==
    ASSUME dir \in [Name -> Content], NEW n \in Name, NEW c \in Content, Put(n, c)
    PROVE  /\ dir' \in [Name -> Content] /\ dir'[n] = c
           /\ \A m \in Name : m # n => dir'[m] = dir[m]
  BY DEF Put

LEMMA RenameEffect ==
    ASSUME dir \in [Name -> Content], NEW n \in Name, NEW m \in Name, n # m, Rename(n, m)
    PROVE  /\ dir' \in [Name -> Content] /\ dir'[n] = Absent /\ dir'[m] = dir[n]
           /\ \A k \in Name : k # n /\ k # m => dir'[k] = dir[k]
  BY AbsentType DEF Rename

LEMMA SetAsideEffect ==
    ASSUME trash \in [Plan -> [Name -> Content]], NEW d \in Plan, NEW n \in Name,
           NEW c \in Content, SetAside(d, n, c)
    PROVE  /\ trash' \in [Plan -> [Name -> Content]] /\ trash'[d][n] = c
           /\ \A e \in Plan, m \in Name : e # d \/ m # n => trash'[e][m] = trash[e][m]
  BY DEF SetAside

LEMMA BecomesEffect ==
    ASSUME proc \in [Proc -> Locals], NEW p \in Proc, NEW r \in Locals, Becomes(p, r)
    PROVE  /\ proc' \in [Proc -> Locals] /\ proc'[p] = r
           /\ \A q \in Proc : q # p => proc'[q] = proc[q]
  BY DEF Becomes

LEMMA RestingType ==
    ASSUME NEW l \in Labels
    PROVE  /\ Resting(l) \in Locals /\ Resting(l).pc = l
           /\ \A d \in Plan : Resting(l).seen[d] = "none"
  BY DEF Resting, Locals, Labels, Rows

LEMMA LocalsFields ==
    ASSUME NEW r \in Locals
    PROVE  /\ r.pc \in Labels /\ r.tok \in Token \cup {None} /\ r.plan \in Plan \cup {None}
           /\ r.after \in {"exit", "write", "plan", "bootPubs", "bootPlans"}
           /\ r.release \in BOOLEAN /\ r.names \subseteq Name /\ r.keys \subseteq Token
           /\ r.seen \in [Plan -> Rows]
  BY DEF Locals

(* Each way the actions update a local state *)
LEMMA GotoUpdate ==
    ASSUME NEW r \in Locals, NEW l \in Labels
    PROVE  /\ [r EXCEPT !.pc = l] \in Locals
           /\ [r EXCEPT !.pc = l].pc = l /\ [r EXCEPT !.pc = l].tok = r.tok
           /\ [r EXCEPT !.pc = l].plan = r.plan /\ [r EXCEPT !.pc = l].seen = r.seen
           /\ [r EXCEPT !.pc = l].names = r.names
  BY DEF Locals

LEMMA ResumeUpdate ==
    ASSUME NEW r \in Locals, NEW q \in Locals
    PROVE  LET x == [q EXCEPT !.snap = r.snap, !.release = r.release,
                              !.keys = r.keys, !.seen = r.seen]
           IN x \in Locals /\ x.pc = q.pc /\ x.seen = r.seen
  BY DEF Locals

-----------------------------------------------------------------------------
(* How a call leaves its section.  Free labels carry no obligation.        *)

Free(r) == r.pc \notin {"render", "prepare", "discard", "validate", "swapOut", "swapIn",
                        "persist", "recover", "begin", "stage", "erase", "restore", "purge"}

(* p goes on with r; the lock is held exactly inside the section. *)
Moves(p, r) ==
    /\ r \in Locals /\ Becomes(p, r)
    /\ holder' = IF r.pc \in Locked THEN p ELSE None
    /\ \A d \in Plan : r.seen[d] \in {"none", proc[p].seen[d]}

LEMMA ExitMoves ==
    ASSUME TypeOK, NEW p \in Proc, Exit(p)
    PROVE  \E r : Moves(p, r) /\ Free(r)
  <1> DEFINE l == IF proc[p].release THEN "release" ELSE "idle"
  <1>1. l \in Labels /\ l \notin Locked /\ l \in {"release", "idle"}
    BY DEF Labels, Locked
  <1>2. Becomes(p, Resting(l)) /\ holder' = None
    BY DEF Exit
  <1>3. Resting(l) \in Locals /\ Resting(l).pc = l /\ \A d \in Plan : Resting(l).seen[d] = "none"
    BY <1>1, RestingType
  <1> QED BY <1>1, <1>2, <1>3 DEF Moves, Free

LEMMA ResumeMoves ==
    ASSUME TypeOK, NEW p \in Proc, NEW l \in {"bootPubs", "bootPlans", "write", "plan"},
           Resume(p, l), holder' = IF l \in Locked THEN p ELSE None
    PROVE  \E r : Moves(p, r) /\ Free(r)
  <1>1. l \in Labels /\ proc[p] \in Locals
    BY DEF Labels, TypeOK
  <1>2. Resting(l) \in Locals /\ Resting(l).pc = l
    BY <1>1, RestingType
  <1> DEFINE x == [Resting(l) EXCEPT !.snap = proc[p].snap, !.release = proc[p].release,
                                     !.keys = proc[p].keys, !.seen = proc[p].seen]
  <1>3. x \in Locals /\ x.pc = l /\ x.seen = proc[p].seen
    BY <1>1, <1>2, ResumeUpdate
  <1>4. Becomes(p, x)
    BY DEF Resume
  <1> HIDE DEF x
  <1> QED BY <1>3, <1>4 DEF Moves, Free

LEMMA ReturnMoves ==
    ASSUME TypeOK, NEW p \in Proc, holder = p, NEW ok \in BOOLEAN, Return(p, ok)
    PROVE  \E r : Moves(p, r) /\ Free(r)
  <1>1. CASE proc[p].after = "bootPubs"
    <2>1. Resume(p, "bootPubs") /\ holder' = None
      BY <1>1 DEF Return
    <2> QED BY <2>1, ResumeMoves DEF Locked
  <1>2. CASE proc[p].after # "bootPubs" /\ ok /\ proc[p].after \in {"write", "plan"}
    <2>1. Resume(p, proc[p].after) /\ holder' = p
      BY <1>2 DEF Return
    <2> QED BY <1>2, <2>1, ResumeMoves DEF Locked
  <1>3. CASE proc[p].after # "bootPubs" /\ ~(ok /\ proc[p].after \in {"write", "plan"})
    BY <1>3, ExitMoves DEF Return
  <1> QED BY <1>1, <1>2, <1>3

LEMMA LeaveMoves ==
    ASSUME TypeOK, NEW p \in Proc, holder = p, LeaveDeletion(p)
    PROVE  \E r : Moves(p, r) /\ Free(r)
  <1>1. CASE proc[p].after = "bootPlans"
    <2>1. Resume(p, "bootPlans") /\ holder' = None
      BY <1>1 DEF LeaveDeletion
    <2> QED BY <2>1, ResumeMoves DEF Locked
  <1>2. CASE proc[p].after # "bootPlans"
    BY <1>2, ExitMoves DEF LeaveDeletion
  <1> QED BY <1>1, <1>2

LEMMA KilledMoves ==
    ASSUME TypeOK, NEW p \in Proc, holder = p, Killed(p)
    PROVE  \E r : Moves(p, r) /\ Free(r)
  <1>1. "down" \in Labels
    BY DEF Labels
  <1> QED BY <1>1, RestingType DEF Killed, Moves, Free, Locked

LEMMA RowEffect ==
    ASSUME journal \in [Token -> [state : Rows, had : BOOLEAN]], NEW t \in Token,
           NEW x \in [state : Rows, had : BOOLEAN], journal' = [journal EXCEPT ![t] = x]
    PROVE  /\ journal' \in [Token -> [state : Rows, had : BOOLEAN]] /\ journal'[t] = x
           /\ \A s \in Token : s # t => journal'[s] = journal[s]
  OBVIOUS

LEMMA PlanEffect ==
    ASSUME plan \in [Plan -> [state : Rows, entries : SUBSET Name]], NEW d \in Plan,
           NEW x \in [state : Rows, entries : SUBSET Name], plan' = [plan EXCEPT ![d] = x]
    PROVE  /\ plan' \in [Plan -> [state : Rows, entries : SUBSET Name]] /\ plan'[d] = x
           /\ \A e \in Plan : e # d => plan'[e] = plan[e]
  OBVIOUS

-----------------------------------------------------------------------------
(* What every step of one process has in common *)

(* A committed or missing plan is never prepared again. *)
Decided == \A d \in Plan : d \in minted /\ plan'[d].state = "prepared" => plan[d].state = "prepared"

(* The obligations of a process outside the section are those of its reads. *)
LEMMA SeenKept ==
    ASSUME NEW r, SeenOf(r), minted \subseteq minted', Decided, NEW q \in Proc,
           \A d \in Plan : proc'[q].seen[d] \in {"none", r.seen[d]}
    PROVE  SeenOf(proc[q])'
  <1> SUFFICES ASSUME NEW d \in Plan
               PROVE  /\ proc'[q].seen[d] # "none" => d \in minted'
                      /\ proc'[q].seen[d] = "committed" => plan'[d].state # "prepared"
    BY DEF SeenOf
  <1>1. r.seen[d] # "none" => d \in minted
    BY DEF SeenOf
  <1>2. r.seen[d] = "committed" => plan[d].state # "prepared"
    BY DEF SeenOf
  <1>3. r.seen[d] = "committed" => plan'[d].state # "prepared"
    BY <1>1, <1>2 DEF Decided
  <1> QED BY <1>1, <1>3

LEMMA FreePhaseNext ==
    ASSUME NEW q \in Proc, NEW r, proc'[q] = r, Free(r)
    PROVE  PhaseOf(proc[q])'
  BY DEF Free, PhaseOf

LEMMA OutsideFree ==
    ASSUME IInv, NEW q \in Proc, holder # q
    PROVE  Free(proc[q]) /\ proc[q].pc \notin Locked
  BY DEF IInv, Locking, Locked, Free

(* The process that holds the lock takes a step. *)
LEMMA OwnerStep ==
    ASSUME IInv, NEW p \in Proc, holder = p, NEW r, Moves(p, r), SInv',
           minted \subseteq minted', Decided, PhaseOf(proc[p])'
    PROVE  IInv'
  <1>1. proc \in [Proc -> Locals] /\ r \in Locals /\ Becomes(p, r)
    BY DEF IInv, TypeOK, Moves
  <1>2. /\ proc' \in [Proc -> Locals] /\ proc'[p] = r
        /\ \A q \in Proc : q # p => proc'[q] = proc[q]
    BY <1>1, BecomesEffect
  <1>3. holder' = (IF r.pc \in Locked THEN p ELSE None) /\ p # None
    BY NoneAssumption DEF Moves
  <1>4. TypeOK'
    <2>1. holder' \in Proc \cup {None}
      BY <1>3
    <2>2. StoreOK'
      BY DEF SInv
    <2> QED BY <1>2, <2>1, <2>2 DEF StoreOK, TypeOK
  <1>5. Locking'
    <2> SUFFICES ASSUME NEW q \in Proc PROVE proc'[q].pc \in Locked <=> holder' = q
      BY DEF Locking
    <2>1. CASE q = p
      BY <2>1, <1>2, <1>3
    <2>2. CASE q # p
      <3>1. proc[q].pc \notin Locked
        BY <2>2, OutsideFree
      <3>2. proc'[q].pc \notin Locked /\ holder' # q
        BY <2>2, <3>1, <1>2, <1>3, NoneAssumption
      <3> QED BY <3>2
    <2> QED BY <2>1, <2>2
  <1>6. Phases'
    <2> SUFFICES ASSUME NEW q \in Proc PROVE PhaseOf(proc[q])' /\ SeenOf(proc[q])'
      BY DEF Phases
    <2>1. SeenOf(proc[q])
      BY DEF IInv, Phases
    <2>2. CASE q = p
      <3>1. \A d \in Plan : proc'[q].seen[d] \in {"none", proc[q].seen[d]}
        BY <2>2, <1>2 DEF Moves
      <3>2. SeenOf(proc[q])'
        BY <2>1, <3>1, SeenKept
      <3> QED BY <3>2, <2>2
    <2>3. CASE q # p
      <3>1. Free(proc[q]) /\ proc'[q] = proc[q]
        BY <2>3, <1>2, OutsideFree
      <3>2. PhaseOf(proc[q])'
        BY <3>1, FreePhaseNext
      <3>3. \A d \in Plan : proc'[q].seen[d] \in {"none", proc[q].seen[d]}
        BY <3>1
      <3>4. SeenOf(proc[q])'
        BY <2>1, <3>3, SeenKept
      <3> QED BY <3>2, <3>4
    <2> QED BY <2>2, <2>3
  <1> QED BY <1>4, <1>5, <1>6 DEF IInv

(* Leaving the section needs nothing but the store. *)
LEMMA OwnerLeaves ==
    ASSUME IInv, NEW p \in Proc, holder = p, \E r : Moves(p, r) /\ Free(r), SInv',
           minted \subseteq minted', Decided
    PROVE  IInv'
  <1>1. PICK r : Moves(p, r) /\ Free(r)
    OBVIOUS
  <1>2. proc'[p] = r
    BY <1>1, BecomesEffect DEF Moves, IInv, TypeOK
  <1>3. PhaseOf(proc[p])'
    BY <1>1, <1>2, FreePhaseNext
  <1> QED BY <1>1, <1>3, OwnerStep

(* A step that stays where it is *)
LEMMA StayMoves ==
    ASSUME IInv, NEW p \in Proc, holder = p, UNCHANGED <<holder, proc>>
    PROVE  Moves(p, proc[p])
  <1>1. proc[p] \in Locals /\ Becomes(p, proc[p])
    BY DEF IInv, TypeOK, Becomes
  <1>2. proc[p].pc \in Locked
    BY DEF IInv, Locking
  <1> QED BY <1>1, <1>2 DEF Moves

-----------------------------------------------------------------------------
(* Steps that leave the directories and the rows alone *)

Still == UNCHANGED <<dir, trash, journal, plan, docs, erased, minted>>

LEMMA StillStore ==
    ASSUME SInv, Still, app' \in {"none", "reserved", "ready", "sent"},
           used' \in [crashes : Nat, faults : Nat, torn : Nat]
    PROVE  SInv' /\ minted \subseteq minted' /\ Decided
  <1>1. StoreOK'
    BY DEF SInv, StoreOK, Still
  <1>2. Minting' /\ Undecided' /\ OneRecord'
    BY DEF SInv, Minting, Undecided, OneRecord, Still
  <1>3. CommittedStays' /\ NeverLost'
    BY DEF SInv, CommittedStays, NeverLost, Belongs, Still
  <1>4. minted \subseteq minted' /\ Decided
    BY DEF Still, Decided
  <1> QED BY <1>1, <1>2, <1>3, <1>4 DEF SInv

LEMMA StillPhase ==
    ASSUME Still, NEW p \in Proc, NEW r, proc'[p] = r, PhaseOf(r)
    PROVE  PhaseOf(proc[p])'
  <1>1. dir' = dir /\ trash' = trash /\ journal' = journal /\ plan' = plan /\ docs' = docs
        /\ minted' = minted
    BY DEF Still
  <1> QED BY <1>1 DEF PhaseOf, NoRecord, Kept, Exists

(* The holder of the lock goes on, or leaves. *)
LEMMA StillOwner ==
    ASSUME IInv, Still, app' \in {"none", "reserved", "ready", "sent"},
           used' \in [crashes : Nat, faults : Nat, torn : Nat],
           NEW p \in Proc, holder = p, NEW r, Moves(p, r), PhaseOf(r)
    PROVE  IInv'
  <1>1. SInv' /\ minted \subseteq minted' /\ Decided
    BY StillStore DEF IInv
  <1>2. proc'[p] = r
    BY BecomesEffect DEF Moves, IInv, TypeOK
  <1>3. PhaseOf(proc[p])'
    BY <1>2, StillPhase
  <1> QED BY <1>1, <1>3, OwnerStep

(* A process outside the section stays outside, or takes the free lock. *)
LEMMA StillOther ==
    ASSUME IInv, Still, app' \in {"none", "reserved", "ready", "sent"},
           used' \in [crashes : Nat, faults : Nat, torn : Nat],
           NEW p \in Proc, holder # p, NEW r \in Locals, Becomes(p, r), PhaseOf(r), SeenOf(r),
           \/ r.pc \notin Locked /\ holder' = holder
           \/ r.pc \in Locked /\ holder = None /\ holder' = p
    PROVE  IInv'
  <1>1. SInv' /\ minted \subseteq minted' /\ Decided
    BY StillStore DEF IInv
  <1>2. /\ proc' \in [Proc -> Locals] /\ proc'[p] = r
        /\ \A q \in Proc : q # p => proc'[q] = proc[q]
    BY BecomesEffect DEF IInv, TypeOK
  <1>3. holder \in Proc \cup {None}
    BY DEF IInv, TypeOK
  <1>4. TypeOK'
    <2>1. holder' \in Proc \cup {None}
      BY <1>3
    <2>2. StoreOK'
      BY <1>1 DEF SInv
    <2> QED BY <1>2, <2>1, <2>2 DEF StoreOK, TypeOK
  <1>5. Locking'
    <2> SUFFICES ASSUME NEW q \in Proc PROVE proc'[q].pc \in Locked <=> holder' = q
      BY DEF Locking
    <2>1. CASE q = p
      BY <2>1, <1>2
    <2>2. CASE q # p
      <3>1. proc[q].pc \in Locked <=> holder = q
        BY DEF IInv, Locking
      <3>2. holder' = q <=> holder = q
        BY <2>2, NoneAssumption
      <3> QED BY <2>2, <3>1, <3>2, <1>2
    <2> QED BY <2>1, <2>2
  <1>6. Phases'
    <2> SUFFICES ASSUME NEW q \in Proc PROVE PhaseOf(proc[q])' /\ SeenOf(proc[q])'
      BY DEF Phases
    <2>1. PICK x : proc'[q] = x /\ PhaseOf(x) /\ SeenOf(x)
      <3>1. CASE q = p
        BY <3>1, <1>2
      <3>2. CASE q # p
        BY <3>2, <1>2 DEF IInv, Phases
      <3> QED BY <3>1, <3>2
    <2>2. \A d \in Plan : proc'[q].seen[d] \in {"none", x.seen[d]}
      BY <2>1
    <2> QED BY <1>1, <2>1, <2>2, SeenKept, StillPhase
  <1> QED BY <1>1, <1>4, <1>5, <1>6 DEF IInv

LEMMA At ==
    ASSUME IInv, NEW p \in Proc
    PROVE  /\ proc[p] \in Locals /\ PhaseOf(proc[p]) /\ SeenOf(proc[p])
           /\ proc[p].pc \in Locked <=> holder = p
           /\ p # None /\ holder \in Proc \cup {None}
           /\ app \in {"none", "reserved", "ready", "sent"}
           /\ used \in [crashes : Nat, faults : Nat, torn : Nat]
  BY NoneAssumption DEF IInv, TypeOK, Phases, Locking

LEMMA SpentType ==
    ASSUME IInv
    PROVE  /\ [used EXCEPT !.crashes = @ + 1] \in [crashes : Nat, faults : Nat, torn : Nat]
           /\ [used EXCEPT !.faults = @ + 1] \in [crashes : Nat, faults : Nat, torn : Nat]
           /\ [used EXCEPT !.torn = @ + 1] \in [crashes : Nat, faults : Nat, torn : Nat]
  BY DEF IInv, TypeOK

LEMMA StillLeaves ==
    ASSUME IInv, Still, app' = app, used' \in [crashes : Nat, faults : Nat, torn : Nat],
           NEW p \in Proc, holder = p, \E r : Moves(p, r) /\ Free(r)
    PROVE  IInv'
  <1>1. SInv' /\ minted \subseteq minted' /\ Decided
    BY StillStore, At DEF IInv
  <1> QED BY <1>1, OwnerLeaves

(* Going on to another label, and on to a recovery *)
LEMMA GotoMoves ==
    ASSUME IInv, NEW p \in Proc, holder = p, NEW l \in Locked, l \in Labels, Goto(p, l),
           holder' = holder
    PROVE  /\ Moves(p, [proc[p] EXCEPT !.pc = l])
           /\ proc'[p] = [proc[p] EXCEPT !.pc = l]
  <1>1. proc[p] \in Locals /\ proc \in [Proc -> Locals]
    BY At DEF IInv, TypeOK
  <1> DEFINE r == [proc[p] EXCEPT !.pc = l]
  <1>2. r \in Locals /\ r.pc = l /\ r.seen = proc[p].seen
    BY <1>1, GotoUpdate
  <1>3. Becomes(p, r)
    BY DEF Goto
  <1> HIDE DEF r
  <1>4. Moves(p, r)
    BY <1>2, <1>3 DEF Moves
  <1>5. proc'[p] = r
    BY <1>1, <1>2, <1>3, BecomesEffect
  <1> QED BY <1>4, <1>5 DEF r

LEMMA RecoveringMoves ==
    ASSUME IInv, NEW p \in Proc, holder = p, NEW t \in Token,
           NEW a \in {"exit", "write", "plan"}, Recovering(p, t, a), holder' = holder
    PROVE  \E r : Moves(p, r) /\ proc'[p] = r /\ r.pc = "recover" /\ r.tok = t
  <1>1. proc[p] \in Locals /\ proc \in [Proc -> Locals]
    BY At DEF IInv, TypeOK
  <1> DEFINE r == [proc[p] EXCEPT !.pc = "recover", !.tok = t, !.after = a]
  <1>2. r \in Locals /\ r.pc = "recover" /\ r.tok = t /\ r.seen = proc[p].seen
    BY <1>1 DEF Locals, Labels
  <1>3. Becomes(p, r)
    BY DEF Recovering
  <1> HIDE DEF r
  <1>4. Moves(p, r)
    BY <1>2, <1>3 DEF Moves, Locked
  <1>5. proc'[p] = r
    BY <1>1, <1>2, <1>3, BecomesEffect
  <1> QED BY <1>2, <1>4, <1>5

LEMMA RecoverPhase ==
    ASSUME NEW r, r.pc = "recover", r.tok \in Token, journal[r.tok].state # "none"
    PROVE  PhaseOf(r)
  BY DEF PhaseOf

LEMMA StillGoto ==
    ASSUME IInv, Still, app' = app, used' \in [crashes : Nat, faults : Nat, torn : Nat],
           NEW p \in Proc, holder = p, NEW l \in Locked, l \in Labels, Goto(p, l),
           holder' = holder, PhaseOf([proc[p] EXCEPT !.pc = l])
    PROVE  IInv'
  <1>1. Moves(p, [proc[p] EXCEPT !.pc = l])
    BY GotoMoves
  <1>2. app' \in {"none", "reserved", "ready", "sent"}
    BY At
  <1> DEFINE r == [proc[p] EXCEPT !.pc = l]
  <1> HIDE DEF r
  <1>3. Moves(p, r) /\ PhaseOf(r)
    BY <1>1 DEF r
  <1> QED BY <1>2, <1>3, StillOwner

LEMMA StillRecovering ==
    ASSUME IInv, Still, app' = app, used' \in [crashes : Nat, faults : Nat, torn : Nat],
           NEW p \in Proc, holder = p, NEW t \in Token, journal[t].state # "none",
           NEW a \in {"exit", "write", "plan"}, Recovering(p, t, a), holder' = holder
    PROVE  IInv'
  <1>1. PICK r : Moves(p, r) /\ r.pc = "recover" /\ r.tok = t
    BY RecoveringMoves
  <1>2. PhaseOf(r)
    BY <1>1, RecoverPhase
  <1>3. app' \in {"none", "reserved", "ready", "sent"}
    BY At
  <1> QED BY <1>1, <1>2, <1>3, StillOwner

(* A process outside the section goes to rest. *)
LEMMA StillRests ==
    ASSUME IInv, Still, app' \in {"none", "reserved", "ready", "sent"},
           used' \in [crashes : Nat, faults : Nat, torn : Nat],
           NEW p \in Proc, holder # p, NEW l \in Labels, l \notin Locked,
           Becomes(p, Resting(l)), holder' = holder
    PROVE  IInv'
  <1>1. Resting(l) \in Locals /\ Resting(l).pc = l /\ \A d \in Plan : Resting(l).seen[d] = "none"
    BY RestingType
  <1>2. PhaseOf(Resting(l)) /\ SeenOf(Resting(l))
    BY <1>1 DEF PhaseOf, SeenOf, Locked
  <1> QED BY <1>1, <1>2, StillOther

(* What holds where, read from the phase *)
LEMMA PhaseFacts ==
    ASSUME IInv, NEW p \in Proc
    PROVE  /\ proc[p].pc \in {"render", "prepare", "discard"} => proc[p].tok \in Token /\ NoRecord
           /\ proc[p].pc \in {"validate", "swapOut", "swapIn", "persist", "recover"} =>
                 proc[p].tok \in Token /\ journal[proc[p].tok].state # "none"
           /\ proc[p].pc \in {"begin", "stage", "erase", "restore", "purge"} =>
                 proc[p].plan \in Plan
  <1>1. PhaseOf(proc[p])
    BY At
  <1> QED BY <1>1 DEF PhaseOf

LEMMA StoreIsStill ==
    ASSUME UNCHANGED <<store, erased, minted>> PROVE Still /\ app' = app
  BY DEF store, Still

-----------------------------------------------------------------------------
(* One lemma per action: first those that change no directory and no row *)

LEMMA RecoverRefusesKeeps ==
    ASSUME IInv, NEW p \in Proc, RecoverRefuses(p) PROVE IInv'
  <1>1. holder = p /\ Still /\ app' = app /\ used' = used /\ Return(p, FALSE)
    BY At, StoreIsStill DEF RecoverRefuses, Locked
  <1>2. \E r : Moves(p, r) /\ Free(r)
    BY <1>1, ReturnMoves DEF IInv
  <1> QED BY <1>1, <1>2, StillLeaves, At

LEMMA ReserveKeeps ==
    ASSUME IInv, NEW p \in Proc, Reserve(p) PROVE IInv'
  <1>1. PICK b \in BOOLEAN : Becomes(p, [Resting("lock") EXCEPT !.release = b])
    BY DEF Reserve
  <1> DEFINE r == [Resting("lock") EXCEPT !.release = b]
  <1>2. "lock" \in Labels /\ "lock" \notin Locked
    BY DEF Labels, Locked
  <1>3. r \in Locals /\ r.pc = "lock" /\ \A d \in Plan : r.seen[d] = "none"
    BY DEF Resting, Locals, Labels, Rows
  <1>4. Becomes(p, r)
    BY <1>1
  <1> HIDE DEF r
  <1>5. PhaseOf(r) /\ SeenOf(r)
    BY <1>3 DEF PhaseOf, SeenOf
  <1>6. holder # p /\ Still /\ used' = used /\ holder' = holder
    BY At DEF Reserve, Still, Locked
  <1>7. app' \in {"none", "reserved", "ready", "sent"}
    BY At DEF Reserve
  <1> QED BY <1>2, <1>3, <1>4, <1>5, <1>6, <1>7, StillOther, At

LEMMA EnterLockKeeps ==
    ASSUME IInv, NEW p \in Proc, EnterLock(p) PROVE IInv'
  <1>1. holder # p /\ Still /\ app' = app /\ used' = used
    BY At, StoreIsStill DEF EnterLock, Locked
  <1>2. CASE holder # None
    <2>1. Becomes(p, Resting("idle")) /\ holder' = holder
      BY <1>2 DEF EnterLock
    <2>2. "idle" \in Labels /\ "idle" \notin Locked
      BY DEF Labels, Locked
    <2> QED BY <1>1, <2>1, <2>2, StillRests, At
  <1>3. CASE holder = None /\ app \in {"reserved", "ready"}
    <2> DEFINE r == [proc[p] EXCEPT !.pc = "write", !.snap = app]
    <2>1. Becomes(p, r) /\ holder' = p
      BY <1>3 DEF EnterLock
    <2>2. r \in Locals /\ r.pc = "write" /\ r.seen = proc[p].seen
      BY ZenonT(30), <1>3, At DEF Locals, Labels
    <2> HIDE DEF r
    <2>3. PhaseOf(r) /\ SeenOf(r)
      BY <2>2, At DEF PhaseOf, SeenOf
    <2> QED BY <1>1, <1>3, <2>1, <2>2, <2>3, StillOther, At DEF Locked
  <1>4. CASE holder = None /\ app \notin {"reserved", "ready"}
    <2>1. Exit(p)
      BY <1>4 DEF EnterLock
    <2> DEFINE l == IF proc[p].release THEN "release" ELSE "idle"
    <2>2. l \in Labels /\ l \notin Locked
      BY DEF Labels, Locked
    <2>3. Becomes(p, Resting(l)) /\ holder' = holder
      BY <1>4, <2>1 DEF Exit
    <2> HIDE DEF l
    <2> QED BY <1>1, <2>2, <2>3, StillRests, At
  <1> QED BY <1>2, <1>3, <1>4

LEMMA OpenRecoversKeeps ==
    ASSUME IInv, NEW p \in Proc, OpenRecovers(p) PROVE IInv'
  <1>1. holder = p /\ Still /\ app' = app /\ used' = used /\ holder' = holder
    BY At, StoreIsStill DEF OpenRecovers, Locked
  <1>2. PICK t \in Pending : Recovering(p, t, "write")
    BY DEF OpenRecovers
  <1>3. t \in Token /\ journal[t].state # "none"
    BY DEF Pending
  <1> QED BY <1>1, <1>2, <1>3, StillRecovering, At

LEMMA DeleteRecoversKeeps ==
    ASSUME IInv, NEW p \in Proc, DeleteRecovers(p) PROVE IInv'
  <1>1. holder = p /\ Still /\ app' = app /\ used' = used /\ holder' = holder
    BY At, StoreIsStill DEF DeleteRecovers, Locked
  <1>2. PICK t \in Pending : Recovering(p, t, "plan")
    BY DEF DeleteRecovers
  <1>3. t \in Token /\ journal[t].state # "none"
    BY DEF Pending
  <1> QED BY <1>1, <1>2, <1>3, StillRecovering, At

LEMMA GotoDiscard ==
    ASSUME IInv, NEW p \in Proc, proc[p].pc \in {"render", "prepare"}, Goto(p, "discard"),
           holder' = holder, Still, app' = app,
           used' \in [crashes : Nat, faults : Nat, torn : Nat]
    PROVE  IInv'
  <1>1. holder = p
    BY At DEF Locked
  <1>2. "discard" \in Labels /\ "discard" \in Locked
    BY DEF Labels, Locked
  <1>3. proc[p].tok \in Token /\ NoRecord
    BY PhaseFacts
  <1> DEFINE r == [proc[p] EXCEPT !.pc = "discard"]
  <1>4. r.pc = "discard" /\ r.tok = proc[p].tok
    BY <1>2, At, GotoUpdate
  <1> HIDE DEF r
  <1>5. PhaseOf(r)
    BY <1>3, <1>4 DEF PhaseOf
  <1> QED BY <1>1, <1>2, <1>5, StillGoto DEF r

LEMMA GiveUpKeeps ==
    ASSUME IInv, NEW p \in Proc, GiveUp(p) PROVE IInv'
  <1>1. Still /\ app' = app /\ used' = used
    BY StoreIsStill DEF GiveUp
  <1>2. CASE proc[p].pc = "write" /\ Exit(p)
    <2>1. holder = p
      BY <1>2, At DEF Locked
    <2>2. \E r : Moves(p, r) /\ Free(r)
      BY <1>2, ExitMoves DEF IInv
    <2> QED BY <1>1, <2>1, <2>2, StillLeaves, At
  <1>3. CASE proc[p].pc = "render" /\ Goto(p, "discard") /\ UNCHANGED holder
    BY <1>1, <1>3, GotoDiscard, At
  <1> QED BY <1>2, <1>3 DEF GiveUp

LEMMA ValidateKeeps ==
    ASSUME IInv, NEW p \in Proc, Validate(p) PROVE IInv'
  <1>1. holder = p /\ Still /\ app' = app /\ used' = used /\ holder' = holder
    BY At, StoreIsStill DEF Validate, Locked
  <1>2. proc[p].tok \in Token /\ journal[proc[p].tok].state # "none" /\ proc[p].pc = "validate"
    BY PhaseFacts DEF Validate
  <1>3. CASE app = proc[p].snap
    <2>1. "swapOut" \in Labels /\ "swapOut" \in Locked
      BY DEF Labels, Locked
    <2>2. PhaseOf(proc[p])
      BY At
    <2> DEFINE r == [proc[p] EXCEPT !.pc = "swapOut"]
    <2>3. r.pc = "swapOut" /\ r.tok = proc[p].tok
      BY <2>1, At, GotoUpdate
    <2> HIDE DEF r
    <2>4. PhaseOf(r)
      BY <1>2, <2>2, <2>3 DEF PhaseOf
    <2>5. Goto(p, "swapOut")
      BY <1>3 DEF Validate
    <2> QED BY <1>1, <2>1, <2>4, <2>5, StillGoto, At DEF r
  <1>4. CASE app # proc[p].snap
    <2>1. Recovering(p, proc[p].tok, "exit")
      BY <1>4 DEF Validate
    <2> QED BY <1>1, <1>2, <2>1, StillRecovering, At
  <1> QED BY <1>3, <1>4

LEMMA ReleaseKeeps ==
    ASSUME IInv, NEW p \in Proc, Release(p) PROVE IInv'
  <1>1. "idle" \in Labels /\ "idle" \notin Locked
    BY DEF Labels, Locked
  <1>2. holder # p /\ Still /\ used' = used /\ holder' = holder /\ Becomes(p, Resting("idle"))
    BY At DEF Release, Still, Locked
  <1>3. app' \in {"none", "reserved", "ready", "sent"}
    BY At DEF Release
  <1> QED BY <1>1, <1>2, <1>3, StillRests, At

LEMMA DeleteStartKeeps ==
    ASSUME IInv, NEW p \in Proc, DeleteStart(p) PROVE IInv'
  <1>1. "plan" \in Labels /\ "plan" \in Locked
    BY DEF Labels, Locked
  <1>2. /\ holder # p /\ holder = None /\ Still /\ app' = app /\ used' = used /\ holder' = p
        /\ Becomes(p, Resting("plan"))
    BY At, StoreIsStill DEF DeleteStart, Locked
  <1>3. /\ Resting("plan") \in Locals /\ Resting("plan").pc = "plan"
        /\ \A d \in Plan : Resting("plan").seen[d] = "none"
    BY <1>1, RestingType
  <1>4. PhaseOf(Resting("plan")) /\ SeenOf(Resting("plan"))
    BY <1>3 DEF PhaseOf, SeenOf
  <1> QED BY <1>1, <1>2, <1>3, <1>4, StillOther, At

LEMMA DeleteBeginKeeps ==
    ASSUME IInv, NEW p \in Proc, DeleteBegin(p) PROVE IInv'
  <1> DEFINE l == IF app = "ready" THEN "stage" ELSE "restore"
             r == [proc[p] EXCEPT !.pc = l]
  <1>1. holder = p /\ Still /\ app' = app /\ used' = used /\ holder' = holder /\ Goto(p, l)
    BY At, StoreIsStill DEF DeleteBegin, Locked
  <1>2. l \in Labels /\ l \in Locked /\ l \in {"stage", "restore"}
    BY DEF Labels, Locked
  <1> HIDE DEF l
  <1>3. r.pc = l /\ r.plan = proc[p].plan /\ r.names = proc[p].names
    BY <1>2, At, GotoUpdate
  <1>4. PhaseOf(proc[p]) /\ proc[p].pc = "begin"
    BY At DEF DeleteBegin
  <1> HIDE DEF r
  <1>5. PhaseOf(r)
    BY <1>2, <1>3, <1>4 DEF PhaseOf
  <1> QED BY <1>1, <1>2, <1>5, StillGoto, At DEF r

LEMMA BootKeeps ==
    ASSUME IInv, NEW p \in Proc, Boot(p) PROVE IInv'
  <1> DEFINE r == [Resting("bootPubs") EXCEPT !.keys = Pending]
  <1>1. holder # p /\ Still /\ app' = app /\ used' = used /\ holder' = holder /\ Becomes(p, r)
    BY At, StoreIsStill DEF Boot, Locked
  <1>2. r \in Locals /\ r.pc = "bootPubs" /\ \A d \in Plan : r.seen[d] = "none"
    BY DEF Resting, Locals, Labels, Rows, Pending
  <1> HIDE DEF r
  <1>3. PhaseOf(r) /\ SeenOf(r) /\ r.pc \notin Locked
    BY <1>2 DEF PhaseOf, SeenOf, Locked
  <1> QED BY <1>1, <1>2, <1>3, StillOther, At

LEMMA BootPubKeeps ==
    ASSUME IInv, NEW p \in Proc, BootPub(p) PROVE IInv'
  <1>1. holder # p /\ Still /\ app' = app /\ used' = used /\ proc[p].pc = "bootPubs"
    BY At, StoreIsStill DEF BootPub, Locked
  <1>2. proc[p] \in Locals /\ SeenOf(proc[p])
    BY At
  <1>3. PICK t \in proc[p].keys :
          LET rest == proc[p].keys \ {t} IN
          IF holder # None \/ journal[t].state = "none"
          THEN Becomes(p, [proc[p] EXCEPT !.keys = rest]) /\ UNCHANGED holder
          ELSE /\ holder' = p
               /\ Becomes(p, [proc[p] EXCEPT !.pc = "recover", !.tok = t,
                                             !.after = "bootPubs", !.keys = rest])
    BY DEF BootPub
  <1>4. t \in Token
    BY <1>2, LocalsFields
  <1> DEFINE rest == proc[p].keys \ {t}
             a == [proc[p] EXCEPT !.keys = rest]
             b == [proc[p] EXCEPT !.pc = "recover", !.tok = t, !.after = "bootPubs", !.keys = rest]
  <1>5. CASE holder # None \/ journal[t].state = "none"
    <2>1. Becomes(p, a) /\ holder' = holder
      BY <1>3, <1>5
    <2>2. a \in Locals /\ a.pc = "bootPubs" /\ a.seen = proc[p].seen
      BY <1>1, <1>2 DEF Locals
    <2> HIDE DEF a
    <2>3. PhaseOf(a) /\ SeenOf(a) /\ a.pc \notin Locked
      BY <1>2, <2>2 DEF PhaseOf, SeenOf, Locked
    <2> QED BY <1>1, <2>1, <2>2, <2>3, StillOther, At
  <1>6. CASE holder = None /\ journal[t].state # "none"
    <2>1. Becomes(p, b) /\ holder' = p
      BY <1>3, <1>6
    <2>2. b \in Locals /\ b.pc = "recover" /\ b.tok = t /\ b.seen = proc[p].seen
      BY <1>2, <1>4 DEF Locals, Labels
    <2> HIDE DEF b
    <2>3. PhaseOf(b)
      BY <1>4, <1>6, <2>2, RecoverPhase
    <2>4. SeenOf(b) /\ b.pc \in Locked
      BY <1>2, <2>2 DEF SeenOf, Locked
    <2> QED BY <1>1, <1>6, <2>1, <2>2, <2>3, <2>4, StillOther, At
  <1> QED BY <1>5, <1>6

LEMMA BootReadPlansKeeps ==
    ASSUME IInv, NEW p \in Proc, BootReadPlans(p) PROVE IInv'
  <1> DEFINE r == [Resting("bootPlans") EXCEPT !.seen = [d \in Plan |-> plan[d].state]]
  <1>1. holder # p /\ Still /\ app' = app /\ used' = used /\ holder' = holder /\ Becomes(p, r)
    BY At, StoreIsStill DEF BootReadPlans, Locked
  <1>2. \A d \in Plan : plan[d].state \in Rows
    BY DEF IInv, TypeOK
  <1>3. r \in Locals /\ r.pc = "bootPlans" /\ \A d \in Plan : r.seen[d] = plan[d].state
    BY <1>2 DEF Resting, Locals, Labels
  <1> HIDE DEF r
  <1>4. PhaseOf(r) /\ r.pc \notin Locked
    BY <1>3 DEF PhaseOf, Locked
  <1>5. SeenOf(r)
    BY <1>3 DEF SeenOf, IInv, SInv, Minting
  <1> QED BY <1>1, <1>3, <1>4, <1>5, StillOther, At

LEMMA BootPlanKeeps ==
    ASSUME IInv, NEW p \in Proc, BootPlan(p) PROVE IInv'
  <1>1. holder # p /\ Still /\ app' = app /\ used' = used /\ proc[p].pc = "bootPlans"
    BY At, StoreIsStill DEF BootPlan, Locked
  <1>2. proc[p] \in Locals /\ SeenOf(proc[p])
    BY At
  <1>3. PICK d \in Plan :
          LET next == [proc[p] EXCEPT !.seen[d] = "none"] IN
          IF holder # None THEN Becomes(p, next) /\ UNCHANGED holder
          ELSE /\ holder' = p
               /\ Becomes(p, [next EXCEPT
                     !.plan = d, !.after = "bootPlans",
                     !.pc = IF proc[p].seen[d] = "committed" THEN "purge" ELSE "restore"])
    BY DEF BootPlan
  <1> DEFINE a == [proc[p] EXCEPT !.seen[d] = "none"]
             l == IF proc[p].seen[d] = "committed" THEN "purge" ELSE "restore"
             b == [a EXCEPT !.plan = d, !.after = "bootPlans", !.pc = l]
  <1>4. /\ a \in Locals /\ a.pc = "bootPlans"
        /\ \A e \in Plan : a.seen[e] = "none" \/ a.seen[e] = proc[p].seen[e]
    BY <1>1, <1>2 DEF Locals, Rows
  <1>5. SeenOf(a)
    <2> HIDE DEF a
    <2> QED BY <1>2, <1>4 DEF SeenOf
  <1>6. CASE holder # None
    <2>1. Becomes(p, a) /\ holder' = holder
      BY <1>3, <1>6
    <2> HIDE DEF a
    <2>2. PhaseOf(a) /\ a.pc \notin Locked
      BY <1>4 DEF PhaseOf, Locked
    <2> QED BY <1>1, <1>4, <1>5, <2>1, <2>2, StillOther, At
  <1>7. CASE holder = None
    <2>1. Becomes(p, b) /\ holder' = p
      BY <1>3, <1>7
    <2>2. l \in {"purge", "restore"} /\ (l = "purge" => plan[d].state # "prepared")
      BY <1>2 DEF SeenOf
    <2> HIDE DEF a, l
    <2>3. b \in Locals /\ b.pc = l /\ b.plan = d /\ b.seen = a.seen
      BY <1>4, <2>2 DEF Locals, Labels
    <2> HIDE DEF b
    <2>4. PhaseOf(b) /\ b.pc \in Locked
      BY <2>2, <2>3 DEF PhaseOf, Locked
    <2>5. SeenOf(b)
      BY <1>5, <2>3 DEF SeenOf
    <2> QED BY <1>1, <1>7, <2>1, <2>3, <2>4, <2>5, StillOther, At
  <1> QED BY <1>6, <1>7

(* Between calls: the window opened, and closed *)
LEMMA StillIdle ==
    ASSUME IInv, Still, app' = app, used' = used, holder' = holder,
           NEW p \in Proc, holder # p, NEW l \in {"idle", "down"}, Goto(p, l)
    PROVE  IInv'
  <1> DEFINE r == [proc[p] EXCEPT !.pc = l]
  <1>1. l \in Labels /\ l \notin Locked
    BY DEF Labels, Locked
  <1>2. r \in Locals /\ r.pc = l /\ r.seen = proc[p].seen
    BY <1>1, At, GotoUpdate
  <1>3. Becomes(p, r)
    BY DEF Goto
  <1> HIDE DEF r
  <1>4. PhaseOf(r) /\ SeenOf(r)
    BY ZenonT(30), <1>2, At DEF PhaseOf, SeenOf
  <1> QED BY <1>1, <1>2, <1>3, <1>4, StillOther, At

LEMMA IdleKeeps ==
    ASSUME IInv, NEW p \in Proc, Booted(p) \/ Quit(p) PROVE IInv'
  <1>1. /\ holder # p /\ Still /\ app' = app /\ used' = used /\ holder' = holder
        /\ Goto(p, "idle") \/ Goto(p, "down")
    BY At, StoreIsStill DEF Booted, Quit, Locked
  <1> QED BY <1>1, StillIdle

LEMMA SendKeeps ==
    ASSUME IInv, NEW p \in Proc, Send(p) PROVE IInv'
  <1>1. holder # p /\ Still /\ app' = "sent" /\ used' = used /\ holder' = holder /\ proc' = proc
    BY At DEF Send, Still, Locked
  <1>2. /\ proc[p] \in Locals /\ PhaseOf(proc[p]) /\ SeenOf(proc[p]) /\ proc[p].pc \notin Locked
        /\ Becomes(p, proc[p])
    BY <1>1, At DEF IInv, TypeOK, Becomes
  <1> QED BY <1>1, <1>2, StillOther, At

LEMMA CrashKeeps ==
    ASSUME IInv, NEW p \in Proc, Crash(p) PROVE IInv'
  <1>1. Still /\ app' = app /\ Killed(p) /\ used' \in [crashes : Nat, faults : Nat, torn : Nat]
    BY StoreIsStill, SpentType DEF Crash
  <1>2. CASE holder = p
    <2>1. \E r : Moves(p, r) /\ Free(r)
      BY <1>1, <1>2, KilledMoves DEF IInv
    <2> QED BY <1>1, <1>2, <2>1, StillLeaves
  <1>3. CASE holder # p
    <2>1. "down" \in Labels /\ "down" \notin Locked
      BY DEF Labels, Locked
    <2>2. Becomes(p, Resting("down")) /\ holder' = holder
      BY <1>1, <1>3 DEF Killed
    <2> QED BY <1>1, <1>3, <2>1, <2>2, StillRests, At
  <1> QED BY <1>2, <1>3

LEMMA FailsKeeps ==
    ASSUME IInv, NEW p \in Proc, Fails(p) PROVE IInv'
  <1> USE DEF Fails
  <1>1. used' \in [crashes : Nat, faults : Nat, torn : Nat]
    BY SpentType
  <1>2. dir' = dir /\ Still /\ app' = app
    BY DEF Still
  <1>3. CASE proc[p].pc = "prepare" /\ Goto(p, "discard") /\ UNCHANGED <<dir, holder>>
    BY <1>1, <1>2, <1>3, GotoDiscard
  <1>4. CASE /\ proc[p].pc \in {"validate", "swapOut", "persist"}
             /\ Recovering(p, proc[p].tok, "exit") /\ UNCHANGED <<dir, holder>>
    <2>1. holder = p /\ proc[p].tok \in Token /\ journal[proc[p].tok].state # "none"
      BY <1>4, At, PhaseFacts DEF Locked
    <2> QED BY <1>1, <1>2, <1>4, <2>1, StillRecovering
  <1>5. CASE proc[p].pc = "recover" /\ Return(p, FALSE)
    <2>1. holder = p
      BY <1>5, At DEF Locked
    <2>2. \E r : Moves(p, r) /\ Free(r)
      BY <1>5, <2>1, ReturnMoves DEF IInv
    <2> QED BY <1>1, <1>2, <2>1, <2>2, StillLeaves
  <1>6. CASE proc[p].pc \in {"discard", "plan"} /\ Exit(p)
    <2>1. holder = p
      BY <1>6, At DEF Locked
    <2>2. \E r : Moves(p, r) /\ Free(r)
      BY <1>6, ExitMoves DEF IInv
    <2> QED BY <1>1, <1>2, <2>1, <2>2, StillLeaves
  <1>7. CASE /\ proc[p].pc \in {"begin", "stage", "erase"} /\ Goto(p, "restore")
             /\ UNCHANGED <<dir, holder>>
    <2>1. holder = p /\ proc[p].plan \in Plan
      BY <1>7, At, PhaseFacts DEF Locked
    <2>2. "restore" \in Labels /\ "restore" \in Locked
      BY DEF Labels, Locked
    <2> DEFINE r == [proc[p] EXCEPT !.pc = "restore"]
    <2>3. r.pc = "restore" /\ r.plan = proc[p].plan
      BY <2>2, At, GotoUpdate
    <2> HIDE DEF r
    <2>4. PhaseOf(r)
      BY <2>1, <2>3 DEF PhaseOf
    <2> QED BY <1>1, <1>2, <1>7, <2>1, <2>2, <2>4, StillGoto DEF r
  <1>8. CASE proc[p].pc \in {"restore", "purge"} /\ LeaveDeletion(p)
    <2>1. holder = p
      BY <1>8, At DEF Locked
    <2>2. \E r : Moves(p, r) /\ Free(r)
      BY <1>8, <2>1, LeaveMoves DEF IInv
    <2> QED BY <1>1, <1>2, <2>1, <2>2, StillLeaves
  <1> QED BY <1>3, <1>4, <1>5, <1>6, <1>7, <1>8

-----------------------------------------------------------------------------
(* Steps on directories *)

LEMMA Holding ==
    ASSUME SInv, docs # None
    PROVE  docs \in Token /\ ~Holds(Absent, docs)
  BY NoneAssumption, AbsentType DEF SInv, StoreOK, Holds

LEMMA DirOnly ==
    ASSUME SInv, UNCHANGED <<trash, journal, plan, docs, erased, minted, app>>,
           used' \in [crashes : Nat, faults : Nat, torn : Nat],
           dir' \in [Name -> Content], CommittedStays', NeverLost'
    PROVE  SInv' /\ minted \subseteq minted' /\ Decided
  <1>1. StoreOK'
    BY DEF SInv, StoreOK
  <1>2. Minting' /\ Undecided' /\ OneRecord'
    BY DEF SInv, Minting, Undecided, OneRecord
  <1>3. minted \subseteq minted' /\ Decided
    BY DEF Decided
  <1> QED BY <1>1, <1>2, <1>3 DEF SInv

(* The directory in place and the backups stay as they are. *)
LEMMA PlacesKept ==
    ASSUME SInv, UNCHANGED <<trash, journal, plan, docs, erased, minted, app>>,
           used' \in [crashes : Nat, faults : Nat, torn : Nat],
           dir' \in [Name -> Content], dir'[Final] = dir[Final],
           \A s \in Token : journal[s].state = "prepared" => dir'[Backup(s)] = dir[Backup(s)]
    PROVE  SInv' /\ minted \subseteq minted' /\ Decided
  <1>1. CommittedStays'
    BY DEF SInv, CommittedStays, Belongs
  <1>2. NeverLost'
    BY DEF SInv, NeverLost
  <1> QED BY <1>1, <1>2, DirOnly

LEMMA GarbageStep ==
    ASSUME SInv, UNCHANGED <<trash, journal, plan, docs, erased, minted, app>>,
           used' \in [crashes : Nat, faults : Nat, torn : Nat],
           NEW t \in Token, journal[t].state # "none",
           NEW c \in Content, Put(Garbage(t), c)
    PROVE  SInv' /\ minted \subseteq minted' /\ Decided
  <1>1. dir \in [Name -> Content] /\ journal[t].state \in {"prepared", "committed"}
    BY DEF SInv, StoreOK, Rows
  <1>2. \A s \in Token : s # t => journal[s].state = "none"
    BY DEF SInv, OneRecord
  <1>3. CASE journal[t].state = "committed" /\ Exists(Backup(t))
    <2>1. Garbage(t) = Backup(t)
      BY <1>3 DEF Garbage
    <2>2. dir' \in [Name -> Content] /\ dir'[Final] = dir[Final]
      BY <1>1, <2>1, Names, PutEffect
    <2>3. \A s \in Token : journal[s].state # "prepared"
      BY <1>2, <1>3
    <2> QED BY <2>2, <2>3, PlacesKept
  <1>4. CASE journal[t].state = "prepared" /\ Exists(Final) /\ Belongs(Final, t)
    <2>1. Garbage(t) = Final
      BY <1>4 DEF Garbage
    <2>2. /\ dir' \in [Name -> Content]
          /\ \A s \in Token : dir'[Backup(s)] = dir[Backup(s)]
      BY <1>1, <2>1, Names, PutEffect
    <2>3. CommittedStays'
      BY <1>2, <1>4 DEF CommittedStays
    <2>4. ~Holds(dir[Final], docs)
      BY <1>4 DEF SInv, Undecided, Belongs, Holds
    <2>5. NeverLost'
      BY <2>2, <2>4 DEF SInv, NeverLost
    <2> QED BY <2>2, <2>3, <2>5, DirOnly
  <1>5. CASE /\ ~(journal[t].state = "committed" /\ Exists(Backup(t)))
             /\ ~(journal[t].state = "prepared" /\ Exists(Final) /\ Belongs(Final, t))
    <2>1. Garbage(t) = Staging(t)
      BY <1>5 DEF Garbage
    <2>2. /\ dir' \in [Name -> Content] /\ dir'[Final] = dir[Final]
          /\ \A s \in Token : dir'[Backup(s)] = dir[Backup(s)]
      BY <1>1, <2>1, Names, PutEffect
    <2> QED BY <2>2, PlacesKept
  <1> QED BY <1>3, <1>4, <1>5

LEMMA RecoverRemovesKeeps ==
    ASSUME IInv, NEW p \in Proc, RecoverRemoves(p) PROVE IInv'
  <1> DEFINE t == proc[p].tok
  <1>1. holder = p /\ t \in Token /\ journal[t].state # "none" /\ proc[p].pc = "recover"
    BY At, PhaseFacts DEF RecoverRemoves, Locked
  <1>2. /\ Put(Garbage(t), Absent) /\ used' = used /\ holder' = holder /\ proc' = proc
        /\ UNCHANGED <<trash, journal, plan, docs, erased, minted, app>>
    BY DEF RecoverRemoves
  <1>3. SInv' /\ minted \subseteq minted' /\ Decided
    BY <1>1, <1>2, AbsentType, GarbageStep, At DEF IInv
  <1>4. Moves(p, proc[p])
    BY <1>1, <1>2, StayMoves
  <1>5. PhaseOf(proc[p])'
    BY <1>1, <1>2 DEF PhaseOf
  <1> QED BY <1>1, <1>3, <1>4, <1>5, OwnerStep

LEMMA RecoverTornKeeps ==
    ASSUME IInv, NEW p \in Proc, RecoverTorn(p) PROVE IInv'
  <1> DEFINE t == proc[p].tok
  <1>1. holder = p /\ t \in Token /\ journal[t].state # "none"
    BY At, PhaseFacts DEF RecoverTorn, Locked
  <1>2. /\ UNCHANGED <<trash, journal, plan, docs, erased, minted, app>>
        /\ Return(p, FALSE) \/ Killed(p)
        /\ used' \in [crashes : Nat, faults : Nat, torn : Nat]
    BY SpentType DEF RecoverTorn
  <1>3. PICK c \in Torn(dir[Garbage(t)]) : Put(Garbage(t), c)
    BY DEF RecoverTorn
  <1>4. Garbage(t) \in Name
    BY <1>1, Names DEF Garbage
  <1>5. c \in Content
    BY <1>3, <1>4, ContentUpdates DEF IInv, TypeOK
  <1>6. SInv' /\ minted \subseteq minted' /\ Decided
    BY <1>1, <1>2, <1>3, <1>5, GarbageStep DEF IInv
  <1>7. \E r : Moves(p, r) /\ Free(r)
    BY <1>1, <1>2, ReturnMoves, KilledMoves DEF IInv
  <1> QED BY <1>1, <1>6, <1>7, OwnerLeaves

(* The backup comes back: a recovery, or an undone publication *)
LEMMA BackupReturns ==
    ASSUME SInv, UNCHANGED <<trash, journal, plan, docs, erased, minted, app>>,
           used' \in [crashes : Nat, faults : Nat, torn : Nat],
           NEW t \in Token, journal[t].state = "prepared", ~Exists(Final),
           Rename(Backup(t), Final)
    PROVE  SInv' /\ minted \subseteq minted' /\ Decided
  <1>1. dir \in [Name -> Content]
    BY DEF SInv, StoreOK
  <1>2. dir' \in [Name -> Content] /\ dir'[Final] = dir[Backup(t)]
    BY <1>1, Names, RenameEffect
  <1>3. \A s \in Token : s # t => journal[s].state = "none"
    BY DEF SInv, OneRecord
  <1>4. CommittedStays'
    BY <1>3 DEF CommittedStays
  <1>5. NeverLost'
    <2> SUFFICES ASSUME docs # None
                 PROVE  Holds(dir'[Final], docs) \/ \E d \in Plan :
                           plan[d].state = "prepared" /\ Holds(trash[d][Final], docs)
      BY DEF NeverLost
    <2>1. ~Holds(dir[Final], docs)
      BY Holding DEF Exists
    <2>2. CASE \E s \in Token : journal[s].state = "prepared" /\ Holds(dir[Backup(s)], docs)
      BY <2>2, <1>2, <1>3
    <2>3. CASE \E d \in Plan : plan[d].state = "prepared" /\ Holds(trash[d][Final], docs)
      BY <2>3
    <2> QED BY <2>1, <2>2, <2>3 DEF SInv, NeverLost
  <1> QED BY <1>2, <1>4, <1>5, DirOnly

LEMMA RecoverRestoresKeeps ==
    ASSUME IInv, NEW p \in Proc, RecoverRestores(p) PROVE IInv'
  <1> DEFINE t == proc[p].tok
  <1>1. /\ holder = p /\ t \in Token /\ journal[t].state = "prepared" /\ ~Exists(Final)
        /\ proc[p].pc = "recover"
    BY At, PhaseFacts DEF RecoverRestores, MustRestore, Locked
  <1>2. /\ Rename(Backup(t), Final) /\ used' = used /\ holder' = holder /\ proc' = proc
        /\ UNCHANGED <<trash, journal, plan, docs, erased, minted, app>>
    BY DEF RecoverRestores
  <1>3. SInv' /\ minted \subseteq minted' /\ Decided
    BY <1>1, <1>2, BackupReturns, At DEF IInv
  <1>4. Moves(p, proc[p])
    BY <1>1, <1>2, StayMoves
  <1>5. PhaseOf(proc[p])'
    BY <1>1, <1>2 DEF PhaseOf
  <1> QED BY <1>1, <1>3, <1>4, <1>5, OwnerStep

LEMMA SwapInFailsKeeps ==
    ASSUME IInv, NEW p \in Proc, SwapInFails(p) PROVE IInv'
  <1> DEFINE t == proc[p].tok
  <1>1. PhaseOf(proc[p]) /\ proc[p].pc = "swapIn"
    BY At DEF SwapInFails
  <1>2. holder = p /\ t \in Token /\ journal[t].state = "prepared"
    BY <1>1, At DEF PhaseOf, Locked
  <1>3. /\ UNCHANGED <<trash, journal, plan, docs, erased, minted, app>> /\ holder' = holder
        /\ used' \in [crashes : Nat, faults : Nat, torn : Nat]
        /\ Recovering(p, t, "exit")
        /\ dir' = dir \/ (~Exists(Final) /\ Rename(Backup(t), Final))
    BY SpentType DEF SwapInFails
  <1>4. SInv' /\ minted \subseteq minted' /\ Decided
    <2>1. CASE dir' = dir
      BY <1>3, <2>1, PlacesKept DEF IInv, SInv, StoreOK
    <2>2. CASE ~Exists(Final) /\ Rename(Backup(t), Final)
      BY <1>2, <1>3, <2>2, BackupReturns DEF IInv
    <2> QED BY <1>3, <2>1, <2>2
  <1>5. PICK r : Moves(p, r) /\ proc'[p] = r /\ r.pc = "recover" /\ r.tok = t
    BY <1>2, <1>3, RecoveringMoves
  <1>6. PhaseOf(proc[p])'
    BY <1>2, <1>3, <1>5 DEF PhaseOf
  <1> QED BY <1>2, <1>4, <1>5, <1>6, OwnerStep

LEMMA DiscardKeeps ==
    ASSUME IInv, NEW p \in Proc, Discard(p) PROVE IInv'
  <1> DEFINE t == proc[p].tok
  <1>1. holder = p /\ t \in Token
    BY At, PhaseFacts DEF Discard, Locked
  <1>2. /\ Put(Staging(t), Absent) /\ Exit(p) /\ used' = used
        /\ UNCHANGED <<trash, journal, plan, docs, erased, minted, app>>
    BY DEF Discard
  <1>3. /\ dir' \in [Name -> Content] /\ dir'[Final] = dir[Final]
        /\ \A s \in Token : dir'[Backup(s)] = dir[Backup(s)]
    BY <1>1, <1>2, Names, AbsentType, PutEffect DEF IInv, TypeOK
  <1>4. SInv' /\ minted \subseteq minted' /\ Decided
    BY <1>2, <1>3, PlacesKept, At DEF IInv
  <1>5. \E r : Moves(p, r) /\ Free(r)
    BY <1>2, ExitMoves DEF IInv
  <1> QED BY <1>1, <1>4, <1>5, OwnerLeaves

(* The remaining steps of a publication *)

LEMMA RecoverEndsKeeps ==
    ASSUME IInv, NEW p \in Proc, RecoverEnds(p) PROVE IInv'
  <1> DEFINE t == proc[p].tok
             x == [state |-> "none", had |-> FALSE]
  <1>1. holder = p /\ t \in Token /\ journal[t].state # "none"
    BY At, PhaseFacts DEF RecoverEnds, Locked
  <1>2. /\ ~Unsafe(t) /\ ~MustRestore(t) /\ journal' = [journal EXCEPT ![t] = x]
        /\ Return(p, TRUE) /\ used' = used
        /\ UNCHANGED <<dir, trash, plan, docs, erased, minted, app>>
    BY DEF RecoverEnds
  <1>3. x \in [state : Rows, had : BOOLEAN]
    BY DEF Rows
  <1>4. /\ journal' \in [Token -> [state : Rows, had : BOOLEAN]] /\ journal'[t] = x
        /\ \A s \in Token : s # t => journal'[s] = journal[s]
    BY <1>1, <1>2, <1>3, RowEffect DEF IInv, TypeOK
  <1>5. \A s \in Token : journal'[s].state = "none" \/ journal'[s] = journal[s]
    BY <1>4
  <1>6. StoreOK'
    BY <1>2, <1>4 DEF IInv, SInv, StoreOK
  <1>7. Minting' /\ Undecided' /\ OneRecord' /\ CommittedStays'
    BY <1>2, <1>5 DEF IInv, SInv, Minting, Undecided, OneRecord, CommittedStays, Belongs
  <1>8. NeverLost'
    <2> SUFFICES ASSUME docs # None PROVE Kept
      BY <1>2 DEF NeverLost, Kept
    <2>1. CASE Kept
      BY <2>1
    <2>2. CASE \E s \in Token : /\ journal[s].state = "prepared" /\ journal[s].had
                                /\ Holds(dir[Backup(s)], docs)
      <3>1. PICK s \in Token : /\ journal[s].state = "prepared" /\ journal[s].had
                               /\ Holds(dir[Backup(s)], docs)
        BY <2>2
      <3>2. s = t
        BY <1>1, <3>1 DEF IInv, SInv, OneRecord
      <3>3. Exists(Backup(t))
        BY <3>1, <3>2, Holding DEF Exists, IInv
      <3> QED BY <1>2, <3>1, <3>2, <3>3 DEF MustRestore
    <2> QED BY <2>1, <2>2 DEF IInv, SInv, NeverLost, Kept
  <1>9. minted \subseteq minted' /\ Decided
    BY <1>2 DEF Decided
  <1>10. \E r : Moves(p, r) /\ Free(r)
    BY <1>1, <1>2, ReturnMoves DEF IInv
  <1> QED BY <1>1, <1>6, <1>7, <1>8, <1>9, <1>10, OwnerLeaves DEF SInv

LEMMA OpenKeeps ==
    ASSUME IInv, NEW p \in Proc, Open(p) PROVE IInv'
  <1>1. holder = p /\ NoRecord
    BY At DEF Open, Locked, NoRecord, Pending
  <1>2. PICK t \in Token \ minted :
          /\ minted' = minted \cup {t}
          /\ Put(Staging(t), [Absent EXCEPT !.of = t])
          /\ Becomes(p, [proc[p] EXCEPT !.pc = "render", !.tok = t])
    BY DEF Open
  <1> DEFINE c == [Absent EXCEPT !.of = t]
  <1>a. c \in Content /\ c.of = t /\ Put(Staging(t), c)
    BY <1>2, AbsentType DEF Content
  <1> HIDE DEF c
  <1>3. UNCHANGED <<trash, journal, plan, app, docs, erased, holder, used>>
    BY DEF Open
  <1>4. /\ dir' \in [Name -> Content] /\ dir'[Final] = dir[Final]
        /\ dir'[Staging(t)].of = t /\ \A s \in Token : dir'[Backup(s)] = dir[Backup(s)]
    BY <1>a, Names, PutEffect DEF IInv, TypeOK
  <1>5. SInv'
    <2>1. StoreOK'
      BY <1>2, <1>3, <1>4 DEF IInv, SInv, StoreOK
    <2>2. Minting' /\ Undecided' /\ OneRecord'
      BY <1>2, <1>3 DEF IInv, SInv, Minting, Undecided, OneRecord
    <2>3. CommittedStays' /\ NeverLost'
      BY <1>3, <1>4 DEF IInv, SInv, CommittedStays, NeverLost, Belongs
    <2> QED BY <2>1, <2>2, <2>3 DEF SInv
  <1>6. minted \subseteq minted' /\ Decided
    BY <1>2, <1>3 DEF Decided
  <1> DEFINE r == [proc[p] EXCEPT !.pc = "render", !.tok = t]
  <1>7. r \in Locals /\ r.pc = "render" /\ r.tok = t /\ r.seen = proc[p].seen
    <2>1. t \in Token /\ proc[p] \in Locals
      BY At
    <2> QED BY <2>1 DEF Locals, Labels
  <1>8. Becomes(p, r) /\ holder' = p
    BY <1>1, <1>2, <1>3
  <1> HIDE DEF r
  <1>9. Moves(p, r) /\ proc'[p] = r
    BY <1>7, <1>8, BecomesEffect DEF Moves, Locked, IInv, TypeOK
  <1>10. docs # t /\ t \in minted'
    BY <1>2, NoneAssumption DEF IInv, SInv, Minting
  <1>11. PhaseOf(proc[p])'
    BY <1>1, <1>3, <1>4, <1>7, <1>9, <1>10 DEF PhaseOf, NoRecord
  <1> QED BY <1>1, <1>5, <1>6, <1>9, <1>11, OwnerStep

LEMMA RenderKeeps ==
    ASSUME IInv, NEW p \in Proc, Render(p) PROVE IInv'
  <1> DEFINE t == proc[p].tok
             c == [dir[Staging(t)] EXCEPT !.whole = TRUE]
  <1>1. PhaseOf(proc[p]) /\ proc[p].pc = "render"
    BY At DEF Render
  <1>2. /\ holder = p /\ t \in Token /\ t \in minted /\ docs # t /\ NoRecord
        /\ dir[Staging(t)].of = t
    BY <1>1, At DEF PhaseOf, Locked
  <1>3. /\ Put(Staging(t), c) /\ Goto(p, "prepare") /\ used' = used /\ holder' = holder
        /\ UNCHANGED <<trash, journal, plan, docs, erased, minted, app>>
    BY DEF Render
  <1>4. dir[Staging(t)] \in Content /\ dir \in [Name -> Content]
    BY <1>2, Names DEF IInv, TypeOK
  <1>5. c \in Content /\ c.of = t /\ c.whole = TRUE
    BY <1>2, <1>4, ContentUpdates
  <1> HIDE DEF c
  <1>6. /\ dir' \in [Name -> Content] /\ dir'[Final] = dir[Final] /\ dir'[Staging(t)] = c
        /\ \A s \in Token : dir'[Backup(s)] = dir[Backup(s)]
    BY <1>2, <1>3, <1>4, <1>5, Names, PutEffect
  <1>7. SInv' /\ minted \subseteq minted' /\ Decided
    BY <1>3, <1>6, PlacesKept, At DEF IInv
  <1> DEFINE r == [proc[p] EXCEPT !.pc = "prepare"]
  <1>8. "prepare" \in Labels /\ "prepare" \in Locked
    BY DEF Labels, Locked
  <1>9. r.pc = "prepare" /\ r.tok = t
    BY <1>8, At, GotoUpdate
  <1>10. Moves(p, r) /\ proc'[p] = r
    BY <1>2, <1>3, <1>8, GotoMoves
  <1> HIDE DEF r
  <1>11. PhaseOf(proc[p])'
    BY <1>2, <1>3, <1>5, <1>6, <1>9, <1>10 DEF PhaseOf, NoRecord
  <1> QED BY <1>2, <1>7, <1>10, <1>11, OwnerStep

LEMMA PrepareKeeps ==
    ASSUME IInv, NEW p \in Proc, Prepare(p) PROVE IInv'
  <1> DEFINE t == proc[p].tok
             c == [dir[Staging(t)] EXCEPT !.marked = TRUE]
             x == [state |-> "prepared", had |-> Exists(Final)]
  <1>1. PhaseOf(proc[p]) /\ proc[p].pc = "prepare"
    BY At DEF Prepare
  <1>2. /\ holder = p /\ t \in Token /\ t \in minted /\ docs # t /\ NoRecord
        /\ dir[Staging(t)].of = t /\ dir[Staging(t)].whole = TRUE
    BY <1>1, At DEF PhaseOf, Locked
  <1>3. /\ Put(Staging(t), c) /\ Goto(p, "validate") /\ used' = used /\ holder' = holder
        /\ journal' = [journal EXCEPT ![t] = x]
        /\ UNCHANGED <<trash, plan, docs, erased, minted, app>>
    BY DEF Prepare
  <1>4. dir[Staging(t)] \in Content /\ dir \in [Name -> Content]
    BY <1>2, Names DEF IInv, TypeOK
  <1>5. c \in Content /\ Ready(c, t)
    BY <1>2, <1>4, ContentUpdates
  <1> HIDE DEF c
  <1>6. /\ dir' \in [Name -> Content] /\ dir'[Final] = dir[Final] /\ dir'[Staging(t)] = c
        /\ \A s \in Token : dir'[Backup(s)] = dir[Backup(s)]
    BY <1>2, <1>3, <1>4, <1>5, Names, PutEffect
  <1>7. /\ x \in [state : Rows, had : BOOLEAN] /\ x.state = "prepared"
        /\ Exists(Final) => x.had = TRUE
    <2>1. Exists(Final) \in BOOLEAN
      BY DEF Exists
    <2>2. x \in [state : Rows, had : BOOLEAN] /\ x.state = "prepared"
      BY <2>1 DEF Rows
    <2>3. Exists(Final) => x.had = TRUE
      OBVIOUS
    <2> QED BY <2>2, <2>3
  <1> HIDE DEF x
  <1>8. /\ journal' \in [Token -> [state : Rows, had : BOOLEAN]] /\ journal'[t] = x
        /\ \A s \in Token : s # t => journal'[s] = journal[s]
    BY <1>2, <1>3, <1>7, RowEffect DEF IInv, TypeOK
  <1>9. \A s \in Token : s # t => journal'[s].state = "none"
    BY <1>2, <1>8 DEF NoRecord
  <1>10. docs # None => Kept
    BY <1>2 DEF IInv, SInv, NeverLost, NoRecord, Kept
  <1>11. SInv'
    <2>1. StoreOK'
      BY <1>3, <1>6, <1>8 DEF IInv, SInv, StoreOK
    <2>2. Minting' /\ Undecided' /\ OneRecord'
      BY <1>2, <1>3, <1>7, <1>8, <1>9 DEF IInv, SInv, Minting, Undecided, OneRecord
    <2>3. CommittedStays'
      BY <1>7, <1>8, <1>9 DEF CommittedStays
    <2>4. NeverLost'
      BY <1>3, <1>6, <1>10 DEF NeverLost, Kept
    <2> QED BY <2>1, <2>2, <2>3, <2>4 DEF SInv
  <1>12. minted \subseteq minted' /\ Decided
    BY <1>3 DEF Decided
  <1> DEFINE r == [proc[p] EXCEPT !.pc = "validate"]
  <1>13. "validate" \in Labels /\ "validate" \in Locked
    BY DEF Labels, Locked
  <1>14. r.pc = "validate" /\ r.tok = t
    BY <1>13, At, GotoUpdate
  <1>15. Moves(p, r) /\ proc'[p] = r
    BY <1>2, <1>3, <1>13, GotoMoves
  <1> HIDE DEF r
  <1>16. (docs # None => Kept)' /\ (Exists(Final) => journal[t].had = TRUE)'
    <2>1. (docs # None => Kept)'
      BY <1>3, <1>6, <1>10 DEF Kept
    <2>2. Exists(Final)' <=> Exists(Final)
      BY <1>6 DEF Exists
    <2>3. proc'[p].tok = t
      BY <1>14, <1>15
    <2> QED BY <2>1, <2>2, <2>3, <1>7, <1>8
  <1>17. PhaseOf(proc[p])'
    BY <1>2, <1>5, <1>6, <1>7, <1>8, <1>14, <1>15, <1>16 DEF PhaseOf
  <1> QED BY <1>2, <1>11, <1>12, <1>15, <1>17, OwnerStep

LEMMA SwapOutKeeps ==
    ASSUME IInv, NEW p \in Proc, SwapOut(p) PROVE IInv'
  <1> DEFINE t == proc[p].tok
  <1>1. PhaseOf(proc[p]) /\ proc[p].pc = "swapOut"
    BY At DEF SwapOut
  <1>2. /\ holder = p /\ t \in Token /\ journal[t].state = "prepared"
        /\ Ready(dir[Staging(t)], t) /\ (Exists(Final) => journal[t].had = TRUE)
        /\ (docs # None => Kept)
    BY <1>1, At DEF PhaseOf, Locked
  <1>3. /\ IF Exists(Final) THEN Rename(Final, Backup(t)) ELSE UNCHANGED dir
        /\ Goto(p, "swapIn") /\ used' = used /\ holder' = holder
        /\ UNCHANGED <<trash, journal, plan, docs, erased, minted, app>>
    BY DEF SwapOut
  <1>4. dir \in [Name -> Content] /\ \A s \in Token : s # t => journal[s].state = "none"
    BY <1>2 DEF IInv, SInv, StoreOK, OneRecord
  <1>5. /\ dir' \in [Name -> Content] /\ dir'[Staging(t)] = dir[Staging(t)]
        /\ dir'[Final] = Absent
    <2>1. CASE Exists(Final)
      BY <1>2, <1>3, <1>4, <2>1, Names, RenameEffect
    <2>2. CASE ~Exists(Final)
      BY <1>3, <1>4, <2>2 DEF Exists
    <2> QED BY <2>1, <2>2
  <1>6. CommittedStays'
    BY <1>2, <1>3, <1>4 DEF CommittedStays
  <1>7. NeverLost'
    <2> SUFFICES ASSUME docs # None
                 PROVE  \/ /\ journal[t].state = "prepared" /\ journal[t].had
                           /\ Holds(dir'[Backup(t)], docs)
                        \/ \E d \in Plan : plan[d].state = "prepared" /\ Holds(trash[d][Final], docs)
      BY <1>2, <1>3 DEF NeverLost
    <2>1. CASE Holds(dir[Final], docs)
      <3>1. Exists(Final)
        BY <2>1, Holding DEF Exists, IInv
      <3>2. dir'[Backup(t)] = dir[Final]
        BY <1>2, <1>3, <1>4, <3>1, Names, RenameEffect
      <3> QED BY <1>2, <2>1, <3>1, <3>2
    <2> QED BY <1>2, <2>1 DEF Kept
  <1>8. SInv' /\ minted \subseteq minted' /\ Decided
    BY <1>3, <1>5, <1>6, <1>7, DirOnly, At DEF IInv
  <1> DEFINE r == [proc[p] EXCEPT !.pc = "swapIn"]
  <1>9. "swapIn" \in Labels /\ "swapIn" \in Locked
    BY DEF Labels, Locked
  <1>10. r.pc = "swapIn" /\ r.tok = t
    BY <1>9, At, GotoUpdate
  <1>11. Moves(p, r) /\ proc'[p] = r
    BY <1>2, <1>3, <1>9, GotoMoves
  <1> HIDE DEF r
  <1>12. PhaseOf(proc[p])'
    BY <1>2, <1>3, <1>5, <1>10, <1>11 DEF PhaseOf, Exists
  <1> QED BY <1>2, <1>8, <1>11, <1>12, OwnerStep

LEMMA SwapInKeeps ==
    ASSUME IInv, NEW p \in Proc, SwapIn(p) PROVE IInv'
  <1> DEFINE t == proc[p].tok
  <1>1. PhaseOf(proc[p]) /\ proc[p].pc = "swapIn"
    BY At DEF SwapIn
  <1>2. /\ holder = p /\ t \in Token /\ journal[t].state = "prepared"
        /\ Ready(dir[Staging(t)], t) /\ ~Exists(Final)
    BY <1>1, At DEF PhaseOf, Locked
  <1>3. /\ Rename(Staging(t), Final)
        /\ Goto(p, "persist") /\ used' = used /\ holder' = holder
        /\ UNCHANGED <<trash, journal, plan, docs, erased, minted, app>>
    BY DEF SwapIn
  <1>4. dir \in [Name -> Content] /\ \A s \in Token : s # t => journal[s].state = "none"
    BY <1>2 DEF IInv, SInv, StoreOK, OneRecord
  <1>5. /\ dir' \in [Name -> Content] /\ dir'[Final] = dir[Staging(t)]
        /\ \A s \in Token : dir'[Backup(s)] = dir[Backup(s)]
    BY <1>2, <1>3, <1>4, Names, RenameEffect
  <1>6. CommittedStays'
    BY <1>2, <1>3, <1>4 DEF CommittedStays
  <1>7. NeverLost'
    <2>1. docs # None => ~Holds(dir[Final], docs)
      BY <1>2, Holding DEF Exists, IInv
    <2> QED BY <1>3, <1>5, <2>1 DEF IInv, SInv, NeverLost
  <1>8. SInv' /\ minted \subseteq minted' /\ Decided
    BY <1>3, <1>5, <1>6, <1>7, DirOnly, At DEF IInv
  <1> DEFINE r == [proc[p] EXCEPT !.pc = "persist"]
  <1>9. "persist" \in Labels /\ "persist" \in Locked
    BY DEF Labels, Locked
  <1>10. r.pc = "persist" /\ r.tok = t
    BY <1>9, At, GotoUpdate
  <1>11. Moves(p, r) /\ proc'[p] = r
    BY <1>2, <1>3, <1>9, GotoMoves
  <1> HIDE DEF r
  <1>12. PhaseOf(proc[p])'
    BY <1>2, <1>3, <1>5, <1>10, <1>11 DEF PhaseOf
  <1> QED BY <1>2, <1>8, <1>11, <1>12, OwnerStep

LEMMA PersistKeeps ==
    ASSUME IInv, NEW p \in Proc, Persist(p) PROVE IInv'
  <1> DEFINE t == proc[p].tok
  <1>1. PhaseOf(proc[p]) /\ proc[p].pc = "persist"
    BY At DEF Persist
  <1>2. /\ holder = p /\ t \in Token /\ journal[t].state = "prepared" /\ Ready(dir[Final], t)
    BY <1>1, At DEF PhaseOf, Locked
  <1>3. holder' = holder /\ used' = used /\ UNCHANGED <<dir, trash, plan, erased, minted>>
    BY DEF Persist
  <1>4. CASE app = "none"
    <2>1. Recovering(p, t, "exit") /\ UNCHANGED <<journal, app, docs>>
      BY <1>4 DEF Persist
    <2>2. Still
      BY <1>3, <2>1 DEF Still
    <2>3. journal[t].state # "none"
      BY <1>2
    <2> QED BY <1>2, <1>3, <2>1, <2>2, <2>3, StillRecovering, At
  <1>5. CASE app # "none"
    <2> DEFINE x == [journal[t] EXCEPT !.state = "committed"]
               r == [Resting("recover") EXCEPT !.tok = t]
    <2>1. /\ app' = IF app = "reserved" THEN "ready" ELSE app
          /\ docs' = t /\ journal' = [journal EXCEPT ![t] = x] /\ Becomes(p, r)
      BY <1>5 DEF Persist
    <2>2. journal \in [Token -> [state : Rows, had : BOOLEAN]]
      BY DEF IInv, TypeOK
    <2>3. x \in [state : Rows, had : BOOLEAN] /\ x.state = "committed"
      BY <1>2, <2>2 DEF Rows
    <2>4. r \in Locals /\ r.pc = "recover" /\ r.tok = t /\ \A d \in Plan : r.seen[d] = "none"
      BY <1>2 DEF Resting, Locals, Labels, Rows
    <2> HIDE DEF x, r
    <2>5. /\ journal' \in [Token -> [state : Rows, had : BOOLEAN]] /\ journal'[t] = x
          /\ \A s \in Token : s # t => journal'[s] = journal[s]
      BY <1>2, <2>1, <2>2, <2>3, RowEffect
    <2>6. \A s \in Token : s # t => journal'[s].state = "none"
      BY <1>2, <2>5 DEF IInv, SInv, OneRecord
    <2>7. Holds(dir[Final], t) /\ Belongs(Final, t)
      BY <1>2, Names, ContentUpdates DEF IInv, TypeOK, Belongs
    <2>8. StoreOK'
      BY <1>2, <1>3, <2>1, <2>5 DEF IInv, SInv, StoreOK
    <2>9. Minting' /\ Undecided' /\ OneRecord'
      BY <1>2, <1>3, <2>1, <2>3, <2>5, <2>6 DEF IInv, SInv, Minting, Undecided, OneRecord
    <2>10. CommittedStays' /\ NeverLost'
      BY <1>3, <2>1, <2>6, <2>7 DEF CommittedStays, NeverLost, Belongs
    <2>11. minted \subseteq minted' /\ Decided
      BY <1>3 DEF Decided
    <2>12. Moves(p, r) /\ proc'[p] = r
      BY <1>2, <1>3, <2>1, <2>4, BecomesEffect DEF Moves, Locked, IInv, TypeOK
    <2>13. PhaseOf(proc[p])'
      BY <1>2, <2>3, <2>4, <2>5, <2>12 DEF PhaseOf
    <2> QED BY <1>2, <2>8, <2>9, <2>10, <2>11, <2>12, <2>13, OwnerStep DEF SInv
  <1> QED BY <1>4, <1>5

-----------------------------------------------------------------------------
(* The steps of a deletion *)

LEMMA FirstOne ==
    ASSUME NEW S \in SUBSET Name, NEW n \in FirstOf(S)
    PROVE  n \in S /\ n \in Name /\ (Final \in S => n = Final)
  BY DEF FirstOf

LEMMA DeletePlanKeeps ==
    ASSUME IInv, NEW p \in Proc, DeletePlan(p) PROVE IInv'
  <1>1. holder = p /\ NoRecord
    BY At DEF DeletePlan, Locked, NoRecord, Pending
  <1>2. UNCHANGED <<dir, trash, journal, app, docs, erased, used>>
    BY DEF DeletePlan
  <1>3. CASE app # "ready"
    <2>1. Exit(p) /\ Still
      BY <1>2, <1>3 DEF DeletePlan, Still
    <2>2. \E r : Moves(p, r) /\ Free(r)
      BY <2>1, ExitMoves DEF IInv
    <2> QED BY <1>1, <1>2, <2>1, <2>2, StillLeaves, At
  <1>4. CASE app = "ready"
    <2> DEFINE entries == {Final} \cup {n \in Name : Exists(n)}
               x == [state |-> "prepared", entries |-> entries]
    <2>1. PICK d \in Plan \ minted :
              /\ minted' = minted \cup {d}
              /\ plan' = [plan EXCEPT ![d] = x]
              /\ Becomes(p, [Resting("begin") EXCEPT !.plan = d, !.names = entries])
              /\ holder' = holder
      BY <1>4 DEF DeletePlan
    <2> DEFINE r == [Resting("begin") EXCEPT !.plan = d, !.names = entries]
    <2>2. entries \subseteq Name
      BY Names
    <2> HIDE DEF entries
    <2>3. x \in [state : Rows, entries : SUBSET Name] /\ x.state = "prepared"
      BY <2>2 DEF Rows
    <2>4. r \in Locals /\ r.pc = "begin" /\ r.plan = d /\ \A e \in Plan : r.seen[e] = "none"
      BY <2>2 DEF Resting, Locals, Labels, Rows
    <2>5. Becomes(p, r)
      BY <2>1
    <2> HIDE DEF x, r
    <2>6. /\ plan' \in [Plan -> [state : Rows, entries : SUBSET Name]] /\ plan'[d] = x
          /\ \A e \in Plan : e # d => plan'[e] = plan[e]
      BY <2>1, <2>3, PlanEffect DEF IInv, TypeOK
    <2>7. plan[d].state = "none" /\ trash[d][Final] = Absent
      BY <2>1 DEF IInv, SInv, Minting
    <2>8. StoreOK'
      BY <1>2, <2>1, <2>6 DEF IInv, SInv, StoreOK
    <2>9. Minting' /\ Undecided' /\ OneRecord' /\ CommittedStays'
      BY <1>2, <2>1, <2>6 DEF IInv, SInv, Minting, Undecided, OneRecord, CommittedStays, Belongs
    <2>10. NeverLost'
      BY <1>2, <2>6, <2>7 DEF IInv, SInv, NeverLost
    <2>11. minted \subseteq minted' /\ Decided
      BY <2>1, <2>6 DEF Decided
    <2>12. Moves(p, r) /\ proc'[p] = r
      BY <1>1, <2>1, <2>4, <2>5, BecomesEffect DEF Moves, Locked, IInv, TypeOK
    <2>13. PhaseOf(proc[p])'
      BY <1>1, <1>2, <2>3, <2>4, <2>6, <2>7, <2>12 DEF PhaseOf, NoRecord
    <2> QED BY <1>1, <2>8, <2>9, <2>10, <2>11, <2>12, <2>13, OwnerStep DEF SInv
  <1> QED BY <1>3, <1>4

LEMMA StageOneKeeps ==
    ASSUME IInv, NEW p \in Proc, StageOne(p) PROVE IInv'
  <1> DEFINE d == proc[p].plan
  <1>1. PhaseOf(proc[p]) /\ proc[p].pc = "stage" /\ proc[p] \in Locals
    BY At DEF StageOne
  <1>2. /\ holder = p /\ d \in Plan /\ plan[d].state = "prepared" /\ NoRecord
        /\ (Final \in proc[p].names => trash[d][Final] = Absent)
    BY <1>1, At DEF PhaseOf, Locked
  <1>3. PICK n \in FirstOf(proc[p].names) :
          /\ IF Exists(n) THEN SetAside(d, n, dir[n]) ELSE UNCHANGED trash
          /\ Put(n, Absent)
          /\ Becomes(p, [proc[p] EXCEPT
                !.names = proc[p].names \ {n},
                !.pc = IF proc[p].names = {n} THEN "erase" ELSE "stage"])
    BY DEF StageOne
  <1>4. UNCHANGED <<journal, plan, app, docs, erased, minted, holder, used>>
    BY DEF StageOne
  <1>5. proc[p].names \in SUBSET Name
    BY <1>1, LocalsFields
  <1>6. n \in Name /\ n \in proc[p].names /\ (Final \in proc[p].names => n = Final)
    BY <1>5, FirstOne
  <1>7. dir \in [Name -> Content] /\ trash \in [Plan -> [Name -> Content]]
    BY DEF IInv, TypeOK
  <1>8. dir' \in [Name -> Content] /\ \A m \in Name : m # n => dir'[m] = dir[m]
    BY <1>3, <1>6, <1>7, AbsentType, PutEffect
  <1>9. /\ trash' \in [Plan -> [Name -> Content]]
        /\ trash'[d][n] = IF Exists(n) THEN dir[n] ELSE trash[d][n]
        /\ \A e \in Plan, m \in Name : e # d \/ m # n => trash'[e][m] = trash[e][m]
    <2>1. CASE Exists(n)
      <3>1. dir[n] \in Content /\ SetAside(d, n, dir[n])
        BY <1>3, <1>6, <1>7, <2>1
      <3> QED BY <1>2, <1>6, <1>7, <2>1, <3>1, SetAsideEffect
    <2>2. CASE ~Exists(n)
      BY <1>3, <1>7, <2>2
    <2> QED BY <2>1, <2>2
  <1>10. StoreOK'
    BY <1>4, <1>8, <1>9 DEF IInv, SInv, StoreOK
  <1>11. Minting' /\ Undecided' /\ OneRecord' /\ CommittedStays'
    <2>1. d \in minted
      BY <1>2 DEF IInv, SInv, Minting
    <2>2. Minting'
      BY <1>4, <1>9, <2>1, Names DEF IInv, SInv, Minting
    <2> QED BY <1>2, <1>4, <2>2
            DEF IInv, SInv, Undecided, OneRecord, CommittedStays, NoRecord
  <1>12. NeverLost'
    <2> SUFFICES ASSUME docs # None
                 PROVE  Holds(dir'[Final], docs) \/ \E e \in Plan :
                           plan[e].state = "prepared" /\ Holds(trash'[e][Final], docs)
      BY <1>4 DEF NeverLost
    <2>1. CASE Holds(dir[Final], docs)
      <3>1. CASE n = Final
        <4>1. Exists(Final)
          BY <2>1, Holding DEF Exists, IInv
        <4> QED BY <1>2, <1>9, <2>1, <3>1, <4>1
      <3>2. CASE n # Final
        BY <1>8, <2>1, <3>2, Names
      <3> QED BY <3>1, <3>2
    <2>2. CASE \E e \in Plan : plan[e].state = "prepared" /\ Holds(trash[e][Final], docs)
      <3>1. PICK e \in Plan : plan[e].state = "prepared" /\ Holds(trash[e][Final], docs)
        BY <2>2
      <3>2. e # d \/ n # Final
        BY <1>2, <1>6, <3>1, Holding DEF IInv
      <3> QED BY <1>9, <3>1, <3>2, Names
    <2> QED BY <1>2, <2>1, <2>2 DEF IInv, SInv, NeverLost, NoRecord
  <1>13. minted \subseteq minted' /\ Decided
    BY <1>4 DEF Decided
  <1> DEFINE l == IF proc[p].names = {n} THEN "erase" ELSE "stage"
             r == [proc[p] EXCEPT !.names = proc[p].names \ {n}, !.pc = l]
  <1>14. l \in {"stage", "erase"}
    OBVIOUS
  <1>15. Becomes(p, r)
    BY <1>3
  <1> HIDE DEF l
  <1>16. /\ r \in Locals /\ r.pc = l /\ r.plan = d /\ r.names = proc[p].names \ {n}
         /\ r.seen = proc[p].seen
    BY <1>1, <1>5, <1>14 DEF Locals, Labels
  <1> HIDE DEF r
  <1>17. Moves(p, r) /\ proc'[p] = r
    BY <1>2, <1>4, <1>14, <1>15, <1>16, BecomesEffect DEF Moves, Locked, IInv, TypeOK
  <1>18. Final \notin r.names
    BY <1>6, <1>16
  <1>19. PhaseOf(proc[p])'
    BY <1>2, <1>4, <1>14, <1>16, <1>17, <1>18 DEF PhaseOf, NoRecord
  <1> QED BY <1>2, <1>10, <1>11, <1>12, <1>13, <1>17, <1>19, OwnerStep DEF SInv

LEMMA EraseKeeps ==
    ASSUME IInv, NEW p \in Proc, Erase(p) PROVE IInv'
  <1> DEFINE d == proc[p].plan
             x == [plan[d] EXCEPT !.state = "committed"]
             r == [proc[p] EXCEPT !.pc = "purge"]
  <1>1. PhaseOf(proc[p]) /\ proc[p].pc = "erase"
    BY At DEF Erase
  <1>2. holder = p /\ d \in Plan /\ NoRecord
    BY <1>1, At DEF PhaseOf, Locked
  <1>3. /\ app' = "none" /\ docs' = None /\ erased' = erased \cup ({docs} \ {None})
        /\ plan' = [plan EXCEPT ![d] = x] /\ Goto(p, "purge")
        /\ UNCHANGED <<dir, trash, journal, minted, holder, used>>
    BY DEF Erase
  <1>4. plan \in [Plan -> [state : Rows, entries : SUBSET Name]]
    BY DEF IInv, TypeOK
  <1>5. x \in [state : Rows, entries : SUBSET Name] /\ x.state = "committed"
    BY <1>2, <1>4 DEF Rows
  <1> HIDE DEF x
  <1>6. /\ plan' \in [Plan -> [state : Rows, entries : SUBSET Name]] /\ plan'[d] = x
        /\ \A e \in Plan : e # d => plan'[e] = plan[e]
    BY <1>2, <1>3, <1>4, <1>5, PlanEffect
  <1>7. StoreOK'
    BY <1>3, <1>6 DEF IInv, SInv, StoreOK
  <1>8. d \in minted
    BY <1>1 DEF PhaseOf, IInv, SInv, Minting
  <1>9. Minting'
    BY <1>3, <1>6, <1>8 DEF IInv, SInv, Minting
  <1>10. Undecided' /\ OneRecord' /\ CommittedStays' /\ NeverLost'
    BY <1>2, <1>3 DEF Undecided, OneRecord, CommittedStays, NeverLost, NoRecord
  <1>11. minted \subseteq minted' /\ Decided
    BY <1>3, <1>5, <1>6 DEF Decided
  <1>12. "purge" \in Labels /\ "purge" \in Locked
    BY DEF Labels, Locked
  <1>13. r.pc = "purge" /\ r.plan = d
    BY <1>12, At, GotoUpdate
  <1>14. Moves(p, r) /\ proc'[p] = r
    BY <1>2, <1>3, <1>12, GotoMoves
  <1> HIDE DEF r
  <1>15. PhaseOf(proc[p])'
    BY <1>2, <1>5, <1>6, <1>13, <1>14 DEF PhaseOf
  <1> QED BY <1>2, <1>7, <1>9, <1>10, <1>11, <1>14, <1>15, OwnerStep DEF SInv

LEMMA RestoreOneKeeps ==
    ASSUME IInv, NEW p \in Proc, RestoreOne(p) PROVE IInv'
  <1> DEFINE d == proc[p].plan
  <1>1. holder = p /\ d \in Plan /\ proc[p].pc = "restore"
    BY At, PhaseFacts DEF RestoreOne, Locked
  <1>2. PICK n \in FirstOf(Trashed(d)) :
          IF Exists(n) THEN LeaveDeletion(p) /\ UNCHANGED <<dir, trash>>
          ELSE /\ Put(n, trash[d][n])
               /\ SetAside(d, n, Absent)
               /\ UNCHANGED <<holder, proc>>
    BY DEF RestoreOne
  <1>3. UNCHANGED <<journal, plan, app, docs, erased, minted, used>>
    BY DEF RestoreOne
  <1>4. n \in Name /\ trash[d][n] # Absent
    BY FirstOne DEF Trashed
  <1>5. CASE Exists(n)
    <2>1. LeaveDeletion(p) /\ Still
      BY <1>2, <1>3, <1>5 DEF Still
    <2>2. \E r : Moves(p, r) /\ Free(r)
      BY <1>1, <2>1, LeaveMoves DEF IInv
    <2> QED BY <1>1, <1>3, <2>1, <2>2, StillLeaves, At
  <1>6. CASE ~Exists(n)
    <2>1. Put(n, trash[d][n]) /\ SetAside(d, n, Absent) /\ UNCHANGED <<holder, proc>>
      BY <1>2, <1>6
    <2>2. /\ dir \in [Name -> Content] /\ trash \in [Plan -> [Name -> Content]]
          /\ trash[d][n] \in Content
      BY <1>1, <1>4 DEF IInv, TypeOK
    <2>3. /\ dir' \in [Name -> Content] /\ dir'[n] = trash[d][n]
          /\ \A m \in Name : m # n => dir'[m] = dir[m]
      BY <1>4, <2>1, <2>2, PutEffect
    <2>4. /\ trash' \in [Plan -> [Name -> Content]] /\ trash'[d][n] = Absent
          /\ \A e \in Plan, m \in Name : e # d \/ m # n => trash'[e][m] = trash[e][m]
      BY <1>1, <1>4, <2>1, <2>2, AbsentType, SetAsideEffect
    <2>5. StoreOK'
      BY <1>3, <2>3, <2>4 DEF IInv, SInv, StoreOK
    <2>6. \A e \in Plan : trash'[e][Final] # Absent => trash[e][Final] # Absent
      BY <2>4, Names
    <2>7. Minting' /\ Undecided' /\ OneRecord'
      BY <1>3, <2>6 DEF IInv, SInv, Minting, Undecided, OneRecord
    <2>8. CommittedStays'
      <3> SUFFICES ASSUME NEW t \in Token, journal[t].state = "committed"
                   PROVE  docs = t /\ Holds(dir'[Final], t) /\ dir'[Final].of = t /\ dir'[Final].marked
        BY <1>3 DEF CommittedStays, Belongs
      <3>1. docs = t /\ Holds(dir[Final], t) /\ dir[Final].of = t /\ dir[Final].marked
        BY DEF IInv, SInv, CommittedStays, Belongs
      <3>2. Exists(Final)
        BY <3>1, NoneAssumption, AbsentType DEF Exists
      <3>3. n # Final
        BY <1>6, <3>2
      <3> QED BY <2>3, <3>1, <3>3, Names
    <2>9. NeverLost'
      <3> SUFFICES ASSUME docs # None
                   PROVE  \/ Holds(dir'[Final], docs)
                          \/ \E t \in Token : /\ journal[t].state = "prepared" /\ journal[t].had
                                              /\ Holds(dir'[Backup(t)], docs)
                          \/ \E e \in Plan : plan[e].state = "prepared" /\ Holds(trash'[e][Final], docs)
        BY <1>3 DEF NeverLost
      <3>1. \A m \in Name : Holds(dir[m], docs) => dir'[m] = dir[m]
        BY <1>6, <2>3, Holding DEF Exists, IInv
      <3>2. CASE Holds(dir[Final], docs)
        BY <3>1, <3>2, Names
      <3>3. CASE \E t \in Token : /\ journal[t].state = "prepared" /\ journal[t].had
                                  /\ Holds(dir[Backup(t)], docs)
        BY <3>1, <3>3, Names
      <3>4. CASE \E e \in Plan : plan[e].state = "prepared" /\ Holds(trash[e][Final], docs)
        <4>1. PICK e \in Plan : plan[e].state = "prepared" /\ Holds(trash[e][Final], docs)
          BY <3>4
        <4>2. CASE e = d /\ n = Final
          BY <2>3, <4>1, <4>2
        <4>3. CASE e # d \/ n # Final
          BY <2>4, <4>1, <4>3, Names
        <4> QED BY <4>2, <4>3
      <3> QED BY <3>2, <3>3, <3>4 DEF IInv, SInv, NeverLost
    <2>10. minted \subseteq minted' /\ Decided
      BY <1>3 DEF Decided
    <2>11. Moves(p, proc[p])
      BY <1>1, <2>1, StayMoves
    <2>12. PhaseOf(proc[p])'
      BY <1>1, <2>1 DEF PhaseOf
    <2> QED BY <1>1, <2>5, <2>7, <2>8, <2>9, <2>10, <2>11, <2>12, OwnerStep DEF SInv
  <1> QED BY <1>5, <1>6

(* A directory of a decided deletion is removed, whole or in part. *)
LEMMA PurgeStep ==
    ASSUME SInv, NEW d \in Plan, plan[d].state # "prepared", NEW n \in Trashed(d),
           NEW c \in Content, SetAside(d, n, c),
           UNCHANGED <<dir, journal, plan, app, docs, erased, minted>>,
           used' \in [crashes : Nat, faults : Nat, torn : Nat]
    PROVE  SInv' /\ minted \subseteq minted' /\ Decided
  <1>1. n \in Name /\ trash[d][n] # Absent /\ trash \in [Plan -> [Name -> Content]]
    BY DEF Trashed, SInv, StoreOK
  <1>2. /\ trash' \in [Plan -> [Name -> Content]]
        /\ \A e \in Plan, m \in Name : e # d \/ m # n => trash'[e][m] = trash[e][m]
    BY <1>1, SetAsideEffect
  <1>3. \A e \in Plan : trash'[e][Final] # Absent => trash[e][Final] # Absent
    BY <1>1, <1>2, Names
  <1>4. StoreOK'
    BY <1>2 DEF SInv, StoreOK
  <1>5. Minting' /\ Undecided' /\ OneRecord' /\ CommittedStays'
    BY <1>3 DEF SInv, Minting, Undecided, OneRecord, CommittedStays, Belongs
  <1>6. \A e \in Plan : plan[e].state = "prepared" => trash'[e][Final] = trash[e][Final]
    BY <1>2, Names
  <1>7. NeverLost'
    BY <1>6 DEF SInv, NeverLost
  <1>8. minted \subseteq minted' /\ Decided
    BY DEF Decided
  <1> QED BY <1>4, <1>5, <1>7, <1>8 DEF SInv

LEMMA PurgeOneKeeps ==
    ASSUME IInv, NEW p \in Proc, PurgeOne(p) PROVE IInv'
  <1> DEFINE d == proc[p].plan
  <1>1. PhaseOf(proc[p]) /\ proc[p].pc = "purge"
    BY At DEF PurgeOne
  <1>2. holder = p /\ d \in Plan /\ plan[d].state # "prepared"
    BY <1>1, At DEF PhaseOf, Locked
  <1>3. PICK n \in FirstOf(Trashed(d)) : SetAside(d, n, Absent)
    BY DEF PurgeOne
  <1>4. n \in Trashed(d)
    BY FirstOne DEF Trashed
  <1>5. UNCHANGED <<dir, journal, plan, app, docs, erased, minted, holder, proc, used>>
    BY DEF PurgeOne
  <1>6. SInv' /\ minted \subseteq minted' /\ Decided
    BY <1>2, <1>3, <1>4, <1>5, AbsentType, PurgeStep, At DEF IInv
  <1>7. Moves(p, proc[p])
    BY <1>2, <1>5, StayMoves
  <1>8. PhaseOf(proc[p])'
    BY <1>1, <1>2, <1>5 DEF PhaseOf
  <1> QED BY <1>2, <1>6, <1>7, <1>8, OwnerStep

LEMMA PurgeTornKeeps ==
    ASSUME IInv, NEW p \in Proc, PurgeTorn(p) PROVE IInv'
  <1> DEFINE d == proc[p].plan
  <1>1. PhaseOf(proc[p]) /\ proc[p].pc = "purge"
    BY At DEF PurgeTorn
  <1>2. holder = p /\ d \in Plan /\ plan[d].state # "prepared"
    BY <1>1, At DEF PhaseOf, Locked
  <1>a. PICK n \in FirstOf(Trashed(d)) : \E c \in Torn(trash[d][n]) : SetAside(d, n, c)
    BY DEF PurgeTorn
  <1>3. PICK c \in Torn(trash[d][n]) : SetAside(d, n, c)
    BY <1>a
  <1>4. n \in Trashed(d)
    BY FirstOne DEF Trashed
  <1>5. c \in Content
    <2>1. trash[d][n] \in Content
      BY <1>2, <1>4 DEF Trashed, IInv, TypeOK
    <2> QED BY <1>3, <2>1, ContentUpdates
  <1>6. /\ UNCHANGED <<dir, journal, plan, app, docs, erased, minted>>
        /\ LeaveDeletion(p) \/ Killed(p)
        /\ used' \in [crashes : Nat, faults : Nat, torn : Nat]
    BY SpentType DEF PurgeTorn
  <1>7. SInv' /\ minted \subseteq minted' /\ Decided
    BY <1>2, <1>3, <1>4, <1>5, <1>6, PurgeStep DEF IInv
  <1>8. \E r : Moves(p, r) /\ Free(r)
    BY <1>2, <1>6, LeaveMoves, KilledMoves DEF IInv
  <1> QED BY <1>2, <1>7, <1>8, OwnerLeaves

LEMMA ForgetKeeps ==
    ASSUME IInv, NEW p \in Proc, Forget(p) PROVE IInv'
  <1> DEFINE d == proc[p].plan
             x == [state |-> "none", entries |-> {}]
  <1>1. holder = p /\ d \in Plan /\ Trashed(d) = {}
    BY At, PhaseFacts DEF Forget, Locked
  <1>2. /\ plan' = [plan EXCEPT ![d] = x] /\ LeaveDeletion(p)
        /\ UNCHANGED <<dir, trash, journal, app, docs, erased, minted, used>>
    BY DEF Forget
  <1>3. x \in [state : Rows, entries : SUBSET Name] /\ x.state = "none"
    BY DEF Rows
  <1> HIDE DEF x
  <1>4. /\ plan' \in [Plan -> [state : Rows, entries : SUBSET Name]] /\ plan'[d] = x
        /\ \A e \in Plan : e # d => plan'[e] = plan[e]
    BY <1>1, <1>2, <1>3, PlanEffect DEF IInv, TypeOK
  <1>5. StoreOK'
    BY <1>2, <1>4 DEF IInv, SInv, StoreOK
  <1>6. Minting' /\ Undecided' /\ OneRecord' /\ CommittedStays'
    BY <1>2, <1>3, <1>4
       DEF IInv, SInv, Minting, Undecided, OneRecord, CommittedStays, Belongs
  <1>7. docs # None => ~Holds(trash[d][Final], docs)
    BY <1>1, Names, Holding DEF Trashed, IInv
  <1>8. NeverLost'
    BY <1>2, <1>4, <1>7 DEF IInv, SInv, NeverLost
  <1>9. minted \subseteq minted' /\ Decided
    BY <1>2, <1>3, <1>4 DEF Decided
  <1>10. \E r : Moves(p, r) /\ Free(r)
    BY <1>1, <1>2, LeaveMoves DEF IInv
  <1> QED BY <1>1, <1>5, <1>6, <1>8, <1>9, <1>10, OwnerLeaves DEF SInv

-----------------------------------------------------------------------------
(* The invariant *)

LEMMA InitHolds == Init => IInv
  <1> SUFFICES ASSUME Init PROVE IInv
    OBVIOUS
  <1>1. Resting("down") \in Locals /\ Resting("down").pc = "down"
        /\ \A d \in Plan : Resting("down").seen[d] = "none"
    <2>1. "down" \in Labels
      BY DEF Labels
    <2> QED BY <2>1, RestingType
  <1>2. \A p \in Proc : proc[p] = Resting("down")
    BY DEF Init
  <1>3. StoreOK
    BY AbsentType DEF Init, StoreOK, Rows
  <1>4. TypeOK
    BY <1>1, <1>3 DEF Init, StoreOK, TypeOK
  <1>5. Locking
    BY <1>1, <1>2, NoneAssumption DEF Init, Locking, Locked
  <1>6. SInv
    BY <1>3, Names DEF Init, SInv, Minting, Undecided, OneRecord, CommittedStays, NeverLost
  <1>7. Phases
    BY <1>1, <1>2 DEF Phases, PhaseOf, SeenOf
  <1> QED BY <1>4, <1>5, <1>6, <1>7 DEF IInv

LEMMA Inductive == IInv /\ [Next]_vars => IInv'
  <1> SUFFICES ASSUME IInv, [Next]_vars PROVE IInv'
    OBVIOUS
  <1>1. CASE UNCHANGED vars
    <2>1. UNCHANGED <<dir, trash, journal, plan, app, docs, erased, minted, holder, proc, used>>
      BY <1>1 DEF vars
    <2>2. TypeOK' /\ Locking'
      BY <2>1 DEF IInv, TypeOK, Locking
    <2>3. Still
      BY <2>1 DEF Still
    <2>4. SInv'
      BY <2>1, <2>3, StillStore DEF IInv, SInv, StoreOK
    <2>5. Phases'
      <3> SUFFICES ASSUME NEW p \in Proc PROVE PhaseOf(proc[p])' /\ SeenOf(proc[p])'
        BY DEF Phases
      <3>1. PhaseOf(proc[p]) /\ SeenOf(proc[p]) /\ proc'[p] = proc[p]
        BY <2>1 DEF IInv, Phases
      <3>2. PhaseOf(proc[p])'
        BY <2>3, <3>1, StillPhase
      <3>3. SeenOf(proc[p])'
        BY <2>1, <3>1 DEF SeenOf
      <3> QED BY <3>2, <3>3
    <2> QED BY <2>2, <2>4, <2>5 DEF IInv
  <1>2. CASE Next
    <2>1. PICK p \in Proc :
             \/ Publishing(p) \/ Reconciling(p) \/ Deleting(p) \/ Booting(p)
             \/ Send(p) \/ Quit(p) \/ Troubles(p)
      BY <1>2 DEF Next
    <2>2. CASE Publishing(p)
      BY <2>2, ReserveKeeps, EnterLockKeeps, OpenRecoversKeeps, OpenKeeps, RenderKeeps,
         GiveUpKeeps, PrepareKeeps, ValidateKeeps, SwapOutKeeps, SwapInKeeps, PersistKeeps,
         DiscardKeeps, ReleaseKeeps DEF Publishing
    <2>3. CASE Reconciling(p)
      BY <2>3, RecoverRefusesKeeps, RecoverRemovesKeeps, RecoverRestoresKeeps, RecoverEndsKeeps
         DEF Reconciling
    <2>4. CASE Deleting(p)
      BY <2>4, DeleteStartKeeps, DeleteRecoversKeeps, DeletePlanKeeps, DeleteBeginKeeps,
         StageOneKeeps, EraseKeeps, RestoreOneKeeps, PurgeOneKeeps, ForgetKeeps DEF Deleting
    <2>5. CASE Booting(p)
      BY <2>5, BootKeeps, BootPubKeeps, BootReadPlansKeeps, BootPlanKeeps, IdleKeeps DEF Booting
    <2>6. CASE Troubles(p)
      BY <2>6, CrashKeeps, FailsKeeps, SwapInFailsKeeps, RecoverTornKeeps, PurgeTornKeeps
         DEF Troubles
    <2>7. CASE Send(p) \/ Quit(p)
      BY <2>7, SendKeeps, IdleKeeps
    <2> QED BY <2>1, <2>2, <2>3, <2>4, <2>5, <2>6, <2>7
  <1> QED BY <1>1, <1>2

LEMMA Invariance == Spec => []IInv
  BY InitHolds, Inductive, PTL DEF Spec

(* Every variable keeps its type. *)
THEOREM Types == Spec => []TypeOK
  <1>1. IInv => TypeOK
    BY DEF IInv
  <1> QED BY <1>1, Invariance, PTL

(* No crash, failed call or interrupted removal, in any window, ever loses  *)
(* the last whole copy of the version the database describes.               *)
THEOREM VersionIsNeverLost == Spec => []NeverLost
  <1>1. IInv => NeverLost
    BY DEF IInv, SInv
  <1> QED BY <1>1, Invariance, PTL

(* From the commit to the end of its record, the new version is whole and   *)
(* in place: no deletion and no other publication touches it.               *)
THEOREM CommittedVersionStays == Spec => []CommittedStays
  <1>1. IInv => CommittedStays
    BY DEF IInv, SInv
  <1> QED BY <1>1, Invariance, PTL

(* At most one publication of the dossier is open at any time. *)
THEOREM OneOpenRecord == Spec => []OneRecord
  <1>1. IInv => OneRecord
    BY DEF IInv, SInv
  <1> QED BY <1>1, Invariance, PTL

-----------------------------------------------------------------------------
(* One window whose calls do not raise, for any number of versions,        *)
(* deletions and crashes: the rows and the files of the application change *)
(* at once (Dossier), nothing is left over at rest, and an erased version  *)
(* does not come back.                                                     *)

Alone == (\E p : Proc = {p}) /\ MaxFaults = 0 /\ MaxTorn = 0

-----------------------------------------------------------------------------
(* What is on the disk: nothing to reconcile, or one piece of work that a  *)
(* crash may have interrupted at any of its renames.                       *)

Aside(d) == \E n \in Name : trash[d][n] # Absent
Unplanned(d) == plan[d].state = "none" /\ ~Aside(d)
NoPlan == \A d \in Plan : Unplanned(d)
NoBackup == \A t \in Token : ~Exists(Backup(t))

InPlace == IF docs = None THEN ~Exists(Final) ELSE Holds(dir[Final], docs)

Clean == NoRecord /\ NoPlan /\ NoBackup /\ InPlace

(* The only record is t's, and nothing but its own directories is there.   *)
Only(t) ==
    /\ NoPlan
    /\ \A s \in Token : s # t => journal[s].state = "none" /\ ~Exists(Backup(s))
    /\ Exists(Staging(t)) => Belongs(Staging(t), t)

(* A publication to undo: the version of the database is in the backup, or *)
(* still in place, or there is none.                                       *)
Undoing(t) ==
    /\ t \in Token /\ journal[t].state = "prepared" /\ Only(t) /\ t \notin erased
    /\ journal[t].had <=> docs # None
    /\ \/ Exists(Backup(t)) /\ Holds(dir[Backup(t)], docs)
          /\ docs # None /\ (Exists(Final) => Belongs(Final, t))
       \/ ~Exists(Backup(t)) /\ docs # None /\ Holds(dir[Final], docs)
       \/ ~Exists(Backup(t)) /\ docs = None /\ (Exists(Final) => Belongs(Final, t))

(* A publication to finish *)
Finishing(t) ==
    /\ t \in Token /\ journal[t].state = "committed" /\ Only(t)
    /\ Exists(Backup(t)) => journal[t].had

(* A deletion to undo, and one to finish *)
Removing(d) ==
    /\ d \in Plan /\ plan[d].state = "prepared" /\ docs # None
    /\ NoRecord /\ NoBackup /\ \A e \in Plan : e # d => Unplanned(e)
    /\ \A n \in Name : trash[d][n] # Absent => ~Exists(n)
    /\ \A t \in Token : trash[d][Backup(t)] = Absent
    /\ \/ Holds(dir[Final], docs) /\ trash[d][Final] = Absent
       \/ ~Exists(Final) /\ Holds(trash[d][Final], docs)
Erasing(d) ==
    /\ d \in Plan /\ plan[d].state = "committed" /\ docs = None
    /\ NoRecord /\ NoBackup /\ \A e \in Plan : e # d => Unplanned(e)
    /\ ~Exists(Final)

ToReconcile == \E d \in Plan : Removing(d) \/ Erasing(d)
ToRecover == \E t \in Token : Undoing(t) \/ Finishing(t)

(* What the place in the window's call says of the disk *)
PlaceOf(r) ==
    /\ r.pc \in {"idle", "release", "lock", "write", "render", "prepare", "discard", "plan"}
          => Clean
    /\ r.pc \in {"down", "bootPubs"} => Clean \/ ToRecover \/ ToReconcile
    /\ r.pc = "bootPubs" => Pending \subseteq r.keys
    /\ r.pc = "bootPlans" =>
          (Clean \/ ToReconcile) /\ \A d \in Plan : r.seen[d] = plan[d].state
    /\ r.pc = "recover" =>
          (Undoing(r.tok) \/ Finishing(r.tok)) /\ r.after \in {"exit", "bootPubs"}
    /\ r.pc \in {"render", "prepare"} => r.tok \notin erased
    /\ r.pc \in {"write", "render", "prepare", "validate", "swapOut", "swapIn", "persist"}
          => app \in {"reserved", "ready"}
    /\ r.pc \in {"validate", "swapOut", "swapIn", "persist"} => Undoing(r.tok)
    /\ r.pc \in {"validate", "swapOut"} => ~Exists(Backup(r.tok))
    /\ r.pc \in {"begin", "stage", "erase", "restore"} => Removing(r.plan)
    /\ r.pc \in {"begin", "stage", "erase"} =>
          /\ app = "ready" /\ r.after = "exit"
          /\ Final \notin r.names => ~Exists(Final)
    /\ r.pc = "erase" => r.names = {}
    /\ r.pc = "purge" => Erasing(r.plan)
    /\ r.pc \in {"restore", "purge"} /\ r.after = "bootPlans" =>
          \A d \in Plan : r.seen[d] = "none"

(* What the rows and the erased versions say of each other *)
RowsAgree ==
    /\ docs # None <=> app \in {"ready", "sent"}
    /\ erased \subseteq minted /\ docs \notin erased

AInv == RowsAgree /\ \A p \in Proc : PlaceOf(proc[p])

-----------------------------------------------------------------------------
(* What every step has in common *)

Quiet == {"idle", "release", "lock", "discard", "plan", "down"}

(* The bounds leave no call that raises and no removal that stops. *)
LEMMA NoTrouble ==
    ASSUME IInv, Alone, NEW p \in Proc
    PROVE  /\ ~Fails(p) /\ ~SwapInFails(p) /\ ~RecoverTorn(p) /\ ~PurgeTorn(p)
           /\ \A q \in Proc : q = p
  <1>1. used.faults \in Nat /\ used.torn \in Nat
    BY DEF IInv, TypeOK
  <1>2. ~(used.faults < MaxFaults) /\ ~(used.torn < MaxTorn)
    BY <1>1 DEF Alone
  <1>3. ~Fails(p) /\ ~SwapInFails(p)
    BY <1>2 DEF Fails, SwapInFails
  <1>4. ~RecoverTorn(p) /\ ~PurgeTorn(p)
    BY <1>2 DEF RecoverTorn, PurgeTorn
  <1> QED BY <1>3, <1>4 DEF Alone

(* The window is at r now. *)
LEMMA Steps ==
    ASSUME Alone, NEW p \in Proc, NEW r, proc'[p] = r, PlaceOf(r)', RowsAgree'
    PROVE  AInv'
  <1>1. \A q \in Proc : q = p
    BY DEF Alone
  <1> QED BY <1>1 DEF AInv

(* Nothing on the disk changes. *)
LEMMA DiskStill ==
    ASSUME Still
    PROVE  /\ Clean' <=> Clean
           /\ \A t \in Token : (Undoing(t)' <=> Undoing(t)) /\ (Finishing(t)' <=> Finishing(t))
           /\ \A d \in Plan : (Removing(d)' <=> Removing(d)) /\ (Erasing(d)' <=> Erasing(d))
           /\ Pending' = Pending
  <1>0. /\ dir' = dir /\ trash' = trash /\ journal' = journal /\ plan' = plan /\ docs' = docs
        /\ erased' = erased
    BY DEF Still
  <1>1. Clean' <=> Clean
    BY <1>0 DEF Clean, NoRecord, NoPlan, Unplanned, Aside, NoBackup, InPlace, Exists
  <1>2. ASSUME NEW t \in Token
        PROVE  (Undoing(t)' <=> Undoing(t)) /\ (Finishing(t)' <=> Finishing(t))
    BY <1>0 DEF Undoing, Finishing, Only, NoPlan, Unplanned, Aside, Exists, Belongs
  <1>3. ASSUME NEW d \in Plan
        PROVE  (Removing(d)' <=> Removing(d)) /\ (Erasing(d)' <=> Erasing(d))
    BY <1>0 DEF Removing, Erasing, NoRecord, NoBackup, Unplanned, Aside, Exists
  <1>4. Pending' = Pending
    BY <1>0 DEF Pending
  <1> QED BY <1>1, <1>2, <1>3, <1>4

(* The window moves to r, and nothing else changes but the status. *)
LEMMA StillSteps ==
    ASSUME AInv, Alone, Still, NEW p \in Proc, NEW r, proc'[p] = r, PlaceOf(r),
           docs # None <=> app' \in {"ready", "sent"},
           \/ app' = app
           \/ r.pc \notin {"write", "render", "prepare", "validate", "swapOut", "swapIn", "persist",
                           "begin", "stage", "erase"}
    PROVE  AInv'
  <1>1. docs' = docs /\ erased' = erased /\ minted' = minted /\ plan' = plan
    BY DEF Still
  <1>2. RowsAgree'
    BY <1>1 DEF AInv, RowsAgree
  <1>3. (ToRecover' <=> ToRecover) /\ (ToReconcile' <=> ToReconcile)
    BY DiskStill DEF ToRecover, ToReconcile
  <1>4. /\ Undoing(r.tok)' <=> Undoing(r.tok)
        /\ Finishing(r.tok)' <=> Finishing(r.tok)
    BY DiskStill DEF Undoing, Finishing
  <1>5. /\ Removing(r.plan)' <=> Removing(r.plan)
        /\ Erasing(r.plan)' <=> Erasing(r.plan)
    BY DiskStill DEF Removing, Erasing
  <1>6. \A n : Exists(n)' <=> Exists(n)
    BY DEF Still, Exists
  <1>7. PlaceOf(r)'
    BY <1>1, <1>3, <1>4, <1>5, <1>6, DiskStill DEF PlaceOf
  <1> QED BY <1>2, <1>7, Steps

(* A window with nothing to reconcile may be at any quiet place. *)
LEMMA QuietPlace ==
    ASSUME Clean, NEW r, r.pc \in Quiet
    PROVE  PlaceOf(r)
  BY DEF Quiet, PlaceOf

(* A window at its place, with the types and the phase the invariants give. *)
LEMMA PlaceAt ==
    ASSUME IInv, AInv, NEW p \in Proc
    PROVE  /\ PlaceOf(proc[p]) /\ RowsAgree /\ proc[p] \in Locals /\ PhaseOf(proc[p])
           /\ proc[p].pc \in Locked <=> holder = p
           /\ proc \in [Proc -> Locals]
  BY At DEF AInv, IInv, TypeOK

(* A record that can be undone or finished is never refused. *)
LEMMA RecoverySafe ==
    ASSUME IInv, NEW t \in Token, Undoing(t) \/ Finishing(t)
    PROVE  /\ ~Unsafe(t) /\ (Exists(Staging(t)) => Belongs(Staging(t), t))
           /\ Undoing(t) => journal[t].state = "prepared" /\ journal[t].had \in BOOLEAN
           /\ Finishing(t) => journal[t].state = "committed"
  <1>1. journal[t].had \in BOOLEAN /\ SInv
    BY DEF IInv, SInv, TypeOK
  <1>2. CASE Undoing(t)
    <2>1. docs # t /\ \A n : Holds(dir[n], docs) => ~Belongs(n, t)
      BY <1>1, <1>2 DEF SInv, Undecided, Undoing, Holds, Belongs
    <2>2. docs # None => (Holds(dir[Final], docs) => Exists(Final))
      BY <1>1, Holding DEF Exists
    <2>3. ~Unsafe(t)
      BY <1>1, <1>2, <2>1, <2>2 DEF Undoing, Unsafe
    <2> QED BY <1>1, <1>2, <2>3 DEF Undoing, Finishing, Only
  <1>3. CASE Finishing(t)
    <2>1. Belongs(Final, t) /\ dir[Final].whole
      BY <1>1, <1>3 DEF SInv, CommittedStays, Finishing, Holds
    <2>2. ~Unsafe(t)
      BY <1>3, <2>1 DEF Finishing, Unsafe
    <2> QED BY <1>1, <1>3, <2>2 DEF Undoing, Finishing, Only
  <1>4. ~(Undoing(t) /\ Finishing(t))
    BY DEF Undoing, Finishing
  <1> QED BY <1>1, <1>2, <1>3, <1>4 DEF Undoing, Finishing

(* Where a record is, there is nothing but the record. *)
LEMMA OnePiece ==
    ASSUME IInv
    PROVE  /\ Clean => Pending = {} /\ NoRecord /\ \A d \in Plan : plan[d].state = "none"
           /\ \A d : Removing(d) \/ Erasing(d) => NoRecord
           /\ \A t, d : ~((Undoing(t) \/ Finishing(t)) /\ (Removing(d) \/ Erasing(d)))
           /\ NoRecord => Pending = {}
           /\ \A t \in Token : Undoing(t) \/ Finishing(t) =>
                 NoPlan /\ Pending = {t} /\ ~NoRecord
           /\ \A s, t : (Undoing(t) \/ Finishing(t)) /\ s \in Pending => s = t
  <1>1. NoRecord => Pending = {}
    BY DEF NoRecord, Pending
  <1>2. Clean => NoRecord /\ \A d \in Plan : plan[d].state = "none"
    BY DEF Clean, NoPlan, Unplanned
  <1>3. \A d : Removing(d) \/ Erasing(d) => NoRecord
    BY DEF Removing, Erasing
  <1>4. \A t : Undoing(t) \/ Finishing(t) => NoPlan /\ t \in Token /\ Pending = {t} /\ ~NoRecord
    BY DEF Undoing, Finishing, Only, NoPlan, Unplanned, Pending, NoRecord
  <1> QED BY <1>1, <1>2, <1>3, <1>4

-----------------------------------------------------------------------------
(* The steps that leave directories and records as they are *)

(* A refused recovery, and one before a publication or a deletion, do not   *)
(* happen: what was interrupted was reconciled when the window opened.      *)
LEMMA NothingRefused ==
    ASSUME IInv, AInv, NEW p \in Proc
    PROVE  ~RecoverRefuses(p) /\ ~OpenRecovers(p) /\ ~DeleteRecovers(p)
  <1>1. ~RecoverRefuses(p)
    <2> SUFFICES ASSUME proc[p].pc = "recover" PROVE ~RecoverRefuses(p)
      BY DEF RecoverRefuses
    <2>1. Undoing(proc[p].tok) \/ Finishing(proc[p].tok)
      BY PlaceAt DEF PlaceOf
    <2>2. proc[p].tok \in Token
      BY <2>1 DEF Undoing, Finishing
    <2> QED BY <2>1, <2>2, RecoverySafe DEF RecoverRefuses
  <1>2. proc[p].pc \in {"write", "plan"} => Pending = {}
    BY PlaceAt, OnePiece DEF PlaceOf
  <1> QED BY <1>1, <1>2 DEF OpenRecovers, DeleteRecovers

(* A call that ends with nothing to reconcile *)
LEMMA QuietSteps ==
    ASSUME IInv, AInv, Alone, Still, app' = app, Clean, NEW p \in Proc,
           Becomes(p, Resting("idle")) \/ Becomes(p, Resting("release"))
             \/ Becomes(p, Resting("down")) \/ Becomes(p, Resting("plan"))
    PROVE  AInv'
  <1>1. PICK l \in {"idle", "release", "down", "plan"} : Becomes(p, Resting(l))
    OBVIOUS
  <1>2. l \in Labels /\ l \in Quiet
    BY DEF Labels, Quiet
  <1>3. PICK r : r = Resting(l)
    OBVIOUS
  <1>4. r.pc = l /\ proc'[p] = r
    BY <1>1, <1>2, <1>3, RestingType, PlaceAt DEF Becomes
  <1>5. PlaceOf(r)
    BY <1>2, <1>4, QuietPlace
  <1>6. docs # None <=> app' \in {"ready", "sent"}
    BY DEF AInv, RowsAgree
  <1> QED BY <1>4, <1>5, <1>6, StillSteps

(* The publication begins; a clean window may be at "write" with a row.     *)
LEMMA EnterLockAlone ==
    ASSUME IInv, AInv, Alone, NEW p \in Proc, EnterLock(p) PROVE AInv'
  <1>1. Still /\ app' = app /\ proc[p].pc = "lock"
    BY StoreIsStill DEF EnterLock
  <1>2. Clean
    BY <1>1, PlaceAt DEF PlaceOf
  <1>3. CASE holder = None /\ app \in {"reserved", "ready"}
    <2>1. PICK r : r = [proc[p] EXCEPT !.pc = "write", !.snap = app]
      OBVIOUS
    <2>2. proc'[p] = r /\ r.pc = "write"
      BY <1>3, <2>1, PlaceAt DEF EnterLock, Becomes, Locals
    <2>3. PlaceOf(r)
      BY <1>2, <1>3, <2>2 DEF PlaceOf
    <2>4. docs # None <=> app' \in {"ready", "sent"}
      BY <1>1 DEF AInv, RowsAgree
    <2> QED BY <1>1, <2>2, <2>3, <2>4, StillSteps
  <1>4. CASE ~(holder = None /\ app \in {"reserved", "ready"})
    <2>1. Becomes(p, Resting("idle")) \/ Becomes(p, Resting("release"))
      BY <1>4 DEF EnterLock, Exit
    <2> QED BY <1>1, <1>2, <2>1, QuietSteps
  <1> QED BY <1>3, <1>4

(* A text or a rendering fails, or is cancelled. *)
LEMMA GiveUpAlone ==
    ASSUME IInv, AInv, Alone, NEW p \in Proc, GiveUp(p) PROVE AInv'
  <1>1. Still /\ app' = app /\ proc[p].pc \in {"write", "render"}
    BY StoreIsStill DEF GiveUp
  <1>2. Clean
    BY <1>1, PlaceAt DEF PlaceOf
  <1>3. CASE proc[p].pc = "write"
    BY <1>1, <1>2, <1>3, QuietSteps DEF GiveUp, Exit
  <1>4. CASE proc[p].pc = "render"
    <2>1. PICK r : r = [proc[p] EXCEPT !.pc = "discard"]
      OBVIOUS
    <2>2. proc'[p] = r /\ r.pc = "discard"
      BY <1>4, <2>1, PlaceAt DEF GiveUp, Goto, Becomes, Locals
    <2>3. PlaceOf(r)
      BY <1>2, <2>2, QuietPlace DEF Quiet
    <2>4. docs # None <=> app' \in {"ready", "sent"}
      BY <1>1 DEF AInv, RowsAgree
    <2> QED BY <1>1, <2>2, <2>3, <2>4, StillSteps
  <1> QED BY <1>1, <1>3, <1>4

(* The last check before the renames: either way the record can be undone. *)
LEMMA ValidateAlone ==
    ASSUME IInv, AInv, Alone, NEW p \in Proc, Validate(p) PROVE AInv'
  <1>1. Still /\ app' = app /\ proc[p].pc = "validate"
    BY StoreIsStill DEF Validate
  <1>2. /\ Undoing(proc[p].tok) /\ ~Exists(Backup(proc[p].tok))
        /\ app \in {"reserved", "ready"}
    BY <1>1, PlaceAt DEF PlaceOf
  <1>3. PICK r : r = IF app = proc[p].snap THEN [proc[p] EXCEPT !.pc = "swapOut"]
                     ELSE [proc[p] EXCEPT !.pc = "recover", !.tok = proc[p].tok, !.after = "exit"]
    OBVIOUS
  <1>4. /\ proc'[p] = r /\ r.pc \in {"swapOut", "recover"} /\ r.tok = proc[p].tok
        /\ r.pc = "recover" => r.after = "exit"
    BY <1>3, PlaceAt DEF Validate, Goto, Recovering, Becomes, Locals
  <1>5. PlaceOf(r)
    BY <1>2, <1>4 DEF PlaceOf
  <1>6. docs # None <=> app' \in {"ready", "sent"}
    BY <1>1 DEF AInv, RowsAgree
  <1> QED BY <1>1, <1>4, <1>5, <1>6, StillSteps

(* Steps on the row alone: a reservation, its return, the submission *)
LEMMA RowAlone ==
    ASSUME IInv, AInv, Alone, NEW p \in Proc, Reserve(p) \/ Release(p) \/ Send(p)
    PROVE  AInv'
  <1>1. Still /\ proc[p].pc \in {"idle", "release"}
    BY DEF Reserve, Release, Send, Still
  <1>2. Clean
    BY <1>1, PlaceAt DEF PlaceOf
  <1>3. docs # None <=> app' \in {"ready", "sent"}
    BY DEF Reserve, Release, Send, AInv, RowsAgree
  <1>4. \E r : proc'[p] = r /\ r.pc \in {"lock", "idle"}
    <2>1. CASE Reserve(p)
      <3>1. PICK b \in BOOLEAN : Becomes(p, [Resting("lock") EXCEPT !.release = b])
        BY <2>1 DEF Reserve
      <3>2. [Resting("lock") EXCEPT !.release = b].pc = "lock"
        BY DEF Resting
      <3> QED BY <3>1, <3>2, PlaceAt DEF Becomes
    <2>2. CASE Release(p)
      <3>1. Resting("idle").pc = "idle"
        BY DEF Resting
      <3> QED BY <2>2, <3>1, PlaceAt DEF Release, Becomes
    <2>3. CASE Send(p)
      BY <2>3 DEF Send
    <2> QED BY <2>1, <2>2, <2>3
  <1>5. PICK r : proc'[p] = r /\ r.pc \in {"lock", "idle"}
    BY <1>4
  <1>6. PlaceOf(r)
    BY <1>2, <1>5, QuietPlace DEF Quiet
  <1> QED BY <1>1, <1>3, <1>5, <1>6, StillSteps

(* The user closes the application at rest, or asks for a deletion. *)
LEMMA QuitAlone ==
    ASSUME IInv, AInv, Alone, NEW p \in Proc, Quit(p) \/ DeleteStart(p) PROVE AInv'
  <1>1. Still /\ app' = app /\ proc[p].pc = "idle"
    BY StoreIsStill DEF Quit, DeleteStart
  <1>2. Clean
    BY <1>1, PlaceAt DEF PlaceOf
  <1>3. CASE DeleteStart(p)
    BY <1>1, <1>2, <1>3, QuietSteps DEF DeleteStart
  <1>4. CASE Quit(p)
    <2>1. PICK r : r = [proc[p] EXCEPT !.pc = "down"]
      OBVIOUS
    <2>2. proc'[p] = r /\ r.pc = "down"
      BY <1>4, <2>1, PlaceAt DEF Quit, Goto, Becomes, Locals
    <2>3. PlaceOf(r)
      BY <1>2, <2>2, QuietPlace DEF Quiet
    <2>4. docs # None <=> app' \in {"ready", "sent"}
      BY <1>1 DEF AInv, RowsAgree
    <2> QED BY <1>1, <2>2, <2>3, <2>4, StillSteps
  <1> QED BY <1>3, <1>4

(* Wherever the window is killed, at most one piece of work is left. *)
LEMMA DiskAt ==
    ASSUME IInv, AInv, NEW p \in Proc
    PROVE  Clean \/ ToRecover \/ ToReconcile
  <1>1. PlaceOf(proc[p]) /\ proc[p].pc \in Labels
    BY PlaceAt, LocalsFields
  <1>2. /\ \A t : Undoing(t) \/ Finishing(t) => ToRecover
        /\ \A d : Removing(d) \/ Erasing(d) => ToReconcile
    BY DEF ToRecover, ToReconcile, Undoing, Finishing, Removing, Erasing
  <1> QED BY <1>1, <1>2 DEF PlaceOf, Labels

(* The window is killed. *)
LEMMA CrashAlone ==
    ASSUME IInv, AInv, Alone, NEW p \in Proc, Crash(p) PROVE AInv'
  <1>1. Still /\ app' = app /\ Becomes(p, Resting("down"))
    BY StoreIsStill DEF Crash, Killed
  <1>2. PICK r : r = Resting("down")
    OBVIOUS
  <1>3. proc'[p] = r /\ r.pc = "down"
    BY <1>1, <1>2, PlaceAt DEF Becomes, Resting
  <1>4. PlaceOf(r)
    BY <1>3, DiskAt DEF PlaceOf
  <1>5. docs # None <=> app' \in {"ready", "sent"}
    BY <1>1 DEF AInv, RowsAgree
  <1> QED BY <1>1, <1>3, <1>4, <1>5, StillSteps

(* The application is opened: publications first, ... *)
LEMMA BootAlone ==
    ASSUME IInv, AInv, Alone, NEW p \in Proc, Boot(p) PROVE AInv'
  <1>1. Still /\ app' = app /\ proc[p].pc = "down"
    BY StoreIsStill DEF Boot
  <1>2. PICK r : r = [Resting("bootPubs") EXCEPT !.keys = Pending]
    OBVIOUS
  <1>3. proc'[p] = r /\ r.pc = "bootPubs" /\ r.keys = Pending
    BY <1>2, PlaceAt DEF Boot, Becomes, Resting
  <1>4. PlaceOf(r)
    BY <1>3, DiskAt DEF PlaceOf
  <1>5. docs # None <=> app' \in {"ready", "sent"}
    BY <1>1 DEF AInv, RowsAgree
  <1> QED BY <1>1, <1>3, <1>4, <1>5, StillSteps

(* each record that was read is reconciled, or was already; *)
LEMMA BootPubAlone ==
    ASSUME IInv, AInv, Alone, NEW p \in Proc, BootPub(p) PROVE AInv'
  <1>1. Still /\ app' = app /\ proc[p].pc = "bootPubs"
    BY StoreIsStill DEF BootPub
  <1>2. PICK t \in proc[p].keys :
           IF holder # None \/ journal[t].state = "none"
           THEN Becomes(p, [proc[p] EXCEPT !.keys = proc[p].keys \ {t}])
           ELSE Becomes(p, [proc[p] EXCEPT !.pc = "recover", !.tok = t,
                                           !.after = "bootPubs", !.keys = proc[p].keys \ {t}])
    BY DEF BootPub
  <1>3. t \in Token /\ Pending \subseteq proc[p].keys
    BY <1>1, PlaceAt, LocalsFields DEF PlaceOf
  <1>4. holder = None
    <2>1. holder # p /\ holder \in Proc \cup {None}
      BY <1>1, PlaceAt, At DEF Locked
    <2> QED BY <2>1, NoTrouble
  <1>5. docs # None <=> app' \in {"ready", "sent"}
    BY <1>1 DEF AInv, RowsAgree
  <1>6. CASE journal[t].state = "none"
    <2>1. PICK r : r = [proc[p] EXCEPT !.keys = proc[p].keys \ {t}]
      OBVIOUS
    <2>2. proc'[p] = r /\ r.pc = "bootPubs" /\ r.keys = proc[p].keys \ {t}
      BY <1>1, <1>2, <1>6, <2>1, PlaceAt DEF Becomes, Locals
    <2>3. Pending \subseteq r.keys
      BY <1>3, <1>6, <2>2 DEF Pending
    <2>4. PlaceOf(r)
      BY <2>2, <2>3, DiskAt DEF PlaceOf
    <2> QED BY <1>1, <1>5, <2>2, <2>4, StillSteps
  <1>7. CASE journal[t].state # "none"
    <2>1. PICK r : r = [proc[p] EXCEPT !.pc = "recover", !.tok = t,
                                       !.after = "bootPubs", !.keys = proc[p].keys \ {t}]
      OBVIOUS
    <2>2. proc'[p] = r /\ r.pc = "recover" /\ r.tok = t /\ r.after = "bootPubs"
      BY <1>2, <1>4, <1>7, <2>1, PlaceAt DEF Becomes, Locals
    <2>3. t \in Pending /\ ~NoRecord
      BY <1>3, <1>7 DEF Pending, NoRecord
    <2>4. Undoing(t) \/ Finishing(t)
      BY <2>3, DiskAt, OnePiece DEF ToRecover, ToReconcile
    <2>5. PlaceOf(r)
      BY <2>2, <2>4 DEF PlaceOf
    <2> QED BY <1>1, <1>5, <2>2, <2>5, StillSteps
  <1> QED BY <1>6, <1>7

(* ... then deletions, with the rows as they are read: nobody changes them. *)
LEMMA BootReadPlansAlone ==
    ASSUME IInv, AInv, Alone, NEW p \in Proc, BootReadPlans(p) PROVE AInv'
  <1>1. Still /\ app' = app /\ proc[p].pc = "bootPubs" /\ proc[p].keys = {}
    BY StoreIsStill DEF BootReadPlans
  <1>2. PICK r : r = [Resting("bootPlans") EXCEPT !.seen = [d \in Plan |-> plan[d].state]]
    OBVIOUS
  <1>3. proc'[p] = r /\ r.pc = "bootPlans" /\ \A d \in Plan : r.seen[d] = plan[d].state
    BY <1>2, PlaceAt DEF BootReadPlans, Becomes, Resting
  <1>4. Pending = {}
    BY <1>1, PlaceAt DEF PlaceOf
  <1>5. Clean \/ ToReconcile
    BY <1>4, DiskAt, OnePiece DEF ToRecover
  <1>6. PlaceOf(r)
    BY <1>3, <1>5 DEF PlaceOf
  <1>7. docs # None <=> app' \in {"ready", "sent"}
    BY <1>1 DEF AInv, RowsAgree
  <1> QED BY <1>1, <1>3, <1>6, <1>7, StillSteps

(* a deletion is finished if its rows are gone, and undone if they are not; *)
LEMMA BootPlanAlone ==
    ASSUME IInv, AInv, Alone, NEW p \in Proc, BootPlan(p) PROVE AInv'
  <1>1. Still /\ app' = app /\ proc[p].pc = "bootPlans"
    BY StoreIsStill DEF BootPlan
  <1>2. holder = None
    <2>1. holder # p /\ holder \in Proc \cup {None}
      BY <1>1, PlaceAt, At DEF Locked
    <2> QED BY <2>1, NoTrouble
  <1>3. PICK d \in Plan :
           /\ proc[p].seen[d] # "none"
           /\ Becomes(p, [[proc[p] EXCEPT !.seen[d] = "none"] EXCEPT
                        !.plan = d, !.after = "bootPlans",
                        !.pc = IF proc[p].seen[d] = "committed" THEN "purge" ELSE "restore"])
    BY <1>2 DEF BootPlan
  <1>4. PICK r : r = [[proc[p] EXCEPT !.seen[d] = "none"] EXCEPT
                        !.plan = d, !.after = "bootPlans",
                        !.pc = IF proc[p].seen[d] = "committed" THEN "purge" ELSE "restore"]
    OBVIOUS
  <1>5. /\ proc'[p] = r /\ r.plan = d
        /\ r.pc = IF proc[p].seen[d] = "committed" THEN "purge" ELSE "restore"
        /\ r.seen = [proc[p].seen EXCEPT ![d] = "none"] /\ proc[p].seen \in [Plan -> Rows]
    BY <1>3, <1>4, PlaceAt, LocalsFields DEF Becomes, Locals
  <1>6. /\ Clean \/ ToReconcile
        /\ \A e \in Plan : proc[p].seen[e] = plan[e].state
    BY <1>1, PlaceAt DEF PlaceOf
  <1>7. Removing(d) \/ Erasing(d)
    <2>1. plan[d].state # "none"
      BY <1>3, <1>6
    <2>2. ~Clean
      BY <2>1, OnePiece
    <2> QED BY <1>6, <2>1, <2>2 DEF ToReconcile, Removing, Erasing, Unplanned
  <1>8. \A e \in Plan : r.seen[e] = "none"
    BY <1>5, <1>6, <1>7 DEF Removing, Erasing, Unplanned
  <1>9. IF proc[p].seen[d] = "committed" THEN Erasing(d) ELSE Removing(d)
    BY <1>6, <1>7 DEF Removing, Erasing
  <1>10. PlaceOf(r)
    BY <1>5, <1>8, <1>9 DEF PlaceOf
  <1>11. docs # None <=> app' \in {"ready", "sent"}
    BY <1>1 DEF AInv, RowsAgree
  <1>12. r.pc \notin {"write", "render", "prepare", "validate", "swapOut", "swapIn", "persist",
                      "begin", "stage", "erase"}
    BY <1>5
  <1> QED BY <1>1, <1>5, <1>10, <1>11, <1>12, StillSteps

(* nothing is left to reconcile when the window is up. *)
LEMMA BootedAlone ==
    ASSUME IInv, AInv, Alone, NEW p \in Proc, Booted(p) PROVE AInv'
  <1>1. /\ Still /\ app' = app /\ proc[p].pc = "bootPlans"
        /\ \A d \in Plan : proc[p].seen[d] = "none"
    BY StoreIsStill DEF Booted
  <1>2. Clean
    BY <1>1, PlaceAt DEF PlaceOf, ToReconcile, Removing, Erasing
  <1>3. PICK r : r = [proc[p] EXCEPT !.pc = "idle"]
    OBVIOUS
  <1>4. proc'[p] = r /\ r.pc = "idle"
    BY <1>3, PlaceAt DEF Booted, Goto, Becomes, Locals
  <1>5. PlaceOf(r)
    BY <1>2, <1>4, QuietPlace DEF Quiet
  <1>6. docs # None <=> app' \in {"ready", "sent"}
    BY <1>1 DEF AInv, RowsAgree
  <1> QED BY <1>1, <1>4, <1>5, <1>6, StillSteps

(* The last check of a deletion *)
LEMMA DeleteBeginAlone ==
    ASSUME IInv, AInv, Alone, NEW p \in Proc, DeleteBegin(p) PROVE AInv'
  <1>1. Still /\ app' = app /\ proc[p].pc = "begin"
    BY StoreIsStill DEF DeleteBegin
  <1>2. /\ Removing(proc[p].plan) /\ app = "ready" /\ proc[p].after = "exit"
        /\ Final \notin proc[p].names => ~Exists(Final)
    BY <1>1, PlaceAt DEF PlaceOf
  <1>3. PICK r : r = [proc[p] EXCEPT !.pc = "stage"]
    OBVIOUS
  <1>4. /\ proc'[p] = r /\ r.pc = "stage" /\ r.plan = proc[p].plan /\ r.names = proc[p].names
        /\ r.after = "exit"
    BY <1>2, <1>3, PlaceAt DEF DeleteBegin, Goto, Becomes, Locals
  <1>5. PlaceOf(r)
    BY <1>2, <1>4 DEF PlaceOf
  <1>6. docs # None <=> app' \in {"ready", "sent"}
    BY <1>1 DEF AInv, RowsAgree
  <1> QED BY <1>1, <1>4, <1>5, <1>6, StillSteps

-----------------------------------------------------------------------------
(* The steps of a publication *)

(* The rows agree as before. *)
LEMMA RowsStay ==
    ASSUME AInv, app' = app, docs' = docs, erased' = erased, minted \subseteq minted'
    PROVE  RowsAgree'
  BY DEF AInv, RowsAgree

(* Nothing is left to reconcile, and the window is at a quiet place. *)
LEMMA CleanSteps ==
    ASSUME Alone, Clean', RowsAgree', NEW p \in Proc, NEW r, proc'[p] = r, r.pc \in Quiet
    PROVE  AInv'
  <1>1. PlaceOf(r)'
    BY DEF Quiet, PlaceOf
  <1> QED BY <1>1, Steps

(* The call ends. *)
LEMMA ExitPlace ==
    ASSUME IInv, AInv, NEW p \in Proc, Exit(p)
    PROVE  \E r : proc'[p] = r /\ r.pc \in Quiet
  <1>1. PICK l \in {"idle", "release"} : Becomes(p, Resting(l))
    BY DEF Exit
  <1>2. l \in Labels /\ l \in Quiet
    BY DEF Labels, Quiet
  <1> QED BY <1>1, <1>2, RestingType, PlaceAt DEF Becomes

(* The hidden directory of a rendering is nobody's business. *)
LEMMA StagingStep ==
    ASSUME IInv, Clean, NEW t \in Token, NEW c \in Content, Put(Staging(t), c),
           UNCHANGED <<trash, journal, plan, docs>>
    PROVE  Clean'
  <1>1. dir \in [Name -> Content]
    BY DEF IInv, TypeOK
  <1>2. dir'[Final] = dir[Final] /\ \A s \in Token : dir'[Backup(s)] = dir[Backup(s)]
    BY <1>1, Names, PutEffect
  <1> QED BY <1>2 DEF Clean, NoRecord, NoPlan, Unplanned, Aside, NoBackup, InPlace, Exists

(* a rendering begins, *)
LEMMA OpenAlone ==
    ASSUME IInv, AInv, Alone, NEW p \in Proc, Open(p) PROVE AInv'
  <1>1. /\ proc[p].pc = "write" /\ UNCHANGED <<trash, journal, plan, app, docs, erased>>
    BY DEF Open
  <1>2. Clean /\ app \in {"reserved", "ready"} /\ erased \subseteq minted
    BY <1>1, PlaceAt DEF PlaceOf, RowsAgree
  <1>3. PICK t \in Token \ minted :
           /\ minted' = minted \cup {t} /\ Put(Staging(t), [Absent EXCEPT !.of = t])
           /\ Becomes(p, [proc[p] EXCEPT !.pc = "render", !.tok = t])
    BY DEF Open
  <1>4. Clean'
    BY <1>1, <1>2, <1>3, AbsentType, ContentUpdates, StagingStep
  <1>5. PICK r : r = [proc[p] EXCEPT !.pc = "render", !.tok = t]
    OBVIOUS
  <1>6. proc'[p] = r /\ r.pc = "render" /\ r.tok = t
    BY <1>3, <1>5, PlaceAt DEF Becomes, Locals
  <1>7. t \notin erased'
    BY <1>1, <1>2
  <1>8. PlaceOf(r)'
    BY <1>1, <1>2, <1>4, <1>6, <1>7 DEF PlaceOf
  <1>9. RowsAgree'
    BY <1>1, <1>3, RowsStay
  <1> QED BY <1>6, <1>8, <1>9, Steps

(* ends, *)
LEMMA RenderAlone ==
    ASSUME IInv, AInv, Alone, NEW p \in Proc, Render(p) PROVE AInv'
  <1> DEFINE t == proc[p].tok
  <1>1. /\ proc[p].pc = "render" /\ UNCHANGED <<trash, journal, plan, app, docs, erased, minted>>
        /\ Put(Staging(t), [dir[Staging(t)] EXCEPT !.whole = TRUE]) /\ Goto(p, "prepare")
    BY DEF Render
  <1>2. Clean /\ app \in {"reserved", "ready"} /\ t \notin erased /\ t \in Token
    BY <1>1, PlaceAt, PhaseFacts DEF PlaceOf
  <1>3. dir[Staging(t)] \in Content
    BY <1>2, Names DEF IInv, TypeOK
  <1>4. Clean'
    BY <1>1, <1>2, <1>3, ContentUpdates, StagingStep
  <1>5. PICK r : r = [proc[p] EXCEPT !.pc = "prepare"]
    OBVIOUS
  <1>6. proc'[p] = r /\ r.pc = "prepare" /\ r.tok = t
    BY <1>1, <1>5, PlaceAt DEF Goto, Becomes, Locals
  <1>7. PlaceOf(r)'
    BY <1>1, <1>2, <1>4, <1>6 DEF PlaceOf
  <1>8. RowsAgree'
    BY <1>1, RowsStay
  <1> QED BY <1>6, <1>7, <1>8, Steps

(* or is discarded. *)
LEMMA DiscardAlone ==
    ASSUME IInv, AInv, Alone, NEW p \in Proc, Discard(p) PROVE AInv'
  <1>1. /\ proc[p].pc = "discard" /\ UNCHANGED <<trash, journal, plan, app, docs, erased, minted>>
        /\ Put(Staging(proc[p].tok), Absent) /\ Exit(p)
    BY DEF Discard
  <1>2. Clean /\ proc[p].tok \in Token
    BY <1>1, PlaceAt, PhaseFacts DEF PlaceOf
  <1>3. Clean'
    BY <1>1, <1>2, AbsentType, StagingStep
  <1>4. RowsAgree'
    BY <1>1, RowsStay
  <1>5. PICK r : proc'[p] = r /\ r.pc \in Quiet
    BY <1>1, ExitPlace
  <1> QED BY <1>3, <1>4, <1>5, CleanSteps

(* The record says whether there is a version to put back. *)
LEMMA PrepareAlone ==
    ASSUME IInv, AInv, Alone, NEW p \in Proc, Prepare(p) PROVE AInv'
  <1>0. PICK t : t = proc[p].tok
    OBVIOUS
  <1> DEFINE c == [dir[Staging(t)] EXCEPT !.marked = TRUE]
  <1>1. /\ proc[p].pc = "prepare" /\ UNCHANGED <<trash, plan, app, docs, erased, minted>>
        /\ Put(Staging(t), c) /\ Goto(p, "validate")
        /\ journal' = [journal EXCEPT ![t] = [state |-> "prepared", had |-> Exists(Final)]]
    BY <1>0 DEF Prepare
  <1>2. Clean /\ app \in {"reserved", "ready"} /\ t \notin erased /\ t \in Token
    BY <1>0, <1>1, PlaceAt, PhaseFacts DEF PlaceOf
  <1>3. /\ dir \in [Name -> Content] /\ journal \in [Token -> [state : Rows, had : BOOLEAN]]
        /\ Staging(t) \in Name /\ SInv
    BY <1>2, Names DEF IInv, TypeOK
  <1>4. dir[Staging(t)].of = t
    BY <1>0, <1>1, PlaceAt DEF PhaseOf
  <1>5. c \in Content /\ c.of = t /\ c.marked = TRUE
    BY <1>3, <1>4 DEF Content
  <1> HIDE DEF c
  <1>6. /\ dir'[Staging(t)] = c /\ dir'[Final] = dir[Final]
        /\ \A s \in Token : dir'[Backup(s)] = dir[Backup(s)]
    BY <1>1, <1>2, <1>3, <1>5, Names, PutEffect
  <1>7. Exists(Final) \in BOOLEAN /\ "prepared" \in Rows
    BY DEF Exists, Rows
  <1>8. /\ journal'[t].state = "prepared" /\ journal'[t].had = Exists(Final)
        /\ \A s \in Token : s # t => journal'[s] = journal[s]
    BY <1>1, <1>2, <1>3, <1>7
  <1>9. Exists(Final) <=> docs # None
    BY <1>2, <1>3, Holding DEF Clean, InPlace, Exists
  <1>10. Only(t)'
    <2>1. NoPlan'
      BY <1>1, <1>2 DEF Clean, NoPlan, Unplanned, Aside
    <2>2. \A s \in Token : s # t => journal'[s].state = "none" /\ dir'[Backup(s)] = Absent
      BY <1>2, <1>6, <1>8 DEF Clean, NoRecord, NoBackup, Exists
    <2> QED BY <1>2, <1>5, <1>6, <2>1, <2>2 DEF Only, Exists, Belongs
  <1>11. ~Exists(Backup(t))'
    BY <1>2, <1>6 DEF Clean, NoBackup, Exists
  <1>12. Undoing(t)'
    BY <1>1, <1>2, <1>6, <1>8, <1>9, <1>10, <1>11 DEF Undoing, Clean, InPlace, Exists
  <1>13. PICK r : r = [proc[p] EXCEPT !.pc = "validate"]
    OBVIOUS
  <1>14. proc'[p] = r /\ r.pc = "validate" /\ r.tok = t
    BY <1>0, <1>1, <1>13, PlaceAt DEF Goto, Becomes, Locals
  <1>15. PlaceOf(r)'
    BY <1>1, <1>2, <1>11, <1>12, <1>14 DEF PlaceOf
  <1>16. RowsAgree'
    BY <1>1, RowsStay
  <1> QED BY <1>14, <1>15, <1>16, Steps

(* Only the directories of t are renamed. *)
LEMMA OnlyStays ==
    ASSUME NEW t, Only(t), UNCHANGED <<trash, journal, plan>>,
           \A s \in Token : s # t => dir'[Backup(s)] = dir[Backup(s)],
           dir'[Staging(t)] = dir[Staging(t)] \/ dir'[Staging(t)] = Absent
    PROVE  Only(t)'
  BY DEF Only, NoPlan, Unplanned, Aside, Exists, Belongs

(* The version in place becomes the backup. *)
LEMMA SwapOutAlone ==
    ASSUME IInv, AInv, Alone, NEW p \in Proc, SwapOut(p) PROVE AInv'
  <1>0. PICK t : t = proc[p].tok
    OBVIOUS
  <1>1. /\ proc[p].pc = "swapOut" /\ UNCHANGED <<trash, journal, plan, app, docs, erased, minted>>
        /\ IF Exists(Final) THEN Rename(Final, Backup(t)) ELSE UNCHANGED dir
        /\ Goto(p, "swapIn")
    BY <1>0 DEF SwapOut
  <1>2. Undoing(t) /\ ~Exists(Backup(t)) /\ app \in {"reserved", "ready"} /\ t \in Token
    BY <1>0, <1>1, PlaceAt DEF PlaceOf, Undoing
  <1>3. dir \in [Name -> Content] /\ SInv /\ (Exists(Final) => journal[t].had = TRUE)
    BY <1>0, <1>1, PlaceAt DEF IInv, TypeOK, PhaseOf
  <1>4. Undoing(t)'
    <2>1. CASE Exists(Final)
      <3>1. /\ dir'[Backup(t)] = dir[Final] /\ dir'[Final] = Absent
            /\ dir'[Staging(t)] = dir[Staging(t)]
            /\ \A s \in Token : s # t => dir'[Backup(s)] = dir[Backup(s)]
        BY <1>1, <1>2, <1>3, <2>1, Names, RenameEffect
      <3>2. docs # None /\ Holds(dir[Final], docs)
        BY <1>2, <1>3, <2>1 DEF Undoing
      <3>3. Only(t)'
        BY <1>1, <1>2, <3>1, OnlyStays DEF Undoing
      <3> QED BY <1>1, <1>2, <2>1, <3>1, <3>2, <3>3 DEF Undoing, Exists
    <2>2. CASE ~Exists(Final)
      <3>1. dir' = dir
        BY <1>1, <2>2
      <3>2. Only(t)'
        BY <1>1, <1>2, <3>1, OnlyStays DEF Undoing
      <3> QED BY <1>1, <1>2, <3>1, <3>2 DEF Undoing, Exists, Belongs
    <2> QED BY <2>1, <2>2
  <1>5. PICK r : r = [proc[p] EXCEPT !.pc = "swapIn"]
    OBVIOUS
  <1>6. proc'[p] = r /\ r.pc = "swapIn" /\ r.tok = t
    BY <1>0, <1>1, <1>5, PlaceAt DEF Goto, Becomes, Locals
  <1>7. PlaceOf(r)'
    BY <1>1, <1>2, <1>4, <1>6 DEF PlaceOf
  <1>8. RowsAgree'
    BY <1>1, RowsStay
  <1> QED BY <1>6, <1>7, <1>8, Steps

(* The new version takes its place, not yet the database's. *)
LEMMA SwapInAlone ==
    ASSUME IInv, AInv, Alone, NEW p \in Proc, SwapIn(p) PROVE AInv'
  <1>0. PICK t : t = proc[p].tok
    OBVIOUS
  <1>1. /\ proc[p].pc = "swapIn" /\ UNCHANGED <<trash, journal, plan, app, docs, erased, minted>>
        /\ Rename(Staging(t), Final) /\ Goto(p, "persist")
    BY <1>0 DEF SwapIn
  <1>2. Undoing(t) /\ app \in {"reserved", "ready"} /\ t \in Token
    BY <1>0, <1>1, PlaceAt DEF PlaceOf, Undoing
  <1>3. dir \in [Name -> Content] /\ SInv /\ ~Exists(Final) /\ Ready(dir[Staging(t)], t)
    BY <1>0, <1>1, PlaceAt DEF IInv, TypeOK, PhaseOf
  <1>4. /\ dir'[Final] = dir[Staging(t)] /\ dir'[Staging(t)] = Absent
        /\ \A s \in Token : dir'[Backup(s)] = dir[Backup(s)]
    BY <1>1, <1>2, <1>3, Names, RenameEffect
  <1>5. Only(t)'
    BY <1>1, <1>2, <1>4, OnlyStays DEF Undoing
  <1>6. docs # None => ~Holds(dir[Final], docs)
    BY <1>3, Holding DEF Exists
  <1>7. Belongs(Final, t)'
    BY <1>3, <1>4 DEF Belongs, Ready
  <1>8. Undoing(t)'
    BY <1>1, <1>2, <1>4, <1>5, <1>6, <1>7 DEF Undoing, Exists
  <1>9. PICK r : r = [proc[p] EXCEPT !.pc = "persist"]
    OBVIOUS
  <1>10. proc'[p] = r /\ r.pc = "persist" /\ r.tok = t
    BY <1>0, <1>1, <1>9, PlaceAt DEF Goto, Becomes, Locals
  <1>11. PlaceOf(r)'
    BY <1>1, <1>2, <1>8, <1>10 DEF PlaceOf
  <1>12. RowsAgree'
    BY <1>1, RowsStay
  <1> QED BY <1>10, <1>11, <1>12, Steps

(* The rows and the record are committed together. *)
LEMMA PersistAlone ==
    ASSUME IInv, AInv, Alone, NEW p \in Proc, Persist(p) PROVE AInv'
  <1>0. PICK t : t = proc[p].tok
    OBVIOUS
  <1>1. proc[p].pc = "persist" /\ UNCHANGED <<dir, trash, plan, erased, minted>>
    BY DEF Persist
  <1>2. Undoing(t) /\ app \in {"reserved", "ready"} /\ t \in Token
    BY <1>0, <1>1, PlaceAt DEF PlaceOf, Undoing
  <1>3. /\ app' = "ready" /\ docs' = t /\ journal' = [journal EXCEPT ![t].state = "committed"]
        /\ Becomes(p, [Resting("recover") EXCEPT !.tok = t])
    BY <1>0, <1>2 DEF Persist
  <1>4. journal \in [Token -> [state : Rows, had : BOOLEAN]] /\ t # None
    BY <1>2, NoneAssumption DEF IInv, TypeOK
  <1>5. /\ journal'[t].state = "committed" /\ journal'[t].had = journal[t].had
        /\ \A s \in Token : s # t => journal'[s] = journal[s]
    BY <1>2, <1>3, <1>4
  <1>6. Only(t)'
    BY <1>1, <1>2, <1>5 DEF Undoing, Only, NoPlan, Unplanned, Aside, Exists, Belongs
  <1>7. Finishing(t)'
    BY <1>1, <1>2, <1>5, <1>6 DEF Undoing, Finishing, Exists
  <1>8. PICK r : r = [Resting("recover") EXCEPT !.tok = t]
    OBVIOUS
  <1>9. proc'[p] = r /\ r.pc = "recover" /\ r.tok = t /\ r.after = "exit"
    BY <1>3, <1>8, PlaceAt DEF Becomes, Resting
  <1>10. PlaceOf(r)'
    BY <1>7, <1>9 DEF PlaceOf
  <1>11. RowsAgree'
    BY <1>1, <1>2, <1>3, <1>4, PlaceAt DEF RowsAgree, Undoing
  <1> QED BY <1>9, <1>10, <1>11, Steps

-----------------------------------------------------------------------------
(* The steps of a recovery *)

(* A leftover of the record is removed. *)
LEMMA RecoverRemovesAlone ==
    ASSUME IInv, AInv, Alone, NEW p \in Proc, RecoverRemoves(p) PROVE AInv'
  <1>0. PICK t : t = proc[p].tok
    OBVIOUS
  <1>1. /\ proc[p].pc = "recover" /\ Put(Garbage(t), Absent)
        /\ UNCHANGED <<trash, journal, plan, app, docs, erased, minted, proc>>
    BY <1>0 DEF RecoverRemoves
  <1>2. (Undoing(t) \/ Finishing(t)) /\ t \in Token /\ proc[p].after \in {"exit", "bootPubs"}
    BY <1>0, <1>1, PlaceAt DEF PlaceOf, Undoing, Finishing
  <1>3. dir \in [Name -> Content] /\ SInv /\ Garbage(t) \in {Final, Backup(t), Staging(t)}
    BY DEF IInv, TypeOK, Garbage
  <1>4. /\ dir'[Garbage(t)] = Absent
        /\ \A n \in Name : n # Garbage(t) => dir'[n] = dir[n]
    BY <1>1, <1>2, <1>3, Names, AbsentType, PutEffect
  <1>5. Only(t)'
    <2>1. \A s \in Token : s # t => dir'[Backup(s)] = dir[Backup(s)]
      BY <1>2, <1>3, <1>4, Names
    <2>2. dir'[Staging(t)] = dir[Staging(t)] \/ dir'[Staging(t)] = Absent
      BY <1>2, <1>4, Names
    <2> QED BY <1>1, <1>2, <2>1, <2>2, OnlyStays DEF Undoing, Finishing
  <1>6. ASSUME Undoing(t) PROVE Undoing(t)'
    <2>1. Garbage(t) = IF Exists(Final) /\ Belongs(Final, t) THEN Final ELSE Staging(t)
      BY <1>6 DEF Undoing, Garbage
    <2>2. dir'[Backup(t)] = dir[Backup(t)]
      BY <1>2, <1>4, <2>1, Names
    <2>3. docs # t
      BY <1>2, <1>3, <1>6 DEF SInv, Undecided, Undoing
    <2>4. CASE Exists(Final) /\ Belongs(Final, t)
      <3>1. dir'[Final] = Absent /\ ~Holds(dir[Final], docs)
        BY <1>4, <2>1, <2>3, <2>4 DEF Belongs, Holds
      <3> QED BY <1>1, <1>5, <1>6, <2>2, <3>1 DEF Undoing, Exists
    <2>5. CASE ~(Exists(Final) /\ Belongs(Final, t))
      <3>1. dir'[Final] = dir[Final]
        BY <1>2, <1>4, <2>1, <2>5, Names
      <3> QED BY <1>1, <1>5, <1>6, <2>2, <3>1 DEF Undoing, Exists, Belongs
    <2> QED BY <2>4, <2>5
  <1>7. ASSUME Finishing(t) PROVE Finishing(t)'
    <2>1. dir'[Backup(t)] = dir[Backup(t)] \/ dir'[Backup(t)] = Absent
      BY <1>2, <1>4, Names
    <2> QED BY <1>1, <1>5, <1>7, <2>1 DEF Finishing, Exists
  <1>8. PICK r : r = proc[p]
    OBVIOUS
  <1>9. proc'[p] = r /\ r.pc = "recover" /\ r.tok = t /\ r.after \in {"exit", "bootPubs"}
    BY <1>0, <1>1, <1>2, <1>8
  <1>10. PlaceOf(r)'
    BY <1>2, <1>6, <1>7, <1>9 DEF PlaceOf
  <1>11. RowsAgree'
    BY <1>1, RowsStay
  <1> QED BY <1>9, <1>10, <1>11, Steps

(* The backup returns to its place. *)
LEMMA RecoverRestoresAlone ==
    ASSUME IInv, AInv, Alone, NEW p \in Proc, RecoverRestores(p) PROVE AInv'
  <1>0. PICK t : t = proc[p].tok
    OBVIOUS
  <1>1. /\ proc[p].pc = "recover" /\ MustRestore(t) /\ Rename(Backup(t), Final) /\ ~Exists(Final)
        /\ UNCHANGED <<trash, journal, plan, app, docs, erased, minted, proc>>
    BY <1>0 DEF RecoverRestores
  <1>2. Undoing(t) /\ t \in Token /\ proc[p].after \in {"exit", "bootPubs"}
    BY <1>0, <1>1, PlaceAt DEF PlaceOf, Undoing, Finishing, MustRestore
  <1>3. dir \in [Name -> Content]
    BY DEF IInv, TypeOK
  <1>4. /\ dir'[Final] = dir[Backup(t)] /\ dir'[Backup(t)] = Absent
        /\ dir'[Staging(t)] = dir[Staging(t)]
        /\ \A s \in Token : s # t => dir'[Backup(s)] = dir[Backup(s)]
    BY <1>1, <1>2, <1>3, Names, RenameEffect
  <1>5. Only(t)'
    BY <1>1, <1>2, <1>4, OnlyStays DEF Undoing
  <1>6. docs # None /\ Holds(dir[Backup(t)], docs)
    BY <1>1, <1>2 DEF Undoing, MustRestore
  <1>7. Undoing(t)'
    BY <1>1, <1>2, <1>4, <1>5, <1>6 DEF Undoing, Exists
  <1>8. PICK r : r = proc[p]
    OBVIOUS
  <1>9. proc'[p] = r /\ r.pc = "recover" /\ r.tok = t /\ r.after \in {"exit", "bootPubs"}
    BY <1>0, <1>1, <1>2, <1>8
  <1>10. PlaceOf(r)'
    BY <1>7, <1>9 DEF PlaceOf
  <1>11. RowsAgree'
    BY <1>1, RowsStay
  <1> QED BY <1>9, <1>10, <1>11, Steps

(* The record is closed once nothing of it is left. *)
LEMMA RecoverEndsAlone ==
    ASSUME IInv, AInv, Alone, NEW p \in Proc, RecoverEnds(p) PROVE AInv'
  <1>0. PICK t : t = proc[p].tok
    OBVIOUS
  <1>1. /\ proc[p].pc = "recover" /\ ~MustRestore(t) /\ ~Exists(Garbage(t)) /\ Return(p, TRUE)
        /\ journal' = [journal EXCEPT ![t] = [state |-> "none", had |-> FALSE]]
        /\ UNCHANGED <<dir, trash, plan, app, docs, erased, minted>>
    BY <1>0 DEF RecoverEnds
  <1>2. (Undoing(t) \/ Finishing(t)) /\ t \in Token /\ proc[p].after \in {"exit", "bootPubs"}
    BY <1>0, <1>1, PlaceAt DEF PlaceOf, Undoing, Finishing
  <1>3. journal \in [Token -> [state : Rows, had : BOOLEAN]] /\ SInv
    BY DEF IInv, TypeOK
  <1>4. /\ journal'[t].state = "none"
        /\ \A s \in Token : s # t => journal'[s] = journal[s]
    BY <1>1, <1>2, <1>3
  <1>5. Only(t)
    BY <1>2 DEF Undoing, Finishing
  <1>6. ~Exists(Backup(t)) /\ InPlace
    <2>1. CASE Undoing(t)
      <3>1. ~(Exists(Final) /\ Belongs(Final, t))
        BY <1>1, <2>1 DEF Garbage, Undoing
      <3>2. ~Exists(Backup(t))
        BY <1>1, <2>1 DEF Undoing, MustRestore
      <3> QED BY <2>1, <3>1, <3>2 DEF Undoing, InPlace
    <2>2. CASE Finishing(t)
      <3>1. ~Exists(Backup(t))
        BY <1>1, <2>2 DEF Garbage, Finishing
      <3>2. docs = t /\ Holds(dir[Final], t) /\ t # None
        BY <1>2, <1>3, <2>2, NoneAssumption DEF SInv, CommittedStays, Finishing
      <3> QED BY <3>1, <3>2 DEF InPlace
    <2> QED BY <1>2, <2>1, <2>2
  <1>7. Clean'
    <2>1. NoRecord'
      BY <1>4, <1>5 DEF NoRecord, Only
    <2>2. NoPlan' /\ InPlace'
      BY <1>1, <1>5, <1>6 DEF Only, NoPlan, Unplanned, Aside, InPlace, Exists
    <2>3. NoBackup'
      BY <1>1, <1>5, <1>6 DEF Only, NoBackup, Exists
    <2> QED BY <2>1, <2>2, <2>3 DEF Clean
  <1>8. RowsAgree'
    BY <1>1, RowsStay
  <1>9. CASE proc[p].after = "bootPubs"
    <2>1. Resume(p, "bootPubs")
      BY <1>1, <1>9 DEF Return
    <2>2. PICK r : r = [Resting("bootPubs") EXCEPT !.snap = proc[p].snap, !.release = proc[p].release,
                                                   !.keys = proc[p].keys, !.seen = proc[p].seen]
      OBVIOUS
    <2>3. proc'[p] = r /\ r.pc = "bootPubs"
      BY <2>1, <2>2, PlaceAt DEF Resume, Becomes, Resting
    <2>4. Pending' = {}
      BY <1>7 DEF Clean, NoRecord, Pending
    <2>5. PlaceOf(r)'
      BY <1>7, <2>3, <2>4 DEF PlaceOf
    <2> QED BY <1>8, <2>3, <2>5, Steps
  <1>10. CASE proc[p].after = "exit"
    <2>1. PICK r : proc'[p] = r /\ r.pc \in Quiet
      BY <1>1, <1>10, ExitPlace DEF Return
    <2> QED BY <1>7, <1>8, <2>1, CleanSteps
  <1> QED BY <1>2, <1>9, <1>10

-----------------------------------------------------------------------------
(* The steps of a deletion *)

(* The other deletions are where they were. *)
LEMMA OthersUnplanned ==
    ASSUME NEW d \in Plan, \A e \in Plan : e # d => Unplanned(e),
           \A e \in Plan : e # d => plan'[e] = plan[e],
           \A e \in Plan, n \in Name : e # d => trash'[e][n] = trash[e][n]
    PROVE  \A e \in Plan : e # d => Unplanned(e)'
  BY DEF Unplanned, Aside

(* The plan names the directory in place, among others. *)
LEMMA DeletePlanAlone ==
    ASSUME IInv, AInv, Alone, NEW p \in Proc, DeletePlan(p) PROVE AInv'
  <1>1. proc[p].pc = "plan" /\ UNCHANGED <<dir, trash, journal, app, docs, erased>>
    BY DEF DeletePlan
  <1>2. Clean
    BY <1>1, PlaceAt DEF PlaceOf
  <1>3. CASE app # "ready"
    <2>1. Exit(p) /\ UNCHANGED <<plan, minted>>
      BY <1>3 DEF DeletePlan
    <2>2. Still
      BY <1>1, <2>1 DEF Still
    <2>3. Clean' /\ RowsAgree'
      BY <1>1, <1>2, <2>1, <2>2, DiskStill, RowsStay
    <2> QED BY <2>1, <2>3, ExitPlace, CleanSteps
  <1>4. CASE app = "ready"
    <2>1. PICK entries : entries = {Final} \cup {n \in Name : Exists(n)}
      OBVIOUS
    <2>2. PICK d \in Plan \ minted :
             /\ minted' = minted \cup {d}
             /\ plan' = [plan EXCEPT ![d] = [state |-> "prepared", entries |-> entries]]
             /\ Becomes(p, [Resting("begin") EXCEPT !.plan = d, !.names = entries])
      BY <1>4, <2>1 DEF DeletePlan
    <2>3. plan \in [Plan -> [state : Rows, entries : SUBSET Name]] /\ SInv
      BY DEF IInv, TypeOK
    <2>4. plan'[d].state = "prepared" /\ \A e \in Plan : e # d => plan'[e] = plan[e]
      BY <2>2, <2>3
    <2>5. docs # None /\ Holds(dir[Final], docs)
      BY <1>2, <1>4, PlaceAt DEF RowsAgree, Clean, InPlace
    <2>6. \A n \in Name : trash[d][n] = Absent
      BY <1>2 DEF Clean, NoPlan, Unplanned, Aside
    <2>7. \A e \in Plan : e # d => Unplanned(e)'
      BY <1>1, <1>2, <2>4, OthersUnplanned DEF Clean, NoPlan
    <2>8. Removing(d)'
      BY <1>1, <1>2, <2>4, <2>5, <2>6, <2>7, Names
         DEF Removing, Clean, NoRecord, NoBackup, Exists
    <2>9. PICK r : r = [Resting("begin") EXCEPT !.plan = d, !.names = entries]
      OBVIOUS
    <2>10. /\ proc'[p] = r /\ r.pc = "begin" /\ r.plan = d /\ Final \in r.names
           /\ r.after = "exit"
      BY <2>1, <2>2, <2>9, PlaceAt DEF Becomes, Resting
    <2>11. PlaceOf(r)'
      BY <1>1, <1>4, <2>8, <2>10 DEF PlaceOf
    <2>12. RowsAgree'
      BY <1>1, <2>2, RowsStay
    <2> QED BY <2>10, <2>11, <2>12, Steps
  <1> QED BY <1>3, <1>4

(* One directory is set aside: first the one in place. *)
LEMMA StageOneAlone ==
    ASSUME IInv, AInv, Alone, NEW p \in Proc, StageOne(p) PROVE AInv'
  <1>0. PICK d : d = proc[p].plan
    OBVIOUS
  <1>1. proc[p].pc = "stage" /\ UNCHANGED <<journal, plan, app, docs, erased, minted>>
    BY DEF StageOne
  <1>2. /\ Removing(d) /\ app = "ready" /\ (Final \notin proc[p].names => ~Exists(Final))
        /\ d \in Plan /\ (Final \in proc[p].names => trash[d][Final] = Absent)
        /\ proc[p].names \subseteq Name /\ proc[p].after = "exit"
    BY ZenonT(30), <1>0, <1>1, PlaceAt, LocalsFields DEF PlaceOf, PhaseOf, Removing
  <1>3. PICK n \in FirstOf(proc[p].names) :
           /\ IF Exists(n) THEN SetAside(d, n, dir[n]) ELSE UNCHANGED trash
           /\ Put(n, Absent)
           /\ Becomes(p, [proc[p] EXCEPT
                 !.names = proc[p].names \ {n},
                 !.pc = IF proc[p].names = {n} THEN "erase" ELSE "stage"])
    BY <1>0 DEF StageOne
  <1>4. n \in proc[p].names /\ n \in Name /\ (Final \in proc[p].names => n = Final)
    BY <1>2, <1>3, FirstOne
  <1>5. /\ dir \in [Name -> Content] /\ trash \in [Plan -> [Name -> Content]] /\ SInv
    BY DEF IInv, TypeOK
  <1>6. dir'[n] = Absent /\ \A m \in Name : m # n => dir'[m] = dir[m]
    BY <1>3, <1>4, <1>5, AbsentType, PutEffect
  <1>7. /\ trash'[d][n] = IF Exists(n) THEN dir[n] ELSE trash[d][n]
        /\ \A e \in Plan, m \in Name : e # d \/ m # n => trash'[e][m] = trash[e][m]
    <2>1. dir[n] \in Content
      BY <1>4, <1>5
    <2> QED BY <1>2, <1>3, <1>4, <1>5, <2>1, SetAsideEffect
  <1>8. \A e \in Plan : e # d => Unplanned(e)'
    BY <1>1, <1>2, <1>7, OthersUnplanned DEF Removing
  <1>9. \A m \in Name : trash'[d][m] # Absent => dir'[m] = Absent
    BY <1>2, <1>6, <1>7 DEF Removing, Exists
  <1>10. \A t \in Token : trash'[d][Backup(t)] = Absent /\ dir'[Backup(t)] = Absent
    BY <1>2, <1>6, <1>7, Names DEF Removing, NoBackup, Exists
  <1>11. dir'[Final] = Absent /\ Holds(trash'[d][Final], docs)
    <2>1. CASE n = Final
      <3>1. Holds(dir[Final], docs) /\ docs # None
        BY <1>2, <1>4, <1>5, <2>1, Holding DEF Removing
      <3>2. Exists(Final)
        BY <1>5, <3>1, Holding DEF Exists
      <3> QED BY <1>6, <1>7, <2>1, <3>1, <3>2
    <2>2. CASE n # Final
      <3>1. ~Exists(Final)
        BY <1>2, <1>4, <2>2
      <3>2. Holds(trash[d][Final], docs)
        BY <1>2, <1>5, <3>1, Holding DEF Removing, Exists
      <3> QED BY <1>2, <1>6, <1>7, <2>2, <3>1, <3>2, Names DEF Exists
    <2> QED BY <2>1, <2>2
  <1>12. Removing(d)'
    BY <1>1, <1>2, <1>8, <1>9, <1>10, <1>11 DEF Removing, NoRecord, NoBackup, Exists
  <1>13. PICK r : r = [proc[p] EXCEPT
                 !.names = proc[p].names \ {n},
                 !.pc = IF proc[p].names = {n} THEN "erase" ELSE "stage"]
    OBVIOUS
  <1>14. /\ proc'[p] = r /\ r.plan = d /\ r.names = proc[p].names \ {n}
         /\ r.pc = (IF proc[p].names = {n} THEN "erase" ELSE "stage") /\ r.after = "exit"
    BY <1>0, <1>2, <1>3, <1>13, PlaceAt DEF Becomes, Locals
  <1>15. r.pc = "erase" => r.names = {}
    BY <1>14
  <1>16. ~Exists(Final)' /\ app' = "ready"
    BY <1>1, <1>2, <1>11 DEF Exists
  <1>17. PlaceOf(r)'
    BY <1>12, <1>14, <1>15, <1>16 DEF PlaceOf
  <1>18. RowsAgree'
    BY <1>1, RowsStay
  <1> QED BY <1>14, <1>17, <1>18, Steps

(* The rows go with the decision to finish. *)
LEMMA EraseAlone ==
    ASSUME IInv, AInv, Alone, NEW p \in Proc, Erase(p) PROVE AInv'
  <1>0. PICK d : d = proc[p].plan
    OBVIOUS
  <1>1. /\ proc[p].pc = "erase" /\ UNCHANGED <<dir, trash, journal, minted>>
        /\ app' = "none" /\ docs' = None /\ erased' = erased \cup ({docs} \ {None})
        /\ plan' = [plan EXCEPT ![d].state = "committed"] /\ Goto(p, "purge")
    BY <1>0 DEF Erase
  <1>2. Removing(d) /\ d \in Plan /\ ~Exists(Final)
    BY <1>0, <1>1, PlaceAt DEF PlaceOf, Removing
  <1>3. plan \in [Plan -> [state : Rows, entries : SUBSET Name]] /\ SInv /\ erased \subseteq Token
    BY DEF IInv, TypeOK
  <1>4. plan'[d].state = "committed" /\ \A e \in Plan : e # d => plan'[e] = plan[e]
    BY <1>1, <1>2, <1>3
  <1>5. \A e \in Plan : e # d => Unplanned(e)'
    BY <1>1, <1>2, <1>4, OthersUnplanned DEF Removing
  <1>6. Erasing(d)'
    BY <1>1, <1>2, <1>4, <1>5 DEF Erasing, Removing, NoRecord, NoBackup, Exists
  <1>7. PICK r : r = [proc[p] EXCEPT !.pc = "purge"]
    OBVIOUS
  <1>8. proc'[p] = r /\ r.pc = "purge" /\ r.plan = d /\ r.seen = proc[p].seen /\ r.after = proc[p].after
    BY <1>0, <1>1, <1>7, PlaceAt DEF Goto, Becomes, Locals
  <1>9. proc[p].after # "bootPlans"
    BY <1>1, PlaceAt DEF PlaceOf
  <1>10. PlaceOf(r)'
    BY <1>6, <1>8, <1>9 DEF PlaceOf
  <1>11. RowsAgree'
    <2>1. docs # None => docs \in minted
      BY <1>3 DEF SInv, Minting
    <2>2. None \notin erased' /\ erased' \subseteq minted'
      BY <1>1, <1>3, <2>1, NoneAssumption, PlaceAt DEF RowsAgree
    <2> QED BY <1>1, <2>2 DEF RowsAgree
  <1> QED BY <1>8, <1>10, <1>11, Steps

(* A directory set aside returns to its place, which is free. *)
LEMMA RestoreOneAlone ==
    ASSUME IInv, AInv, Alone, NEW p \in Proc, RestoreOne(p) PROVE AInv'
  <1>0. PICK d : d = proc[p].plan
    OBVIOUS
  <1>1. proc[p].pc = "restore" /\ UNCHANGED <<journal, plan, app, docs, erased, minted>>
    BY DEF RestoreOne
  <1>2. Removing(d) /\ d \in Plan
    BY <1>0, <1>1, PlaceAt DEF PlaceOf, Removing
  <1>3. PICK n \in FirstOf(Trashed(d)) :
           IF Exists(n) THEN LeaveDeletion(p) /\ UNCHANGED <<dir, trash>>
           ELSE Put(n, trash[d][n]) /\ SetAside(d, n, Absent) /\ UNCHANGED <<holder, proc>>
    BY <1>0 DEF RestoreOne
  <1>4. n \in Name /\ trash[d][n] # Absent
    BY <1>3, FirstOne DEF Trashed
  <1>5. ~Exists(n)
    BY <1>2, <1>4 DEF Removing
  <1>6. /\ dir \in [Name -> Content] /\ trash \in [Plan -> [Name -> Content]] /\ SInv
        /\ trash[d][n] \in Content
    BY <1>2, <1>4 DEF IInv, TypeOK
  <1>7. dir'[n] = trash[d][n] /\ \A m \in Name : m # n => dir'[m] = dir[m]
    BY <1>3, <1>4, <1>5, <1>6, PutEffect
  <1>8. /\ trash'[d][n] = Absent
        /\ \A e \in Plan, m \in Name : e # d \/ m # n => trash'[e][m] = trash[e][m]
    BY <1>2, <1>3, <1>4, <1>5, <1>6, AbsentType, SetAsideEffect
  <1>9. \A e \in Plan : e # d => Unplanned(e)'
    BY <1>1, <1>2, <1>8, OthersUnplanned DEF Removing
  <1>10. \A m \in Name : trash'[d][m] # Absent => dir'[m] = Absent
    BY <1>2, <1>7, <1>8 DEF Removing, Exists
  <1>11. \A t \in Token : trash'[d][Backup(t)] = Absent /\ dir'[Backup(t)] = Absent
    BY <1>2, <1>4, <1>7, <1>8, Names DEF Removing, NoBackup, Exists
  <1>12. \/ Holds(dir'[Final], docs) /\ trash'[d][Final] = Absent
         \/ dir'[Final] = Absent /\ Holds(trash'[d][Final], docs)
    <2>1. CASE n = Final
      BY <1>2, <1>4, <1>7, <1>8, <2>1 DEF Removing
    <2>2. CASE n # Final
      BY <1>2, <1>7, <1>8, <2>2, Names DEF Removing, Exists
    <2> QED BY <2>1, <2>2
  <1>13. Removing(d)'
    BY <1>1, <1>2, <1>9, <1>10, <1>11, <1>12 DEF Removing, NoRecord, NoBackup, Exists
  <1>14. PICK r : r = proc[p]
    OBVIOUS
  <1>15. proc'[p] = r /\ r.pc = "restore" /\ r.plan = d
    BY <1>0, <1>1, <1>3, <1>5, <1>14
  <1>16. r.after = "bootPlans" => \A e \in Plan : r.seen[e] = "none"
    BY <1>1, <1>14, PlaceAt DEF PlaceOf
  <1>17. PlaceOf(r)'
    BY <1>13, <1>15, <1>16 DEF PlaceOf
  <1>18. RowsAgree'
    BY <1>1, RowsStay
  <1> QED BY <1>15, <1>17, <1>18, Steps

(* A directory set aside is removed for good. *)
LEMMA PurgeOneAlone ==
    ASSUME IInv, AInv, Alone, NEW p \in Proc, PurgeOne(p) PROVE AInv'
  <1>0. PICK d : d = proc[p].plan
    OBVIOUS
  <1>1. proc[p].pc = "purge" /\ UNCHANGED <<dir, journal, plan, app, docs, erased, minted, proc>>
    BY DEF PurgeOne
  <1>2. Erasing(d) /\ d \in Plan
    BY <1>0, <1>1, PlaceAt DEF PlaceOf, Erasing
  <1>3. PICK n \in FirstOf(Trashed(d)) : SetAside(d, n, Absent)
    BY <1>0 DEF PurgeOne
  <1>4. n \in Name /\ trash \in [Plan -> [Name -> Content]]
    BY <1>3, FirstOne DEF Trashed, IInv, TypeOK
  <1>5. \A e \in Plan, m \in Name : e # d => trash'[e][m] = trash[e][m]
    BY <1>2, <1>3, <1>4, AbsentType, SetAsideEffect
  <1>6. \A e \in Plan : e # d => Unplanned(e)'
    BY <1>1, <1>2, <1>5, OthersUnplanned DEF Erasing
  <1>7. Erasing(d)'
    BY <1>1, <1>2, <1>6 DEF Erasing, NoRecord, NoBackup, Exists
  <1>8. PICK r : r = proc[p]
    OBVIOUS
  <1>9. proc'[p] = r /\ r.pc = "purge" /\ r.plan = d
    BY <1>0, <1>1, <1>8
  <1>10. r.after = "bootPlans" => \A e \in Plan : r.seen[e] = "none"
    BY <1>1, <1>8, PlaceAt DEF PlaceOf
  <1>11. PlaceOf(r)'
    BY <1>7, <1>9, <1>10 DEF PlaceOf
  <1>12. RowsAgree'
    BY <1>1, RowsStay
  <1> QED BY <1>9, <1>11, <1>12, Steps

(* The plan is forgotten once nothing is set aside. *)
LEMMA ForgetAlone ==
    ASSUME IInv, AInv, Alone, NEW p \in Proc, Forget(p) PROVE AInv'
  <1>0. PICK d : d = proc[p].plan
    OBVIOUS
  <1>1. /\ proc[p].pc \in {"restore", "purge"} /\ Trashed(d) = {} /\ LeaveDeletion(p)
        /\ plan' = [plan EXCEPT ![d] = [state |-> "none", entries |-> {}]]
        /\ UNCHANGED <<dir, trash, journal, app, docs, erased, minted>>
    BY <1>0 DEF Forget
  <1>2. (Removing(d) \/ Erasing(d)) /\ d \in Plan
    BY <1>0, <1>1, PlaceAt DEF PlaceOf, Removing, Erasing
  <1>3. plan \in [Plan -> [state : Rows, entries : SUBSET Name]] /\ SInv
    BY DEF IInv, TypeOK
  <1>4. plan'[d].state = "none" /\ \A e \in Plan : e # d => plan'[e] = plan[e]
    BY <1>1, <1>2, <1>3
  <1>5. \A n \in Name : trash[d][n] = Absent
    BY <1>1 DEF Trashed
  <1>6. \A e \in Plan : e # d => Unplanned(e)'
    BY <1>1, <1>2, <1>4, OthersUnplanned DEF Removing, Erasing
  <1>7. Unplanned(d)'
    BY <1>1, <1>4, <1>5 DEF Unplanned, Aside
  <1>8. InPlace
    <2>1. CASE Removing(d)
      BY <1>3, <1>5, <2>1, Names, Holding DEF Removing, InPlace
    <2>2. CASE Erasing(d)
      BY <2>2 DEF Erasing, InPlace
    <2> QED BY <1>2, <2>1, <2>2
  <1>9. Clean'
    <2>1. NoPlan'
      BY <1>6, <1>7 DEF NoPlan
    <2> QED BY <1>1, <1>2, <1>8, <2>1
         DEF Clean, Removing, Erasing, NoRecord, NoBackup, InPlace, Exists
  <1>10. RowsAgree'
    BY <1>1, RowsStay
  <1>11. CASE proc[p].after = "bootPlans"
    <2>1. Resume(p, "bootPlans")
      BY <1>1, <1>11 DEF LeaveDeletion
    <2>2. PICK r : r = [Resting("bootPlans") EXCEPT !.snap = proc[p].snap, !.release = proc[p].release,
                                                    !.keys = proc[p].keys, !.seen = proc[p].seen]
      OBVIOUS
    <2>3. proc'[p] = r /\ r.pc = "bootPlans" /\ r.seen = proc[p].seen
      BY <2>1, <2>2, PlaceAt DEF Resume, Becomes, Resting
    <2>4. \A e \in Plan : r.seen[e] = "none"
      BY <1>1, <1>11, <2>3, PlaceAt DEF PlaceOf
    <2>5. \A e \in Plan : plan'[e].state = "none"
      BY <1>4, <1>6 DEF Unplanned
    <2>6. PlaceOf(r)'
      BY <1>9, <2>3, <2>4, <2>5 DEF PlaceOf
    <2> QED BY <1>10, <2>3, <2>6, Steps
  <1>12. CASE proc[p].after # "bootPlans"
    <2>1. PICK r : proc'[p] = r /\ r.pc \in Quiet
      BY <1>1, <1>12, ExitPlace DEF LeaveDeletion
    <2> QED BY <1>9, <1>10, <2>1, CleanSteps
  <1> QED BY <1>11, <1>12

-----------------------------------------------------------------------------
(* The invariant *)

(* Nothing exists before the first window is opened. *)
LEMMA InitAlone == Init => AInv
  <1> SUFFICES ASSUME Init PROVE AInv
    OBVIOUS
  <1>1. Clean
    BY AbsentType DEF Init, Clean, NoRecord, NoPlan, Unplanned, Aside, NoBackup, InPlace, Exists,
                      Name, Final, Backup
  <1>2. RowsAgree
    BY NoneAssumption DEF Init, RowsAgree
  <1>3. ASSUME NEW p \in Proc PROVE PlaceOf(proc[p])
    <2>1. PICK r : r = Resting("down")
      OBVIOUS
    <2>2. proc[p] = r /\ r.pc = "down"
      BY <2>1 DEF Init, Resting
    <2> QED BY <1>1, <2>2, QuietPlace DEF Quiet
  <1> QED BY <1>2, <1>3 DEF AInv

(* Every step of the window keeps it. *)
LEMMA AloneNext ==
    ASSUME Alone, IInv, AInv, [Next]_vars PROVE AInv'
  <1>1. CASE UNCHANGED vars
    <2>1. Still /\ app' = app /\ proc' = proc
      BY <1>1 DEF vars, Still
    <2>2. PICK p : Proc = {p}
      BY DEF Alone
    <2>3. PICK r : r = proc[p]
      OBVIOUS
    <2>4. PlaceOf(r) /\ proc'[p] = r /\ p \in Proc /\ RowsAgree
      BY <2>1, <2>2, <2>3 DEF AInv
    <2>5. docs # None <=> app' \in {"ready", "sent"}
      BY <2>1, <2>4 DEF RowsAgree
    <2> QED BY <2>1, <2>4, <2>5, StillSteps
  <1>2. ASSUME NEW p \in Proc,
               \/ Publishing(p) \/ Reconciling(p) \/ Deleting(p) \/ Booting(p)
               \/ Send(p) \/ Quit(p) \/ Troubles(p)
        PROVE  AInv'
    <2>1. CASE Publishing(p)
      BY <2>1, RowAlone, EnterLockAlone, NothingRefused, OpenAlone, RenderAlone, GiveUpAlone,
         PrepareAlone, ValidateAlone, SwapOutAlone, SwapInAlone, PersistAlone, DiscardAlone
         DEF Publishing
    <2>2. CASE Reconciling(p)
      BY <2>2, NothingRefused, RecoverRemovesAlone, RecoverRestoresAlone, RecoverEndsAlone
         DEF Reconciling
    <2>3. CASE Deleting(p)
      BY <2>3, QuitAlone, NothingRefused, DeletePlanAlone, DeleteBeginAlone, StageOneAlone,
         EraseAlone, RestoreOneAlone, PurgeOneAlone, ForgetAlone DEF Deleting
    <2>4. CASE Booting(p)
      BY <2>4, BootAlone, BootPubAlone, BootReadPlansAlone, BootPlanAlone, BootedAlone DEF Booting
    <2>5. CASE Send(p) \/ Quit(p)
      BY <2>5, RowAlone, QuitAlone
    <2>6. CASE Troubles(p)
      BY <2>6, NoTrouble, CrashAlone DEF Troubles
    <2> QED BY <1>2, <2>1, <2>2, <2>3, <2>4, <2>5, <2>6
  <1> QED BY <1>1, <1>2 DEF Next

LEMMA AloneInvariance == ASSUME Alone PROVE Spec => []AInv
  <1>1. Init => AInv
    BY InitAlone
  <1>2. IInv /\ AInv /\ [Next]_vars => AInv'
    BY AloneNext
  <1> QED BY <1>1, <1>2, Invariance, PTL DEF Spec

-----------------------------------------------------------------------------
(* The theorems *)

(* Files and rows agree whenever the window is at rest, however its earlier *)
(* calls were killed, and nothing of them is left over.                     *)
THEOREM FilesAgreeAtRest == ASSUME Alone PROVE Spec => []FilesMatchDatabase
  <1>1. ASSUME AInv PROVE FilesMatchDatabase
    <2> SUFFICES ASSUME AtRest
                 PROVE  /\ IF docs = None THEN ~Exists(Final) ELSE Holds(dir[Final], docs)
                        /\ \A t \in Token : journal[t].state = "none" /\ ~Exists(Backup(t))
                        /\ \A d \in Plan : plan[d].state = "none" /\ Trashed(d) = {}
      BY DEF FilesMatchDatabase
    <2>1. PICK p \in Proc : proc[p].pc = "idle"
      BY DEF Alone, AtRest
    <2>2. Clean
      BY <1>1, <2>1 DEF AInv, PlaceOf
    <2> QED BY <2>2 DEF Clean, NoRecord, NoPlan, Unplanned, Aside, NoBackup, InPlace, Trashed
  <1> QED BY <1>1, AloneInvariance, PTL

(* The version in place, wherever a crash leaves the window *)
LEMMA InPlaceNow ==
    ASSUME IInv, AInv, Alone
    PROVE  /\ dir[Final].of = None \/ dir[Final].of = docs
              \/ \E t \in Token : Undoing(t) /\ dir[Final].of = t
           /\ Shown = docs
  <1>1. PICK p \in Proc : TRUE
    BY DEF Alone
  <1>2. Clean \/ ToRecover \/ ToReconcile
    BY DiskAt
  <1>3. /\ dir \in [Name -> Content] /\ SInv /\ Final \in Name /\ docs \in Token \cup {None}
        /\ None \notin Token
        /\ \A t \in Token : journal[t].had \in BOOLEAN
    BY Names, NoneAssumption DEF IInv, TypeOK
  <1>4. ~Exists(Final) => dir[Final].of = None /\ VersionOf(dir[Final]) = None
    BY AbsentType DEF Exists, VersionOf
  <1>5. \A c : docs # None /\ Holds(c, docs) => c.of = docs /\ VersionOf(c) = docs
    BY DEF Holds, VersionOf
  <1> DEFINE undone == {t \in Pending : journal[t].state = "prepared"}
             aside  == {d \in Plan : plan[d].state = "prepared" /\ trash[d][Final] # Absent}
             Result(u, a) ==
                IF u # {}
                THEN LET t == CHOOSE t \in u : TRUE IN
                     IF MustRestore(t) THEN VersionOf(dir[Backup(t)])
                     ELSE IF journal[t].had THEN VersionOf(dir[Final]) ELSE None
                ELSE IF ~Exists(Final) /\ a # {}
                     THEN VersionOf(trash[CHOOSE d \in a : TRUE][Final])
                     ELSE VersionOf(dir[Final])
  <1>6. Shown = Result(undone, aside)
    BY DEF Shown
  <1>7. \A a : ~(~Exists(Final) /\ a # {}) => Result({}, a) = VersionOf(dir[Final])
    OBVIOUS
  <1>8. CASE Clean
    <2>1. undone = {} /\ aside = {}
      BY <1>8, OnePiece DEF Pending
    <2>2. Shown = VersionOf(dir[Final])
      BY <1>6, <1>7, <2>1
    <2> QED BY <1>3, <1>4, <1>5, <1>8, <2>2 DEF Clean, InPlace
  <1>9. ASSUME NEW t \in Token, Undoing(t)
        PROVE  /\ dir[Final].of = None \/ dir[Final].of = docs \/ dir[Final].of = t
               /\ Shown = docs
    <2>1. Pending = {t} /\ journal[t].state = "prepared"
      BY <1>9, OnePiece DEF Undoing
    <2>2. undone = {t}
      BY <2>1
    <2>3. Result({t}, aside) = IF MustRestore(t) THEN VersionOf(dir[Backup(t)])
                               ELSE IF journal[t].had THEN VersionOf(dir[Final]) ELSE None
      OBVIOUS
    <2>4. Shown = IF MustRestore(t) THEN VersionOf(dir[Backup(t)])
                  ELSE IF journal[t].had THEN VersionOf(dir[Final]) ELSE None
      BY <1>6, <2>2, <2>3
    <2>5. dir[Final].of = None \/ dir[Final].of = docs \/ dir[Final].of = t
      BY <1>4, <1>5, <1>9 DEF Undoing, Belongs
    <2>6. Shown = docs
      BY <1>3, <1>5, <1>9, <2>1, <2>4 DEF Undoing, MustRestore
    <2> QED BY <2>5, <2>6
  <1>10. ASSUME NEW t \in Token, Finishing(t)
         PROVE  dir[Final].of = docs /\ Shown = docs
    <2>1. undone = {} /\ aside = {}
      BY <1>10, OnePiece DEF Finishing, NoPlan, Unplanned
    <2>2. Shown = VersionOf(dir[Final])
      BY <1>6, <1>7, <2>1
    <2>3. docs = t /\ Holds(dir[Final], docs) /\ docs # None
      BY <1>3, <1>10 DEF SInv, CommittedStays, Finishing
    <2> QED BY <1>5, <2>2, <2>3
  <1>11. ASSUME NEW d \in Plan, Removing(d)
         PROVE  /\ dir[Final].of = None \/ dir[Final].of = docs
                /\ Shown = docs
    <2>1. undone = {}
      BY <1>11, OnePiece DEF Removing
    <2>2. CASE Holds(dir[Final], docs) /\ trash[d][Final] = Absent
      <3>1. Exists(Final)
        BY <1>3, <1>11, <2>2, Holding DEF Exists, Removing
      <3>2. Shown = VersionOf(dir[Final])
        BY <1>6, <1>7, <2>1, <3>1
      <3> QED BY <1>5, <1>11, <2>2, <3>2 DEF Removing
    <2>3. CASE ~Exists(Final) /\ Holds(trash[d][Final], docs)
      <3>1. trash[d][Final] # Absent
        BY <1>3, <1>11, <2>3, Holding DEF Removing
      <3>2. aside = {d}
        BY <1>3, <1>11, <3>1 DEF Removing, Unplanned
      <3>3. Result({}, {d}) = VersionOf(trash[d][Final])
        BY <2>3
      <3>4. Shown = VersionOf(trash[d][Final])
        BY <1>6, <2>1, <3>2, <3>3
      <3> QED BY <1>4, <1>5, <1>11, <2>3, <3>4 DEF Removing
    <2> QED BY <1>11, <2>2, <2>3 DEF Removing
  <1>12. ASSUME NEW d \in Plan, Erasing(d)
         PROVE  dir[Final].of = None /\ Shown = docs
    <2>1. undone = {} /\ aside = {}
      BY <1>3, <1>12, OnePiece DEF Erasing, Unplanned
    <2>2. Shown = VersionOf(dir[Final])
      BY <1>6, <1>7, <2>1
    <2> QED BY <1>4, <1>12, <2>2 DEF Erasing
  <1> HIDE DEF undone, aside, Result
  <1>13. CASE ToRecover
    BY <1>9, <1>10, <1>13 DEF ToRecover
  <1>14. CASE ToReconcile
    BY <1>11, <1>12, <1>14 DEF ToReconcile
  <1>15. CASE Clean
    <2>1. dir[Final].of = None \/ dir[Final].of = docs
      BY <1>3, <1>4, <1>5, <1>15 DEF Clean, InPlace
    <2> QED BY <1>8, <1>15, <2>1
  <1> QED BY <1>2, <1>13, <1>14, <1>15

(* A version erased with its offer never comes back under the directory,    *)
(* wherever a publication or a deletion is interrupted.                     *)
THEOREM ErasedForGood == ASSUME Alone PROVE Spec => []ErasedStaysErased
  <1>1. IInv /\ AInv => ErasedStaysErased
    <2> SUFFICES ASSUME IInv, AInv PROVE dir[Final].of \notin erased
      BY DEF ErasedStaysErased
    <2>1. None \notin erased /\ docs \notin erased
      BY NoneAssumption DEF IInv, TypeOK, AInv, RowsAgree
    <2>2. \A t \in Token : Undoing(t) => t \notin erased
      BY DEF Undoing
    <2> QED BY <2>1, <2>2, InPlaceNow
  <1> QED BY <1>1, Invariance, AloneInvariance, PTL

(* Publication and deletion implement Dossier: a new version becomes the    *)
(* one of the rows and the one a recovery finds in the same step, and so    *)
(* does the end of the application; the renames and removals in between,    *)
(* the crashes and the recoveries change neither.                           *)
THEOREM DossierImplemented == ASSUME Alone PROVE Spec => ChangesAtOnce
  <1>1. IInv /\ AInv => Shown = docs
    BY InPlaceNow
  <1>2. Init => Atomic!Init
    <2> SUFFICES ASSUME Init PROVE Atomic!Init
      OBVIOUS
    <2>1. IInv /\ AInv
      BY InitHolds, InitAlone
    <2> QED BY <1>1, <2>1 DEF Atomic!Init, Init
  <1>3. ASSUME IInv, AInv, [Next]_vars, Shown = docs, Shown' = docs'
        PROVE  [Atomic!Next]_<<app, Shown>>
    <2>1. CASE UNCHANGED <<app, docs>>
      BY <1>3, <2>1
    <2>2. ASSUME NEW p \in Proc, Reserve(p)
          PROVE  [Atomic!Next]_<<app, Shown>>
      BY <1>3, <2>2 DEF Reserve, Atomic!Next, Atomic!Reserve
    <2>3. ASSUME NEW p \in Proc, Release(p)
          PROVE  [Atomic!Next]_<<app, Shown>>
      BY <1>3, <2>3 DEF Release, Atomic!Next, Atomic!GiveBack
    <2>4. ASSUME NEW p \in Proc, Send(p)
          PROVE  [Atomic!Next]_<<app, Shown>>
      BY <1>3, <2>4 DEF Send, Atomic!Next, Atomic!Send
    <2>5. ASSUME NEW p \in Proc, Persist(p)
          PROVE  [Atomic!Next]_<<app, Shown>>
      <3>1. PICK t : t = proc[p].tok
        OBVIOUS
      <3>2. /\ proc[p].pc = "persist" /\ app \in {"reserved", "ready"} /\ Undoing(t)
        BY <1>3, <2>5, <3>1, PlaceAt DEF Persist, PlaceOf
      <3>3. t \in Token /\ docs # t
        BY <1>3, <3>2 DEF IInv, SInv, Undecided, Undoing
      <3>4. app' = "ready" /\ docs' = t
        BY <2>5, <3>1, <3>2 DEF Persist
      <3> QED BY <1>3, <3>2, <3>3, <3>4 DEF Atomic!Next, Atomic!Publish
    <2>6. ASSUME NEW p \in Proc, Erase(p)
          PROVE  [Atomic!Next]_<<app, Shown>>
      <3>1. app = "ready"
        BY <1>3, <2>6, PlaceAt DEF Erase, PlaceOf
      <3> QED BY <1>3, <2>6, <3>1 DEF Erase, Atomic!Next, Atomic!Erase
    <2>7. CASE UNCHANGED vars
      BY <2>1, <2>7 DEF vars
    <2>8. ASSUME NEW p \in Proc,
                 \/ Publishing(p) \/ Reconciling(p) \/ Deleting(p) \/ Booting(p)
                 \/ Send(p) \/ Quit(p) \/ Troubles(p)
          PROVE  \/ UNCHANGED <<app, docs>> \/ Reserve(p) \/ Release(p) \/ Send(p)
                 \/ Persist(p) \/ Erase(p)
      <3>1. CASE Publishing(p)
        BY <3>1 DEF Publishing, EnterLock, OpenRecovers, Open, Render, GiveUp, Prepare, Validate,
                    SwapOut, SwapIn, Discard, store
      <3>2. CASE Reconciling(p)
        BY <3>2 DEF Reconciling, RecoverRefuses, RecoverRemoves, RecoverRestores, RecoverEnds, store
      <3>3. CASE Deleting(p)
        BY <3>3 DEF Deleting, DeleteStart, DeleteRecovers, DeletePlan, DeleteBegin, StageOne,
                    RestoreOne, PurgeOne, Forget, store
      <3>4. CASE Booting(p)
        BY <3>4 DEF Booting, Boot, BootPub, BootReadPlans, BootPlan, Booted, store
      <3>5. CASE Quit(p)
        BY <3>5 DEF Quit, store
      <3>6. CASE Troubles(p)
        BY <3>6 DEF Troubles, Crash, Fails, SwapInFails, RecoverTorn, PurgeTorn, store
      <3> QED BY <2>8, <3>1, <3>2, <3>3, <3>4, <3>5, <3>6
    <2> QED BY <1>3, <2>1, <2>2, <2>3, <2>4, <2>5, <2>6, <2>7, <2>8 DEF Next
  <1>4. IInv /\ AInv /\ (IInv /\ AInv)' /\ [Next]_vars => [Atomic!Next]_<<app, Shown>>
    <2> SUFFICES ASSUME IInv /\ AInv, (IInv /\ AInv)', [Next]_vars
                 PROVE  [Atomic!Next]_<<app, Shown>>
      OBVIOUS
    <2>1. (Shown = docs)'
      BY <1>1, PTL
    <2> QED BY <1>1, <1>3, <2>1
  <1> QED BY <1>2, <1>4, Invariance, AloneInvariance, PTL DEF Spec, ChangesAtOnce, Atomic!Spec

=============================================================================
