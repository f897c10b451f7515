----------------------------- MODULE OfferGroups -----------------------------
(***************************************************************************)
(* The offers of the database and the links between the publications of    *)
(* one offer.  A collection stores offers found by a search, recognises    *)
(* the ones it knows, and links the rest: a proven copy becomes an alias,  *)
(* a likely one waits for the user's decision.  The user answers, archives,*)
(* restores, marks as sent; long tasks analyse offers and create dossiers  *)
(* while the others go on, each one holding the whole group of its offer.  *)
(*                                                                         *)
(* What two publications have in common is an input: `world' is one of the *)
(* descriptions in Worlds, sets of pairs of offers: the same technical     *)
(* identity, the same original text, texts alike, dates more than thirty   *)
(* days apart, explicit fields that contradict each other.  The later of   *)
(* two publications has the higher number.                                 *)
(***************************************************************************)
EXTENDS Naturals, FiniteSets, FiniteSetsExt

CONSTANTS
    N,            \* the offers that exist somewhere are 1 .. N
    Worlds,       \* what the publications have in common
    MaxMoves,     \* decisions of the user and tasks started
    MaxSearches,  \* collections started
    MaxQuits      \* times the application is closed or killed

Offers == 1 .. N

ASSUME ConstantsOK ==
    /\ N \in Nat \ {0}
    /\ MaxMoves \in Nat /\ MaxSearches \in Nat /\ MaxQuits \in Nat

\* evidence is about two offers; what has the text of a copy is a copy too
ASSUME EvidenceOK ==
    \A w \in Worlds :
        /\ \A f \in {"id", "text", "alike", "apart", "clash"} : w[f] \subseteq kSubset(2, Offers)
        /\ \A i, j, k \in Offers :
              {i, j} \in w.text /\ {j, k} \in w.text /\ i # k => {i, k} \in w.text

VARIABLES
    rows,     \* jobs and their dossiers, by offer
    world,    \* the evidence
    ingest,   \* the collection in progress
    task,     \* the analysis, creation or restoration in progress
    left      \* what the bounds still allow

vars == <<rows, world, ingest, task, left>>

\* A dossier: reserved before its documents exist, ready, sent, put away
\* without having been sent, after it (kept) or before it had documents
\* (emptied); redo while a restoration replaces the documents.
Dossiers == {"none", "reserved", "ready", "redo", "sent",
             "archived", "kept", "emptied"}
HasDocuments(app) == app \in {"ready", "redo", "sent", "archived", "kept"}
Submitted(app) == app \in {"sent", "kept"}
PutAway(app) == app \in {"archived", "kept", "emptied"}
Live(app) == app # "none" /\ ~PutAway(app)

\* filtered, analyzed and archived stand for the three dates; choice: a
\* decision of the user is recorded with the offer; rescued: the decision was
\* to restore it; analysis: an analysis is stored, whatever its date; route:
\* the review a restored offer is set aside for, out of the ordinary lists.
Row == [status : {"absent", "scraped", "filtered", "analyzed", "shortlisted",
                  "ready", "sent", "archived", "review"},
        filtered : BOOLEAN, analyzed : BOOLEAN, archived : BOOLEAN,
        analysis : BOOLEAN, choice : BOOLEAN, rescued : BOOLEAN,
        canon : {0} \cup Offers, possible : {0} \cup Offers, route : {0} \cup Offers,
        review : {"none", "pending", "confirmed", "rejected"},
        app : Dossiers]
NoRow == [status |-> "absent", filtered |-> FALSE, analyzed |-> FALSE,
          archived |-> FALSE, analysis |-> FALSE, choice |-> FALSE, rescued |-> FALSE,
          canon |-> 0, possible |-> 0, route |-> 0, review |-> "none", app |-> "none"]

Stored(o) == o.status # "absent"
Active(o) == Stored(o) /\ ~o.archived
Pending(o) == o.review = "pending"
JobIsActive(o) == Active(o) /\ o.status # "sent" /\ ~Pending(o)
\* a restored offer that is shown with the duplicates only
Reviewing(o) == o.rescued /\ ~o.archived /\ (Pending(o) \/ o.route # 0)
Archived(o) == [o EXCEPT !.status = "archived", !.archived = TRUE]
Released(o) == [o EXCEPT !.possible = 0, !.review = "none"]
AliasOf(o, k) == [Archived(o) EXCEPT !.canon = k, !.possible = 0,
                                     !.review = "confirmed"]

-----------------------------------------------------------------------------
(* Groups.  r is the table, j an offer.                                    *)

\* canonical_job: the offer an alias stands for
Root(r, j) ==
    LET next(k) == IF r[k].canon = 0 THEN k ELSE r[k].canon
        hop[n \in 0 .. N - 1] == IF n = 0 THEN j ELSE next(hop[n-1])
    IN  hop[N - 1]

Confirmed(r, j) == {k \in Offers : Root(r, k) = Root(r, j)}

\* every offer a link leads to, followed either way
Linked(r, j, k) == k \in {r[j].canon, r[j].possible}
Component(r, j) ==
    LET around(S) == S \cup {k \in Offers : \E m \in S : Linked(r, k, m) \/ Linked(r, m, k)}
        grow[n \in 0 .. N - 1] == IF n = 0 THEN {j} ELSE around(grow[n-1])
    IN  grow[N - 1]

\* the offer a chain of open reviews ends at
PendingRoot(r, j) ==
    LET next(k) == IF Pending(r[k]) /\ r[k].possible # 0 THEN r[k].possible ELSE k
        hop[n \in 0 .. N - 1] == IF n = 0 THEN j ELSE next(hop[n-1])
    IN  Root(r, hop[N - 1])

WithAliases(r, root) == {root} \cup {k \in Offers : r[k].canon = root}

\* duplicate_group_ids: the group, the open reviews about it and, for an
\* offer under review, the group it may belong to
DuplicateGroup(r, j) ==
    LET roots == {Root(r, j)} \cup
                 (IF Pending(r[j]) /\ r[j].possible # 0
                  THEN {Root(r, r[j].possible)} ELSE {})
    IN  UNION {WithAliases(r, k) : k \in roots}
          \cup (IF Pending(r[j]) THEN {j} ELSE {})
          \cup {k \in Offers : Pending(r[k]) /\ PendingRoot(r, k) \in roots}

\* the open review that keeps the group of root from being worked on
ReviewsOf(r, root) ==
    IF Pending(r[root]) THEN {root}
    ELSE {k \in Offers \ {root} : Pending(r[k]) /\ PendingRoot(r, k) = root}

\* _application_priority; what was updated last decides a tie, here either
Rank(app) == CASE app = "sent" -> 0 [] app = "kept" -> 1
               [] app \in {"archived", "emptied"} -> 3 [] OTHER -> 2
FirstDossiers(r, S) ==
    LET owners == {k \in S : r[k].app # "none"}
    IN  {k \in owners : \A m \in owners : Rank(r[k].app) <= Rank(r[m].app)}

-----------------------------------------------------------------------------
(* Evidence.                                                               *)

Near(S) == \A j, k \in S : {j, k} \notin world.apart
Compatible(S) == Near(S) /\ \A j, k \in S : {j, k} \notin world.clash

\* the same technical identity, in a group where nothing contradicts it
IdentitySafe(r, j, k) ==
    /\ {j, k} \in world.id
    /\ r[k].canon = 0 /\ ~Pending(r[k])
    /\ Compatible({j} \cup Component(r, k))

\* the same original text; an active offer never disappears behind an archive
CopySafe(r, j, k) ==
    /\ {j, k} \in world.text
    /\ r[k].canon = 0
    /\ r[j].archived \/ Active(r[k])
    /\ Compatible(Component(r, j) \cup Component(r, k))

AutoMatch(r, j, k) == IdentitySafe(r, j, k) \/ CopySafe(r, j, k)

\* copy_alias_can_be_archived: no decision, no analysis, no dossier is lost;
\* an archive counts only if the local filter made it
Spare(o) ==
    /\ Stored(o) /\ o.canon = 0 /\ o.review # "rejected"
    /\ o.app = "none" /\ ~o.analysis /\ ~o.analyzed /\ ~o.choice
    /\ o.status \in IF o.archived THEN {"archived"} ELSE {"scraped", "filtered"}
\* _unused_alias
Unused(o) == Spare(o) /\ o.status = "scraped" /\ ~o.filtered

\* _manual_review_required
AwaitsUser(o) == Pending(o) /\ o.rescued

-----------------------------------------------------------------------------
(* plan_pending_review_decisions: what the evidence says of open reviews.  *)

TextOf(j) == {j} \cup {k \in Offers : {j, k} \in world.text}

\* a review whose evidence is gone, or that the dates exclude
Unsupported(r, j) ==
    LET group == Confirmed(r, r[j].possible) \ {j}
        share(f) == \E m \in group : {j, m} \in f
    IN  \/ share(world.apart)
        \/ ~(share(world.id) \/ share(world.alike) \/ share(world.text))
ReleaseUnsupported(r, P) ==
    [j \in Offers |-> IF j \in P /\ Unsupported(r, j) THEN Released(r[j]) ELSE r[j]]

ReleaseDistant(j, r) ==
    IF Pending(r[j]) /\ \E m \in Component(r, r[j].possible) : {j, m} \in world.apart
    THEN [r EXCEPT ![j] = Released(@)] ELSE r

ConfirmIdentity(j, r) ==
    IF Pending(r[j]) /\ Unused(r[j]) /\ IdentitySafe(r, j, r[j].possible)
    THEN [r EXCEPT ![j] = AliasOf(@, r[j].possible)] ELSE r

\* choose_copy_keeper: protected history, then an active copy, then the latest
Keeper(r, S) ==
    LET roots == {k \in S : r[k].canon = 0}
        first(T, U) == IF T # {} THEN T ELSE U
    IN  Max(first({k \in roots : ~Spare(r[k])},
                  first({k \in roots : Active(r[k])}, roots)))

\* _plan_strict_copy_confirmations, for the copies of one text
ConfirmCopies(group, r) ==
    LET open == {k \in group : Pending(r[k])}
        strays == {k \in open : r[k].possible \notin group}
        tied(k) == {r[k].possible, Root(r, r[k].possible)} \cap group
        copies == UNION {{k} \cup tied(k) : k \in {m \in open : tied(m) # {}}}
        guarded == {k \in copies : r[k].canon = 0 /\ ~Spare(r[k])}
        pool == IF guarded # {} THEN guarded
                ELSE IF strays \cap copies # {} THEN strays \cap copies ELSE copies
        keeper == Keeper(r, pool)
        aliases == {k \in copies \ ({keeper} \cup strays) :
                        /\ Spare(r[k])
                        /\ Active(r[k]) => Active(r[keeper])
                        /\ CopySafe(r, k, keeper)}
    IN  IF \/ \E k \in group : AwaitsUser(r[k])
           \/ {k \in pool : r[k].canon = 0} = {}
        THEN r
        ELSE [k \in Offers |->
                IF k \in aliases THEN AliasOf(r[k], keeper)
                ELSE IF k = keeper /\ k \in open /\ r[k].possible \in aliases
                     THEN Released(r[k]) ELSE r[k]]

\* Each stage goes over the reviews, or the groups of copies, in the order of
\* their (first) numbers and sees what the ones before it have changed.
Distanced(r, P) ==
    LET stage[n \in 0 .. N] ==
          IF n = 0 THEN ReleaseUnsupported(r, P)
          ELSE IF n \in P THEN ReleaseDistant(n, stage[n-1]) ELSE stage[n-1]
    IN  stage[N]

Identified(r, P) ==
    LET stage[n \in 0 .. N] ==
          IF n = 0 THEN r
          ELSE IF n \in P THEN ConfirmIdentity(n, stage[n-1]) ELSE stage[n-1]
    IN  stage[N]

\* group_strict_copies: offer n is the first stored one of its text
StrictCopies(r, n) == {k \in TextOf(n) : Stored(r[k])}
Settled(r) ==
    LET stage[n \in 0 .. N] ==
          IF n = 0 THEN r
          ELSE IF Stored(r[n]) /\ \A k \in StrictCopies(r, n) : n <= k
               THEN ConfirmCopies(StrictCopies(r, n), stage[n-1]) ELSE stage[n-1]
    IN  stage[N]

Reviewed(r) ==
    LET P == {j \in Offers : Pending(r[j]) /\ ~AwaitsUser(r[j])}
    IN  IF P = {} THEN r ELSE Settled(Identified(Distanced(r, P), P))

-----------------------------------------------------------------------------
(* What is in progress.                                                    *)

\* a collection: offers still to store, those stored for the filter, those
\* that wait for a review; the plan for the next one and whether an offer
\* changed since (ingest_revision); the table a review was planned on
NoPlan == [offer |-> 0, kind |-> "none", ref |-> 0, deps |-> {}, apps |-> <<>>]
NoIngest == [pc |-> "idle", todo |-> {}, kept |-> {}, reviews |-> {},
             plan |-> NoPlan, stale |-> FALSE, seen |-> <<>>]
\* a task: the offer, the group it holds, whether it made the reservation
NoTask == [op |-> "none", job |-> 0, held |-> {}, made |-> FALSE]

Init == /\ rows = [j \in Offers |-> NoRow]
        /\ world \in Worlds
        /\ ingest = NoIngest
        /\ task = NoTask
        /\ left = [moves |-> MaxMoves, searches |-> MaxSearches, quits |-> MaxQuits]

\* the columns whose change ingest_revision records: those of the offer itself
JobPart(o) == <<o.status, o.filtered, o.analyzed, o.archived,
                o.canon, o.possible, o.review>>
Change(r) ==
    /\ rows' = r
    /\ ingest' = [ingest EXCEPT !.stale =
          ingest.pc = "writing" /\
             (@ \/ \E k \in Offers : JobPart(rows'[k]) # JobPart(rows[k]))]

\* job_operation
Free(S) == task.held # {} => \A k \in S : Component(rows, k) \cap task.held = {}

-----------------------------------------------------------------------------
(* A collection.                                                           *)

\* persist_collection; with no offer found, the review made at start-up
StartCollection ==
    /\ ingest.pc = "idle" /\ left.searches > 0
    /\ left' = [left EXCEPT !.searches = @ - 1]
    /\ LET settled == Reviewed(rows) = rows
       IN  \E S \in SUBSET Offers :
              /\ S = {} => ~settled
              /\ ingest' = [NoIngest EXCEPT
                    !.todo = S,
                    !.pc = IF settled THEN "matching" ELSE "reviewing",
                    !.seen = IF settled THEN <<>> ELSE rows]
    /\ UNCHANGED <<rows, world, task>>

\* mutant: the plan is applied without a second look at the table
MutantApplyReviews ==
    LET plan == Reviewed(ingest.seen)
        touched == {k \in Offers : plan[k] # ingest.seen[k]}
    IN  /\ ingest.pc \in {"reviewing", "closing"}
        /\ rows' = IF Free(touched)
                   THEN [k \in Offers |-> IF k \in touched THEN plan[k] ELSE rows[k]]
                   ELSE rows
        /\ ingest' = [ingest EXCEPT
              !.seen = <<>>,
              !.pc = IF @ = "reviewing" THEN "matching" ELSE "filtering"]
        /\ UNCHANGED <<world, task, left>>

\* mutant: an offer changed since the match is stored as planned
MutantOutdated == FALSE

\* reconcile_pending_reviews, its writing half: the plan holds only if nothing
\* changed; otherwise, or when a group is in use, the collection goes on
ApplyReviews ==
    LET plan == Reviewed(ingest.seen)
        touched == {k \in Offers : plan[k] # ingest.seen[k]}
    IN  /\ ingest.pc \in {"reviewing", "closing"}
        /\ rows' = IF Free(touched) /\ rows = ingest.seen THEN plan ELSE rows
        /\ ingest' = [ingest EXCEPT
              !.seen = <<>>,
              !.pc = IF @ = "reviewing" THEN "matching" ELSE "filtering"]
        /\ UNCHANGED <<world, task, left>>

KnownBy(j, f) == {k \in Offers \ {j} : Stored(rows[k]) /\ {j, k} \in f
                                          /\ Near({j} \cup Component(rows, k))}
\* _job_identity_priority
FirstKnown(S) ==
    LET weight(k) == (IF rows[k].app = "none" THEN 2 * N ELSE 0)
                     + (IF rows[k].analyzed THEN 0 ELSE N) + k
    IN  CHOOSE k \in S : \A m \in S : weight(k) <= weight(m)

\* The plans for offer j: it is known, a proven copy of ref, a likely one, new.
Recognised(j) ==
    LET url == KnownBy(j, world.id)
        direct == IF url = {} THEN {} ELSE {Root(rows, FirstKnown(url))}
        sure == {k \in direct : AutoMatch(rows, j, k)}
        copies == {Root(rows, k) : k \in {m \in TextOf(j) \ {j} : Stored(rows[m])}}
        proven == {k \in copies : AutoMatch(rows, j, k)}
        likely == {Root(rows, k) : k \in KnownBy(j, world.alike \cup world.text)}
        as(kind, S) == {[kind |-> kind, ref |-> k] : k \in S}
    IN  IF Stored(rows[j]) THEN as("known", {j})
        ELSE IF sure # {} THEN as("alias", sure)
        ELSE IF proven # {} THEN as("alias", proven)
        ELSE IF direct # {} THEN as("review", direct)
        ELSE IF likely = {} THEN as("new", {0})
        ELSE {[kind |-> IF AutoMatch(rows, j, k) THEN "alias" ELSE "review",
               ref |-> k] : k \in likely}

\* mutant: only the offer matched is looked up, not the group it belongs to
MutantMatch(j) ==
    /\ ingest.pc = "matching" /\ ingest.todo # {} /\ j = Min(ingest.todo)
    /\ \E m \in Recognised(j) :
          ingest' = [ingest EXCEPT
             !.pc = "writing", !.stale = FALSE,
             !.plan = [offer |-> j, kind |-> m.kind, ref |-> m.ref, deps |-> {}, apps |-> <<>>]]
    /\ UNCHANGED <<rows, world, task, left>>

Match(j) ==
    /\ ingest.pc = "matching" /\ ingest.todo # {} /\ j = Min(ingest.todo)
    /\ \E m \in Recognised(j) :
          LET deps == IF m.ref = 0 THEN {} ELSE Component(rows, m.ref)
          IN  ingest' = [ingest EXCEPT
                 !.pc = "writing", !.stale = FALSE,
                 !.plan = [offer |-> j, kind |-> m.kind, ref |-> m.ref, deps |-> deps,
                           apps |-> [k \in deps |-> rows[k].app]]]
    /\ UNCHANGED <<rows, world, task, left>>

\* the next offer, or this one again
Onward(todo) == [ingest EXCEPT !.pc = "matching", !.todo = todo,
                              !.plan = NoPlan, !.stale = FALSE]

\* the offer belongs to a group in use: it is left out of this collection
SkipBusy ==
    /\ ingest.pc = "writing" /\ ~Free(ingest.plan.deps)
    /\ ingest' = Onward(ingest.todo \ {ingest.plan.offer})
    /\ UNCHANGED <<rows, world, task, left>>

Outdated ==
    \/ ingest.stale
    \/ \E k \in ingest.plan.deps : rows[k].app # ingest.plan.apps[k]

\* something changed since the match: match again
Rematch ==
    /\ ingest.pc = "writing" /\ Free(ingest.plan.deps) /\ Outdated
    /\ ingest' = Onward(ingest.todo)
    /\ UNCHANGED <<rows, world, task, left>>

\* _ingest_history_is_protected and the progress a search never reopens
Protected(o) ==
    \/ o.archived \/ o.status # "scraped" \/ o.filtered \/ o.analyzed
    \/ o.app \notin {"none", "reserved"}

NewOffer == [NoRow EXCEPT !.status = "scraped"]

\* the writing half of _persist for one offer
Store ==
    LET j == ingest.plan.offer
        done == Onward(ingest.todo \ {j})
        kept == [done EXCEPT !.kept = @ \cup {j}]
        asked == [kept EXCEPT !.reviews = @ \cup {j}]
        ref == ingest.plan.ref
    IN  /\ ingest.pc = "writing" /\ Free(ingest.plan.deps) /\ ~Outdated
        /\ \/ /\ ingest.plan.kind = "known"
              /\ rows' = rows
              /\ ingest' = IF rows[j].canon # 0 \/ Protected(rows[j]) THEN done
                           ELSE IF Pending(rows[j]) THEN asked ELSE kept
           \/ /\ ingest.plan.kind = "alias"
              /\ rows' = [rows EXCEPT ![j] = AliasOf(NewOffer, ref)]
              /\ ingest' = done
           \/ /\ ingest.plan.kind = "review"
              /\ rows' = [rows EXCEPT ![j] =
                            [NewOffer EXCEPT !.possible = ref, !.review = "pending"]]
              /\ ingest' = asked
           \/ /\ ingest.plan.kind = "new"
              /\ rows' = [rows EXCEPT ![j] = NewOffer]
              /\ ingest' = kept
        /\ UNCHANGED <<world, task, left>>

\* every offer is stored: new reviews are looked at again
CloseCollection ==
    /\ ingest.pc = "matching" /\ ingest.todo = {}
    /\ ingest' = IF ingest.reviews # {} /\ Reviewed(rows) # rows
                 THEN [ingest EXCEPT !.pc = "closing", !.seen = rows]
                 ELSE [ingest EXCEPT !.pc = "filtering"]
    /\ UNCHANGED <<rows, world, task, left>>

\* filter_pending on the stored offers and the references they wait for: no
\* reservation, but only offers unchanged since they were read
Filter ==
    LET ids == ingest.kept \cup {rows[k].possible : k \in {m \in ingest.kept : Pending(rows[m])}}
        targets == {k \in ids \ {0} : /\ Active(rows[k]) /\ rows[k].canon = 0
                                      /\ ~rows[k].analyzed /\ ~rows[k].filtered}
    IN  /\ ingest.pc = "filtering"
        /\ \E rejected \in SUBSET {k \in targets : ~rows[k].rescued} :
              rows' = [k \in Offers |->
                         IF k \in rejected THEN Archived(rows[k])
                         ELSE IF k \in targets THEN [rows[k] EXCEPT !.filtered = TRUE]
                         ELSE rows[k]]
        /\ ingest' = NoIngest
        /\ UNCHANGED <<world, task, left>>

-----------------------------------------------------------------------------
(* The user's decisions: each one reserves the group for its transaction.  *)

Decide(j, r) ==
    /\ left.moves > 0 /\ Stored(rows[j]) /\ Free({j})
    /\ Change(r) /\ rows' # rows
    /\ left' = [left EXCEPT !.moves = @ - 1]
    /\ UNCHANGED <<world, task>>

\* the progress a dossier gives its offer
StatusOf(app) == CASE app \in {"reserved", "redo"} -> "analyzed"
                   [] app \in {"ready", "sent"} -> app
                   [] OTHER -> "archived"

\* mutant: the dossier stays with the publication that had it
MutantMoved(r, owner, winner) ==
    [r EXCEPT ![winner].status = StatusOf(r[owner].app)]

\* the dossier of owner goes to winner
Moved(r, owner, winner) ==
    LET app == r[owner].app
    IN  [r EXCEPT ![owner].app = "none",
                  ![winner].app = app,
                  ![winner].status = StatusOf(app),
                  ![winner].archived = @ \/ PutAway(app)]

\* mutant: the review that was answered stays open on the alias
MutantGrouped(r, members, winner, upstream) ==
    [k \in Offers |->
        IF k = winner THEN [r[k] EXCEPT !.canon = 0, !.possible = 0, !.review = "confirmed"]
        ELSE IF k \in members THEN [Archived(r[k]) EXCEPT !.canon = winner]
        ELSE r[k]]

\* one group around winner; a review the reference itself waits for remains
Grouped(r, members, winner, upstream) ==
    LET joined == [k \in Offers |->
          IF k = winner THEN [r[k] EXCEPT !.canon = 0, !.possible = 0, !.review = "confirmed"]
          ELSE IF k \in members THEN AliasOf(r[k], winner)
          ELSE r[k]]
    IN  IF upstream # 0 /\ Root(joined, upstream) # winner
        THEN [joined EXCEPT ![winner].possible = Root(joined, upstream),
                            ![winner].review = "pending"]
        ELSE joined

\* the answer to the review of j is found: nobody is set aside for it any more
Unrouted(r, j) == [k \in Offers |-> IF r[k].route = j THEN [r[k] EXCEPT !.route = 0] ELSE r[k]]

\* confirm_duplicate
Confirm(j) ==
    LET root == Root(rows, rows[j].possible)
        members == {root, j} \cup
                   {k \in Offers : rows[k].canon # 0 /\ Root(rows, k) \in {root, j}}
        winner == IF Active(rows[root]) = Active(rows[j]) THEN Max({root, j})
                  ELSE CHOOSE k \in {root, j} : Active(rows[k])
        upstream == IF Pending(rows[root]) THEN rows[root].possible ELSE 0
        owners == {k \in members : rows[k].app # "none"}
    IN  /\ Pending(rows[j]) /\ rows[j].possible # 0 /\ root # j
        /\ \/ /\ owners = {}
              /\ Decide(j, Unrouted(Grouped(rows, members, winner, upstream), j))
           \/ \E owner \in FirstDossiers(rows, members) :
                 /\ \A k \in owners \ {owner} : PutAway(rows[k].app)
                 /\ owner = winner \/ rows[winner].app = "none"
                 /\ LET moved == Moved(rows, owner, winner)
                    IN  Decide(j, Unrouted(Grouped(moved, members, winner, upstream), j))

\* reject_duplicate
Reject(j) ==
    /\ Pending(rows[j])
    /\ Decide(j, Unrouted([rows EXCEPT ![j] =
          [@ EXCEPT !.possible = 0, !.review = "rejected",
                    !.status = IF rows[j].archived THEN "archived"
                               ELSE IF rows[j].analyzed THEN "analyzed"
                               ELSE IF rows[j].filtered THEN "filtered" ELSE "scraped"]], j))

ArchiveJob(j) ==
    Decide(j, [rows EXCEPT ![j] = [Archived(@) EXCEPT !.choice = TRUE]])

\* the state a dossier is put away in
Shelved(app) == IF Submitted(app) THEN "kept"
                ELSE IF HasDocuments(app) THEN "archived" ELSE "emptied"
ArchiveApplication(j) ==
    /\ rows[j].app # "none"
    /\ Decide(j, [rows EXCEPT ![j] = [Archived(@) EXCEPT !.choice = TRUE,
                                                        !.app = Shelved(rows[j].app)]])

\* mark_job_sent
MarkSent(j) ==
    /\ ~rows[j].archived /\ HasDocuments(rows[j].app) /\ ~Pending(rows[j])
    /\ Decide(j, [rows EXCEPT ![j].app = "sent", ![j].status = "sent"])

\* set_job_shortlisted
Shortlist(j) ==
    /\ ~rows[j].archived /\ ~Pending(rows[j])
    /\ rows[j].filtered /\ rows[j].analyzed /\ rows[j].analysis
    /\ Decide(j, [rows EXCEPT ![j].status = "shortlisted", ![j].choice = TRUE])
Unlist(j) ==
    /\ rows[j].status = "shortlisted" /\ ~rows[j].archived /\ ~Pending(rows[j])
    /\ Decide(j, [rows EXCEPT
          ![j].status = IF rows[j].analyzed THEN "analyzed" ELSE "filtered", ![j].choice = TRUE])

-----------------------------------------------------------------------------
(* Long tasks: they hold the group of their offer from end to end.         *)

\* analysis_group_available: the aliases of the offer and the reviews about
\* it, and theirs
Descendants(r, j) ==
    LET below(S) == S \cup {k \in Offers : \/ r[k].canon \in S
                                           \/ Pending(r[k]) /\ r[k].possible \in S}
        grow[n \in 0 .. N - 1] == IF n = 0 THEN {j} ELSE below(grow[n-1])
    IN  grow[N - 1]
GroupAvailable(j, excludeApplications) ==
    \A k \in Descendants(rows, j) :
        /\ ~Pending(rows[k]) /\ rows[k].status # "sent"
        /\ IF excludeApplications THEN rows[k].app = "none" ELSE ~Submitted(rows[k].app)

\* is_current_analysis_candidate; again: an offer analysed before is taken too
Candidate(j, again) ==
    /\ JobIsActive(rows[j]) /\ rows[j].canon = 0 /\ rows[j].filtered
    /\ again \/ ~(\/ rows[j].analyzed \/ rows[j].analysis
                  \/ rows[j].status \in {"analyzed", "shortlisted", "ready"})
    /\ GroupAvailable(j, ~again)

Begin(op, j, r) ==
    /\ task.op = "none" /\ left.moves > 0 /\ Stored(rows[j])
    /\ Change(r)
    /\ task' = [op |-> op, job |-> j, held |-> Component(rows, j), made |-> FALSE]
    /\ left' = [left EXCEPT !.moves = @ - 1]
    /\ UNCHANGED world

StartAnalysis(j) == Candidate(j, FALSE) /\ Begin("analyse", j, rows)

\* generate_applications: an old reservation is taken over
StartCreation(j) ==
    /\ ~Pending(rows[j]) /\ ~rows[j].archived
    /\ \A k \in FirstDossiers(rows, DuplicateGroup(rows, j)) :
          rows[k].app \in {"reserved", "emptied"}
    /\ rows[j].analyzed \/ Candidate(j, TRUE)
    /\ Begin("create", j, rows)

\* the model's answer is stored if the offer is still admitted
AnalysisDone ==
    LET j == task.job
    IN  /\ \/ task.op = "analyse" /\ Candidate(j, FALSE)
           \/ task.op = "create" /\ ~rows[j].analyzed /\ Candidate(j, TRUE)
           \/ task.op = "restore" /\ ~rows[j].analyzed /\ Candidate(j, TRUE)
        /\ Change([rows EXCEPT ![j].analyzed = TRUE, ![j].analysis = TRUE,
                               ![j].status = "analyzed"])
        /\ task' = IF task.op = "analyse" THEN NoTask ELSE task
        /\ UNCHANGED <<world, left>>

\* _reserve_application_id: the group has no open review and no dossier comes
\* before this one; a restored dossier is first taken out of the archive
Reserve ==
    LET j == task.job
        again == task.op = "restore" /\ HasDocuments(rows[j].app)
        first == FirstDossiers(rows, DuplicateGroup(rows, j))
    IN  /\ task.op \in {"create", "restore"}
        /\ rows[j].analyzed /\ JobIsActive(rows[j])
        /\ ReviewsOf(rows, j) = {}
        /\ first = {} \/ j \in first
        /\ Change([rows EXCEPT ![j].app = IF again THEN "redo"
                                          ELSE IF @ = "none" THEN "reserved" ELSE @])
        /\ task' = [task EXCEPT !.op = "apply", !.made = ~again]
        /\ UNCHANGED <<world, left>>

\* the documents are rendered and published with the row
Publish ==
    /\ task.op = "apply" /\ JobIsActive(rows[task.job])
    /\ Change([rows EXCEPT ![task.job].app = "ready", ![task.job].status = "ready"])
    /\ task' = NoTask
    /\ UNCHANGED <<world, left>>

\* an error or a Stop: an empty reservation is released, a restored dossier
\* goes back to the archive
Fail ==
    /\ task.op # "none"
    /\ Change([rows EXCEPT ![task.job].app =
          IF @ = "redo" THEN "archived"
          ELSE IF task.op = "apply" /\ task.made /\ @ = "reserved" THEN "none" ELSE @])
    /\ task' = NoTask
    /\ UNCHANGED <<world, left>>

\* rescue_archived_job
Rescued(o) ==
    [o EXCEPT !.status = "filtered", !.filtered = TRUE, !.analyzed = FALSE,
              !.archived = FALSE, !.rescued = TRUE, !.choice = TRUE, !.route = 0]

\* a confirmed link is opened again: p waits for the decision about root
Opened(r, p, root) ==
    [r EXCEPT ![p] = [Rescued(@) EXCEPT !.canon = 0, !.possible = root, !.review = "pending"]]

\* both offers of a review become visible, set aside until it is decided
Shown(r, p, ref) ==
    LET hidden(k) == \/ k = p /\ ~r[k].rescued
                     \/ r[k].archived
                     \/ k = ref /\ PutAway(r[k].app) /\ ~Reviewing(r[k])
        visible(k) == IF hidden(k) THEN Rescued(r[k]) ELSE r[k]
    IN  [k \in Offers |->
            IF k \in {p, ref} THEN [visible(k) EXCEPT !.route = IF visible(k).rescued THEN p ELSE @]
            ELSE r[k]]

\* rescue_jobs, when the group of j has an open review, or else a confirmed link
Reopen(j, root, asked, p) ==
    LET open == IF asked # {} THEN rows ELSE Opened(rows, p, root)
        ref == IF open[p].possible = 0 THEN root ELSE Root(open, open[p].possible)
    IN  Decide(j, Shown(open, p, ref))

\* a sent dossier becomes visible again; otherwise the offer is analysed again
\* and its dossier created
Rescue(j) ==
    /\ rows[j].archived \/ PutAway(rows[j].app)
    /\ LET root == Root(rows, j)
           links == IF rows[j].canon # 0 THEN {j} ELSE {k \in Offers : rows[k].canon = root}
       IN  \E asked \in {ReviewsOf(rows, root)} :
              CASE asked \cup links # {} ->
                     \E p \in {Min(IF asked # {} THEN asked ELSE links)} : Reopen(j, root, asked, p)
                [] asked \cup links = {} /\ Submitted(rows[j].app) ->
                     Decide(j, [rows EXCEPT ![j].archived = FALSE, ![j].status = "sent",
                                            ![j].app = "sent"])
                [] OTHER ->
                     Free({j}) /\ Begin("restore", j, [rows EXCEPT ![j] = Rescued(@)])

\* offer_state and synchronize_offer_state: the progress of an offer with work
\* done on it is read again from its dossier and its analysis
Synchronized(o) ==
    LET analyzed == o.analyzed \/ o.analysis
        archived == o.archived \/ (PutAway(o.app) /\ ~Reviewing(o))
        progress == CASE archived -> "archived"
                      [] ~archived /\ Reviewing(o) -> "review"
                      [] ~archived /\ ~Reviewing(o) /\ HasDocuments(o.app) ->
                            IF o.app = "sent" THEN "sent" ELSE "ready"
                      [] OTHER -> IF analyzed /\ o.status # "shortlisted"
                                  THEN "analyzed" ELSE o.status
    IN  [o EXCEPT !.status = IF archived \/ analyzed \/ HasDocuments(o.app) THEN progress ELSE @,
                  !.analyzed = analyzed]

\* delete_ready_offer: the confirmed copies go with the offer; a publication
\* that waits for a decision about them loses its reference
Delete(j) ==
    LET group == Confirmed(rows, j)
    IN  /\ rows[j].app = "ready" /\ rows[j].status = "ready" /\ ~rows[j].archived
        /\ \A k \in group : rows[k].app \in {"none", "ready"}
        /\ Decide(j, [k \in Offers |->
              IF k \in group THEN NoRow
              ELSE IF rows[k].possible \in group THEN Synchronized(Released(rows[k]))
              ELSE rows[k]])

\* the application is closed or dies: only the database remains
Quit ==
    /\ left.quits > 0 /\ (ingest # NoIngest \/ task # NoTask)
    /\ ingest' = NoIngest /\ task' = NoTask
    /\ left' = [left EXCEPT !.quits = @ - 1]
    /\ UNCHANGED <<rows, world>>

Next ==
    \/ StartCollection \/ ApplyReviews \/ SkipBusy \/ Rematch \/ Store \/ CloseCollection \/ Filter
    \/ \E j \in Offers :
          \/ Match(j) \/ Confirm(j) \/ Reject(j) \/ Rescue(j)
          \/ ArchiveJob(j) \/ ArchiveApplication(j) \/ MarkSent(j)
          \/ Shortlist(j) \/ Unlist(j) \/ Delete(j) \/ StartAnalysis(j) \/ StartCreation(j)
    \/ AnalysisDone \/ Reserve \/ Publish \/ Fail
    \/ Quit

Spec == Init /\ [][Next]_vars

-----------------------------------------------------------------------------
(* Properties.                                                             *)

TypeOK ==
    /\ rows \in [Offers -> Row]
    /\ ingest.pc \in {"idle", "reviewing", "matching", "writing", "closing", "filtering"}
    /\ ingest.todo \subseteq Offers /\ ingest.kept \subseteq Offers
    /\ task.op \in {"none", "analyse", "create", "restore", "apply"}
    /\ task.held \subseteq Offers

\* A dossier in use belongs to the offer its group stands for: decisions move
\* it along, no automatic link hides it, so a group never has two of them and
\* what looks at the root finds it.
DossierAtRoot ==
    \A j \in Offers : Live(rows[j].app) => rows[j].canon = 0

\* While an offer is analysed or its dossier created, the publications that the
\* task has reserved stay in the database and keep their links, whatever the user
\* and the collections do, and no step adds one to the group of the offer, save a
\* review: it reserves the copies it links, not the one it links them to.
Links(o) == <<o.canon, o.possible, o.review>>
GroupSettled ==
    [][task.op # "none" =>
          /\ \A k \in task.held : Stored(rows'[k]) /\ Links(rows'[k]) = Links(rows[k])
          /\ \/ ingest.pc \in {"reviewing", "closing"} /\ ingest'.pc # ingest.pc
             \/ Component(rows', task.job) \subseteq Component(rows, task.job)]_vars

\* Links end: an alias stands for an offer that stands for itself, and an offer
\* under review is no alias, however decisions, reviews and restorations follow
\* each other.
LinksEnd ==
    \A j \in Offers :
        /\ rows[j].canon # 0 => /\ rows[Root(rows, j)].canon = 0
                                /\ Stored(rows[Root(rows, j)])
                                /\ rows[j].archived
        /\ Pending(rows[j]) => /\ rows[j].canon = 0 /\ rows[j].possible \notin {0, j}
                               /\ Stored(rows[rows[j].possible])

\* The offers on which work was done: an analysis, a dossier, a decision.
Worked(o) == o.app # "none" \/ o.analysis \/ o.choice
Collecting == ingest.pc \in {"reviewing", "closing", "writing"} /\ ingest'.pc # ingest.pc

\* Storing what a search found and reviewing links never archives such an
\* offer nor hides it behind another one.
CollectionSparesWork ==
    [][Collecting => \A k \in Offers : Worked(rows[k]) =>
          /\ rows'[k].status = rows[k].status
          /\ rows'[k].canon = rows[k].canon
          /\ rows'[k].app = rows[k].app]_vars

\* "Une version active n'est jamais absorbee par une reference archivee sur la
\* seule preuve de contenu": without a common identity, an offer just found or
\* still active becomes the alias of an active one only.
CopiesStayVisible ==
    [][\A j \in Offers :
          LET k == rows'[j].canon
          IN  Collecting /\ ~rows[j].archived /\ rows[j].canon = 0 /\ k # 0
                => {j, k} \in world.id \/ Active(rows'[k])]_vars

\* "Les offres associees apparaissent dans Doublons": a restored offer that is
\* set aside for a decision, out of every ordinary list, is one the user is
\* asked about, as the offer under review or as its reference.
SetAsideIsAsked ==
    \A j \in Offers : Reviewing(rows[j]) =>
        \E k \in Offers : Pending(rows[k]) /\ (k = j \/ Root(rows, rows[k].possible) = j)
=============================================================================
