---------------------------- MODULE AnalysisModes ----------------------------
(***************************************************************************)
(* The two analysis modes side by side: the batch coordinator              *)
(* (BatchAnalysis) and one immediate analysis, AnalysisMixin._analyze_one  *)
(* (smartapply/pipeline/process/analysis.py).  They share the offers, the  *)
(* checkpoints and the response cache.  Inside one process job_operation   *)
(* claims the offer of the immediate analysis; from another process (the   *)
(* command line) only the transactions' own checks protect it.             *)
(***************************************************************************)
EXTENDS BatchAnalysis

CONSTANT NoJob      \* im.job when no immediate analysis runs

ASSUME ModesAssumption == NoJob \notin Jobs

VARIABLES
    im,             \* the immediate analysis in progress
    shared          \* TRUE: both modes run in one process and see the claims

modesVars == <<vars, im, shared>>

IdleIm == [pc |-> "idle", job |-> NoJob, ver |-> 0, body |-> 0, prof |-> 0,
           offer |-> FALSE, verdict |-> "none"]

ImKey(p) == <<p, KeyOf[im.job], im.body, IF p = "evaluation" THEN im.prof ELSE 0>>

\* complete_json: a cached answer, or one the provider gives or refuses
Answers(p) ==
    LET hit == {e \in cache : e.key = ImKey(p)}
    IN  IF hit # {} THEN {e.verdict : e \in hit} ELSE OutcomesOf[p]
\* ... and what it leaves in the cache
Remembered(p, o) ==
    IF o = "failed" THEN cache
    ELSE {e \in cache : e.key # ImKey(p)} \cup {[key |-> ImKey(p), verdict |-> o]}

\* job_snapshot_key still equals the one read at the start
SameOffer == job[im.job].ver = im.ver /\ job[im.job].state = "open"

\* mutant: a run created meanwhile is not noticed
MutantAdmitted == SameOffer

\* ... and admission with exclude_reserved
Admitted == SameOffer /\ im.job \notin ReservedBy(Runs)

ImEnds == im' = IdleIm /\ claims' = claims \ {im.job}
BatchUnchanged == UNCHANGED <<prof, run, item, wave, remote, co, used>>

\* claim, admission, snapshot and the retained checkpoints
ImStart(j) ==
    /\ im.pc = "idle" /\ Candidate(j) /\ j \notin ReservedBy(Runs)
    /\ im' = [pc |-> "screening", job |-> j, ver |-> job[j].ver, body |-> job[j].body,
              prof |-> prof, offer |-> HasExtraction(j),
              verdict |-> IF HasVerdict(j) THEN job[j].scope.verdict ELSE "none"]
    /\ claims' = IF shared THEN claims \cup {j} ELSE claims
    /\ UNCHANGED <<job, cache>> /\ BatchUnchanged

\* the prefilter's answer is saved for the same offer only; it may archive it
ImScreened(o) ==
    /\ im.pc = "screening"
    /\ IF im.verdict # "none" THEN o = im.verdict ELSE o \in Answers("screening")
    /\ cache' = IF im.verdict # "none" THEN cache ELSE Remembered("screening", o)
    /\ IF ~SameOffer THEN ImEnds /\ UNCHANGED job
       ELSE /\ job' = [job EXCEPT ![im.job].scope = [body |-> im.body, verdict |-> o],
                                  ![im.job].state = IF Archives(im.job, o) THEN "archived" ELSE @]
            /\ IF Archives(im.job, o) THEN ImEnds
               ELSE im' = [im EXCEPT !.pc = "extraction"] /\ UNCHANGED claims
    /\ BatchUnchanged

\* the extraction is retained only for an offer that is still free; a changed
\* profile then stops before the evaluation is paid
ImExtracted(o) ==
    /\ im.pc = "extraction"
    /\ IF im.offer THEN o = "ok" ELSE o \in Answers("extraction")
    /\ cache' = IF im.offer THEN cache ELSE Remembered("extraction", o)
    /\ job' = IF o = "ok" /\ Admitted THEN [job EXCEPT ![im.job].ckpt = im.body] ELSE job
    /\ IF o = "ok" /\ Admitted /\ im.prof = prof
       THEN im' = [im EXCEPT !.pc = "evaluation"] /\ UNCHANGED claims
       ELSE ImEnds
    /\ BatchUnchanged

\* publication after the last freshness guards
ImPublished(o) ==
    /\ im.pc = "evaluation" /\ o \in Answers("evaluation")
    /\ cache' = Remembered("evaluation", o)
    /\ job' = IF o = "ok" /\ im.prof = prof /\ Admitted
              THEN [job EXCEPT ![im.job].state = "analyzed", ![im.job].ckpt = 0] ELSE job
    /\ ImEnds
    /\ BatchUnchanged

\* Stop before a provider call
ImStop == im.pc # "idle" /\ ImEnds /\ UNCHANGED <<job, cache>> /\ BatchUnchanged

ImNext ==
    \/ \E j \in Jobs : ImStart(j)
    \/ \E o \in Verdicts : ImScreened(o) \/ ImExtracted(o) \/ ImPublished(o)
    \/ ImStop

\* the process dies: shared, it takes both modes and the claims with it
ModesCrash ==
    \/ ~shared /\ Crash /\ UNCHANGED im
    \/ /\ shared /\ (~At("idle") \/ im.pc # "idle") /\ Failing
       /\ co' = IdleCo /\ im' = IdleIm /\ claims' = {}
       /\ UNCHANGED <<job, prof, cache, run, item, wave, remote>>

ModesInit == Init /\ im = IdleIm /\ shared \in BOOLEAN
ModesNext == ((Steps /\ UNCHANGED im) \/ ModesCrash \/ ImNext) /\ UNCHANGED shared
ModesSpec == ModesInit /\ [][ModesNext]_modesVars

----------------------------------------------------------------------------
(* Properties.                                                             *)

\* What a mode writes describes the offer as it is: an analysis is published for
\* an open offer, in the version that was read and with the current profile, and
\* never by the immediate mode over the reservation of a run; an extraction is
\* retained for the present text, however late the answer it comes from.
PublishesFresh ==
    [][\A j \in Jobs :
          /\ job[j].state # "analyzed" /\ job'[j].state = "analyzed" =>
                /\ job[j].state = "open"
                /\ \/ \E r \in Runs : item[r][j].snap = job[j].ver /\ run[r].prof = prof
                   \/ im.job = j /\ im.ver = job[j].ver /\ im.prof = prof
                      /\ j \notin ReservedBy(Runs)
          /\ job'[j].ckpt \notin {job[j].ckpt, 0} => job'[j].ckpt = job'[j].body]_modesVars

\* docs/batch-analysis.md:19 -- batch runs and an immediate analysis of one
\* process advance in parallel on distinct offers: no offer is paid for by both
\* at once.  A retry takes no claim, so the property is stated without one.
ModesOnDistinctOffers ==
    shared /\ used.retries = 0 /\ im.pc # "idle" =>
        \A w \in Waves : InFlight(w) => im.job \notin ItemsOf(w)
=============================================================================
