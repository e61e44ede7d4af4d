------------------------------- MODULE Review -------------------------------
(* The review loop of one specialist in Phase 2 (phase-2.md): the round is    *)
(* sized by Gauge, reviewed by a panel, consolidated by Fold or, when Fold    *)
(* declines, by an agent, and answered by the specialist.  Specialists go     *)
(* through it independently of each other.                                    *)
EXTENDS Gauge, Fold

CONSTANTS
  Findings,   \* what reviewers may find, each with the angle it belongs to
  MaxFile,    \* findings in one file
  Texts,      \* deliverables, as Gauge sees them
  Runs        \* mode, risk of the domain and --all

ASSUME FindingsAssumption ==
  \A f \in Findings : /\ f.angle \in Range(AnglePriority)
                      /\ f.conf \in Nat /\ f.len \in Nat /\ IsFiniteSet(f.stems)
                      /\ f.wants # "none" => f.fix # NoText

VARIABLES
  run,       \* the run this specialist belongs to
  round,     \* number of the round
  stage,     \* where the round is
  prior,     \* --prior-findings of the next sizing
  panel,     \* the reviewers of the round
  reports,   \* verdict and file of each reviewer that has answered
  list,      \* the consolidated findings of the round
  closed     \* how the loop ended

reviewVars == <<run, round, stage, prior, panel, reports, list, closed>>

NoPanel == Panel(0, FALSE)
NoList  == [by |-> "nobody", entries |-> <<>>, count |-> 0]

Cap(mode) == IF mode = "full" THEN 3 ELSE 1

\* A reviewer goes by the first of its angles, which names its file.
Reviewers ==
  IF panel.single THEN {panel.angles[1]} ELSE {panel.angles[i] : i \in 1..Len(panel.angles)}
AnglesOf(r) ==
  IF panel.single THEN {panel.angles[i] : i \in 1..Len(panel.angles)} ELSE {r}

ReviewInit ==
  /\ run \in Runs /\ round = 1 /\ stage = "size" /\ prior = NoPrior
  /\ panel = NoPanel /\ reports = [r \in {} |-> {}] /\ list = NoList /\ closed = "open"

\* Step 1: what Gauge says of the deliverable as it is now.
SizeRound ==
  /\ stage = "size"
  /\ \E text \in Texts : panel' \in GaugeLines(text, run, round, prior)
  /\ stage' = "review" /\ prior' = NoPrior /\ list' = NoList
  /\ reports' = [r \in {} |-> {}]
  /\ UNCHANGED <<run, round, closed>>

FindingSeqs(angles) ==
  LET F == {f \in Findings : f.angle \in angles}
  IN  {s \in UNION {[1..n -> F] : n \in 1..MaxFile} : IsInjective(s)}

\* What a reviewer of some angles leaves: its line tells what it found, or is
\* missing, and its file may be missing or blank with any of them.
Reports ==
  [angles \in SUBSET Range(AnglePriority) |->
    LET Bare(kinds) == {[kind |-> k, list |-> <<>>] : k \in kinds}
        Full == [kind : {"findings"}, list : FindingSeqs(angles)]
    IN  [line : {"clean"}, file : Bare({"missing", "blank", "prose"})]
        \cup [line : {"findings", "none"}, file : Bare({"missing", "blank", "prose"}) \cup Full]]

\* Steps 2 and 3: a reviewer of the batch answers.
Answer(r) ==
  /\ stage = "review" /\ r \in Reviewers \ DOMAIN reports
  /\ \E report \in Reports[AnglesOf(r)] :
       reports' = [q \in DOMAIN reports \cup {r} |-> IF q = r THEN report ELSE reports[q]]
  /\ UNCHANGED <<run, round, stage, prior, panel, list, closed>>

Most(a, b) == IF a > b THEN a ELSE b

Done(how) == stage' = "done" /\ closed' = how

Gaps == {r \in DOMAIN reports : reports[r].line = "none"}
Files == [r \in DOMAIN reports |-> reports[r].file]

AllCleanLoose == \A r \in DOMAIN reports : reports[r].line # "findings"      \* mutant

AllClean == \A r \in DOMAIN reports : reports[r].line = "clean"

\* Step 3: all clean closes the round; a missing line is no clean one.
Verdicts ==
  /\ stage = "review" /\ DOMAIN reports = Reviewers
  /\ IF AllClean THEN Done("clean") ELSE stage' = "fold" /\ UNCHANGED closed
  /\ UNCHANGED <<run, round, prior, panel, reports, list>>

\* Step 5, the end of either path: the entries, and one finding for the lines that
\* were missing; nothing to answer closes the round.
Hand(by, entries, count) ==
  LET n == count + (IF Gaps = {} THEN 0 ELSE 1)
  IN  /\ list' = [by |-> by, entries |-> entries, count |-> n]
      /\ IF n = 0 THEN Done("empty") ELSE stage' = "revise" /\ UNCHANGED closed
      /\ UNCHANGED <<run, round, prior, panel, reports>>

\* Step 4: dag-fold.py exits 0.
FoldRound ==
  /\ stage = "fold" /\ ~Declines(Files)
  /\ LET entries == Consolidated(Files) IN Hand("fold", entries, Len(entries))

\* It exits otherwise, for one of its reasons or because it cannot run at all.
Escalate ==
  /\ stage = "fold"
  /\ stage' = "agent"
  /\ UNCHANGED <<run, round, prior, panel, reports, list, closed>>

Reported == UNION {Range(Files[r].list) : r \in DOMAIN Files}

\* Step 5: spec-consolidator adds nothing, and what it takes for duplicates may all
\* dissolve; without a count it is one.
Consolidator ==
  /\ stage = "agent"
  /\ \E n \in 0..Most(1, Size(Reported)) : Hand("agent", <<>>, n)

\* Steps 6, 7 and 9: the specialist accepts some of the findings, or none, or all;
\* at the cap, and without any accepted, the loop ends.
Revise ==
  /\ stage = "revise"
  /\ \E accepted \in {"none", "some", "all"} :
       /\ accepted = "some" => list.count > 1
       /\ IF round = Cap(run.mode) \/ accepted = "none"
          THEN /\ Done(IF accepted = "all" THEN "settled" ELSE "concern")
               /\ UNCHANGED <<round, prior>>
          ELSE /\ stage' = "size" /\ round' = round + 1 /\ prior' = list.count
               /\ UNCHANGED closed
  /\ UNCHANGED <<run, panel, reports, list>>

\* The specialist is done.
Rest == stage = "done" /\ UNCHANGED reviewVars

ReviewNext ==
  \/ SizeRound
  \/ \E r \in Reviewers : Answer(r)
  \/ Verdicts \/ FoldRound \/ Escalate \/ Consolidator \/ Revise
  \/ Rest

ReviewSpec == ReviewInit /\ [][ReviewNext]_reviewVars

-----------------------------------------------------------------------------
\* "A reviewer that returned no verdict is not evidence the deliverable is clean": a
\* loop that ends without a revision has a verdict of every reviewer of its last round.
\* It is called clean only by all of them; and when Fold finds nothing to answer, no
\* file held a finding, or text it could not read: whoever reported one left no file or
\* a blank one.  (An agent that consolidates may also dissolve what was reported.)
CleanIsEarned ==
  closed \in {"clean", "empty"} =>
    /\ \A r \in Reviewers : r \in DOMAIN reports /\ reports[r].line # "none"
    /\ closed = "clean" => \A r \in Reviewers : reports[r].line = "clean"
    /\ closed = "empty" /\ list.by = "fold" =>
         \A r \in Reviewers : reports[r].file.kind \in {"missing", "blank"}

\* The list that Fold hands to the specialist: each issue text and each resolution that
\* a reviewer wrote is in it, and no other (the title of a finding that another one
\* outranks is not kept); and "Fold never decides a conflict", so two findings that
\* want opposite things meet in an entry only when they are about different subjects
\* and a third one brought them together.
FoldKeeps ==
  stage = "revise" /\ list.by = "fold" =>
    LET entries == Range(list.entries) IN
    /\ UNION {e.fixes : e \in entries} = {f.fix : f \in Reported} \ {NoText}
    /\ (UNION {{e.issue} \cup e.also : e \in entries}) \ {NoText}
         = {f.issue : f \in Reported} \ {NoText}
    /\ \A e \in entries : \A f, g \in e.of : Opposed(f, g) =>
         /\ Size(f.stems \cap g.stems) * 100 < RelatedPercent * Least(Size(f.stems), Size(g.stems))
         /\ Size(e.of) > 2
=============================================================================
