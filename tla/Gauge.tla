------------------------------- MODULE Gauge -------------------------------
(* How many reviewers a round of Phase 2 gets: meter/gauge.py behind         *)
(* scripts/dag-gauge.py.  A deliverable is its number of words and of hedges, *)
(* a domain is its risk class.                                                *)
EXTENDS Integers, Sequences

CONSTANTS
  MinReviewers,  \* modules.gauge.min_reviewers
  ForceFull      \* modules.gauge.force_full

ASSUME GaugeAssumption == MinReviewers \in Nat \ {0} /\ ForceFull \in BOOLEAN

NoPrior == -1  \* None, in the first round
AnglePriority == <<"completeness", "feasibility", "consistency">>

\* MODE_CEILING; micro has no review.
Ceiling(mode) == IF mode = "lite" THEN 2 ELSE 3

\* A panel reviews the first angles in the order of their yield.
Panel(reviewers, single) ==
  [angles |-> SubSeq(AnglePriority, 1, reviewers), single |-> single]

Small(text) == text.words <= 600
Large(text) == text.words >= 2500
\* hedge_density: too short a text has none.
Dense(text) == text.words >= 50 /\ text.hedges * 1000 >= 8 * text.words

DomainScore(risk) ==
  CASE risk = "high" -> 70 [] risk = "medium" -> 50 [] risk = "low" -> 32

Surviving(round) == CASE round >= 3 -> -22 [] round = 2 -> -12 [] OTHER -> 0

PriorYield(prior) ==
  CASE prior = NoPrior -> 0 [] prior = 0 -> -18 [] prior >= 4 -> 12 [] OTHER -> 0

TextScore(text) ==
  (IF Dense(text) THEN 14 ELSE 0)
  + (CASE Small(text) -> -14 [] Large(text) -> 10 [] OTHER -> 0)

Score(text, risk, round, prior) ==
  DomainScore(risk) + Surviving(round) + PriorYield(prior) + TextScore(text)

LesserOf(a, b) == IF a < b THEN a ELSE b

\* The reviewers that a score is worth, within the ceiling.
Worth(score, mode) ==
  LesserOf(Ceiling(mode), CASE score >= 60 -> 3 [] score >= 34 -> 2 [] OTHER -> 1)

\* assess: --all takes the full panel, a high-risk domain in its first round does,
\* and two angles on a short text of lesser risk make one pass.
Assess(text, run, round, prior) ==
  LET reviewers == Worth(Score(text, run.risk, round, prior), run.mode)
      floor     == run.risk = "high" /\ round = 1 /\ reviewers < Ceiling(run.mode)
  IN  IF run.all \/ ForceFull
      THEN Panel(Ceiling(run.mode), FALSE)
      ELSE IF floor
      THEN Panel(Ceiling(run.mode), FALSE)
      ELSE Panel(reviewers, reviewers = 2 /\ Small(text) /\ run.risk # "high")

\* dag-gauge.py's last word: the configured minimum, which ends a single pass.
Raised(panel, mode) ==
  IF Len(panel.angles) < MinReviewers
  THEN Panel(LesserOf(MinReviewers, Ceiling(mode)), FALSE)
  ELSE panel

\* _fallback: the constant, when the script is missing, disabled or fails.
Fallback(mode) == Panel(Ceiling(mode), FALSE)

\* The lines the orchestrator may read for a round.
GaugeLines(text, run, round, prior) ==
  {Fallback(run.mode), Raised(Assess(text, run, round, prior), run.mode)}
=============================================================================
