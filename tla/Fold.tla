-------------------------------- MODULE Fold --------------------------------
(* The consolidation of one round's finding files without a model:           *)
(* meter/fold.py.  A finding is what a reviewer wrote: its name (title), its  *)
(* issue text (or none) and that text's length, the stems of both, its        *)
(* confidence, the angle it is labelled with, its resolution (fix, or none)   *)
(* and what that wants: to add, to remove, or neither.  An entry of the       *)
(* consolidated list has in addition what was merged into it.                 *)
EXTENDS Integers, FiniteSets, Sequences, SequencesExt

CONSTANTS MinSharedStems, MergePercent, RelatedPercent, CorroborationBonus

ASSUME FoldAssumption ==
  /\ MinSharedStems \in Nat \ {0} /\ CorroborationBonus \in Nat
  /\ {MergePercent, RelatedPercent} \subseteq 0..100 /\ RelatedPercent <= MergePercent

NoText == "no text"

\* A file is not there, is white space, is text in which the parser sees no finding,
\* or holds findings.
Kinds == {"missing", "blank", "prose", "findings"}

Size(S) == Cardinality(S)
Least(a, b) == IF a < b THEN a ELSE b

\* _overlap >= RELATED_OVERLAP: two findings about the same subject.
Related(f, g) ==
  /\ f.stems # {} /\ g.stems # {}
  /\ 100 * Size(f.stems \cap g.stems) >= RelatedPercent * Least(Size(f.stems), Size(g.stems))

\* The test of dedupe: the same finding, by shared stems and _jaccard.
Same(f, g) ==
  /\ Size(f.stems \cap g.stems) >= MinSharedStems
  /\ 100 * Size(f.stems \cap g.stems) >= MergePercent * Size(f.stems \cup g.stems)

Opposed(f, g) == {f.wants, g.wants} = {"add", "remove"}

\* A finding of a file on its own: it has the angle of the file, and the one it is
\* labelled with.
Entry(f, angle) ==
  [name |-> f.name, issue |-> f.issue, len |-> f.len, stems |-> f.stems, conf |-> f.conf,
   wants |-> f.wants, angles |-> {angle, f.angle}, also |-> {}, fixes |-> {f.fix} \ {NoText}, of |-> {f}]

\* parse_findings of one file.
Parsed(file, angle) == [i \in 1..Len(file.list) |-> Entry(file.list[i], angle)]

\* _check_for_disagreement
Disagree(fs) ==
  \E i, j \in 1..Len(fs) : i < j /\ Related(fs[i], fs[j]) /\ Opposed(fs[i], fs[j])

Wins(g, f) == g.conf > f.conf \/ (g.conf = f.conf /\ g.len > f.len)

MergeLossy(e, g) ==                                              \* mutant
  LET w == IF Wins(g, e) THEN g ELSE e
  IN  [e EXCEPT !.name = w.name, !.issue = w.issue, !.len = w.len, !.stems = w.stems,
                !.angles = @ \cup g.angles, !.fixes = @ \cup g.fixes, !.of = @ \cup g.of,
                !.also = @ \cup ({g.issue} \ {NoText, w.issue}),
                !.conf = IF g.conf > @ THEN g.conf ELSE @]

\* _merge_into: the surer, then the longer statement is kept, with its title and
\* stems; the other statement is listed beside it, without its title, and the
\* resolutions of both stay, where they have one.
Merge(e, g) ==
  LET w == IF Wins(g, e) THEN g ELSE e
      l == IF Wins(g, e) THEN e ELSE g
  IN  [e EXCEPT !.name = w.name, !.issue = w.issue, !.len = w.len, !.stems = w.stems,
                !.angles = @ \cup g.angles, !.fixes = @ \cup g.fixes, !.of = @ \cup g.of,
                !.also = @ \cup ({l.issue} \ {NoText, w.issue}),
                !.conf = IF g.conf > @ THEN g.conf ELSE @]

\* The loop body of dedupe: into the first entry that is the same, or a new one.
Place(entries, g) ==
  LET same == {i \in 1..Len(entries) : Same(entries[i], g)}
  IN  IF same = {} THEN Append(entries, g)
      ELSE LET i == CHOOSE k \in same : \A j \in same : k <= j
           IN  [entries EXCEPT ![i] = Merge(@, g)]

Dedupe(fs) == FoldLeft(Place, <<>>, fs)

\* Finding.score and the sort of dedupe, stable in the order of the sources.
ScoreOf(e) == e.conf + CorroborationBonus * (Size(e.angles) - 1)
Outranks(e, f, i, j) == ScoreOf(e) > ScoreOf(f) \/ (ScoreOf(e) = ScoreOf(f) /\ i < j)
Before(entries, i) == {j \in 1..Len(entries) : Outranks(entries[j], entries[i], j, i)}
Ranked(entries) ==
  [k \in 1..Len(entries) |->
    entries[CHOOSE i \in 1..Len(entries) : Size(Before(entries, i)) = k - 1]]

\* The findings of the round, its files in the order of their names.
AllParsed(files) ==
  LET of(a) == IF a \in DOMAIN files THEN Parsed(files[a], a) ELSE <<>>
  IN  of("completeness") \o of("consistency") \o of("feasibility")

\* consolidate behind dag-fold.py: it declines what it cannot read or parse and
\* what may be a disagreement.
Declines(files) ==
  \/ \A a \in DOMAIN files : files[a].kind = "missing"
  \/ \E a \in DOMAIN files : files[a].kind = "prose"
  \/ Disagree(AllParsed(files))
Consolidated(files) == Ranked(Dedupe(AllParsed(files)))
=============================================================================
