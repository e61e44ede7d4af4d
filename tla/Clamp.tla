-------------------------------- MODULE Clamp --------------------------------
(***************************************************************************)
(* Bounded reads (meter/clamp.py decide_read, called for every Read by     *)
(* meter/router.py): an unbounded read of a large file the index has spans *)
(* for is narrowed to those spans, and a repeated one is denied, because   *)
(* the lines were read before.                                             *)
(*                                                                         *)
(* One file that no agent owns, neither binary nor generated; the agents   *)
(* read it through the node they work for.  An edit may change any line    *)
(* and the number of lines, and only the number is kept.                   *)
(***************************************************************************)
EXTENDS Integers, Sequences, FiniteSets, Folds, Functions

CONSTANTS
  Agents,
  Slots,        \* places for the reads of one message
  MaxLine,      \* bound: lines of the file
  Threshold,    \* meter.modules.clamp.full_read_threshold
  Margin,       \* _DEFAULT_MARGIN
  SpanSets,     \* what the index may find relevant: sets of <<first, last>>
  MaxBuilds,    \* bound: dossiers built
  MaxEdits      \* bound: edits of the file

Lines == 1..MaxLine
Interval == Lines \X Lines

ASSUME ClampAssumption ==
  /\ {MaxLine, Threshold, Margin, MaxBuilds, MaxEdits} \subseteq Nat
  /\ \A S \in SpanSets : S \subseteq Interval /\ \A s \in S : s[1] <= s[2]

VARIABLES
  length,   \* lines in the file
  spans,    \* table dossier_spans: of each agent's node, for this file
  reads,    \* table read_spans: of each agent, for this file
  call,     \* per agent and slot, the read in flight
  builds,
  edits,
  \* history
  got,      \* lines each agent was shown
  refused,  \* lines of the reads refused to each agent after the hook let them through
  shortest  \* the least length the file has had

history == <<got, refused, shortest>>
clampVars == <<length, spans, reads, call, builds, edits, history>>

NoCall == [at |-> "none"]
LeastOf(S) == CHOOSE x \in S : \A y \in S : x <= y
MostOf(S)  == CHOOSE x \in S : \A y \in S : x >= y

-----------------------------------------------------------------------------
(* clamp.py's interval arithmetic *)

\* The last of sorted(intervals).
Earlier(i, j) == i[1] < j[1] \/ (i[1] = j[1] /\ i[2] < j[2])
Latest(ivs) == CHOOSE i \in ivs : \A j \in ivs \ {i} : Earlier(j, i)

\* merged[-1] = (last_start, max(last_end, end))
Extended(acc, iv) == [acc EXCEPT ![Len(acc)] = <<@[1], MostOf({@[2], iv[2]})>>]

JoinTouching(acc, iv) ==                                        \* mutant
  IF acc # <<>> /\ iv[1] <= acc[Len(acc)][2] THEN Extended(acc, iv) ELSE Append(acc, iv)

\* The loop body of _merge_intervals: join what overlaps or is adjacent.
Join(acc, iv) ==
  IF acc # <<>> /\ iv[1] <= acc[Len(acc)][2] + 1 THEN Extended(acc, iv) ELSE Append(acc, iv)

\* The loop, over the intervals in their order.
Merged(ivs) == MapThenFoldSet(LAMBDA iv, acc : Join(acc, iv), <<>>, LAMBDA iv : iv, Latest, ivs)

\* _fully_covered
FullyCovered(t, ivs) == \E m \in Range(Merged(ivs)) : m[1] <= t[1] /\ m[2] >= t[2]

\* From the first relevant line to the last, with a margin, within the file.
Bounds(a) ==
  <<MostOf({1, LeastOf({s[1] : s \in spans[a]}) - Margin}),
    LeastOf({length, MostOf({s[2] : s \in spans[a]}) + Margin})>>

-----------------------------------------------------------------------------
ClampInit ==
  /\ length \in Lines
  /\ spans = [a \in Agents |-> {}]
  /\ reads = [a \in Agents |-> {}]
  /\ call = [a \in Agents |-> [i \in Slots |-> NoCall]]
  /\ builds = 0 /\ edits = 0
  /\ got = [a \in Agents |-> {}]
  /\ refused = [a \in Agents |-> {}]
  /\ shortest = length

\* set_dossier_spans, when a dossier is built for the agent's node: the index
\* speaks of the file as it is then.
Build(a) ==
  /\ builds < MaxBuilds
  /\ builds' = builds + 1
  /\ \E S \in SpanSets :
       /\ \A s \in S : s[2] <= length
       /\ spans' = [spans EXCEPT ![a] = S]
  /\ UNCHANGED <<length, reads, call, edits, history>>

\* An unbounded Read of the file is about to run.
Ask(a, i) ==
  /\ call[a][i] = NoCall
  /\ call' = [call EXCEPT ![a][i] = [at |-> "asked"]]
  /\ UNCHANGED <<length, spans, reads, builds, edits, history>>

\* decide_read: a small file, or one the index has no opinion on, is left alone.
PassThrough(a, i) ==
  /\ call[a][i].at = "asked"
  /\ length <= Threshold \/ spans[a] = {}
  /\ call' = [call EXCEPT ![a][i] = [at |-> "full"]]
  /\ UNCHANGED <<length, spans, reads, builds, edits, history>>

\* A bound that was all read before is denied; another is recorded as read ...
Decide(a, i) ==
  /\ call[a][i].at = "asked"
  /\ length > Threshold /\ spans[a] # {}
  /\ call' = [call EXCEPT ![a][i] =
       [at |-> IF FullyCovered(Bounds(a), reads[a]) THEN "deny" ELSE "record",
        range |-> Bounds(a), of |-> spans[a], length |-> length]]
  /\ UNCHANGED <<length, spans, reads, builds, edits, history>>

RecordFile(a, i) ==                                             \* mutant
  /\ call[a][i].at = "record"
  /\ reads' = [reads EXCEPT ![a] = @ \cup {<<1, call[a][i].length>>}]
  /\ call' = [call EXCEPT ![a][i].at = "rewrite"]
  /\ UNCHANGED <<length, spans, builds, edits, history>>

\* ... before the read runs (record_read_span).
Record(a, i) ==
  /\ call[a][i].at = "record"
  /\ reads' = [reads EXCEPT ![a] = @ \cup {call[a][i].range}]
  /\ call' = [call EXCEPT ![a][i].at = "rewrite"]
  /\ UNCHANGED <<length, spans, builds, edits, history>>

\* The agent reads the denial.
Denied(a, i) ==
  /\ call[a][i].at = "deny"
  /\ call' = [call EXCEPT ![a][i] = NoCall]
  /\ UNCHANGED <<length, spans, reads, builds, edits, history>>

\* The Read tool shows the lines as they are now.
Shown(a, i) ==
  IF call[a][i].at = "full" THEN 1..length
  ELSE call[a][i].range[1]..call[a][i].range[2] \cap 1..length

Run(a, i) ==
  /\ call[a][i].at \in {"full", "rewrite"}
  /\ got' = [got EXCEPT ![a] = @ \cup Shown(a, i)]
  /\ call' = [call EXCEPT ![a][i] = NoCall]
  /\ UNCHANGED <<length, spans, reads, builds, edits, refused, shortest>>

\* Another hook or the user refuses the call the clamp let through.
Refuse(a, i) ==
  /\ call[a][i].at \in {"full", "rewrite"}
  /\ refused' = [refused EXCEPT ![a] = @ \cup Shown(a, i)]
  /\ call' = [call EXCEPT ![a][i] = NoCall]
  /\ UNCHANGED <<length, spans, reads, builds, edits, got, shortest>>

EditFile(n) ==
  /\ edits < MaxEdits
  /\ edits' = edits + 1
  /\ length' = n
  /\ shortest' = LeastOf({shortest, n})
  /\ UNCHANGED <<spans, reads, call, builds, got, refused>>

ClampNext ==
  \/ \E a \in Agents :
       \/ Build(a)
       \/ \E i \in Slots : \/ Ask(a, i) \/ PassThrough(a, i) \/ Decide(a, i) \/ Record(a, i)
                           \/ Denied(a, i) \/ Run(a, i) \/ Refuse(a, i)
  \/ \E n \in Lines : EditFile(n)

ClampSpec == ClampInit /\ [][ClampNext]_clampVars

-----------------------------------------------------------------------------
CallType ==
  {NoCall} \cup [at : {"asked", "full"}]
  \cup [at : {"deny", "record", "rewrite"}, range : Interval, of : SpanSets, length : Lines]

ClampTypeOK ==
  /\ length \in Lines /\ shortest \in 1..length /\ edits \in 0..MaxEdits /\ builds \in 0..MaxBuilds
  /\ spans \in [Agents -> SpanSets \cup {{}}]
  /\ reads \in [Agents -> SUBSET Interval]
  /\ call \in [Agents -> [Slots -> CallType]]
  /\ got \in [Agents -> SUBSET Lines] /\ refused \in [Agents -> SUBSET Lines]

\* Merging intervals says what it should: a bound is covered by what was read
\* exactly when each of its lines is.
CoverIsLines ==
  \A a \in Agents : \A s \in Lines, e \in Lines : s <= e =>
    (FullyCovered(<<s, e>>, reads[a])
       <=> s..e \subseteq UNION {r[1]..r[2] : r \in reads[a]})

InFlight(a) == UNION {Shown(a, j) : j \in {k \in Slots : call[a][k].at = "rewrite"}}

\* "this range was already read": the lines a read is denied for were shown to the
\* agent, are being shown by a parallel read, or were in a read refused to it by
\* someone else.  Lines the file did not have all the while are set apart.
DenyOnlyDelivered ==
  \A a \in Agents : \A i \in Slots : call[a][i].at = "deny" =>
    (call[a][i].range[1]..call[a][i].range[2]) \cap (1..shortest)
      \subseteq got[a] \cup InFlight(a) \cup refused[a]
=============================================================================
