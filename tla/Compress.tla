------------------------------- MODULE Compress -------------------------------
(***************************************************************************)
(* Compressed tool output (meter/clamp.py decide and meter/compressors,    *)
(* called after every tool call by router.handle_tool_post): the lines     *)
(* that say nothing are replaced by a count of them, and the whole text is *)
(* kept in a file the replacement points to.                               *)
(*                                                                         *)
(* One tool call, its output printed line by line.  A line is the set of   *)
(* the patterns it matches, of whichever compressor: one command may run   *)
(* several tools.  A line of Grep also has the file of the match.          *)
(***************************************************************************)
EXTENDS Integers, FiniteSets, SequencesExt

CONSTANTS
  Hit,         \* files a Grep finds matches in
  Prints,      \* the lines an output may have, by the compressor that will read it
  MaxLines,    \* bound: lines of an output
  MinLines,    \* the fewest a test or build log is compressed from (5)
  TailLines,   \* _TAIL_LINES
  BlockLines,  \* _FAILURE_BLOCK_MAX_LINES
  MaxPerFile   \* max_per_file

\* Of tests.py, of build.py and of git.py.
Marks == {"summary", "failure", "newblock", "signal", "header", "hunk", "stat"}
Every == "every"  \* what a count is of, when it is not of one file

ASSUME CompressAssumption ==
  /\ {MaxLines, MinLines, TailLines, BlockLines, MaxPerFile} \subseteq Nat \ {0}
  /\ Hit \cap (Marks \cup {Every}) = {}

ASSUME PrintsAssumption ==
  /\ \A c \in DOMAIN Prints : \A line \in Prints[c] :
       /\ line \subseteq Hit \cup Marks
       /\ \A f, g \in line \cap Hit : f = g
       /\ c # "grep" => line \cap Hit = {}
  /\ DOMAIN Prints = {"grep", "git", "tests", "build", "none"}

VARIABLES
  tool,     \* the tool called
  command,  \* of a Bash call: what its command matches
  text,     \* what it has printed
  spool,    \* the file under meter/tool-output, or NoFile
  answer    \* what the agent is shown of it

outputVars == <<tool, command, text, spool, answer>>

NoFile   == <<>>
Declined == <<>>    \* None: a replacement has at least a line

\* _select_compressor
Selected ==
  IF tool = "Grep" THEN "grep"
  ELSE IF tool # "Bash" THEN "none"
  ELSE IF "diff"  \in command THEN "git"
  ELSE IF "test"  \in command THEN "tests"
  ELSE IF "build" \in command THEN "build" ELSE "none"

\* What a line is kept for: the patterns of the compressor, not those of another one.
Known ==
  [grep |-> {}, git |-> {"header", "hunk", "stat"}, tests |-> {"summary", "failure"},
   build |-> {"signal"}, none |-> {}]
Telling == Known[Selected]

-----------------------------------------------------------------------------
(* The compressors: a sequence of kept lines, by number, and of counts.  What *)
(* their loops keep: the output, the lines dropped since the last count and   *)
(* all of them, whether git.py is in a hunk, and the matches of each file.    *)

Subjects == Hit \cup {Every}
Nothing  == [of \in Subjects |-> 0]
Start    == [out |-> <<>>, pending |-> Nothing, total |-> 0, in |-> FALSE, seen |-> [f \in Hit |-> 0]]

Kept(i)        == [line |-> i, elided |-> Nothing]
Elided(counts) == [line |-> 0, elided |-> counts]
Keep(acc, i)   == [acc EXCEPT !.out = Append(@, Kept(i))]
Drop(acc, of)  == [acc EXCEPT !.pending[of] = @ + 1, !.total = @ + 1]

FlushForgets(acc) ==                                            \* mutant
  IF acc.pending = Nothing THEN acc
  ELSE [acc EXCEPT !.out = Append(@, Elided(acc.pending))]

\* What was dropped since the last count is said: by grep.py for each file (their order
\* is left out), by git.py of a hunk, and by the others of a gap.
Flush(acc) ==
  IF acc.pending = Nothing THEN acc
  ELSE [acc EXCEPT !.out = Append(@, Elided(acc.pending)), !.pending = Nothing]

\* grep.py: so many matches of a file; a line that is no match passes.
GrepLine(s, acc, i) ==
  IF s[i] \cap Hit = {} THEN Keep(Flush(acc), i)
  ELSE LET f == CHOOSE g \in s[i] \cap Hit : TRUE
           a == [acc EXCEPT !.seen[f] = @ + 1]
       IN  IF a.seen[f] <= MaxPerFile THEN Keep(a, i) ELSE Drop(a, f)

\* git.py: the body of a hunk is counted, and the count comes before the next header.
GitLine(s, acc, i) ==
  IF s[i] \cap {"header", "hunk"} # {}
  THEN [Keep(Flush(acc), i) EXCEPT !.in = "hunk" \in s[i]]
  ELSE IF acc.in /\ "stat" \notin s[i] THEN Drop(acc, Every) ELSE Keep(acc, i)

\* _render of tests.py and the loop build.py ends with: each gap becomes one count.
LogLine(keep, acc, i) == IF i \in keep THEN Keep(Flush(acc), i) ELSE Drop(acc, Every)

Matching(s, pattern) == {i \in DOMAIN s : pattern \in s[i]}

\* A failure and what follows, up to the start of another block.
Block(s, first) ==
  {i \in first..(first + BlockLines - 1) \cap DOMAIN s :
     \A j \in (first + 1)..i : "newblock" \notin s[j]}

\* The lines a log is kept for, and with them its tail.
Telltale(s) ==
  IF Selected = "build" THEN Matching(s, "signal")
  ELSE Matching(s, "summary") \cup UNION {Block(s, i) : i \in Matching(s, "failure")}
Worth(s) == Telltale(s) \cup {i \in DOMAIN s : i > Len(s) - TailLines}

\* The loop of the compressor.
Line(s, keep, acc, i) ==
  CASE Selected = "grep" -> GrepLine(s, acc, i)
    [] Selected = "git"  -> GitLine(s, acc, i)
    [] OTHER             -> LogLine(keep, acc, i)
Scanned(s, keep) == FoldLeft(LAMBDA acc, i : Line(s, keep, acc, i), Start, [i \in DOMAIN s |-> i])

\* grep.py and git.py decline when nothing was dropped; the others a log that is short,
\* that says nothing or that would be kept almost whole.
Declines(s, keep) ==
  IF Selected \in {"grep", "git"} THEN Scanned(s, keep).total = 0
  ELSE \/ Selected = "none" \/ Telltale(s) = {}
       \/ Len(s) < MinLines \/ 10 * Cardinality(keep) > 8 * Len(s)

Compressed(s) ==
  LET keep == Worth(s)
  IN  IF Declines(s, keep) THEN Declined ELSE Flush(Scanned(s, keep)).out

-----------------------------------------------------------------------------
OutputInit ==
  /\ tool \in {"Grep", "Bash", "Read"}
  /\ command \in IF tool = "Bash" THEN SUBSET {"diff", "test", "build"} ELSE {{}}
  /\ text = <<>> /\ spool = NoFile
  /\ answer = [at |-> "running"]

\* The tool prints a line.
PrintLine(line) ==
  /\ answer.at = "running" /\ Len(text) < MaxLines
  /\ text' = Append(text, line)
  /\ UNCHANGED <<tool, command, spool, answer>>

Untouched == answer' = [at |-> "shown"] /\ UNCHANGED spool

\* handle_tool_post finds no text (or a response it can only dump on one line), no
\* more bytes than the threshold (which lines do not tell: any output may be short),
\* no compressor or nothing worth dropping.
Leave ==
  /\ answer.at = "running"
  /\ Untouched
  /\ UNCHANGED <<tool, command, text>>

\* _spool_original: the run's directory may be missing and the write may fail, and
\* then the replacement has no pointer; a text that cannot be encoded raises, and the
\* output is left alone.
Replace(write) ==
  /\ answer.at = "running" /\ Compressed(text) # Declined
  /\ CASE write = "raises"  -> Untouched
       [] write = "fails"   -> /\ answer' = [at |-> "replaced", lines |-> Compressed(text),
                                             pointer |-> FALSE]
                               /\ UNCHANGED spool
       [] write = "written" -> /\ answer' = [at |-> "replaced", lines |-> Compressed(text),
                                             pointer |-> TRUE]
                               /\ spool' = text
  /\ UNCHANGED <<tool, command, text>>

OutputNext ==
  \/ \E line \in Prints[Selected] : PrintLine(line)
  \/ Leave
  \/ \E write \in {"raises", "fails", "written"} : Replace(write)

OutputSpec == OutputInit /\ [][OutputNext]_outputVars

-----------------------------------------------------------------------------
Places(out)  == {p \in DOMAIN out : out[p].line > 0}
Missing(s, out) == DOMAIN s \ {out[p].line : p \in Places(out)}
SubjectOf(s, i) == IF s[i] \cap Hit = {} THEN Every ELSE CHOOSE f \in s[i] \cap Hit : TRUE
Counted(out, upTo, of) == MapThenSumSet(LAMBDA p : out[p].elided[of], 1..upTo)

\* The kept lines are lines of the output in its order, whatever is gone tells nothing,
\* no count runs ahead of what is gone before it, and the counts of each file add up.
Tells(s, out) ==
  /\ \A p, q \in Places(out) : p < q => out[p].line < out[q].line
  /\ Missing(s, out) # {}
  /\ \A i \in Missing(s, out) : s[i] \cap Telling = {}
  /\ \A of \in Subjects :
       LET gone == {i \in Missing(s, out) : SubjectOf(s, i) = of} IN
       /\ Counted(out, Len(out), of) = Cardinality(gone)
       /\ \A p \in Places(out) :
            Counted(out, p, of) <= Cardinality({i \in gone : i < out[p].line})

\* No line that the chosen compressor knows to matter is removed, whatever is removed is
\* said, and a pointer leads to the whole text.
NothingSilentlyLost ==
  answer.at = "replaced" =>
    /\ Tells(text, answer.lines)
    /\ answer.pointer => spool = text

\* What the tools of a command print for an error, as far as a compressor knows it.
Errors == (IF "test" \in command THEN {"failure"} ELSE {})
          \cup (IF "build" \in command THEN {"signal"} ELSE {})

\* "Every compressor obeys one absolute rule: never remove an error message"
\* (compressors/__init__.py:4-7).  It does not hold: one compressor is chosen by the
\* command, and what another tool of the same command prints for an error is judged by
\* patterns that know nothing of it.
NoErrorRemoved ==
  answer.at = "replaced" =>
    \A i \in Missing(text, answer.lines) : text[i] \cap Errors = {}
=============================================================================
