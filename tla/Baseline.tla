------------------------------ MODULE Baseline ------------------------------
(***************************************************************************)
(* What outlives a run: ledger.jsonl of the run, and across runs           *)
(* baseline.json and weights.json.  _handle_sessionend of meter-hook.py    *)
(* runs in a process of its own for every session that ends; the stop      *)
(* worker of the daemon rewrites ledger.jsonl beside it.  Nothing is       *)
(* locked: every file is read, truncated and written in separate steps,    *)
(* and Claude Code kills a SessionEnd hook after ten seconds.              *)
(***************************************************************************)
EXTENDS Integers, Sequences, SequencesExt, FiniteSetsExt, TLC

CONSTANTS
  Sessions,     \* sessions, each ends once
  Stops,        \* stops of agents, as jobs of the stop worker
  Repos,        \* repositories, in the order of their fingerprints
  Home,         \* per session: its repository
  Runs,         \* run ids, each with a run.json
  Drives,       \* per session: the runs it works on
  ModeOf,       \* per run: the mode in its run.json
  StopRun,      \* per stop: the run of its agent
  Spent,        \* per actor: tokens of its transcript, or Unknown
  Calls,        \* per actor: tool calls of its row, or Unknown
  MaxFaults     \* bound: kills, failing writes and torn reads together

Actors  == Sessions \cup Stops
Unknown == -1
Modes   == {ModeOf[r] : r \in Runs} \cup {"unknown"}
Keys    == ToSet(Repos) \X Modes

\* The row of a session has no call count: only the ledger of an agent counts calls.
ASSUME BaselineAssumption ==
  /\ Sessions \cap Stops = {}
  /\ \A s \in Sessions : Calls[s] = Unknown
  /\ Repos \in Seq(ToSet(Repos))
  /\ Home \in [Sessions -> ToSet(Repos)]
  /\ Drives \in [Sessions -> SUBSET Runs]
  /\ StopRun \in [Stops -> Runs]
  /\ Spent \in [Actors -> Nat \cup {Unknown}]
  /\ Calls \in [Actors -> Nat \cup {Unknown}]
  /\ MaxFaults \in Nat

VARIABLES
  begun,     \* runs that have a run.json
  newest,    \* per repository: the run whose run.json was touched last, or NoRun
  rows,      \* table ledger, per run: the actors that have a row
  ledger,    \* per run: ledger.jsonl
  baseline,  \* baseline.json
  weights,   \* weights.json, or None
  pc,        \* per actor: where it is
  mem,       \* per actor: its run and mode, the rows and the baseline it will write
  faults,    \* kills, failures and torn reads so far
  \* history
  due,       \* what a baseline without losses would hold
  calm,      \* no fault, and no two handlers at the baseline together
  crossed,   \* actors that another wrote the same ledger.jsonl beside
  sound      \* runs whose ledger.jsonl was last written undisturbed

disk == <<ledger, baseline, weights>>
baselineVars == <<begun, newest, rows, disk, pc, mem, faults, due, calm, crossed, sound>>

NoRun     == "none"
None      == [kind |-> "none"]
TypeOf(a) == IF a \in Sessions THEN "orchestrator" ELSE "agent"
Types     == {TypeOf(a) : a \in Actors}

NoSamples == [samples |-> 0, tokens |-> 0, call_samples |-> 0, calls |-> 0]
Fresh     == [runs |-> 0, by |-> [t \in Types |-> NoSamples]]
Empty     == [k \in Keys |-> Fresh]

Nothing   == [run |-> NoRun, mode |-> "unknown", rows |-> {}, base |-> Empty]

\* A file is torn between its truncation and its writing, and for good if
\* two writers met or one died.
Torn      == [whole |-> FALSE]
Whole(of) == [whole |-> TRUE, of |-> of]

BaselineInit ==
  /\ begun = {}
  /\ newest = [p \in ToSet(Repos) |-> NoRun]
  /\ rows = [r \in Runs |-> {}]
  /\ ledger = [r \in Runs |-> Whole({})]
  /\ baseline = Whole(Empty)
  /\ weights = None
  /\ pc = [a \in Actors |-> "idle"]
  /\ mem = [a \in Actors |-> Nothing]
  /\ faults = 0
  /\ due = Empty
  /\ calm = TRUE
  /\ crossed = {}
  /\ sound = Runs

To(a, s) == pc' = [pc EXCEPT ![a] = s]
Done(a)  == To(a, "done") /\ mem' = [mem EXCEPT ![a] = Nothing]
Fault    == faults < MaxFaults /\ faults' = faults + 1

-----------------------------------------------------------------------------
(* Pure parts *)

\* What baseline.json gives a reader: nothing if it is torn.
LoadBaseline(file) == IF file.whole THEN file.of ELSE Empty

\* A row adds to the aggregate of its type what it knows of tokens and of calls.
AddRow(agg, a) ==
  [samples      |-> agg.samples + IF Spent[a] = Unknown THEN 0 ELSE 1,
   tokens       |-> agg.tokens + IF Spent[a] = Unknown THEN 0 ELSE Spent[a],
   call_samples |-> agg.call_samples + IF Calls[a] = Unknown THEN 0 ELSE 1,
   calls        |-> agg.calls + IF Calls[a] = Unknown THEN 0 ELSE Calls[a]]

\* One more session end, with these rows.
Aggregate(entry, rs) ==
  [runs |-> entry.runs + 1,
   by   |-> [t \in Types |-> FoldSet(LAMBDA a, agg : AddRow(agg, a), entry.by[t],
                                    {a \in rs : TypeOf(a) = t})]]

\* Tokens per row, of the types that have samples, all of them multiplied by the
\* product of the samples.
Averages(entry) ==
  LET sampled   == {t \in Types : entry.by[t].samples > 0}
      Others(t) == FoldSet(LAMBDA u, n : n * entry.by[u].samples, 1, sampled \ {t})
  IN  [t \in sampled |-> entry.by[t].tokens * Others(t)]

Total(avg) == FoldSet(LAMBDA t, n : n + avg[t], 0, DOMAIN avg)

\* What a type costs against the average of the averages, in thousandths; nothing if
\* that is zero.
Coefficients(entry) ==
  LET avg == Averages(entry)
  IN  IF Total(avg) = 0 THEN <<>>
      ELSE [t \in DOMAIN avg |-> (1000 * Cardinality(DOMAIN avg) * avg[t]) \div Total(avg)]

\* Repositories that share a mode are merged one after the other, by halves.
Merge(old, new) ==
  [t \in DOMAIN old \cup DOMAIN new |->
     IF t \notin DOMAIN old THEN new[t]
     ELSE IF t \notin DOMAIN new THEN old[t] ELSE (old[t] + new[t]) \div 2]

Weights(base) ==
  [m \in Modes |-> FoldLeft(LAMBDA w, p : Merge(w, Coefficients(base[<<p, m>>])), <<>>, Repos)]

\* predict_call_budget in thousandths: 30 without a sample.
PredictCallBudget(base, k, t) ==
  LET agg == base[k].by[t]
  IN  IF agg.call_samples > 0 THEN (1000 * agg.calls) \div agg.call_samples ELSE 30000

-----------------------------------------------------------------------------
(* The orchestrator's side *)

\* The orchestrator of a session writes run.json of a run it works on.
Touch(s) ==
  /\ pc[s] = "idle"
  /\ \E r \in Drives[s] : begun' = begun \cup {r} /\ newest' = [newest EXCEPT ![Home[s]] = r]
  /\ UNCHANGED <<rows, disk, pc, mem, faults, due, calm, crossed, sound>>

-----------------------------------------------------------------------------
(* The session's end and the stop worker up to the files of the run *)

\* The run whose run.json was touched last, whoever works on it.
FindLatestRun(repo) == newest[repo]

\* upsert_ledger_row: one row per actor.
Row(a, r) == rows' = [rows EXCEPT ![r] = @ \cup {a}]

\* The run touched last gets a row for the session; its mode is that of run.json,
\* unless that is torn.
EndSession(s) ==
  /\ pc[s] = "idle"
  /\ LET r == FindLatestRun(Home[s])
     IN  IF r = NoRun THEN To(s, "done") /\ UNCHANGED <<rows, mem, faults>>
         ELSE /\ Row(s, r)
              /\ \/ mem' = [mem EXCEPT ![s] = [@ EXCEPT !.run = r, !.mode = ModeOf[r]]]
                    /\ UNCHANGED faults
                 \/ mem' = [mem EXCEPT ![s].run = r]
                    /\ Fault
              /\ To(s, "list")
  /\ UNCHANGED <<begun, newest, disk, due, calm, crossed, sound>>

\* A job of the stop worker, one at a time: the agent's row, then the files.
BeginStop(w) ==
  /\ pc[w] = "idle"
  /\ \A v \in Stops : pc[v] \in {"idle", "done"}
  /\ StopRun[w] \in begun
  /\ Row(w, StopRun[w])
  /\ mem' = [mem EXCEPT ![w].run = StopRun[w]]
  /\ To(w, "list")
  /\ UNCHANGED <<begun, newest, disk, faults, due, calm, crossed, sound>>

\* The others that are between reading the rows of a run and having written them.
Writers(r) == {a \in Actors : pc[a] \in {"truncate", "fill"} /\ mem[a].run = r}

ListBefore(a) ==                                                \* mutant
  /\ pc[a] = "list"
  /\ mem' = [mem EXCEPT ![a].rows = rows[mem[a].run] \ {a}]
  /\ crossed' = IF Writers(mem[a].run) = {} THEN crossed \ {a}
                ELSE crossed \cup Writers(mem[a].run) \cup {a}
  /\ To(a, "truncate")
  /\ UNCHANGED <<begun, newest, rows, disk, faults, due, calm, sound>>

\* write_run_artifacts reads the rows ...
List(a) ==
  /\ pc[a] = "list"
  /\ mem' = [mem EXCEPT ![a].rows = rows[mem[a].run]]
  /\ crossed' = IF Writers(mem[a].run) = {} THEN crossed \ {a}
                ELSE crossed \cup Writers(mem[a].run) \cup {a}
  /\ To(a, "truncate")
  /\ UNCHANGED <<begun, newest, rows, disk, faults, due, calm, sound>>

\* ... opens ledger.jsonl, which empties it ...
Truncate(a) ==
  /\ pc[a] = "truncate"
  /\ ledger' = [ledger EXCEPT ![mem[a].run] = Torn]
  /\ To(a, "fill")
  /\ UNCHANGED <<begun, newest, rows, baseline, weights, mem, faults, due, calm, crossed, sound>>

\* ... and writes them all; beside another writer the file may end up as neither's.
Fill(a) ==
  /\ pc[a] = "fill"
  /\ LET r == mem[a].run
     IN  /\ \/ ledger' = [ledger EXCEPT ![r] = Whole(mem[a].rows)]
            \/ a \in crossed /\ ledger' = [ledger EXCEPT ![r] = Torn]
         /\ sound' = IF a \in crossed THEN sound \ {r} ELSE sound \cup {r}
  /\ IF a \in Sessions THEN To(a, "rows") /\ UNCHANGED mem ELSE Done(a)
  /\ UNCHANGED <<begun, newest, rows, baseline, weights, faults, due, calm, crossed>>

-----------------------------------------------------------------------------
(* update_baseline and recalibrate_weights *)

AtBaseline == {s \in Sessions : pc[s] \in {"empty", "save", "weigh"}}

Twice(base, k, rs) ==                                           \* mutant
  [q \in Keys |-> IF q = k THEN Aggregate(Aggregate(base[q], rs), rs) ELSE base[q]]

\* An entry for the repository and mode, made if there is none, with one more run.
Updated(base, k, rs) == [base EXCEPT ![k] = Aggregate(@, rs)]

UpdateAnew(s) ==                                                \* mutant
  /\ pc[s] = "rows"
  /\ LET k == <<Home[s], mem[s].mode>>
         rs == rows[mem[s].run]
     IN  /\ mem' = [mem EXCEPT ![s] = [Nothing EXCEPT !.base = Updated(Empty, k, rs)]]
         /\ due' = [due EXCEPT ![k] = Aggregate(@, rs)]
  /\ calm' = (calm /\ AtBaseline = {})
  /\ To(s, "empty")
  /\ UNCHANGED <<begun, newest, rows, disk, faults, crossed, sound>>

\* The rows of the run as they are now, which may be more than were written; and
\* baseline.json as it is, with one more run in it.
UpdateBaseline(s) ==
  /\ pc[s] = "rows"
  /\ LET k == <<Home[s], mem[s].mode>>
         rs == rows[mem[s].run]
     IN  /\ mem' = [mem EXCEPT ![s] = [Nothing EXCEPT !.base = Updated(LoadBaseline(baseline), k, rs)]]
         /\ due' = [due EXCEPT ![k] = Aggregate(@, rs)]
  /\ calm' = (calm /\ AtBaseline = {})
  /\ To(s, "empty")
  /\ UNCHANGED <<begun, newest, rows, disk, faults, crossed, sound>>

\* The file is opened, which empties it, or cannot be: update_baseline lets that go.
EmptyBaseline(s) ==
  /\ pc[s] = "empty"
  /\ \/ baseline' = Torn /\ To(s, "save") /\ UNCHANGED <<faults, calm>>
     \/ Fault /\ calm' = FALSE /\ To(s, "weigh") /\ UNCHANGED baseline
  /\ UNCHANGED <<begun, newest, rows, ledger, weights, mem, due, crossed, sound>>

SaveBaseline(s) ==
  /\ pc[s] = "save"
  /\ \/ baseline' = Whole(mem[s].base)
     \/ (\E v \in Sessions \ {s} : pc[v] = "save") /\ baseline' = Torn
  /\ To(s, "weigh")
  /\ UNCHANGED <<begun, newest, rows, ledger, weights, mem, faults, due, calm, crossed, sound>>

\* recalibrate_weights reads the file again; without any coefficient weights.json is
\* left as it was.  (Read and write are one step: no one else decides by this file.)
RecalibrateWeights(s) ==
  /\ pc[s] = "weigh"
  /\ LET new == Weights(LoadBaseline(baseline))
     IN  IF \E m \in Modes : DOMAIN new[m] # {}
         THEN \/ weights' = [kind |-> "weights", of |-> new] /\ UNCHANGED <<faults, calm>>
              \/ Fault /\ calm' = FALSE /\ UNCHANGED weights
         ELSE UNCHANGED <<weights, faults, calm>>
  /\ Done(s)
  /\ UNCHANGED <<begun, newest, rows, ledger, baseline, due, crossed, sound>>

\* The hook is killed, the daemon exits in a job, or a write raises: the rest of
\* the handler or job is skipped, and what it had opened stays empty.
Die(a) ==
  /\ pc[a] \notin {"idle", "done"}
  /\ Fault
  /\ calm' = (calm /\ pc[a] \in {"list", "truncate", "fill", "rows"})
  /\ IF pc[a] \in {"list", "truncate", "fill"}
     THEN sound' = sound \ {mem[a].run} /\ crossed' = crossed \cup Writers(mem[a].run)
     ELSE UNCHANGED <<sound, crossed>>
  /\ Done(a)
  /\ UNCHANGED <<begun, newest, rows, disk, due>>

HandleSessionEnd(s) ==
  EndSession(s) \/ UpdateBaseline(s) \/ EmptyBaseline(s) \/ SaveBaseline(s)
  \/ RecalibrateWeights(s)

WriteRunArtifacts(a) == List(a) \/ Truncate(a) \/ Fill(a)

BaselineNext ==
  \/ \E s \in Sessions : Touch(s) \/ HandleSessionEnd(s)
  \/ \E w \in Stops : BeginStop(w)
  \/ \E a \in Actors : WriteRunArtifacts(a) \/ Die(a)

BaselineSpec == BaselineInit /\ [][BaselineNext]_baselineVars

-----------------------------------------------------------------------------
(* Properties *)

\* Every end of a session is counted once for its repository and mode, with the
\* rows its run had then, when the hooks came one at a time and none was killed or
\* failed while it was at the baseline: an end on a run that was counted before,
\* ends in other repositories and stops meanwhile make no difference.  Two hooks
\* together lose a run, or the whole file (update_baseline reads, adds and writes).
\* weights.json is then that of the baseline on disk.
EndsCounted ==
  calm /\ AtBaseline = {} =>
    baseline = Whole(due) /\ (weights # None => weights.of = Weights(due))

\* Whatever is lost, nothing is made up: no end and no row is counted more often
\* than it was added, through torn files, overlapping hooks and kills; so a call
\* budget is the default or lies between the calls that agents really made
\* (predict_call_budget, which may read at any moment).
NothingMadeUp ==
  LET base == LoadBaseline(baseline)
      made == {1000 * Calls[w] : w \in {v \in Stops : Calls[v] # Unknown}}
  IN  \A k \in Keys :
        /\ base[k].runs <= due[k].runs
        /\ \A t \in Types :
             /\ \A c \in DOMAIN NoSamples : base[k].by[t][c] <= due[k].by[t][c]
             /\ LET budget == PredictCallBudget(base, k, t)
                IN  budget = 30000 \/ \E x, y \in made : x <= budget /\ budget <= y

\* ledger.jsonl heals: a kill between truncation and writing, or two writers at
\* once, leave it torn or behind, but after the next write that was not disturbed
\* it has every row of the run again.
LedgerHeals ==
  \A r \in sound :
    (\A a \in Actors : pc[a] \in {"list", "truncate", "fill"} => mem[a].run # r)
      => ledger[r] = Whole(rows[r])
=============================================================================
