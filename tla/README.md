# yolo-dag: TLA+ models

yolo-dag is a Claude Code plugin in two layers:

* the **orchestrator**: prompts (`skills/`, `agents/`, `commands/`) that lead one
  model through six phases, from a request to tasks worked on in worktrees,
  reviewed, and merged onto an integration branch;
* **meter**: a local daemon with a SQLite store (`meter/`), fed by the hooks of
  `hooks/hooks.json` through HTTP and by hook processes (`scripts/`), which
  attributes tokens to nodes of the run, checks receipts, and may deny or
  rewrite tool calls.

The prompts of the orchestrator are read here as what they are, a program with
state on disk (`run.json`, `tasks.json`, the branch) and loops with budgets.
Meter is ordinary concurrent Python: an HTTP server with a thread per request, a
background worker, several sessions and hook processes sharing files.

This directory holds a TLA+ module for each of the parts that keep state, the
TLC configurations that check them, and proofs checked by TLAPS.
`PROJECT.json` maps every definition to the lines it models and lists the runs,
the mutants that show each property can fail, the findings, and the hazards the
properties are for.

    tlc -workers 2 -config ledger.cfg MCLedger
    tlapm Correlator_proof.tla

## Inventory

| Component | State | Operations | What is hard about it |
|---|---|---|---|
| Correlator (`ledger.py`, `router.py`) | a FIFO of markers per session, in memory | push at PreToolUse(Agent), claim at SubagentStart | the two hooks have no common id; only order links them |
| Receipts, ledger, stop worker (`router.py`, `receipts.py`, `ledger.py`, `store.py`) | receipt_attempts, ledger, ledger_rounds, a work queue, `ledger.jsonl`, `receipts/<node>.json` | SubagentStart, SubagentStop, the worker's four steps, exit and boot of the daemon | repair turns, resumed agents, work lost at exit, failing writes |
| Baseline (`ledger.update_baseline`, `governor.py`) | `baseline.json`, `weights.json`, `ledger.jsonl` | SessionEnd accounting, call budgets | a read-modify-write without a lock, files truncated in place |
| Lifecycle (`meter-boot.py`, `meter-hook.py`, `daemon.py`, `dag-meter.py`) | `refcount`, `boot.lock`, the port | SessionStart, SessionEnd, `dag-meter on/off` | processes that read and write a counter with and without a lock |
| Dossier, Pull, Attribution (`dossier.py`, `pull.py`, `attribution.py`, `router.py`) | `dossiers/`, dossier_spans, attribution_exposures, pull_sections | build, deliver, read a section, count references | the hook is given up after ten seconds and the builder goes on; nodes are spawned again |
| Oracle (`oracle.py`, `router.py`, `store.py`) | oracle_cache | lookup, verify, record, invalidate | three steps of recording interleave with edits and other agents |
| Gates (`router.py`, `throttle.py`, `governor.py`) | dossier_state, throttle_denials, tool_call_counts | pack delivery, search denial, write denial, runaway warning and containment | calls of one message have hook threads of their own |
| Clamp and compressors (`clamp.py`, `compressors/`, `router.py`, `store.py`) | dossier_spans, read_spans, `tool-output/` | narrow a read, deny a repeated one, compress an output | the file changes between index, read and repetition; counts that are written late |
| Vault (`vault.py`, `store.py`, `dag-vault.py`) | vault_entries, shadow log, `artifacts/` | seed, compare, purge | table and files change one after the other in two processes |
| Sieve (`sieve.py`, `gitutil.py`, `router.py`) | none; it judges commit and worktree | checkers, declaration in the reviewer's prompt | tools that fail; reviews that no hook sees |
| Review loop (`phase-2.md`), Gauge, Fold | a specialist's rounds and findings | size, review, consolidate, revise | findings that must not get lost |
| Phases and resume (`SKILL.md`, `phase-1` to `phase-6.md`, `reference/`, `dag-resume.md`), Distill | `run.json`, `specialists/`, `merged-spec.md`, `reconcile.md`, `tasks.json`, distill_cache | set up, route, draft, merge, reconcile, distill, decompose, ask, resume | artifacts and `run.json` are separate writes; what only a session knew |
| Execute (`phase-5.md`, `resume.md`, `dag-resume.md`, `SKILL.md`) | `tasks.json`, the branch; what the session holds | passes, rework, merge, contract revision, breaker, resume | several bounded loops at once, and a session that may die |
| Quorum, Intern, Echo, symbol index | independent tables, text | build and measure text | little state; no decision reads it |
| Brainstorm, validate, doctor, status line, evals | none | ask, read and print | - |

How they interact. The orchestrator's Agent calls pass PreToolUse, where a
marker in the prompt is pushed, the node's pack is built and, for a reviewer, the
sieve run; the agent starts, claims the marker and is given the pack; from then
on its `agent_id` has a ledger row and so a run, which the tool gates, the Oracle
and the Clamp look up. When it stops, the receipt check may send it back once;
then the worker updates row, rounds, files, and hands the receipt to the vault.
When the session ends, its run is added to the baseline, from which the next run
gets its weights and call budgets. The daemon lives while sessions are counted.
All of it is fail-open: the orchestrator works without the daemon, so nothing in
Execute or Phases depends on meter but for Distill's exit codes.

## Modules

Each module is one component with its environment. Agents, tasks, files and texts are
model values. The environment of a module is as hostile as the code allows: sessions
die, hooks are lost, patches fail to be written, files are edited unseen. What a
property needs of it is part of the property: history variables (`upset`, `torn`,
`parallel`, `strayed`, `disturbed`, `disorders`, ...) record which kinds of disorder
have happened, and a property says under which of them it still holds. So one run per
module checks what survives everything next to what holds undisturbed, and a reader sees
from the formula which disorder the code does not survive. An `MC` module gives the
structured constants.

**Correlator** implements **Attribution**. `queue` is `Correlator._queues`, `PreAgent`
and `SubagentStart` are the two hooks with `Push`, `DropsHead` and `Taken` (push and
claim); a spawn, its agent and its node are one identity, so `claimed[s] = s` means
correct attribution. `Attribution` says what the queue promises whatever happens: a node
is offered once and given to at most one agent. The mapping sends every marked spawn
whose hook ran to "offered". A marker that is pushed for a call that starts no agent
(`Deny`: by the user or another plugin's hook) is a disorder of its session; the meter
itself denies no Agent call.

**Ledger** implements **Accounting**. It follows a stop from the hook's thread (`Check`,
`Enqueue`, `Answer`: `handle_subagent_stop`) to the worker (`WorkerUpsert`,
`WorkerRound`, `WorkerOpen`, `WorkerWrite`, `WorkerReceipt`: `_process_subagent_stop`),
where each store statement and each half of a file write is a step. `Exit` loses the
queue, as `work_queue` is served by a daemon thread. `MaxFailures` of the steps that may
raise do: the check (`CheckRaises`, which lets the stop through as `router.py:240`
does), a job before its round is booked (`WorkerRaises`), the run's files, the receipt's
own file. A transcript is its number of turns and the form of its last receipt block.
`Accounting` knows neither threads nor queue: a stop that was accepted is held, booked
once and in order under a total that covers its turns, and lost only when its own job
raises or the daemon exits. The mapping takes as held the last of the accepted stops, as
many as are with a thread, in the queue or before `append_ledger_round`.

**Baseline** is what a SessionEnd adds up: `EndSession` to `RecalibrateWeights`
are the steps of `handle_session_end` between reads and writes of files, beside the
worker's own rewriting of `ledger.jsonl`. An entry of `baseline.json` has the sums
and sample counts of the code, and weights and budgets are the averages it takes of
them; `due` adds up the same ends as they happen, so "counted once" is a comparison of
the two. `begun` and `newest` are what `find_latest_run` sees of `run.json`; `mem` is what
a handler holds between a read and a write; `Die` is a kill or an exception at any
step.

**Pack** follows a context pack from the Agent call to the stop, **Dossier** holds
what a build finds and how it is cut to the budget as operators (`FitToBudget`,
`Exposures`, `ManifestSections`). The builder (`Gather` ... `Offer`) is a process
that an agent may overtake, since Claude Code gives the hook up after ten seconds.
`takenAs` is the node that an agent is taken for, which the Correlator guesses from
order: its own, another one or none (`Unclaimed`). Its stop is a job of the worker
(`Count`), which a daemon that exits loses and which may fail before or amid the
marking of the references (`CountFails`).

**Lifecycle** has one `pc` per session for its hook process. The refcount is
read and written in two steps; boots hold `boot.lock` between them, ends do not.

**Oracle** gives files contents (sets of words), so that a search really finds
something and an answer may really be outdated. Its processes are calls, of which an
agent may have several at once: `Ask`/`Verify` are the PreToolUse half, `Search` the
tool, `Count`/`Hash`/`Store` the recording. `UnseenEdit` stands for Bash, git and the
user. That the store itself fails is not modelled here.

**Gates** runs the gate hook and the governor hook of each call side by side,
each in its store-level steps. `MaxLosses` of the hooks fail or are given up, at any
step: `FailGate` and `FailGov` are exceptions, after a count as well as before it, a
mark that fails in `GovWarn` is swallowed and the warning given all the same, and
`TimeOut` is a client that waits no longer while the daemon's thread goes on. A slot is
free again when no thread works for its call. The governor reads the prediction anew for
each call (`Predictions`).

**MCHooks** holds Oracle and Gates; its variable `part` picks the one a behaviour is
about.

**Clamp** has the interval arithmetic of `decide_read`, with `_merge_intervals` as a
fold over the intervals in their order (`Merged`), and its store accesses as steps.
**Compress** is the other half of the clamp: the four compressors are one fold over the
lines of an output (`Scanned`) with a step each (`LogLine`, `GrepLine`, `GitLine`; builds
and tests share the first), a line being the set of patterns it matches (one line may
match several), and the spool file with its failures. A command may run several tools:
`Prints` is what may come out of one that `clamp.py` takes for a diff, a test or a
build, `Known` the patterns of the compressor that is chosen for it. The counts a
compressor prints are kept per subject: a file, or the whole text.
**Vault** has the worker's and the purge's steps over table and files. **MCVault** holds
these three, with a variable `part` like that of MCHooks.

**Execute** is the loop of `phase-5.md`. `status`, `rounds`, `revised` and
`branch` are what survives a session; `pass`, `stage`, `brief`, `retried` and
`breaker` do not. Where the text leaves something open the module takes the
widest reading or the one it names:

* which independent candidates a pass takes is open (`StartPass`);
* an agent that never answers is BLOCKED after the checks of "Stuck agents";
* a contract revision returns the tasks that consume the contract and were attempted
  to the cycle, in the same pass and with fresh rework rounds; one that had ended
  gets a fresh worker, which is briefed with all contract texts as they are then, one
  still at work is told of the new text;
* "SKIPPED" is read literally: tasks that depend on a BLOCKED or UNMERGED one;
* the breaker's corrected graph keeps the tasks and their dependencies.

**Review** is the loop of `phase-2.md` for one specialist; specialists do not share
state. It extends **Gauge** and **Fold**, the two computed steps, as operators:
`GaugeLines` holds what `dag-gauge.py` or its fallback may print, `Declines` and
`Consolidated` are `dag-fold.py`. A finding has the stems of its texts as a set, so
the Jaccard test, the overlap test and the order of merges are those of the code, and
the stable sort by score is the place each entry takes (`Ranked`); stemming itself and
the rendering are not. A finding may come without a resolution: only texts that say
something are kept. What a reviewer writes, whether it writes its last line at all,
whether its file is there, blank or prose (`Reports`), and what the specialist accepts
is open; so is what the agent that consolidates in Fold's place leaves of the findings,
down to nothing (`phase-2.md:85`).

**Sieve** is one task of Phase 5 from its first commit to the PASS of its reviewer:
`SpawnReviewer`, `TakeDiff`, `Check`, `Declare` are `_maybe_run_sieve` and
`run_registry`, with the worktree, the commits and every answer a tool may give; a
checker that is configured and not known is skipped (`Registry`).

**Phases** is a whole run, the rounds of a review and the passes a step each. `disk` is
what outlives a session (`run.json`, the artifacts, the distiller's table), `session` is
its step and what it has in memory: the concerns of Phase 2 until they are merged, the
todo of a phase, the distiller's misses.

* Phases 1 and 2 are one stage, `build`, as each specialist's review starts when its own
  draft lands (`phase-2.md:3`): `Draft`, `Revised`, `ReviewEnds` per specialist, `Landed`
  and `Built` when all are through.
* Phase 3 finds any number of contradictions, asks both sides of each (`Resolve`), and
  merges again if a file changed (`Remerge`); with a high-stakes concern it waits for the
  user before Phase 4 (`Show`, `GoOn`).
* `Die` may leave the file that was being written torn: a draft, a revision, a
  deliverable that Phase 3 overwrites, `merged-spec.md`, `tasks.json` or `run.json`.
  `Resume` re-enters at the first phase that is not complete (`FirstOpen`), or, over a
  `run.json` that cannot be read, at the one inferred from the artifacts (`Inferred`,
  `Rewritten`).

Where the text is silent the module takes the widest reading or the one it names:

* after a complaint about the specification at the gate, merging and decomposing again
  may happen or not (`Ask`);
* `--all` selects all specialists in lite too, as `SKILL.md:78` has it ("forces all 8");
  `phase-1.md:20` leaves open whether the cap of a lite run applies then;
* a session that merges again may find the concerns of the dead one in the
  `merged-spec.md` it writes over, or not: the phase file speaks of the concerns carried
  over from Phase 2 only. That one which is not found is gone, against "never silently
  drop it" (`phase-2.md:105`), is the disorder `dropped` of `PlanOfNow`;
* a run whose `run.json` is lost keeps its type and mode, which the request and the
  routing tell;
* the pause for a high-stakes concern has nobody to answer it in an unattended run; the
  run goes on.

**MCReview** holds these three; its variable `phase` (0: Phases, 2: Review, 5: Sieve)
picks the one a behaviour is about.

## Runs

| Run | what it shows | states |
|---|---|---|
| `correlator` | the queue implements `Attribution` (a node goes to at most one agent, of its own session) under reordered starts, calls that start no agent, lost hooks, stale markers and a restart; attribution is exact until a session is disturbed itself | 175 000 |
| `ledger` | threads, queue and worker implement `Accounting`; repair is bounded over an agent's life, and in its first round given in full unless a check raises; the file of a node is the last passed receipt, never one sent back; every round ends and the worker catches up, whatever fails | 720 000 |
| `baseline` | ends that do not overlap are counted once, and weights are those of the file; nothing is ever made up, so a call budget lies between calls really made; `ledger.jsonl` heals with the next undisturbed write | 2 470 000 |
| `lifecycle` | the count is exact with no disorder, and never too low but for overlapping ends, failed starts and disabled sessions; short of those a live session is served; one daemon is started; every boot ends, and the daemon goes with the last session | 388 000 |
| `pack` | an agent gets the pack built for it; a manifest names readable sections only; what was read or named stays counted, unless its stop is lost or fails, and no unit is counted that could not be seen; a pack keeps to the budget and leaves out nothing that would still have fitted | 3 070 000 |
| `hooks` | Gates: caps and the single warning are exact while calls do not overlap, but for a mark that fails, and passed by less than the calls at work otherwise; a pack once read opens every later search; containment holds of all calls the governor ruled on in time. Oracle: a served answer shows nothing outdated unless an edit fell between its search and its recording; it answers the content words of this search; a seen edit leaves no outdated entry; the cap is passed by less than the number of calls at work | 5 260 000 |
| `vault` | Vault: undisturbed, table and files agree at rest and a disagreement is evidence; a purge without overlap or kill reaches the cap, oldest first; an agreement is always real. Clamp: merged intervals cover exactly the lines read; a read is denied only for lines the agent got, is getting, or was refused. Compress: an output keeps in order every line its compressor knows to matter, and the counts say exactly what is gone | 3 040 000 |
| `execute` | merged work is on top of its dependencies, has the contract texts of now, lands once per text; nobody waits for a failed task; all loops together end | 1 610 000 |
| `review` | Review: no round closes without a verdict of each reviewer, and Fold closes none while a file holds a finding; Fold loses no issue text and no resolution, and puts opposed findings together only by way of a third. Sieve: what is declared holds of the commit it was declared for. Phases: what a run implements was made of the specification as it stands, through deaths and resumes, and a plan-only run is implemented only when asked. None of them stops before it is done | 13 700 000 |

Three more runs check statements that the code does not keep; `findings` in
`PROJECT.json` quotes both sides.

| Run | what TLC finds |
|---|---|
| `pack_unowned` | with the node ids the orchestrator is told to write, `<task-id>-worker`, no task of that id is found, and the pack of a worker lists none of its files |
| `pack_tail` | a pack is not cut from the tail: `_fit_to_budget` goes on after the section that does not fit and keeps a later, smaller one |
| `compress_error` | an error message is removed: the output of `git diff && cargo build` goes to the compressor of diffs, which drops the build's error after a hunk |

The premises of the passing properties mark further places where code and text
part. They were met while the premises were looked for, each as a
counterexample of the property without its premise:

* Correlator: a marker that goes stale before its agent starts shifts every later
  attribution of the session by one (`Exact`); so does the marker of a call that the
  user or another hook refuses.
* Ledger: a receipt that still fails the schema when repair is used up is passed on
  to the file and the vault (`receipts.py:148-157`, `router.py:283`). The attempts
  of an agent's whole life are counted, valid ones included, so one that is resumed
  for another round gets no repair turn, though "a missing or invalid receipt gets
  exactly one" (`receipts.py:9`, `store.py:409`); hence the premise of
  `RepairBounded`. A transcript line that is JSON but no object makes the check raise,
  and the stop goes through without its repair turn (`router.py:240`); the job raises
  over it again, and the round is never booked.
* Baseline: it is "populated by every run's update_baseline" (`governor.py:8`), but
  counts ends of sessions, so a resumed run is added again; hooks that overlap lose
  a run, or, through a torn read, every repository (`EndsCounted`). Merging three or
  more repositories by halves depends on their order (`governor.py:105-113`).
* Lifecycle: a session that boots while the last other one ends is counted and then
  loses its daemon (`meter-hook.py:53` takes no lock); a disabled session still
  decrements the count (`meter-hook.py:128`).
* Pack: a pushed pack of an earlier spawn is preferred to a new manifest
  (`router.py:176`); reads of sections are counted only when pull is on for all, not
  by the override of a type (`router.py:545`); exposures are recorded for sections the
  budget cut off, though attribution "can only ever overstate" (`attribution.py:31`).
  References are marked by the worker: a stop that is lost with the daemon, or whose job
  fails at the run's files, understates them (`router.py:277`, `router.py:329`).
* Oracle: an edit between a search and its recording is folded into the recorded
  hash, and the old answer is served as current (`oracle.py:139`); a file that starts
  to match later is in no provenance; path and flags of a search are not in its key;
  hooks of agents without a row act on the run that was touched last.
* Gates: parallel calls of one message read a counter before any of them bumps it,
  so the caps and the one warning are passed (`SerialExact`); a mark that fails is
  swallowed after the warning (`router.py:857-861`), and it comes again.
* Clamp: a span that was read stays read whatever happens to the file, or to the
  read itself (`DenyOnlyDelivered`); one beyond a shrunk file gives a rewrite whose
  limit is not positive (`clamp.py:161-179`).
* Compress: "the full original always lands" (`compressors/__init__.py:11`), but an
  output is replaced without a pointer when there is no run directory or the write
  fails; `err!` in a pattern that ends in `\b` (`build.py`) never matches "npm ERR!
  code"; a failure block is cut at 60 lines, or at a line with `::` (`tests.py`).
  Such lines do not match the patterns the property speaks of. Those of a second tool
  are the run `compress_error`.
* Vault: a purge that runs between the worker's look and its load makes it report a
  disagreement that is none; a kill leaves files no entry names, which count
  towards the cap for ever (`Consistent`, `PurgeIsLRU`).
* Execute: a session that dies between the merge and `tasks.json` merges the task
  again after the resume; a reopened task at work while its dependency is BLOCKED
  waits for ever after a resume (`Waits`); in a chain of three the first is BLOCKED,
  the second SKIPPED, and the third, which depends on neither a BLOCKED nor an
  UNMERGED task, is never done (`Stranded`, `phase-5.md:135`).
* Review: a reviewer that reports findings and whose file is missing or blank
  (`fold.py:414`) lets the round close with no finding; so may the agent that
  consolidates (`CleanIsEarned` speaks of Fold only). Of two findings that are merged
  the one that is outranked loses its title, and one without issue text and resolution
  leaves no trace (`fold.py:305-311`). The angle a finding is
  labelled with does not replace the angle of its file, it is added to it
  (`fold.py:252`, `fold.py:428`): in a file for several angles the findings of the
  second count as corroborated. The score for a previous round without findings is
  never used, since such a round ends the loop.
* Sieve: a tool that exits non-zero without a word counts as passed, though what
  errored is "reported ran=False"; types and lint are asked of the worktree, not of
  the commit; only the net diff is looked at, so what was added and taken out again
  is not seen; a rework is reviewed with the declaration of the first commit.
* Phases (`PlanOfNow` names each of these, but for the last two): a complaint about the
  specification changes a deliverable while Phases 3 and 4 stay complete, so that a plan
  of the old text may be implemented. Concerns of Phase 2 are in the session only until
  the merge, and those in `merged-spec.md` may be written over by the session that merges
  it again. A revision or a Phase 3 overwrite that a death tore counts as the last
  deliverable, since nobody writes it again. Over an unreadable `run.json` a phase is
  taken for complete whose artifacts are there, whether or not its reviews were over. A
  session that dies after Phase 4 is complete and before the report is resumed straight
  into Phase 5, though the approval is for "the plan the user reviewed"
  (`dag-resume.md:57`; `unseen` in `PlanOnlyWaits`). `dag-distill.py check` exits 1, which
  `phase-4.md:38` reads as "compile", when distill is switched off, and 0, read as "a
  brief is printed", when its module cannot be loaded (the premise `settings.loads`).

### Bounds

Each module needs two or three actors for its races: two agents of one node in
Ledger and Pack, a booting, an ending and a third session in Lifecycle, three
sessions of two repositories and a stop in Baseline, two calls of one agent and one of
the main thread in Oracle (two concurrent recorders and a reader in another tree), two
calls per message in Gates and Clamp, three tasks in Execute (a dependent that shares a
contract with its task, and one that shares a file with it), outputs of six lines for
Compress (a run of matches, a gap and a second file), two commits and two reviews in
Sieve. In Phases two specialists with two deaths or complaints (one to park a file, one
while that is mended), and all three specialists, with as many contradictions, in a run
in which no session dies.
Counters of the environment (`MaxExits`, `MaxEdits`, `MaxCrashes`, `MaxResumes`,
`MaxCalls`, `MaxFaults`, `MaxFailures`, `MaxLosses`, `MaxTurns`, ...) are bounds in
guards, one to four each: the faults that interact do so in pairs, and with a second one
the run also sees the state left by the first. Limits of the program (`RepairTurns`,
`MaxDenials`, `TTL`, `MaxEntries`, `MaxTokens`) are given the smallest value that lets a
case below, at and above the limit happen. Some cases are in the proofs only, which hold
of any values of the constants: a prediction that changes between two calls (`hooks` has
one), several runs of one repository in Oracle, a transcript
without a receipt block in Ledger, a chain of three tasks in Execute.
A run that reaches its bounds stops, so `CHECK_DEADLOCK` is off; that the system never
waits for ever is stated as liveness instead. Only `review` checks deadlock: a
specialist, a task and a run stop only when they are done (a dead session can always be
resumed).
Symmetry is used in the runs `hooks`, `vault` and `pack`, which have no temporal
property.

Modules with structured state have a type invariant. It is part of the inductive
invariants; Oracle's and those of Phases, Sieve and Review state the types
their steps need.

### Fairness

Only `ledger`, `lifecycle` and `execute` check liveness and assume fairness: weak
fairness, of each process apart. A hook process or thread that has started
runs on, the worker thread serves its queue, a bound port is closed once
shutdown was asked for (Lifecycle, Ledger). Boot processes queue for
`boot.lock` with a blocking flock, so the lock step is strongly fair. A dead
daemon need not be booted again in Ledger. In Execute
the orchestrator's dispatch is fair and so is the answer of every task in
flight, because the "Stuck agents" rule turns silence into an answer; no
outcome is fair, so the loops must end by their budgets alone. The user's
actions, edits, crashes and new sessions are never fair.

## Proofs

TLAPS proves, for all values of the constants that meet the named assumptions
(`<Module>Assumption`: kinds and finiteness, no sizes), every safety invariant and
every action property that a passing run checks, and both refinements; the theorems
are listed in `PROJECT.json`. The one assumption on two figures is that of Fold,
`RelatedPercent <= MergePercent`, which the code's 40 and 55 meet (`fold.py:64-81`).
Each component has an inductive invariant as a conjunction of named parts; the parts
were checked by TLC on the module's run before they were proved. Below, what is proved
and why the stated property alone is not inductive.

* `Folding`: what the other modules need of induction and of the folds of the
  community modules. The induction theorems of the library take an operator for the
  predicate, which none of the installed provers can instantiate, so they are stated
  here with a set and proved without them: an injection of a finite set into itself is
  onto, hence a set of naturals with 0 and closed under +1 is `Nat` (`Induct`), and a
  family with the empty set and closed under adding an element has every finite set
  (`InductSet`). `FoldExists`, `FoldUnfolds` and `FoldPrefixes` say that what `FoldSet`
  and `FoldLeft` choose exists and unfolds; `SumSplits`, `LargestExists`, `ImageFinite`
  and `LargestPicks` are the sums and extrema that the modules take.
* `Correlator_proof`, of Correlator: `Exact`, and that the queue implements
  `Attribution` (`Promise!Spec`, the run's `Attributes`). A claim takes a marker from a
  queue, so one needs that queued markers are of the queue's own session (`QueueHome`),
  occur once and are not claimed (`QueuedOnce`), and that nothing is claimed before its
  call was hooked (`NoneBeforeStart`). `Exact` needs one more: until a session is
  disturbed its queue holds exactly the hooked spawns that have not started, in the
  order of their calls (`EInv`). Of Pack: `FreshPack`, `SectionsThere`, `UseCounted`,
  `RatesFair`, `WellCut`. `BudgetIsFilled` is about the operator: what `_fit_to_budget`
  keeps of any draft, by induction over the sections in the order of their priority; it
  says what the code does, which is not to cut from the tail (`pack_tail`). Of agents of
  one node only one builds or runs at a time unless one was late (`Order`). For
  `FreshPack` what the builder of an unborn agent has written still stands for its node
  (`Built`); for `UseCounted` every unit shown has a row, or its builder is about to
  make one (`Accounted`), for as long as the agent was taken for its own node and until
  its stop is counted or dropped; for `RatesFair` what a builder is about to expose was
  shown (`Ready`); for `SectionsThere` what it lists is on disk (`Readables`).
* `Ledger_proof`, of Ledger: `RepairBounded`, `LatestReceiptKept`, and that threads,
  queue and worker implement `Accounting` (`StopsAccounted`), where a job that raises
  loses the oldest stop of its agent. What a thread decided must still be what its
  agent's last turn says (`Threads`), every answered block took an attempt (`Blocks`), a
  receipt that is queued or held by the worker is of a turn that was let through
  (`Receipts`), and the last job that replaces the receipt of a node has the latest one
  (`Converges`). `Accounting` needs that what is held was accepted and that the total
  about to be booked covers the oldest of it (`Covered`). Of Baseline: `EndsCounted`,
  `NothingMadeUp`, `LedgerHeals`. While hooks come one at a time the one at work holds
  what is due, and then the file does (`Counting`); whatever happens, the file and every
  hook stay within what is due (`Bounded`), which with averages that lie between their
  samples bounds the call budgets; a writer that met no other misses only rows whose own
  writer is still to read the table (`Healing`). Averages over the rows of a run are
  folds, and a weight that is there does not go away when an end is added
  (`WeightsThere` and its induction).
* `Run_proof`, of Lifecycle: `CountsSessions` and `OneDaemon`. Two boots cannot be
  between read and write, by the flock (`Locks`), nor a boot and an end without the
  disorder `overlap` (`Apart`); `Counts` then says what the file is short of the live
  sessions by those that are about to write, at every step and not only at rest. Of
  Phases: `PlanOfNow` and `PlanOnlyWaits`. A run is at one of 24 steps and is resumed at
  the first of six phases that is open, or at one inferred from the artifacts when
  `run.json` cannot be read (`Lost`). The invariant says, per step, which phases of
  `run.json` are closed (`Ordered`, `Reached`), where each artifact may be relied on: a
  deliverable, which a death may have torn (`Untorn`), `merged-spec.md` (`UpToDate`,
  `Wholly`; and that it is not there too soon, `Early`), the brief (`Briefed`),
  `tasks.json` (`Ready`), where every concern is that was raised (`Heard`), and what the
  user was shown and said (`Asked`). The dead session is a step like the others: what a
  resume will rely on, given the first open phase, has to hold of the disk at each
  death. Of Sieve: `CoveredHolds`. It needs that commits only grow, that the worktree
  stands still while the checkers run (`Waited`), and that each result is sound of the
  commit (`Checked`). Of Review and Fold: `FoldKeeps` and `CleanIsEarned`.
  `ConsolidatedKeeps` is about the operator, for any files of findings: by induction
  over the merges, the entries have every issue text and every resolution of the
  findings and no other, and two findings that want opposite things are in one entry
  only when a third brought them together (which is where `RelatedPercent <=
  MergePercent` is used); the sort by score keeps the entries. The loop needs that only
  a round that was not all clean is consolidated, and that the list at hand is that of
  its files (`InRound`); then a list of Fold without entries means that no file had a
  finding. What an agent leaves in Fold's place is open, so neither theorem speaks of
  it.
* `Vault_proof`, of Vault: `EvidenceIsReal`, `Consistent`, `PurgeIsLRU`. Worker and purge
  each do table and file in separate steps, so the files are compared with the entries
  and what either process is about to name or unlink (`Agreed`, `Sound`, `Named`), what
  the worker found is related to what is there now (`Looked`), and what a purge counts
  and has removed to the entries that are left and their last use (`Ages`).
  Of Clamp: `CoverIsLines` and `DenyOnlyDelivered`. `CoverExact` is about the operators,
  for any finite set of intervals: the merged ones are apart and cover exactly the same
  lines, so one of them holds a bound exactly when every line of it was read. A denial
  rests on what is remembered having been seen, as far as the file was never shorter
  than that (`ReadsSeen`).
  Of Compress: `NothingSilentlyLost`. `Faithful` is the invariant of the loop that the
  compressors share: the lines kept are in their order, what is gone tells nothing, the
  counts printed with those pending are what is gone, of each file and altogether, and
  never run ahead of it; it is shown for the step of each compressor. `CompressedTells`
  then says it of what `decide` makes of any output, of any lines: those that the chosen
  compressor knows are kept, of others nothing is promised (`compress_error`).
* `Oracle_proof`: `CapSlack` from entries counted together with the calls past their
  check, those of one agent among them; that a run's key does not change under a call in
  between is a lemma of its own (`RacedKeepsRun`). `AnswerStands` and `EditsInvalidate`
  share `Worth`: the hash of an entry is the answer of its search over files as they
  were at the hash, and a file of it that has changed since is held by a call whose edit
  hook is still to come. That an answer is served within its run only is shown for any
  number of runs. They use that the scope of a search names files (`OracleAssumption`).
* `Gates_proof`: `CapsNearlyKept`, `ReadOpens`, `Contained`, `SerialExact`.
  The caps need the number of calls at work past their check, those among them that
  Claude Code waits for no longer. `Contained` needs `Budget`, for the highest
  prediction: the calls that ran, and those the governor is about to allow, are no more
  than the counts below the limit that have been given out and the calls it did not rule
  on in time. `ReadOpens` needs that `read` stays set, by a second start too
  (`StaysRead`), and `SerialExact` that a hook under way holds the counter as it is and
  that an agent was warned once more than its unmarked warnings at most (`Serial`).
* `Execute_proof`: `BuiltOnDependencies`, `CurrentContracts`, `LandsOnce`,
  `NoneStranded`. The merge step relies on what the worktree was cut from when the
  task was spawned (`Bases`), on the texts its brief was written from (`Texts`), and
  on a count of landings against revisions that also holds while a pass runs
  (`Counted`). `NoneStranded` needs that nothing is attempted before its dependencies
  are merged (`Waiting`).

What stays with TLC is liveness: `RoundEnds` of Ledger, `NothingHangs` of Lifecycle and
`Ends` of Execute, as fairness and ENABLED are beyond the prover, and that a specialist,
a task and a run never stop undone (the deadlock check of `review`). The disagreements of
`pack_unowned`, `pack_tail` and `compress_error` are counterexamples and need no proof.

## Not modelled

* Text: prompts, the text of packs, reports; the content of a receipt beyond its form;
  what makes a line a secret or an error, beyond the pattern it matches.
* Echo, narration and the report's figures: written once per node, read by no decision.
* Quorum: nothing in the repository records a sample for it. Intern: texts inserted
  once under their digest and never changed.
* The spawn budget of a run and what it degrades, and the git preflight of its
  setup: `Phases` is partial for them. The budget is a sum over `run.json` that bounds
  rounds and width by judgement; Review takes any number of rounds up to the cap.
* Brainstorm, read-only commands, doctor, validate, status line, configuration, evals.

Every hazard that `PROJECT.json` lists has a property; where one catches a part of the
hazard only, its note says which part is not.

## Plan

1. Done: the modules above, two abstract specifications and their refinements
   (`Attribution`, `Accounting`), and a proof of every safety and action property the
   runs check.
2. The spawn budget in Phases, if Review and Execute can be composed with it at a
   size TLC can finish.
3. Liveness stays with TLC until the prover has ENABLED.
