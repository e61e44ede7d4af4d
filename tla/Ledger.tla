-------------------------------- MODULE Ledger --------------------------------
(***************************************************************************)
(* SubagentStop end to end: the receipt check on the hook's thread, the    *)
(* repair turn it may force, the background worker that does the           *)
(* accounting afterwards, and a daemon that may exit at any point          *)
(* (meter/router.py, meter/receipts.py, meter/ledger.py, meter/store.py).  *)
(*                                                                         *)
(* An agent's transcript is its number of turns and the form of the        *)
(* dag-receipt block that closes the last one; token totals are the number *)
(* of turns counted.  Times, echo, narration, attribution, ledger.jsonl    *)
(* (module Baseline), the vault and the spooled copy of the transcript are *)
(* other tables and files, left out.                                       *)
(***************************************************************************)
EXTENDS Naturals, Sequences, FiniteSets

CONSTANTS
  Agents,       \* agent_ids
  Nodes,        \* nodes of one run
  NodeOf,       \* [Agents -> Nodes]: what each agent's marker named
  RepairTurns,  \* meter.modules.receipts.repair_turns
  MaxResumes,   \* bound: [Agents -> Nat], SendMessage rounds after the first
  FormsOf,      \* bound: [Agents -> SUBSET Forms], the receipts an agent may write
  MaxExits,     \* bound: daemon exits
  MaxFailures,  \* bound: hooks, jobs and writes that raise
  NoReceipt     \* receipt is None / no receipt file

Forms == {"valid", "invalid", "missing"}   \* missing also stands for not JSON
Receipt == [agent : Agents, turn : Nat, form : Forms]

ASSUME LedgerAssumption ==
  /\ NodeOf \in [Agents -> Nodes]
  /\ RepairTurns \in Nat /\ MaxResumes \in [Agents -> Nat] /\ MaxExits \in Nat /\ MaxFailures \in Nat
  /\ FormsOf \in [Agents -> SUBSET Forms]
  /\ NoReceipt \notin Receipt

VARIABLES
  agent,      \* absent, running, stopping (hook sent), idle
  turns,      \* assistant turns in the transcript
  form,       \* the receipt block of the last turn
  resumes,    \* rounds after the first
  up,         \* the daemon serves
  exits,      \* daemon exits so far
  thread,     \* the HTTP thread of the agent's stop: none, check, enqueue, answer
  outcome,    \* receipts.Outcome held by that thread
  attempts,   \* table receipt_attempts
  row,        \* ledger row: none, unattributed, run
  total,      \* tokens of the ledger row
  rounds,     \* table ledger_rounds: the totals appended, in order
  workq,      \* Context._work_queue
  worker,     \* the worker thread: pc, its job, tokens parsed, rows read
  receiptOf,  \* meter/receipts/<node>.json
  \* history
  stops,      \* the turns at which a stop was accepted by the daemon
  blocked,    \* turns whose stop was answered with a block
  latest,     \* per node, the receipt of the last passed stop queued
  raised,     \* agents whose receipt check raised
  failures,   \* how often anything raised
  lost,       \* jobs that raised before their round was booked
  dropped     \* a receipt was not written, because it or its job failed

daemonVars == <<up, exits>>
tables == <<attempts, row, total, rounds>>
history == <<stops, blocked, latest, raised, failures, lost, dropped>>
vars == <<agent, turns, form, resumes, daemonVars, thread, outcome, tables,
          workq, worker, receiptOf, history>>

Outcome == [block : BOOLEAN, receipt : Receipt \cup {NoReceipt}]
Passed == [block |-> FALSE, receipt |-> NoReceipt]
Job == [agent : Agents, out : Outcome]
Idle == [pc |-> "idle"]

-----------------------------------------------------------------------------
(* receipts.check: the block decision of one stop. *)

\* parse_and_validate returns the dict even when the schema rejects it.
Parsed(a) ==
  IF form[a] = "missing" THEN NoReceipt
  ELSE [agent |-> a, turn |-> turns[a], form |-> form[a]]

Decide(a, attempt) ==
  [block |-> form[a] # "valid" /\ attempt <= RepairTurns, receipt |-> Parsed(a)]

-----------------------------------------------------------------------------
Init ==
  /\ agent = [a \in Agents |-> "absent"]
  /\ turns = [a \in Agents |-> 0]
  /\ form = [a \in Agents |-> "missing"]
  /\ resumes = [a \in Agents |-> 0]
  /\ up = TRUE /\ exits = 0
  /\ thread = [a \in Agents |-> "none"]
  /\ outcome = [a \in Agents |-> Passed]
  /\ attempts = [a \in Agents |-> 0]
  /\ row = [a \in Agents |-> "none"]
  /\ total = [a \in Agents |-> 0]
  /\ rounds = [a \in Agents |-> <<>>]
  /\ workq = <<>>
  /\ worker = Idle
  /\ receiptOf = [n \in Nodes |-> NoReceipt]
  /\ stops = [a \in Agents |-> <<>>]
  /\ blocked = [a \in Agents |-> {}]
  /\ latest = [n \in Nodes |-> NoReceipt]
  /\ raised = {} /\ failures = 0 /\ lost = 0 /\ dropped = FALSE

\* Something raises.
Fails == failures < MaxFailures /\ failures' = failures + 1

(* The agent and its hooks. *)

\* handle_subagent_start writes the row, under the run the Correlator gave or
\* under _unattributed; with the daemon down nothing is written.
SubagentStart(a) ==
  /\ agent[a] = "absent"
  /\ agent' = [agent EXCEPT ![a] = "running"]
  /\ \E r \in IF up THEN {"run", "unattributed"} ELSE {"none"} :
       row' = [row EXCEPT ![a] = r]
  /\ UNCHANGED <<turns, form, resumes, daemonVars, thread, outcome, attempts, total,
                 rounds, workq, worker, receiptOf, history>>

\* A turn ends with some receipt block and SubagentStop is sent.  With no daemon,
\* or when the row of the agent cannot be read, it fails open.
EndTurn(a) ==
  /\ agent[a] = "running"
  /\ turns' = [turns EXCEPT ![a] = @ + 1]
  /\ \E f \in FormsOf[a] : form' = [form EXCEPT ![a] = f]
  /\ \/ /\ up
        /\ agent' = [agent EXCEPT ![a] = "stopping"]
        /\ thread' = [thread EXCEPT ![a] = "check"]
        /\ stops' = [stops EXCEPT ![a] = Append(@, turns[a] + 1)]
        /\ UNCHANGED failures
     \/ /\ \/ ~up /\ UNCHANGED failures
           \/ up /\ Fails
        /\ agent' = [agent EXCEPT ![a] = "idle"]
        /\ UNCHANGED <<thread, stops>>
  /\ UNCHANGED <<resumes, daemonVars, outcome, tables, workq, worker, receiptOf,
                 blocked, latest, raised, lost, dropped>>

\* The orchestrator resumes the same agent (SendMessage) for another round.
Resume(a) ==
  /\ agent[a] = "idle"
  /\ resumes[a] < MaxResumes[a]
  /\ resumes' = [resumes EXCEPT ![a] = @ + 1]
  /\ agent' = [agent EXCEPT ![a] = "running"]
  /\ UNCHANGED <<turns, form, daemonVars, thread, outcome, tables, workq, worker, receiptOf,
                 stops, blocked, latest, raised, failures, lost, dropped>>

(* handle_subagent_stop, on its own thread. *)

CheckNoBump(a) ==                                               \* mutant
  /\ thread[a] = "check"
  /\ outcome' = [outcome EXCEPT ![a] = Decide(a, attempts[a] + 1)]
  /\ thread' = [thread EXCEPT ![a] = "enqueue"]
  /\ UNCHANGED <<agent, turns, form, resumes, daemonVars, tables, workq, worker,
                 receiptOf, history>>

CheckDies(a) ==                                                 \* mutant
  /\ thread[a] = "check"
  /\ attempts' = [attempts EXCEPT ![a] = @ + 1]
  /\ outcome' = [outcome EXCEPT ![a] = Decide(a, attempts[a] + 1)]
  /\ thread' = [thread EXCEPT ![a] = IF form[a] = "invalid" THEN "none" ELSE "enqueue"]
  /\ UNCHANGED <<agent, turns, form, resumes, daemonVars, row, total, rounds, workq,
                 worker, receiptOf, history>>

\* receipts.check: the attempt is bumped and committed, whatever the receipt.
Check(a) ==
  /\ thread[a] = "check"
  /\ attempts' = [attempts EXCEPT ![a] = @ + 1]
  /\ outcome' = [outcome EXCEPT ![a] = Decide(a, attempts[a] + 1)]
  /\ thread' = [thread EXCEPT ![a] = "enqueue"]
  /\ UNCHANGED <<agent, turns, form, resumes, daemonVars, row, total, rounds, workq,
                 worker, receiptOf, history>>

\* It raises, as it does over a transcript line that is JSON but no object: the
\* stop goes on with no outcome, and is let through.
CheckRaises(a) ==
  /\ Fails
  /\ thread[a] = "check"
  /\ thread' = [thread EXCEPT ![a] = "enqueue"]
  /\ raised' = raised \cup {a}
  /\ UNCHANGED <<agent, turns, form, resumes, daemonVars, outcome, tables, workq, worker,
                 receiptOf, stops, blocked, latest, lost, dropped>>

\* ctx.enqueue, before the answer.
Enqueue(a) ==
  /\ thread[a] = "enqueue"
  /\ workq' = Append(workq, [agent |-> a, out |-> outcome[a]])
  /\ thread' = [thread EXCEPT ![a] = "answer"]
  /\ latest' = IF row[a] = "run" /\ ~outcome[a].block /\ outcome[a].receipt # NoReceipt
               THEN [latest EXCEPT ![NodeOf[a]] = outcome[a].receipt] ELSE latest
  /\ UNCHANGED <<agent, turns, form, resumes, daemonVars, outcome, tables, worker, receiptOf,
                 stops, blocked, raised, failures, lost, dropped>>

\* The response: a block keeps the agent running for a repair turn.
Answer(a) ==
  /\ thread[a] = "answer"
  /\ thread' = [thread EXCEPT ![a] = "none"]
  /\ outcome' = [outcome EXCEPT ![a] = Passed]
  /\ IF outcome[a].block
     THEN /\ agent' = [agent EXCEPT ![a] = "running"]
          /\ blocked' = [blocked EXCEPT ![a] = @ \cup {turns[a]}]
     ELSE /\ agent' = [agent EXCEPT ![a] = "idle"]
          /\ UNCHANGED blocked
  /\ UNCHANGED <<turns, form, resumes, daemonVars, tables, workq, worker, receiptOf,
                 stops, latest, raised, failures, lost, dropped>>

(* _process_subagent_stop, on the worker thread: one job at a time. *)

WorkerLast ==                                                   \* mutant
  /\ worker.pc = "idle" /\ workq # <<>>
  /\ LET job == workq[Len(workq)]
         a   == job.agent IN
     /\ workq' = SubSeq(workq, 1, Len(workq) - 1)
     /\ worker' = [pc |-> "round", job |-> job, seen |-> turns[a]]
     /\ row' = [row EXCEPT ![a] = IF @ = "none" THEN "unattributed" ELSE @]
     /\ total' = [total EXCEPT ![a] = turns[a]]
  /\ UNCHANGED <<agent, turns, form, resumes, daemonVars, thread, outcome, attempts,
                 rounds, receiptOf, history>>

WorkerKnown ==                                                  \* mutant
  /\ worker.pc = "idle" /\ workq # <<>>
  /\ workq' = Tail(workq)
  /\ LET job == Head(workq)
         a   == job.agent IN
     IF row[a] = "none"
     THEN UNCHANGED <<worker, row, total>>
     ELSE /\ worker' = [pc |-> "round", job |-> job, seen |-> turns[a]]
          /\ total' = [total EXCEPT ![a] = turns[a]]
          /\ UNCHANGED row
  /\ UNCHANGED <<agent, turns, form, resumes, daemonVars, thread, outcome, attempts,
                 rounds, receiptOf, history>>

\* Take the oldest job, read the row, parse the transcript as it is now, and
\* upsert the row (a stop without a start row lands under _unattributed).
WorkerUpsert ==
  /\ worker.pc = "idle" /\ workq # <<>>
  /\ LET job == Head(workq)
         a   == job.agent IN
     /\ workq' = Tail(workq)
     /\ worker' = [pc |-> "round", job |-> job, seen |-> turns[a]]
     /\ row' = [row EXCEPT ![a] = IF @ = "none" THEN "unattributed" ELSE @]
     /\ total' = [total EXCEPT ![a] = turns[a]]
  /\ UNCHANGED <<agent, turns, form, resumes, daemonVars, thread, outcome, attempts,
                 rounds, receiptOf, history>>

\* append_ledger_round; only a row of a run goes on to the run's files.
WorkerRound ==
  /\ worker.pc = "round"
  /\ LET a == worker.job.agent IN
     /\ rounds' = [rounds EXCEPT ![a] = Append(@, worker.seen)]
     /\ worker' = IF row[a] = "run" THEN [pc |-> "files", job |-> worker.job] ELSE Idle
  /\ UNCHANGED <<agent, turns, form, resumes, daemonVars, thread, outcome, attempts,
                 row, total, workq, receiptOf, history>>

\* The job raises before its round is booked, over such a transcript or the
\* database: _drain_queue records it and goes on.
WorkerRaises ==
  /\ Fails
  /\ \/ worker.pc = "idle" /\ workq # <<>> /\ workq' = Tail(workq)
     \/ worker.pc = "round" /\ UNCHANGED workq
  /\ worker' = Idle
  /\ lost' = lost + 1 /\ dropped' = TRUE
  /\ UNCHANGED <<agent, turns, form, resumes, daemonVars, thread, outcome, tables,
                 receiptOf, stops, blocked, latest, raised>>

\* write_run_artifacts raises OSError, which ends the job ...
WorkerFail ==
  /\ Fails
  /\ worker.pc = "files"
  /\ worker' = Idle
  /\ dropped' = TRUE
  /\ UNCHANGED <<agent, turns, form, resumes, daemonVars, thread, outcome, tables, workq,
                 receiptOf, stops, blocked, latest, raised, lost>>

\* ... or it writes, and unless the stop was blocked its parsed receipt is saved; an
\* OSError there is swallowed and leaves the file as it was, or torn, which reads as
\* none.
WorkerReceipt ==
  /\ worker.pc = "files"
  /\ LET out == worker.job.out
         n   == NodeOf[worker.job.agent] IN
     IF ~out.block /\ out.receipt # NoReceipt
     THEN \/ receiptOf' = [receiptOf EXCEPT ![n] = out.receipt] /\ UNCHANGED <<failures, dropped>>
          \/ /\ Fails /\ dropped' = TRUE
             /\ receiptOf' \in {receiptOf, [receiptOf EXCEPT ![n] = NoReceipt]}
     ELSE UNCHANGED <<receiptOf, failures, dropped>>
  /\ worker' = Idle
  /\ UNCHANGED <<agent, turns, form, resumes, daemonVars, thread, outcome, tables, workq,
                 stops, blocked, latest, raised, lost>>

(* The daemon process. *)

\* /shutdown, a signal or a crash: the queue, the worker and the request threads
\* die with the process; a hook left waiting fails open and its agent stops.
Exit ==
  /\ up /\ exits < MaxExits
  /\ up' = FALSE /\ exits' = exits + 1
  /\ workq' = <<>>
  /\ worker' = Idle
  /\ thread' = [a \in Agents |-> "none"]
  /\ outcome' = [a \in Agents |-> Passed]
  /\ agent' = [a \in Agents |-> IF agent[a] = "stopping" THEN "idle" ELSE agent[a]]
  /\ UNCHANGED <<turns, form, resumes, tables, receiptOf, history>>

\* The next session boots it over the same database.
Boot ==
  /\ ~up
  /\ up' = TRUE
  /\ UNCHANGED <<agent, turns, form, resumes, exits, thread, outcome, tables, workq, worker,
                 receiptOf, history>>

HookThread(a) == Check(a) \/ CheckRaises(a) \/ Enqueue(a) \/ Answer(a)
Worker == WorkerUpsert \/ WorkerRaises \/ WorkerRound \/ WorkerFail \/ WorkerReceipt

Next ==
  \/ \E a \in Agents : SubagentStart(a) \/ EndTurn(a) \/ Resume(a) \/ HookThread(a)
  \/ Worker
  \/ Exit
  \/ Boot

Spec == Init /\ [][Next]_vars

\* Threads of a live process are scheduled, and an agent's turn comes to an end;
\* nothing obliges an agent to start or be resumed, or the daemon to exit or boot.
Fairness ==
  /\ \A a \in Agents : WF_vars(HookThread(a)) /\ WF_vars(EndTurn(a))
  /\ WF_vars(Worker)

FairSpec == Spec /\ Fairness

-----------------------------------------------------------------------------
TypeOK ==
  /\ agent \in [Agents -> {"absent", "running", "stopping", "idle"}]
  /\ turns \in [Agents -> Nat] /\ resumes \in [Agents -> Nat]
  /\ form \in [Agents -> Forms]
  /\ up \in BOOLEAN /\ exits \in Nat /\ dropped \in BOOLEAN
  /\ thread \in [Agents -> {"none", "check", "enqueue", "answer"}]
  /\ outcome \in [Agents -> Outcome]
  /\ attempts \in [Agents -> Nat] /\ total \in [Agents -> Nat]
  /\ row \in [Agents -> {"none", "unattributed", "run"}]
  /\ rounds \in [Agents -> Seq(Nat)]
  /\ workq \in Seq(Job)
  /\ worker \in {Idle} \cup [pc : {"round"}, job : Job, seen : Nat]
                \cup [pc : {"files"}, job : Job]
  /\ raised \subseteq Agents /\ failures \in Nat /\ lost \in Nat
  /\ receiptOf \in [Nodes -> Receipt \cup {NoReceipt}]
  /\ latest \in [Nodes -> Receipt \cup {NoReceipt}]
  /\ stops \in [Agents -> Seq(Nat)]
  /\ blocked \in [Agents -> SUBSET Nat]

\* A malformed receipt cannot hold a node for ever: whatever is resumed, crashed
\* or restarted, an agent is sent back at most RepairTurns times in its life; and
\* a stop is let through without a valid receipt only after that many, as long as
\* the agent is in its first round, the daemon never exited and the check of the
\* agent never raised (receipts.check over the persistent receipt_attempts).
RepairBounded ==
  \A a \in Agents :
    /\ Cardinality(blocked[a]) <= RepairTurns
    /\ /\ thread[a] = "answer" /\ ~outcome[a].block /\ form[a] # "valid"
       /\ resumes[a] = 0 /\ exits = 0 /\ a \notin raised
       => Cardinality(blocked[a]) = RepairTurns

\* Stops that the daemon holds and has not yet written to ledger_rounds.
Pending(a) ==
  Cardinality({i \in 1..Len(workq) : workq[i].agent = a})
  + (IF worker.pc = "round" /\ worker.job.agent = a THEN 1 ELSE 0)
  + (IF thread[a] \in {"check", "enqueue"} THEN 1 ELSE 0)

Held(a) == SubSeq(stops[a], Len(stops[a]) - Pending(a) + 1, Len(stops[a]))

\* The hook threads, the queue, the worker and a daemon that may exit implement the
\* accounting that Accounting states (enqueue, _drain_queue, append_ledger_round): no
\* stop is accounted twice, or missed while the daemon lives and its own job does not
\* raise; each round's total covers the turns up to its stop, also when the agent was
\* resumed before its transcript was parsed, so the growth per round of the report is
\* never negative; a job that raises loses the oldest stop of its agent only, and an
\* exit only what is on its way.
Books == INSTANCE Accounting WITH booked <- rounds, held <- [a \in Agents |-> Held(a)]
StopsAccounted == Books!Spec

Quiet == workq = <<>> /\ worker = Idle /\ \A a \in Agents : thread[a] = "none"

\* A receipt that was sent back for repair is never the one kept for its node,
\* whatever crashed, raised or failed; and once the daemon is quiet, and it never
\* exited nor lost a receipt with a failing job or write, the file of a node holds
\* the receipt of the last passed stop that had one, also when several agents of the
\* node stop together.
LatestReceiptKept ==
  /\ \A n \in Nodes : receiptOf[n] # NoReceipt =>
       receiptOf[n].turn \notin blocked[receiptOf[n].agent]
  /\ Quiet /\ exits = 0 /\ ~dropped => receiptOf = latest

\* Every round ends: an agent that runs comes to rest, whatever receipts it
\* writes and whenever the daemon exits; and the daemon always catches up with the
\* stops it accepted, whatever fails in a job.
RoundEnds ==
  /\ \A a \in Agents : agent[a] = "running" ~> agent[a] = "idle"
  /\ []<>(\A a \in Agents : Pending(a) = 0)
=============================================================================
