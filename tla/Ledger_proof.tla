---------------------------- MODULE Ledger_proof ----------------------------
(***************************************************************************)
(* What is kept of the agents and sessions, for any number of them.  Of a  *)
(* run: the repair bound, the receipt of a node and the accounting of      *)
(* stops, for any resumes, repair turns and daemon exits (Ledger).  Across *)
(* runs: the ledger file and the baseline, for any kills, failures and     *)
(* overlapping hooks (Baseline).  The two share no variable, and each has  *)
(* an inductive invariant of its own.                                      *)
(***************************************************************************)
EXTENDS Ledger, Baseline, Folding, FiniteSetTheorems, SequenceTheorems, TLAPS

-----------------------------------------------------------------------------
(* The inductive invariant. *)

\* A hook thread serves a stop of its agent, and holds what check decided of it, or
\* nothing when it raised.
Threads ==
  /\ exits = 0 => up
  /\ \A a \in Agents :
       /\ thread[a] # "none" <=> agent[a] = "stopping"
       /\ thread[a] \notin {"enqueue", "answer"} => outcome[a] = Passed
       /\ thread[a] \in {"enqueue", "answer"} =>
            outcome[a] = Decide(a, attempts[a]) \/ (a \in raised /\ outcome[a] = Passed)

\* Bumped for a stop that was not answered yet.
Bumped(a) == IF thread[a] \in {"enqueue", "answer"} THEN 1 ELSE 0

\* Every answered block took an attempt, and so does one about to be answered; in its
\* first round an agent whose checks never raised has no attempt answered otherwise.
Blocks ==
  \A a \in Agents :
    /\ blocked[a] \subseteq 1..turns[a]
    /\ thread[a] # "none" => turns[a] # 0 /\ turns[a] \notin blocked[a]
    /\ Cardinality(blocked[a]) <= RepairTurns
    /\ Cardinality(blocked[a]) <= attempts[a]
    /\ outcome[a].block => Cardinality(blocked[a]) + 1 <= attempts[a]
    /\ resumes[a] = 0 /\ exits = 0 /\ a \notin raised /\ agent[a] # "idle" =>
         Cardinality(blocked[a]) + Bumped(a) = attempts[a]

\* The job has a receipt to keep.
Keeps(j) == ~j.out.block /\ j.out.receipt # NoReceipt

\* The turn of the receipt was not answered with a block, nor will it be.
Let(r) ==
  /\ r.turn \in 1..turns[r.agent] /\ r.turn \notin blocked[r.agent]
  /\ r.turn = turns[r.agent] /\ thread[r.agent] # "none" =>
       thread[r.agent] = "answer" /\ ~outcome[r.agent].block

Sound(j) ==
  /\ agent[j.agent] # "absent"
  /\ Keeps(j) => Let(j.out.receipt)

SoundJobs  == {j \in Job : Sound(j)}
LetThrough == {r \in Receipt : Let(r)}

Receipts ==
  /\ workq \in Seq(SoundJobs)
  /\ worker.pc # "idle" => worker.job \in SoundJobs
  /\ worker.pc = "files" => row[worker.job.agent] = "run"
  /\ \A n \in Nodes : receiptOf[n] \in LetThrough \cup {NoReceipt}

\* The jobs that will replace the receipt of node n.
Replacing(n) == {j \in Job : row[j.agent] = "run" /\ Keeps(j) /\ NodeOf[j.agent] = n}

\* The last job that replaces the receipt of n has the latest.
Due(n) ==
  \/ \E i \in 1..Len(workq) :
       /\ workq[i] \in Replacing(n) /\ workq[i].out.receipt = latest[n]
       /\ \A k \in i+1..Len(workq) : workq[k] \notin Replacing(n)
  \/ /\ \A k \in 1..Len(workq) : workq[k] \notin Replacing(n)
     /\ IF worker.pc # "idle" /\ worker.job \in Replacing(n)
        THEN worker.job.out.receipt = latest[n]
        ELSE receiptOf[n] = latest[n]

Converges == exits = 0 /\ ~dropped => \A n \in Nodes : Due(n)

\* The place in stops[a] of the oldest stop that is held.
Oldest(a) == Len(stops[a]) - Pending(a) + 1

\* What is held was accepted and lies within the transcript; the total that the
\* worker is about to book is that of the row and covers the oldest of them.
Covered ==
  /\ \A a \in Agents :
       /\ Pending(a) <= Len(stops[a])
       /\ \A i \in 1..Len(stops[a]) : stops[a][i] <= turns[a]
  /\ worker.pc = "round" =>
       /\ worker.seen = total[worker.job.agent]
       /\ stops[worker.job.agent][Oldest(worker.job.agent)] <= total[worker.job.agent]

IInv == TypeOK /\ Threads /\ Blocks /\ Receipts /\ Converges /\ Covered

-----------------------------------------------------------------------------
(* Types. *)

\* What check decides is an outcome, with the receipt of the agent's last turn.
LEMMA DecideType ==
  ASSUME TypeOK, NEW a \in Agents, NEW n \in Nat
  PROVE  /\ Decide(a, n) \in Outcome /\ Passed \in Outcome
         /\ Decide(a, n).receipt # NoReceipt =>
              Decide(a, n).receipt.agent = a /\ Decide(a, n).receipt.turn = turns[a]
<1>1. Parsed(a) \in Receipt \cup {NoReceipt}
  BY DEF TypeOK, Parsed, Receipt
<1>2. Parsed(a) # NoReceipt => Parsed(a).agent = a /\ Parsed(a).turn = turns[a]
  BY DEF Parsed
<1>3. Decide(a, n).block \in BOOLEAN
  BY DEF Decide
<1> QED
  BY <1>1, <1>2, <1>3 DEF Decide, Outcome, Passed

\* It sends back what is not valid, within the limit.
LEMMA DecideBlock ==
  ASSUME NEW a \in Agents, NEW n \in Nat
  PROVE  Decide(a, n).block <=> form[a] # "valid" /\ n <= RepairTurns
BY DEF Decide

\* What the worker holds, by the place it is at.
LEMMA WorkerType ==
  ASSUME TypeOK
  PROVE  /\ worker.pc \in {"idle", "round", "files"}
         /\ worker.pc = "idle" <=> worker = Idle
         /\ worker.pc # "idle" => worker.job \in Job
         /\ worker.pc = "round" => worker.seen \in Nat
BY DEF TypeOK, Idle

\* The daemon's tables, the queue and the worker keep their types.
LEMMA TypeInductive ==
  ASSUME TypeOK, [Next]_vars
  PROVE  TypeOK'
<1>t. TypeOK
  OBVIOUS
<1> USE DEF daemonVars, tables, history
<1>1. ASSUME NEW a \in Agents, SubagentStart(a) PROVE TypeOK'
  BY <1>t, <1>1 DEF SubagentStart, TypeOK
<1>2. ASSUME NEW a \in Agents, EndTurn(a) PROVE TypeOK'
  <2>1. \A f \in FormsOf[a] : f \in Forms
    BY LedgerAssumption
  <2>2. Append(stops[a], turns[a] + 1) \in Seq(Nat)
    BY <1>t, AppendProperties DEF TypeOK
  <2>3. form' \in [Agents -> Forms] /\ turns' \in [Agents -> Nat]
    BY <1>t, <1>2, <2>1 DEF EndTurn, TypeOK
  <2>4. /\ agent' \in [Agents -> {"absent", "running", "stopping", "idle"}]
        /\ thread' \in [Agents -> {"none", "check", "enqueue", "answer"}]
    BY <1>t, <1>2 DEF EndTurn, TypeOK
  <2>5. stops' \in [Agents -> Seq(Nat)]
    <3>1. stops \in [Agents -> Seq(Nat)]
      BY <1>t DEF TypeOK
    <3>2. \/ stops' = [stops EXCEPT ![a] = Append(stops[a], turns[a] + 1)]
          \/ stops' = stops
      BY <1>2 DEF EndTurn
    <3> QED
      BY <2>2, <3>1, <3>2
  <2> QED
    BY <1>t, <1>2, <2>3, <2>4, <2>5 DEF EndTurn, Fails, TypeOK
<1>3. ASSUME NEW a \in Agents, Resume(a) PROVE TypeOK'
  BY <1>t, <1>3 DEF Resume, TypeOK
<1>4. ASSUME NEW a \in Agents, Check(a) PROVE TypeOK'
  <2>1. Decide(a, attempts[a] + 1) \in Outcome
    BY <1>t, DecideType DEF TypeOK
  <2> QED
    BY <1>t, <1>4, <2>1 DEF Check, TypeOK
<1>5. ASSUME NEW a \in Agents, Enqueue(a) PROVE TypeOK'
  <2>1. [agent |-> a, out |-> outcome[a]] \in Job
    BY <1>t DEF Job, TypeOK
  <2>2. Append(workq, [agent |-> a, out |-> outcome[a]]) \in Seq(Job)
    BY <1>t, <2>1, AppendProperties DEF TypeOK
  <2>3. outcome[a].receipt \in Receipt \cup {NoReceipt}
    BY <1>t DEF Outcome, TypeOK
  <2> QED
    BY <1>t, <1>5, <2>2, <2>3, LedgerAssumption DEF Enqueue, TypeOK
<1>6. ASSUME NEW a \in Agents, Answer(a) PROVE TypeOK'
  <2>1. Passed \in Outcome
    BY <1>t, LedgerAssumption, DecideType DEF TypeOK
  <2>2. /\ outcome \in [Agents -> Outcome] /\ blocked \in [Agents -> SUBSET Nat]
        /\ turns[a] \in Nat /\ agent \in [Agents -> {"absent", "running", "stopping", "idle"}]
    BY <1>t DEF TypeOK
  <2>3. blocked[a] \cup {turns[a]} \in SUBSET Nat
    BY <2>2
  <2>4. blocked' \in [Agents -> SUBSET Nat]
    BY <1>6, <2>2, <2>3 DEF Answer
  <2>5. /\ outcome' \in [Agents -> Outcome]
        /\ agent' \in [Agents -> {"absent", "running", "stopping", "idle"}]
    BY <1>6, <2>1, <2>2 DEF Answer
  <2> QED
    BY <1>t, <1>6, <2>4, <2>5 DEF Answer, TypeOK
<1>7. CASE WorkerUpsert
  <2>1. Head(workq) \in Job /\ Tail(workq) \in Seq(Job)
    BY <1>t, <1>7, HeadTailProperties DEF WorkerUpsert, TypeOK
  <2>2. Head(workq).agent \in Agents
    BY <2>1 DEF Job
  <2> QED
    BY <1>t, <1>7, <2>1, <2>2 DEF WorkerUpsert, TypeOK
<1>8. CASE WorkerRound
  <2>1. worker.job \in Job /\ worker.seen \in Nat
    BY <1>t, <1>8, WorkerType DEF WorkerRound
  <2>2. worker.job.agent \in Agents
    BY <2>1 DEF Job
  <2>3. Append(rounds[worker.job.agent], worker.seen) \in Seq(Nat)
    BY <1>t, <2>1, <2>2, AppendProperties DEF TypeOK
  <2> QED
    BY <1>t, <1>8, <2>1, <2>2, <2>3 DEF WorkerRound, TypeOK
<1>9. ASSUME NEW a \in Agents, CheckRaises(a) PROVE TypeOK'
  BY <1>t, <1>9 DEF CheckRaises, Fails, TypeOK
<1>10. CASE WorkerRaises
  <2>1. workq # <<>> => Tail(workq) \in Seq(Job)
    BY <1>t, HeadTailProperties DEF TypeOK
  <2>2. workq' \in Seq(Job)
    BY <1>t, <1>10, <2>1 DEF WorkerRaises, TypeOK
  <2> QED
    BY <1>t, <1>10, <2>2 DEF WorkerRaises, Fails, TypeOK
<1>11. CASE WorkerFail
  BY <1>t, <1>11 DEF WorkerFail, Fails, TypeOK
<1>12. CASE WorkerReceipt
  <2>1. worker.job \in Job
    BY <1>t, <1>12, WorkerType DEF WorkerReceipt
  <2>2. worker.job.out.receipt \in Receipt \cup {NoReceipt} /\ NodeOf[worker.job.agent] \in Nodes
    BY <2>1, LedgerAssumption DEF Job, Outcome
  <2>3. receiptOf' \in [Nodes -> Receipt \cup {NoReceipt}]
    <3>1. receiptOf \in [Nodes -> Receipt \cup {NoReceipt}]
      BY <1>t DEF TypeOK
    <3>2. \/ receiptOf' = receiptOf
          \/ \E r \in {worker.job.out.receipt, NoReceipt} :
               receiptOf' = [receiptOf EXCEPT ![NodeOf[worker.job.agent]] = r]
      BY <1>12 DEF WorkerReceipt
    <3> QED
      BY <2>2, <3>1, <3>2
  <2>4. failures' \in Nat /\ dropped' \in BOOLEAN
    <3>1. \/ UNCHANGED <<failures, dropped>>
          \/ failures' = failures + 1 /\ dropped' = TRUE
      <4>1. \/ UNCHANGED <<failures, dropped>>
            \/ Fails /\ dropped' = TRUE
        BY <1>12 DEF WorkerReceipt
      <4> QED
        BY <4>1 DEF Fails
    <3>2. failures \in Nat /\ dropped \in BOOLEAN
      BY <1>t DEF TypeOK
    <3>3. failures' \in Nat
      BY <3>1, <3>2
    <3>4. dropped' \in BOOLEAN
      BY <3>1, <3>2, Zenon
    <3> QED
      BY <3>3, <3>4
  <2> QED
    BY <1>t, <1>12, <2>3, <2>4 DEF WorkerReceipt, TypeOK
<1>13. CASE Exit
  <2>1. Passed \in Outcome /\ <<>> \in Seq(Job)
    BY LedgerAssumption, EmptySeq DEF Passed, Outcome
  <2>2. outcome' \in [Agents -> Outcome]
    BY <1>13, <2>1 DEF Exit
  <2>3. agent' \in [Agents -> {"absent", "running", "stopping", "idle"}]
    BY <1>t, <1>13 DEF Exit, TypeOK
  <2>4. up' = FALSE
    BY <1>13 DEF Exit
  <2>8. exits' \in Nat
    BY <1>t, <1>13 DEF Exit, TypeOK
  <2>5. thread' \in [Agents -> {"none", "check", "enqueue", "answer"}]
    BY <1>13 DEF Exit
  <2>6. workq' \in Seq(Job) /\ worker' = Idle
    BY <1>13, <2>1 DEF Exit
  <2>7. UNCHANGED <<turns, form, resumes, attempts, row, total, rounds, receiptOf,
                    stops, blocked, latest, raised, failures, lost, dropped>>
    BY <1>13 DEF Exit
  <2> QED
    BY <1>t, <2>2, <2>3, <2>4, <2>5, <2>6, <2>7, <2>8 DEF TypeOK
<1>14. CASE Boot
  BY <1>t, <1>14 DEF Boot, TypeOK
<1>15. CASE UNCHANGED vars
  BY <1>t, <1>15 DEF vars, TypeOK
<1> QED
  BY <1>1, <1>2, <1>3, <1>4, <1>5, <1>6, <1>7, <1>8, <1>9, <1>10, <1>11, <1>12, <1>13,
     <1>14, <1>15 DEF Next, HookThread, Worker

-----------------------------------------------------------------------------
(* The hook threads. *)

\* A thread comes with a stop and goes with its answer, and what check decided
\* stands until then.
LEMMA ThreadsInductive ==
  ASSUME TypeOK, Threads, [Next]_vars
  PROVE  Threads'
<1>t. /\ TypeOK /\ Threads
      /\ \A a \in Agents : attempts[a] \in Nat /\ outcome[a] \in Outcome
  BY DEF TypeOK
<1> USE DEF daemonVars, tables, history
<1>0. exits' = 0 => up'
  <2>1. CASE Exit
    <3>1. exits' = exits + 1 /\ exits \in Nat
      BY <1>t, <2>1 DEF Exit, TypeOK
    <3> QED
      BY <3>1
  <2>2. CASE Boot
    BY <2>2 DEF Boot
  <2>3. CASE ~Exit /\ ~Boot
    <3>1. UNCHANGED <<exits, up>>
      BY <2>3 DEF Next, HookThread, Worker, SubagentStart, EndTurn, Resume, Check, CheckRaises, Enqueue,
         Answer, WorkerUpsert, WorkerRound, WorkerRaises, WorkerFail, WorkerReceipt, vars
    <3> QED
      BY <1>t, <3>1 DEF Threads
  <2> QED
    BY <2>1, <2>2, <2>3
<1> DEFINE T(a) == /\ thread[a] # "none" <=> agent[a] = "stopping"
                   /\ thread[a] \notin {"enqueue", "answer"} => outcome[a] = Passed
                   /\ thread[a] \in {"enqueue", "answer"} =>
                        outcome[a] = Decide(a, attempts[a]) \/ (a \in raised /\ outcome[a] = Passed)
<1>1. ASSUME NEW a \in Agents, SubagentStart(a), NEW b \in Agents PROVE T(b)'
  BY <1>t, <1>1 DEF SubagentStart, Threads, TypeOK, Decide, Parsed, Passed
<1>2. ASSUME NEW a \in Agents, EndTurn(a), NEW b \in Agents PROVE T(b)'
  BY <1>t, <1>2, SMTT(30) DEF EndTurn, Threads, TypeOK, Decide, Parsed, Passed
<1>3. ASSUME NEW a \in Agents, Resume(a), NEW b \in Agents PROVE T(b)'
  BY <1>t, <1>3 DEF Resume, Threads, TypeOK, Decide, Parsed, Passed
<1>4. ASSUME NEW a \in Agents, Check(a), NEW b \in Agents PROVE T(b)'
  BY <1>t, <1>4 DEF Check, Threads, TypeOK, Decide, Parsed, Passed
<1>4a. ASSUME NEW a \in Agents, CheckRaises(a), NEW b \in Agents PROVE T(b)'
  <2>1. /\ thread[a] = "check" /\ thread' = [thread EXCEPT ![a] = "enqueue"]
        /\ raised' = raised \cup {a} /\ UNCHANGED <<outcome, agent, attempts, form, turns>>
    BY <1>4a DEF CheckRaises
  <2> QED
    BY <1>t, <2>1 DEF Threads, TypeOK, Decide, Parsed
<1>5. ASSUME NEW a \in Agents, Enqueue(a), NEW b \in Agents PROVE T(b)'
  BY <1>t, <1>5 DEF Enqueue, Threads, TypeOK, Decide, Parsed, Passed
<1>6. ASSUME NEW a \in Agents, Answer(a), NEW b \in Agents PROVE T(b)'
  <2>1. /\ thread' = [thread EXCEPT ![a] = "none"] /\ outcome' = [outcome EXCEPT ![a] = Passed]
        /\ agent' \in {[agent EXCEPT ![a] = "running"], [agent EXCEPT ![a] = "idle"]}
        /\ UNCHANGED <<attempts, form, turns, raised>>
    BY <1>6 DEF Answer
  <2> QED
    BY <1>t, <2>1 DEF Threads, TypeOK, Decide, Parsed, Passed
<1>7. ASSUME Worker \/ Boot \/ UNCHANGED vars, NEW b \in Agents PROVE T(b)'
  <2>1. UNCHANGED <<thread, agent, outcome, attempts, form, turns, raised>>
    BY <1>7 DEF Worker, WorkerUpsert, WorkerRound, WorkerRaises, WorkerFail,
       WorkerReceipt, Boot, vars
  <2> QED
    BY <1>t, <2>1 DEF Threads, Decide, Parsed, Passed
<1>8. ASSUME Exit, NEW b \in Agents PROVE T(b)'
  <2>1. thread'[b] = "none" /\ outcome'[b] = Passed
    BY <1>8 DEF Exit
  <2>2. agent'[b] # "stopping"
    BY <1>t, <1>8 DEF Exit, TypeOK
  <2> QED
    BY <2>1, <2>2 DEF Passed
<1>9. \A b \in Agents : T(b)'
  BY <1>1, <1>2, <1>3, <1>4, <1>4a, <1>5, <1>6, <1>7, <1>8 DEF Next, HookThread
<1> QED
  BY <1>0, <1>9 DEF Threads

-----------------------------------------------------------------------------
(* Repair turns. *)

\* A set of turns taken is finite.
LEMMA BlockedFinite ==
  ASSUME NEW n \in Nat, NEW B, B \subseteq 1..n
  PROVE  IsFiniteSet(B) /\ Cardinality(B) \in Nat
<1>1. IsFiniteSet(1..n)
  BY FS_Interval
<1> QED
  BY <1>1, FS_Subset, FS_CardinalityType

\* A block is answered only to an attempt within the limit, and to one attempt of
\* each turn; in the first round every attempt ends in a block until they are used up.
LEMMA BlocksInductive ==
  ASSUME TypeOK, Threads, Blocks, [Next]_vars
  PROVE  Blocks'
<1> DEFINE B(a) == /\ blocked[a] \subseteq 1..turns[a]
                   /\ thread[a] # "none" => turns[a] # 0 /\ turns[a] \notin blocked[a]
                   /\ Cardinality(blocked[a]) <= RepairTurns
                   /\ Cardinality(blocked[a]) <= attempts[a]
                   /\ outcome[a].block => Cardinality(blocked[a]) + 1 <= attempts[a]
                   /\ resumes[a] = 0 /\ exits = 0 /\ a \notin raised /\ agent[a] # "idle" =>
                        Cardinality(blocked[a]) + Bumped(a) = attempts[a]
<1>t. /\ TypeOK /\ Threads
      /\ \A a \in Agents : B(a)
  BY DEF Blocks
<1>c. \A a \in Agents : IsFiniteSet(blocked[a]) /\ Cardinality(blocked[a]) \in Nat
  BY <1>t, BlockedFinite DEF TypeOK
<1> USE DEF daemonVars, tables, history
<1>1. ASSUME NEW a \in Agents, SubagentStart(a), NEW b \in Agents PROVE B(b)'
  BY <1>t, <1>1 DEF SubagentStart, TypeOK, Bumped
<1>2. ASSUME NEW a \in Agents, EndTurn(a), NEW b \in Agents PROVE B(b)'
  <2>1. /\ turns'[b] = (IF b = a THEN turns[b] + 1 ELSE turns[b]) /\ turns[b] \in Nat
        /\ UNCHANGED <<blocked, attempts, resumes, exits, raised, outcome>>
    BY <1>t, <1>2 DEF EndTurn, TypeOK
  <2>2. \/ thread'[b] = thread[b] /\ agent'[b] \in {agent[b], "idle"}
        \/ b = a /\ thread[b] = "none" /\ thread'[b] = "check" /\ agent[b] # "idle"
    BY <1>t, <1>2 DEF EndTurn, TypeOK, Threads
  <2>3. turns'[b] \notin blocked[b] \/ turns'[b] = turns[b]
    BY <1>t, <2>1
  <2>4. b = a => thread[b] = "none"
    BY <1>t, <1>2 DEF EndTurn, Threads
  <2>5. blocked'[b] \subseteq 1..turns'[b]
    BY <1>t, <2>1
  <2> QED
    BY <1>t, <1>c, <2>1, <2>2, <2>3, <2>4, <2>5 DEF Bumped
<1>3. ASSUME NEW a \in Agents, Resume(a), NEW b \in Agents PROVE B(b)'
  BY <1>t, <1>3 DEF Resume, TypeOK, Bumped
<1>4. ASSUME NEW a \in Agents, Check(a), NEW b \in Agents PROVE B(b)'
  <2>1. /\ attempts'[b] = IF b = a THEN attempts[b] + 1 ELSE attempts[b]
        /\ attempts[b] \in Nat /\ thread[a] = "check"
        /\ thread'[b] = IF b = a THEN "enqueue" ELSE thread[b]
        /\ b # a => outcome'[b] = outcome[b]
        /\ UNCHANGED <<turns, blocked, resumes, exits, agent, raised>>
    BY <1>t, <1>4 DEF Check, TypeOK
  <2> QED
    BY <1>t, <1>c, <2>1 DEF Bumped
<1>4a. ASSUME NEW a \in Agents, CheckRaises(a), NEW b \in Agents PROVE B(b)'
  <2>1. /\ thread[a] = "check" /\ thread' = [thread EXCEPT ![a] = "enqueue"]
        /\ raised' = raised \cup {a}
        /\ UNCHANGED <<outcome, turns, blocked, resumes, exits, agent, attempts>>
    BY <1>4a DEF CheckRaises
  <2> QED
    BY <1>t, <1>c, <2>1 DEF Bumped, TypeOK
<1>5. ASSUME NEW a \in Agents, Enqueue(a), NEW b \in Agents PROVE B(b)'
  BY <1>t, <1>5 DEF Enqueue, TypeOK, Bumped
<1>6. ASSUME NEW a \in Agents, Answer(a), NEW b \in Agents PROVE B(b)'
  <2>1. /\ thread[a] = "answer" /\ (outcome[a].block => outcome[a] = Decide(a, attempts[a]))
        /\ UNCHANGED <<turns, attempts, resumes, exits, raised>>
    BY <1>t, <1>6 DEF Answer, Threads, Passed
  <2>o. /\ outcome'[b] = (IF b = a THEN Passed ELSE outcome[b])
        /\ ~Passed.block
    BY <1>t, <1>6 DEF Answer, TypeOK, Passed
  <2>2. thread'[b] = IF b = a THEN "none" ELSE thread[b]
    BY <1>t, <1>6 DEF Answer, TypeOK
  <2>3. CASE b = a /\ outcome[a].block
    <3>1. /\ blocked'[a] = blocked[a] \cup {turns[a]}
          /\ agent'[a] = "running" /\ agent[a] = "stopping"
      <4>1. agent[a] = "stopping"
        BY <1>t, <2>1 DEF Threads
      <4>2. /\ blocked' = [blocked EXCEPT ![a] = @ \cup {turns[a]}]
            /\ agent' = [agent EXCEPT ![a] = "running"]
        BY <1>6, <2>3 DEF Answer
      <4> QED
        BY <1>t, <4>1, <4>2 DEF TypeOK
    <3>2. Cardinality(blocked'[a]) = Cardinality(blocked[a]) + 1
      BY <1>t, <1>c, <2>1, <3>1, FS_AddElement
    <3>3. attempts[a] <= RepairTurns
      <4>1. attempts[a] \in Nat
        BY <1>t DEF TypeOK
      <4> QED
        BY <2>1, <2>3, <4>1, DecideBlock
    <3>4. blocked'[a] \subseteq 1..turns[a]
      <4>1. turns[a] \in Nat /\ turns[a] # 0
        BY <1>t, <2>1 DEF TypeOK
      <4> QED
        BY <1>t, <3>1, <4>1
    <3> QED
      BY <1>t, <1>c, <2>1, <2>2, <2>3, <2>o, <3>1, <3>2, <3>3, <3>4, LedgerAssumption DEF Bumped, TypeOK
  <2>4. CASE b = a /\ ~outcome[a].block
    <3>1. blocked' = blocked /\ agent'[a] = "idle"
      BY <1>t, <1>6, <2>4 DEF Answer, TypeOK
    <3> QED
      BY <1>t, <1>c, <2>1, <2>2, <2>4, <2>o, <3>1 DEF Bumped, TypeOK
  <2>5. CASE b # a
    <3>1. blocked'[b] = blocked[b] /\ agent'[b] = agent[b]
      BY <1>t, <1>6, <2>5 DEF Answer, TypeOK
    <3> QED
      BY <1>t, <2>1, <2>2, <2>5, <2>o, <3>1 DEF Bumped
  <2> QED
    BY <2>3, <2>4, <2>5
<1>7. ASSUME Worker \/ Boot \/ UNCHANGED vars, NEW b \in Agents PROVE B(b)'
  <2>1. UNCHANGED <<thread, agent, blocked, attempts, turns, resumes, exits, raised, outcome>>
    BY <1>7 DEF Worker, WorkerUpsert, WorkerRound, WorkerRaises, WorkerFail,
       WorkerReceipt, Boot, vars
  <2> QED
    BY <1>t, <2>1 DEF Bumped
<1>8. ASSUME Exit, NEW b \in Agents PROVE B(b)'
  <2>1. /\ thread'[b] = "none" /\ exits' = exits + 1 /\ exits \in Nat
        /\ ~outcome'[b].block /\ UNCHANGED <<blocked, attempts, turns>>
    BY <1>t, <1>8 DEF Exit, TypeOK, Passed
  <2>2. exits' # 0
    BY <2>1
  <2> QED
    BY <1>t, <1>c, <2>1, <2>2 DEF Bumped, TypeOK
<1>9. \A b \in Agents : B(b)'
  BY <1>1, <1>2, <1>3, <1>4, <1>4a, <1>5, <1>6, <1>7, <1>8 DEF Next, HookThread
<1> QED
  BY <1>9 DEF Blocks

-----------------------------------------------------------------------------
(* The receipt kept for a node. *)

\* A step that leaves the transcripts, the answers and the threads alone lets
\* through what was let through.
LEMMA LetStays ==
  ASSUME NEW r, UNCHANGED <<turns, blocked, thread, outcome>>, Let(r)
  PROVE  Let(r)'
BY DEF Let

\* The steps of an agent and its threads let a receipt through that was let through:
\* another turn is beyond it, and only the turn that ended is answered.
LEMMA LetByAgent ==
  ASSUME TypeOK, Threads, NEW a \in Agents,
         EndTurn(a) \/ Check(a) \/ CheckRaises(a) \/ Enqueue(a) \/ Answer(a),
         NEW r \in Receipt, Let(r)
  PROVE  Let(r)'
<1>t. /\ TypeOK /\ Threads /\ Let(r) /\ r.agent \in Agents /\ r.turn \in Nat
      /\ turns[r.agent] \in Nat
  BY DEF Receipt, TypeOK
<1> USE DEF daemonVars, tables, history
<1>1. CASE EndTurn(a)
  <2>1. /\ UNCHANGED <<blocked, outcome>>
        /\ turns'[r.agent] = IF r.agent = a THEN turns[a] + 1 ELSE turns[r.agent]
        /\ r.agent # a => thread'[r.agent] = thread[r.agent]
    BY <1>t, <1>1 DEF EndTurn, TypeOK
  <2> QED
    BY <1>t, <2>1 DEF Let
<1>2. CASE Check(a) \/ CheckRaises(a)
  <2>1. /\ UNCHANGED <<blocked, turns>> /\ thread[a] = "check"
        /\ r.agent # a => thread'[r.agent] = thread[r.agent] /\ outcome'[r.agent] = outcome[r.agent]
    BY <1>t, <1>2 DEF Check, CheckRaises, TypeOK
  <2>2. r.agent = a => r.turn # turns[a]
    BY <1>t, <2>1 DEF Let
  <2> QED
    BY <1>t, <2>1, <2>2 DEF Let
<1>3. CASE Enqueue(a)
  <2>1. /\ UNCHANGED <<blocked, turns, outcome>> /\ thread[a] = "enqueue"
        /\ r.agent # a => thread'[r.agent] = thread[r.agent]
    BY <1>t, <1>3 DEF Enqueue, TypeOK
  <2>2. r.agent = a => r.turn # turns[a]
    BY <1>t, <2>1 DEF Let
  <2> QED
    BY <1>t, <2>1, <2>2 DEF Let
<1>4. CASE Answer(a)
  <2>1. UNCHANGED turns /\ thread[a] = "answer"
    BY <1>4 DEF Answer
  <2>2. thread'[r.agent] = IF r.agent = a THEN "none" ELSE thread[r.agent]
    BY <1>t, <1>4 DEF Answer, TypeOK
  <2>3. blocked'[r.agent] = IF r.agent = a /\ outcome[a].block THEN blocked[a] \cup {turns[a]}
                            ELSE blocked[r.agent]
    BY <1>t, <1>4 DEF Answer, TypeOK
  <2>4. r.agent # a => outcome'[r.agent] = outcome[r.agent]
    BY <1>t, <1>4 DEF Answer, TypeOK
  <2>5. r.agent = a /\ r.turn = turns[a] => ~outcome[a].block
    BY <1>t, <2>1 DEF Let
  <2> QED
    BY <1>t, <2>1, <2>2, <2>3, <2>4, <2>5 DEF Let
<1> QED
  BY <1>1, <1>2, <1>3, <1>4

\* What was let through stays so, whatever happens next.
LEMMA LetKept ==
  ASSUME TypeOK, Threads, [Next]_vars, NEW r \in Receipt, Let(r)
  PROVE  Let(r)'
<1> USE DEF daemonVars, tables, history
<1>1. CASE \E a \in Agents : EndTurn(a) \/ Check(a) \/ CheckRaises(a) \/ Enqueue(a) \/ Answer(a)
  BY <1>1, LetByAgent
<1>2. CASE Exit
  <2>1. UNCHANGED <<turns, blocked>> /\ thread'[r.agent] = "none"
    BY <1>2 DEF Exit, Receipt
  <2> QED
    BY <2>1 DEF Let
<1>3. CASE \/ Worker \/ Boot \/ UNCHANGED vars
           \/ \E a \in Agents : SubagentStart(a) \/ Resume(a)
  <2>1. UNCHANGED <<turns, blocked, thread, outcome>>
    BY <1>3 DEF Worker, WorkerUpsert, WorkerRound, WorkerRaises, WorkerFail,
       WorkerReceipt, Boot, vars, SubagentStart, Resume
  <2> QED
    BY <2>1, LetStays
<1> QED
  BY <1>1, <1>2, <1>3 DEF Next, HookThread

\* An agent that started stays known, in the run it was given.
LEMMA RowKept ==
  ASSUME TypeOK, [Next]_vars, NEW a \in Agents, agent[a] # "absent"
  PROVE  agent'[a] # "absent" /\ (row'[a] = "run" <=> row[a] = "run")
<1>t. TypeOK /\ agent[a] # "absent"
  OBVIOUS
<1> USE DEF daemonVars, tables, history
<1>1. ASSUME NEW b \in Agents, SubagentStart(b) PROVE agent'[a] # "absent" /\ row'[a] = row[a]
  BY <1>t, <1>1 DEF SubagentStart, TypeOK
<1>2. ASSUME NEW b \in Agents, EndTurn(b) PROVE agent'[a] # "absent" /\ row' = row
  BY <1>t, <1>2 DEF EndTurn, TypeOK
<1>3. ASSUME NEW b \in Agents, Resume(b) \/ Check(b) \/ CheckRaises(b) \/ Enqueue(b)
      PROVE agent'[a] # "absent" /\ row' = row
  BY <1>t, <1>3 DEF Resume, Check, CheckRaises, Enqueue, TypeOK
<1>4. ASSUME NEW b \in Agents, Answer(b) PROVE agent'[a] # "absent" /\ row' = row
  BY <1>t, <1>4 DEF Answer, TypeOK
<1>5. CASE WorkerUpsert
  <2>1. agent' = agent /\ row' = [row EXCEPT ![Head(workq).agent] = IF @ = "none" THEN "unattributed" ELSE @]
    BY <1>5 DEF WorkerUpsert
  <2> QED
    BY <1>t, <2>1 DEF TypeOK
<1>6. CASE WorkerRound \/ WorkerRaises \/ WorkerFail \/ WorkerReceipt \/ Boot \/ UNCHANGED vars
  <2>1. agent' = agent /\ row' = row
    BY <1>6 DEF WorkerRound, WorkerRaises, WorkerFail, WorkerReceipt, Boot, vars
  <2> QED
    BY <1>t, <2>1
<1>7. CASE Exit
  BY <1>t, <1>7 DEF Exit, TypeOK
<1> QED
  BY <1>1, <1>2, <1>3, <1>4, <1>5, <1>6, <1>7 DEF Next, HookThread, Worker

\* A sound job stays sound.
LEMMA SoundKept ==
  ASSUME TypeOK, Threads, [Next]_vars, NEW j \in Job, Sound(j)
  PROVE  Sound(j)'
<1>1. j.agent \in Agents /\ (Keeps(j) => j.out.receipt \in Receipt)
  BY DEF Job, Outcome, Keeps
<1>2. agent'[j.agent] # "absent"
  BY <1>1, RowKept DEF Sound
<1>3. ASSUME Keeps(j) PROVE Let(j.out.receipt)'
  BY <1>1, <1>3, LetKept DEF Sound
<1> QED
  BY <1>2, <1>3 DEF Sound, Keeps

\* The job of a stop is sound.
LEMMA SoundNew ==
  ASSUME TypeOK, Threads, Blocks, NEW a \in Agents, Enqueue(a),
         NEW j, j = [agent |-> a, out |-> outcome[a]]
  PROVE  j \in Job /\ Sound(j)'
<1>1. /\ thread[a] = "enqueue" /\ outcome[a] \in {Decide(a, attempts[a]), Passed} /\ agent[a] = "stopping"
      /\ attempts[a] \in Nat /\ outcome[a] \in Outcome
      /\ turns[a] \in Nat /\ turns[a] # 0 /\ turns[a] \notin blocked[a]
  BY DEF Enqueue, Threads, Blocks, TypeOK
<1>2. outcome[a].receipt # NoReceipt =>
        outcome[a].receipt.agent = a /\ outcome[a].receipt.turn = turns[a]
  BY <1>1, DecideType DEF Passed
<1>3. /\ UNCHANGED <<agent, turns, blocked, outcome>> /\ thread'[a] = "answer"
  BY DEF Enqueue, TypeOK, tables, history
<1>4. j \in Job /\ j.agent = a /\ j.out = outcome[a]
  BY <1>1 DEF Job
<1>5. ASSUME Keeps(j) PROVE Let(j.out.receipt)'
  BY <1>1, <1>2, <1>3, <1>4, <1>5 DEF Keeps, Let
<1> QED
  BY <1>1, <1>3, <1>4, <1>5 DEF Sound, Keeps

\* The sound jobs stay so, and replace what they replaced.
LEMMA SoundGrows ==
  ASSUME TypeOK, Threads, [Next]_vars
  PROVE  /\ SoundJobs \subseteq SoundJobs' /\ LetThrough \subseteq LetThrough'
         /\ \A n \in Nodes : \A j \in SoundJobs : j \in Replacing(n)' <=> j \in Replacing(n)
<1>1. ASSUME NEW j \in SoundJobs PROVE j \in SoundJobs'
  BY <1>1, SoundKept DEF SoundJobs
<1>2. ASSUME NEW r \in LetThrough PROVE r \in LetThrough'
  BY <1>2, LetKept DEF LetThrough
<1>3. ASSUME NEW n \in Nodes, NEW j \in SoundJobs
      PROVE  j \in Replacing(n)' <=> j \in Replacing(n)
  <2>1. j \in Job /\ j.agent \in Agents /\ agent[j.agent] # "absent"
    BY <1>3 DEF SoundJobs, Sound, Job
  <2>2. row'[j.agent] = "run" <=> row[j.agent] = "run"
    BY <2>1, RowKept
  <2> QED
    BY <2>1, <2>2 DEF Replacing, Keeps
<1> QED
  BY <1>1, <1>2, <1>3

\* The jobs stay sound as they go from a thread through the queue to the worker, and
\* what the worker saves was let through.
LEMMA ReceiptsInductive ==
  ASSUME TypeOK, Threads, Blocks, Receipts, [Next]_vars
  PROVE  Receipts'
<1>t. TypeOK /\ Threads /\ Blocks /\ Receipts
  OBVIOUS
<1>s. SoundJobs \subseteq SoundJobs' /\ LetThrough \subseteq LetThrough'
  BY SoundGrows
<1>r. ASSUME NEW j \in SoundJobs PROVE row'[j.agent] = "run" <=> row[j.agent] = "run"
  BY <1>r, RowKept DEF SoundJobs, Sound, Job
<1>q. workq \in Seq(SoundJobs')
  BY <1>t, <1>s, SeqMonotonic DEF Receipts
<1>w. worker.pc # "idle" => worker.job \in SoundJobs /\ worker.job \in SoundJobs'
  BY <1>t, <1>s DEF Receipts
<1> USE DEF daemonVars, tables, history
<1>1. workq' \in Seq(SoundJobs')
  <2>1. ASSUME NEW a \in Agents, Enqueue(a) PROVE workq' \in Seq(SoundJobs')
    <3>1. PICK j : j = [agent |-> a, out |-> outcome[a]]
      OBVIOUS
    <3>2. j \in SoundJobs'
      BY <1>t, <2>1, <3>1, SoundNew DEF SoundJobs
    <3>3. workq' = Append(workq, j)
      BY <2>1, <3>1 DEF Enqueue
    <3> QED
      BY <1>q, <3>2, <3>3, AppendProperties
  <2>2. CASE WorkerUpsert \/ WorkerRaises
    BY <1>q, <2>2, HeadTailProperties DEF WorkerUpsert, WorkerRaises
  <2>3. CASE Exit
    BY <2>3, EmptySeq DEF Exit
  <2>4. CASE ~WorkerUpsert /\ ~WorkerRaises /\ ~Exit /\ \A a \in Agents : ~Enqueue(a)
    <3>1. workq' = workq
      BY <2>4 DEF Next, HookThread, Worker, SubagentStart, EndTurn, Resume, Check, CheckRaises, Answer,
         WorkerRound, WorkerFail, WorkerReceipt, Boot, vars
    <3> QED
      BY <1>q, <3>1
  <2> QED
    BY <2>1, <2>2, <2>3, <2>4
<1>2. /\ worker'.pc # "idle" => worker'.job \in SoundJobs'
      /\ worker'.pc = "files" => row'[worker'.job.agent] = "run"
  <2>1. CASE WorkerUpsert
    <3>1. workq # <<>> /\ worker'.pc = "round" /\ worker'.job = Head(workq)
      BY <2>1 DEF WorkerUpsert
    <3> QED
      BY <1>q, <3>1, HeadTailProperties
  <2>2. CASE WorkerRound
    <3>1. /\ worker.pc # "idle" /\ row' = row
          /\ worker'.pc # "idle" => worker'.job = worker.job /\ row[worker.job.agent] = "run"
      BY <2>2 DEF WorkerRound, Idle
    <3> QED
      BY <1>w, <3>1
  <2>4. CASE WorkerRaises \/ WorkerFail \/ WorkerReceipt \/ Exit
    <3>1. worker'.pc = "idle"
      BY <2>4 DEF WorkerRaises, WorkerFail, WorkerReceipt, Exit, Idle
    <3> QED
      BY <3>1
  <2>5. CASE ~Worker /\ ~Exit
    <3>1. worker' = worker
      BY <2>5 DEF Next, HookThread, SubagentStart, EndTurn, Resume, Check, CheckRaises, Enqueue, Answer,
         Boot, vars
    <3> QED
      BY <1>t, <1>w, <1>r, <3>1 DEF Receipts
  <2> QED
    BY <2>1, <2>2, <2>4, <2>5 DEF Worker
<1>3. ASSUME NEW n \in Nodes PROVE receiptOf'[n] \in LetThrough' \cup {NoReceipt}
  <2>1. CASE WorkerReceipt
    <3>1. worker.job \in Job /\ worker.job \in SoundJobs' /\ worker.pc = "files"
      BY <1>t, <1>w, <2>1, WorkerType DEF WorkerReceipt
    <3>2. Keeps(worker.job) => worker.job.out.receipt \in LetThrough
      BY <1>w, <3>1 DEF SoundJobs, Sound, LetThrough, Keeps, Job, Outcome
    <3>3. \/ receiptOf' = receiptOf
          \/ Keeps(worker.job) /\ receiptOf'[n] \in {receiptOf[n], worker.job.out.receipt, NoReceipt}
      BY <1>t, <2>1 DEF WorkerReceipt, Keeps, TypeOK
    <3> QED
      BY <1>t, <1>s, <3>2, <3>3 DEF Receipts
  <2>2. CASE ~WorkerReceipt
    <3>1. receiptOf' = receiptOf
      BY <2>2 DEF Next, HookThread, Worker, SubagentStart, EndTurn, Resume, Check, CheckRaises, Enqueue, Answer,
         WorkerUpsert, WorkerRound, WorkerRaises, WorkerFail, Exit, Boot, vars
    <3> QED
      BY <1>t, <1>s, <3>1 DEF Receipts
  <2> QED
    BY <2>1, <2>2
<1> QED
  BY <1>1, <1>2, <1>3 DEF Receipts

\* A new job is the last: it replaces the receipt when it has the latest.
LEMMA DueByEnqueue ==
  ASSUME TypeOK, Threads, Receipts, [Next]_vars, NEW a \in Agents, Enqueue(a),
         NEW n \in Nodes, Due(n)
  PROVE  Due(n)'
<1>t. /\ TypeOK /\ Threads /\ Receipts /\ Due(n) /\ SoundJobs \subseteq Job
      /\ workq \in Seq(SoundJobs) /\ Len(workq) \in Nat
  BY LenProperties DEF Receipts, SoundJobs
<1>1. PICK j : j = [agent |-> a, out |-> outcome[a]]
  OBVIOUS
<1>2. j \in Job /\ j.agent = a /\ j.out = outcome[a]
  BY <1>1 DEF TypeOK, Job
<1>3. /\ workq' = Append(workq, j) /\ UNCHANGED <<row, worker, receiptOf>>
      /\ latest' = IF row[a] = "run" /\ Keeps(j)
                   THEN [latest EXCEPT ![NodeOf[a]] = j.out.receipt] ELSE latest
  BY <1>1, <1>2 DEF Enqueue, Keeps, tables
<1>4. /\ Len(workq') = Len(workq) + 1 /\ workq'[Len(workq) + 1] = j
      /\ \A i \in 1..Len(workq) : workq'[i] = workq[i] /\ workq[i] \in SoundJobs
  <2>1. workq \in Seq(Job)
    BY <1>t DEF TypeOK
  <2> QED
    BY <1>t, <1>2, <1>3, <2>1, AppendProperties, ElementOfSeq
<1>5. \A k \in SoundJobs : k \in Replacing(n)' <=> k \in Replacing(n)
  BY SoundGrows
<1>6. j \in Replacing(n)' <=> row[a] = "run" /\ Keeps(j) /\ NodeOf[a] = n
  BY <1>2, <1>3 DEF Replacing, Keeps
<1>7. CASE j \in Replacing(n)'
  <2>1. latest'[n] = j.out.receipt
    BY <1>t, <1>3, <1>6, <1>7 DEF TypeOK
  <2>2. \A k \in Len(workq) + 1 + 1..Len(workq') : workq'[k] \notin Replacing(n)'
    BY <1>t, <1>4
  <2> QED
    BY <1>t, <1>4, <1>7, <2>1, <2>2 DEF Due
<1>8. CASE j \notin Replacing(n)'
  <2>1. latest'[n] = latest[n]
    BY <1>t, <1>3, <1>6, <1>8 DEF TypeOK
  <2>2. CASE \E i \in 1..Len(workq) :
               /\ workq[i] \in Replacing(n) /\ workq[i].out.receipt = latest[n]
               /\ \A k \in i+1..Len(workq) : workq[k] \notin Replacing(n)
    <3>1. PICK i \in 1..Len(workq) :
            /\ workq[i] \in Replacing(n) /\ workq[i].out.receipt = latest[n]
            /\ \A k \in i+1..Len(workq) : workq[k] \notin Replacing(n)
      BY <2>2
    <3>2. i \in 1..Len(workq') /\ workq'[i] \in Replacing(n)' /\ workq'[i].out.receipt = latest'[n]
      BY <1>t, <1>4, <1>5, <2>1, <3>1
    <3>3. \A k \in i+1..Len(workq') : workq'[k] \notin Replacing(n)'
      <4>1. \A k \in i+1..Len(workq') : k = Len(workq) + 1 \/ k \in i+1..Len(workq)
        BY <1>t, <1>4
      <4> QED
        BY <1>t, <1>4, <1>5, <1>8, <3>1, <4>1
    <3> QED
      BY <3>2, <3>3 DEF Due
  <2>3. CASE /\ \A k \in 1..Len(workq) : workq[k] \notin Replacing(n)
             /\ IF worker.pc # "idle" /\ worker.job \in Replacing(n)
                THEN worker.job.out.receipt = latest[n]
                ELSE receiptOf[n] = latest[n]
    <3>1. \A k \in 1..Len(workq') : workq'[k] \notin Replacing(n)'
      <4>1. \A k \in 1..Len(workq') : k = Len(workq) + 1 \/ k \in 1..Len(workq)
        BY <1>t, <1>4
      <4> QED
        BY <1>t, <1>4, <1>5, <1>8, <2>3, <4>1
    <3>2. worker.pc # "idle" => (worker.job \in Replacing(n)' <=> worker.job \in Replacing(n))
      BY <1>t, <1>5 DEF Receipts
    <3> QED
      BY <1>3, <2>1, <2>3, <3>1, <3>2 DEF Due
  <2> QED
    BY <1>t, <2>2, <2>3 DEF Due
<1> QED
  BY <1>7, <1>8

\* The worker takes the head: the job it takes is now before those of the queue.
LEMMA DueByUpsert ==
  ASSUME TypeOK, Threads, Receipts, [Next]_vars, WorkerUpsert, NEW n \in Nodes, Due(n)
  PROVE  Due(n)'
<1>t. /\ TypeOK /\ Receipts /\ Due(n) /\ SoundJobs \subseteq Job
      /\ workq \in Seq(SoundJobs) /\ Len(workq) \in Nat /\ workq # <<>>
  BY LenProperties DEF Receipts, SoundJobs, WorkerUpsert
<1>1. /\ workq' = Tail(workq) /\ worker.pc = "idle"
      /\ worker'.pc = "round" /\ worker'.job = Head(workq) /\ UNCHANGED <<latest, receiptOf>>
  BY DEF WorkerUpsert, history
<1>2. /\ Len(workq') = Len(workq) - 1 /\ Len(workq) >= 1
      /\ \A i \in 1..Len(workq') : workq'[i] = workq[i+1]
      /\ Head(workq) = workq[1] /\ workq[1] \in SoundJobs
      /\ \A i \in 1..Len(workq) : workq[i] \in SoundJobs
  BY <1>t, <1>1, HeadTailProperties, EmptySeq, ElementOfSeq
<1>3. \A k \in SoundJobs : k \in Replacing(n)' <=> k \in Replacing(n)
  BY SoundGrows
<1>4. CASE \E i \in 1..Len(workq) :
             /\ workq[i] \in Replacing(n) /\ workq[i].out.receipt = latest[n]
             /\ \A k \in i+1..Len(workq) : workq[k] \notin Replacing(n)
  <2>1. PICK i \in 1..Len(workq) :
          /\ workq[i] \in Replacing(n) /\ workq[i].out.receipt = latest[n]
          /\ \A k \in i+1..Len(workq) : workq[k] \notin Replacing(n)
    BY <1>4
  <2>2. \A k \in i..Len(workq') : workq'[k] \notin Replacing(n)'
    <3>1. \A k \in i..Len(workq') : k+1 \in i+1..Len(workq) /\ k \in 1..Len(workq') /\ k+1 \in 1..Len(workq)
      BY <1>t, <1>2
    <3> QED
      BY <1>2, <1>3, <2>1, <3>1
  <2>3. CASE i = 1
    <3>1. worker'.job \in Replacing(n)' /\ worker'.job.out.receipt = latest'[n]
      BY <1>1, <1>2, <1>3, <2>1, <2>3
    <3> QED
      BY <1>1, <2>2, <2>3, <3>1 DEF Due
  <2>4. CASE i # 1
    <3>1. PICK m : m = i - 1
      OBVIOUS
    <3>2. m \in 1..Len(workq') /\ m + 1 = i
      BY <1>t, <1>2, <2>4, <3>1
    <3>3. workq'[m] \in Replacing(n)' /\ workq'[m].out.receipt = latest'[n]
      BY <1>1, <1>2, <1>3, <2>1, <3>2
    <3> QED
      BY <2>2, <3>2, <3>3 DEF Due
  <2> QED
    BY <2>3, <2>4
<1>5. CASE /\ \A k \in 1..Len(workq) : workq[k] \notin Replacing(n)
           /\ receiptOf[n] = latest[n]
  <2>1. \A k \in 1..Len(workq') : workq'[k] \notin Replacing(n)'
    <3>1. \A k \in 1..Len(workq') : k+1 \in 1..Len(workq)
      BY <1>t, <1>2
    <3> QED
      BY <1>2, <1>3, <1>5, <3>1
  <2>2. worker'.job \notin Replacing(n)'
    BY <1>1, <1>2, <1>3, <1>5
  <2> QED
    BY <1>1, <1>5, <2>1, <2>2 DEF Due
<1> QED
  BY <1>t, <1>1, <1>4, <1>5 DEF Due

\* A step that leaves the queue and the latest receipts alone, and takes its job
\* from the worker only when it was saved or replaces nothing.
LEMMA DueByWorker ==
  ASSUME TypeOK, Threads, Receipts, [Next]_vars, NEW n \in Nodes, Due(n),
         UNCHANGED <<workq, latest>>,
         \/ UNCHANGED <<worker, receiptOf>>
         \/ WorkerRound
         \/ WorkerReceipt /\ ~dropped'
  PROVE  Due(n)'
<1>t. TypeOK /\ Receipts /\ Due(n) /\ UNCHANGED <<workq, latest>>
  OBVIOUS
<1>1. \A k \in SoundJobs : k \in Replacing(n)' <=> k \in Replacing(n)
  BY SoundGrows
<1>2. \A i \in 1..Len(workq) : workq[i] \in SoundJobs
  BY <1>t, ElementOfSeq DEF Receipts
<1>3. worker.pc # "idle" => (worker.job \in Replacing(n)' <=> worker.job \in Replacing(n))
  BY <1>t, <1>1 DEF Receipts
<1>4. Len(workq) \in Nat
  BY <1>t, LenProperties DEF TypeOK
<1> DEFINE W == IF worker.pc # "idle" /\ worker.job \in Replacing(n)
                THEN worker.job.out.receipt = latest[n]
                ELSE receiptOf[n] = latest[n]
<1>5. ASSUME W PROVE W'
  <2>1. CASE UNCHANGED <<worker, receiptOf>>
    BY <1>t, <1>3, <1>5, <2>1
  <2>2. CASE WorkerRound
    <3>1. /\ worker.pc # "idle" /\ receiptOf' = receiptOf
          /\ \/ worker'.pc # "idle" /\ worker'.job = worker.job
             \/ worker'.pc = "idle" /\ row[worker.job.agent] # "run"
      BY <2>2 DEF WorkerRound, Idle
    <3>2. row[worker.job.agent] # "run" => worker.job \notin Replacing(n)
      BY DEF Replacing
    <3> QED
      BY <1>t, <1>3, <1>5, <3>1, <3>2
  <2>4. CASE WorkerReceipt /\ ~dropped'
    <3>1. /\ worker.pc = "files" /\ worker'.pc = "idle" /\ worker.job \in Job
          /\ row[worker.job.agent] = "run"
      BY <1>t, <2>4, WorkerType DEF WorkerReceipt, Idle, Receipts
    <3>2. receiptOf'[n] = IF worker.job \in Replacing(n) THEN worker.job.out.receipt ELSE receiptOf[n]
      <4>1. receiptOf' = IF Keeps(worker.job)
                        THEN [receiptOf EXCEPT ![NodeOf[worker.job.agent]] = worker.job.out.receipt]
                        ELSE receiptOf
        BY <2>4 DEF WorkerReceipt, Keeps
      <4> QED
        BY <1>t, <3>1, <4>1 DEF Replacing, TypeOK
    <3> QED
      BY <1>t, <1>5, <3>1, <3>2
  <2> QED
    BY <2>1, <2>2, <2>4
<1>6. CASE \E i \in 1..Len(workq) :
             /\ workq[i] \in Replacing(n) /\ workq[i].out.receipt = latest[n]
             /\ \A k \in i+1..Len(workq) : workq[k] \notin Replacing(n)
  <2>1. PICK i \in 1..Len(workq) :
          /\ workq[i] \in Replacing(n) /\ workq[i].out.receipt = latest[n]
          /\ \A k \in i+1..Len(workq) : workq[k] \notin Replacing(n)
    BY <1>6
  <2>2. \A k \in i+1..Len(workq) : k \in 1..Len(workq)
    BY <1>4
  <2>3. workq[i] \in Replacing(n)' /\ \A k \in i+1..Len(workq) : workq[k] \notin Replacing(n)'
    BY <1>1, <1>2, <2>1, <2>2
  <2> QED
    BY <1>t, <2>1, <2>3 DEF Due
<1>7. CASE (\A k \in 1..Len(workq) : workq[k] \notin Replacing(n)) /\ W
  <2>1. \A k \in 1..Len(workq) : workq[k] \notin Replacing(n)'
    BY <1>1, <1>2, <1>7
  <2>2. W'
    BY <1>5, <1>7
  <2> QED
    BY <1>t, <2>1, <2>2 DEF Due
<1> QED
  BY <1>t, <1>6, <1>7 DEF Due

\* No step of a daemon that neither exited nor failed to write loses the latest.
LEMMA ConvergesInductive ==
  ASSUME TypeOK, Threads, Receipts, Converges, [Next]_vars
  PROVE  Converges'
<1> SUFFICES ASSUME exits' = 0, ~dropped', NEW n \in Nodes
             PROVE  Due(n)'
  BY DEF Converges
<1> USE DEF daemonVars, tables, history
<1>1. ~Exit
  <2>1. Exit => exits' = exits + 1 /\ exits \in Nat
    BY DEF Exit, TypeOK
  <2> QED
    BY <2>1
<1>2. ~WorkerFail /\ ~WorkerRaises
  BY DEF WorkerFail, WorkerRaises
<1>3. exits' = exits /\ dropped' = dropped
  BY <1>1, <1>2 DEF Next, HookThread, Worker, SubagentStart, EndTurn, Resume, Check, CheckRaises, Enqueue,
     Answer, WorkerUpsert, WorkerRound, WorkerReceipt, Boot, vars
<1>4. Due(n)
  BY <1>3 DEF Converges
<1>5. CASE \E a \in Agents : Enqueue(a)
  BY <1>4, <1>5, DueByEnqueue
<1>6. CASE WorkerUpsert
  BY <1>4, <1>6, DueByUpsert
<1>7. CASE WorkerRound \/ WorkerReceipt
  <2>1. UNCHANGED <<workq, latest>>
    BY <1>7 DEF WorkerRound, WorkerReceipt
  <2> QED
    BY <1>4, <1>7, <2>1, DueByWorker
<1>8. CASE ~Worker /\ \A a \in Agents : ~Enqueue(a)
  <2>1. UNCHANGED <<workq, latest, worker, receiptOf>>
    BY <1>1, <1>8 DEF Next, HookThread, SubagentStart, EndTurn, Resume, Check, CheckRaises, Answer, Boot, vars
  <2> QED
    BY <1>4, <2>1, DueByWorker
<1> QED
  BY <1>2, <1>5, <1>6, <1>7, <1>8 DEF Worker

-----------------------------------------------------------------------------
(* What is pending of an agent. *)

\* The places of its jobs in a queue.
Of(q, a) == {i \in 1..Len(q) : q[i].agent = a}

One(p) == IF p THEN 1 ELSE 0

\* They are finitely many.
LEMMA OfFinite ==
  ASSUME NEW q \in Seq(Job), NEW a
  PROVE  IsFiniteSet(Of(q, a)) /\ Cardinality(Of(q, a)) \in Nat
<1>1. Len(q) \in Nat /\ Of(q, a) \subseteq 1..Len(q)
  BY LenProperties DEF Of
<1>2. IsFiniteSet(1..Len(q))
  BY <1>1, FS_Interval
<1> QED
  BY <1>1, <1>2, FS_Subset, FS_CardinalityType

\* One more when a job of the agent is appended.
LEMMA OfAppend ==
  ASSUME NEW q \in Seq(Job), NEW j \in Job, NEW a
  PROVE  Cardinality(Of(Append(q, j), a)) = Cardinality(Of(q, a)) + One(j.agent = a)
<1> DEFINE n == Len(q)
           p == Append(q, j)
<1>1. /\ n \in Nat /\ Len(p) = n + 1 /\ p[n+1] = j
      /\ \A i \in 1..n : p[i] = q[i]
  BY LenProperties, AppendProperties
<1>2. Of(p, a) = IF j.agent = a THEN Of(q, a) \cup {n+1} ELSE Of(q, a)
  <2>1. \A i : i \in 1..Len(p) <=> i \in 1..n \/ i = n + 1
    BY <1>1
  <2> QED
    BY <1>1, <2>1 DEF Of
<1>3. n + 1 \notin Of(q, a)
  BY <1>1 DEF Of
<1> HIDE DEF n, p
<1>4. IsFiniteSet(Of(q, a)) /\ Cardinality(Of(q, a)) \in Nat
  BY OfFinite
<1>6. Cardinality(Of(q, a) \cup {n+1}) = Cardinality(Of(q, a)) + 1
  BY <1>3, <1>4, FS_AddElement
<1>5. Cardinality(Of(p, a)) = Cardinality(Of(q, a)) + One(j.agent = a)
  BY <1>2, <1>4, <1>6 DEF One
<1> QED
  BY <1>5 DEF p

\* One less when the head was one.
LEMMA OfTail ==
  ASSUME NEW q \in Seq(Job), q # <<>>, NEW a
  PROVE  Cardinality(Of(q, a)) = Cardinality(Of(Tail(q), a)) + One(Head(q).agent = a)
<1> DEFINE n == Len(q)
           t == Tail(q)
           R == Of(q, a) \ {1}
           f == [i \in Of(t, a) |-> i + 1]
<1>1. /\ n \in Nat /\ n >= 1 /\ t \in Seq(Job) /\ Len(t) = n - 1 /\ Head(q) = q[1]
      /\ \A i \in 1..n-1 : t[i] = q[i+1]
  BY LenProperties, EmptySeq, HeadTailProperties
<1>2. f \in Bijection(Of(t, a), R)
  <2>1. \A i \in Of(t, a) : i + 1 \in R /\ i \in Nat
    BY <1>1 DEF Of
  <2>2. f \in [Of(t, a) -> R]
    BY <2>1
  <2>3. f \in Injection(Of(t, a), R)
    BY <2>1, <2>2 DEF Injection, IsInjective
  <2>4. ASSUME NEW k \in R PROVE \E i \in Of(t, a) : f[i] = k
    <3>1. PICK i : i = k - 1
      OBVIOUS
    <3>2. i \in Of(t, a) /\ i + 1 = k
      BY <1>1, <2>4, <3>1 DEF Of
    <3> QED
      BY <3>2
  <2>5. f \in Surjection(Of(t, a), R)
    BY <2>2, <2>4 DEF Surjection
  <2> QED
    BY <2>3, <2>5 DEF Bijection
<1>3. ExistsBijection(Of(t, a), R)
  BY <1>2 DEF ExistsBijection
<1>4. 1 \in Of(q, a) <=> Head(q).agent = a
  BY <1>1 DEF Of
<1>5. IsFiniteSet(Of(t, a)) /\ IsFiniteSet(Of(q, a)) /\ Cardinality(Of(q, a)) \in Nat
  BY <1>1, OfFinite
<1> HIDE DEF n, t, f
<1>6. Cardinality(R) = Cardinality(Of(t, a))
  BY <1>3, <1>5, FS_Bijection
<1> HIDE DEF R
<1>7. Cardinality(R) = IF Head(q).agent = a THEN Cardinality(Of(q, a)) - 1
                       ELSE Cardinality(Of(q, a))
  BY <1>4, <1>5, FS_RemoveElement DEF R
<1>8. Cardinality(Of(q, a)) = Cardinality(Of(t, a)) + One(Head(q).agent = a)
  BY <1>5, <1>6, <1>7 DEF One
<1> QED
  BY <1>8 DEF t

\* Pending counts the jobs queued, the one at its round and the stop being checked.
LEMMA PendingIs ==
  ASSUME TypeOK, NEW a \in Agents
  PROVE  /\ Pending(a) = Cardinality(Of(workq, a)) + One(worker.pc = "round" /\ worker.job.agent = a)
                         + One(thread[a] \in {"check", "enqueue"})
         /\ Cardinality(Of(workq, a)) \in Nat /\ Pending(a) \in Nat
<1>1. Cardinality(Of(workq, a)) \in Nat
  BY OfFinite DEF TypeOK
<1> QED
  BY <1>1 DEF Pending, Of, One

\* The worker is done with the oldest stop of a: it books its round, or raises over it.
Leaves(a) ==
  \/ WorkerRound /\ worker.job.agent = a
  \/ WorkerRaises /\ a = IF worker.pc = "round" THEN worker.job.agent ELSE Head(workq).agent

\* An accepted stop is pending more, one the worker is done with is pending less, an
\* exit leaves nothing pending, and in every other step a stop only moves on.
LEMMA PendingStep ==
  ASSUME TypeOK, Threads, [Next]_vars, NEW a \in Agents
  PROVE  /\ Exit => Pending(a)' = 0
         /\ ~Exit =>
              Pending(a)' = Pending(a) + One(stops'[a] # stops[a])
                            - One(Leaves(a))
         /\ stops'[a] # stops[a] =>
              up /\ EndTurn(a) /\ stops'[a] = Append(stops[a], turns[a] + 1)
         /\ Leaves(a) => Pending(a) >= 1
         /\ WorkerUpsert /\ Head(workq).agent = a => Pending(a) >= 1
<1> DEFINE Q == Cardinality(Of(workq, a))
           W == One(worker.pc = "round" /\ worker.job.agent = a)
           C == One(thread[a] \in {"check", "enqueue"})
<1>t. /\ TypeOK /\ Threads /\ stops[a] \in Seq(Nat) /\ turns[a] + 1 \in Nat
  BY DEF TypeOK
<1>p. Pending(a) = Q + W + C /\ Q \in Nat /\ W \in 0..1 /\ C \in 0..1
  BY PendingIs DEF One
<1>n. Pending(a)' = Q' + W' + C' /\ Q' \in Nat /\ W' \in 0..1 /\ C' \in 0..1
  <2>1. workq' \in Seq(Job)
    BY TypeInductive DEF TypeOK
  <2>2. Cardinality(Of(workq', a)) \in Nat
    BY <2>1, OfFinite
  <2>3. Q' \in Nat
    BY <2>2 DEF Of
  <2> QED
    BY <2>3 DEF Pending, Of, One
<1>a. Append(stops[a], turns[a] + 1) # stops[a]
  <2>1. Len(Append(stops[a], turns[a] + 1)) = Len(stops[a]) + 1 /\ Len(stops[a]) \in Nat
    BY <1>t, AppendProperties, LenProperties
  <2> QED
    BY <2>1
<1> USE DEF daemonVars, tables, history
<1>1. ASSUME NEW b \in Agents, EndTurn(b)
      PROVE  /\ Q' = Q /\ W' = W /\ C' = C + One(stops'[a] # stops[a])
             /\ stops'[a] # stops[a] => up /\ a = b /\ stops'[a] = Append(stops[a], turns[a] + 1)
  <2>1. Q' = Q /\ W' = W
    BY <1>1 DEF EndTurn, Of, One
  <2>2. CASE a = b /\ up /\ thread' = [thread EXCEPT ![b] = "check"]
             /\ stops' = [stops EXCEPT ![b] = Append(@, turns[b] + 1)]
    <3>1. /\ thread[a] = "none" /\ thread'[a] = "check"
          /\ stops'[a] = Append(stops[a], turns[a] + 1)
      BY <1>t, <1>1, <2>2 DEF EndTurn, Threads, TypeOK
    <3>2. C = 0 /\ C' = 1 /\ One(stops'[a] # stops[a]) = 1
      BY <1>a, <3>1 DEF One
    <3> HIDE DEF Q, W, C
    <3> QED
      BY <2>1, <2>2, <3>1, <3>2
  <2>3. CASE a # b \/ UNCHANGED <<stops, thread>>
    <3>1. thread'[a] = thread[a] /\ stops'[a] = stops[a]
      BY <1>t, <1>1, <2>3 DEF EndTurn, TypeOK
    <3> QED
      BY <1>p, <2>1, <3>1 DEF One
  <2>4. \/ UNCHANGED <<stops, thread>>
        \/ /\ up /\ thread' = [thread EXCEPT ![b] = "check"]
           /\ stops' = [stops EXCEPT ![b] = Append(@, turns[b] + 1)]
    BY <1>1 DEF EndTurn
  <2> QED
    BY <2>2, <2>3, <2>4
<1>2. ASSUME NEW b \in Agents, Enqueue(b) PROVE Q' + C' = Q + C /\ W' = W /\ stops' = stops
  <2>1. PICK j : j = [agent |-> b, out |-> outcome[b]]
    OBVIOUS
  <2>2. j \in Job /\ j.agent = b
    BY <1>t, <2>1 DEF TypeOK, Job
  <2>3. workq' = Append(workq, j) /\ workq \in Seq(Job) /\ UNCHANGED <<worker, stops>>
    BY <1>t, <1>2, <2>1 DEF Enqueue, TypeOK
  <2>4. Q' = Q + One(b = a)
    <3>1. Cardinality(Of(Append(workq, j), a)) = Cardinality(Of(workq, a)) + One(j.agent = a)
      BY <2>2, <2>3, OfAppend
    <3> QED
      BY <2>2, <2>3, <3>1 DEF Of
  <2>5. thread[b] = "enqueue" /\ thread' = [thread EXCEPT ![b] = "answer"]
    BY <1>2 DEF Enqueue
  <2>6. C = C' + One(b = a)
    BY <1>t, <2>5 DEF One, TypeOK
  <2>7. W' = W
    BY <2>3 DEF One
  <2> QED
    BY <1>p, <1>n, <2>3, <2>4, <2>6, <2>7 DEF One
<1>3. ASSUME NEW b \in Agents,
             SubagentStart(b) \/ Resume(b) \/ Check(b) \/ CheckRaises(b) \/ Answer(b)
      PROVE  Q' = Q /\ W' = W /\ C' = C /\ stops' = stops
  <2>1. Q' = Q /\ W' = W /\ stops' = stops
    BY <1>3 DEF SubagentStart, Resume, Check, CheckRaises, Answer, Of, One
  <2>2. thread'[a] \in {"check", "enqueue"} <=> thread[a] \in {"check", "enqueue"}
    BY <1>t, <1>3 DEF SubagentStart, Resume, Check, CheckRaises, Answer, TypeOK
  <2> QED
    BY <2>1, <2>2 DEF One
<1>4. ASSUME WorkerUpsert
      PROVE  /\ Q' + W' = Q + W /\ C' = C /\ stops' = stops
             /\ Head(workq).agent = a => Q >= 1
  <2>1. /\ workq \in Seq(Job) /\ workq # <<>> /\ workq' = Tail(workq) /\ UNCHANGED <<thread, stops>>
        /\ worker.pc = "idle" /\ worker'.pc = "round" /\ worker'.job = Head(workq)
    BY <1>t, <1>4 DEF WorkerUpsert, TypeOK
  <2>2. Cardinality(Of(workq, a)) = Cardinality(Of(Tail(workq), a)) + One(Head(workq).agent = a)
    BY <2>1, OfTail
  <2>3. Q = Q' + One(Head(workq).agent = a)
    BY <2>1, <2>2 DEF Of
  <2>4. W = 0 /\ W' = One(Head(workq).agent = a)
    BY <2>1 DEF One
  <2>5. C' = C
    BY <2>1 DEF One
  <2> QED
    BY <1>p, <1>n, <2>1, <2>3, <2>4, <2>5 DEF One
<1>5. ASSUME WorkerRound
      PROVE  Q' = Q /\ W' = 0 /\ W = One(worker.job.agent = a) /\ C' = C /\ stops' = stops
  <2>1. UNCHANGED <<workq, thread, stops>> /\ worker.pc = "round" /\ worker'.pc # "round"
    BY <1>5 DEF WorkerRound, Idle
  <2> QED
    BY <2>1 DEF One, Of
<1>d. ~(WorkerRound /\ WorkerRaises)
  BY <1>t DEF WorkerRound, WorkerRaises, TypeOK
<1>5a. ASSUME WorkerRaises
      PROVE  /\ Q + W = Q' + W' + One(Leaves(a)) /\ C' = C /\ stops' = stops
             /\ Leaves(a) => Q + W >= 1
  <2>1. /\ UNCHANGED <<thread, stops>> /\ worker'.pc # "round" /\ ~WorkerRound
        /\ \/ worker.pc = "idle" /\ workq # <<>> /\ workq' = Tail(workq)
           \/ worker.pc = "round" /\ workq' = workq
    BY <1>d, <1>5a DEF WorkerRaises, Idle
  <2>2. C' = C /\ W' = 0
    BY <2>1 DEF One
  <2>3. CASE worker.pc = "round" /\ workq' = workq
    <3>1. Q' = Q /\ W = One(Leaves(a))
      BY <1>5a, <2>1, <2>3 DEF Of, One, Leaves
    <3> QED
      BY <1>p, <1>n, <2>1, <2>2, <3>1 DEF One
  <2>4. CASE worker.pc = "idle" /\ workq # <<>> /\ workq' = Tail(workq)
    <3>1. Cardinality(Of(workq, a)) = Cardinality(Of(Tail(workq), a)) + One(Head(workq).agent = a)
      BY <1>t, <2>4, OfTail DEF TypeOK
    <3>2. Q = Q' + One(Head(workq).agent = a) /\ W = 0
      BY <2>4, <3>1 DEF Of, One
    <3>3. Leaves(a) <=> Head(workq).agent = a
      BY <1>5a, <2>1, <2>4 DEF Leaves
    <3> QED
      BY <1>p, <1>n, <2>1, <2>2, <3>2, <3>3 DEF One
  <2> QED
    BY <2>1, <2>3, <2>4
<1>6. ASSUME WorkerFail \/ WorkerReceipt
      PROVE  Q' = Q /\ W' = W /\ C' = C /\ stops' = stops
  <2>1. UNCHANGED <<workq, thread, stops>> /\ worker.pc # "round" /\ worker'.pc # "round"
    BY <1>6 DEF WorkerFail, WorkerReceipt, Idle
  <2> QED
    BY <2>1 DEF One, Of
<1>7. ASSUME Boot \/ UNCHANGED vars PROVE Q' = Q /\ W' = W /\ C' = C /\ stops' = stops
  BY <1>7 DEF Boot, vars, One, Of
<1>8. ASSUME Exit PROVE Q' = 0 /\ W' = 0 /\ C' = 0 /\ stops' = stops
  <2>1. workq' = <<>> /\ worker'.pc = "idle" /\ thread'[a] = "none" /\ stops' = stops
    BY <1>8 DEF Exit, Idle
  <2>2. Of(workq, a)' = {}
    BY <2>1 DEF Of
  <2> QED
    BY <2>1, <2>2, FS_EmptySet DEF One
<1>9. Leaves(a) => worker' # worker \/ workq' # workq
  <2>1. WorkerRaises => \/ worker.pc = "round" /\ worker'.pc = "idle"
                        \/ workq # <<>> /\ workq' = Tail(workq)
    BY DEF WorkerRaises, Idle
  <2>2. workq # <<>> => Tail(workq) # workq
    <3> SUFFICES ASSUME workq # <<>> PROVE Tail(workq) # workq
      OBVIOUS
    <3>1. PICK t : t = Tail(workq)
      OBVIOUS
    <3>2. Len(t) = Len(workq) - 1 /\ Len(workq) \in Nat
      BY <1>t, <3>1, HeadTailProperties, LenProperties DEF TypeOK
    <3>3. Len(t) # Len(workq)
      BY <3>2
    <3> QED
      BY <3>1, <3>3
  <2> QED
    BY <2>1, <2>2 DEF Leaves, WorkerRound, Idle
<1> DEFINE R == One(Leaves(a))
           Balance == Q' + W' + C' = Q + W + C + One(stops'[a] # stops[a]) - R
<1>10. ASSUME NEW b \in Agents, EndTurn(b) PROVE Balance
  <2>1. R = 0
    BY <1>9, <1>10 DEF EndTurn, One
  <2> QED
    BY <1>1, <1>10, <1>p, <1>n, <2>1 DEF One
<1>11. ASSUME NEW b \in Agents, Enqueue(b) PROVE Balance
  <2>1. R = 0
    BY <1>11 DEF Enqueue, Leaves, WorkerRound, WorkerRaises, Idle, One
  <2> QED
    <3>1. One(stops'[a] # stops[a]) = 0
      BY <1>2, <1>11 DEF One
    <3> QED
      BY <1>2, <1>11, <1>p, <1>n, <2>1, <3>1
<1>12. ASSUME NEW b \in Agents,
              SubagentStart(b) \/ Resume(b) \/ Check(b) \/ CheckRaises(b) \/ Answer(b)
       PROVE  Balance
  <2>1. R = 0
    BY <1>9, <1>12 DEF SubagentStart, Resume, Check, CheckRaises, Answer, One
  <2> QED
    <3>1. One(stops'[a] # stops[a]) = 0
      BY <1>3, <1>12 DEF One
    <3> QED
      BY <1>3, <1>12, <1>p, <1>n, <2>1, <3>1
<1>13. ASSUME WorkerUpsert PROVE Balance
  <2>1. R = 0
    BY <1>13 DEF WorkerUpsert, WorkerRound, WorkerRaises, Leaves, Idle, One
  <2>2. One(stops'[a] # stops[a]) = 0
    BY <1>4, <1>13 DEF One
  <2> QED
    BY <1>4, <1>13, <1>p, <1>n, <2>1, <2>2
<1>14. ASSUME WorkerRound PROVE Balance
  <2>1. R = W
    <3>1. ~WorkerRaises
      BY <1>d, <1>14
    <3> QED
      BY <1>5, <1>14, <3>1 DEF One, Leaves
  <2>2. One(stops'[a] # stops[a]) = 0
    BY <1>5, <1>14 DEF One
  <2> QED
    BY <1>5, <1>14, <1>p, <1>n, <2>1, <2>2
<1>14a. ASSUME WorkerRaises PROVE Balance
  <2>1. One(stops'[a] # stops[a]) = 0 /\ R \in 0..1
    BY <1>5a, <1>14a DEF One
  <2> HIDE DEF R
  <2> QED
    BY <1>5a, <1>14a, <1>p, <1>n, <2>1 DEF R
<1>15. ASSUME WorkerFail \/ WorkerReceipt PROVE Balance
  <2>1. R = 0
    BY <1>15 DEF WorkerFail, WorkerReceipt, WorkerRound, WorkerRaises, Leaves, One
  <2> QED
    <3>1. One(stops'[a] # stops[a]) = 0
      BY <1>6, <1>15 DEF One
    <3> QED
      BY <1>6, <1>15, <1>p, <1>n, <2>1, <3>1
<1>16. ASSUME Boot \/ UNCHANGED vars PROVE Balance
  <2>1. R = 0
    BY <1>9, <1>16 DEF Boot, vars, One
  <2> QED
    <3>1. One(stops'[a] # stops[a]) = 0
      BY <1>7, <1>16 DEF One
    <3> QED
      BY <1>7, <1>16, <1>p, <1>n, <2>1, <3>1
<1>17. ASSUME ~Exit PROVE Balance
  <2> HIDE DEF Balance
  <2> QED
    BY <1>10, <1>11, <1>12, <1>13, <1>14, <1>14a, <1>15, <1>16, <1>17 DEF Next, HookThread, Worker
<1>18. stops'[a] # stops[a] => up /\ EndTurn(a) /\ stops'[a] = Append(stops[a], turns[a] + 1)
  BY <1>1, <1>2, <1>3, <1>4, <1>5, <1>5a, <1>6, <1>7, <1>8 DEF Next, HookThread, Worker
<1>20. Leaves(a) => Pending(a) >= 1
  <2>1. CASE WorkerRound /\ worker.job.agent = a
    BY <1>5, <1>p, <2>1 DEF One
  <2>2. CASE WorkerRaises
    BY <1>5a, <1>p, <2>2
  <2> QED
    BY <2>1, <2>2 DEF Leaves
<1>21. WorkerUpsert /\ Head(workq).agent = a => Pending(a) >= 1
  BY <1>4, <1>p
<1>22. Exit => Pending(a)' = 0
  BY <1>8, <1>n
<1>23. ~Exit => Pending(a)' = Pending(a) + One(stops'[a] # stops[a])
                             - One(Leaves(a))
  BY <1>17, <1>p, <1>n
<1> QED
  BY <1>18, <1>20, <1>21, <1>22, <1>23

-----------------------------------------------------------------------------
(* The accounting of stops. *)

\* Stops are accepted in the order of the transcript, and what the worker counted
\* when it took a job covers the oldest stop that is held.
LEMMA CoveredInductive ==
  ASSUME TypeOK, Threads, Covered, [Next]_vars
  PROVE  Covered'
<1>t. TypeOK /\ TypeOK' /\ Threads /\ Covered /\ [Next]_vars
  BY TypeInductive
<1>e. ~Exit => exits' = exits
  BY <1>t DEF Next, HookThread, Worker, SubagentStart, EndTurn, Resume, Check, CheckRaises, Enqueue, Answer,
     WorkerUpsert, WorkerRound, WorkerRaises, WorkerFail, WorkerReceipt, Boot, vars,
     daemonVars
<1>1. ASSUME NEW a \in Agents
      PROVE  /\ turns'[a] >= turns[a] /\ turns[a] \in Nat /\ turns'[a] \in Nat
             /\ EndTurn(a) => turns'[a] = turns[a] + 1
  <2>1. EndTurn(a) => turns' = [turns EXCEPT ![a] = @ + 1]
    BY DEF EndTurn
  <2>2. turns' = turns \/ \E b \in Agents : turns' = [turns EXCEPT ![b] = @ + 1]
    BY <1>t DEF Next, HookThread, Worker, SubagentStart, EndTurn, Resume, Check, CheckRaises, Enqueue, Answer,
       WorkerUpsert, WorkerRound, WorkerRaises, WorkerFail, WorkerReceipt, Exit, Boot, vars
  <2>3. turns \in [Agents -> Nat]
    BY <1>t DEF TypeOK
  <2>4. turns'[a] \in {turns[a], turns[a] + 1}
    BY <2>2, <2>3
  <2> QED
    BY <2>1, <2>3, <2>4
<1>2. ASSUME NEW a \in Agents
      PROVE  /\ Pending(a) \in Nat /\ Pending(a)' \in Nat
             /\ stops[a] \in Seq(Nat) /\ Len(stops[a]) \in Nat /\ stops'[a] \in Seq(Nat)
             /\ \/ stops'[a] = stops[a] /\ Pending(a)' <= Pending(a)
                \/ /\ EndTurn(a) /\ Len(stops'[a]) = Len(stops[a]) + 1
                   /\ stops'[a][Len(stops[a]) + 1] = turns[a] + 1
                   /\ Pending(a)' = Pending(a) + 1
             /\ ~Exit /\ ~Leaves(a) =>
                  Len(stops'[a]) - Pending(a)' = Len(stops[a]) - Pending(a)
             /\ \A i \in 1..Len(stops[a]) : stops'[a][i] = stops[a][i]
  <2>1. stops[a] \in Seq(Nat) /\ Len(stops[a]) \in Nat /\ stops'[a] \in Seq(Nat)
    BY <1>t, LenProperties DEF TypeOK
  <2>2. Pending(a) \in Nat
    BY <1>t, PendingIs
  <2>3. Pending(a)' \in Nat
    <3>1. Cardinality(Of(workq', a)) \in Nat
      BY <1>t, OfFinite DEF TypeOK
    <3> QED
      BY <3>1 DEF Pending, Of
  <2>4. CASE stops'[a] = stops[a]
    <3>1. CASE Exit
      BY <1>t, <2>1, <2>2, <2>3, <2>4, <3>1, PendingStep DEF One
    <3>2. CASE ~Exit
      BY <1>t, <2>1, <2>2, <2>3, <2>4, <3>2, PendingStep DEF One
    <3> QED
      BY <3>1, <3>2
  <2>5. CASE stops'[a] # stops[a]
    <3>1. EndTurn(a) /\ stops'[a] = Append(stops[a], turns[a] + 1)
      BY <1>t, <2>5, PendingStep
    <3>2. ~Exit /\ ~Leaves(a)
      <4>1. exits' = exits /\ worker' = worker /\ lost' = lost
        BY <3>1 DEF EndTurn, daemonVars
      <4> QED
        BY <1>t, <4>1 DEF Exit, Leaves, WorkerRound, WorkerRaises, TypeOK, Idle
    <3>3. Pending(a)' = Pending(a) + 1
      BY <1>t, <2>2, <2>5, <3>2, PendingStep DEF One
    <3>4. turns[a] + 1 \in Nat
      BY <1>1
    <3>5. /\ Len(stops'[a]) = Len(stops[a]) + 1 /\ stops'[a][Len(stops[a]) + 1] = turns[a] + 1
          /\ \A i \in 1..Len(stops[a]) : stops'[a][i] = stops[a][i]
      BY <2>1, <3>1, <3>4, AppendProperties
    <3>6. Len(stops'[a]) - Pending(a)' = Len(stops[a]) - Pending(a)
      <4>1. PICK l, m, x, y : /\ l = Len(stops'[a]) /\ m = Len(stops[a])
                              /\ x = Pending(a)' /\ y = Pending(a)
        OBVIOUS
      <4>2. l = m + 1 /\ x = y + 1 /\ m \in Nat /\ y \in Nat
        BY <2>1, <2>2, <3>3, <3>5, <4>1
      <4>3. l - x = m - y
        BY <4>2
      <4> QED
        BY <4>1, <4>3
    <3> QED
      BY <2>1, <2>2, <2>3, <3>1, <3>3, <3>5, <3>6
  <2> QED
    BY <2>4, <2>5
<1>3. ASSUME NEW a \in Agents
      PROVE  /\ Pending(a)' <= Len(stops'[a])
             /\ \A i \in 1..Len(stops'[a]) : stops'[a][i] <= turns'[a]
  <2>1. /\ Pending(a) <= Len(stops[a])
        /\ \A i \in 1..Len(stops[a]) : stops[a][i] <= turns[a] /\ stops[a][i] \in Nat
    <3>1. \A i \in 1..Len(stops[a]) : stops[a][i] \in Nat
      BY <1>2, ElementOfSeq
    <3> QED
      BY <1>t, <3>1 DEF Covered
  <2>2. Pending(a)' <= Len(stops'[a])
    BY <1>2, <2>1
  <2>3. ASSUME NEW i \in 1..Len(stops'[a]) PROVE stops'[a][i] <= turns'[a]
    <3>1. CASE i \in 1..Len(stops[a])
      <4>1. stops'[a][i] = stops[a][i]
        BY <1>2, <3>1
      <4> QED
        BY <1>1, <2>1, <3>1, <4>1
    <3>2. CASE i \notin 1..Len(stops[a])
      <4>1. /\ EndTurn(a) /\ Len(stops'[a]) = Len(stops[a]) + 1
            /\ stops'[a][Len(stops[a]) + 1] = turns[a] + 1
        BY <1>2, <3>2
      <4>2. i = Len(stops[a]) + 1
        BY <1>2, <3>2, <4>1
      <4> QED
        BY <1>1, <4>1, <4>2
    <3> QED
      BY <3>1, <3>2
  <2> QED
    BY <2>2, <2>3
<1>4. ASSUME worker'.pc = "round"
      PROVE  /\ worker'.seen = total'[worker'.job.agent]
             /\ stops'[worker'.job.agent][Oldest(worker.job.agent)'] <= total'[worker'.job.agent]
  <2>1. PICK a : a = worker'.job.agent
    OBVIOUS
  <2>2. a \in Agents
    BY <1>t, <1>4, <2>1 DEF TypeOK, Job, Idle
  <2>3. CASE WorkerUpsert
    <3>1. /\ a = Head(workq).agent /\ worker'.seen = turns[a] /\ total' = [total EXCEPT ![a] = turns[a]]
          /\ UNCHANGED <<stops, exits>>
      BY <2>1, <2>3 DEF WorkerUpsert, history, daemonVars
    <3>2. Pending(a)' = Pending(a) /\ Pending(a) >= 1
      <4>1. ~Exit /\ ~Leaves(a)
        BY <1>t, <2>3, <3>1 DEF Exit, Leaves, WorkerRound, WorkerRaises, WorkerUpsert, TypeOK, Idle
      <4> QED
        BY <1>t, <1>2, <2>2, <2>3, <3>1, <4>1, PendingStep DEF One
    <3>3. PICK k : k = Len(stops[a]) - Pending(a) + 1
      OBVIOUS
    <3>4. k \in 1..Len(stops[a]) /\ stops[a][k] <= turns[a]
      BY <1>t, <1>2, <2>2, <3>2, <3>3 DEF Covered
    <3>5. total'[a] = turns[a]
      BY <1>t, <2>2, <3>1 DEF TypeOK
    <3> QED
      BY <2>1, <3>1, <3>2, <3>3, <3>4, <3>5 DEF Oldest
  <2>4. CASE ~WorkerUpsert
    <3>1. worker' = worker /\ total' = total /\ ~Exit /\ ~Leaves(a)
      <4>1. ~Exit /\ ~WorkerRound /\ ~WorkerRaises /\ ~WorkerFail /\ ~WorkerReceipt
        BY <1>4 DEF WorkerRound, WorkerRaises, WorkerFail, WorkerReceipt, Exit, Idle
      <4> QED
        BY <1>t, <2>4, <4>1 DEF Leaves, Next, HookThread, Worker, SubagentStart, EndTurn, Resume, Check,
           CheckRaises, Enqueue, Answer, Boot, vars, tables
    <3>2. /\ Pending(a) >= 1 /\ worker.seen = total[a] /\ Pending(a) <= Len(stops[a])
          /\ stops[a][Len(stops[a]) - Pending(a) + 1] <= total[a]
      <4>1. worker.pc = "round" /\ worker.job.agent = a
        BY <1>4, <2>1, <3>1
      <4>2. One(worker.pc = "round" /\ worker.job.agent = a) = 1
        BY <4>1 DEF One
      <4>3. One(thread[a] \in {"check", "enqueue"}) \in {0, 1}
        BY DEF One
      <4>4. Pending(a) >= 1
        BY <1>t, <2>2, <4>2, <4>3, PendingIs
      <4> QED
        BY <1>t, <2>2, <4>1, <4>4 DEF Covered, Oldest
    <3>3. Len(stops'[a]) - Pending(a)' = Len(stops[a]) - Pending(a)
      BY <1>2, <2>2, <3>1
    <3>4. PICK k : k = Len(stops[a]) - Pending(a) + 1
      OBVIOUS
    <3>5. k \in 1..Len(stops[a]) /\ stops'[a][k] = stops[a][k]
      <4>1. k \in 1..Len(stops[a])
        BY <1>2, <2>2, <3>2, <3>4
      <4> QED
        BY <1>2, <2>2, <4>1
    <3>6. Oldest(a)' = k
      BY <3>3, <3>4 DEF Oldest
    <3>7. stops'[a][k] <= total[a] /\ worker.seen = total[a]
      BY <3>2, <3>4, <3>5
    <3>8. worker' = worker /\ total' = total
      BY <3>1
    <3> HIDE DEF Oldest
    <3>9. stops'[worker'.job.agent][Oldest(worker.job.agent)'] <= total'[worker'.job.agent]
      BY <2>1, <3>6, <3>7, <3>8
    <3> QED
      BY <2>1, <3>7, <3>8, <3>9
  <2> QED
    BY <2>3, <2>4
<1> QED
  BY <1>3, <1>4 DEF Covered

\* A suffix of a sequence that grows by e grows by e.
LEMMA SuffixAppend ==
  ASSUME NEW s \in Seq(Nat), NEW e \in Nat, NEW m \in 1..Len(s) + 1
  PROVE  SubSeq(Append(s, e), m, Len(s) + 1) = Append(SubSeq(s, m, Len(s)), e)
<1> DEFINE n == Len(s)
           t == Append(s, e)
           l == SubSeq(t, m, n + 1)
           h == SubSeq(s, m, n)
           r == Append(h, e)
<1>1. /\ n \in Nat /\ t \in Seq(Nat) /\ Len(t) = n + 1 /\ t[n + 1] = e
      /\ \A i \in 1..n : t[i] = s[i] /\ s[i] \in Nat
  BY LenProperties, AppendProperties, ElementOfSeq
<1> HIDE DEF n, t
<1>2. /\ l \in Seq(Nat) /\ Len(l) = n + 1 - m + 1
      /\ \A i \in 1..n + 1 - m + 1 : l[i] = t[m + i - 1]
  <2>1. \A i \in m..n + 1 : t[i] \in Nat
    <3>1. \A i \in m..n + 1 : i \in 1..Len(t)
      BY <1>1 DEF n
    <3> QED
      BY <1>1, <3>1, ElementOfSeq
  <2>2. m <= n + 1 /\ m \in Int /\ n + 1 \in Int
    BY <1>1 DEF n
  <2>3. /\ l \in Seq(Nat) /\ Len(l) = IF m <= n + 1 THEN n + 1 - m + 1 ELSE 0
        /\ \A i \in 1..n + 1 - m + 1 : l[i] = t[m + i - 1]
    BY <1>1, <2>1, <2>2, SubSeqProperties
  <2> QED
    BY <2>2, <2>3
<1>3. /\ h \in Seq(Nat) /\ Len(h) = n - m + 1
      /\ \A i \in 1..n - m + 1 : h[i] = s[m + i - 1]
  <2>1. \A i \in m..n : s[i] \in Nat
    <3>1. \A i \in m..n : i \in 1..n
      BY <1>1
    <3> QED
      BY <1>1, <3>1
  <2>2. m \in Int /\ n \in Int /\ m <= n + 1
    BY <1>1 DEF n
  <2>3. h \in Seq(Nat) /\ Len(h) = IF m <= n THEN n - m + 1 ELSE 0
    BY <2>1, <2>2, SubSeqProperties
  <2>4. Len(h) = n - m + 1
    BY <2>2, <2>3
  <2> QED
    BY <2>1, <2>2, <2>4, SubSeqProperties
<1> HIDE DEF l, h
<1>4. /\ r \in Seq(Nat) /\ Len(r) = Len(h) + 1 /\ r[Len(h) + 1] = e
      /\ \A i \in 1..Len(h) : r[i] = h[i]
  BY <1>3, AppendProperties
<1> HIDE DEF r
<1>5. m \in Nat /\ m >= 1 /\ m <= n + 1
  BY <1>1 DEF n
<1>6. ASSUME NEW i \in 1..Len(l) PROVE l[i] = r[i]
  <2>1. CASE i <= Len(h)
    <3>1. PICK k : k = m + i - 1
      OBVIOUS
    <3>2. k \in 1..n /\ i \in 1..Len(h) /\ i \in 1..n - m + 1 /\ i \in 1..n + 1 - m + 1
      BY <1>1, <1>2, <1>3, <1>5, <1>6, <2>1, <3>1
    <3> QED
      BY <1>1, <1>2, <1>3, <1>4, <3>1, <3>2
  <2>2. CASE ~(i <= Len(h))
    <3>1. i = Len(h) + 1 /\ i \in 1..n + 1 - m + 1 /\ m + i - 1 = n + 1
      BY <1>1, <1>2, <1>3, <1>5, <1>6, <2>2
    <3> QED
      BY <1>1, <1>2, <1>4, <3>1
  <2> QED
    BY <2>1, <2>2
<1>7. Len(l) = Len(r)
  BY <1>1, <1>2, <1>3, <1>4, <1>5
<1>8. l = r
  BY <1>2, <1>4, <1>6, <1>7, SeqEqual
<1> QED
  BY <1>8 DEF l, r, h, n, t

\* What is held of an agent is the end of its stops, from the oldest on.
LEMMA HeldIs ==
  ASSUME TypeOK, Covered, NEW a \in Agents
  PROVE  /\ Held(a) = SubSeq(stops[a], Oldest(a), Len(stops[a]))
         /\ Oldest(a) \in 1..Len(stops[a]) + 1 /\ stops[a] \in Seq(Nat) /\ Pending(a) \in Nat
         /\ Pending(a) >= 1 =>
              /\ Held(a) # <<>> /\ Head(Held(a)) = stops[a][Oldest(a)]
              /\ Tail(Held(a)) = SubSeq(stops[a], Oldest(a) + 1, Len(stops[a]))
<1> DEFINE m == Oldest(a)
           n == Len(stops[a])
<1>1. stops[a] \in Seq(Nat) /\ n \in Nat /\ Pending(a) \in Nat /\ Pending(a) <= n
  BY PendingIs, LenProperties DEF TypeOK, Covered
<1>2. m = n - Pending(a) + 1 /\ m \in 1..n + 1
  BY <1>1 DEF Oldest
<1>3. Held(a) = SubSeq(stops[a], m, n)
  BY DEF Held, Oldest
<1>4. ASSUME Pending(a) >= 1
      PROVE  Held(a) # <<>> /\ Head(Held(a)) = stops[a][m] /\ Tail(Held(a)) = SubSeq(stops[a], m + 1, n)
  <2>1. m \in 1..n /\ n \in m..n
    BY <1>1, <1>2, <1>4
  <2>2. Head(Held(a)) = stops[a][m] /\ Tail(Held(a)) = SubSeq(stops[a], m + 1, n)
    BY <1>1, <1>3, <2>1, HeadTailOfSubSeq
  <2>3. \A i \in m..n : stops[a][i] \in Nat
    <3>1. \A i \in m..n : i \in 1..Len(stops[a])
      BY <2>1
    <3> QED
      BY <1>1, <3>1, ElementOfSeq
  <2>4. Len(Held(a)) = n - m + 1
    BY <1>3, <2>1, <2>3, SubSeqProperties
  <2>5. Held(a) # <<>>
    BY <1>1, <2>1, <2>4, EmptySeq
  <2> QED
    BY <2>2, <2>5
<1> QED
  BY <1>1, <1>2, <1>3, <1>4

\* What each step does to what is held: an accepted stop joins it, one the worker is
\* done with leaves it, an exit loses it, and no other step changes it.
LEMMA HeldStep ==
  ASSUME TypeOK, Threads, Covered, [Next]_vars, NEW a \in Agents
  PROVE  /\ Exit => Held(a)' = <<>>
         /\ stops'[a] # stops[a] => Held(a)' = Append(Held(a), turns[a] + 1)
         /\ Leaves(a) => Held(a)' = Tail(Held(a))
         /\ ~Exit /\ stops'[a] = stops[a] /\ ~Leaves(a) => Held(a)' = Held(a)
<1>t. TypeOK /\ Threads /\ Covered /\ turns[a] + 1 \in Nat /\ stops[a] \in Seq(Nat) /\ exits \in Nat
  BY DEF TypeOK
<1>1. Held(a)' = SubSeq(stops'[a], Oldest(a)', Len(stops'[a]))
  BY DEF Held, Oldest
<1>2. /\ Held(a) = SubSeq(stops[a], Oldest(a), Len(stops[a]))
      /\ Oldest(a) \in 1..Len(stops[a]) + 1 /\ Pending(a) \in Nat /\ Len(stops[a]) \in Nat
      /\ Oldest(a) = Len(stops[a]) - Pending(a) + 1
      /\ Oldest(a)' = Len(stops'[a]) - Pending(a)' + 1
      /\ Pending(a) >= 1 => Tail(Held(a)) = SubSeq(stops[a], Oldest(a) + 1, Len(stops[a]))
  BY <1>t, HeldIs, LenProperties DEF Oldest
<1>3. ASSUME Exit PROVE Held(a)' = <<>>
  <2>1. Pending(a)' = 0 /\ stops' = stops
    BY <1>t, <1>3, PendingStep DEF Exit, history
  <2>2. Oldest(a)' = Len(stops[a]) + 1
    BY <1>2, <2>1
  <2> QED
    BY <1>1, <1>2, <2>1, <2>2, SubSeqEmpty
<1>4. ASSUME stops'[a] # stops[a] PROVE Held(a)' = Append(Held(a), turns[a] + 1)
  <2>0. EndTurn(a) /\ stops'[a] = Append(stops[a], turns[a] + 1)
    BY <1>t, <1>4, PendingStep
  <2>1. ~Exit /\ ~Leaves(a)
    BY <1>t, <2>0 DEF Exit, Leaves, WorkerRound, WorkerRaises, EndTurn, Idle, daemonVars
  <2>2. Pending(a)' = Pending(a) + 1
    BY <1>t, <1>2, <1>4, <2>1, PendingStep DEF One
  <2>3. Len(stops'[a]) = Len(stops[a]) + 1
    BY <1>t, <2>0, AppendProperties
  <2>4. Oldest(a)' = Oldest(a)
    BY <1>2, <2>2, <2>3
  <2> QED
    BY <1>1, <1>2, <1>t, <2>0, <2>3, <2>4, SuffixAppend
<1>5. ASSUME Leaves(a) PROVE Held(a)' = Tail(Held(a))
  <2>1. ~Exit /\ stops' = stops
    BY <1>t, <1>5 DEF Exit, Leaves, WorkerRound, WorkerRaises, Idle, history, daemonVars
  <2>2. Pending(a) >= 1 /\ Pending(a)' = Pending(a) - 1
    BY <1>t, <1>2, <1>5, <2>1, PendingStep DEF One
  <2>3. Oldest(a)' = Oldest(a) + 1
    BY <1>2, <2>1, <2>2
  <2> QED
    BY <1>1, <1>2, <2>1, <2>2, <2>3
<1>6. ASSUME ~Exit, stops'[a] = stops[a], ~Leaves(a) PROVE Held(a)' = Held(a)
  <2>1. Pending(a)' = Pending(a)
    BY <1>t, <1>2, <1>6, PendingStep DEF One
  <2>2. Oldest(a)' = Oldest(a)
    BY <1>2, <1>6, <2>1
  <2> QED
    BY <1>1, <1>2, <1>6, <2>2
<1> QED
  BY <1>3, <1>4, <1>5, <1>6

\* Every step of the threads, the queue and the worker is one of the accounting, or
\* none.
LEMMA BooksStep ==
  ASSUME TypeOK, Threads, Covered, [Next]_vars
  PROVE  [Books!Next]_<<turns, [a \in Agents |-> Held(a)], total, rounds, lost, exits>>
<1> DEFINE H == [a \in Agents |-> Held(a)]
<1>t. TypeOK /\ Threads /\ Covered /\ exits \in Nat
  BY DEF TypeOK
<1> USE DEF daemonVars, tables, history
<1>1. CASE Exit
  <2>1. H' = [a \in Agents |-> <<>>]
    BY <1>t, <1>1, HeldStep
  <2>2. exits' = exits + 1 /\ UNCHANGED <<turns, total, rounds, lost>>
    BY <1>1 DEF Exit
  <2> QED
    BY <2>1, <2>2 DEF Books!Next, Books!Exit
<1>2. ASSUME NEW a \in Agents, EndTurn(a) PROVE Books!Take(a)
  <2>1. /\ UNCHANGED <<total, rounds, lost, exits, worker>> /\ turns' = [turns EXCEPT ![a] = @ + 1]
        /\ \A b \in Agents : b # a => stops'[b] = stops[b]
    <3>1. \/ stops' = stops \/ stops' = [stops EXCEPT ![a] = Append(@, turns[a] + 1)]
      BY <1>2 DEF EndTurn
    <3> QED
      BY <1>t, <1>2, <3>1 DEF EndTurn, TypeOK
  <2>2. ~Exit /\ \A b \in Agents : ~Leaves(b)
    BY <1>t, <2>1 DEF Exit, Leaves, WorkerRound, WorkerRaises, Idle, TypeOK
  <2>3. CASE stops'[a] # stops[a]
    <3>1. \A b \in Agents : Held(b)' = IF b = a THEN Append(Held(a), turns[a] + 1) ELSE Held(b)
      BY <1>t, <2>1, <2>2, <2>3, HeldStep
    <3>2. H' = [H EXCEPT ![a] = Append(@, turns[a] + 1)]
      BY <3>1
    <3> QED
      BY <2>1, <3>2 DEF Books!Take
  <2>4. CASE stops'[a] = stops[a]
    <3>1. H' = H
      BY <1>t, <2>1, <2>2, <2>4, HeldStep
    <3> QED
      BY <2>1, <3>1 DEF Books!Take
  <2> QED
    BY <2>3, <2>4
<1>3. CASE WorkerUpsert
  <2>1. PICK a : a = Head(workq).agent
    OBVIOUS
  <2>2. a \in Agents
    <3>1. workq \in Seq(Job) /\ workq # <<>>
      BY <1>t, <1>3 DEF WorkerUpsert, TypeOK
    <3>2. Head(workq) \in Job
      BY <3>1, HeadTailProperties
    <3> QED
      BY <2>1, <3>2 DEF Job
  <2>3. ~Exit /\ stops' = stops /\ \A b \in Agents : ~Leaves(b)
    BY <1>t, <1>3 DEF WorkerUpsert, Exit, Leaves, WorkerRound, WorkerRaises, Idle
  <2>4. H' = H
    BY <1>t, <2>3, HeldStep
  <2>5. Held(a) # <<>>
    BY <1>t, <1>3, <2>1, <2>2, HeldIs, PendingStep
  <2>6. UNCHANGED <<turns, rounds, lost, exits>> /\ total' = [total EXCEPT ![a] = turns[a]]
    BY <1>3, <2>1 DEF WorkerUpsert
  <2> QED
    BY <2>2, <2>4, <2>5, <2>6 DEF Books!Next, Books!Count
<1>4. CASE WorkerRound
  <2>1. PICK a : a = worker.job.agent
    OBVIOUS
  <2>2. a \in Agents /\ worker.seen = total[a] /\ stops[a][Oldest(a)] <= total[a]
    BY <1>t, <1>4, <2>1, WorkerType DEF WorkerRound, Covered, Job
  <2>3. /\ ~Exit /\ UNCHANGED <<turns, total, lost, exits, stops>>
        /\ \A b \in Agents : Leaves(b) <=> b = a
    <3>1. ~WorkerRaises
      BY <1>t, <1>4 DEF WorkerRound, WorkerRaises, TypeOK
    <3> QED
      BY <1>t, <1>4, <2>1, <3>1 DEF WorkerRound, Leaves, Exit, Idle
  <2>4. Held(a) # <<>> /\ Head(Held(a)) = stops[a][Oldest(a)]
    BY <1>t, <2>2, <2>3, HeldIs, PendingStep
  <2>5. \A b \in Agents : Held(b)' = IF b = a THEN Tail(Held(a)) ELSE Held(b)
    BY <1>t, <1>4, <2>1, <2>3, HeldStep
  <2>6. H' = [H EXCEPT ![a] = Tail(@)]
    BY <2>5
  <2>7. rounds' = [rounds EXCEPT ![a] = Append(@, total[a])]
    BY <1>4, <2>1, <2>2 DEF WorkerRound
  <2> QED
    BY <2>2, <2>3, <2>4, <2>6, <2>7 DEF Books!Next, Books!Book
<1>4a. CASE WorkerRaises
  <2>1. PICK a : a = IF worker.pc = "round" THEN worker.job.agent ELSE Head(workq).agent
    OBVIOUS
  <2>2. a \in Agents
    <3>1. CASE worker.pc = "round"
      BY <1>t, <2>1, <3>1, WorkerType DEF Job
    <3>2. CASE worker.pc # "round"
      <4>1. Head(workq) \in Job
        BY <1>t, <1>4a, <3>2, HeadTailProperties DEF WorkerRaises, TypeOK
      <4> QED
        BY <2>1, <3>2, <4>1 DEF Job
    <3> QED
      BY <3>1, <3>2
  <2>3. /\ ~Exit /\ UNCHANGED <<turns, total, rounds, exits, stops>> /\ lost' = lost + 1
        /\ \A b \in Agents : Leaves(b) <=> b = a
    BY <1>t, <1>4a, <2>1 DEF WorkerRound, WorkerRaises, Leaves, Exit, Idle
  <2>4. Held(a) # <<>>
    BY <1>t, <2>2, <2>3, HeldIs, PendingStep
  <2>5. \A b \in Agents : Held(b)' = IF b = a THEN Tail(Held(a)) ELSE Held(b)
    BY <1>t, <2>3, HeldStep
  <2>6. H' = [H EXCEPT ![a] = Tail(@)]
    BY <2>5
  <2> QED
    BY <2>2, <2>3, <2>4, <2>6 DEF Books!Next, Books!Lose
<1>5. CASE ~Exit /\ ~WorkerUpsert /\ ~WorkerRound /\ ~WorkerRaises /\ \A a \in Agents : ~EndTurn(a)
  <2>0. ASSUME NEW a \in Agents PROVE stops'[a] = stops[a] /\ ~Leaves(a)
    BY <1>t, <1>5, PendingStep DEF Leaves
  <2>1. H' = H
    BY <1>t, <1>5, <2>0, HeldStep
  <2>2. UNCHANGED <<turns, total, rounds, lost, exits>>
    BY <1>5 DEF Next, HookThread, Worker, SubagentStart, Resume, Check, CheckRaises, Enqueue, Answer,
       WorkerFail, WorkerReceipt, Boot, vars
  <2> QED
    BY <2>1, <2>2
<1> QED
  BY <1>1, <1>2, <1>3, <1>4, <1>4a, <1>5 DEF Books!Next

-----------------------------------------------------------------------------
(* The invariant, and what it implies. *)

\* It holds of a daemon that was just booted, before any agent.
LEMMA Initial == Init => IInv
<1> SUFFICES ASSUME Init PROVE IInv
  OBVIOUS
<1>1. TypeOK
  <2>1. Passed \in Outcome
    BY LedgerAssumption DEF Passed, Outcome
  <2>2. \A S : <<>> \in Seq(S)
    BY EmptySeq
  <2> QED
    BY <2>1, <2>2 DEF Init, TypeOK, Forms
<1>2. Threads
  BY DEF Init, Threads
<1>3. Blocks
  <2>1. ASSUME NEW a \in Agents
        PROVE  /\ blocked[a] = {} /\ attempts[a] = 0 /\ Bumped(a) = 0 /\ thread[a] = "none"
               /\ ~outcome[a].block
    BY DEF Init, Bumped, Passed
  <2> QED
    <3>1. Cardinality({}) = 0 /\ RepairTurns \in Nat
      BY FS_EmptySet, LedgerAssumption
    <3>2. ASSUME NEW a \in Agents
          PROVE  /\ blocked[a] \subseteq 1..turns[a] /\ Cardinality(blocked[a]) <= RepairTurns
                 /\ Cardinality(blocked[a]) <= attempts[a]
                 /\ Cardinality(blocked[a]) + Bumped(a) = attempts[a]
      <4>1. blocked[a] = {} /\ attempts[a] = 0 /\ Bumped(a) = 0
        BY <2>1
      <4>2. Cardinality(blocked[a]) = 0
        BY <3>1, <4>1
      <4>3. blocked[a] \subseteq 1..turns[a]
        BY <4>1
      <4> HIDE DEF Bumped
      <4> QED
        BY <3>1, <4>1, <4>2, <4>3
    <3>3. \A a \in Agents : (outcome[a].block => Cardinality(blocked[a]) + 1 <= attempts[a])
                           /\ (thread[a] # "none" => turns[a] # 0 /\ turns[a] \notin blocked[a])
      BY <2>1, Zenon
    <3> HIDE DEF Bumped
    <3> QED
      BY <3>2, <3>3, Zenon DEF Blocks
<1>4. Receipts
  <2>1. <<>> \in Seq(SoundJobs)
    BY EmptySeq
  <2> QED
    BY <2>1 DEF Init, Receipts, Idle
<1>5. Converges
  BY DEF Init, Converges, Due, Idle
<1>6. ASSUME NEW a \in Agents PROVE Pending(a) = 0
  <2>1. Of(workq, a) = {}
    BY DEF Init, Of
  <2>2. Cardinality(Of(workq, a)) = 0
    BY <2>1, FS_EmptySet
  <2>3. worker.pc # "round" /\ thread[a] = "none"
    BY DEF Init, Idle
  <2> QED
    BY <1>1, <2>2, <2>3, PendingIs DEF One
<1>7. Covered
  BY <1>6 DEF Covered, Init, Idle
<1> QED
  BY <1>1, <1>2, <1>3, <1>4, <1>5, <1>7 DEF IInv

\* Every step preserves it.
LEMMA Inductive == IInv /\ [Next]_vars => IInv'
BY TypeInductive, ThreadsInductive, BlocksInductive, ReceiptsInductive, ConvergesInductive,
   CoveredInductive DEF IInv

\* It holds in every state.
LEMMA Invariant == Spec => []IInv
BY Initial, Inductive, PTL DEF Spec

\* The variables keep their types, whatever the agents write, resume and crash.
THEOREM TypeCorrect == Spec => []TypeOK
<1>1. IInv => TypeOK
  BY DEF IInv
<1> QED
  BY <1>1, Invariant, PTL

\* No agent is sent back for repair more than RepairTurns times in its life; in its
\* first round, while the daemon lives and none of its checks raised, a stop without a
\* valid receipt is let through only after that many (receipts.check).
THEOREM RepairsAreBounded == Spec => []RepairBounded
<1>1. IInv => RepairBounded
  <2> SUFFICES ASSUME IInv, NEW a \in Agents
               PROVE  /\ Cardinality(blocked[a]) <= RepairTurns
                      /\ /\ thread[a] = "answer" /\ ~outcome[a].block /\ form[a] # "valid"
                         /\ resumes[a] = 0 /\ exits = 0 /\ a \notin raised
                         => Cardinality(blocked[a]) = RepairTurns
    BY DEF RepairBounded
  <2>1. TypeOK /\ Threads /\ Blocks
    BY DEF IInv
  <2>2. Cardinality(blocked[a]) <= RepairTurns
    BY <2>1 DEF Blocks
  <2>3. ASSUME thread[a] = "answer", ~outcome[a].block, form[a] # "valid",
               resumes[a] = 0, exits = 0, a \notin raised
        PROVE  Cardinality(blocked[a]) = RepairTurns
    <3>1. attempts[a] \in Nat /\ outcome[a] = Decide(a, attempts[a]) /\ agent[a] # "idle"
      BY <2>1, <2>3 DEF TypeOK, Threads
    <3>2. ~(attempts[a] <= RepairTurns)
      BY <2>3, <3>1, DecideBlock
    <3>3. Cardinality(blocked[a]) + 1 = attempts[a]
      BY <2>1, <2>3, <3>1 DEF Blocks, Bumped
    <3>4. blocked[a] \subseteq 1..turns[a] /\ turns[a] \in Nat
      BY <2>1 DEF Blocks, TypeOK
    <3>5. Cardinality(blocked[a]) \in Nat
      BY <3>4, BlockedFinite
    <3> QED
      BY <2>2, <3>1, <3>2, <3>3, <3>5, LedgerAssumption
  <2> QED
    BY <2>2, <2>3
<1> QED
  BY <1>1, Invariant, PTL

\* The file of a node never holds a receipt that was sent back for repair; and when
\* the daemon is quiet and nothing was lost, it holds the latest that passed
\* (_process_subagent_stop, write_receipt).
THEOREM LatestReceiptIsKept == Spec => []LatestReceiptKept
<1>1. IInv => LatestReceiptKept
  <2> SUFFICES ASSUME IInv PROVE LatestReceiptKept
    OBVIOUS
  <2>1. TypeOK /\ Receipts /\ Converges
    BY DEF IInv
  <2>2. ASSUME NEW n \in Nodes, receiptOf[n] # NoReceipt
        PROVE  receiptOf[n].turn \notin blocked[receiptOf[n].agent]
    BY <2>1, <2>2 DEF Receipts, LetThrough, Let
  <2>3. ASSUME Quiet, exits = 0, ~dropped PROVE receiptOf = latest
    <3>1. workq = <<>> /\ worker.pc = "idle"
      BY <2>3 DEF Quiet, Idle
    <3>2. \A n \in Nodes : Due(n)
      BY <2>1, <2>3 DEF Converges
    <3>3. \A n \in Nodes : receiptOf[n] = latest[n]
      BY <3>1, <3>2 DEF Due
    <3> QED
      BY <2>1, <3>3 DEF TypeOK
  <2> QED
    BY <2>2, <2>3 DEF LatestReceiptKept
<1> QED
  BY <1>1, Invariant, PTL

\* The threads, the queue and the worker implement the accounting: every stop that is
\* accepted is booked once and in order, under a total that covers the turns up to
\* it, unless its job raises or the daemon exits while it is held (enqueue, _drain_queue,
\* append_ledger_round).
THEOREM StopsAreAccounted == Spec => StopsAccounted
<1>1. Init => Books!Init
  <2> SUFFICES ASSUME Init PROVE Books!Init
    OBVIOUS
  <2>1. TypeOK /\ Covered
    BY Initial DEF IInv
  <2>2. ASSUME NEW a \in Agents PROVE Held(a) = <<>>
    <3>1. stops[a] = <<>> /\ Len(stops[a]) = 0
      BY DEF Init
    <3>2. Oldest(a) = 1
      <4>1. Pending(a) \in Nat /\ Pending(a) <= 0
        BY <2>1, <3>1, PendingIs DEF Covered
      <4> QED
        BY <3>1, <4>1 DEF Oldest
    <3>3. Held(a) = SubSeq(stops[a], Oldest(a), Len(stops[a]))
      BY <2>1, HeldIs
    <3> QED
      BY <3>1, <3>2, <3>3, SubSeqEmpty
  <2> QED
    BY <2>2 DEF Init, Books!Init
<1>2. IInv /\ [Next]_vars => [Books!Next]_<<turns, [a \in Agents |-> Held(a)], total, rounds, lost, exits>>
  BY BooksStep DEF IInv
<1> QED
  BY <1>1, <1>2, Invariant, PTL DEF Spec, StopsAccounted, Books!Spec

-----------------------------------------------------------------------------
(* Across runs: the aggregates of baseline.json and the coefficients of weights.json. *)

\* The shapes of an aggregate, of an entry and of a baseline.
Agg   == [samples : Nat, tokens : Nat, call_samples : Nat, calls : Nat]
Entry == [runs : Nat, by : [Types -> Agg]]
Bases == [Keys -> Entry]

\* What a set of rows adds to the aggregate of their type.
AddRows(agg, rs) == FoldSet(LAMBDA a, x : AddRow(x, a), agg, rs)

\* One row added to an aggregate, as a function on pairs.
AsFunction(rs, Q) == [p \in rs \X Q |-> AddRow(p[2], p[1])]

\* One row adds to an aggregate.
LEMMA AddRowType ==
  ASSUME NEW agg \in Agg, NEW a \in Actors
  PROVE  /\ AddRow(agg, a) \in Agg
         /\ AddRow(agg, a).samples >= agg.samples
         /\ AddRow(agg, a).tokens >= agg.tokens
         /\ AddRow(agg, a).call_samples >= agg.call_samples
         /\ AddRow(agg, a).calls >= agg.calls
<1>1. /\ Spent[a] # Unknown => Spent[a] \in Nat
      /\ Calls[a] # Unknown => Calls[a] \in Nat
  BY BaselineAssumption DEF Unknown
<1> QED  BY <1>1 DEF AddRow, Agg

\* The rows of a set are added one after the other, in the order CHOOSE picks them.
LEMMA AddRowsIterate ==
  ASSUME NEW rs \in SUBSET Actors, IsFiniteSet(rs), NEW Q, NEW agg \in Q,
         \A x \in Q : \A a \in rs : AddRow(x, a) \in Q
  PROVE  \E g \in Iterations(rs, Q, agg, AnyOf(rs), AsFunction(rs, Q)) : AddRows(agg, rs) = g[rs]
<1> DEFINE it == CHOOSE g : g = [s \in SUBSET rs |-> IF s = {} THEN agg
                   ELSE AddRow(g[s \ {CHOOSE x \in s : TRUE}], CHOOSE x \in s : TRUE)]
           F == AsFunction(rs, Q)
           pick == AnyOf(rs)
<1>1. F \in [rs \X Q -> Q] /\ \A a \in rs, x \in Q : F[<<a, x>>] = AddRow(x, a)
  BY DEF AsFunction
<1>2. pick \in Picks(rs)  BY AnyPicks
<1>3. \A s \in SUBSET rs : s # {} => pick[s] = (CHOOSE x \in s : TRUE) /\ pick[s] \in s
  BY DEF AnyOf
<1>4. PICK g \in Iterations(rs, Q, agg, pick, F) : TRUE
  <2> HIDE DEF F, pick
  <2> QED  BY <1>1, <1>2, FoldExists
<1>5. g \in [SUBSET rs -> Q] /\ g = [s \in SUBSET rs |-> IF s = {} THEN agg ELSE F[<<pick[s], g[s \ {pick[s]}]>>]]
  BY <1>4 DEF Iterations
<1>6. g = [s \in SUBSET rs |-> IF s = {} THEN agg
             ELSE AddRow(g[s \ {CHOOSE x \in s : TRUE}], CHOOSE x \in s : TRUE)]
  <2> HIDE DEF F, pick
  <2>1. \A s \in SUBSET rs : s # {} =>
          F[<<pick[s], g[s \ {pick[s]}]>>] = AddRow(g[s \ {CHOOSE x \in s : TRUE}], CHOOSE x \in s : TRUE)
    BY <1>1, <1>3, <1>5, ZenonT(30)
  <2> QED  BY <1>5, <2>1
<1>7. it = [s \in SUBSET rs |-> IF s = {} THEN agg
             ELSE AddRow(it[s \ {CHOOSE x \in s : TRUE}], CHOOSE x \in s : TRUE)]
  BY <1>6
<1>8. AddRows(agg, rs) = it[rs]  BY DEF AddRows, FoldSet, MapThenFoldSet
<1> HIDE DEF it, F, pick
<1>9. Unfolds(it, rs, Q, agg, pick, F)
  <2>1. it = [s \in SUBSET rs |-> it[s]]  BY <1>7
  <2>2. it[{}] = agg  BY <1>7
  <2>3. ASSUME NEW s \in (SUBSET rs) \ {{}}, it[s \ {pick[s]}] \in Q
        PROVE  it[s] = F[<<pick[s], it[s \ {pick[s]}]>>]
    <3>1. it[s] = AddRow(it[s \ {pick[s]}], pick[s])  BY <1>3, <1>7
    <3> QED  BY <1>1, <1>3, <2>3, <3>1
  <2> QED  BY <2>1, <2>2, <2>3 DEF Unfolds
<1>10. it \in Iterations(rs, Q, agg, pick, F)  BY <1>1, <1>2, <1>9, FoldUnfolds
<1> QED  BY <1>8, <1>10 DEF F, pick

\* What every row keeps, a set of rows keeps.
LEMMA AddRowsKeeps ==
  ASSUME NEW rs \in SUBSET Actors, IsFiniteSet(rs), NEW Q, NEW agg \in Q,
         \A x \in Q : \A a \in rs : AddRow(x, a) \in Q
  PROVE  AddRows(agg, rs) \in Q
<1>1. PICK g \in Iterations(rs, Q, agg, AnyOf(rs), AsFunction(rs, Q)) : AddRows(agg, rs) = g[rs]
  BY AddRowsIterate
<1> QED  BY <1>1 DEF Iterations

\* One aggregate has no more of anything than another.
Below(x, y) ==
  /\ x.samples <= y.samples /\ x.tokens <= y.tokens
  /\ x.call_samples <= y.call_samples /\ x.calls <= y.calls

\* The same rows added to more come to more, and a row never takes anything away.
LEMMA AddRowsMore ==
  ASSUME NEW rs \in SUBSET Actors, IsFiniteSet(rs), NEW x \in Agg, NEW y \in Agg, Below(x, y)
  PROVE  Below(AddRows(x, rs), AddRows(y, rs))
<1> DEFINE F == AsFunction(rs, Agg)
           pick == AnyOf(rs)
<1>1. \A z \in Agg : \A a \in rs : AddRow(z, a) \in Agg  BY AddRowType
<1>2. PICK g \in Iterations(rs, Agg, x, pick, F) : AddRows(x, rs) = g[rs]
  BY <1>1, AddRowsIterate
<1>3. PICK h \in Iterations(rs, Agg, y, pick, F) : AddRows(y, rs) = h[rs]
  BY <1>1, AddRowsIterate
<1>4. \A z \in Agg : \A a \in rs : F[<<a, z>>] = AddRow(z, a)  BY DEF AsFunction
<1>5. pick \in Picks(rs)  BY AnyPicks
<1> HIDE DEF F, pick
<1> DEFINE P == {s \in SUBSET rs : Below(g[s], h[s])}
<1>6. {} \in P  BY <1>2, <1>3 DEF Iterations
<1>7. ASSUME NEW s \in SUBSET rs, s # {}, s \ {pick[s]} \in P PROVE s \in P
  <2> DEFINE r == s \ {pick[s]}
  <2>1. pick[s] \in rs  BY <1>5, <1>7 DEF Picks
  <2>2. g[r] \in Agg /\ h[r] \in Agg  BY <1>2, <1>3 DEF Iterations
  <2>3. g[s] = AddRow(g[r], pick[s]) /\ h[s] = AddRow(h[r], pick[s])
    <3>1. g[s] = F[<<pick[s], g[r]>>] /\ h[s] = F[<<pick[s], h[r]>>]
      BY <1>2, <1>3, <1>7 DEF Iterations
    <3> HIDE DEF r
    <3> QED  BY <1>4, <2>1, <2>2, <3>1
  <2>4. Below(g[r], h[r])  BY <1>7
  <2> HIDE DEF r, P
  <2>5. ASSUME NEW u \in Agg, NEW v \in Agg, NEW a \in Actors, Below(u, v)
        PROVE  Below(AddRow(u, a), AddRow(v, a))
    <3>1. /\ Spent[a] # Unknown => Spent[a] \in Nat
          /\ Calls[a] # Unknown => Calls[a] \in Nat
      BY BaselineAssumption DEF Unknown
    <3> QED  BY <2>5, <3>1 DEF AddRow, Below, Agg
  <2>6. Below(g[s], h[s])  BY <2>1, <2>2, <2>3, <2>4, <2>5
  <2> QED  BY <2>6 DEF P
<1>8. P \in Hereditary(rs, pick)
  <2>1. P \in SUBSET (SUBSET rs)  OBVIOUS
  <2> HIDE DEF P
  <2> QED  BY <1>6, <1>7, <2>1 DEF Hereditary
<1>9. rs \in P
  <2> HIDE DEF P
  <2> QED  BY <1>5, <1>8, InductSet
<1> QED  BY <1>2, <1>3, <1>9

\* Rows added to an aggregate give one that has at least as much of everything.
LEMMA AddRowsGrows ==
  ASSUME NEW rs \in SUBSET Actors, IsFiniteSet(rs), NEW agg \in Agg
  PROVE  AddRows(agg, rs) \in Agg /\ Below(agg, AddRows(agg, rs))
<1> DEFINE Q == {x \in Agg : Below(agg, x)}
<1>1. agg \in Q  BY DEF Below, Agg
<1>2. ASSUME NEW x \in Q, NEW a \in rs PROVE AddRow(x, a) \in Q
  <2>1. x \in Agg /\ a \in Actors  OBVIOUS
  <2>2. AddRow(x, a) \in Agg /\ Below(x, AddRow(x, a))  BY <2>1, AddRowType DEF Below
  <2>3. Below(agg, x)  OBVIOUS
  <2> QED  BY <2>1, <2>2, <2>3 DEF Below, Agg
<1>3. AddRows(agg, rs) \in Q
  <2> HIDE DEF Q
  <2> QED  BY <1>1, <1>2, AddRowsKeeps
<1> QED  BY <1>3

\* One more end of a session.
OfType(rs, t) == {a \in rs : TypeOf(a) = t}

\* Aggregate counts the end and adds to each type its rows.
LEMMA AggregateIs ==
  ASSUME NEW e, NEW rs
  PROVE  Aggregate(e, rs) = [runs |-> e.runs + 1, by |-> [t \in Types |-> AddRows(e.by[t], OfType(rs, t))]]
BY DEF Aggregate, AddRows, OfType

\* The entry after one more end has one run more and lost nothing.
LEMMA AggregateGrows ==
  ASSUME NEW e \in Entry, NEW rs \in SUBSET Actors, IsFiniteSet(rs)
  PROVE  /\ Aggregate(e, rs) \in Entry
         /\ Aggregate(e, rs).runs = e.runs + 1
         /\ \A t \in Types :
              /\ Aggregate(e, rs).by[t] = AddRows(e.by[t], OfType(rs, t))
              /\ Below(e.by[t], Aggregate(e, rs).by[t])
<1>1. \A t \in Types : OfType(rs, t) \in SUBSET Actors /\ IsFiniteSet(OfType(rs, t))
  BY FS_Subset DEF OfType
<1>2. e.runs \in Nat /\ \A t \in Types : e.by[t] \in Agg  BY DEF Entry
<1>3. \A t \in Types : /\ AddRows(e.by[t], OfType(rs, t)) \in Agg
                       /\ Below(e.by[t], AddRows(e.by[t], OfType(rs, t)))
  BY <1>1, <1>2, AddRowsGrows
<1> DEFINE n == e.runs + 1
           b == [t \in Types |-> AddRows(e.by[t], OfType(rs, t))]
<1>4. Aggregate(e, rs) = [runs |-> n, by |-> b]  BY AggregateIs
<1>5. b \in [Types -> Agg] /\ n \in Nat  BY <1>2, <1>3
<1> QED  BY <1>3, <1>4, <1>5 DEF Entry

\* The same end counted on the larger of two entries leaves it the larger.
LEMMA AggregateMore ==
  ASSUME NEW e \in Entry, NEW f \in Entry, NEW rs \in SUBSET Actors, IsFiniteSet(rs),
         NEW t \in Types, Below(e.by[t], f.by[t])
  PROVE  Below(Aggregate(e, rs).by[t], Aggregate(f, rs).by[t])
<1>1. OfType(rs, t) \in SUBSET Actors /\ IsFiniteSet(OfType(rs, t))  BY FS_Subset DEF OfType
<1>2. e.by[t] \in Agg /\ f.by[t] \in Agg  BY DEF Entry
<1>3. Below(AddRows(e.by[t], OfType(rs, t)), AddRows(f.by[t], OfType(rs, t)))
  BY <1>1, <1>2, AddRowsMore
<1> QED  BY <1>3, AggregateGrows

\* The calls that agents really made.
Made == {Calls[w] : w \in {v \in Stops : Calls[v] # Unknown}}

\* The calls of an aggregate are those of its samples, each of them one of an agent.
Fair(x) ==
  IF x.call_samples = 0 THEN x.calls = 0
  ELSE \E l, h \in Made : l * x.call_samples <= x.calls /\ x.calls <= h * x.call_samples

\* A row leaves an aggregate fair: its calls come with one sample, or not at all.
LEMMA AddRowFair ==
  ASSUME NEW x \in Agg, NEW a \in Actors, Fair(x)
  PROVE  Fair(AddRow(x, a))
<1> DEFINE y == AddRow(x, a)
<1>1. CASE Calls[a] = Unknown
  <2>1. y.call_samples = x.call_samples /\ y.calls = x.calls  BY <1>1 DEF AddRow, Agg
  <2> QED  BY <2>1 DEF Fair
<1>2. CASE Calls[a] # Unknown
  <2> DEFINE c == Calls[a]
  <2>1. c \in Nat /\ a \in Stops  BY <1>2, BaselineAssumption DEF Unknown, Actors
  <2>2. c \in Made  BY <1>2, <2>1 DEF Made
  <2>3. y.call_samples = x.call_samples + 1 /\ y.calls = x.calls + c  BY <1>2 DEF AddRow
  <2>4. Made \subseteq Nat  BY BaselineAssumption DEF Made, Actors, Unknown
  <2>5. x.call_samples \in Nat /\ x.calls \in Nat  BY DEF Agg
  <2>6. CASE x.call_samples = 0
    <3>1. x.calls = 0  BY <2>6 DEF Fair
    <3>2. c * y.call_samples <= y.calls /\ y.calls <= c * y.call_samples /\ y.call_samples # 0
      <4> HIDE DEF y, c
      <4> QED  BY <2>1, <2>3, <2>5, <2>6, <3>1
    <3> HIDE DEF y, c
    <3> QED  BY <2>2, <3>2 DEF Fair, y
  <2>7. CASE x.call_samples # 0
    <3>1. PICK l \in Made, h \in Made : l * x.call_samples <= x.calls /\ x.calls <= h * x.call_samples
      BY <2>7 DEF Fair
    <3> DEFINE n == x.call_samples
               low == IF l <= c THEN l ELSE c
               high == IF h <= c THEN c ELSE h
    <3>2. low \in Made /\ high \in Made  BY <2>2, <3>1
    <3>3. l \in Nat /\ h \in Nat /\ low \in Nat /\ high \in Nat  BY <2>1, <2>4, <3>1
    <3>4. low <= l /\ low <= c /\ h <= high /\ c <= high  BY <2>1, <3>3
    <3> HIDE DEF low, high, c, n, y
    <3>5. ASSUME NEW p \in Nat, NEW q \in Nat, NEW m \in Nat, p <= q PROVE p * m <= q * m
      BY <3>5
    <3>6. n \in Nat /\ x.calls \in Nat  BY <2>5 DEF n
    <3>7. low * n <= l * n /\ h * n <= high * n  BY <3>3, <3>4, <3>5, <3>6
    <3>8. l * n <= x.calls /\ x.calls <= h * n  BY <3>1 DEF n
    <3>9. low * (n + 1) = low * n + low /\ high * (n + 1) = high * n + high  BY <3>3, <3>6
    <3>10. /\ low * n \in Nat /\ l * n \in Nat /\ h * n \in Nat /\ high * n \in Nat
      BY <3>3, <3>6
    <3>11. low * n <= x.calls /\ x.calls <= high * n
      <4> DEFINE p1 == low * n  p2 == l * n  p3 == h * n  p4 == high * n  k == x.calls
      <4> HIDE DEF p1, p2, p3, p4, k
      <4>1. p1 <= k /\ k <= p4
        BY <3>6, <3>7, <3>8, <3>10 DEF p1, p2, p3, p4, k
      <4> QED  BY <4>1 DEF p1, p4, k
    <3>12. low * (n + 1) <= x.calls + c /\ x.calls + c <= high * (n + 1)
      <4> DEFINE p1 == low * n  p4 == high * n  k == x.calls
      <4>1. p1 \in Nat /\ p4 \in Nat /\ k \in Nat /\ p1 <= k /\ k <= p4
            /\ low * (n + 1) = p1 + low /\ high * (n + 1) = p4 + high
        BY <3>6, <3>9, <3>10, <3>11
      <4> HIDE DEF p1, p4, k
      <4>2. low * (n + 1) <= k + c /\ k + c <= high * (n + 1)
        BY <2>1, <3>3, <3>4, <4>1
      <4> QED  BY <4>2 DEF k
    <3>13. y.call_samples = n + 1 /\ y.calls = x.calls + c /\ n + 1 # 0
      BY <2>3, <3>6 DEF n
    <3> QED  BY <3>2, <3>12, <3>13 DEF Fair, y
  <2> QED  BY <2>6, <2>7
<1> QED  BY <1>1, <1>2

\* So does one more end.
LEMMA AggregateFair ==
  ASSUME NEW e \in Entry, NEW rs \in SUBSET Actors, IsFiniteSet(rs),
         NEW t \in Types, Fair(e.by[t])
  PROVE  Fair(Aggregate(e, rs).by[t])
<1> DEFINE Q == {x \in Agg : Fair(x)}
<1>1. OfType(rs, t) \in SUBSET Actors /\ IsFiniteSet(OfType(rs, t))  BY FS_Subset DEF OfType
<1>2. e.by[t] \in Q  BY DEF Entry
<1>3. ASSUME NEW x \in Q, NEW a \in OfType(rs, t) PROVE AddRow(x, a) \in Q
  <2>1. x \in Agg /\ Fair(x) /\ a \in Actors  BY <1>1
  <2> QED  BY <2>1, AddRowType, AddRowFair
<1>4. AddRows(e.by[t], OfType(rs, t)) \in Q
  <2> HIDE DEF Q
  <2> QED  BY <1>1, <1>2, <1>3, AddRowsKeeps
<1> QED  BY <1>4, AggregateGrows

\* The budget of a fair aggregate is the default or lies between the calls of two agents.
LEMMA FairBudget ==
  ASSUME NEW base, NEW k, NEW t, base[k].by[t] \in Agg, Fair(base[k].by[t])
  PROVE  LET budget == PredictCallBudget(base, k, t)
             made   == {1000 * Calls[w] : w \in {v \in Stops : Calls[v] # Unknown}}
         IN  budget = 30000 \/ \E x, y \in made : x <= budget /\ budget <= y
<1> DEFINE x == base[k].by[t]
           n == x.call_samples
           c == x.calls
           thousand == {1000 * Calls[w] : w \in {v \in Stops : Calls[v] # Unknown}}
<1>1. n \in Nat /\ c \in Nat  BY DEF Agg
<1>2. CASE ~(n > 0)  BY <1>2 DEF PredictCallBudget
<1>3. CASE n > 0
  <2>1. PICK l \in Made, h \in Made : l * n <= c /\ c <= h * n  BY <1>3 DEF Fair
  <2>2. l \in Nat /\ h \in Nat  BY BaselineAssumption DEF Made, Actors, Unknown
  <2>3. 1000 * l \in thousand /\ 1000 * h \in thousand  BY DEF Made
  <2>4. PredictCallBudget(base, k, t) = (1000 * c) \div n  BY <1>3 DEF PredictCallBudget
  <2> HIDE DEF n, c, thousand, x
  <2>5. 1000 * l <= (1000 * c) \div n
    <3>1. (1000 * l) * n <= 1000 * c
      <4>1. (1000 * l) * n = 1000 * (l * n)  BY <1>1, <2>2
      <4>2. l * n \in Nat  BY <1>1, <2>2
      <4> QED  BY <1>1, <2>1, <4>1, <4>2
    <3>2. 1000 * l \in Nat /\ 1000 * c \in Nat  BY <1>1, <2>2
    <3>3. ASSUME NEW p \in Nat, NEW q \in Nat, p * n <= q PROVE p <= q \div n
      BY <1>1, <1>3, <3>3, Z3
    <3> QED  BY <3>1, <3>2, <3>3
  <2>6. (1000 * c) \div n <= 1000 * h
    <3>1. 1000 * c <= (1000 * h) * n
      <4>1. (1000 * h) * n = 1000 * (h * n)  BY <1>1, <2>2
      <4>2. h * n \in Nat  BY <1>1, <2>2
      <4> QED  BY <1>1, <2>1, <4>1, <4>2
    <3>2. 1000 * h \in Nat /\ 1000 * c \in Nat  BY <1>1, <2>2
    <3>3. ASSUME NEW p \in Nat, NEW q \in Nat, q <= p * n PROVE q \div n <= p
      BY <1>1, <1>3, <3>3, Z3
    <3> QED  BY <3>1, <3>2, <3>3
  <2> QED  BY <2>3, <2>4, <2>5, <2>6 DEF thousand
<1> QED  BY <1>1, <1>2, <1>3

\* There are at most two types of rows.
LEMMA TypesFinite == IsFiniteSet(Types)
<1>1. Types \subseteq {"orchestrator"} \cup {"agent"}  BY DEF Types, TypeOf
<1>2. IsFiniteSet({} \cup {"orchestrator"})  BY FS_EmptySet, FS_AddElement
<1>3. IsFiniteSet(({} \cup {"orchestrator"}) \cup {"agent"})  BY <1>2, FS_AddElement
<1>4. ({} \cup {"orchestrator"}) \cup {"agent"} = {"orchestrator"} \cup {"agent"}  OBVIOUS
<1> QED  BY <1>1, <1>3, <1>4, FS_Subset

\* The product of the samples of some types, all of which have some.
Product(e, S) == FoldSet(LAMBDA u, n : n * e.by[u].samples, 1, S)

\* The product of samples that are all positive is positive.
LEMMA ProductPositive ==
  ASSUME NEW e \in Entry, NEW S \in SUBSET Types, \A t \in S : e.by[t].samples > 0
  PROVE  Product(e, S) \in Nat \ {0}
<1> DEFINE it == CHOOSE g : g = [s \in SUBSET S |-> IF s = {} THEN 1
                   ELSE g[s \ {CHOOSE x \in s : TRUE}] * e.by[CHOOSE x \in s : TRUE].samples]
           V == Nat \ {0}
           F == [p \in S \X V |-> p[2] * e.by[p[1]].samples]
           pick == AnyOf(S)
<1>0. IsFiniteSet(S)  BY TypesFinite, FS_Subset
<1>1. F \in [S \X V -> V] /\ \A t \in S, n \in V : F[<<t, n>>] = n * e.by[t].samples
  <2>1. ASSUME NEW t \in S, NEW n \in V PROVE n * e.by[t].samples \in V
    <3>1. e.by[t].samples \in Nat /\ e.by[t].samples > 0  BY DEF Entry, Agg
    <3> QED  BY <3>1
  <2> HIDE DEF V
  <2> QED  BY <2>1
<1>2. pick \in Picks(S)  BY AnyPicks
<1>3. \A s \in SUBSET S : s # {} => pick[s] = (CHOOSE x \in s : TRUE) /\ pick[s] \in s
  BY DEF AnyOf
<1>4. 1 \in V  OBVIOUS
<1> HIDE DEF F, pick, V
<1>5. PICK g \in Iterations(S, V, 1, pick, F) : TRUE  BY <1>0, <1>1, <1>2, <1>4, FoldExists
<1>6. g = [s \in SUBSET S |-> IF s = {} THEN 1
             ELSE g[s \ {CHOOSE x \in s : TRUE}] * e.by[CHOOSE x \in s : TRUE].samples]
  <2>1. g \in [SUBSET S -> V] /\ g = [s \in SUBSET S |-> IF s = {} THEN 1 ELSE F[<<pick[s], g[s \ {pick[s]}]>>]]
    BY <1>5 DEF Iterations
  <2>2. \A s \in SUBSET S : s # {} => F[<<pick[s], g[s \ {pick[s]}]>>]
          = g[s \ {CHOOSE x \in s : TRUE}] * e.by[CHOOSE x \in s : TRUE].samples
    BY <1>1, <1>3, <2>1
  <2> QED  BY <2>1, <2>2
<1>7. it = [s \in SUBSET S |-> IF s = {} THEN 1
             ELSE it[s \ {CHOOSE x \in s : TRUE}] * e.by[CHOOSE x \in s : TRUE].samples]
  BY <1>6
<1>8. Product(e, S) = it[S]  BY DEF Product, FoldSet, MapThenFoldSet
<1> HIDE DEF it
<1>9. Unfolds(it, S, V, 1, pick, F)
  <2>1. it = [s \in SUBSET S |-> it[s]]  BY <1>7
  <2>2. it[{}] = 1  BY <1>7
  <2>3. ASSUME NEW s \in (SUBSET S) \ {{}}, it[s \ {pick[s]}] \in V
        PROVE  it[s] = F[<<pick[s], it[s \ {pick[s]}]>>]
    <3>1. it[s] = it[s \ {pick[s]}] * e.by[pick[s]].samples  BY <1>3, <1>7
    <3> QED  BY <1>1, <1>3, <2>3, <3>1
  <2> QED  BY <2>1, <2>2, <2>3 DEF Unfolds
<1>10. it \in Iterations(S, V, 1, pick, F)  BY <1>0, <1>1, <1>2, <1>4, <1>9, FoldUnfolds
<1> QED  BY <1>8, <1>10 DEF Iterations, V

\* A sum is zero if and only if everything summed is.
LEMMA TotalZero ==
  ASSUME NEW S \in SUBSET Types, NEW avg \in [S -> Nat]
  PROVE  Total(avg) \in Nat /\ (Total(avg) = 0 <=> \A t \in S : avg[t] = 0)
<1> DEFINE it == CHOOSE g : g = [s \in SUBSET S |-> IF s = {} THEN 0
                   ELSE g[s \ {CHOOSE x \in s : TRUE}] + avg[CHOOSE x \in s : TRUE]]
           F == [p \in S \X Nat |-> p[2] + avg[p[1]]]
           pick == AnyOf(S)
<1>0. IsFiniteSet(S)  BY TypesFinite, FS_Subset
<1>1. F \in [S \X Nat -> Nat] /\ \A t \in S, n \in Nat : F[<<t, n>>] = n + avg[t]  OBVIOUS
<1>2. pick \in Picks(S)  BY AnyPicks
<1>3. \A s \in SUBSET S : s # {} => pick[s] = (CHOOSE x \in s : TRUE) /\ pick[s] \in s
  BY DEF AnyOf
<1> HIDE DEF F, pick
<1>5. PICK g \in Iterations(S, Nat, 0, pick, F) : TRUE  BY <1>0, <1>1, <1>2, FoldExists
<1>6. g = [s \in SUBSET S |-> IF s = {} THEN 0
             ELSE g[s \ {CHOOSE x \in s : TRUE}] + avg[CHOOSE x \in s : TRUE]]
  <2>1. g \in [SUBSET S -> Nat] /\ g = [s \in SUBSET S |-> IF s = {} THEN 0 ELSE F[<<pick[s], g[s \ {pick[s]}]>>]]
    BY <1>5 DEF Iterations
  <2>2. \A s \in SUBSET S : s # {} => F[<<pick[s], g[s \ {pick[s]}]>>]
          = g[s \ {CHOOSE x \in s : TRUE}] + avg[CHOOSE x \in s : TRUE]
    BY <1>1, <1>3, <2>1
  <2> QED  BY <2>1, <2>2
<1>7. it = [s \in SUBSET S |-> IF s = {} THEN 0
             ELSE it[s \ {CHOOSE x \in s : TRUE}] + avg[CHOOSE x \in s : TRUE]]
  BY <1>6
<1>8. Total(avg) = it[S]
  <2>1. DOMAIN avg = S  OBVIOUS
  <2> QED  BY <2>1 DEF Total, FoldSet, MapThenFoldSet
<1> HIDE DEF it
<1>9. Unfolds(it, S, Nat, 0, pick, F)
  <2>1. it = [s \in SUBSET S |-> it[s]]  BY <1>7
  <2>2. it[{}] = 0  BY <1>7
  <2>3. ASSUME NEW s \in (SUBSET S) \ {{}}, it[s \ {pick[s]}] \in Nat
        PROVE  it[s] = F[<<pick[s], it[s \ {pick[s]}]>>]
    <3>1. it[s] = it[s \ {pick[s]}] + avg[pick[s]]  BY <1>3, <1>7
    <3> QED  BY <1>1, <1>3, <2>3, <3>1
  <2> QED  BY <2>1, <2>2, <2>3 DEF Unfolds
<1>10. it \in Iterations(S, Nat, 0, pick, F)  BY <1>0, <1>1, <1>2, <1>9, FoldUnfolds
<1>11. it \in [SUBSET S -> Nat]  BY <1>10 DEF Iterations
<1> DEFINE P == {s \in SUBSET S : it[s] = 0 <=> \A t \in s : avg[t] = 0}
<1>12. P \in Hereditary(S, pick)
  <2>1. {} \in P /\ P \in SUBSET (SUBSET S)  BY <1>7
  <2>2. ASSUME NEW s \in SUBSET S, s # {}, s \ {pick[s]} \in P PROVE s \in P
    <3>1. it[s] = it[s \ {pick[s]}] + avg[pick[s]] /\ pick[s] \in s  BY <1>3, <1>7, <2>2
    <3>2. it[s \ {pick[s]}] \in Nat /\ avg[pick[s]] \in Nat  BY <1>11, <3>1
    <3>3. it[s] = 0 <=> it[s \ {pick[s]}] = 0 /\ avg[pick[s]] = 0  BY <3>1, <3>2
    <3>4. it[s \ {pick[s]}] = 0 <=> \A t \in s \ {pick[s]} : avg[t] = 0  BY <2>2
    <3>5. (\A t \in s : avg[t] = 0) <=> (\A t \in s \ {pick[s]} : avg[t] = 0) /\ avg[pick[s]] = 0
      BY <3>1
    <3> QED  BY <3>3, <3>4, <3>5
  <2> HIDE DEF P
  <2> QED  BY <2>1, <2>2 DEF Hereditary
<1>13. S \in P
  <2> HIDE DEF P
  <2> QED  BY <1>0, <1>2, <1>12, InductSet
<1> QED  BY <1>8, <1>11, <1>13

\* The coefficients there may be.
Coefs == UNION {[D -> Int] : D \in SUBSET Types}

\* There is a coefficient if and only if some type has tokens in a sample.
LEMMA CoefficientsThere ==
  ASSUME NEW e \in Entry
  PROVE  /\ Coefficients(e) \in Coefs
         /\ DOMAIN Coefficients(e) # {} <=>
              \E t \in Types : e.by[t].samples > 0 /\ e.by[t].tokens > 0
<1> DEFINE S == {t \in Types : e.by[t].samples > 0}
           avg == Averages(e)
<1>1. avg = [t \in S |-> e.by[t].tokens * Product(e, S \ {t})]  BY DEF Averages, Product
<1>2. \A t \in S : /\ e.by[t].tokens \in Nat
                   /\ Product(e, S \ {t}) \in Nat \ {0}
  <2> SUFFICES ASSUME NEW t \in S
               PROVE  e.by[t].tokens \in Nat /\ Product(e, S \ {t}) \in Nat \ {0}
    OBVIOUS
  <2>1. S \ {t} \in SUBSET Types /\ \A u \in S \ {t} : e.by[u].samples > 0  OBVIOUS
  <2>2. e.by[t].tokens \in Nat  BY DEF Entry, Agg
  <2> HIDE DEF S
  <2> QED  BY <2>1, <2>2, ProductPositive
<1>3. S \in SUBSET Types /\ S = DOMAIN avg
  <2>1. S \in SUBSET Types  OBVIOUS
  <2> HIDE DEF S, avg
  <2> QED  BY <1>1, <2>1
<1>4. ASSUME NEW t \in S
      PROVE  avg[t] \in Nat /\ (avg[t] = 0 <=> e.by[t].tokens = 0)
  <2> DEFINE p == Product(e, S \ {t})  n == e.by[t].tokens
  <2>1. p \in Nat /\ p # 0 /\ n \in Nat  BY <1>2, <1>4
  <2>2. avg[t] = n * p
    <3> HIDE DEF avg, S
    <3> QED  BY <1>1, <1>4
  <2> HIDE DEF p, n, avg, S
  <2>3. n * p \in Nat /\ (n * p = 0 <=> n = 0)  BY <2>1
  <2> QED  BY <2>2, <2>3 DEF n
<1>5. avg \in [S -> Nat]
  <2> HIDE DEF S, avg
  <2> QED  BY <1>1, <1>4
<1>6. Total(avg) \in Nat /\ (Total(avg) = 0 <=> \A t \in S : avg[t] = 0)
  <2> HIDE DEF S, avg
  <2> QED  BY <1>3, <1>5, TotalZero
<1>7. (\E t \in Types : e.by[t].samples > 0 /\ e.by[t].tokens > 0) <=> Total(avg) # 0
  <2>1. ASSUME NEW t \in S PROVE avg[t] # 0 <=> e.by[t].tokens > 0
    <3> DEFINE n == e.by[t].tokens
    <3>1. n \in Nat /\ (avg[t] = 0 <=> n = 0)  BY <1>2, <1>4
    <3> HIDE DEF n, avg, S
    <3>2. avg[t] # 0 <=> n > 0  BY <3>1
    <3> QED  BY <3>2 DEF n
  <2>2. (\E t \in Types : e.by[t].samples > 0 /\ e.by[t].tokens > 0) <=>
           \E t \in S : e.by[t].tokens > 0
    OBVIOUS
  <2> HIDE DEF avg, S
  <2> QED  BY <1>6, <2>1, <2>2
<1>8. CASE Total(avg) = 0
  <2>1. Coefficients(e) = <<>>  BY <1>8 DEF Coefficients
  <2>2. DOMAIN Coefficients(e) = {}  BY <2>1
  <2>3. <<>> \in [{} -> Int]  OBVIOUS
  <2>4. Coefficients(e) \in Coefs  BY <2>1, <2>3 DEF Coefs
  <2> QED  BY <1>7, <1>8, <2>2, <2>4
<1>9. CASE Total(avg) # 0
  <2> DEFINE c == [t \in S |-> (1000 * Cardinality(S) * avg[t]) \div Total(avg)]
  <2>1. Coefficients(e) = c
    <3>1. Coefficients(e) = [t \in DOMAIN avg |-> (1000 * Cardinality(DOMAIN avg) * avg[t]) \div Total(avg)]
      BY <1>9 DEF Coefficients
    <3> HIDE DEF avg, S
    <3> QED  BY <1>3, <3>1
  <2>2. IsFiniteSet(S)  BY TypesFinite, FS_Subset
  <2> HIDE DEF avg, S
  <2>3. Cardinality(S) \in Nat  BY <2>2, FS_CardinalityType
  <2>4. ASSUME NEW t \in S PROVE (1000 * Cardinality(S) * avg[t]) \div Total(avg) \in Int
    <3> DEFINE n == 1000 * Cardinality(S) * avg[t]  d == Total(avg)
    <3>1. n \in Int /\ d \in Int /\ d > 0  BY <1>4, <1>6, <1>9, <2>3
    <3> HIDE DEF n, d
    <3>2. n \div d \in Int  BY <3>1
    <3> QED  BY <3>2 DEF n, d
  <2>5. c \in [S -> Int]  BY <2>4
  <2>6. DOMAIN c = S  OBVIOUS
  <2> HIDE DEF c
  <2>7. Coefficients(e) \in Coefs
    <3>1. \E D \in SUBSET Types : c \in [D -> Int]  BY <1>3, <2>5
    <3> QED  BY <2>1, <3>1 DEF Coefs
  <2>8. S # {}  BY <1>6, <1>9
  <2> QED  BY <1>7, <1>9, <2>1, <2>6, <2>7, <2>8
<1> QED  BY <1>8, <1>9

\* Merging drops no coefficient.
LEMMA MergeKeeps ==
  ASSUME NEW f \in Coefs, NEW g \in Coefs
  PROVE  Merge(f, g) \in Coefs /\ DOMAIN Merge(f, g) = DOMAIN f \cup DOMAIN g
<1>1. PICK D \in SUBSET Types : f \in [D -> Int]  BY DEF Coefs
<1>2. PICK E \in SUBSET Types : g \in [E -> Int]  BY DEF Coefs
<1> DEFINE m == Merge(f, g)
<1>3. DOMAIN m = D \cup E  BY <1>1, <1>2 DEF Merge
<1>4. m \in [D \cup E -> Int]
  <2>1. ASSUME NEW t \in D \cup E
        PROVE  (IF t \notin D THEN g[t] ELSE IF t \notin E THEN f[t] ELSE (f[t] + g[t]) \div 2) \in Int
    <3>1. CASE t \in D /\ t \in E
      <4>1. f[t] \in Int /\ g[t] \in Int  BY <1>1, <1>2, <3>1
      <4>2. (f[t] + g[t]) \div 2 \in Int  BY <4>1
      <4> QED  BY <3>1, <4>2
    <3> QED  BY <1>1, <1>2, <3>1
  <2>2. m = [t \in D \cup E |-> IF t \notin D THEN g[t] ELSE IF t \notin E THEN f[t] ELSE (f[t] + g[t]) \div 2]
    BY <1>1, <1>2 DEF Merge
  <2> HIDE DEF m
  <2> QED  BY <2>1, <2>2
<1>5. D \cup E \in SUBSET Types  OBVIOUS
<1> HIDE DEF m
<1>6. \E DE \in SUBSET Types : m \in [DE -> Int]  BY <1>4, <1>5
<1>7. m \in Coefs  BY <1>6 DEF Coefs
<1> QED  BY <1>1, <1>2, <1>3, <1>7 DEF m

\* The weights of a mode, up to the n-th repository.
LEMMA WeightsThere ==
  ASSUME NEW base \in Bases, NEW m \in Modes
  PROVE  DOMAIN Weights(base)[m] # {} <=>
           \E p \in ToSet(Repos) : DOMAIN Coefficients(base[<<p, m>>]) # {}
<1> DEFINE n == Len(Repos)
           C(i) == Coefficients(base[<<Repos[i], m>>])
           it == CHOOSE g : g = [s \in SUBSET DOMAIN Repos |-> IF s = {} THEN <<>>
                   ELSE Merge(g[s \ {CHOOSE x \in s : \A y \in s : x >= y}],
                              C(CHOOSE x \in s : \A y \in s : x >= y))]
           I == 1..n
           F == [p \in I \X Coefs |-> Merge(p[2], C(p[1]))]
           pick == LargestOf(I)
<1>1. Repos \in Seq(ToSet(Repos))  BY BaselineAssumption
<1>2. DOMAIN Repos = I /\ n \in Nat /\ \A i \in I : Repos[i] \in ToSet(Repos)  BY <1>1
<1>3. IsFiniteSet(I) /\ I \in SUBSET Int  BY <1>2, FS_Interval
<1>4. \A i \in I : <<Repos[i], m>> \in Keys  BY <1>2 DEF Keys
<1>5. \A i \in I : base[<<Repos[i], m>>] \in Entry  BY <1>4 DEF Bases
<1>6. \A i \in I : C(i) \in Coefs  BY <1>5, CoefficientsThere
<1>7. F \in [I \X Coefs -> Coefs] /\ \A i \in I, w \in Coefs : F[<<i, w>>] = Merge(w, C(i))
  <2>1. \A i \in I, w \in Coefs : Merge(w, C(i)) \in Coefs  BY <1>6, MergeKeeps
  <2> HIDE DEF C, I
  <2> QED  BY <2>1
<1>8. pick \in Picks(I)  BY <1>3, LargestPicks
<1>9. \A s \in SUBSET I : s # {} =>
        pick[s] = (CHOOSE x \in s : \A y \in s : x >= y) /\ pick[s] \in s
  BY <1>8 DEF LargestOf, Picks
<1>10. <<>> \in Coefs
  <2>1. <<>> \in [{} -> Int]  OBVIOUS
  <2> QED  BY <2>1 DEF Coefs
<1> HIDE DEF F, pick, C
<1>11. PICK g \in Iterations(I, Coefs, <<>>, pick, F) : TRUE
  <2> HIDE DEF I
  <2> QED  BY <1>3, <1>7, <1>8, <1>10, FoldExists
<1>12. g = [s \in SUBSET I |-> IF s = {} THEN <<>>
             ELSE Merge(g[s \ {CHOOSE x \in s : \A y \in s : x >= y}],
                        C(CHOOSE x \in s : \A y \in s : x >= y))]
  <2> HIDE DEF I
  <2>1. g \in [SUBSET I -> Coefs] /\ g = [s \in SUBSET I |-> IF s = {} THEN <<>> ELSE F[<<pick[s], g[s \ {pick[s]}]>>]]
    BY <1>11 DEF Iterations
  <2>2. \A s \in SUBSET I : s # {} => F[<<pick[s], g[s \ {pick[s]}]>>]
          = Merge(g[s \ {CHOOSE x \in s : \A y \in s : x >= y}],
                  C(CHOOSE x \in s : \A y \in s : x >= y))
    BY <1>7, <1>9, <2>1
  <2> QED  BY <2>1, <2>2
<1>13. it = [s \in SUBSET I |-> IF s = {} THEN <<>>
             ELSE Merge(it[s \ {CHOOSE x \in s : \A y \in s : x >= y}],
                        C(CHOOSE x \in s : \A y \in s : x >= y))]
  <2> HIDE DEF I
  <2> QED  BY <1>2, <1>12
<1>14. Weights(base)[m] = it[I]
  <2>1. Weights(base)[m] = FoldLeft(LAMBDA w, p : Merge(w, Coefficients(base[<<p, m>>])), <<>>, Repos)
    BY DEF Weights
  <2>2. @ = it[DOMAIN Repos]  BY DEF FoldLeft, MapThenFoldSet, Max, C
  <2> QED  BY <1>2, <2>1, <2>2
<1> HIDE DEF it
<1>15. Unfolds(it, I, Coefs, <<>>, pick, F)
  <2> HIDE DEF I
  <2>1. it = [s \in SUBSET I |-> it[s]]  BY <1>13
  <2>2. it[{}] = <<>>  BY <1>13
  <2>3. ASSUME NEW s \in (SUBSET I) \ {{}}, it[s \ {pick[s]}] \in Coefs
        PROVE  it[s] = F[<<pick[s], it[s \ {pick[s]}]>>]
    <3>1. it[s] = Merge(it[s \ {pick[s]}], C(pick[s]))  BY <1>9, <1>13
    <3> QED  BY <1>7, <1>9, <2>3, <3>1
  <2> QED  BY <2>1, <2>2, <2>3 DEF Unfolds
<1>16. it \in Iterations(I, Coefs, <<>>, pick, F)
  <2> HIDE DEF I
  <2> QED  BY <1>3, <1>7, <1>8, <1>10, <1>15, FoldUnfolds
<1>17. it \in [SUBSET I -> Coefs]  BY <1>16 DEF Iterations
<1> DEFINE P == {s \in SUBSET I : DOMAIN it[s] # {} <=> \E i \in s : DOMAIN C(i) # {}}
<1>18. P \in Hereditary(I, pick)
  <2> HIDE DEF I
  <2>1. {} \in P /\ P \in SUBSET (SUBSET I)
    <3>1. DOMAIN it[{}] = {}  BY <1>13
    <3> QED  BY <3>1
  <2>2. ASSUME NEW s \in SUBSET I, s # {}, s \ {pick[s]} \in P PROVE s \in P
    <3>1. it[s] = Merge(it[s \ {pick[s]}], C(pick[s])) /\ pick[s] \in s  BY <1>9, <1>13, <2>2
    <3>2. it[s \ {pick[s]}] \in Coefs /\ C(pick[s]) \in Coefs  BY <1>6, <1>17, <3>1
    <3>3. DOMAIN it[s] = DOMAIN it[s \ {pick[s]}] \cup DOMAIN C(pick[s])  BY <3>1, <3>2, MergeKeeps
    <3>4. DOMAIN it[s \ {pick[s]}] # {} <=> \E i \in s \ {pick[s]} : DOMAIN C(i) # {}  BY <2>2
    <3>5. (\E i \in s : DOMAIN C(i) # {}) <=>
            (\E i \in s \ {pick[s]} : DOMAIN C(i) # {}) \/ DOMAIN C(pick[s]) # {}
      BY <3>1
    <3>6. DOMAIN it[s] # {} <=> DOMAIN it[s \ {pick[s]}] # {} \/ DOMAIN C(pick[s]) # {}
      BY <3>3
    <3> QED  BY <3>4, <3>5, <3>6
  <2> HIDE DEF P
  <2> QED  BY <2>1, <2>2 DEF Hereditary
<1>19. I \in P
  <2> HIDE DEF P, I
  <2> QED  BY <1>3, <1>8, <1>18, InductSet
<1>20. (\E p \in ToSet(Repos) : DOMAIN Coefficients(base[<<p, m>>]) # {}) <=>
         \E i \in I : DOMAIN C(i) # {}
  <2>1. ToSet(Repos) = {Repos[i] : i \in I}  BY <1>2 DEF ToSet
  <2> QED  BY <2>1 DEF C
<1> QED  BY <1>14, <1>19, <1>20

\* The file would hold a coefficient.
HasWeights(base) == \E m \in Modes : DOMAIN Weights(base)[m] # {}

\* A baseline with one more run has its entries, and keeps every weight there is.
LEMMA UpdatedGrows ==
  ASSUME NEW base \in Bases, NEW k \in Keys, NEW rs \in SUBSET Actors, IsFiniteSet(rs)
  PROVE  /\ Updated(base, k, rs) \in Bases
         /\ Updated(base, k, rs)[k] = Aggregate(base[k], rs)
         /\ \A q \in Keys \ {k} : Updated(base, k, rs)[q] = base[q]
         /\ HasWeights(base) => HasWeights(Updated(base, k, rs))
<1> DEFINE new == Updated(base, k, rs)
<1>1. base[k] \in Entry /\ Aggregate(base[k], rs) \in Entry  BY AggregateGrows DEF Bases
<1>2. new \in Bases /\ new[k] = Aggregate(base[k], rs) /\ \A q \in Keys \ {k} : new[q] = base[q]
  BY <1>1 DEF Updated, Bases
<1> HIDE DEF new
<1>3. ASSUME NEW q \in Keys, DOMAIN Coefficients(base[q]) # {}
      PROVE  DOMAIN Coefficients(new[q]) # {}
  <2>1. CASE q # k  BY <1>2, <1>3, <2>1
  <2>2. CASE q = k
    <3>1. PICK t \in Types : base[k].by[t].samples > 0 /\ base[k].by[t].tokens > 0
      BY <1>1, <1>3, <2>2, CoefficientsThere
    <3>2. Below(base[k].by[t], new[k].by[t])  BY <1>1, <1>2, AggregateGrows
    <3>3. base[k].by[t] \in Agg /\ new[k].by[t] \in Agg  BY <1>1, <1>2 DEF Entry
    <3>4. new[k].by[t].samples > 0 /\ new[k].by[t].tokens > 0  BY <3>1, <3>2, <3>3 DEF Below, Agg
    <3>5. new[k] \in Entry  BY <1>1, <1>2
    <3> QED  BY <2>2, <3>4, <3>5, CoefficientsThere
  <2> QED  BY <2>1, <2>2
<1>4. ASSUME HasWeights(base) PROVE HasWeights(new)
  <2>1. PICK m \in Modes : DOMAIN Weights(base)[m] # {}  BY <1>4 DEF HasWeights
  <2>2. PICK p \in ToSet(Repos) : DOMAIN Coefficients(base[<<p, m>>]) # {}
    BY <2>1, WeightsThere
  <2>3. <<p, m>> \in Keys  BY DEF Keys
  <2>4. DOMAIN Coefficients(new[<<p, m>>]) # {}  BY <1>3, <2>2, <2>3
  <2>5. DOMAIN Weights(new)[m] # {}  BY <1>2, <2>4, WeightsThere
  <2> QED  BY <2>5 DEF HasWeights
<1> QED  BY <1>2, <1>4 DEF new

-----------------------------------------------------------------------------
(* Across runs: the inductive invariant. *)

\* What an actor keeps between its steps, and where it may be.
Slot == [run : Runs \cup {NoRun}, mode : Modes, rows : SUBSET Actors, base : Bases]

Places ==
  {"idle", "list", "truncate", "fill", "rows", "empty", "save", "weigh", "done"}

\* The shape of every variable; only a session comes to the baseline.
Well ==
  /\ newest \in [ToSet(Repos) -> Runs \cup {NoRun}]
  /\ rows \in [Runs -> SUBSET Actors]
  /\ \A r \in Runs : IsFiniteSet(rows[r])
  /\ ledger \in [Runs -> {Torn} \cup {Whole(rs) : rs \in SUBSET Actors}]
  /\ baseline \in {Torn} \cup {Whole(base) : base \in Bases}
  /\ pc \in [Actors -> Places]
  /\ mem \in [Actors -> Slot]
  /\ due \in Bases
  /\ crossed \subseteq Actors /\ sound \subseteq Runs
  /\ \A a \in Actors : pc[a] \in {"list", "truncate", "fill", "rows"} => mem[a].run \in Runs
  /\ \A w \in Stops : pc[w] \notin {"rows", "empty", "save", "weigh"}

\* The rows that were added since an undisturbed writer read them are those of actors
\* that have not read them yet.
Healing ==
  /\ \A a \in Actors :
       pc[a] \in {"truncate", "fill"} /\ a \notin crossed =>
         /\ mem[a].rows \subseteq rows[mem[a].run]
         /\ \A b \in rows[mem[a].run] \ mem[a].rows :
              pc[b] = "list" /\ mem[b].run = mem[a].run
  /\ LedgerHeals

\* One hook at a time: it holds what is due, and then the file does.
Counting ==
  calm =>
    /\ \A s, v \in AtBaseline : s = v
    /\ \A s \in Sessions : pc[s] \in {"empty", "save"} => mem[s].base = due
    /\ (\A s \in Sessions : pc[s] \notin {"empty", "save"}) => baseline = Whole(due)
    /\ weights # None => HasWeights(due) /\ (AtBaseline = {} => weights.of = Weights(due))

\* No more ends and rows than there were, and the calls are those of agents.
Within(e, d) ==
  /\ e.runs <= d.runs
  /\ \A t \in Types : Below(e.by[t], d.by[t]) /\ Fair(e.by[t])

\* Within what is due: what a reader gets of the file, and what every hook holds.
Bounded ==
  \A k \in Keys :
    /\ Within(LoadBaseline(baseline)[k], due[k])
    /\ \A a \in Actors : Within(mem[a].base[k], due[k])

\* The baseline of a reader without a file is one, and bounds nothing from below.
LEMMA EmptyFile ==
  /\ Empty \in Bases /\ Nothing \in Slot
  /\ \A k \in Keys, d \in Entry : Within(Empty[k], d)
<1>1. NoSamples \in Agg /\ Fair(NoSamples)  BY DEF NoSamples, Agg, Fair
<1>2. Fresh \in Entry /\ Fresh.runs = 0 /\ \A t \in Types : Fresh.by[t] = NoSamples
  BY <1>1 DEF Fresh, Entry
<1>3. Empty \in Bases /\ \A k \in Keys : Empty[k] = Fresh  BY <1>2 DEF Empty, Bases
<1>4. "unknown" \in Modes  BY DEF Modes
<1>5. Nothing \in Slot  BY <1>3, <1>4 DEF Nothing, Slot
<1>6. ASSUME NEW d \in Entry PROVE Within(Fresh, d)
  <2>1. d.runs \in Nat /\ \A t \in Types : d.by[t] \in Agg  BY DEF Entry
  <2>2. ASSUME NEW y \in Agg PROVE Below(NoSamples, y)  BY DEF Below, NoSamples, Agg
  <2> QED  BY <1>1, <1>2, <2>1, <2>2 DEF Within
<1> QED  BY <1>3, <1>5, <1>6

\* Whatever state the file is in, a reader gets a baseline.
LEMMA Loaded == ASSUME Well PROVE LoadBaseline(baseline) \in Bases
BY EmptyFile DEF Well, LoadBaseline, Torn, Whole

\* At the start nothing is under way and every file is empty.
LEMMA WellInit == BaselineInit => Well
<1> SUFFICES ASSUME BaselineInit PROVE Well  OBVIOUS
<1>1. \A r \in Runs : IsFiniteSet(rows[r])  BY FS_EmptySet DEF BaselineInit
<1>2. mem \in [Actors -> Slot]  BY EmptyFile DEF BaselineInit
<1>3. baseline \in {Whole(base) : base \in Bases} /\ due \in Bases  BY EmptyFile DEF BaselineInit
<1>4. ledger \in [Runs -> {Whole(rs) : rs \in SUBSET Actors}]  BY DEF BaselineInit
<1>5. /\ newest \in [ToSet(Repos) -> Runs \cup {NoRun}]
      /\ rows \in [Runs -> SUBSET Actors]
      /\ pc \in [Actors -> Places] /\ \A a \in Actors : pc[a] = "idle"
      /\ crossed \subseteq Actors /\ sound \subseteq Runs
  BY DEF BaselineInit, Places
<1>6. Stops \subseteq Actors  BY DEF Actors
<1> QED  BY <1>1, <1>2, <1>3, <1>4, <1>5, <1>6 DEF Well

\* At the start no one writes a ledger.jsonl, and each has the rows of its run.
LEMMA HealingInit == BaselineInit => Healing
BY DEF BaselineInit, Healing, LedgerHeals

\* At the start baseline.json has what is due: nothing.
LEMMA CountingInit == BaselineInit => Counting
BY DEF BaselineInit, Counting, AtBaseline, Actors

\* At the start nothing is counted anywhere.
LEMMA BoundedInit == BaselineInit => Bounded
<1> SUFFICES ASSUME BaselineInit PROVE Bounded  OBVIOUS
<1>1. LoadBaseline(baseline) = Empty  BY DEF BaselineInit, LoadBaseline, Whole
<1>2. \A a \in Actors : mem[a].base = Empty  BY DEF BaselineInit, Nothing
<1>3. \A k \in Keys : due[k] \in Entry  BY EmptyFile DEF BaselineInit, Bases
<1> QED  BY <1>1, <1>2, <1>3, EmptyFile DEF Bounded

\* A step of a session, of a stop or of either, one action at a time.
Moves ==
  \/ \E s \in Sessions : \/ Touch(s) \/ EndSession(s) \/ UpdateBaseline(s)
                         \/ EmptyBaseline(s) \/ SaveBaseline(s) \/ RecalibrateWeights(s)
  \/ \E w \in Stops : BeginStop(w)
  \/ \E a \in Actors : List(a) \/ Truncate(a) \/ Fill(a) \/ Die(a)

\* BaselineNext offers no other actions.
LEMMA NextMoves == BaselineNext => Moves
BY DEF BaselineNext, Moves, HandleSessionEnd, WriteRunArtifacts

\* Every action leaves the state well formed.
LEMMA WellStep == Well /\ [BaselineNext]_baselineVars => Well'
<1> SUFFICES ASSUME Well, [BaselineNext]_baselineVars PROVE Well'  OBVIOUS
<1> USE DEF Places
<1>0. /\ \A s \in Sessions : s \in Actors /\ s \notin Stops
      /\ \A w \in Stops : w \in Actors /\ w \notin Sessions
  BY BaselineAssumption DEF Actors
<1>1. ASSUME NEW s \in Sessions, Touch(s) PROVE Well'
  <2>1. newest' \in [ToSet(Repos) -> Runs \cup {NoRun}]
    BY <1>1, BaselineAssumption DEF Touch, Well
  <2> QED  BY <1>1, <2>1 DEF Touch, Well, disk
<1>2. ASSUME NEW s \in Sessions, EndSession(s) PROVE Well'
  <2> DEFINE r == newest[Home[s]]
  <2>1. r \in Runs \cup {NoRun}  BY BaselineAssumption DEF Well
  <2>2. UNCHANGED <<begun, newest, ledger, baseline, weights, due, calm, crossed, sound>>
    BY <1>2 DEF EndSession, disk
  <2>3. CASE r = NoRun
    <3>1. pc' = [pc EXCEPT ![s] = "done"] /\ UNCHANGED <<rows, mem>>
      BY <1>2, <2>3 DEF EndSession, FindLatestRun, To
    <3> QED  BY <1>0, <2>2, <3>1 DEF Well
  <2>4. CASE r # NoRun
    <3>1. /\ rows' = [rows EXCEPT ![r] = @ \cup {s}]
          /\ pc' = [pc EXCEPT ![s] = "list"]
          /\ \/ mem' = [mem EXCEPT ![s] = [@ EXCEPT !.run = r, !.mode = ModeOf[r]]]
             \/ mem' = [mem EXCEPT ![s].run = r]
      <4>1. FindLatestRun(Home[s]) = r  BY DEF FindLatestRun
      <4>2. /\ Row(s, r) /\ To(s, "list")
            /\ \/ mem' = [mem EXCEPT ![s] = [@ EXCEPT !.run = r, !.mode = ModeOf[r]]]
               \/ mem' = [mem EXCEPT ![s].run = r]
        <5> HIDE DEF r
        <5> QED  BY <1>2, <2>4, <4>1 DEF EndSession
      <4> HIDE DEF r
      <4> QED  BY <4>2 DEF Row, To
    <3>2. r \in Runs /\ ModeOf[r] \in Modes
      <4> HIDE DEF r
      <4> QED  BY <2>1, <2>4 DEF Modes
    <3>3. mem' \in [Actors -> Slot] /\ mem'[s].run = r /\ \A a \in Actors \ {s} : mem'[a] = mem[a]
      <4> HIDE DEF r
      <4>1. s \in Actors /\ mem[s] \in Slot /\ mem \in [Actors -> Slot]  BY <1>0 DEF Well
      <4>2. \E slot \in Slot : slot.run = r /\ mem' = [mem EXCEPT ![s] = slot]
        <5>1. [mem[s] EXCEPT !.run = r, !.mode = ModeOf[r]] \in Slot
          BY <3>2, <4>1 DEF Slot
        <5>2. [mem[s] EXCEPT !.run = r] \in Slot  BY <3>2, <4>1 DEF Slot
        <5>3. /\ [mem[s] EXCEPT !.run = r, !.mode = ModeOf[r]].run = r
              /\ [mem[s] EXCEPT !.run = r].run = r
          BY <4>1 DEF Slot
        <5> QED  BY <3>1, <4>1, <5>1, <5>2, <5>3
      <4> QED  BY <4>1, <4>2
    <3>4. \A q \in Runs : IsFiniteSet(rows'[q])
      BY <3>1, FS_AddElement DEF Well
    <3>5. rows' \in [Runs -> SUBSET Actors]
      <4> HIDE DEF r
      <4> QED  BY <1>0, <3>1, <3>2 DEF Well
    <3> QED  BY <1>0, <2>2, <3>1, <3>2, <3>3, <3>4, <3>5 DEF Well
  <2> QED  BY <2>3, <2>4
<1>3. ASSUME NEW s \in Sessions, UpdateBaseline(s) PROVE Well'
  <2> DEFINE k == <<Home[s], mem[s].mode>>  rs == rows[mem[s].run]
             slot == [Nothing EXCEPT !.base = Updated(LoadBaseline(baseline), k, rs)]
  <2>1. k \in Keys  BY <1>0, BaselineAssumption DEF Well, Slot, Keys
  <2>2. rs \in SUBSET Actors /\ IsFiniteSet(rs)  BY <1>0, <1>3 DEF UpdateBaseline, Well
  <2>3. /\ mem' = [mem EXCEPT ![s] = slot]
        /\ due' = Updated(due, k, rs)
        /\ pc' = [pc EXCEPT ![s] = "empty"]
        /\ UNCHANGED <<begun, newest, rows, ledger, baseline, weights, crossed, sound>>
    BY <1>3 DEF UpdateBaseline, To, disk, Updated
  <2> HIDE DEF k, rs
  <2>4. Updated(LoadBaseline(baseline), k, rs) \in Bases  BY <2>1, <2>2, Loaded, UpdatedGrows
  <2>5. slot \in Slot  BY <2>4, EmptyFile DEF Slot
  <2>6. due' \in Bases  BY <2>1, <2>2, <2>3, UpdatedGrows DEF Well
  <2> HIDE DEF slot
  <2> QED  BY <1>0, <2>3, <2>5, <2>6 DEF Well
<1>4. ASSUME NEW s \in Sessions, EmptyBaseline(s) PROVE Well'
  <2>1. /\ baseline' \in {baseline, Torn}
        /\ \/ pc' = [pc EXCEPT ![s] = "save"]
           \/ pc' = [pc EXCEPT ![s] = "weigh"]
        /\ UNCHANGED <<begun, newest, rows, ledger, weights, mem, due, crossed, sound>>
    BY <1>4 DEF EmptyBaseline, To
  <2> QED  BY <1>0, <2>1 DEF Well
<1>5. ASSUME NEW s \in Sessions, SaveBaseline(s) PROVE Well'
  <2>1. mem[s].base \in Bases  BY <1>0 DEF Well, Slot
  <2>2. /\ baseline' \in {Torn, Whole(mem[s].base)}
        /\ pc' = [pc EXCEPT ![s] = "weigh"]
        /\ UNCHANGED <<begun, newest, rows, ledger, weights, mem, due, crossed, sound>>
    BY <1>5 DEF SaveBaseline, To
  <2>3. baseline' \in {Torn} \cup {Whole(base) : base \in Bases}  BY <2>1, <2>2
  <2> QED  BY <1>0, <2>2, <2>3 DEF Well
<1>6. ASSUME NEW s \in Sessions, RecalibrateWeights(s) PROVE Well'
  <2>1. /\ pc' = [pc EXCEPT ![s] = "done"] /\ mem' = [mem EXCEPT ![s] = Nothing]
        /\ UNCHANGED <<begun, newest, rows, ledger, baseline, due, crossed, sound>>
    BY <1>6 DEF RecalibrateWeights, Done, To
  <2> QED  BY <1>0, <2>1, EmptyFile DEF Well
<1>7. ASSUME NEW w \in Stops, BeginStop(w) PROVE Well'
  <2> DEFINE r == StopRun[w]
  <2>1. r \in Runs  BY BaselineAssumption
  <2>2. /\ rows' = [rows EXCEPT ![r] = @ \cup {w}]
        /\ pc' = [pc EXCEPT ![w] = "list"]
        /\ mem' = [mem EXCEPT ![w].run = r]
        /\ UNCHANGED <<begun, newest, ledger, baseline, weights, due, crossed, sound>>
    BY <1>7 DEF BeginStop, To, Row, disk
  <2>3. mem' \in [Actors -> Slot] /\ mem'[w].run = r /\ \A a \in Actors \ {w} : mem'[a] = mem[a]
    BY <1>0, <2>1, <2>2 DEF Well, Slot
  <2>4. \A q \in Runs : IsFiniteSet(rows'[q])  BY <2>2, FS_AddElement DEF Well
  <2>5. rows' \in [Runs -> SUBSET Actors]  BY <1>0, <2>2 DEF Well
  <2> QED  BY <1>0, <2>1, <2>2, <2>3, <2>4, <2>5 DEF Well
<1>8. ASSUME NEW a \in Actors, List(a) PROVE Well'
  <2>1. mem[a].run \in Runs  BY <1>8 DEF List, Well
  <2>2. /\ mem' = [mem EXCEPT ![a].rows = rows[mem[a].run]]
        /\ pc' = [pc EXCEPT ![a] = "truncate"]
        /\ crossed' \subseteq crossed \cup Writers(mem[a].run) \cup {a}
        /\ UNCHANGED <<begun, newest, rows, ledger, baseline, weights, due, sound>>
    BY <1>8 DEF List, To, disk
  <2>3. mem' \in [Actors -> Slot] /\ \A b \in Actors : mem'[b].run = mem[b].run
    BY <2>1, <2>2 DEF Well, Slot
  <2>4. crossed' \subseteq Actors  BY <2>2 DEF Well, Writers
  <2> QED  BY <1>0, <2>1, <2>2, <2>3, <2>4 DEF Well
<1>9. ASSUME NEW a \in Actors, Truncate(a) PROVE Well'
  <2>1. mem[a].run \in Runs  BY <1>9 DEF Truncate, Well
  <2>2. /\ ledger' = [ledger EXCEPT ![mem[a].run] = Torn]
        /\ pc' = [pc EXCEPT ![a] = "fill"]
        /\ UNCHANGED <<begun, newest, rows, baseline, weights, mem, due, crossed, sound>>
    BY <1>9 DEF Truncate, To
  <2>3. ledger' \in [Runs -> {Torn} \cup {Whole(rs) : rs \in SUBSET Actors}]
    BY <2>1, <2>2 DEF Well
  <2> QED  BY <1>0, <2>1, <2>2, <2>3 DEF Well
<1>10. ASSUME NEW a \in Actors, Fill(a) PROVE Well'
  <2> DEFINE r == mem[a].run
  <2>1. r \in Runs /\ mem[a].rows \in SUBSET Actors  BY <1>10 DEF Fill, Well, Slot
  <2>2. /\ \/ ledger' = [ledger EXCEPT ![r] = Whole(mem[a].rows)]
           \/ ledger' = [ledger EXCEPT ![r] = Torn]
        /\ sound' \subseteq sound \cup {r}
        /\ UNCHANGED <<begun, newest, rows, baseline, weights, due, crossed>>
    BY <1>10 DEF Fill
  <2>3. \/ a \in Sessions /\ pc' = [pc EXCEPT ![a] = "rows"] /\ UNCHANGED mem
        \/ pc' = [pc EXCEPT ![a] = "done"] /\ mem' = [mem EXCEPT ![a] = Nothing]
    BY <1>10 DEF Fill, Done, To
  <2>4. ledger' \in [Runs -> {Torn} \cup {Whole(rs) : rs \in SUBSET Actors}]
    BY <2>1, <2>2 DEF Well
  <2>5. CASE a \in Sessions /\ pc' = [pc EXCEPT ![a] = "rows"] /\ UNCHANGED mem
    BY <1>0, <2>1, <2>2, <2>4, <2>5 DEF Well
  <2>6. CASE pc' = [pc EXCEPT ![a] = "done"] /\ mem' = [mem EXCEPT ![a] = Nothing]
    BY <1>0, <2>1, <2>2, <2>4, <2>6, EmptyFile DEF Well
  <2> QED  BY <2>3, <2>5, <2>6
<1>11. ASSUME NEW a \in Actors, Die(a) PROVE Well'
  <2>1. /\ pc' = [pc EXCEPT ![a] = "done"] /\ mem' = [mem EXCEPT ![a] = Nothing]
        /\ sound' \subseteq sound /\ crossed' \subseteq crossed \cup Writers(mem[a].run)
        /\ UNCHANGED <<begun, newest, rows, ledger, baseline, weights, due>>
    BY <1>11 DEF Die, Done, To, disk
  <2>2. crossed' \subseteq Actors  BY <2>1 DEF Well, Writers
  <2> QED  BY <1>0, <2>1, <2>2, EmptyFile DEF Well
<1>12. CASE UNCHANGED baselineVars  BY <1>12 DEF Well, baselineVars, disk
<1> QED
  BY <1>1, <1>2, <1>3, <1>4, <1>5, <1>6, <1>7, <1>8, <1>9, <1>10, <1>11, <1>12, NextMoves DEF Moves

\* The places of a writer of ledger.jsonl.
AtWork == {"list", "truncate", "fill"}

\* Nothing happens to a ledger.jsonl.
LEMMA HealingQuiet ==
  ASSUME Healing, Well, UNCHANGED <<rows, ledger, sound, crossed>>,
         \A a \in Actors : \/ pc'[a] = pc[a] /\ mem'[a] = mem[a]
                           \/ pc[a] \notin AtWork /\ pc'[a] \notin AtWork
  PROVE  Healing'
<1>1. LedgerHeals'
  <2> SUFFICES ASSUME NEW r \in sound, \A a \in Actors : pc'[a] \in AtWork => mem'[a].run # r
               PROVE  ledger[r] = Whole(rows[r])
    BY DEF LedgerHeals, AtWork
  <2>1. \A a \in Actors : pc[a] \in AtWork => mem[a].run # r  OBVIOUS
  <2> QED  BY <2>1 DEF Healing, LedgerHeals, AtWork
<1>2. ASSUME NEW a \in Actors, pc'[a] \in {"truncate", "fill"}, a \notin crossed
      PROVE  /\ mem'[a].rows \subseteq rows[mem'[a].run]
             /\ \A b \in rows[mem'[a].run] \ mem'[a].rows :
                  pc'[b] = "list" /\ mem'[b].run = mem'[a].run
  <2>1. pc'[a] = pc[a] /\ mem'[a] = mem[a]  BY <1>2 DEF AtWork
  <2>2. mem[a].run \in Runs  BY <1>2, <2>1 DEF Well
  <2>3. rows[mem[a].run] \subseteq Actors  BY <2>2 DEF Well
  <2>4. /\ mem[a].rows \subseteq rows[mem[a].run]
        /\ \A b \in rows[mem[a].run] \ mem[a].rows : pc[b] = "list" /\ mem[b].run = mem[a].run
    BY <1>2, <2>1 DEF Healing
  <2>5. \A b \in Actors : pc[b] = "list" => pc'[b] = pc[b] /\ mem'[b] = mem[b]  BY DEF AtWork
  <2> QED  BY <2>1, <2>3, <2>4, <2>5
<1> QED  BY <1>1, <1>2 DEF Healing

\* An actor gets its row.
LEMMA HealingRow ==
  ASSUME Healing, Well, NEW a \in Actors, NEW r \in Runs, pc[a] = "idle",
         rows' = [rows EXCEPT ![r] = @ \cup {a}], pc' = [pc EXCEPT ![a] = "list"],
         mem'[a].run = r, \A b \in Actors \ {a} : mem'[b] = mem[b],
         UNCHANGED <<ledger, sound, crossed>>
  PROVE  Healing'
<1>0. /\ pc'[a] = "list" /\ \A b \in Actors \ {a} : pc'[b] = pc[b]
      /\ rows'[r] = rows[r] \cup {a} /\ \A q \in Runs \ {r} : rows'[q] = rows[q]
      /\ \A q \in Runs : rows[q] \subseteq Actors
      /\ sound \subseteq Runs
  BY DEF Well
<1>1. LedgerHeals'
  <2> SUFFICES ASSUME NEW q \in sound, \A b \in Actors : pc'[b] \in AtWork => mem'[b].run # q
               PROVE  ledger[q] = Whole(rows'[q])
    BY DEF LedgerHeals, AtWork
  <2>1. q # r  BY <1>0 DEF AtWork
  <2>2. \A b \in Actors : pc[b] \in AtWork => mem[b].run # q  BY <1>0 DEF AtWork
  <2> QED  BY <1>0, <2>1, <2>2 DEF Healing, LedgerHeals, AtWork
<1>2. ASSUME NEW b \in Actors, pc'[b] \in {"truncate", "fill"}, b \notin crossed
      PROVE  /\ mem'[b].rows \subseteq rows'[mem'[b].run]
             /\ \A c \in rows'[mem'[b].run] \ mem'[b].rows :
                  pc'[c] = "list" /\ mem'[c].run = mem'[b].run
  <2>1. b # a /\ pc[b] = pc'[b] /\ mem'[b] = mem[b]  BY <1>0, <1>2
  <2>2. mem[b].run \in Runs  BY <1>2, <2>1 DEF Well
  <2>3. /\ mem[b].rows \subseteq rows[mem[b].run]
        /\ \A c \in rows[mem[b].run] \ mem[b].rows : pc[c] = "list" /\ mem[c].run = mem[b].run
    BY <1>2, <2>1 DEF Healing
  <2>4. rows[mem[b].run] \subseteq rows'[mem[b].run]  BY <1>0, <2>2
  <2>5. ASSUME NEW c \in rows'[mem[b].run] \ mem[b].rows
        PROVE  pc'[c] = "list" /\ mem'[c].run = mem[b].run
    <3>1. CASE c = a
      <4>1. mem[b].run = r
        <5> SUFFICES ASSUME mem[b].run # r PROVE FALSE  OBVIOUS
        <5>1. c \in rows[mem[b].run]  BY <1>0, <2>2
        <5> QED  BY <2>3, <3>1, <5>1
      <4> QED  BY <1>0, <3>1, <4>1
    <3>2. CASE c # a
      <4>1. c \in rows[mem[b].run] /\ c \in Actors  BY <1>0, <2>2, <3>2
      <4> QED  BY <1>0, <2>3, <3>2, <4>1
    <3> QED  BY <3>1, <3>2
  <2> QED  BY <2>1, <2>3, <2>4, <2>5
<1> QED  BY <1>1, <1>2 DEF Healing

\* An actor that reads the rows of its run misses none of them.
LEMMA HealingList ==
  ASSUME Healing, Well, NEW a \in Actors, List(a)
  PROVE  Healing'
<1> DEFINE r == mem[a].run
<1>0. /\ r \in Runs /\ pc[a] = "list"
      /\ pc' = [pc EXCEPT ![a] = "truncate"]
      /\ mem' = [mem EXCEPT ![a].rows = rows[r]]
      /\ crossed' = IF Writers(r) = {} THEN crossed \ {a} ELSE crossed \cup Writers(r) \cup {a}
      /\ UNCHANGED <<rows, ledger, sound>>
  BY DEF List, Well, To, disk
<1>1. /\ pc'[a] = "truncate" /\ \A b \in Actors \ {a} : pc'[b] = pc[b] /\ mem'[b] = mem[b]
      /\ mem'[a].rows = rows[r] /\ mem'[a].run = r
  <2> HIDE DEF r
  <2>1. mem \in [Actors -> Slot] /\ pc \in [Actors -> Places]  BY DEF Well
  <2>2. mem'[a] = [mem[a] EXCEPT !.rows = rows[r]]  BY <1>0, <2>1
  <2>3. mem[a] \in Slot  BY <2>1
  <2> QED  BY <1>0, <2>1, <2>2, <2>3 DEF Slot, r
<1> HIDE DEF r
<1>2. LedgerHeals'
  <2> SUFFICES ASSUME NEW q \in sound, \A b \in Actors : pc'[b] \in AtWork => mem'[b].run # q
               PROVE  ledger[q] = Whole(rows[q])
    BY <1>0 DEF LedgerHeals, AtWork
  <2>1. \A b \in Actors : pc[b] \in AtWork => mem[b].run # q  BY <1>0, <1>1 DEF AtWork, r
  <2> QED  BY <2>1 DEF Healing, LedgerHeals, AtWork
<1>3. ASSUME NEW b \in Actors, pc'[b] \in {"truncate", "fill"}, b \notin crossed'
      PROVE  /\ mem'[b].rows \subseteq rows[mem'[b].run]
             /\ \A c \in rows[mem'[b].run] \ mem'[b].rows :
                  pc'[c] = "list" /\ mem'[c].run = mem'[b].run
  <2>1. CASE b = a  BY <1>1, <2>1
  <2>2. CASE b # a
    <3>1. pc[b] = pc'[b] /\ mem'[b] = mem[b]  BY <1>1, <2>2
    <3>2. b \notin crossed  BY <1>0, <1>3, <2>2
    <3>3. mem[b].run # r
      <4> SUFFICES ASSUME mem[b].run = r PROVE FALSE  OBVIOUS
      <4>1. b \in Writers(r)  BY <1>3, <3>1 DEF Writers
      <4> QED  BY <1>0, <1>3, <4>1
    <3>4. /\ mem[b].rows \subseteq rows[mem[b].run]
          /\ \A c \in rows[mem[b].run] \ mem[b].rows : pc[c] = "list" /\ mem[c].run = mem[b].run
      BY <1>3, <3>1, <3>2 DEF Healing
    <3>5. mem[b].run \in Runs  BY <1>3, <3>1 DEF Well
    <3>6. rows[mem[b].run] \subseteq Actors  BY <3>5 DEF Well
    <3>7. \A c \in rows[mem[b].run] \ mem[b].rows : c # a  BY <3>3, <3>4 DEF r
    <3> QED  BY <1>1, <3>1, <3>4, <3>6, <3>7
  <2> QED  BY <2>1, <2>2
<1> QED  BY <1>0, <1>2, <1>3 DEF Healing

\* The file is torn only while its writer is at work.
LEMMA HealingTruncate ==
  ASSUME Healing, Well, NEW a \in Actors, Truncate(a)
  PROVE  Healing'
<1>0. /\ mem[a].run \in Runs /\ pc[a] = "truncate"
      /\ pc' = [pc EXCEPT ![a] = "fill"]
      /\ ledger' = [ledger EXCEPT ![mem[a].run] = Torn]
      /\ UNCHANGED <<rows, mem, sound, crossed>>
  BY DEF Truncate, Well, To
<1>1. /\ pc'[a] = "fill" /\ \A b \in Actors \ {a} : pc'[b] = pc[b]
      /\ \A q \in Runs \ {mem[a].run} : ledger'[q] = ledger[q]
  BY <1>0 DEF Well
<1>2. LedgerHeals'
  <2> SUFFICES ASSUME NEW q \in sound, \A b \in Actors : pc'[b] \in AtWork => mem[b].run # q
               PROVE  ledger'[q] = Whole(rows[q])
    BY <1>0 DEF LedgerHeals, AtWork
  <2>1. q # mem[a].run /\ q \in Runs  BY <1>1 DEF AtWork, Well
  <2>2. \A b \in Actors : pc[b] \in AtWork => mem[b].run # q  BY <1>0, <1>1 DEF AtWork
  <2> QED  BY <1>1, <2>1, <2>2 DEF Healing, LedgerHeals, AtWork
<1>3. ASSUME NEW b \in Actors, pc'[b] \in {"truncate", "fill"}, b \notin crossed
      PROVE  /\ mem[b].rows \subseteq rows[mem[b].run]
             /\ \A c \in rows[mem[b].run] \ mem[b].rows :
                  pc'[c] = "list" /\ mem[c].run = mem[b].run
  <2>1. pc[b] \in {"truncate", "fill"}  BY <1>0, <1>1, <1>3
  <2>2. /\ mem[b].rows \subseteq rows[mem[b].run]
        /\ \A c \in rows[mem[b].run] \ mem[b].rows : pc[c] = "list" /\ mem[c].run = mem[b].run
    BY <1>3, <2>1 DEF Healing
  <2>3. rows[mem[b].run] \subseteq Actors  BY <2>1 DEF Well
  <2> QED  BY <1>0, <1>1, <2>2, <2>3
<1> QED  BY <1>0, <1>2, <1>3 DEF Healing

\* An undisturbed writer leaves the file with every row of the run.
LEMMA HealingFill ==
  ASSUME Healing, Well, NEW a \in Actors, Fill(a)
  PROVE  Healing'
<1> DEFINE r == mem[a].run
<1>0. /\ r \in Runs /\ pc[a] = "fill"
      /\ pc'[a] \notin AtWork /\ \A b \in Actors \ {a} : pc'[b] = pc[b] /\ mem'[b] = mem[b]
      /\ UNCHANGED <<rows, crossed>>
  <2>1. \/ pc' = [pc EXCEPT ![a] = "rows"] /\ UNCHANGED mem
        \/ pc' = [pc EXCEPT ![a] = "done"] /\ mem' = [mem EXCEPT ![a] = Nothing]
    BY DEF Fill, Done, To
  <2>2. r \in Runs /\ pc[a] = "fill" /\ UNCHANGED <<rows, crossed>>  BY DEF Fill, Well
  <2> HIDE DEF r
  <2> QED  BY <2>1, <2>2 DEF AtWork, Well
<1>1. /\ a \notin crossed => ledger' = [ledger EXCEPT ![r] = Whole(mem[a].rows)]
      /\ \A q \in Runs \ {r} : ledger'[q] = ledger[q]
      /\ sound' = IF a \in crossed THEN sound \ {r} ELSE sound \cup {r}
  BY DEF Fill, Well
<1> HIDE DEF r
<1>2. LedgerHeals'
  <2> SUFFICES ASSUME NEW q \in sound', \A b \in Actors : pc'[b] \in AtWork => mem'[b].run # q
               PROVE  ledger'[q] = Whole(rows[q])
    BY <1>0 DEF LedgerHeals, AtWork
  <2>1. CASE q # r
    <3>1. q \in sound /\ q \in Runs  BY <1>1, <2>1 DEF Well
    <3>2. \A b \in Actors : pc[b] \in AtWork => mem[b].run # q  BY <1>0, <2>1 DEF r
    <3> QED  BY <1>1, <2>1, <3>1, <3>2 DEF Healing, LedgerHeals, AtWork
  <2>2. CASE q = r
    <3>1. a \notin crossed  BY <1>1, <2>2
    <3>2. /\ mem[a].rows \subseteq rows[r]
          /\ \A b \in rows[r] \ mem[a].rows : pc[b] = "list" /\ mem[b].run = r
      BY <1>0, <3>1 DEF Healing, r
    <3>3. \A b \in rows[r] \ mem[a].rows : b \in Actors /\ b # a
      BY <1>0, <3>2 DEF Well
    <3>4. \A b \in rows[r] \ mem[a].rows : FALSE  BY <1>0, <2>2, <3>2, <3>3 DEF AtWork
    <3>5. mem[a].rows = rows[r]  BY <3>2, <3>4
    <3>6. ledger'[r] = Whole(mem[a].rows)  BY <1>0, <1>1, <3>1 DEF Well
    <3> QED  BY <2>2, <3>5, <3>6
  <2> QED  BY <2>1, <2>2
<1>3. ASSUME NEW b \in Actors, pc'[b] \in {"truncate", "fill"}, b \notin crossed
      PROVE  /\ mem'[b].rows \subseteq rows[mem'[b].run]
             /\ \A c \in rows[mem'[b].run] \ mem'[b].rows :
                  pc'[c] = "list" /\ mem'[c].run = mem'[b].run
  <2>1. b # a /\ pc'[b] = pc[b] /\ mem'[b] = mem[b]  BY <1>0, <1>3 DEF AtWork
  <2>2. /\ mem[b].rows \subseteq rows[mem[b].run]
        /\ \A c \in rows[mem[b].run] \ mem[b].rows : pc[c] = "list" /\ mem[c].run = mem[b].run
    BY <1>3, <2>1 DEF Healing
  <2>3. rows[mem[b].run] \subseteq Actors  BY <1>3, <2>1 DEF Well
  <2> QED  BY <1>0, <2>1, <2>2, <2>3
<1> QED  BY <1>0, <1>2, <1>3 DEF Healing

\* A writer that dies takes its run out of the sound ones.
LEMMA HealingDie ==
  ASSUME Healing, Well, NEW a \in Actors, Die(a)
  PROVE  Healing'
<1>0. /\ pc' = [pc EXCEPT ![a] = "done"] /\ mem' = [mem EXCEPT ![a] = Nothing]
      /\ UNCHANGED <<rows, ledger>>
  BY DEF Die, Done, To, disk
<1>1. pc'[a] = "done" /\ \A b \in Actors \ {a} : pc'[b] = pc[b] /\ mem'[b] = mem[b]
  BY <1>0 DEF Well
<1>2. CASE pc[a] \notin AtWork
  <2>1. UNCHANGED <<sound, crossed>>  BY <1>2 DEF Die, AtWork
  <2> QED  BY <1>0, <1>1, <1>2, <2>1, HealingQuiet DEF AtWork
<1>3. CASE pc[a] \in AtWork
  <2> DEFINE r == mem[a].run
  <2>1. sound' = sound \ {r} /\ crossed' = crossed \cup Writers(r)  BY <1>3 DEF Die, AtWork
  <2> HIDE DEF r
  <2>2. LedgerHeals'
    <3> SUFFICES ASSUME NEW q \in sound', \A b \in Actors : pc'[b] \in AtWork => mem'[b].run # q
                 PROVE  ledger[q] = Whole(rows[q])
      BY <1>0 DEF LedgerHeals, AtWork
    <3>1. q \in sound /\ q # r  BY <2>1
    <3>2. \A b \in Actors : pc[b] \in AtWork => mem[b].run # q  BY <1>1, <3>1 DEF r
    <3> QED  BY <3>1, <3>2 DEF Healing, LedgerHeals, AtWork
  <2>3. ASSUME NEW b \in Actors, pc'[b] \in {"truncate", "fill"}, b \notin crossed'
        PROVE  /\ mem'[b].rows \subseteq rows[mem'[b].run]
               /\ \A c \in rows[mem'[b].run] \ mem'[b].rows :
                    pc'[c] = "list" /\ mem'[c].run = mem'[b].run
    <3>1. b # a /\ pc'[b] = pc[b] /\ mem'[b] = mem[b] /\ b \notin crossed  BY <1>1, <2>1, <2>3
    <3>2. /\ mem[b].rows \subseteq rows[mem[b].run]
          /\ \A c \in rows[mem[b].run] \ mem[b].rows : pc[c] = "list" /\ mem[c].run = mem[b].run
      BY <2>3, <3>1 DEF Healing
    <3>3. rows[mem[b].run] \subseteq Actors  BY <2>3, <3>1 DEF Well
    <3>4. mem[b].run # r
      <4> SUFFICES ASSUME mem[b].run = r PROVE FALSE  OBVIOUS
      <4>1. b \in Writers(r)  BY <2>3, <3>1 DEF Writers
      <4> QED  BY <2>1, <2>3, <4>1
    <3>5. \A c \in rows[mem[b].run] \ mem[b].rows : c # a  BY <3>2, <3>4 DEF r
    <3> QED  BY <1>0, <1>1, <3>1, <3>2, <3>3, <3>5
  <2> QED  BY <1>0, <2>2, <2>3 DEF Healing
<1> QED  BY <1>2, <1>3

\* Every action keeps the healing of ledger.jsonl.
LEMMA HealingStep ==
  ASSUME Healing, Well, [BaselineNext]_baselineVars
  PROVE  Healing'
<1>0. Sessions \subseteq Actors /\ Stops \subseteq Actors  BY DEF Actors
<1>1. ASSUME NEW s \in Sessions, EndSession(s) PROVE Healing'
  <2> DEFINE r == newest[Home[s]]
  <2>1. /\ r \in Runs \cup {NoRun} /\ pc[s] = "idle" /\ s \in Actors
        /\ UNCHANGED <<ledger, sound, crossed>>
    BY <1>0, <1>1, BaselineAssumption DEF Well, EndSession, disk
  <2>2. CASE r = NoRun
    <3>1. pc' = [pc EXCEPT ![s] = "done"] /\ UNCHANGED <<rows, mem>>
      BY <1>1, <2>2 DEF EndSession, FindLatestRun, To
    <3>2. \A a \in Actors : \/ pc'[a] = pc[a] /\ mem'[a] = mem[a]
                            \/ pc[a] \notin AtWork /\ pc'[a] \notin AtWork
      BY <2>1, <3>1 DEF Well, AtWork
    <3> QED  BY <2>1, <3>1, <3>2, HealingQuiet
  <2>3. CASE r # NoRun
    <3> HIDE DEF r
    <3>1. FindLatestRun(Home[s]) = r  BY DEF FindLatestRun, r
    <3>2. /\ Row(s, r) /\ To(s, "list")
          /\ \/ mem' = [mem EXCEPT ![s] = [@ EXCEPT !.run = r, !.mode = ModeOf[r]]]
             \/ mem' = [mem EXCEPT ![s].run = r]
      BY <1>1, <2>3, <3>1 DEF EndSession
    <3>3. mem[s] \in Slot /\ mem \in [Actors -> Slot]  BY <2>1 DEF Well
    <3>4. mem'[s].run = r /\ \A b \in Actors \ {s} : mem'[b] = mem[b]
      <4>1. /\ [mem[s] EXCEPT !.run = r, !.mode = ModeOf[r]].run = r
            /\ [mem[s] EXCEPT !.run = r].run = r
        BY <3>3 DEF Slot
      <4> QED  BY <2>1, <3>2, <3>3, <4>1
    <3>5. r \in Runs  BY <2>1, <2>3
    <3> QED  BY <2>1, <3>2, <3>4, <3>5, HealingRow DEF Row, To
  <2> QED  BY <2>2, <2>3
<1>2. ASSUME NEW w \in Stops, BeginStop(w) PROVE Healing'
  <2> DEFINE r == StopRun[w]
  <2>1. /\ r \in Runs /\ w \in Actors /\ pc[w] = "idle"
        /\ rows' = [rows EXCEPT ![r] = @ \cup {w}]
        /\ pc' = [pc EXCEPT ![w] = "list"]
        /\ mem' = [mem EXCEPT ![w].run = r]
        /\ UNCHANGED <<ledger, sound, crossed>>
    BY <1>0, <1>2, BaselineAssumption DEF BeginStop, To, Row, disk
  <2> HIDE DEF r
  <2>2. mem'[w].run = r /\ \A b \in Actors \ {w} : mem'[b] = mem[b]
    BY <2>1 DEF Well, Slot
  <2> QED  BY <2>1, <2>2, HealingRow
<1>3. ASSUME NEW s \in Sessions,
             Touch(s) \/ UpdateBaseline(s) \/ EmptyBaseline(s) \/ SaveBaseline(s) \/ RecalibrateWeights(s)
      PROVE  Healing'
  <2>1. UNCHANGED <<rows, ledger, sound, crossed>>
    BY <1>3 DEF Touch, UpdateBaseline, EmptyBaseline, SaveBaseline, RecalibrateWeights, disk
  <2>2. \/ UNCHANGED <<pc, mem>>
        \/ /\ pc[s] \in {"rows", "empty", "save", "weigh"}
           /\ \E p \in {"empty", "save", "weigh", "done"} : pc' = [pc EXCEPT ![s] = p]
           /\ \E x : mem' = [mem EXCEPT ![s] = x]
    <3>1. CASE Touch(s)  BY <3>1 DEF Touch
    <3>2. CASE UpdateBaseline(s)  BY <3>2 DEF UpdateBaseline, To
    <3>3. CASE EmptyBaseline(s)
      <4>1. mem' = [mem EXCEPT ![s] = mem[s]]  BY <1>0, <3>3 DEF EmptyBaseline, Well
      <4> QED  BY <3>3, <4>1 DEF EmptyBaseline, To
    <3>4. CASE SaveBaseline(s)
      <4>1. mem' = [mem EXCEPT ![s] = mem[s]]  BY <1>0, <3>4 DEF SaveBaseline, Well
      <4> QED  BY <3>4, <4>1 DEF SaveBaseline, To
    <3>5. CASE RecalibrateWeights(s)  BY <3>5 DEF RecalibrateWeights, Done, To
    <3> QED  BY <1>3, <3>1, <3>2, <3>3, <3>4, <3>5
  <2>3. \A a \in Actors : \/ pc'[a] = pc[a] /\ mem'[a] = mem[a]
                          \/ pc[a] \notin AtWork /\ pc'[a] \notin AtWork
    BY <1>0, <2>2 DEF Well, AtWork
  <2> QED  BY <2>1, <2>3, HealingQuiet
<1>4. CASE UNCHANGED baselineVars
  <2>1. UNCHANGED <<rows, ledger, sound, crossed, pc, mem>>  BY <1>4 DEF baselineVars, disk
  <2>2. \A a \in Actors : pc'[a] = pc[a] /\ mem'[a] = mem[a]  BY <2>1
  <2> QED  BY <2>1, <2>2, HealingQuiet
<1> QED
  BY <1>1, <1>2, <1>3, <1>4, NextMoves, HealingList, HealingTruncate, HealingFill, HealingDie
     DEF Moves

\* Nothing happens to a baseline.json, and no hook comes to it.
LEMMA CountingQuiet ==
  ASSUME Counting, Well, calm' => calm, UNCHANGED <<baseline, weights, due>>,
         \A s \in Sessions : \/ pc'[s] = pc[s] /\ mem'[s] = mem[s]
                             \/ /\ pc[s] \notin {"empty", "save", "weigh"}
                                /\ pc'[s] \notin {"empty", "save", "weigh"}
  PROVE  Counting'
<1>1. AtBaseline' = AtBaseline  BY DEF AtBaseline
<1>2. \A s \in Sessions : pc'[s] \in {"empty", "save"} <=> pc[s] \in {"empty", "save"}  OBVIOUS
<1>3. \A s \in Sessions : pc'[s] \in {"empty", "save"} => mem'[s] = mem[s]  OBVIOUS
<1> QED  BY <1>1, <1>2, <1>3 DEF Counting

\* A hook that finds no other at the baseline adds its end to what was due.
LEMMA CountingUpdate ==
  ASSUME Counting, Well, NEW s \in Sessions, UpdateBaseline(s)
  PROVE  Counting'
<1> SUFFICES ASSUME calm' PROVE Counting'  BY DEF Counting
<1> DEFINE k == <<Home[s], mem[s].mode>>  rs == rows[mem[s].run]
           slot == [Nothing EXCEPT !.base = Updated(LoadBaseline(baseline), k, rs)]
<1>0. s \in Actors /\ pc[s] = "rows" /\ mem[s] \in Slot  BY DEF Actors, UpdateBaseline, Well
<1>1. k \in Keys /\ rs \in SUBSET Actors /\ IsFiniteSet(rs)
  BY <1>0, BaselineAssumption DEF Well, Slot, Keys
<1>2. /\ mem' = [mem EXCEPT ![s] = slot]
      /\ due' = Updated(due, k, rs)
      /\ pc' = [pc EXCEPT ![s] = "empty"]
      /\ calm /\ AtBaseline = {}
      /\ UNCHANGED <<baseline, weights>>
  BY DEF UpdateBaseline, To, disk, Updated
<1> HIDE DEF k, rs
<1>3. baseline = Whole(due)  BY <1>2 DEF Counting, AtBaseline
<1>4. LoadBaseline(baseline) = due  BY <1>3 DEF LoadBaseline, Whole
<1>5. slot.base = due'  BY <1>2, <1>4 DEF Nothing
<1> HIDE DEF slot
<1>6. mem'[s].base = due' /\ pc'[s] = "empty" /\ \A v \in Sessions \ {s} : pc'[v] = pc[v]
  BY <1>0, <1>2, <1>5 DEF Well
<1>7. \A v \in Sessions : pc[v] \notin {"empty", "save", "weigh"}  BY <1>2 DEF AtBaseline
<1>8. AtBaseline' = {s}  BY <1>6, <1>7 DEF AtBaseline
<1>9. HasWeights(due) => HasWeights(due')  BY <1>1, <1>2, UpdatedGrows DEF Well
<1>10. weights # None => HasWeights(due)  BY <1>2 DEF Counting
<1> QED  BY <1>2, <1>6, <1>7, <1>8, <1>9, <1>10 DEF Counting

\* Emptying the file disturbs nothing while one hook alone holds what is due.
LEMMA CountingEmpty ==
  ASSUME Counting, Well, NEW s \in Sessions, EmptyBaseline(s)
  PROVE  Counting'
<1> SUFFICES ASSUME calm' PROVE Counting'  BY DEF Counting
<1>1. /\ pc[s] = "empty" /\ pc' = [pc EXCEPT ![s] = "save"]
      /\ UNCHANGED <<mem, weights, due, calm>>
  BY DEF EmptyBaseline, To
<1>2. s \in Actors  BY DEF Actors
<1>3. pc'[s] = "save" /\ \A v \in Sessions \ {s} : pc'[v] = pc[v]  BY <1>1, <1>2 DEF Well
<1>4. AtBaseline' = AtBaseline  BY <1>1, <1>3 DEF AtBaseline
<1>5. \A v \in Sessions : pc'[v] \in {"empty", "save"} => pc[v] \in {"empty", "save"}
  BY <1>1, <1>3
<1> QED  BY <1>1, <1>3, <1>4, <1>5 DEF Counting

\* The only hook at the baseline writes what is due.
LEMMA CountingSave ==
  ASSUME Counting, Well, NEW s \in Sessions, SaveBaseline(s)
  PROVE  Counting'
<1> SUFFICES ASSUME calm' PROVE Counting'  BY DEF Counting
<1>1. /\ pc[s] = "save" /\ pc' = [pc EXCEPT ![s] = "weigh"]
      /\ UNCHANGED <<mem, weights, due, calm>>
      /\ \/ baseline' = Whole(mem[s].base)
         \/ \E v \in Sessions \ {s} : pc[v] = "save"
  BY DEF SaveBaseline, To
<1>2. s \in Actors  BY DEF Actors
<1>3. pc'[s] = "weigh" /\ \A v \in Sessions \ {s} : pc'[v] = pc[v]  BY <1>1, <1>2 DEF Well
<1>4. \A v \in AtBaseline : v = s  BY <1>1 DEF Counting, AtBaseline
<1>5. \A v \in Sessions \ {s} : pc[v] \notin {"empty", "save", "weigh"}  BY <1>4 DEF AtBaseline
<1>6. baseline' = Whole(due)  BY <1>1, <1>5 DEF Counting
<1>7. AtBaseline' = {s} /\ AtBaseline = {s}  BY <1>1, <1>3, <1>5 DEF AtBaseline
<1>8. \A v \in Sessions : pc'[v] \notin {"empty", "save"}  BY <1>3, <1>5
<1> QED  BY <1>1, <1>6, <1>7, <1>8 DEF Counting

\* The weights it writes then are those of what is due.
LEMMA CountingWeigh ==
  ASSUME Counting, Well, NEW s \in Sessions, RecalibrateWeights(s)
  PROVE  Counting'
<1> SUFFICES ASSUME calm' PROVE Counting'  BY DEF Counting
<1>0. pc[s] = "weigh" /\ calm /\ UNCHANGED <<baseline, due>>
  BY DEF RecalibrateWeights
<1>1. \A v \in AtBaseline : v = s  BY <1>0 DEF Counting, AtBaseline
<1>2. \A v \in Sessions \ {s} : pc[v] \notin {"empty", "save", "weigh"}  BY <1>1 DEF AtBaseline
<1>3. baseline = Whole(due)  BY <1>0, <1>2 DEF Counting
<1>4. LoadBaseline(baseline) = due  BY <1>3 DEF LoadBaseline, Whole
<1>5. pc' = [pc EXCEPT ![s] = "done"]  BY DEF RecalibrateWeights, Done, To
<1>6. s \in Actors  BY DEF Actors
<1>7. pc'[s] = "done" /\ \A v \in Sessions \ {s} : pc'[v] = pc[v]  BY <1>5, <1>6 DEF Well
<1>8. AtBaseline' = {}  BY <1>2, <1>7 DEF AtBaseline
<1>9. \A v \in Sessions : pc'[v] \notin {"empty", "save"}  BY <1>2, <1>7
<1>10. weights' # None => HasWeights(due) /\ weights'.of = Weights(due)
  <2>1. CASE HasWeights(due)
    <3>1. weights' = [kind |-> "weights", of |-> Weights(due)]
      BY <1>0, <1>4, <2>1 DEF RecalibrateWeights, HasWeights
    <3> QED  BY <2>1, <3>1
  <2>2. CASE ~HasWeights(due)
    <3>1. weights' = weights  BY <1>4, <2>2 DEF RecalibrateWeights, HasWeights
    <3>2. weights = None  BY <1>0, <2>2 DEF Counting
    <3> QED  BY <3>1, <3>2
  <2> QED  BY <2>1, <2>2
<1> QED  BY <1>0, <1>3, <1>8, <1>9, <1>10 DEF Counting

\* Every action keeps the count while the hooks come one at a time.
LEMMA CountingStep ==
  ASSUME Counting, Well, [BaselineNext]_baselineVars
  PROVE  Counting'
<1>0. \A s \in Sessions : s \in Actors /\ s \notin Stops  BY BaselineAssumption DEF Actors
<1>1. ASSUME NEW s \in Sessions, Touch(s) PROVE Counting'
  <2>1. UNCHANGED <<baseline, weights, due, calm, pc, mem>>  BY <1>1 DEF Touch, disk
  <2> QED  BY <2>1, CountingQuiet
<1>2. ASSUME NEW a \in Actors,
             (EndSession(a) /\ a \in Sessions) \/ BeginStop(a) \/ List(a) \/ Truncate(a) \/ Fill(a)
      PROVE  Counting'
  <2>1. UNCHANGED <<baseline, weights, due, calm>>
    BY <1>2 DEF EndSession, BeginStop, List, Truncate, Fill, disk
  <2>2. /\ pc[a] \notin {"empty", "save", "weigh"}
        /\ \E p \in {"list", "truncate", "fill", "rows", "done"} : pc' = [pc EXCEPT ![a] = p]
        /\ \E x : mem' = [mem EXCEPT ![a] = x]
    <3>1. CASE EndSession(a) /\ a \in Sessions
      <4>1. pc[a] = "idle"  BY <3>1 DEF EndSession
      <4>2. mem = [mem EXCEPT ![a] = mem[a]]  BY DEF Well
      <4> DEFINE r == FindLatestRun(Home[a])
      <4>3. \/ To(a, "done") /\ UNCHANGED mem
            \/ /\ To(a, "list")
               /\ \/ mem' = [mem EXCEPT ![a] = [@ EXCEPT !.run = r, !.mode = ModeOf[r]]]
                  \/ mem' = [mem EXCEPT ![a].run = r]
        BY <3>1 DEF EndSession
      <4> HIDE DEF r
      <4> QED  BY <4>1, <4>2, <4>3 DEF To
    <3>2. CASE BeginStop(a)  BY <3>2 DEF BeginStop, To
    <3>3. CASE List(a)  BY <3>3 DEF List, To
    <3>4. CASE Truncate(a)
      <4>1. mem' = [mem EXCEPT ![a] = mem[a]]  BY <3>4 DEF Truncate, Well
      <4> QED  BY <3>4, <4>1 DEF Truncate, To
    <3>5. CASE Fill(a)
      <4>1. mem = [mem EXCEPT ![a] = mem[a]]  BY DEF Well
      <4> QED  BY <3>5, <4>1 DEF Fill, To, Done
    <3> QED  BY <1>2, <3>1, <3>2, <3>3, <3>4, <3>5
  <2>3. \A s \in Sessions : \/ pc'[s] = pc[s] /\ mem'[s] = mem[s]
                            \/ /\ pc[s] \notin {"empty", "save", "weigh"}
                               /\ pc'[s] \notin {"empty", "save", "weigh"}
    BY <1>0, <2>2 DEF Well
  <2> QED  BY <2>1, <2>3, CountingQuiet
<1>3. ASSUME NEW a \in Actors, Die(a) PROVE Counting'
  <2>1. /\ calm' = (calm /\ pc[a] \in {"list", "truncate", "fill", "rows"})
        /\ pc' = [pc EXCEPT ![a] = "done"] /\ mem' = [mem EXCEPT ![a] = Nothing]
        /\ UNCHANGED <<baseline, weights, due>>
    BY <1>3 DEF Die, Done, To, disk
  <2>2. CASE calm'
    <3>1. \A s \in Sessions : \/ pc'[s] = pc[s] /\ mem'[s] = mem[s]
                              \/ /\ pc[s] \notin {"empty", "save", "weigh"}
                                 /\ pc'[s] \notin {"empty", "save", "weigh"}
      BY <1>0, <2>1, <2>2 DEF Well
    <3> QED  BY <2>1, <3>1, CountingQuiet
  <2>3. CASE ~calm'  BY <2>3 DEF Counting
  <2> QED  BY <2>2, <2>3
<1>4. CASE UNCHANGED baselineVars
  <2>1. UNCHANGED <<baseline, weights, due, calm, pc, mem>>  BY <1>4 DEF baselineVars, disk
  <2> QED  BY <2>1, CountingQuiet
<1>5. \A w \in Stops : w \in Actors  BY DEF Actors
<1> QED
  BY <1>0, <1>1, <1>2, <1>3, <1>4, <1>5, NextMoves, CountingUpdate, CountingEmpty, CountingSave,
     CountingWeigh
     DEF Moves

\* What is within stays within when one more end is counted on both sides, or on the
\* side of what is due alone.
LEMMA WithinUpdated ==
  ASSUME NEW b \in Bases, NEW d \in Bases, NEW k \in Keys, NEW rs \in SUBSET Actors,
         IsFiniteSet(rs), \A q \in Keys : Within(b[q], d[q])
  PROVE  \A q \in Keys : Within(Updated(b, k, rs)[q], Updated(d, k, rs)[q])
<1> SUFFICES ASSUME NEW q \in Keys PROVE Within(Updated(b, k, rs)[q], Updated(d, k, rs)[q])
  OBVIOUS
<1>1. CASE q # k  BY <1>1, UpdatedGrows
<1>2. CASE q = k
  <2>1. b[k] \in Entry /\ d[k] \in Entry /\ Within(b[k], d[k])  BY DEF Bases
  <2>2. /\ Updated(b, k, rs)[q] = Aggregate(b[k], rs)
        /\ Updated(d, k, rs)[q] = Aggregate(d[k], rs)
    BY <1>2, UpdatedGrows
  <2>3. Aggregate(b[k], rs).runs <= Aggregate(d[k], rs).runs
    <3>1. /\ Aggregate(b[k], rs).runs = b[k].runs + 1
          /\ Aggregate(d[k], rs).runs = d[k].runs + 1
      BY <2>1, AggregateGrows
    <3>2. b[k].runs \in Nat /\ d[k].runs \in Nat /\ b[k].runs <= d[k].runs
      BY <2>1 DEF Within, Entry
    <3> QED  BY <3>1, <3>2
  <2>4. ASSUME NEW t \in Types
        PROVE  /\ Below(Aggregate(b[k], rs).by[t], Aggregate(d[k], rs).by[t])
               /\ Fair(Aggregate(b[k], rs).by[t])
    <3>1. Below(b[k].by[t], d[k].by[t]) /\ Fair(b[k].by[t])  BY <2>1 DEF Within
    <3> QED  BY <2>1, <3>1, AggregateMore, AggregateFair
  <2> QED  BY <2>2, <2>3, <2>4 DEF Within
<1> QED  BY <1>1, <1>2

\* And what is within stays within when what is due has one more end.
LEMMA WithinLater ==
  ASSUME NEW b \in Bases, NEW d \in Bases, NEW k \in Keys, NEW rs \in SUBSET Actors,
         IsFiniteSet(rs), \A q \in Keys : Within(b[q], d[q])
  PROVE  \A q \in Keys : Within(b[q], Updated(d, k, rs)[q])
<1> SUFFICES ASSUME NEW q \in Keys PROVE Within(b[q], Updated(d, k, rs)[q])
  OBVIOUS
<1>1. CASE q # k  BY <1>1, UpdatedGrows
<1>2. CASE q = k
  <2>1. b[k] \in Entry /\ d[k] \in Entry /\ Within(b[k], d[k])  BY DEF Bases
  <2>2. Updated(d, k, rs)[q] = Aggregate(d[k], rs)  BY <1>2, UpdatedGrows
  <2>3. b[k].runs <= Aggregate(d[k], rs).runs
    <3>1. Aggregate(d[k], rs).runs = d[k].runs + 1  BY <2>1, AggregateGrows
    <3>2. b[k].runs \in Nat /\ d[k].runs \in Nat /\ b[k].runs <= d[k].runs
      BY <2>1 DEF Within, Entry
    <3> QED  BY <3>1, <3>2
  <2>4. ASSUME NEW t \in Types
        PROVE  Below(b[k].by[t], Aggregate(d[k], rs).by[t]) /\ Fair(b[k].by[t])
    <3>1. Below(b[k].by[t], d[k].by[t]) /\ Fair(b[k].by[t])  BY <2>1 DEF Within
    <3>2. Below(d[k].by[t], Aggregate(d[k], rs).by[t]) /\ Aggregate(d[k], rs) \in Entry
      BY <2>1, AggregateGrows
    <3>3. b[k].by[t] \in Agg /\ d[k].by[t] \in Agg /\ Aggregate(d[k], rs).by[t] \in Agg
      BY <2>1, <3>2 DEF Entry
    <3> QED  BY <3>1, <3>2, <3>3 DEF Below, Agg
  <2> QED  BY <1>2, <2>2, <2>3, <2>4 DEF Within
<1> QED  BY <1>1, <1>2

\* No action makes up an end, a row or a call.
LEMMA BoundedStep ==
  ASSUME Bounded, Well, [BaselineNext]_baselineVars
  PROVE  Bounded'
<1>0. \A s \in Sessions : s \in Actors  BY DEF Actors
<1>1. /\ LoadBaseline(baseline) \in Bases /\ due \in Bases
      /\ \A a \in Actors : mem[a] \in Slot /\ mem[a].base \in Bases
  BY Loaded DEF Well, Slot
<1>2. \A k \in Keys : due[k] \in Entry  BY <1>1 DEF Bases
\* The steps that leave what is due as it is, and write what some actor holds.
<1>3. ASSUME UNCHANGED due,
             LoadBaseline(baseline)' \in {LoadBaseline(baseline), Empty} \cup {mem[a].base : a \in Actors},
             \A a \in Actors : mem'[a].base \in {mem[a].base, Empty}
      PROVE  Bounded'
  <2>1. \A k \in Keys : Within(Empty[k], due[k])  BY <1>2, EmptyFile
  <2>2. \A k \in Keys : Within(LoadBaseline(baseline)'[k], due[k])
    BY <1>3, <2>1 DEF Bounded
  <2>3. \A k \in Keys, a \in Actors : Within(mem'[a].base[k], due[k])
    BY <1>3, <2>1 DEF Bounded
  <2> QED  BY <1>3, <2>2, <2>3 DEF Bounded
<1>4. ASSUME NEW s \in Sessions, UpdateBaseline(s) PROVE Bounded'
  <2> DEFINE k == <<Home[s], mem[s].mode>>  rs == rows[mem[s].run]
             base == LoadBaseline(baseline)
             slot == [Nothing EXCEPT !.base = Updated(base, k, rs)]
  <2>1. k \in Keys  BY <1>0, <1>1, BaselineAssumption DEF Slot, Keys
  <2>2. rs \in SUBSET Actors /\ IsFiniteSet(rs)  BY <1>0, <1>4 DEF UpdateBaseline, Well
  <2>3. /\ mem' = [mem EXCEPT ![s] = slot] /\ due' = Updated(due, k, rs)
        /\ LoadBaseline(baseline)' = base
    BY <1>4 DEF UpdateBaseline, disk, Updated, LoadBaseline
  <2> HIDE DEF k, rs, base
  <2>4. slot.base = Updated(base, k, rs)  BY DEF Nothing
  <2> HIDE DEF slot
  <2>5. mem'[s].base = Updated(base, k, rs) /\ \A a \in Actors \ {s} : mem'[a] = mem[a]
    BY <1>0, <2>3, <2>4 DEF Well
  <2>6. base \in Bases /\ \A q \in Keys : Within(base[q], due[q])  BY <1>1 DEF Bounded, base
  <2>7. \A q \in Keys : /\ Within(base[q], due'[q])
                        /\ Within(Updated(base, k, rs)[q], due'[q])
    BY <1>1, <2>1, <2>2, <2>3, <2>6, WithinUpdated, WithinLater
  <2>8. ASSUME NEW a \in Actors \ {s} PROVE \A q \in Keys : Within(mem[a].base[q], due'[q])
    <3>1. mem[a].base \in Bases /\ \A q \in Keys : Within(mem[a].base[q], due[q])
      BY <1>1 DEF Bounded
    <3> QED  BY <1>1, <2>1, <2>2, <2>3, <3>1, WithinLater
  <2>9. \A q \in Keys, a \in Actors : Within(mem'[a].base[q], due'[q])
    BY <2>5, <2>7, <2>8
  <2> QED  BY <2>3, <2>7, <2>9 DEF Bounded
<1>5. Nothing.base = Empty  BY DEF Nothing
<1>6. \A x \in Slot : \A r, m : /\ [x EXCEPT !.run = r].base = x.base
                            /\ [x EXCEPT !.run = r, !.mode = m].base = x.base
                            /\ [x EXCEPT !.rows = r].base = x.base
  BY DEF Slot
<1>7. LoadBaseline(Torn) = Empty /\ \A b : LoadBaseline(Whole(b)) = b
  BY DEF LoadBaseline, Torn, Whole
<1>8. ASSUME NEW s \in Sessions, Touch(s) PROVE Bounded'
  <2>1. UNCHANGED <<due, mem, baseline>>  BY <1>8 DEF Touch, disk
  <2>2. LoadBaseline(baseline)' = LoadBaseline(baseline)  BY <2>1 DEF LoadBaseline
  <2> QED  BY <1>3, <2>1, <2>2
<1>9. ASSUME NEW s \in Sessions, EndSession(s) PROVE Bounded'
  <2> DEFINE r == FindLatestRun(Home[s])
  <2>1. UNCHANGED <<due, baseline>>  BY <1>9 DEF EndSession, disk
  <2>2. LoadBaseline(baseline)' = LoadBaseline(baseline)  BY <2>1 DEF LoadBaseline
  <2>3. \/ UNCHANGED mem
        \/ mem' = [mem EXCEPT ![s] = [mem[s] EXCEPT !.run = r, !.mode = ModeOf[r]]]
        \/ mem' = [mem EXCEPT ![s] = [mem[s] EXCEPT !.run = r]]
    BY <1>9 DEF EndSession
  <2> HIDE DEF r
  <2>4. \A a \in Actors : mem'[a].base = mem[a].base
    <3>1. CASE UNCHANGED mem  BY <3>1
    <3>2. CASE mem' = [mem EXCEPT ![s] = [mem[s] EXCEPT !.run = r, !.mode = ModeOf[r]]]
      BY <1>0, <1>1, <1>6, <3>2 DEF Well
    <3>3. CASE mem' = [mem EXCEPT ![s] = [mem[s] EXCEPT !.run = r]]
      BY <1>0, <1>1, <1>6, <3>3 DEF Well
    <3> QED  BY <2>3, <3>1, <3>2, <3>3
  <2> QED  BY <1>3, <2>1, <2>2, <2>4
<1>10. ASSUME NEW w \in Stops, BeginStop(w) PROVE Bounded'
  <2>1. UNCHANGED <<due, baseline>> /\ mem' = [mem EXCEPT ![w] = [mem[w] EXCEPT !.run = StopRun[w]]]
    BY <1>10 DEF BeginStop, disk
  <2>2. LoadBaseline(baseline)' = LoadBaseline(baseline)  BY <2>1 DEF LoadBaseline
  <2>3. w \in Actors  BY DEF Actors
  <2>4. \A a \in Actors : mem'[a].base = mem[a].base  BY <1>1, <1>6, <2>1, <2>3 DEF Well
  <2> QED  BY <1>3, <2>1, <2>2, <2>4
<1>11. ASSUME NEW a \in Actors, List(a) PROVE Bounded'
  <2>1. UNCHANGED <<due, baseline>> /\ mem' = [mem EXCEPT ![a] = [mem[a] EXCEPT !.rows = rows[mem[a].run]]]
    BY <1>11 DEF List, disk
  <2>2. LoadBaseline(baseline)' = LoadBaseline(baseline)  BY <2>1 DEF LoadBaseline
  <2>3. \A b \in Actors : mem'[b].base = mem[b].base  BY <1>1, <1>6, <2>1 DEF Well
  <2> QED  BY <1>3, <2>1, <2>2, <2>3
<1>12. ASSUME NEW a \in Actors, Truncate(a) \/ Fill(a) \/ Die(a) PROVE Bounded'
  <2>1. /\ UNCHANGED <<due, baseline>>
        /\ UNCHANGED mem \/ mem' = [mem EXCEPT ![a] = Nothing]
    BY <1>12 DEF Truncate, Fill, Die, Done, disk
  <2>2. LoadBaseline(baseline)' = LoadBaseline(baseline)  BY <2>1 DEF LoadBaseline
  <2>3. \A b \in Actors : mem'[b].base \in {mem[b].base, Empty}  BY <1>5, <2>1 DEF Well
  <2> QED  BY <1>3, <2>1, <2>2, <2>3
<1>13. ASSUME NEW s \in Sessions, EmptyBaseline(s) \/ SaveBaseline(s) PROVE Bounded'
  <2>1. UNCHANGED <<due, mem>> /\ baseline' \in {baseline, Torn, Whole(mem[s].base)}
    BY <1>13 DEF EmptyBaseline, SaveBaseline
  <2>2. LoadBaseline(baseline)' \in {LoadBaseline(baseline), Empty, mem[s].base}
    <3>1. LoadBaseline(baseline)' = LoadBaseline(baseline')  BY DEF LoadBaseline
    <3> QED  BY <1>7, <2>1, <3>1
  <2>3. \A b \in Actors : mem'[b].base \in {mem[b].base, Empty}  BY <2>1
  <2>4. LoadBaseline(baseline)' \in {LoadBaseline(baseline), Empty} \cup {mem[a].base : a \in Actors}
    BY <1>0, <2>2
  <2> QED  BY <1>3, <2>1, <2>3, <2>4
<1>14. ASSUME NEW s \in Sessions, RecalibrateWeights(s) PROVE Bounded'
  <2>1. UNCHANGED <<due, baseline>> /\ mem' = [mem EXCEPT ![s] = Nothing]
    BY <1>14 DEF RecalibrateWeights, Done
  <2>2. LoadBaseline(baseline)' = LoadBaseline(baseline)  BY <2>1 DEF LoadBaseline
  <2>3. \A b \in Actors : mem'[b].base \in {mem[b].base, Empty}  BY <1>5, <2>1 DEF Well
  <2> QED  BY <1>3, <2>1, <2>2, <2>3
<1>15. CASE UNCHANGED baselineVars
  <2>1. UNCHANGED <<due, mem, baseline>>  BY <1>15 DEF baselineVars, disk
  <2>2. LoadBaseline(baseline)' = LoadBaseline(baseline)  BY <2>1 DEF LoadBaseline
  <2> QED  BY <1>3, <2>1, <2>2
<1> QED
  BY <1>4, <1>8, <1>9, <1>10, <1>11, <1>12, <1>13, <1>14, <1>15, NextMoves DEF Moves

-----------------------------------------------------------------------------
(* Across runs: the theorems. *)

\* Type correctness of the files across runs and of the handlers at work on them
\* (_handle_sessionend and the stop worker), for any sessions, stops and runs.
THEOREM BaselineWell == BaselineSpec => []Well
BY WellInit, WellStep, PTL DEF BaselineSpec

\* The next undisturbed write_run_artifacts leaves ledger.jsonl with every row of its
\* run, whatever kills, crossings and failures came before.
THEOREM LedgerFileHeals == BaselineSpec => []LedgerHeals
<1>1. Healing => LedgerHeals  BY DEF Healing
<1>2. Healing /\ Well /\ [BaselineNext]_baselineVars => Healing'  BY HealingStep
<1> QED  BY <1>1, <1>2, HealingInit, BaselineWell, PTL DEF BaselineSpec

\* update_baseline counts every session end once while hooks come one at a time and
\* none fails there, and recalibrate_weights leaves the weights of what it counted.
THEOREM EveryEndCounted == BaselineSpec => []EndsCounted
<1>1. Counting => EndsCounted
  <2> SUFFICES ASSUME Counting, calm, AtBaseline = {}
               PROVE  baseline = Whole(due) /\ (weights # None => weights.of = Weights(due))
    BY DEF EndsCounted
  <2>1. \A s \in Sessions : pc[s] \notin {"empty", "save"}  BY DEF AtBaseline
  <2> QED  BY <2>1 DEF Counting
<1>2. Counting /\ Well /\ [BaselineNext]_baselineVars => Counting'  BY CountingStep
<1> QED  BY <1>1, <1>2, CountingInit, BaselineWell, PTL DEF BaselineSpec

\* No interleaving, torn file or kill makes update_baseline count an end or a row that
\* was not there, or predict_call_budget leave the range of the calls agents made.
THEOREM NothingInvented == BaselineSpec => []NothingMadeUp
<1>1. Bounded /\ Well => NothingMadeUp
  <2> SUFFICES ASSUME Bounded, Well, NEW k \in Keys
               PROVE  LET base == LoadBaseline(baseline)
                          made == {1000 * Calls[w] : w \in {v \in Stops : Calls[v] # Unknown}}
                      IN  /\ base[k].runs <= due[k].runs
                          /\ \A t \in Types :
                               /\ \A c \in DOMAIN NoSamples : base[k].by[t][c] <= due[k].by[t][c]
                               /\ LET budget == PredictCallBudget(base, k, t)
                                  IN  budget = 30000 \/ \E x, y \in made : x <= budget /\ budget <= y
    BY DEF NothingMadeUp
  <2> DEFINE base == LoadBaseline(baseline)
  <2>1. base \in Bases /\ Within(base[k], due[k])  BY Loaded DEF Bounded
  <2> HIDE DEF base
  <2>2. \A t \in Types : base[k].by[t] \in Agg  BY <2>1 DEF Bases, Entry
  <2>3. base[k].runs <= due[k].runs  BY <2>1 DEF Within
  <2>4. ASSUME NEW t \in Types
        PROVE  \A c \in DOMAIN NoSamples : base[k].by[t][c] <= due[k].by[t][c]
    <3>1. DOMAIN NoSamples = {"samples", "tokens", "call_samples", "calls"}  BY DEF NoSamples
    <3>2. Below(base[k].by[t], due[k].by[t])  BY <2>1 DEF Within
    <3> QED  BY <3>1, <3>2 DEF Below
  <2>5. ASSUME NEW t \in Types
        PROVE  LET made   == {1000 * Calls[w] : w \in {v \in Stops : Calls[v] # Unknown}}
                   budget == PredictCallBudget(base, k, t)
               IN  budget = 30000 \/ \E x, y \in made : x <= budget /\ budget <= y
    <3>1. base[k].by[t] \in Agg /\ Fair(base[k].by[t])  BY <2>1, <2>2 DEF Within
    <3> QED  BY <3>1, FairBudget
  <2> QED  BY <2>3, <2>4, <2>5 DEF base
<1>2. Bounded /\ Well /\ [BaselineNext]_baselineVars => Bounded'  BY BoundedStep
<1> QED  BY <1>1, <1>2, BoundedInit, BaselineWell, PTL DEF BaselineSpec
=============================================================================
