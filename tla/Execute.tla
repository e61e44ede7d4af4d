------------------------------- MODULE Execute -------------------------------
(***************************************************************************)
(* Phase 5 of the orchestrator (skills/orchestrator/phases/phase-5.md):    *)
(* passes of workers in worktrees, their reviews and reworks, merges onto  *)
(* the integration branch, contract revisions that reopen tasks, the       *)
(* spec-defect breaker, and resuming a run whose session died.             *)
(*                                                                         *)
(* The orchestrator is one thread that handles a report at a time; workers *)
(* and reviewers answer in any order and with any outcome.                 *)
(***************************************************************************)
EXTENDS Naturals, Sequences, FiniteSets

CONSTANTS
  Tasks, DependsOn,     \* the graph Phase 4 validated
  Shares,               \* pairs of tasks that own one file: none in a validated graph,
                        \* a warning only in a resumed one
  Contracts, Consumes,  \* the contracts each task implements or consumes
  Classes,              \* BLOCKER classes other than contract-conflict
  Numbers,              \* what the user may answer before a pass; tasks_per_pass alone
                        \* in an unattended run
  MaxCrashes            \* bound: sessions that die

ASSUME ExecuteAssumption ==
  /\ IsFiniteSet(Tasks)
  /\ DependsOn \in [Tasks -> SUBSET Tasks]
  /\ Shares \subseteq SUBSET Tasks
  /\ Consumes \in [Tasks -> SUBSET Contracts]
  /\ "none" \notin Classes
  /\ Numbers \subseteq Nat \ {0}
  /\ MaxCrashes \in Nat

VARIABLES
  \* on disk: tasks.json and the branch
  status,   \* of each task
  rounds,   \* rework rounds consumed
  revised,  \* contracts whose text was revised
  branch,   \* merge commits, in order: [task, base, text]
  \* known to the session only
  pass,     \* tasks dispatched into the current pass; {} between passes
  stage,    \* where a task of the pass is in its cycle
  why,      \* the BLOCKER class a fresh worker is to confirm, or of a BLOCKED task
  base,     \* length of the branch its worktree was cut from
  brief,    \* the revised contracts among the texts its worker was given
  retried,  \* it had its integration retry
  breaker,  \* the circuit breaker was used
  session,  \* TRUE while a session runs
  crashes,
  torn      \* history: the steps in which a session died halfway

disk    == <<status, rounds, revised, branch>>
memory  == <<pass, stage, why, base, brief, retried, breaker, session, crashes, torn>>
vars    == <<disk, memory>>

MaxRounds == 2
Terminal  == {"merged", "blocked", "unmerged", "skipped"}

\* All tasks t depends on, transitively: paths of up to Cardinality(Tasks) edges.
Needs ==
  LET Upto[n \in 0..Cardinality(Tasks)] ==
        IF n = 0 THEN DependsOn
        ELSE [t \in Tasks |-> DependsOn[t] \cup UNION {Upto[n-1][d] : d \in DependsOn[t]}]
  IN  Upto[Cardinality(Tasks)]

\* Neither needs the other, and they own no file in common.
Independent(a, b) == a \notin Needs[b] /\ b \notin Needs[a] /\ {a, b} \notin Shares

Text(t)   == revised \cap Consumes[t]
Active    == {t \in Tasks : stage[t] # "none"}

Init ==
  /\ status = [t \in Tasks |-> "pending"] /\ rounds = [t \in Tasks |-> 0]
  /\ revised = {} /\ branch = <<>>
  /\ pass = {} /\ stage = [t \in Tasks |-> "none"] /\ why = [t \in Tasks |-> "none"]
  /\ base = [t \in Tasks |-> 0] /\ brief = [t \in Tasks |-> {}]
  /\ retried = [t \in Tasks |-> FALSE] /\ breaker = FALSE
  /\ session = TRUE /\ crashes = 0 /\ torn = {}

-----------------------------------------------------------------------------
(* Dispatch *)

\* More than half of all attempted tasks are BLOCKED with spec-defect.
Tripped ==
  /\ ~breaker
  /\ 2 * Cardinality({t \in Tasks : status[t] = "blocked" /\ why[t] = "spec-defect"})
       > Cardinality({t \in Tasks : status[t] \notin {"pending", "skipped"}})

CandidatesUnblocked ==                                          \* mutant
  {t \in Tasks : status[t] = "pending" /\ \A d \in DependsOn[t] : status[d] # "blocked"}

\* "has not run and every id in its depends_on is MERGED"
Candidates ==
  {t \in Tasks : status[t] = "pending" /\ \A d \in DependsOn[t] : status[d] = "merged"}

\* The orchestrator selects: independent candidates, fewer than the number only
\* when no other fits in. (Which of them, critical path first, is left open.)
StartPass(n, S) ==
  /\ session /\ pass = {} /\ ~Tripped
  /\ S # {} /\ S \subseteq Candidates /\ Cardinality(S) <= n
  /\ \A a, b \in S : a # b => Independent(a, b)
  /\ Cardinality(S) < n =>
       \A t \in Candidates \ S : \E a \in S : ~Independent(a, t)
  /\ pass' = S
  /\ stage' = [t \in Tasks |-> IF t \in S THEN "queued" ELSE stage[t]]
  /\ UNCHANGED <<disk, why, base, brief, retried, breaker, session, crashes, torn>>

\* A worker in a worktree cut from the branch's tip, briefed with the current texts.
Fresh(t) ==
  /\ base' = [base EXCEPT ![t] = Len(branch)]
  /\ brief' = [brief EXCEPT ![t] = Text(t)]

\* The runtime may take fewer at a time than the pass holds.
Spawn(t) ==
  /\ session /\ stage[t] = "queued" /\ ~Tripped
  /\ status' = [status EXCEPT ![t] = "running"]
  /\ stage' = [stage EXCEPT ![t] = "work"]
  /\ Fresh(t)
  /\ UNCHANGED <<rounds, revised, branch, pass, why, retried, breaker, session, crashes, torn>>

\* Every task dispatched into the pass, or reopened into it, is at its end.
ClosePass ==
  /\ session /\ pass # {}
  /\ \A t \in pass : status[t] \in Terminal
  /\ pass' = {}
  /\ UNCHANGED <<disk, stage, why, base, brief, retried, breaker, session, crashes, torn>>

-----------------------------------------------------------------------------
(* How a task ends *)

SkipNobody(S, end) ==                                           \* mutant
  status' = [t \in Tasks |-> IF t \in S THEN end ELSE status[t]]

\* The tasks of S end as `end`; what depends on one of them and has not run is SKIPPED.
End(S, end) ==
  status' = [t \in Tasks |->
               IF t \in S THEN end
               ELSE IF status[t] = "pending" /\ DependsOn[t] \cap S # {} THEN "skipped"
               ELSE status[t]]

LeavePass(S) ==
  stage' = [t \in Tasks |-> IF t \in S \/ status'[t] = "skipped" THEN "none" ELSE stage[t]]

Block(S, class) ==
  /\ End(S, "blocked")
  /\ LeavePass(S)
  /\ why' = [t \in Tasks |-> IF t \in S THEN class ELSE why[t]]
  /\ UNCHANGED <<rounds, revised, branch, pass, base, brief, retried, breaker, session, crashes, torn>>

ReworkUncapped(t) ==                                            \* mutant
  /\ stage' = [stage EXCEPT ![t] = "work"]
  /\ why' = [why EXCEPT ![t] = "none"]
  /\ \/ UNCHANGED <<base, brief>>
     \/ Fresh(t)
  /\ UNCHANGED <<disk, pass, retried, breaker, session, crashes, torn>>

\* Back to its own worker, or a fresh one if that is out of reach; at the cap BLOCKED.
Rework(t) ==
  \/ /\ rounds[t] < MaxRounds
     /\ rounds' = [rounds EXCEPT ![t] = @ + 1]
     /\ stage' = [stage EXCEPT ![t] = "work"]
     /\ why' = [why EXCEPT ![t] = "none"]
     /\ \/ UNCHANGED <<base, brief>>
        \/ Fresh(t)
     /\ UNCHANGED <<status, revised, branch, pass, retried, breaker, session, crashes, torn>>
  \/ rounds[t] = MaxRounds /\ Block({t}, "other")

-----------------------------------------------------------------------------
(* What a worker's trailer says *)

Working(t) == session /\ stage[t] = "work"

\* A commit: it goes to review.
Committed(t) ==
  /\ Working(t)
  /\ stage' = [stage EXCEPT ![t] = "review"]
  /\ why' = [why EXCEPT ![t] = "none"]
  /\ UNCHANGED <<disk, pass, base, brief, retried, breaker, session, crashes, torn>>

\* COMMIT: none under a claim of success: a fresh worker, for one rework round.
Nothing(t) ==
  /\ Working(t)
  /\ Rework(t)
  /\ rounds[t] < MaxRounds => Fresh(t)

\* Neither the worker nor its respawn returned.
NoAnswer(t) == Working(t) /\ Block({t}, "other")

\* One fresh worker confirms the class; the same class again, and it is BLOCKED.
Unsatisfiable(t, class) ==
  /\ Working(t)
  /\ \/ why[t] = class /\ Block({t}, class)
     \/ /\ why[t] # class
        /\ why' = [why EXCEPT ![t] = class]
        /\ Fresh(t)
        /\ UNCHANGED <<disk, pass, stage, retried, breaker, session, crashes, torn>>

\* The mismatch is the task's fault.
WrongTask(t, c) == Working(t) /\ c \in Consumes[t] /\ Rework(t)

ReopenWaiting(c) ==                                             \* mutant
  {t \in Tasks : c \in Consumes[t] /\ status[t] \notin {"pending", "skipped", "merged"}}

\* Every task that consumes the contract and was attempted, MERGED ones included.
Reopened(c) ==
  {t \in Tasks : c \in Consumes[t] /\ status[t] \notin {"pending", "skipped"}}

\* The contract is revised in tasks.json and its consumers return to the cycle with
\* the new text, in the current pass and with a rework budget of their own. One
\* that has ended gets a fresh worktree, one in flight keeps its own.
Revise(t, c) ==
  /\ Working(t) /\ c \in Consumes[t] \ revised
  /\ revised' = revised \cup {c}
  /\ LET R == Reopened(c) IN
       /\ status' = [u \in Tasks |-> IF u \in R THEN "running" ELSE status[u]]
       /\ rounds' = [u \in Tasks |-> IF u \in R THEN 0 ELSE rounds[u]]
       /\ pass' = pass \cup R
       /\ stage' = [u \in Tasks |-> IF u \in R THEN "work" ELSE stage[u]]
       /\ why' = [u \in Tasks |-> IF u \in R THEN "none" ELSE why[u]]
       /\ base' = [u \in Tasks |-> IF u \in R /\ status[u] \in Terminal
                                   THEN Len(branch) ELSE base[u]]
       /\ brief' = [u \in Tasks |-> IF u \notin R THEN brief[u]
                                    ELSE {c} \cup (IF status[u] \in Terminal THEN Text(u) ELSE brief[u])]
  /\ UNCHANGED <<branch, retried, breaker, session, crashes, torn>>

\* A second break of one contract: the tasks at work on it are BLOCKED.
BrokenTwice(t, c) ==
  /\ Working(t) /\ c \in Consumes[t] \cap revised
  /\ Block({u \in Active : c \in Consumes[u] /\ stage[u] # "queued"}, "spec-defect")

Report(t) ==
  \/ Committed(t) \/ Nothing(t) \/ NoAnswer(t)
  \/ \E class \in Classes : Unsatisfiable(t, class)
  \/ \E c \in Contracts : WrongTask(t, c) \/ Revise(t, c) \/ BrokenTwice(t, c)

-----------------------------------------------------------------------------
(* Review and merge *)

\* VERDICT: FLAGGED, or no verdict line at all.
Flagged(t) == session /\ stage[t] = "review" /\ Rework(t)

Passed(t) ==
  /\ session /\ stage[t] = "review"
  /\ status' = [status EXCEPT ![t] = "pass"]
  /\ stage' = [stage EXCEPT ![t] = "merge"]
  /\ UNCHANGED <<rounds, revised, branch, pass, why, base, brief, retried, breaker, session, crashes, torn>>

Commit(t) == Append(branch, [task |-> t, base |-> base[t], text |-> brief[t]])

MergeClean(t) ==
  /\ session /\ stage[t] = "merge"
  /\ branch' = Commit(t)
  /\ status' = [status EXCEPT ![t] = "merged"]
  /\ stage' = [stage EXCEPT ![t] = "none"]
  /\ UNCHANGED <<rounds, revised, pass, why, base, brief, retried, breaker, session, crashes, torn>>

\* Only what was merged since the worktree was cut can conflict. One retry in
\* integration mode, on the current tip; then UNMERGED.
Conflict(t) ==
  /\ session /\ stage[t] = "merge" /\ base[t] < Len(branch)
  /\ \/ /\ ~retried[t]
        /\ retried' = [retried EXCEPT ![t] = TRUE]
        /\ status' = [status EXCEPT ![t] = "running"]
        /\ stage' = [stage EXCEPT ![t] = "work"]
        /\ Fresh(t)
        /\ UNCHANGED <<rounds, revised, branch, pass, why, breaker, session, crashes, torn>>
     \/ /\ retried[t]
        /\ End({t}, "unmerged")
        /\ LeavePass({t})
        /\ UNCHANGED <<rounds, revised, branch, pass, why, base, brief, retried, breaker, session, crashes, torn>>

\* The breaker: task-specialist corrects the remainder of the graph, which is
\* attempted anew. (The corrected graph keeps its tasks and edges here.)
Break ==
  /\ session /\ Tripped
  /\ breaker' = TRUE
  /\ LET R == {t \in Tasks : status[t] \in {"blocked", "unmerged", "skipped"}} IN
       /\ status' = [t \in Tasks |-> IF t \in R THEN "pending" ELSE status[t]]
       /\ rounds' = [t \in Tasks |-> IF t \in R THEN 0 ELSE rounds[t]]
       /\ retried' = [t \in Tasks |-> IF t \in R THEN FALSE ELSE retried[t]]
       /\ why' = [t \in Tasks |-> IF t \in R THEN "none" ELSE why[t]]
       /\ pass' = pass \ R
  /\ UNCHANGED <<revised, branch, stage, base, brief, session, crashes, torn>>

-----------------------------------------------------------------------------
(* A session dies; /dag-resume *)

Die ==
  /\ session /\ crashes < MaxCrashes
  /\ session' = FALSE /\ crashes' = crashes + 1
  /\ UNCHANGED <<pass, stage, why, base, brief, retried, breaker>>

Crash == Die /\ UNCHANGED <<disk, torn>>

\* After git merge, before tasks.json.
CrashMerged(t) ==
  /\ Die /\ stage[t] = "merge" /\ torn' = torn \cup {"merge"}
  /\ branch' = Commit(t)
  /\ UNCHANGED <<status, rounds, revised>>

\* After the new text of the contract was written, before its consumers were reopened.
CrashRevised(t, c) ==
  /\ Die /\ stage[t] = "work" /\ c \in Consumes[t] \ revised
  /\ torn' = torn \cup {"revision"}
  /\ revised' = revised \cup {c}
  /\ UNCHANGED <<status, rounds, branch>>

ResumeAll ==                                                    \* mutant
  /\ ~session /\ session' = TRUE
  /\ status' = [t \in Tasks |-> IF status[t] = "blocked" THEN "blocked" ELSE "pending"]
  /\ pass' = {} /\ stage' = [t \in Tasks |-> "none"]
  /\ why' = [t \in Tasks |-> IF status[t] = "blocked" THEN why[t] ELSE "none"]
  /\ base' = [t \in Tasks |-> 0] /\ brief' = [t \in Tasks |-> {}]
  /\ retried' = [t \in Tasks |-> FALSE] /\ breaker' = FALSE
  /\ UNCHANGED <<rounds, revised, branch, crashes, torn>>

\* What a dead session left running is dispatched anew; the rest stands. What only
\* that session knew is gone: the retries, the breaker, the classes.
Resume ==
  /\ ~session /\ session' = TRUE
  /\ status' = [t \in Tasks |-> IF status[t] \in {"running", "pass"} THEN "pending" ELSE status[t]]
  /\ pass' = {} /\ stage' = [t \in Tasks |-> "none"]
  /\ why' = [t \in Tasks |-> IF status[t] = "blocked" THEN why[t] ELSE "none"]
  /\ base' = [t \in Tasks |-> 0] /\ brief' = [t \in Tasks |-> {}]
  /\ retried' = [t \in Tasks |-> FALSE] /\ breaker' = FALSE
  /\ UNCHANGED <<rounds, revised, branch, crashes, torn>>

-----------------------------------------------------------------------------
Answer(t) == Report(t) \/ Flagged(t) \/ Passed(t) \/ MergeClean(t) \/ Conflict(t)

Dispatch == (\E n \in Numbers, S \in SUBSET Tasks : StartPass(n, S)) \/ ClosePass \/ Break

Next ==
  \/ Dispatch
  \/ \E t \in Tasks : Spawn(t) \/ Answer(t) \/ CrashMerged(t)
  \/ \E t \in Tasks, c \in Contracts : CrashRevised(t, c)
  \/ Crash
  \/ Resume

Spec == Init /\ [][Next]_vars

\* The orchestrator goes on while it can; a worker or reviewer answers, or is found
\* stuck, which is an answer too.
FairSpec == /\ Spec
            /\ WF_vars(Dispatch)
            /\ \A t \in Tasks : WF_vars(Spawn(t)) /\ WF_vars(Answer(t))

-----------------------------------------------------------------------------
TypeOK ==
  /\ status \in [Tasks -> Terminal \cup {"pending", "running", "pass"}]
  /\ rounds \in [Tasks -> 0..MaxRounds]
  /\ revised \subseteq Contracts
  /\ branch \in Seq([task : Tasks, base : Nat, text : SUBSET Contracts])
  /\ pass \subseteq Tasks
  /\ stage \in [Tasks -> {"none", "queued", "work", "review", "merge"}]
  /\ why \in [Tasks -> Classes \cup {"none", "other", "spec-defect"}]
  /\ base \in [Tasks -> Nat] /\ brief \in [Tasks -> SUBSET Contracts]
  /\ retried \in [Tasks -> BOOLEAN] /\ {breaker, session} \subseteq BOOLEAN
  /\ crashes \in 0..MaxCrashes /\ torn \subseteq {"merge", "revision"}

\* What is merged was made in a worktree that held the commits of all it depends on.
BuiltOnDependencies ==
  \A i \in DOMAIN branch : \A d \in DependsOn[branch[i].task] :
    \E j \in 1..branch[i].base : branch[j].task = d

\* Between passes a MERGED task has landed with the contract texts of now: one that
\* "already passed once ... passed against a contract that no longer exists". A
\* session that died halfway through a revision is set apart.
CurrentContracts ==
  session /\ pass = {} /\ "revision" \notin torn =>
    \A t \in Tasks : status[t] = "merged" =>
      \E i \in DOMAIN branch : branch[i].task = t /\ branch[i].text = Text(t)

\* A task lands once, and once more for each of its contracts that was revised:
\* "Tasks already MERGED do not re-run", also after a resume. A session that died
\* halfway through a merge is set apart.
LandsOnce ==
  "merge" \notin torn => \A t \in Tasks :
    Cardinality({i \in DOMAIN branch : branch[i].task = t}) <= 1 + Cardinality(Text(t))

\* A task reopened by a revision runs although its dependency is BLOCKED; a resume
\* that finds it running makes it wait for that dependency.
Waits == crashes > 0 /\ revised # {}

\* Between passes no task waits for one that will not be merged: such a task was
\* SKIPPED when its dependency failed.
NoneStranded ==
  session /\ pass = {} /\ ~Waits =>
    \A t \in Tasks : status[t] = "pending" =>
      \A d \in DependsOn[t] : status[d] \notin {"blocked", "unmerged"}

AtEnd == pass = {} /\ \A t \in Tasks : status[t] \in Terminal

\* "Any task with a BLOCKED (or UNMERGED) task" among its dependencies is SKIPPED; a
\* task that depends on a SKIPPED one is not, and stays pending.
Stranded ==
  \E t \in Tasks : status[t] = "pending" /\ \E d \in DependsOn[t] : status[d] = "skipped"

\* The phase comes to its end, every task MERGED, BLOCKED, SKIPPED or UNMERGED,
\* unless the session that died is never resumed, or a task waits for one that
\* failed: after a resume, or, in a chain of three, for a SKIPPED one.
Ends == <>[]AtEnd \/ <>[]~session \/ <>Waits \/ <>Stranded
=============================================================================
