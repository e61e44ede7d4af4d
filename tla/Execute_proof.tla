---------------------------- MODULE Execute_proof ----------------------------
(***************************************************************************)
(* What lands on the integration branch, for any graph, any contracts and  *)
(* any number of dead sessions: made on top of its dependencies, with the  *)
(* contract texts of now, once per text; and no task waits for one that    *)
(* failed.                                                                 *)
(***************************************************************************)
EXTENDS Execute, FiniteSetTheorems, SequenceTheorems, TLAPS

-----------------------------------------------------------------------------
(* The inductive invariant. *)

Cycle == {"work", "review", "merge"}

\* A task is in its cycle as long as it runs, and queued before it was attempted.
Stages ==
  \A t \in Tasks :
    /\ stage[t] \in Cycle <=> status[t] \in {"running", "pass"}
    /\ stage[t] = "queued" => status[t] = "pending"

\* A commit of the task is among the first n of the branch.
LandedBy(t, n) == \E j \in 1..n : j <= Len(branch) /\ branch[j].task = t

Attempted(t) == status[t] \notin {"pending", "skipped"} \/ stage[t] = "queued"

\* A merged task has landed; no task is attempted before what it depends on has.
Landings ==
  \A t \in Tasks :
    /\ status[t] = "merged" => LandedBy(t, Len(branch))
    /\ Attempted(t) => \A d \in DependsOn[t] : LandedBy(d, Len(branch))

\* The worktree of a task in its cycle holds what the task depends on.
Bases ==
  \A t \in Tasks : stage[t] \in Cycle =>
    base[t] <= Len(branch) /\ \A d \in DependsOn[t] : LandedBy(d, base[t])

\* A commit was made in a worktree cut from the branch before it.
Earlier == \A i \in 1..Len(branch) : branch[i].base < i

\* Unless a revision was torn, a task in its cycle was given the texts of now, and a
\* merged one landed with them.
Texts ==
  "revision" \notin torn => \A t \in Tasks :
    /\ stage[t] \in Cycle => brief[t] = Text(t)
    /\ status[t] = "merged" => \E i \in 1..Len(branch) : branch[i].task = t /\ branch[i].text = Text(t)

Commits(t) == {i \in 1..Len(branch) : branch[i].task = t}

\* Unless a merge was torn, a task that is not merged has a revision to its credit for
\* every time it landed.
Counted ==
  /\ IsFiniteSet(revised)
  /\ "merge" \notin torn => \A t \in Tasks :
       Cardinality(Commits(t)) <= (IF status[t] = "merged" THEN 1 ELSE 0) + Cardinality(Text(t))

\* Without a revision no task is attempted before what it depends on is merged; and
\* a pending task does not wait for one that failed.
Waiting ==
  /\ ~session => crashes > 0
  /\ revised = {} => \A t \in Tasks : Attempted(t) => \A d \in DependsOn[t] : status[d] = "merged"
  /\ ~Waits => \A t \in Tasks : status[t] = "pending" =>
       \A d \in DependsOn[t] : status[d] \notin {"blocked", "unmerged"}

IInv == /\ TypeOK /\ Stages /\ Landings /\ Bases /\ Earlier
        /\ Texts /\ Counted /\ Waiting /\ BuiltOnDependencies

-----------------------------------------------------------------------------
(* What the actions do to the tasks. *)

\* A task goes on in its cycle, in its worktree or a fresh one.
Turn(t) ==
  /\ stage[t] \in Cycle
  /\ \E s \in {"running", "pass"} : status' = [status EXCEPT ![t] = s]
  /\ \E g \in Cycle : stage' = [stage EXCEPT ![t] = g]
  /\ UNCHANGED <<base, brief>> \/ Fresh(t)
  /\ UNCHANGED <<revised, branch, session, crashes, torn>>

\* Tasks of the cycle end without a commit.
Stop(S, end) ==
  /\ S \subseteq Tasks /\ \A t \in S : stage[t] \in Cycle
  /\ end \in {"blocked", "unmerged"}
  /\ End(S, end) /\ LeavePass(S)
  /\ UNCHANGED <<revised, branch, base, brief, session, crashes, torn>>

\* The tasks and what they made stay as they are.
Still ==
  /\ UNCHANGED <<status, stage, revised, branch, base, brief, torn>>
  /\ UNCHANGED <<session, crashes>> \/ (session' = FALSE /\ crashes' = crashes + 1)

Start == \E n \in Numbers, S \in SUBSET Tasks : StartPass(n, S)

\* Every action is one of eleven.
Shape ==
  \/ Start \/ Break \/ Resume \/ Still
  \/ \E t \in Tasks : Spawn(t) \/ Turn(t) \/ MergeClean(t) \/ CrashMerged(t)
  \/ \E S \in SUBSET Tasks, end \in {"blocked", "unmerged"} : Stop(S, end)
  \/ \E t \in Tasks, c \in Contracts : Revise(t, c) \/ CrashRevised(t, c)

\* A rework turns a task of the cycle, or ends it.
LEMMA ReworkShape ==
  ASSUME TypeOK, Stages, NEW t \in Tasks, stage[t] \in Cycle, Rework(t)
  PROVE  Turn(t) \/ Stop({t}, "blocked")
<1>1. CASE rounds[t] = MaxRounds /\ Block({t}, "other")
  BY <1>1 DEF Block, Stop, Cycle
<1>2. ASSUME rounds[t] < MaxRounds, stage' = [stage EXCEPT ![t] = "work"],
             UNCHANGED <<base, brief>> \/ Fresh(t),
             UNCHANGED <<status, revised, branch, session, crashes, torn>>
      PROVE  Turn(t)
  <2>1. status[t] \in {"running", "pass"}  BY DEF Stages
  <2>2. status' = [status EXCEPT ![t] = status[t]]  BY <1>2 DEF TypeOK
  <2>3. "work" \in Cycle  BY DEF Cycle
  <2> QED  BY <1>2, <2>1, <2>2, <2>3 DEF Turn
<1> QED  BY <1>1, <1>2 DEF Rework

\* Every step is one of the eleven.
LEMMA Shapes ==
  ASSUME TypeOK, Stages, [Next]_vars
  PROVE  Shape
<1>c. {"work", "review", "merge"} = Cycle  BY DEF Cycle
<1>s. \A t \in Tasks : stage[t] \in Cycle => status[t] \in {"running", "pass"}  BY DEF Stages
<1>p. \A t \in Tasks : status = [status EXCEPT ![t] = status[t]]  BY DEF TypeOK
<1>q. \A t \in Tasks : stage = [stage EXCEPT ![t] = stage[t]]  BY DEF TypeOK
<1>1. CASE UNCHANGED vars
  BY <1>1 DEF vars, disk, memory, Still, Shape
<1>2. CASE ClosePass \/ Crash
  BY <1>2 DEF ClosePass, Crash, Die, disk, Still, Shape
<1>3. ASSUME NEW t \in Tasks, Answer(t)
      PROVE  Shape
  <2>1. ASSUME Turn(t)  PROVE Shape  BY <2>1 DEF Shape
  <2>2. ASSUME NEW S \in SUBSET Tasks, NEW end \in {"blocked", "unmerged"}, Stop(S, end)
        PROVE  Shape
    BY <2>2 DEF Shape
  <2>3. CASE Committed(t)
    BY <2>1, <2>3, <1>c, <1>s, <1>p DEF Committed, Working, Turn, disk
  <2>4. CASE Nothing(t) \/ (\E c \in Contracts : WrongTask(t, c)) \/ Flagged(t)
    <3>1. stage[t] \in Cycle /\ Rework(t)
      BY <2>4, <1>c DEF Nothing, WrongTask, Flagged, Working
    <3> QED  BY <3>1, <2>1, <2>2, ReworkShape
  <2>5. CASE NoAnswer(t)
    <3>1. Stop({t}, "blocked")
      BY <2>5, <1>c DEF NoAnswer, Working, Block, Stop
    <3> QED  BY <3>1, <2>2
  <2>6. CASE \E class \in Classes : Unsatisfiable(t, class)
    <3> PICK class \in Classes : Unsatisfiable(t, class)  BY <2>6
    <3>1. stage[t] \in Cycle  BY <1>c DEF Unsatisfiable, Working
    <3>2. CASE Block({t}, class)
      <4>1. Stop({t}, "blocked")  BY <3>1, <3>2 DEF Block, Stop
      <4> QED  BY <4>1, <2>2
    <3>3. CASE Fresh(t) /\ UNCHANGED <<disk, pass, stage, retried, breaker, session, crashes, torn>>
      <4>1. Turn(t)  BY <3>1, <3>3, <1>s, <1>p, <1>q DEF Turn, disk
      <4> QED  BY <4>1, <2>1
    <3> QED  BY <3>2, <3>3 DEF Unsatisfiable
  <2>7. CASE \E c \in Contracts : BrokenTwice(t, c)
    <3> PICK c \in Contracts : BrokenTwice(t, c)  BY <2>7
    <3> DEFINE S == {u \in Active : c \in Consumes[u] /\ stage[u] # "queued"}
    <3>1. S \subseteq Tasks /\ \A u \in S : stage[u] \in Cycle
      BY DEF Active, TypeOK, Cycle
    <3>2. Stop(S, "blocked")  BY <3>1 DEF BrokenTwice, Block, Stop
    <3> QED  BY <3>1, <3>2, <2>2
  <2>8. CASE Passed(t)
    BY <2>1, <2>8, <1>c DEF Passed, Turn
  <2>9. CASE Conflict(t)
    <3>1. CASE retried[t] /\ End({t}, "unmerged") /\ LeavePass({t})
               /\ UNCHANGED <<rounds, revised, branch, pass, why, base, brief, retried, breaker, session, crashes, torn>>
      <4>1. Stop({t}, "unmerged")  BY <2>9, <3>1, <1>c DEF Conflict, Stop
      <4> QED  BY <4>1, <2>2
    <3>2. CASE status' = [status EXCEPT ![t] = "running"] /\ stage' = [stage EXCEPT ![t] = "work"]
               /\ Fresh(t)
               /\ UNCHANGED <<rounds, revised, branch, pass, why, breaker, session, crashes, torn>>
      BY <2>1, <2>9, <3>2, <1>c DEF Conflict, Turn
    <3> QED  BY <2>9, <3>1, <3>2 DEF Conflict
  <2>10. CASE MergeClean(t) \/ \E c \in Contracts : Revise(t, c)
    BY <2>10 DEF Shape
  <2> QED  BY <1>3, <2>3, <2>4, <2>5, <2>6, <2>7, <2>8, <2>9, <2>10 DEF Answer, Report
<1>4. CASE Start \/ Break \/ Resume \/ (\E t \in Tasks : Spawn(t) \/ CrashMerged(t))
           \/ (\E t \in Tasks, c \in Contracts : CrashRevised(t, c))
  BY <1>4 DEF Shape
<1> QED  BY <1>1, <1>2, <1>3, <1>4 DEF Next, Dispatch, Start

-----------------------------------------------------------------------------
(* Types. *)

\* An action that leaves tasks in another stage or state leaves the types as they are.
LEMMA TypeInductive ==
  ASSUME TypeOK, [Next]_vars
  PROVE  TypeOK'
<1>a. DependsOn \in [Tasks -> SUBSET Tasks] /\ Consumes \in [Tasks -> SUBSET Contracts] /\ MaxCrashes \in Nat
  BY ExecuteAssumption
<1>l. Len(branch) \in Nat  BY DEF TypeOK
<1>f. \A t \in Tasks : Fresh(t) => base' \in [Tasks -> Nat] /\ brief' \in [Tasks -> SUBSET Contracts]
  <2> SUFFICES ASSUME NEW t \in Tasks, Fresh(t)
               PROVE  base' \in [Tasks -> Nat] /\ brief' \in [Tasks -> SUBSET Contracts]
    OBVIOUS
  <2>1. base' \in [Tasks -> Nat]  BY <1>l DEF Fresh, TypeOK
  <2>2. Text(t) \in SUBSET Contracts  BY <1>a DEF Text, TypeOK
  <2>3. brief' \in [Tasks -> SUBSET Contracts]  BY <2>2 DEF Fresh, TypeOK
  <2> QED  BY <2>1, <2>3
<1>b. \A S \in SUBSET Tasks, class \in Classes \cup {"none", "other", "spec-defect"} : Block(S, class) => TypeOK'
  BY DEF Block, End, LeavePass, TypeOK, Terminal
<1>r. \A t \in Tasks : Rework(t) => TypeOK'
  <2> SUFFICES ASSUME NEW t \in Tasks, Rework(t)  PROVE TypeOK'
    OBVIOUS
  <2>1. CASE Block({t}, "other")  BY <2>1, <1>b
  <2>2. CASE /\ rounds[t] < MaxRounds
             /\ rounds' = [rounds EXCEPT ![t] = @ + 1]
             /\ stage' = [stage EXCEPT ![t] = "work"]
             /\ why' = [why EXCEPT ![t] = "none"]
             /\ (UNCHANGED <<base, brief>> \/ Fresh(t))
             /\ UNCHANGED <<status, revised, branch, pass, retried, breaker, session, crashes, torn>>
    <3>1. base' \in [Tasks -> Nat] /\ brief' \in [Tasks -> SUBSET Contracts]
      BY <2>2, <1>f DEF TypeOK
    <3>2. rounds \in [Tasks -> 0..2]  BY DEF TypeOK, MaxRounds
    <3>3. rounds[t] \in 0..2  BY <3>2
    <3>4. rounds[t] + 1 \in 0..2  BY <2>2, <3>3 DEF MaxRounds
    <3>5. rounds' \in [Tasks -> 0..2]  BY <2>2, <3>2, <3>4
    <3> QED  BY <2>2, <3>1, <3>5 DEF TypeOK, MaxRounds
  <2> QED  BY <2>1, <2>2 DEF Rework
<1>c. \A t \in Tasks : Commit(t) \in Seq([task : Tasks, base : Nat, text : SUBSET Contracts])
  <2> TAKE t \in Tasks
  <2>1. [task |-> t, base |-> base[t], text |-> brief[t]] \in [task : Tasks, base : Nat, text : SUBSET Contracts]
    BY DEF TypeOK
  <2> QED  BY <2>1 DEF Commit, TypeOK
<1>d. Die => crashes' \in 0..MaxCrashes /\ {breaker', session'} \subseteq BOOLEAN
  <2>1. crashes \in 0..MaxCrashes /\ breaker \in BOOLEAN  BY DEF TypeOK
  <2>2. Die => crashes' \in 0..MaxCrashes  BY <1>a, <2>1 DEF Die
  <2>3. Die => {breaker', session'} \subseteq BOOLEAN  BY <2>1 DEF Die
  <2> QED  BY <2>2, <2>3
<1>1. CASE UNCHANGED vars
  BY <1>1 DEF vars, disk, memory, TypeOK
<1>2. CASE \E n \in Numbers, S \in SUBSET Tasks : StartPass(n, S)
  BY <1>2 DEF StartPass, TypeOK, disk
<1>3. CASE ClosePass
  BY <1>3 DEF ClosePass, TypeOK, disk
<1>4. CASE Break
  <2>1. status' \in [Tasks -> Terminal \cup {"pending", "running", "pass"}]
        /\ retried' \in [Tasks -> BOOLEAN]
        /\ why' \in [Tasks -> Classes \cup {"none", "other", "spec-defect"}]
    BY <1>4 DEF Break, TypeOK
  <2>2. rounds' \in [Tasks -> 0..MaxRounds]  BY <1>4 DEF Break, TypeOK, MaxRounds
  <2>3. pass' \subseteq Tasks  BY <1>4 DEF Break, TypeOK
  <2>4. breaker' \in BOOLEAN  BY <1>4 DEF Break
  <2> QED  BY <1>4, <2>1, <2>2, <2>3, <2>4 DEF Break, TypeOK
<1>5. ASSUME NEW t \in Tasks, Spawn(t)  PROVE TypeOK'
  BY <1>5, <1>f DEF Spawn, TypeOK
<1>6. ASSUME NEW t \in Tasks, Report(t)  PROVE TypeOK'
  <2>1. CASE Committed(t)  BY <2>1 DEF Committed, TypeOK, disk
  <2>2. CASE Nothing(t) \/ \E c \in Contracts : WrongTask(t, c)
    BY <2>2, <1>r DEF Nothing, WrongTask
  <2>3. CASE NoAnswer(t)  BY <2>3, <1>b DEF NoAnswer
  <2>4. CASE \E class \in Classes : Unsatisfiable(t, class)
    <3> PICK class \in Classes : Unsatisfiable(t, class)  BY <2>4
    <3>1. CASE Block({t}, class)  BY <3>1, <1>b
    <3>2. CASE ~Block({t}, class)
      <4>1. Fresh(t) /\ why' = [why EXCEPT ![t] = class]
            /\ UNCHANGED <<disk, pass, stage, retried, breaker, session, crashes, torn>>
        BY <3>2 DEF Unsatisfiable
      <4>2. base' \in [Tasks -> Nat] /\ brief' \in [Tasks -> SUBSET Contracts]  BY <4>1, <1>f
      <4> QED  BY <4>1, <4>2 DEF TypeOK, disk
    <3> QED  BY <3>1, <3>2
  <2>5. CASE \E c \in Contracts : Revise(t, c)
    <3> PICK c \in Contracts : Revise(t, c)  BY <2>5
    <3>1. pass' \subseteq Tasks /\ revised' \subseteq Contracts
      BY DEF Revise, Reopened, TypeOK
    <3>2. base' \in [Tasks -> Nat]  BY <1>l DEF Revise, TypeOK
    <3>3. \A u \in Tasks : Text(u) \in SUBSET Contracts  BY <1>a DEF Text
    <3>4. brief' \in [Tasks -> SUBSET Contracts]  BY <3>3 DEF Revise, TypeOK
    <3>5. status' \in [Tasks -> Terminal \cup {"pending", "running", "pass"}]
          /\ stage' \in [Tasks -> {"none", "queued", "work", "review", "merge"}]
          /\ rounds' \in [Tasks -> 0..MaxRounds]
          /\ why' \in [Tasks -> Classes \cup {"none", "other", "spec-defect"}]
      BY DEF Revise, TypeOK, Terminal, MaxRounds
    <3> QED  BY <3>1, <3>2, <3>4, <3>5 DEF Revise, TypeOK
  <2>6. CASE \E c \in Contracts : BrokenTwice(t, c)
    BY <2>6, <1>b DEF BrokenTwice, Active
  <2> QED  BY <1>6, <2>1, <2>2, <2>3, <2>4, <2>5, <2>6 DEF Report
<1>7. ASSUME NEW t \in Tasks, Flagged(t)  PROVE TypeOK'
  BY <1>7, <1>r DEF Flagged
<1>8. ASSUME NEW t \in Tasks, Passed(t)  PROVE TypeOK'
  BY <1>8 DEF Passed, TypeOK
<1>9. ASSUME NEW t \in Tasks, MergeClean(t)  PROVE TypeOK'
  BY <1>9, <1>c DEF MergeClean, TypeOK, Terminal
<1>10. ASSUME NEW t \in Tasks, Conflict(t)  PROVE TypeOK'
  <2>1. CASE End({t}, "unmerged") /\ LeavePass({t})
             /\ UNCHANGED <<rounds, revised, branch, pass, why, base, brief, retried, breaker, session, crashes, torn>>
    BY <2>1 DEF End, LeavePass, TypeOK, Terminal
  <2>2. CASE /\ retried' = [retried EXCEPT ![t] = TRUE]
             /\ status' = [status EXCEPT ![t] = "running"]
             /\ stage' = [stage EXCEPT ![t] = "work"]
             /\ Fresh(t)
             /\ UNCHANGED <<rounds, revised, branch, pass, why, breaker, session, crashes, torn>>
    BY <2>2, <1>f DEF TypeOK
  <2> QED  BY <1>10, <2>1, <2>2 DEF Conflict
<1>11. ASSUME NEW t \in Tasks, CrashMerged(t)  PROVE TypeOK'
  <2>1. branch' \in Seq([task : Tasks, base : Nat, text : SUBSET Contracts])
    BY <1>11, <1>c DEF CrashMerged
  <2>2. torn' \subseteq {"merge", "revision"}  BY <1>11 DEF CrashMerged, TypeOK
  <2>3. UNCHANGED <<status, rounds, revised, pass, stage, why, base, brief, retried>>
    BY <1>11 DEF CrashMerged, Die
  <2>4. Die  BY <1>11 DEF CrashMerged
  <2> QED  BY <1>d, <2>1, <2>2, <2>3, <2>4 DEF TypeOK
<1>12. ASSUME NEW t \in Tasks, NEW c \in Contracts, CrashRevised(t, c)  PROVE TypeOK'
  <2>1. revised' \subseteq Contracts  BY <1>12, <1>a DEF CrashRevised, TypeOK
  <2>2. torn' \subseteq {"merge", "revision"}  BY <1>12 DEF CrashRevised, TypeOK
  <2>3. UNCHANGED <<status, rounds, branch, pass, stage, why, base, brief, retried>>
    BY <1>12 DEF CrashRevised, Die
  <2>4. Die  BY <1>12 DEF CrashRevised
  <2> QED  BY <1>d, <2>1, <2>2, <2>3, <2>4 DEF TypeOK
<1>13. CASE Crash
  <2>1. UNCHANGED <<status, rounds, revised, branch, pass, stage, why, base, brief, retried, torn>>
    BY <1>13 DEF Crash, Die, disk
  <2>2. Die  BY <1>13 DEF Crash
  <2> QED  BY <1>d, <2>1, <2>2 DEF TypeOK
<1>14. CASE Resume
  BY <1>14 DEF Resume, TypeOK
<1> QED  BY <1>1, <1>2, <1>3, <1>4, <1>5, <1>6, <1>7, <1>8, <1>9, <1>10, <1>11, <1>12, <1>13, <1>14
         DEF Next, Dispatch, Answer

-----------------------------------------------------------------------------
(* Tasks and their stages. *)

\* A task is in its cycle exactly as long as it runs, after every step.
LEMMA StagesInductive ==
  ASSUME TypeOK, Stages, Shape
  PROVE  Stages'
<1>c. Cycle = {"work", "review", "merge"} /\ Terminal = {"merged", "blocked", "unmerged", "skipped"}
  BY DEF Cycle, Terminal
<1>1. CASE Start
  <2> PICK n \in Numbers, S \in SUBSET Tasks : StartPass(n, S)  BY <1>1 DEF Start
  <2>1. \A t \in S : status[t] = "pending"  BY DEF StartPass, Candidates
  <2>2. status' = status /\ stage' = [t \in Tasks |-> IF t \in S THEN "queued" ELSE stage[t]]
    BY DEF StartPass, disk
  <2> QED  BY <2>1, <2>2, <1>c DEF Stages
<1>2. CASE Break
  BY <1>2, <1>c DEF Break, Stages
<1>3. CASE Resume
  <2> SUFFICES ASSUME NEW t \in Tasks  PROVE ~(status'[t] \in {"running", "pass"}) /\ stage'[t] = "none"
    BY <1>c DEF Stages
  <2> QED  BY <1>3 DEF Resume
<1>4. CASE Still
  BY <1>4 DEF Still, Stages
<1>5. ASSUME NEW t \in Tasks, Spawn(t)  PROVE Stages'
  BY <1>5, <1>c DEF Spawn, Stages, TypeOK
<1>6. ASSUME NEW t \in Tasks, Turn(t)  PROVE Stages'
  BY <1>6, <1>c DEF Turn, Stages, TypeOK
<1>7. ASSUME NEW t \in Tasks, MergeClean(t)  PROVE Stages'
  BY <1>7, <1>c DEF MergeClean, Stages, TypeOK
<1>8. ASSUME NEW t \in Tasks, CrashMerged(t)  PROVE Stages'
  BY <1>8 DEF CrashMerged, Die, Stages
<1>9. ASSUME NEW S \in SUBSET Tasks, NEW end \in {"blocked", "unmerged"}, Stop(S, end)  PROVE Stages'
  <2>1. status' = [t \in Tasks |->
               IF t \in S THEN end
               ELSE IF status[t] = "pending" /\ DependsOn[t] \cap S # {} THEN "skipped"
               ELSE status[t]]
    BY <1>9 DEF Stop, End
  <2>2. stage' = [t \in Tasks |-> IF t \in S \/ status'[t] = "skipped" THEN "none" ELSE stage[t]]
    BY <1>9 DEF Stop, LeavePass
  <2> SUFFICES ASSUME NEW t \in Tasks
               PROVE  /\ stage'[t] \in Cycle <=> status'[t] \in {"running", "pass"}
                      /\ stage'[t] = "queued" => status'[t] = "pending"
    BY DEF Stages
  <2>3. CASE t \in S  BY <2>1, <2>2, <2>3, <1>c
  <2>4. CASE t \notin S /\ status'[t] = "skipped"  BY <2>2, <2>4, <1>c
  <2>5. CASE t \notin S /\ status'[t] # "skipped"
    <3>1. status'[t] = status[t]  BY <2>1, <2>5
    <3>2. stage'[t] = stage[t]  BY <2>2, <2>5
    <3> QED  BY <3>1, <3>2 DEF Stages
  <2> QED  BY <2>3, <2>4, <2>5
<1>10. ASSUME NEW t \in Tasks, NEW c \in Contracts, Revise(t, c)  PROVE Stages'
  <2>1. status' = [u \in Tasks |-> IF u \in Reopened(c) THEN "running" ELSE status[u]]
        /\ stage' = [u \in Tasks |-> IF u \in Reopened(c) THEN "work" ELSE stage[u]]
    BY <1>10 DEF Revise
  <2> QED  BY <2>1, <1>c DEF Stages
<1>11. ASSUME NEW t \in Tasks, NEW c \in Contracts, CrashRevised(t, c)  PROVE Stages'
  BY <1>11 DEF CrashRevised, Die, Stages
<1> QED  BY <1>1, <1>2, <1>3, <1>4, <1>5, <1>6, <1>7, <1>8, <1>9, <1>10, <1>11 DEF Shape

-----------------------------------------------------------------------------
(* The branch, and what a step does to it. *)

\* The branch stays, or a task at its merge adds its commit.
LEMMA BranchStep ==
  ASSUME Shape
  PROVE  branch' = branch \/ \E t \in Tasks : stage[t] = "merge" /\ branch' = Commit(t)
BY DEF Shape, Start, StartPass, Break, Resume, Still, Spawn, Turn, MergeClean, CrashMerged, Stop,
       Revise, CrashRevised, disk

\* What is on the branch stays where it is.
Keeps == Len(branch') >= Len(branch) /\ \A j \in 1..Len(branch) : branch'[j] = branch[j]

\* A commit is added after all others.
LEMMA CommitAppends ==
  ASSUME TypeOK, NEW t \in Tasks, branch' = Commit(t)
  PROVE  /\ Len(branch') = Len(branch) + 1 /\ Len(branch) \in Nat
         /\ \A j \in 1..Len(branch) : branch'[j] = branch[j]
         /\ branch'[Len(branch) + 1] = [task |-> t, base |-> base[t], text |-> brief[t]]
BY DEF Commit, TypeOK

\* The branch only grows.
LEMMA BranchGrows ==
  ASSUME TypeOK, Shape
  PROVE  Keeps
<1>1. CASE branch' = branch  BY <1>1 DEF Keeps, TypeOK
<1>2. ASSUME NEW t \in Tasks, branch' = Commit(t)  PROVE Keeps
  <2>1. Len(branch') = Len(branch) + 1 /\ Len(branch) \in Nat  BY <1>2, CommitAppends
  <2>2. \A j \in 1..Len(branch) : branch'[j] = branch[j]  BY <1>2, CommitAppends
  <2> QED  BY <2>1, <2>2 DEF Keeps
<1> QED  BY <1>1, <1>2, BranchStep

\* What has landed stays.
LEMMA LandedStays ==
  ASSUME TypeOK, Keeps, NEW t \in Tasks, NEW n \in Nat, LandedBy(t, n)
  PROVE  LandedBy(t, n)' /\ (n <= Len(branch) => LandedBy(t, Len(branch))')
<1>1. PICK j \in 1..n : j <= Len(branch) /\ branch[j].task = t  BY DEF LandedBy
<1>2. Len(branch) \in Nat /\ Len(branch') >= Len(branch)  BY DEF TypeOK, Keeps
<1>3. j \in 1..Len(branch)  BY <1>1, <1>2
<1>4. branch'[j].task = t  BY <1>1, <1>3 DEF Keeps
<1>5. j <= Len(branch')  BY <1>2, <1>3
<1> QED  BY <1>1, <1>4, <1>5, <1>2 DEF LandedBy

\* A task is merged by its commit; what is attempted was attempted before, or everything
\* it depends on is merged.
LEMMA Attempts ==
  ASSUME TypeOK, Stages, Shape, NEW t \in Tasks
  PROVE  /\ status'[t] = "merged" => status[t] = "merged" \/ (stage[t] = "merge" /\ branch' = Commit(t))
         /\ Attempted(t)' => Attempted(t) \/ \A d \in DependsOn[t] : status[d] = "merged"
<1>c. Cycle = {"work", "review", "merge"}  BY DEF Cycle
<1>a. \A u \in Tasks : stage[u] \in Cycle => Attempted(u)  BY DEF Stages, Attempted
<1>1. CASE Start
  <2> PICK n \in Numbers, S \in SUBSET Tasks : StartPass(n, S)  BY <1>1 DEF Start
  <2>1. \A u \in S : \A d \in DependsOn[u] : status[d] = "merged"  BY DEF StartPass, Candidates
  <2>2. status' = status /\ stage' = [u \in Tasks |-> IF u \in S THEN "queued" ELSE stage[u]]
    BY DEF StartPass, disk
  <2> QED  BY <2>1, <2>2 DEF Attempted
<1>2. CASE Break
  BY <1>2 DEF Break, Attempted
<1>3. CASE Resume
  <2>1. stage'[t] = "none" /\ (status'[t] = status[t] \/ status'[t] = "pending")  BY <1>3 DEF Resume
  <2> QED  BY <2>1 DEF Attempted
<1>4. CASE Still
  BY <1>4 DEF Still, Attempted
<1>5. ASSUME NEW u \in Tasks, Spawn(u)
      PROVE  (status'[t] = "merged" => status[t] = "merged") /\ (Attempted(t)' => Attempted(t))
  BY <1>5 DEF Spawn, Attempted, TypeOK
<1>6. ASSUME NEW u \in Tasks, Turn(u)
      PROVE  (status'[t] = "merged" => status[t] = "merged") /\ (Attempted(t)' => Attempted(t))
  <2>1. u # t => status'[t] = status[t] /\ stage'[t] = stage[t]  BY <1>6 DEF Turn, TypeOK
  <2>2. status'[u] # "merged"  BY <1>6 DEF Turn, TypeOK
  <2> QED  BY <1>6, <2>1, <2>2, <1>a DEF Turn, Attempted
<1>7. ASSUME NEW u \in Tasks, MergeClean(u)
      PROVE  /\ status'[t] = "merged" => status[t] = "merged" \/ (stage[t] = "merge" /\ branch' = Commit(t))
             /\ Attempted(t)' => Attempted(t)
  <2>1. u # t => status'[t] = status[t] /\ stage'[t] = stage[t]  BY <1>7 DEF MergeClean, TypeOK
  <2>2. stage[u] = "merge" /\ branch' = Commit(u)  BY <1>7 DEF MergeClean
  <2> QED  BY <2>1, <2>2, <1>a, <1>c DEF Attempted
<1>8. ASSUME NEW u \in Tasks, CrashMerged(u)  PROVE UNCHANGED <<status, stage>>
  BY <1>8 DEF CrashMerged, Die
<1>9. ASSUME NEW S \in SUBSET Tasks, NEW end \in {"blocked", "unmerged"}, Stop(S, end)
      PROVE  (status'[t] = "merged" => status[t] = "merged") /\ (Attempted(t)' => Attempted(t))
  <2>1. status'[t] = IF t \in S THEN end
               ELSE IF status[t] = "pending" /\ DependsOn[t] \cap S # {} THEN "skipped"
               ELSE status[t]
    BY <1>9 DEF Stop, End
  <2>2. stage'[t] \in {"none", stage[t]}
    BY <1>9 DEF Stop, LeavePass
  <2>3. t \in S => Attempted(t)  BY <1>9, <1>a DEF Stop
  <2> QED  BY <2>1, <2>2, <2>3 DEF Attempted
<1>10. ASSUME NEW u \in Tasks, NEW c \in Contracts, Revise(u, c)
       PROVE  (status'[t] = "merged" => status[t] = "merged") /\ (Attempted(t)' => Attempted(t))
  <2>1. /\ status' = [v \in Tasks |-> IF v \in Reopened(c) THEN "running" ELSE status[v]]
        /\ stage' = [v \in Tasks |-> IF v \in Reopened(c) THEN "work" ELSE stage[v]]
    BY <1>10 DEF Revise
  <2>2. t \in Reopened(c) => Attempted(t)  BY DEF Reopened, Attempted
  <2> QED  BY <2>1, <2>2 DEF Attempted
<1>11. ASSUME NEW u \in Tasks, NEW c \in Contracts, CrashRevised(u, c)  PROVE UNCHANGED <<status, stage>>
  BY <1>11 DEF CrashRevised, Die
<1> QED  BY <1>1, <1>2, <1>3, <1>4, <1>5, <1>6, <1>7, <1>8, <1>9, <1>10, <1>11 DEF Shape, Attempted

\* A merged task has landed, and so has all that an attempted one depends on.
LEMMA LandingsInductive ==
  ASSUME TypeOK, Stages, Landings, Shape
  PROVE  Landings'
<1>k. Keeps  BY BranchGrows
<1>d. DependsOn \in [Tasks -> SUBSET Tasks]  BY ExecuteAssumption
<1>l. Len(branch) \in Nat  BY DEF TypeOK
<1>s. \A t \in Tasks : LandedBy(t, Len(branch)) => LandedBy(t, Len(branch))'
  BY <1>k, <1>l, LandedStays
<1> SUFFICES ASSUME NEW t \in Tasks
             PROVE  /\ status'[t] = "merged" => LandedBy(t, Len(branch))'
                    /\ Attempted(t)' => \A d \in DependsOn[t] : LandedBy(d, Len(branch))'
  BY DEF Landings
<1>1. ASSUME branch' = Commit(t)  PROVE LandedBy(t, Len(branch))'
  <2>1. Len(branch') = Len(branch) + 1  BY <1>1, CommitAppends
  <2>2. branch'[Len(branch) + 1] = [task |-> t, base |-> base[t], text |-> brief[t]]
    BY <1>1, CommitAppends
  <2>3. branch'[Len(branch) + 1].task = t  BY <2>2
  <2> QED  BY <2>1, <2>3, <1>l DEF LandedBy
<1>2. status'[t] = "merged" => LandedBy(t, Len(branch))'
  BY <1>1, <1>s, Attempts DEF Landings
<1>3. ASSUME Attempted(t)', NEW d \in DependsOn[t]  PROVE LandedBy(d, Len(branch))'
  <2>1. d \in Tasks  BY <1>d
  <2>2. Attempted(t) \/ status[d] = "merged"  BY <1>3, Attempts
  <2>3. LandedBy(d, Len(branch))  BY <2>1, <2>2 DEF Landings
  <2> QED  BY <2>1, <2>3, <1>s
<1> QED  BY <1>2, <1>3

\* The worktree of a task in its cycle is the one it had, or is cut from the branch now.
LEMMA Worktrees ==
  ASSUME TypeOK, Stages, Shape, NEW t \in Tasks, stage'[t] \in Cycle
  PROVE  \/ stage[t] \in Cycle /\ base'[t] = base[t]
         \/ Attempted(t) /\ base'[t] = Len(branch) /\ branch' = branch
<1>c. Cycle = {"work", "review", "merge"} /\ Terminal = {"merged", "blocked", "unmerged", "skipped"}
  BY DEF Cycle, Terminal
<1>a. \A u \in Tasks : stage[u] \in Cycle => Attempted(u)  BY DEF Stages, Attempted
<1>1. CASE Start
  <2> PICK n \in Numbers, S \in SUBSET Tasks : StartPass(n, S)  BY <1>1 DEF Start
  <2>1. base' = base /\ stage' = [u \in Tasks |-> IF u \in S THEN "queued" ELSE stage[u]]
    BY DEF StartPass
  <2> QED  BY <2>1, <1>c
<1>2. CASE Break \/ Still
  BY <1>2 DEF Break, Still
<1>3. CASE Resume
  <2>1. stage'[t] = "none"  BY <1>3 DEF Resume
  <2> QED  BY <2>1, <1>c
<1>4. ASSUME NEW u \in Tasks, Spawn(u)
      PROVE  \/ stage[t] \in Cycle /\ base'[t] = base[t]
             \/ Attempted(t) /\ base'[t] = Len(branch) /\ branch' = branch
  <2>1. /\ base' = [base EXCEPT ![u] = Len(branch)] /\ branch' = branch
        /\ stage' = [stage EXCEPT ![u] = "work"] /\ stage[u] = "queued"
    BY <1>4 DEF Spawn, Fresh
  <2> QED  BY <2>1 DEF Attempted, TypeOK
<1>5. ASSUME NEW u \in Tasks, Turn(u)
      PROVE  \/ stage[t] \in Cycle /\ base'[t] = base[t]
             \/ Attempted(t) /\ base'[t] = Len(branch) /\ branch' = branch
  <2>1. /\ base' = base \/ base' = [base EXCEPT ![u] = Len(branch)]
        /\ branch' = branch /\ stage[u] \in Cycle
        /\ \E g \in Cycle : stage' = [stage EXCEPT ![u] = g]
    BY <1>5 DEF Turn, Fresh
  <2>2. u # t => stage[t] \in Cycle /\ base'[t] = base[t]  BY <2>1 DEF TypeOK
  <2>3. base'[u] = base[u] \/ base'[u] = Len(branch)  BY <2>1 DEF TypeOK
  <2> QED  BY <2>1, <2>2, <2>3, <1>a
<1>6. ASSUME NEW u \in Tasks, MergeClean(u)
      PROVE  stage[t] \in Cycle /\ base'[t] = base[t]
  BY <1>6, <1>c DEF MergeClean, TypeOK
<1>7. ASSUME NEW u \in Tasks, CrashMerged(u)  PROVE stage' = stage /\ base' = base
  BY <1>7 DEF CrashMerged, Die
<1>8. ASSUME NEW S \in SUBSET Tasks, NEW end \in {"blocked", "unmerged"}, Stop(S, end)
      PROVE  stage[t] \in Cycle /\ base'[t] = base[t]
  <2>1. base' = base /\ stage'[t] \in {"none", stage[t]}
    BY <1>8 DEF Stop, LeavePass
  <2> QED  BY <2>1, <1>c
<1>9. ASSUME NEW u \in Tasks, NEW c \in Contracts, Revise(u, c)
      PROVE  \/ stage[t] \in Cycle /\ base'[t] = base[t]
             \/ Attempted(t) /\ base'[t] = Len(branch) /\ branch' = branch
  <2>1. /\ stage'[t] = IF t \in Reopened(c) THEN "work" ELSE stage[t]
        /\ base'[t] = IF t \in Reopened(c) /\ status[t] \in Terminal THEN Len(branch) ELSE base[t]
        /\ branch' = branch
    BY <1>9 DEF Revise
  <2>2. t \in Reopened(c) => Attempted(t)  BY DEF Reopened, Attempted
  <2>3. t \in Reopened(c) /\ status[t] \notin Terminal => stage[t] \in Cycle
    BY <1>c DEF Reopened, Stages, TypeOK
  <2> QED  BY <2>1, <2>2, <2>3
<1>10. ASSUME NEW u \in Tasks, NEW c \in Contracts, CrashRevised(u, c)  PROVE stage' = stage /\ base' = base
  BY <1>10 DEF CrashRevised, Die
<1> QED  BY <1>1, <1>2, <1>3, <1>4, <1>5, <1>6, <1>7, <1>8, <1>9, <1>10 DEF Shape

\* The worktree of a task in its cycle holds what the task depends on, after every step.
LEMMA BasesInductive ==
  ASSUME TypeOK, Stages, Landings, Bases, Shape
  PROVE  Bases'
<1>k. Keeps  BY BranchGrows
<1>d. DependsOn \in [Tasks -> SUBSET Tasks]  BY ExecuteAssumption
<1>l. Len(branch) \in Nat /\ Len(branch') >= Len(branch) /\ \A t \in Tasks : base[t] \in Nat
  BY <1>k DEF TypeOK, Keeps
<1> SUFFICES ASSUME NEW t \in Tasks, stage'[t] \in Cycle
             PROVE  base'[t] <= Len(branch') /\ \A d \in DependsOn[t] : LandedBy(d, base[t])'
  BY DEF Bases
<1>1. \E n \in Nat : /\ base'[t] = n /\ n <= Len(branch)
                     /\ \A d \in DependsOn[t] : LandedBy(d, n)
  <2>1. CASE stage[t] \in Cycle /\ base'[t] = base[t]
    BY <2>1, <1>l DEF Bases
  <2>2. CASE Attempted(t) /\ base'[t] = Len(branch)
    BY <2>2, <1>l DEF Landings
  <2> QED  BY <2>1, <2>2, Worktrees
<1>2. PICK n \in Nat : /\ base'[t] = n /\ n <= Len(branch)
                       /\ \A d \in DependsOn[t] : LandedBy(d, n)
  BY <1>1
<1>3. \A d \in DependsOn[t] : LandedBy(d, n)'
  BY <1>2, <1>k, <1>d, LandedStays
<1>4. \A d \in DependsOn[t] : LandedBy(d, base[t])'
  BY <1>2, <1>3 DEF LandedBy
<1> QED  BY <1>2, <1>4, <1>l

\* A commit's worktree was cut before it, from a branch that held what its task depends on.
LEMMA CommitsInductive ==
  ASSUME TypeOK, Stages, Bases, Earlier, BuiltOnDependencies, Shape
  PROVE  Earlier' /\ BuiltOnDependencies'
<1>c. "merge" \in Cycle  BY DEF Cycle
<1>d. DependsOn \in [Tasks -> SUBSET Tasks]  BY ExecuteAssumption
<1>l. Len(branch) \in Nat /\ DOMAIN branch = 1..Len(branch)  BY DEF TypeOK
<1>m. DOMAIN branch' = 1..Len(branch') /\ Len(branch') \in Nat
  <2>1. CASE branch' = branch  BY <2>1, <1>l
  <2>2. ASSUME NEW t \in Tasks, branch' = Commit(t)  PROVE DOMAIN branch' = 1..Len(branch') /\ Len(branch') \in Nat
    BY <2>2 DEF Commit, TypeOK
  <2> QED  BY <2>1, <2>2, BranchStep
<1>1. CASE branch' = branch
  BY <1>1 DEF Earlier, BuiltOnDependencies
<1>2. ASSUME NEW t \in Tasks, stage[t] = "merge", branch' = Commit(t)
      PROVE  Earlier' /\ BuiltOnDependencies'
  <2> DEFINE n == Len(branch) + 1
  <2>1. Len(branch') = n  BY <1>2, CommitAppends
  <2>2. \A j \in 1..Len(branch) : branch'[j] = branch[j]  BY <1>2, CommitAppends
  <2>3. branch'[n] = [task |-> t, base |-> base[t], text |-> brief[t]]  BY <1>2, CommitAppends
  <2>4. branch'[n].task = t /\ branch'[n].base = base[t]  BY <2>3
  <2>5. base[t] <= Len(branch) /\ base[t] \in Nat /\ \A d \in DependsOn[t] : LandedBy(d, base[t])
    BY <1>2, <1>c DEF Bases, TypeOK
  <2>6. \A i \in 1..n : i \in 1..Len(branch) \/ i = n  BY <1>l
  <2>7. \A i \in 1..n : branch'[i].base < i
    <3> TAKE i \in 1..n
    <3>1. CASE i \in 1..Len(branch)  BY <3>1, <2>2 DEF Earlier
    <3>2. CASE i = n  BY <3>2, <2>4, <2>5, <1>l
    <3> QED  BY <3>1, <3>2, <2>6
  <2>8. Earlier'  BY <2>1, <2>7 DEF Earlier
  <2>9. \A i \in 1..n : \A d \in DependsOn[branch'[i].task] :
          \E j \in 1..branch'[i].base : branch'[j].task = d
    <3> TAKE i \in 1..n
    <3>1. CASE i \in 1..Len(branch)
      <4>1. branch'[i] = branch[i] /\ branch[i].base < i /\ branch[i].base \in Nat
        <5> DEFINE R == [task : Tasks, base : Nat, text : SUBSET Contracts]
        <5>0. branch \in Seq(R)  BY DEF TypeOK
        <5> HIDE DEF R
        <5>1. branch[i] \in R  BY <3>1, <5>0, ElementOfSeq
        <5>2. branch[i].base \in Nat  BY <5>1 DEF R
        <5> QED  BY <3>1, <5>2, <2>2 DEF Earlier
      <4>2. \A j \in 1..branch[i].base : branch'[j] = branch[j]
        BY <3>1, <4>1, <2>2, <1>l
      <4>3. \A d \in DependsOn[branch[i].task] : \E j \in 1..branch[i].base : branch[j].task = d
        BY <3>1, <1>l DEF BuiltOnDependencies
      <4> QED  BY <4>1, <4>2, <4>3
    <3>2. CASE i = n
      <4>1. \A d \in DependsOn[t] : \E j \in 1..base[t] : j <= Len(branch) /\ branch[j].task = d
        BY <2>5 DEF LandedBy
      <4>2. \A j \in 1..base[t] : j <= Len(branch) => branch'[j] = branch[j]
        BY <2>2, <2>5, <1>l
      <4>3. \A d \in DependsOn[t] : \E j \in 1..base[t] : branch'[j].task = d
        BY <4>1, <4>2
      <4> QED  BY <3>2, <4>3, <2>4
    <3> QED  BY <3>1, <3>2, <2>6
  <2>10. BuiltOnDependencies'
    BY <2>1, <2>9, <1>m DEF BuiltOnDependencies
  <2> QED  BY <2>8, <2>10
<1> QED  BY <1>1, <1>2, BranchStep

-----------------------------------------------------------------------------
(* The texts of the contracts. *)

\* The texts of a task change only when one of its contracts is revised.
LEMMA TextStep ==
  ASSUME Shape
  PROVE  \/ revised' = revised
         \/ \E c \in Contracts : /\ c \notin revised /\ revised' = revised \cup {c}
                                 /\ \E t \in Tasks : Revise(t, c) \/ (CrashRevised(t, c) /\ "revision" \in torn')
<1>1. ASSUME NEW t \in Tasks, NEW c \in Contracts, CrashRevised(t, c)
      PROVE  c \notin revised /\ revised' = revised \cup {c} /\ "revision" \in torn'
  BY <1>1 DEF CrashRevised
<1>2. ASSUME NEW t \in Tasks, NEW c \in Contracts, Revise(t, c)
      PROVE  c \notin revised /\ revised' = revised \cup {c}
  BY <1>2 DEF Revise
<1>3. CASE Start \/ Break \/ Resume \/ Still
           \/ (\E t \in Tasks : Spawn(t) \/ Turn(t) \/ MergeClean(t) \/ CrashMerged(t))
           \/ (\E S \in SUBSET Tasks, end \in {"blocked", "unmerged"} : Stop(S, end))
  BY <1>3 DEF Start, StartPass, Break, Resume, Still, Spawn, Turn, MergeClean, CrashMerged, Stop, disk
<1> QED  BY <1>1, <1>2, <1>3 DEF Shape

\* A torn revision or merge is not forgotten.
LEMMA TornStays ==
  ASSUME Shape
  PROVE  torn \subseteq torn'
BY DEF Shape, Start, StartPass, Break, Resume, Still, Spawn, Turn, MergeClean, CrashMerged, Stop,
       Revise, CrashRevised

\* A task in its cycle keeps the texts it was given unless it starts afresh.
LEMMA BriefStep ==
  ASSUME TypeOK, Stages, Shape, NEW t \in Tasks, stage'[t] \in Cycle
  PROVE  \/ stage[t] \in Cycle /\ brief'[t] = brief[t]
         \/ brief'[t] = Text(t)
         \/ \E u \in Tasks, c \in Contracts : Revise(u, c)
<1>c. Cycle = {"work", "review", "merge"}  BY DEF Cycle
<1>1. CASE Start
  <2> PICK n \in Numbers, S \in SUBSET Tasks : StartPass(n, S)  BY <1>1 DEF Start
  <2>1. brief' = brief /\ stage' = [u \in Tasks |-> IF u \in S THEN "queued" ELSE stage[u]]
    BY DEF StartPass
  <2> QED  BY <2>1, <1>c
<1>2. CASE Break \/ Still
  BY <1>2 DEF Break, Still
<1>3. CASE Resume
  <2>1. stage'[t] = "none"  BY <1>3 DEF Resume
  <2> QED  BY <2>1, <1>c
<1>4. ASSUME NEW u \in Tasks, Spawn(u)
      PROVE  (stage[t] \in Cycle /\ brief'[t] = brief[t]) \/ brief'[t] = Text(t)
  <2>1. /\ brief' = [brief EXCEPT ![u] = Text(u)] /\ stage' = [stage EXCEPT ![u] = "work"]
    BY <1>4 DEF Spawn, Fresh
  <2> QED  BY <2>1 DEF TypeOK
<1>5. ASSUME NEW u \in Tasks, Turn(u)
      PROVE  (stage[t] \in Cycle /\ brief'[t] = brief[t]) \/ brief'[t] = Text(t)
  <2>1. /\ brief' = brief \/ brief' = [brief EXCEPT ![u] = Text(u)]
        /\ stage[u] \in Cycle
        /\ \E g \in Cycle : stage' = [stage EXCEPT ![u] = g]
    BY <1>5 DEF Turn, Fresh
  <2>2. u # t => stage[t] \in Cycle /\ brief'[t] = brief[t]  BY <2>1 DEF TypeOK
  <2>3. brief'[u] = brief[u] \/ brief'[u] = Text(u)  BY <2>1 DEF TypeOK
  <2> QED  BY <2>1, <2>2, <2>3
<1>6. ASSUME NEW u \in Tasks, MergeClean(u)
      PROVE  stage[t] \in Cycle /\ brief'[t] = brief[t]
  BY <1>6, <1>c DEF MergeClean, TypeOK
<1>7. ASSUME NEW u \in Tasks, CrashMerged(u)  PROVE stage' = stage /\ brief' = brief
  BY <1>7 DEF CrashMerged, Die
<1>8. ASSUME NEW S \in SUBSET Tasks, NEW end \in {"blocked", "unmerged"}, Stop(S, end)
      PROVE  stage[t] \in Cycle /\ brief'[t] = brief[t]
  <2>1. brief' = brief /\ stage'[t] \in {"none", stage[t]}
    BY <1>8 DEF Stop, LeavePass
  <2> QED  BY <2>1, <1>c
<1>9. ASSUME NEW u \in Tasks, NEW c \in Contracts, CrashRevised(u, c)  PROVE stage' = stage /\ brief' = brief
  BY <1>9 DEF CrashRevised, Die
<1> QED  BY <1>1, <1>2, <1>3, <1>4, <1>5, <1>6, <1>7, <1>8, <1>9 DEF Shape

\* The consumers of a revised contract are given its text, or have it to come.
LEMMA RevisedTexts ==
  ASSUME TypeOK, Stages, NEW u \in Tasks, NEW c \in Contracts, Revise(u, c), NEW t \in Tasks,
         stage[t] \in Cycle => brief[t] = Text(t)
  PROVE  /\ stage'[t] \in Cycle => brief'[t] = Text(t)'
         /\ status'[t] = "merged" => status[t] = "merged" /\ Text(t)' = Text(t) /\ branch' = branch
<1>c. Cycle = {"work", "review", "merge"} /\ Terminal = {"merged", "blocked", "unmerged", "skipped"}
  BY DEF Cycle, Terminal
<1>1. /\ status'[t] = IF t \in Reopened(c) THEN "running" ELSE status[t]
      /\ stage'[t] = IF t \in Reopened(c) THEN "work" ELSE stage[t]
      /\ brief'[t] = IF t \notin Reopened(c) THEN brief[t]
                     ELSE {c} \cup (IF status[t] \in Terminal THEN Text(t) ELSE brief[t])
      /\ branch' = branch /\ revised' = revised \cup {c}
  BY DEF Revise
<1>2. Text(t)' = revised' \cap Consumes[t]  BY DEF Text
<1>3. CASE t \in Reopened(c)
  <2>1. c \in Consumes[t]  BY <1>3 DEF Reopened
  <2>2. Text(t)' = {c} \cup Text(t)  BY <1>1, <1>2, <2>1 DEF Text
  <2>3. status[t] \notin Terminal => stage[t] \in Cycle
    BY <1>3, <1>c DEF Reopened, Stages, TypeOK
  <2>4. brief'[t] = Text(t)'  BY <1>1, <1>3, <2>2, <2>3
  <2> QED  BY <1>1, <1>3, <2>4
<1>4. CASE t \notin Reopened(c)
  <2>1. c \in Consumes[t] => status[t] \in {"pending", "skipped"}  BY <1>4 DEF Reopened
  <2>2. stage[t] \in Cycle \/ status[t] = "merged" => c \notin Consumes[t]
    BY <2>1 DEF Stages
  <2>3. c \notin Consumes[t] => Text(t)' = Text(t)  BY <1>1, <1>2 DEF Text
  <2> QED  BY <1>1, <1>4, <2>2, <2>3
<1> QED  BY <1>3, <1>4

\* Without a torn revision the texts are those of now, after every step.
LEMMA TextsInductive ==
  ASSUME TypeOK, Stages, Texts, Shape
  PROVE  Texts'
<1> SUFFICES ASSUME "revision" \notin torn', NEW t \in Tasks
             PROVE  /\ stage'[t] \in Cycle => brief'[t] = Text(t)'
                    /\ status'[t] = "merged" =>
                         \E i \in 1..Len(branch') : branch'[i].task = t /\ branch'[i].text = Text(t)'
  BY DEF Texts
<1>t. "revision" \notin torn  BY TornStays
<1>b. stage[t] \in Cycle => brief[t] = Text(t)  BY <1>t DEF Texts
<1>m. status[t] = "merged" => \E i \in 1..Len(branch) : branch[i].task = t /\ branch[i].text = Text(t)
  BY <1>t DEF Texts
<1>k. Keeps  BY BranchGrows
<1>l. Len(branch) \in Nat /\ Len(branch') >= Len(branch)  BY <1>k DEF TypeOK, Keeps
<1>1. \/ \E u \in Tasks, c \in Contracts : Revise(u, c)
      \/ revised' = revised /\ ~ \E u \in Tasks, c \in Contracts : Revise(u, c)
  BY TextStep
<1>2. /\ stage'[t] \in Cycle => brief'[t] = Text(t)'
      /\ status'[t] = "merged" =>
           Text(t)' = Text(t) /\ (status[t] = "merged" \/ (stage[t] = "merge" /\ branch' = Commit(t)))
  <2>1. CASE \E u \in Tasks, c \in Contracts : Revise(u, c)
    BY <2>1, <1>b, RevisedTexts
  <2>2. CASE revised' = revised /\ ~ \E u \in Tasks, c \in Contracts : Revise(u, c)
    <3>1. Text(t)' = Text(t)  BY <2>2 DEF Text
    <3> QED  BY <2>2, <3>1, <1>b, BriefStep, Attempts
  <2> QED  BY <1>1, <2>1, <2>2
<1>3. ASSUME status'[t] = "merged"
      PROVE  \E i \in 1..Len(branch') : branch'[i].task = t /\ branch'[i].text = Text(t)'
  <2>1. CASE status[t] = "merged"
    <3> PICK i \in 1..Len(branch) : branch[i].task = t /\ branch[i].text = Text(t)  BY <2>1, <1>m
    <3>1. i \in 1..Len(branch') /\ branch'[i] = branch[i]  BY <1>k, <1>l DEF Keeps
    <3> QED  BY <3>1, <1>2, <1>3
  <2>2. CASE stage[t] = "merge" /\ branch' = Commit(t)
    <3>1. Len(branch') = Len(branch) + 1  BY <2>2, CommitAppends
    <3>2. branch'[Len(branch) + 1] = [task |-> t, base |-> base[t], text |-> brief[t]]
      BY <2>2, CommitAppends
    <3>3. branch'[Len(branch) + 1].task = t /\ branch'[Len(branch) + 1].text = brief[t]  BY <3>2
    <3>4. brief[t] = Text(t)'  BY <2>2, <1>b, <1>2, <1>3 DEF Cycle
    <3>5. Len(branch) + 1 \in 1..Len(branch')  BY <3>1, <1>l
    <3> QED  BY <3>3, <3>4, <3>5
  <2> QED  BY <2>1, <2>2, <1>2, <1>3
<1> QED  BY <1>2, <1>3

-----------------------------------------------------------------------------
(* How often a task lands. *)

\* A merged task stays merged unless one of its contracts is revised.
LEMMA MergedStays ==
  ASSUME TypeOK, Stages, Shape, NEW t \in Tasks, status[t] = "merged", status'[t] # "merged"
  PROVE  \E u \in Tasks, c \in Consumes[t] : c \notin revised /\ revised' = revised \cup {c}
<1>c. Cycle = {"work", "review", "merge"}  BY DEF Cycle
<1>s. stage[t] \notin Cycle /\ stage[t] # "queued"  BY DEF Stages
<1>1. CASE Start
  BY <1>1 DEF Start, StartPass, disk
<1>2. CASE Break
  BY <1>2 DEF Break
<1>3. CASE Resume
  BY <1>3 DEF Resume
<1>4. CASE Still
  BY <1>4 DEF Still
<1>5. ASSUME NEW u \in Tasks, Spawn(u)  PROVE FALSE
  <2>1. u # t  BY <1>5, <1>s DEF Spawn
  <2> QED  BY <1>5, <2>1 DEF Spawn, TypeOK
<1>6. ASSUME NEW u \in Tasks, Turn(u)  PROVE FALSE
  <2>1. u # t  BY <1>6, <1>s DEF Turn
  <2> QED  BY <1>6, <2>1 DEF Turn, TypeOK
<1>7. ASSUME NEW u \in Tasks, MergeClean(u)  PROVE FALSE
  BY <1>7 DEF MergeClean, TypeOK
<1>8. ASSUME NEW u \in Tasks, CrashMerged(u)  PROVE FALSE
  BY <1>8 DEF CrashMerged, Die
<1>9. ASSUME NEW S \in SUBSET Tasks, NEW end \in {"blocked", "unmerged"}, Stop(S, end)  PROVE FALSE
  BY <1>9, <1>s DEF Stop, End
<1>10. ASSUME NEW u \in Tasks, NEW c \in Contracts, Revise(u, c)
       PROVE  c \in Consumes[t] /\ c \notin revised /\ revised' = revised \cup {c}
  BY <1>10 DEF Revise, Reopened
<1>11. ASSUME NEW u \in Tasks, NEW c \in Contracts, CrashRevised(u, c)  PROVE FALSE
  BY <1>11 DEF CrashRevised, Die
<1> QED  BY <1>1, <1>2, <1>3, <1>4, <1>5, <1>6, <1>7, <1>8, <1>9, <1>10, <1>11 DEF Shape

\* Commits and texts are finite; a new commit counts one, and so does a new text.
LEMMA CommitsFinite ==
  ASSUME TypeOK, NEW t \in Tasks
  PROVE  IsFiniteSet(Commits(t)) /\ Cardinality(Commits(t)) \in Nat
<1>1. Len(branch) \in Nat  BY DEF TypeOK
<1>2. IsFiniteSet(1..Len(branch))  BY <1>1, FS_Interval
<1>3. Commits(t) \subseteq 1..Len(branch)  BY DEF Commits
<1>4. IsFiniteSet(Commits(t))  BY <1>2, <1>3, FS_Subset
<1> QED  BY <1>4, FS_CardinalityType

\* A commit of a task is one more of that task's and of no other's.
LEMMA CommitCounts ==
  ASSUME TypeOK, NEW u \in Tasks, branch' = Commit(u), NEW t \in Tasks
  PROVE  Cardinality(Commits(t)') = Cardinality(Commits(t)) + (IF t = u THEN 1 ELSE 0)
<1>1. Len(branch') = Len(branch) + 1 /\ Len(branch) \in Nat  BY CommitAppends
<1>2. \A j \in 1..Len(branch) : branch'[j] = branch[j]  BY CommitAppends
<1>3. branch'[Len(branch) + 1] = [task |-> u, base |-> base[u], text |-> brief[u]]  BY CommitAppends
<1>4. branch'[Len(branch) + 1].task = u  BY <1>3
<1>5. Commits(t)' = {i \in 1..(Len(branch) + 1) : branch'[i].task = t}  BY <1>1 DEF Commits
<1>6. CASE t = u
  <2>1. Commits(t)' = Commits(t) \cup {Len(branch) + 1}
    BY <1>1, <1>2, <1>4, <1>5, <1>6 DEF Commits
  <2>2. Len(branch) + 1 \notin Commits(t)  BY <1>1 DEF Commits
  <2>3. IsFiniteSet(Commits(t)) /\ Cardinality(Commits(t)) \in Nat  BY CommitsFinite
  <2>4. Cardinality(Commits(t) \cup {Len(branch) + 1}) = Cardinality(Commits(t)) + 1
    BY <2>2, <2>3, FS_AddElement
  <2> QED  BY <1>6, <2>1, <2>4
<1>7. CASE t # u
  <2>1. Commits(t)' = Commits(t)
    BY <1>1, <1>2, <1>4, <1>5, <1>7 DEF Commits
  <2>2. Cardinality(Commits(t)) \in Nat  BY CommitsFinite
  <2> QED  BY <1>7, <2>1, <2>2
<1> QED  BY <1>6, <1>7

\* The texts of a task are never fewer, and one more when its contract is revised.
LEMMA TextCounts ==
  ASSUME TypeOK, IsFiniteSet(revised), Shape, NEW t \in Tasks
  PROVE  /\ IsFiniteSet(revised')
         /\ Cardinality(Text(t)) \in Nat /\ Cardinality(Text(t)') \in Nat
         /\ Cardinality(Text(t)') >= Cardinality(Text(t))
         /\ \A c \in Consumes[t] : c \notin revised /\ revised' = revised \cup {c} =>
              Cardinality(Text(t)') = Cardinality(Text(t)) + 1
<1>1. revised' = revised \/ \E c \in Contracts : c \notin revised /\ revised' = revised \cup {c}
  BY TextStep
<1>2. IsFiniteSet(revised')  BY <1>1, FS_AddElement
<1>3. IsFiniteSet(Text(t))  BY FS_Subset DEF Text
<1>4. IsFiniteSet(Text(t)')
  <2>1. Text(t)' \subseteq revised'  BY DEF Text
  <2> QED  BY <1>2, <2>1, FS_Subset
<1>5. Text(t) \subseteq Text(t)'  BY <1>1 DEF Text
<1>6. Cardinality(Text(t)') >= Cardinality(Text(t))
  <2>1. Cardinality(Text(t)) <= Cardinality(Text(t)')  BY <1>4, <1>5, FS_Subset
  <2> QED  BY <2>1, <1>3, <1>4, FS_CardinalityType
<1>7. ASSUME NEW c \in Consumes[t], c \notin revised, revised' = revised \cup {c}
      PROVE  Cardinality(Text(t)') = Cardinality(Text(t)) + 1
  <2>1. Text(t)' = Text(t) \cup {c} /\ c \notin Text(t)  BY <1>7 DEF Text
  <2> QED  BY <2>1, <1>3, FS_AddElement
<1> QED  BY <1>2, <1>3, <1>4, <1>6, <1>7, FS_CardinalityType

\* A clean merge, or a torn one, is the only step that adds a commit.
LEMMA CommitStep ==
  ASSUME TypeOK, Stages, Shape
  PROVE  \/ branch' = branch
         \/ "merge" \in torn'
         \/ \E u \in Tasks : /\ branch' = Commit(u)
                             /\ status[u] # "merged" /\ status' = [status EXCEPT ![u] = "merged"]
<1>1. ASSUME NEW u \in Tasks, MergeClean(u)
      PROVE  /\ branch' = Commit(u)
             /\ status[u] # "merged" /\ status' = [status EXCEPT ![u] = "merged"]
  BY <1>1 DEF MergeClean, Stages, Cycle
<1>2. ASSUME NEW u \in Tasks, CrashMerged(u)  PROVE "merge" \in torn'
  BY <1>2 DEF CrashMerged
<1> QED  BY <1>1, <1>2 DEF Shape, Start, StartPass, Break, Resume, Still, Spawn, Turn, Stop,
            Revise, CrashRevised, disk

\* Without a torn merge a task lands once for each of its texts, after every step.
LEMMA CountedInductive ==
  ASSUME TypeOK, Stages, Counted, Shape
  PROVE  Counted'
<1>f. IsFiniteSet(revised)  BY DEF Counted
<1> DEFINE One(p) == IF p THEN 1 ELSE 0
<1>1. IsFiniteSet(revised')
  BY <1>f, TextStep, FS_AddElement
<1> SUFFICES ASSUME "merge" \notin torn', NEW t \in Tasks
             PROVE  Cardinality(Commits(t)') <= One(status'[t] = "merged") + Cardinality(Text(t)')
  BY <1>1 DEF Counted
<1>c. Cardinality(Commits(t)) <= One(status[t] = "merged") + Cardinality(Text(t))
  BY TornStays DEF Counted
<1>n. Cardinality(Commits(t)) \in Nat  BY CommitsFinite
<1>x. /\ Cardinality(Text(t)) \in Nat /\ Cardinality(Text(t)') \in Nat
      /\ Cardinality(Text(t)') >= Cardinality(Text(t))
  BY <1>f, TextCounts
<1>o. \A p \in BOOLEAN : One(p) \in {0, 1} /\ (p => One(p) = 1) /\ (~p => One(p) = 0)  OBVIOUS
<1> HIDE DEF One
<1>2. ASSUME branch' = branch
      PROVE  Cardinality(Commits(t)') <= One(status'[t] = "merged") + Cardinality(Text(t)')
  <2>1. Commits(t)' = Commits(t)  BY <1>2 DEF Commits
  <2>2. CASE status[t] = "merged" /\ status'[t] # "merged"
    <3>1. Cardinality(Text(t)') = Cardinality(Text(t)) + 1
      BY <1>f, <2>2, MergedStays, TextCounts
    <3>2. One(status[t] = "merged") = 1 /\ One(status'[t] = "merged") = 0  BY <2>2, <1>o
    <3> QED  BY <2>1, <3>1, <3>2, <1>c, <1>n, <1>x
  <2>3. CASE status[t] # "merged" \/ status'[t] = "merged"
    <3>1. (status[t] = "merged") \in BOOLEAN /\ (status'[t] = "merged") \in BOOLEAN  OBVIOUS
    <3>2. /\ One(status[t] = "merged") \in {0, 1} /\ One(status'[t] = "merged") \in {0, 1}
          /\ One(status[t] = "merged") = 0 \/ One(status'[t] = "merged") = 1
      BY <2>3, <3>1, <1>o
    <3> QED  BY <2>1, <3>2, <1>c, <1>n, <1>x
  <2> QED  BY <2>2, <2>3
<1>3. ASSUME NEW u \in Tasks, branch' = Commit(u), status[u] # "merged",
             status' = [status EXCEPT ![u] = "merged"]
      PROVE  Cardinality(Commits(t)') <= One(status'[t] = "merged") + Cardinality(Text(t)')
  <2>1. Cardinality(Commits(t)') = Cardinality(Commits(t)) + (IF t = u THEN 1 ELSE 0)
    BY <1>3, CommitCounts
  <2>2. CASE t = u
    <3>1. status[t] # "merged" /\ status'[t] = "merged"  BY <1>3, <2>2 DEF TypeOK
    <3>2. One(status[t] = "merged") = 0 /\ One(status'[t] = "merged") = 1  BY <3>1, <1>o
    <3> QED  BY <2>1, <2>2, <3>2, <1>c, <1>n, <1>x
  <2>3. CASE t # u
    <3>1. status'[t] = status[t]  BY <1>3, <2>3 DEF TypeOK
    <3>2. One(status'[t] = "merged") = One(status[t] = "merged") /\ One(status[t] = "merged") \in {0, 1}
      BY <3>1, <1>o
    <3> QED  BY <2>1, <2>3, <3>2, <1>c, <1>n, <1>x
  <2> QED  BY <2>2, <2>3
<1> QED  BY <1>2, <1>3, CommitStep

-----------------------------------------------------------------------------
(* Who waits for whom. *)

\* A session only dies, which counts as a crash, or is resumed.
LEMMA SessionStep ==
  ASSUME TypeOK, Shape
  PROVE  crashes \in Nat /\ crashes' \in Nat /\ crashes' >= crashes
         /\ (~session' => ~session \/ crashes' > 0)
<1>1. \/ UNCHANGED <<session, crashes>>
      \/ session' = FALSE /\ crashes' = crashes + 1
      \/ session' = TRUE /\ crashes' = crashes
  BY DEF Shape, Start, StartPass, Break, Resume, Still, Spawn, Turn, MergeClean, CrashMerged, Stop,
         Revise, CrashRevised, Die, disk
<1>2. crashes \in Nat  BY DEF TypeOK
<1>3. crashes' = crashes \/ crashes' = crashes + 1  BY <1>1
<1>4. crashes' \in Nat /\ crashes' >= crashes  BY <1>2, <1>3
<1>5. ~session' => ~session \/ crashes' = crashes + 1  BY <1>1
<1> QED  BY <1>2, <1>4, <1>5

\* The only task that comes to wait for one that failed was running when its session died.
LEMMA PendingStep ==
  ASSUME TypeOK, Stages, Shape, NEW t \in Tasks, NEW d \in DependsOn[t], d \in Tasks,
         status'[t] = "pending", status'[d] \in {"blocked", "unmerged"}
  PROVE  /\ status[d] \in {"blocked", "unmerged"}
         /\ status[t] = "pending" \/ (Attempted(t) /\ ~session)
<1>1. CASE Start
  BY <1>1 DEF Start, StartPass, disk
<1>2. CASE Break
  <2>1. status'[d] = IF status[d] \in {"blocked", "unmerged", "skipped"} THEN "pending" ELSE status[d]
    BY <1>2 DEF Break
  <2> QED  BY <2>1
<1>3. CASE Resume
  <2>1. \A u \in Tasks : status'[u] = IF status[u] \in {"running", "pass"} THEN "pending" ELSE status[u]
    BY <1>3 DEF Resume
  <2>2. ~session  BY <1>3 DEF Resume
  <2> QED  BY <2>1, <2>2 DEF Attempted
<1>4. CASE Still
  BY <1>4 DEF Still
<1>5. ASSUME NEW u \in Tasks, Spawn(u) \/ Turn(u) \/ MergeClean(u)
      PROVE  status[d] \in {"blocked", "unmerged"} /\ status[t] = "pending"
  <2>1. \E s \in {"running", "pass", "merged"} : status' = [status EXCEPT ![u] = s]
    BY <1>5 DEF Spawn, Turn, MergeClean
  <2>2. u # t /\ u # d  BY <2>1 DEF TypeOK
  <2> QED  BY <2>1, <2>2 DEF TypeOK
<1>6. ASSUME NEW u \in Tasks, CrashMerged(u)  PROVE status' = status
  BY <1>6 DEF CrashMerged
<1>7. ASSUME NEW S \in SUBSET Tasks, NEW end \in {"blocked", "unmerged"}, Stop(S, end)
      PROVE  status[d] \in {"blocked", "unmerged"} /\ status[t] = "pending"
  <2>1. \A u \in Tasks : status'[u] =
               IF u \in S THEN end
               ELSE IF status[u] = "pending" /\ DependsOn[u] \cap S # {} THEN "skipped"
               ELSE status[u]
    BY <1>7 DEF Stop, End
  <2>2. t \notin S  BY <2>1
  <2>3. status[t] = "pending" /\ DependsOn[t] \cap S = {}  BY <2>1, <2>2
  <2>4. d \notin S  BY <2>3
  <2> QED  BY <2>1, <2>3, <2>4
<1>8. ASSUME NEW u \in Tasks, NEW c \in Contracts, Revise(u, c)
      PROVE  status[d] \in {"blocked", "unmerged"} /\ status[t] = "pending"
  <2>1. \A v \in Tasks : status'[v] = IF v \in Reopened(c) THEN "running" ELSE status[v]
    BY <1>8 DEF Revise
  <2> QED  BY <2>1
<1>9. ASSUME NEW u \in Tasks, NEW c \in Contracts, CrashRevised(u, c)  PROVE status' = status
  BY <1>9 DEF CrashRevised
<1> QED  BY <1>1, <1>2, <1>3, <1>4, <1>5, <1>6, <1>7, <1>8, <1>9 DEF Shape

\* Nobody comes to wait for a task that failed, after every step.
LEMMA WaitingInductive ==
  ASSUME TypeOK, Stages, Waiting, Shape
  PROVE  Waiting'
<1>d. DependsOn \in [Tasks -> SUBSET Tasks]  BY ExecuteAssumption
<1>n. crashes \in Nat  BY DEF TypeOK
<1>w. ~session => crashes > 0  BY DEF Waiting
<1>r. revised' = {} => revised = {}  BY TextStep
<1>1. ~session' => crashes' > 0
  <2>1. crashes' \in Nat /\ crashes' >= crashes /\ (~session' => ~session \/ crashes' > 0)  BY SessionStep
  <2>2. crashes > 0 => crashes' > 0  BY <2>1, <1>n
  <2> QED  BY <2>1, <2>2, <1>w
<1>2. ASSUME revised' = {}, NEW t \in Tasks, Attempted(t)', NEW d \in DependsOn[t]
      PROVE  status'[d] = "merged"
  <2>1. d \in Tasks  BY <1>d
  <2>2. status[d] = "merged"  BY <1>2, <1>r, Attempts DEF Waiting
  <2> QED  BY <1>2, <2>1, <2>2, MergedStays
<1>3. ASSUME ~Waits', NEW t \in Tasks, status'[t] = "pending", NEW d \in DependsOn[t]
      PROVE  status'[d] \notin {"blocked", "unmerged"}
  <2> SUFFICES ASSUME status'[d] \in {"blocked", "unmerged"}  PROVE FALSE
    OBVIOUS
  <2>1. d \in Tasks  BY <1>d
  <2>2. status[d] \in {"blocked", "unmerged"} /\ (status[t] = "pending" \/ (Attempted(t) /\ ~session))
    BY <1>3, <2>1, PendingStep
  <2>3. ~Waits /\ (revised # {} => crashes = 0)
    <3>0. crashes' \in Nat /\ crashes' >= crashes  BY SessionStep
    <3>1. crashes' > 0 \/ crashes = 0  BY <3>0, <1>n
    <3>2. revised # {} => revised' # {}  BY <1>r
    <3>3. ~(crashes' > 0 /\ revised' # {})  BY <1>3 DEF Waits
    <3> QED  BY <3>1, <3>2, <3>3, <1>n DEF Waits
  <2>4. CASE status[t] = "pending"
    BY <2>2, <2>3, <2>4 DEF Waiting
  <2>5. CASE Attempted(t) /\ ~session
    <3>1. revised = {}  BY <2>3, <2>5, <1>w, <1>n
    <3>2. status[d] = "merged"  BY <2>5, <3>1 DEF Waiting
    <3> QED  BY <2>2, <3>2
  <2> QED  BY <2>2, <2>4, <2>5
<1> QED  BY <1>1, <1>2, <1>3 DEF Waiting

-----------------------------------------------------------------------------
(* The invariant, and what follows from it. *)

\* At the start nothing has run.
LEMMA Initial == Init => IInv
<1> SUFFICES ASSUME Init  PROVE IInv
  OBVIOUS
<1>a. MaxCrashes \in Nat  BY ExecuteAssumption
<1>1. TypeOK
  <2>1. rounds \in [Tasks -> 0..MaxRounds] /\ crashes \in 0..MaxCrashes
    BY <1>a DEF Init, MaxRounds
  <2>2. branch \in Seq([task : Tasks, base : Nat, text : SUBSET Contracts])
    BY DEF Init
  <2>3. /\ status \in [Tasks -> Terminal \cup {"pending", "running", "pass"}]
        /\ stage \in [Tasks -> {"none", "queued", "work", "review", "merge"}]
        /\ why \in [Tasks -> Classes \cup {"none", "other", "spec-defect"}]
        /\ base \in [Tasks -> Nat] /\ brief \in [Tasks -> SUBSET Contracts]
    BY DEF Init
  <2>4. retried \in [Tasks -> BOOLEAN] /\ {breaker, session} \subseteq BOOLEAN
    BY DEF Init
  <2>5. revised \subseteq Contracts /\ pass \subseteq Tasks /\ torn \subseteq {"merge", "revision"}
    BY DEF Init
  <2> QED  BY <2>1, <2>2, <2>3, <2>4, <2>5 DEF TypeOK
<1>2. Len(branch) = 0 /\ DOMAIN branch = {}  BY DEF Init
<1>3. Stages /\ Landings /\ Bases
  BY DEF Init, Stages, Cycle, Landings, Bases, Attempted
<1>4. Earlier /\ BuiltOnDependencies  BY <1>2 DEF Earlier, BuiltOnDependencies
<1>5. Texts  BY DEF Init, Texts, Cycle
<1>6. Counted
  <2>1. IsFiniteSet(revised)  BY FS_EmptySet DEF Init
  <2>2. \A t \in Tasks : Commits(t) = {} /\ Text(t) = {} /\ status[t] # "merged"
    BY <1>2 DEF Init, Commits, Text
  <2>3. Cardinality({}) = 0  BY FS_EmptySet
  <2> QED  BY <2>1, <2>2, <2>3 DEF Counted
<1>7. Waiting
  <2>1. session  BY DEF Init
  <2>2. \A t \in Tasks : status[t] = "pending" /\ ~Attempted(t)  BY DEF Init, Attempted
  <2>3. \A t \in Tasks : \A d \in DependsOn[t] : status[d] \notin {"blocked", "unmerged"}
    BY <2>2, ExecuteAssumption
  <2> QED  BY <2>1, <2>2, <2>3 DEF Waiting
<1> QED  BY <1>1, <1>3, <1>4, <1>5, <1>6, <1>7 DEF IInv

\* Every step preserves the invariant.
LEMMA Inductive == IInv /\ [Next]_vars => IInv'
<1> SUFFICES ASSUME IInv, [Next]_vars  PROVE IInv'
  OBVIOUS
<1>1. TypeOK /\ Stages /\ Landings /\ Bases /\ Earlier /\ Texts /\ Counted /\ Waiting /\ BuiltOnDependencies
  BY DEF IInv
<1>2. Shape  BY <1>1, Shapes
<1> QED  BY <1>1, <1>2, TypeInductive, StagesInductive, LandingsInductive, BasesInductive,
            CommitsInductive, TextsInductive, CountedInductive, WaitingInductive DEF IInv

\* The invariant holds in every reachable state.
THEOREM Invariant == Spec => []IInv
BY Initial, Inductive, PTL DEF Spec

\* The variables keep their types.
THEOREM TypeCorrect == Spec => []TypeOK
<1>1. IInv => TypeOK  BY DEF IInv
<1> QED  BY <1>1, Invariant, PTL

\* What is merged was made on top of all it depends on (phase-5.md: a worktree is cut
\* from the integration branch when the task is dispatched).
THEOREM MergesAreBuilt == Spec => []BuiltOnDependencies
<1>1. IInv => BuiltOnDependencies  BY DEF IInv
<1> QED  BY <1>1, Invariant, PTL

\* A merged task landed with the contract texts of now, unless a session died halfway
\* through a revision.
THEOREM MergesAreCurrent == Spec => []CurrentContracts
<1>1. IInv => CurrentContracts
  <2>1. TypeOK => DOMAIN branch = 1..Len(branch)  BY DEF TypeOK
  <2> QED  BY <2>1 DEF IInv, Texts, CurrentContracts
<1> QED  BY <1>1, Invariant, PTL

\* A task lands once, and once more for each of its contracts that was revised, unless
\* a session died halfway through a merge.
THEOREM MergesAreCounted == Spec => []LandsOnce
<1>1. ASSUME IInv  PROVE LandsOnce
  <2>1. TypeOK /\ Counted  BY <1>1 DEF IInv
  <2>2. DOMAIN branch = 1..Len(branch)  BY <2>1 DEF TypeOK
  <2> SUFFICES ASSUME "merge" \notin torn, NEW t \in Tasks
               PROVE  Cardinality({i \in DOMAIN branch : branch[i].task = t}) <= 1 + Cardinality(Text(t))
    BY DEF LandsOnce
  <2>3. {i \in DOMAIN branch : branch[i].task = t} = Commits(t)  BY <2>2 DEF Commits
  <2>4. Cardinality(Commits(t)) <= (IF status[t] = "merged" THEN 1 ELSE 0) + Cardinality(Text(t))
    BY <2>1 DEF Counted
  <2>5. Cardinality(Commits(t)) \in Nat  BY <2>1, CommitsFinite
  <2>6. IsFiniteSet(Text(t))  BY <2>1, FS_Subset DEF Counted, Text
  <2>7. Cardinality(Text(t)) \in Nat  BY <2>6, FS_CardinalityType
  <2> QED  BY <2>3, <2>4, <2>5, <2>7
<1> QED  BY <1>1, Invariant, PTL

\* No task waits for one that failed, unless it ran when a session died after a revision.
THEOREM NobodyIsStranded == Spec => []NoneStranded
<1>1. IInv => NoneStranded  BY DEF IInv, Waiting, NoneStranded
<1> QED  BY <1>1, Invariant, PTL
=============================================================================
