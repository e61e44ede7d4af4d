------------------------------- MODULE Sieve -------------------------------
(***************************************************************************)
(* The checks that run before a task-reviewer is spawned (meter/sieve.py,  *)
(* router._maybe_run_sieve, gitutil.resolve_diff_range) and what the       *)
(* reviewer is told of them: one task, its worktree, its rounds of review. *)
(* The checkers run one after the other on the hook's thread, which Claude *)
(* Code waits for ten seconds; each may fail, time out or be missing.      *)
(***************************************************************************)
EXTENDS Integers, Sequences, SequencesExt, FiniteSets

CONSTANTS
  Paths,        \* paths of the worktree
  OwnPaths,     \* the task's "owns"
  Contents,     \* per path: what it may hold; "base" is what it held when cut
  Checkers,     \* meter.modules.sieve.checkers, in order
  HasTool,      \* those of "types" and "lint" this repository has a tool for
  Complains,    \* per tool: the contents it finds fault with
  MaxCommits,   \* bound: commits of the worker
  MaxReviews    \* bound: reviews of the task (phase-5.md: 3)

ASSUME SieveAssumption ==
  /\ OwnPaths \subseteq Paths
  /\ HasTool \subseteq {"types", "lint"}
  /\ \A p \in Paths : "base" \in Contents[p]
  /\ DOMAIN Complains = {"types", "lint"}
  /\ Checkers \in Seq(STRING)
  /\ {MaxCommits, MaxReviews} \subseteq Nat

VARIABLES
  tree,      \* the worktree: what each path holds
  commits,   \* the trees of the worker's commits
  worker,    \* "working" or "reported"
  hook,      \* the hook of a reviewer's spawn: its step and what it has
  reviewer,  \* "none", "reviewing" or "done"
  told,      \* the declaration the reviewer was given, or NoWord
  reviews    \* reviews so far, each of the last commit then

sieveVars == <<tree, commits, worker, hook, reviewer, told, reviews>>

Cut     == [p \in Paths |-> "base"]
NoWord  == [of |-> 0]
NoHook  == [at |-> "off"]

SieveInit ==
  /\ tree = Cut /\ commits = <<>> /\ worker = "working"
  /\ hook = NoHook /\ reviewer = "none" /\ told = NoWord /\ reviews = 0

TreeOf(n) == IF n = 0 THEN Cut ELSE commits[n]

-----------------------------------------------------------------------------
(* The checkers.  A result is the class, whether it ran, whether it passed.  *)

Result(name, ran, passed) == [name |-> name, ran |-> ran, passed |-> passed]
NotRun(name)              == Result(name, FALSE, FALSE)

LastCommitOnly(n, found) == {n - 1}                             \* mutant

\* The commit a task's diff starts from: the worktree was cut from the branch and
\* never moved, so its merge-base with the branch is the cut.  None when git fails:
\* the callers then decline, they do not narrow.
DiffBase(n, found) == IF found THEN {0} ELSE {}

Changed(from, to) == {p \in Paths : TreeOf(from)[p] # TreeOf(to)[p]}

CheckOwnership(n, found) ==
  {Result("ownership", TRUE, Changed(b, n) \subseteq OwnPaths) : b \in DiffBase(n, found)}
  \cup IF DiffBase(n, found) = {} THEN {NotRun("ownership")} ELSE {}

\* The lines of the diff, those that came in and those that went.
CheckSecrets(diff) ==
  IF diff.available THEN Result("secrets", TRUE, "secret" \notin diff.lines) ELSE NotRun("secrets")

\* _run_tool: no complaint and exit 0; complaints; missing or timed out; and broken,
\* which may or may not say anything.  Only what was said counts.
ToolOutcomes(tool, holds) ==
  {NotRun(tool)} \cup
  IF tool \notin HasTool THEN {}
  ELSE {Result(tool, TRUE, {holds[p] : p \in Paths} \cap Complains[tool] = {})}

Broken(tool) == {Result(tool, TRUE, b) : b \in BOOLEAN}

\* The dispatch of run_registry: a name it does not know is skipped.
Registry == {"ownership", "secrets", "types", "lint", "tests", "ast"}

\* tests and ast never run.
CheckNever(name) == NotRun(name)

\* render_declaration.
Covered(results) == {r.name : r \in {q \in results : q.ran /\ q.passed}}
Flagged(results) == {r.name : r \in {q \in results : q.ran /\ ~q.passed}}
Open(results)    == {r.name : r \in {q \in results : ~q.ran}}

Declaration(h) ==
  [of |-> h.commit, covered |-> Covered(h.results), flagged |-> Flagged(h.results),
   open |-> Open(h.results), tree |-> h.tree, broken |-> h.broken]

-----------------------------------------------------------------------------
(* The worker *)

\* The worker changes a file of the worktree, its own or not, or puts it back.
Edit ==
  /\ worker = "working"
  /\ \E p \in Paths : \E c \in Contents[p] : tree[p] # c /\ tree' = [tree EXCEPT ![p] = c]
  /\ Len(commits) < MaxCommits
  /\ UNCHANGED <<commits, worker, hook, reviewer, told, reviews>>

CommitTree ==
  /\ worker = "working" /\ Len(commits) < MaxCommits
  /\ tree # TreeOf(Len(commits))
  /\ commits' = Append(commits, tree)
  /\ UNCHANGED <<tree, worker, hook, reviewer, told, reviews>>

\* It reports its last commit; the tree may hold more than that.
ReportWork ==
  /\ worker = "working"
  /\ Len(commits) > reviews
  /\ worker' = "reported"
  /\ UNCHANGED <<tree, commits, hook, reviewer, told, reviews>>

-----------------------------------------------------------------------------
(* The spawn of a reviewer *)

\* The orchestrator spawns one for the commit; handle_tool_pre_agent runs sieve if
\* it restated the two lines as it was told to, else the spawn is left alone.
SpawnReviewer ==
  /\ worker = "reported" /\ reviewer # "reviewing" /\ hook = NoHook /\ reviews < MaxReviews
  /\ \/ hook' = [at |-> "diff", commit |-> Len(commits)] /\ UNCHANGED <<reviewer, told, reviews>>
     \/ /\ hook' = NoHook /\ told' = NoWord /\ reviewer' = "reviewing" /\ reviews' = reviews + 1
  /\ UNCHANGED <<tree, commits, worker>>

\* run_registry resolves the range and takes the diff that the secrets are sought in.
TakeDiff ==
  /\ hook.at = "diff"
  /\ \E found \in BOOLEAN :
       LET lines(b) == UNION {{TreeOf(b)[p], TreeOf(hook.commit)[p]} : p \in Changed(b, hook.commit)}
           diff == IF DiffBase(hook.commit, found) = {} THEN [available |-> FALSE, lines |-> {}]
                   ELSE [available |-> TRUE,
                         lines |-> UNION {lines(b) : b \in DiffBase(hook.commit, found)}]
       IN  hook' = [at |-> "check", commit |-> hook.commit, todo |-> Checkers, diff |-> diff,
                    results |-> {}, tree |-> tree, broken |-> {}]
  /\ UNCHANGED <<tree, commits, worker, reviewer, told, reviews>>

\* One checker after the other.
Check ==
  /\ hook.at = "check" /\ hook.todo # <<>>
  /\ LET name == Head(hook.todo)
         Add(r, b) == hook' = [hook EXCEPT !.todo = Tail(@), !.results = @ \cup {r},
                                           !.broken = @ \cup b]
     IN  \/ name = "ownership" /\ \E found \in BOOLEAN :
              \E r \in CheckOwnership(hook.commit, found) : Add(r, {})
         \/ name = "secrets" /\ Add(CheckSecrets(hook.diff), {})
         \/ name \in {"types", "lint"} /\ \E r \in ToolOutcomes(name, tree) : Add(r, {})
         \/ name \in HasTool /\ \E r \in Broken(name) : Add(r, {name})
         \/ name \in {"tests", "ast"} /\ Add(CheckNever(name), {})
         \/ name \notin Registry /\ hook' = [hook EXCEPT !.todo = Tail(@)]
  /\ UNCHANGED <<tree, commits, worker, reviewer, told, reviews>>

\* The declaration is appended to the prompt, if the hook is still waited for.
Declare ==
  /\ hook.at = "check" /\ hook.todo = <<>>
  /\ told' = Declaration(hook) /\ hook' = NoHook
  /\ reviewer' = "reviewing" /\ reviews' = reviews + 1
  /\ UNCHANGED <<tree, commits, worker>>

GiveUp ==
  /\ hook.at \in {"diff", "check"}
  /\ told' = NoWord /\ hook' = NoHook
  /\ reviewer' = "reviewing" /\ reviews' = reviews + 1
  /\ UNCHANGED <<tree, commits, worker>>

-----------------------------------------------------------------------------
(* The review *)

\* FLAGGED: the worker reworks in the worktree it owns.
SendBack ==
  /\ reviewer = "reviewing" /\ worker = "reported" /\ reviews < MaxReviews
  /\ worker' = "working"
  /\ reviewer' = "waiting"
  /\ UNCHANGED <<tree, commits, hook, told, reviews>>

\* The new commit goes to the same reviewer by SendMessage, which no hook sees, so
\* that it still has the declaration of its spawn.
ReReview ==
  /\ reviewer = "waiting" /\ worker = "reported" /\ hook = NoHook /\ reviews < MaxReviews
  /\ reviewer' = "reviewing" /\ reviews' = reviews + 1
  /\ UNCHANGED <<tree, commits, worker, hook, told>>

Pass ==
  /\ reviewer = "reviewing" /\ worker = "reported"
  /\ reviewer' = "done" /\ worker' = "done"
  /\ UNCHANGED <<tree, commits, hook, told, reviews>>

SieveNext ==
  \/ Edit \/ CommitTree \/ ReportWork
  \/ SpawnReviewer \/ TakeDiff \/ Check \/ Declare \/ GiveUp
  \/ SendBack \/ ReReview \/ Pass

SieveSpec == SieveInit /\ [][SieveNext]_sieveVars

-----------------------------------------------------------------------------
(* Properties *)

\* What a reviewer need not look at again holds of the commit it was declared for:
\* no file but the task's own was changed over all the commits of the task, none of
\* its lines is a secret, and no tool complains of it ("a checker that errored,
\* timed out, or was unavailable is reported ran=False, never silently folded into
\* passed").  And what it is to take over as a finding is one.  A tool is asked of
\* the worktree, not of the commit, and one that breaks without a word passes; a
\* declaration says nothing of commits that came after it.
CoveredHolds ==
  told # NoWord =>
    LET diff == Changed(0, told.of)
        now  == {TreeOf(told.of)[p] : p \in diff}
        gone == {TreeOf(0)[p] : p \in diff}
        Clean(tool) == {TreeOf(told.of)[p] : p \in Paths} \cap Complains[tool] = {}
    IN  /\ "ownership" \in told.covered => diff \subseteq OwnPaths
        /\ "ownership" \in told.flagged => ~(diff \subseteq OwnPaths)
        /\ "secrets" \in told.covered => "secret" \notin now
        /\ "secrets" \in told.flagged => "secret" \in now \cup gone
        /\ \A tool \in {"types", "lint"} \ told.broken : told.tree = TreeOf(told.of) =>
             /\ tool \in told.covered => Clean(tool)
             /\ tool \in told.flagged => ~Clean(tool)
        /\ told.covered \cap {"tests", "ast"} = {}
        /\ told.covered \cup told.flagged \cup told.open = ToSet(Checkers) \cap Registry
=============================================================================
