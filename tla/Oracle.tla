-------------------------------- MODULE Oracle --------------------------------
(***************************************************************************)
(* The within-run cache of Grep answers (meter/oracle.py and its two hook  *)
(* halves in meter/router.py): a PreToolUse lookup that may deny a search  *)
(* and answer from the cache, a PostToolUse record or invalidation.        *)
(*                                                                         *)
(* A file is the set of words its lines hold (the empty set: no file); a   *)
(* search names words and a scope (path, glob, type) and finds the files   *)
(* in scope that hold all its words.  An answer maps the files found to    *)
(* what was found, so its domain is its provenance, and tree_state_hash is *)
(* the content of those files at the moment it is computed.  Agents work   *)
(* in trees (the checkout or a worktree); edits come from the Write and    *)
(* Edit tools, which are observed, or from elsewhere, which are not.       *)
(*                                                                         *)
(* The processes are calls: an agent may send several in one message, and  *)
(* the hooks of each run on threads of their own.  A call that is over     *)
(* makes way for a later one of its agent.                                 *)
(***************************************************************************)
EXTENDS Naturals, FiniteSets

CONSTANTS
  Calls,       \* calls that may be at work at once, of one agent or of several
  Runs, NoRun,
  RunOf,       \* [Calls -> Runs \cup {NoRun}]: the run of its agent's ledger row
  Trees,       \* the repository's checkout and its worktrees
  Checkout,    \* the tree that holds .dag/runs
  TreeOf,      \* [Calls -> Trees]
  Files,
  Contents,    \* the contents a file may have: sets of words
  Stopwords,   \* words that normalize_question drops
  Queries,     \* [words, scope] records
  MaxEntries,  \* meter.modules.oracle.max_entries
  MaxEdits     \* bound: edits of any kind

NoJob == [none |-> TRUE]

ASSUME OracleAssumption ==
  /\ IsFiniteSet(Calls) /\ Calls # {}
  /\ NoRun \notin Runs
  /\ RunOf \in [Calls -> Runs \cup {NoRun}]
  /\ Checkout \in Trees /\ TreeOf \in [Calls -> Trees]
  /\ \A q \in Queries : q.scope \subseteq Files
  /\ MaxEntries \in Nat /\ MaxEdits \in Nat

VARIABLES
  content,  \* [Trees -> [Files -> Contents]]
  cache,    \* table oracle_cache: a set of entries, one per run and key
  pc,       \* where each call is
  job,      \* what the hook threads of that call hold
  edits,
  \* history
  served,   \* the last answer served from the cache
  strayed   \* trees edited where no hook of the run saw it: <<run, tree>>

oracleVars == <<content, cache, pc, job, edits, served, strayed>>

-----------------------------------------------------------------------------
\* question_hash . normalize_question: the content words, in no order.  The
\* scope of the search is not part of it.
KeyOf(q) == q.words \ Stopwords

\* What Grep answers over a tree: files in scope that hold the words.
Grep(q, tree) ==
  LET found == {f \in q.scope : tree[f] # {} /\ q.words \subseteq tree[f]}
  IN  [f \in found |-> tree[f]]

\* extract_provenance, compute_tree_state_hash
Provenance(answer) == DOMAIN answer
TreeHash(answer, tree) == [f \in Provenance(answer) |-> tree[f]]

EntriesOf(r) == {e \in cache : e.run = r}

\* get_oracle_entry: no row, no lookup.
Lookup(r, q) == {e \in EntriesOf(r) : e.key = KeyOf(q)}

\* The hook resolves a run: that of the call's agent, else the most recently touched run
\* of the repository, which only the checkout has.
ResolveRun(a) ==
  IF RunOf[a] # NoRun THEN {RunOf[a]}
  ELSE IF TreeOf[a] = Checkout THEN Runs ELSE {NoRun}

-----------------------------------------------------------------------------
OracleInit ==
  /\ content \in [Trees -> [Files -> Contents]]
  /\ cache = {}
  /\ pc = [a \in Calls |-> "idle"]
  /\ job = [a \in Calls |-> NoJob]
  /\ edits = 0
  /\ served = NoJob /\ strayed = {}

(* handle_tool_pre_dossier, Grep half: _decide_oracle_lookup *)

\* The stored entry is fetched under the store's lock ...
Ask(a, q) ==
  /\ pc[a] = "idle"
  /\ IF Lookup(RunOf[a], q) = {}
     THEN /\ pc' = [pc EXCEPT ![a] = "search"]
          /\ job' = [job EXCEPT ![a] = [q |-> q]]
     ELSE /\ pc' = [pc EXCEPT ![a] = "verify"]
          /\ \E e \in Lookup(RunOf[a], q) : job' = [job EXCEPT ![a] = [q |-> q, entry |-> e]]
  /\ UNCHANGED <<content, cache, edits, served, strayed>>

VerifyNothing(a) ==                                             \* mutant
  /\ pc[a] = "verify"
  /\ served' = [to |-> a, q |-> job[a].q, entry |-> job[a].entry, tree |-> content[TreeOf[a]]]
  /\ pc' = [pc EXCEPT ![a] = "idle"]
  /\ job' = [job EXCEPT ![a] = NoJob]
  /\ UNCHANGED <<content, cache, edits, strayed>>

\* ... and its files are hashed again in the asking agent's tree: the same hash
\* denies the search with the cached answer, another one lets it run.
Verify(a) ==
  /\ pc[a] = "verify"
  /\ LET e == job[a].entry IN
     IF TreeHash(e.answer, content[TreeOf[a]]) = e.hash
     THEN /\ served' = [to |-> a, q |-> job[a].q, entry |-> e, tree |-> content[TreeOf[a]]]
          /\ pc' = [pc EXCEPT ![a] = "idle"]
          /\ job' = [job EXCEPT ![a] = NoJob]
     ELSE /\ pc' = [pc EXCEPT ![a] = "search"]
          /\ job' = [job EXCEPT ![a] = [q |-> job[a].q]]
          /\ UNCHANGED served
  /\ UNCHANGED <<content, cache, edits, strayed>>

\* The search itself; an empty answer has no provenance and is not recorded.
Search(a) ==
  /\ pc[a] = "search"
  /\ LET answer == Grep(job[a].q, content[TreeOf[a]]) IN
     IF Provenance(answer) = {}
     THEN /\ pc' = [pc EXCEPT ![a] = "idle"]
          /\ job' = [job EXCEPT ![a] = NoJob]
     ELSE /\ pc' = [pc EXCEPT ![a] = "found"]
          /\ job' = [job EXCEPT ![a] = [q |-> job[a].q, answer |-> answer, raced |-> {}]]
  /\ UNCHANGED <<content, cache, edits, served, strayed>>

(* handle_tool_post: oracle.record after a Grep *)

Recorder(j, r) == [q |-> j.q, answer |-> j.answer, raced |-> j.raced, run |-> r]

CountNothing(a) ==                                              \* mutant
  /\ pc[a] = "found"
  /\ \E r \in ResolveRun(a) :
       IF r = NoRun
       THEN /\ pc' = [pc EXCEPT ![a] = "idle"]
            /\ job' = [job EXCEPT ![a] = NoJob]
       ELSE /\ pc' = [pc EXCEPT ![a] = "hash"]
            /\ job' = [job EXCEPT ![a] = Recorder(job[a], r)]
  /\ UNCHANGED <<content, cache, edits, served, strayed>>

\* No run, or the run is full: nothing is recorded.
Count(a) ==
  /\ pc[a] = "found"
  /\ \E r \in ResolveRun(a) :
       IF r = NoRun \/ Cardinality(EntriesOf(r)) >= MaxEntries
       THEN /\ pc' = [pc EXCEPT ![a] = "idle"]
            /\ job' = [job EXCEPT ![a] = NoJob]
       ELSE /\ pc' = [pc EXCEPT ![a] = "hash"]
            /\ job' = [job EXCEPT ![a] = Recorder(job[a], r)]
  /\ UNCHANGED <<content, cache, edits, served, strayed>>

\* compute_tree_state_hash, over the files as they are by now.
Hash(a) ==
  /\ pc[a] = "hash"
  /\ pc' = [pc EXCEPT ![a] = "store"]
  /\ job' = [job EXCEPT ![a] =
       [run |-> @.run, key |-> KeyOf(@.q), answer |-> @.answer,
        hash |-> TreeHash(@.answer, content[TreeOf[a]]), of |-> @.q, by |-> a,
        raced |-> @.raced]]
  /\ UNCHANGED <<content, cache, edits, served, strayed>>

\* upsert_oracle_entry
Store(a) ==
  LET e == job[a] IN
  /\ pc[a] = "store"
  /\ cache' = {o \in cache : o.run # e.run \/ o.key # e.key} \cup {e}
  /\ pc' = [pc EXCEPT ![a] = "idle"]
  /\ job' = [job EXCEPT ![a] = NoJob]
  /\ UNCHANGED <<content, edits, served, strayed>>

(* Edits, and handle_tool_post after a Write or Edit *)

\* History: a file named by an answer changes before the answer's hash is taken,
\* or after it and before the entry is stored.
Raced(t, f) ==
  [b \in Calls |->
     IF TreeOf[b] = t /\ pc[b] \in {"found", "hash", "store"} /\ f \in Provenance(job[b].answer)
     THEN [job[b] EXCEPT !.raced = @ \cup {IF pc[b] = "store" THEN "hash" ELSE "answer"}]
     ELSE job[b]]

Edit(a, f, c) ==
  /\ edits < MaxEdits
  /\ pc[a] = "idle"
  /\ content' = [content EXCEPT ![TreeOf[a]][f] = c]
  /\ edits' = edits + 1
  /\ pc' = [pc EXCEPT ![a] = "edited"]
  /\ job' = [Raced(TreeOf[a], f) EXCEPT ![a] = [file |-> f]]
  /\ strayed' = strayed \cup (Runs \ {RunOf[a]}) \X {TreeOf[a]}
  /\ UNCHANGED <<cache, served>>

InvalidateOthers(a) ==                                             \* mutant
  /\ pc[a] = "edited"
  /\ \E r \in ResolveRun(a) :
       cache' = {e \in cache : e.run # r \/ job[a].file \in Provenance(e.answer)}
  /\ pc' = [pc EXCEPT ![a] = "idle"]
  /\ job' = [job EXCEPT ![a] = NoJob]
  /\ UNCHANGED <<content, edits, served, strayed>>

\* invalidate_for_write: the run's entries that name the file are deleted.
Invalidate(a) ==
  /\ pc[a] = "edited"
  /\ \E r \in ResolveRun(a) :
       cache' = {e \in cache : e.run # r \/ job[a].file \notin Provenance(e.answer)}
  /\ pc' = [pc EXCEPT ![a] = "idle"]
  /\ job' = [job EXCEPT ![a] = NoJob]
  /\ UNCHANGED <<content, edits, served, strayed>>

\* Bash, git, the user's editor: no hook sees it.
UnseenEdit(t, f, c) ==
  /\ edits < MaxEdits
  /\ content' = [content EXCEPT ![t][f] = c]
  /\ edits' = edits + 1
  /\ job' = Raced(t, f)
  /\ strayed' = strayed \cup Runs \X {t}
  /\ UNCHANGED <<cache, pc, served>>

OracleNext ==
  \/ \E a \in Calls : \/ \E q \in Queries : Ask(a, q)
                       \/ Verify(a) \/ Search(a) \/ Count(a) \/ Hash(a) \/ Store(a)
                       \/ Invalidate(a)
                       \/ \E f \in Files, c \in Contents : Edit(a, f, c)
  \/ \E t \in Trees, f \in Files, c \in Contents : UnseenEdit(t, f, c)

OracleSpec == OracleInit /\ [][OracleNext]_oracleVars

-----------------------------------------------------------------------------
Answers == UNION {[S -> Contents] : S \in SUBSET Files}
Races == SUBSET {"answer", "hash"}
Entry == [run : Runs, key : SUBSET UNION Contents, answer : Answers, hash : Answers,
          of : Queries, by : Calls, raced : Races]

OracleTypeOK ==
  /\ content \in [Trees -> [Files -> Contents]]
  /\ edits \in 0..MaxEdits
  /\ cache \subseteq Entry
  /\ \A a \in Calls :
       CASE pc[a] = "idle"   -> job[a] = NoJob
         [] pc[a] = "search" -> job[a] \in [q : Queries]
         [] pc[a] = "verify" -> job[a] \in [q : Queries, entry : Entry]
         [] pc[a] = "found"  -> job[a] \in [q : Queries, answer : Answers, raced : Races]
         [] pc[a] = "hash"   -> job[a] \in [q : Queries, answer : Answers, raced : Races, run : Runs]
         [] pc[a] = "store"  -> job[a] \in Entry
         [] pc[a] = "edited" -> job[a] \in [file : Files]
  /\ served \in {NoJob} \cup
       [to : Calls, q : Queries, entry : Entry, tree : [Files -> Contents]]
  /\ strayed \subseteq Runs \X Trees

\* What the answer shows would be found just so in the asker's own tree, by the
\* search it was recorded for.
Current(answer, q, tree) ==
  LET now == Grep(q, tree)
  IN  \A f \in Provenance(answer) : f \in DOMAIN now /\ now[f] = answer[f]

\* "an answer this exact run already produced", where "the files it matched haven't
\* changed since".  Unless a file changed between the search and its recording,
\* nothing that a served answer shows is outdated, whatever happened to the files
\* since; it is an answer to the same content words; and an entry recorded by an
\* agent that has a row is only served within its run.
AnswerStands ==
  served # NoJob =>
    /\ "answer" \notin served.entry.raced =>
         Current(served.entry.answer, served.entry.of, served.tree)
    /\ served.entry.run = RunOf[served.to]
    /\ RunOf[served.entry.by] \in {RunOf[served.to], NoRun}
    /\ served.entry.of.words \ Stopwords = served.q.words \ Stopwords

\* An edit that a hook of the run has seen leaves no entry behind that shows the
\* file as it was, unless the file changed while the answer was being recorded.
EditsInvalidate ==
  \A e \in cache :
    \/ e.raced # {} \/ <<e.run, TreeOf[e.by]>> \in strayed
    \/ \E a \in Calls : pc[a] = "edited" /\ job[a].file \in Provenance(e.answer)
    \/ \A f \in Provenance(e.answer) : content[TreeOf[e.by]][f] = e.answer[f]

Recording(r) == {a \in Calls : pc[a] \in {"hash", "store"} /\ job[a].run = r}

\* max_entries is checked before the insert, not with it: concurrent recorders
\* may pass the cap together, those of one agent's message among them, but never by
\* more than all calls at work but one.
CapSlack ==
  \A r \in Runs :
    Cardinality(EntriesOf(r)) + Cardinality(Recording(r)) + 1
      <= MaxEntries + Cardinality(Calls)
=============================================================================
