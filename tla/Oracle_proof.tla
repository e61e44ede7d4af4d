----------------------------- MODULE Oracle_proof -----------------------------
(***************************************************************************)
(* The cap on the entries of a run, and what the answers served from the   *)
(* cache are worth, for any number of calls, runs, files and edits.  The   *)
(* cap alone is not inductive: a call past its check will add an entry     *)
(* later, so it counts together with the entries.  Nor is the worth of an  *)
(* answer: it is made by the search, kept through the hashing and lost by  *)
(* the edits in between.                                                   *)
(***************************************************************************)
EXTENDS Oracle, FiniteSetTheorems, TLAPS

Pcs == {"idle", "verify", "search", "found", "hash", "store", "edited"}

IInv ==
  /\ IsFiniteSet(cache)
  /\ pc \in [Calls -> Pcs]
  /\ DOMAIN job = Calls /\ job = [a \in Calls |-> job[a]]
  /\ \A a \in Calls : pc[a] \in {"hash", "store"} => "run" \in DOMAIN job[a]
  /\ CapSlack

-----------------------------------------------------------------------------
\* The entries of a run and its recorders are finite sets, the recorders at most
\* all the calls.
LEMMA Finite ==
  ASSUME IsFiniteSet(cache), NEW r
  PROVE  /\ IsFiniteSet(EntriesOf(r)) /\ Cardinality(EntriesOf(r)) \in Nat
         /\ IsFiniteSet(Recording(r)) /\ Cardinality(Recording(r)) \in Nat
         /\ Cardinality(Calls) \in Nat
         /\ Cardinality(Recording(r)) <= Cardinality(Calls)
<1>1. EntriesOf(r) \subseteq cache
  BY DEF EntriesOf
<1>2. Recording(r) \subseteq Calls
  BY DEF Recording
<1>3. IsFiniteSet(Calls)
  BY OracleAssumption
<1> QED
  BY <1>1, <1>2, <1>3, FS_Subset, FS_CardinalityType

\* Neither new entries nor new recorders: the bound still holds.
LEMMA FewerIsFine ==
  ASSUME IInv, NEW r \in Runs,
         EntriesOf(r)' \subseteq EntriesOf(r), Recording(r)' \subseteq Recording(r)
  PROVE  Cardinality(EntriesOf(r))' + Cardinality(Recording(r))' + 1
           <= MaxEntries + Cardinality(Calls)
<1>1. Cardinality(EntriesOf(r)') \in Nat /\ Cardinality(EntriesOf(r)') <= Cardinality(EntriesOf(r))
  BY Finite, FS_Subset, FS_CardinalityType DEF IInv
<1>2. Cardinality(Recording(r)') \in Nat /\ Cardinality(Recording(r)') <= Cardinality(Recording(r))
  BY Finite, FS_Subset, FS_CardinalityType DEF IInv
<1>3. Cardinality(EntriesOf(r)) + Cardinality(Recording(r)) + 1 <= MaxEntries + Cardinality(Calls)
  BY DEF IInv, CapSlack
<1>4. Cardinality(EntriesOf(r)) \in Nat /\ Cardinality(Recording(r)) \in Nat /\ Cardinality(Calls) \in Nat
  BY Finite DEF IInv
<1> QED
  BY <1>1, <1>2, <1>3, <1>4, OracleAssumption

\* No cached entry and nobody recording.
LEMMA InitIInv == OracleInit => IInv
<1> SUFFICES ASSUME OracleInit PROVE IInv
  OBVIOUS
<1>1. IsFiniteSet(cache)
  BY FS_EmptySet DEF OracleInit
<1>2. /\ pc \in [Calls -> Pcs] /\ DOMAIN job = Calls /\ job = [a \in Calls |-> job[a]]
      /\ \A a \in Calls : pc[a] \in {"hash", "store"} => "run" \in DOMAIN job[a]
  BY DEF OracleInit, Pcs
<1>3. CapSlack
  <2> SUFFICES ASSUME NEW r \in Runs
               PROVE  Cardinality(EntriesOf(r)) + Cardinality(Recording(r)) + 1
                        <= MaxEntries + Cardinality(Calls)
    BY DEF CapSlack
  <2>1. EntriesOf(r) = {} /\ Recording(r) = {}
    BY DEF OracleInit, EntriesOf, Recording
  <2>2. Cardinality(EntriesOf(r)) = 0 /\ Cardinality(Recording(r)) = 0
    BY <2>1, FS_EmptySet
  <2>3. Cardinality(Calls) \in Nat /\ Cardinality(Calls) # 0
    BY OracleAssumption, FS_CardinalityType, FS_EmptySet
  <2> QED
    BY <2>2, <2>3, OracleAssumption
<1> QED
  BY <1>1, <1>2, <1>3 DEF IInv

\* Every step that adds no entry and starts no recorder keeps the invariant.
LEMMA QuietIInv ==
  ASSUME IInv,
         pc' \in [Calls -> Pcs], DOMAIN job' = Calls, job' = [a \in Calls |-> job'[a]],
         cache' \subseteq cache,
         \A b \in Calls : pc'[b] \in {"hash", "store"} =>
           /\ pc[b] \in {"hash", "store"}
           /\ job'[b].run = job[b].run /\ "run" \in DOMAIN job'[b]
  PROVE  IInv'
<1>1. IsFiniteSet(cache')
  BY FS_Subset DEF IInv
<1>2. CapSlack'
  <2> SUFFICES ASSUME NEW r \in Runs
               PROVE  Cardinality(EntriesOf(r))' + Cardinality(Recording(r))' + 1
                        <= MaxEntries + Cardinality(Calls)
    BY DEF CapSlack
  <2>1. EntriesOf(r)' \subseteq EntriesOf(r)
    BY DEF EntriesOf
  <2>2. Recording(r)' \subseteq Recording(r)
    BY DEF Recording
  <2> QED
    BY <2>1, <2>2, FewerIsFine
<1>3. \A b \in Calls : pc'[b] \in {"hash", "store"} => "run" \in DOMAIN job'[b]
  OBVIOUS
<1> QED
  BY <1>1, <1>2, <1>3 DEF IInv

\* A recorder passes the check only below the cap, so even with every call
\* recording for the run the sum stays within the slack.
LEMMA CountIInv ==
  ASSUME IInv, NEW a \in Calls, Count(a)
  PROVE  IInv'
<1>0. PICK r \in ResolveRun(a) :
        IF r = NoRun \/ Cardinality(EntriesOf(r)) >= MaxEntries
        THEN /\ pc' = [pc EXCEPT ![a] = "idle"]
             /\ job' = [job EXCEPT ![a] = NoJob]
        ELSE /\ pc' = [pc EXCEPT ![a] = "hash"]
             /\ job' = [job EXCEPT ![a] = Recorder(job[a], r)]
  BY DEF Count
<1>u. cache' = cache /\ pc[a] = "found"
  BY DEF Count
<1>1. CASE r = NoRun \/ Cardinality(EntriesOf(r)) >= MaxEntries
  BY <1>0, <1>1, <1>u, QuietIInv DEF IInv, Pcs
<1>2. CASE ~(r = NoRun \/ Cardinality(EntriesOf(r)) >= MaxEntries)
  <2>1. /\ pc' = [pc EXCEPT ![a] = "hash"]
        /\ job' = [job EXCEPT ![a] = Recorder(job[a], r)]
    BY <1>0, <1>2
  <2>2. pc' \in [Calls -> Pcs] /\ DOMAIN job' = Calls /\ job' = [b \in Calls |-> job'[b]]
    BY <2>1 DEF IInv, Pcs
  <2>3. "run" \in DOMAIN job'[a] /\ job'[a].run = r /\ \A b \in Calls \ {a} : pc'[b] = pc[b] /\ job'[b] = job[b]
    BY <2>1 DEF IInv, Recorder
  <2>4. CapSlack'
    <3> SUFFICES ASSUME NEW s \in Runs
                 PROVE  Cardinality(EntriesOf(s))' + Cardinality(Recording(s))' + 1
                          <= MaxEntries + Cardinality(Calls)
      BY DEF CapSlack
    <3>1. EntriesOf(s)' = EntriesOf(s)
      BY <1>u DEF EntriesOf
    <3>2. CASE s = r
      <4>1. Recording(s)' \subseteq Calls /\ IsFiniteSet(Calls)
        BY OracleAssumption DEF Recording
      <4>2. Cardinality(Recording(s)') \in Nat /\ Cardinality(Recording(s)') <= Cardinality(Calls)
        BY <4>1, FS_Subset, FS_CardinalityType
      <4>3. Cardinality(EntriesOf(s)) \in Nat /\ Cardinality(Calls) \in Nat
        BY Finite DEF IInv
      <4> QED
        BY <1>2, <3>1, <3>2, <4>2, <4>3, OracleAssumption
    <3>3. CASE s # r
      <4>1. Recording(s)' \subseteq Recording(s)
        BY <2>3, <3>3 DEF Recording
      <4> QED
        BY <3>1, <4>1, FewerIsFine
    <3> QED
      BY <3>2, <3>3
  <2>5. \A b \in Calls : pc'[b] \in {"hash", "store"} => "run" \in DOMAIN job'[b]
    BY <2>3 DEF IInv
  <2> QED
    BY <1>u, <2>2, <2>4, <2>5 DEF IInv
<1> QED
  BY <1>1, <1>2

\* The upsert turns a recorder into at most one more entry.
LEMMA StoreIInv ==
  ASSUME IInv, NEW a \in Calls, Store(a)
  PROVE  IInv'
<1> DEFINE e == job[a]
<1>1. /\ cache' \subseteq cache \cup {e} /\ pc[a] = "store"
      /\ pc' = [pc EXCEPT ![a] = "idle"] /\ job' = [job EXCEPT ![a] = NoJob]
  BY DEF Store
<1>2. IsFiniteSet(cache')
  BY <1>1, FS_AddElement, FS_Subset DEF IInv
<1>3. pc' \in [Calls -> Pcs] /\ DOMAIN job' = Calls /\ job' = [b \in Calls |-> job'[b]]
  BY <1>1 DEF IInv, Pcs
<1>4. pc'[a] = "idle" /\ \A b \in Calls \ {a} : pc'[b] = pc[b] /\ job'[b] = job[b]
  BY <1>1 DEF IInv
<1>5. CapSlack'
  <2> SUFFICES ASSUME NEW s \in Runs
               PROVE  Cardinality(EntriesOf(s))' + Cardinality(Recording(s))' + 1
                        <= MaxEntries + Cardinality(Calls)
    BY DEF CapSlack
  <2>1. CASE e.run = s
    <3>1. Recording(s)' \subseteq Recording(s) \ {a} /\ a \in Recording(s)
      BY <1>1, <1>4, <2>1 DEF Recording
    <3>2. /\ Cardinality(Recording(s) \ {a}) = Cardinality(Recording(s)) - 1
          /\ IsFiniteSet(Recording(s) \ {a})
      BY <3>1, Finite, FS_RemoveElement DEF IInv
    <3>3. /\ Cardinality(Recording(s)') \in Nat
          /\ Cardinality(Recording(s)') <= Cardinality(Recording(s)) - 1
      BY <3>1, <3>2, FS_Subset, FS_CardinalityType
    <3>4. EntriesOf(s)' \subseteq EntriesOf(s) \cup {e}
      BY <1>1 DEF EntriesOf
    <3>5. /\ IsFiniteSet(EntriesOf(s) \cup {e})
          /\ Cardinality(EntriesOf(s) \cup {e}) \in Nat
          /\ Cardinality(EntriesOf(s) \cup {e}) <= Cardinality(EntriesOf(s)) + 1
      <4>1. IsFiniteSet(EntriesOf(s)) /\ Cardinality(EntriesOf(s)) \in Nat
        BY Finite DEF IInv
      <4>2. /\ IsFiniteSet(EntriesOf(s) \cup {e})
            /\ \/ Cardinality(EntriesOf(s) \cup {e}) = Cardinality(EntriesOf(s))
               \/ Cardinality(EntriesOf(s) \cup {e}) = Cardinality(EntriesOf(s)) + 1
        BY <4>1, FS_AddElement
      <4> QED
        BY <4>1, <4>2
    <3>6. /\ Cardinality(EntriesOf(s)') \in Nat
          /\ Cardinality(EntriesOf(s)') <= Cardinality(EntriesOf(s)) + 1
      <4>1. /\ Cardinality(EntriesOf(s)') <= Cardinality(EntriesOf(s) \cup {e})
            /\ Cardinality(EntriesOf(s)') \in Nat
        BY <3>4, <3>5, FS_Subset, FS_CardinalityType
      <4> HIDE DEF e
      <4> QED
        BY <3>5, <4>1, Finite DEF IInv
    <3>7. Cardinality(EntriesOf(s)) + Cardinality(Recording(s)) + 1 <= MaxEntries + Cardinality(Calls)
      BY DEF IInv, CapSlack
    <3>8. /\ Cardinality(EntriesOf(s)) \in Nat /\ Cardinality(Recording(s)) \in Nat
          /\ Cardinality(Calls) \in Nat
      BY Finite DEF IInv
    <3> QED
      BY <3>3, <3>6, <3>7, <3>8, OracleAssumption
  <2>2. CASE e.run # s
    <3>1. EntriesOf(s)' \subseteq EntriesOf(s)
      BY <1>1, <2>2 DEF EntriesOf
    <3>2. Recording(s)' \subseteq Recording(s)
      BY <1>4 DEF Recording
    <3> QED
      BY <3>1, <3>2, FewerIsFine
  <2> QED
    BY <2>1, <2>2
<1>6. \A b \in Calls : pc'[b] \in {"hash", "store"} => "run" \in DOMAIN job'[b]
  BY <1>4 DEF IInv
<1> QED
  BY <1>2, <1>3, <1>5, <1>6 DEF IInv

\* Noting a race on the recorders changes the run of none.
LEMMA RacedKeepsRun ==
  ASSUME IInv, NEW t, NEW f
  PROVE  \A b \in Calls : pc[b] \in {"hash", "store"} =>
           "run" \in DOMAIN Raced(t, f)[b] /\ Raced(t, f)[b].run = job[b].run
<1> SUFFICES ASSUME NEW b \in Calls, pc[b] \in {"hash", "store"}
             PROVE  "run" \in DOMAIN Raced(t, f)[b] /\ Raced(t, f)[b].run = job[b].run
  OBVIOUS
<1>1. "run" \in DOMAIN job[b]
  BY DEF IInv
<1>2. \/ Raced(t, f)[b] = job[b]
      \/ \E k : Raced(t, f)[b] = [job[b] EXCEPT !.raced = k]
  BY DEF Raced
<1>3. ASSUME NEW k PROVE /\ DOMAIN [job[b] EXCEPT !.raced = k] = DOMAIN job[b]
                         /\ [job[b] EXCEPT !.raced = k].run = job[b].run
  BY <1>1
<1> QED
  BY <1>1, <1>2, <1>3

\* Every step keeps the invariant.
LEMMA NextIInv == IInv /\ [OracleNext]_oracleVars => IInv'
<1> SUFFICES ASSUME IInv, [OracleNext]_oracleVars PROVE IInv'
  OBVIOUS
<1>0. /\ pc \in [Calls -> Pcs] /\ DOMAIN job = Calls /\ job = [a \in Calls |-> job[a]]
      /\ \A a \in Calls : pc[a] \in {"hash", "store"} => "run" \in DOMAIN job[a]
  BY DEF IInv
<1>1. ASSUME NEW a \in Calls, NEW q \in Queries, Ask(a, q) PROVE IInv'
  BY <1>0, <1>1, QuietIInv DEF Ask, Pcs
<1>2. ASSUME NEW a \in Calls, Verify(a) PROVE IInv'
  BY <1>0, <1>2, QuietIInv DEF Verify, Pcs
<1>3. ASSUME NEW a \in Calls, Search(a) PROVE IInv'
  BY <1>0, <1>3, QuietIInv DEF Search, Pcs
<1>4. ASSUME NEW a \in Calls, Hash(a) PROVE IInv'
  <2>1. pc[a] = "hash" /\ pc' = [pc EXCEPT ![a] = "store"] /\ cache' = cache
    BY <1>4 DEF Hash
  <2>2. /\ DOMAIN job' = Calls /\ job' = [b \in Calls |-> job'[b]]
        /\ "run" \in DOMAIN job'[a] /\ job'[a].run = job[a].run
        /\ \A b \in Calls \ {a} : job'[b] = job[b]
    BY <1>0, <1>4 DEF Hash
  <2> QED
    BY <1>0, <2>1, <2>2, QuietIInv DEF Pcs
<1>5. ASSUME NEW a \in Calls, Invalidate(a) PROVE IInv'
  BY <1>0, <1>5, QuietIInv DEF Invalidate, Pcs
<1>6. ASSUME NEW a \in Calls, NEW f \in Files, NEW c \in Contents, Edit(a, f, c) PROVE IInv'
  <2>1. /\ pc' = [pc EXCEPT ![a] = "edited"] /\ cache' = cache
        /\ job' = [Raced(TreeOf[a], f) EXCEPT ![a] = [file |-> f]]
    BY <1>6 DEF Edit
  <2>2. DOMAIN job' = Calls /\ job' = [b \in Calls |-> job'[b]]
    BY <2>1 DEF Raced
  <2>3. \A b \in Calls \ {a} : pc'[b] = pc[b] /\ job'[b] = Raced(TreeOf[a], f)[b]
    BY <1>0, <2>1 DEF Raced
  <2>4. pc' \in [Calls -> Pcs] /\ pc'[a] = "edited"
    BY <1>0, <2>1 DEF Pcs
  <2> QED
    BY <2>1, <2>2, <2>3, <2>4, RacedKeepsRun, QuietIInv
<1>7. ASSUME NEW t \in Trees, NEW f \in Files, NEW c \in Contents, UnseenEdit(t, f, c)
      PROVE  IInv'
  <2>1. pc' = pc /\ cache' = cache /\ job' = Raced(t, f)
    BY <1>7 DEF UnseenEdit
  <2>2. DOMAIN job' = Calls /\ job' = [b \in Calls |-> job'[b]]
    BY <2>1 DEF Raced
  <2> QED
    BY <1>0, <2>1, <2>2, RacedKeepsRun, QuietIInv
<1>8. CASE UNCHANGED oracleVars
  BY <1>0, <1>8, QuietIInv DEF oracleVars, Pcs
<1> QED
  BY <1>1, <1>2, <1>3, <1>4, <1>5, <1>6, <1>7, <1>8, CountIInv, StoreIInv DEF OracleNext

\* The inductive invariant holds throughout.
THEOREM Invariance == OracleSpec => []IInv
  BY InitIInv, NextIInv, PTL DEF OracleSpec

\* Concurrent recorders pass max_entries by less than the number of calls at work at once.
THEOREM CapIsNearlyKept == OracleSpec => []CapSlack
<1>1. IInv => CapSlack
  BY DEF IInv
<1> QED
  BY <1>1, Invariance, PTL

-----------------------------------------------------------------------------
(* What an answer is worth. *)

\* An answer was found by its search.
Answering(q, answer) ==
  /\ Provenance(answer) # {}
  /\ \A f \in Provenance(answer) : f \in q.scope /\ answer[f] # {} /\ q.words \subseteq answer[f]

\* An entry, stored or about to be, answers the search it was recorded for, under its
\* key and by an agent of its run or of none, and its hash shows what it shows.
Filed(e) ==
  /\ Answering(e.of, e.answer)
  /\ "answer" \notin e.raced => e.hash = e.answer
  /\ e.key = KeyOf(e.of)
  /\ RunOf[e.by] \in {e.run, NoRun}

\* The answer a call holds is what its agent's tree holds.
Holds(a) == \A f \in Provenance(job[a].answer) : content[TreeOf[a]][f] = job[a].answer[f]

\* What the hook threads of a call hold is worth.
JobAt(a) ==
  /\ pc[a] = "verify" =>
       /\ Filed(job[a].entry) /\ job[a].entry.run = RunOf[a] /\ job[a].entry.key = KeyOf(job[a].q)
  /\ pc[a] \in {"found", "hash"} =>
       Answering(job[a].q, job[a].answer) /\ ("answer" \notin job[a].raced => Holds(a))
  /\ pc[a] = "hash" => RunOf[a] \in {job[a].run, NoRun}
  /\ pc[a] = "store" => Filed(job[a]) /\ job[a].by = a /\ (job[a].raced = {} => Holds(a))

\* What was served came out of the asker's run under its key, with the hash of its tree.
Shown ==
  served # NoJob =>
    /\ Filed(served.entry) /\ served.entry.run = RunOf[served.to]
    /\ served.entry.key = KeyOf(served.q)
    /\ TreeHash(served.entry.answer, served.tree) = served.entry.hash

\* A file that an entry shows as it was has its invalidation on the way.
Fresh(e) ==
  \/ e.raced # {} \/ <<e.run, TreeOf[e.by]>> \in strayed
  \/ \A f \in Provenance(e.answer) :
       \/ content[TreeOf[e.by]][f] = e.answer[f]
       \/ \E a \in Calls : pc[a] = "edited" /\ job[a].file = f /\ RunOf[a] = e.run

Worth ==
  /\ OracleTypeOK
  /\ \A a \in Calls : JobAt(a)
  /\ \A e \in cache : Filed(e) /\ Fresh(e)
  /\ Shown

Searching == [q : Queries]
Verifying == [q : Queries, entry : Entry]
Found     == [q : Queries, answer : Answers, raced : Races]
Hashing   == [q : Queries, answer : Answers, raced : Races, run : Runs]
Edited    == [file : Files]

\* The type of what a call's hook threads hold, at each place.
JobTyped(a) ==
  /\ pc[a] = "idle"   => job[a] = NoJob
  /\ pc[a] = "search" => job[a] \in Searching
  /\ pc[a] = "verify" => job[a] \in Verifying
  /\ pc[a] = "found"  => job[a] \in Found
  /\ pc[a] = "hash"   => job[a] \in Hashing
  /\ pc[a] = "store"  => job[a] \in Entry
  /\ pc[a] = "edited" => job[a] \in Edited

\* The cases of the type invariant, one by one.
LEMMA JobIs ==
  ASSUME OracleTypeOK, NEW a \in Calls
  PROVE  JobTyped(a)
<1>1. CASE pc[a] \in {"idle", "search", "verify", "found"}
  BY <1>1 DEF OracleTypeOK, JobTyped, Searching, Verifying, Found
<1>2. CASE pc[a] \in {"hash", "store", "edited"}
  BY <1>2 DEF OracleTypeOK, JobTyped, Hashing, Edited
<1>3. CASE pc[a] \notin Pcs
  BY <1>3 DEF JobTyped, Pcs
<1> QED  BY <1>1, <1>2, <1>3 DEF Pcs

\* An answer shows the contents of files.
LEMMA AnswerIs ==
  ASSUME NEW answer \in Answers
  PROVE  /\ Provenance(answer) \subseteq Files
         /\ \A f \in Provenance(answer) : answer[f] \in Contents
         /\ answer = [f \in Provenance(answer) |-> answer[f]]
<1> PICK S \in SUBSET Files : answer \in [S -> Contents]  BY DEF Answers
<1> QED  BY DEF Provenance

\* The hash of an answer is the content of its files.
LEMMA HashIs ==
  ASSUME NEW answer \in Answers, NEW tree \in [Files -> Contents]
  PROVE  /\ TreeHash(answer, tree) \in Answers
         /\ (\A f \in Provenance(answer) : tree[f] = answer[f]) => TreeHash(answer, tree) = answer
<1>1. Provenance(answer) \in SUBSET Files  BY AnswerIs
<1>2. TreeHash(answer, tree) \in [Provenance(answer) -> Contents]  BY <1>1 DEF TreeHash
<1>3. answer = [f \in Provenance(answer) |-> answer[f]]  BY AnswerIs
<1>4. TreeHash(answer, tree) \in Answers  BY <1>1, <1>2 DEF Answers
<1> QED  BY <1>3, <1>4 DEF TreeHash

\* A search finds what its tree holds.
LEMMA GrepIs ==
  ASSUME NEW q \in Queries, NEW tree \in [Files -> Contents]
  PROVE  /\ Grep(q, tree) \in Answers
         /\ \A f \in Provenance(Grep(q, tree)) :
              tree[f] = Grep(q, tree)[f] /\ f \in q.scope /\ Grep(q, tree)[f] # {} /\ q.words \subseteq Grep(q, tree)[f]
<1> DEFINE found == {f \in q.scope : tree[f] # {} /\ q.words \subseteq tree[f]}
<1>1. found \in SUBSET Files  BY OracleAssumption
<1>2. Grep(q, tree) = [f \in found |-> tree[f]]  BY DEF Grep
<1>3. Grep(q, tree) \in [found -> Contents]  BY <1>1, <1>2
<1>4. Grep(q, tree) \in Answers  BY <1>1, <1>3 DEF Answers
<1>5. Provenance(Grep(q, tree)) = found  BY <1>2 DEF Provenance
<1> QED  BY <1>2, <1>4, <1>5

\* A step of one call leaves the other calls as they are.
LEMMA OneMoves ==
  ASSUME IInv, NEW a \in Calls, NEW p, NEW j,
         pc' = [pc EXCEPT ![a] = p], job' = [job EXCEPT ![a] = j]
  PROVE  /\ pc'[a] = p /\ job'[a] = j
         /\ \A b \in Calls : b # a => pc'[b] = pc[b] /\ job'[b] = job[b]
BY DEF IInv

\* Noting a race keeps what the call holds, and notes it.
LEMMA RacedIs ==
  ASSUME OracleTypeOK, NEW t, NEW f, NEW b \in Calls
  PROVE  /\ pc[b] \notin {"found", "hash", "store"} => Raced(t, f)[b] = job[b]
         /\ pc[b] = "found" =>
              /\ Raced(t, f)[b] \in Found
              /\ Raced(t, f)[b].q = job[b].q /\ Raced(t, f)[b].answer = job[b].answer
         /\ pc[b] = "hash" =>
              /\ Raced(t, f)[b] \in Hashing
              /\ Raced(t, f)[b].q = job[b].q /\ Raced(t, f)[b].answer = job[b].answer
              /\ Raced(t, f)[b].run = job[b].run
         /\ pc[b] = "store" =>
              /\ Raced(t, f)[b] \in Entry
              /\ Raced(t, f)[b].run = job[b].run /\ Raced(t, f)[b].key = job[b].key
              /\ Raced(t, f)[b].answer = job[b].answer /\ Raced(t, f)[b].hash = job[b].hash
              /\ Raced(t, f)[b].of = job[b].of /\ Raced(t, f)[b].by = job[b].by
         /\ pc[b] \in {"found", "hash", "store"} =>
              /\ job[b].raced \subseteq Raced(t, f)[b].raced
              /\ TreeOf[b] = t /\ f \in Provenance(job[b].answer) =>
                   /\ pc[b] # "store" => "answer" \in Raced(t, f)[b].raced
                   /\ Raced(t, f)[b].raced # {}
<1> DEFINE note == IF pc[b] = "store" THEN "hash" ELSE "answer"
<1> DEFINE R == [job[b] EXCEPT !.raced = @ \cup {note}]
<1> DEFINE hit == TreeOf[b] = t /\ pc[b] \in {"found", "hash", "store"} /\ f \in Provenance(job[b].answer)
<1>1. Raced(t, f)[b] = IF hit THEN R ELSE job[b]
  BY DEF Raced
<1>2. JobTyped(b)  BY JobIs
<1>3. note \in {"answer", "hash"}  OBVIOUS
<1>4. CASE pc[b] = "found"
  <2>1. job[b] \in Found  BY <1>2, <1>4 DEF JobTyped
  <2>2. job[b].raced \in Races  BY <2>1 DEF Found
  <2>3. job[b].raced \cup {note} \in Races  BY <1>3, <2>2 DEF Races
  <2>4. /\ R \in Found /\ R.q = job[b].q /\ R.answer = job[b].answer /\ R.raced = job[b].raced \cup {note}
    BY <2>1, <2>3 DEF Found
  <2>5. note = "answer"  BY <1>4
  <2> HIDE DEF R, note
  <2> QED  BY <1>1, <1>4, <2>1, <2>4, <2>5
<1>5. CASE pc[b] = "hash"
  <2>1. job[b] \in Hashing  BY <1>2, <1>5 DEF JobTyped
  <2>2. job[b].raced \in Races  BY <2>1 DEF Hashing
  <2>3. job[b].raced \cup {note} \in Races  BY <1>3, <2>2 DEF Races
  <2>4. /\ R \in Hashing /\ R.q = job[b].q /\ R.answer = job[b].answer /\ R.run = job[b].run
        /\ R.raced = job[b].raced \cup {note}
    BY <2>1, <2>3 DEF Hashing
  <2>5. note = "answer"  BY <1>5
  <2> HIDE DEF R, note
  <2> QED  BY <1>1, <1>5, <2>1, <2>4, <2>5
<1>6. CASE pc[b] = "store"
  <2>1. job[b] \in Entry  BY <1>2, <1>6 DEF JobTyped
  <2>2. job[b].raced \in Races  BY <2>1 DEF Entry
  <2>3. job[b].raced \cup {note} \in Races  BY <1>3, <2>2 DEF Races
  <2>4. /\ R \in Entry /\ R.run = job[b].run /\ R.key = job[b].key /\ R.answer = job[b].answer
        /\ R.hash = job[b].hash /\ R.of = job[b].of /\ R.by = job[b].by
        /\ R.raced = job[b].raced \cup {note}
    BY <2>1, <2>3 DEF Entry
  <2> HIDE DEF R, note
  <2> QED  BY <1>1, <1>6, <2>1, <2>4
<1>7. CASE pc[b] \notin {"found", "hash", "store"}
  BY <1>1, <1>7
<1> QED  BY <1>4, <1>5, <1>6, <1>7

\* An edit changes one file of one tree.
LEMMA EditIs ==
  ASSUME OracleTypeOK, NEW t \in Trees, NEW f \in Files, NEW c \in Contents,
         content' = [content EXCEPT ![t][f] = c]
  PROVE  /\ content' \in [Trees -> [Files -> Contents]]
         /\ \A u \in Trees, g \in Files : u # t \/ g # f => content'[u][g] = content[u][g]
BY DEF OracleTypeOK

-----------------------------------------------------------------------------
(* Types. *)

\* The type invariant from its parts.
LEMMA TypeFrom ==
  ASSUME pc' \in [Calls -> Pcs], \A b \in Calls : JobTyped(b)',
         content' \in [Trees -> [Files -> Contents]], edits' \in 0..MaxEdits, cache' \subseteq Entry,
         served' \in {NoJob} \cup [to : Calls, q : Queries, entry : Entry, tree : [Files -> Contents]],
         strayed' \subseteq Runs \X Trees
  PROVE  OracleTypeOK'
<1> SUFFICES ASSUME NEW a \in Calls
             PROVE  CASE pc'[a] = "idle"   -> job'[a] = NoJob
                      [] pc'[a] = "search" -> job'[a] \in [q : Queries]
                      [] pc'[a] = "verify" -> job'[a] \in [q : Queries, entry : Entry]
                      [] pc'[a] = "found"  -> job'[a] \in [q : Queries, answer : Answers, raced : Races]
                      [] pc'[a] = "hash"   -> job'[a] \in [q : Queries, answer : Answers, raced : Races, run : Runs]
                      [] pc'[a] = "store"  -> job'[a] \in Entry
                      [] pc'[a] = "edited" -> job'[a] \in [file : Files]
  BY DEF OracleTypeOK
<1>1. pc'[a] \in Pcs  OBVIOUS
<1>2. JobTyped(a)'  OBVIOUS
<1> QED  BY <1>1, <1>2 DEF Pcs, JobTyped, Searching, Verifying, Found, Hashing, Edited

\* A step of one call that keeps contents and edits keeps the types, when what it
\* holds, stores and serves has its type.
LEMMA TypeOfOne ==
  ASSUME IInv, IInv', OracleTypeOK, NEW a \in Calls, NEW p, NEW j,
         pc' = [pc EXCEPT ![a] = p], job' = [job EXCEPT ![a] = j], JobTyped(a)',
         UNCHANGED <<content, edits, strayed>>, cache' \subseteq Entry,
         served' \in {NoJob} \cup [to : Calls, q : Queries, entry : Entry, tree : [Files -> Contents]]
  PROVE  OracleTypeOK'
<1>1. \A b \in Calls : JobTyped(b)'
  <2> TAKE b \in Calls
  <2>1. CASE b = a  BY <2>1
  <2>2. CASE b # a
    <3>1. pc'[b] = pc[b] /\ job'[b] = job[b]  BY <2>2, OneMoves
    <3> QED  BY <3>1, JobIs DEF JobTyped
  <2> QED  BY <2>1, <2>2
<1>2. /\ content' \in [Trees -> [Files -> Contents]] /\ edits' \in 0..MaxEdits
      /\ strayed' \subseteq Runs \X Trees
  BY DEF OracleTypeOK
<1>3. pc' \in [Calls -> Pcs]  BY DEF IInv
<1> QED  BY <1>1, <1>2, <1>3, TypeFrom

\* Every step keeps the types.
LEMMA TypeNext ==
  ASSUME IInv, IInv', Worth, [OracleNext]_oracleVars
  PROVE  OracleTypeOK'
<1>t. OracleTypeOK  BY DEF Worth
<1>c. /\ cache \subseteq Entry
      /\ served \in {NoJob} \cup [to : Calls, q : Queries, entry : Entry, tree : [Files -> Contents]]
  BY <1>t DEF OracleTypeOK
<1>l. \A a \in Calls : content[TreeOf[a]] \in [Files -> Contents] /\ TreeOf[a] \in Trees
  BY <1>t, OracleAssumption DEF OracleTypeOK
<1>1. ASSUME NEW a \in Calls, NEW q \in Queries, Ask(a, q)  PROVE OracleTypeOK'
  <2>1. cache' = cache /\ served' = served /\ UNCHANGED <<content, edits, strayed>>  BY <1>1 DEF Ask
  <2>2. CASE pc' = [pc EXCEPT ![a] = "search"] /\ job' = [job EXCEPT ![a] = [q |-> q]]
    <3>1. pc'[a] = "search" /\ job'[a] = [q |-> q]  BY <2>2, OneMoves, ZenonT(30)
    <3>2. JobTyped(a)'  BY <3>1 DEF JobTyped, Searching
    <3> QED  BY <1>t, <1>c, <2>1, <2>2, <3>2, TypeOfOne
  <2>3. ASSUME NEW e \in Lookup(RunOf[a], q),
               pc' = [pc EXCEPT ![a] = "verify"], job' = [job EXCEPT ![a] = [q |-> q, entry |-> e]]
        PROVE  OracleTypeOK'
    <3>1. pc'[a] = "verify" /\ job'[a] = [q |-> q, entry |-> e]  BY <2>3, OneMoves, ZenonT(30)
    <3>2. e \in Entry  BY <1>c DEF Lookup, EntriesOf
    <3>3. [q |-> q, entry |-> e] \in Verifying  BY <3>2 DEF Verifying
    <3>4. JobTyped(a)'  BY <3>1, <3>3 DEF JobTyped
    <3> QED  BY <1>t, <1>c, <2>1, <2>3, <3>4, TypeOfOne
  <2> QED  BY <1>1, <2>2, <2>3 DEF Ask
<1>2. ASSUME NEW a \in Calls, Verify(a)  PROVE OracleTypeOK'
  <2>1. /\ pc[a] = "verify" /\ cache' = cache /\ UNCHANGED <<content, edits, strayed>>  BY <1>2 DEF Verify
  <2>2. job[a] \in Verifying  BY <1>t, <2>1, JobIs DEF JobTyped
  <2>3. job[a].q \in Queries /\ job[a].entry \in Entry  BY <2>2 DEF Verifying
  <2>4. CASE /\ served' = [to |-> a, q |-> job[a].q, entry |-> job[a].entry, tree |-> content[TreeOf[a]]]
             /\ pc' = [pc EXCEPT ![a] = "idle"] /\ job' = [job EXCEPT ![a] = NoJob]
    <3>1. pc'[a] = "idle" /\ job'[a] = NoJob  BY <2>4, OneMoves
    <3>2. JobTyped(a)'  BY <3>1 DEF JobTyped
    <3>3. served' \in [to : Calls, q : Queries, entry : Entry, tree : [Files -> Contents]]
      BY <1>l, <2>3, <2>4
    <3> QED  BY <1>t, <1>c, <2>1, <2>4, <3>2, <3>3, TypeOfOne
  <2>5. CASE /\ served' = served
             /\ pc' = [pc EXCEPT ![a] = "search"] /\ job' = [job EXCEPT ![a] = [q |-> job[a].q]]
    <3>1. pc'[a] = "search" /\ job'[a] = [q |-> job[a].q]  BY <2>5, OneMoves
    <3>2. JobTyped(a)'  BY <2>3, <3>1 DEF JobTyped, Searching
    <3> QED  BY <1>t, <1>c, <2>1, <2>5, <3>2, TypeOfOne
  <2> QED  BY <1>2, <2>4, <2>5 DEF Verify
<1>3. ASSUME NEW a \in Calls, Search(a)  PROVE OracleTypeOK'
  <2> DEFINE answer == Grep(job[a].q, content[TreeOf[a]])
  <2>1. /\ pc[a] = "search" /\ cache' = cache /\ served' = served /\ UNCHANGED <<content, edits, strayed>>
    BY <1>3 DEF Search
  <2>2. job[a].q \in Queries
    <3>1. job[a] \in Searching  BY <1>t, <2>1, JobIs DEF JobTyped
    <3> QED  BY <3>1 DEF Searching
  <2>3. answer \in Answers  BY <1>l, <2>2, GrepIs
  <2>4. CASE pc' = [pc EXCEPT ![a] = "idle"] /\ job' = [job EXCEPT ![a] = NoJob]
    <3>1. pc'[a] = "idle" /\ job'[a] = NoJob  BY <2>4, OneMoves
    <3>2. JobTyped(a)'  BY <3>1 DEF JobTyped
    <3> QED  BY <1>t, <1>c, <2>1, <2>4, <3>2, TypeOfOne
  <2>5. CASE /\ pc' = [pc EXCEPT ![a] = "found"]
             /\ job' = [job EXCEPT ![a] = [q |-> job[a].q, answer |-> answer, raced |-> {}]]
    <3> DEFINE n == [q |-> job[a].q, answer |-> answer, raced |-> {}]
    <3>1. pc' = [pc EXCEPT ![a] = "found"] /\ job' = [job EXCEPT ![a] = n]  BY <2>5
    <3> HIDE DEF answer
    <3>2. n \in Found  BY <2>2, <2>3 DEF Found, Races
    <3> HIDE DEF n
    <3>3. pc'[a] = "found" /\ job'[a] = n  BY <3>1, OneMoves
    <3>4. JobTyped(a)'  BY <3>2, <3>3 DEF JobTyped
    <3> QED  BY <1>t, <1>c, <2>1, <3>1, <3>4, TypeOfOne
  <2> QED  BY <1>3, <2>4, <2>5 DEF Search
<1>4. ASSUME NEW a \in Calls, Count(a)  PROVE OracleTypeOK'
  <2>1. /\ pc[a] = "found" /\ cache' = cache /\ served' = served /\ UNCHANGED <<content, edits, strayed>>
    BY <1>4 DEF Count
  <2>2. job[a] \in Found  BY <1>t, <2>1, JobIs DEF JobTyped
  <2>3. job[a].q \in Queries /\ job[a].answer \in Answers /\ job[a].raced \in Races  BY <2>2 DEF Found
  <2>4. CASE pc' = [pc EXCEPT ![a] = "idle"] /\ job' = [job EXCEPT ![a] = NoJob]
    <3>1. pc'[a] = "idle" /\ job'[a] = NoJob  BY <2>4, OneMoves
    <3>2. JobTyped(a)'  BY <3>1 DEF JobTyped
    <3> QED  BY <1>t, <1>c, <2>1, <2>4, <3>2, TypeOfOne
  <2>5. ASSUME NEW r \in Runs,
               pc' = [pc EXCEPT ![a] = "hash"], job' = [job EXCEPT ![a] = Recorder(job[a], r)]
        PROVE  OracleTypeOK'
    <3>1. pc'[a] = "hash" /\ job'[a] = Recorder(job[a], r)  BY <2>5, OneMoves
    <3>2. Recorder(job[a], r) \in Hashing  BY <2>3 DEF Hashing, Recorder
    <3>3. JobTyped(a)'  BY <3>1, <3>2 DEF JobTyped
    <3> QED  BY <1>t, <1>c, <2>1, <2>5, <3>3, TypeOfOne
  <2>6. \A r \in ResolveRun(a) : r = NoRun \/ r \in Runs
    BY OracleAssumption DEF ResolveRun
  <2> QED  BY <1>4, <2>4, <2>5, <2>6 DEF Count
<1>5. ASSUME NEW a \in Calls, Hash(a)  PROVE OracleTypeOK'
  <2> DEFINE n == [run |-> job[a].run, key |-> KeyOf(job[a].q), answer |-> job[a].answer,
                   hash |-> TreeHash(job[a].answer, content[TreeOf[a]]), of |-> job[a].q, by |-> a,
                   raced |-> job[a].raced]
  <2>1. /\ pc[a] = "hash" /\ cache' = cache /\ served' = served /\ UNCHANGED <<content, edits, strayed>>
        /\ pc' = [pc EXCEPT ![a] = "store"]
    BY <1>5 DEF Hash
  <2>2. job' = [job EXCEPT ![a] = n]  BY <1>5 DEF Hash, IInv
  <2>3. job[a] \in Hashing  BY <1>t, <2>1, JobIs DEF JobTyped
  <2>4. job[a].q \in Queries /\ job[a].answer \in Answers /\ job[a].raced \in Races /\ job[a].run \in Runs
    BY <2>3 DEF Hashing
  <2>5. KeyOf(job[a].q) \in SUBSET UNION Contents
    <3>1. Answering(job[a].q, job[a].answer)  BY <2>1 DEF Worth, JobAt
    <3>2. PICK f \in Provenance(job[a].answer) : job[a].q.words \subseteq job[a].answer[f]
      BY <3>1 DEF Answering
    <3>3. job[a].answer[f] \in Contents  BY <2>4, AnswerIs
    <3> QED  BY <3>2, <3>3 DEF KeyOf
  <2>6. TreeHash(job[a].answer, content[TreeOf[a]]) \in Answers  BY <1>l, <2>4, HashIs
  <2>7. n \in Entry  BY <2>4, <2>5, <2>6 DEF Entry
  <2> HIDE DEF n
  <2>8. pc'[a] = "store" /\ job'[a] = n  BY <2>1, <2>2, OneMoves
  <2>9. JobTyped(a)'  BY <2>7, <2>8 DEF JobTyped
  <2> QED  BY <1>t, <1>c, <2>1, <2>2, <2>9, TypeOfOne
<1>6. ASSUME NEW a \in Calls, Store(a) \/ Invalidate(a)  PROVE OracleTypeOK'
  <2>1. /\ pc' = [pc EXCEPT ![a] = "idle"] /\ job' = [job EXCEPT ![a] = NoJob]
        /\ served' = served /\ UNCHANGED <<content, edits, strayed>>
    BY <1>6 DEF Store, Invalidate
  <2>2. pc[a] = "store" => job[a] \in Entry  BY <1>t, JobIs DEF JobTyped
  <2>3. cache' \subseteq Entry  BY <1>6, <1>c, <2>2 DEF Store, Invalidate
  <2>4. pc'[a] = "idle" /\ job'[a] = NoJob  BY <2>1, OneMoves
  <2>5. JobTyped(a)'  BY <2>4 DEF JobTyped
  <2> QED  BY <1>t, <1>c, <2>1, <2>3, <2>5, TypeOfOne
<1>7. ASSUME NEW t \in Trees, NEW f \in Files, NEW b \in Calls, pc'[b] = pc[b], job'[b] = Raced(t, f)[b]
      PROVE  JobTyped(b)'
  <2>1. JobTyped(b)  BY <1>t, JobIs
  <2>2. /\ pc[b] \notin {"found", "hash", "store"} => Raced(t, f)[b] = job[b]
        /\ pc[b] = "found" => Raced(t, f)[b] \in Found
        /\ pc[b] = "hash" => Raced(t, f)[b] \in Hashing
        /\ pc[b] = "store" => Raced(t, f)[b] \in Entry
    BY <1>t, RacedIs
  <2> QED  BY <1>7, <2>1, <2>2 DEF JobTyped
<1>e. ASSUME edits < MaxEdits, edits' = edits + 1  PROVE edits' \in 0..MaxEdits
  BY <1>t, <1>e, OracleAssumption DEF OracleTypeOK
<1>8. ASSUME NEW a \in Calls, NEW f \in Files, NEW c \in Contents, Edit(a, f, c)  PROVE OracleTypeOK'
  <2>1. /\ pc' = [pc EXCEPT ![a] = "edited"] /\ job' = [Raced(TreeOf[a], f) EXCEPT ![a] = [file |-> f]]
        /\ content' = [content EXCEPT ![TreeOf[a]][f] = c] /\ cache' = cache /\ served' = served
        /\ strayed' = strayed \cup (Runs \ {RunOf[a]}) \X {TreeOf[a]}
        /\ edits < MaxEdits /\ edits' = edits + 1
    BY <1>8 DEF Edit
  <2>2. \A b \in Calls : JobTyped(b)'
    <3> TAKE b \in Calls
    <3>1. CASE b = a
      <4>1. pc'[b] = "edited" /\ job'[b] = [file |-> f]  BY <2>1, <3>1 DEF IInv, Raced
      <4> QED  BY <4>1 DEF JobTyped, Edited
    <3>2. CASE b # a
      <4>1. pc'[b] = pc[b] /\ job'[b] = Raced(TreeOf[a], f)[b]  BY <2>1, <3>2 DEF IInv, Raced
      <4> QED  BY <1>7, <1>l, <4>1
    <3> QED  BY <3>1, <3>2
  <2>3. content' \in [Trees -> [Files -> Contents]]  BY <1>t, <1>l, <2>1, EditIs
  <2>4. strayed' \subseteq Runs \X Trees  BY <1>t, <1>l, <2>1 DEF OracleTypeOK
  <2>5. pc' \in [Calls -> Pcs]  BY DEF IInv
  <2>6. edits' \in 0..MaxEdits  BY <1>e, <2>1
  <2> QED  BY <1>c, <2>1, <2>2, <2>3, <2>4, <2>5, <2>6, TypeFrom
<1>9. ASSUME NEW t \in Trees, NEW f \in Files, NEW c \in Contents, UnseenEdit(t, f, c)  PROVE OracleTypeOK'
  <2>1. /\ pc' = pc /\ job' = Raced(t, f) /\ content' = [content EXCEPT ![t][f] = c]
        /\ cache' = cache /\ served' = served /\ strayed' = strayed \cup Runs \X {t}
        /\ edits < MaxEdits /\ edits' = edits + 1
    BY <1>9 DEF UnseenEdit
  <2>2. \A b \in Calls : JobTyped(b)'  BY <1>7, <2>1
  <2>3. content' \in [Trees -> [Files -> Contents]]  BY <1>t, <2>1, EditIs
  <2>4. strayed' \subseteq Runs \X Trees  BY <1>t, <2>1 DEF OracleTypeOK
  <2>5. pc' \in [Calls -> Pcs]  BY DEF IInv
  <2>6. edits' \in 0..MaxEdits  BY <1>e, <2>1
  <2> QED  BY <1>c, <2>1, <2>2, <2>3, <2>4, <2>5, <2>6, TypeFrom
<1>10. CASE UNCHANGED oracleVars
  BY <1>10, <1>t DEF oracleVars, OracleTypeOK
<1> QED  BY <1>1, <1>2, <1>3, <1>4, <1>5, <1>6, <1>8, <1>9, <1>10 DEF OracleNext

-----------------------------------------------------------------------------
(* The worth of what the calls hold.  *)

\* A call that does nothing holds what it held.
LEMMA JobStays ==
  ASSUME NEW b \in Calls, JobAt(b), pc'[b] = pc[b], job'[b] = job[b], content' = content
  PROVE  JobAt(b)'
BY DEF JobAt, Holds, Filed, Answering, Provenance

\* An edit that changes what a call holds is noted as a race.
LEMMA JobRaced ==
  ASSUME OracleTypeOK, NEW b \in Calls, JobAt(b), NEW t \in Trees, NEW f \in Files, NEW c \in Contents,
         content' = [content EXCEPT ![t][f] = c], pc'[b] = pc[b], job'[b] = Raced(t, f)[b]
  PROVE  JobAt(b)'
<1>1. JobTyped(b) /\ TreeOf[b] \in Trees  BY JobIs, OracleAssumption
<1>2. ASSUME pc[b] \in {"found", "hash", "store"},
             "answer" \notin job'[b].raced, pc[b] = "store" => job'[b].raced = {}, Holds(b)
      PROVE  Holds(b)'
  <2>1. job[b].answer \in Answers /\ job'[b].answer = job[b].answer
    <3>1. CASE pc[b] = "found"  BY <1>1, <3>1, RacedIs DEF JobTyped, Found
    <3>2. CASE pc[b] = "hash"  BY <1>1, <3>2, RacedIs DEF JobTyped, Hashing
    <3>3. CASE pc[b] = "store"  BY <1>1, <3>3, RacedIs DEF JobTyped, Entry
    <3> QED  BY <1>2, <3>1, <3>2, <3>3
  <2>2. ~(TreeOf[b] = t /\ f \in Provenance(job[b].answer))
    <3>1. CASE pc[b] = "store"
      BY <1>2, <3>1, RacedIs
    <3>2. CASE pc[b] # "store"
      BY <1>2, <3>2, RacedIs
    <3> QED  BY <3>1, <3>2
  <2>3. Provenance(job[b].answer) \subseteq Files  BY <2>1, AnswerIs
  <2>4. \A g \in Provenance(job[b].answer) : content'[TreeOf[b]][g] = content[TreeOf[b]][g]
    BY <1>1, <2>2, <2>3, EditIs
  <2>5. \A g \in Provenance(job[b].answer) : content'[TreeOf[b]][g] = job[b].answer[g]
    BY <1>2, <2>4 DEF Holds
  <2> QED  BY <2>1, <2>5 DEF Holds
<1>3. CASE pc[b] \notin {"found", "hash", "store"}
  <2>1. job'[b] = job[b]  BY <1>3, RacedIs
  <2> QED  BY <1>3, <2>1 DEF JobAt, Filed, Answering, Provenance
<1>4. CASE pc[b] \in {"found", "hash"}
  <2>1. /\ job'[b].q = job[b].q /\ job'[b].answer = job[b].answer /\ job[b].raced \subseteq job'[b].raced
        /\ pc[b] = "hash" => job'[b].run = job[b].run
    BY <1>4, RacedIs
  <2>2. Answering(job[b].q, job[b].answer)  BY <1>4 DEF JobAt
  <2>3. "answer" \notin job'[b].raced => Holds(b)'
    BY <1>2, <1>4, <2>1 DEF JobAt
  <2>4. pc[b] = "hash" => RunOf[b] \in {job'[b].run, NoRun}  BY <2>1 DEF JobAt
  <2> QED  BY <1>4, <2>1, <2>2, <2>3, <2>4 DEF JobAt
<1>5. CASE pc[b] = "store"
  <2>1. /\ job'[b].run = job[b].run /\ job'[b].key = job[b].key /\ job'[b].answer = job[b].answer
        /\ job'[b].hash = job[b].hash /\ job'[b].of = job[b].of /\ job'[b].by = job[b].by
        /\ job[b].raced \subseteq job'[b].raced
    BY <1>5, RacedIs
  <2>2. Filed(job[b]) /\ job[b].by = b  BY <1>5 DEF JobAt
  <2>3. Filed(job'[b])  BY <2>1, <2>2 DEF Filed
  <2>4. job'[b].raced = {} => Holds(b)'
    BY <1>2, <1>5, <2>1 DEF JobAt
  <2> QED  BY <1>5, <2>1, <2>2, <2>3, <2>4 DEF JobAt
<1> QED  BY <1>3, <1>4, <1>5

\* A step of one call that edits nothing keeps what the others hold worth.
LEMMA JobsOfOne ==
  ASSUME IInv, Worth, NEW a \in Calls, NEW p, NEW j,
         pc' = [pc EXCEPT ![a] = p], job' = [job EXCEPT ![a] = j], content' = content, JobAt(a)'
  PROVE  \A b \in Calls : JobAt(b)'
<1> TAKE b \in Calls
<1>1. CASE b = a  BY <1>1
<1>2. CASE b # a
  <2>1. pc'[b] = pc[b] /\ job'[b] = job[b]  BY <1>2, OneMoves
  <2> QED  BY <2>1, JobStays DEF Worth
<1> QED  BY <1>1, <1>2

\* Every step keeps what the calls hold worth.
LEMMA JobsNext ==
  ASSUME IInv, Worth, [OracleNext]_oracleVars
  PROVE  \A b \in Calls : JobAt(b)'
<1>t. OracleTypeOK /\ \A b \in Calls : JobAt(b)  BY DEF Worth
<1>l. \A a \in Calls : content[TreeOf[a]] \in [Files -> Contents] /\ TreeOf[a] \in Trees
  BY <1>t, OracleAssumption DEF OracleTypeOK
<1>i. ASSUME NEW a \in Calls, pc'[a] \in {"idle", "search", "edited"}  PROVE JobAt(a)'
  BY <1>i DEF JobAt
<1>1. ASSUME NEW a \in Calls, NEW q \in Queries, Ask(a, q)  PROVE \A b \in Calls : JobAt(b)'
  <2>1. content' = content  BY <1>1 DEF Ask
  <2>2. CASE pc' = [pc EXCEPT ![a] = "search"] /\ job' = [job EXCEPT ![a] = [q |-> q]]
    <3>1. pc'[a] = "search"  BY <2>2, OneMoves
    <3> QED  BY <1>i, <2>1, <2>2, <3>1, JobsOfOne
  <2>3. ASSUME NEW e \in Lookup(RunOf[a], q),
               pc' = [pc EXCEPT ![a] = "verify"], job' = [job EXCEPT ![a] = [q |-> q, entry |-> e]]
        PROVE  \A b \in Calls : JobAt(b)'
    <3>1. pc'[a] = "verify" /\ job'[a] = [q |-> q, entry |-> e]  BY <2>3, OneMoves, ZenonT(30)
    <3>2. e \in cache /\ e.run = RunOf[a] /\ e.key = KeyOf(q)  BY DEF Lookup, EntriesOf
    <3>3. Filed(e)  BY <3>2 DEF Worth
    <3>4. job'[a].q = q /\ job'[a].entry = e  BY <3>1
    <3>5. JobAt(a)'  BY <3>1, <3>2, <3>3, <3>4 DEF JobAt
    <3> QED  BY <2>1, <2>3, <3>5, JobsOfOne
  <2> QED  BY <1>1, <2>2, <2>3 DEF Ask
<1>2. ASSUME NEW a \in Calls, Verify(a)  PROVE \A b \in Calls : JobAt(b)'
  <2>1. /\ content' = content
        /\ \E p \in {"idle", "search"}, j \in {NoJob, [q |-> job[a].q]} :
             pc' = [pc EXCEPT ![a] = p] /\ job' = [job EXCEPT ![a] = j]
    BY <1>2 DEF Verify
  <2>2. PICK p \in {"idle", "search"}, j \in {NoJob, [q |-> job[a].q]} :
             pc' = [pc EXCEPT ![a] = p] /\ job' = [job EXCEPT ![a] = j]
    BY <2>1
  <2>3. pc'[a] = p  BY <2>2, OneMoves
  <2> QED  BY <1>i, <2>1, <2>2, <2>3, JobsOfOne
<1>3. ASSUME NEW a \in Calls, Search(a)  PROVE \A b \in Calls : JobAt(b)'
  <2> DEFINE answer == Grep(job[a].q, content[TreeOf[a]])
             n == [q |-> job[a].q, answer |-> answer, raced |-> {}]
  <2>1. content' = content /\ pc[a] = "search"  BY <1>3 DEF Search
  <2>2. job[a].q \in Queries
    <3>1. job[a] \in Searching  BY <1>t, <2>1, JobIs DEF JobTyped
    <3> QED  BY <3>1 DEF Searching
  <2>3. CASE pc' = [pc EXCEPT ![a] = "idle"] /\ job' = [job EXCEPT ![a] = NoJob]
    <3>1. pc'[a] = "idle"  BY <2>3, OneMoves
    <3> QED  BY <1>i, <2>1, <2>3, <3>1, JobsOfOne
  <2>4. CASE /\ Provenance(answer) # {}
             /\ pc' = [pc EXCEPT ![a] = "found"] /\ job' = [job EXCEPT ![a] = n]
    <3>1. \A f \in Provenance(answer) :
            /\ content[TreeOf[a]][f] = answer[f]
            /\ f \in job[a].q.scope /\ answer[f] # {} /\ job[a].q.words \subseteq answer[f]
      BY <1>l, <2>2, GrepIs
    <3> HIDE DEF answer
    <3>2. Answering(job[a].q, answer)  BY <2>4, <3>1 DEF Answering
    <3>3. n.q = job[a].q /\ n.answer = answer  OBVIOUS
    <3> HIDE DEF n
    <3>4. pc'[a] = "found" /\ job'[a] = n  BY <2>4, OneMoves
    <3>5. Holds(a)'  BY <2>1, <3>1, <3>3, <3>4 DEF Holds
    <3>6. JobAt(a)'  BY <3>2, <3>3, <3>4, <3>5 DEF JobAt
    <3> QED  BY <2>1, <2>4, <3>6, JobsOfOne
  <2> QED  BY <1>3, <2>3, <2>4 DEF Search
<1>4. ASSUME NEW a \in Calls, Count(a)  PROVE \A b \in Calls : JobAt(b)'
  <2>1. content' = content /\ pc[a] = "found"  BY <1>4 DEF Count
  <2>2. CASE pc' = [pc EXCEPT ![a] = "idle"] /\ job' = [job EXCEPT ![a] = NoJob]
    <3>1. pc'[a] = "idle"  BY <2>2, OneMoves
    <3> QED  BY <1>i, <2>1, <2>2, <3>1, JobsOfOne
  <2>3. ASSUME NEW r \in ResolveRun(a), r # NoRun,
               pc' = [pc EXCEPT ![a] = "hash"], job' = [job EXCEPT ![a] = Recorder(job[a], r)]
        PROVE  \A b \in Calls : JobAt(b)'
    <3>1. pc'[a] = "hash" /\ job'[a] = Recorder(job[a], r)  BY <2>3, OneMoves
    <3>2. job'[a].q = job[a].q /\ job'[a].answer = job[a].answer /\ job'[a].raced = job[a].raced /\ job'[a].run = r
      BY <3>1 DEF Recorder
    <3>3. Answering(job[a].q, job[a].answer) /\ ("answer" \notin job[a].raced => Holds(a))
      BY <1>t, <2>1 DEF JobAt
    <3>4. Holds(a) => Holds(a)'  BY <2>1, <3>2 DEF Holds
    <3>5. RunOf[a] \in {r, NoRun}  BY <2>3 DEF ResolveRun
    <3>6. JobAt(a)'  BY <3>1, <3>2, <3>3, <3>4, <3>5 DEF JobAt
    <3> QED  BY <2>1, <2>3, <3>6, JobsOfOne
  <2> QED  BY <1>4, <2>2, <2>3 DEF Count
\* The hash is taken of the files as they are: they show the answer unless there was a race.
<1>5. ASSUME NEW a \in Calls, Hash(a)  PROVE \A b \in Calls : JobAt(b)'
  <2> DEFINE n == [run |-> job[a].run, key |-> KeyOf(job[a].q), answer |-> job[a].answer,
                   hash |-> TreeHash(job[a].answer, content[TreeOf[a]]), of |-> job[a].q, by |-> a,
                   raced |-> job[a].raced]
  <2>1. pc[a] = "hash" /\ content' = content /\ pc' = [pc EXCEPT ![a] = "store"]  BY <1>5 DEF Hash
  <2>2. job' = [job EXCEPT ![a] = n]  BY <1>5 DEF Hash, IInv
  <2>3. /\ n.run = job[a].run /\ n.key = KeyOf(job[a].q) /\ n.answer = job[a].answer
        /\ n.hash = TreeHash(job[a].answer, content[TreeOf[a]]) /\ n.of = job[a].q /\ n.by = a
        /\ n.raced = job[a].raced
    OBVIOUS
  <2> HIDE DEF n
  <2>4. pc'[a] = "store" /\ job'[a] = n  BY <2>1, <2>2, OneMoves
  <2>5. job[a].answer \in Answers
    <3>1. job[a] \in Hashing  BY <1>t, <2>1, JobIs DEF JobTyped
    <3> QED  BY <3>1 DEF Hashing
  <2>6. /\ Answering(job[a].q, job[a].answer) /\ ("answer" \notin job[a].raced => Holds(a))
        /\ RunOf[a] \in {job[a].run, NoRun}
    BY <1>t, <2>1 DEF JobAt
  <2>7. Holds(a) => TreeHash(job[a].answer, content[TreeOf[a]]) = job[a].answer
    BY <1>l, <2>5, HashIs DEF Holds
  <2>8. Filed(n)  BY <2>3, <2>6, <2>7 DEF Filed
  <2>9. n.raced = {} => Holds(a)'
    <3>1. Holds(a) => Holds(a)'  BY <2>1, <2>3, <2>4 DEF Holds
    <3> QED  BY <2>3, <2>6, <3>1
  <2>10. JobAt(a)'  BY <2>3, <2>4, <2>8, <2>9 DEF JobAt
  <2> QED  BY <2>1, <2>2, <2>10, JobsOfOne
<1>6. ASSUME NEW a \in Calls, Store(a) \/ Invalidate(a)  PROVE \A b \in Calls : JobAt(b)'
  <2>1. pc' = [pc EXCEPT ![a] = "idle"] /\ job' = [job EXCEPT ![a] = NoJob] /\ content' = content
    BY <1>6 DEF Store, Invalidate
  <2>2. pc'[a] = "idle"  BY <2>1, OneMoves
  <2> QED  BY <1>i, <2>1, <2>2, JobsOfOne
<1>7. ASSUME NEW a \in Calls, NEW f \in Files, NEW c \in Contents, Edit(a, f, c)
      PROVE  \A b \in Calls : JobAt(b)'
  <2>1. /\ pc' = [pc EXCEPT ![a] = "edited"] /\ job' = [Raced(TreeOf[a], f) EXCEPT ![a] = [file |-> f]]
        /\ content' = [content EXCEPT ![TreeOf[a]][f] = c]
    BY <1>7 DEF Edit
  <2> TAKE b \in Calls
  <2>2. CASE b = a
    <3>1. pc'[b] = "edited"  BY <2>1, <2>2 DEF IInv
    <3> QED  BY <1>i, <3>1
  <2>3. CASE b # a
    <3>1. pc'[b] = pc[b] /\ job'[b] = Raced(TreeOf[a], f)[b]  BY <2>1, <2>3 DEF IInv, Raced
    <3> QED  BY <1>t, <1>l, <2>1, <3>1, JobRaced
  <2> QED  BY <2>2, <2>3
<1>8. ASSUME NEW t \in Trees, NEW f \in Files, NEW c \in Contents, UnseenEdit(t, f, c)
      PROVE  \A b \in Calls : JobAt(b)'
  <2>1. pc' = pc /\ job' = Raced(t, f) /\ content' = [content EXCEPT ![t][f] = c]
    BY <1>8 DEF UnseenEdit
  <2> QED  BY <1>t, <2>1, JobRaced
<1>9. CASE UNCHANGED oracleVars
  BY <1>9, <1>t, JobStays DEF oracleVars
<1> QED  BY <1>1, <1>2, <1>3, <1>4, <1>5, <1>6, <1>7, <1>8, <1>9 DEF OracleNext

-----------------------------------------------------------------------------
(* The worth of the entries. *)

\* An entry that is shown or on its way out stays so, while nothing is edited and the
\* calls that have edited keep what they hold.
LEMMA FreshStays ==
  ASSUME NEW e, Fresh(e), content' = content, strayed' = strayed,
         \A b \in Calls : pc[b] = "edited" => pc'[b] = pc[b] /\ job'[b] = job[b]
  PROVE  Fresh(e)'
<1>1. CASE e.raced # {} \/ <<e.run, TreeOf[e.by]>> \in strayed
  BY <1>1 DEF Fresh
<1>2. CASE \A f \in Provenance(e.answer) :
             \/ content[TreeOf[e.by]][f] = e.answer[f]
             \/ \E b \in Calls : pc[b] = "edited" /\ job[b].file = f /\ RunOf[b] = e.run
  <2>1. ASSUME NEW f \in Provenance(e.answer)
        PROVE  \/ content'[TreeOf[e.by]][f] = e.answer[f]
               \/ \E b \in Calls : pc'[b] = "edited" /\ job'[b].file = f /\ RunOf[b] = e.run
    BY <1>2
  <2> QED  BY <2>1 DEF Fresh, Provenance
<1> QED  BY <1>1, <1>2 DEF Fresh

\* Every step keeps the worth of the entries.
LEMMA EntriesNext ==
  ASSUME IInv, Worth, [OracleNext]_oracleVars
  PROVE  \A e \in cache' : Filed(e) /\ Fresh(e)'
<1>t. OracleTypeOK /\ \A e \in cache : Filed(e) /\ Fresh(e)  BY DEF Worth
<1>l. \A a \in Calls : TreeOf[a] \in Trees  BY OracleAssumption
<1>e. \A e \in cache : /\ e.run \in Runs /\ e.by \in Calls /\ e.answer \in Answers
                       /\ Provenance(e.answer) \subseteq Files
  <2> TAKE e \in cache
  <2>1. e \in Entry  BY <1>t DEF OracleTypeOK
  <2>2. e.run \in Runs /\ e.by \in Calls /\ e.answer \in Answers  BY <2>1 DEF Entry
  <2> QED  BY <2>2, AnswerIs
<1>1. ASSUME NEW a \in Calls, pc[a] # "edited", NEW p, NEW j,
             pc' = [pc EXCEPT ![a] = p], job' = [job EXCEPT ![a] = j],
             cache' \subseteq cache, content' = content, strayed' = strayed
      PROVE  \A e \in cache' : Filed(e) /\ Fresh(e)'
  <2>1. \A b \in Calls : pc[b] = "edited" => pc'[b] = pc[b] /\ job'[b] = job[b]
    BY <1>1, OneMoves
  <2> QED  BY <1>1, <1>t, <2>1, FreshStays
<1>2. ASSUME NEW a \in Calls, NEW q \in Queries, Ask(a, q)
      PROVE  \A e \in cache' : Filed(e) /\ Fresh(e)'
  <2>1. /\ pc[a] = "idle" /\ cache' = cache /\ content' = content /\ strayed' = strayed
        /\ \E p \in {"search", "verify"}, j \in {[q |-> q]} \cup {[q |-> q, entry |-> e] : e \in cache} :
             pc' = [pc EXCEPT ![a] = p] /\ job' = [job EXCEPT ![a] = j]
    BY <1>2 DEF Ask, Lookup, EntriesOf
  <2> QED  BY <1>1, <2>1
<1>3. ASSUME NEW a \in Calls, Verify(a) \/ Search(a)
      PROVE  \A e \in cache' : Filed(e) /\ Fresh(e)'
  <2>1. /\ pc[a] # "edited" /\ cache' = cache /\ content' = content /\ strayed' = strayed
        /\ \E p, j : pc' = [pc EXCEPT ![a] = p] /\ job' = [job EXCEPT ![a] = j]
    BY <1>3 DEF Verify, Search
  <2> QED  BY <1>1, <2>1
<1>4. ASSUME NEW a \in Calls, Count(a) \/ Hash(a)
      PROVE  \A e \in cache' : Filed(e) /\ Fresh(e)'
  <2>1. /\ pc[a] # "edited" /\ cache' = cache /\ content' = content /\ strayed' = strayed
    BY <1>4 DEF Count, Hash
  <2>2. \E p, j : pc' = [pc EXCEPT ![a] = p] /\ job' = [job EXCEPT ![a] = j]
    BY <1>4 DEF Count, Hash, IInv
  <2> QED  BY <1>1, <2>1, <2>2
\* The new entry shows what its recorder holds.
<1>5. ASSUME NEW a \in Calls, Store(a)
      PROVE  \A e \in cache' : Filed(e) /\ Fresh(e)'
  <2>1. /\ pc[a] = "store" /\ cache' \subseteq cache \cup {job[a]} /\ content' = content /\ strayed' = strayed
        /\ pc' = [pc EXCEPT ![a] = "idle"] /\ job' = [job EXCEPT ![a] = NoJob]
    BY <1>5 DEF Store
  <2>2. \A b \in Calls : pc[b] = "edited" => pc'[b] = pc[b] /\ job'[b] = job[b]
    BY <2>1, OneMoves
  <2>3. Filed(job[a]) /\ job[a].by = a /\ (job[a].raced = {} => Holds(a))
    BY <2>1 DEF Worth, JobAt
  <2>4. Fresh(job[a])  BY <2>3 DEF Fresh, Holds
  <2> DEFINE n == job[a]
  <2>5. Filed(n) /\ Fresh(n) /\ cache' \subseteq cache \cup {n}  BY <2>1, <2>3, <2>4
  <2> HIDE DEF n
  <2>6. \A e \in cache \cup {n} : Filed(e) /\ Fresh(e)  BY <1>t, <2>5
  <2>7. \A e \in cache \cup {n} : Fresh(e)'  BY <2>1, <2>2, <2>6, FreshStays
  <2> QED  BY <2>5, <2>6, <2>7
\* The entries of the run that show the edited file are gone.
<1>6. ASSUME NEW a \in Calls, Invalidate(a), NEW e \in cache'
      PROVE  Filed(e) /\ Fresh(e)'
  <2>1. PICK r \in ResolveRun(a) :
          cache' = {o \in cache : o.run # r \/ job[a].file \notin Provenance(o.answer)}
    BY <1>6 DEF Invalidate
  <2>2. /\ e \in cache /\ (e.run # r \/ job[a].file \notin Provenance(e.answer))
        /\ pc' = [pc EXCEPT ![a] = "idle"] /\ job' = [job EXCEPT ![a] = NoJob]
        /\ content' = content /\ strayed' = strayed
    BY <1>6, <2>1 DEF Invalidate
  <2>3. \A b \in Calls : b # a => pc'[b] = pc[b] /\ job'[b] = job[b]
    BY <2>2, OneMoves
  <2>4. Filed(e) /\ Fresh(e)  BY <1>t, <2>2
  <2>5. CASE e.raced # {} \/ <<e.run, TreeOf[e.by]>> \in strayed
    BY <2>2, <2>4, <2>5 DEF Fresh
  <2>6. CASE ~(e.raced # {} \/ <<e.run, TreeOf[e.by]>> \in strayed)
    <3>1. ASSUME NEW f \in Provenance(e.answer)
          PROVE  \/ content[TreeOf[e.by]][f] = e.answer[f]
                 \/ \E b \in Calls : b # a /\ pc[b] = "edited" /\ job[b].file = f /\ RunOf[b] = e.run
      <4>1. \/ content[TreeOf[e.by]][f] = e.answer[f]
            \/ \E b \in Calls : pc[b] = "edited" /\ job[b].file = f /\ RunOf[b] = e.run
        BY <2>4, <2>6, <3>1 DEF Fresh
      <4>2. ASSUME job[a].file = f, RunOf[a] = e.run  PROVE FALSE
        <5>1. RunOf[a] # NoRun  BY <1>e, <2>2, <4>2, OracleAssumption
        <5>2. r = e.run  BY <4>2, <5>1 DEF ResolveRun
        <5> QED  BY <2>2, <3>1, <4>2, <5>2
      <4> QED  BY <4>1, <4>2
    <3>2. ASSUME NEW f \in Provenance(e.answer)
          PROVE  \/ content'[TreeOf[e.by]][f] = e.answer[f]
                 \/ \E b \in Calls : pc'[b] = "edited" /\ job'[b].file = f /\ RunOf[b] = e.run
      BY <2>2, <2>3, <3>1
    <3> QED  BY <2>4, <3>2 DEF Fresh, Provenance
  <2> QED  BY <2>5, <2>6
\* An observed edit is on its way to the entries of the agent's run; to those of any
\* other run it has strayed.
<1>7. ASSUME NEW a \in Calls, NEW f \in Files, NEW c \in Contents, Edit(a, f, c), NEW e \in cache'
      PROVE  Filed(e) /\ Fresh(e)'
  <2>1. /\ pc[a] = "idle" /\ pc' = [pc EXCEPT ![a] = "edited"]
        /\ job' = [Raced(TreeOf[a], f) EXCEPT ![a] = [file |-> f]]
        /\ content' = [content EXCEPT ![TreeOf[a]][f] = c] /\ e \in cache
        /\ strayed' = strayed \cup (Runs \ {RunOf[a]}) \X {TreeOf[a]}
    BY <1>7 DEF Edit
  <2>2. pc'[a] = "edited" /\ job'[a].file = f  BY <2>1 DEF IInv, Raced
  <2>3. \A b \in Calls : pc[b] = "edited" => pc'[b] = "edited" /\ job'[b] = job[b]
    <3> TAKE b \in Calls
    <3> SUFFICES ASSUME pc[b] = "edited"  PROVE pc'[b] = "edited" /\ job'[b] = job[b]  OBVIOUS
    <3>1. b # a  BY <2>1
    <3>2. pc'[b] = pc[b] /\ job'[b] = Raced(TreeOf[a], f)[b]  BY <2>1, <3>1 DEF IInv, Raced
    <3>3. Raced(TreeOf[a], f)[b] = job[b]  BY <1>t, RacedIs
    <3> QED  BY <3>2, <3>3
  <2>4. Filed(e) /\ Fresh(e)  BY <1>t, <2>1
  <2>5. CASE e.raced # {} \/ <<e.run, TreeOf[e.by]>> \in strayed'
    BY <2>4, <2>5 DEF Fresh
  <2>6. CASE ~(e.raced # {} \/ <<e.run, TreeOf[e.by]>> \in strayed')
    <3>1. e.run \in Runs /\ TreeOf[e.by] \in Trees /\ Provenance(e.answer) \subseteq Files
      BY <1>e, <1>l, <2>1
    <3>2. RunOf[a] = e.run \/ TreeOf[e.by] # TreeOf[a]  BY <2>1, <2>6, <3>1
    <3>3. ASSUME NEW g \in Provenance(e.answer)
          PROVE  \/ content'[TreeOf[e.by]][g] = e.answer[g]
                 \/ \E b \in Calls : pc'[b] = "edited" /\ job'[b].file = g /\ RunOf[b] = e.run
      <4>1. CASE TreeOf[e.by] = TreeOf[a] /\ g = f
        BY <2>2, <3>2, <4>1
      <4>2. CASE TreeOf[e.by] # TreeOf[a] \/ g # f
        <5>1. content'[TreeOf[e.by]][g] = content[TreeOf[e.by]][g]
          BY <1>l, <1>t, <2>1, <3>1, <4>2, EditIs
        <5>2. \/ content[TreeOf[e.by]][g] = e.answer[g]
              \/ \E b \in Calls : pc[b] = "edited" /\ job[b].file = g /\ RunOf[b] = e.run
          BY <2>1, <2>4, <2>6 DEF Fresh
        <5> QED  BY <2>3, <5>1, <5>2
      <4> QED  BY <4>1, <4>2
    <3> QED  BY <2>4, <3>3 DEF Fresh, Provenance
  <2> QED  BY <2>5, <2>6
\* An edit no hook sees has strayed to every run.
<1>8. ASSUME NEW t \in Trees, NEW f \in Files, NEW c \in Contents, UnseenEdit(t, f, c), NEW e \in cache'
      PROVE  Filed(e) /\ Fresh(e)'
  <2>1. /\ pc' = pc /\ job' = Raced(t, f) /\ content' = [content EXCEPT ![t][f] = c] /\ e \in cache
        /\ strayed' = strayed \cup Runs \X {t}
    BY <1>8 DEF UnseenEdit
  <2>2. \A b \in Calls : pc[b] = "edited" => job'[b] = job[b]  BY <1>t, <2>1, RacedIs
  <2>3. Filed(e) /\ Fresh(e)  BY <1>t, <2>1
  <2>4. CASE e.raced # {} \/ <<e.run, TreeOf[e.by]>> \in strayed'
    BY <2>3, <2>4 DEF Fresh
  <2>5. CASE ~(e.raced # {} \/ <<e.run, TreeOf[e.by]>> \in strayed')
    <3>1. e.run \in Runs /\ TreeOf[e.by] \in Trees /\ Provenance(e.answer) \subseteq Files
      BY <1>e, <1>l, <2>1
    <3>2. TreeOf[e.by] # t  BY <2>1, <2>5, <3>1
    <3>3. ASSUME NEW g \in Provenance(e.answer)
          PROVE  \/ content'[TreeOf[e.by]][g] = e.answer[g]
                 \/ \E b \in Calls : pc'[b] = "edited" /\ job'[b].file = g /\ RunOf[b] = e.run
      <4>1. content'[TreeOf[e.by]][g] = content[TreeOf[e.by]][g]
        BY <1>t, <2>1, <3>1, <3>2, EditIs
      <4>2. \/ content[TreeOf[e.by]][g] = e.answer[g]
            \/ \E b \in Calls : pc[b] = "edited" /\ job[b].file = g /\ RunOf[b] = e.run
        BY <2>1, <2>3, <2>5 DEF Fresh
      <4> QED  BY <2>1, <2>2, <4>1, <4>2
    <3> QED  BY <2>3, <3>3 DEF Fresh, Provenance
  <2> QED  BY <2>4, <2>5
<1>9. CASE UNCHANGED oracleVars
  BY <1>9, <1>t, FreshStays DEF oracleVars
<1> QED  BY <1>2, <1>3, <1>4, <1>5, <1>6, <1>7, <1>8, <1>9 DEF OracleNext

-----------------------------------------------------------------------------
(* What is served. *)

\* Every step keeps the worth of what was served.
LEMMA ShownNext ==
  ASSUME IInv, Worth, [OracleNext]_oracleVars
  PROVE  Shown'
<1>1. CASE served' = served
  BY <1>1 DEF Worth, Shown
<1>2. ASSUME NEW a \in Calls, Verify(a), served' # served  PROVE Shown'
  <2> DEFINE n == [to |-> a, q |-> job[a].q, entry |-> job[a].entry, tree |-> content[TreeOf[a]]]
  <2>1. /\ pc[a] = "verify" /\ served' = n
        /\ TreeHash(job[a].entry.answer, content[TreeOf[a]]) = job[a].entry.hash
    BY <1>2 DEF Verify
  <2>2. n.to = a /\ n.q = job[a].q /\ n.entry = job[a].entry /\ n.tree = content[TreeOf[a]]  OBVIOUS
  <2> HIDE DEF n
  <2>3. /\ Filed(job[a].entry) /\ job[a].entry.run = RunOf[a] /\ job[a].entry.key = KeyOf(job[a].q)
    BY <2>1 DEF Worth, JobAt
  <2> QED  BY <2>1, <2>2, <2>3 DEF Shown
<1>3. (\A a \in Calls : ~Verify(a)) => served' = served
  BY DEF OracleNext, Ask, Search, Count, Hash, Store, Invalidate, Edit, UnseenEdit, oracleVars
<1> QED  BY <1>1, <1>2, <1>3

\* Nothing held, stored or served.
LEMMA InitWorth == OracleInit => Worth
<1> SUFFICES ASSUME OracleInit  PROVE Worth  OBVIOUS
<1>1. OracleTypeOK  BY OracleAssumption DEF OracleInit, OracleTypeOK
<1>2. \A a \in Calls : JobAt(a)  BY DEF OracleInit, JobAt
<1> QED  BY <1>1, <1>2 DEF OracleInit, Worth, Shown

\* What the calls hold, the cache stores and the hook serves keeps its worth.
THEOREM WorthIsKept == OracleSpec => []Worth
<1>1. OracleInit => Worth  BY InitWorth
<1>2. ASSUME IInv, IInv', Worth, [OracleNext]_oracleVars  PROVE Worth'
  <2>1. OracleTypeOK' /\ \A b \in Calls : JobAt(b)'  BY <1>2, TypeNext, JobsNext
  <2>2. (\A e \in cache' : Filed(e) /\ Fresh(e)') /\ Shown'  BY <1>2, EntriesNext, ShownNext
  <2> QED  BY <2>1, <2>2 DEF Worth, Filed, Answering, Provenance
<1> QED  BY <1>1, <1>2, Invariance, PTL DEF OracleSpec

\* A served answer shows nothing that its asker's own search would not find now, unless
\* a file changed between the search and the hash; it comes from its asker's run and
\* was recorded for the same content words.
THEOREM AnswersStand == OracleSpec => []AnswerStands
<1>1. Worth => AnswerStands
  <2> SUFFICES ASSUME Worth, served # NoJob
               PROVE  /\ "answer" \notin served.entry.raced =>
                           Current(served.entry.answer, served.entry.of, served.tree)
                      /\ served.entry.run = RunOf[served.to]
                      /\ RunOf[served.entry.by] \in {RunOf[served.to], NoRun}
                      /\ served.entry.of.words \ Stopwords = served.q.words \ Stopwords
    BY DEF AnswerStands
  <2> DEFINE e == served.entry
  <2>1. /\ Filed(e) /\ e.run = RunOf[served.to] /\ e.key = KeyOf(served.q)
        /\ TreeHash(e.answer, served.tree) = e.hash
    BY DEF Worth, Shown
  <2> HIDE DEF e
  <2>2. ASSUME "answer" \notin e.raced  PROVE Current(e.answer, e.of, served.tree)
    <3>1. TreeHash(e.answer, served.tree) = e.answer /\ Answering(e.of, e.answer)
      BY <2>1, <2>2 DEF Filed
    <3>2. \A f \in Provenance(e.answer) : served.tree[f] = e.answer[f]
      BY <3>1 DEF TreeHash
    <3>3. ASSUME NEW f \in Provenance(e.answer)
          PROVE  /\ f \in DOMAIN Grep(e.of, served.tree)
                 /\ Grep(e.of, served.tree)[f] = e.answer[f]
      <4>1. f \in e.of.scope /\ served.tree[f] # {} /\ e.of.words \subseteq served.tree[f]
        BY <3>1, <3>2 DEF Answering
      <4> QED  BY <3>2, <4>1 DEF Grep
    <3> QED  BY <3>3 DEF Current
  <2>3. e.run = RunOf[served.to] /\ RunOf[e.by] \in {RunOf[served.to], NoRun}
    BY <2>1 DEF Filed
  <2>4. e.of.words \ Stopwords = served.q.words \ Stopwords  BY <2>1 DEF Filed, KeyOf
  <2> QED  BY <2>2, <2>3, <2>4 DEF e
<1> QED  BY <1>1, WorthIsKept, PTL

\* After the hook of an edit has invalidated, no entry of the run shows the file as it
\* was, unless the answer was being recorded during the edit.
THEOREM EditsAreSeen == OracleSpec => []EditsInvalidate
<1>1. Worth => EditsInvalidate
  <2> SUFFICES ASSUME Worth, NEW e \in cache
               PROVE  \/ e.raced # {} \/ <<e.run, TreeOf[e.by]>> \in strayed
                      \/ \E a \in Calls : pc[a] = "edited" /\ job[a].file \in Provenance(e.answer)
                      \/ \A f \in Provenance(e.answer) : content[TreeOf[e.by]][f] = e.answer[f]
    BY DEF EditsInvalidate
  <2>1. Fresh(e)  BY DEF Worth
  <2> QED  BY <2>1 DEF Fresh
<1> QED  BY <1>1, WorthIsKept, PTL
=============================================================================
