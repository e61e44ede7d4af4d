------------------------------- MODULE Dossier -------------------------------
(***************************************************************************)
(* What meter/dossier.py puts into the context pack of a node, as          *)
(* operators over what it finds: tasks.json, the files of the repository,  *)
(* the receipts of other nodes.  Symbols, log lines and search hits are    *)
(* not told apart; a section is known by the units it is about (files,     *)
(* contracts, nodes) and by what it costs.                                 *)
(***************************************************************************)
EXTENDS Naturals, FiniteSets, Sequences, SequencesExt

CONSTANTS
  Files,         \* paths, as numbers: the order of the numbers is that of the names
  Contracts,
  Tasks,
  Nodes,         \* what the orchestrator writes after DAG-NODE: <run-id>/
  NoTask,
  TaskOf,        \* the task whose id a node is, NoTask if there is none
  Owns,          \* per task: the files it owns
  Consumes,      \* per task: its contracts
  Imports,       \* per file: the files it imports
  Shunned,       \* files whose names are secret- or binary-shaped
  MaxNeighbours, \* the 20 of dossier._build
  MaxTokens      \* meter.modules.dossier.max_tokens

ASSUME DossierAssumption ==
  /\ Files \subseteq Nat /\ IsFiniteSet(Files) /\ IsFiniteSet(Contracts) /\ IsFiniteSet(Nodes)
  /\ NoTask \notin Tasks
  /\ TaskOf \in [Nodes -> Tasks \cup {NoTask}]
  /\ Owns \in [Tasks -> SUBSET Files]
  /\ Consumes \in [Tasks -> SUBSET Contracts]
  /\ Imports \in [Files -> SUBSET Files]
  /\ Shunned \subseteq Files
  /\ {MaxNeighbours, MaxTokens} \subseteq Nat

-----------------------------------------------------------------------------
(* What a build finds.  `there` are the files that exist and are not too big. *)

\* load_task: the task whose id equals the node's; none if tasks.json cannot be
\* parsed at this moment.
LoadTask(n, whole) == IF whole THEN TaskOf[n] ELSE NoTask

OwnsOf(t) == IF t = NoTask THEN {} ELSE Owns[t]

\* is_secret_shaped, is_binary_shaped: a matter of the name alone.
Safe(S) == S \ Shunned

\* read_file: the text of a file that exists and is not too big.
Readable(S, there) == S \cap there

\* file_texts: the owned files that are indexed.
Indexed(t, there) == Readable(Safe(OwnsOf(t)), there)

\* neighbours_of: what a file imports, as far as it resolves to files that exist.
NeighboursOf(f, there) == Imports[f] \cap there

\* The first MaxNeighbours of a set of paths, in the order of their names.
FirstOf(S) == {f \in S : Cardinality({g \in S : g < f}) < MaxNeighbours}

\* neighbour_symbols_by_file: an owned file is a neighbour if it was not indexed
\* itself.
Neighbours(t, there) ==
  LET own == Indexed(t, there)
  IN  Readable(FirstOf(UNION {NeighboursOf(f, there) : f \in own} \ own), there)

\* load_contracts, which reads tasks.json once more.
ContractTexts(t, whole) == IF t = NoTask \/ ~whole THEN {} ELSE Consumes[t]

\* _sibling_receipts: other nodes whose receipts name a file that is owned here.
\* filesOf[m] are the files of m's receipt, {} if there is none.
Siblings(n, t, filesOf) == {m \in Nodes \ {n} : filesOf[m] \cap OwnsOf(t) # {}}

\* _git_log and _search: no log without owned files, no terms to search for
\* without a task.
GitLog(d, finds) == IF d.owns = {} THEN {} ELSE finds \cap {"git_log"}
SearchHits(d, finds) == IF d.task = NoTask THEN {} ELSE finds \cap {"search"}

-----------------------------------------------------------------------------
(* Sections: _assemble_sections and _fit_to_budget. *)

Priority == <<"header", "contracts", "owned_symbols", "sibling_receipts",
              "neighbours", "git_log", "search">>

\* The units of each section.  The header names the owned files whether they
\* are indexed or not; log and hits are one unit or none.
UnitsIn(d, l) ==
  CASE l = "header"           -> d.owns
    [] l = "contracts"        -> d.contracts
    [] l = "owned_symbols"    -> d.symbols
    [] l = "sibling_receipts" -> d.siblings
    [] l = "neighbours"       -> d.neighbours
    [] l \in {"git_log", "search"} -> {l} \cap d.extras

\* Only the header is there without anything to say.
SectionsOf(d) == {l \in ToSet(Priority) : l = "header" \/ UnitsIn(d, l) # {}}

\* estimate_tokens: a line for the heading and one for each unit.
CostOf(d, l) == 1 + Cardinality(UnitsIn(d, l))

\* Nothing is kept yet.
Bare == [kept |-> {}, used |-> 0]

Kept(d, st, l) == [kept |-> st.kept \cup {l}, used |-> st.used + CostOf(d, l)]

FitStrict(d) ==                                                 \* mutant
  LET Keep(st, l) ==
        IF l \notin SectionsOf(d) \/ (st.kept # {} /\ st.used + CostOf(d, l) >= MaxTokens)
        THEN st ELSE Kept(d, st, l)
  IN  FoldLeft(Keep, Bare, Priority).kept

\* _fit_to_budget: the header always, then in order of priority what still fits.
FitToBudget(d) ==
  LET Keep(st, l) ==
        IF l \notin SectionsOf(d) \/ (st.kept # {} /\ st.used + CostOf(d, l) > MaxTokens)
        THEN st ELSE Kept(d, st, l)
  IN  FoldLeft(Keep, Bare, Priority).kept

-----------------------------------------------------------------------------
(* Attribution *)

Tagged(tag, S) == {<<tag, u>> : u \in S}

ExposuresOfOwned(d) == Tagged("contracts", d.contracts)         \* mutant
                  \cup Tagged("owned_symbols", d.symbols)

\* build_exposures: what the rates count, by kind and name.
Exposures(d) == Tagged("neighbours", d.neighbours)
           \cup Tagged("contracts", d.contracts)
           \cup Tagged("sibling_receipts", d.siblings)

\* The same units, as far as they stand in these sections.
ShownIn(d, labels) ==
  UNION {Tagged(l, UnitsIn(d, l)) : l \in labels \cap {"neighbours", "contracts", "sibling_receipts"}}

\* pull.build_manifest_sections: all sections but the header.
ManifestSections(d) == SectionsOf(d) \ {"header"}
=============================================================================
