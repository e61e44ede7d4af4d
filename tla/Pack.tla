-------------------------------- MODULE Pack --------------------------------
(***************************************************************************)
(* A context pack from the Agent call that builds it to the agent that     *)
(* reads it: handle_tool_pre_agent and _maybe_build_dossier, the file      *)
(* writes of dossier.py and pull.py, handle_subagent_start, the reads that *)
(* handle_tool_pre_dossier sees, and what attribution.py counts once the   *)
(* worker of the daemon gets to the stop.                                  *)
(*                                                                         *)
(* The builder runs on the hook's thread.  Claude Code waits ten seconds   *)
(* for it, then lets the call go on; builder and agent then run side by    *)
(* side.  A node may be spawned again, with a builder of its own.  Which   *)
(* node an agent is taken for is a guess from order, and may be wrong      *)
(* (module Correlator).                                                    *)
(***************************************************************************)
EXTENDS Dossier

CONSTANTS
  Agents,       \* spawns, each with the marker it carries
  NodeOf,       \* per agent: the node of its marker
  Trees,        \* the sets of files a build may find
  Finished,     \* nodes that have left a receipt before
  Finds,        \* which of "git_log" and "search" find anything
  WorksOn,      \* per node: the task the orchestrator spawns it for
  ApplyTo,      \* agents of a type in meter.modules.dossier.apply_to
  Unclaimed,       \* what an agent is taken for that no call was waiting for
  MaxFaults     \* bound: disorders of all kinds together

ASSUME PackAssumption ==
  /\ NodeOf \in [Agents -> Nodes] /\ Unclaimed \notin Nodes
  /\ Trees \subseteq SUBSET Files
  /\ WorksOn \in [Nodes -> Tasks]
  /\ ApplyTo \subseteq Agents
  /\ MaxFaults \in Nat

VARIABLES
  pull,      \* modules.pull: "off", "on", or "override" for these agents' type
  pack,      \* per node: dossiers/<node>.md
  manifest,  \* per node: dossiers/<node>/manifest.md
  files,     \* per node: the section files dossiers/<node>/<section>.md
  spans,     \* table dossier_spans, per node: the files it has spans of
  exposed,   \* table attribution_exposures: the rows of each node
  referenced,\* its column of that name
  offered,   \* table pull_sections: the rows of each node
  pulled,    \* its column of that name
  receipt,   \* per node: the files its receipt names
  builder,   \* per agent: how far it is
  job,       \* per agent: what its builder has gathered
  given,     \* per agent: what SubagentStart gave it
  takenAs,   \* per agent: the node that SubagentStart took it for
  agent,     \* per agent: "unborn", "running", "stopped" while its stop is queued,
             \* then "counted", or "dropped" if that was lost or failed
  faults,    \* how often each kind of disorder has happened
  \* history
  shown,     \* per node: the units that stood in a pack or an offered section
  fetched,   \* per agent: the sections it read
  named,     \* per agent: the units its transcript names
  late,      \* agents that started before their builder was through
  failed,    \* agents one of whose writes failed
  trimmed    \* nodes whose pack lost a section to the budget

disk    == <<pack, manifest, files>>
tables  == <<spans, exposed, referenced, offered, pulled>>
world   == <<pull, receipt>>
history == <<shown, fetched, named, late, failed, trimmed>>
packVars == <<disk, tables, world, builder, job, takenAs, given, agent, faults, history>>

NoFile  == [by |-> "nobody"]
Nothing == [kind |-> "nothing"]

\* A draft before anything is gathered, and a builder before its call.
NoDraft == [task |-> NoTask, owns |-> {}, symbols |-> {}, neighbours |-> {},
            contracts |-> {}, siblings |-> {}, extras |-> {}]
NoJob   == [pull |-> FALSE, draft |-> NoDraft, listed |-> {}]

PackInit ==
  /\ pull \in {"off", "on"}
  /\ pack = [n \in Nodes |-> NoFile]
  /\ manifest = [n \in Nodes |-> NoFile]
  /\ files = [n \in Nodes |-> {}]
  /\ spans = [n \in Nodes |-> {}]
  /\ exposed = [n \in Nodes |-> {}]
  /\ referenced = [n \in Nodes |-> {}]
  /\ offered = [n \in Nodes |-> {}]
  /\ pulled = [n \in Nodes |-> {}]
  /\ receipt = [n \in Nodes |-> IF n \in Finished THEN OwnsOf(TaskOf[n]) ELSE {}]
  /\ builder = [a \in Agents |-> "new"]
  /\ job = [a \in Agents |-> NoJob]
  /\ takenAs = [a \in Agents |-> Unclaimed]
  /\ given = [a \in Agents |-> Nothing]
  /\ agent = [a \in Agents |-> "unborn"]
  /\ faults = [tears |-> 0, switches |-> 0, failures |-> 0, misses |-> 0]
  /\ shown = [n \in Nodes |-> {}]
  /\ fetched = [a \in Agents |-> {}]
  /\ named = [a \in Agents |-> {}]
  /\ late = {}
  /\ failed = {}
  /\ trimmed = {}

To(a, s) == builder' = [builder EXCEPT ![a] = s]

\* The builder of a is through; what it had gathered is gone.
Done(a) == To(a, "done") /\ job' = [job EXCEPT ![a] = [NoJob EXCEPT !.pull = job[a].pull]]

\* A disorder of some kind, while the bound allows it.
Occurs(k) ==
  /\ faults.tears + faults.switches + faults.failures + faults.misses < MaxFaults
  /\ faults' = [faults EXCEPT ![k] = @ + 1]

\* A write of a fails.
Fail(a) == Occurs("failures") /\ failed' = failed \cup {a}

-----------------------------------------------------------------------------
(* The tables *)

\* Statements of store.py: rows that are there are left as they are, and a
\* column is set in the rows that are there.
SetSpans(n, fs)              == spans' = [spans EXCEPT ![n] = fs]
MarkAnew(n, units)           == referenced' = [referenced EXCEPT ![n] = exposed[n] \cap units]  \* mutant
RecordExposures(n, units)    == exposed' = [exposed EXCEPT ![n] = @ \cup units]
MarkReferenced(n, units)     == referenced' = [referenced EXCEPT ![n] = @ \cup (exposed[n] \cap units)]
RecordPullSections(n, names) == offered' = [offered EXCEPT ![n] = @ \cup names]
MarkFetched(n, names)        == pulled' = [pulled EXCEPT ![n] = @ \cup (offered[n] \cap names)]

-----------------------------------------------------------------------------
(* handle_tool_pre_agent, _maybe_build_dossier, dossier._build *)

\* The orchestrator spawns an agent for a node: a node has one agent at a time,
\* but the builder of the last one may still be at work.
Call(a) ==
  /\ builder[a] = "new"
  /\ \A b \in Agents : NodeOf[b] = NodeOf[a] =>
       builder[b] = "new" \/ agent[b] \notin {"unborn", "running"}
  /\ To(a, IF a \in ApplyTo THEN "gather" ELSE "done")
  /\ job' = [job EXCEPT ![a].pull = (pull # "off")]
  /\ UNCHANGED <<disk, tables, world, takenAs, given, agent, faults, history>>

\* The task, the files as they are now and the neighbours; then set_dossier_spans
\* replaces the spans of the node.
Gather(a) ==
  /\ builder[a] = "gather"
  /\ \E whole \in BOOLEAN, there \in Trees :
       LET n == NodeOf[a]
           t == LoadTask(n, whole)
       IN  /\ job' = [job EXCEPT ![a].draft =
                [NoDraft EXCEPT !.task = t, !.owns = OwnsOf(t), !.symbols = Indexed(t, there),
                                !.neighbours = Neighbours(t, there)]]
           /\ \/ /\ SetSpans(n, Neighbours(t, there))
                 /\ IF whole THEN UNCHANGED faults ELSE Occurs("tears")
                 /\ UNCHANGED failed
              \/ whole /\ Fail(a) /\ UNCHANGED spans
  /\ To(a, "collect")
  /\ UNCHANGED <<disk, exposed, referenced, offered, pulled, world, takenAs, given, agent,
                 shown, fetched, named, late, trimmed>>

\* Contract texts, receipts of others, git log and text search; without a task
\* there is nothing to look for.
Collect(a) ==
  /\ builder[a] = "collect"
  /\ \E whole \in BOOLEAN :
       /\ job' = [job EXCEPT ![a].draft =
            [@ EXCEPT !.contracts = ContractTexts(job[a].draft.task, whole),
                      !.siblings = Siblings(NodeOf[a], job[a].draft.task, receipt),
                      !.extras = GitLog(job[a].draft, Finds) \cup SearchHits(job[a].draft, Finds)]]
       /\ IF whole THEN UNCHANGED faults ELSE Occurs("tears")
  /\ To(a, IF job[a].pull THEN "sections" ELSE "body")
  /\ UNCHANGED <<disk, tables, world, takenAs, given, agent, history>>

\* The pushed pack.  If it cannot be written the build has failed, and nothing
\* is recorded of it.
WriteBody(a) ==
  /\ builder[a] = "body"
  /\ LET n == NodeOf[a]
         d == job[a].draft
         kept == FitToBudget(d)
     IN  \/ /\ pack' = [pack EXCEPT ![n] = [by |-> a, kept |-> kept, draft |-> d]]
            /\ shown' = [shown EXCEPT ![n] = @ \cup ShownIn(d, kept)]
            /\ trimmed' = IF kept = SectionsOf(d) THEN trimmed ELSE trimmed \cup {n}
            /\ To(a, "expose")
            /\ UNCHANGED <<job, faults, failed>>
         \/ /\ Fail(a)
            /\ Done(a)
            /\ UNCHANGED <<pack, shown, trimmed>>
  /\ UNCHANGED <<manifest, files, tables, world, takenAs, given, agent, fetched, named, late>>

AllSections(wanted, written) == wanted                          \* mutant

\* pull.write_sections returns the sections that are on disk.
Written(wanted, written) == wanted \cap written

\* pull.write_sections: a section that cannot be written is left out, and all of
\* them if the directory cannot be made.
WriteSections(a) ==
  /\ builder[a] = "sections"
  /\ LET n == NodeOf[a]
         wanted == ManifestSections(job[a].draft)
     IN  \E w \in {wanted, {}} \cup {wanted \ {l} : l \in wanted} :
           /\ \/ w = wanted /\ UNCHANGED <<faults, failed>>
              \/ w # wanted /\ Fail(a)
           /\ files' = [files EXCEPT ![n] = @ \cup w]
           /\ job' = [job EXCEPT ![a].listed = Written(wanted, w)]
  /\ To(a, "manifest")
  /\ UNCHANGED <<pack, manifest, tables, world, takenAs, given, agent,
                 shown, fetched, named, late, trimmed>>

\* The manifest of what was written; if it cannot be written itself, the build
\* goes on as if it had been.
WriteManifest(a) ==
  /\ builder[a] = "manifest"
  /\ LET n == NodeOf[a]
     IN  \/ /\ manifest' = [manifest EXCEPT ![n] = [by |-> a, sections |-> job[a].listed]]
            /\ shown' = [shown EXCEPT ![n] = @ \cup ShownIn(job[a].draft, job[a].listed)]
            /\ UNCHANGED <<faults, failed>>
         \/ Fail(a) /\ UNCHANGED <<manifest, shown>>
  /\ To(a, "expose")
  /\ UNCHANGED <<pack, files, tables, world, job, takenAs, given, agent, fetched, named, late, trimmed>>

\* record_attribution_exposures: a row that is there stays as it is.
Expose(a) ==
  /\ builder[a] = "expose"
  /\ \/ RecordExposures(NodeOf[a], Exposures(job[a].draft)) /\ UNCHANGED <<faults, failed>>
     \/ Fail(a) /\ UNCHANGED exposed
  /\ IF job[a].pull THEN To(a, "offer") /\ UNCHANGED job ELSE Done(a)
  /\ UNCHANGED <<disk, spans, referenced, offered, pulled, world, takenAs, given, agent,
                 shown, fetched, named, late, trimmed>>

\* record_pull_sections, likewise.
Offer(a) ==
  /\ builder[a] = "offer"
  /\ \/ RecordPullSections(NodeOf[a], job[a].listed) /\ UNCHANGED <<faults, failed>>
     \/ Fail(a) /\ UNCHANGED offered
  /\ Done(a)
  /\ UNCHANGED <<disk, spans, exposed, referenced, pulled, world, takenAs, given, agent,
                 shown, fetched, named, late, trimmed>>

-----------------------------------------------------------------------------
(* The agent *)

ManifestFirst(n) ==                                             \* mutant
  IF manifest[n] # NoFile
  THEN [kind |-> "manifest", by |-> manifest[n].by, sections |-> manifest[n].sections]
  ELSE IF pack[n] # NoFile THEN [kind |-> "pack", by |-> pack[n].by] ELSE Nothing

\* What SubagentStart finds for a node: a pushed pack, else a manifest.
Delivery(n) ==
  IF pack[n] # NoFile THEN [kind |-> "pack", by |-> pack[n].by]
  ELSE IF manifest[n] # NoFile
  THEN [kind |-> "manifest", by |-> manifest[n].by, sections |-> manifest[n].sections]
  ELSE Nothing

\* The call goes on when the hook has answered, or was given up.  claim takes the
\* agent for the one whose call waits longest; that may be another, or none.
Start(a) ==
  /\ builder[a] # "new" /\ agent[a] = "unborn"
  /\ agent' = [agent EXCEPT ![a] = "running"]
  /\ late' = IF builder[a] = "done" THEN late ELSE late \cup {a}
  /\ \E n \in {NodeOf[b] : b \in {b \in Agents : builder[b] # "new"}} \cup {Unclaimed} :
       /\ IF n = NodeOf[a] THEN UNCHANGED faults ELSE Occurs("misses")
       /\ takenAs' = [takenAs EXCEPT ![a] = n]
       /\ given' = [given EXCEPT ![a] = IF n = Unclaimed THEN Nothing ELSE Delivery(n)]
  /\ UNCHANGED <<disk, tables, world, builder, job, shown, fetched, named, failed, trimmed>>

\* The agent reads the sections of its manifest.  Each is counted if
\* modules.pull.enabled says so and there is a row for it; the override of a type
\* is not asked here.
Fetch(a) ==
  /\ agent[a] = "running"
  /\ given[a].kind = "manifest" /\ fetched[a] # given[a].sections
  /\ fetched' = [fetched EXCEPT ![a] = given[a].sections]
  /\ IF pull = "on" THEN MarkFetched(takenAs[a], given[a].sections) ELSE UNCHANGED pulled
  /\ UNCHANGED <<disk, spans, exposed, referenced, offered, world, builder, job, takenAs, given,
                 agent, faults, shown, named, late, failed, trimmed>>

\* The agent stops, and its stop is queued; its transcript names some of what it
\* could see.
Stop(a) ==
  /\ agent[a] = "running"
  /\ agent' = [agent EXCEPT ![a] = "stopped"]
  /\ \E words \in {{}, IF takenAs[a] = Unclaimed THEN {} ELSE shown[takenAs[a]]} :
       named' = [named EXCEPT ![a] = words]
  /\ UNCHANGED <<disk, tables, world, builder, job, takenAs, given,
                 faults, shown, fetched, late, failed, trimmed>>

\* The worker gets to it.  A receipt that passed is there for later packs, and
\* record_references marks the rows whose token the transcript names.
Count(a) ==
  /\ agent[a] = "stopped"
  /\ agent' = [agent EXCEPT ![a] = "counted"]
  /\ IF takenAs[a] = Unclaimed THEN UNCHANGED <<referenced, receipt>>
     ELSE LET n == takenAs[a]
          IN  /\ MarkReferenced(n, named[a])
              /\ \E r \in {receipt[n], OwnsOf(TaskOf[n])} : receipt' = [receipt EXCEPT ![n] = r]
  /\ UNCHANGED <<disk, spans, exposed, offered, pulled, pull, builder, job, takenAs, given,
                 faults, shown, fetched, named, late, failed, trimmed>>

\* It raises, as over a run's files that cannot be written; or the row of the agent's
\* start is missing; or an error of the database is swallowed amid the marking.
CountFails(a) ==
  /\ agent[a] = "stopped" /\ takenAs[a] # Unclaimed
  /\ agent' = [agent EXCEPT ![a] = "dropped"]
  /\ Occurs("failures")
  /\ LET n == takenAs[a]
     IN  /\ \E words \in {{}} \cup {{w} : w \in named[a]} : MarkReferenced(n, words)
         /\ \E r \in {receipt[n], OwnsOf(TaskOf[n])} : receipt' = [receipt EXCEPT ![n] = r]
  /\ UNCHANGED <<disk, spans, exposed, offered, pulled, pull, builder, job, takenAs, given,
                 shown, fetched, named, late, failed, trimmed>>

-----------------------------------------------------------------------------
(* The rest of the world.  That files come and go, and that the orchestrator   *)
(* rewrites tasks.json in place, shows in what Gather and Collect read.        *)

\* The configuration is read when a daemon starts: builders and the queue of the
\* old one end.
Switch ==
  /\ \E p \in {"off", "on", "override"} \ {pull} : pull' = p
  /\ Occurs("switches")
  /\ builder' = [a \in Agents |-> IF builder[a] = "new" THEN "new" ELSE "done"]
  /\ failed' = failed \cup {a \in Agents : builder[a] \notin {"new", "done"}}
  /\ agent' = [a \in Agents |-> IF agent[a] = "stopped" THEN "dropped" ELSE agent[a]]
  /\ UNCHANGED <<disk, tables, receipt, job, takenAs, given,
                 shown, fetched, named, late, trimmed>>

Build(a) == Gather(a) \/ Collect(a) \/ WriteBody(a) \/ WriteSections(a)
            \/ WriteManifest(a) \/ Expose(a) \/ Offer(a)

PackNext ==
  \/ \E a \in Agents : Call(a) \/ Build(a) \/ Start(a) \/ Fetch(a) \/ Stop(a)
                       \/ Count(a) \/ CountFails(a)
  \/ Switch

PackSpec == PackInit /\ [][PackNext]_packVars

-----------------------------------------------------------------------------
(* Properties *)

\* Nothing came between the builder of a and its agent: the hook answered in
\* time, the agent was taken for its own node, it was never without its writes, and
\* no builder of the node's earlier agents was still at work.
Orderly(a) ==
  /\ a \in ApplyTo \ failed /\ takenAs[a] = NodeOf[a]
  /\ \A b \in Agents : NodeOf[b] = NodeOf[a] => b \notin late

\* An agent gets the pack that was built for it, never one of an earlier spawn of
\* its node, whatever happens to files, tasks.json and other nodes meanwhile.  Two
\* things break this: a disorder of its own node (Orderly), and pull having been
\* switched on since an earlier spawn, whose pushed pack is then preferred to the
\* new manifest (router.handle_subagent_start).
FreshPack ==
  \A a \in Agents :
    agent[a] # "unborn" /\ Orderly(a) /\ ~(job[a].pull /\ given[a].kind = "pack")
      => given[a] # Nothing /\ given[a].by = a

\* Every section that a manifest names, on disk or with an agent, and every
\* section whose pulls are counted, is a file that can be read: through failing
\* writes, rebuilds and daemons that die between two steps (pull.write_sections:
\* "a dangling manifest entry is worse than a shorter one").
SectionsThere ==
  /\ \A n \in Nodes :
       /\ manifest[n] # NoFile => manifest[n].sections \subseteq files[n]
       /\ offered[n] \subseteq files[n]
  /\ \A a \in Agents : given[a].kind = "manifest" => given[a].sections \subseteq files[takenAs[a]]

\* What an agent used is not lost to the rates that decide between push and pull
\* and about pruning: a section it read and a unit it named stay counted, over
\* later spawns and rebuilds of its node.  They are lost when an agent starts
\* before its builder has made the rows, or for another node than its own; a unit
\* when its stop was lost in the queue of a daemon that exits, or the job or a
\* statement of the database fails; and a pull when only the override of its type
\* has pull on.
UseCounted ==
  \A a \in Agents :
    Orderly(a) /\ (\A b \in failed : NodeOf[b] # NodeOf[a]) =>
      /\ agent[a] = "counted" => named[a] \subseteq referenced[NodeOf[a]]
      /\ pull = "on" /\ faults.switches = 0 => fetched[a] \subseteq pulled[NodeOf[a]]

\* The reference rates count no unit that no agent could see ("it can only ever
\* overstate a reference rate", attribution.py): each one stood in a pack or in
\* an offered section of the node.  It fails for sections the budget cut off, and
\* for rows recorded after a manifest could not be written.
RatesFair ==
  \A n \in Nodes \ trimmed :
    (\A a \in failed : NodeOf[a] # n) => exposed[n] \subseteq shown[n]

\* A pack keeps to the budget unless its header alone is over it, and was not cut
\* further than it had to be: no section that was left out would have fitted
\* beside those that were kept (_fit_to_budget skips a section and goes on).
WellCut ==
  \A n \in Nodes : pack[n] # NoFile =>
    LET d == pack[n].draft
        kept == pack[n].kept
        size == FoldSet(LAMBDA l, sum : sum + CostOf(d, l), 0, kept)
    IN  /\ "header" \in kept
        /\ size <= MaxTokens \/ kept = {"header"}
        /\ \A l \in ToSet(Priority) \ kept : UnitsIn(d, l) # {} => size + CostOf(d, l) > MaxTokens

\* The budget cuts from the tail: what is kept of the sections of a pack are the
\* first ones in order of priority ("so `_fit_to_budget` can cut from the tail",
\* dossier._assemble_sections).
CutFromTail ==
  \A n \in Nodes : pack[n] # NoFile =>
    \A i, j \in DOMAIN Priority :
      i < j /\ Priority[j] \in pack[n].kept /\ UnitsIn(pack[n].draft, Priority[i]) # {}
        => Priority[i] \in pack[n].kept

\* A pack lists the files that the task of its agent owns ("lists the owned
\* files", router._dossier_pointer_text), unless tasks.json was torn.
PackListsOwns ==
  \A n \in Nodes : pack[n] # NoFile /\ faults.tears = 0 => pack[n].draft.owns = Owns[WorksOn[n]]
=============================================================================
