-------------------------------- MODULE Phases --------------------------------
(***************************************************************************)
(* One run of the orchestrator from its request to its last phase          *)
(* (skills/orchestrator/SKILL.md, phases 1, 3, 4 and 6, reference/,        *)
(* commands/dag-resume.md): what it keeps in the run's directory, what the *)
(* session alone knows, and a session that may die at any step and be      *)
(* resumed by another.  Of the review of a deliverable (Review) there are  *)
(* the revisions and the end; all passes over the tasks (Execute) are a    *)
(* step.  A concern is the set of specialists it is about: one whose       *)
(* reviewers stand by a finding, two that contradict each other, or, when  *)
(* the reconciler gave no verdict, none.                                   *)
(*                                                                         *)
(* The brief that may stand in for the specification is kept across runs,  *)
(* under the specification's content (dag-distill.py, meter/distill.py).   *)
(***************************************************************************)
EXTENDS Integers, FiniteSets, SequencesExt

CONSTANTS
  Always,     \* the specialists of every request
  Optional,   \* the others, in the order of risk that breaks a tie
  LiteCap,    \* specialists of a lite run
  Drafts,     \* what a deliverable may say
  Requests,   \* requests with their flags
  Distill,    \* settings of the distiller: [loads, enabled, compile]
  MaxTurns    \* bound: sessions that die and complaints about the specification

Specialists == Always \cup Range(Optional)
Missing == "missing"
Torn    == "torn"

ASSUME PhasesAssumption ==
  /\ MaxTurns \in Nat /\ LiteCap \in Nat /\ LiteCap > Cardinality(Always)
  /\ {Missing, Torn} \cap Drafts = {}
  /\ \A r \in Requests : r.touches \subseteq Range(Optional)

VARIABLES
  request,    \* what the run was started with, kept in request.md and run.json
  settings,   \* of the distiller
  phases,     \* run.json "phases", or Unreadable
  reviewed,   \* run.json "specialists": those whose review is over
  texts,      \* each specialist's last deliverable, on disk
  merged,     \* merged-spec.md
  rulings,    \* reconcile.md, with the concerns promoted there
  brief,      \* brief.md
  graph,      \* tasks.json
  cache,      \* table distill_cache
  session,    \* the session: its step and what only it knows
  turns,      \* of those, so far
  \* history
  raised,     \* concerns raised and not settled
  forgot,     \* concerns that a death left on no disk
  words,      \* what the user was shown and said
  disorders   \* those there were

disk == <<phases, reviewed, texts, merged, rulings, brief, graph, cache>>
history == <<raised, forgot, words, disorders>>
phasesVars == <<request, settings, disk, session, turns, history>>

-----------------------------------------------------------------------------
(* Setup *)

\* --all has no meaning without specialists.
Mode == IF request.mode = "micro" /\ request.all THEN "lite" ELSE request.mode

\* The combinations of flags a run is not started with; perPass 0 is no flag.
Refused(r) ==
  \/ r.planOnly /\ r.fullRun
  \/ r.perPass > 0 /\ ~r.unattended
  \/ r.unattended /\ (r.perPass = 0 \/ ~(r.planOnly \/ r.fullRun))
  \/ r.perPass > 3 /\ ~r.planOnly

\* Phase 1's routing: all, or the hard rules, in a lite run up to its cap in the order
\* of risk.
Routed ==
  LET hit == {i \in DOMAIN Optional : Optional[i] \in request.touches}
      cap == LiteCap - Cardinality(Always)
  IN  CASE Mode = "micro" -> {}
        [] Mode # "micro" /\ request.all -> Specialists
        [] Mode = "lite" /\ ~request.all -> Always \cup {Optional[i] : i \in
                               {k \in hit : Cardinality({j \in hit : j <= k}) <= cap}}
        [] OTHER -> Always \cup {Optional[i] : i \in hit}

NoSpec  == [texts |-> <<>>, concerns |-> {}, whole |-> FALSE]
NoBrief == [of |-> NoSpec, passed |-> FALSE]
NoRulings == [concerns |-> {}, whole |-> FALSE]
NoGraph == [of |-> NoSpec, via |-> "spec", by |-> NoBrief, whole |-> FALSE,
            edges |-> FALSE, owns |-> FALSE]
At(step, todo) == [at |-> step, todo |-> todo, knows |-> {}, missed |-> 0]

PhasesInit ==
  /\ request \in Requests /\ settings \in Distill
  /\ phases = [n \in 1..6 |-> "pending"]
  /\ reviewed = {} /\ texts = [s \in Specialists |-> Missing]
  /\ merged = NoSpec /\ rulings = NoRulings /\ brief = NoBrief /\ graph = NoGraph /\ cache = {}
  /\ session = At("setup", {}) /\ turns = 0
  /\ raised = {} /\ forgot = {} /\ words = {} /\ disorders = {}

Go(step, todo) ==
  session' = [at |-> step, todo |-> todo, knows |-> session.knows, missed |-> 0]
Complete(n)    == phases' = [phases EXCEPT ![n] = "complete"]

\* run.json is written, in a micro run with the first three phases skipped.
Setup ==
  /\ session.at = "setup"
  /\ IF Refused(request) THEN Go("end", {}) /\ UNCHANGED phases
     ELSE IF Mode = "micro"
     THEN Go("copy", {}) /\ phases' = [n \in 1..6 |-> IF n < 4 THEN "skipped" ELSE "pending"]
     ELSE Go("build", Routed) /\ UNCHANGED phases
  /\ UNCHANGED <<request, settings, reviewed, texts, merged, rulings, brief, graph, cache,
                 turns, history>>

\* The request is the specification of a micro run.
Copy ==
  /\ session.at = "copy"
  /\ merged' = [texts |-> <<>>, concerns |-> {}, whole |-> TRUE]
  /\ Go("decompose", {})
  /\ UNCHANGED <<request, settings, phases, reviewed, texts, rulings, brief, graph, cache,
                 turns, history>>

-----------------------------------------------------------------------------
(* Phases 1 to 3 *)

\* A specialist writes its first deliverable, or failed twice; its review starts then.
Draft(s) ==
  /\ session.at = "build" /\ s \in session.todo
  /\ \E d \in Drafts \cup {Missing} : texts' = [texts EXCEPT ![s] = d]
  /\ Go("build", session.todo \ {s})
  /\ UNCHANGED <<request, settings, phases, reviewed, merged, rulings, brief, graph, cache, turns,
                 history>>

InReview == Routed \ (session.todo \cup reviewed)

\* It writes a revised deliverable at the end of a round.
Revised(s) ==
  /\ session.at = "build" /\ s \in InReview /\ texts[s] # Missing
  /\ \E d \in Drafts : texts' = [texts EXCEPT ![s] = d]
  /\ UNCHANGED <<request, settings, phases, reviewed, merged, rulings, brief, graph, cache,
                 session, turns, history>>

\* Its rounds end, and its entry in run.json says so; what a reviewer still stands by
\* is carried forward.
ReviewEnds(s) ==
  /\ session.at = "build" /\ s \in InReview
  /\ reviewed' = reviewed \cup {s}
  /\ \E concern \in SUBSET {{s}} :
       /\ raised' = (raised \ {{s}}) \cup concern
       /\ session' = [session EXCEPT !.knows = @ \cup concern]
  /\ UNCHANGED <<request, settings, phases, texts, merged, rulings, brief, graph, cache, turns,
                 forgot, words, disorders>>

\* All first deliverables are there; all reviews are over.
Landed ==
  /\ session.at = "build" /\ session.todo = {} /\ phases[1] # "complete"
  /\ Complete(1)
  /\ UNCHANGED <<request, settings, reviewed, texts, merged, rulings, brief, graph, cache, session,
                 turns, history>>

Built ==
  /\ session.at = "build" /\ session.todo = {} /\ phases[1] = "complete" /\ Routed \subseteq reviewed
  /\ Complete(2) /\ Go("merge", {})
  /\ UNCHANGED <<request, settings, reviewed, texts, merged, rulings, brief, graph, cache, turns,
                 history>>

\* merged-spec.md: the deliverables, read from disk, and some concerns.
Merged(concerns) ==
  [texts |-> [s \in Routed |-> texts[s]], concerns |-> concerns, whole |-> TRUE]

\* The concerns carried over are those the session knows; whether it also finds those
\* that another one wrote into merged-spec.md before it is not said.
MergeSpec ==
  /\ session.at = "merge"
  /\ \E found \in {{}, merged.concerns} :
       LET carried == session.knows \cup found IN
       /\ merged' = Merged(carried)
       /\ disorders' = disorders \cup IF merged.concerns \subseteq carried THEN {} ELSE {"dropped"}
  /\ Go("reconcile", {})
  /\ UNCHANGED <<request, settings, phases, reviewed, texts, rulings, brief, graph, cache, turns,
                 raised, forgot, words>>

\* Who has a deliverable to contradict.
Named  == {s \in Routed : texts[s] # Missing}
OfOne  == {{s} : s \in Specialists}
Promoted(clashes) ==
  /\ rulings' = [concerns |-> clashes, whole |-> TRUE]
  /\ raised' = (raised \cap OfOne) \cup clashes

\* The reconciler finds some that contradict each other, or none; a missing verdict is
\* a contradiction nobody can be asked about.
Reconcile ==
  /\ session.at = "reconcile"
  /\ \/ \E clashes \in SUBSET {{s, t} : s \in Named, t \in Named} :
          /\ clashes \cap OfOne = {}
          /\ Go(IF clashes = {} THEN "show" ELSE "resolve", clashes)
          /\ Promoted({})
     \/ Go("show", {}) /\ Promoted({{}})
  /\ UNCHANGED <<request, settings, phases, reviewed, texts, merged, brief, graph, cache, turns,
                 forgot, words, disorders>>

\* Both are asked: each keeps its file or overwrites it, and they agree, which takes a
\* change, or the contradiction is promoted.
Exchange(clash) ==
  \E changed \in SUBSET clash, new \in [clash -> Drafts], agree \in BOOLEAN :
    /\ agree => changed # {}
    /\ texts' = [s \in DOMAIN texts |-> IF s \in changed THEN new[s] ELSE texts[s]]
    /\ IF agree THEN UNCHANGED <<rulings, raised>>
       ELSE /\ rulings' = [rulings EXCEPT !.concerns = @ \cup {clash}]
            /\ raised' = raised \cup {clash}

ResolveOnly ==                                                  \* mutant
  /\ session.at = "resolve"
  /\ \E clash \in session.todo :
       LET left == session.todo \ {clash} IN
       Exchange(clash) /\ Go(IF left = {} THEN "show" ELSE "resolve", left)
  /\ UNCHANGED <<request, settings, phases, reviewed, merged, brief, graph, cache, turns,
                 forgot, words, disorders>>

\* One after the other, and after the last one the specification is merged again if a
\* file changed.
Resolve ==
  /\ session.at = "resolve"
  /\ \E clash \in session.todo :
       LET left == session.todo \ {clash} IN
       /\ Exchange(clash)
       /\ Go(IF left # {} THEN "resolve"
             ELSE IF \E s \in Routed : texts'[s] # merged.texts[s] THEN "remerge" ELSE "show", left)
  /\ UNCHANGED <<request, settings, phases, reviewed, merged, brief, graph, cache, turns,
                 forgot, words, disorders>>

Remerge ==
  /\ session.at = "remerge"
  /\ merged' = Merged(merged.concerns)
  /\ Go("show", {})
  /\ UNCHANGED <<request, settings, phases, reviewed, texts, rulings, brief, graph, cache, turns,
                 history>>

\* The specification is shown and Phase 4 begins; with a concern that is high-stakes,
\* only after the user was asked, before or after Phase 3 is marked complete.
Show ==
  /\ session.at = "show"
  /\ \/ Complete(3) /\ Go("check", {})
     \/ /\ merged.concerns \cup rulings.concerns # {}
        /\ Complete(3) \/ UNCHANGED phases
        /\ Go("pause", {})
  /\ UNCHANGED <<request, settings, reviewed, texts, merged, rulings, brief, graph, cache, turns,
                 history>>

GoOn ==
  /\ session.at = "pause"
  /\ Complete(3) /\ Go("check", {})
  /\ UNCHANGED <<request, settings, reviewed, texts, merged, rulings, brief, graph, cache, turns,
                 history>>

-----------------------------------------------------------------------------
(* Phase 4 *)

Cached == {c \in cache : c.spec = merged}

\* dag-distill.py check: 0 is a hit, 1 a miss to be compiled, 3 one that is not.
\* Switched off it is a miss, and a module that does not load exits 0.
CheckExit ==
  IF ~settings.loads THEN 0
  ELSE IF ~settings.enabled THEN 1
  ELSE IF Cached # {} THEN 0
  ELSE IF settings.compile THEN 1 ELSE 3

\* The brief on stdout takes the place of the specification.
CheckCache ==
  /\ session.at = "check"
  /\ CASE CheckExit = 0 -> /\ brief' = IF settings.loads THEN (CHOOSE c \in Cached : TRUE).brief
                                       ELSE NoBrief
                           /\ Go("decompose_brief", {})
       [] CheckExit = 1 -> Go("compile", {}) /\ UNCHANGED brief
       [] CheckExit = 3 -> Go("decompose", {}) /\ UNCHANGED brief
  /\ UNCHANGED <<request, settings, phases, reviewed, texts, merged, rulings, graph, cache,
                 turns, history>>

\* The distiller writes brief.md from the specification, and once more on a miss.
Compile ==
  /\ session.at \in {"compile", "revise"}
  /\ brief' = [of |-> merged, passed |-> FALSE]
  /\ session' = [session EXCEPT !.at = "verify"]
  /\ UNCHANGED <<request, settings, phases, reviewed, texts, merged, rulings, graph, cache,
                 turns, history>>

\* Another answers the questions from the brief alone; any miss rejects it, a second
\* one for good.
Verify ==
  /\ session.at = "verify"
  /\ \/ brief' = [brief EXCEPT !.passed = TRUE] /\ Go("store", {})
     \/ /\ session' = [session EXCEPT !.at = IF session.missed = 0 THEN "revise" ELSE "decompose",
                                      !.missed = @ + 1]
        /\ UNCHANGED brief
  /\ UNCHANGED <<request, settings, phases, reviewed, texts, merged, rulings, graph, cache,
                 turns, history>>

\* dag-distill.py store, under the content of merged-spec.md.
Store ==
  /\ session.at = "store"
  /\ cache' = IF settings.loads /\ settings.enabled
              THEN (cache \ Cached) \cup {[spec |-> merged, brief |-> brief]} ELSE cache
  /\ Go("decompose_brief", {})
  /\ UNCHANGED <<request, settings, phases, reviewed, texts, merged, rulings, brief, graph,
                 turns, history>>

\* The task-specialist writes tasks.json, well or not.
Decompose ==
  /\ session.at \in {"decompose", "decompose_brief"}
  /\ \E edges, owns \in BOOLEAN :
       graph' = [of |-> merged, via |-> IF session.at = "decompose" THEN "spec" ELSE "brief",
                 by |-> IF session.at = "decompose" THEN NoBrief ELSE brief,
                 whole |-> TRUE, edges |-> edges, owns |-> owns]
  /\ words' = words \ {"shown"}
  /\ Go("validate", {session.at})
  /\ UNCHANGED <<request, settings, phases, reviewed, texts, merged, rulings, brief, cache,
                 turns, raised, forgot, disorders>>

\* A graph that fails a check goes back; the phase is complete with one that passes.
\* On a resume shared ownership is a warning.
Validate ==
  /\ session.at = "validate"
  /\ \/ /\ graph.edges /\ (graph.owns \/ "resumed" \in words)
        /\ Complete(4) /\ Go("report", {})
     \/ /\ ~(graph.edges /\ graph.owns)
        /\ Go(CHOOSE step \in session.todo : TRUE, {}) /\ UNCHANGED phases
  /\ UNCHANGED <<request, settings, reviewed, texts, merged, rulings, brief, graph, cache,
                 turns, history>>

-----------------------------------------------------------------------------
(* The implementation boundary *)

ReportResumed ==                                                \* mutant
  /\ session.at = "report"
  /\ words' = words \cup {"shown"}
  /\ IF ~request.planOnly \/ "resumed" \in words
     THEN Go("execute", {}) /\ phases' = [phases EXCEPT ![5] = "in_progress"]
     ELSE Go(IF request.unattended THEN "parked" ELSE "ask", {}) /\ UNCHANGED phases
  /\ UNCHANGED <<request, settings, reviewed, texts, merged, rulings, brief, graph, cache, turns,
                 raised, forgot, disorders>>

\* The plan is reported; plan_only decides what follows, unless the plan was asked for
\* by a resume.
Report ==
  /\ session.at = "report"
  /\ words' = words \cup {"shown"}
  /\ IF ~request.planOnly \/ "approved" \in words
     THEN Go("execute", {}) /\ phases' = [phases EXCEPT ![5] = "in_progress"]
     ELSE Go(IF request.unattended THEN "parked" ELSE "ask", {}) /\ UNCHANGED phases
  /\ UNCHANGED <<request, settings, reviewed, texts, merged, rulings, brief, graph, cache, turns,
                 raised, forgot, disorders>>

\* Proceed, not yet, or a complaint about the tasks or about the specification: the
\* task-specialist, or a specialist, changes its file, and the gate is offered again.
\* Whether the specification is merged and decomposed again is not said.
Ask ==
  /\ session.at = "ask"
  /\ \/ /\ words' = words \cup {"proceed"}
        /\ Go("execute", {}) /\ phases' = [phases EXCEPT ![5] = "in_progress"]
        /\ UNCHANGED <<texts, disorders, turns>>
     \/ Go("parked", {}) /\ UNCHANGED <<phases, texts, words, disorders, turns>>
     \/ Go(IF graph.via = "spec" THEN "decompose" ELSE "decompose_brief", {})
        /\ UNCHANGED <<phases, texts, words, disorders, turns>>
     \/ \E s \in Routed : \E d \in Drafts : \E again \in BOOLEAN :
          /\ turns < MaxTurns /\ turns' = turns + 1
          /\ texts' = [texts EXCEPT ![s] = d]
          /\ disorders' = IF again THEN disorders ELSE disorders \cup {"complaint"}
          /\ Go(IF again THEN "merge" ELSE "report", {})
          /\ UNCHANGED <<phases, words>>
  /\ UNCHANGED <<request, settings, reviewed, merged, rulings, brief, graph, cache, raised, forgot>>

-----------------------------------------------------------------------------
(* Phases 5 and 6 *)

\* All passes over the tasks (Execute).
Execute ==
  /\ session.at = "execute"
  /\ Complete(5) /\ Go("integrate", {})
  /\ UNCHANGED <<request, settings, reviewed, texts, merged, rulings, brief, graph, cache, turns,
                 history>>

\* The suite and the acceptance review, which start nothing again.
Integrate ==
  /\ session.at = "integrate"
  /\ Complete(6) /\ Go("end", {})
  /\ UNCHANGED <<request, settings, reviewed, texts, merged, rulings, brief, graph, cache, turns,
                 history>>

-----------------------------------------------------------------------------
(* Death and resume *)

Unreadable == [n \in 1..6 |-> "unreadable"]
Closed(n)  == phases[n] \in {"complete", "skipped"}

\* A session dies, or is cancelled, with all its agents.  A file one of them was writing
\* may be left torn: a deliverable, the specification, the graph, or run.json, which is
\* written all the time.
Die ==
  LET at   == session.at
      gone == (IF at = "copy" THEN {"no_request"} ELSE {})
                \cup (IF at = "resolve" THEN {"overwriting"} ELSE {})
                \cup (IF Closed(4) /\ "shown" \notin words THEN {"unseen"} ELSE {})
                \cup (IF Closed(4) /\ at \notin {"report", "ask", "execute", "integrate"}
                      THEN {"remaking"} ELSE {})
  IN
  /\ at \notin {"dead", "setup", "end"} /\ turns < MaxTurns
  /\ turns' = turns + 1
  /\ session' = At("dead", {})
  /\ \/ /\ disorders' = disorders \cup gone
        /\ UNCHANGED <<phases, reviewed, texts, merged, graph>>
     \/ /\ at = "build" /\ \E s \in Routed \ reviewed : texts' = [texts EXCEPT ![s] = Torn]
        /\ disorders' = disorders \cup gone \cup IF Closed(1) THEN {"revising"} ELSE {}
        /\ UNCHANGED <<phases, reviewed, merged, graph>>
     \/ /\ at = "resolve" /\ \E s \in UNION session.todo : texts' = [texts EXCEPT ![s] = Torn]
        /\ disorders' = disorders \cup gone
        /\ UNCHANGED <<phases, reviewed, merged, graph>>
     \/ /\ at \in {"merge", "remerge"} /\ merged' = NoSpec
        /\ disorders' = disorders \cup gone
        /\ UNCHANGED <<phases, reviewed, texts, graph>>
     \/ /\ at \in {"decompose", "decompose_brief"} /\ graph' = NoGraph
        /\ disorders' = disorders \cup gone
        /\ UNCHANGED <<phases, reviewed, texts, merged>>
     \/ /\ phases' = Unreadable /\ reviewed' = {}
        /\ disorders' = disorders \cup gone \cup {"unreadable"}
                         \cup IF graph.whole /\ "shown" \notin words THEN {"unseen"} ELSE {}
        /\ UNCHANGED <<texts, merged, graph>>
  /\ forgot' = forgot \cup ((session.knows \cup merged.concerns) \ merged'.concerns)
  /\ UNCHANGED <<request, settings, rulings, brief, cache, raised, words>>

\* The first phase that is neither complete nor skipped.
FirstOpen ==
  LET open == {n \in 1..6 : ~Closed(n)}
  IN  CHOOSE n \in open : \A k \in open : n <= k

\* Without a readable run.json it is inferred from the artifacts: one that is torn is of
\* a phase that is not complete, and none of them says that a review is over.
Inferred ==
  LET written == \A s \in Routed : texts[s] \notin {Missing, Torn} IN
  IF graph.whole THEN {5}
  ELSE IF Mode = "micro" \/ (merged.whole /\ rulings.whole) THEN {4}
  ELSE IF merged.whole THEN {3}
  ELSE IF written THEN {2, 3} ELSE {1}

\* run.json as such a resume writes it.
Rewritten(first) ==
  [n \in 1..6 |-> IF n >= first THEN "pending"
                  ELSE IF Mode = "micro" /\ n < 4 THEN "skipped" ELSE "complete"]

\* /dag-resume, on a run that stopped or was parked, re-enters at that phase and does
\* none again that is complete; a specialist whose review is over has nothing to write.
\* tasks.json is validated again, its edges only; asking for the run is asking for its
\* implementation.
Resume ==
  /\ session.at \in {"dead", "parked"}
  /\ \E first \in IF phases = Unreadable THEN Inferred ELSE {FirstOpen} :
       LET fit  == graph.whole /\ graph.edges
           read == IF phases = Unreadable THEN Rewritten(first) ELSE phases
       IN
       /\ session' =
            CASE first = 1 -> At("build", Routed \ reviewed)
              [] first = 2 -> At("build", {})
              [] first = 3 -> At("merge", {})
              [] first = 4 -> At(IF Mode = "micro" THEN "decompose" ELSE "check", {})
              [] first = 5 -> At(IF fit THEN "execute" ELSE "decompose", {})
              [] first = 6 -> At("integrate", {})
       /\ phases' = IF first = 5 /\ fit THEN [read EXCEPT ![5] = "in_progress"] ELSE read
       /\ words' = words \cup {"resumed"} \cup IF first = 5 THEN {"approved"} ELSE {}
  /\ UNCHANGED <<request, settings, reviewed, texts, merged, rulings, brief, graph, cache, turns,
                 raised, forgot, disorders>>

PhasesNext ==
  \/ Setup \/ Copy
  \/ \E s \in Specialists : Draft(s) \/ Revised(s) \/ ReviewEnds(s)
  \/ Landed \/ Built
  \/ MergeSpec \/ Reconcile \/ Resolve \/ Remerge \/ Show \/ GoOn
  \/ CheckCache \/ Compile \/ Verify \/ Store \/ Decompose \/ Validate
  \/ Report \/ Ask \/ Execute \/ Integrate
  \/ Die \/ Resume

PhasesSpec == PhasesInit /\ [][PhasesNext]_phasesVars

-----------------------------------------------------------------------------
Implementing == phases[5] \in {"in_progress", "complete"}
Undisturbed(kinds) == disorders \cap kinds = {}

\* What is implemented is what was decided, over any deaths and resumes: tasks.json is
\* whole and can be executed, and was made from merged-spec.md as it stands, itself or
\* a brief of just that text that passed its gate; merged-spec.md is made of the last
\* deliverables, all whole; and what a reviewer or the reconciler still stood by is in
\* it or in reconcile.md ("never silently drop it", phase-2.md).  Each part is not so
\* after what it names: a complaint about the specification that stops at one
\* deliverable, or a death while it is followed up (phases 3 and 4 stay complete); a
\* death before a micro run has copied its request; one while a deliverable is
\* overwritten in Phase 3 or, with Phase 1 complete, revised; a run.json that a death
\* left unreadable, when what was over is inferred; a merge by another session that
\* does not find the concerns in the merged-spec.md it writes over.  Concerns that a
\* death left on no disk are in forgot.
PlanOfNow ==
  Implementing =>
    /\ graph.whole /\ graph.edges /\ (graph.owns \/ "resumed" \in words)
    /\ Undisturbed({"complaint", "remaking", "unreadable"}) =>
         graph.of = merged /\ \A s \in DOMAIN merged.texts : merged.texts[s] = texts[s]
    /\ Undisturbed({"no_request"}) => graph.of.whole /\ DOMAIN graph.of.texts = Routed
    /\ Undisturbed({"overwriting", "revising"}) =>
         \A s \in DOMAIN graph.of.texts : graph.of.texts[s] # Torn
    /\ graph.via = "brief" /\ settings.loads => graph.by.passed /\ graph.by.of = graph.of
    /\ Undisturbed({"dropped", "unreadable"}) =>
         raised \subseteq graph.of.concerns \cup rulings.concerns \cup forgot

\* "Start no work until they confirm" (phase-4.md): a plan-only run is implemented only
\* after the user said so or asked for the run again with its plan ready, and, unless
\* the session died with that plan unreported, after the user was shown it.
PlanOnlyWaits ==
  request.planOnly /\ Implementing =>
    /\ words \cap {"proceed", "approved"} # {}
    /\ "shown" \in words \/ "unseen" \in disorders
=============================================================================
