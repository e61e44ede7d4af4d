-------------------------------- MODULE Gates --------------------------------
(***************************************************************************)
(* The PreToolUse hooks that may deny a subagent's tool call: the dossier  *)
(* gate on searches, the throttle on whole-file writes, and the governor,  *)
(* which counts every call (meter/router.py, meter/throttle.py).           *)
(*                                                                         *)
(* One message of an agent may hold several tool calls; each call asks its *)
(* own gate and the governor, each on a thread of the daemon, and every    *)
(* store operation is atomic but nothing longer is.  A call runs unless a  *)
(* hook answered in time that it may not; a thread whose client gave up    *)
(* goes on, and so does one after an error it swallows.                    *)
(***************************************************************************)
EXTENDS Naturals, FiniteSets

CONSTANTS
  Agents,
  Slots,          \* places for calls of one agent whose hooks are at work
  Paths,          \* existing, tracked files that are not generated
  MaxDenials,     \* meter.modules.dossier.max_denials
  MaxPathDenials, \* meter.modules.throttle.max_denials_per_path
  Predictions,    \* what predict_call_budget may return from call to call, whole numbers here
  Multiplier,     \* meter.modules.governor.runaway_multiplier
  MaxCalls,       \* bound: calls of one agent
  MaxDeliveries,  \* bound: SubagentStart of one agent
  MaxLosses       \* bound: hooks that fail or are given up, marks that fail

ASSUME GatesAssumption ==
  /\ IsFiniteSet(Slots) /\ Slots # {}
  /\ {MaxDenials, MaxPathDenials, Multiplier, MaxCalls, MaxDeliveries, MaxLosses} \subseteq Nat
  /\ Predictions \subseteq Nat
  /\ Paths \cap {"none", "search", "readpack", "other"} = {}

VARIABLES
  pack,        \* table dossier_state: [there, read, denials] of each agent
  pathDenials, \* table throttle_denials
  count,       \* table tool_call_counts
  warned,      \* its column of that name
  call,        \* per agent and slot, the call in flight
  \* history
  issued,      \* calls of each agent
  unseen,      \* calls that ran without a ruling of the governor
  ran,         \* calls that ran
  warnings,    \* warnings delivered
  unmarked,    \* warnings whose mark_call_warned failed
  losses,      \* failures and timeouts so far
  deliveries,  \* packs delivered to each agent
  everRead,    \* whether an agent ever read its pack
  parallel     \* agents that had hooks of two calls at work

tables  == <<pack, pathDenials, count, warned>>
history == <<issued, unseen, ran, warnings, unmarked, losses, deliveries, everRead, parallel>>
vars    == <<tables, call, history>>

\* A call is a search, a read of the pack, another call, or a whole-file write,
\* which is named by its path.
Kinds  == {"search", "readpack", "other"} \cup Paths
NoCall == [kind |-> "none"]
Hooks  == {"gate", "gov"}

InFlight(a) == {i \in Slots : call[a][i] # NoCall}

\* The hooks of a call that are still to rule.
Working(c) == (IF c.gate \in {"allow", "deny"} THEN {} ELSE {"gate"})
                \cup (IF c.gov \in {"allow", "deny"} THEN {} ELSE {"gov"})

Init ==
  /\ pack = [a \in Agents |-> [there |-> FALSE, read |-> FALSE, denials |-> 0]]
  /\ pathDenials = [a \in Agents |-> [p \in Paths |-> 0]]
  /\ count = [a \in Agents |-> 0]
  /\ warned = [a \in Agents |-> FALSE]
  /\ call = [a \in Agents |-> [i \in Slots |-> NoCall]]
  /\ issued = [a \in Agents |-> 0]
  /\ unseen = [a \in Agents |-> 0]
  /\ ran = [a \in Agents |-> 0]
  /\ warnings = [a \in Agents |-> 0]
  /\ unmarked = [a \in Agents |-> 0]
  /\ losses = 0
  /\ deliveries = [a \in Agents |-> 0]
  /\ everRead = [a \in Agents |-> FALSE]
  /\ parallel = {}

\* The call with its next gate or governor state.
ToGate(a, i, g) == call' = [call EXCEPT ![a][i].gate = g]
ToGov(a, i, g)  == call' = [call EXCEPT ![a][i].gov = g]

-----------------------------------------------------------------------------
(* handle_subagent_start *)

DeliverAnew(a) ==                                               \* mutant
  /\ deliveries[a] < MaxDeliveries
  /\ \A i \in InFlight(a) : call[a][i].over
  /\ deliveries' = [deliveries EXCEPT ![a] = @ + 1]
  /\ pack' = [pack EXCEPT ![a] = [there |-> TRUE, read |-> FALSE, denials |-> 0]]
  /\ UNCHANGED <<pathDenials, count, warned, call, issued, unseen, ran, warnings, unmarked, losses, everRead, parallel>>

\* set_dossier_state: a second start of the same agent points it to its new pack
\* and keeps what it has read and how often it was denied.
Deliver(a) ==
  /\ deliveries[a] < MaxDeliveries
  /\ \A i \in InFlight(a) : call[a][i].over
  /\ deliveries' = [deliveries EXCEPT ![a] = @ + 1]
  /\ pack' = [pack EXCEPT ![a].there = TRUE]
  /\ UNCHANGED <<pathDenials, count, warned, call, issued, unseen, ran, warnings, unmarked, losses, everRead, parallel>>

\* The agent makes a call; its two hooks are sent.
Issue(a, i, k) ==
  /\ issued[a] < MaxCalls
  /\ call[a][i] = NoCall
  /\ parallel' = IF InFlight(a) = {} THEN parallel ELSE parallel \cup {a}
  /\ issued' = [issued EXCEPT ![a] = @ + 1]
  /\ call' = [call EXCEPT ![a][i] =
       [kind |-> k, gov |-> "asked", afterRead |-> everRead[a], lost |-> {}, over |-> FALSE,
        gate |-> IF k = "other" THEN "allow" ELSE "asked"]]
  /\ UNCHANGED <<tables, unseen, ran, warnings, unmarked, losses, deliveries, everRead>>

(* handle_tool_pre_dossier *)

MustReadLate(a) ==                                              \* mutant
  pack[a].there /\ ~pack[a].read /\ pack[a].denials <= MaxDenials

\* get_dossier_state
MustRead(a) == pack[a].there /\ ~pack[a].read /\ pack[a].denials < MaxDenials

\* A search looks at the state of its agent's pack ...
LookPack(a, i) ==
  /\ call[a][i] # NoCall /\ call[a][i].kind = "search" /\ call[a][i].gate = "asked"
  /\ ToGate(a, i, IF MustRead(a) THEN "denying" ELSE "allow")
  /\ UNCHANGED <<tables, history>>

\* ... and increment_dossier_denial goes with the denial.
DenySearch(a, i) ==
  /\ call[a][i] # NoCall /\ call[a][i].kind = "search" /\ call[a][i].gate = "denying"
  /\ ToGate(a, i, "deny")
  /\ pack' = [pack EXCEPT ![a].denials = @ + 1]
  /\ UNCHANGED <<pathDenials, count, warned, history>>

\* A Read of the pack itself: mark_dossier_read.
ReadPack(a, i) ==
  /\ call[a][i] # NoCall /\ call[a][i].kind = "readpack" /\ call[a][i].gate = "asked"
  /\ ToGate(a, i, "allow")
  /\ pack' = [pack EXCEPT ![a].read = @ \/ pack[a].there]
  /\ everRead' = [everRead EXCEPT ![a] = @ \/ pack[a].there]
  /\ UNCHANGED <<pathDenials, count, warned, issued, unseen, ran, warnings, unmarked, losses, deliveries, parallel>>

(* handle_tool_pre_throttle, throttle.decide_write *)

Writes(a, i, p) == call[a][i] # NoCall /\ call[a][i].kind = p

\* get_throttle_denials, then how much of the file would change: a small change
\* is about to be denied, a large one is let through.
LookPath(a, i, p) ==
  /\ Writes(a, i, p) /\ call[a][i].gate = "asked"
  /\ \/ pathDenials[a][p] < MaxPathDenials /\ ToGate(a, i, "denying")
     \/ ToGate(a, i, "allow")
  /\ UNCHANGED <<tables, history>>

\* increment_throttle_denial
DenyWrite(a, i, p) ==
  /\ Writes(a, i, p) /\ call[a][i].gate = "denying"
  /\ ToGate(a, i, "deny")
  /\ pathDenials' = [pathDenials EXCEPT ![a][p] = @ + 1]
  /\ UNCHANGED <<pack, count, warned, history>>

(* handle_tool_pre_governor *)

Counted0(a) == count[a]                                         \* mutant

\* increment_tool_call_count returns the count after its own increment.
Counted(a) == count[a] + 1

\* 3x (runaway_multiplier) the prediction p denies, 2x may warn.
Ruling(n, p) ==
  CASE p = 0                             -> "allow"
    [] p > 0 /\ n >= Multiplier * p      -> "deny"
    [] p > 0 /\ n < Multiplier * p       -> IF n >= 2 * p THEN "warnable" ELSE "allow"

GovCount(a, i) ==
  /\ call[a][i] # NoCall /\ call[a][i].gov = "asked"
  /\ count' = [count EXCEPT ![a] = @ + 1]
  /\ \E p \in Predictions : ToGov(a, i, Ruling(Counted(a), p))
  /\ UNCHANGED <<pack, pathDenials, warned, history>>

Lose == losses < MaxLosses /\ losses' = losses + 1

\* was_call_warned, which counts as warned when it fails ...
GovLook(a, i) ==
  /\ call[a][i] # NoCall /\ call[a][i].gov = "warnable"
  /\ \/ ~warned[a] /\ ToGov(a, i, "warning")
     \/ ToGov(a, i, "allow")
  /\ UNCHANGED <<tables, history>>

\* A warning reaches the agent unless its hook was given up.
Warned(a, i) ==
  warnings' = [warnings EXCEPT ![a] = IF "gov" \in call[a][i].lost THEN @ ELSE @ + 1]

GovWarnUnmarked(a, i) ==                                        \* mutant
  /\ call[a][i] # NoCall /\ call[a][i].gov = "warning"
  /\ ToGov(a, i, "allow")
  /\ Warned(a, i)
  /\ UNCHANGED <<tables, issued, unseen, ran, unmarked, losses, deliveries, everRead, parallel>>

\* ... and mark_call_warned goes with the warning, which is given also when the
\* mark fails.
GovWarn(a, i) ==
  /\ call[a][i] # NoCall /\ call[a][i].gov = "warning"
  /\ \/ warned' = [warned EXCEPT ![a] = TRUE] /\ UNCHANGED <<unmarked, losses>>
     \/ unmarked' = [unmarked EXCEPT ![a] = @ + 1] /\ Lose /\ UNCHANGED warned
  /\ ToGov(a, i, "allow")
  /\ Warned(a, i)
  /\ UNCHANGED <<pack, pathDenials, count, issued, unseen, ran, deliveries, everRead, parallel>>

(* Errors of the hooks, and Claude Code *)

NoGate(c) == [c EXCEPT !.gate = "allow", !.lost = @ \cup {"gate"}]
NoGov(c)  == [c EXCEPT !.gov = "allow", !.lost = @ \cup {"gov"}]

\* An exception on the way to a ruling, the increment of a denial included, is
\* no objection.
FailGate(a, i) ==
  /\ call[a][i] # NoCall /\ call[a][i].gate \in {"asked", "denying"}
  /\ call' = [call EXCEPT ![a][i] = NoGate(call[a][i])]
  /\ Lose
  /\ UNCHANGED <<tables, issued, unseen, ran, warnings, unmarked, deliveries,
                 everRead, parallel>>

\* Neither is a governor without a row for the agent, or one that fails: also
\* after it has counted the call, when the prediction cannot be read.
FailGov(a, i) ==
  /\ call[a][i] # NoCall /\ call[a][i].gov = "asked"
  /\ call' = [call EXCEPT ![a][i] = NoGov(call[a][i])]
  /\ \/ UNCHANGED count
     \/ count' = [count EXCEPT ![a] = @ + 1]
  /\ Lose
  /\ UNCHANGED <<pack, pathDenials, warned, issued, unseen, ran, warnings, unmarked, deliveries,
                 everRead, parallel>>

\* The client waits for a hook no longer; the daemon's thread goes on.
TimeOut(a, i, h) ==
  /\ call[a][i] # NoCall /\ ~call[a][i].over
  /\ h \in Working(call[a][i]) \ call[a][i].lost
  /\ call' = [call EXCEPT ![a][i].lost = @ \cup {h}]
  /\ Lose
  /\ UNCHANGED <<tables, issued, unseen, ran, warnings, unmarked, deliveries,
                 everRead, parallel>>

\* Nothing denied the call in time.
Passes(c) == /\ c.gate = "deny" => "gate" \in c.lost
             /\ c.gov = "deny" => "gov" \in c.lost

\* Both hooks are in or given up: the call runs, or is answered with the denial.
\* Its place is free when no thread works for it any more.
Answer(a, i) ==
  /\ call[a][i] # NoCall /\ ~call[a][i].over
  /\ Working(call[a][i]) \subseteq call[a][i].lost
  /\ ran' = [ran EXCEPT ![a] = IF Passes(call[a][i]) THEN @ + 1 ELSE @]
  /\ unseen' = [unseen EXCEPT ![a] =
       IF Passes(call[a][i]) /\ "gov" \in call[a][i].lost THEN @ + 1 ELSE @]
  /\ call' = IF Working(call[a][i]) = {} THEN [call EXCEPT ![a][i] = NoCall]
                                         ELSE [call EXCEPT ![a][i].over = TRUE]
  /\ UNCHANGED <<tables, issued, warnings, unmarked, losses, deliveries, everRead, parallel>>

\* The last thread of an answered call ends.
Finish(a, i) ==
  /\ call[a][i] # NoCall /\ call[a][i].over /\ Working(call[a][i]) = {}
  /\ call' = [call EXCEPT ![a][i] = NoCall]
  /\ UNCHANGED <<tables, history>>

Gate(a, i) ==
  \/ LookPack(a, i) \/ DenySearch(a, i) \/ ReadPack(a, i)
  \/ \E p \in Paths : LookPath(a, i, p) \/ DenyWrite(a, i, p)
Governor(a, i) == GovCount(a, i) \/ GovLook(a, i) \/ GovWarn(a, i)

Next ==
  \E a \in Agents :
    \/ Deliver(a)
    \/ \E i \in Slots : \/ \E k \in Kinds : Issue(a, i, k)
                        \/ Gate(a, i) \/ Governor(a, i)
                        \/ FailGate(a, i) \/ FailGov(a, i)
                        \/ \E h \in Hooks : TimeOut(a, i, h)
                        \/ Answer(a, i) \/ Finish(a, i)

Spec == Init /\ [][Next]_vars

-----------------------------------------------------------------------------
CallType ==
  [kind : Kinds, afterRead : BOOLEAN, lost : SUBSET Hooks, over : BOOLEAN,
   gate : {"asked", "denying", "allow", "deny"},
   gov : {"asked", "warnable", "warning", "allow", "deny"}]

TypeOK ==
  /\ pack \in [Agents -> [there : BOOLEAN, read : BOOLEAN, denials : Nat]]
  /\ pathDenials \in [Agents -> [Paths -> Nat]]
  /\ count \in [Agents -> Nat] /\ warned \in [Agents -> BOOLEAN]
  /\ call \in [Agents -> [Slots -> CallType \cup {NoCall}]]
  /\ issued \in [Agents -> Nat] /\ unseen \in [Agents -> Nat] /\ ran \in [Agents -> Nat]
  /\ warnings \in [Agents -> Nat] /\ unmarked \in [Agents -> Nat]
  /\ deliveries \in [Agents -> Nat] /\ losses \in Nat
  /\ everRead \in [Agents -> BOOLEAN] /\ parallel \subseteq Agents

\* An agent whose calls never overlap, however often it is started and whichever
\* hooks fail or are given up, is denied up to the caps ("regardless of how many
\* requests arrive") and gets the "one warning at 2x prediction" once, and once
\* more for each mark of it that failed.
SerialExact ==
  \A a \in Agents \ parallel :
    /\ pack[a].denials <= MaxDenials
    /\ \A p \in Paths : pathDenials[a][p] <= MaxPathDenials
    /\ warnings[a] <= 1 + unmarked[a]

Denying(a, kind) ==
  {i \in Slots : call[a][i] # NoCall /\ call[a][i].kind = kind /\ call[a][i].gate = "denying"}

\* With hooks of several calls at work both caps can be passed, but by less than
\* the calls at work: denials counted and denials about to be counted never
\* exceed the cap by a full set of slots.
CapsNearlyKept ==
  \A a \in Agents :
    /\ pack[a].denials + Cardinality(Denying(a, "search")) + 1
         <= MaxDenials + Cardinality(Slots)
    /\ \A p \in Paths :
         pathDenials[a][p] + Cardinality(Denying(a, p)) + 1
           <= MaxPathDenials + Cardinality(Slots)

\* "After the dossier is read, allow everything": a search made after the pack
\* was read is never denied for it, though the agent is started again.
ReadOpens ==
  \A a \in Agents : \A i \in Slots :
    call[a][i] # NoCall /\ call[a][i].kind = "search" /\ call[a][i].afterRead
      => call[a][i].gate \in {"asked", "allow"}

\* Runaway containment: of the calls the governor ruled on in time, fewer ran than
\* runaway_multiplier times the highest prediction, however they overlapped and
\* though the prediction is read anew for each of them.
Contained ==
  0 \notin Predictions /\ Multiplier > 0 =>
    \A top \in Predictions : (\A p \in Predictions : p <= top) =>
      \A a \in Agents : ran[a] < unseen[a] + Multiplier * top
=============================================================================
