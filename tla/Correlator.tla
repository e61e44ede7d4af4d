------------------------------ MODULE Correlator ------------------------------
(***************************************************************************)
(* meter/ledger.py's Correlator and the two hook handlers that use it.     *)
(*                                                                         *)
(* The orchestrator calls the Agent tool; the PreToolUse hook sees the     *)
(* DAG-NODE marker of the prompt (run and node) but not the agent_id; the  *)
(* SubagentStart hook sees the agent_id but not the prompt.  The only link *)
(* between the two is order: a FIFO queue per session, whose entries go    *)
(* stale after a time.                                                     *)
(*                                                                         *)
(* A spawn, the agent it becomes and the node its marker names are one     *)
(* identity here: claimed[s] = s says that the agent of spawn s was given  *)
(* its own node, claimed[s] = t that it was given the node of spawn t.     *)
(*                                                                         *)
(* The environment is hostile: agents may start in another order than      *)
(* their calls were made, a call may be refused after its marker was       *)
(* queued, a hook call may be lost, the daemon may be restarted.  The      *)
(* history variable disturbed tells the sessions in which it was.          *)
(***************************************************************************)
EXTENDS Naturals, Sequences

CONSTANTS
  Spawns,       \* Agent tool calls
  Sessions,     \* Claude Code sessions sharing the daemon
  SessionOf,    \* [Spawns -> Sessions]
  Marked,       \* the spawns whose prompt carries a DAG-NODE marker
  NoNode,       \* the null correlation
  TTL,          \* _PENDING_TTL_SECONDS, in clock ticks
  MaxTime,      \* bound: the clock stops here
  MaxRestarts   \* bound: daemon restarts

ASSUME CorrelatorAssumption ==
  /\ SessionOf \in [Spawns -> Sessions]
  /\ Marked \subseteq Spawns
  /\ NoNode \notin Spawns
  /\ TTL \in Nat /\ MaxTime \in Nat /\ MaxRestarts \in Nat

VARIABLES
  queue,     \* Correlator._queues: per session, the markers not yet claimed
  clock,     \* time.time()
  pc,        \* each spawn: idle, hooked (PreToolUse answered), denied, started
  issued,    \* per session, the spawns in the order their calls were hooked
  claimed,   \* the node recorded for the agent of each spawn
  restarts,  \* daemon restarts so far
  disturbed  \* history: sessions whose calls and starts no longer correspond

vars == <<queue, clock, pc, issued, claimed, restarts, disturbed>>

Marker == [at : Nat, node : Spawns]

-----------------------------------------------------------------------------
(* The operations of the Correlator class, as functions of one queue. *)

\* A marker older than the TTL.
Expired(m, now) == now - m.at > TTL

\* Correlator.push
Push(q, s, now) == Append(q, [at |-> now, node |-> s])

\* The first n entries are exactly the stale head that claim() throws away.
DropsHead(q, now, n) ==
  /\ \A i \in 1..n : Expired(q[i], now)
  /\ n < Len(q) => ~Expired(q[n + 1], now)

TakenLast(q, n) == IF n = Len(q) THEN NoNode ELSE q[Len(q)].node   \* mutant

\* What claim() leaves in the queue, and what it returns, once n are dropped.
Rest(q, n)  == SubSeq(q, n + 2, Len(q))
Taken(q, n) == IF n = Len(q) THEN NoNode ELSE q[n + 1].node

-----------------------------------------------------------------------------
Init ==
  /\ queue = [c \in Sessions |-> <<>>]
  /\ clock = 0
  /\ pc = [s \in Spawns |-> "idle"]
  /\ issued = [c \in Sessions |-> <<>>]
  /\ claimed = [s \in Spawns |-> NoNode]
  /\ restarts = 0
  /\ disturbed = {}

\* What one spawn's call or start does to the order of its session, when bad.
Disturb(s, bad) == disturbed' = IF bad THEN disturbed \cup {SessionOf[s]} ELSE disturbed

\* The Agent call is made; its PreToolUse hook reaches handle_tool_pre_agent,
\* which queues the marker under the lock, when the prompt has one.
PreAgent(s) ==
  LET c == SessionOf[s] IN
  /\ pc[s] = "idle"
  /\ pc' = [pc EXCEPT ![s] = "hooked"]
  /\ issued' = [issued EXCEPT ![c] = Append(@, s)]
  /\ queue' = IF s \in Marked THEN [queue EXCEPT ![c] = Push(@, s, clock)] ELSE queue
  /\ UNCHANGED <<clock, claimed, restarts, disturbed>>

\* The same call, its hook lost: HTTP hooks fail open and the spawn proceeds.
PreAgentLost(s) ==
  /\ pc[s] = "idle"
  /\ pc' = [pc EXCEPT ![s] = "hooked"]
  /\ issued' = [issued EXCEPT ![SessionOf[s]] = Append(@, s)]
  /\ Disturb(s, s \in Marked)
  /\ UNCHANGED <<queue, clock, claimed, restarts>>

\* The call is refused with its marker queued, by the user or by another hook: this
\* one never denies a spawn.  The marker stays.
Deny(s) ==
  /\ pc[s] = "hooked"
  /\ pc' = [pc EXCEPT ![s] = "denied"]
  /\ Disturb(s, s \in Marked)
  /\ UNCHANGED <<queue, clock, issued, claimed, restarts>>

\* A marked call of the session is waiting whose agent was due before that of s.
OutOfTurn(s) ==
  LET h == issued[SessionOf[s]] IN
  \E i, j \in 1..Len(h) :
    /\ h[j] = s /\ h[i] # s
    /\ h[i] \in Marked /\ pc[h[i]] = "hooked"
    /\ s \in Marked => i < j

\* Its own marker is queued and past the time to live.
TooLate(s) ==
  LET q == queue[SessionOf[s]] IN
  \E i \in 1..Len(q) : q[i].node = s /\ Expired(q[i], clock)

StartForgets(s) ==                                            \* mutant
  LET c == SessionOf[s] IN
  \E n \in 0..Len(queue[c]) :
    /\ pc[s] = "hooked"
    /\ DropsHead(queue[c], clock, n)
    /\ queue' = [queue EXCEPT ![c] = Rest(@, n)]
    /\ claimed' = [r \in Spawns |->
         IF r = s THEN Taken(queue[c], n)
         ELSE IF n = Len(queue[c]) /\ SessionOf[r] = c THEN NoNode ELSE claimed[r]]
    /\ pc' = [pc EXCEPT ![s] = "started"]
    /\ Disturb(s, OutOfTurn(s) \/ TooLate(s))
    /\ UNCHANGED <<clock, issued, restarts>>

\* handle_subagent_start: claim under the lock, then the ledger row.
SubagentStart(s) ==
  LET c == SessionOf[s] IN
  \E n \in 0..Len(queue[c]) :
    /\ pc[s] = "hooked"
    /\ DropsHead(queue[c], clock, n)
    /\ queue' = [queue EXCEPT ![c] = Rest(@, n)]
    /\ claimed' = [claimed EXCEPT ![s] = Taken(queue[c], n)]
    /\ pc' = [pc EXCEPT ![s] = "started"]
    /\ Disturb(s, OutOfTurn(s) \/ TooLate(s))
    /\ UNCHANGED <<clock, issued, restarts>>

\* The SubagentStart call is lost, or carries no agent_id: nothing is claimed.
SubagentStartLost(s) ==
  /\ pc[s] = "hooked"
  /\ pc' = [pc EXCEPT ![s] = "started"]
  /\ Disturb(s, s \in Marked)
  /\ UNCHANGED <<queue, clock, issued, claimed, restarts>>

\* The daemon goes and a new one boots: the queues were process memory.
Restart ==
  /\ restarts < MaxRestarts
  /\ restarts' = restarts + 1
  /\ queue' = [c \in Sessions |-> <<>>]
  /\ disturbed' = disturbed \cup {SessionOf[s] : s \in {t \in Marked : pc[t] = "hooked"}}
  /\ UNCHANGED <<clock, pc, issued, claimed>>

Tick ==
  /\ clock < MaxTime
  /\ clock' = clock + 1
  /\ UNCHANGED <<queue, pc, issued, claimed, restarts, disturbed>>

Next ==
  \/ \E s \in Spawns : \/ PreAgent(s) \/ PreAgentLost(s) \/ Deny(s)
                       \/ SubagentStart(s) \/ SubagentStartLost(s)
  \/ Restart
  \/ Tick

Spec == Init /\ [][Next]_vars

-----------------------------------------------------------------------------
TypeOK ==
  /\ queue \in [Sessions -> Seq(Marker)]
  /\ clock \in Nat
  /\ pc \in [Spawns -> {"idle", "hooked", "denied", "started"}]
  /\ issued \in [Sessions -> Seq(Spawns)]
  /\ claimed \in [Spawns -> Spawns \cup {NoNode}]
  /\ restarts \in Nat
  /\ disturbed \subseteq Sessions

\* No marker is spent twice: two agents never share one spawn's node, whatever
\* is reordered, denied, lost or restarted (Correlator.push / claim).
ClaimOnce ==
  \A s, t \in Spawns : claimed[s] # NoNode /\ claimed[s] = claimed[t] => s = t

\* A correlation is never made up: the node comes from a marked call of the
\* same session whose hook ran, and it is spent (no longer queued anywhere).
NoInvention ==
  \A s \in Spawns : claimed[s] # NoNode =>
    /\ claimed[s] \in Marked
    /\ SessionOf[claimed[s]] = SessionOf[s]
    /\ pc[claimed[s]] # "idle"
    /\ \A c \in Sessions : \A i \in 1..Len(queue[c]) : queue[c][i].node # claimed[s]

\* The queue implements the promise of Attribution: every step of handlers,
\* environment and clock offers a node, attributes an offered and unspent one
\* to an agent that had none, or changes neither.
Promise == INSTANCE Attribution WITH offered <- {s \in Marked : pc[s] # "idle"}
Attributes == Promise!Spec

\* Within a session the heuristic is exact until the first disturbance of that
\* session (a marker lost, denied or stale, an agent out of turn, a restart
\* with a call under way), whatever happens in the sessions that share the
\* daemon: a marked agent gets its own node, an unmarked one none.
Exact ==
  \A s \in Spawns : pc[s] = "started" /\ SessionOf[s] \notin disturbed =>
    claimed[s] = IF s \in Marked THEN s ELSE NoNode
=============================================================================
