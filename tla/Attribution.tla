----------------------------- MODULE Attribution -----------------------------
(***************************************************************************)
(* What the meter promises about attribution, with no queue, no clock and  *)
(* no process: a node that was offered (its marked Agent call reached the  *)
(* hooks) is given to at most one agent, of the same session, and a node   *)
(* once given is never revised.  Which agent gets which node is left open: *)
(* the concrete Correlator only guesses that from order.                   *)
(***************************************************************************)
CONSTANTS Spawns, SessionOf, Marked, NoNode

VARIABLES
  offered,   \* the marked spawns whose call has been made
  claimed    \* the node recorded for the agent of each spawn

Init ==
  /\ offered = {}
  /\ claimed = [s \in Spawns |-> NoNode]

Offer(s) ==
  /\ s \in Marked \ offered
  /\ offered' = offered \cup {s}
  /\ UNCHANGED claimed

Attribute(s, t) ==
  /\ claimed[s] = NoNode
  /\ t \in offered
  /\ SessionOf[t] = SessionOf[s]
  /\ \A r \in Spawns : claimed[r] # t
  /\ claimed' = [claimed EXCEPT ![s] = t]
  /\ UNCHANGED offered

Next == \E s \in Spawns : Offer(s) \/ \E t \in Spawns : Attribute(s, t)

Spec == Init /\ [][Next]_<<offered, claimed>>
=============================================================================
