----------------------------- MODULE Accounting -----------------------------
(***************************************************************************)
(* What the meter promises about accounting, with no thread and no queue:  *)
(* a stop that was accepted is held until it is booked; it is booked once, *)
(* in order, under a total that covers every turn up to it; and it is lost *)
(* only by itself, when its job raises, or with all that is held, when the *)
(* daemon exits.                                                           *)
(***************************************************************************)
EXTENDS Naturals, Sequences

CONSTANT Agents

VARIABLES
  turns,    \* turns each agent has taken
  held,     \* of each agent the turns it was accepted to stop at, not booked yet
  total,    \* the turns counted for it
  booked,   \* the totals booked, a stop each
  lost,     \* stops whose job raised
  exits     \* of the daemon

Init ==
  /\ turns = [a \in Agents |-> 0] /\ total = [a \in Agents |-> 0]
  /\ held = [a \in Agents |-> <<>>] /\ booked = [a \in Agents |-> <<>>]
  /\ lost = 0 /\ exits = 0

\* A turn ends, in a stop that is accepted or not.
Take(a) ==
  /\ turns' = [turns EXCEPT ![a] = @ + 1]
  /\ held' \in {held, [held EXCEPT ![a] = Append(@, turns[a] + 1)]}
  /\ UNCHANGED <<total, booked, lost, exits>>

Count(a) ==
  /\ held[a] # <<>>
  /\ total' = [total EXCEPT ![a] = turns[a]]
  /\ UNCHANGED <<turns, held, booked, lost, exits>>

Book(a) ==
  /\ held[a] # <<>> /\ Head(held[a]) <= total[a]
  /\ held' = [held EXCEPT ![a] = Tail(@)]
  /\ booked' = [booked EXCEPT ![a] = Append(@, total[a])]
  /\ UNCHANGED <<turns, total, lost, exits>>

Lose(a) ==
  /\ held[a] # <<>>
  /\ held' = [held EXCEPT ![a] = Tail(@)]
  /\ lost' = lost + 1
  /\ UNCHANGED <<turns, total, booked, exits>>

Exit ==
  /\ held' = [a \in Agents |-> <<>>]
  /\ exits' = exits + 1
  /\ UNCHANGED <<turns, total, booked, lost>>

Next == Exit \/ \E a \in Agents : Take(a) \/ Count(a) \/ Book(a) \/ Lose(a)

Spec == Init /\ [][Next]_<<turns, held, total, booked, lost, exits>>
=============================================================================
