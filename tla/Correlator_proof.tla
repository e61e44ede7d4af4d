--------------------------- MODULE Correlator_proof ---------------------------
(***************************************************************************)
(* Proofs about Correlator, for any number of spawns and sessions, any TTL *)
(* and any bounds: a marker is spent at most once, a correlation is never  *)
(* invented, and the whole implements Attribution.  Then about Pack, for   *)
(* any agents, nodes, files and budget: what stands in a pack, that it     *)
(* reaches its own agent, and that what is used of it stays counted.       *)
(***************************************************************************)
EXTENDS Correlator, Pack, Folding, SequenceTheorems, TLAPS

\* What a queue may hold: marked calls of its own session whose hook ran.
QueueHome ==
  \A c \in Sessions : \A i \in 1..Len(queue[c]) :
    /\ queue[c][i].node \in Marked
    /\ SessionOf[queue[c][i].node] = c
    /\ pc[queue[c][i].node] # "idle"

\* No call is queued twice.
QueuedOnce ==
  \A c \in Sessions : \A i, j \in 1..Len(queue[c]) :
    queue[c][i].node = queue[c][j].node => i = j

\* Only an agent that started has a node.
NoneBeforeStart == \A s \in Spawns : pc[s] # "started" => claimed[s] = NoNode

\* The inductive invariant.
IInv == TypeOK /\ QueueHome /\ QueuedOnce /\ NoneBeforeStart /\ ClaimOnce /\ NoInvention

-----------------------------------------------------------------------------
\* Queueing one marker: the old entries keep their places, the new one is last.
LEMMA PushFacts ==
  ASSUME NEW q \in Seq(Marker), NEW s \in Spawns, NEW now \in Nat
  PROVE  /\ Push(q, s, now) \in Seq(Marker)
         /\ Len(Push(q, s, now)) = Len(q) + 1
         /\ \A i \in 1..Len(q) : Push(q, s, now)[i] = q[i]
         /\ Push(q, s, now)[Len(q) + 1] = [at |-> now, node |-> s]
<1> [at |-> now, node |-> s] \in Marker
  BY DEF Marker
<1> QED
  BY AppendProperties DEF Push

\* What claim() leaves: the entries after the one it took, in their order.
LEMMA RestFacts ==
  ASSUME NEW q \in Seq(Marker), NEW n \in 0..Len(q)
  PROVE  /\ Rest(q, n) \in Seq(Marker)
         /\ Len(Rest(q, n)) = IF n + 2 <= Len(q) THEN Len(q) - n - 1 ELSE 0
         /\ \A i \in 1..Len(Rest(q, n)) : /\ i + n + 1 \in 1..Len(q)
                                          /\ Rest(q, n)[i] = q[i + n + 1]
<1>1. /\ n + 2 \in Int /\ Len(q) \in Int
      /\ \A i \in (n + 2)..Len(q) : q[i] \in Marker
  OBVIOUS
<1>2. /\ Rest(q, n) \in Seq(Marker)
      /\ Len(Rest(q, n)) = IF n + 2 <= Len(q) THEN Len(q) - (n + 2) + 1 ELSE 0
      /\ \A i \in 1..(Len(q) - (n + 2) + 1) : Rest(q, n)[i] = q[(n + 2) + i - 1]
  BY <1>1, SubSeqProperties DEF Rest
<1> QED
  BY <1>2, SMTT(30)

-----------------------------------------------------------------------------
\* With nothing queued, claimed or started the invariant holds.
LEMMA InitIInv == Init => IInv
<1> SUFFICES ASSUME Init PROVE IInv
  OBVIOUS
<1>1. TypeOK
  BY CorrelatorAssumption DEF Init, TypeOK
<1>2. \A c \in Sessions : Len(queue[c]) = 0
  BY DEF Init
<1>3. QueueHome /\ QueuedOnce
  BY <1>2 DEF QueueHome, QueuedOnce
<1>4. NoneBeforeStart /\ ClaimOnce /\ NoInvention
  BY DEF Init, NoneBeforeStart, ClaimOnce, NoInvention
<1> QED
  BY <1>1, <1>3, <1>4 DEF IInv

\* Pushing keeps the invariant: the pushed call was idle, so it was neither
\* queued nor claimed before.
LEMMA PreAgentIInv ==
  ASSUME IInv, NEW s \in Spawns, PreAgent(s)
  PROVE  IInv'
<1> DEFINE c == SessionOf[s]
<1>1. c \in Sessions /\ pc[s] = "idle" /\ queue[c] \in Seq(Marker) /\ clock \in Nat
  BY CorrelatorAssumption DEF IInv, TypeOK, PreAgent
<1>2. /\ Push(queue[c], s, clock) \in Seq(Marker)
      /\ Len(Push(queue[c], s, clock)) = Len(queue[c]) + 1
      /\ \A i \in 1..Len(queue[c]) : Push(queue[c], s, clock)[i] = queue[c][i]
      /\ Push(queue[c], s, clock)[Len(queue[c]) + 1] = [at |-> clock, node |-> s]
  BY <1>1, PushFacts
<1>3. /\ pc' = [pc EXCEPT ![s] = "hooked"] /\ claimed' = claimed
      /\ clock' = clock /\ restarts' = restarts /\ disturbed' = disturbed
      /\ queue' = IF s \in Marked THEN [queue EXCEPT ![c] = Push(@, s, clock)] ELSE queue
  BY DEF PreAgent
<1>4. TypeOK'
  <2>1. queue' \in [Sessions -> Seq(Marker)]
    BY <1>1, <1>2, <1>3 DEF IInv, TypeOK
  <2>2. issued' \in [Sessions -> Seq(Spawns)]
    <3>1. issued[c] \in Seq(Spawns) /\ Append(issued[c], s) \in Seq(Spawns)
      BY <1>1, AppendProperties DEF IInv, TypeOK
    <3> QED
      BY <3>1 DEF PreAgent, IInv, TypeOK
  <2>3. pc' \in [Spawns -> {"idle", "hooked", "denied", "started"}]
    BY <1>3 DEF IInv, TypeOK
  <2> QED
    BY <1>3, <2>1, <2>2, <2>3 DEF IInv, TypeOK
\* Every entry of a queue after the step is an old one, or the pushed one.
<1>5. ASSUME NEW d \in Sessions, NEW i \in 1..Len(queue'[d])
      PROVE  \/ i \in 1..Len(queue[d]) /\ queue'[d][i] = queue[d][i]
             \/ /\ d = c /\ s \in Marked /\ i = Len(queue[c]) + 1
                /\ queue'[d][i].node = s
  <2>1. CASE s \in Marked /\ d = c
    <3>1. queue'[d] = Push(queue[c], s, clock)
      BY <2>1, <1>3, <1>1 DEF IInv, TypeOK
    <3>2. i \in 1..(Len(queue[c]) + 1) /\ Len(queue[c]) \in Nat
      BY <3>1, <1>1, <1>2, <1>5
    <3> QED
      BY <3>1, <3>2, <2>1, <1>2
  <2>2. CASE ~(s \in Marked /\ d = c)
    <3>1. queue'[d] = queue[d]
      BY <2>2, <1>3, <1>1 DEF IInv, TypeOK
    <3> QED
      BY <3>1, <1>5
  <2> QED
    BY <2>1, <2>2
<1>6. \A t \in Spawns : pc'[t] = IF t = s THEN "hooked" ELSE pc[t]
  BY <1>3 DEF IInv, TypeOK
<1>7. QueueHome'
  <2> SUFFICES ASSUME NEW d \in Sessions, NEW i \in 1..Len(queue'[d])
               PROVE  /\ queue'[d][i].node \in Marked
                      /\ SessionOf[queue'[d][i].node] = d
                      /\ pc'[queue'[d][i].node] # "idle"
    BY DEF QueueHome
  <2> QED
    BY <1>5, <1>6, CorrelatorAssumption DEF IInv, QueueHome
<1>8. QueuedOnce'
  <2> SUFFICES ASSUME NEW d \in Sessions, NEW i \in 1..Len(queue'[d]),
                      NEW j \in 1..Len(queue'[d]),
                      queue'[d][i].node = queue'[d][j].node
               PROVE  i = j
    BY DEF QueuedOnce
  <2>1. \A k \in 1..Len(queue[d]) : queue[d][k].node # s
    BY <1>1 DEF IInv, QueueHome
  <2> QED
    BY <1>5, <2>1 DEF IInv, QueuedOnce
<1>9. NoneBeforeStart' /\ ClaimOnce'
  BY <1>1, <1>3, <1>6 DEF IInv, NoneBeforeStart, ClaimOnce
<1>10. NoInvention'
  <2> SUFFICES ASSUME NEW t \in Spawns, claimed[t] # NoNode
               PROVE  /\ claimed[t] \in Marked
                      /\ SessionOf[claimed[t]] = SessionOf[t]
                      /\ pc'[claimed[t]] # "idle"
                      /\ \A d \in Sessions : \A i \in 1..Len(queue'[d]) :
                           queue'[d][i].node # claimed[t]
    BY <1>3 DEF NoInvention
  <2>1. /\ claimed[t] \in Marked /\ SessionOf[claimed[t]] = SessionOf[t]
        /\ pc[claimed[t]] # "idle" /\ claimed[t] # s
        /\ \A d \in Sessions : \A i \in 1..Len(queue[d]) : queue[d][i].node # claimed[t]
    BY <1>1 DEF IInv, NoInvention
  <2> QED
    BY <2>1, <1>5, <1>6, CorrelatorAssumption
<1> QED
  BY <1>4, <1>7, <1>8, <1>9, <1>10 DEF IInv

\* Claiming keeps the invariant: the node taken was queued, so nobody holds it,
\* and what is left of the queue is a part of the old one that no longer holds it.
LEMMA ClaimIInv ==
  ASSUME IInv, NEW s \in Spawns, SubagentStart(s)
  PROVE  IInv'
<1> DEFINE c == SessionOf[s]
<1>1. PICK n \in 0..Len(queue[c]) :
        /\ pc[s] = "hooked"
        /\ queue' = [queue EXCEPT ![c] = Rest(@, n)]
        /\ claimed' = [claimed EXCEPT ![s] = Taken(queue[c], n)]
        /\ pc' = [pc EXCEPT ![s] = "started"]
        /\ Disturb(s, OutOfTurn(s) \/ TooLate(s))
        /\ UNCHANGED <<clock, issued, restarts>>
  BY DEF SubagentStart
<1>2. c \in Sessions /\ queue[c] \in Seq(Marker) /\ Len(queue[c]) \in Nat
  BY CorrelatorAssumption DEF IInv, TypeOK
<1>3. /\ Rest(queue[c], n) \in Seq(Marker)
      /\ \A i \in 1..Len(Rest(queue[c], n)) :
           i + n + 1 \in 1..Len(queue[c]) /\ Rest(queue[c], n)[i] = queue[c][i + n + 1]
  BY <1>2, RestFacts
<1> DEFINE t == Taken(queue[c], n)
<1>4. \/ t = NoNode
      \/ n + 1 \in 1..Len(queue[c]) /\ t = queue[c][n + 1].node /\ t \in Spawns
  <2>1. CASE n = Len(queue[c])
    BY <2>1 DEF Taken
  <2>2. CASE n # Len(queue[c])
    <3>1. n + 1 \in 1..Len(queue[c])
      BY <2>2, <1>2
    <3>2. queue[c][n + 1] \in Marker
      BY <3>1, <1>2
    <3> QED
      BY <2>2, <3>1, <3>2 DEF Taken, Marker
  <2> QED
    BY <2>1, <2>2
<1>5. TypeOK'
  <2>1. queue' \in [Sessions -> Seq(Marker)]
    BY <1>1, <1>2, <1>3 DEF IInv, TypeOK
  <2>2. claimed' \in [Spawns -> Spawns \cup {NoNode}]
    BY <1>1, <1>4 DEF IInv, TypeOK
  <2>3. pc' \in [Spawns -> {"idle", "hooked", "denied", "started"}]
    BY <1>1 DEF IInv, TypeOK
  <2>4. disturbed' \subseteq Sessions
    BY <1>1, <1>2 DEF Disturb, IInv, TypeOK
  <2> QED
    BY <1>1, <2>1, <2>2, <2>3, <2>4 DEF IInv, TypeOK
\* Every entry left was queued before, behind the one taken in queue c.
<1>6. ASSUME NEW d \in Sessions, NEW i \in 1..Len(queue'[d])
      PROVE  \/ d # c /\ queue'[d] = queue[d]
             \/ /\ d = c /\ i \in Nat /\ i >= 1 /\ i + n + 1 \in 1..Len(queue[d])
                /\ queue'[d][i] = queue[d][i + n + 1]
  <2>1. CASE d = c
    <3>1. queue'[d] = Rest(queue[c], n) /\ Len(queue'[d]) \in Nat
      BY <2>1, <1>1, <1>2, <1>3 DEF IInv, TypeOK
    <3> QED
      BY <2>1, <3>1, <1>3, <1>6
  <2>2. CASE d # c
    BY <2>2, <1>1, <1>2 DEF IInv, TypeOK
  <2> QED
    BY <2>1, <2>2
<1>7. ASSUME NEW d \in Sessions, NEW i \in 1..Len(queue'[d])
      PROVE  \E k \in 1..Len(queue[d]) : queue'[d][i] = queue[d][k]
  BY <1>6
<1>8. \A r \in Spawns : /\ pc'[r] = IF r = s THEN "started" ELSE pc[r]
                        /\ claimed'[r] = IF r = s THEN t ELSE claimed[r]
  BY <1>1 DEF IInv, TypeOK
<1>9. t # NoNode => /\ t \in Marked /\ SessionOf[t] = c /\ pc[t] # "idle"
                    /\ \A r \in Spawns : claimed[r] # t
                    /\ \A d \in Sessions : \A i \in 1..Len(queue'[d]) : queue'[d][i].node # t
  <2> SUFFICES ASSUME t # NoNode
               PROVE  /\ t \in Marked /\ SessionOf[t] = c /\ pc[t] # "idle"
                      /\ \A r \in Spawns : claimed[r] # t
                      /\ \A d \in Sessions : \A i \in 1..Len(queue'[d]) :
                           queue'[d][i].node # t
    OBVIOUS
  <2>1. n + 1 \in 1..Len(queue[c]) /\ t = queue[c][n + 1].node
    BY <1>4
  <2>2. t \in Marked /\ SessionOf[t] = c /\ pc[t] # "idle"
    BY <2>1, <1>2 DEF IInv, QueueHome
  <2>3. ASSUME NEW r \in Spawns PROVE claimed[r] # t
    BY <2>1, <1>2 DEF IInv, NoInvention
  <2>4. ASSUME NEW d \in Sessions, NEW i \in 1..Len(queue'[d])
        PROVE  queue'[d][i].node # t
    <3>1. CASE d = c
      <4>1. /\ i + n + 1 \in 1..Len(queue[d]) /\ i \in Nat /\ i >= 1 /\ n \in Nat
            /\ queue'[d][i] = queue[d][i + n + 1]
        BY <3>1, <1>6
      <4>2. queue[d][i + n + 1].node = queue[d][n + 1].node => i + n + 1 = n + 1
        BY <3>1, <4>1, <2>1 DEF IInv, QueuedOnce
      <4> QED
        BY <3>1, <4>1, <4>2, <2>1
    <3>2. CASE d # c
      <4>1. PICK k \in 1..Len(queue[d]) : queue'[d][i] = queue[d][k]
        BY <1>7
      <4>2. SessionOf[queue[d][k].node] = d
        BY DEF IInv, QueueHome
      <4> QED
        BY <3>2, <4>1, <4>2, <2>2
    <3> QED
      BY <3>1, <3>2
  <2> QED
    BY <2>2, <2>3, <2>4
<1>10. QueueHome'
  <2> SUFFICES ASSUME NEW d \in Sessions, NEW i \in 1..Len(queue'[d])
               PROVE  /\ queue'[d][i].node \in Marked
                      /\ SessionOf[queue'[d][i].node] = d
                      /\ pc'[queue'[d][i].node] # "idle"
    BY DEF QueueHome
  <2>1. PICK k \in 1..Len(queue[d]) : queue'[d][i] = queue[d][k]
    BY <1>7
  <2>2. /\ queue[d][k].node \in Marked /\ SessionOf[queue[d][k].node] = d
        /\ pc[queue[d][k].node] # "idle"
    BY DEF IInv, QueueHome
  <2> QED
    BY <2>1, <2>2, <1>8, CorrelatorAssumption
<1>11. QueuedOnce'
  <2> SUFFICES ASSUME NEW d \in Sessions, NEW i \in 1..Len(queue'[d]),
                      NEW j \in 1..Len(queue'[d]),
                      queue'[d][i].node = queue'[d][j].node
               PROVE  i = j
    BY DEF QueuedOnce
  <2>1. CASE d # c
    BY <2>1, <1>6 DEF IInv, QueuedOnce
  <2>2. CASE d = c
    <3>1. /\ i + n + 1 \in 1..Len(queue[d]) /\ j + n + 1 \in 1..Len(queue[d])
          /\ queue[d][i + n + 1].node = queue[d][j + n + 1].node
          /\ i \in Nat /\ j \in Nat /\ n \in Nat
      BY <2>2, <1>6, SMTT(30)
    <3>2. i + n + 1 = j + n + 1
      BY <3>1 DEF IInv, QueuedOnce
    <3> QED
      BY <3>1, <3>2
  <2> QED
    BY <2>1, <2>2
<1>12. NoneBeforeStart'
  BY <1>8 DEF IInv, NoneBeforeStart
<1>13. ClaimOnce'
  BY <1>8, <1>9 DEF IInv, ClaimOnce
<1>14. NoInvention'
  <2> SUFFICES ASSUME NEW r \in Spawns, claimed'[r] # NoNode
               PROVE  /\ claimed'[r] \in Marked
                      /\ SessionOf[claimed'[r]] = SessionOf[r]
                      /\ pc'[claimed'[r]] # "idle"
                      /\ \A d \in Sessions : \A i \in 1..Len(queue'[d]) :
                           queue'[d][i].node # claimed'[r]
    BY DEF NoInvention
  <2>1. CASE r = s
    BY <2>1, <1>8, <1>9, CorrelatorAssumption
  <2>2. CASE r # s
    <3>1. /\ claimed'[r] = claimed[r] /\ claimed[r] \in Marked
          /\ SessionOf[claimed[r]] = SessionOf[r] /\ pc[claimed[r]] # "idle"
          /\ \A d \in Sessions : \A k \in 1..Len(queue[d]) : queue[d][k].node # claimed[r]
      BY <2>2, <1>8 DEF IInv, NoInvention
    <3>2. pc'[claimed[r]] # "idle"
      BY <3>1, <1>8, CorrelatorAssumption
    <3>3. \A d \in Sessions : \A i \in 1..Len(queue'[d]) : queue'[d][i].node # claimed[r]
      BY <3>1, <1>7
    <3> QED
      BY <3>1, <3>2, <3>3
  <2> QED
    BY <2>1, <2>2
<1> QED
  BY <1>5, <1>10, <1>11, <1>12, <1>13, <1>14 DEF IInv

\* The steps that touch neither markers nor nodes: a spawn moves on, or time does.
LEMMA QuietIInv ==
  ASSUME IInv, UNCHANGED <<queue, claimed>>, TypeOK',
         \A s \in Spawns : /\ pc[s] # "idle" => pc'[s] # "idle"
                           /\ pc[s] = "started" => pc'[s] = "started"
  PROVE  IInv'
<1>1. QueueHome' /\ QueuedOnce'
  <2> SUFFICES ASSUME NEW c \in Sessions, NEW i \in 1..Len(queue[c])
               PROVE  /\ queue[c][i].node \in Marked
                      /\ SessionOf[queue[c][i].node] = c
                      /\ pc'[queue[c][i].node] # "idle"
    BY DEF IInv, QueueHome, QueuedOnce
  <2> QED
    BY CorrelatorAssumption DEF IInv, QueueHome
<1>2. NoneBeforeStart' /\ ClaimOnce'
  BY DEF IInv, NoneBeforeStart, ClaimOnce
<1>3. NoInvention'
  BY CorrelatorAssumption DEF IInv, NoInvention
<1> QED
  BY <1>1, <1>2, <1>3 DEF IInv

\* A restart empties every queue and leaves the recorded nodes alone.
LEMMA RestartIInv ==
  ASSUME IInv, Restart
  PROVE  IInv'
<1>1. /\ queue' = [c \in Sessions |-> <<>>] /\ \A c \in Sessions : Len(queue'[c]) = 0
      /\ UNCHANGED <<clock, pc, issued, claimed>> /\ restarts' \in Nat
      /\ disturbed' \subseteq Sessions
  BY CorrelatorAssumption DEF Restart, IInv, TypeOK
<1>2. TypeOK' /\ QueueHome' /\ QueuedOnce'
  BY <1>1 DEF IInv, TypeOK, QueueHome, QueuedOnce
<1>3. NoneBeforeStart' /\ ClaimOnce' /\ NoInvention'
  BY <1>1 DEF IInv, NoneBeforeStart, ClaimOnce, NoInvention
<1> QED
  BY <1>2, <1>3 DEF IInv

\* Every step keeps the invariant: one case for each action of Next.
LEMMA NextIInv == IInv /\ [Next]_vars => IInv'
<1> SUFFICES ASSUME IInv, [Next]_vars PROVE IInv'
  OBVIOUS
<1>1. ASSUME NEW s \in Spawns, PreAgent(s) PROVE IInv'
  BY <1>1, PreAgentIInv
<1>2. ASSUME NEW s \in Spawns, SubagentStart(s) PROVE IInv'
  BY <1>2, ClaimIInv
<1>3. ASSUME NEW s \in Spawns, PreAgentLost(s) PROVE IInv'
  <2>1. issued' \in [Sessions -> Seq(Spawns)]
    <3>1. SessionOf[s] \in Sessions /\ issued[SessionOf[s]] \in Seq(Spawns)
      BY CorrelatorAssumption DEF IInv, TypeOK
    <3>2. Append(issued[SessionOf[s]], s) \in Seq(Spawns)
      BY <3>1, AppendProperties
    <3> QED
      BY <1>3, <3>1, <3>2 DEF PreAgentLost, IInv, TypeOK
  <2>2. TypeOK' /\ UNCHANGED <<queue, claimed>>
    BY <1>3, <2>1, CorrelatorAssumption DEF PreAgentLost, Disturb, IInv, TypeOK
  <2>3. \A t \in Spawns : /\ pc[t] # "idle" => pc'[t] # "idle"
                          /\ pc[t] = "started" => pc'[t] = "started"
    BY <1>3 DEF PreAgentLost, IInv, TypeOK
  <2> QED
    BY <2>2, <2>3, QuietIInv
<1>4. ASSUME NEW s \in Spawns, Deny(s) \/ SubagentStartLost(s) PROVE IInv'
  <2>1. /\ UNCHANGED <<queue, clock, issued, claimed, restarts>> /\ pc[s] = "hooked"
        /\ Disturb(s, s \in Marked)
        /\ \/ pc' = [pc EXCEPT ![s] = "denied"]
           \/ pc' = [pc EXCEPT ![s] = "started"]
    BY <1>4 DEF Deny, SubagentStartLost
  <2>2. TypeOK'
    BY <2>1, CorrelatorAssumption DEF Disturb, IInv, TypeOK
  <2>3. \A t \in Spawns : /\ pc[t] # "idle" => pc'[t] # "idle"
                          /\ pc[t] = "started" => pc'[t] = "started"
    BY <2>1 DEF IInv, TypeOK
  <2> QED
    BY <2>1, <2>2, <2>3, QuietIInv
<1>5. ASSUME Tick \/ UNCHANGED vars PROVE IInv'
  <2>1. UNCHANGED <<queue, pc, issued, claimed, restarts, disturbed>> /\ clock' \in Nat
    BY <1>5 DEF Tick, vars, IInv, TypeOK
  <2>2. TypeOK'
    BY <2>1 DEF IInv, TypeOK
  <2> QED
    BY <2>1, <2>2, QuietIInv
<1>6. CASE Restart
  BY <1>6, RestartIInv
<1> QED
  BY <1>1, <1>2, <1>3, <1>4, <1>5, <1>6 DEF Next

\* The inductive invariant holds in every reachable state.
THEOREM Invariance == Spec => []IInv
<1>1. Init => IInv
  BY InitIInv
<1>2. IInv /\ [Next]_vars => IInv'
  BY NextIInv
<1> QED
  BY <1>1, <1>2, PTL DEF Spec

\* Variables keep their types (Correlator's state and the handlers' payloads).
THEOREM TypeCorrect == Spec => []TypeOK
<1>1. IInv => TypeOK
  BY DEF IInv
<1> QED
  BY <1>1, Invariance, PTL

\* Correlator.claim never hands one spawn's node to two agents.
THEOREM NodesAreSpentOnce == Spec => []ClaimOnce
<1>1. IInv => ClaimOnce
  BY DEF IInv
<1> QED
  BY <1>1, Invariance, PTL

\* handle_subagent_start never records a node that no marked call of the same
\* session announced, and a recorded node is not queued any more.
THEOREM NodesAreNotInvented == Spec => []NoInvention
<1>1. IInv => NoInvention
  BY DEF IInv
<1> QED
  BY <1>1, Invariance, PTL

-----------------------------------------------------------------------------
\* The handlers and the queue implement the promise stated by Attribution: each
\* step offers a node, attributes an offered unspent one, or changes neither.
THEOREM ImplementsAttribution == Spec => Attributes
<1> DEFINE pending == {s \in Marked : pc[s] # "idle"}
<1>1. Init => Promise!Init
  BY CorrelatorAssumption DEF Init, Promise!Init
<1>2. IInv /\ IInv' /\ [Next]_vars => [Promise!Next]_<<pending, claimed>>
  <2> SUFFICES ASSUME IInv, IInv', [Next]_vars
               PROVE  [Promise!Next]_<<pending, claimed>>
    OBVIOUS
  <2>1. ASSUME NEW s \in Spawns, PreAgent(s) \/ PreAgentLost(s)
        PROVE  [Promise!Next]_<<pending, claimed>>
    <3>1. pc[s] = "idle" /\ pc' = [pc EXCEPT ![s] = "hooked"] /\ claimed' = claimed
      BY <2>1 DEF PreAgent, PreAgentLost
    <3>2. \A t \in Spawns : pc'[t] = IF t = s THEN "hooked" ELSE pc[t]
      BY <3>1 DEF IInv, TypeOK
    <3>3. CASE s \in Marked
      <4>1. s \in Marked \ pending /\ pending' = pending \cup {s}
        BY <3>1, <3>2, <3>3, CorrelatorAssumption
      <4> QED
        BY <4>1, <3>1 DEF Promise!Next, Promise!Offer
    <3>4. CASE s \notin Marked
      BY <3>1, <3>2, <3>4, CorrelatorAssumption
    <3> QED
      BY <3>3, <3>4
  <2>2. ASSUME NEW s \in Spawns, Deny(s) \/ SubagentStartLost(s)
        PROVE  UNCHANGED <<pending, claimed>>
    <3>1. /\ pc[s] = "hooked" /\ claimed' = claimed
          /\ \/ pc' = [pc EXCEPT ![s] = "denied"]
             \/ pc' = [pc EXCEPT ![s] = "started"]
      BY <2>2 DEF Deny, SubagentStartLost
    <3>2. \A t \in Spawns : pc'[t] = "idle" <=> pc[t] = "idle"
      BY <3>1 DEF IInv, TypeOK
    <3> QED
      BY <3>1, <3>2, CorrelatorAssumption
  <2>3. ASSUME NEW s \in Spawns, SubagentStart(s)
        PROVE  [Promise!Next]_<<pending, claimed>>
    <3>1. PICK t \in Spawns \cup {NoNode} :
            /\ pc[s] = "hooked"
            /\ claimed' = [claimed EXCEPT ![s] = t]
            /\ pc' = [pc EXCEPT ![s] = "started"]
      <4>1. PICK n \in 0..Len(queue[SessionOf[s]]) :
              /\ pc[s] = "hooked"
              /\ claimed' = [claimed EXCEPT ![s] = Taken(queue[SessionOf[s]], n)]
              /\ pc' = [pc EXCEPT ![s] = "started"]
        BY <2>3 DEF SubagentStart
      <4>2. claimed'[s] = Taken(queue[SessionOf[s]], n)
        BY <4>1 DEF IInv, TypeOK
      <4>3. claimed'[s] \in Spawns \cup {NoNode}
        BY DEF IInv, TypeOK
      <4> QED
        BY <4>1, <4>2, <4>3
    <3>2. /\ claimed[s] = NoNode /\ claimed'[s] = t
          /\ \A r \in Spawns : r # s => claimed'[r] = claimed[r]
          /\ \A r \in Spawns : pc'[r] = "idle" <=> pc[r] = "idle"
      BY <3>1 DEF IInv, TypeOK, NoneBeforeStart
    <3>3. pending' = pending
      BY <3>2, CorrelatorAssumption
    <3>4. CASE t = NoNode
      <4>1. claimed' = claimed
        BY <3>1, <3>2, <3>4 DEF IInv, TypeOK
      <4> QED
        BY <4>1, <3>3
    <3>5. CASE t # NoNode
      <4>1. t \in Spawns /\ t \in Marked /\ SessionOf[t] = SessionOf[s] /\ pc[t] # "idle"
        BY <3>1, <3>2, <3>5, CorrelatorAssumption DEF IInv, NoInvention
      <4>2. \A r \in Spawns : claimed[r] # t
        BY <3>2, <3>5 DEF IInv, ClaimOnce
      <4>3. Promise!Attribute(s, t)
        BY <3>1, <3>2, <3>3, <4>1, <4>2 DEF Promise!Attribute
      <4> QED
        BY <4>1, <4>3 DEF Promise!Next
    <3> QED
      BY <3>4, <3>5
  <2>4. ASSUME Restart \/ Tick \/ UNCHANGED vars
        PROVE  UNCHANGED <<pending, claimed>>
    BY <2>4 DEF Restart, Tick, vars
  <2> QED
    BY <2>1, <2>2, <2>3, <2>4 DEF Next
<1> QED
  BY <1>1, <1>2, Invariance, PTL DEF Spec, Attributes, Promise!Spec
-----------------------------------------------------------------------------
(* Exactness.  In an undisturbed session the queue holds exactly the marked  *)
(* calls under way, in call order, so the head belongs to the agent whose    *)
(* turn it is.                                                               *)

\* A call that was made is in the list of its session.
CallsIssued ==
  \A s \in Spawns : pc[s] # "idle" =>
    \E k \in 1..Len(issued[SessionOf[s]]) : issued[SessionOf[s]][k] = s

\* A marked call under way has its marker queued.
WaitingQueued ==
  \A s \in Marked : SessionOf[s] \notin disturbed /\ pc[s] = "hooked" =>
    \E i \in 1..Len(queue[SessionOf[s]]) : queue[SessionOf[s]][i].node = s

\* A queued marker belongs to a call under way.
QueuedWaiting ==
  \A c \in Sessions \ disturbed : \A i \in 1..Len(queue[c]) :
    pc[queue[c][i].node] = "hooked"

\* Markers are queued in the order of their calls.
Before(h, s, t) == \E k, l \in 1..Len(h) : k < l /\ h[k] = s /\ h[l] = t

InCallOrder ==
  \A c \in Sessions \ disturbed : \A i, j \in 1..Len(queue[c]) :
    i < j => Before(issued[c], queue[c][i].node, queue[c][j].node)

\* The inductive invariant of exactness.
EInv == IInv /\ CallsIssued /\ WaitingQueued /\ QueuedWaiting /\ InCallOrder /\ Exact

\* Nothing is called, queued or started at first.
LEMMA InitEInv == Init => EInv
<1> SUFFICES ASSUME Init PROVE EInv
  OBVIOUS
<1>1. IInv
  BY InitIInv
<1>2. /\ \A c \in Sessions : Len(queue[c]) = 0
      /\ \A s \in Spawns : pc[s] = "idle"
  BY DEF Init
<1>3. CallsIssued /\ Exact
  BY <1>2 DEF CallsIssued, Exact
<1>4. WaitingQueued /\ QueuedWaiting /\ InCallOrder
  BY <1>2, CorrelatorAssumption DEF WaitingQueued, QueuedWaiting, InCallOrder
<1> QED
  BY <1>1, <1>3, <1>4 DEF EInv

\* A call is appended to the list of its session and to no other.
LEMMA IssueFacts ==
  ASSUME TypeOK, NEW s \in Spawns,
         issued' = [issued EXCEPT ![SessionOf[s]] = Append(@, s)],
         pc' = [pc EXCEPT ![s] = "hooked"], CallsIssued
  PROVE  /\ CallsIssued'
         /\ \A c \in Sessions : \A t, u \in Spawns : Before(issued[c], t, u) => Before(issued'[c], t, u)
         /\ \A c \in Sessions : \A t \in Spawns :
              c = SessionOf[s] /\ (\E k \in 1..Len(issued[c]) : issued[c][k] = t)
                => Before(issued'[c], t, s)
<1> DEFINE c == SessionOf[s]
<1>1. c \in Sessions /\ issued[c] \in Seq(Spawns) /\ Len(issued[c]) \in Nat
  <2>1. c \in Sessions
    BY CorrelatorAssumption
  <2>2. issued[c] \in Seq(Spawns)
    BY <2>1 DEF TypeOK
  <2> QED
    BY <2>1, <2>2, LenProperties
<1>2. /\ Len(issued'[c]) = Len(issued[c]) + 1
      /\ \A k \in 1..Len(issued[c]) : issued'[c][k] = issued[c][k]
      /\ issued'[c][Len(issued[c]) + 1] = s
      /\ \A d \in Sessions : d # c => issued'[d] = issued[d]
  <2>1. issued'[c] = Append(issued[c], s)
    BY <1>1 DEF TypeOK
  <2>2. \A d \in Sessions : d # c => issued'[d] = issued[d]
    BY <1>1 DEF TypeOK
  <2> QED
    BY <1>1, <2>1, <2>2, AppendProperties
<1>3. CallsIssued'
  <2> SUFFICES ASSUME NEW t \in Spawns, pc'[t] # "idle"
               PROVE  \E k \in 1..Len(issued'[SessionOf[t]]) : issued'[SessionOf[t]][k] = t
    BY DEF CallsIssued
  <2>1. CASE t = s
    <3>1. Len(issued[c]) + 1 \in 1..Len(issued'[c]) /\ issued'[c][Len(issued[c]) + 1] = t
      BY <1>1, <1>2, <2>1
    <3> QED
      BY <3>1, <2>1
  <2>2. CASE t # s
    <3>1. PICK k \in 1..Len(issued[SessionOf[t]]) : issued[SessionOf[t]][k] = t
      BY <2>2 DEF TypeOK, CallsIssued
    <3>2. SessionOf[t] \in Sessions
      BY CorrelatorAssumption
    <3> QED
      BY <3>1, <3>2, <1>1, <1>2
  <2> QED
    BY <2>1, <2>2
<1>4. ASSUME NEW d \in Sessions, NEW t \in Spawns, NEW u \in Spawns, Before(issued[d], t, u)
      PROVE  Before(issued'[d], t, u)
  <2>1. PICK k \in 1..Len(issued[d]), l \in 1..Len(issued[d]) :
          k < l /\ issued[d][k] = t /\ issued[d][l] = u
    BY <1>4 DEF Before
  <2>2. CASE d = c
    <3>1. k \in 1..Len(issued'[d]) /\ l \in 1..Len(issued'[d])
      BY <2>1, <2>2, <1>1, <1>2
    <3>2. issued'[d][k] = t /\ issued'[d][l] = u
      BY <2>1, <2>2, <1>2
    <3> QED
      BY <2>1, <3>1, <3>2 DEF Before
  <2>3. CASE d # c
    BY <2>1, <2>3, <1>2 DEF Before
  <2> QED
    BY <2>2, <2>3
<1>5. ASSUME NEW t \in Spawns, \E k \in 1..Len(issued[c]) : issued[c][k] = t
      PROVE  Before(issued'[c], t, s)
  <2>1. PICK k \in 1..Len(issued[c]) : issued[c][k] = t
    BY <1>5
  <2>2. /\ k \in 1..Len(issued'[c]) /\ Len(issued[c]) + 1 \in 1..Len(issued'[c])
        /\ k < Len(issued[c]) + 1
        /\ issued'[c][k] = t /\ issued'[c][Len(issued[c]) + 1] = s
    BY <2>1, <1>1, <1>2
  <2> QED
    BY <2>2 DEF Before
<1> QED
  BY <1>3, <1>4, <1>5

\* The steps that leave the queues alone and end at most the call of spawn s,
\* disturbing its session when s is marked.
LEMMA LostEInv ==
  ASSUME EInv, IInv', NEW s \in Spawns,
         UNCHANGED <<queue, issued, claimed>>, Disturb(s, s \in Marked),
         pc[s] = "hooked",
         \/ pc' = [pc EXCEPT ![s] = "denied"]
         \/ pc' = [pc EXCEPT ![s] = "started"]
  PROVE  EInv'
<1>1. /\ \A t \in Spawns : t # s => pc'[t] = pc[t]
      /\ pc'[s] \in {"denied", "started"} /\ pc[s] = "hooked"
      /\ disturbed \subseteq disturbed'
      /\ s \in Marked => SessionOf[s] \in disturbed'
  BY DEF Disturb, EInv, IInv, TypeOK
<1>2. CallsIssued'
  BY <1>1 DEF EInv, CallsIssued
<1>3. WaitingQueued'
  BY <1>1, CorrelatorAssumption DEF EInv, WaitingQueued
<1>4. QueuedWaiting'
  <2> SUFFICES ASSUME NEW c \in Sessions \ disturbed', NEW i \in 1..Len(queue[c])
               PROVE  pc'[queue[c][i].node] = "hooked"
    BY DEF QueuedWaiting
  <2>1. /\ pc[queue[c][i].node] = "hooked" /\ queue[c][i].node \in Marked
        /\ SessionOf[queue[c][i].node] = c
    BY <1>1 DEF EInv, IInv, QueuedWaiting, QueueHome
  <2> QED
    BY <1>1, <2>1, CorrelatorAssumption
<1>5. InCallOrder'
  BY <1>1 DEF EInv, InCallOrder, Before
<1>6. Exact'
  <2> SUFFICES ASSUME NEW t \in Spawns, pc'[t] = "started", SessionOf[t] \notin disturbed'
               PROVE  claimed[t] = IF t \in Marked THEN t ELSE NoNode
    BY DEF Exact
  <2>1. CASE t = s
    <3>1. t \notin Marked /\ pc[t] # "started"
      BY <1>1, <2>1
    <3> QED
      BY <3>1 DEF EInv, IInv, NoneBeforeStart
  <2>2. CASE t # s
    BY <1>1, <2>2 DEF EInv, Exact
  <2> QED
    BY <2>1, <2>2
<1> QED
  BY <1>2, <1>3, <1>4, <1>5, <1>6 DEF EInv

\* The call of s is made, its marker queued last or, lost, not at all.
LEMMA CallEInv ==
  ASSUME EInv, NEW s \in Spawns, PreAgent(s) \/ PreAgentLost(s)
  PROVE  EInv'
<1> DEFINE c == SessionOf[s]
<1>1. IInv'
  BY NextIInv DEF EInv, Next
<1>2. /\ pc[s] = "idle" /\ claimed' = claimed
      /\ pc' = [pc EXCEPT ![s] = "hooked"]
      /\ issued' = [issued EXCEPT ![c] = Append(@, s)]
      /\ disturbed \subseteq disturbed'
  BY DEF PreAgent, PreAgentLost, Disturb
<1>3. /\ TypeOK /\ CallsIssued /\ c \in Sessions /\ queue[c] \in Seq(Marker)
      /\ Len(queue[c]) \in Nat /\ clock \in Nat
      /\ \A t \in Spawns : pc'[t] = IF t = s THEN "hooked" ELSE pc[t]
  <2>1. TypeOK /\ CallsIssued /\ c \in Sessions
    BY CorrelatorAssumption DEF EInv, IInv
  <2>2. queue[c] \in Seq(Marker) /\ clock \in Nat
    BY <2>1 DEF TypeOK
  <2>3. \A t \in Spawns : pc'[t] = IF t = s THEN "hooked" ELSE pc[t]
    BY <1>2, <2>1 DEF TypeOK
  <2> QED
    BY <2>1, <2>2, <2>3, LenProperties
<1>4. /\ CallsIssued'
      /\ \A d \in Sessions : \A t, u \in Spawns : Before(issued[d], t, u) => Before(issued'[d], t, u)
      /\ \A d \in Sessions : \A t \in Spawns :
           d = c /\ (\E k \in 1..Len(issued[d]) : issued[d][k] = t) => Before(issued'[d], t, s)
  BY <1>2, <1>3, IssueFacts
\* In an undisturbed session the queue is as it was, or s was queued last.
<1>5. ASSUME NEW d \in Sessions \ disturbed'
      PROVE  \/ /\ queue'[d] = queue[d]
                /\ d = c => s \notin Marked
             \/ /\ d = c /\ s \in Marked
                /\ Len(queue'[d]) = Len(queue[d]) + 1 /\ Len(queue[d]) \in Nat
                /\ \A i \in 1..Len(queue[d]) : queue'[d][i] = queue[d][i]
                /\ queue'[d][Len(queue[d]) + 1].node = s
  <2>1. CASE PreAgent(s) /\ s \in Marked /\ d = c
    <3>1. queue'[d] = Push(queue[c], s, clock)
      BY <2>1, <1>3 DEF PreAgent, TypeOK
    <3>2. /\ Len(Push(queue[c], s, clock)) = Len(queue[c]) + 1
          /\ \A i \in 1..Len(queue[c]) : Push(queue[c], s, clock)[i] = queue[c][i]
          /\ Push(queue[c], s, clock)[Len(queue[c]) + 1] = [at |-> clock, node |-> s]
      BY <1>3, PushFacts
    <3>3. queue'[d][Len(queue[d]) + 1].node = s
      BY <2>1, <3>1, <3>2
    <3> QED
      BY <2>1, <3>1, <3>2, <3>3, <1>3
  <2>2. CASE PreAgent(s) /\ ~(s \in Marked /\ d = c)
    BY <2>2, <1>3 DEF PreAgent, TypeOK
  <2>3. CASE PreAgentLost(s)
    BY <2>3, <1>5 DEF PreAgentLost, Disturb
  <2> QED
    BY <2>1, <2>2, <2>3
<1>6. WaitingQueued'
  <2> SUFFICES ASSUME NEW t \in Marked, SessionOf[t] \notin disturbed', pc'[t] = "hooked"
               PROVE  \E i \in 1..Len(queue'[SessionOf[t]]) : queue'[SessionOf[t]][i].node = t
    BY DEF WaitingQueued
  <2> DEFINE d == SessionOf[t]
  <2>1. t \in Spawns /\ d \in Sessions \ disturbed' /\ d \notin disturbed
    BY <1>2, CorrelatorAssumption
  <2>2. CASE t = s
    <3>1. Len(queue[d]) + 1 \in 1..Len(queue'[d]) /\ queue'[d][Len(queue[d]) + 1].node = t
      BY <2>1, <2>2, <1>5
    <3> QED
      BY <3>1
  <2>3. CASE t # s
    <3>1. PICK i \in 1..Len(queue[d]) : queue[d][i].node = t
      BY <2>1, <2>3, <1>3 DEF EInv, WaitingQueued
    <3>2. i \in 1..Len(queue'[d]) /\ queue'[d][i] = queue[d][i]
      BY <3>1, <2>1, <1>5
    <3> QED
      BY <3>1, <3>2
  <2> QED
    BY <2>2, <2>3
<1>7. QueuedWaiting'
  <2> SUFFICES ASSUME NEW d \in Sessions \ disturbed', NEW i \in 1..Len(queue'[d])
               PROVE  pc'[queue'[d][i].node] = "hooked"
    BY DEF QueuedWaiting
  <2>1. \/ i \in 1..Len(queue[d]) /\ queue'[d][i] = queue[d][i]
        \/ queue'[d][i].node = s
    BY <1>5
  <2>2. CASE i \in 1..Len(queue[d]) /\ queue'[d][i] = queue[d][i]
    <3>1. pc[queue[d][i].node] = "hooked" /\ queue[d][i].node \in Spawns
      BY <2>2, <1>2, CorrelatorAssumption DEF EInv, IInv, QueuedWaiting, QueueHome
    <3> QED
      BY <2>2, <3>1, <1>3
  <2>3. CASE queue'[d][i].node = s
    BY <2>3, <1>3
  <2> QED
    BY <2>1, <2>2, <2>3
<1>8. InCallOrder'
  <2> SUFFICES ASSUME NEW d \in Sessions \ disturbed', NEW i \in 1..Len(queue'[d]),
                      NEW j \in 1..Len(queue'[d]), i < j
               PROVE  Before(issued'[d], queue'[d][i].node, queue'[d][j].node)
    BY DEF InCallOrder
  <2>1. i \in 1..Len(queue[d]) /\ queue'[d][i] = queue[d][i]
    BY <1>5
  <2>2. /\ queue[d][i].node \in Spawns /\ SessionOf[queue[d][i].node] = d
        /\ pc[queue[d][i].node] # "idle"
    BY <2>1, CorrelatorAssumption DEF EInv, IInv, QueueHome
  <2>3. CASE j \in 1..Len(queue[d]) /\ queue'[d][j] = queue[d][j]
    <3>1. Before(issued[d], queue[d][i].node, queue[d][j].node) /\ queue[d][j].node \in Spawns
      BY <2>1, <2>3, <1>2, CorrelatorAssumption DEF EInv, IInv, InCallOrder, QueueHome
    <3> QED
      BY <2>1, <2>2, <2>3, <3>1, <1>4
  <2>4. CASE d = c /\ queue'[d][j].node = s
    <3>1. \E k \in 1..Len(issued[d]) : issued[d][k] = queue[d][i].node
      BY <2>2, <1>3 DEF CallsIssued
    <3> QED
      BY <2>1, <2>2, <2>4, <3>1, <1>4
  <2> QED
    BY <2>3, <2>4, <1>5
<1>9. Exact'
  BY <1>2, <1>3 DEF EInv, Exact
<1> QED
  BY <1>1, <1>4, <1>6, <1>7, <1>8, <1>9 DEF EInv

\* In a session that stays undisturbed the agent that starts finds its own marker
\* at the head, still fresh; one without a marker finds the queue empty.
LEMMA HeadIsOwn ==
  ASSUME EInv, NEW s \in Spawns, pc[s] = "hooked", SessionOf[s] \notin disturbed,
         ~OutOfTurn(s), ~TooLate(s)
  PROVE  IF s \in Marked
         THEN /\ Len(queue[SessionOf[s]]) >= 1
              /\ queue[SessionOf[s]][1].node = s
              /\ ~Expired(queue[SessionOf[s]][1], clock)
         ELSE Len(queue[SessionOf[s]]) = 0
<1> DEFINE c == SessionOf[s]
<1>1. c \in Sessions /\ queue[c] \in Seq(Marker) /\ Len(queue[c]) \in Nat
  <2>1. c \in Sessions
    BY CorrelatorAssumption
  <2>2. queue[c] \in Seq(Marker)
    BY <2>1 DEF EInv, IInv, TypeOK
  <2> QED
    BY <2>1, <2>2, LenProperties
<1>2. CASE s \in Marked
  <2>1. PICK j \in 1..Len(queue[c]) : queue[c][j].node = s
    BY <1>2 DEF EInv, WaitingQueued
  <2>2. 1 \in 1..Len(queue[c]) /\ Len(queue[c]) >= 1
    BY <1>1, <2>1
  <2>3. ASSUME j # 1 PROVE FALSE
    <3>1. 1 < j
      BY <2>1, <2>3
    <3>2. Before(issued[c], queue[c][1].node, s)
      BY <1>1, <2>1, <2>2, <3>1 DEF EInv, InCallOrder
    <3>3. PICK k, l \in 1..Len(issued[c]) :
            k < l /\ issued[c][k] = queue[c][1].node /\ issued[c][l] = s
      BY <3>2 DEF Before
    <3>4. queue[c][1].node # s
      BY <1>1, <2>1, <2>2, <2>3 DEF EInv, IInv, QueuedOnce
    <3>5. queue[c][1].node \in Marked /\ pc[queue[c][1].node] = "hooked"
      BY <1>1, <2>2 DEF EInv, IInv, QueueHome, QueuedWaiting
    <3> QED
      BY <3>3, <3>4, <3>5 DEF OutOfTurn
  <2>4. ~Expired(queue[c][j], clock)
    BY <2>1 DEF TooLate
  <2> QED
    BY <1>2, <2>1, <2>2, <2>3, <2>4
<1>3. CASE s \notin Marked
  <2> SUFFICES ASSUME Len(queue[c]) # 0 PROVE FALSE
    BY <1>3
  <2>1. 1 \in 1..Len(queue[c])
    BY <1>1
  <2>2. /\ queue[c][1].node \in Marked /\ pc[queue[c][1].node] = "hooked"
        /\ SessionOf[queue[c][1].node] = c
    BY <1>1, <2>1 DEF EInv, IInv, QueueHome, QueuedWaiting
  <2>3. PICK k \in 1..Len(issued[c]) : issued[c][k] = queue[c][1].node
    BY <2>2, CorrelatorAssumption DEF EInv, CallsIssued
  <2>4. PICK l \in 1..Len(issued[c]) : issued[c][l] = s
    BY DEF EInv, CallsIssued
  <2> QED
    BY <1>3, <2>2, <2>3, <2>4 DEF OutOfTurn
<1> QED
  BY <1>2, <1>3

\* A claim in a session that stays undisturbed takes the agent's own marker.
LEMMA ClaimEInv ==
  ASSUME EInv, NEW s \in Spawns, SubagentStart(s)
  PROVE  EInv'
<1> DEFINE c == SessionOf[s]
<1>1. IInv'
  BY ClaimIInv DEF EInv
<1>2. PICK n \in 0..Len(queue[c]) :
        /\ pc[s] = "hooked"
        /\ DropsHead(queue[c], clock, n)
        /\ queue' = [queue EXCEPT ![c] = Rest(@, n)]
        /\ claimed' = [claimed EXCEPT ![s] = Taken(queue[c], n)]
        /\ pc' = [pc EXCEPT ![s] = "started"]
        /\ Disturb(s, OutOfTurn(s) \/ TooLate(s))
        /\ UNCHANGED <<clock, issued, restarts>>
  BY DEF SubagentStart
<1>3. c \in Sessions /\ queue[c] \in Seq(Marker) /\ Len(queue[c]) \in Nat
  <2>1. c \in Sessions
    BY CorrelatorAssumption
  <2>2. queue[c] \in Seq(Marker)
    BY <2>1 DEF EInv, IInv, TypeOK
  <2> QED
    BY <2>1, <2>2, LenProperties
<1>4. /\ \A r \in Spawns : /\ pc'[r] = IF r = s THEN "started" ELSE pc[r]
                           /\ claimed'[r] = IF r = s THEN Taken(queue[c], n) ELSE claimed[r]
      /\ \A d \in Sessions : queue'[d] = IF d = c THEN Rest(queue[c], n) ELSE queue[d]
      /\ disturbed \subseteq disturbed'
      /\ c \notin disturbed' => ~OutOfTurn(s) /\ ~TooLate(s)
  BY <1>2, <1>3 DEF EInv, IInv, TypeOK, Disturb
<1>5. ASSUME c \notin disturbed'
      PROVE  /\ s \in Marked => /\ n = 0 /\ Len(queue[c]) >= 1
                                /\ queue[c][1].node = s
             /\ s \notin Marked => n = 0 /\ Len(queue[c]) = 0
             /\ Taken(queue[c], n) = IF s \in Marked THEN s ELSE NoNode
  <2>1. IF s \in Marked
        THEN /\ Len(queue[c]) >= 1 /\ queue[c][1].node = s
             /\ ~Expired(queue[c][1], clock)
        ELSE Len(queue[c]) = 0
    BY <1>2, <1>4, <1>5, HeadIsOwn
  <2>2. n \in Nat /\ n <= Len(queue[c])
    BY <1>2, <1>3
  <2>3. s \in Marked => n = 0
    <3> SUFFICES ASSUME s \in Marked, n # 0 PROVE FALSE
      OBVIOUS
    <3>1. 1 \in 1..n
      BY <2>2
    <3> QED
      BY <2>1, <3>1, <1>2 DEF DropsHead
  <2> QED
    BY <2>1, <2>2, <2>3, <1>3 DEF Taken
\* In an undisturbed session what is left was queued, in the same order.
<1>6. ASSUME NEW d \in Sessions \ disturbed', NEW i \in 1..Len(queue'[d])
      PROVE  \/ d # c /\ queue'[d] = queue[d]
             \/ /\ d = c /\ i + 1 \in 1..Len(queue[d])
                /\ queue'[d][i] = queue[d][i + 1] /\ queue[d][i + 1].node # s
  <2>1. CASE d # c
    BY <2>1, <1>4
  <2>2. CASE d = c
    <3>1. n = 0 /\ queue'[d] = Rest(queue[c], 0) /\ 0 \in 0..Len(queue[c])
      BY <2>2, <1>3, <1>4, <1>5
    <3>2. \A k \in 1..Len(Rest(queue[c], 0)) :
            k + 0 + 1 \in 1..Len(queue[c]) /\ Rest(queue[c], 0)[k] = queue[c][k + 0 + 1]
      BY <3>1, <1>3, RestFacts
    <3>3. /\ i \in 1..Len(Rest(queue[c], 0)) /\ i \in Nat /\ i >= 1 /\ i + 0 + 1 = i + 1
          /\ i + 1 \in 1..Len(queue[c]) /\ queue'[d][i] = queue[c][i + 1]
      <4>1. i \in 1..Len(Rest(queue[c], 0)) /\ i \in Nat /\ i >= 1 /\ i + 0 + 1 = i + 1
        BY <3>1
      <4> QED
        BY <4>1, <3>1, <3>2
    <3>4. queue[c][i + 1].node # s
      <4>1. CASE s \in Marked
        <5>1. queue[c][1].node = s /\ 1 \in 1..Len(queue[c])
          BY <4>1, <1>5, <2>2, <1>3
        <5>2. queue[c][1].node = queue[c][i + 1].node => 1 = i + 1
          BY <5>1, <3>3, <1>3 DEF EInv, IInv, QueuedOnce
        <5> QED
          BY <5>1, <5>2, <3>3
      <4>2. CASE s \notin Marked
        BY <4>2, <3>3, <1>3 DEF EInv, IInv, QueueHome
      <4> QED
        BY <4>1, <4>2
    <3> QED
      BY <2>2, <3>3, <3>4
  <2> QED
    BY <2>1, <2>2
<1>7. CallsIssued'
  BY <1>2, <1>4 DEF EInv, CallsIssued
<1>8. WaitingQueued'
  <2> SUFFICES ASSUME NEW t \in Marked, SessionOf[t] \notin disturbed', pc'[t] = "hooked"
               PROVE  \E i \in 1..Len(queue'[SessionOf[t]]) : queue'[SessionOf[t]][i].node = t
    BY DEF WaitingQueued
  <2> DEFINE d == SessionOf[t]
  <2>1. t \in Spawns /\ d \in Sessions /\ d \notin disturbed /\ t # s /\ pc[t] = "hooked"
    BY <1>4, CorrelatorAssumption
  <2>2. PICK k \in 1..Len(queue[d]) : queue[d][k].node = t
    BY <2>1 DEF EInv, WaitingQueued
  <2>3. CASE d # c
    BY <2>1, <2>2, <2>3, <1>4
  <2>4. CASE d = c
    <3>1. s \in Marked /\ n = 0 /\ queue[c][1].node = s
      BY <2>2, <2>4, <1>5, <1>3
    <3>2. k # 1 /\ k \in Nat /\ k >= 2 /\ k <= Len(queue[c]) /\ 0 \in 0..Len(queue[c])
      BY <2>1, <2>2, <2>4, <3>1, <1>3
    <3>3. /\ Len(Rest(queue[c], 0)) = IF 0 + 2 <= Len(queue[c]) THEN Len(queue[c]) - 0 - 1 ELSE 0
          /\ \A i \in 1..Len(Rest(queue[c], 0)) : Rest(queue[c], 0)[i] = queue[c][i + 0 + 1]
      BY <3>2, <1>3, RestFacts
    <3>4. Len(Rest(queue[c], 0)) = Len(queue[c]) - 1
      BY <3>2, <3>3, <1>3
    <3>5. /\ k - 1 \in 1..Len(Rest(queue[c], 0)) /\ (k - 1) + 0 + 1 = k
      BY <3>2, <3>4, <1>3
    <3>6. Rest(queue[c], 0)[k - 1].node = t
      BY <3>3, <3>5, <2>2, <2>4
    <3>7. queue'[d] = Rest(queue[c], 0)
      BY <2>1, <2>4, <3>1, <1>4
    <3> QED
      BY <3>5, <3>6, <3>7
  <2> QED
    BY <2>3, <2>4
<1>9. QueuedWaiting'
  <2> SUFFICES ASSUME NEW d \in Sessions \ disturbed', NEW i \in 1..Len(queue'[d])
               PROVE  pc'[queue'[d][i].node] = "hooked"
    BY DEF QueuedWaiting
  <2>1. PICK k \in 1..Len(queue[d]) : queue'[d][i] = queue[d][k] /\ queue[d][k].node # s
    <3>1. CASE d # c
      <4>1. i \in 1..Len(queue[d]) /\ queue'[d][i] = queue[d][i]
        BY <3>1, <1>6
      <4>2. SessionOf[queue[d][i].node] = d
        BY <4>1 DEF EInv, IInv, QueueHome
      <4> QED
        BY <3>1, <4>1, <4>2
    <3>2. CASE d = c
      BY <3>2, <1>6
    <3> QED
      BY <3>1, <3>2
  <2>2. pc[queue[d][k].node] = "hooked" /\ queue[d][k].node \in Spawns
    BY <1>4, CorrelatorAssumption DEF EInv, IInv, QueuedWaiting, QueueHome
  <2> QED
    BY <2>1, <2>2, <1>4
<1>10. InCallOrder'
  <2> SUFFICES ASSUME NEW d \in Sessions \ disturbed', NEW i \in 1..Len(queue'[d]),
                      NEW j \in 1..Len(queue'[d]), i < j
               PROVE  Before(issued[d], queue'[d][i].node, queue'[d][j].node)
    BY <1>2 DEF InCallOrder
  <2>1. CASE d # c
    <3>1. i \in 1..Len(queue[d]) /\ j \in 1..Len(queue[d]) /\ queue'[d] = queue[d]
      BY <2>1, <1>6
    <3> QED
      BY <3>1, <1>4 DEF EInv, InCallOrder
  <2>2. CASE d = c
    <3>1. /\ i + 1 \in 1..Len(queue[d]) /\ queue'[d][i] = queue[d][i + 1]
          /\ j + 1 \in 1..Len(queue[d]) /\ queue'[d][j] = queue[d][j + 1]
      BY <2>2, <1>6
    <3>2. i + 1 < j + 1 /\ d \in Sessions \ disturbed
      BY <1>4
    <3> QED
      BY <3>1, <3>2 DEF EInv, InCallOrder
  <2> QED
    BY <2>1, <2>2
<1>11. Exact'
  <2> SUFFICES ASSUME NEW r \in Spawns, pc'[r] = "started", SessionOf[r] \notin disturbed'
               PROVE  claimed'[r] = IF r \in Marked THEN r ELSE NoNode
    BY DEF Exact
  <2> QED
    BY <1>4, <1>5 DEF EInv, Exact
<1> QED
  BY <1>1, <1>7, <1>8, <1>9, <1>10, <1>11 DEF EInv

\* A restart with a marked call under way disturbs that session; in the others
\* the queue was empty already.
LEMMA RestartEInv ==
  ASSUME EInv, Restart
  PROVE  EInv'
<1>1. IInv'
  BY RestartIInv DEF EInv
<1>2. /\ \A c \in Sessions : Len(queue'[c]) = 0
      /\ UNCHANGED <<clock, pc, issued, claimed>> /\ disturbed \subseteq disturbed'
      /\ \A t \in Marked : pc[t] = "hooked" => SessionOf[t] \in disturbed'
  BY DEF Restart
<1>3. CallsIssued' /\ Exact'
  BY <1>2 DEF EInv, CallsIssued, Exact
<1>4. WaitingQueued' /\ QueuedWaiting' /\ InCallOrder'
  BY <1>2 DEF WaitingQueued, QueuedWaiting, InCallOrder
<1> QED
  BY <1>1, <1>3, <1>4 DEF EInv

\* Every step keeps exactness: one case for each action of Next.
LEMMA NextEInv == EInv /\ [Next]_vars => EInv'
<1> SUFFICES ASSUME EInv, [Next]_vars PROVE EInv'
  OBVIOUS
<1>1. IInv'
  BY NextIInv DEF EInv
<1>2. ASSUME NEW s \in Spawns, PreAgent(s) \/ PreAgentLost(s) PROVE EInv'
  BY <1>2, CallEInv
<1>3. ASSUME NEW s \in Spawns, SubagentStart(s) PROVE EInv'
  BY <1>3, ClaimEInv
<1>4. ASSUME NEW s \in Spawns, Deny(s) \/ SubagentStartLost(s) PROVE EInv'
  BY <1>1, <1>4, LostEInv DEF Deny, SubagentStartLost
<1>5. ASSUME Tick \/ UNCHANGED vars PROVE EInv'
  <2>1. UNCHANGED <<queue, pc, issued, claimed, disturbed>>
    BY <1>5 DEF Tick, vars
  <2> QED
    BY <2>1, <1>1 DEF EInv, CallsIssued, WaitingQueued, QueuedWaiting, InCallOrder, Exact
<1>6. CASE Restart
  BY <1>6, RestartEInv
<1> QED
  BY <1>2, <1>3, <1>4, <1>5, <1>6 DEF Next

\* Until the first disturbance of a session every agent of it is recorded under
\* its own node, whatever happens in the other sessions.
THEOREM AttributionIsExact == Spec => []Exact
<1>1. EInv => Exact
  BY DEF EInv
<1> QED
  BY <1>1, InitEInv, NextEInv, PTL DEF Spec

-----------------------------------------------------------------------------
(* Pack: the shape of its variables, and what a pack shows. *)

Labels == ToSet(Priority)

\* The units that may be counted.
Units == {"neighbours", "contracts", "sibling_receipts"} \X (Files \cup Contracts \cup Nodes)

Draft == [task : Tasks \cup {NoTask}, owns : SUBSET Files, symbols : SUBSET Files,
          neighbours : SUBSET Files, contracts : SUBSET Contracts, siblings : SUBSET Nodes,
          extras : SUBSET {"git_log", "search"}]

Stages == {"new", "gather", "collect", "body", "sections", "manifest", "expose", "offer", "done"}

Deliveries ==
  {Nothing} \cup [kind : {"pack"}, by : Agents]
            \cup [kind : {"manifest"}, by : Agents, sections : SUBSET Labels]

Packs     == [by : Agents, kept : SUBSET Labels, draft : Draft]
Manifests == [by : Agents, sections : SUBSET Labels]
Jobs      == [pull : BOOLEAN, draft : Draft, listed : SUBSET Labels]

AgentStates == {"unborn", "running", "stopped", "counted", "dropped"}

\* How often each kind of disorder has happened.
Disordered == [tears : Nat, switches : Nat, failures : Nat, misses : Nat]

\* The shape of every variable.
PackWell ==
  /\ pull \in {"off", "on", "override"}
  /\ pack \in [Nodes -> {NoFile} \cup Packs]
  /\ manifest \in [Nodes -> {NoFile} \cup Manifests]
  /\ files \in [Nodes -> SUBSET Labels]
  /\ spans \in [Nodes -> SUBSET Files]
  /\ exposed \in [Nodes -> SUBSET Units]
  /\ referenced \in [Nodes -> SUBSET Units]
  /\ offered \in [Nodes -> SUBSET Labels]
  /\ pulled \in [Nodes -> SUBSET Labels]
  /\ receipt \in [Nodes -> SUBSET Files]
  /\ builder \in [Agents -> Stages]
  /\ job \in [Agents -> Jobs]
  /\ given \in [Agents -> Deliveries]
  /\ takenAs \in [Agents -> Nodes \cup {Unclaimed}]
  /\ agent \in [Agents -> AgentStates]
  /\ faults \in Disordered
  /\ shown \in [Nodes -> SUBSET Units]
  /\ fetched \in [Agents -> SUBSET Labels]
  /\ named \in [Agents -> SUBSET Units]
  /\ late \subseteq Agents /\ failed \subseteq Agents /\ trimmed \subseteq Nodes

\* The labels of a pack.
LEMMA LabelsAre ==
  Labels = {"header", "contracts", "owned_symbols", "sibling_receipts",
            "neighbours", "git_log", "search"}
BY DEF Labels, Priority, ToSet

\* What a section is about are finitely many files, contracts or nodes.
LEMMA UnitsFinite ==
  ASSUME NEW d \in Draft, NEW l \in Labels
  PROVE  IsFiniteSet(UnitsIn(d, l))
<1>1. IsFiniteSet(Files) /\ IsFiniteSet(Contracts) /\ IsFiniteSet(Nodes)
  BY DossierAssumption
<1>2. /\ d.owns \subseteq Files /\ d.symbols \subseteq Files /\ d.neighbours \subseteq Files
      /\ d.contracts \subseteq Contracts /\ d.siblings \subseteq Nodes
  BY DEF Draft
<1>3. /\ IsFiniteSet(d.owns) /\ IsFiniteSet(d.symbols) /\ IsFiniteSet(d.neighbours)
      /\ IsFiniteSet(d.contracts) /\ IsFiniteSet(d.siblings)
  BY <1>1, <1>2, FS_Subset
<1>4. ASSUME NEW E PROVE IsFiniteSet({l} \cap E)
  <2>1. IsFiniteSet({} \cup {l})  BY FS_EmptySet, FS_AddElement
  <2>2. {l} \cap E \subseteq {} \cup {l}  OBVIOUS
  <2> QED  BY <2>1, <2>2, FS_Subset
<1> QED  BY <1>3, <1>4, LabelsAre DEF UnitsIn

\* What a pack shows of a section can be counted, and so can what is exposed.
LEMMA ShownAre ==
  ASSUME NEW d \in Draft, NEW labels
  PROVE  /\ ShownIn(d, labels) \subseteq Exposures(d)
         /\ Exposures(d) \subseteq Units
<1>1. \A l \in {"neighbours", "contracts", "sibling_receipts"} :
        UnitsIn(d, l) = (CASE l = "contracts" -> d.contracts [] l = "sibling_receipts" -> d.siblings
                           [] l = "neighbours" -> d.neighbours)
  BY DEF UnitsIn
<1>2. \A l \in {"neighbours", "contracts", "sibling_receipts"} :
        Tagged(l, UnitsIn(d, l)) \subseteq Exposures(d)
  BY <1>1 DEF Exposures
<1>3. ShownIn(d, labels) \subseteq Exposures(d)
  <2> SUFFICES ASSUME NEW u \in ShownIn(d, labels) PROVE u \in Exposures(d)  OBVIOUS
  <2>1. PICK l \in labels \cap {"neighbours", "contracts", "sibling_receipts"} :
          u \in Tagged(l, UnitsIn(d, l))
    BY DEF ShownIn
  <2> QED  BY <1>2, <2>1
<1>4. d.neighbours \subseteq Files /\ d.contracts \subseteq Contracts /\ d.siblings \subseteq Nodes
  BY DEF Draft
<1>5. Exposures(d) \subseteq Units  BY <1>4 DEF Exposures, Tagged, Units
<1> QED  BY <1>3, <1>5

\* If no section is cut off, everything exposed is shown.
LEMMA AllShown ==
  ASSUME NEW d \in Draft, NEW labels, ManifestSections(d) \subseteq labels
  PROVE  Exposures(d) \subseteq ShownIn(d, labels)
<1> DEFINE K == {"neighbours", "contracts", "sibling_receipts"}
<1>1. /\ UnitsIn(d, "contracts") = d.contracts
      /\ UnitsIn(d, "sibling_receipts") = d.siblings
      /\ UnitsIn(d, "neighbours") = d.neighbours
  BY DEF UnitsIn
<1>2. ASSUME NEW u \in Exposures(d)
      PROVE  \E l \in K : u \in Tagged(l, UnitsIn(d, l)) /\ UnitsIn(d, l) # {}
  <2>1. \/ u \in Tagged("neighbours", d.neighbours)
        \/ u \in Tagged("contracts", d.contracts)
        \/ u \in Tagged("sibling_receipts", d.siblings)
    BY DEF Exposures
  <2> QED  BY <1>1, <2>1 DEF Tagged
<1>3. ASSUME NEW l \in K, UnitsIn(d, l) # {} PROVE l \in labels
  <2>1. l \in ManifestSections(d)
    BY <1>3, LabelsAre DEF ManifestSections, SectionsOf, Labels
  <2> QED  BY <2>1
<1> SUFFICES ASSUME NEW u \in Exposures(d) PROVE u \in ShownIn(d, labels)  OBVIOUS
<1>4. PICK l \in K : u \in Tagged(l, UnitsIn(d, l)) /\ UnitsIn(d, l) # {}  BY <1>2
<1>5. l \in labels \cap K  BY <1>3, <1>4
<1> QED  BY <1>4, <1>5 DEF ShownIn

\* Nothing gathered yet is a draft, and what is gathered makes one.
LEMMA Drafts ==
  /\ NoDraft \in Draft /\ NoJob \in Jobs
  /\ \A t \in Tasks \cup {NoTask}, there \in SUBSET Files :
       [NoDraft EXCEPT !.task = t, !.owns = OwnsOf(t), !.symbols = Indexed(t, there),
                       !.neighbours = Neighbours(t, there)] \in Draft
  /\ \A d \in Draft, whole \in BOOLEAN, n \in Nodes :
       [d EXCEPT !.contracts = ContractTexts(d.task, whole),
                 !.siblings = Siblings(n, d.task, receipt),
                 !.extras = GitLog(d, Finds) \cup SearchHits(d, Finds)] \in Draft
<1>1. NoDraft \in Draft /\ NoJob \in Jobs  BY DEF NoDraft, Draft, NoJob, Jobs
<1>2. ASSUME NEW t \in Tasks \cup {NoTask}, NEW there \in SUBSET Files
      PROVE  [NoDraft EXCEPT !.task = t, !.owns = OwnsOf(t), !.symbols = Indexed(t, there),
                       !.neighbours = Neighbours(t, there)] \in Draft
  <2>1. OwnsOf(t) \in SUBSET Files  BY DossierAssumption DEF OwnsOf
  <2>2. Indexed(t, there) \in SUBSET Files  BY DEF Indexed, Readable
  <2>3. Neighbours(t, there) \in SUBSET Files  BY DEF Neighbours, Readable
  <2> QED  BY <2>1, <2>2, <2>3 DEF NoDraft, Draft
<1>3. ASSUME NEW d \in Draft, NEW whole \in BOOLEAN, NEW n \in Nodes
      PROVE  [d EXCEPT !.contracts = ContractTexts(d.task, whole),
                 !.siblings = Siblings(n, d.task, receipt),
                 !.extras = GitLog(d, Finds) \cup SearchHits(d, Finds)] \in Draft
  <2>1. ContractTexts(d.task, whole) \in SUBSET Contracts
    <3>1. d.task \in Tasks \cup {NoTask}  BY DEF Draft
    <3> QED  BY <3>1, DossierAssumption DEF ContractTexts
  <2>2. Siblings(n, d.task, receipt) \in SUBSET Nodes  BY DEF Siblings
  <2>3. GitLog(d, Finds) \cup SearchHits(d, Finds) \in SUBSET {"git_log", "search"}
    BY DEF GitLog, SearchHits
  <2> HIDE DEF ContractTexts, Siblings, GitLog, SearchHits
  <2> QED  BY <2>1, <2>2, <2>3 DEF Draft
<1> QED  BY <1>1, <1>2, <1>3

\* A delivery is nothing, a pack or a manifest.
LEMMA DeliveryIs ==
  ASSUME PackWell, NEW n \in Nodes
  PROVE  /\ Delivery(n) \in Deliveries
         /\ Delivery(n).kind = "manifest" <=> pack[n] = NoFile /\ manifest[n] # NoFile
         /\ Delivery(n).kind = "pack" <=> pack[n] # NoFile
         /\ pack[n] # NoFile => Delivery(n).by = pack[n].by
         /\ pack[n] = NoFile /\ manifest[n] # NoFile =>
              Delivery(n).by = manifest[n].by /\ Delivery(n).sections = manifest[n].sections
<1>1. pack[n] # NoFile => pack[n] \in Packs  BY DEF PackWell
<1>2. manifest[n] # NoFile => manifest[n] \in Manifests  BY DEF PackWell
<1>3. pack[n] # NoFile => pack[n].by \in Agents  BY <1>1 DEF Packs
<1>4. manifest[n] # NoFile => manifest[n].by \in Agents /\ manifest[n].sections \in SUBSET Labels
  BY <1>2 DEF Manifests
<1>5. CASE pack[n] # NoFile
  <2>1. Delivery(n) = [kind |-> "pack", by |-> pack[n].by]  BY <1>5 DEF Delivery
  <2> QED  BY <1>3, <1>5, <2>1 DEF Deliveries
<1>6. CASE pack[n] = NoFile /\ manifest[n] # NoFile
  <2>1. Delivery(n) = [kind |-> "manifest", by |-> manifest[n].by, sections |-> manifest[n].sections]
    BY <1>6 DEF Delivery
  <2> QED  BY <1>4, <1>6, <2>1 DEF Deliveries
<1>7. CASE pack[n] = NoFile /\ manifest[n] = NoFile
  <2>1. Delivery(n) = Nothing  BY <1>7 DEF Delivery
  <2> QED  BY <1>7, <2>1 DEF Deliveries, Nothing
<1> QED  BY <1>5, <1>6, <1>7

\* PackNext, one action at a time.
LEMMA PackMoves ==
  PackNext =>
    \/ \E a \in Agents :
         \/ Call(a) \/ Gather(a) \/ Collect(a) \/ WriteBody(a) \/ WriteSections(a)
         \/ WriteManifest(a) \/ Expose(a) \/ Offer(a) \/ Start(a) \/ Fetch(a) \/ Stop(a)
         \/ Count(a) \/ CountFails(a)
    \/ Switch
BY DEF PackNext, Build

\* At the start everything is empty.
LEMMA PackWellInit == PackInit => PackWell
<1> SUFFICES ASSUME PackInit PROVE PackWell  OBVIOUS
<1>1. job \in [Agents -> Jobs]  BY Drafts DEF PackInit
<1>2. receipt \in [Nodes -> SUBSET Files]
  <2>1. \A n \in Nodes : OwnsOf(TaskOf[n]) \in SUBSET Files
    BY DossierAssumption DEF OwnsOf
  <2> QED  BY <2>1 DEF PackInit
<1>3. faults \in Disordered  BY DEF PackInit, Disordered
<1>4. given \in [Agents -> Deliveries]  BY DEF PackInit, Deliveries
<1>5. builder \in [Agents -> Stages]  BY DEF PackInit, Stages
<1>6. pack \in [Nodes -> {NoFile} \cup Packs] /\ manifest \in [Nodes -> {NoFile} \cup Manifests]
  BY DEF PackInit
<1>7. /\ pull \in {"off", "on", "override"}
      /\ files \in [Nodes -> SUBSET Labels]
      /\ spans \in [Nodes -> SUBSET Files]
      /\ offered \in [Nodes -> SUBSET Labels]
      /\ pulled \in [Nodes -> SUBSET Labels]
      /\ agent \in [Agents -> AgentStates]
      /\ takenAs \in [Agents -> Nodes \cup {Unclaimed}]
  BY DEF PackInit, AgentStates
<1>8. /\ exposed \in [Nodes -> SUBSET Units]
      /\ referenced \in [Nodes -> SUBSET Units]
      /\ shown \in [Nodes -> SUBSET Units]
      /\ fetched \in [Agents -> SUBSET Labels]
      /\ named \in [Agents -> SUBSET Units]
      /\ late \subseteq Agents /\ failed \subseteq Agents /\ trimmed \subseteq Nodes
  BY DEF PackInit
<1> QED  BY <1>1, <1>2, <1>3, <1>4, <1>5, <1>6, <1>7, <1>8 DEF PackWell

-----------------------------------------------------------------------------
(* Dossier: what _fit_to_budget keeps. *)

\* What is kept so far, and what it costs.
Fits == [kept : SUBSET Labels, used : Nat]

\* A section is skipped or added.
Keeps(d, st, l) ==
  IF l \notin SectionsOf(d) \/ (st.kept # {} /\ st.used + CostOf(d, l) > MaxTokens)
  THEN st ELSE Kept(d, st, l)

\* The cost of a section is a number.
LEMMA CostsAre == ASSUME NEW d \in Draft, NEW l \in Labels PROVE CostOf(d, l) \in Nat
<1>1. Cardinality(UnitsIn(d, l)) \in Nat  BY UnitsFinite, FS_CardinalityType
<1> QED  BY <1>1 DEF CostOf

\* What fits still does after a section was looked at.
LEMMA KeepsFits ==
  ASSUME NEW d \in Draft, NEW l \in Labels, NEW st \in Fits PROVE Keeps(d, st, l) \in Fits
<1>1. CostOf(d, l) \in Nat  BY CostsAre
<1> QED  BY <1>1 DEF Keeps, Kept, Fits

\* _fit_to_budget goes through the sections in order of priority.
LEMMA FitIterates ==
  ASSUME NEW d \in Draft
  PROVE  \E g \in [0..7 -> Fits] :
           /\ g[0] = Bare /\ FitToBudget(d) = g[7].kept
           /\ \A i \in 1..7 : g[i] = Keeps(d, g[i - 1], Priority[i])
<1> DEFINE I == 1..7
           it == CHOOSE g : g = [s \in SUBSET DOMAIN Priority |-> IF s = {} THEN Bare
                   ELSE Keeps(d, g[s \ {CHOOSE x \in s : \A y \in s : x >= y}],
                              Priority[CHOOSE x \in s : \A y \in s : x >= y])]
           F == [p \in I \X Fits |-> Keeps(d, p[2], Priority[p[1]])]
           pick == LargestOf(I)
<1>1. DOMAIN Priority = I  BY DEF Priority
<1>2. \A i \in I : Priority[i] \in Labels  BY <1>1 DEF Labels, ToSet
<1>3. IsFiniteSet(I) /\ I \in SUBSET Int
  <2>1. 1 \in Int /\ 7 \in Int  OBVIOUS
  <2>2. IsFiniteSet(1..7)  BY <2>1, FS_Interval
  <2>3. \A i \in 1..7 : i \in Int  OBVIOUS
  <2> QED  BY <2>2, <2>3
<1>4. F \in [I \X Fits -> Fits] /\ \A i \in I, st \in Fits : F[<<i, st>>] = Keeps(d, st, Priority[i])
  <2>1. \A i \in I, st \in Fits : Keeps(d, st, Priority[i]) \in Fits  BY <1>2, KeepsFits
  <2> HIDE DEF I
  <2> QED  BY <2>1
<1>5. pick \in Picks(I)  BY <1>3, LargestPicks
<1>6. \A s \in SUBSET I : s # {} =>
        pick[s] = (CHOOSE x \in s : \A y \in s : x >= y) /\ pick[s] \in s
  BY <1>5 DEF LargestOf, Picks
<1>7. Bare \in Fits  BY DEF Bare, Fits
<1> HIDE DEF F, pick, I
<1>8. PICK g \in Iterations(I, Fits, Bare, pick, F) : TRUE  BY <1>3, <1>4, <1>5, <1>7, FoldExists
<1>9. g = [s \in SUBSET I |-> IF s = {} THEN Bare
             ELSE Keeps(d, g[s \ {CHOOSE x \in s : \A y \in s : x >= y}],
                        Priority[CHOOSE x \in s : \A y \in s : x >= y])]
  <2>1. g \in [SUBSET I -> Fits] /\ g = [s \in SUBSET I |-> IF s = {} THEN Bare ELSE F[<<pick[s], g[s \ {pick[s]}]>>]]
    BY <1>8 DEF Iterations
  <2>2. \A s \in SUBSET I : s # {} => F[<<pick[s], g[s \ {pick[s]}]>>]
          = Keeps(d, g[s \ {CHOOSE x \in s : \A y \in s : x >= y}],
                  Priority[CHOOSE x \in s : \A y \in s : x >= y])
    BY <1>4, <1>6, <2>1
  <2> QED  BY <2>1, <2>2
<1>10. it = [s \in SUBSET I |-> IF s = {} THEN Bare
             ELSE Keeps(d, it[s \ {CHOOSE x \in s : \A y \in s : x >= y}],
                        Priority[CHOOSE x \in s : \A y \in s : x >= y])]
  BY <1>1, <1>9
<1>11. FitToBudget(d) = it[I].kept
  <2>1. FitToBudget(d) = it[DOMAIN Priority].kept
    BY DEF FitToBudget, FoldLeft, MapThenFoldSet, Max, Keeps
  <2> QED  BY <1>1, <2>1
<1> HIDE DEF it
<1>12. Unfolds(it, I, Fits, Bare, pick, F)
  <2>1. it = [s \in SUBSET I |-> it[s]]  BY <1>10
  <2>2. it[{}] = Bare  BY <1>10
  <2>3. ASSUME NEW s \in (SUBSET I) \ {{}}, it[s \ {pick[s]}] \in Fits
        PROVE  it[s] = F[<<pick[s], it[s \ {pick[s]}]>>]
    <3>1. it[s] = Keeps(d, it[s \ {pick[s]}], Priority[pick[s]])  BY <1>6, <1>10
    <3> QED  BY <1>4, <1>6, <2>3, <3>1
  <2> QED  BY <2>1, <2>2, <2>3 DEF Unfolds
<1>13. it \in Iterations(I, Fits, Bare, pick, F)
  BY <1>3, <1>4, <1>5, <1>7, <1>12, FoldUnfolds
<1>14. /\ it[{}] = Bare
       /\ \A k \in 1..7 : it[1..k] = F[<<k, it[1..(k - 1)]>>]
  <2>1. PICK n \in Nat : n = 7  OBVIOUS
  <2>2. it \in Iterations(1..n, Fits, Bare, LargestOf(1..n), F)  BY <1>13, <2>1 DEF I, pick
  <2>3. it[{}] = Bare /\ \A k \in 1..n : it[1..k] = F[<<k, it[1..(k - 1)]>>]
    BY <2>2, FoldPrefixes
  <2> QED  BY <2>1, <2>3
<1>15. it \in [SUBSET (1..7) -> Fits]  BY <1>13 DEF Iterations, I
<1> DEFINE h == [i \in 0..7 |-> it[1..i]]
<1>16. \A i \in 0..7 : 1..i \in SUBSET (1..7)  OBVIOUS
<1>17. h \in [0..7 -> Fits]  BY <1>15, <1>16
<1>18. h[0] = Bare
  <2>1. 1..0 = {}  OBVIOUS
  <2> QED  BY <1>14, <2>1
<1>19. ASSUME NEW i \in 1..7 PROVE h[i] = Keeps(d, h[i - 1], Priority[i])
  <2>1. i \in I /\ i - 1 \in 0..7 /\ i \in 0..7  BY DEF I
  <2>2. h[i] = it[1..i] /\ h[i - 1] = it[1..(i - 1)] /\ h[i - 1] \in Fits  BY <1>17, <2>1
  <2> HIDE DEF h
  <2> QED  BY <1>4, <1>14, <2>1, <2>2
<1>20. h[7] = it[I]  BY DEF I
<1> HIDE DEF h
<1> QED  BY <1>11, <1>17, <1>18, <1>19, <1>20

\* What the sections of a set cost together.
SizeOf(d, k) == FoldSet(LAMBDA l, sum : sum + CostOf(d, l), 0, k)

\* There are finitely many labels.
LEMMA LabelsFinite == IsFiniteSet(Labels)
<1>1. DOMAIN Priority = 1..7  BY DEF Priority
<1> DEFINE f == [i \in 1..7 |-> Priority[i]]
<1>2. f \in Surjection(1..7, Labels)
  <2>1. \A i \in 1..7 : Priority[i] \in Labels  BY <1>1 DEF Labels, ToSet
  <2>2. \A l \in Labels : \E i \in 1..7 : Priority[i] = l  BY <1>1 DEF Labels, ToSet
  <2>3. f \in [1..7 -> Labels]  BY <2>1
  <2>4. \A l \in Labels : \E i \in 1..7 : f[i] = l  BY <2>2
  <2> HIDE DEF f
  <2> QED  BY <2>3, <2>4 DEF Surjection
<1>3. IsFiniteSet(1..7)
  <2>1. 1 \in Int /\ 7 \in Int  OBVIOUS
  <2> QED  BY <2>1, FS_Interval
<1> HIDE DEF f
<1> QED  BY <1>2, <1>3, FS_Surjection

\* A sum over a set of labels is that of an iteration over all of them.
LEMMA SizeIterates ==
  ASSUME NEW d \in Draft, NEW T \in SUBSET Labels,
         NEW g \in Iterations(Labels, Nat, 0, AnyOf(Labels), Adding(Labels, [l \in Labels |-> CostOf(d, l)]))
  PROVE  SizeOf(d, T) = g[T]
<1> DEFINE it == CHOOSE h : h = [s \in SUBSET T |-> IF s = {} THEN 0
                   ELSE h[s \ {CHOOSE x \in s : TRUE}] + CostOf(d, CHOOSE x \in s : TRUE)]
           F == [p \in T \X Nat |-> p[2] + CostOf(d, p[1])]
           G == Adding(Labels, [l \in Labels |-> CostOf(d, l)])
           pick == AnyOf(T)
<1>0. IsFiniteSet(T)  BY LabelsFinite, FS_Subset
<1>1. F \in [T \X Nat -> Nat] /\ \A l \in T, n \in Nat : F[<<l, n>>] = n + CostOf(d, l)
  <2>1. \A l \in T, n \in Nat : n + CostOf(d, l) \in Nat
    <3>1. \A l \in T : CostOf(d, l) \in Nat  BY CostsAre
    <3> QED  BY <3>1
  <2> QED  BY <2>1
<1>2. pick \in Picks(T)  BY AnyPicks
<1>3. \A s \in SUBSET T : s # {} => pick[s] = (CHOOSE x \in s : TRUE) /\ pick[s] \in s
  BY DEF AnyOf
<1>4. \A l \in T, n \in Nat : G[<<l, n>>] = F[<<l, n>>]  BY <1>1 DEF Adding
<1>5. 0 \in Nat  OBVIOUS
<1> HIDE DEF F, G, pick
<1>6. PICK h \in Iterations(T, Nat, 0, pick, F) : TRUE  BY <1>0, <1>1, <1>2, <1>5, FoldExists
<1>7. h = [s \in SUBSET T |-> IF s = {} THEN 0
             ELSE h[s \ {CHOOSE x \in s : TRUE}] + CostOf(d, CHOOSE x \in s : TRUE)]
  <2>1. h \in [SUBSET T -> Nat] /\ h = [s \in SUBSET T |-> IF s = {} THEN 0 ELSE F[<<pick[s], h[s \ {pick[s]}]>>]]
    BY <1>6 DEF Iterations
  <2>2. \A s \in SUBSET T : s # {} => F[<<pick[s], h[s \ {pick[s]}]>>]
          = h[s \ {CHOOSE x \in s : TRUE}] + CostOf(d, CHOOSE x \in s : TRUE)
    BY <1>1, <1>3, <2>1
  <2> QED  BY <2>1, <2>2
<1>8. it = [s \in SUBSET T |-> IF s = {} THEN 0
             ELSE it[s \ {CHOOSE x \in s : TRUE}] + CostOf(d, CHOOSE x \in s : TRUE)]
  BY <1>7
<1>9. SizeOf(d, T) = it[T]  BY DEF SizeOf, FoldSet, MapThenFoldSet
<1> HIDE DEF it
<1>10. Unfolds(it, T, Nat, 0, pick, F)
  <2>1. it = [s \in SUBSET T |-> it[s]]  BY <1>8
  <2>2. it[{}] = 0  BY <1>8
  <2>3. ASSUME NEW s \in (SUBSET T) \ {{}}, it[s \ {pick[s]}] \in Nat
        PROVE  it[s] = F[<<pick[s], it[s \ {pick[s]}]>>]
    <3>1. it[s] = it[s \ {pick[s]}] + CostOf(d, pick[s])  BY <1>3, <1>8
    <3> QED  BY <1>1, <1>3, <2>3, <3>1
  <2> QED  BY <2>1, <2>2, <2>3 DEF Unfolds
<1>11. it \in Iterations(T, Nat, 0, pick, F)  BY <1>0, <1>1, <1>2, <1>5, <1>10, FoldUnfolds
<1>12. AnyOf(Labels) \in Picks(Labels)  BY AnyPicks
<1>13. \A s \in (SUBSET T) \ {{}} : pick[s] = AnyOf(Labels)[s]
  <2>1. \A s \in (SUBSET T) \ {{}} : s \in (SUBSET Labels) \ {{}}  OBVIOUS
  <2> QED  BY <1>3, <2>1 DEF AnyOf
<1>14. g \in Iterations(Labels, Nat, 0, AnyOf(Labels), G)  BY DEF G
<1>15. \A x \in T, v \in Nat : F[<<x, v>>] = G[<<x, v>>]  BY <1>4
<1>16. it[T] = g[T]  BY <1>2, <1>11, <1>12, <1>13, <1>14, <1>15, LabelsFinite, FoldRestricts
<1> QED  BY <1>9, <1>16

\* Sections cost what each of them costs.
LEMMA SizeIs ==
  ASSUME NEW d \in Draft, NEW k \in SUBSET Labels
  PROVE  /\ SizeOf(d, {}) = 0 /\ SizeOf(d, k) \in Nat
         /\ \A l \in Labels \ k : SizeOf(d, k \cup {l}) = SizeOf(d, k) + CostOf(d, l)
<1> DEFINE f == [l \in Labels |-> CostOf(d, l)]
           G == Adding(Labels, f)
           pick == AnyOf(Labels)
<1>1. f \in [Labels -> Nat]
  <2>1. \A l \in Labels : CostOf(d, l) \in Nat  BY CostsAre
  <2> QED  BY <2>1
<1>2. pick \in Picks(Labels)  BY AnyPicks
<1>3. G \in [Labels \X Nat -> Nat]
  <2>1. \A p \in Labels \X Nat : p[2] + f[p[1]] \in Nat
    <3> HIDE DEF f
    <3> QED  BY <1>1
  <2> HIDE DEF f
  <2> QED  BY <2>1 DEF Adding
<1>4. 0 \in Nat  OBVIOUS
<1>5. PICK g \in Iterations(Labels, Nat, 0, pick, G) : TRUE
  <2> HIDE DEF pick, G
  <2> QED  BY <1>2, <1>3, <1>4, LabelsFinite, FoldExists
<1>6. \A T \in SUBSET Labels : SizeOf(d, T) = g[T]  BY SizeIterates
<1>7. g[{}] = 0 /\ g[k] \in Nat  BY DEF Iterations
<1>8. ASSUME NEW l \in Labels \ k PROVE g[k \cup {l}] = g[k] + CostOf(d, l)
  <2>1. k \cup {l} \in SUBSET Labels /\ l \in k \cup {l} /\ (k \cup {l}) \ {l} = k  BY <1>8
  <2>2. g \in Iterations(Labels, Nat, 0, pick, Adding(Labels, f))  OBVIOUS
  <2>3. f[l] = CostOf(d, l)  BY <1>8
  <2> HIDE DEF pick, f
  <2>4. g[k \cup {l}] = g[(k \cup {l}) \ {l}] + f[l]
    BY <1>1, <1>2, <2>1, <2>2, LabelsFinite, SumSplits
  <2> QED  BY <2>1, <2>3, <2>4
<1>9. {} \in SUBSET Labels /\ \A l \in Labels \ k : k \cup {l} \in SUBSET Labels  OBVIOUS
<1> HIDE DEF f, G, pick
<1> QED  BY <1>6, <1>7, <1>8, <1>9

\* What has been kept after the first i sections of the order: with the header, within
\* the budget unless it is the header alone, and nothing left out that would still fit.
CutSoFar(d, st, i) ==
  /\ st.used = SizeOf(d, st.kept)
  /\ i > 0 => "header" \in st.kept
  /\ st.used <= MaxTokens \/ st.kept = {"header"}
  /\ st.kept \subseteq {Priority[j] : j \in 1..i}
  /\ \A j \in 1..i : Priority[j] \notin st.kept /\ UnitsIn(d, Priority[j]) # {} =>
       st.used + CostOf(d, Priority[j]) > MaxTokens

\* The order names no section twice, and the header first.
LEMMA PriorityIs ==
  /\ \A i \in 1..7 : Priority[i] \in Labels
  /\ \A i, j \in 1..7 : Priority[i] = Priority[j] => i = j
  /\ Priority[1] = "header" /\ Labels = {Priority[i] : i \in 1..7}
<1>1. DOMAIN Priority = 1..7  BY DEF Priority
<1>2. \A i \in 1..7 : Priority[i] \in Labels  BY <1>1 DEF Labels, ToSet
<1>3. Priority[1] = "header" /\ Labels = {Priority[i] : i \in 1..7}
  BY <1>1 DEF Labels, ToSet, Priority
<1>4. \A i, j \in 1..7 : Priority[i] = Priority[j] => i = j  BY DEF Priority
<1> QED  BY <1>2, <1>3, <1>4

\* The next section of the order keeps that so.
LEMMA CutStep ==
  ASSUME NEW d \in Draft, NEW st \in Fits, NEW i \in 1..7, CutSoFar(d, st, i - 1)
  PROVE  CutSoFar(d, Keeps(d, st, Priority[i]), i)
<1> DEFINE l == Priority[i]  c == CostOf(d, l)
<1>1. MaxTokens \in Nat  BY DossierAssumption
<1>2. /\ l \in Labels /\ c \in Nat /\ st.used \in Nat /\ st.kept \in SUBSET Labels
      /\ \A j \in 1..7 : CostOf(d, Priority[j]) \in Nat
  BY PriorityIs, CostsAre DEF Fits
<1>3. /\ st.used = SizeOf(d, st.kept)
      /\ i - 1 > 0 => "header" \in st.kept
      /\ st.used <= MaxTokens \/ st.kept = {"header"}
      /\ st.kept \subseteq {Priority[j] : j \in 1..(i - 1)}
      /\ \A j \in 1..(i - 1) : Priority[j] \notin st.kept /\ UnitsIn(d, Priority[j]) # {} =>
           st.used + CostOf(d, Priority[j]) > MaxTokens
  BY DEF CutSoFar
<1>4. l \notin st.kept
  <2>1. \A j \in 1..(i - 1) : Priority[j] # l  BY PriorityIs
  <2> QED  BY <1>3, <2>1
<1>5. i = 1 => st.kept = {} /\ st.used = 0 /\ l = "header"
  <2>1. i = 1 => 1..(i - 1) = {}  OBVIOUS
  <2>2. i = 1 => st.kept = {}  BY <1>3, <2>1
  <2>3. SizeOf(d, {}) = 0  BY SizeIs
  <2> QED  BY <1>3, <2>2, <2>3, PriorityIs
<1>6. i # 1 => "header" \in st.kept  BY <1>3
<1>7. l \in SectionsOf(d) <=> i = 1 \/ UnitsIn(d, l) # {}
  <2>1. l = "header" <=> i = 1  BY PriorityIs
  <2> QED  BY <1>2, <2>1 DEF SectionsOf, Labels
<1>8. \A j \in 1..i : j \in 1..(i - 1) \/ j = i  OBVIOUS
<1> HIDE DEF l, c
<1>9. CASE l \notin SectionsOf(d) \/ (st.kept # {} /\ st.used + c > MaxTokens)
  <2>1. Keeps(d, st, l) = st  BY <1>9 DEF Keeps, c
  <2>2. i # 1  BY <1>5, <1>7, <1>9
  <2>3. UnitsIn(d, l) # {} => st.used + c > MaxTokens  BY <1>7, <1>9
  <2>4. st.kept \subseteq {Priority[j] : j \in 1..i}  BY <1>3
  <2>5. \A j \in 1..i : Priority[j] \notin st.kept /\ UnitsIn(d, Priority[j]) # {} =>
           st.used + CostOf(d, Priority[j]) > MaxTokens
    BY <1>3, <1>8, <2>3 DEF l, c
  <2>6. CutSoFar(d, st, i)  BY <1>3, <1>6, <2>2, <2>4, <2>5 DEF CutSoFar
  <2> QED  BY <2>1, <2>6 DEF l
<1>10. CASE l \in SectionsOf(d) /\ (st.kept = {} \/ st.used + c <= MaxTokens)
  <2> DEFINE k == st.kept \cup {l}  u == st.used + c
  <2>1. Keeps(d, st, l) = [kept |-> k, used |-> u]
    <3>1. ~(l \notin SectionsOf(d) \/ (st.kept # {} /\ st.used + c > MaxTokens))  BY <1>1, <1>2, <1>10
    <3> QED  BY <3>1 DEF Keeps, Kept, c
  <2>2. u = SizeOf(d, k)  BY <1>2, <1>3, <1>4, SizeIs DEF c
  <2>3. "header" \in k  BY <1>5, <1>6
  <2>4. u <= MaxTokens \/ k = {"header"}
    <3>1. CASE i = 1  BY <1>5, <3>1
    <3>2. CASE i # 1  BY <1>6, <1>10, <3>2
    <3> QED  BY <3>1, <3>2
  <2>5. k \subseteq {Priority[j] : j \in 1..i}
    <3>1. i \in 1..i /\ \A j \in 1..(i - 1) : j \in 1..i  OBVIOUS
    <3> QED  BY <1>3, <3>1 DEF l
  <2>6. ASSUME NEW j \in 1..i, Priority[j] \notin k, UnitsIn(d, Priority[j]) # {}
        PROVE  u + CostOf(d, Priority[j]) > MaxTokens
    <3>1. j \in 1..(i - 1)  BY <1>8, <2>6 DEF l
    <3>2. st.used + CostOf(d, Priority[j]) > MaxTokens /\ CostOf(d, Priority[j]) \in Nat
      BY <1>2, <1>3, <2>6, <3>1
    <3> QED  BY <1>1, <1>2, <3>2
  <2>7. CutSoFar(d, [kept |-> k, used |-> u], i)
    <3> HIDE DEF k, u
    <3> QED  BY <2>2, <2>3, <2>4, <2>5, <2>6 DEF CutSoFar
  <2> QED  BY <2>1, <2>7 DEF l
<1> QED  BY <1>1, <1>2, <1>9, <1>10 DEF l

\* _fit_to_budget keeps the header, what fits of the rest, and leaves out nothing that
\* would have fitted.
THEOREM BudgetIsFilled ==
  ASSUME NEW d \in Draft
  PROVE  /\ "header" \in FitToBudget(d) /\ FitToBudget(d) \in SUBSET Labels
         /\ SizeOf(d, FitToBudget(d)) <= MaxTokens \/ FitToBudget(d) = {"header"}
         /\ \A l \in Labels \ FitToBudget(d) : UnitsIn(d, l) # {} =>
              SizeOf(d, FitToBudget(d)) + CostOf(d, l) > MaxTokens
<1>1. PICK g \in [0..7 -> Fits] :
        /\ g[0] = Bare /\ FitToBudget(d) = g[7].kept
        /\ \A i \in 1..7 : g[i] = Keeps(d, g[i - 1], Priority[i])
  BY FitIterates
<1> DEFINE N == {i \in Nat : i <= 7 => CutSoFar(d, g[i], i)}
<1>2. 0 \in N
  <2>1. Bare.used = SizeOf(d, Bare.kept)  BY SizeIs DEF Bare
  <2>2. Bare.used <= MaxTokens  BY DossierAssumption DEF Bare
  <2>3. Bare.kept \subseteq {Priority[j] : j \in 1..0} /\ 1..0 = {}  BY DEF Bare
  <2>4. CutSoFar(d, Bare, 0)  BY <2>1, <2>2, <2>3 DEF CutSoFar
  <2> QED  BY <1>1, <2>4
<1>3. ASSUME NEW i \in N PROVE i + 1 \in N
  <2>0. i \in Nat /\ (i <= 7 => CutSoFar(d, g[i], i))  OBVIOUS
  <2>1. CASE i + 1 <= 7
    <3>1. i + 1 \in 1..7 /\ (i + 1) - 1 = i /\ i \in 0..7  BY <2>0, <2>1
    <3>2. g[i] \in Fits /\ CutSoFar(d, g[i], (i + 1) - 1)  BY <1>1, <2>0, <3>1
    <3>3. CutSoFar(d, Keeps(d, g[i], Priority[i + 1]), i + 1)  BY <3>1, <3>2, CutStep
    <3>4. g[i + 1] = Keeps(d, g[i], Priority[i + 1])  BY <1>1, <3>1
    <3> QED  BY <2>0, <3>3, <3>4
  <2>2. CASE ~(i + 1 <= 7)  BY <2>0, <2>2
  <2> QED  BY <2>1, <2>2
<1>4. N \in SUBSET Nat  OBVIOUS
<1> HIDE DEF N
<1>5. N = Nat  BY <1>2, <1>3, <1>4, Induct
<1>6. CutSoFar(d, g[7], 7)  BY <1>5 DEF N
<1>7. g[7] \in Fits  BY <1>1
<1>8. g[7].used = SizeOf(d, g[7].kept)  BY <1>6 DEF CutSoFar
<1>9. "header" \in g[7].kept /\ g[7].kept \in SUBSET Labels  BY <1>6, <1>7 DEF CutSoFar, Fits
<1>10. \A l \in Labels \ g[7].kept : UnitsIn(d, l) # {} => g[7].used + CostOf(d, l) > MaxTokens
  <2>1. \A l \in Labels : \E j \in 1..7 : l = Priority[j]  BY PriorityIs
  <2> QED  BY <1>6, <2>1 DEF CutSoFar
<1>11. g[7].used <= MaxTokens \/ g[7].kept = {"header"}  BY <1>6 DEF CutSoFar
<1> QED  BY <1>1, <1>8, <1>9, <1>10, <1>11

-----------------------------------------------------------------------------
(* Pack: every action keeps the shape of every variable. *)

\* A disorder is counted.
LEMMA Disorders ==
  ASSUME PackWell, NEW k \in {"tears", "switches", "failures", "misses"}, Occurs(k)
  PROVE  faults' \in Disordered
BY DEF PackWell, Occurs, Disordered

\* A node keeps its labels and units when some are added.
LEMMA RowsAdded ==
  ASSUME NEW V, NEW S, NEW f \in [S -> SUBSET V], NEW n \in S, NEW x \in SUBSET V
  PROVE  /\ [f EXCEPT ![n] = @ \cup x] \in [S -> SUBSET V]
         /\ [f EXCEPT ![n] = x] \in [S -> SUBSET V]
OBVIOUS

\* Every action keeps the shape of every variable.
LEMMA PackWellStep == PackWell /\ [PackNext]_packVars => PackWell'
<1> SUFFICES ASSUME PackWell, [PackNext]_packVars PROVE PackWell'  OBVIOUS
<1>0. \A a \in Agents : NodeOf[a] \in Nodes /\ job[a] \in Jobs /\ job[a].draft \in Draft
        /\ job[a].listed \in SUBSET Labels /\ job[a].pull \in BOOLEAN
  BY PackAssumption DEF PackWell, Jobs
<1> USE DEF disk, tables, world, history
<1>1. ASSUME NEW a \in Agents, Call(a) PROVE PackWell'
  <2>1. job' \in [Agents -> Jobs]
    <3>1. [job[a] EXCEPT !.pull = (pull # "off")] \in Jobs  BY <1>0 DEF Jobs
    <3> QED  BY <1>1, <3>1 DEF Call, PackWell
  <2>2. builder' \in [Agents -> Stages]
    <3>1. \E s \in Stages : builder' = [builder EXCEPT ![a] = s]  BY <1>1 DEF Call, To, Stages
    <3> QED  BY <3>1 DEF PackWell
  <2> QED  BY <1>1, <2>1, <2>2 DEF Call, PackWell
<1>2. ASSUME NEW a \in Agents, Gather(a) PROVE PackWell'
  <2> DEFINE n == NodeOf[a]
  <2>1. PICK whole \in BOOLEAN, there \in Trees :
          LET t == LoadTask(n, whole)
          IN  /\ job' = [job EXCEPT ![a].draft =
                   [NoDraft EXCEPT !.task = t, !.owns = OwnsOf(t), !.symbols = Indexed(t, there),
                                   !.neighbours = Neighbours(t, there)]]
              /\ \/ /\ SetSpans(n, Neighbours(t, there))
                    /\ IF whole THEN UNCHANGED faults ELSE Occurs("tears")
                    /\ UNCHANGED failed
                 \/ whole /\ Fail(a) /\ UNCHANGED spans
    BY <1>2 DEF Gather
  <2> DEFINE t == LoadTask(n, whole)
             d == [NoDraft EXCEPT !.task = t, !.owns = OwnsOf(t), !.symbols = Indexed(t, there),
                                  !.neighbours = Neighbours(t, there)]
  <2>2. t \in Tasks \cup {NoTask} /\ there \in SUBSET Files
    BY <1>0, DossierAssumption, PackAssumption DEF LoadTask
  <2>3. d \in Draft  BY <2>2, Drafts
  <2>4. Neighbours(t, there) \in SUBSET Files  BY <2>2 DEF Neighbours, Readable
  <2>5. /\ job' = [job EXCEPT ![a].draft = d]
        /\ \/ /\ spans' = [spans EXCEPT ![n] = Neighbours(t, there)]
              /\ faults' = faults \/ Occurs("tears")
              /\ failed' = failed
           \/ Occurs("failures") /\ failed' = failed \cup {a} /\ spans' = spans
    BY <2>1 DEF SetSpans, Fail
  <2> HIDE DEF d, t
  <2>6. job' \in [Agents -> Jobs]
    <3>1. [job[a] EXCEPT !.draft = d] \in Jobs  BY <1>0, <2>3 DEF Jobs
    <3> QED  BY <2>5, <3>1 DEF PackWell
  <2>7. spans' \in [Nodes -> SUBSET Files]  BY <1>0, <2>4, <2>5 DEF PackWell
  <2>8. faults' \in Disordered /\ failed' \subseteq Agents
    BY <2>5, Disorders DEF PackWell
  <2>9. builder' \in [Agents -> Stages]  BY <1>2 DEF Gather, To, Stages, PackWell
  <2> QED  BY <1>2, <2>6, <2>7, <2>8, <2>9 DEF Gather, PackWell
<1>3. ASSUME NEW a \in Agents, Collect(a) PROVE PackWell'
  <2>1. PICK whole \in BOOLEAN :
          /\ job' = [job EXCEPT ![a].draft =
               [@ EXCEPT !.contracts = ContractTexts(job[a].draft.task, whole),
                         !.siblings = Siblings(NodeOf[a], job[a].draft.task, receipt),
                         !.extras = GitLog(job[a].draft, Finds) \cup SearchHits(job[a].draft, Finds)]]
          /\ IF whole THEN UNCHANGED faults ELSE Occurs("tears")
    BY <1>3 DEF Collect
  <2> DEFINE b == job[a].draft
             d == [b EXCEPT !.contracts = ContractTexts(b.task, whole),
                            !.siblings = Siblings(NodeOf[a], b.task, receipt),
                            !.extras = GitLog(b, Finds) \cup SearchHits(b, Finds)]
  <2>2. d \in Draft  BY <1>0, Drafts
  <2>3. job' = [job EXCEPT ![a] = [job[a] EXCEPT !.draft = d]]  BY <2>1
  <2> HIDE DEF d
  <2>4. job' \in [Agents -> Jobs]
    <3>1. [job[a] EXCEPT !.draft = d] \in Jobs  BY <1>0, <2>2 DEF Jobs
    <3> QED  BY <2>3, <3>1 DEF PackWell
  <2>5. faults' \in Disordered
    BY <2>1, Disorders DEF PackWell
  <2>6. builder' \in [Agents -> Stages]
    <3>1. \E s \in Stages : builder' = [builder EXCEPT ![a] = s]  BY <1>3 DEF Collect, To, Stages
    <3> QED  BY <3>1 DEF PackWell
  <2> QED  BY <1>3, <2>4, <2>5, <2>6 DEF Collect, PackWell
<1>4. ASSUME NEW a \in Agents, WriteBody(a) PROVE PackWell'
  <2> DEFINE n == NodeOf[a]  d == job[a].draft  kept == FitToBudget(d)
  <2>1. /\ \/ /\ pack' = [pack EXCEPT ![n] = [by |-> a, kept |-> kept, draft |-> d]]
              /\ shown' = [shown EXCEPT ![n] = @ \cup ShownIn(d, kept)]
              /\ trimmed' \subseteq trimmed \cup {n}
              /\ To(a, "expose")
              /\ UNCHANGED <<job, faults, failed>>
           \/ /\ Fail(a)
              /\ Done(a)
              /\ UNCHANGED <<pack, shown, trimmed>>
    BY <1>4 DEF WriteBody
  <2>2. n \in Nodes /\ d \in Draft /\ kept \in SUBSET Labels  BY <1>0, BudgetIsFilled
  <2>3. ShownIn(d, kept) \in SUBSET Units  BY <2>2, ShownAre
  <2> HIDE DEF n, d, kept
  <2>4. [by |-> a, kept |-> kept, draft |-> d] \in Packs  BY <2>2 DEF Packs
  <2>5. /\ pack' \in [Nodes -> {NoFile} \cup Packs]
        /\ shown' \in [Nodes -> SUBSET Units]
        /\ trimmed' \subseteq Nodes
    BY <2>1, <2>2, <2>3, <2>4 DEF PackWell
  <2>6. /\ faults' \in Disordered
        /\ failed' \subseteq Agents
    BY <2>1, Disorders DEF PackWell, Fail
  <2>7. job' \in [Agents -> Jobs] /\ builder' \in [Agents -> Stages]
    <3>1. [NoJob EXCEPT !.pull = job[a].pull] \in Jobs  BY <1>0, Drafts DEF Jobs
    <3> QED  BY <2>1, <3>1 DEF PackWell, Done, To, Stages
  <2> QED  BY <1>4, <2>5, <2>6, <2>7 DEF WriteBody, PackWell
<1>5. ASSUME NEW a \in Agents, WriteSections(a) PROVE PackWell'
  <2> DEFINE n == NodeOf[a]  wanted == ManifestSections(job[a].draft)
  <2>1. PICK w \in {wanted, {}} \cup {wanted \ {l} : l \in wanted} :
           /\ (faults' = faults /\ failed' = failed) \/ Fail(a)
           /\ files' = [files EXCEPT ![n] = @ \cup w]
           /\ job' = [job EXCEPT ![a].listed = Written(wanted, w)]
    BY <1>5 DEF WriteSections
  <2>2. n \in Nodes /\ w \in SUBSET Labels /\ Written(wanted, w) \in SUBSET Labels
    BY <1>0, <2>1 DEF ManifestSections, SectionsOf, Written, Labels
  <2> HIDE DEF n, wanted
  <2>3. files' \in [Nodes -> SUBSET Labels]  BY <2>1, <2>2 DEF PackWell
  <2>4. job' \in [Agents -> Jobs]
    <3>1. [job[a] EXCEPT !.listed = Written(wanted, w)] \in Jobs  BY <1>0, <2>2 DEF Jobs
    <3> QED  BY <2>1, <3>1 DEF PackWell
  <2>5. /\ faults' \in Disordered
        /\ failed' \subseteq Agents
    BY <2>1, Disorders DEF PackWell, Fail
  <2>6. builder' \in [Agents -> Stages]  BY <1>5 DEF WriteSections, To, PackWell, Stages
  <2> QED  BY <1>5, <2>3, <2>4, <2>5, <2>6 DEF WriteSections, PackWell
<1>6. ASSUME NEW a \in Agents, WriteManifest(a) PROVE PackWell'
  <2> DEFINE n == NodeOf[a]
  <2>1. n \in Nodes /\ ShownIn(job[a].draft, job[a].listed) \in SUBSET Units
    BY <1>0, ShownAre
  <2>2. [by |-> a, sections |-> job[a].listed] \in Manifests  BY <1>0 DEF Manifests
  <2>3. /\ manifest' \in [Nodes -> {NoFile} \cup Manifests]
        /\ shown' \in [Nodes -> SUBSET Units]
        /\ faults' \in Disordered
        /\ failed' \subseteq Agents
    <3>1. CASE /\ manifest' = [manifest EXCEPT ![n] = [by |-> a, sections |-> job[a].listed]]
               /\ shown' = [shown EXCEPT ![n] = @ \cup ShownIn(job[a].draft, job[a].listed)]
               /\ UNCHANGED <<faults, failed>>
      BY <2>1, <2>2, <3>1 DEF PackWell
    <3>2. CASE Fail(a) /\ UNCHANGED <<manifest, shown>>
      BY <3>2, Disorders DEF PackWell, Fail
    <3> QED  BY <1>6, <3>1, <3>2 DEF WriteManifest
  <2>4. builder' \in [Agents -> Stages]  BY <1>6 DEF WriteManifest, To, PackWell, Stages
  <2> QED  BY <1>6, <2>3, <2>4 DEF WriteManifest, PackWell
<1>7. ASSUME NEW a \in Agents PROVE [NoJob EXCEPT !.pull = job[a].pull] \in Jobs
  BY <1>0, Drafts DEF Jobs
<1>8. ASSUME NEW a \in Agents, Expose(a) PROVE PackWell'
  <2> DEFINE n == NodeOf[a]
  <2>1. n \in Nodes /\ Exposures(job[a].draft) \in SUBSET Units  BY <1>0, ShownAre
  <2>2. /\ exposed' \in [Nodes -> SUBSET Units]
        /\ faults' \in Disordered
        /\ failed' \subseteq Agents
    <3>1. CASE RecordExposures(n, Exposures(job[a].draft)) /\ UNCHANGED <<faults, failed>>
      BY <2>1, <3>1 DEF PackWell, RecordExposures
    <3>2. CASE Fail(a) /\ UNCHANGED exposed
      BY <3>2, Disorders DEF PackWell, Fail
    <3> QED  BY <1>8, <3>1, <3>2 DEF Expose
  <2>3. builder' \in [Agents -> Stages] /\ job' \in [Agents -> Jobs]
    <3>1. (builder' = [builder EXCEPT ![a] = "offer"] /\ job' = job)
           \/ (builder' = [builder EXCEPT ![a] = "done"]
               /\ job' = [job EXCEPT ![a] = [NoJob EXCEPT !.pull = job[a].pull]])
      BY <1>8 DEF Expose, To, Done
    <3> QED  BY <1>7, <3>1 DEF PackWell, Stages
  <2> QED  BY <1>8, <2>2, <2>3 DEF Expose, PackWell
<1>9. ASSUME NEW a \in Agents, Offer(a) PROVE PackWell'
  <2> DEFINE n == NodeOf[a]
  <2>1. n \in Nodes /\ job[a].listed \in SUBSET Labels  BY <1>0
  <2>2. /\ offered' \in [Nodes -> SUBSET Labels]
        /\ faults' \in Disordered
        /\ failed' \subseteq Agents
    <3>1. CASE RecordPullSections(n, job[a].listed) /\ UNCHANGED <<faults, failed>>
      BY <2>1, <3>1 DEF PackWell, RecordPullSections
    <3>2. CASE Fail(a) /\ UNCHANGED offered
      BY <3>2, Disorders DEF PackWell, Fail
    <3> QED  BY <1>9, <3>1, <3>2 DEF Offer
  <2>3. builder' \in [Agents -> Stages] /\ job' \in [Agents -> Jobs]
    BY <1>7, <1>9 DEF Offer, Done, To, PackWell, Stages
  <2> QED  BY <1>9, <2>2, <2>3 DEF Offer, PackWell
<1>10. ASSUME NEW a \in Agents, Start(a) PROVE PackWell'
  <2>1. PICK n \in Nodes \cup {Unclaimed} :
          /\ faults' = faults \/ Occurs("misses")
          /\ takenAs' = [takenAs EXCEPT ![a] = n]
          /\ given' = [given EXCEPT ![a] = IF n = Unclaimed THEN Nothing ELSE Delivery(n)]
    BY <1>0, <1>10 DEF Start
  <2>2. given' \in [Agents -> Deliveries]
    <3>1. n # Unclaimed => Delivery(n) \in Deliveries  BY DeliveryIs
    <3>2. Nothing \in Deliveries  BY DEF Deliveries
    <3> QED  BY <2>1, <3>1, <3>2 DEF PackWell
  <2>3. agent' \in [Agents -> AgentStates] /\ late' \subseteq Agents
    BY <1>10 DEF Start, PackWell, AgentStates
  <2>4. faults' \in Disordered /\ takenAs' \in [Agents -> Nodes \cup {Unclaimed}]
    BY <2>1, Disorders DEF PackWell
  <2> QED  BY <1>10, <2>2, <2>3, <2>4 DEF Start, PackWell
<1>11. ASSUME NEW a \in Agents, Fetch(a) PROVE PackWell'
  <2>1. given[a].sections \in SUBSET Labels
    <3>1. given[a] \in Deliveries /\ given[a].kind = "manifest"  BY <1>11 DEF Fetch, PackWell
    <3> QED  BY <3>1 DEF Deliveries, Nothing
  <2>2. fetched' \in [Agents -> SUBSET Labels]  BY <1>11, <2>1 DEF Fetch, PackWell
  <2>3. pulled' \in [Nodes -> SUBSET Labels]
    <3>1. \/ pulled' = [pulled EXCEPT ![takenAs[a]] = @ \cup (offered[takenAs[a]] \cap given[a].sections)]
          \/ pulled' = pulled
      BY <1>11 DEF Fetch, MarkFetched
    <3> QED  BY <2>1, <3>1 DEF PackWell
  <2> QED  BY <1>11, <2>2, <2>3 DEF Fetch, PackWell
<1>12. ASSUME NEW a \in Agents, Stop(a) PROVE PackWell'
  <2>1. PICK words \in {{}, IF takenAs[a] = Unclaimed THEN {} ELSE shown[takenAs[a]]} :
          named' = [named EXCEPT ![a] = words]
    BY <1>12 DEF Stop
  <2>2. words \in SUBSET Units
    <3>1. takenAs[a] # Unclaimed => shown[takenAs[a]] \in SUBSET Units  BY DEF PackWell
    <3> QED  BY <2>1, <3>1
  <2>3. named' \in [Agents -> SUBSET Units]  BY <2>1, <2>2 DEF PackWell
  <2>4. agent' \in [Agents -> AgentStates]  BY <1>12 DEF Stop, PackWell, AgentStates
  <2> QED  BY <1>12, <2>3, <2>4 DEF Stop, PackWell
<1>13. ASSUME NEW n \in Nodes, NEW r \in {receipt[n], OwnsOf(TaskOf[n])},
              receipt' = [receipt EXCEPT ![n] = r]
       PROVE  receipt' \in [Nodes -> SUBSET Files]
  <2>1. receipt \in [Nodes -> SUBSET Files]  BY DEF PackWell
  <2>2. OwnsOf(TaskOf[n]) \in SUBSET Files  BY DossierAssumption DEF OwnsOf
  <2>3. r \in SUBSET Files  BY <1>13, <2>1, <2>2
  <2> QED  BY <1>13, <2>1, <2>3
<1>14. ASSUME NEW n \in Nodes, NEW words, MarkReferenced(n, words)
       PROVE  referenced' \in [Nodes -> SUBSET Units]
  BY <1>14 DEF PackWell, MarkReferenced
<1>15. ASSUME NEW a \in Agents, Count(a) PROVE PackWell'
  <2>1. \/ referenced' = referenced /\ receipt' = receipt
        \/ /\ takenAs[a] # Unclaimed /\ MarkReferenced(takenAs[a], named[a])
           /\ \E r \in {receipt[takenAs[a]], OwnsOf(TaskOf[takenAs[a]])} :
                receipt' = [receipt EXCEPT ![takenAs[a]] = r]
    BY <1>15 DEF Count
  <2>2. takenAs[a] # Unclaimed => takenAs[a] \in Nodes  BY DEF PackWell
  <2>3. referenced' \in [Nodes -> SUBSET Units] /\ receipt' \in [Nodes -> SUBSET Files]
    <3>1. CASE referenced' = referenced /\ receipt' = receipt  BY <3>1 DEF PackWell
    <3>2. CASE referenced' # referenced \/ receipt' # receipt
      BY <1>13, <1>14, <2>1, <2>2, <3>2
    <3> QED  BY <3>1, <3>2
  <2>4. agent' \in [Agents -> AgentStates]  BY <1>15 DEF Count, PackWell, AgentStates
  <2> QED  BY <1>15, <2>3, <2>4 DEF Count, PackWell
<1>16. ASSUME NEW a \in Agents, CountFails(a) PROVE PackWell'
  <2>1. takenAs[a] \in Nodes  BY <1>16 DEF CountFails, PackWell
  <2>2. /\ \E words : MarkReferenced(takenAs[a], words)
        /\ \E r \in {receipt[takenAs[a]], OwnsOf(TaskOf[takenAs[a]])} :
             receipt' = [receipt EXCEPT ![takenAs[a]] = r]
    BY <1>16 DEF CountFails
  <2>3. referenced' \in [Nodes -> SUBSET Units] /\ receipt' \in [Nodes -> SUBSET Files]
    BY <1>13, <1>14, <2>1, <2>2
  <2>4. agent' \in [Agents -> AgentStates]  BY <1>16 DEF CountFails, PackWell, AgentStates
  <2>5. faults' \in Disordered  BY <1>16, Disorders DEF CountFails
  <2> QED  BY <1>16, <2>3, <2>4, <2>5 DEF CountFails, PackWell
<1>17. ASSUME Switch PROVE PackWell'
  <2>1. /\ pull' \in {"off", "on", "override"}
        /\ builder' \in [Agents -> Stages]
        /\ failed' \subseteq Agents
        /\ faults' \in Disordered
    BY <1>17, Disorders DEF Switch, PackWell, Stages
  <2>2. agent' \in [Agents -> AgentStates]  BY <1>17 DEF Switch, PackWell, AgentStates
  <2> QED  BY <1>17, <2>1, <2>2 DEF Switch, PackWell
<1>18. CASE UNCHANGED packVars  BY <1>18 DEF packVars, PackWell
<1> QED
  BY <1>1, <1>2, <1>3, <1>4, <1>5, <1>6, <1>8, <1>9, <1>10, <1>11, <1>12, <1>15, <1>16, <1>17, <1>18, PackMoves

\* Whatever happens, every variable keeps its shape.
THEOREM PackTypes == PackSpec => []PackWell
<1>1. PackInit => PackWell  BY PackWellInit
<1>2. PackWell /\ [PackNext]_packVars => PackWell'  BY PackWellStep
<1> QED  BY <1>1, <1>2, PTL DEF PackSpec

-----------------------------------------------------------------------------
(* Pack: builders and agents take their turns. *)

Working == {"gather", "collect", "body", "sections", "manifest", "expose", "offer"}

\* Where a builder goes from each stage, without or with pull.
Follows(from, pulls, to) ==
  \/ from = "gather" /\ to = "collect"
  \/ from = "collect" /\ ~pulls /\ to = "body"
  \/ from = "collect" /\ pulls /\ to = "sections"
  \/ from = "body" /\ to \in {"expose", "done"}
  \/ from = "sections" /\ to = "manifest"
  \/ from = "manifest" /\ to = "expose"
  \/ from = "expose" /\ ~pulls /\ to = "done"
  \/ from = "expose" /\ pulls /\ to = "offer"
  \/ from = "offer" /\ to = "done"

\* A step of a builder takes it on, and leaves agents and other builders alone.
LEMMA Works ==
  ASSUME PackWell, NEW a \in Agents, Build(a)
  PROVE  /\ builder[a] \in Working
         /\ \E s \in Stages : builder' = [builder EXCEPT ![a] = s] /\ Follows(builder[a], job[a].pull, s)
         /\ job' \in [Agents -> Jobs] /\ job'[a].pull = job[a].pull
         /\ \A b \in Agents \ {a} : job'[b] = job[b]
         /\ UNCHANGED <<agent, late, takenAs, given, fetched, named, pull, pulled, referenced, receipt>>
<1> USE DEF disk, tables, world, history, Working, Follows, Stages
<1>0. job \in [Agents -> Jobs] /\ job[a] \in Jobs  BY DEF PackWell
<1>1. PackWell'
  <2>1. PackNext  BY DEF PackNext
  <2> QED  BY <2>1, PackWellStep
<1>2. job' \in [Agents -> Jobs]  BY <1>1 DEF PackWell
<1>3. ASSUME NEW d, job' = [job EXCEPT ![a] = [job[a] EXCEPT !.draft = d]]
      PROVE  job'[a].pull = job[a].pull /\ \A b \in Agents \ {a} : job'[b] = job[b]
  BY <1>0, <1>3 DEF Jobs
<1>4. ASSUME Done(a)
      PROVE  /\ job'[a].pull = job[a].pull /\ \A b \in Agents \ {a} : job'[b] = job[b]
             /\ builder' = [builder EXCEPT ![a] = "done"]
  BY <1>0, <1>4 DEF Jobs, Done, NoJob, To
<1>5. CASE Gather(a)
  <2>1. \E d : job' = [job EXCEPT ![a] = [job[a] EXCEPT !.draft = d]]  BY <1>0, <1>5 DEF Gather
  <2>2. job'[a].pull = job[a].pull /\ \A b \in Agents \ {a} : job'[b] = job[b]  BY <1>3, <2>1
  <2> QED  BY <1>2, <1>5, <2>2 DEF Gather, To
<1>6. CASE Collect(a)
  <2>1. \E d : job' = [job EXCEPT ![a] = [job[a] EXCEPT !.draft = d]]  BY <1>0, <1>6 DEF Collect
  <2>2. job'[a].pull = job[a].pull /\ \A b \in Agents \ {a} : job'[b] = job[b]  BY <1>3, <2>1
  <2>3. builder' = [builder EXCEPT ![a] = IF job[a].pull THEN "sections" ELSE "body"]
    BY <1>6 DEF Collect, To
  <2>4. job[a].pull \in BOOLEAN  BY <1>0 DEF Jobs
  <2> QED  BY <1>2, <1>6, <2>2, <2>3, <2>4 DEF Collect
<1>7. CASE WriteBody(a)
  <2>1. \/ To(a, "expose") /\ job' = job
        \/ Done(a)
    BY <1>7 DEF WriteBody
  <2>2. job'[a].pull = job[a].pull /\ \A b \in Agents \ {a} : job'[b] = job[b]  BY <1>4, <2>1
  <2>3. \E s \in {"expose", "done"} : builder' = [builder EXCEPT ![a] = s]  BY <1>4, <2>1 DEF To
  <2> QED  BY <1>2, <1>7, <2>2, <2>3 DEF WriteBody
<1>8. CASE WriteSections(a)
  <2>1. \E l : job' = [job EXCEPT ![a] = [job[a] EXCEPT !.listed = l]]
    BY <1>0, <1>8 DEF WriteSections
  <2>2. job'[a].pull = job[a].pull /\ \A b \in Agents \ {a} : job'[b] = job[b]
    BY <1>0, <2>1 DEF Jobs
  <2> QED  BY <1>2, <1>8, <2>2 DEF WriteSections, To
<1>9. CASE WriteManifest(a)  BY <1>2, <1>9 DEF WriteManifest, To
<1>10. CASE Expose(a)
  <2>1. \/ job[a].pull /\ To(a, "offer") /\ job' = job
        \/ ~job[a].pull /\ Done(a)
    BY <1>10 DEF Expose
  <2>2. job'[a].pull = job[a].pull /\ \A b \in Agents \ {a} : job'[b] = job[b]  BY <1>4, <2>1
  <2>3. \/ job[a].pull /\ builder' = [builder EXCEPT ![a] = "offer"]
        \/ ~job[a].pull /\ builder' = [builder EXCEPT ![a] = "done"]
    BY <1>4, <2>1 DEF To
  <2> QED  BY <1>2, <1>10, <2>2, <2>3 DEF Expose
<1>11. CASE Offer(a)
  <2>1. Done(a)  BY <1>11 DEF Offer
  <2> QED  BY <1>2, <1>4, <1>11, <2>1 DEF Offer
<1> QED  BY <1>5, <1>6, <1>7, <1>8, <1>9, <1>10, <1>11 DEF Build

\* The agent of a spawn has stopped.
Gone(a) == agent[a] \in {"stopped", "counted", "dropped"}

\* An agent of a node is not unborn without its builder having begun, one that is on
\* time has its builder through, and of two agents of a node one has stopped; a builder
\* goes through the stages of its mode.
Order ==
  \A a \in Agents :
    /\ builder[a] = "body" => ~job[a].pull
    /\ builder[a] \in {"sections", "manifest", "offer"} => job[a].pull
    /\ builder[a] \in Working => a \in ApplyTo
    /\ agent[a] # "unborn" => builder[a] # "new"
    /\ agent[a] # "unborn" /\ a \notin late => builder[a] = "done"
    /\ \A b \in Agents : a # b /\ NodeOf[a] = NodeOf[b] /\ builder[a] # "new" /\ builder[b] # "new"
         => Gone(a) \/ Gone(b)

\* At the start no builder has begun.
LEMMA OrderInit == PackInit => Order
BY DEF PackInit, Order, Working

\* Every action keeps the order.
LEMMA OrderStep == PackWell /\ Order /\ [PackNext]_packVars => Order'
<1> SUFFICES ASSUME PackWell, Order, [PackNext]_packVars PROVE Order'  OBVIOUS
<1> USE DEF disk, tables, world, history
<1>0. /\ builder \in [Agents -> Stages] /\ job \in [Agents -> Jobs]
      /\ agent \in [Agents -> AgentStates]
  BY DEF PackWell
<1>1. ASSUME NEW a \in Agents, Call(a) PROVE Order'
  <2>1. /\ builder[a] = "new"
        /\ \A b \in Agents : NodeOf[b] = NodeOf[a] => builder[b] = "new" \/ Gone(b)
        /\ builder' = [builder EXCEPT ![a] = IF a \in ApplyTo THEN "gather" ELSE "done"]
        /\ agent' = agent /\ late' = late
        /\ \A b \in Agents \ {a} : job'[b] = job[b]
    BY <1>0, <1>1 DEF Call, To, Gone, AgentStates
  <2>2. builder'[a] \in {"gather", "done"} /\ (builder'[a] = "gather" => a \in ApplyTo)
        /\ \A b \in Agents \ {a} : builder'[b] = builder[b]
    BY <1>0, <2>1
  <2>3. agent[a] = "unborn"  BY <2>1 DEF Order
  <2> QED  BY <2>1, <2>2, <2>3 DEF Order, Working, Gone
<1>2. ASSUME NEW a \in Agents, Build(a) PROVE Order'
  <2>1. PICK s \in Stages : builder' = [builder EXCEPT ![a] = s] /\ Follows(builder[a], job[a].pull, s)
    BY <1>2, Works
  <2>2. /\ builder[a] \in Working /\ job'[a].pull = job[a].pull
        /\ \A b \in Agents \ {a} : job'[b] = job[b]
        /\ agent' = agent /\ late' = late
    BY <1>2, Works
  <2>3. builder'[a] = s /\ \A b \in Agents \ {a} : builder'[b] = builder[b]  BY <1>0, <2>1
  <2>4. s # "new"  BY <2>1 DEF Follows
  <2>5. builder[a] # "new" /\ builder[a] # "done"  BY <2>2 DEF Working
  <2>6. agent[a] = "unborn" \/ a \in late  BY <2>5 DEF Order
  <2>7. (s = "body" => ~job[a].pull) /\ (s \in {"sections", "manifest", "offer"} => job[a].pull)
    <3>1. builder[a] \in {"sections", "manifest", "offer"} => job[a].pull  BY DEF Order
    <3> QED  BY <2>1, <3>1 DEF Follows
  <2>8. a \in ApplyTo  BY <2>2 DEF Order
  <2> QED  BY <2>2, <2>3, <2>4, <2>5, <2>6, <2>7, <2>8 DEF Order, Gone
<1>3. ASSUME NEW a \in Agents, Start(a) PROVE Order'
  <2>1. /\ builder[a] # "new" /\ agent[a] = "unborn"
        /\ agent' = [agent EXCEPT ![a] = "running"]
        /\ late' = IF builder[a] = "done" THEN late ELSE late \cup {a}
        /\ builder' = builder /\ job' = job
    BY <1>3 DEF Start
  <2>2. agent'[a] = "running" /\ \A b \in Agents \ {a} : agent'[b] = agent[b]  BY <1>0, <2>1
  <2>3. ~Gone(a)  BY <2>1 DEF Gone
  <2>4. \A b \in Agents \ {a} : Gone(b)' = Gone(b)  BY <2>2 DEF Gone
  <2> QED  BY <2>1, <2>2, <2>3, <2>4 DEF Order
<1>4. ASSUME UNCHANGED <<builder, job, late>>,
             \A b \in Agents : agent'[b] = agent[b] \/ (agent[b] # "unborn" /\ Gone(b)')
      PROVE  Order'
  <2>1. \A b \in Agents : Gone(b) => Gone(b)'  BY <1>4 DEF Gone
  <2>2. \A b \in Agents : agent'[b] # "unborn" => agent[b] # "unborn"  BY <1>4
  <2> QED  BY <1>4, <2>1, <2>2 DEF Order
<1>5. ASSUME NEW a \in Agents, Stop(a) \/ Count(a) \/ CountFails(a) PROVE Order'
  <2>1. PICK s \in {"stopped", "counted", "dropped"} :
          /\ agent[a] \in {"running", "stopped"} /\ agent' = [agent EXCEPT ![a] = s]
          /\ UNCHANGED <<builder, job, late>>
    BY <1>5 DEF Stop, Count, CountFails
  <2>2. agent'[a] = s /\ \A b \in Agents \ {a} : agent'[b] = agent[b]  BY <1>0, <2>1
  <2>3. \A b \in Agents : agent'[b] = agent[b] \/ (agent[b] # "unborn" /\ Gone(b)')
    BY <2>1, <2>2 DEF Gone
  <2> QED  BY <1>4, <2>1, <2>3
<1>6. ASSUME Switch PROVE Order'
  <2>1. /\ \A b \in Agents : builder'[b] = IF builder[b] = "new" THEN "new" ELSE "done"
        /\ \A b \in Agents : agent'[b] = IF agent[b] = "stopped" THEN "dropped" ELSE agent[b]
        /\ late' = late /\ job' = job
    BY <1>6 DEF Switch
  <2>2. \A b \in Agents : Gone(b)' = Gone(b) /\ (agent'[b] = "unborn" <=> agent[b] = "unborn")
    BY <2>1 DEF Gone
  <2> QED  BY <2>1, <2>2 DEF Order, Working
<1>7. ASSUME UNCHANGED <<builder, job, agent, late>> PROVE Order'
  BY <1>7 DEF Order, Gone
<1>8. \A a \in Agents : Fetch(a) => UNCHANGED <<builder, job, agent, late>>  BY DEF Fetch
<1>9. UNCHANGED packVars => UNCHANGED <<builder, job, agent, late>>  BY DEF packVars
<1> QED  BY <1>1, <1>2, <1>3, <1>5, <1>6, <1>7, <1>8, <1>9 DEF PackNext

-----------------------------------------------------------------------------
(* Pack: sections. *)

\* A builder has written what it lists, and a manifest is given for some node.
Readables ==
  \A a \in Agents : /\ job[a].listed \subseteq files[NodeOf[a]]
                    /\ given[a].kind = "manifest" => takenAs[a] \in Nodes

\* At the start nothing is listed.
LEMMA SectionsInit == PackInit => SectionsThere /\ Readables
BY PackAssumption DEF PackInit, SectionsThere, Readables, NoJob, NoFile, Nothing

\* Every action lists only what is there.
LEMMA SectionsStep ==
  PackWell /\ SectionsThere /\ Readables /\ [PackNext]_packVars => SectionsThere' /\ Readables'
<1> SUFFICES ASSUME PackWell, SectionsThere, Readables, [PackNext]_packVars
             PROVE  SectionsThere' /\ Readables'
  OBVIOUS
<1> USE DEF disk, tables, world, history
<1>0. /\ \A a \in Agents : NodeOf[a] \in Nodes
      /\ job \in [Agents -> Jobs] /\ files \in [Nodes -> SUBSET Labels]
      /\ manifest \in [Nodes -> {NoFile} \cup Manifests] /\ offered \in [Nodes -> SUBSET Labels]
      /\ given \in [Agents -> Deliveries] /\ takenAs \in [Agents -> Nodes \cup {Unclaimed}]
  BY PackAssumption DEF PackWell
<1>1. ASSUME UNCHANGED <<files, manifest, offered, takenAs, given>>, \A a \in Agents : job'[a].listed \subseteq job[a].listed
      PROVE  SectionsThere' /\ Readables'
  BY <1>1 DEF SectionsThere, Readables
<1>2. \A a \in Agents : Done(a) => job'[a].listed = {} /\ \A b \in Agents \ {a} : job'[b] = job[b]
  BY <1>0 DEF Done, NoJob
<1>3. ASSUME NEW a \in Agents, Call(a) \/ Gather(a) \/ Collect(a)
      PROVE SectionsThere' /\ Readables'
  <2>1. job' = [job EXCEPT ![a] = job'[a]] /\ job'[a].listed = job[a].listed
    <3>1. CASE Call(a)
      <4>1. job' = [job EXCEPT ![a] = [job[a] EXCEPT !.pull = (pull # "off")]]  BY <1>0, <3>1 DEF Call
      <4> QED  BY <1>0, <4>1 DEF Jobs
    <3>2. CASE Gather(a) \/ Collect(a)
      <4>1. PICK d : job' = [job EXCEPT ![a] = [job[a] EXCEPT !.draft = d]]
        BY <1>0, <3>2 DEF Gather, Collect
      <4> QED  BY <1>0, <4>1 DEF Jobs
    <3> QED  BY <1>3, <3>1, <3>2
  <2>2. \A b \in Agents : job'[b].listed = job[b].listed  BY <1>0, <2>1
  <2>3. UNCHANGED <<files, manifest, offered, takenAs, given>>  BY <1>3 DEF Call, Gather, Collect
  <2> QED  BY <1>1, <2>2, <2>3
<1>4. ASSUME NEW a \in Agents, WriteBody(a) PROVE SectionsThere' /\ Readables'
  <2>1. job' = job \/ Done(a)  BY <1>4 DEF WriteBody
  <2>2. \A b \in Agents : job'[b].listed \subseteq job[b].listed  BY <1>2, <2>1
  <2>3. UNCHANGED <<files, manifest, offered, takenAs, given>>  BY <1>4 DEF WriteBody
  <2> QED  BY <1>1, <2>2, <2>3
<1>5. ASSUME NEW a \in Agents, WriteSections(a) PROVE SectionsThere' /\ Readables'
  <2> DEFINE n == NodeOf[a]
  <2>1. PICK w, wanted :
          /\ files' = [files EXCEPT ![n] = @ \cup w]
          /\ job' = [job EXCEPT ![a].listed = wanted \cap w]
    BY <1>5 DEF WriteSections, Written
  <2>2. UNCHANGED <<manifest, offered, takenAs, given>>  BY <1>5 DEF WriteSections
  <2>3. \A m \in Nodes : files[m] \subseteq files'[m]  BY <1>0, <2>1
  <2>4. w \subseteq files'[n]  BY <1>0, <2>1
  <2>5. job'[a].listed \subseteq w /\ \A b \in Agents \ {a} : job'[b] = job[b]
    BY <1>0, <2>1 DEF Jobs
  <2>6. Readables'  BY <1>0, <2>2, <2>3, <2>4, <2>5 DEF Readables
  <2>7. SectionsThere'  BY <1>0, <2>2, <2>3 DEF SectionsThere, Readables
  <2> QED  BY <2>6, <2>7
<1>6. ASSUME NEW a \in Agents, WriteManifest(a) PROVE SectionsThere' /\ Readables'
  <2> DEFINE n == NodeOf[a]
  <2>1. \/ manifest' = [manifest EXCEPT ![n] = [by |-> a, sections |-> job[a].listed]]
        \/ manifest' = manifest
    BY <1>6 DEF WriteManifest
  <2>2. UNCHANGED <<files, offered, takenAs, given, job>>  BY <1>6 DEF WriteManifest
  <2>3. \A m \in Nodes : manifest'[m] = manifest[m] \/ (m = n /\ manifest'[m].sections = job[a].listed)
    BY <1>0, <2>1
  <2>4. job[a].listed \subseteq files[n]  BY DEF Readables
  <2> QED  BY <1>0, <2>2, <2>3, <2>4 DEF SectionsThere, Readables
<1>7. ASSUME NEW a \in Agents, Expose(a) PROVE SectionsThere' /\ Readables'
  <2>1. job' = job \/ Done(a)  BY <1>7 DEF Expose
  <2>2. \A b \in Agents : job'[b].listed \subseteq job[b].listed  BY <1>2, <2>1
  <2>3. UNCHANGED <<files, manifest, offered, takenAs, given>>  BY <1>7 DEF Expose
  <2> QED  BY <1>1, <2>2, <2>3
<1>8. ASSUME NEW a \in Agents, Offer(a) PROVE SectionsThere' /\ Readables'
  <2> DEFINE n == NodeOf[a]
  <2>1. \/ offered' = [offered EXCEPT ![n] = @ \cup job[a].listed]
        \/ offered' = offered
    BY <1>8 DEF Offer, RecordPullSections
  <2>2. Done(a) /\ UNCHANGED <<files, manifest, takenAs, given>>  BY <1>8 DEF Offer
  <2>3. \A m \in Nodes : offered'[m] = offered[m] \/ (m = n /\ offered'[m] = offered[m] \cup job[a].listed)
    BY <1>0, <2>1
  <2>4. job[a].listed \subseteq files[n]  BY DEF Readables
  <2>5. Readables'  BY <1>2, <2>2 DEF Readables
  <2>6. SectionsThere'  BY <1>0, <2>2, <2>3, <2>4 DEF SectionsThere, Readables
  <2> QED  BY <2>5, <2>6
<1>9. ASSUME NEW a \in Agents, Start(a) PROVE SectionsThere' /\ Readables'
  <2>1. PICK n \in Nodes \cup {Unclaimed} :
          /\ takenAs' = [takenAs EXCEPT ![a] = n]
          /\ given' = [given EXCEPT ![a] = IF n = Unclaimed THEN Nothing ELSE Delivery(n)]
    <3>1. PICK n \in {NodeOf[b] : b \in {b \in Agents : builder[b] # "new"}} \cup {Unclaimed} :
            /\ takenAs' = [takenAs EXCEPT ![a] = n]
            /\ given' = [given EXCEPT ![a] = IF n = Unclaimed THEN Nothing ELSE Delivery(n)]
      BY <1>9 DEF Start
    <3>2. n \in Nodes \cup {Unclaimed}  BY <1>0, <3>1
    <3> QED  BY <3>1, <3>2
  <2>2. UNCHANGED <<files, manifest, offered, job>>  BY <1>9 DEF Start
  <2>3. n \in Nodes => (Delivery(n).kind = "manifest" => Delivery(n).sections \subseteq files[n])
    BY DeliveryIs DEF SectionsThere
  <2>4. \A b \in Agents \ {a} : given'[b] = given[b] /\ takenAs'[b] = takenAs[b]
    BY <1>0, <2>1
  <2>5. given'[a].kind = "manifest" =>
          n \in Nodes /\ takenAs'[a] = n /\ given'[a] = Delivery(n)
    BY <1>0, <2>1 DEF Nothing
  <2> QED  BY <1>0, <2>2, <2>3, <2>4, <2>5 DEF SectionsThere, Readables
<1>10. ASSUME UNCHANGED <<files, manifest, offered, takenAs, given, job>> PROVE SectionsThere' /\ Readables'
  BY <1>1, <1>10
<1>11. \A a \in Agents : Fetch(a) \/ Stop(a) \/ Count(a) \/ CountFails(a) =>
          UNCHANGED <<files, manifest, offered, takenAs, given, job>>
  BY DEF Fetch, Stop, Count, CountFails
<1>12. Switch \/ UNCHANGED packVars => UNCHANGED <<files, manifest, offered, takenAs, given, job>>
  BY DEF Switch, packVars
<1> QED
  BY <1>3, <1>4, <1>5, <1>6, <1>7, <1>8, <1>9, <1>10, <1>11, <1>12, PackMoves

\* Every section a manifest names, and every section counted, is a file there.
THEOREM NoDanglingSection == PackSpec => []SectionsThere
<1>1. PackInit => PackWell /\ SectionsThere /\ Readables  BY PackWellInit, SectionsInit
<1>2. PackWell /\ SectionsThere /\ Readables /\ [PackNext]_packVars
        => (PackWell /\ SectionsThere /\ Readables)'
  BY PackWellStep, SectionsStep
<1> QED  BY <1>1, <1>2, PTL DEF PackSpec

-----------------------------------------------------------------------------
(* Pack: what each action can do to an agent, a builder or a node. *)

\* Files, rows and what the history has noted are never taken back.
LEMMA Grows ==
  ASSUME PackWell, [PackNext]_packVars
  PROVE  /\ late \subseteq late' /\ failed \subseteq failed' /\ trimmed \subseteq trimmed'
         /\ \A n \in Nodes : /\ exposed[n] \subseteq exposed'[n] /\ referenced[n] \subseteq referenced'[n]
                             /\ offered[n] \subseteq offered'[n] /\ pulled[n] \subseteq pulled'[n]
                             /\ shown[n] \subseteq shown'[n]
         /\ faults'.switches = 0 => faults.switches = 0 /\ pull' = pull
<1> USE DEF disk, tables, world, history
<1> DEFINE Marks == late \subseteq late' /\ failed \subseteq failed' /\ trimmed \subseteq trimmed'
           Rows == \A n \in Nodes : /\ exposed[n] \subseteq exposed'[n] /\ referenced[n] \subseteq referenced'[n]
                             /\ offered[n] \subseteq offered'[n] /\ pulled[n] \subseteq pulled'[n]
                             /\ shown[n] \subseteq shown'[n]
           Mode == faults'.switches = 0 => faults.switches = 0 /\ pull' = pull
<1>0. /\ exposed \in [Nodes -> SUBSET Units] /\ referenced \in [Nodes -> SUBSET Units]
      /\ offered \in [Nodes -> SUBSET Labels] /\ pulled \in [Nodes -> SUBSET Labels]
      /\ shown \in [Nodes -> SUBSET Units]
      /\ faults \in Disordered
  BY DEF PackWell
<1>1. \A V : \A f \in [Nodes -> SUBSET V] : \A n \in Nodes : \A x :
        \A m \in Nodes : f[m] \subseteq [f EXCEPT ![n] = @ \cup x][m]
  OBVIOUS
<1>2. \A a \in Agents : NodeOf[a] \in Nodes  BY PackAssumption
<1>3. Occurs("tears") \/ Occurs("failures") \/ Occurs("misses") => faults'.switches = faults.switches
  BY <1>0 DEF Occurs, Disordered
<1>4. Occurs("switches") => faults'.switches # 0  BY <1>0 DEF Occurs, Disordered
<1>5. \A a \in Agents : Fail(a) => failed \subseteq failed' /\ faults'.switches = faults.switches
  BY <1>3 DEF Fail
<1>6. ASSUME NEW a \in Agents, Call(a) \/ Gather(a) \/ Collect(a) PROVE Marks /\ Rows /\ Mode
  <2>1. UNCHANGED <<exposed, referenced, offered, pulled, shown, late, trimmed, pull>>
    BY <1>6 DEF Call, Gather, Collect
  <2>2. failed \subseteq failed' /\ faults'.switches = faults.switches
    BY <1>3, <1>5, <1>6 DEF Call, Gather, Collect
  <2> QED  BY <2>1, <2>2
<1>7. ASSUME NEW a \in Agents, WriteBody(a) PROVE Marks /\ Rows /\ Mode
  <2>1. UNCHANGED <<exposed, referenced, offered, pulled, late, pull>>  BY <1>7 DEF WriteBody
  <2>2. (\E x : shown' = [shown EXCEPT ![NodeOf[a]] = @ \cup x]) \/ shown' = shown
    BY <1>7 DEF WriteBody
  <2>3. failed \subseteq failed' /\ trimmed \subseteq trimmed' /\ faults'.switches = faults.switches
    BY <1>5, <1>7 DEF WriteBody
  <2>4. \A m \in Nodes : shown[m] \subseteq shown'[m]  BY <1>0, <1>2, <2>2
  <2> QED  BY <2>1, <2>3, <2>4
<1>8. ASSUME NEW a \in Agents, WriteSections(a) PROVE Marks /\ Rows /\ Mode
  <2>1. UNCHANGED <<exposed, referenced, offered, pulled, shown, late, trimmed, pull>>
    BY <1>8 DEF WriteSections
  <2>2. failed \subseteq failed' /\ faults'.switches = faults.switches
    BY <1>5, <1>8 DEF WriteSections
  <2> QED  BY <2>1, <2>2
<1>9. ASSUME NEW a \in Agents, WriteManifest(a) PROVE Marks /\ Rows /\ Mode
  <2>1. UNCHANGED <<exposed, referenced, offered, pulled, late, trimmed, pull>>
    BY <1>9 DEF WriteManifest
  <2>2. (\E x : shown' = [shown EXCEPT ![NodeOf[a]] = @ \cup x]) \/ shown' = shown
    BY <1>9 DEF WriteManifest
  <2>3. failed \subseteq failed' /\ faults'.switches = faults.switches
    BY <1>5, <1>9 DEF WriteManifest
  <2>4. \A m \in Nodes : shown[m] \subseteq shown'[m]  BY <1>0, <1>2, <2>2
  <2> QED  BY <2>1, <2>3, <2>4
<1>10. ASSUME NEW a \in Agents, Expose(a) PROVE Marks /\ Rows /\ Mode
  <2>1. UNCHANGED <<referenced, offered, pulled, shown, late, trimmed, pull>>  BY <1>10 DEF Expose
  <2>2. (\E x : exposed' = [exposed EXCEPT ![NodeOf[a]] = @ \cup x]) \/ exposed' = exposed
    BY <1>10 DEF Expose, RecordExposures
  <2>3. failed \subseteq failed' /\ faults'.switches = faults.switches
    BY <1>5, <1>10 DEF Expose
  <2>4. \A m \in Nodes : exposed[m] \subseteq exposed'[m]  BY <1>0, <1>2, <2>2
  <2> QED  BY <2>1, <2>3, <2>4
<1>11. ASSUME NEW a \in Agents, Offer(a) PROVE Marks /\ Rows /\ Mode
  <2>1. UNCHANGED <<exposed, referenced, pulled, shown, late, trimmed, pull>>  BY <1>11 DEF Offer
  <2>2. (\E x : offered' = [offered EXCEPT ![NodeOf[a]] = @ \cup x]) \/ offered' = offered
    BY <1>11 DEF Offer, RecordPullSections
  <2>3. failed \subseteq failed' /\ faults'.switches = faults.switches
    BY <1>5, <1>11 DEF Offer
  <2>4. \A m \in Nodes : offered[m] \subseteq offered'[m]  BY <1>0, <1>2, <2>2
  <2> QED  BY <2>1, <2>3, <2>4
<1>12. ASSUME NEW a \in Agents, Start(a) PROVE Marks /\ Rows /\ Mode
  <2>1. faults'.switches = faults.switches  BY <1>3, <1>12 DEF Start
  <2> QED  BY <1>12, <2>1 DEF Start
<1>13. ASSUME NEW a \in Agents, Fetch(a) PROVE Marks /\ Rows /\ Mode
  <2>1. UNCHANGED <<exposed, referenced, offered, shown, late, failed, trimmed, pull, faults>>
    BY <1>13 DEF Fetch
  <2>2. (\E m, x : pulled' = [pulled EXCEPT ![m] = @ \cup x]) \/ pulled' = pulled
    BY <1>13 DEF Fetch, MarkFetched
  <2>3. \A m \in Nodes : pulled[m] \subseteq pulled'[m]  BY <1>0, <2>2
  <2> QED  BY <2>1, <2>3
<1>14. ASSUME NEW a \in Agents, Stop(a) \/ Count(a) \/ CountFails(a) PROVE Marks /\ Rows /\ Mode
  <2>1. UNCHANGED <<exposed, offered, pulled, shown, late, failed, trimmed, pull>>
    BY <1>14 DEF Stop, Count, CountFails
  <2>2. (\E m, x : referenced' = [referenced EXCEPT ![m] = @ \cup x]) \/ referenced' = referenced
    BY <1>14 DEF Stop, Count, CountFails, MarkReferenced
  <2>3. \A m \in Nodes : referenced[m] \subseteq referenced'[m]  BY <1>0, <2>2
  <2>4. faults'.switches = faults.switches  BY <1>3, <1>14 DEF Stop, Count, CountFails
  <2> QED  BY <2>1, <2>3, <2>4
<1>15. ASSUME Switch PROVE Marks /\ Rows /\ Mode  BY <1>4, <1>15 DEF Switch
<1>16. ASSUME UNCHANGED packVars PROVE Marks /\ Rows /\ Mode  BY <1>16 DEF packVars
<1> HIDE DEF Marks, Rows, Mode
<1>17. Marks /\ Rows /\ Mode
  BY <1>6, <1>7, <1>8, <1>9, <1>10, <1>11, <1>12, <1>13, <1>14, <1>15, <1>16, PackMoves
<1> QED  BY <1>17 DEF Marks, Rows, Mode

\* A builder stays where it is with what it has, or goes on, or dies with its daemon.
LEMMA BuilderMoves ==
  ASSUME PackWell, [PackNext]_packVars, NEW b \in Agents
  PROVE  \/ builder'[b] = builder[b] /\ job'[b] = job[b] /\ ~Build(b)
         \/ Build(b) /\ Follows(builder[b], job[b].pull, builder'[b])
         \/ builder[b] = "new" /\ builder'[b] \in {"gather", "done"} /\ (b \in ApplyTo => builder'[b] = "gather")
         \/ builder[b] \in Working /\ builder'[b] = "done" /\ job'[b] = job[b] /\ b \in failed'
<1> USE DEF disk, tables, world, history
<1>0. builder \in [Agents -> Stages] /\ job \in [Agents -> Jobs]  BY DEF PackWell
<1>1. CASE Build(b)
  <2>1. PICK s \in Stages : builder' = [builder EXCEPT ![b] = s] /\ Follows(builder[b], job[b].pull, s)
    BY <1>1, Works
  <2> QED  BY <1>0, <1>1, <2>1
<1>2. ASSUME ~Build(b), NEW a \in Agents, Build(a)
      PROVE  builder'[b] = builder[b] /\ job'[b] = job[b]
  <2>1. a # b  BY <1>2
  <2>2. \E s : builder' = [builder EXCEPT ![a] = s]  BY <1>2, Works
  <2> QED  BY <1>0, <1>2, <2>1, <2>2, Works
<1>3. ASSUME NEW a \in Agents, Call(a), a # b PROVE builder'[b] = builder[b] /\ job'[b] = job[b]
  BY <1>0, <1>3 DEF Call, To
<1>4. CASE Call(b)
  <2>1. builder[b] = "new" /\ builder' = [builder EXCEPT ![b] = IF b \in ApplyTo THEN "gather" ELSE "done"]
    BY <1>4 DEF Call, To
  <2> QED  BY <1>0, <2>1
<1>5. CASE Switch
  <2>1. /\ builder'[b] = IF builder[b] = "new" THEN "new" ELSE "done"
        /\ failed' = failed \cup {a \in Agents : builder[a] \notin {"new", "done"}} /\ job' = job
    BY <1>5 DEF Switch
  <2>2. builder[b] \in Working \/ builder[b] = "new" \/ builder[b] = "done"
    BY <1>0 DEF Stages, Working
  <2>3. CASE builder[b] = "new" \/ builder[b] = "done"
    <3>1. builder'[b] = builder[b] /\ job'[b] = job[b]  BY <2>1, <2>3
    <3>2. ~Build(b)
      <4>1. builder[b] \notin Working  BY <2>3 DEF Working
      <4> QED  BY <4>1, Works
    <3> QED  BY <3>1, <3>2
  <2>4. CASE builder[b] \in Working
    <3>1. builder[b] \notin {"new", "done"}  BY <2>4 DEF Working
    <3> QED  BY <2>1, <2>4, <3>1
  <2> QED  BY <2>2, <2>3, <2>4
<1>6. ASSUME UNCHANGED <<builder, job>> PROVE builder'[b] = builder[b] /\ job'[b] = job[b]
  BY <1>6
<1>7. \A a \in Agents :
        Start(a) \/ Fetch(a) \/ Stop(a) \/ Count(a) \/ CountFails(a) => UNCHANGED <<builder, job>>
  BY DEF Start, Fetch, Stop, Count, CountFails
<1>8. UNCHANGED packVars => UNCHANGED <<builder, job>>  BY DEF packVars
<1> QED  BY <1>1, <1>2, <1>3, <1>4, <1>5, <1>6, <1>7, <1>8 DEF PackNext

\* An agent stays as it is, is started, stops, or has its stop counted or dropped.
LEMMA AgentMoves ==
  ASSUME PackWell, [PackNext]_packVars, NEW a \in Agents
  PROVE  /\ named'[a] = named[a] \/ Stop(a)
         /\ fetched'[a] = fetched[a] \/ Fetch(a)
         /\ (given'[a] = given[a] /\ takenAs'[a] = takenAs[a]) \/ Start(a)
         /\ \/ agent'[a] = agent[a] \/ Start(a) \/ Stop(a) \/ Count(a)
            \/ agent[a] = "stopped" /\ agent'[a] = "dropped"
<1> USE DEF disk, tables, world, history
<1>0. /\ agent \in [Agents -> AgentStates] /\ given \in [Agents -> Deliveries]
      /\ takenAs \in [Agents -> Nodes \cup {Unclaimed}]
      /\ named \in [Agents -> SUBSET Units] /\ fetched \in [Agents -> SUBSET Labels]
  BY DEF PackWell
<1>1. \A b \in Agents : Call(b) \/ Build(b) => UNCHANGED <<agent, takenAs, given, named, fetched>>
  BY Works DEF Call
<1>2. \A b \in Agents : Start(b) =>
        /\ UNCHANGED <<named, fetched>>
        /\ a = b \/ (agent'[a] = agent[a] /\ takenAs'[a] = takenAs[a] /\ given'[a] = given[a])
  BY <1>0 DEF Start
<1>3. \A b \in Agents : Fetch(b) =>
        UNCHANGED <<named, agent, takenAs, given>> /\ (a = b \/ fetched'[a] = fetched[a])
  BY <1>0 DEF Fetch
<1>4. \A b \in Agents : Stop(b) =>
        UNCHANGED <<fetched, takenAs, given>> /\ (a = b \/ (agent'[a] = agent[a] /\ named'[a] = named[a]))
  BY <1>0 DEF Stop
<1>5. \A b \in Agents : Count(b) =>
        UNCHANGED <<fetched, takenAs, given, named>> /\ (a = b \/ agent'[a] = agent[a])
  BY <1>0 DEF Count
<1>6. \A b \in Agents : CountFails(b) =>
        /\ UNCHANGED <<fetched, takenAs, given, named>>
        /\ agent'[a] = agent[a] \/ (agent[a] = "stopped" /\ agent'[a] = "dropped")
  BY <1>0 DEF CountFails
<1>7. Switch => /\ UNCHANGED <<takenAs, given, named, fetched>>
                /\ agent'[a] = agent[a] \/ (agent[a] = "stopped" /\ agent'[a] = "dropped")
  BY DEF Switch
<1>8. UNCHANGED packVars => UNCHANGED <<agent, takenAs, given, named, fetched>>
  BY DEF packVars
<1> QED  BY <1>1, <1>2, <1>3, <1>4, <1>5, <1>6, <1>7, <1>8 DEF PackNext

\* Only builders touch what stands for a node.
LEMMA NodeMoves ==
  ASSUME PackWell, [PackNext]_packVars, NEW n \in Nodes
  PROVE  /\ pack'[n] = pack[n] \/ \E a \in Agents : NodeOf[a] = n /\ WriteBody(a)
         /\ manifest'[n] = manifest[n] \/ \E a \in Agents : NodeOf[a] = n /\ WriteManifest(a)
         /\ shown'[n] = shown[n] \/ \E a \in Agents : NodeOf[a] = n /\ (WriteBody(a) \/ WriteManifest(a))
         /\ exposed'[n] = exposed[n] \/ \E a \in Agents : NodeOf[a] = n /\ Expose(a)
<1> USE DEF disk, tables, world, history
<1>0. /\ pack \in [Nodes -> {NoFile} \cup Packs] /\ manifest \in [Nodes -> {NoFile} \cup Manifests]
      /\ shown \in [Nodes -> SUBSET Units] /\ exposed \in [Nodes -> SUBSET Units]
      /\ \A a \in Agents : NodeOf[a] \in Nodes
  BY PackAssumption DEF PackWell
<1> DEFINE Same == pack'[n] = pack[n] /\ manifest'[n] = manifest[n] /\ shown'[n] = shown[n] /\ exposed'[n] = exposed[n]
<1>1. ASSUME NEW a \in Agents, WriteBody(a), NodeOf[a] # n PROVE Same
  <2>1. /\ (\E x : pack' = [pack EXCEPT ![NodeOf[a]] = x]) \/ pack' = pack
        /\ (\E x : shown' = [shown EXCEPT ![NodeOf[a]] = x]) \/ shown' = shown
        /\ UNCHANGED <<manifest, exposed>>
    BY <1>1 DEF WriteBody
  <2> QED  BY <1>0, <1>1, <2>1
<1>2. ASSUME NEW a \in Agents, WriteManifest(a), NodeOf[a] # n PROVE Same
  <2>1. /\ (\E x : manifest' = [manifest EXCEPT ![NodeOf[a]] = x]) \/ manifest' = manifest
        /\ (\E x : shown' = [shown EXCEPT ![NodeOf[a]] = x]) \/ shown' = shown
        /\ UNCHANGED <<pack, exposed>>
    BY <1>2 DEF WriteManifest
  <2> QED  BY <1>0, <1>2, <2>1
<1>3. ASSUME NEW a \in Agents, Expose(a), NodeOf[a] # n PROVE Same
  <2>1. /\ (\E x : exposed' = [exposed EXCEPT ![NodeOf[a]] = x]) \/ exposed' = exposed
        /\ UNCHANGED <<pack, manifest, shown>>
    BY <1>3 DEF Expose, RecordExposures
  <2> QED  BY <1>0, <1>3, <2>1
<1>4. \A a \in Agents : WriteBody(a) => UNCHANGED <<manifest, exposed>>  BY DEF WriteBody
<1>5. \A a \in Agents : WriteManifest(a) => UNCHANGED <<pack, exposed>>  BY DEF WriteManifest
<1>6. \A a \in Agents : Expose(a) => UNCHANGED <<pack, manifest, shown>>  BY DEF Expose
<1>7. ASSUME NEW a \in Agents,
             \/ Call(a) \/ Gather(a) \/ Collect(a) \/ WriteSections(a) \/ Offer(a) \/ Start(a)
             \/ Fetch(a) \/ Stop(a) \/ Count(a) \/ CountFails(a)
      PROVE  Same
  BY <1>7 DEF Call, Gather, Collect, WriteSections, Offer, Start, Fetch, Stop, Count, CountFails
<1>8. Switch \/ UNCHANGED packVars => Same  BY DEF Switch, packVars
<1> QED  BY <1>1, <1>2, <1>3, <1>4, <1>5, <1>6, <1>7, <1>8, PackMoves

-----------------------------------------------------------------------------
(* Pack: rates, uses and deliveries. *)

\* No write of an agent of n has failed.
Unfailed(n) == \A a \in failed : NodeOf[a] # n

\* What a builder lists is everything there is to list, and what it is about to expose
\* is shown.
Ready ==
  \A a \in Agents \ failed :
    /\ builder[a] = "manifest" => job[a].listed = ManifestSections(job[a].draft)
    /\ builder[a] = "expose" /\ NodeOf[a] \notin trimmed => Exposures(job[a].draft) \subseteq shown[NodeOf[a]]

\* At the start no builder has come that far.
LEMMA ReadyInit == PackInit => Ready /\ RatesFair
BY DEF PackInit, Ready, RatesFair

\* What a builder does at its last steps.
LEMMA BodyWritten ==
  ASSUME PackWell, NEW a \in Agents, WriteBody(a), a \notin failed'
  PROVE  /\ job' = job /\ builder[a] = "body" /\ builder'[a] = "expose"
         /\ pack'[NodeOf[a]] = [by |-> a, kept |-> FitToBudget(job[a].draft), draft |-> job[a].draft]
         /\ shown'[NodeOf[a]] = shown[NodeOf[a]] \cup ShownIn(job[a].draft, FitToBudget(job[a].draft))
         /\ FitToBudget(job[a].draft) = SectionsOf(job[a].draft) \/ NodeOf[a] \in trimmed'
<1>1. ~Fail(a)  BY DEF Fail
<1>2. NodeOf[a] \in Nodes  BY PackAssumption
<1> QED  BY <1>1, <1>2 DEF WriteBody, PackWell, To

\* Likewise for a manifest.
LEMMA ManifestWritten ==
  ASSUME PackWell, NEW a \in Agents, WriteManifest(a)
  PROVE  /\ job' = job /\ builder[a] = "manifest" /\ builder'[a] = "expose"
         /\ a \notin failed' =>
              /\ manifest'[NodeOf[a]] = [by |-> a, sections |-> job[a].listed]
              /\ shown'[NodeOf[a]] = shown[NodeOf[a]] \cup ShownIn(job[a].draft, job[a].listed)
<1>1. a \notin failed' => ~Fail(a)  BY DEF Fail
<1>2. NodeOf[a] \in Nodes  BY PackAssumption
<1> QED  BY <1>1, <1>2 DEF WriteManifest, PackWell, To

\* Likewise for sections, rows of units and rows of sections.
LEMMA SectionsWritten ==
  ASSUME PackWell, NEW a \in Agents, WriteSections(a), a \notin failed'
  PROVE  job'[a].draft = job[a].draft /\ job'[a].listed = ManifestSections(job[a].draft)
<1>1. ~Fail(a)  BY DEF Fail
<1>2. job' = [job EXCEPT ![a] = [job[a] EXCEPT !.listed = ManifestSections(job[a].draft)]]
  BY <1>1 DEF WriteSections, Written
<1>3. job[a] \in Jobs /\ job \in [Agents -> Jobs]  BY DEF PackWell
<1> QED  BY <1>2, <1>3 DEF Jobs

\* Rows of the units.
LEMMA ExposedRows ==
  ASSUME PackWell, NEW a \in Agents, Expose(a)
  PROVE  /\ builder[a] = "expose" /\ (job[a].pull => job' = job)
         /\ a \notin failed' => exposed'[NodeOf[a]] = exposed[NodeOf[a]] \cup Exposures(job[a].draft)
         /\ exposed'[NodeOf[a]] \subseteq exposed[NodeOf[a]] \cup Exposures(job[a].draft)
<1>1. a \notin failed' => ~Fail(a)  BY DEF Fail
<1>2. NodeOf[a] \in Nodes  BY PackAssumption
<1> QED  BY <1>1, <1>2 DEF Expose, RecordExposures, PackWell

\* Rows of the sections.
LEMMA OfferedRows ==
  ASSUME PackWell, NEW a \in Agents, Offer(a), a \notin failed'
  PROVE  builder[a] = "offer" /\ offered'[NodeOf[a]] = offered[NodeOf[a]] \cup job[a].listed
<1>1. ~Fail(a)  BY DEF Fail
<1>2. NodeOf[a] \in Nodes  BY PackAssumption
<1> QED  BY <1>1, <1>2 DEF Offer, RecordPullSections, PackWell

\* Which step a builder at some stage takes.
LEMMA StepAt ==
  ASSUME NEW a \in Agents, Build(a)
  PROVE  /\ builder[a] = "gather" => Gather(a)
         /\ builder[a] = "collect" => Collect(a)
         /\ builder[a] = "body" => WriteBody(a)
         /\ builder[a] = "sections" => WriteSections(a)
         /\ builder[a] = "manifest" => WriteManifest(a)
         /\ builder[a] = "expose" => Expose(a)
         /\ builder[a] = "offer" => Offer(a)
BY DEF Build, Gather, Collect, WriteBody, WriteSections, WriteManifest, Expose, Offer

\* Every action keeps that so.
LEMMA ReadyStep ==
  PackWell /\ Ready /\ RatesFair /\ [PackNext]_packVars => Ready' /\ RatesFair'
<1> SUFFICES ASSUME PackWell, Ready, RatesFair, [PackNext]_packVars PROVE Ready' /\ RatesFair'
  OBVIOUS
<1>0. \A a \in Agents : NodeOf[a] \in Nodes /\ job[a].draft \in Draft
  BY PackAssumption DEF PackWell, Jobs
<1>1. ASSUME NEW a \in Agents, a \notin failed'
      PROVE  /\ builder'[a] = "manifest" => job'[a].listed = ManifestSections(job'[a].draft)
             /\ builder'[a] = "expose" /\ NodeOf[a] \notin trimmed' =>
                  Exposures(job'[a].draft) \subseteq shown'[NodeOf[a]]
  <2> DEFINE n == NodeOf[a]
  <2>0. a \notin failed /\ (n \notin trimmed' => n \notin trimmed) /\ shown[n] \subseteq shown'[n]
    BY <1>0, <1>1, Grows
  <2>1. CASE builder'[a] = builder[a] /\ job'[a] = job[a]  BY <2>0, <2>1 DEF Ready
  <2>2. CASE Build(a) /\ Follows(builder[a], job[a].pull, builder'[a])
    <3>1. CASE builder'[a] = "manifest"
      <4>1. WriteSections(a)  BY <2>2, <3>1, StepAt DEF Follows
      <4> QED  BY <1>1, <3>1, <4>1, SectionsWritten
    <3>2. CASE builder'[a] = "expose" /\ n \notin trimmed'
      <4>1. WriteBody(a) \/ WriteManifest(a)  BY <2>2, <3>2, StepAt DEF Follows
      <4>2. CASE WriteBody(a)
        <5>1. /\ job' = job /\ FitToBudget(job[a].draft) = SectionsOf(job[a].draft)
              /\ shown'[n] = shown[n] \cup ShownIn(job[a].draft, FitToBudget(job[a].draft))
          BY <1>1, <3>2, <4>2, BodyWritten
        <5>2. ManifestSections(job[a].draft) \subseteq FitToBudget(job[a].draft)
          BY <5>1 DEF ManifestSections
        <5>3. Exposures(job[a].draft) \subseteq ShownIn(job[a].draft, FitToBudget(job[a].draft))
          BY <1>0, <5>2, AllShown
        <5> QED  BY <3>2, <5>1, <5>3
      <4>3. CASE WriteManifest(a)
        <5>1. /\ job' = job /\ builder[a] = "manifest"
              /\ shown'[n] = shown[n] \cup ShownIn(job[a].draft, job[a].listed)
          BY <1>1, <4>3, ManifestWritten
        <5>2. job[a].listed = ManifestSections(job[a].draft)  BY <2>0, <5>1 DEF Ready
        <5>3. Exposures(job[a].draft) \subseteq ShownIn(job[a].draft, job[a].listed)
          BY <1>0, <5>2, AllShown
        <5> QED  BY <3>2, <5>1, <5>3
      <4> QED  BY <4>1, <4>2, <4>3
    <3> QED  BY <3>1, <3>2
  <2>3. CASE builder'[a] \in {"gather", "done"}  BY <2>3
  <2> QED  BY <1>1, <2>1, <2>2, <2>3, BuilderMoves
<1>2. Ready'  BY <1>1 DEF Ready
<1>3. ASSUME NEW n \in Nodes, n \notin trimmed', \A a \in failed' : NodeOf[a] # n
      PROVE  exposed'[n] \subseteq shown'[n]
  <2>1. n \notin trimmed /\ (\A a \in failed : NodeOf[a] # n) /\ shown[n] \subseteq shown'[n]
    BY <1>3, Grows
  <2>2. exposed[n] \subseteq shown[n]  BY <2>1 DEF RatesFair
  <2>3. ASSUME NEW a \in Agents, NodeOf[a] = n, Expose(a) PROVE exposed'[n] \subseteq shown[n]
    <3>1. builder[a] = "expose" /\ exposed'[n] \subseteq exposed[n] \cup Exposures(job[a].draft)
      BY <2>3, ExposedRows
    <3>2. Exposures(job[a].draft) \subseteq shown[n]  BY <2>1, <2>3, <3>1 DEF Ready
    <3> QED  BY <2>2, <3>1, <3>2
  <2> QED  BY <2>1, <2>2, <2>3, NodeMoves
<1>4. RatesFair'  BY <1>3 DEF RatesFair
<1> QED  BY <1>2, <1>4

\* Every unit shown has a row, or its builder is about to make one; every section of a
\* manifest likewise; and what an agent was given or, once it has stopped, names has
\* its rows.
Accounted ==
  /\ \A n \in Nodes : Unfailed(n) =>
       /\ \A u \in shown[n] : u \in exposed[n] \/ \E a \in Agents :
            NodeOf[a] = n /\ builder[a] = "expose" /\ u \in Exposures(job[a].draft)
       /\ manifest[n] # NoFile =>
            \/ manifest[n].sections \subseteq offered[n]
            \/ \E a \in Agents : /\ NodeOf[a] = n /\ builder[a] \in {"expose", "offer"} /\ job[a].pull
                                 /\ job[a].listed = manifest[n].sections
  /\ \A a \in Agents : Orderly(a) /\ Unfailed(NodeOf[a]) =>
       /\ given[a].kind = "manifest" => given[a].sections \subseteq offered[NodeOf[a]]
       /\ agent[a] = "stopped" => named[a] \subseteq exposed[NodeOf[a]]
  /\ \A a \in Agents : agent[a] = "unborn" => fetched[a] = {}

\* At the start nothing is shown.
LEMMA AccountedInit == PackInit => Accounted /\ UseCounted
BY DEF PackInit, Accounted, UseCounted, Nothing

\* No agent of the node of a was late, and no write of a failed.
Punctual(a) == a \in ApplyTo \ failed /\ \A b \in Agents : NodeOf[b] = NodeOf[a] => b \notin late

\* Order and punctuality were there if they are there.
LEMMA OrderlyWas ==
  ASSUME PackWell, [PackNext]_packVars, NEW a \in Agents
  PROVE  /\ Punctual(a)' => Punctual(a)
         /\ Orderly(a)' => Punctual(a)' /\ (Start(a) \/ Orderly(a))
         /\ \A n \in Nodes : Unfailed(n)' => Unfailed(n)
<1>1. late \subseteq late' /\ failed \subseteq failed'  BY Grows
<1>2. takenAs'[a] = takenAs[a] \/ Start(a)  BY AgentMoves
<1> QED  BY <1>1, <1>2 DEF Orderly, Punctual, Unfailed

\* When an agent of a node is alive or about to start in order, no builder of the node
\* is at work.
LEMMA NoneAtWork ==
  ASSUME PackWell, Order, NEW a \in Agents, ~Gone(a), builder[a] = "done",
         \A c \in Agents : NodeOf[c] = NodeOf[a] => c \notin late,
         NEW b \in Agents, NodeOf[b] = NodeOf[a]
  PROVE  builder[b] \notin Working
<1>1. CASE b = a  BY <1>1 DEF Working
<1>2. CASE b # a
  <2>1. builder[b] = "new" \/ Gone(b)  BY <1>2 DEF Order
  <2>2. Gone(b) => builder[b] = "done"  BY DEF Order, Gone
  <2> QED  BY <2>1, <2>2 DEF Working
<1> QED  BY <1>1, <1>2

\* Every action keeps the accounts of a node.
LEMMA NodeAccounted ==
  ASSUME PackWell, Order, Accounted, [PackNext]_packVars, NEW n \in Nodes, Unfailed(n)'
  PROVE  /\ \A u \in shown'[n] : u \in exposed'[n] \/ \E a \in Agents :
              NodeOf[a] = n /\ builder'[a] = "expose" /\ u \in Exposures(job'[a].draft)
         /\ manifest'[n] # NoFile =>
              \/ manifest'[n].sections \subseteq offered'[n]
              \/ \E a \in Agents : /\ NodeOf[a] = n /\ builder'[a] \in {"expose", "offer"} /\ job'[a].pull
                                   /\ job'[a].listed = manifest'[n].sections
<1>0. \A a \in Agents : NodeOf[a] \in Nodes /\ job[a].draft \in Draft
  BY PackAssumption DEF PackWell, Jobs
<1>1. Unfailed(n) /\ \A a \in Agents : NodeOf[a] = n => a \notin failed'
  <2>1. \A a \in failed' : NodeOf[a] # n  BY DEF Unfailed
  <2>2. failed \subseteq failed'  BY Grows
  <2> QED  BY <2>1, <2>2 DEF Unfailed
<1>2. exposed[n] \subseteq exposed'[n] /\ offered[n] \subseteq offered'[n]  BY Grows
<1>3. ASSUME NEW u \in shown[n], u \notin exposed'[n]
      PROVE  \E a \in Agents : NodeOf[a] = n /\ builder'[a] = "expose" /\ u \in Exposures(job'[a].draft)
  <2>1. PICK a \in Agents : NodeOf[a] = n /\ builder[a] = "expose" /\ u \in Exposures(job[a].draft)
    BY <1>1, <1>2, <1>3 DEF Accounted
  <2>2. ~Build(a)
    <3>1. Build(a) => Expose(a)  BY <2>1, StepAt
    <3>2. Expose(a) => u \in exposed'[n]  BY <1>1, <2>1, ExposedRows
    <3> QED  BY <1>3, <3>1, <3>2
  <2>3. builder'[a] = builder[a] /\ job'[a] = job[a]  BY <1>1, <2>1, <2>2, BuilderMoves
  <2> QED  BY <2>1, <2>3
<1>4. ASSUME NEW u \in shown'[n], u \notin shown[n]
      PROVE  \E a \in Agents : NodeOf[a] = n /\ builder'[a] = "expose" /\ u \in Exposures(job'[a].draft)
  <2>1. PICK a \in Agents : NodeOf[a] = n /\ (WriteBody(a) \/ WriteManifest(a))  BY <1>4, NodeMoves
  <2>2. a \notin failed'  BY <1>1, <2>1
  <2>3. /\ job' = job /\ builder'[a] = "expose"
        /\ \E l : shown'[n] = shown[n] \cup ShownIn(job[a].draft, l)
    BY <2>1, <2>2, BodyWritten, ManifestWritten
  <2>4. u \in Exposures(job[a].draft)  BY <1>0, <1>4, <2>3, ShownAre
  <2> QED  BY <2>1, <2>3, <2>4
<1>5. ASSUME manifest'[n] = manifest[n], manifest[n] # NoFile, ~(manifest[n].sections \subseteq offered'[n])
      PROVE  \E a \in Agents : /\ NodeOf[a] = n /\ builder'[a] \in {"expose", "offer"} /\ job'[a].pull
                               /\ job'[a].listed = manifest'[n].sections
  <2>1. PICK a \in Agents : /\ NodeOf[a] = n /\ builder[a] \in {"expose", "offer"} /\ job[a].pull
                            /\ job[a].listed = manifest[n].sections
    BY <1>1, <1>2, <1>5 DEF Accounted
  <2>2. a \notin failed'  BY <1>1, <2>1
  <2>3. CASE Build(a)
    <3>1. ~Offer(a)
      <4>1. Offer(a) => manifest[n].sections \subseteq offered'[n]  BY <2>1, <2>2, OfferedRows
      <4> QED  BY <1>5, <4>1
    <3>2. builder[a] = "expose" /\ Expose(a)  BY <2>1, <2>3, <3>1, StepAt
    <3>3. job' = job  BY <2>1, <3>2, ExposedRows
    <3>4. builder'[a] = "offer"  BY <2>1, <2>2, <2>3, <3>2, BuilderMoves DEF Follows
    <3> QED  BY <1>5, <2>1, <3>3, <3>4
  <2>4. CASE ~Build(a)
    <3>1. builder'[a] = builder[a] /\ job'[a] = job[a]  BY <2>1, <2>2, <2>4, BuilderMoves
    <3> QED  BY <1>5, <2>1, <3>1
  <2> QED  BY <2>3, <2>4
<1>6. ASSUME manifest'[n] # manifest[n]
      PROVE  \E a \in Agents : /\ NodeOf[a] = n /\ builder'[a] \in {"expose", "offer"} /\ job'[a].pull
                               /\ job'[a].listed = manifest'[n].sections
  <2>1. PICK a \in Agents : NodeOf[a] = n /\ WriteManifest(a)  BY <1>6, NodeMoves
  <2>2. a \notin failed'  BY <1>1, <2>1
  <2>3. /\ job' = job /\ builder[a] = "manifest" /\ builder'[a] = "expose"
        /\ manifest'[n] = [by |-> a, sections |-> job[a].listed]
    BY <2>1, <2>2, ManifestWritten
  <2>4. job[a].pull  BY <2>3 DEF Order
  <2> QED  BY <2>1, <2>3, <2>4
<1> QED  BY <1>3, <1>4, <1>5, <1>6

\* Every action keeps the accounts, and what was used stays counted.
LEMMA AccountedStep ==
  PackWell /\ Order /\ Accounted /\ UseCounted /\ [PackNext]_packVars => Accounted' /\ UseCounted'
<1> SUFFICES ASSUME PackWell, Order, Accounted, UseCounted, [PackNext]_packVars
             PROVE  Accounted' /\ UseCounted'
  OBVIOUS
<1>0. \A a \in Agents : NodeOf[a] \in Nodes  BY PackAssumption
<1>1. ASSUME NEW a \in Agents, given'[a].kind = "manifest", Orderly(a)', Unfailed(NodeOf[a])'
      PROVE  given'[a].sections \subseteq offered'[NodeOf[a]]
  <2> DEFINE n == NodeOf[a]
  <2>0. n \in Nodes /\ Punctual(a) /\ Punctual(a)' /\ Unfailed(n) /\ offered[n] \subseteq offered'[n]
    BY <1>0, <1>1, OrderlyWas, Grows
  <2>1. CASE ~Start(a)
    <3>1. given'[a] = given[a] /\ Orderly(a)  BY <1>1, <2>1, AgentMoves, OrderlyWas
    <3>2. given[a].sections \subseteq offered[n]  BY <1>1, <2>0, <3>1 DEF Accounted
    <3> QED  BY <2>0, <3>1, <3>2
  <2>2. CASE Start(a)
    <3>0. PICK m \in Nodes \cup {Unclaimed} :
            /\ takenAs' = [takenAs EXCEPT ![a] = m]
            /\ given' = [given EXCEPT ![a] = IF m = Unclaimed THEN Nothing ELSE Delivery(m)]
      BY <1>0, <2>2 DEF Start
    <3>1. /\ agent[a] = "unborn" /\ given'[a] = Delivery(n)
          /\ builder[a] # "done" => a \in late'
      <4>1. takenAs'[a] = m /\ takenAs'[a] = n  BY <1>1, <3>0 DEF Orderly, PackWell
      <4>2. n # Unclaimed  BY <1>0, PackAssumption
      <4> QED  BY <2>2, <3>0, <4>1, <4>2 DEF Start, PackWell
    <3>2. \A c \in Agents : NodeOf[c] = n => c \notin late' /\ c \notin late
      BY <2>0 DEF Punctual
    <3>3. builder[a] = "done" /\ ~Gone(a)  BY <3>1, <3>2 DEF Gone
    <3>4. \A b \in Agents : NodeOf[b] = n => builder[b] \notin Working
      BY <3>2, <3>3, NoneAtWork
    <3>5. manifest[n] # NoFile /\ Delivery(n).sections = manifest[n].sections
      BY <1>1, <2>0, <3>1, DeliveryIs
    <3>6. manifest[n].sections \subseteq offered[n]
      BY <2>0, <3>4, <3>5 DEF Accounted, Working
    <3> QED  BY <2>0, <3>1, <3>5, <3>6
  <2> QED  BY <2>1, <2>2
<1>2. ASSUME NEW a \in Agents, agent'[a] = "stopped", Orderly(a)', Unfailed(NodeOf[a])'
      PROVE  named'[a] \subseteq exposed'[NodeOf[a]]
  <2> DEFINE n == NodeOf[a]
  <2>0. /\ n \in Nodes /\ Unfailed(n) /\ exposed[n] \subseteq exposed'[n]
        /\ ~Start(a)
    <3>1. Start(a) => agent'[a] = "running"  BY DEF Start, PackWell
    <3> QED  BY <1>0, <1>2, <3>1, OrderlyWas, Grows
  <2>1. Orderly(a)  BY <1>2, <2>0, OrderlyWas
  <2>2. CASE Stop(a)
    <3>1. agent[a] = "running" /\ ~Gone(a)  BY <2>2 DEF Stop, Gone
    <3>2. \A c \in Agents : NodeOf[c] = n => c \notin late  BY <2>1 DEF Orderly
    <3>3. builder[a] = "done"  BY <3>1, <3>2 DEF Order
    <3>4. \A b \in Agents : NodeOf[b] = n => builder[b] \notin Working
      BY <3>1, <3>2, <3>3, NoneAtWork
    <3>5. shown[n] \subseteq exposed[n]  BY <2>0, <3>4 DEF Accounted, Working
    <3>6. takenAs[a] = n /\ n # Unclaimed  BY <1>0, <2>1, PackAssumption DEF Orderly
    <3>7. named'[a] \in {{}, shown[n]}  BY <2>2, <3>6 DEF Stop, PackWell
    <3> QED  BY <2>0, <3>5, <3>7
  <2>3. CASE ~Stop(a)
    <3>1. named'[a] = named[a]  BY <2>3, AgentMoves
    <3>2. agent[a] = "stopped"
      <4>1. Count(a) => agent'[a] = "counted"  BY DEF Count, PackWell
      <4> QED  BY <1>2, <2>0, <2>3, <4>1, AgentMoves
    <3> QED  BY <2>0, <2>1, <3>1, <3>2 DEF Accounted
  <2> QED  BY <2>2, <2>3
<1>6. ASSUME NEW a \in Agents, agent'[a] = "unborn" PROVE fetched'[a] = {}
  <2>1. ~Start(a) /\ ~Stop(a) /\ ~Count(a)  BY <1>6 DEF Start, Stop, Count, PackWell
  <2>2. agent[a] = "unborn"  BY <1>6, <2>1, AgentMoves
  <2>3. ~Fetch(a)  BY <2>2 DEF Fetch
  <2> QED  BY <2>2, <2>3, AgentMoves DEF Accounted
<1>3. Accounted'  BY <1>1, <1>2, <1>6, NodeAccounted DEF Accounted
<1>4. ASSUME NEW a \in Agents, Orderly(a)', \A b \in failed' : NodeOf[b] # NodeOf[a]
      PROVE  /\ agent'[a] = "counted" => named'[a] \subseteq referenced'[NodeOf[a]]
             /\ pull' = "on" /\ faults'.switches = 0 => fetched'[a] \subseteq pulled'[NodeOf[a]]
  <2> DEFINE n == NodeOf[a]
  <2>0. /\ n \in Nodes /\ Unfailed(n) /\ (\A b \in failed : NodeOf[b] # n)
        /\ referenced[n] \subseteq referenced'[n] /\ pulled[n] \subseteq pulled'[n]
        /\ faults'.switches = 0 => faults.switches = 0 /\ pull' = pull
    BY <1>0, <1>4, OrderlyWas, Grows DEF Unfailed
  <2>1. ASSUME agent'[a] = "counted" PROVE named'[a] \subseteq referenced'[n]
    <3>0. ~Start(a) /\ ~Stop(a)  BY <2>1 DEF Start, Stop, PackWell
    <3>1. named'[a] = named[a] /\ Orderly(a)  BY <1>4, <3>0, AgentMoves, OrderlyWas
    <3>2. CASE agent[a] = "counted"  BY <2>0, <3>1, <3>2 DEF UseCounted
    <3>3. CASE Count(a)
      <4>1. agent[a] = "stopped"  BY <3>3 DEF Count
      <4>2. named[a] \subseteq exposed[n]  BY <2>0, <3>1, <4>1 DEF Accounted
      <4>3. takenAs[a] = n /\ n # Unclaimed  BY <1>0, <3>1, PackAssumption DEF Orderly
      <4>4. referenced' = [referenced EXCEPT ![n] = @ \cup (exposed[n] \cap named[a])]
        BY <3>3, <4>3 DEF Count, MarkReferenced
      <4>5. referenced'[n] = referenced[n] \cup (exposed[n] \cap named[a])
        BY <2>0, <4>4 DEF PackWell
      <4> QED  BY <3>1, <4>2, <4>5
    <3> QED  BY <2>1, <3>0, <3>2, <3>3, AgentMoves
  <2>2. ASSUME pull' = "on", faults'.switches = 0 PROVE fetched'[a] \subseteq pulled'[n]
    <3>0. pull = "on" /\ faults.switches = 0  BY <2>0, <2>2
    <3>1. CASE Start(a)
      <4>1. agent[a] = "unborn" /\ fetched' = fetched  BY <3>1 DEF Start
      <4>2. fetched[a] = {}  BY <4>1 DEF Accounted
      <4> QED  BY <4>1, <4>2
    <3>2. CASE fetched'[a] = fetched[a] /\ ~Start(a)
      <4>1. Orderly(a)  BY <1>4, <3>2, OrderlyWas
      <4> QED  BY <2>0, <3>0, <3>2, <4>1 DEF UseCounted
    <3>3. CASE Fetch(a)
      <4>0. agent[a] = "running" /\ ~Start(a)  BY <3>3 DEF Fetch, Start
      <4>5. Orderly(a)  BY <1>4, <4>0, OrderlyWas
      <4>6. takenAs[a] = n  BY <4>5 DEF Orderly
      <4>1. /\ given[a].kind = "manifest"
            /\ fetched' = [fetched EXCEPT ![a] = given[a].sections]
            /\ pulled' = [pulled EXCEPT ![n] = @ \cup (offered[n] \cap given[a].sections)]
        BY <3>0, <3>3, <4>6 DEF Fetch, MarkFetched
      <4>2. given[a].sections \subseteq offered[n]  BY <2>0, <4>1, <4>5 DEF Accounted
      <4>3. fetched'[a] = given[a].sections /\ pulled'[n] = pulled[n] \cup (offered[n] \cap given[a].sections)
        BY <2>0, <4>1 DEF PackWell
      <4> QED  BY <4>2, <4>3
    <3> QED  BY <3>1, <3>2, <3>3, AgentMoves
  <2> QED  BY <2>1, <2>2
<1>5. UseCounted'  BY <1>4 DEF UseCounted, Orderly
<1> QED  BY <1>3, <1>5

\* What an unborn agent's builder has written stands for its node.
Built ==
  \A a \in Agents :
    Punctual(a) /\ agent[a] = "unborn" /\ builder[a] \in {"expose", "offer", "done"} =>
      IF job[a].pull THEN manifest[NodeOf[a]] # NoFile /\ manifest[NodeOf[a]].by = a
      ELSE pack[NodeOf[a]] # NoFile /\ pack[NodeOf[a]].by = a

\* At the start no builder has begun.
LEMMA BuiltInit == PackInit => Built /\ FreshPack
BY DEF PackInit, Built, FreshPack

\* Every action keeps what is built, and gives it to its agent.
LEMMA BuiltStep ==
  PackWell /\ Order /\ Built /\ FreshPack /\ [PackNext]_packVars => Built' /\ FreshPack'
<1> SUFFICES ASSUME PackWell, Order, Built, FreshPack, [PackNext]_packVars
             PROVE  Built' /\ FreshPack'
  OBVIOUS
<1>0. \A a \in Agents : NodeOf[a] \in Nodes /\ job[a].pull \in BOOLEAN
  BY PackAssumption DEF PackWell, Jobs
<1>1. ASSUME NEW a \in Agents, Punctual(a)', agent'[a] = "unborn", builder'[a] \in {"expose", "offer", "done"}
      PROVE  IF job'[a].pull THEN manifest'[NodeOf[a]] # NoFile /\ manifest'[NodeOf[a]].by = a
             ELSE pack'[NodeOf[a]] # NoFile /\ pack'[NodeOf[a]].by = a
  <2> DEFINE n == NodeOf[a]
  <2>0. /\ n \in Nodes /\ Punctual(a) /\ a \in ApplyTo /\ a \notin failed'
        /\ \A c \in Agents : NodeOf[c] = n => c \notin late' /\ c \notin late
    BY <1>0, <1>1, OrderlyWas DEF Punctual
  <2>1. agent[a] = "unborn"
    <3>1. ~Start(a) /\ ~Stop(a) /\ ~Count(a)  BY <1>1 DEF Start, Stop, Count, PackWell
    <3> QED  BY <1>1, <3>1, AgentMoves
  <2>2. CASE builder[a] \in {"expose", "offer", "done"}
    <3>1. IF job[a].pull THEN manifest[n] # NoFile /\ manifest[n].by = a
          ELSE pack[n] # NoFile /\ pack[n].by = a
      BY <2>0, <2>1, <2>2 DEF Built
    <3>2. job'[a].pull = job[a].pull
      <4>1. Build(a) => job'[a].pull = job[a].pull  BY Works
      <4> QED  BY <2>2, <4>1, BuilderMoves
    <3>3. ASSUME NEW b \in Agents, NodeOf[b] = n, WriteBody(b) \/ WriteManifest(b) PROVE FALSE
      <4>1. builder[b] \in {"body", "manifest"}  BY <3>3 DEF WriteBody, WriteManifest
      <4>2. a # b /\ builder[a] # "new" /\ builder[b] # "new"  BY <2>2, <4>1
      <4>3. Gone(b)  BY <2>1, <3>3, <4>2 DEF Order, Gone
      <4>4. builder[b] = "done"  BY <2>0, <3>3, <4>3 DEF Order, Gone
      <4> QED  BY <4>1, <4>4
    <3>4. pack'[n] = pack[n] /\ manifest'[n] = manifest[n]  BY <2>0, <3>3, NodeMoves
    <3> QED  BY <3>1, <3>2, <3>4
  <2>3. CASE builder[a] \notin {"expose", "offer", "done"}
    <3>1. Build(a) /\ Follows(builder[a], job[a].pull, builder'[a])
      BY <1>1, <2>0, <2>3, BuilderMoves
    <3>2. builder[a] \in {"body", "manifest"}  BY <1>1, <2>3, <3>1 DEF Follows
    <3>3. CASE builder[a] = "body"
      <4>1. WriteBody(a) /\ ~job[a].pull  BY <3>1, <3>3, StepAt DEF Order
      <4>2. job' = job /\ pack'[n] = [by |-> a, kept |-> FitToBudget(job[a].draft), draft |-> job[a].draft]
        BY <2>0, <4>1, BodyWritten
      <4>3. pack'[n] # NoFile /\ pack'[n].by = a  BY <4>2 DEF NoFile
      <4> QED  BY <4>1, <4>2, <4>3
    <3>4. CASE builder[a] = "manifest"
      <4>1. WriteManifest(a) /\ job[a].pull  BY <3>1, <3>4, StepAt DEF Order
      <4>2. job' = job /\ manifest'[n] = [by |-> a, sections |-> job[a].listed]
        BY <2>0, <4>1, ManifestWritten
      <4>3. manifest'[n] # NoFile /\ manifest'[n].by = a  BY <4>2 DEF NoFile
      <4> QED  BY <4>1, <4>2, <4>3
    <3> QED  BY <3>2, <3>3, <3>4
  <2> QED  BY <2>2, <2>3
<1>2. Built'  BY <1>1 DEF Built
<1>3. ASSUME NEW a \in Agents, agent'[a] # "unborn", Orderly(a)', ~(job'[a].pull /\ given'[a].kind = "pack")
      PROVE  given'[a] # Nothing /\ given'[a].by = a
  <2> DEFINE n == NodeOf[a]
  <2>0. /\ n \in Nodes /\ n # Unclaimed /\ Punctual(a)
        /\ \A c \in Agents : NodeOf[c] = n => c \notin late'
    BY <1>0, <1>3, OrderlyWas, PackAssumption DEF Orderly
  <2>1. CASE Start(a)
    <3>1. /\ agent[a] = "unborn" /\ given'[a] = Delivery(n) /\ job' = job
          /\ builder[a] # "done" => a \in late'
      <4>1. takenAs'[a] = n  BY <1>3 DEF Orderly
      <4> QED  BY <2>0, <2>1, <4>1 DEF Start, PackWell
    <3>2. builder[a] = "done"  BY <2>0, <3>1
    <3>3. IF job[a].pull THEN manifest[n] # NoFile /\ manifest[n].by = a
          ELSE pack[n] # NoFile /\ pack[n].by = a
      BY <2>0, <3>1, <3>2 DEF Built
    <3>4. CASE pack[n] # NoFile
      <4>1. Delivery(n).kind = "pack" /\ Delivery(n).by = pack[n].by  BY <2>0, <3>4, DeliveryIs
      <4>2. ~job[a].pull  BY <1>3, <3>1, <4>1
      <4> QED  BY <3>1, <3>3, <4>1, <4>2 DEF Nothing
    <3>5. CASE pack[n] = NoFile
      <4>1. manifest[n] # NoFile /\ manifest[n].by = a  BY <3>3, <3>5
      <4>2. Delivery(n).kind = "manifest" /\ Delivery(n).by = manifest[n].by
        BY <2>0, <3>5, <4>1, DeliveryIs
      <4> QED  BY <3>1, <4>1, <4>2 DEF Nothing
    <3> QED  BY <3>4, <3>5
  <2>2. CASE ~Start(a)
    <3>1. given'[a] = given[a] /\ agent[a] # "unborn" /\ Orderly(a)
      <4>1. (Stop(a) => agent[a] = "running") /\ (Count(a) => agent[a] = "stopped")
        BY DEF Stop, Count
      <4> QED  BY <1>3, <2>2, <4>1, AgentMoves, OrderlyWas
    <3>2. builder[a] # "new"  BY <3>1 DEF Order
    <3>3. builder[a] = "done"
      <4>1. a \notin late  BY <2>0, Grows
      <4> QED  BY <3>1, <4>1 DEF Order
    <3>4. ~Build(a)
      <4>1. builder[a] \notin Working  BY <3>3 DEF Working
      <4> QED  BY <4>1, Works
    <3>5. job'[a] = job[a]  BY <3>2, <3>4, BuilderMoves
    <3> QED  BY <1>3, <2>0, <3>1, <3>5 DEF FreshPack
  <2> QED  BY <2>1, <2>2
<1>4. FreshPack'  BY <1>3 DEF FreshPack, Orderly
<1> QED  BY <1>2, <1>4

\* A pack is what the budget left of its draft.
PackIs == \A n \in Nodes : pack[n] # NoFile => pack[n].kept = FitToBudget(pack[n].draft)

\* Every pack written is cut that way.
LEMMA PackIsStep == PackWell /\ PackIs /\ [PackNext]_packVars => PackIs'
<1> SUFFICES ASSUME PackWell, PackIs, [PackNext]_packVars, NEW n \in Nodes, pack'[n] # NoFile
             PROVE  pack'[n].kept = FitToBudget(pack'[n].draft)
  BY DEF PackIs
<1>1. CASE pack'[n] = pack[n]  BY <1>1 DEF PackIs
<1>2. ASSUME NEW a \in Agents, NodeOf[a] = n, WriteBody(a), pack'[n] # pack[n]
      PROVE  pack'[n].kept = FitToBudget(pack'[n].draft)
  <2>1. pack' = [pack EXCEPT ![n] = [by |-> a, kept |-> FitToBudget(job[a].draft), draft |-> job[a].draft]]
    BY <1>2 DEF WriteBody
  <2> QED  BY <2>1 DEF PackWell
<1> QED  BY <1>1, <1>2, NodeMoves

\* A pack cut that way is well cut.
LEMMA PackIsWellCut == PackWell /\ PackIs => WellCut
<1> SUFFICES ASSUME PackWell, PackIs, NEW n \in Nodes, pack[n] # NoFile
             PROVE  LET d == pack[n].draft
                        kept == pack[n].kept
                        size == FoldSet(LAMBDA l, sum : sum + CostOf(d, l), 0, kept)
                    IN  /\ "header" \in kept
                        /\ size <= MaxTokens \/ kept = {"header"}
                        /\ \A l \in ToSet(Priority) \ kept :
                             UnitsIn(d, l) # {} => size + CostOf(d, l) > MaxTokens
  BY DEF WellCut
<1> DEFINE d == pack[n].draft
           kept == pack[n].kept
<1>1. d \in Draft  BY DEF PackWell, Packs
<1>2. kept = FitToBudget(d)  BY DEF PackIs
<1>3. /\ "header" \in kept
      /\ SizeOf(d, kept) <= MaxTokens \/ kept = {"header"}
      /\ \A l \in Labels \ kept : UnitsIn(d, l) # {} => SizeOf(d, kept) + CostOf(d, l) > MaxTokens
  BY <1>1, <1>2, BudgetIsFilled
<1> HIDE DEF d, kept
<1>4. LET size == FoldSet(LAMBDA l, sum : sum + CostOf(d, l), 0, kept)
      IN  /\ "header" \in kept
          /\ size <= MaxTokens \/ kept = {"header"}
          /\ \A l \in ToSet(Priority) \ kept : UnitsIn(d, l) # {} => size + CostOf(d, l) > MaxTokens
  BY <1>3 DEF SizeOf, Labels
<1> QED  BY <1>4 DEF d, kept

\* The rates count no unit that no agent could see.
THEOREM RatesCountShown == PackSpec => []RatesFair
<1>1. PackInit => PackWell /\ Ready /\ RatesFair  BY PackWellInit, ReadyInit
<1>2. PackWell /\ Ready /\ RatesFair /\ [PackNext]_packVars => (PackWell /\ Ready /\ RatesFair)'
  BY PackWellStep, ReadyStep
<1> QED  BY <1>1, <1>2, PTL DEF PackSpec

\* A section read and a unit named stay counted.
THEOREM UseStaysCounted == PackSpec => []UseCounted
<1>1. PackInit => PackWell /\ Order /\ Accounted /\ UseCounted
  BY PackWellInit, OrderInit, AccountedInit
<1>2. PackWell /\ Order /\ Accounted /\ UseCounted /\ [PackNext]_packVars
        => (PackWell /\ Order /\ Accounted /\ UseCounted)'
  BY PackWellStep, OrderStep, AccountedStep
<1> QED  BY <1>1, <1>2, PTL DEF PackSpec

\* An agent gets the pack that was built for it.
THEOREM OwnPackGiven == PackSpec => []FreshPack
<1>1. PackInit => PackWell /\ Order /\ Built /\ FreshPack
  BY PackWellInit, OrderInit, BuiltInit
<1>2. PackWell /\ Order /\ Built /\ FreshPack /\ [PackNext]_packVars
        => (PackWell /\ Order /\ Built /\ FreshPack)'
  BY PackWellStep, OrderStep, BuiltStep
<1> QED  BY <1>1, <1>2, PTL DEF PackSpec

\* Every pack keeps to the budget and leaves out nothing that would have fitted.
THEOREM PacksWellCut == PackSpec => []WellCut
<1>1. PackInit => PackWell /\ PackIs  BY PackWellInit DEF PackInit, PackIs
<1>2. PackWell /\ PackIs /\ [PackNext]_packVars => (PackWell /\ PackIs)'
  BY PackWellStep, PackIsStep
<1>3. PackWell /\ PackIs => WellCut  BY PackIsWellCut
<1> QED  BY <1>1, <1>2, <1>3, PTL DEF PackSpec
=============================================================================
