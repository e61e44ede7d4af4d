----------------------------- MODULE Gates_proof -----------------------------
(***************************************************************************)
(* The denial caps, with parallel calls and without, the opening of the    *)
(* gate once the pack was read and the containment of runaway agents, for  *)
(* any number of agents, slots, paths and calls.  None of them is          *)
(* inductive: a denial about to be counted counts already, a read pack     *)
(* stays read, a call that the governor let through counts before it has   *)
(* run, and one call at a time finds the counters as it looked at them.    *)
(***************************************************************************)
EXTENDS Gates, FiniteSetTheorems, TLAPS

Highest(top) == top \in Predictions /\ \A p \in Predictions : p <= top

\* The calls still to be answered that the governor lets through, or will.
Allowed(a) ==
  {i \in Slots : /\ call[a][i] # NoCall /\ ~call[a][i].over /\ "gov" \notin call[a][i].lost
                 /\ call[a][i].gov \in {"warnable", "warning", "allow"}}

\* The counts below a limit L that have been given out.
GivenOut(a, L) == IF count[a] < L THEN count[a] ELSE L - 1

BudgetAt(L) ==
  \A a \in Agents : ran[a] + Cardinality(Allowed(a)) <= unseen[a] + GivenOut(a, L)

Budget ==
  0 \notin Predictions /\ Multiplier > 0 =>
    \A top \in Predictions : Highest(top) => BudgetAt(Multiplier * top)

StaysRead ==
  \A a \in Agents :
    /\ everRead[a] => pack[a].read
    /\ \A i \in Slots : call[a][i] # NoCall /\ call[a][i].afterRead => everRead[a]

\* One call at a time: what it is about to count is still below its cap.
SerialAt(b) ==
  /\ pack[b].denials <= MaxDenials
  /\ \A p \in Paths : pathDenials[b][p] <= MaxPathDenials
  /\ warnings[b] <= 1 + unmarked[b] /\ (~warned[b] => warnings[b] <= unmarked[b])
  /\ \A i \in Slots : call[b][i] # NoCall =>
       /\ \A j \in Slots : call[b][j] # NoCall => j = i
       /\ call[b][i].gate = "denying" =>
            /\ call[b][i].kind = "search" => pack[b].denials < MaxDenials
            /\ \A p \in Paths : call[b][i].kind = p => pathDenials[b][p] < MaxPathDenials
       /\ call[b][i].gov = "warning" => ~warned[b]

Serial == \A b \in Agents \ parallel : SerialAt(b)

IInv == TypeOK /\ CapsNearlyKept /\ StaysRead /\ ReadOpens /\ Budget /\ Serial

-----------------------------------------------------------------------------
\* A set of slots is finite, and a message has at least one.
LEMMA SlotsFinite ==
  /\ IsFiniteSet(Slots) /\ Cardinality(Slots) \in Nat /\ Cardinality(Slots) >= 1
  /\ \A S \in SUBSET Slots : /\ IsFiniteSet(S) /\ Cardinality(S) \in Nat
                             /\ Cardinality(S) <= Cardinality(Slots)
<1>1. IsFiniteSet(Slots) /\ Slots # {}
  BY GatesAssumption
<1>2. Cardinality(Slots) \in Nat /\ Cardinality(Slots) # 0
  BY <1>1, FS_CardinalityType, FS_EmptySet
<1>3. ASSUME NEW S \in SUBSET Slots
      PROVE  /\ IsFiniteSet(S) /\ Cardinality(S) \in Nat
             /\ Cardinality(S) <= Cardinality(Slots)
  BY <1>1, <1>3, FS_Subset, FS_CardinalityType
<1> QED
  BY <1>1, <1>2, <1>3

\* A counter n with the slots S about to bump it keeps its slack: when it stays
\* and no slot joins, when slots join below the cap, when one of them bumps it.
LEMMA Slack ==
  ASSUME NEW cap \in Nat, NEW n \in Nat, NEW m, NEW S \in SUBSET Slots, NEW T \in SUBSET Slots,
         n + Cardinality(S) + 1 <= cap + Cardinality(Slots),
         \/ m = n /\ T \subseteq S
         \/ m = n /\ n < cap
         \/ m = n + 1 /\ \E i \in S : T = S \ {i}
  PROVE  m + Cardinality(T) + 1 <= cap + Cardinality(Slots)
<1>1. /\ Cardinality(S) \in Nat /\ Cardinality(T) \in Nat /\ Cardinality(Slots) \in Nat
      /\ Cardinality(T) <= Cardinality(Slots) /\ IsFiniteSet(S)
  BY SlotsFinite
<1>2. CASE m = n /\ T \subseteq S
  <2>1. Cardinality(T) <= Cardinality(S)
    BY <1>1, <1>2, FS_Subset
  <2> QED
    BY <1>1, <1>2, <2>1
<1>3. CASE m = n /\ n < cap
  BY <1>1, <1>3
<1>4. CASE m = n + 1 /\ \E i \in S : T = S \ {i}
  <2>1. Cardinality(T) = Cardinality(S) - 1
    BY <1>1, <1>4, FS_RemoveElement
  <2> QED
    BY <1>1, <1>4, <2>1
<1> QED
  BY <1>2, <1>3, <1>4

\* A step that sets one call leaves the others as they are.
LEMMA OneCall ==
  ASSUME TypeOK, NEW a \in Agents, NEW i \in Slots, NEW c \in CallType \cup {NoCall},
         call' = [call EXCEPT ![a][i] = c]
  PROVE  /\ call' \in [Agents -> [Slots -> CallType \cup {NoCall}]]
         /\ \A b \in Agents : \A j \in Slots :
              call'[b][j] = IF b = a /\ j = i THEN c ELSE call[b][j]
BY DEF TypeOK

\* A gate's ruling changes the gate of one call and nothing else of the calls.
LEMMA GateSet ==
  ASSUME TypeOK, NEW a \in Agents, NEW i \in Slots, call[a][i] # NoCall,
         NEW g \in {"denying", "allow", "deny"}, ToGate(a, i, g)
  PROVE  /\ call' \in [Agents -> [Slots -> CallType \cup {NoCall}]]
         /\ \A b \in Agents : \A j \in Slots :
              IF b = a /\ j = i
              THEN /\ call'[b][j] # NoCall /\ call'[b][j].gate = g
                   /\ call'[b][j].kind = call[b][j].kind /\ call'[b][j].gov = call[b][j].gov
                   /\ call'[b][j].afterRead = call[b][j].afterRead /\ call'[b][j].lost = call[b][j].lost /\ call'[b][j].over = call[b][j].over
              ELSE call'[b][j] = call[b][j]
<1> DEFINE c == [call[a][i] EXCEPT !.gate = g]
<1>1. call[a][i] \in CallType /\ call[a][i] # NoCall
  BY DEF TypeOK
<1>2. c \in CallType
  BY <1>1 DEF CallType, Hooks
<1>3. call' = [call EXCEPT ![a][i] = c]
  BY DEF ToGate, TypeOK
<1>4. c # NoCall
  BY <1>2, GatesAssumption DEF CallType, NoCall, Kinds
<1>5. /\ c.gate = g
      /\ c.kind = call[a][i].kind /\ c.gov = call[a][i].gov
      /\ c.afterRead = call[a][i].afterRead /\ c.lost = call[a][i].lost /\ c.over = call[a][i].over
  BY <1>1 DEF CallType
<1> HIDE DEF c
<1>6. /\ call' \in [Agents -> [Slots -> CallType \cup {NoCall}]]
      /\ \A b \in Agents : \A j \in Slots :
           call'[b][j] = IF b = a /\ j = i THEN c ELSE call[b][j]
  BY <1>2, <1>3, OneCall
<1> QED
  BY <1>4, <1>5, <1>6

\* The governor's likewise.
LEMMA GovSet ==
  ASSUME TypeOK, NEW a \in Agents, NEW i \in Slots, call[a][i] # NoCall,
         NEW g \in {"warnable", "warning", "allow", "deny"}, ToGov(a, i, g)
  PROVE  /\ call' \in [Agents -> [Slots -> CallType \cup {NoCall}]]
         /\ \A b \in Agents : \A j \in Slots :
              IF b = a /\ j = i
              THEN /\ call'[b][j] # NoCall /\ call'[b][j].gov = g
                   /\ call'[b][j].kind = call[b][j].kind /\ call'[b][j].gate = call[b][j].gate
                   /\ call'[b][j].afterRead = call[b][j].afterRead /\ call'[b][j].lost = call[b][j].lost /\ call'[b][j].over = call[b][j].over
              ELSE call'[b][j] = call[b][j]
<1> DEFINE c == [call[a][i] EXCEPT !.gov = g]
<1>1. call[a][i] \in CallType /\ call[a][i] # NoCall
  BY DEF TypeOK
<1>2. c \in CallType
  BY <1>1 DEF CallType, Hooks
<1>3. call' = [call EXCEPT ![a][i] = c]
  BY DEF ToGov, TypeOK
<1>4. c # NoCall
  BY <1>2, GatesAssumption DEF CallType, NoCall, Kinds
<1>5. /\ c.gov = g
      /\ c.kind = call[a][i].kind /\ c.gate = call[a][i].gate
      /\ c.afterRead = call[a][i].afterRead /\ c.lost = call[a][i].lost /\ c.over = call[a][i].over
  BY <1>1 DEF CallType
<1> HIDE DEF c
<1>6. /\ call' \in [Agents -> [Slots -> CallType \cup {NoCall}]]
      /\ \A b \in Agents : \A j \in Slots :
           call'[b][j] = IF b = a /\ j = i THEN c ELSE call[b][j]
  BY <1>2, <1>3, OneCall
<1> QED
  BY <1>4, <1>5, <1>6

\* So does a gate that fails, whose ruling is lost.
LEMMA FailGateSet ==
  ASSUME TypeOK, NEW a \in Agents, NEW i \in Slots, FailGate(a, i)
  PROVE  /\ call' \in [Agents -> [Slots -> CallType \cup {NoCall}]]
         /\ \A b \in Agents : \A j \in Slots :
              IF b = a /\ j = i
              THEN /\ call'[b][j] # NoCall /\ call'[b][j].gate = "allow" /\ call'[b][j].lost = call[b][j].lost \cup {"gate"}
                   /\ call'[b][j].kind = call[b][j].kind /\ call'[b][j].gov = call[b][j].gov
                   /\ call'[b][j].afterRead = call[b][j].afterRead /\ call'[b][j].over = call[b][j].over
              ELSE call'[b][j] = call[b][j]
<1> DEFINE c == NoGate(call[a][i])
<1>1. call[a][i] \in CallType /\ call[a][i] # NoCall
  BY DEF TypeOK, FailGate
<1>2. c \in CallType
  BY <1>1 DEF CallType, Hooks, NoGate
<1>3. call' = [call EXCEPT ![a][i] = c]
  BY DEF FailGate, TypeOK
<1>4. c # NoCall
  BY <1>2, GatesAssumption DEF CallType, NoCall, Kinds
<1>5. /\ c.gate = "allow" /\ c.lost = call[a][i].lost \cup {"gate"}
      /\ c.kind = call[a][i].kind /\ c.gov = call[a][i].gov
      /\ c.afterRead = call[a][i].afterRead /\ c.over = call[a][i].over
  BY <1>1 DEF CallType, NoGate
<1> HIDE DEF c
<1>6. /\ call' \in [Agents -> [Slots -> CallType \cup {NoCall}]]
      /\ \A b \in Agents : \A j \in Slots :
           call'[b][j] = IF b = a /\ j = i THEN c ELSE call[b][j]
  BY <1>2, <1>3, OneCall
<1> QED
  BY <1>4, <1>5, <1>6

\* So does a governor that fails.
LEMMA FailGovSet ==
  ASSUME TypeOK, NEW a \in Agents, NEW i \in Slots, FailGov(a, i)
  PROVE  /\ call' \in [Agents -> [Slots -> CallType \cup {NoCall}]]
         /\ \A b \in Agents : \A j \in Slots :
              IF b = a /\ j = i
              THEN /\ call'[b][j] # NoCall /\ call'[b][j].gov = "allow" /\ call'[b][j].lost = call[b][j].lost \cup {"gov"}
                   /\ call'[b][j].kind = call[b][j].kind /\ call'[b][j].gate = call[b][j].gate
                   /\ call'[b][j].afterRead = call[b][j].afterRead /\ call'[b][j].over = call[b][j].over
              ELSE call'[b][j] = call[b][j]
<1> DEFINE c == NoGov(call[a][i])
<1>1. call[a][i] \in CallType /\ call[a][i] # NoCall
  BY DEF TypeOK, FailGov
<1>2. c \in CallType
  BY <1>1 DEF CallType, Hooks, NoGov
<1>3. call' = [call EXCEPT ![a][i] = c]
  BY DEF FailGov, TypeOK
<1>4. c # NoCall
  BY <1>2, GatesAssumption DEF CallType, NoCall, Kinds
<1>5. /\ c.gov = "allow" /\ c.lost = call[a][i].lost \cup {"gov"}
      /\ c.kind = call[a][i].kind /\ c.gate = call[a][i].gate
      /\ c.afterRead = call[a][i].afterRead /\ c.over = call[a][i].over
  BY <1>1 DEF CallType, NoGov
<1> HIDE DEF c
<1>6. /\ call' \in [Agents -> [Slots -> CallType \cup {NoCall}]]
      /\ \A b \in Agents : \A j \in Slots :
           call'[b][j] = IF b = a /\ j = i THEN c ELSE call[b][j]
  BY <1>2, <1>3, OneCall
<1> QED
  BY <1>4, <1>5, <1>6

\* A hook that is given up loses its ruling and nothing else.
LEMMA TimeOutSet ==
  ASSUME TypeOK, NEW a \in Agents, NEW i \in Slots, NEW h \in Hooks, TimeOut(a, i, h)
  PROVE  /\ call' \in [Agents -> [Slots -> CallType \cup {NoCall}]]
         /\ \A b \in Agents : \A j \in Slots :
              IF b = a /\ j = i
              THEN /\ call'[b][j] # NoCall /\ call'[b][j].lost = call[b][j].lost \cup {h}
                   /\ call'[b][j].kind = call[b][j].kind /\ call'[b][j].gov = call[b][j].gov /\ call'[b][j].gate = call[b][j].gate
                   /\ call'[b][j].afterRead = call[b][j].afterRead /\ call'[b][j].over = call[b][j].over
              ELSE call'[b][j] = call[b][j]
<1> DEFINE c == [call[a][i] EXCEPT !.lost = call[a][i].lost \cup {h}]
<1>1. call[a][i] \in CallType /\ call[a][i] # NoCall
  BY DEF TypeOK, TimeOut
<1>2. c \in CallType
  BY <1>1 DEF CallType, Hooks
<1>3. call' = [call EXCEPT ![a][i] = c]
  BY DEF TimeOut, TypeOK
<1>4. c # NoCall
  BY <1>2, GatesAssumption DEF CallType, NoCall, Kinds
<1>5. /\ c.lost = call[a][i].lost \cup {h}
      /\ c.kind = call[a][i].kind /\ c.gov = call[a][i].gov /\ c.gate = call[a][i].gate
      /\ c.afterRead = call[a][i].afterRead /\ c.over = call[a][i].over
  BY <1>1 DEF CallType
<1> HIDE DEF c
<1>6. /\ call' \in [Agents -> [Slots -> CallType \cup {NoCall}]]
      /\ \A b \in Agents : \A j \in Slots :
           call'[b][j] = IF b = a /\ j = i THEN c ELSE call[b][j]
  BY <1>2, <1>3, OneCall
<1> QED
  BY <1>4, <1>5, <1>6

\* An answered call is gone, or stays with its late threads.
LEMMA AnswerSet ==
  ASSUME TypeOK, NEW a \in Agents, NEW i \in Slots, Answer(a, i)
  PROVE  /\ call' \in [Agents -> [Slots -> CallType \cup {NoCall}]]
         /\ \A b \in Agents : \A j \in Slots :
              IF b = a /\ j = i
              THEN \/ call'[b][j] = NoCall
                   \/ /\ call'[b][j] # NoCall /\ call'[b][j].over
                      /\ call'[b][j].kind = call[b][j].kind /\ call'[b][j].gate = call[b][j].gate
                      /\ call'[b][j].gov = call[b][j].gov
                      /\ call'[b][j].afterRead = call[b][j].afterRead
              ELSE call'[b][j] = call[b][j]
<1>1. call[a][i] \in CallType /\ call[a][i] # NoCall
  BY DEF TypeOK, Answer
<1>2. CASE Working(call[a][i]) = {}
  <2>1. call' = [call EXCEPT ![a][i] = NoCall]
    BY <1>2 DEF Answer
  <2> QED
    BY <2>1, OneCall
<1>3. CASE Working(call[a][i]) # {}
  <2> DEFINE c == [call[a][i] EXCEPT !.over = TRUE]
  <2>1. c \in CallType
    BY <1>1 DEF CallType
  <2>2. call' = [call EXCEPT ![a][i] = c]
    BY <1>3 DEF Answer, TypeOK
  <2>3. c # NoCall
    BY <2>1, GatesAssumption DEF CallType, NoCall, Kinds
  <2>4. /\ c.over /\ c.kind = call[a][i].kind /\ c.gate = call[a][i].gate
        /\ c.gov = call[a][i].gov /\ c.afterRead = call[a][i].afterRead
    BY <1>1 DEF CallType
  <2> HIDE DEF c
  <2>5. /\ call' \in [Agents -> [Slots -> CallType \cup {NoCall}]]
        /\ \A b \in Agents : \A j \in Slots :
             call'[b][j] = IF b = a /\ j = i THEN c ELSE call[b][j]
    BY <2>1, <2>2, OneCall
  <2> QED
    BY <1>1, <2>3, <2>4, <2>5
<1> QED
  BY <1>2, <1>3

\* The governor lets a call through only while its count is below the highest limit.
LEMMA RulingFacts ==
  ASSUME NEW n \in Nat, NEW p \in Predictions
  PROVE  /\ Ruling(n, p) \in {"warnable", "allow", "deny"}
         /\ p > 0 => \A top : Highest(top) /\ ~(n < Multiplier * top) => Ruling(n, p) = "deny"
<1>1. p \in Nat /\ Multiplier \in Nat /\ Multiplier * p \in Nat
  BY GatesAssumption
<1>2. Ruling(n, p) \in {"warnable", "allow", "deny"}
  BY <1>1 DEF Ruling
<1>3. ASSUME p > 0, NEW top, Highest(top), ~(n < Multiplier * top)  PROVE Ruling(n, p) = "deny"
  <2>1. top \in Nat /\ p <= top
    BY <1>3, GatesAssumption DEF Highest
  <2>2. PICK d \in Nat : top = p + d
    <3>1. top - p \in Nat /\ top = p + (top - p)
      BY <1>1, <2>1
    <3> QED
      BY <3>1
  <2>3. Multiplier * top = Multiplier * p + Multiplier * d /\ Multiplier * d \in Nat
    BY <1>1, <2>2
  <2>4. n >= Multiplier * p
    BY <1>1, <1>3, <2>3
  <2> QED
    BY <1>1, <1>3, <2>4 DEF Ruling
<1> QED
  BY <1>2, <1>3

-----------------------------------------------------------------------------
(* Type correctness *)

\* Every hook step keeps the types.
LEMMA TypeNext == TypeOK /\ [Next]_vars => TypeOK'
<1> SUFFICES ASSUME TypeOK, [Next]_vars PROVE TypeOK'
  OBVIOUS
<1> USE DEF tables, history
<1>1. ASSUME NEW a \in Agents, Deliver(a) PROVE TypeOK'
  <2>1. pack[a] \in [there : BOOLEAN, read : BOOLEAN, denials : Nat]
    BY DEF TypeOK
  <2>2. [pack[a] EXCEPT !.there = TRUE] \in [there : BOOLEAN, read : BOOLEAN, denials : Nat]
    BY <2>1
  <2>3. pack' \in [Agents -> [there : BOOLEAN, read : BOOLEAN, denials : Nat]]
    BY <1>1, <2>2 DEF Deliver, TypeOK
  <2>4. deliveries' \in [Agents -> Nat]
    BY <1>1 DEF Deliver, TypeOK
  <2> QED
    BY <1>1, <2>3, <2>4 DEF Deliver, TypeOK
<1>2. ASSUME NEW a \in Agents, NEW i \in Slots, NEW k \in Kinds, Issue(a, i, k) PROVE TypeOK'
  <2>1. [kind |-> k, gov |-> "asked", afterRead |-> everRead[a], lost |-> {}, over |-> FALSE,
         gate |-> IF k = "other" THEN "allow" ELSE "asked"] \in CallType
    BY DEF TypeOK, CallType
  <2>2. call' \in [Agents -> [Slots -> CallType \cup {NoCall}]]
    BY <1>2, <2>1, OneCall DEF Issue
  <2>3. issued' \in [Agents -> Nat]
    BY <1>2 DEF Issue, TypeOK
  <2> QED
    BY <1>2, <2>2, <2>3 DEF Issue, TypeOK
<1>3. ASSUME NEW a \in Agents, NEW i \in Slots, LookPack(a, i) PROVE TypeOK'
  <2>1. call' \in [Agents -> [Slots -> CallType \cup {NoCall}]]
    BY <1>3, GateSet DEF LookPack
  <2> QED
    BY <1>3, <2>1 DEF LookPack, TypeOK
<1>4. ASSUME NEW a \in Agents, NEW i \in Slots, DenySearch(a, i) PROVE TypeOK'
  <2>1. call' \in [Agents -> [Slots -> CallType \cup {NoCall}]]
    BY <1>4, GateSet DEF DenySearch
  <2>2. pack[a] \in [there : BOOLEAN, read : BOOLEAN, denials : Nat]
    BY DEF TypeOK
  <2>3. [pack[a] EXCEPT !.denials = pack[a].denials + 1]
          \in [there : BOOLEAN, read : BOOLEAN, denials : Nat]
    BY <2>2
  <2>4. pack' \in [Agents -> [there : BOOLEAN, read : BOOLEAN, denials : Nat]]
    BY <1>4, <2>3 DEF DenySearch, TypeOK
  <2> QED
    BY <1>4, <2>1, <2>4 DEF DenySearch, TypeOK
<1>5. ASSUME NEW a \in Agents, NEW i \in Slots, ReadPack(a, i) PROVE TypeOK'
  <2>1. call' \in [Agents -> [Slots -> CallType \cup {NoCall}]]
    BY <1>5, GateSet DEF ReadPack
  <2>2. pack[a].read \in BOOLEAN /\ pack[a].there \in BOOLEAN /\ everRead[a] \in BOOLEAN
    BY DEF TypeOK
  <2>3. pack' \in [Agents -> [there : BOOLEAN, read : BOOLEAN, denials : Nat]]
    BY <1>5, <2>2 DEF ReadPack, TypeOK
  <2>4. everRead' \in [Agents -> BOOLEAN]
    BY <1>5, <2>2 DEF ReadPack, TypeOK
  <2> QED
    BY <1>5, <2>1, <2>3, <2>4 DEF ReadPack, TypeOK
<1>6. ASSUME NEW a \in Agents, NEW i \in Slots, NEW p \in Paths, LookPath(a, i, p) PROVE TypeOK'
  <2>1. call' \in [Agents -> [Slots -> CallType \cup {NoCall}]]
    BY <1>6, GateSet DEF LookPath, Writes
  <2> QED
    BY <1>6, <2>1 DEF LookPath, TypeOK
<1>7. ASSUME NEW a \in Agents, NEW i \in Slots, NEW p \in Paths, DenyWrite(a, i, p) PROVE TypeOK'
  <2>1. call' \in [Agents -> [Slots -> CallType \cup {NoCall}]]
    BY <1>7, GateSet DEF DenyWrite, Writes
  <2>2. pathDenials' \in [Agents -> [Paths -> Nat]]
    BY <1>7 DEF DenyWrite, TypeOK
  <2> QED
    BY <1>7, <2>1, <2>2 DEF DenyWrite, TypeOK
<1>8. ASSUME NEW a \in Agents, NEW i \in Slots, GovCount(a, i) PROVE TypeOK'
  <2>1. Counted(a) \in Nat
    BY DEF Counted, TypeOK
  <2>2. PICK p \in Predictions : ToGov(a, i, Ruling(Counted(a), p))
    BY <1>8 DEF GovCount
  <2>5. Ruling(Counted(a), p) \in {"warnable", "warning", "allow", "deny"}
    BY <2>1, RulingFacts
  <2>3. call' \in [Agents -> [Slots -> CallType \cup {NoCall}]]
    BY <1>8, <2>2, <2>5, GovSet DEF GovCount
  <2>4. count' \in [Agents -> Nat]
    BY <1>8 DEF GovCount, TypeOK
  <2> QED
    BY <1>8, <2>3, <2>4 DEF GovCount, TypeOK
<1>9. ASSUME NEW a \in Agents, NEW i \in Slots, GovLook(a, i) PROVE TypeOK'
  <2>1. call' \in [Agents -> [Slots -> CallType \cup {NoCall}]]
    BY <1>9, GovSet DEF GovLook
  <2> QED
    BY <1>9, <2>1 DEF GovLook, TypeOK
<1>12. ASSUME NEW a \in Agents, NEW i \in Slots, GovWarn(a, i) PROVE TypeOK'
  <2>1. call' \in [Agents -> [Slots -> CallType \cup {NoCall}]]
    BY <1>12, GovSet DEF GovWarn
  <2>2. /\ warned' \in [Agents -> BOOLEAN] /\ warnings' \in [Agents -> Nat]
        /\ unmarked' \in [Agents -> Nat] /\ losses' \in Nat
    <3>1. warned' \in [Agents -> BOOLEAN]
      BY <1>12 DEF GovWarn, TypeOK
    <3>2. warnings' \in [Agents -> Nat]
      BY <1>12 DEF GovWarn, Warned, TypeOK
    <3>3. unmarked' \in [Agents -> Nat]
      BY <1>12 DEF GovWarn, TypeOK
    <3>4. losses' \in Nat
      BY <1>12 DEF GovWarn, Lose, TypeOK
    <3> QED
      BY <3>1, <3>2, <3>3, <3>4
  <2> QED
    BY <1>12, <2>1, <2>2 DEF GovWarn, TypeOK
<1>13. ASSUME NEW a \in Agents, NEW i \in Slots, FailGate(a, i) PROVE TypeOK'
  <2>1. call' \in [Agents -> [Slots -> CallType \cup {NoCall}]]
    BY <1>13, FailGateSet
  <2> QED
    BY <1>13, <2>1 DEF FailGate, Lose, TypeOK
<1>14. ASSUME NEW a \in Agents, NEW i \in Slots, FailGov(a, i) PROVE TypeOK'
  <2>1. call' \in [Agents -> [Slots -> CallType \cup {NoCall}]]
    BY <1>14, FailGovSet
  <2>2. count' \in [Agents -> Nat]
    BY <1>14 DEF FailGov, TypeOK
  <2> QED
    BY <1>14, <2>1, <2>2 DEF FailGov, Lose, TypeOK
<1>15. ASSUME NEW a \in Agents, NEW i \in Slots, NEW h \in Hooks, TimeOut(a, i, h) PROVE TypeOK'
  <2>1. call' \in [Agents -> [Slots -> CallType \cup {NoCall}]]
    BY <1>15, TimeOutSet
  <2> QED
    BY <1>15, <2>1 DEF TimeOut, Lose, TypeOK
<1>10. ASSUME NEW a \in Agents, NEW i \in Slots, Answer(a, i) PROVE TypeOK'
  <2>1. call' \in [Agents -> [Slots -> CallType \cup {NoCall}]]
    BY <1>10, AnswerSet
  <2>2. ran' \in [Agents -> Nat] /\ unseen' \in [Agents -> Nat]
    BY <1>10 DEF Answer, TypeOK
  <2> QED
    BY <1>10, <2>1, <2>2 DEF Answer, TypeOK
<1>16. ASSUME NEW a \in Agents, NEW i \in Slots, Finish(a, i) PROVE TypeOK'
  <2>1. call' \in [Agents -> [Slots -> CallType \cup {NoCall}]]
    BY <1>16, OneCall DEF Finish
  <2> QED
    BY <1>16, <2>1 DEF Finish, TypeOK
<1>11. CASE UNCHANGED vars
  BY <1>11 DEF vars, TypeOK
<1> QED
  BY <1>1, <1>2, <1>3, <1>4, <1>5, <1>6, <1>7, <1>8, <1>9, <1>10, <1>11,
     <1>12, <1>13, <1>14, <1>15, <1>16
  DEF Next, Gate, Governor

-----------------------------------------------------------------------------
(* Steps in common *)

\* The hooks that end without a ruling of their own, and Claude Code's answer.
Ends(a, i) ==
  \/ FailGate(a, i) \/ FailGov(a, i) \/ Answer(a, i) \/ Finish(a, i)
  \/ \E h \in Hooks : TimeOut(a, i, h)

\* What becomes of a call then: it is as it was, gone, or less of an objection.
Loosed(old, new) ==
  \/ new = old
  \/ new = NoCall
  \/ /\ old # NoCall /\ new # NoCall
     /\ new.kind = old.kind /\ new.afterRead = old.afterRead
     /\ new.gate \in {old.gate, "allow"} /\ new.gov \in {old.gov, "allow"}

\* A hook that ends so loosens the calls.
LEMMA EndsLoose ==
  ASSUME TypeOK, NEW a \in Agents, NEW i \in Slots, Ends(a, i)
  PROVE  \A b \in Agents : \A j \in Slots : Loosed(call[b][j], call'[b][j])
<1>1. CASE FailGate(a, i)
  <2>1. call[a][i] # NoCall
    BY <1>1 DEF FailGate
  <2> QED
    BY <1>1, <2>1, FailGateSet DEF Loosed
<1>2. CASE FailGov(a, i)
  <2>1. call[a][i] # NoCall
    BY <1>2 DEF FailGov
  <2> QED
    BY <1>2, <2>1, FailGovSet DEF Loosed
<1>3. CASE Answer(a, i)
  BY <1>3, AnswerSet DEF Loosed, Answer
<1>4. CASE Finish(a, i)
  BY <1>4, OneCall DEF Loosed, Finish
<1>5. ASSUME NEW h \in Hooks, TimeOut(a, i, h)
      PROVE  \A b \in Agents : \A j \in Slots : Loosed(call[b][j], call'[b][j])
  BY <1>5, TimeOutSet DEF Loosed, TimeOut
<1> QED
  BY <1>1, <1>2, <1>3, <1>4, <1>5 DEF Ends

\* Every step of the governor sets its part of one call.
LEMMA GovernorRules ==
  ASSUME TypeOK, NEW a \in Agents, NEW i \in Slots, Governor(a, i)
  PROVE  call[a][i] # NoCall /\ \E g \in {"warnable", "warning", "allow", "deny"} : ToGov(a, i, g)
<1>1. Counted(a) \in Nat
  BY DEF Counted, TypeOK
<1>2. CASE GovCount(a, i)
  <2>1. PICK p \in Predictions : ToGov(a, i, Ruling(Counted(a), p))
    BY <1>2 DEF GovCount
  <2>2. Ruling(Counted(a), p) \in {"warnable", "allow", "deny"}
    BY <1>1, RulingFacts
  <2> QED
    BY <1>2, <2>1, <2>2 DEF GovCount
<1>3. CASE GovLook(a, i) \/ GovWarn(a, i)
  BY <1>3 DEF GovLook, GovWarn
<1> QED
  BY <1>2, <1>3 DEF Governor

-----------------------------------------------------------------------------
(* The caps *)

\* How a step may move one counter m and the slots T about to bump it.
Kept(cap, n, m, S, T) ==
  \/ m = n /\ T \subseteq S
  \/ m = n /\ n < cap
  \/ m = n + 1 /\ \E i \in S : T = S \ {i}

\* When every denial counter moves in one of those ways, the caps are nearly kept.
LEMMA CapsFrom ==
  ASSUME TypeOK, TypeOK', CapsNearlyKept,
         \A b \in Agents :
           /\ Kept(MaxDenials, pack[b].denials, pack'[b].denials,
                   Denying(b, "search"), Denying(b, "search")')
           /\ \A p \in Paths :
                Kept(MaxPathDenials, pathDenials[b][p], pathDenials'[b][p],
                     Denying(b, p), Denying(b, p)')
  PROVE  CapsNearlyKept'
<1> SUFFICES ASSUME NEW b \in Agents
             PROVE  /\ pack'[b].denials + Cardinality(Denying(b, "search")') + 1
                         <= MaxDenials + Cardinality(Slots)
                    /\ \A p \in Paths :
                         pathDenials'[b][p] + Cardinality(Denying(b, p)') + 1
                           <= MaxPathDenials + Cardinality(Slots)
  BY DEF CapsNearlyKept
<1>1. \A k : Denying(b, k) \in SUBSET Slots /\ Denying(b, k)' \in SUBSET Slots
  BY DEF Denying
<1>2. MaxDenials \in Nat /\ MaxPathDenials \in Nat
  BY GatesAssumption
<1>3. pack'[b].denials + Cardinality(Denying(b, "search")') + 1 <= MaxDenials + Cardinality(Slots)
  <2>1. pack[b].denials \in Nat
    BY DEF TypeOK
  <2>2. pack[b].denials + Cardinality(Denying(b, "search")) + 1 <= MaxDenials + Cardinality(Slots)
    BY DEF CapsNearlyKept
  <2>3. Kept(MaxDenials, pack[b].denials, pack'[b].denials,
             Denying(b, "search"), Denying(b, "search")')
    OBVIOUS
  <2> QED
    BY <1>1, <1>2, <2>1, <2>2, <2>3, Slack DEF Kept
<1>4. ASSUME NEW p \in Paths
      PROVE  pathDenials'[b][p] + Cardinality(Denying(b, p)') + 1
               <= MaxPathDenials + Cardinality(Slots)
  <2>1. pathDenials[b][p] \in Nat
    BY DEF TypeOK
  <2>2. pathDenials[b][p] + Cardinality(Denying(b, p)) + 1 <= MaxPathDenials + Cardinality(Slots)
    BY DEF CapsNearlyKept
  <2>3. Kept(MaxPathDenials, pathDenials[b][p], pathDenials'[b][p],
             Denying(b, p), Denying(b, p)')
    OBVIOUS
  <2> QED
    BY <1>1, <1>2, <2>1, <2>2, <2>3, Slack DEF Kept
<1> QED
  BY <1>3, <1>4

\* A step that denies nothing and is about to deny nothing more.
LEMMA CapsQuiet ==
  ASSUME TypeOK, TypeOK', CapsNearlyKept,
         \A b \in Agents : pack'[b].denials = pack[b].denials,
         pathDenials' = pathDenials,
         \A b \in Agents : \A j \in Slots :
           call'[b][j] # NoCall /\ call'[b][j].gate = "denying" =>
             /\ call[b][j] # NoCall /\ call[b][j].gate = "denying"
             /\ call'[b][j].kind = call[b][j].kind
  PROVE  CapsNearlyKept'
<1>1. \A b \in Agents : \A k : Denying(b, k)' \subseteq Denying(b, k)
  BY DEF Denying
<1> QED
  BY <1>1, CapsFrom DEF Kept

\* Every hook step moves the denial counters in one of those ways.
LEMMA CapsNext == IInv /\ TypeOK' /\ [Next]_vars => CapsNearlyKept'
<1> SUFFICES ASSUME IInv, TypeOK', [Next]_vars PROVE CapsNearlyKept'
  OBVIOUS
<1> USE DEF tables, history
<1>0. TypeOK /\ CapsNearlyKept
  BY DEF IInv
<1>1. ASSUME NEW a \in Agents, Deliver(a) PROVE CapsNearlyKept'
  <2>1. \A b \in Agents : pack'[b].denials = pack[b].denials
    BY <1>0, <1>1 DEF Deliver, TypeOK
  <2>2. pathDenials' = pathDenials /\ call' = call
    BY <1>1 DEF Deliver
  <2> QED
    BY <1>0, <2>1, <2>2, CapsQuiet
<1>2. ASSUME NEW a \in Agents, NEW i \in Slots, NEW k \in Kinds, Issue(a, i, k)
      PROVE  CapsNearlyKept'
  <2> DEFINE c == [kind |-> k, gov |-> "asked", afterRead |-> everRead[a], lost |-> {},
                   over |-> FALSE, gate |-> IF k = "other" THEN "allow" ELSE "asked"]
  <2>1. c \in CallType /\ c.gate # "denying"
    BY <1>0 DEF TypeOK, CallType
  <2>2. call' = [call EXCEPT ![a][i] = c]
    BY <1>2 DEF Issue
  <2> HIDE DEF c
  <2>3. \A b \in Agents : \A j \in Slots :
          call'[b][j] = IF b = a /\ j = i THEN c ELSE call[b][j]
    BY <1>0, <2>1, <2>2, OneCall
  <2>4. pack' = pack /\ pathDenials' = pathDenials
    BY <1>2 DEF Issue
  <2> QED
    BY <1>0, <2>1, <2>3, <2>4, CapsQuiet
\* A search is about to be denied: only below the cap.
<1>3. ASSUME NEW a \in Agents, NEW i \in Slots, LookPack(a, i) PROVE CapsNearlyKept'
  <2>1. pack' = pack /\ pathDenials' = pathDenials
    BY <1>3 DEF LookPack
  <2>2. /\ call[a][i] # NoCall /\ call[a][i].kind = "search"
        /\ \/ MustRead(a) /\ ToGate(a, i, "denying")
           \/ ToGate(a, i, "allow")
    BY <1>3 DEF LookPack
  <2>3. CASE ToGate(a, i, "allow")
    <3>1. \A b \in Agents : \A j \in Slots :
            IF b = a /\ j = i THEN call'[b][j].gate = "allow" ELSE call'[b][j] = call[b][j]
      BY <1>0, <2>2, <2>3, GateSet
    <3> QED
      BY <1>0, <2>1, <3>1, CapsQuiet
  <2>4. CASE MustRead(a) /\ ToGate(a, i, "denying")
    <3>1. \A b \in Agents : \A j \in Slots :
            IF b = a /\ j = i THEN call'[b][j].kind = "search" ELSE call'[b][j] = call[b][j]
      BY <1>0, <2>2, <2>4, GateSet
    <3>2. \A b \in Agents : \A k : b # a \/ k # "search" => Denying(b, k)' \subseteq Denying(b, k)
      BY <3>1 DEF Denying
    <3>3. pack[a].denials < MaxDenials
      BY <2>4 DEF MustRead
    <3>4. \A p \in Paths : p # "search"
      BY GatesAssumption
    <3> QED
      BY <1>0, <2>1, <3>2, <3>3, <3>4, CapsFrom DEF Kept
  <2> QED
    BY <2>2, <2>3, <2>4
\* The denial is counted and no longer pending.
<1>4. ASSUME NEW a \in Agents, NEW i \in Slots, DenySearch(a, i) PROVE CapsNearlyKept'
  <2>1. /\ call[a][i] # NoCall /\ call[a][i].kind = "search" /\ call[a][i].gate = "denying"
        /\ ToGate(a, i, "deny") /\ pathDenials' = pathDenials
    BY <1>4 DEF DenySearch
  <2>2. \A b \in Agents : \A j \in Slots :
          IF b = a /\ j = i THEN call'[b][j].gate = "deny" ELSE call'[b][j] = call[b][j]
    BY <1>0, <2>1, GateSet
  <2>3. \A b \in Agents : \A k : b # a \/ k # "search" => Denying(b, k)' \subseteq Denying(b, k)
    BY <2>2 DEF Denying
  <2>4. i \in Denying(a, "search") /\ Denying(a, "search")' = Denying(a, "search") \ {i}
    BY <2>1, <2>2 DEF Denying
  <2>5. \A b \in Agents :
          pack'[b].denials = IF b = a THEN pack[a].denials + 1 ELSE pack[b].denials
    BY <1>0, <1>4 DEF DenySearch, TypeOK
  <2>6. \A p \in Paths : p # "search"
    BY GatesAssumption
  <2>7. \A b \in Agents : Kept(MaxDenials, pack[b].denials, pack'[b].denials,
                               Denying(b, "search"), Denying(b, "search")')
    BY <2>3, <2>4, <2>5 DEF Kept
  <2>8. \A b \in Agents : \A p \in Paths :
          Kept(MaxPathDenials, pathDenials[b][p], pathDenials'[b][p],
               Denying(b, p), Denying(b, p)')
    BY <2>1, <2>3, <2>6 DEF Kept
  <2> QED
    BY <1>0, <2>7, <2>8, CapsFrom
<1>5. ASSUME NEW a \in Agents, NEW i \in Slots, ReadPack(a, i) PROVE CapsNearlyKept'
  <2>1. \A b \in Agents : \A j \in Slots :
          IF b = a /\ j = i THEN call'[b][j].gate = "allow" ELSE call'[b][j] = call[b][j]
    BY <1>0, <1>5, GateSet DEF ReadPack
  <2>2. \A b \in Agents : pack'[b].denials = pack[b].denials
    BY <1>0, <1>5 DEF ReadPack, TypeOK
  <2>3. pathDenials' = pathDenials
    BY <1>5 DEF ReadPack
  <2> QED
    BY <1>0, <2>1, <2>2, <2>3, CapsQuiet
\* A write is about to be denied: only below the cap of its path.
<1>6. ASSUME NEW a \in Agents, NEW i \in Slots, NEW q \in Paths, LookPath(a, i, q)
      PROVE  CapsNearlyKept'
  <2>1. pack' = pack /\ pathDenials' = pathDenials
    BY <1>6 DEF LookPath
  <2>2. /\ call[a][i] # NoCall /\ call[a][i].kind = q
        /\ \/ pathDenials[a][q] < MaxPathDenials /\ ToGate(a, i, "denying")
           \/ ToGate(a, i, "allow")
    BY <1>6 DEF LookPath, Writes
  <2>3. CASE ToGate(a, i, "allow")
    <3>1. \A b \in Agents : \A j \in Slots :
            IF b = a /\ j = i THEN call'[b][j].gate = "allow" ELSE call'[b][j] = call[b][j]
      BY <1>0, <2>2, <2>3, GateSet
    <3> QED
      BY <1>0, <2>1, <3>1, CapsQuiet
  <2>4. CASE pathDenials[a][q] < MaxPathDenials /\ ToGate(a, i, "denying")
    <3>1. \A b \in Agents : \A j \in Slots :
            IF b = a /\ j = i THEN call'[b][j].kind = q ELSE call'[b][j] = call[b][j]
      BY <1>0, <2>2, <2>4, GateSet
    <3>2. \A b \in Agents : \A k : b # a \/ k # q => Denying(b, k)' \subseteq Denying(b, k)
      BY <3>1 DEF Denying
    <3>3. "search" # q
      BY GatesAssumption
    <3>4. \A b \in Agents : Kept(MaxDenials, pack[b].denials, pack'[b].denials,
                                 Denying(b, "search"), Denying(b, "search")')
      BY <2>1, <3>2, <3>3 DEF Kept
    <3>5. \A b \in Agents : \A p \in Paths :
            Kept(MaxPathDenials, pathDenials[b][p], pathDenials'[b][p],
                 Denying(b, p), Denying(b, p)')
      BY <2>1, <2>4, <3>2 DEF Kept
    <3> QED
      BY <1>0, <3>4, <3>5, CapsFrom
  <2> QED
    BY <2>2, <2>3, <2>4
<1>7. ASSUME NEW a \in Agents, NEW i \in Slots, NEW q \in Paths, DenyWrite(a, i, q)
      PROVE  CapsNearlyKept'
  <2>1. /\ call[a][i] # NoCall /\ call[a][i].kind = q /\ call[a][i].gate = "denying"
        /\ ToGate(a, i, "deny") /\ pack' = pack
    BY <1>7 DEF DenyWrite, Writes
  <2>2. \A b \in Agents : \A j \in Slots :
          IF b = a /\ j = i THEN call'[b][j].gate = "deny" ELSE call'[b][j] = call[b][j]
    BY <1>0, <2>1, GateSet
  <2>3. \A b \in Agents : \A k : b # a \/ k # q => Denying(b, k)' \subseteq Denying(b, k)
    BY <2>2 DEF Denying
  <2>4. i \in Denying(a, q) /\ Denying(a, q)' = Denying(a, q) \ {i}
    BY <2>1, <2>2 DEF Denying
  <2>5. \A b \in Agents : \A p \in Paths :
          pathDenials'[b][p] =
            IF b = a /\ p = q THEN pathDenials[a][q] + 1 ELSE pathDenials[b][p]
    BY <1>0, <1>7 DEF DenyWrite, TypeOK
  <2>6. "search" # q
    BY GatesAssumption
  <2>7. \A b \in Agents : Kept(MaxDenials, pack[b].denials, pack'[b].denials,
                               Denying(b, "search"), Denying(b, "search")')
    BY <2>1, <2>3, <2>6 DEF Kept
  <2>8. \A b \in Agents : \A p \in Paths :
          Kept(MaxPathDenials, pathDenials[b][p], pathDenials'[b][p],
               Denying(b, p), Denying(b, p)')
    BY <2>3, <2>4, <2>5 DEF Kept
  <2> QED
    BY <1>0, <2>7, <2>8, CapsFrom
\* The governor touches no gate.
<1>8. ASSUME NEW a \in Agents, NEW i \in Slots, Governor(a, i)
      PROVE  CapsNearlyKept'
  <2>1. pack' = pack /\ pathDenials' = pathDenials
    BY <1>8 DEF Governor, GovCount, GovLook, GovWarn
  <2>2. call[a][i] # NoCall /\ \E g \in {"warnable", "warning", "allow", "deny"} : ToGov(a, i, g)
    BY <1>0, <1>8, GovernorRules
  <2>3. \A b \in Agents : \A j \in Slots :
          \/ call'[b][j] = call[b][j]
          \/ /\ call[b][j] # NoCall /\ call'[b][j].gate = call[b][j].gate
             /\ call'[b][j].kind = call[b][j].kind
    BY <1>0, <2>2, GovSet
  <2> QED
    BY <1>0, <2>1, <2>3, CapsQuiet
\* Nor does a hook that fails or is given up, an answer, or the end of a thread.
<1>9. ASSUME NEW a \in Agents, NEW i \in Slots, Ends(a, i) PROVE CapsNearlyKept'
  <2>1. pack' = pack /\ pathDenials' = pathDenials
    BY <1>9 DEF Ends, FailGate, FailGov, TimeOut, Answer, Finish
  <2>2. \A b \in Agents : \A j \in Slots : Loosed(call[b][j], call'[b][j])
    BY <1>0, <1>9, EndsLoose
  <2> QED
    BY <1>0, <2>1, <2>2, CapsQuiet DEF Loosed
<1>11. CASE UNCHANGED vars
  <2>1. pack' = pack /\ pathDenials' = pathDenials /\ call' = call
    BY <1>11 DEF vars
  <2> QED
    BY <1>0, <2>1, CapsQuiet
<1> QED
  BY <1>1, <1>2, <1>3, <1>4, <1>5, <1>6, <1>7, <1>8, <1>9, <1>11 DEF Next, Gate, Ends

-----------------------------------------------------------------------------
(* The pack that was read *)

\* How a step may treat a call so that one made after the read is not denied.
Opened(old, new, read) ==
  \/ new = old
  \/ /\ old # NoCall /\ new.afterRead = old.afterRead /\ new.kind = old.kind
     /\ \/ new.gate \in {old.gate, "allow"}
        \/ ~old.afterRead
        \/ old.kind # "search"
  \/ new.afterRead = read /\ new.gate \in {"asked", "allow"}

\* When every call is treated like that, no call made after the read is denied.
LEMMA ReadFrom ==
  ASSUME StaysRead, ReadOpens,
         \A b \in Agents : /\ everRead[b] => everRead'[b]
                           /\ everRead'[b] => pack'[b].read,
         \A b \in Agents : \A j \in Slots :
           call'[b][j] # NoCall => Opened(call[b][j], call'[b][j], everRead[b])
  PROVE  StaysRead' /\ ReadOpens'
<1> SUFFICES ASSUME NEW b \in Agents, NEW j \in Slots, call'[b][j] # NoCall
             PROVE  /\ call'[b][j].afterRead => everRead'[b]
                    /\ call'[b][j].kind = "search" /\ call'[b][j].afterRead
                         => call'[b][j].gate \in {"asked", "allow"}
  BY DEF StaysRead, ReadOpens
<1>1. Opened(call[b][j], call'[b][j], everRead[b])
  OBVIOUS
<1>2. call[b][j] # NoCall =>
        /\ call[b][j].afterRead => everRead[b]
        /\ call[b][j].kind = "search" /\ call[b][j].afterRead
             => call[b][j].gate \in {"asked", "allow"}
  BY DEF StaysRead, ReadOpens
<1> QED
  BY <1>1, <1>2 DEF Opened

\* Every hook step treats the calls like that.
LEMMA ReadNext == IInv /\ [Next]_vars => StaysRead' /\ ReadOpens'
<1> SUFFICES ASSUME IInv, [Next]_vars PROVE StaysRead' /\ ReadOpens'
  OBVIOUS
<1> USE DEF tables, history
<1>0. TypeOK /\ StaysRead /\ ReadOpens
  BY DEF IInv
<1>1. ASSUME NEW a \in Agents, Deliver(a) PROVE StaysRead' /\ ReadOpens'
  <2>1. \A b \in Agents : pack'[b].read = pack[b].read
    BY <1>0, <1>1 DEF Deliver, TypeOK
  <2>2. everRead' = everRead /\ call' = call
    BY <1>1 DEF Deliver
  <2> QED
    BY <1>0, <2>1, <2>2, ReadFrom DEF StaysRead, Opened
<1>2. ASSUME NEW a \in Agents, NEW i \in Slots, NEW k \in Kinds, Issue(a, i, k)
      PROVE  StaysRead' /\ ReadOpens'
  <2> DEFINE c == [kind |-> k, gov |-> "asked", afterRead |-> everRead[a], lost |-> {},
                   over |-> FALSE, gate |-> IF k = "other" THEN "allow" ELSE "asked"]
  <2>1. c \in CallType /\ c.afterRead = everRead[a] /\ c.gate \in {"asked", "allow"}
    BY <1>0 DEF TypeOK, CallType
  <2>2. call' = [call EXCEPT ![a][i] = c]
    BY <1>2 DEF Issue
  <2> HIDE DEF c
  <2>3. \A b \in Agents : \A j \in Slots :
          call'[b][j] = IF b = a /\ j = i THEN c ELSE call[b][j]
    BY <1>0, <2>1, <2>2, OneCall
  <2>4. pack' = pack /\ everRead' = everRead
    BY <1>2 DEF Issue
  <2>5. \A b \in Agents : \A j \in Slots : Opened(call[b][j], call'[b][j], everRead[b])
    BY <2>1, <2>3 DEF Opened
  <2> QED
    BY <1>0, <2>4, <2>5, ReadFrom DEF StaysRead
\* A call made after the read finds a pack that is read, and passes.
<1>3. ASSUME NEW a \in Agents, NEW i \in Slots, LookPack(a, i) PROVE StaysRead' /\ ReadOpens'
  <2>1. /\ call[a][i] # NoCall /\ pack' = pack /\ everRead' = everRead
        /\ \/ MustRead(a) /\ ToGate(a, i, "denying")
           \/ ToGate(a, i, "allow")
    BY <1>3 DEF LookPack
  <2>2. MustRead(a) => ~call[a][i].afterRead
    BY <1>0, <2>1 DEF MustRead, StaysRead
  <2>3. \A b \in Agents : \A j \in Slots : Opened(call[b][j], call'[b][j], everRead[b])
    BY <1>0, <2>1, <2>2, GateSet DEF Opened
  <2> QED
    BY <1>0, <2>1, <2>3, ReadFrom DEF StaysRead
<1>4. ASSUME NEW a \in Agents, NEW i \in Slots, DenySearch(a, i) PROVE StaysRead' /\ ReadOpens'
  <2>1. /\ call[a][i] # NoCall /\ call[a][i].kind = "search" /\ call[a][i].gate = "denying"
        /\ ToGate(a, i, "deny") /\ everRead' = everRead
    BY <1>4 DEF DenySearch
  <2>2. ~call[a][i].afterRead
    BY <1>0, <2>1 DEF ReadOpens
  <2>3. \A b \in Agents : \A j \in Slots : Opened(call[b][j], call'[b][j], everRead[b])
    BY <1>0, <2>1, <2>2, GateSet DEF Opened
  <2>4. \A b \in Agents : pack'[b].read = pack[b].read
    BY <1>0, <1>4 DEF DenySearch, TypeOK
  <2> QED
    BY <1>0, <2>1, <2>3, <2>4, ReadFrom DEF StaysRead
<1>5. ASSUME NEW a \in Agents, NEW i \in Slots, ReadPack(a, i) PROVE StaysRead' /\ ReadOpens'
  <2>1. \A b \in Agents : \A j \in Slots : Opened(call[b][j], call'[b][j], everRead[b])
    BY <1>0, <1>5, GateSet DEF ReadPack, Opened
  <2>2. /\ \A b \in Agents :
             pack'[b].read = IF b = a THEN pack[a].read \/ pack[a].there ELSE pack[b].read
        /\ \A b \in Agents :
             everRead'[b] = IF b = a THEN everRead[a] \/ pack[a].there ELSE everRead[b]
    BY <1>0, <1>5 DEF ReadPack, TypeOK
  <2>3. \A b \in Agents : everRead[b] => pack[b].read
    BY <1>0 DEF StaysRead
  <2> QED
    BY <1>0, <2>1, <2>2, <2>3, ReadFrom
<1>6. ASSUME NEW a \in Agents, NEW i \in Slots, NEW q \in Paths,
             LookPath(a, i, q) \/ DenyWrite(a, i, q)
      PROVE  StaysRead' /\ ReadOpens'
  <2>1. /\ call[a][i] # NoCall /\ call[a][i].kind = q
        /\ pack' = pack /\ everRead' = everRead
        /\ \E g \in {"denying", "allow", "deny"} : ToGate(a, i, g)
    BY <1>6 DEF LookPath, DenyWrite, Writes
  <2>2. q # "search"
    BY GatesAssumption
  <2>3. \A b \in Agents : \A j \in Slots : Opened(call[b][j], call'[b][j], everRead[b])
    BY <1>0, <2>1, <2>2, GateSet DEF Opened
  <2> QED
    BY <1>0, <2>1, <2>3, ReadFrom DEF StaysRead
<1>7. ASSUME NEW a \in Agents, NEW i \in Slots, Governor(a, i)
      PROVE  StaysRead' /\ ReadOpens'
  <2>1. pack' = pack /\ everRead' = everRead
    BY <1>7 DEF Governor, GovCount, GovLook, GovWarn
  <2>2. call[a][i] # NoCall /\ \E g \in {"warnable", "warning", "allow", "deny"} : ToGov(a, i, g)
    BY <1>0, <1>7, GovernorRules
  <2>3. \A b \in Agents : \A j \in Slots : Opened(call[b][j], call'[b][j], everRead[b])
    BY <1>0, <2>2, GovSet DEF Opened
  <2> QED
    BY <1>0, <2>1, <2>3, ReadFrom DEF StaysRead
<1>8. ASSUME NEW a \in Agents, NEW i \in Slots, Ends(a, i) PROVE StaysRead' /\ ReadOpens'
  <2>1. pack' = pack /\ everRead' = everRead
    BY <1>8 DEF Ends, FailGate, FailGov, TimeOut, Answer, Finish
  <2>2. \A b \in Agents : \A j \in Slots : Loosed(call[b][j], call'[b][j])
    BY <1>0, <1>8, EndsLoose
  <2>3. \A b \in Agents : \A j \in Slots :
          call'[b][j] # NoCall => Opened(call[b][j], call'[b][j], everRead[b])
    BY <2>2 DEF Opened, Loosed
  <2> QED
    BY <1>0, <2>1, <2>3, ReadFrom DEF StaysRead
<1>10. CASE UNCHANGED vars
  <2>1. pack' = pack /\ everRead' = everRead /\ call' = call
    BY <1>10 DEF vars
  <2> QED
    BY <1>0, <2>1, ReadFrom DEF StaysRead, Opened
<1> QED
  BY <1>1, <1>2, <1>3, <1>4, <1>5, <1>6, <1>7, <1>8, <1>10 DEF Next, Gate, Ends

-----------------------------------------------------------------------------
(* The containment *)

\* How a step may move an agent's books below a limit L: it lets nothing more
\* through, counts a call and lets it through, runs one the governor had no say in,
\* or runs one it let through.
Booked(b, L) ==
  \/ /\ ran'[b] = ran[b] /\ unseen'[b] = unseen[b] /\ count[b] <= count'[b]
     /\ Allowed(b)' \subseteq Allowed(b)
  \/ /\ ran'[b] = ran[b] /\ unseen'[b] = unseen[b]
     /\ count'[b] = count[b] + 1 /\ count[b] + 1 < L
     /\ \E i \in Slots : Allowed(b)' = Allowed(b) \cup {i}
  \/ /\ ran'[b] = ran[b] + 1 /\ unseen'[b] = unseen[b] + 1 /\ count'[b] = count[b]
     /\ Allowed(b)' \subseteq Allowed(b)
  \/ /\ ran'[b] = ran[b] + 1 /\ unseen'[b] = unseen[b] /\ count'[b] = count[b]
     /\ \E i \in Allowed(b) : Allowed(b)' = Allowed(b) \ {i}

\* When every agent's books move in one of those ways, the budget is kept.
LEMMA BudgetFrom ==
  ASSUME TypeOK, TypeOK', NEW L \in Nat, L >= 1, BudgetAt(L), \A b \in Agents : Booked(b, L)
  PROVE  BudgetAt(L)'
<1> SUFFICES ASSUME NEW b \in Agents
             PROVE  ran'[b] + Cardinality(Allowed(b)') <= unseen'[b] + GivenOut(b, L)'
  BY DEF BudgetAt
<1>1. /\ ran[b] \in Nat /\ unseen[b] \in Nat /\ count[b] \in Nat
      /\ ran'[b] \in Nat /\ unseen'[b] \in Nat /\ count'[b] \in Nat
  BY DEF TypeOK
<1>3. ran[b] + Cardinality(Allowed(b)) <= unseen[b] + GivenOut(b, L)
  BY DEF BudgetAt
<1>4. /\ Allowed(b) \in SUBSET Slots /\ Allowed(b)' \in SUBSET Slots
      /\ IsFiniteSet(Allowed(b)) /\ Cardinality(Allowed(b)) \in Nat
      /\ IsFiniteSet(Allowed(b)') /\ Cardinality(Allowed(b)') \in Nat
  <2>1. Allowed(b) \in SUBSET Slots /\ Allowed(b)' \in SUBSET Slots
    BY DEF Allowed
  <2> QED
    BY <2>1, SlotsFinite
<1>5. Allowed(b)' \subseteq Allowed(b) => Cardinality(Allowed(b)') <= Cardinality(Allowed(b))
  BY <1>4, FS_Subset
<1>6. ASSUME NEW i \in Slots, Allowed(b)' = Allowed(b) \cup {i}
      PROVE  Cardinality(Allowed(b)') <= Cardinality(Allowed(b)) + 1
  BY <1>4, <1>6, FS_AddElement
<1>7. ASSUME NEW i \in Allowed(b), Allowed(b)' = Allowed(b) \ {i}
      PROVE  Cardinality(Allowed(b)') = Cardinality(Allowed(b)) - 1
  BY <1>4, <1>7, FS_RemoveElement
<1>8. /\ count[b] <= count'[b] => GivenOut(b, L) <= GivenOut(b, L)'
      /\ count'[b] = count[b] + 1 /\ count[b] + 1 < L => GivenOut(b, L)' = GivenOut(b, L) + 1
      /\ GivenOut(b, L) \in Nat /\ GivenOut(b, L)' \in Nat
  BY <1>1 DEF GivenOut
<1>9. Booked(b, L)
  OBVIOUS
<1>a. CASE /\ ran'[b] = ran[b] /\ unseen'[b] = unseen[b] /\ count[b] <= count'[b]
           /\ Allowed(b)' \subseteq Allowed(b)
  BY <1>1, <1>3, <1>4, <1>5, <1>8, <1>a
<1>b. CASE /\ ran'[b] = ran[b] /\ unseen'[b] = unseen[b]
           /\ count'[b] = count[b] + 1 /\ count[b] + 1 < L
           /\ \E i \in Slots : Allowed(b)' = Allowed(b) \cup {i}
  <2>1. PICK i \in Slots : Allowed(b)' = Allowed(b) \cup {i}
    BY <1>b
  <2>2. Cardinality(Allowed(b)') <= Cardinality(Allowed(b)) + 1
    BY <1>6, <2>1
  <2> QED
    BY <1>1, <1>3, <1>4, <1>8, <1>b, <2>2
<1>c. CASE /\ ran'[b] = ran[b] + 1 /\ unseen'[b] = unseen[b] + 1 /\ count'[b] = count[b]
           /\ Allowed(b)' \subseteq Allowed(b)
  BY <1>1, <1>3, <1>4, <1>5, <1>8, <1>c
<1>d. CASE /\ ran'[b] = ran[b] + 1 /\ unseen'[b] = unseen[b] /\ count'[b] = count[b]
           /\ \E i \in Allowed(b) : Allowed(b)' = Allowed(b) \ {i}
  <2>1. PICK i \in Allowed(b) : Allowed(b)' = Allowed(b) \ {i}
    BY <1>d
  <2>2. Cardinality(Allowed(b)') = Cardinality(Allowed(b)) - 1
    BY <1>7, <2>1
  <2> QED
    BY <1>1, <1>3, <1>4, <1>8, <1>d, <2>2
<1> QED
  BY <1>9, <1>a, <1>b, <1>c, <1>d DEF Booked

\* Every hook step moves the books in one of those ways, below the limit of the
\* highest prediction.
LEMMA BudgetStep ==
  ASSUME TypeOK, TypeOK', [Next]_vars, 0 \notin Predictions,
         NEW top \in Predictions, Highest(top), NEW L \in Nat, L = Multiplier * top, L >= 1,
         BudgetAt(L)
  PROVE  BudgetAt(L)'
<1> USE DEF tables, history
<1>c. \A b \in Agents : count[b] \in Nat /\ ran[b] \in Nat /\ unseen[b] \in Nat
  BY DEF TypeOK
\* Neither the governor nor the end of a call is involved.
<1>1. ASSUME ran' = ran, unseen' = unseen, \A b \in Agents : count[b] <= count'[b],
             \A b \in Agents : \A j \in Slots :
               \/ call'[b][j] = call[b][j]
               \/ /\ call[b][j] # NoCall /\ call'[b][j].gov = call[b][j].gov
                  /\ call'[b][j].over = call[b][j].over /\ call[b][j].lost \subseteq call'[b][j].lost
               \/ call'[b][j] = NoCall \/ call'[b][j].gov = "asked" \/ "gov" \in call'[b][j].lost
      PROVE  BudgetAt(L)'
  <2>1. \A b \in Agents : Allowed(b)' \subseteq Allowed(b)
    BY <1>1 DEF Allowed
  <2> QED
    BY <1>1, <2>1, BudgetFrom DEF Booked
<1>2. ASSUME NEW a \in Agents, Deliver(a) PROVE BudgetAt(L)'
  BY <1>1, <1>2, <1>c DEF Deliver
<1>3. ASSUME NEW a \in Agents, NEW i \in Slots, NEW k \in Kinds, Issue(a, i, k) PROVE BudgetAt(L)'
  <2> DEFINE c == [kind |-> k, gov |-> "asked", afterRead |-> everRead[a], lost |-> {},
                   over |-> FALSE, gate |-> IF k = "other" THEN "allow" ELSE "asked"]
  <2>1. c \in CallType /\ c.gov = "asked"
    BY DEF TypeOK, CallType
  <2>2. call' = [call EXCEPT ![a][i] = c]
    BY <1>3 DEF Issue
  <2> HIDE DEF c
  <2>3. \A b \in Agents : \A j \in Slots :
          call'[b][j] = IF b = a /\ j = i THEN c ELSE call[b][j]
    BY <2>1, <2>2, OneCall
  <2>4. ran' = ran /\ unseen' = unseen /\ count' = count
    BY <1>3 DEF Issue
  <2> QED
    BY <1>1, <1>c, <2>1, <2>3, <2>4
<1>4. ASSUME NEW a \in Agents, NEW i \in Slots, Gate(a, i) PROVE BudgetAt(L)'
  <2>1. ran' = ran /\ unseen' = unseen /\ count' = count
    BY <1>4 DEF Gate, LookPack, DenySearch, ReadPack, LookPath, DenyWrite
  <2>2. call[a][i] # NoCall /\ \E g \in {"denying", "allow", "deny"} : ToGate(a, i, g)
    BY <1>4 DEF Gate, LookPack, DenySearch, ReadPack, LookPath, DenyWrite, Writes
  <2>3. \A b \in Agents : \A j \in Slots :
          \/ call'[b][j] = call[b][j]
          \/ /\ call[b][j] # NoCall /\ call'[b][j].gov = call[b][j].gov
             /\ call'[b][j].over = call[b][j].over /\ call'[b][j].lost = call[b][j].lost
    BY <2>2, GateSet
  <2> QED
    BY <1>1, <1>c, <2>1, <2>3
\* The counted call is let through only when its count is below the limit.
<1>5. ASSUME NEW a \in Agents, NEW i \in Slots, GovCount(a, i) PROVE BudgetAt(L)'
  <2>1. /\ call[a][i] # NoCall /\ call[a][i].gov = "asked"
        /\ count' = [count EXCEPT ![a] = @ + 1]
        /\ ran' = ran /\ unseen' = unseen
        /\ \E p \in Predictions : ToGov(a, i, Ruling(Counted(a), p))
    BY <1>5 DEF GovCount
  <2>p. PICK p \in Predictions : ToGov(a, i, Ruling(Counted(a), p))
    BY <2>1
  <2> DEFINE g == Ruling(Counted(a), p)
  <2>2. count[a] + 1 \in Nat /\ Counted(a) = count[a] + 1 /\ p > 0
    BY <1>c, GatesAssumption DEF Counted
  <2>3. /\ g \in {"warnable", "warning", "allow", "deny"}
        /\ ~(Counted(a) < L) => g = "deny"
    BY <2>2, RulingFacts
  <2>g. ToGov(a, i, g)
    BY <2>p
  <2> HIDE DEF g
  <2>4. \A b \in Agents : \A j \in Slots :
          IF b = a /\ j = i
          THEN /\ call'[b][j] # NoCall /\ call'[b][j].gov = g
               /\ call'[b][j].lost = call[b][j].lost /\ call'[b][j].over = call[b][j].over
          ELSE call'[b][j] = call[b][j]
    BY <2>1, <2>3, <2>g, GovSet
  <2>5. \A b \in Agents : count'[b] = IF b = a THEN count[a] + 1 ELSE count[b]
    BY <2>1 DEF TypeOK
  <2>6. \A b \in Agents : b # a => Allowed(b)' = Allowed(b)
    BY <2>4 DEF Allowed
  <2>7. CASE g = "deny"
    <3>1. Allowed(a)' \subseteq Allowed(a)
      BY <2>4, <2>7 DEF Allowed
    <3>2. \A b \in Agents : Booked(b, L)
      BY <1>c, <2>1, <2>5, <2>6, <3>1 DEF Booked
    <3> QED
      BY <3>2, BudgetFrom
  <2>8. CASE g # "deny"
    <3>1. count[a] + 1 < L
      BY <2>2, <2>3, <2>8
    <3>2. Allowed(a)' = Allowed(a) \/ Allowed(a)' = Allowed(a) \cup {i}
      BY <2>1, <2>4 DEF Allowed
    <3>3. \A b \in Agents : Booked(b, L)
      BY <1>c, <2>1, <2>5, <2>6, <3>1, <3>2 DEF Booked
    <3> QED
      BY <3>3, BudgetFrom
  <2> QED
    BY <2>7, <2>8
<1>6. ASSUME NEW a \in Agents, NEW i \in Slots, GovLook(a, i) \/ GovWarn(a, i) PROVE BudgetAt(L)'
  <2>1. /\ call[a][i] # NoCall /\ call[a][i].gov \in {"warnable", "warning"}
        /\ \E g \in {"warning", "allow"} : ToGov(a, i, g)
        /\ ran' = ran /\ unseen' = unseen /\ count' = count
    BY <1>6 DEF GovLook, GovWarn
  <2>2. \A b \in Agents : \A j \in Slots :
          IF b = a /\ j = i
          THEN /\ call'[b][j] # NoCall /\ call'[b][j].gov \in {"warning", "allow"}
               /\ call'[b][j].lost = call[b][j].lost /\ call'[b][j].over = call[b][j].over
          ELSE call'[b][j] = call[b][j]
    BY <2>1, GovSet
  <2>3. \A b \in Agents : Allowed(b)' \subseteq Allowed(b)
    BY <2>1, <2>2 DEF Allowed
  <2>4. \A b \in Agents : Booked(b, L)
    BY <1>c, <2>1, <2>3 DEF Booked
  <2> QED
    BY <2>4, BudgetFrom
<1>7. ASSUME NEW a \in Agents, NEW i \in Slots, FailGate(a, i) PROVE BudgetAt(L)'
  <2>1. \A b \in Agents : \A j \in Slots :
          \/ call'[b][j] = call[b][j]
          \/ /\ call[b][j] # NoCall /\ call'[b][j].gov = call[b][j].gov
             /\ call'[b][j].over = call[b][j].over /\ call[b][j].lost \subseteq call'[b][j].lost
    <3>1. call[a][i] # NoCall
      BY <1>7 DEF FailGate
    <3> QED
      BY <1>7, <3>1, FailGateSet
  <2> QED
    BY <1>1, <1>7, <1>c, <2>1 DEF FailGate
<1>8. ASSUME NEW a \in Agents, NEW i \in Slots, FailGov(a, i) PROVE BudgetAt(L)'
  <2>1. \A b \in Agents : \A j \in Slots :
          call'[b][j] = call[b][j] \/ "gov" \in call'[b][j].lost
    BY <1>8, FailGovSet
  <2>2. ran' = ran /\ unseen' = unseen /\ \A b \in Agents : count[b] <= count'[b]
    <3>1. ran' = ran /\ unseen' = unseen /\ (count' = count \/ count' = [count EXCEPT ![a] = @ + 1])
      BY <1>8 DEF FailGov
    <3>2. CASE count' = count
      BY <3>1, <3>2, <1>c
    <3>3. CASE count' = [count EXCEPT ![a] = @ + 1]
      <4>1. \A b \in Agents : count'[b] = IF b = a THEN count[b] + 1 ELSE count[b]
        BY <3>3 DEF TypeOK
      <4> QED
        BY <3>1, <4>1, <1>c
    <3> QED
      BY <3>1, <3>2, <3>3
  <2> QED
    BY <1>1, <2>1, <2>2
<1>9. ASSUME NEW a \in Agents, NEW i \in Slots, NEW h \in Hooks, TimeOut(a, i, h)
      PROVE  BudgetAt(L)'
  <2>1. \A b \in Agents : \A j \in Slots :
          \/ call'[b][j] = call[b][j]
          \/ /\ call[b][j] # NoCall /\ call'[b][j].gov = call[b][j].gov
             /\ call'[b][j].over = call[b][j].over /\ call[b][j].lost \subseteq call'[b][j].lost
    BY <1>9, TimeOutSet DEF TimeOut
  <2> QED
    BY <1>1, <1>9, <1>c, <2>1 DEF TimeOut
\* A call that runs was let through by the governor, or it had no say.
<1>10. ASSUME NEW a \in Agents, NEW i \in Slots, Answer(a, i) PROVE BudgetAt(L)'
  <2>1. /\ \A b \in Agents : \A j \in Slots :
             ~(b = a /\ j = i) => call'[b][j] = call[b][j]
        /\ call'[a][i] = NoCall \/ call'[a][i].over
    BY <1>10, AnswerSet
  <2>2. /\ call[a][i] \in CallType /\ call[a][i] # NoCall /\ ~call[a][i].over
        /\ count' = count
        /\ Working(call[a][i]) \subseteq call[a][i].lost
    BY <1>10 DEF Answer, TypeOK
  <2>3. /\ Allowed(a)' = Allowed(a) \ {i}
        /\ \A b \in Agents : b # a => Allowed(b)' = Allowed(b)
    BY <2>1, <2>2 DEF Allowed
  <2>4. \A b \in Agents : b # a => ran'[b] = ran[b] /\ unseen'[b] = unseen[b]
    BY <1>10 DEF Answer, TypeOK
  <2>5. CASE ~Passes(call[a][i])
    <3>1. ran'[a] = ran[a] /\ unseen'[a] = unseen[a]
      BY <1>10, <2>5 DEF Answer, TypeOK
    <3>2. \A b \in Agents : Booked(b, L)
      BY <1>c, <2>2, <2>3, <2>4, <3>1 DEF Booked
    <3> QED
      BY <3>2, BudgetFrom
  <2>6. CASE Passes(call[a][i]) /\ "gov" \in call[a][i].lost
    <3>1. ran'[a] = ran[a] + 1 /\ unseen'[a] = unseen[a] + 1
      BY <1>10, <2>6 DEF Answer, TypeOK
    <3>2. \A b \in Agents : Booked(b, L)
      BY <1>c, <2>2, <2>3, <2>4, <3>1 DEF Booked
    <3> QED
      BY <3>2, BudgetFrom
  <2>7. CASE Passes(call[a][i]) /\ "gov" \notin call[a][i].lost
    <3>1. ran'[a] = ran[a] + 1 /\ unseen'[a] = unseen[a]
      BY <1>10, <2>7 DEF Answer, TypeOK
    <3>2. call[a][i].gov = "allow"
      BY <2>2, <2>7 DEF Passes, Working, CallType
    <3>3. i \in Allowed(a)
      BY <2>2, <2>7, <3>2 DEF Allowed
    <3>4. \A b \in Agents : Booked(b, L)
      BY <1>c, <2>2, <2>3, <2>4, <3>1, <3>3 DEF Booked
    <3> QED
      BY <3>4, BudgetFrom
  <2> QED
    BY <2>5, <2>6, <2>7
<1>11. ASSUME NEW a \in Agents, NEW i \in Slots, Finish(a, i) PROVE BudgetAt(L)'
  <2>1. \A b \in Agents : \A j \in Slots :
          call'[b][j] = IF b = a /\ j = i THEN NoCall ELSE call[b][j]
    <3>1. call' = [call EXCEPT ![a][i] = NoCall]
      BY <1>11 DEF Finish
    <3> QED
      BY <3>1, OneCall
  <2>2. \A b \in Agents : count[b] <= count'[b]
    BY <1>11, <1>c DEF Finish
  <2>3. ran' = ran /\ unseen' = unseen
    BY <1>11 DEF Finish
  <2> QED
    BY <1>1, <2>1, <2>2, <2>3
<1>12. CASE UNCHANGED vars
  BY <1>1, <1>12, <1>c DEF vars
<1> QED
  BY <1>2, <1>3, <1>4, <1>5, <1>6, <1>7, <1>8, <1>9, <1>10, <1>11, <1>12 DEF Next, Governor

\* The limit of the highest prediction is one call at least.
LEMMA LimitIsPositive ==
  ASSUME 0 \notin Predictions, Multiplier > 0, NEW top \in Predictions
  PROVE  Multiplier * top \in Nat /\ Multiplier * top >= 1
<1>1. Multiplier \in Nat /\ top \in Nat /\ top # 0
  BY GatesAssumption
<1>2. PICK m \in Nat : Multiplier = m + 1
  <2>1. Multiplier - 1 \in Nat /\ Multiplier = (Multiplier - 1) + 1
    BY <1>1
  <2> QED
    BY <2>1
<1>3. Multiplier * top = m * top + top /\ m * top \in Nat
  BY <1>1, <1>2
<1> QED
  BY <1>1, <1>3

\* So the budget is kept.
LEMMA BudgetNext == IInv /\ TypeOK' /\ [Next]_vars => Budget'
<1> SUFFICES ASSUME IInv, TypeOK', [Next]_vars, 0 \notin Predictions, Multiplier > 0,
                    NEW top \in Predictions, Highest(top)
             PROVE  BudgetAt(Multiplier * top)'
  BY DEF Budget, Highest
<1>1. BudgetAt(Multiplier * top) /\ TypeOK
  BY DEF IInv, Budget
<1>2. Multiplier * top \in Nat /\ Multiplier * top >= 1
  BY LimitIsPositive
<1> QED
  BY <1>1, <1>2, BudgetStep

-----------------------------------------------------------------------------
(* One call at a time *)

\* What an agent is about to count stays below its caps when nothing is counted
\* and no call gets closer to counting.
LEMMA SerialFrom ==
  ASSUME NEW b \in Agents, SerialAt(b),
         pack'[b].denials = pack[b].denials, pathDenials'[b] = pathDenials[b],
         warned'[b] = warned[b], warnings'[b] = warnings[b], unmarked'[b] = unmarked[b],
         \A j \in Slots : call'[b][j] # NoCall =>
           /\ call[b][j] # NoCall /\ call'[b][j].kind = call[b][j].kind
           /\ call'[b][j].gate = "denying" => call[b][j].gate = "denying"
           /\ call'[b][j].gov = "warning" => call[b][j].gov = "warning"
  PROVE  SerialAt(b)'
BY DEF SerialAt

\* The calls of one agent say nothing of another's counters.
LEMMA SerialElsewhere ==
  ASSUME NEW b \in Agents, SerialAt(b),
         pack'[b] = pack[b], pathDenials'[b] = pathDenials[b],
         warned'[b] = warned[b], warnings'[b] = warnings[b], unmarked'[b] = unmarked[b], call'[b] = call[b]
  PROVE  SerialAt(b)'
BY DEF SerialAt

\* Every hook step of an agent that makes one call at a time.
LEMMA SerialNext == IInv /\ TypeOK' /\ [Next]_vars => Serial'
<1> SUFFICES ASSUME IInv, TypeOK', [Next]_vars, NEW b \in Agents \ parallel'
             PROVE  SerialAt(b)'
  BY DEF Serial
<1> USE DEF tables, history
<1>t. TypeOK  BY DEF IInv
<1>p. parallel \subseteq parallel'
  <2>1. ASSUME NEW a \in Agents, NEW i \in Slots, NEW k \in Kinds, Issue(a, i, k)
        PROVE  parallel \subseteq parallel'
    BY <2>1 DEF Issue
  <2>2. ASSUME NEW a \in Agents, NEW i \in Slots, Ends(a, i)  PROVE parallel' = parallel
    BY <2>2 DEF Ends, FailGate, FailGov, TimeOut, Answer, Finish
  <2>3. ASSUME NEW a \in Agents, NEW i \in Slots, Gate(a, i)  PROVE parallel' = parallel
    BY <2>3 DEF Gate, LookPack, DenySearch, ReadPack, LookPath, DenyWrite
  <2>4. ASSUME NEW a \in Agents, NEW i \in Slots, Governor(a, i)  PROVE parallel' = parallel
    BY <2>4 DEF Governor, GovCount, GovLook, GovWarn
  <2> QED
    BY <2>1, <2>2, <2>3, <2>4 DEF Next, Deliver, Ends, vars
<1>s. b \in Agents /\ SerialAt(b)  BY <1>p DEF IInv, Serial
<1>1. ASSUME NEW a \in Agents, Deliver(a)  PROVE SerialAt(b)'
  <2>1. pack'[b].denials = pack[b].denials  BY <1>1, <1>t, <1>s DEF Deliver, TypeOK
  <2> QED  BY <1>1, <1>s, <2>1, SerialFrom DEF Deliver
\* The first call of a message is the only one in flight.
<1>2. ASSUME NEW a \in Agents, NEW i \in Slots, NEW k \in Kinds, Issue(a, i, k)  PROVE SerialAt(b)'
  <2> DEFINE c == [kind |-> k, gov |-> "asked", afterRead |-> everRead[a], lost |-> {},
                   over |-> FALSE, gate |-> IF k = "other" THEN "allow" ELSE "asked"]
  <2>1. c \in CallType /\ c.gate # "denying" /\ c.gov = "asked"
    BY <1>t DEF TypeOK, CallType
  <2>2. call' = [call EXCEPT ![a][i] = c]  BY <1>2 DEF Issue
  <2> HIDE DEF c
  <2>3. \A j \in Slots : call'[b][j] = IF b = a /\ j = i THEN c ELSE call[b][j]
    BY <1>t, <1>s, <2>1, <2>2, OneCall
  <2>4. pack' = pack /\ pathDenials' = pathDenials /\ warned' = warned /\ warnings' = warnings /\ unmarked' = unmarked
    BY <1>2 DEF Issue
  <2>5. CASE b = a
    <3>1. \A j \in Slots : call[b][j] = NoCall
      BY <1>2, <2>5 DEF Issue, InFlight
    <3> QED  BY <1>s, <2>1, <2>3, <2>4, <2>5, <3>1 DEF SerialAt
  <2>6. CASE b # a
    BY <1>s, <2>3, <2>4, <2>6, SerialFrom
  <2> QED  BY <2>5, <2>6
\* A search is about to be denied: only below the cap.
<1>3. ASSUME NEW a \in Agents, NEW i \in Slots, LookPack(a, i)  PROVE SerialAt(b)'
  <2>1. /\ call[a][i] # NoCall /\ call[a][i].kind = "search"
        /\ pack' = pack /\ pathDenials' = pathDenials /\ warned' = warned /\ warnings' = warnings /\ unmarked' = unmarked
        /\ \/ MustRead(a) /\ ToGate(a, i, "denying")
           \/ ToGate(a, i, "allow")
    BY <1>3 DEF LookPack
  <2>2. PICK g \in {"denying", "allow"} : ToGate(a, i, g) /\ (g = "denying" => MustRead(a))
    BY <2>1
  <2>3. \A j \in Slots :
          IF b = a /\ j = i
          THEN /\ call'[b][j] # NoCall /\ call'[b][j].gate = g
               /\ call'[b][j].kind = call[b][j].kind /\ call'[b][j].gov = call[b][j].gov
          ELSE call'[b][j] = call[b][j]
    BY <1>t, <1>s, <2>1, <2>2, GateSet
  <2>4. g = "denying" => pack[a].denials < MaxDenials /\ \A p \in Paths : p # "search"
    BY <2>2, GatesAssumption DEF MustRead
  <2> QED  BY <1>s, <2>1, <2>3, <2>4 DEF SerialAt
\* The one call in flight counts its denial.
<1>4. ASSUME NEW a \in Agents, NEW i \in Slots, DenySearch(a, i)  PROVE SerialAt(b)'
  <2>1. /\ call[a][i] # NoCall /\ call[a][i].kind = "search" /\ call[a][i].gate = "denying"
        /\ ToGate(a, i, "deny") /\ pathDenials' = pathDenials /\ warned' = warned /\ warnings' = warnings /\ unmarked' = unmarked
    BY <1>4 DEF DenySearch
  <2>2. \A j \in Slots :
          IF b = a /\ j = i
          THEN /\ call'[b][j] # NoCall /\ call'[b][j].gate = "deny" /\ call'[b][j].gov = call[b][j].gov
          ELSE call'[b][j] = call[b][j]
    BY <1>t, <1>s, <2>1, GateSet
  <2>3. pack'[b].denials = IF b = a THEN pack[b].denials + 1 ELSE pack[b].denials
    BY <1>t, <1>s, <1>4 DEF DenySearch, TypeOK
  <2>4. CASE b = a
    <3>1. pack[b].denials < MaxDenials /\ \A j \in Slots : call[b][j] # NoCall => j = i
      BY <1>s, <2>1, <2>4 DEF SerialAt
    <3>2. pack'[b].denials <= MaxDenials
      BY <1>t, <1>s, <2>3, <2>4, <3>1, GatesAssumption DEF TypeOK
    <3>3. \A j \in Slots : call'[b][j] # NoCall => j = i  BY <2>2, <2>4, <3>1
    <3> QED  BY <1>s, <2>1, <2>2, <2>4, <3>2, <3>3 DEF SerialAt
  <2>5. CASE b # a
    BY <1>s, <2>1, <2>2, <2>3, <2>5, SerialFrom
  <2> QED  BY <2>4, <2>5
<1>5. ASSUME NEW a \in Agents, NEW i \in Slots, ReadPack(a, i)  PROVE SerialAt(b)'
  <2>1. call[a][i] # NoCall /\ ToGate(a, i, "allow")
        /\ pathDenials' = pathDenials /\ warned' = warned /\ warnings' = warnings /\ unmarked' = unmarked
    BY <1>5 DEF ReadPack
  <2>2. pack'[b].denials = pack[b].denials
    BY <1>t, <1>s, <1>5 DEF ReadPack, TypeOK
  <2>3. \A j \in Slots :
          IF b = a /\ j = i
          THEN /\ call'[b][j].gate = "allow" /\ call'[b][j].gov = call[b][j].gov
               /\ call'[b][j].kind = call[b][j].kind
          ELSE call'[b][j] = call[b][j]
    BY <1>t, <1>s, <2>1, GateSet
  <2> QED  BY <1>s, <2>1, <2>2, <2>3, SerialFrom
\* A write is about to be denied: only below the cap of its path.
<1>6. ASSUME NEW a \in Agents, NEW i \in Slots, NEW p \in Paths, LookPath(a, i, p)  PROVE SerialAt(b)'
  <2>1. /\ call[a][i] # NoCall /\ call[a][i].kind = p
        /\ pack' = pack /\ pathDenials' = pathDenials /\ warned' = warned /\ warnings' = warnings /\ unmarked' = unmarked
        /\ \E g \in {"denying", "allow"} :
             ToGate(a, i, g) /\ (g = "denying" => pathDenials[a][p] < MaxPathDenials)
    BY <1>6 DEF LookPath, Writes
  <2>2. PICK g \in {"denying", "allow"} :
             ToGate(a, i, g) /\ (g = "denying" => pathDenials[a][p] < MaxPathDenials)
    BY <2>1
  <2>3. \A j \in Slots :
          IF b = a /\ j = i
          THEN /\ call'[b][j] # NoCall /\ call'[b][j].gate = g
               /\ call'[b][j].kind = call[b][j].kind /\ call'[b][j].gov = call[b][j].gov
          ELSE call'[b][j] = call[b][j]
    BY <1>t, <1>s, <2>1, <2>2, GateSet
  <2>4. p # "search"  BY GatesAssumption
  <2> QED  BY <1>s, <2>1, <2>2, <2>3, <2>4 DEF SerialAt
<1>7. ASSUME NEW a \in Agents, NEW i \in Slots, NEW p \in Paths, DenyWrite(a, i, p)  PROVE SerialAt(b)'
  <2>1. /\ call[a][i] # NoCall /\ call[a][i].kind = p /\ call[a][i].gate = "denying"
        /\ ToGate(a, i, "deny") /\ pack' = pack /\ warned' = warned /\ warnings' = warnings /\ unmarked' = unmarked
    BY <1>7 DEF DenyWrite, Writes
  <2>2. \A j \in Slots :
          IF b = a /\ j = i
          THEN /\ call'[b][j] # NoCall /\ call'[b][j].gate = "deny" /\ call'[b][j].gov = call[b][j].gov
          ELSE call'[b][j] = call[b][j]
    BY <1>t, <1>s, <2>1, GateSet
  <2>3. \A q \in Paths :
          pathDenials'[b][q] = IF b = a /\ q = p THEN pathDenials[b][q] + 1 ELSE pathDenials[b][q]
    BY <1>t, <1>s, <1>7 DEF DenyWrite, TypeOK
  <2>4. CASE b = a
    <3>1. pathDenials[b][p] < MaxPathDenials /\ \A j \in Slots : call[b][j] # NoCall => j = i
      BY <1>s, <2>1, <2>4 DEF SerialAt
    <3>2. \A q \in Paths : pathDenials'[b][q] <= MaxPathDenials
      <4> TAKE q \in Paths
      <4>1. pathDenials[b][q] \in Nat /\ pathDenials[b][q] <= MaxPathDenials /\ MaxPathDenials \in Nat
        BY <1>t, <1>s, GatesAssumption DEF TypeOK, SerialAt
      <4> QED  BY <2>3, <3>1, <4>1
    <3>3. \A j \in Slots : call'[b][j] # NoCall => j = i  BY <2>2, <2>4, <3>1
    <3> QED  BY <1>s, <2>1, <2>2, <2>4, <3>2, <3>3 DEF SerialAt
  <2>5. CASE b # a
    <3>1. pathDenials'[b] = pathDenials[b]  BY <1>t, <1>s, <1>7, <2>5 DEF DenyWrite, TypeOK
    <3> QED  BY <1>s, <2>1, <2>2, <2>5, <3>1, SerialFrom
  <2> QED  BY <2>4, <2>5
<1>8. ASSUME NEW a \in Agents, NEW i \in Slots, GovCount(a, i)  PROVE SerialAt(b)'
  <2>1. /\ call[a][i] # NoCall
        /\ pack' = pack /\ pathDenials' = pathDenials /\ warned' = warned /\ warnings' = warnings
        /\ unmarked' = unmarked
    BY <1>8 DEF GovCount
  <2>2. PICK p \in Predictions : ToGov(a, i, Ruling(Counted(a), p))
    BY <1>8 DEF GovCount
  <2>3. Ruling(Counted(a), p) \in {"warnable", "allow", "deny"}
    BY <1>t, RulingFacts DEF Counted, TypeOK
  <2>4. \A j \in Slots :
          IF b = a /\ j = i
          THEN /\ call'[b][j].gov # "warning" /\ call'[b][j].gate = call[b][j].gate
               /\ call'[b][j].kind = call[b][j].kind
          ELSE call'[b][j] = call[b][j]
    BY <1>t, <1>s, <2>1, <2>2, <2>3, GovSet
  <2> QED  BY <1>s, <2>1, <2>4, SerialFrom
\* The warning is due only while none was given ...
<1>9. ASSUME NEW a \in Agents, NEW i \in Slots, GovLook(a, i)  PROVE SerialAt(b)'
  <2>1. /\ call[a][i] # NoCall
        /\ pack' = pack /\ pathDenials' = pathDenials /\ warned' = warned /\ warnings' = warnings /\ unmarked' = unmarked
        /\ \E g \in {"warning", "allow"} : ToGov(a, i, g) /\ (g = "warning" => ~warned[a])
    BY <1>9 DEF GovLook
  <2>2. PICK g \in {"warning", "allow"} : ToGov(a, i, g) /\ (g = "warning" => ~warned[a])
    BY <2>1
  <2>3. \A j \in Slots :
          IF b = a /\ j = i
          THEN /\ call'[b][j] # NoCall /\ call'[b][j].gov = g
               /\ call'[b][j].kind = call[b][j].kind /\ call'[b][j].gate = call[b][j].gate
          ELSE call'[b][j] = call[b][j]
    BY <1>t, <1>s, <2>1, <2>2, GovSet
  <2> QED  BY <1>s, <2>1, <2>2, <2>3 DEF SerialAt
\* ... and the one call in flight gives it.
<1>10. ASSUME NEW a \in Agents, NEW i \in Slots, GovWarn(a, i)  PROVE SerialAt(b)'
  <2>1. /\ call[a][i] # NoCall /\ call[a][i].gov = "warning" /\ ToGov(a, i, "allow")
        /\ pack' = pack /\ pathDenials' = pathDenials
    BY <1>10 DEF GovWarn
  <2>2. \A j \in Slots :
          IF b = a /\ j = i
          THEN /\ call'[b][j] # NoCall /\ call'[b][j].gov = "allow"
               /\ call'[b][j].kind = call[b][j].kind /\ call'[b][j].gate = call[b][j].gate
          ELSE call'[b][j] = call[b][j]
    BY <1>t, <1>s, <2>1, GovSet
  <2>4. CASE b = a
    <3>1. ~warned[b] /\ \A j \in Slots : call[b][j] # NoCall => j = i
      BY <1>s, <2>1, <2>4 DEF SerialAt
    <3>2. /\ warnings[b] \in Nat /\ unmarked[b] \in Nat /\ warnings[b] <= unmarked[b]
          /\ warnings'[b] \in {warnings[b], warnings[b] + 1}
      BY <1>t, <1>s, <1>10, <2>4, <3>1 DEF SerialAt, TypeOK, GovWarn, Warned
    <3>3. \/ warned'[b] /\ unmarked'[b] = unmarked[b]
          \/ warned'[b] = warned[b] /\ unmarked'[b] = unmarked[b] + 1
      BY <1>t, <1>s, <1>10, <2>4 DEF TypeOK, GovWarn
    <3>4. warnings'[b] <= 1 + unmarked'[b] /\ (~warned'[b] => warnings'[b] <= unmarked'[b])
      BY <3>2, <3>3
    <3>5. \A j \in Slots : call'[b][j] # NoCall => j = i /\ call'[b][j].gov # "warning"
      BY <2>2, <2>4, <3>1
    <3> QED  BY <1>s, <2>1, <2>2, <2>4, <3>4, <3>5 DEF SerialAt
  <2>5. CASE b # a
    <3>1. warned'[b] = warned[b] /\ warnings'[b] = warnings[b] /\ unmarked'[b] = unmarked[b]
      BY <1>t, <1>s, <1>10, <2>5 DEF TypeOK, GovWarn, Warned
    <3> QED  BY <1>s, <2>1, <2>2, <2>5, <3>1, SerialFrom
  <2> QED  BY <2>4, <2>5
<1>11. ASSUME NEW a \in Agents, NEW i \in Slots, Ends(a, i)  PROVE SerialAt(b)'
  <2>1. /\ pack' = pack /\ pathDenials' = pathDenials /\ warned' = warned /\ warnings' = warnings
        /\ unmarked' = unmarked
    BY <1>11 DEF Ends, FailGate, FailGov, TimeOut, Answer, Finish
  <2>2. \A j \in Slots : Loosed(call[b][j], call'[b][j])
    BY <1>t, <1>s, <1>11, EndsLoose
  <2>3. \A j \in Slots : call'[b][j] # NoCall =>
          /\ call[b][j] # NoCall /\ call'[b][j].kind = call[b][j].kind
          /\ call'[b][j].gate = "denying" => call[b][j].gate = "denying"
          /\ call'[b][j].gov = "warning" => call[b][j].gov = "warning"
    BY <2>2 DEF Loosed
  <2> QED  BY <1>s, <2>1, <2>3, SerialFrom
<1>14. CASE UNCHANGED vars
  BY <1>14, <1>s, SerialElsewhere DEF vars
<1> QED
  BY <1>1, <1>2, <1>3, <1>4, <1>5, <1>6, <1>7, <1>8, <1>9, <1>10, <1>11, <1>14
  DEF Next, Gate, Governor, Ends

-----------------------------------------------------------------------------
\* No call, no denial, nothing read, nothing counted.
LEMMA InitIInv == Init => IInv
<1> SUFFICES ASSUME Init PROVE IInv
  OBVIOUS
<1>1. TypeOK
  BY DEF Init, TypeOK
<1>2. /\ \A a \in Agents : \A i \in Slots : call[a][i] = NoCall
      /\ \A a \in Agents : pack[a].denials = 0 /\ ~everRead[a] /\ ran[a] = 0 /\ unseen[a] = 0
                           /\ count[a] = 0
      /\ \A a \in Agents : \A p \in Paths : pathDenials[a][p] = 0
  BY DEF Init
<1>3. \A a \in Agents : Allowed(a) = {} /\ \A k : Denying(a, k) = {}
  BY <1>2 DEF Allowed, Denying
<1>4. Cardinality({}) = 0 /\ MaxDenials \in Nat /\ MaxPathDenials \in Nat
      /\ Cardinality(Slots) \in Nat /\ Cardinality(Slots) >= 1
  BY FS_EmptySet, SlotsFinite, GatesAssumption
<1>5. CapsNearlyKept
  <2> SUFFICES ASSUME NEW a \in Agents
               PROVE  /\ pack[a].denials + Cardinality(Denying(a, "search")) + 1
                           <= MaxDenials + Cardinality(Slots)
                      /\ \A p \in Paths :
                           pathDenials[a][p] + Cardinality(Denying(a, p)) + 1
                             <= MaxPathDenials + Cardinality(Slots)
    BY DEF CapsNearlyKept
  <2>1. pack[a].denials + Cardinality(Denying(a, "search")) + 1 <= MaxDenials + Cardinality(Slots)
    <3>1. pack[a].denials = 0 /\ Denying(a, "search") = {}
      BY <1>2, <1>3
    <3> QED
      BY <1>4, <3>1
  <2>2. ASSUME NEW p \in Paths
        PROVE  pathDenials[a][p] + Cardinality(Denying(a, p)) + 1
                 <= MaxPathDenials + Cardinality(Slots)
    <3>1. pathDenials[a][p] = 0 /\ Denying(a, p) = {}
      BY <1>2, <1>3
    <3> QED
      BY <1>4, <3>1
  <2> QED
    BY <2>1, <2>2
<1>6. StaysRead /\ ReadOpens
  BY <1>2 DEF StaysRead, ReadOpens
<1>7. Budget
  <2> SUFFICES ASSUME 0 \notin Predictions, Multiplier > 0, NEW top \in Predictions,
                      NEW a \in Agents
               PROVE  ran[a] + Cardinality(Allowed(a)) <= unseen[a] + GivenOut(a, Multiplier * top)
    BY DEF Budget, BudgetAt
  <2>1. Multiplier * top \in Nat /\ Multiplier * top >= 1
    BY LimitIsPositive
  <2>2. ran[a] = 0 /\ unseen[a] = 0 /\ count[a] = 0 /\ Allowed(a) = {}
    BY <1>2, <1>3
  <2>3. GivenOut(a, Multiplier * top) = 0
    BY <2>1, <2>2 DEF GivenOut
  <2> QED
    BY <1>4, <2>2, <2>3
<1>8. Serial
  BY <1>2, GatesAssumption DEF Init, Serial, SerialAt
<1> QED
  BY <1>1, <1>5, <1>6, <1>7, <1>8 DEF IInv

\* The inductive invariant holds in every reachable state.
THEOREM Invariance == Spec => []IInv
<1>1. Init => IInv
  BY InitIInv
<1>2. IInv /\ [Next]_vars => IInv'
  <2> SUFFICES ASSUME IInv, [Next]_vars PROVE IInv'
    OBVIOUS
  <2>1. TypeOK'
    BY TypeNext DEF IInv
  <2> QED
    BY <2>1, CapsNext, ReadNext, BudgetNext, SerialNext DEF IInv
<1> QED
  BY <1>1, <1>2, PTL DEF Spec

\* With any number of parallel calls, increment_dossier_denial and
\* increment_throttle_denial pass their caps by less than one message of calls.
THEOREM CapsAreNearlyKept == Spec => []CapsNearlyKept
<1>1. IInv => CapsNearlyKept
  BY DEF IInv
<1> QED
  BY <1>1, Invariance, PTL

\* handle_tool_pre_dossier never denies a search that was made after its agent
\* read a pack, however often the agent is started again.
THEOREM ReadingOpens == Spec => []ReadOpens
<1>1. IInv => ReadOpens
  BY DEF IInv
<1> QED
  BY <1>1, Invariance, PTL

\* Of the calls handle_tool_pre_governor rules on in time, fewer run than
\* runaway_multiplier times the highest prediction.
THEOREM RunawaysAreContained == Spec => []Contained
<1>1. IInv => Contained
  <2> SUFFICES ASSUME IInv, 0 \notin Predictions, Multiplier > 0,
                      NEW top \in Predictions, \A p \in Predictions : p <= top, NEW a \in Agents
               PROVE  ran[a] < unseen[a] + Multiplier * top
    BY DEF Contained
  <2>0. Highest(top)
    BY DEF Highest
  <2>1. ran[a] + Cardinality(Allowed(a)) <= unseen[a] + GivenOut(a, Multiplier * top)
    BY <2>0 DEF IInv, Budget, BudgetAt
  <2>2. ran[a] \in Nat /\ unseen[a] \in Nat /\ count[a] \in Nat
    BY DEF IInv, TypeOK
  <2>3. Cardinality(Allowed(a)) \in Nat
    BY SlotsFinite DEF Allowed
  <2>4. Multiplier * top \in Nat /\ Multiplier * top >= 1
    BY LimitIsPositive
  <2>5. GivenOut(a, Multiplier * top) < Multiplier * top /\ GivenOut(a, Multiplier * top) \in Nat
    BY <2>2, <2>4 DEF GivenOut
  <2> QED
    BY <2>1, <2>2, <2>3, <2>4, <2>5
<1> QED
  BY <1>1, Invariance, PTL

\* An agent whose calls never overlap is denied by handle_tool_pre_dossier and
\* throttle up to their caps at most, and warned by the governor once and once more
\* for each mark_call_warned that failed, whichever hooks fail or are given up.
THEOREM OneCallIsExact == Spec => []SerialExact
<1>1. IInv => SerialExact
  BY DEF IInv, Serial, SerialAt, SerialExact
<1> QED
  BY <1>1, Invariance, PTL
=============================================================================
