------------------------------- MODULE Folding -------------------------------
(***************************************************************************)
(* Induction, and what FoldSet and FoldLeft of the community modules rest  *)
(* on, stated with sets and functions in place of predicates and           *)
(* operators, so that every theorem can be cited.                          *)
(***************************************************************************)
EXTENDS Integers, FiniteSets, FiniteSetTheorems, TLAPS

\* Induction over the natural numbers, with a set for the predicate: an injection of
\* a finite set into itself is onto, so the numbers up to one outside N cannot all be
\* moved up by one.
THEOREM Induct ==
  ASSUME NEW N \in SUBSET Nat, 0 \in N, \A n \in N : n + 1 \in N
  PROVE  N = Nat
<1> SUFFICES ASSUME NEW m \in Nat, m \notin N PROVE FALSE  OBVIOUS
<1> DEFINE A == {i \in 0..m : i \in N}
           f == [i \in A |-> i + 1]
<1>1. IsFiniteSet(A)
  <2>1. IsFiniteSet(0..m)  BY FS_Interval
  <2>2. A \subseteq 0..m  OBVIOUS
  <2> HIDE DEF A
  <2> QED  BY <2>1, <2>2, FS_Subset
<1>2. f \in Injection(A, A)  BY DEF Injection, IsInjective
<1>3. f \in Surjection(A, A)
  <2> HIDE DEF f, A
  <2> QED  BY <1>1, <1>2, FS_Injection
<1>4. 0 \in A  OBVIOUS
<1>5. \E i \in A : f[i] = 0  BY <1>3, <1>4 DEF Surjection
<1> QED  BY <1>5

\* The functions that pick an element of every subset.
Picks(S) == {pick \in [(SUBSET S) \ {{}} -> S] : \A s \in (SUBSET S) \ {{}} : pick[s] \in s}

\* The properties of subsets that hold of the empty one, and of one if of the rest of it.
Hereditary(S, pick) ==
  {P \in SUBSET (SUBSET S) :
     {} \in P /\ \A s \in SUBSET S : s # {} /\ s \ {pick[s]} \in P => s \in P}

\* The folds of F over S from base: what F makes of the element picked and of the
\* value for the rest.
Iterations(S, V, base, pick, F) ==
  {g \in [SUBSET S -> V] :
     g = [s \in SUBSET S |-> IF s = {} THEN base ELSE F[<<pick[s], g[s \ {pick[s]}]>>]]}

\* Induction over the subsets of a finite set, along the element picked from each.
THEOREM InductSet ==
  ASSUME NEW S, IsFiniteSet(S), NEW pick \in Picks(S), NEW P \in Hereditary(S, pick)
  PROVE  S \in P
<1> USE DEF Hereditary
<1> DEFINE N == {n \in Nat : \A s \in SUBSET S : Cardinality(s) = n => s \in P}
<1>1. \A s \in SUBSET S : IsFiniteSet(s) /\ Cardinality(s) \in Nat
  BY FS_Subset, FS_CardinalityType
<1>2. 0 \in N  BY <1>1, FS_EmptySet
<1>3. ASSUME NEW n \in N PROVE n + 1 \in N
  <2> SUFFICES ASSUME NEW s \in SUBSET S, Cardinality(s) = n + 1 PROVE s \in P  OBVIOUS
  <2>1. \A u \in SUBSET S : Cardinality(u) = n => u \in P  OBVIOUS
  <2>0. n \in Nat  OBVIOUS
  <2>2. s # {}
    <3> HIDE DEF N
    <3>1. Cardinality(s) # 0  BY <2>0
    <3> QED  BY <3>1, FS_EmptySet
  <2>3. pick[s] \in s  BY <2>2 DEF Picks
  <2>4. Cardinality(s \ {pick[s]}) = n
    <3> HIDE DEF N
    <3>1. Cardinality(s \ {pick[s]}) = Cardinality(s) - 1  BY <1>1, <2>3, FS_RemoveElement
    <3> QED  BY <2>0, <3>1
  <2>5. s \ {pick[s]} \in P  BY <2>1, <2>4
  <2> QED  BY <2>2, <2>5
<1> HIDE DEF N
<1>4. N = Nat  BY <1>2, <1>3, Induct DEF N
<1> QED  BY <1>1, <1>4 DEF N

\* A fold over a finite set exists: a function on its subsets that takes the element
\* picked from each of them into the value for the others.
THEOREM FoldExists ==
  ASSUME NEW S, IsFiniteSet(S), NEW V, NEW base \in V,
         NEW pick \in Picks(S),
         NEW F \in [S \X V -> V]
  PROVE  \E g : g \in Iterations(S, V, base, pick, F)
<1> DEFINE D(n) == {s \in SUBSET S : Cardinality(s) <= n}
           Step(g, s) == IF s = {} THEN base ELSE F[<<pick[s], g[s \ {pick[s]}]>>]
           Good(n) == {g \in [D(n) -> V] : \A s \in D(n) : g[s] = Step(g, s)}
           N == {n \in Nat : Good(n) # {}}
<1>1. \A s \in SUBSET S : IsFiniteSet(s) /\ Cardinality(s) \in Nat
  BY FS_Subset, FS_CardinalityType
<1>2. 0 \in N
  <2> DEFINE g == [s \in D(0) |-> base]
  <2>1. \A s \in D(0) : s = {}  BY <1>1, FS_EmptySet
  <2>2. g \in Good(0)  BY <2>1
  <2> QED  BY <2>2
<1>3. ASSUME NEW n \in N PROVE n + 1 \in N
  <2>1. PICK g \in [D(n) -> V] : \A s \in D(n) : g[s] = Step(g, s)  OBVIOUS
  <2> DEFINE h == [s \in D(n + 1) |-> Step(g, s)]
  <2>2. \A s \in D(n) : s \in D(n + 1)  BY <1>1
  <2>3. \A s \in D(n) : h[s] = g[s]  BY <2>1, <2>2
  <2>4. ASSUME NEW s \in D(n + 1), s # {}
        PROVE  s \ {pick[s]} \in D(n) /\ pick[s] \in S
    <3>1. n \in Nat /\ pick[s] \in s /\ s \in SUBSET S /\ Cardinality(s) <= n + 1
      BY <2>4 DEF Picks
    <3>2. Cardinality(s \ {pick[s]}) = Cardinality(s) - 1
      <4> HIDE DEF N, D
      <4> QED  BY <1>1, <3>1, FS_RemoveElement
    <3> QED  BY <1>1, <3>1, <3>2
  <2>5. \A s \in D(n + 1) : Step(h, s) = Step(g, s)
    <3> HIDE DEF D, h
    <3> QED  BY <2>3, <2>4
  <2>6. \A s \in D(n + 1) : Step(g, s) \in V
    <3> HIDE DEF D, h
    <3> QED  BY <2>1, <2>4
  <2>7. h \in Good(n + 1)
    <3>1. h \in [D(n + 1) -> V]  BY <2>6
    <3>2. \A s \in D(n + 1) : h[s] = Step(g, s)  OBVIOUS
    <3> HIDE DEF D, h, Step
    <3> QED  BY <2>5, <3>1, <3>2
  <2>8. n + 1 \in Nat  OBVIOUS
  <2> HIDE DEF h, Good
  <2> QED  BY <2>7, <2>8
<1>4. N = Nat
  <2> HIDE DEF Good
  <2>1. N \in SUBSET Nat  OBVIOUS
  <2> HIDE DEF N
  <2> QED  BY <1>2, <1>3, <2>1, Induct
<1> DEFINE n == Cardinality(S)
<1>5. n \in Nat /\ D(n) = SUBSET S  BY FS_CardinalityType, FS_Subset
<1>6. Good(n) # {}
  <2> HIDE DEF n, Good
  <2> QED  BY <1>4, <1>5
<1>7. PICK g \in Good(n) : TRUE
  <2> HIDE DEF Good, n
  <2> QED  BY <1>6
<1>8. g \in [SUBSET S -> V] /\ \A s \in SUBSET S : g[s] = Step(g, s)  BY <1>5, <1>7
<1>9. g = [s \in SUBSET S |-> Step(g, s)]
  <2> HIDE DEF Step
  <2> QED  BY <1>8
<1> QED  BY <1>8, <1>9 DEF Iterations

\* A finite set of integers that is not empty has a largest element.
THEOREM LargestExists ==
  ASSUME NEW S \in SUBSET Int, IsFiniteSet(S), S # {}
  PROVE  \E x \in S : \A y \in S : x >= y
<1> DEFINE P == {s \in SUBSET S : s # {} => \E x \in s : \A y \in s : x >= y}
           pick == [s \in (SUBSET S) \ {{}} |-> CHOOSE x \in s : TRUE]
<1>1. \A s \in SUBSET S : s # {} => pick[s] \in s  OBVIOUS
<1>2. {} \in P /\ P \in SUBSET (SUBSET S) /\ pick \in Picks(S)  BY <1>1 DEF Picks
<1> HIDE DEF pick
<1>3. \A s \in SUBSET S : s # {} /\ s \ {pick[s]} \in P => s \in P
  <2> SUFFICES ASSUME NEW s \in SUBSET S, s # {}, NEW p \in s, s \ {p} \in P
               PROVE  \E x \in s : \A y \in s : x >= y
    BY <1>1
  <2>1. \A y \in s : y \in Int  OBVIOUS
  <2>2. CASE s \ {p} = {}
    <3>1. \A y \in s : p >= y  BY <2>1, <2>2
    <3> QED  BY <3>1
  <2>3. CASE s \ {p} # {}
    <3>1. PICK x \in s \ {p} : \A y \in s \ {p} : x >= y  BY <2>3
    <3>2. x \in Int /\ p \in Int  BY <2>1
    <3> HIDE DEF P
    <3>3. CASE p >= x
      <4>1. ASSUME NEW y \in s PROVE p >= y  BY <2>1, <3>1, <3>2, <3>3
      <4> QED  BY <4>1
    <3>4. CASE x >= p
      <4>1. ASSUME NEW y \in s PROVE x >= y  BY <2>1, <3>1, <3>2, <3>4
      <4> QED  BY <4>1
    <3> QED  BY <3>2, <3>3, <3>4
  <2> QED  BY <2>2, <2>3
<1> HIDE DEF P
<1>4. P \in Hereditary(S, pick)  BY <1>2, <1>3 DEF Hereditary
<1>5. S \in P  BY <1>2, <1>4, InductSet
<1> QED  BY <1>5 DEF P

\* What a function makes of a finite set is finite.
THEOREM ImageFinite ==
  ASSUME NEW S, IsFiniteSet(S), NEW T, NEW f, DOMAIN f = S,
         T = {f[x] : x \in S}
  PROVE  IsFiniteSet(T)
<1> DEFINE g == [x \in S |-> f[x]]
<1>1. g \in [S -> T] /\ \A t \in T : \E x \in S : g[x] = t  OBVIOUS
<1>2. g \in Surjection(S, T)  BY <1>1 DEF Surjection
<1> HIDE DEF g
<1> QED  BY <1>2, FS_Surjection

\* A finite set of integers that is not empty has a smallest element.
THEOREM SmallestExists ==
  ASSUME NEW S \in SUBSET Int, IsFiniteSet(S), S # {}
  PROVE  \E x \in S : \A y \in S : x <= y
<1> DEFINE T == {-x : x \in S}
<1>1. IsFiniteSet(T)
  <2> DEFINE f == [x \in S |-> -x]
  <2>1. DOMAIN f = S /\ T = {f[x] : x \in S}  OBVIOUS
  <2> HIDE DEF f, T
  <2> QED  BY <2>1, ImageFinite
<1>2. T \in SUBSET Int /\ T # {}
  <2>1. \A x \in S : x \in Int /\ -x \in Int /\ -x \in T  OBVIOUS
  <2>2. \A y \in T : \E x \in S : y = -x  OBVIOUS
  <2>3. \E x \in S : TRUE  OBVIOUS
  <2> HIDE DEF T
  <2> QED  BY <2>1, <2>2, <2>3
<1> HIDE DEF T
<1>3. PICK z \in T : \A y \in T : z >= y  BY <1>1, <1>2, LargestExists
<1>4. PICK x \in S : z = -x  BY DEF T
<1>5. ASSUME NEW y \in S PROVE x <= y
  <2>1. -y \in T /\ x \in Int /\ y \in Int  BY DEF T
  <2>2. -x >= -y  BY <1>3, <1>4, <2>1
  <2> QED  BY <2>1, <2>2
<1> QED  BY <1>5

\* What CHOOSE picks of each subset, and the largest element of each.
AnyOf(S)     == [s \in (SUBSET S) \ {{}} |-> CHOOSE x \in s : TRUE]
LargestOf(S) == [s \in (SUBSET S) \ {{}} |-> CHOOSE x \in s : \A y \in s : x >= y]

\* The first picks an element of every subset of any set.
THEOREM AnyPicks == ASSUME NEW S PROVE AnyOf(S) \in Picks(S)
<1>1. \A s \in (SUBSET S) \ {{}} : (CHOOSE x \in s : TRUE) \in s  OBVIOUS
<1> QED  BY <1>1 DEF AnyOf, Picks

\* The second does so of finite sets of integers.
THEOREM LargestPicks ==
  ASSUME NEW S \in SUBSET Int, IsFiniteSet(S) PROVE LargestOf(S) \in Picks(S)
<1>1. ASSUME NEW s \in (SUBSET S) \ {{}}
      PROVE  (CHOOSE x \in s : \A y \in s : x >= y) \in s
  <2>1. IsFiniteSet(s) /\ s \in SUBSET Int /\ s # {}  BY FS_Subset
  <2>2. \E x \in s : \A y \in s : x >= y  BY <2>1, LargestExists
  <2> QED  BY <2>2
<1> QED  BY <1>1 DEF LargestOf, Picks

\* h has the value of the fold wherever its value for the rest is one of V.
Unfolds(h, S, V, base, pick, F) ==
  /\ h = [s \in SUBSET S |-> h[s]]
  /\ h[{}] = base
  /\ \A s \in (SUBSET S) \ {{}} :
       h[s \ {pick[s]}] \in V => h[s] = F[<<pick[s], h[s \ {pick[s]}]>>]

\* Then it is the fold, and all its values are in V.
THEOREM FoldUnfolds ==
  ASSUME NEW S, IsFiniteSet(S), NEW V, NEW base \in V, NEW pick \in Picks(S),
         NEW F \in [S \X V -> V], NEW h, Unfolds(h, S, V, base, pick, F)
  PROVE  h \in Iterations(S, V, base, pick, F)
<1> DEFINE P == {s \in SUBSET S : h[s] \in V}
<1>1. /\ h[{}] = base
      /\ h = [s \in SUBSET S |-> h[s]]
      /\ \A s \in (SUBSET S) \ {{}} :
           h[s \ {pick[s]}] \in V => h[s] = F[<<pick[s], h[s \ {pick[s]}]>>]
  BY DEF Unfolds
<1>2. \A s \in (SUBSET S) \ {{}} : pick[s] \in S  BY DEF Picks
<1>3. ASSUME NEW s \in (SUBSET S) \ {{}}, h[s \ {pick[s]}] \in V PROVE h[s] \in V
  BY <1>1, <1>2, <1>3
<1>4. ASSUME NEW S0 \in SUBSET S PROVE h[S0] \in V
  <2> DEFINE Q == {s \in SUBSET S0 : h[s] \in V}
             pick0 == [s \in (SUBSET S0) \ {{}} |-> pick[s]]
  <2>1. IsFiniteSet(S0)  BY FS_Subset
  <2>2. pick0 \in Picks(S0)  BY DEF Picks
  <2>3. Q \in Hereditary(S0, pick0)
    <3>1. {} \in Q /\ Q \in SUBSET (SUBSET S0)  BY <1>1
    <3>2. ASSUME NEW s \in SUBSET S0, s # {}, s \ {pick0[s]} \in Q PROVE s \in Q
      <4>1. s \in (SUBSET S) \ {{}} /\ pick0[s] = pick[s]  BY <3>2
      <4>2. h[s \ {pick[s]}] \in V  BY <3>2, <4>1
      <4> QED  BY <1>3, <4>1, <4>2
    <3> HIDE DEF Q, pick0
    <3> QED  BY <3>1, <3>2 DEF Hereditary
  <2>4. S0 \in Q
    <3> HIDE DEF Q, pick0
    <3> QED  BY <2>1, <2>2, <2>3, InductSet
  <2> QED  BY <2>4
<1>5. h \in [SUBSET S -> V]  BY <1>1, <1>4
<1>6. \A s \in (SUBSET S) \ {{}} : h[s \ {pick[s]}] \in V  BY <1>4
<1>7. \A s \in SUBSET S : h[s] = IF s = {} THEN base ELSE F[<<pick[s], h[s \ {pick[s]}]>>]
  BY <1>1, <1>6
<1> DEFINE it == [s \in SUBSET S |-> IF s = {} THEN base ELSE F[<<pick[s], h[s \ {pick[s]}]>>]]
<1>8. h = it
  <2>1. \A s \in SUBSET S : it[s] = IF s = {} THEN base ELSE F[<<pick[s], h[s \ {pick[s]}]>>]
    OBVIOUS
  <2>2. it = [s \in SUBSET S |-> it[s]]  OBVIOUS
  <2> HIDE DEF it
  <2> QED  BY <1>1, <1>7, <2>1, <2>2
<1> QED  BY <1>5, <1>8 DEF Iterations

\* A fold along the numbers 1..n that picks the largest goes through their prefixes.
THEOREM FoldPrefixes ==
  ASSUME NEW n \in Nat, NEW V, NEW base, NEW F,
         NEW g \in Iterations(1..n, V, base, LargestOf(1..n), F)
  PROVE  /\ g[{}] = base
         /\ \A k \in 1..n : g[1..k] = F[<<k, g[1..(k - 1)]>>]
<1> DEFINE pick == LargestOf(1..n)
<1>1. /\ g = [s \in SUBSET (1..n) |-> IF s = {} THEN base ELSE F[<<pick[s], g[s \ {pick[s]}]>>]]
  BY DEF Iterations
<1>2. g[{}] = base  BY <1>1
<1>3. ASSUME NEW k \in 1..n PROVE g[1..k] = F[<<k, g[1..(k - 1)]>>]
  <2>0. k \in 1..k /\ \A i \in 1..k : i \in 1..n  OBVIOUS
  <2>1. 1..k \in SUBSET (1..n) /\ 1..k # {} /\ k \in 1..k  BY <2>0
  <2>2. pick[1..k] = k
    <3>1. pick[1..k] = CHOOSE x \in 1..k : \A y \in 1..k : x >= y
      BY <2>1 DEF LargestOf
    <3>2. \A x \in 1..k : (\A y \in 1..k : x >= y) <=> x = k  OBVIOUS
    <3> QED  BY <2>1, <3>1, <3>2
  <2>3. (1..k) \ {k} = 1..(k - 1)  OBVIOUS
  <2> HIDE DEF pick
  <2>4. g[1..k] = F[<<pick[1..k], g[(1..k) \ {pick[1..k]}]>>]  BY <1>1, <2>1
  <2> QED  BY <2>2, <2>3, <2>4
<1> QED  BY <1>2, <1>3

\* The fold of a part, along the same elements, has the value that the fold of the
\* whole has for that part.
THEOREM FoldRestricts ==
  ASSUME NEW S, IsFiniteSet(S), NEW V, NEW base, NEW pick \in Picks(S), NEW F,
         NEW g \in Iterations(S, V, base, pick, F),
         NEW T \in SUBSET S, NEW pickT \in Picks(T), NEW FT,
         \A s \in (SUBSET T) \ {{}} : pickT[s] = pick[s],
         \A x \in T, v \in V : FT[<<x, v>>] = F[<<x, v>>],
         NEW h \in Iterations(T, V, base, pickT, FT)
  PROVE  h[T] = g[T]
<1> DEFINE P == {s \in SUBSET T : h[s] = g[s]}
<1>1. IsFiniteSet(T)  BY FS_Subset
<1>2. /\ h \in [SUBSET T -> V]
      /\ h = [s \in SUBSET T |-> IF s = {} THEN base ELSE FT[<<pickT[s], h[s \ {pickT[s]}]>>]]
      /\ g = [s \in SUBSET S |-> IF s = {} THEN base ELSE F[<<pick[s], g[s \ {pick[s]}]>>]]
  BY DEF Iterations
<1>3. {} \in P /\ P \in SUBSET (SUBSET T)
  <2>1. {} \in SUBSET T /\ {} \in SUBSET S  OBVIOUS
  <2>2. h[{}] = base /\ g[{}] = base  BY <1>2, <2>1
  <2> QED  BY <2>1, <2>2
<1>4. ASSUME NEW s \in SUBSET T, s # {}, s \ {pickT[s]} \in P PROVE s \in P
  <2>1. s \in SUBSET S /\ pickT[s] = pick[s] /\ pickT[s] \in T  BY <1>4 DEF Picks
  <2>2. h[s \ {pickT[s]}] = g[s \ {pick[s]}] /\ h[s \ {pickT[s]}] \in V  BY <1>2, <1>4, <2>1
  <2>3. h[s] = FT[<<pickT[s], h[s \ {pickT[s]}]>>]  BY <1>2, <1>4
  <2>4. g[s] = F[<<pick[s], g[s \ {pick[s]}]>>]  BY <1>2, <1>4, <2>1
  <2> QED  BY <2>1, <2>2, <2>3, <2>4
<1> HIDE DEF P
<1>5. T \in P  BY <1>1, <1>3, <1>4, InductSet DEF Hereditary
<1> QED  BY <1>5 DEF P

\* Adds what f says of an element.
Adding(S, f) == [p \in S \X Nat |-> p[2] + f[p[1]]]

\* A sum may leave out any of its elements first.
THEOREM SumSplits ==
  ASSUME NEW S, IsFiniteSet(S), NEW f \in [S -> Nat], NEW pick \in Picks(S),
         NEW g \in Iterations(S, Nat, 0, pick, Adding(S, f)),
         NEW s \in SUBSET S, NEW x \in s
  PROVE  g[s] = g[s \ {x}] + f[x]
<1> DEFINE N == {n \in Nat : \A u \in SUBSET S : Cardinality(u) = n =>
                   \A y \in u : g[u] = g[u \ {y}] + f[y]}
<1>1. \A u \in SUBSET S : IsFiniteSet(u) /\ Cardinality(u) \in Nat
  BY FS_Subset, FS_CardinalityType
<1>2. \A u \in SUBSET S : g[u] \in Nat  BY DEF Iterations
<1>3. ASSUME NEW u \in SUBSET S, u # {}
      PROVE  pick[u] \in u /\ g[u] = g[u \ {pick[u]}] + f[pick[u]]
  <2>1. g[u] = Adding(S, f)[<<pick[u], g[u \ {pick[u]}]>>]  BY <1>3 DEF Iterations
  <2>2. pick[u] \in u /\ u \ {pick[u]} \in SUBSET S  BY <1>3 DEF Picks
  <2> QED  BY <1>2, <2>1, <2>2 DEF Adding
<1>4. 0 \in N  BY <1>1, FS_EmptySet
<1>5. ASSUME NEW n \in N PROVE n + 1 \in N
  <2>0. n \in Nat /\ \A u \in SUBSET S : Cardinality(u) = n => \A y \in u : g[u] = g[u \ {y}] + f[y]
    OBVIOUS
  <2> HIDE DEF N
  <2>1. ASSUME NEW u \in SUBSET S, Cardinality(u) = n + 1, NEW y \in u
        PROVE  g[u] = g[u \ {y}] + f[y]
    <3> DEFINE p == pick[u]
    <3>1. p \in u /\ g[u] = g[u \ {p}] + f[p]  BY <1>3, <2>1
    <3> HIDE DEF p
    <3>2. CASE p = y  BY <3>1, <3>2
    <3>3. CASE p # y
      <4>1. Cardinality(u \ {p}) = n /\ Cardinality(u \ {y}) = n
        <5>1. IsFiniteSet(u)  BY <1>1
        <5>2. Cardinality(u \ {p}) = Cardinality(u) - 1  BY <3>1, <5>1, FS_RemoveElement
        <5>3. Cardinality(u \ {y}) = Cardinality(u) - 1  BY <5>1, FS_RemoveElement
        <5> QED  BY <2>0, <2>1, <5>2, <5>3
      <4>2. g[u \ {p}] = g[(u \ {p}) \ {y}] + f[y]  BY <2>0, <3>3, <4>1
      <4>3. g[u \ {y}] = g[(u \ {y}) \ {p}] + f[p]  BY <2>0, <3>1, <3>3, <4>1
      <4>4. (u \ {p}) \ {y} = (u \ {y}) \ {p}  OBVIOUS
      <4>5. g[(u \ {p}) \ {y}] \in Nat /\ f[p] \in Nat /\ f[y] \in Nat  BY <1>2, <3>1
      <4>6. g[(u \ {p}) \ {y}] = g[(u \ {y}) \ {p}]  BY <4>4
      <4>7. \A i, j, k \in Nat : (i + j) + k = (i + k) + j  OBVIOUS
      <4>8. g[u] = (g[(u \ {p}) \ {y}] + f[y]) + f[p]  BY <3>1, <4>2
      <4>9. g[u \ {y}] + f[y] = (g[(u \ {p}) \ {y}] + f[p]) + f[y]  BY <4>3, <4>6
      <4> QED  BY <4>5, <4>7, <4>8, <4>9
    <3> QED  BY <3>2, <3>3
  <2> QED  BY <2>0, <2>1 DEF N
<1>6. N \in SUBSET Nat  OBVIOUS
<1> HIDE DEF N
<1>7. N = Nat  BY <1>4, <1>5, <1>6, Induct
<1> QED  BY <1>1, <1>7 DEF N
=============================================================================
