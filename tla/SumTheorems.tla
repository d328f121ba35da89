----------------------------- MODULE SumTheorems -----------------------------
(***************************************************************************)
(* Facts about SumFunctionOnSet of the community module Functions, which   *)
(* the invariants on balances add documents up with.  The sum is a fold, a *)
(* function defined by recursion on sets; its equation and the independence*)
(* of the order are proved by induction, in the first-order form of a      *)
(* minimal counterexample, which is an element of a set.                   *)
(***************************************************************************)
EXTENDS FiniteSetsExt, Integers, FiniteSetTheorems, WellFoundedInduction, TLAPS

-----------------------------------------------------------------------------
(* Induction over members of a set of good numbers or good sets.           *)

\* A set that contains 0 and every successor contains the natural numbers.
LEMMA CountingUp ==
  ASSUME NEW G, 0 \in G, \A n \in Nat : n \in G => n + 1 \in G
  PROVE  Nat \subseteq G
<1>1. SUFFICES ASSUME Nat \ G # {} PROVE FALSE
  OBVIOUS
<1>2. PICK m \in Nat \ G : \A k \in Nat \ G : <<k, m>> \notin OpToRel(<, Nat)
  <2>1. Nat \ G \subseteq Nat
    OBVIOUS
  <2>2. QED
    BY <1>1, <2>1, NatLessThanWellFounded, WFMin, Zenon
<1>3. m - 1 \in Nat /\ m - 1 < m /\ (m - 1) + 1 = m
  OBVIOUS
<1>4. m - 1 \in Nat \ G
  BY <1>3
<1>5. <<m - 1, m>> \in OpToRel(<, Nat)
  BY <1>3 DEF OpToRel
<1>6. QED
  BY <1>2, <1>4, <1>5, Zenon

\* If a subset of S is good whenever its proper subsets are, all of them are.
LEMMA GrowingSets ==
  ASSUME NEW S, IsFiniteSet(S), NEW G,
         \A s \in SUBSET S : (\A t \in SUBSET s : t # s => t \in G) => s \in G
  PROVE  SUBSET S \subseteq G
<1>1. SUFFICES ASSUME (SUBSET S) \ G # {} PROVE FALSE
  OBVIOUS
<1>2. IsWellFoundedOn(StrictSubsetOrdering(S), SUBSET S)
  BY FS_StrictSubsetOrderingWellFounded, FS_FiniteSubsetsOfFinite
<1>3. PICK s \in (SUBSET S) \ G :
          \A t \in (SUBSET S) \ G : <<t, s>> \notin StrictSubsetOrdering(S)
  <2> DEFINE R == StrictSubsetOrdering(S)
             T == (SUBSET S) \ G
  <2>1. T \subseteq SUBSET S /\ T # {} /\ IsWellFoundedOn(R, SUBSET S)
    BY <1>1, <1>2
  <2>2. \E s \in T : \A t \in T : <<t, s>> \notin R
    <3> HIDE DEF R, T
    <3>1. QED
      BY <2>1, WFMin
  <2>3. QED
    BY <2>2
<1>4. ASSUME NEW t \in SUBSET s, t # s
      PROVE  t \in G
  <2>1. <<t, s>> \in StrictSubsetOrdering(S)
    BY <1>3, <1>4 DEF StrictSubsetOrdering
  <2>2. QED
    BY <1>3, <1>4, <2>1
<1>5. QED
  BY <1>3, <1>4

-----------------------------------------------------------------------------
(* The fold satisfies its equation.                                        *)

Chosen(s) == CHOOSE x \in s : TRUE

\* h is the recursive function the sum of f over S is read from.
Recurses(h, f, S) ==
    h = [s \in SUBSET S |-> IF s = {} THEN 0 ELSE f[Chosen(s)] + h[s \ {Chosen(s)}]]

LEMMA SumUnfolds ==
  ASSUME NEW f, NEW S
  PROVE  SumFunctionOnSet(f, S) = (CHOOSE h : Recurses(h, f, S))[S]
BY DEF SumFunctionOnSet, FoldFunctionOnSet, MapThenFoldSet, Recurses, Chosen

LEMMA RecursionExists ==
  ASSUME NEW f, NEW S, IsFiniteSet(S)
  PROVE  \E h : Recurses(h, f, S)
<1> DEFINE Upto(n, h) ==
             \A s \in SUBSET S :
                 Cardinality(s) =< n =>
                     h[s] = IF s = {} THEN 0 ELSE f[Chosen(s)] + h[s \ {Chosen(s)}]
<1> DEFINE G == {n \in Nat : \E h : Upto(n, h)}
<1>1. \A s \in SUBSET S :
          /\ IsFiniteSet(s)
          /\ Cardinality(s) \in Nat
          /\ Cardinality(s) =< Cardinality(S)
          /\ Cardinality(s) = 0 => s = {}
          /\ s # {} => /\ Chosen(s) \in s
                       /\ s \ {Chosen(s)} \in SUBSET S
                       /\ Cardinality(s \ {Chosen(s)}) = Cardinality(s) - 1
  BY FS_Subset, FS_CardinalityType, FS_RemoveElement, FS_EmptySet DEF Chosen
<1>2. 0 \in G
  <2> DEFINE zero == [s \in SUBSET S |-> 0]
  <2>1. ASSUME NEW s \in SUBSET S, Cardinality(s) =< 0
        PROVE  zero[s] = IF s = {} THEN 0 ELSE f[Chosen(s)] + zero[s \ {Chosen(s)}]
    <3>1. Cardinality(s) \in Nat /\ (Cardinality(s) = 0 => s = {})
      BY <1>1
    <3>2. s = {}
      BY <2>1, <3>1
    <3>3. QED
      BY <3>2
  <2>2. Upto(0, zero)
    BY <2>1
  <2> HIDE DEF Upto, zero
  <2>3. QED
    BY <2>2
<1>3. ASSUME NEW n \in Nat, n \in G
      PROVE  n + 1 \in G
  <2>1. PICK h : Upto(n, h)
    BY <1>3
  <2> DEFINE g == [s \in SUBSET S |->
                      IF Cardinality(s) =< n THEN h[s]
                      ELSE IF s = {} THEN 0 ELSE f[Chosen(s)] + h[s \ {Chosen(s)}]]
  <2>2. ASSUME NEW s \in SUBSET S, Cardinality(s) =< n + 1
        PROVE  g[s] = IF s = {} THEN 0 ELSE f[Chosen(s)] + g[s \ {Chosen(s)}]
    <3>1. g[s] = IF s = {} THEN 0 ELSE f[Chosen(s)] + h[s \ {Chosen(s)}]
      BY <2>1
    <3>2. s # {} => g[s \ {Chosen(s)}] = h[s \ {Chosen(s)}]
      BY <1>1, <2>2
    <3>3. QED
      BY <3>1, <3>2
  <2>3. Upto(n + 1, g)
    BY <2>2
  <2> HIDE DEF Upto, g
  <2>4. QED
    BY <2>3
<1>4. Nat \subseteq G
  <2> HIDE DEF G
  <2>1. QED
    BY <1>2, <1>3, CountingUp
<1>5. PICK h : Upto(Cardinality(S), h)
  BY <1>1, <1>4
<1>6. Recurses([s \in SUBSET S |-> h[s]], f, S)
  BY <1>1, <1>5 DEF Recurses
<1>7. QED
  BY <1>6

\* Two recursions for functions that agree on T agree on T.
LEMMA RecursionsAgree ==
  ASSUME NEW f, NEW g, NEW R, NEW S, NEW h, NEW k,
         Recurses(h, f, R), Recurses(k, g, S),
         NEW T, IsFiniteSet(T), T \subseteq R, T \subseteq S,
         \A x \in T : f[x] = g[x]
  PROVE  h[T] = k[T]
<1> DEFINE G == {s \in SUBSET T : h[s] = k[s]}
<1>1. ASSUME NEW s \in SUBSET T, \A t \in SUBSET s : t # s => t \in G
      PROVE  s \in G
  <2>1. /\ h[s] = IF s = {} THEN 0 ELSE f[Chosen(s)] + h[s \ {Chosen(s)}]
        /\ k[s] = IF s = {} THEN 0 ELSE g[Chosen(s)] + k[s \ {Chosen(s)}]
    BY DEF Recurses
  <2>2. CASE s = {}
    BY <2>1, <2>2
  <2>3. CASE s # {}
    <3>1. Chosen(s) \in s
      BY <2>3 DEF Chosen
    <3>2. s \ {Chosen(s)} \in G
      BY <1>1, <3>1
    <3>3. QED
      BY <2>1, <3>1, <3>2
  <2>4. QED
    BY <2>2, <2>3
<1>2. SUBSET T \subseteq G
  <2> HIDE DEF G
  <2>1. QED
    BY <1>1, GrowingSets
<1>3. QED
  BY <1>2

\* The sum is what any of its recursions says.
LEMMA SumByRecursion ==
  ASSUME NEW f, NEW S, NEW h, Recurses(h, f, S),
         NEW T \in SUBSET S, IsFiniteSet(T)
  PROVE  SumFunctionOnSet(f, T) = h[T]
<1>1. Recurses(CHOOSE k : Recurses(k, f, T), f, T)
  BY RecursionExists
<1>2. QED
  BY <1>1, SumUnfolds, RecursionsAgree

-----------------------------------------------------------------------------
(* What the proofs about balances use.                                     *)

LEMMA SumEmpty ==
  ASSUME NEW f
  PROVE  SumFunctionOnSet(f, {}) = 0
<1>1. PICK h : Recurses(h, f, {})
  BY RecursionExists, FS_EmptySet
<1>2. h[{}] = 0
  BY <1>1 DEF Recurses
<1>3. QED
  BY <1>1, <1>2, SumByRecursion, FS_EmptySet

LEMMA SumSame ==
  ASSUME NEW f, NEW g, NEW S, IsFiniteSet(S), \A x \in S : f[x] = g[x]
  PROVE  SumFunctionOnSet(f, S) = SumFunctionOnSet(g, S)
<1>1. PICK h : Recurses(h, f, S)
  BY RecursionExists
<1>2. PICK k : Recurses(k, g, S)
  BY RecursionExists
<1>3. h[S] = k[S]
  BY <1>1, <1>2, RecursionsAgree
<1>4. QED
  BY <1>1, <1>2, <1>3, SumByRecursion

LEMMA SumInt ==
  ASSUME NEW f, NEW S, IsFiniteSet(S), \A x \in S : f[x] \in Int
  PROVE  SumFunctionOnSet(f, S) \in Int
<1>1. PICK h : Recurses(h, f, S)
  BY RecursionExists
<1> DEFINE G == {s \in SUBSET S : h[s] \in Int}
<1>2. ASSUME NEW s \in SUBSET S, \A t \in SUBSET s : t # s => t \in G
      PROVE  s \in G
  <2>1. h[s] = IF s = {} THEN 0 ELSE f[Chosen(s)] + h[s \ {Chosen(s)}]
    BY <1>1 DEF Recurses
  <2>2. s # {} => Chosen(s) \in s
    BY DEF Chosen
  <2>3. QED
    BY <1>2, <2>1, <2>2
<1>3. SUBSET S \subseteq G
  <2> HIDE DEF G
  <2>1. QED
    BY <1>2, GrowingSets
<1>4. QED
  BY <1>1, <1>3, SumByRecursion

\* Any element may be taken off first.
LEMMA SumWithout ==
  ASSUME NEW f, NEW S, IsFiniteSet(S), \A x \in S : f[x] \in Int, NEW y \in S
  PROVE  SumFunctionOnSet(f, S) = f[y] + SumFunctionOnSet(f, S \ {y})
<1>1. PICK h : Recurses(h, f, S)
  BY RecursionExists
<1>2. ASSUME NEW s \in SUBSET S
      PROVE  IsFiniteSet(s) /\ h[s] = SumFunctionOnSet(f, s) /\ h[s] \in Int
  <2>1. IsFiniteSet(s)
    BY FS_Subset
  <2>2. QED
    BY <1>1, <2>1, SumByRecursion, SumInt
<1> DEFINE G == {s \in SUBSET S : \A x \in s : h[s] = f[x] + h[s \ {x}]}
<1>3. ASSUME NEW s \in SUBSET S, \A t \in SUBSET s : t # s => t \in G
      PROVE  s \in G
  <2>1. SUFFICES ASSUME NEW x \in s PROVE h[s] = f[x] + h[s \ {x}]
    OBVIOUS
  <2>2. PICK c \in s : h[s] = f[c] + h[s \ {c}]
    <3>1. h[s] = f[Chosen(s)] + h[s \ {Chosen(s)}]
      BY <1>1, <2>1 DEF Recurses
    <3>2. Chosen(s) \in s
      BY <2>1 DEF Chosen
    <3>3. QED
      BY <3>1, <3>2
  <2>3. CASE c = x
    BY <2>2, <2>3
  <2>4. CASE c # x
    <3>1. h[s \ {c}] = f[x] + h[(s \ {c}) \ {x}]
      <4>1. s \ {c} \in G /\ x \in s \ {c}
        BY <1>3, <2>1, <2>2, <2>4
      <4>2. QED
        BY <4>1
    <3>2. h[s \ {x}] = f[c] + h[(s \ {x}) \ {c}]
      <4>1. s \ {x} \in G /\ c \in s \ {x}
        BY <1>3, <2>1, <2>2, <2>4
      <4>2. QED
        BY <4>1
    <3>3. (s \ {c}) \ {x} = (s \ {x}) \ {c}
      OBVIOUS
    <3>4. /\ f[x] \in Int /\ f[c] \in Int
          /\ h[(s \ {x}) \ {c}] \in Int
      BY <1>2, <2>1, <2>2
    <3>5. f[c] + (f[x] + h[(s \ {x}) \ {c}]) = f[x] + (f[c] + h[(s \ {x}) \ {c}])
      BY <3>4
    <3>6. QED
      BY <2>2, <3>1, <3>2, <3>3, <3>5, Zenon
  <2>5. QED
    BY <2>3, <2>4
<1>4. SUBSET S \subseteq G
  <2> HIDE DEF G
  <2>1. QED
    BY <1>3, GrowingSets
<1>5. h[S] = f[y] + h[S \ {y}]
  BY <1>4
<1>6. QED
  BY <1>2, <1>5

LEMMA SumAdded ==
  ASSUME NEW f, NEW S, IsFiniteSet(S), NEW y, y \notin S,
         f[y] \in Int, \A x \in S : f[x] \in Int
  PROVE  SumFunctionOnSet(f, S \cup {y}) = SumFunctionOnSet(f, S) + f[y]
<1>1. IsFiniteSet(S \cup {y}) /\ (S \cup {y}) \ {y} = S
  BY FS_AddElement
<1>2. \A x \in S \cup {y} : f[x] \in Int
  OBVIOUS
<1>3. SumFunctionOnSet(f, S \cup {y}) = f[y] + SumFunctionOnSet(f, (S \cup {y}) \ {y})
  BY <1>1, <1>2, SumWithout
<1>4. SumFunctionOnSet(f, S \cup {y}) = f[y] + SumFunctionOnSet(f, S)
  BY <1>1, <1>3, Zenon
<1>5. SumFunctionOnSet(f, S) \in Int
  BY SumInt
<1>6. QED
  BY <1>4, <1>5

-----------------------------------------------------------------------------
(* The same for whole functions.                                           *)

LEMMA SumFunctionInt ==
  ASSUME NEW f, IsFiniteSet(DOMAIN f), \A x \in DOMAIN f : f[x] \in Int
  PROVE  SumFunction(f) \in Int
BY SumInt DEF SumFunction

LEMMA SumFunctionEmpty ==
  ASSUME NEW f, DOMAIN f = {}
  PROVE  SumFunction(f) = 0
BY SumEmpty DEF SumFunction

\* A function that has one more argument.
LEMMA SumFunctionGrows ==
  ASSUME NEW f, NEW g, IsFiniteSet(DOMAIN f), NEW y, y \notin DOMAIN f,
         DOMAIN g = DOMAIN f \cup {y}, g[y] \in Int,
         \A x \in DOMAIN f : f[x] \in Int /\ g[x] = f[x]
  PROVE  SumFunction(g) = SumFunction(f) + g[y]
<1>1. SumFunctionOnSet(g, DOMAIN f \cup {y}) = SumFunctionOnSet(g, DOMAIN f) + g[y]
  BY SumAdded
<1>2. SumFunctionOnSet(g, DOMAIN f) = SumFunctionOnSet(f, DOMAIN f)
  BY SumSame
<1>3. QED
  BY <1>1, <1>2, Zenon DEF SumFunction

\* A function that differs in one argument.
LEMMA SumFunctionShifts ==
  ASSUME NEW f, NEW g, NEW S, IsFiniteSet(S), DOMAIN f = S, DOMAIN g = S,
         NEW y \in S, NEW n \in Int, \A x \in S : f[x] \in Int,
         g[y] = f[y] + n, \A x \in S \ {y} : g[x] = f[x]
  PROVE  SumFunction(g) = SumFunction(f) + n
<1>1. IsFiniteSet(S \ {y})
  BY FS_Subset
<1>2. \A x \in S : g[x] \in Int
  OBVIOUS
<1>3. SumFunctionOnSet(f, S) = f[y] + SumFunctionOnSet(f, S \ {y})
  BY SumWithout
<1>4. SumFunctionOnSet(g, S) = g[y] + SumFunctionOnSet(g, S \ {y})
  BY <1>2, SumWithout
<1>5. SumFunctionOnSet(g, S \ {y}) = SumFunctionOnSet(f, S \ {y})
  BY <1>1, SumSame
<1>6. SumFunctionOnSet(f, S \ {y}) \in Int
  BY <1>1, SumInt
<1>7. f[y] \in Int
  OBVIOUS
<1>8. SumFunctionOnSet(g, S) = SumFunctionOnSet(f, S) + n
  BY <1>3, <1>4, <1>5, <1>6, <1>7
<1>9. QED
  BY <1>8 DEF SumFunction

\* n at y, and n if y is among S.
At(x, y, n) == IF x = y THEN n ELSE 0
Among(S, y, n) == IF y \in S THEN n ELSE 0

\* What moves from one argument to another leaves the sum alone; one of the two
\* may lie outside.
LEMMA SumFunctionMoves ==
  ASSUME NEW f, NEW h, NEW S, IsFiniteSet(S), DOMAIN f = S, DOMAIN h = S,
         NEW from, NEW to, from # to, NEW n \in Int, \A x \in S : f[x] \in Int,
         \A x \in S : h[x] = f[x] + At(x, to, n) - At(x, from, n)
  PROVE  SumFunction(h) = SumFunction(f) + Among(S, to, n) - Among(S, from, n)
<1> USE DEF At, Among
<1> DEFINE g == [x \in S |-> f[x] + (IF x = to THEN n ELSE 0)]
<1>1. DOMAIN g = S /\ \A x \in S : g[x] \in Int
  OBVIOUS
<1>2. SumFunction(f) \in Int
  BY SumFunctionInt
<1>3. SumFunction(g) = SumFunction(f) + (IF to \in S THEN n ELSE 0)
  <2>1. CASE to \in S
    <3>1. g[to] = f[to] + n /\ \A x \in S \ {to} : g[x] = f[x]
      BY <2>1
    <3> HIDE DEF g
    <3>2. SumFunction(g) = SumFunction(f) + n
      BY <1>1, <2>1, <3>1, SumFunctionShifts
    <3>3. QED
      BY <2>1, <3>2
  <2>2. CASE to \notin S
    <3>1. \A x \in S : g[x] = f[x]
      BY <2>2
    <3> HIDE DEF g
    <3>2. SumFunctionOnSet(g, S) = SumFunctionOnSet(f, S)
      BY <3>1, SumSame
    <3>3. QED
      BY <1>1, <1>2, <2>2, <3>2 DEF SumFunction
  <2>3. QED
    BY <2>1, <2>2
<1>4. SumFunction(h) = SumFunction(g) - (IF from \in S THEN n ELSE 0)
  <2>1. CASE from \in S
    <3>1. h[from] = g[from] + (-n) /\ \A x \in S \ {from} : h[x] = g[x]
      BY <2>1
    <3> HIDE DEF g
    <3>2. SumFunction(h) = SumFunction(g) + (-n)
      BY <1>1, <2>1, <3>1, SumFunctionShifts
    <3>3. SumFunction(g) \in Int
      BY <1>1, SumFunctionInt
    <3>4. QED
      BY <2>1, <3>2, <3>3
  <2>2. CASE from \notin S
    <3>1. \A x \in S : h[x] = g[x]
      BY <2>2
    <3> HIDE DEF g
    <3>2. SumFunctionOnSet(h, S) = SumFunctionOnSet(g, S)
      BY <3>1, SumSame
    <3>3. SumFunction(g) \in Int
      BY <1>1, SumFunctionInt
    <3>4. QED
      BY <1>1, <2>2, <3>2, <3>3 DEF SumFunction
  <2>3. QED
    BY <2>1, <2>2
<1> HIDE DEF g
<1>5. QED
  BY <1>2, <1>3, <1>4

\* Sums of nothing, and of what is not negative.
LEMMA SumFunctionZero ==
  ASSUME NEW f, IsFiniteSet(DOMAIN f), \A x \in DOMAIN f : f[x] = 0
  PROVE  SumFunction(f) = 0
<1> DEFINE S == DOMAIN f
           G == {s \in SUBSET S : SumFunctionOnSet(f, s) = 0}
<1>1. ASSUME NEW s \in SUBSET S, \A t \in SUBSET s : t # s => t \in G
      PROVE  s \in G
  <2>1. CASE s = {}
    BY <2>1, SumEmpty
  <2>2. ASSUME NEW y \in s
        PROVE  s \in G
    <3>1. IsFiniteSet(s) /\ \A x \in s : f[x] \in Int
      BY FS_Subset
    <3>2. SumFunctionOnSet(f, s) = f[y] + SumFunctionOnSet(f, s \ {y})
      BY <3>1, SumWithout
    <3>3. s \ {y} \in G
      BY <1>1, <2>2
    <3>4. QED
      BY <3>2, <3>3
  <2>3. QED
    BY <2>1, <2>2
<1>2. SUBSET S \subseteq G
  <2> HIDE DEF G
  <2>1. QED
    BY <1>1, GrowingSets
<1>3. QED
  BY <1>2 DEF SumFunction

LEMMA SumNotNegative ==
  ASSUME NEW f, NEW S, IsFiniteSet(S), \A x \in S : f[x] \in Int /\ f[x] >= 0
  PROVE  SumFunctionOnSet(f, S) >= 0
<1> DEFINE G == {s \in SUBSET S : SumFunctionOnSet(f, s) >= 0}
<1>1. ASSUME NEW s \in SUBSET S, \A t \in SUBSET s : t # s => t \in G
      PROVE  s \in G
  <2>1. CASE s = {}
    BY <2>1, SumEmpty
  <2>2. ASSUME NEW y \in s
        PROVE  s \in G
    <3>1. IsFiniteSet(s) /\ IsFiniteSet(s \ {y}) /\ \A x \in s : f[x] \in Int
      BY FS_Subset
    <3>2. SumFunctionOnSet(f, s) = f[y] + SumFunctionOnSet(f, s \ {y})
      BY <3>1, SumWithout
    <3>3. s \ {y} \in G
      BY <1>1, <2>2
    <3>4. SumFunctionOnSet(f, s \ {y}) \in Int
      BY <3>1, SumInt
    <3>5. QED
      BY <3>2, <3>3, <3>4
  <2>3. QED
    BY <2>1, <2>2
<1>2. SUBSET S \subseteq G
  <2> HIDE DEF G
  <2>1. QED
    BY <1>1, GrowingSets
<1>3. QED
  BY <1>2

LEMMA SumFunctionPositive ==
  ASSUME NEW f, IsFiniteSet(DOMAIN f), \A x \in DOMAIN f : f[x] \in Int /\ f[x] >= 0,
         NEW y \in DOMAIN f, f[y] > 0
  PROVE  SumFunction(f) > 0
<1>1. SumFunctionOnSet(f, DOMAIN f) = f[y] + SumFunctionOnSet(f, DOMAIN f \ {y})
  BY SumWithout
<1>2. /\ SumFunctionOnSet(f, DOMAIN f \ {y}) \in Int
      /\ SumFunctionOnSet(f, DOMAIN f \ {y}) >= 0
  BY FS_Subset, SumInt, SumNotNegative
<1>3. QED
  BY <1>1, <1>2 DEF SumFunction
=============================================================================
