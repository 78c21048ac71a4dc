-------------------------------- MODULE Counting --------------------------------
(***************************************************************************)
(* Facts about sums and ranks that the proofs of several components use. *)
(*                                                                         *)
(* The library's well-founded induction gives a least element of a         *)
(* nonempty set of naturals, and that an induction in the form "the set of *)
(* counterexamples has no least member".  Sum is the community modules'    *)
(* SumFunctionOnSet, a fold whose elements are taken in an arbitrary but   *)
(* fixed order: it exists (SumsExist), it is the only one (SumsOnce), and  *)
(* the order does not matter (SumRemove).  The ranks of a set of numbers   *)
(* are dense (Ranks).                                                      *)
(***************************************************************************)
EXTENDS Integers, FiniteSets, Functions, FiniteSetTheorems, WellFoundedInduction, TLAPS

-----------------------------------------------------------------------------
\* Counting over finite sets.

\* A nonempty set of naturals has a least element.
LEMMA LeastNumber ==
    ASSUME NEW T \in SUBSET Nat, T # {}
    PROVE  \E x \in T : \A y \in T : x <= y
<1> DEFINE R == OpToRel(<, Nat)
<1>1. IsWellFoundedOn(R, Nat)
  BY NatLessThanWellFounded
<1>2. PICK x \in T : \A y \in T : ~(<<y, x>> \in R)
  <2> HIDE DEF R
  <2> QED BY <1>1, WFMin
<1>3. \A y \in T : ~(y < x)
  BY <1>2 DEF OpToRel
<1>4. QED BY <1>3

\* Induction over the subsets of a finite set, over a set of them.
LEMMA SubsetInduction ==
    ASSUME NEW S, IsFiniteSet(S), NEW P \in SUBSET (SUBSET S),
           \A t \in SUBSET S : (\A u \in SUBSET t : u # t => u \in P) => t \in P
    PROVE  P = SUBSET S
<1> DEFINE Bad == (SUBSET S) \ P
           Cards == {Cardinality(t) : t \in Bad}
<1>1. \A t \in SUBSET S : IsFiniteSet(t) /\ Cardinality(t) \in Nat
  BY FS_Subset, FS_CardinalityType
<1>2. SUFFICES ASSUME Bad # {} PROVE FALSE
  OBVIOUS
<1>3. PICK n \in Cards : \A m \in Cards : n <= m
  <2>1. Cards \in SUBSET Nat /\ Cards # {}
    BY <1>1, <1>2
  <2> HIDE DEF Cards
  <2>2. QED BY <2>1, LeastNumber
<1>4. PICK t \in Bad : n = Cardinality(t)
  BY <1>3
<1>5. ASSUME NEW u \in SUBSET t, u # t PROVE u \in P
  <2>1. Cardinality(u) <= Cardinality(t) /\ Cardinality(u) # Cardinality(t)
    BY <1>1, <1>4, <1>5, FS_Subset
  <2>2. Cardinality(u) \in Nat /\ Cardinality(t) \in Nat /\ u \in SUBSET S
    BY <1>1, <1>4, <1>5
  <2>3. u \notin Bad
    BY <1>3, <1>4, <2>1, <2>2
  <2>4. QED BY <2>2, <2>3
<1>6. QED BY <1>4, <1>5

-----------------------------------------------------------------------------
\* Sums over finite sets.

First(s) == CHOOSE x \in s : TRUE
\* g sums f over every subset of S, an element after the other.
Sums(f, S, g) ==
    g = [s \in SUBSET S |-> IF s = {} THEN 0 ELSE f[First(s)] + g[s \ {First(s)}]]

\* What Sums says of one subset.
LEMMA SumsAt ==
    ASSUME NEW f, NEW S, NEW g, Sums(f, S, g), NEW s \in SUBSET S
    PROVE  g[s] = IF s = {} THEN 0 ELSE f[First(s)] + g[s \ {First(s)}]
<1> DEFINE body(t) == IF t = {} THEN 0 ELSE f[First(t)] + g[t \ {First(t)}]
<1>1. g = [t \in SUBSET S |-> body(t)]
  BY DEF Sums
<1> HIDE DEF body
<1>2. g[s] = body(s)
  BY <1>1
<1>3. QED BY <1>2 DEF body

\* The first element of a set.
LEMMA FirstIn ==
    ASSUME NEW s, s # {}
    PROVE  First(s) \in s
BY DEF First

\* The sums over the subsets of a subset.
LEMMA SumsBelow ==
    ASSUME NEW f, NEW S, NEW g, Sums(f, S, g), NEW T \in SUBSET S
    PROVE  Sums(f, T, [s \in SUBSET T |-> g[s]])
<1> DEFINE h == [s \in SUBSET T |-> g[s]]
<1>1. ASSUME NEW s \in SUBSET T
      PROVE  h[s] = IF s = {} THEN 0 ELSE f[First(s)] + h[s \ {First(s)}]
  <2>1. s \in SUBSET S /\ s \ {First(s)} \in SUBSET T
    OBVIOUS
  <2>2. h[s] = g[s] /\ h[s \ {First(s)}] = g[s \ {First(s)}]
    BY <2>1
  <2>3. QED BY <2>1, <2>2, SumsAt
<1>2. h = [s \in SUBSET T |-> h[s]]
  OBVIOUS
<1> HIDE DEF h
<1>3. Sums(f, T, h)
  BY <1>1, <1>2 DEF Sums
<1>4. QED BY <1>3 DEF h

\* There is one way to sum.
LEMMA SumsOnce ==
    ASSUME NEW f, NEW S, IsFiniteSet(S), NEW g, Sums(f, S, g), NEW h, Sums(f, S, h)
    PROVE  \A s \in SUBSET S : g[s] = h[s]
<1> DEFINE P == {s \in SUBSET S : g[s] = h[s]}
<1>1. ASSUME NEW t \in SUBSET S, \A u \in SUBSET t : u # t => u \in P
      PROVE  t \in P
  <2>1. CASE t = {}
    BY <2>1, SumsAt
  <2>2. CASE t # {}
    <3>1. t \ {First(t)} \in P
      BY <1>1, <2>2, FirstIn
    <3>2. QED BY <2>2, <3>1, SumsAt
  <2>3. QED BY <2>1, <2>2
<1>2. P \in SUBSET (SUBSET S)
  OBVIOUS
<1> HIDE DEF P
<1>3. P = SUBSET S
  BY <1>1, <1>2, SubsetInduction
<1>4. QED BY <1>3 DEF P

\* And there is a way: the sum over a set follows from those over the smaller ones.
LEMMA SumsExist ==
    ASSUME NEW f, NEW S, IsFiniteSet(S)
    PROVE  \E g : Sums(f, S, g)
<1> DEFINE P == {T \in SUBSET S : \E g : Sums(f, T, g)}
           Of(T) == CHOOSE g : Sums(f, T, g)
<1>1. ASSUME NEW t \in SUBSET S, \A u \in SUBSET t : u # t => u \in P
      PROVE  t \in P
  <2> DEFINE rest(s) == s \ {First(s)}
             h == [s \in SUBSET t |-> IF s = {} THEN 0 ELSE f[First(s)] + Of(rest(s))[rest(s)]]
  <2>1. ASSUME NEW u \in SUBSET t, u # t PROVE Sums(f, u, Of(u))
    BY <1>1, <2>1
  <2> HIDE DEF Of, P
  <2>2. ASSUME NEW u \in SUBSET t, u # t PROVE h[u] = Of(u)[u]
    <3>1. CASE u = {}
      <4>1. Of(u)[u] = 0
        BY <2>1, <2>2, <3>1, SumsAt
      <4>2. h[u] = 0
        BY <3>1
      <4>3. QED BY <4>1, <4>2
    <3>2. CASE u # {}
      <4>1. rest(u) \in SUBSET u /\ rest(u) \in SUBSET t /\ rest(u) # t /\ IsFiniteSet(rest(u))
        BY <2>2, <3>2, FirstIn, FS_Subset
      <4>2. Of(u)[u] = f[First(u)] + Of(u)[rest(u)]
        BY <2>1, <2>2, <3>2, SumsAt
      <4>3. Sums(f, rest(u), [s \in SUBSET rest(u) |-> Of(u)[s]])
        <5>1. Sums(f, u, Of(u))
          BY <2>1, <2>2
        <5> HIDE DEF rest
        <5>2. QED BY <4>1, <5>1, SumsBelow
      <4>4. Sums(f, rest(u), Of(rest(u)))
        BY <2>1, <4>1
      <4>5. Of(rest(u))[rest(u)] = Of(u)[rest(u)]
        <5> HIDE DEF rest
        <5> DEFINE low == [s \in SUBSET rest(u) |-> Of(u)[s]]
        <5>1. low[rest(u)] = Of(u)[rest(u)]
          OBVIOUS
        <5>2. Sums(f, rest(u), low)
          BY <4>3
        <5> HIDE DEF low
        <5>3. Of(rest(u))[rest(u)] = low[rest(u)]
          BY <4>1, <4>4, <5>2, SumsOnce
        <5>4. QED BY <5>1, <5>3
      <4>6. h[u] = f[First(u)] + Of(rest(u))[rest(u)]
        BY <2>2, <3>2
      <4>7. QED BY <4>2, <4>5, <4>6
    <3>3. QED BY <3>1, <3>2
  <2>3. ASSUME NEW s \in SUBSET t
        PROVE  h[s] = IF s = {} THEN 0 ELSE f[First(s)] + h[s \ {First(s)}]
    <3>1. CASE s = {}
      BY <3>1
    <3>2. CASE s # {}
      <4>1. rest(s) \in SUBSET t /\ rest(s) # t
        BY <3>2, FirstIn
      <4>2. h[rest(s)] = Of(rest(s))[rest(s)]
        BY <2>2, <4>1
      <4>3. h[s] = f[First(s)] + Of(rest(s))[rest(s)]
        BY <3>2
      <4>4. QED BY <3>2, <4>2, <4>3
    <3>3. QED BY <3>1, <3>2
  <2>4. h = [s \in SUBSET t |-> h[s]]
    OBVIOUS
  <2> HIDE DEF h
  <2>5. Sums(f, t, h)
    BY <2>3, <2>4 DEF Sums
  <2>6. QED BY <2>5 DEF P
<1>2. P \in SUBSET (SUBSET S)
  OBVIOUS
<1> HIDE DEF P
<1>3. P = SUBSET S
  BY <1>1, <1>2, SubsetInduction
<1>4. S \in P
  BY <1>3
<1>5. QED BY <1>4 DEF P

Sum(f, S) == SumFunctionOnSet(f, S)

\* The sum over a set takes its first element, and goes on with the others.
LEMMA SumFirst ==
    ASSUME NEW f, NEW S, IsFiniteSet(S)
    PROVE  Sum(f, S) = IF S = {} THEN 0 ELSE f[First(S)] + Sum(f, S \ {First(S)})
<1> DEFINE Of(T) == CHOOSE g : Sums(f, T, g)
           R == S \ {First(S)}
<1>1. \A T : Sum(f, T) = Of(T)[T]
  BY DEF Sum, SumFunctionOnSet, FoldFunctionOnSet, MapThenFoldSet, Sums, First
<1>2. \A T \in SUBSET S : Sums(f, T, Of(T))
  <2>1. \A T \in SUBSET S : IsFiniteSet(T)
    BY FS_Subset
  <2>2. QED BY <2>1, SumsExist
<1> HIDE DEF Of
<1>3. Sums(f, S, Of(S)) /\ Sums(f, R, Of(R)) /\ R \in SUBSET S /\ IsFiniteSet(R)
  BY <1>2, FS_Subset
<1> HIDE DEF R
<1>4. Of(S)[R] = Of(R)[R]
  <2> DEFINE low == [s \in SUBSET R |-> Of(S)[s]]
  <2>1. low[R] = Of(S)[R] /\ Sums(f, R, low)
    BY <1>3, SumsBelow
  <2> HIDE DEF low
  <2>2. Of(R)[R] = low[R]
    BY <1>3, <2>1, SumsOnce
  <2>3. QED BY <2>1, <2>2
<1>5. Of(S)[S] = IF S = {} THEN 0 ELSE f[First(S)] + Of(S)[R]
  BY <1>3, SumsAt DEF R
<1>6. QED BY <1>1, <1>4, <1>5 DEF R

\* Nothing sums to nothing.
LEMMA SumNone ==
    ASSUME NEW f
    PROVE  Sum(f, {}) = 0
BY FS_EmptySet, SumFirst

\* A sum of naturals is a natural.
LEMMA SumNat ==
    ASSUME NEW f, NEW S, IsFiniteSet(S), \A x \in S : f[x] \in Nat
    PROVE  Sum(f, S) \in Nat
<1> DEFINE P == {T \in SUBSET S : Sum(f, T) \in Nat}
<1>1. ASSUME NEW t \in SUBSET S, \A u \in SUBSET t : u # t => u \in P
      PROVE  t \in P
  <2>1. IsFiniteSet(t)
    BY FS_Subset
  <2>2. CASE t = {}
    BY <2>2, SumNone
  <2>3. CASE t # {}
    <3>1. First(t) \in S /\ t \ {First(t)} \in P
      BY <1>1, <2>3, FirstIn
    <3>2. Sum(f, t) = f[First(t)] + Sum(f, t \ {First(t)})
      BY <2>1, <2>3, SumFirst
    <3>3. QED BY <3>1, <3>2
  <2>4. QED BY <2>2, <2>3
<1>2. P \in SUBSET (SUBSET S)
  OBVIOUS
<1> HIDE DEF P
<1>3. P = SUBSET S
  BY <1>1, <1>2, SubsetInduction
<1>4. S \in P
  BY <1>3
<1>5. QED BY <1>4 DEF P

\* Zeros sum to zero.
LEMMA SumZero ==
    ASSUME NEW f, NEW S, IsFiniteSet(S), \A x \in S : f[x] = 0
    PROVE  Sum(f, S) = 0
<1> DEFINE P == {T \in SUBSET S : Sum(f, T) = 0}
<1>1. ASSUME NEW t \in SUBSET S, \A u \in SUBSET t : u # t => u \in P
      PROVE  t \in P
  <2>1. IsFiniteSet(t)
    BY FS_Subset
  <2>2. CASE t = {}
    BY <2>2, SumNone
  <2>3. CASE t # {}
    <3>1. f[First(t)] = 0 /\ Sum(f, t \ {First(t)}) = 0
      BY <1>1, <2>3, FirstIn
    <3>2. Sum(f, t) = f[First(t)] + Sum(f, t \ {First(t)})
      BY <2>1, <2>3, SumFirst
    <3>3. QED BY <3>1, <3>2
  <2>4. QED BY <2>2, <2>3
<1>2. P \in SUBSET (SUBSET S)
  OBVIOUS
<1> HIDE DEF P
<1>3. P = SUBSET S
  BY <1>1, <1>2, SubsetInduction
<1>4. S \in P
  BY <1>3
<1>5. QED BY <1>4 DEF P

\* It is the same whichever element is taken first.
LEMMA SumRemove ==
    ASSUME NEW f, NEW S, IsFiniteSet(S), \A x \in S : f[x] \in Nat, NEW e \in S
    PROVE  Sum(f, S) = f[e] + Sum(f, S \ {e})
<1> DEFINE P == {T \in SUBSET S : \A x \in T : Sum(f, T) = f[x] + Sum(f, T \ {x})}
<1>1. ASSUME NEW t \in SUBSET S, \A u \in SUBSET t : u # t => u \in P
      PROVE  t \in P
  <2>1. \A u \in SUBSET t : IsFiniteSet(u) /\ Sum(f, u) \in Nat
    BY FS_Subset, SumNat
  <2>2. ASSUME NEW x \in t PROVE Sum(f, t) = f[x] + Sum(f, t \ {x})
    <3> DEFINE c == First(t)
               u == t \ {c}
               v == t \ {x}
    <3>1. c \in t /\ Sum(f, t) = f[c] + Sum(f, u)
      BY <2>1, FirstIn, SumFirst
    <3> HIDE DEF c
    <3>2. CASE x = c
      BY <3>1, <3>2
    <3>3. CASE x # c
      <4>1. u \in P /\ v \in P
        BY <1>1, <3>1
      <4>2. Sum(f, u) = f[x] + Sum(f, u \ {x}) /\ Sum(f, v) = f[c] + Sum(f, v \ {c})
        BY <3>1, <3>3, <4>1
      <4>3. u \ {x} = v \ {c} /\ Sum(f, u \ {x}) \in Nat
        BY <2>1
      <4>4. f[x] \in Nat /\ f[c] \in Nat
        BY <3>1
      <4> DEFINE a == Sum(f, u \ {x})
      <4>5. Sum(f, t) = f[c] + (f[x] + a) /\ Sum(f, v) = f[c] + a /\ a \in Nat
        BY <3>1, <4>2, <4>3
      <4> HIDE DEF a, v
      <4>6. Sum(f, t) = f[x] + Sum(f, v)
        BY <4>4, <4>5
      <4>7. QED BY <4>6 DEF v
    <3>4. QED BY <3>2, <3>3
  <2>3. QED BY <2>2
<1>2. P \in SUBSET (SUBSET S)
  OBVIOUS
<1> HIDE DEF P
<1>3. P = SUBSET S
  BY <1>1, <1>2, SubsetInduction
<1>4. S \in P
  BY <1>3
<1>5. QED BY <1>4 DEF P

\* Smaller values have a smaller sum.
LEMMA SumLeq ==
    ASSUME NEW f, NEW h, NEW S, IsFiniteSet(S),
           \A x \in S : f[x] \in Nat /\ h[x] \in Nat /\ f[x] <= h[x]
    PROVE  Sum(f, S) <= Sum(h, S)
<1> DEFINE P == {T \in SUBSET S : Sum(f, T) <= Sum(h, T)}
<1>1. ASSUME NEW t \in SUBSET S, \A u \in SUBSET t : u # t => u \in P
      PROVE  t \in P
  <2>1. \A u \in SUBSET t : IsFiniteSet(u) /\ Sum(f, u) \in Nat /\ Sum(h, u) \in Nat
    BY FS_Subset, SumNat
  <2>2. CASE t = {}
    BY <2>2, SumNone
  <2>3. CASE t # {}
    <3>1. First(t) \in S /\ t \ {First(t)} \in P /\ t \ {First(t)} \in SUBSET t
      BY <1>1, <2>3, FirstIn
    <3>2. /\ Sum(f, t) = f[First(t)] + Sum(f, t \ {First(t)})
          /\ Sum(h, t) = h[First(t)] + Sum(h, t \ {First(t)})
      BY <2>1, <2>3, SumFirst
    <3>3. QED BY <2>1, <3>1, <3>2
  <2>4. QED BY <2>2, <2>3
<1>2. P \in SUBSET (SUBSET S)
  OBVIOUS
<1> HIDE DEF P
<1>3. P = SUBSET S
  BY <1>1, <1>2, SubsetInduction
<1>4. S \in P
  BY <1>3
<1>5. QED BY <1>4 DEF P

\* A change of one value changes the sum by as much.
LEMMA SumChange ==
    ASSUME NEW f, NEW h, NEW S, IsFiniteSet(S), \A x \in S : f[x] \in Nat /\ h[x] \in Nat,
           NEW e \in S, \A x \in S \ {e} : h[x] = f[x]
    PROVE  Sum(h, S) - h[e] = Sum(f, S) - f[e]
<1>1. Sum(h, S) = h[e] + Sum(h, S \ {e}) /\ Sum(f, S) = f[e] + Sum(f, S \ {e})
  BY SumRemove
<1>2. IsFiniteSet(S \ {e})
  BY FS_Subset
<1>3. Sum(h, S \ {e}) <= Sum(f, S \ {e}) /\ Sum(f, S \ {e}) <= Sum(h, S \ {e})
  <2>1. \A x \in S \ {e} : f[x] \in Nat /\ h[x] \in Nat /\ f[x] <= h[x] /\ h[x] <= f[x]
    OBVIOUS
  <2>2. QED BY <1>2, <2>1, SumLeq
<1>4. Sum(h, S \ {e}) \in Nat /\ Sum(f, S \ {e}) \in Nat
  BY <1>2, SumNat
<1>5. h[e] \in Nat /\ f[e] \in Nat
  OBVIOUS
<1>6. QED BY <1>1, <1>3, <1>4, <1>5

\* A part has a smaller sum.
LEMMA SumPart ==
    ASSUME NEW f, NEW S, IsFiniteSet(S), \A x \in S : f[x] \in Nat, NEW T \in SUBSET S
    PROVE  Sum(f, T) <= Sum(f, S)
<1> DEFINE P == {U \in SUBSET S : \A V \in SUBSET U : Sum(f, V) <= Sum(f, U)}
<1>1. ASSUME NEW t \in SUBSET S, \A u \in SUBSET t : u # t => u \in P
      PROVE  t \in P
  <2>1. \A u \in SUBSET t : IsFiniteSet(u) /\ Sum(f, u) \in Nat
    BY FS_Subset, SumNat
  <2>2. ASSUME NEW V \in SUBSET t PROVE Sum(f, V) <= Sum(f, t)
    <3>1. CASE V = t
      BY <2>1, <3>1
    <3>2. CASE V # t
      <4>1. PICK x \in t : x \notin V
        BY <3>2
      <4>2. t \ {x} \in P /\ V \in SUBSET (t \ {x})
        BY <1>1, <4>1
      <4>3. Sum(f, V) <= Sum(f, t \ {x})
        BY <4>2
      <4>4. Sum(f, t) = f[x] + Sum(f, t \ {x}) /\ f[x] \in Nat
        BY <2>1, SumRemove
      <4>5. Sum(f, V) \in Nat /\ Sum(f, t \ {x}) \in Nat /\ Sum(f, t) \in Nat
        BY <2>1
      <4>6. QED BY <4>3, <4>4, <4>5
    <3>3. QED BY <3>1, <3>2
  <2>3. QED BY <2>2
<1>2. P \in SUBSET (SUBSET S)
  OBVIOUS
<1> HIDE DEF P
<1>3. P = SUBSET S
  BY <1>1, <1>2, SubsetInduction
<1>4. S \in P
  BY <1>3
<1>5. QED BY <1>4 DEF P


\* Values that are all found under other names, each name under one value only,
\* have no larger a sum than what they were found in.
LEMMA SumFound ==
    ASSUME NEW f, NEW S, IsFiniteSet(S), \A x \in S : f[x] \in Nat,
           NEW h, NEW T, IsFiniteSet(T), \A y \in T : h[y] \in Nat,
           NEW m, \A x \in S : \E y \in T : m[y] = x /\ h[y] = f[x]
    PROVE  Sum(f, S) <= Sum(h, T)
<1> DEFINE Found(U, V) == \A x \in U : \E y \in V : m[y] = x /\ h[y] = f[x]
           P == {U \in SUBSET S : \A V \in SUBSET T : Found(U, V) => Sum(f, U) <= Sum(h, V)}
<1>1. ASSUME NEW t \in SUBSET S, \A u \in SUBSET t : u # t => u \in P
      PROVE  t \in P
  <2>1. \A u \in SUBSET t : IsFiniteSet(u) /\ Sum(f, u) \in Nat
    BY FS_Subset, SumNat
  <2>2. \A V \in SUBSET T : IsFiniteSet(V) /\ Sum(h, V) \in Nat
    BY FS_Subset, SumNat
  <2>3. ASSUME NEW V \in SUBSET T, Found(t, V) PROVE Sum(f, t) <= Sum(h, V)
    <3>1. CASE t = {}
      BY <2>2, <3>1, SumNone
    <3>2. CASE t # {}
      <4> DEFINE x == First(t)
      <4>1. x \in t
        BY <3>2, FirstIn
      <4> HIDE DEF x
      <4>2. PICK y \in V : m[y] = x /\ h[y] = f[x]
        BY <2>3, <4>1
      <4>3. Found(t \ {x}, V \ {y})
        BY <2>3, <4>2
      <4>4. t \ {x} \in P /\ V \ {y} \in SUBSET T
        BY <1>1, <4>1
      <4> HIDE DEF Found
      <4>5. Sum(f, t \ {x}) <= Sum(h, V \ {y})
        BY <4>3, <4>4
      <4>6. Sum(f, t) = f[x] + Sum(f, t \ {x}) /\ f[x] \in Nat
        <5>1. \A z \in t : f[z] \in Nat
          OBVIOUS
        <5>2. QED BY <2>1, <4>1, <5>1, SumRemove
      <4>7. Sum(h, V) = h[y] + Sum(h, V \ {y})
        <5>1. \A z \in V : h[z] \in Nat
          OBVIOUS
        <5>2. QED BY <2>2, <5>1, SumRemove
      <4>8. Sum(f, t \ {x}) \in Nat /\ Sum(h, V \ {y}) \in Nat
        BY <2>1, <2>2
      <4>9. QED BY <4>2, <4>5, <4>6, <4>7, <4>8
    <3>3. QED BY <3>1, <3>2
  <2>4. QED BY <2>3
<1>2. P \in SUBSET (SUBSET S)
  OBVIOUS
<1> HIDE DEF P
<1>3. P = SUBSET S
  BY <1>1, <1>2, SubsetInduction
<1>4. S \in P
  BY <1>3
<1>5. QED BY <1>4 DEF P

-----------------------------------------------------------------------------
\* Ranks.

\* The members of a set of numbers up to one of them: how many there are is that
\* member's rank, and the ranks are the numbers from one to the size of the set.
Upto(i, F) == {j \in F : j <= i}

\* Ranks are dense.
LEMMA FiniteRanks ==
    ASSUME NEW F \in SUBSET Nat, IsFiniteSet(F)
    PROVE  /\ Cardinality(F) \in Nat
           /\ \A i \in F : Cardinality(Upto(i, F)) \in 1 .. Cardinality(F)
           /\ \A i, j \in F : Cardinality(Upto(i, F)) = Cardinality(Upto(j, F)) => i = j
           /\ \A k \in 1 .. Cardinality(F) : \E i \in F : Cardinality(Upto(i, F)) = k
<1> DEFINE c == Cardinality(F)
<1>1. c \in Nat
  BY FS_CardinalityType
<1>2. ASSUME NEW i \in F
      PROVE  /\ IsFiniteSet(Upto(i, F)) /\ Cardinality(Upto(i, F)) \in Nat
             /\ Cardinality(Upto(i, F)) <= c /\ Cardinality(Upto(i, F)) # 0
  <2>1. Upto(i, F) \in SUBSET F /\ i \in Upto(i, F)
    BY DEF Upto
  <2>2. IsFiniteSet(Upto(i, F)) /\ Cardinality(Upto(i, F)) <= c
    BY <1>1, <2>1, FS_Subset
  <2>3. QED BY <2>1, <2>2, FS_CardinalityType, FS_EmptySet
<1>3. ASSUME NEW i \in F, NEW j \in F, i < j
      PROVE  Cardinality(Upto(i, F)) # Cardinality(Upto(j, F))
  <2>1. Upto(i, F) \in SUBSET Upto(j, F) /\ j \in Upto(j, F) /\ j \notin Upto(i, F)
    <3>1. i \in Nat /\ j \in Nat /\ \A k \in F : k \in Nat
      OBVIOUS
    <3>2. \A k \in F : k <= i => k <= j
      BY <1>3, <3>1
    <3>3. ~(j <= i) /\ j <= j
      BY <1>3, <3>1
    <3>4. QED BY <3>2, <3>3 DEF Upto
  <2>2. Upto(i, F) # Upto(j, F)
    BY <2>1
  <2>3. QED BY <1>2, <2>1, <2>2, FS_Subset
<1>4. \A i \in F : Cardinality(Upto(i, F)) \in 1 .. c
  <2> HIDE DEF c
  <2>1. \A i \in F : /\ Cardinality(Upto(i, F)) \in Nat /\ Cardinality(Upto(i, F)) <= c
                     /\ Cardinality(Upto(i, F)) # 0
    BY <1>2
  <2>2. QED BY <1>1, <2>1
<1>5. \A i, j \in F : Cardinality(Upto(i, F)) = Cardinality(Upto(j, F)) => i = j
  <2>1. \A i, j \in F : i < j => Cardinality(Upto(i, F)) # Cardinality(Upto(j, F))
    BY <1>3
  <2>2. \A i, j \in F : i < j \/ j < i \/ i = j
    OBVIOUS
  <2>3. QED BY <2>1, <2>2
<1> DEFINE f == [i \in F |-> Cardinality(Upto(i, F))]
<1>6. f \in Injection(F, 1 .. c)
  BY <1>4, <1>5 DEF Injection, IsInjective
<1>7. IsFiniteSet(1 .. c) /\ Cardinality(1 .. c) = c
  BY <1>1, FS_Interval
<1>8. f \in Surjection(F, 1 .. c)
  <2> HIDE DEF f, c
  <2>1. Cardinality(F) = Cardinality(1 .. c)
    BY <1>7 DEF c
  <2>2. QED BY <1>6, <1>7, <2>1, FS_Injection
<1>9. \A k \in 1 .. c : \E i \in F : f[i] = k
  <2> HIDE DEF f, c
  <2> QED BY <1>8 DEF Surjection
<1>10. QED BY <1>1, <1>4, <1>5, <1>9

\* So are those of the numbers of an interval.
LEMMA Ranks ==
    ASSUME NEW m \in Nat, NEW F \in SUBSET (1 .. m)
    PROVE  /\ IsFiniteSet(F) /\ Cardinality(F) \in Nat
           /\ \A i \in F : Cardinality(Upto(i, F)) \in 1 .. Cardinality(F)
           /\ \A i, j \in F : Cardinality(Upto(i, F)) = Cardinality(Upto(j, F)) => i = j
           /\ \A k \in 1 .. Cardinality(F) : \E i \in F : Cardinality(Upto(i, F)) = k
<1>1. IsFiniteSet(F)
  <2>1. IsFiniteSet(1 .. m)
    BY FS_Interval
  <2>2. QED BY <2>1, FS_Subset
<1>2. F \in SUBSET Nat
  OBVIOUS
<1>3. QED BY <1>1, <1>2, FiniteRanks
=============================================================================
