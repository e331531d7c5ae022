---------------------------- MODULE FoldInduction ----------------------------
(***************************************************************************)
(* Induction for the loops that TracingService writes as folds over a      *)
(* finite set.  Op is the body of a loop, P what holds of its result once  *)
(* the members of a set have been visited; both are parameters of the      *)
(* module, so that an INSTANCE of it gives the theorem for a loop.  The    *)
(* other arguments of Op and P stand for what the loop does not change.    *)
(***************************************************************************)
EXTENDS Naturals, FiniteSets, FiniteSetsExt, FiniteSetTheorems, WellFoundedInduction, TLAPS

CONSTANTS Op(_, _, _, _), P(_, _, _, _, _)

Fold(a, b, base, S) == FoldSet(LAMBDA x, u : Op(a, b, x, u), base, S)

LEMMA LeastOf ==
  ASSUME NEW T, T \subseteq Nat, T # {}
  PROVE  \E n \in T : \A m \in T : n <= m
<1>1. PICK n \in T : \A m \in T : ~(<<m, n>> \in OpToRel(<, Nat))
  BY NatLessThanWellFounded, WFMin, Zenon
<1>2. \A m \in T : n <= m
  <2>1. SUFFICES ASSUME NEW m \in T, m < n PROVE FALSE
    OBVIOUS
  <2> QED BY <1>1, <2>1 DEF OpToRel
<1> QED BY <1>2

(* The function that a fold builds, on the sets in D.                      *)
First(s) == CHOOSE x \in s : TRUE
Builds(g, a, b, base, D) ==
  g = [s \in D |-> IF s = {} THEN base ELSE Op(a, b, First(s), g[s \ {First(s)}])]
UpTo(S, n) == {s \in SUBSET S : Cardinality(s) <= n}

LEMMA FirstFacts ==
  ASSUME NEW S, IsFiniteSet(S), NEW s \in SUBSET S, s # {}
  PROVE  /\ First(s) \in s /\ s \ {First(s)} \in SUBSET S
         /\ Cardinality(s) \in Nat /\ Cardinality(s \ {First(s)}) \in Nat
         /\ Cardinality(s \ {First(s)}) + 1 = Cardinality(s)
<1>1. First(s) \in s
  BY DEF First
<1>2. IsFiniteSet(s) /\ Cardinality(s) \in Nat
  BY FS_Subset, FS_CardinalityType
<1>3. IsFiniteSet(s \ {First(s)}) /\ Cardinality(s \ {First(s)}) = Cardinality(s) - 1
  BY <1>1, <1>2, FS_RemoveElement
<1>4. Cardinality(s \ {First(s)}) \in Nat
  BY <1>3, FS_CardinalityType
<1> QED BY <1>1, <1>2, <1>3, <1>4

LEMMA FoldBuilds ==
  ASSUME NEW a, NEW b, NEW base, NEW S, IsFiniteSet(S)
  PROVE  \E g : Builds(g, a, b, base, SUBSET S)
<1> DEFINE T == {n \in Nat : ~ \E g : Builds(g, a, b, base, UpTo(S, n))}
<1>1. T = {}
  <2>1. SUFFICES ASSUME T # {} PROVE FALSE
    OBVIOUS
  <2>2. PICK n \in T : \A m \in T : n <= m
    BY <2>1, LeastOf
  <2>3. PICK h : IF n = 0 THEN TRUE ELSE Builds(h, a, b, base, UpTo(S, n - 1))
    <3>1. CASE n # 0
      <4>1. n - 1 \in Nat /\ ~(n <= n - 1)
        BY <3>1
      <4> QED BY <2>2, <3>1, <4>1
    <3> QED BY <3>1
  <2>4. PICK g : g = [s \in UpTo(S, n) |->
                        IF s = {} THEN base ELSE Op(a, b, First(s), h[s \ {First(s)}])]
    OBVIOUS
  <2>5. ASSUME NEW s \in UpTo(S, n), s # {}
        PROVE  g[s \ {First(s)}] = h[s \ {First(s)}]
    <3>1. PICK r : r = s \ {First(s)}
      OBVIOUS
    <3>2. /\ r \in SUBSET S /\ Cardinality(s) \in Nat /\ Cardinality(r) \in Nat
          /\ Cardinality(r) + 1 = Cardinality(s) /\ Cardinality(s) <= n
      BY <2>5, <3>1, FirstFacts DEF UpTo
    <3>3. n # 0 /\ r \in UpTo(S, n) /\ r \in UpTo(S, n - 1)
      BY <3>2 DEF UpTo
    <3>4. g[r] = IF r = {} THEN base ELSE Op(a, b, First(r), h[r \ {First(r)}])
      BY <2>4, <3>3
    <3>5. h[r] = IF r = {} THEN base ELSE Op(a, b, First(r), h[r \ {First(r)}])
      BY <2>3, <3>3 DEF Builds
    <3> QED BY <3>1, <3>4, <3>5
  <2>6. g = [s \in UpTo(S, n) |->
               IF s = {} THEN base ELSE Op(a, b, First(s), g[s \ {First(s)}])]
    BY <2>4, <2>5
  <2>7. Builds(g, a, b, base, UpTo(S, n))
    BY <2>6 DEF Builds
  <2> QED BY <2>2, <2>7
<1>2. Cardinality(S) \in Nat
  BY FS_CardinalityType
<1>3. UpTo(S, Cardinality(S)) = SUBSET S
  BY FS_Subset DEF UpTo
<1>4. PICK n \in Nat : n = Cardinality(S)
  BY <1>2
<1>5. \E g : Builds(g, a, b, base, UpTo(S, n))
  BY <1>1
<1> QED BY <1>3, <1>4, <1>5

(* What holds before a loop and is kept by its body holds after it.        *)
THEOREM FoldInduces ==
  ASSUME NEW a, NEW b, NEW c, NEW base, NEW S, IsFiniteSet(S), P(a, b, c, {}, base),
         \A s \in SUBSET S : \A x \in S \ s : \A u :
           P(a, b, c, s, u) => P(a, b, c, s \cup {x}, Op(a, b, x, u)),
         NEW r, r = Fold(a, b, base, S)
  PROVE  P(a, b, c, S, r)
<1>1. PICK g : /\ Builds(g, a, b, base, SUBSET S)
               /\ g = CHOOSE h : Builds(h, a, b, base, SUBSET S)
  BY FoldBuilds
<1>2. r = g[S]
  BY <1>1 DEF Fold, FoldSet, MapThenFoldSet, Builds, First
<1> DEFINE T == {n \in Nat : \E s \in SUBSET S : Cardinality(s) = n /\ ~P(a, b, c, s, g[s])}
<1>3. T = {}
  <2>1. SUFFICES ASSUME T # {} PROVE FALSE
    OBVIOUS
  <2>2. PICK n \in T : \A m \in T : n <= m
    BY <2>1, LeastOf
  <2>3. PICK s \in SUBSET S : Cardinality(s) = n /\ ~P(a, b, c, s, g[s])
    BY <2>2
  <2>4. g[s] = IF s = {} THEN base ELSE Op(a, b, First(s), g[s \ {First(s)}])
    BY <1>1 DEF Builds
  <2>5. s # {}
    BY <2>3, <2>4
  <2>6. PICK x, q : x = First(s) /\ q = s \ {x}
    OBVIOUS
  <2>7. /\ x \in s /\ q \in SUBSET S /\ Cardinality(q) \in Nat
        /\ Cardinality(q) + 1 = n
    BY <2>3, <2>5, <2>6, FirstFacts
  <2>8. P(a, b, c, q, g[q])
    <3>1. Cardinality(q) \notin T
      BY <2>2, <2>7
    <3> QED BY <2>7, <3>1
  <2>9. q \cup {x} = s /\ x \in S \ q
    BY <2>6, <2>7
  <2>10. P(a, b, c, q \cup {x}, Op(a, b, x, g[q]))
    BY <2>7, <2>8, <2>9
  <2> QED BY <2>3, <2>4, <2>5, <2>6, <2>9, <2>10
<1>4. Cardinality(S) \in Nat
  BY FS_CardinalityType
<1> QED BY <1>2, <1>3, <1>4

(* Of finitely many things, one has the greatest measure.                  *)
LEMMA GreatestOf ==
  ASSUME NEW S, IsFiniteSet(S), S # {}, NEW g, \A x \in S : g[x] \in Nat
  PROVE  \E x \in S : \A y \in S : g[y] <= g[x]
<1> DEFINE Has(s) == \E x \in s : \A y \in s : g[y] <= g[x]
           T == {n \in Nat : \E s \in SUBSET S : Cardinality(s) = n /\ s # {} /\ ~Has(s)}
<1>1. T = {}
  <2>1. SUFFICES ASSUME T # {} PROVE FALSE
    OBVIOUS
  <2>2. PICK n \in T : \A m \in T : n <= m
    BY <2>1, LeastOf
  <2>3. PICK s \in SUBSET S : Cardinality(s) = n /\ s # {} /\ ~Has(s)
    BY <2>2
  <2>4. PICK x, q : x = First(s) /\ q = s \ {x}
    OBVIOUS
  <2>5. x \in s /\ q \in SUBSET S /\ Cardinality(q) \in Nat /\ Cardinality(q) + 1 = n
    BY <2>3, <2>4, FirstFacts
  <2>6. q = {} \/ Has(q)
    <3>1. Cardinality(q) \notin T
      BY <2>2, <2>5
    <3> QED BY <2>5, <3>1
  <2>7. CASE q = {}
    <3>1. s = {x}
      BY <2>4, <2>5, <2>7
    <3> QED BY <2>3, <3>1
  <2>8. CASE Has(q)
    <3>1. PICK z \in q : \A y \in q : g[y] <= g[z]
      BY <2>8
    <3>2. s = q \cup {x} /\ g[x] \in Nat /\ g[z] \in Nat /\ \A y \in s : g[y] \in Nat
      BY <2>4, <2>5, <3>1
    <3>3. CASE g[x] <= g[z]
      BY <2>3, <3>1, <3>2, <3>3
    <3>4. CASE g[z] < g[x]
      <4>1. \A y \in s : g[y] <= g[x]
        BY <3>1, <3>2, <3>4
      <4> QED BY <2>3, <2>5, <4>1
    <3> QED BY <3>2, <3>3, <3>4
  <2> QED BY <2>6, <2>7, <2>8
<1>2. Cardinality(S) \in Nat
  BY FS_CardinalityType
<1>3. Has(S)
  BY <1>1, <1>2
<1> QED BY <1>3
=============================================================================
