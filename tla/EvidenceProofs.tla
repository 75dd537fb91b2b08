--------------------------- MODULE EvidenceProofs ---------------------------
(***************************************************************************)
(* Facts about the operators of SourceEvidence and PromptEvidence, for     *)
(* inputs of any size.  The recursive ones are reached by a fixed-point    *)
(* theorem for functions on a set with a measure, which speaks of sets and *)
(* functions only, so that it can be cited for each of them.               *)
(***************************************************************************)
EXTENDS PromptEvidence, FiniteSetTheorems, SequenceTheorems, WellFoundedInduction, TLAPS

-----------------------------------------------------------------------------
(* Induction and recursion.                                                *)

(* A set that holds a number as soon as it holds all smaller ones has all. *)
LEMMA CompleteInduction ==
  ASSUME NEW S, \A n \in Nat : (\A k \in 0..(n - 1) : k \in S) => n \in S
  PROVE  \A n \in Nat : n \in S
<1> DEFINE T == {n \in Nat : n \notin S}
<1>1. SUFFICES ASSUME T # {} PROVE FALSE
  OBVIOUS
<1>2. PICK x \in T : \A y \in T : ~ (<<y, x>> \in OpToRel(<, Nat))
  <2>1. IsWellFoundedOn(OpToRel(<, Nat), Nat)
    BY NatLessThanWellFounded
  <2>2. T \subseteq Nat
    OBVIOUS
  <2>3. QED
    BY <1>1, <2>1, <2>2, WFMin
<1>3. \A y \in T : ~(y < x)
  BY <1>2 DEF OpToRel
<1>4. \A k \in 0..(x - 1) : k \in S
  BY <1>3
<1>5. QED
  BY <1>4

(* Induction on numbers, for a set.                                        *)
LEMMA Induction ==
  ASSUME NEW S, 0 \in S, \A n \in Nat : n \in S => n + 1 \in S
  PROVE  \A n \in Nat : n \in S
<1>1. ASSUME NEW n \in Nat, \A k \in 0..(n - 1) : k \in S
      PROVE  n \in S
  <2>1. CASE n = 0
    BY <2>1
  <2>2. CASE n > 0
    <3>1. n - 1 \in Nat /\ n - 1 \in S
      BY <1>1, <2>2
    <3>2. (n - 1) + 1 \in S
      BY <3>1
    <3>3. QED
      BY <3>2
  <2>3. QED
    BY <2>1, <2>2
<1>2. QED
  BY <1>1, CompleteInduction

(* H[g] at x depends on g only where the measure is less than at x ...     *)
Recursion(D, V, m, H) ==
  /\ V # {}
  /\ m \in [D -> Nat]
  /\ H \in [[D -> V] -> [D -> V]]
  /\ \A g, h \in [D -> V], x \in D :
       (\A y \in D : m[y] < m[x] => g[y] = h[y]) => H[g][x] = H[h][x]

(* ... then some function is what H makes of it.                           *)
LEMMA FixedPoint ==
  ASSUME NEW D, NEW V, NEW m, NEW H, Recursion(D, V, m, H)
  PROVE  \E f \in [D -> V] : H[f] = f
<1> USE DEF Recursion
<1> DEFINE Upto(g, n) == \A x \in D : m[x] < n => H[g][x] = g[x]
           Good == {n \in Nat : \E g \in [D -> V] : Upto(g, n)}
<1>1. 0 \in Good
  <2>1. PICK v \in V : TRUE
    OBVIOUS
  <2>2. [x \in D |-> v] \in [D -> V]
    OBVIOUS
  <2>3. Upto([x \in D |-> v], 0)
    OBVIOUS
  <2>4. QED
    BY <2>2, <2>3
<1>2. ASSUME NEW n \in Nat, n \in Good PROVE n + 1 \in Good
  <2>1. PICK g \in [D -> V] : Upto(g, n)
    BY <1>2
  <2>2. PICK h \in [D -> V] : h = H[g]
    OBVIOUS
  <2>3. ASSUME NEW x \in D, m[x] < n + 1 PROVE H[h][x] = h[x]
    <3>1. \A y \in D : m[y] < m[x] => h[y] = g[y]
      BY <2>1, <2>2, <2>3
    <3>2. H[h][x] = H[g][x]
      BY <3>1
    <3>3. QED
      BY <2>2, <3>2
  <2>4. Upto(h, n + 1)
    BY <2>3
  <2>5. QED
    BY <2>4
<1>3. \A n \in Nat : n \in Good
  <2> HIDE DEF Good
  <2>1. QED
    BY <1>1, <1>2, Induction
<1> DEFINE G == [n \in Nat |-> CHOOSE g \in [D -> V] : Upto(g, n)]
<1>4. ASSUME NEW n \in Nat PROVE G[n] \in [D -> V] /\ Upto(G[n], n)
  <2>1. \E g \in [D -> V] : Upto(g, n)
    BY <1>3
  <2>2. QED
    BY <2>1
<1> HIDE DEF G, Good
(* Two such functions agree below both levels.                             *)
<1> DEFINE Same == {k \in Nat : \A a, b \in Nat : k < a /\ k < b =>
                                  \A x \in D : m[x] = k => G[a][x] = G[b][x]}
<1>5. \A k \in Nat : k \in Same
  <2>1. ASSUME NEW k \in Nat, \A j \in 0..(k - 1) : j \in Same PROVE k \in Same
    <3>1. ASSUME NEW a \in Nat, NEW b \in Nat, k < a, k < b, NEW x \in D, m[x] = k
          PROVE  G[a][x] = G[b][x]
      <4>1. \A y \in D : m[y] < m[x] => G[a][y] = G[b][y]
        <5>1. ASSUME NEW y \in D, m[y] < m[x] PROVE G[a][y] = G[b][y]
          <6>1. m[y] \in 0..(k - 1) /\ m[y] < a /\ m[y] < b
            BY <3>1, <5>1
          <6>2. m[y] \in Same
            BY <2>1, <6>1
          <6>3. QED
            BY <6>1, <6>2
        <5>2. QED
          BY <5>1
      <4>2. H[G[a]][x] = H[G[b]][x]
        BY <1>4, <4>1
      <4>3. H[G[a]][x] = G[a][x] /\ H[G[b]][x] = G[b][x]
        BY <1>4, <3>1
      <4>4. QED
        BY <4>2, <4>3
    <3>2. QED
      BY <3>1
  <2> HIDE DEF Same
  <2>2. QED
    BY <2>1, CompleteInduction
<1> DEFINE f == [x \in D |-> G[m[x] + 1][x]]
<1>6. f \in [D -> V]
  <2>1. \A x \in D : m[x] + 1 \in Nat
    OBVIOUS
  <2>2. QED
    BY <1>4, <2>1
<1>7. ASSUME NEW x \in D PROVE H[f][x] = f[x]
  <2>1. m[x] \in Nat /\ m[x] + 1 \in Nat
    OBVIOUS
  <2>2. \A y \in D : m[y] < m[x] => f[y] = G[m[x] + 1][y]
    <3>1. ASSUME NEW y \in D, m[y] < m[x] PROVE f[y] = G[m[x] + 1][y]
      <4>1. m[y] \in Nat /\ m[y] + 1 \in Nat /\ m[y] < m[x] + 1 /\ m[y] < m[y] + 1
        BY <2>1, <3>1
      <4>2. m[y] \in Same
        BY <4>1, <1>5
      <4>3. G[m[y] + 1][y] = G[m[x] + 1][y]
        BY <2>1, <4>1, <4>2
      <4>4. QED
        BY <4>3
    <3>2. QED
      BY <3>1
  <2>3. H[f][x] = H[G[m[x] + 1]][x]
    BY <1>4, <1>6, <2>1, <2>2
  <2>4. H[G[m[x] + 1]][x] = G[m[x] + 1][x]
    BY <1>4, <2>1
  <2>5. QED
    BY <2>3, <2>4
<1>8. H[f] = f
  <2>1. H[f] \in [D -> V]
    BY <1>6
  <2> HIDE DEF f
  <2>2. QED
    BY <1>6, <1>7, <2>1
<1>9. QED
  BY <1>6, <1>8

-----------------------------------------------------------------------------
(* Finite sets and sums.                                                   *)

(* What is known of a finite set as soon as it is known of what is left    *)
(* without any one of its elements.                                        *)
LEMMA SetInduction ==
  ASSUME NEW S, IsFiniteSet(S), NEW P,
         \A T \in SUBSET S : (\A x \in T : T \ {x} \in P) => T \in P
  PROVE  \A T \in SUBSET S : T \in P
<1> DEFINE Q == {n \in Nat : \A T \in SUBSET S : Cardinality(T) = n => T \in P}
<1>1. \A T \in SUBSET S : IsFiniteSet(T) /\ Cardinality(T) \in Nat
  BY FS_Subset, FS_CardinalityType
<1>2. ASSUME NEW n \in Nat, \A k \in 0..(n - 1) : k \in Q
      PROVE  n \in Q
  <2>1. ASSUME NEW T \in SUBSET S, Cardinality(T) = n PROVE T \in P
    <3>1. ASSUME NEW x \in T PROVE T \ {x} \in P
      <4>1. Cardinality(T \ {x}) = n - 1 /\ n - 1 \in Nat
        <5>1. Cardinality(T \ {x}) = Cardinality(T) - 1
          BY <1>1, FS_RemoveElement
        <5>2. T \ {x} \in SUBSET S
          OBVIOUS
        <5>3. Cardinality(T \ {x}) \in Nat
          BY <1>1, <5>2
        <5>4. QED
          BY <2>1, <5>1, <5>3
      <4>2. n - 1 \in 0..(n - 1) /\ T \ {x} \in SUBSET S
        BY <4>1
      <4>3. n - 1 \in Q
        BY <1>2, <4>2
      <4>4. QED
        BY <4>1, <4>2, <4>3
    <3>2. QED
      BY <3>1
  <2>2. QED
    BY <2>1
<1>3. \A n \in Nat : n \in Q
  <2> HIDE DEF Q
  <2>1. QED
    BY <1>2, CompleteInduction
<1>4. QED
  BY <1>1, <1>3

(* What adding up does, step by step.                                      *)
Adds(g, f, S) ==
  /\ g \in [SUBSET S -> Nat]
  /\ \A T \in SUBSET S :
       g[T] = IF T = {} THEN 0
              ELSE LET x == CHOOSE y \in T : TRUE IN f[x] + g[T \ {x}]

(* The sum of f over S is what a function that adds up f on the subsets    *)
(* of S has at S.                                                          *)
LEMMA SumAdds ==
  ASSUME NEW S, IsFiniteSet(S), NEW f, \A x \in S : f[x] \in Nat
  PROVE  \E g : Adds(g, f, S) /\ SumFunctionOnSet(f, S) = g[S]
<1> DEFINE D == SUBSET S
           H == [g \in [D -> Nat] |-> [T \in D |->
                   IF T = {} THEN 0
                   ELSE f[CHOOSE y \in T : TRUE] + g[T \ {CHOOSE y \in T : TRUE}]]]
           m == [T \in D |-> Cardinality(T)]
<1>1. \A T \in D : IsFiniteSet(T) /\ Cardinality(T) \in Nat
  BY FS_Subset, FS_CardinalityType
<1>2. \A T \in D : T # {} => /\ (CHOOSE y \in T : TRUE) \in T
                             /\ (CHOOSE y \in T : TRUE) \in S
                             /\ T \ {CHOOSE y \in T : TRUE} \in D
  OBVIOUS
<1>3. m \in [D -> Nat]
  BY <1>1
<1>4. H \in [[D -> Nat] -> [D -> Nat]]
  <2>1. ASSUME NEW g \in [D -> Nat], NEW T \in D, T # {}
        PROVE  f[CHOOSE y \in T : TRUE] + g[T \ {CHOOSE y \in T : TRUE}] \in Nat
    <3>1. f[CHOOSE y \in T : TRUE] \in Nat /\ g[T \ {CHOOSE y \in T : TRUE}] \in Nat
      BY <1>2, <2>1
    <3>2. QED
      BY <3>1
  <2>2. QED
    BY <2>1
<1>5. ASSUME NEW g \in [D -> Nat], NEW h \in [D -> Nat], NEW T \in D,
             \A U \in D : m[U] < m[T] => g[U] = h[U]
      PROVE  H[g][T] = H[h][T]
  <2>1. CASE T = {}
    BY <2>1
  <2>2. CASE T # {}
    <3> DEFINE U == T \ {CHOOSE y \in T : TRUE}
    <3>1. Cardinality(U) = Cardinality(T) - 1
      BY <1>1, <1>2, <2>2, FS_RemoveElement
    <3>2. U \in D /\ m[U] < m[T]
      <4>1. U \in D
        OBVIOUS
      <4> HIDE DEF U
      <4>2. QED
        BY <1>1, <3>1, <4>1
    <3>3. g[U] = h[U]
      BY <1>5, <3>2
    <3>4. QED
      BY <2>2, <3>3
  <2>3. QED
    BY <2>1, <2>2
<1>6. \E g \in [D -> Nat] : H[g] = g
  <2>1. Recursion(D, Nat, m, H)
    <3> HIDE DEF D, H, m
    <3>1. QED
      BY <1>3, <1>4, <1>5 DEF Recursion
  <2> HIDE DEF D, H, m
  <2>2. QED
    BY <2>1, FixedPoint
<1> DEFINE F == CHOOSE g : g = [T \in D |->
                   IF T = {} THEN 0
                   ELSE f[CHOOSE y \in T : TRUE] + g[T \ {CHOOSE y \in T : TRUE}]]
<1>7. F = [T \in D |->
             IF T = {} THEN 0
             ELSE f[CHOOSE y \in T : TRUE] + F[T \ {CHOOSE y \in T : TRUE}]]
  BY <1>6
<1>8. SumFunctionOnSet(f, S) = F[S]
  BY DEF SumFunctionOnSet, FoldFunctionOnSet, MapThenFoldSet
<1>9. F \in [D -> Nat]
  <2> DEFINE P == {T \in D : F[T] \in Nat}
  <2>1. ASSUME NEW T \in SUBSET S, \A x \in T : T \ {x} \in P PROVE T \in P
    <3> HIDE DEF F
    <3>1. CASE T = {}
      BY <1>7, <3>1
    <3>2. CASE T # {}
      <4>1. F[T] = f[CHOOSE y \in T : TRUE] + F[T \ {CHOOSE y \in T : TRUE}]
        BY <1>7, <3>2
      <4>2. f[CHOOSE y \in T : TRUE] \in Nat /\ F[T \ {CHOOSE y \in T : TRUE}] \in Nat
        BY <1>2, <2>1, <3>2
      <4>3. QED
        BY <4>1, <4>2
    <3>3. QED
      BY <3>1, <3>2
  <2>2. \A T \in SUBSET S : T \in P
    <3> HIDE DEF P
    <3>1. QED
      BY <2>1, SetInduction
  <2> HIDE DEF F
  <2>3. QED
    BY <1>7, <2>2
<1>10. Adds(F, f, S)
  <2> HIDE DEF F
  <2>1. QED
    BY <1>7, <1>9 DEF Adds
<1>11. QED
  BY <1>8, <1>10

(* Such functions agree wherever what they add up agrees.                  *)
LEMMA AddsSame ==
  ASSUME NEW S, IsFiniteSet(S), NEW T, S \subseteq T, NEW f, NEW e, \A x \in S : f[x] = e[x],
         NEW g, NEW h, Adds(g, f, S), Adds(h, e, T)
  PROVE  \A U \in SUBSET S : g[U] = h[U]
<1> DEFINE P == {U \in SUBSET S : g[U] = h[U]}
<1>1. ASSUME NEW U \in SUBSET S, \A x \in U : U \ {x} \in P PROVE U \in P
  <2>1. CASE U = {}
    BY <2>1 DEF Adds
  <2>2. CASE U # {}
    <3>1. PICK x \in U : x = CHOOSE y \in U : TRUE
      BY <2>2
    <3>2. g[U] = f[x] + g[U \ {x}] /\ h[U] = e[x] + h[U \ {x}]
      <4>1. U \in SUBSET T
        OBVIOUS
      <4>2. QED
        BY <2>2, <3>1, <4>1 DEF Adds
    <3>3. g[U \ {x}] = h[U \ {x}] /\ f[x] = e[x]
      BY <1>1
    <3>4. QED
      BY <3>2, <3>3
  <2>3. QED
    BY <2>1, <2>2
<1> HIDE DEF P
<1>2. \A U \in SUBSET S : U \in P
  BY <1>1, SetInduction
<1>3. QED
  BY <1>2 DEF P

(* The order in which elements are taken does not matter.                  *)
LEMMA AddsAny ==
  ASSUME NEW S, IsFiniteSet(S), NEW f, \A x \in S : f[x] \in Nat, NEW g, Adds(g, f, S)
  PROVE  \A U \in SUBSET S : \A x \in U : g[U] = f[x] + g[U \ {x}]
<1> DEFINE P == {U \in SUBSET S : \A x \in U : g[U] = f[x] + g[U \ {x}]}
<1>1. ASSUME NEW U \in SUBSET S, \A x \in U : U \ {x} \in P PROVE U \in P
  <2>1. ASSUME NEW x \in U PROVE g[U] = f[x] + g[U \ {x}]
    <3>1. PICK c \in U : c = CHOOSE y \in U : TRUE
      BY <2>1
    <3>2. g[U] = f[c] + g[U \ {c}]
      BY <2>1, <3>1 DEF Adds
    <3>3. CASE x = c
      BY <3>2, <3>3
    <3>4. CASE x # c
      <4>1. PICK W \in SUBSET S : W = (U \ {x}) \ {c} /\ W = (U \ {c}) \ {x}
        OBVIOUS
      <4>2. g[U \ {c}] = f[x] + g[W]
        BY <1>1, <3>4, <4>1
      <4>3. g[U \ {x}] = f[c] + g[W]
        BY <1>1, <3>4, <4>1
      <4>4. f[c] \in Nat /\ f[x] \in Nat /\ g[W] \in Nat
        BY DEF Adds
      <4>5. QED
        BY ONLY <3>2, <4>2, <4>3, <4>4
    <3>5. QED
      BY <3>3, <3>4
  <2>2. QED
    BY <2>1
<1> HIDE DEF P
<1>2. \A U \in SUBSET S : U \in P
  BY <1>1, SetInduction
<1>3. QED
  BY <1>2 DEF P

(* A sum over nothing is 0.                                                *)
LEMMA SumOfNone ==
  ASSUME NEW f PROVE SumFunctionOnSet(f, {}) = 0
<1>1. PICK g : Adds(g, f, {}) /\ SumFunctionOnSet(f, {}) = g[{}]
  BY SumAdds, FS_EmptySet
<1>2. QED
  BY <1>1 DEF Adds

(* A sum of numbers is a number.                                           *)
LEMMA SumIsNat ==
  ASSUME NEW S, IsFiniteSet(S), NEW f, \A x \in S : f[x] \in Nat
  PROVE  SumFunctionOnSet(f, S) \in Nat
<1>1. PICK g : Adds(g, f, S) /\ SumFunctionOnSet(f, S) = g[S]
  BY SumAdds
<1>2. QED
  BY <1>1 DEF Adds

(* A sum is any of its terms and the sum of the others.                    *)
LEMMA SumRemove ==
  ASSUME NEW S, IsFiniteSet(S), NEW f, \A x \in S : f[x] \in Nat, NEW x \in S
  PROVE  SumFunctionOnSet(f, S) = f[x] + SumFunctionOnSet(f, S \ {x})
<1>1. PICK g : Adds(g, f, S) /\ SumFunctionOnSet(f, S) = g[S]
  BY SumAdds
<1>2. IsFiniteSet(S \ {x})
  BY FS_RemoveElement
<1>3. PICK h : Adds(h, f, S \ {x}) /\ SumFunctionOnSet(f, S \ {x}) = h[S \ {x}]
  <2>1. \A y \in S \ {x} : f[y] \in Nat
    OBVIOUS
  <2>2. QED
    BY <1>2, <2>1, SumAdds
<1>4. h[S \ {x}] = g[S \ {x}]
  <2>1. \A U \in SUBSET (S \ {x}) : h[U] = g[U]
    BY <1>1, <1>2, <1>3, AddsSame
  <2>2. QED
    BY <2>1
<1>5. g[S] = f[x] + g[S \ {x}]
  BY <1>1, AddsAny
<1>6. QED
  BY <1>1, <1>3, <1>4, <1>5

(* Functions that agree on a set have the same sum over it.                *)
LEMMA SumAgree ==
  ASSUME NEW S, IsFiniteSet(S), NEW f, NEW e,
         \A x \in S : f[x] \in Nat /\ f[x] = e[x]
  PROVE  SumFunctionOnSet(f, S) = SumFunctionOnSet(e, S)
<1>1. PICK g : Adds(g, f, S) /\ SumFunctionOnSet(f, S) = g[S]
  BY SumAdds
<1>2. PICK h : Adds(h, e, S) /\ SumFunctionOnSet(e, S) = h[S]
  BY SumAdds
<1>3. \A U \in SUBSET S : g[U] = h[U]
  BY <1>1, <1>2, AddsSame
<1>4. QED
  BY <1>1, <1>2, <1>3

(* One more term.                                                          *)
LEMMA SumExtend ==
  ASSUME NEW S, IsFiniteSet(S), NEW x, x \notin S, NEW f, NEW e,
         \A y \in S : e[y] \in Nat /\ f[y] = e[y], f[x] \in Nat
  PROVE  SumFunctionOnSet(f, S \cup {x}) = SumFunctionOnSet(e, S) + f[x]
<1>1. IsFiniteSet(S \cup {x}) /\ (S \cup {x}) \ {x} = S
  BY FS_AddElement
<1>2. \A y \in S \cup {x} : f[y] \in Nat
  OBVIOUS
<1>3. SumFunctionOnSet(f, S \cup {x}) = f[x] + SumFunctionOnSet(f, (S \cup {x}) \ {x})
  <2>1. x \in S \cup {x}
    OBVIOUS
  <2>2. QED
    BY <1>1, <1>2, <2>1, SumRemove
<1>4. SumFunctionOnSet(f, S) = SumFunctionOnSet(e, S) /\ SumFunctionOnSet(e, S) \in Nat
  BY SumAgree, SumIsNat
<1>5. SumFunctionOnSet(f, S \cup {x}) = f[x] + SumFunctionOnSet(f, S)
  BY <1>1, <1>3, Zenon
<1>6. QED
  BY <1>4, <1>5

-----------------------------------------------------------------------------
(* Sequences taken from sequences.                                         *)

(* The elements of r are those of s at the places J, each place once.      *)
Selects(r, s, J) ==
  \E p \in [DOMAIN r -> J] :
    /\ \A a, b \in DOMAIN r : p[a] = p[b] => a = b
    /\ \A j \in J : \E a \in DOMAIN r : p[a] = j
    /\ \A a \in DOMAIN r : r[a] = s[p[a]]

(* AtPositions as a recursion over the length of the sequence.             *)
LEMMA KeepIsDefined ==
  ASSUME NEW V, NEW s \in Seq(V), NEW I
  PROVE  \E k \in [0..Len(s) -> Seq(V)] :
           /\ AtPositions(s, I) = k[Len(s)]
           /\ \A n \in 0..Len(s) :
                k[n] = IF n = 0 THEN <<>>
                       ELSE IF n \in I THEN Append(k[n - 1], s[n]) ELSE k[n - 1]
<1> DEFINE D == 0..Len(s)
           W == Seq(V)
           H == [g \in [D -> W] |-> [n \in D |->
                   IF n = 0 THEN <<>>
                   ELSE IF n \in I THEN Append(g[n - 1], s[n]) ELSE g[n - 1]]]
           m == [n \in D |-> n]
           k == CHOOSE g : g = [n \in D |->
                   IF n = 0 THEN <<>>
                   ELSE IF n \in I THEN Append(g[n - 1], s[n]) ELSE g[n - 1]]
<1>1. \A n \in D : n # 0 => n - 1 \in D /\ n \in 1..Len(s) /\ s[n] \in V
  OBVIOUS
<1>2. H \in [[D -> W] -> [D -> W]]
  <2>1. ASSUME NEW g \in [D -> W], NEW n \in D, n # 0
        PROVE  g[n - 1] \in W /\ Append(g[n - 1], s[n]) \in W
    <3>1. g[n - 1] \in W /\ s[n] \in V
      BY <1>1, <2>1
    <3>2. QED
      BY <3>1
  <2>2. <<>> \in W
    OBVIOUS
  <2> HIDE DEF D, W
  <2>3. QED
    BY <2>1, <2>2
<1>3. Recursion(D, W, m, H)
  <2>1. W # {} /\ m \in [D -> Nat]
    <3>1. <<>> \in W
      OBVIOUS
    <3>2. QED
      BY <3>1
  <2>2. ASSUME NEW g \in [D -> W], NEW h \in [D -> W], NEW n \in D,
               \A j \in D : m[j] < m[n] => g[j] = h[j]
        PROVE  H[g][n] = H[h][n]
    <3>1. n # 0 => g[n - 1] = h[n - 1]
      <4>1. n # 0 => n - 1 \in D /\ m[n - 1] < m[n]
        BY <1>1
      <4>2. QED
        BY <2>2, <4>1
    <3>2. QED
      BY <3>1
  <2> HIDE DEF D, W, m, H
  <2>3. QED
    BY <1>2, <2>1, <2>2 DEF Recursion
<1>4. \E g \in [D -> W] : H[g] = g
  <2> HIDE DEF D, W, m, H
  <2>1. QED
    BY <1>3, FixedPoint
<1>5. PICK g \in [D -> W] : H[g] = g
  BY <1>4
<1>6. g = [n \in D |->
             IF n = 0 THEN <<>>
             ELSE IF n \in I THEN Append(g[n - 1], s[n]) ELSE g[n - 1]]
  BY <1>5
<1>7. k = [n \in D |->
             IF n = 0 THEN <<>>
             ELSE IF n \in I THEN Append(k[n - 1], s[n]) ELSE k[n - 1]]
  BY <1>6
<1>8. AtPositions(s, I) = k[Len(s)]
  BY DEF AtPositions
<1> HIDE DEF k
<1>9. k \in [D -> W]
  <2> DEFINE P == {n \in Nat : n \in D => k[n] \in W}
  <2>1. 0 \in P
    <3>1. 0 \in D /\ <<>> \in W
      OBVIOUS
    <3>2. k[0] = <<>>
      BY <1>7, <3>1
    <3>3. QED
      BY <3>1, <3>2
  <2>2. ASSUME NEW n \in Nat, n \in P PROVE n + 1 \in P
    <3>1. SUFFICES ASSUME n + 1 \in D PROVE k[n + 1] \in W
      OBVIOUS
    <3>2. n \in D /\ k[n] \in W /\ s[n + 1] \in V
      BY <2>2, <3>1, <1>1
    <3>3. k[n + 1] = IF n + 1 \in I THEN Append(k[n], s[n + 1]) ELSE k[n]
      <4>1. (n + 1) - 1 = n /\ n + 1 # 0
        OBVIOUS
      <4>2. QED
        BY <1>7, <3>1, <4>1
    <3>4. QED
      BY <3>2, <3>3
  <2>3. \A n \in Nat : n \in P
    <3> HIDE DEF P
    <3>1. QED
      BY <2>1, <2>2, Induction
  <2>4. \A n \in D : k[n] \in W
    BY <2>3
  <2> HIDE DEF P, D, W
  <2>5. QED
    BY <1>7, <2>4
<1>10. \A n \in D : k[n] = IF n = 0 THEN <<>>
                    ELSE IF n \in I THEN Append(k[n - 1], s[n]) ELSE k[n - 1]
  BY <1>7
<1>11. QED
  BY <1>8, <1>9, <1>10

(* AtPositions selects the given positions, in their order.                *)
LEMMA AtPositionsSelects ==
  ASSUME NEW V, NEW s \in Seq(V), NEW I
  PROVE  /\ AtPositions(s, I) \in Seq(V)
         /\ Selects(AtPositions(s, I), s, DOMAIN s \cap I)
         /\ \A i \in DOMAIN s : i \notin I => Len(AtPositions(s, I)) < Len(s)
<1>1. PICK k \in [0..Len(s) -> Seq(V)] :
           /\ AtPositions(s, I) = k[Len(s)]
           /\ \A n \in 0..Len(s) :
                k[n] = IF n = 0 THEN <<>>
                       ELSE IF n \in I THEN Append(k[n - 1], s[n]) ELSE k[n - 1]
  BY KeepIsDefined
<1> DEFINE Short(n) == Len(k[n]) <= n /\ \A i \in 1..n : i \notin I => Len(k[n]) < n
           P == {n \in Nat : n \in 0..Len(s) => Selects(k[n], s, (1..n) \cap I) /\ Short(n)}
<1>2. 0 \in P
  <2>1. k[0] = <<>>
    BY <1>1
  <2>2. Selects(k[0], s, (1..0) \cap I)
    <3>1. << >> \in [DOMAIN k[0] -> (1..0) \cap I]
      BY <2>1
    <3>2. QED
      BY <2>1, <3>1 DEF Selects
  <2>3. QED
    BY <2>1, <2>2
<1>3. ASSUME NEW n \in Nat, n \in P PROVE n + 1 \in P
  <2>1. SUFFICES ASSUME n + 1 \in 0..Len(s)
                 PROVE  Selects(k[n + 1], s, (1..(n + 1)) \cap I) /\ Short(n + 1)
    OBVIOUS
  <2>2. /\ k[n] \in Seq(V) /\ Selects(k[n], s, (1..n) \cap I) /\ Short(n)
        /\ n + 1 \in 1..Len(s) /\ s[n + 1] \in V
    BY <1>3, <2>1
  <2>3. k[n + 1] = IF n + 1 \in I THEN Append(k[n], s[n + 1]) ELSE k[n]
    <3>1. (n + 1) - 1 = n /\ n + 1 # 0
      OBVIOUS
    <3>2. QED
      BY <1>1, <2>1, <3>1
  <2>4. CASE n + 1 \notin I
    <3>1. k[n + 1] = k[n] /\ (1..(n + 1)) \cap I = (1..n) \cap I
      BY <2>3, <2>4
    <3>2. Short(n + 1)
      BY <2>2, <3>1
    <3>3. QED
      BY <2>2, <3>1, <3>2
  <2>5. CASE n + 1 \in I
    <3>1. /\ k[n + 1] \in Seq(V) /\ Len(k[n + 1]) = Len(k[n]) + 1
          /\ DOMAIN k[n] = 1..Len(k[n]) /\ DOMAIN k[n + 1] = 1..(Len(k[n]) + 1)
          /\ \A a \in 1..Len(k[n]) : k[n + 1][a] = k[n][a]
          /\ k[n + 1][Len(k[n]) + 1] = s[n + 1]
      BY <2>2, <2>3, <2>5
    <3>2. Short(n + 1)
      BY <2>2, <2>5, <3>1
    <3>3. PICK p \in [DOMAIN k[n] -> (1..n) \cap I] :
            /\ \A a, b \in DOMAIN k[n] : p[a] = p[b] => a = b
            /\ \A j \in (1..n) \cap I : \E a \in DOMAIN k[n] : p[a] = j
            /\ \A a \in DOMAIN k[n] : k[n][a] = s[p[a]]
      BY <2>2 DEF Selects
    <3> DEFINE L == Len(k[n])
               q == [a \in 1..(L + 1) |-> IF a = L + 1 THEN n + 1 ELSE p[a]]
    <3>4. L \in Nat /\ \A a \in 1..(L + 1) : a # L + 1 => a \in 1..L
      BY <2>2
    <3> HIDE DEF L
    <3>5. q \in [1..(L + 1) -> (1..(n + 1)) \cap I]
      <4>1. ASSUME NEW a \in 1..(L + 1) PROVE q[a] \in (1..(n + 1)) \cap I
        <5>1. CASE a = L + 1
          BY <2>5, <5>1
        <5>2. CASE a # L + 1
          <6>1. a \in DOMAIN k[n]
            BY <3>1, <3>4, <5>2 DEF L
          <6>2. p[a] \in (1..n) \cap I
            BY <3>3, <6>1
          <6>3. QED
            BY <5>2, <6>2
        <5>3. QED
          BY <5>1, <5>2
      <4>2. QED
        BY <4>1
    <3>6. \A a, b \in 1..(L + 1) : q[a] = q[b] => a = b
      <4>1. \A a \in 1..(L + 1) :
              a # L + 1 => a \in DOMAIN k[n] /\ q[a] = p[a] /\ p[a] # n + 1
        <5>1. \A a \in DOMAIN k[n] : p[a] \in 1..n
          BY <3>3
        <5>2. DOMAIN k[n] = 1..L
          BY <3>1 DEF L
        <5>3. QED
          BY <3>4, <5>1, <5>2
      <4>2. q[L + 1] = n + 1
        BY <3>4
      <4> HIDE DEF q
      <4>3. QED
        BY <3>3, <4>1, <4>2
    <3>7. \A j \in (1..(n + 1)) \cap I : \E a \in 1..(L + 1) : q[a] = j
      <4>1. ASSUME NEW j \in (1..(n + 1)) \cap I, j # n + 1
            PROVE  \E a \in 1..(L + 1) : q[a] = j
        <5>1. j \in (1..n) \cap I
          BY <4>1
        <5>2. PICK a \in DOMAIN k[n] : p[a] = j
          BY <3>3, <5>1
        <5>3. a \in 1..(L + 1) /\ a # L + 1
          BY <3>1, <3>4, <5>2 DEF L
        <5>4. QED
          BY <5>2, <5>3
      <4>2. q[L + 1] = n + 1 /\ L + 1 \in 1..(L + 1)
        BY <3>4
      <4>3. QED
        BY <4>1, <4>2
    <3>8. \A a \in 1..(L + 1) : k[n + 1][a] = s[q[a]]
      BY <3>1, <3>3, <3>4 DEF L
    <3>9. Selects(k[n + 1], s, (1..(n + 1)) \cap I)
      <4> HIDE DEF q
      <4>1. DOMAIN k[n + 1] = 1..(L + 1)
        BY <3>1 DEF L
      <4>2. /\ q \in [DOMAIN k[n + 1] -> (1..(n + 1)) \cap I]
            /\ \A a, b \in DOMAIN k[n + 1] : q[a] = q[b] => a = b
            /\ \A j \in (1..(n + 1)) \cap I : \E a \in DOMAIN k[n + 1] : q[a] = j
            /\ \A a \in DOMAIN k[n + 1] : k[n + 1][a] = s[q[a]]
        BY <3>5, <3>6, <3>7, <3>8, <4>1
      <4>3. QED
        BY <4>2 DEF Selects
    <3>10. QED
      BY <3>2, <3>9
  <2>6. QED
    BY <2>4, <2>5
<1>4. \A n \in Nat : n \in P
  <2> HIDE DEF P
  <2>1. QED
    BY <1>2, <1>3, Induction
<1>5. Len(s) \in P /\ Len(s) \in Nat /\ Len(s) \in 0..Len(s) /\ DOMAIN s = 1..Len(s)
  BY <1>4
<1>6. QED
  BY <1>1, <1>5

(* r has the elements of the rows K of ss, each place of a row once.       *)
FlattensBy(r, ss, K, row, col) ==
  /\ row \in [DOMAIN r -> K] /\ col \in [DOMAIN r -> Nat]
  /\ \A a \in DOMAIN r : col[a] \in DOMAIN ss[row[a]] /\ r[a] = ss[row[a]][col[a]]
  /\ \A a, b \in DOMAIN r : row[a] = row[b] /\ col[a] = col[b] => a = b
  /\ \A k \in K : \A h \in DOMAIN ss[k] : \E a \in DOMAIN r : row[a] = k /\ col[a] = h

Flattens(r, ss, K) == \E row, col : FlattensBy(r, ss, K, row, col)

(* One more sequence appended.                                             *)
LEMMA FlattensMore ==
  ASSUME NEW U, NEW ss \in Seq(Seq(U)), NEW n \in Nat, n + 1 \in DOMAIN ss,
         NEW r \in Seq(U), Flattens(r, ss, 1..n)
  PROVE  Flattens(r \o ss[n + 1], ss, 1..(n + 1))
<1>0. PICK row, col : FlattensBy(r, ss, 1..n, row, col)
  BY DEF Flattens
<1>1. /\ row \in [DOMAIN r -> 1..n] /\ col \in [DOMAIN r -> Nat]
      /\ \A a \in DOMAIN r : col[a] \in DOMAIN ss[row[a]] /\ r[a] = ss[row[a]][col[a]]
      /\ \A a, b \in DOMAIN r : row[a] = row[b] /\ col[a] = col[b] => a = b
      /\ \A k \in 1..n : \A h \in DOMAIN ss[k] : \E a \in DOMAIN r : row[a] = k /\ col[a] = h
  BY <1>0 DEF FlattensBy
<1>2. PICK t \in Seq(U) : t = ss[n + 1]
  OBVIOUS
<1>3. PICK L \in Nat : L = Len(r)
  OBVIOUS
<1>4. PICK M \in Nat : M = Len(t)
  BY <1>2
<1>5. PICK u \in Seq(U) : u = r \o t
  <2>1. r \o t \in Seq(U)
    BY <1>2
  <2>2. QED
    BY <2>1, Zenon
<1>6. DOMAIN r = 1..L /\ DOMAIN t = 1..M /\ DOMAIN u = 1..(L + M)
  BY <1>2, <1>3, <1>4, <1>5
<1>7. /\ \A a \in 1..L : u[a] = r[a]
      /\ \A a \in 1..M : u[L + a] = t[a]
  BY <1>3, <1>4, <1>5, <1>6
<1> DEFINE nrow == [a \in 1..(L + M) |-> IF a \in 1..L THEN row[a] ELSE n + 1]
           ncol == [a \in 1..(L + M) |-> IF a \in 1..L THEN col[a] ELSE a - L]
<1>8. \A a \in 1..(L + M) :
        \/ a \in 1..L /\ nrow[a] = row[a] /\ row[a] \in 1..n /\ ncol[a] = col[a] /\ col[a] \in Nat
        \/ a \notin 1..L /\ nrow[a] = n + 1 /\ ncol[a] = a - L /\ a - L \in 1..M /\ a = L + (a - L)
  BY <1>1, <1>6
<1>9. \A a \in 1..L : a \in 1..(L + M) /\ nrow[a] = row[a] /\ ncol[a] = col[a]
  OBVIOUS
<1>10. \A h \in 1..M : L + h \in 1..(L + M) /\ L + h \notin 1..L /\ (L + h) - L = h
  OBVIOUS
<1>11. nrow \in [1..(L + M) -> 1..(n + 1)] /\ ncol \in [1..(L + M) -> Nat]
  <2>1. \A a \in 1..(L + M) : nrow[a] \in 1..(n + 1) /\ ncol[a] \in Nat
    BY <1>8
  <2>2. QED
    BY <2>1
<1> HIDE DEF nrow, ncol
<1>12. ASSUME NEW a \in 1..(L + M)
       PROVE  ncol[a] \in DOMAIN ss[nrow[a]] /\ u[a] = ss[nrow[a]][ncol[a]]
  <2>1. CASE a \in 1..L
    BY <1>1, <1>6, <1>7, <1>9, <2>1
  <2>2. CASE a \notin 1..L
    <3>1. PICK h \in 1..M : h = a - L /\ a = L + h /\ nrow[a] = n + 1 /\ ncol[a] = h
      BY <1>8, <2>2
    <3>2. QED
      BY <1>2, <1>6, <1>7, <3>1
  <2>3. QED
    BY <2>1, <2>2
<1>13. ASSUME NEW a \in 1..(L + M), NEW b \in 1..(L + M), nrow[a] = nrow[b], ncol[a] = ncol[b]
       PROVE  a = b
  <2>1. \A c \in 1..(L + M) : c \in 1..L <=> nrow[c] # n + 1
    <3>1. \A k \in 1..n : k # n + 1
      OBVIOUS
    <3>2. QED
      BY <1>8, <3>1
  <2>2. CASE a \in 1..L
    <3>1. b \in 1..L
      BY <1>13, <2>1, <2>2
    <3>2. a \in DOMAIN r /\ b \in DOMAIN r /\ row[a] = row[b] /\ col[a] = col[b]
      BY <1>6, <1>9, <1>13, <2>2, <3>1
    <3>3. QED
      BY <1>1, <3>2
  <2>3. CASE a \notin 1..L
    BY <1>8, <1>13, <2>1, <2>3
  <2>4. QED
    BY <2>2, <2>3
<1>14. ASSUME NEW k \in 1..(n + 1), NEW h \in DOMAIN ss[k]
       PROVE  \E a \in 1..(L + M) : nrow[a] = k /\ ncol[a] = h
  <2>1. CASE k = n + 1
    <3>1. h \in 1..M
      BY <1>2, <1>6, <2>1
    <3>2. L + h \in 1..(L + M) /\ nrow[L + h] = n + 1 /\ ncol[L + h] = h
      BY <1>8, <1>10, <3>1
    <3>3. QED
      BY <2>1, <3>2
  <2>2. CASE k # n + 1
    <3>1. k \in 1..n
      BY <2>2
    <3>2. PICK a \in DOMAIN r : row[a] = k /\ col[a] = h
      BY <1>1, <3>1
    <3>3. QED
      BY <1>6, <1>9, <3>2
  <2>3. QED
    BY <2>1, <2>2
<1>15. Flattens(u, ss, 1..(n + 1))
  <2>1. DOMAIN u = 1..(L + M)
    BY <1>6
  <2>2. nrow \in [DOMAIN u -> 1..(n + 1)] /\ ncol \in [DOMAIN u -> Nat]
    BY <1>11, <2>1
  <2>3. \A a \in DOMAIN u : ncol[a] \in DOMAIN ss[nrow[a]] /\ u[a] = ss[nrow[a]][ncol[a]]
    BY <1>12, <2>1
  <2>4. \A a, b \in DOMAIN u : nrow[a] = nrow[b] /\ ncol[a] = ncol[b] => a = b
    BY <1>13, <2>1
  <2>5. \A k \in 1..(n + 1) : \A h \in DOMAIN ss[k] :
           \E a \in DOMAIN u : nrow[a] = k /\ ncol[a] = h
    <3>1. ASSUME NEW k \in 1..(n + 1), NEW h \in DOMAIN ss[k]
          PROVE  \E a \in DOMAIN u : nrow[a] = k /\ ncol[a] = h
      <4>1. PICK a \in 1..(L + M) : nrow[a] = k /\ ncol[a] = h
        BY <1>14
      <4>2. a \in DOMAIN u
        BY <2>1, <4>1
      <4>3. QED
        BY <4>1, <4>2
    <3>2. QED
      BY <3>1
  <2>6. FlattensBy(u, ss, 1..(n + 1), nrow, ncol)
    BY <2>2, <2>3, <2>4, <2>5 DEF FlattensBy
  <2>7. QED
    BY <2>6 DEF Flattens
<1>16. QED
  BY <1>2, <1>5, <1>15

(* FlattenSeq is one sequence after the other, with nothing left out.      *)
LEMMA FlattenSeqFlattens ==
  ASSUME NEW U, NEW ss \in Seq(Seq(U))
  PROVE  FlattenSeq(ss) \in Seq(U) /\ Flattens(FlattenSeq(ss), ss, DOMAIN ss)
<1> DEFINE D == 1..Len(ss)
           W == Seq(U)
           H == [g \in [D -> W] |-> [i \in D |-> IF i = 1 THEN ss[i] ELSE g[i - 1] \o ss[i]]]
           m == [i \in D |-> i]
           f == CHOOSE g : g = [i \in D |-> IF i = 1 THEN ss[i] ELSE g[i - 1] \o ss[i]]
<1>1. \A i \in D : ss[i] \in W /\ (i # 1 => i - 1 \in D)
  OBVIOUS
<1>2. H \in [[D -> W] -> [D -> W]]
  <2>1. ASSUME NEW g \in [D -> W], NEW i \in D, i # 1
        PROVE  g[i - 1] \o ss[i] \in W
    <3>1. g[i - 1] \in W /\ ss[i] \in W
      BY <1>1, <2>1
    <3>2. QED
      BY <3>1
  <2> HIDE DEF D, W
  <2>2. QED
    BY <1>1, <2>1
<1>3. Recursion(D, W, m, H)
  <2>1. W # {} /\ m \in [D -> Nat]
    <3>1. <<>> \in W
      OBVIOUS
    <3>2. QED
      BY <3>1
  <2>2. ASSUME NEW g \in [D -> W], NEW h \in [D -> W], NEW n \in D,
               \A j \in D : m[j] < m[n] => g[j] = h[j]
        PROVE  H[g][n] = H[h][n]
    <3>1. n # 1 => g[n - 1] = h[n - 1]
      <4>1. n # 1 => n - 1 \in D /\ m[n - 1] < m[n]
        BY <1>1
      <4>2. QED
        BY <2>2, <4>1
    <3>2. QED
      BY <3>1
  <2> HIDE DEF D, W, m, H
  <2>3. QED
    BY <1>2, <2>1, <2>2 DEF Recursion
<1>4. PICK g \in [D -> W] : H[g] = g
  <2> HIDE DEF D, W, m, H
  <2>1. QED
    BY <1>3, FixedPoint
<1>5. g = [i \in D |-> IF i = 1 THEN ss[i] ELSE g[i - 1] \o ss[i]]
  BY <1>4
<1>6. f = [i \in D |-> IF i = 1 THEN ss[i] ELSE f[i - 1] \o ss[i]]
  BY <1>5
<1>7. FlattenSeq(ss) = IF Len(ss) = 0 THEN ss ELSE f[Len(ss)]
  BY DEF FlattenSeq
<1> HIDE DEF f
<1> DEFINE P == {n \in Nat : n \in D => f[n] \in W /\ Flattens(f[n], ss, 1..n)}
<1>8. 0 \in P
  OBVIOUS
<1>9. ASSUME NEW n \in Nat, n \in P PROVE n + 1 \in P
  <2>1. SUFFICES ASSUME n + 1 \in D PROVE f[n + 1] \in W /\ Flattens(f[n + 1], ss, 1..(n + 1))
    OBVIOUS
  <2>2. CASE n = 0
    <3>1. f[1] = ss[1] /\ ss[1] \in W /\ 1 \in D
      BY <1>1, <1>6, <2>1, <2>2
    <3>2. PICK t \in Seq(U) : t = ss[1]
      BY <3>1
    <3>3. Flattens(t, ss, 1..1)
      <4> DEFINE row == [a \in DOMAIN t |-> 1]
                 col == [a \in DOMAIN t |-> a]
      <4>1. DOMAIN t = 1..Len(t) /\ Len(t) \in Nat
        OBVIOUS
      <4>2. row \in [DOMAIN t -> 1..1] /\ col \in [DOMAIN t -> Nat]
        BY <4>1
      <4>3. /\ \A a \in DOMAIN t : col[a] \in DOMAIN ss[row[a]] /\ t[a] = ss[row[a]][col[a]]
            /\ \A a, b \in DOMAIN t : row[a] = row[b] /\ col[a] = col[b] => a = b
        BY <3>2
      <4>4. \A k \in 1..1 : \A h \in DOMAIN ss[k] :
              \E a \in DOMAIN t : row[a] = k /\ col[a] = h
        <5>1. ASSUME NEW k \in 1..1, NEW h \in DOMAIN ss[k]
              PROVE  h \in DOMAIN t /\ row[h] = k /\ col[h] = h
          <6>1. k = 1
            BY <5>1
          <6>2. QED
            BY <3>2, <6>1
        <5>2. QED
          BY <5>1
      <4> HIDE DEF row, col
      <4>5. FlattensBy(t, ss, 1..1, row, col)
        BY <4>2, <4>3, <4>4 DEF FlattensBy
      <4>6. QED
        BY <4>5 DEF Flattens
    <3>4. QED
      BY <2>2, <3>1, <3>2, <3>3
  <2>3. CASE n # 0
    <3>1. n \in D /\ f[n] \in Seq(U) /\ Flattens(f[n], ss, 1..n)
      BY <1>9, <2>1, <2>3
    <3>2. f[n + 1] = f[n] \o ss[n + 1]
      <4>1. (n + 1) - 1 = n /\ n + 1 # 1
        BY <2>3
      <4>2. QED
        BY <1>6, <2>1, <4>1
    <3>3. n + 1 \in DOMAIN ss /\ ss[n + 1] \in Seq(U)
      BY <2>1
    <3>4. f[n] \o ss[n + 1] \in Seq(U)
      BY <3>1, <3>3
    <3>5. Flattens(f[n] \o ss[n + 1], ss, 1..(n + 1))
      BY <3>1, <3>3, FlattensMore
    <3>6. QED
      BY <3>2, <3>4, <3>5
  <2>4. QED
    BY <2>2, <2>3
<1>10. \A n \in Nat : n \in P
  <2> HIDE DEF P
  <2>1. QED
    BY <1>8, <1>9, Induction
<1>11. CASE Len(ss) = 0
  <2>1. FlattenSeq(ss) = <<>> /\ DOMAIN ss = {} /\ <<>> \in Seq(U)
    BY <1>7, <1>11
  <2>2. << >> \in [DOMAIN << >> -> {}] /\ << >> \in [DOMAIN << >> -> Nat]
    OBVIOUS
  <2>3. Flattens(<<>>, ss, {})
    <3>1. FlattensBy(<<>>, ss, {}, << >>, << >>)
      BY <2>2 DEF FlattensBy
    <3>2. QED
      BY <3>1 DEF Flattens
  <2>4. QED
    BY <2>1, <2>3
<1>12. CASE Len(ss) # 0
  <2>1. Len(ss) \in D /\ Len(ss) \in Nat /\ DOMAIN ss = 1..Len(ss)
    BY <1>12
  <2>2. QED
    BY <1>7, <1>10, <1>12, <2>1
<1>13. QED
  BY <1>11, <1>12

-----------------------------------------------------------------------------
(* The least and the greatest.                                             *)

(* A set of numbers has a least one.                                       *)
LEMMA LeastNat ==
  ASSUME NEW S, S \subseteq Nat, S # {}
  PROVE  \E x \in S : \A y \in S : x <= y
<1>1. IsWellFoundedOn(OpToRel(<, Nat), Nat)
  BY NatLessThanWellFounded
<1>2. PICK x \in S : \A y \in S : ~ (<<y, x>> \in OpToRel(<, Nat))
  BY <1>1, WFMin
<1>3. \A y \in S : ~(y < x)
  BY <1>2 DEF OpToRel
<1>4. QED
  BY <1>3

(* Min is the least member of a set that is bounded below, ...             *)
LEMMA MinIs ==
  ASSUME NEW S, NEW a \in Int, S \subseteq Int, S # {}, \A x \in S : a <= x
  PROVE  Min(S) \in S /\ \A y \in S : Min(S) <= y
<1> DEFINE T == {x - a : x \in S}
<1>1. T \subseteq Nat /\ T # {}
  <2>1. \A x \in S : x - a \in Nat
    OBVIOUS
  <2>2. QED
    BY <2>1
<1>2. PICK t \in T : \A y \in T : t <= y
  <2> HIDE DEF T
  <2>1. QED
    BY <1>1, LeastNat
<1>3. PICK x \in S : t = x - a
  BY <1>2
<1>4. \A y \in S : x <= y
  <2>1. ASSUME NEW y \in S PROVE x <= y
    <3>1. y - a \in T
      OBVIOUS
    <3>2. x - a <= y - a
      BY <1>2, <1>3, <3>1
    <3>3. QED
      BY <3>2
  <2>2. QED
    BY <2>1
<1>5. QED
  BY <1>3, <1>4 DEF Min

(* ... Max the greatest of one that is bounded above.                      *)
LEMMA MaxIs ==
  ASSUME NEW S, NEW a \in Int, S \subseteq Int, S # {}, \A x \in S : x <= a
  PROVE  Max(S) \in S /\ \A y \in S : Max(S) >= y
<1> DEFINE T == {a - x : x \in S}
<1>1. T \subseteq Nat /\ T # {}
  <2>1. \A x \in S : a - x \in Nat
    OBVIOUS
  <2>2. QED
    BY <2>1
<1>2. PICK t \in T : \A y \in T : t <= y
  <2> HIDE DEF T
  <2>1. QED
    BY <1>1, LeastNat
<1>3. PICK x \in S : t = a - x
  BY <1>2
<1>4. \A y \in S : x >= y
  <2>1. ASSUME NEW y \in S PROVE x >= y
    <3>1. a - y \in T
      OBVIOUS
    <3>2. a - x <= a - y
      BY <1>2, <1>3, <3>1
    <3>3. QED
      BY <3>2
  <2>2. QED
    BY <2>1
<1>5. QED
  BY <1>3, <1>4 DEF Max

(* The lesser ...                                                          *)
LEMMA MinOfTwo ==
  ASSUME NEW a \in Int, NEW b \in Int
  PROVE  Min({a, b}) = IF a <= b THEN a ELSE b
<1> DEFINE c == IF a <= b THEN a ELSE b
<1>1. c \in {a, b} /\ \A y \in {a, b} : c <= y
  OBVIOUS
<1>2. \A x \in {a, b} : (\A y \in {a, b} : x <= y) => x = c
  OBVIOUS
<1> HIDE DEF c
<1>3. Min({a, b}) = c
  BY <1>1, <1>2 DEF Min
<1>4. QED
  BY <1>3 DEF c

(* ... and the greater of two numbers.                                     *)
LEMMA MaxOfTwo ==
  ASSUME NEW a \in Int, NEW b \in Int
  PROVE  Max({a, b}) = IF a >= b THEN a ELSE b
<1> DEFINE c == IF a >= b THEN a ELSE b
<1>1. c \in {a, b} /\ \A y \in {a, b} : c >= y
  OBVIOUS
<1>2. \A x \in {a, b} : (\A y \in {a, b} : x >= y) => x = c
  OBVIOUS
<1> HIDE DEF c
<1>3. Max({a, b}) = c
  BY <1>1, <1>2 DEF Max
<1>4. QED
  BY <1>3 DEF c

-----------------------------------------------------------------------------
(* Splitting.                                                              *)

IsText(t) == t.len \in Nat /\ t.lines \subseteq Nat

Context(max) == Min({ContextCap, max \div 8})

(* A core with the context on both sides fits a part.                      *)
LEMMA CoreCharsIs ==
  ASSUME NEW max \in Nat \ {0}
  PROVE  /\ Context(max) \in Nat
         /\ CoreChars(max) \in Nat \ {0}
         /\ CoreChars(max) + 2 * Context(max) <= max
<1>1. ContextCap \in Nat
  BY PromptConstants
<1>2. PICK e \in Nat : e = max \div 8 /\ 8 * e <= max
  OBVIOUS
<1>3. Context(max) = IF ContextCap <= e THEN ContextCap ELSE e
  BY <1>1, <1>2, MinOfTwo DEF Context
<1>4. Context(max) \in Nat /\ max - 2 * Context(max) >= 1
  BY <1>1, <1>2, <1>3
<1>5. CoreChars(max) = max - 2 * Context(max)
  <2>1. CoreChars(max) = Max({1, max - 2 * Context(max)})
    BY DEF CoreChars, Context
  <2>2. QED
    BY <1>4, <2>1, MaxOfTwo
<1>6. QED
  BY <1>4, <1>5

(* Every core has a character and at most CoreChars.                       *)
LEMMA CoreEndIs ==
  ASSUME NEW text, IsText(text), NEW max \in Nat \ {0}, NEW s \in 0..(text.len - 1)
  PROVE  /\ CoreEnd(text, s, max) \in (s + 1)..text.len
         /\ CoreEnd(text, s, max) <= s + CoreChars(max)
<1>1. PICK c \in Nat \ {0} : c = CoreChars(max)
  BY CoreCharsIs
<1>2. PICK len \in Nat : len = text.len /\ s \in Nat /\ s < len
  BY DEF IsText
<1>3. PICK p \in Nat : p = Min({text.len, s + CoreChars(max)})
  BY <1>1, <1>2, MinOfTwo
<1>4. s < p /\ p <= len /\ p <= s + c
  BY <1>1, <1>2, <1>3, MinOfTwo
<1> DEFINE breaks == {n \in text.lines : s <= n /\ n < p}
<1>5. CoreEnd(text, s, max) = IF p < text.len /\ breaks # {} THEN Max(breaks) + 1 ELSE p
  BY <1>3 DEF CoreEnd
<1>6. ASSUME breaks # {}
      PROVE  Max(breaks) \in Nat /\ s <= Max(breaks) /\ Max(breaks) < p
  <2>1. breaks \subseteq Int /\ \A x \in breaks : x <= p
    BY <1>3 DEF IsText
  <2> HIDE DEF breaks
  <2>2. Max(breaks) \in breaks
    <3>1. p \in Int /\ breaks # {}
      BY <1>3, <1>6
    <3>2. QED
      BY ONLY <2>1, <3>1, MaxIs
  <2>3. QED
    BY <2>2 DEF breaks, IsText
<1> HIDE DEF breaks
<1>7. CASE p < text.len /\ breaks # {}
  <2>1. CoreEnd(text, s, max) = Max(breaks) + 1
    BY <1>5, <1>7
  <2>2. PICK b \in Nat : b = Max(breaks) /\ s <= b /\ b < p
    BY <1>6, <1>7
  <2>3. QED
    BY <1>1, <1>2, <1>3, <1>4, <2>1, <2>2
<1>8. CASE ~(p < text.len /\ breaks # {})
  BY <1>1, <1>2, <1>3, <1>4, <1>5, <1>8
<1>9. QED
  BY <1>7, <1>8

(* A part has the core it was made for and keeps to the limit.             *)
LEMMA PartAroundIs ==
  ASSUME NEW text, IsText(text), NEW max \in Nat \ {0},
         NEW s \in Nat, NEW e \in Nat, s <= e, e <= text.len, e <= s + CoreChars(max)
  PROVE  LET part == PartAround(text, s, e, max)
         IN  /\ part.core = <<s, e>>
             /\ part.first \in Nat /\ part.last \in Nat
             /\ part.last - part.first \in 0..max
<1> DEFINE c == Context(max)
           low == Max({0, s - c})
           high == Min({text.len, e + c})
           after == {n \in text.lines : low <= n /\ n < s}
           before == {n \in text.lines : e <= n /\ n < high}
           first == IF low > 0 /\ after # {} THEN Min(after) + 1 ELSE low
           last == IF high < text.len /\ before # {} THEN Max(before) + 1 ELSE high
<1>1. PartAround(text, s, e, max) = [core |-> <<s, e>>, first |-> first, last |-> last]
  BY DEF PartAround, Context
<1>2. c \in Nat /\ CoreChars(max) \in Nat /\ CoreChars(max) + 2 * c <= max
  BY CoreCharsIs
<1> HIDE DEF c
<1>3. text.len \in Nat /\ text.lines \subseteq Nat
  BY DEF IsText
<1>4. low \in Nat /\ low <= s /\ s - c <= low
  BY <1>2, MaxOfTwo
<1>5. high \in Nat /\ e <= high /\ high <= e + c
  BY <1>2, <1>3, MinOfTwo
<1> HIDE DEF low, high
<1>6. first \in low..s
  <2>1. CASE low > 0 /\ after # {}
    <3>1. after \subseteq Int /\ \A x \in after : low <= x
      BY <1>3, <1>4
    <3> HIDE DEF after
    <3>2. Min(after) \in after
      <4>1. low \in Int /\ after # {}
        BY <1>4, <2>1
      <4>2. QED
        BY ONLY <3>1, <4>1, MinIs
    <3>3. Min(after) \in Nat /\ low <= Min(after) /\ Min(after) < s
      BY <1>3, <3>2 DEF after
    <3>4. QED
      BY <1>4, <2>1, <3>3
  <2>2. CASE ~(low > 0 /\ after # {})
    <3>1. first = low
      BY <2>2
    <3>2. QED
      BY <1>4, <3>1
  <2>3. QED
    BY <2>1, <2>2
<1>7. last \in e..high
  <2>1. CASE high < text.len /\ before # {}
    <3>1. before \subseteq Int /\ \A x \in before : x <= high
      BY <1>3, <1>5
    <3> HIDE DEF before
    <3>2. Max(before) \in before
      <4>1. high \in Int /\ before # {}
        BY <1>5, <2>1
      <4>2. QED
        BY ONLY <3>1, <4>1, MaxIs
    <3>3. Max(before) \in Nat /\ e <= Max(before) /\ Max(before) < high
      BY <1>3, <3>2 DEF before
    <3>4. QED
      BY <1>5, <2>1, <3>3
  <2>2. CASE ~(high < text.len /\ before # {})
    <3>1. last = high
      BY <2>2
    <3>2. QED
      BY <1>5, <3>1
  <2>3. QED
    BY <2>1, <2>2
<1> HIDE DEF first, last
<1>8. first \in Nat /\ last \in Nat /\ last - first \in 0..max
  BY <1>2, <1>4, <1>5, <1>6, <1>7
<1>9. QED
  BY <1>1, <1>8

Piece == [core : Nat \X Nat, first : Nat, last : Nat]

Has(part, p) == part.core[1] <= p /\ p < part.core[2]

(* The cores in r hold the characters from lo to hi, each once; no part is *)
(* longer than max.                                                        *)
Covers(r, lo, hi, max) ==
  /\ r \in Seq(Piece)
  /\ \A q \in DOMAIN r : lo <= r[q].core[1] /\ r[q].last - r[q].first \in 0..max
  /\ \A p \in lo..(hi - 1) :
       \E q \in DOMAIN r : Has(r[q], p) /\ \A o \in DOMAIN r : Has(r[o], p) => o = q

(* A sequence with one element put in front of it.                         *)
LEMMA ConsIs ==
  ASSUME NEW U, NEW x \in U, NEW r \in Seq(U)
  PROVE  /\ <<x>> \o r \in Seq(U)
         /\ Len(<<x>> \o r) = Len(r) + 1
         /\ DOMAIN (<<x>> \o r) = 1..(Len(r) + 1)
         /\ (<<x>> \o r)[1] = x
         /\ \A q \in DOMAIN r : q + 1 \in 1..(Len(r) + 1) /\ (<<x>> \o r)[q + 1] = r[q]
         /\ \A o \in 1..(Len(r) + 1) :
              \/ o = 1
              \/ o # 1 /\ o - 1 \in DOMAIN r /\ (<<x>> \o r)[o] = r[o - 1]
<1>1. <<x>> \in Seq(U) /\ Len(<<x>>) = 1 /\ <<x>>[1] = x
  OBVIOUS
<1>2. Len(r) \in Nat /\ DOMAIN r = 1..Len(r)
  OBVIOUS
<1>3. PICK y \in Seq(U) : y = <<x>>
  BY <1>1
<1>4. y \o r \in Seq(U) /\ Len(y \o r) = 1 + Len(r)
  BY <1>1, <1>3
<1>5. \A o \in 1..(1 + Len(r)) : (y \o r)[o] = IF o <= 1 THEN y[o] ELSE r[o - 1]
  BY <1>1, <1>2, <1>3
<1>6. QED
  BY <1>1, <1>2, <1>3, <1>4, <1>5

(* The positions of a piece are numbers.                                   *)
LEMMA PieceIs ==
  ASSUME NEW x \in Piece
  PROVE  x.core[1] \in Nat /\ x.core[2] \in Nat /\ x.first \in Nat /\ x.last \in Nat
<1>1. x.core \in Nat \X Nat /\ x.first \in Nat /\ x.last \in Nat
  BY DEF Piece
<1>2. QED
  BY <1>1

(* A piece in front of pieces that continue it.                            *)
LEMMA CoversCons ==
  ASSUME NEW s \in Nat, NEW e \in Nat, NEW hi \in Nat, s < e, e <= hi, NEW max \in Nat,
         NEW x \in Piece, x.core = <<s, e>>, x.last - x.first \in 0..max,
         NEW r, Covers(r, e, hi, max)
  PROVE  Covers(<<x>> \o r, s, hi, max)
<1>1. /\ r \in Seq(Piece)
      /\ \A q \in DOMAIN r : e <= r[q].core[1] /\ r[q].last - r[q].first \in 0..max
      /\ \A p \in e..(hi - 1) :
           \E q \in DOMAIN r : Has(r[q], p) /\ \A o \in DOMAIN r : Has(r[o], p) => o = q
  BY DEF Covers
<1>2. PICK t \in Seq(Piece) : t = <<x>> \o r
  <2>1. <<x>> \o r \in Seq(Piece)
    BY <1>1, ConsIs
  <2>2. QED
    BY <2>1, Zenon
<1>3. /\ Len(r) \in Nat /\ DOMAIN r = 1..Len(r) /\ DOMAIN t = 1..(Len(r) + 1)
      /\ t[1] = x
      /\ \A q \in DOMAIN r : q + 1 \in 1..(Len(r) + 1) /\ t[q + 1] = r[q]
      /\ \A o \in 1..(Len(r) + 1) :
           \/ o = 1
           \/ o # 1 /\ o - 1 \in DOMAIN r /\ t[o] = r[o - 1]
  BY <1>1, <1>2, ConsIs
<1>4. /\ \A p \in s..(e - 1) : Has(x, p)
      /\ \A p \in e..(hi - 1) : ~Has(x, p)
      /\ x.core[1] = s
  BY DEF Has
<1>0. \A q \in DOMAIN r : r[q].core[1] \in Nat /\ r[q].core[2] \in Nat
  <2>1. \A q \in DOMAIN r : r[q] \in Piece
    BY <1>1
  <2>2. QED
    BY <2>1, PieceIs
<1>5. \A q \in DOMAIN t : s <= t[q].core[1] /\ t[q].last - t[q].first \in 0..max
  <2>1. \A q \in DOMAIN r : s <= r[q].core[1]
    BY <1>0, <1>1
  <2>2. ASSUME NEW q \in DOMAIN t
        PROVE  s <= t[q].core[1] /\ t[q].last - t[q].first \in 0..max
    <3>1. CASE q = 1
      BY <1>3, <1>4, <3>1
    <3>2. CASE q # 1
      <4>1. q - 1 \in DOMAIN r /\ t[q] = r[q - 1]
        BY <1>3, <3>2
      <4>2. QED
        BY <1>1, <2>1, <4>1
    <3>3. QED
      BY <3>1, <3>2
  <2>3. QED
    BY <2>2
<1>6. ASSUME NEW p \in s..(hi - 1)
      PROVE  \E q \in DOMAIN t : Has(t[q], p) /\ \A o \in DOMAIN t : Has(t[o], p) => o = q
  <2>1. CASE p < e
    <3>1. \A q \in DOMAIN r : ~Has(r[q], p)
      <4>1. \A q \in DOMAIN r : r[q].core[1] \in Nat /\ e <= r[q].core[1]
        BY <1>0, <1>1
      <4>2. QED
        BY <2>1, <4>1 DEF Has
    <3>2. Has(x, p)
      BY <1>4, <2>1
    <3>3. 1 \in DOMAIN t /\ Has(t[1], p) /\ \A o \in DOMAIN t : Has(t[o], p) => o = 1
      BY <1>3, <3>1, <3>2
    <3>4. QED
      BY <3>3
  <2>2. CASE p >= e
    <3>1. p \in e..(hi - 1)
      BY <2>2
    <3>2. PICK q \in DOMAIN r : Has(r[q], p) /\ \A o \in DOMAIN r : Has(r[o], p) => o = q
      BY <1>1, <3>1
    <3>3. q + 1 \in DOMAIN t /\ Has(t[q + 1], p)
      BY <1>3, <3>2
    <3>4. ASSUME NEW o \in DOMAIN t, Has(t[o], p) PROVE o = q + 1
      <4>1. o # 1
        BY <1>3, <1>4, <3>1, <3>4
      <4>2. o - 1 \in DOMAIN r /\ Has(r[o - 1], p)
        BY <1>3, <3>4, <4>1
      <4>3. o - 1 = q
        BY <3>2, <4>2
      <4>4. QED
        BY <1>3, <4>3
    <3>5. QED
      BY <3>3, <3>4
  <2>3. QED
    BY <2>1, <2>2
<1>7. Covers(t, s, hi, max)
  BY <1>5, <1>6 DEF Covers
<1>8. QED
  BY <1>2, <1>7

(* Splitting loses no character of a text and puts none into two cores,    *)
(* and every part keeps to the limit.                                      *)
LEMMA SplitCovers ==
  ASSUME NEW text, IsText(text), NEW max \in Nat \ {0}
  PROVE  Covers(SplitEvidenceItem(text, max), 0, text.len, max)
<1>1. text.len \in Nat
  BY DEF IsText
<1> DEFINE D == 0..text.len
           W == Seq(Piece)
           End(s) == CoreEnd(text, s, max)
           H == [g \in [D -> W] |-> [s \in D |->
                   IF s = text.len THEN <<>>
                   ELSE <<PartAround(text, s, End(s), max)>> \o g[End(s)]]]
           m == [s \in D |-> text.len - s]
           f == CHOOSE g : g = [s \in D |->
                   IF s = text.len THEN <<>>
                   ELSE <<PartAround(text, s, End(s), max)>> \o g[End(s)]]
<1>2. ASSUME NEW s \in D, s # text.len
      PROVE  /\ End(s) \in D /\ s < End(s)
             /\ PartAround(text, s, End(s), max) \in Piece
             /\ PartAround(text, s, End(s), max).core = <<s, End(s)>>
             /\ PartAround(text, s, End(s), max).last
                  - PartAround(text, s, End(s), max).first \in 0..max
  <2>1. s \in 0..(text.len - 1) /\ s \in Nat
    BY <1>1, <1>2
  <2>2. End(s) \in (s + 1)..text.len /\ End(s) <= s + CoreChars(max)
    BY <2>1, CoreEndIs
  <2>3. PICK e \in Nat : e = End(s) /\ s < e /\ e <= text.len /\ e <= s + CoreChars(max)
    BY <1>1, <2>1, <2>2
  <2>4. /\ PartAround(text, s, e, max).core = <<s, e>>
        /\ PartAround(text, s, e, max).first \in Nat
        /\ PartAround(text, s, e, max).last \in Nat
        /\ PartAround(text, s, e, max).last - PartAround(text, s, e, max).first \in 0..max
    <3>1. s <= e
      BY <2>3
    <3>2. QED
      BY <2>1, <2>3, <3>1, PartAroundIs
  <2>5. PartAround(text, s, e, max) \in Piece
    <3>1. \E a, b : PartAround(text, s, e, max) = [core |-> <<s, e>>, first |-> a, last |-> b]
      BY DEF PartAround
    <3>2. PICK a, b : PartAround(text, s, e, max) = [core |-> <<s, e>>, first |-> a, last |-> b]
      BY <3>1
    <3>3. a \in Nat /\ b \in Nat
      BY <2>4, <3>2
    <3>4. QED
      BY <2>1, <3>2, <3>3 DEF Piece
  <2>6. QED
    BY <1>1, <2>1, <2>3, <2>4, <2>5
<1> HIDE DEF End
<1>3. H \in [[D -> W] -> [D -> W]]
  <2>1. ASSUME NEW g \in [D -> W], NEW s \in D, s # text.len
        PROVE  <<PartAround(text, s, End(s), max)>> \o g[End(s)] \in W
    <3>1. g[End(s)] \in W /\ PartAround(text, s, End(s), max) \in Piece
      BY <1>2, <2>1
    <3>2. QED
      BY <3>1, ConsIs
  <2>2. <<>> \in W
    OBVIOUS
  <2> HIDE DEF D, W
  <2>3. QED
    BY <2>1, <2>2
<1>4. Recursion(D, W, m, H)
  <2>1. W # {} /\ m \in [D -> Nat]
    <3>1. <<>> \in W /\ \A s \in D : text.len - s \in Nat
      BY <1>1
    <3>2. QED
      BY <3>1
  <2>2. ASSUME NEW g \in [D -> W], NEW h \in [D -> W], NEW s \in D,
               \A j \in D : m[j] < m[s] => g[j] = h[j]
        PROVE  H[g][s] = H[h][s]
    <3>1. s # text.len => g[End(s)] = h[End(s)]
      <4>1. s # text.len => End(s) \in D /\ m[End(s)] < m[s]
        BY <1>1, <1>2
      <4>2. QED
        BY <2>2, <4>1
    <3>2. QED
      BY <3>1
  <2> HIDE DEF D, W, m, H
  <2>3. QED
    BY <1>3, <2>1, <2>2 DEF Recursion
<1>5. PICK g \in [D -> W] : H[g] = g
  <2> HIDE DEF D, W, m, H
  <2>1. QED
    BY <1>4, FixedPoint
<1>6. g = [s \in D |->
             IF s = text.len THEN <<>>
             ELSE <<PartAround(text, s, End(s), max)>> \o g[End(s)]]
  BY <1>5
<1>7. f = [s \in D |->
             IF s = text.len THEN <<>>
             ELSE <<PartAround(text, s, End(s), max)>> \o f[End(s)]]
  BY <1>6
<1>8. SplitEvidenceItem(text, max) =
        IF text.len <= max THEN <<[core |-> <<0, text.len>>, first |-> 0, last |-> text.len]>>
        ELSE f[0]
  BY DEF SplitEvidenceItem, End
<1> HIDE DEF f
<1> DEFINE P == {n \in Nat : n <= text.len => Covers(f[text.len - n], text.len - n, text.len, max)}
<1>9. ASSUME NEW n \in Nat, \A k \in 0..(n - 1) : k \in P PROVE n \in P
  <2>1. SUFFICES ASSUME n <= text.len
                 PROVE  Covers(f[text.len - n], text.len - n, text.len, max)
    OBVIOUS
  <2>2. PICK s \in D : s = text.len - n
    BY <1>1, <2>1
  <2>3. CASE s = text.len
    <3>1. f[s] = <<>>
      BY <1>7, <2>3
    <3>2. Covers(<<>>, text.len, text.len, max)
      BY <1>1 DEF Covers
    <3>3. QED
      BY <2>2, <2>3, <3>1, <3>2
  <2>4. CASE s # text.len
    <3>1. PICK e \in Nat : e = End(s) /\ e \in D /\ s < e /\ s \in Nat /\ e <= text.len
      BY <1>1, <1>2, <2>4
    <3>2. Covers(f[e], e, text.len, max)
      <4>1. text.len - e \in 0..(n - 1) /\ text.len - (text.len - e) = e /\ text.len - e <= text.len
        BY <1>1, <2>2, <3>1
      <4>2. text.len - e \in P
        BY <1>9, <4>1
      <4>3. QED
        BY <4>1, <4>2
    <3>3. f[s] = <<PartAround(text, s, e, max)>> \o f[e]
      BY <1>7, <2>4, <3>1
    <3>4. /\ PartAround(text, s, e, max) \in Piece
          /\ PartAround(text, s, e, max).core = <<s, e>>
          /\ PartAround(text, s, e, max).last - PartAround(text, s, e, max).first \in 0..max
      BY <1>2, <2>4, <3>1
    <3>5. Covers(<<PartAround(text, s, e, max)>> \o f[e], s, text.len, max)
      BY <1>1, <3>1, <3>2, <3>4, CoversCons
    <3>6. QED
      BY <2>2, <3>3, <3>5
  <2>5. QED
    BY <2>3, <2>4
<1>10. \A n \in Nat : n \in P
  <2> HIDE DEF P
  <2>1. QED
    BY <1>9, CompleteInduction
<1>11. Covers(f[0], 0, text.len, max)
  <2>1. text.len \in P /\ text.len - text.len = 0 /\ text.len <= text.len
    BY <1>1, <1>10
  <2>2. QED
    BY <2>1
<1>12. ASSUME text.len <= max
       PROVE  Covers(<<[core |-> <<0, text.len>>, first |-> 0, last |-> text.len]>>,
                     0, text.len, max)
  <2> DEFINE x == [core |-> <<0, text.len>>, first |-> 0, last |-> text.len]
  <2>1. x \in Piece /\ x.core = <<0, text.len>> /\ x.core[1] = 0 /\ x.last - x.first \in 0..max
    BY <1>1, <1>12 DEF Piece
  <2>2. \A p \in 0..(text.len - 1) : Has(x, p)
    BY <1>1 DEF Has
  <2> HIDE DEF x
  <2>3. <<x>> \in Seq(Piece) /\ DOMAIN <<x>> = {1} /\ <<x>>[1] = x
    BY <2>1
  <2>4. Covers(<<x>>, 0, text.len, max)
    BY <2>1, <2>2, <2>3 DEF Covers
  <2>5. QED
    BY <2>4 DEF x
<1>13. QED
  BY <1>8, <1>11, <1>12

-----------------------------------------------------------------------------
(* Packing.                                                                *)

(* One more sequence in front.                                             *)
LEMMA FlattensCons ==
  ASSUME NEW U, NEW ss \in Seq(Seq(U)), NEW r \in Seq(U), Flattens(r, ss, DOMAIN ss),
         NEW a \in Seq(U), NEW u \in Seq(U), Len(u) = Len(a) + Len(r),
         \A i \in DOMAIN a : u[i] = a[i],
         \A i \in DOMAIN r : u[Len(a) + i] = r[i]
  PROVE  Flattens(u, <<a>> \o ss, DOMAIN (<<a>> \o ss))
<1>1. PICK row, col : FlattensBy(r, ss, DOMAIN ss, row, col)
  BY DEF Flattens
<1>2. /\ row \in [DOMAIN r -> DOMAIN ss] /\ col \in [DOMAIN r -> Nat]
      /\ \A i \in DOMAIN r : col[i] \in DOMAIN ss[row[i]] /\ r[i] = ss[row[i]][col[i]]
      /\ \A i, j \in DOMAIN r : row[i] = row[j] /\ col[i] = col[j] => i = j
      /\ \A k \in DOMAIN ss : \A h \in DOMAIN ss[k] : \E i \in DOMAIN r : row[i] = k /\ col[i] = h
  BY <1>1 DEF FlattensBy
<1>3. PICK L \in Nat : L = Len(a) /\ DOMAIN a = 1..L
  OBVIOUS
<1>4. PICK M \in Nat : M = Len(r) /\ DOMAIN r = 1..M
  OBVIOUS
<1>5. PICK N \in Nat : N = Len(ss) /\ DOMAIN ss = 1..N
  OBVIOUS
<1>6. DOMAIN u = 1..(L + M)
  BY <1>3, <1>4
<1>7. PICK t : t = <<a>> \o ss
  OBVIOUS
<1>8. /\ DOMAIN t = 1..(N + 1) /\ t[1] = a
      /\ \A k \in 1..N : k + 1 \in 1..(N + 1) /\ t[k + 1] = ss[k]
      /\ \A k \in 1..(N + 1) : k = 1 \/ (k # 1 /\ k - 1 \in 1..N /\ t[k] = ss[k - 1])
  BY <1>5, <1>7, ConsIs
<1> DEFINE nrow == [i \in 1..(L + M) |-> IF i \in 1..L THEN 1 ELSE row[i - L] + 1]
           ncol == [i \in 1..(L + M) |-> IF i \in 1..L THEN i ELSE col[i - L]]
<1>9. ASSUME NEW i \in 1..(L + M)
      PROVE  \/ i \in 1..L /\ nrow[i] = 1 /\ ncol[i] = i
             \/ \E j \in 1..M : /\ i = L + j /\ row[j] \in 1..N /\ nrow[i] = row[j] + 1
                                /\ ncol[i] = col[j] /\ col[j] \in Nat
  <2>1. CASE i \in 1..L
    BY <2>1
  <2>2. CASE i \notin 1..L
    <3>1. PICK j \in 1..M : j = i - L /\ i = L + j
      BY <2>2
    <3>2. row[j] \in 1..N /\ col[j] \in Nat
      BY <1>2, <1>4, <1>5, <3>1
    <3>3. nrow[i] = row[j] + 1 /\ ncol[i] = col[j]
      BY <2>2, <3>1
    <3>4. QED
      BY <3>1, <3>2, <3>3
  <2>3. QED
    BY <2>1, <2>2
<1>10. \A i \in 1..L : i \in 1..(L + M) /\ nrow[i] = 1 /\ ncol[i] = i
  OBVIOUS
<1>11. \A j \in 1..M : L + j \in 1..(L + M) /\ nrow[L + j] = row[j] + 1 /\ ncol[L + j] = col[j]
  <2>1. \A j \in 1..M : L + j \in 1..(L + M) /\ L + j \notin 1..L /\ (L + j) - L = j
    OBVIOUS
  <2>2. QED
    BY <2>1
<1>12. nrow \in [DOMAIN u -> DOMAIN t] /\ ncol \in [DOMAIN u -> Nat]
  <2>1. ASSUME NEW i \in 1..(L + M) PROVE nrow[i] \in 1..(N + 1) /\ ncol[i] \in Nat
    <3> HIDE DEF nrow, ncol
    <3>1. CASE i \in 1..L
      BY <1>10, <3>1
    <3>2. CASE i \notin 1..L
      <4>1. PICK j \in 1..M : /\ row[j] \in 1..N /\ nrow[i] = row[j] + 1
                              /\ ncol[i] = col[j] /\ col[j] \in Nat
        BY <1>9, <3>2
      <4>2. QED
        BY <4>1
    <3>3. QED
      BY <3>1, <3>2
  <2>2. QED
    BY <1>6, <1>8, <2>1
<1> HIDE DEF nrow, ncol
<1>13. ASSUME NEW i \in DOMAIN u
       PROVE  ncol[i] \in DOMAIN t[nrow[i]] /\ u[i] = t[nrow[i]][ncol[i]]
  <2>1. CASE i \in 1..L
    BY <1>3, <1>8, <1>10, <2>1
  <2>2. CASE i \notin 1..L
    <3>1. PICK j \in 1..M : /\ i = L + j /\ row[j] \in 1..N /\ nrow[i] = row[j] + 1
                            /\ ncol[i] = col[j]
      BY <1>6, <1>9, <2>2
    <3>2. t[nrow[i]] = ss[row[j]] /\ u[i] = r[j]
      BY <1>3, <1>4, <1>8, <3>1
    <3>3. col[j] \in DOMAIN ss[row[j]] /\ r[j] = ss[row[j]][col[j]]
      BY <1>2, <1>4, <3>1
    <3>4. QED
      BY ONLY <3>1, <3>2, <3>3
  <2>3. QED
    BY <2>1, <2>2
<1>14. ASSUME NEW i \in DOMAIN u, NEW j \in DOMAIN u, nrow[i] = nrow[j], ncol[i] = ncol[j]
       PROVE  i = j
  <2>1. \A k \in 1..N : k + 1 # 1
    OBVIOUS
  <2>2. CASE i \in 1..L
    <3>1. j \in 1..L
      <4>1. nrow[j] = 1
        BY <1>10, <1>14, <2>2
      <4>2. ASSUME j \notin 1..L PROVE FALSE
        <5>1. PICK y \in 1..M : row[y] \in 1..N /\ nrow[j] = row[y] + 1
          BY <1>6, <1>9, <4>2
        <5>2. QED
          BY <2>1, <4>1, <5>1
      <4>3. QED
        BY <4>2
    <3>2. QED
      BY <1>10, <1>14, <2>2, <3>1
  <2>3. CASE i \notin 1..L
    <3>1. PICK x \in 1..M : i = L + x /\ row[x] \in 1..N /\ nrow[i] = row[x] + 1 /\ ncol[i] = col[x]
      BY <1>6, <1>9, <2>3
    <3>2. j \notin 1..L
      BY <1>10, <1>14, <2>1, <3>1
    <3>3. PICK y \in 1..M : j = L + y /\ row[y] \in 1..N /\ nrow[j] = row[y] + 1 /\ ncol[j] = col[y]
      BY <1>6, <1>9, <3>2
    <3>4. row[x] = row[y] /\ col[x] = col[y]
      BY <1>14, <3>1, <3>3
    <3>5. x = y
      BY <1>2, <1>4, <3>4
    <3>6. QED
      BY <3>1, <3>3, <3>5
  <2>4. QED
    BY <2>2, <2>3
<1>15. ASSUME NEW k \in DOMAIN t, NEW h \in DOMAIN t[k]
       PROVE  \E i \in DOMAIN u : nrow[i] = k /\ ncol[i] = h
  <2>1. CASE k = 1
    <3>1. h \in 1..L
      BY <1>3, <1>8, <2>1
    <3>2. QED
      BY <1>6, <1>10, <2>1, <3>1
  <2>2. CASE k # 1
    <3>1. k - 1 \in 1..N /\ t[k] = ss[k - 1] /\ k \in Int
      BY <1>8, <2>2
    <3>2. PICK j \in DOMAIN r : row[j] = k - 1 /\ col[j] = h
      BY <1>2, <1>5, <3>1
    <3>3. L + j \in DOMAIN u /\ nrow[L + j] = k /\ ncol[L + j] = h
      <4>1. j \in 1..M
        BY <1>4, <3>2
      <4>2. nrow[L + j] = (k - 1) + 1 /\ ncol[L + j] = h /\ L + j \in DOMAIN u
        BY <1>6, <1>11, <3>2, <4>1
      <4>3. (k - 1) + 1 = k
        BY <3>1
      <4>4. QED
        BY <4>2, <4>3
    <3>4. QED
      BY <3>3
  <2>3. QED
    BY <2>1, <2>2
<1>16. FlattensBy(u, t, DOMAIN t, nrow, ncol)
  BY <1>12, <1>13, <1>14, <1>15 DEF FlattensBy
<1>17. QED
  BY <1>7, <1>16 DEF Flattens

(* A number has at least one digit, a larger one no fewer, and none of     *)
(* those that packing assumes has a second.                                *)
LEMMA DigitsAre ==
  ASSUME NEW n \in Nat
  PROVE  /\ Digits(n) \in Nat /\ Digits(n) >= 1
         /\ n <= 2 => Digits(n) = 1
         /\ \A m \in Nat : m <= n => Digits(m) <= Digits(n)
<1> DEFINE P(m) == {p \in Powers : p <= m}
<1>0. PICK S \in SUBSET Nat : S = Powers /\ \A p \in S : p > 2
  <2>1. Powers \subseteq Nat \ 0..2
    BY PromptConstants
  <2>2. \A p \in Powers : p \in Nat /\ p > 2
    BY <2>1
  <2>3. QED
    BY <2>2
<1>1. \A m : IsFiniteSet(P(m))
  BY PromptConstants, FS_Subset
<1>2. \A m : Cardinality(P(m)) \in Nat
  BY <1>1, FS_CardinalityType
<1>3. \A m \in Nat : m <= n => Cardinality(P(m)) <= Cardinality(P(n))
  <2>1. ASSUME NEW m \in Nat, m <= n PROVE P(m) \subseteq P(n)
    <3>1. ASSUME NEW p \in P(m) PROVE p \in P(n)
      <4>1. p \in Powers /\ p \in Nat /\ p <= m
        BY <1>0, <3>1
      <4>2. p <= n
        BY <2>1, <4>1
      <4>3. QED
        BY <4>1, <4>2
    <3>2. QED
      BY <3>1
  <2> HIDE DEF P
  <2>2. QED
    BY <1>1, <2>1, FS_Subset
<1>4. n <= 2 => Cardinality(P(n)) = 0
  <2>1. n <= 2 => P(n) = {}
    <3>1. ASSUME n <= 2, NEW p \in P(n) PROVE FALSE
      <4>1. p \in Nat /\ p > 2 /\ p <= n
        BY <1>0, <3>1
      <4>2. QED
        BY <3>1, <4>1
    <3>2. QED
      BY <3>1
  <2>2. QED
    BY <2>1, FS_EmptySet
<1>5. \A m : Digits(m) = 1 + Cardinality(P(m))
  BY DEF Digits
<1> HIDE DEF P
<1>6. QED
  BY <1>2, <1>3, <1>4, <1>5

(* The size of a prompt is a number: that of its parts, and the digits.    *)
LEMMA PromptCharsAre ==
  ASSUME NEW parts \in Seq(Part)
  PROVE  \E size \in Nat : \A index, count :
           PromptChars(parts, index, count)
             = size + Digits(index) + Digits(index + 1) + 2 * Digits(count)
<1> DEFINE f == [p \in DOMAIN parts |-> ItemChars + parts[p].chars]
<1>1. Envelope \in Nat /\ ItemChars \in Nat
  BY PromptConstants
<1>2. \A p \in DOMAIN parts : f[p] \in Nat
  <2>1. \A p \in DOMAIN parts : parts[p].chars \in Nat
    <3>1. \A p \in DOMAIN parts : parts[p] \in Part
      OBVIOUS
    <3>2. QED
      BY <3>1 DEF Part
  <2>2. QED
    BY <1>1, <2>1
<1>3. IsFiniteSet(DOMAIN parts)
  BY FS_Interval
<1>4. DOMAIN f = DOMAIN parts
  OBVIOUS
<1>5. \A index, count :
        PromptChars(parts, index, count)
          = Envelope + Digits(index) + Digits(index + 1) + 2 * Digits(count)
              + SumFunctionOnSet(f, DOMAIN parts)
  BY <1>4 DEF PromptChars, TotalOf, SumFunction
<1> HIDE DEF f
<1>6. PICK sum \in Nat : sum = SumFunctionOnSet(f, DOMAIN parts)
  BY <1>2, <1>3, SumIsNat
<1>7. \A n : Digits(n) \in Int
  <2>1. \A n : IsFiniteSet({p \in Powers : p <= n})
    BY PromptConstants, FS_Subset
  <2>2. \A n : Cardinality({p \in Powers : p <= n}) \in Nat
    BY <2>1, FS_CardinalityType
  <2>3. ASSUME NEW n PROVE Digits(n) \in Int
    <3>1. PICK k \in Nat : k = Cardinality({p \in Powers : p <= n})
      BY <2>2
    <3>2. Digits(n) = 1 + k
      BY <3>1 DEF Digits
    <3>3. QED
      BY <3>2
  <2>4. QED
    BY <2>3
<1>8. Envelope + sum \in Nat
  BY <1>1, <1>6
<1>9. \A index, count :
        PromptChars(parts, index, count)
          = (Envelope + sum) + Digits(index) + Digits(index + 1) + 2 * Digits(count)
  <2>1. SUFFICES ASSUME NEW index, NEW count
                 PROVE PromptChars(parts, index, count)
                         = (Envelope + sum) + Digits(index) + Digits(index + 1) + 2 * Digits(count)
    OBVIOUS
  <2>2. PICK a \in Int, b \in Int, c \in Int :
          a = Digits(index) /\ b = Digits(index + 1) /\ c = Digits(count)
    BY <1>7
  <2>3. PromptChars(parts, index, count) = Envelope + a + b + 2 * c + sum
    BY <1>5, <1>6, <2>2
  <2>4. QED
    BY <1>1, <1>6, <2>2, <2>3
<1>10. QED
  BY <1>8, <1>9

LEMMA ChunkPromptCharsIsNat ==
  ASSUME NEW parts \in Seq(Part)
  PROVE  ChunkPromptChars(parts) \in Nat
<1>1. PICK size \in Nat : PromptChars(parts, 1, 2) = size + Digits(1) + Digits(1 + 1) + 2 * Digits(2)
  BY PromptCharsAre
<1>2. Digits(1) \in Nat /\ Digits(1 + 1) \in Nat /\ Digits(2) \in Nat
  BY DigitsAre
<1>3. QED
  BY <1>1, <1>2 DEF ChunkPromptChars

(* Prompt i of n is larger than it was taken to be by the digits of its    *)
(* numbers.                                                                *)
LEMMA NumbersAdd ==
  ASSUME NEW parts \in Seq(Part), NEW n \in Nat, NEW i \in 1..n
  PROVE  PromptChars(parts, i - 1, n) <= ChunkPromptChars(parts) + 4 * (Digits(n) - 1)
<1>1. PICK size \in Nat : \A index, count :
        PromptChars(parts, index, count)
          = size + Digits(index) + Digits(index + 1) + 2 * Digits(count)
  BY PromptCharsAre
<1>2. PromptChars(parts, i - 1, n)
        = size + Digits(i - 1) + Digits((i - 1) + 1) + 2 * Digits(n)
  BY <1>1
<1>3. ChunkPromptChars(parts) = size + Digits(1) + Digits(1 + 1) + 2 * Digits(2)
  BY <1>1 DEF ChunkPromptChars
<1>4. Digits(1) = 1 /\ Digits(1 + 1) = 1 /\ Digits(2) = 1
  BY DigitsAre
<1>5. /\ Digits(n) \in Nat
      /\ Digits(i - 1) \in Nat /\ Digits(i - 1) <= Digits(n)
      /\ Digits((i - 1) + 1) \in Nat /\ Digits((i - 1) + 1) <= Digits(n)
  <2>1. i - 1 \in Nat /\ i - 1 <= n /\ (i - 1) + 1 \in Nat /\ (i - 1) + 1 <= n
    OBVIOUS
  <2>2. QED
    BY <2>1, DigitsAre
<1>6. QED
  BY <1>2, <1>3, <1>4, <1>5

(* The first chunk takes as many parts as fit, and at least one.           *)
LEMMA FirstChunkIs ==
  ASSUME NEW parts \in Seq(Part), parts # <<>>, NEW chars \in Nat
  PROVE  LET n == FirstChunk(parts, chars)
         IN  /\ n \in 1..Len(parts)
             /\ n > 1 => ChunkPromptChars(SubSeq(parts, 1, n)) <= chars
             /\ n < Len(parts) => ChunkPromptChars(SubSeq(parts, 1, n + 1)) > chars
<1> DEFINE S == {1} \cup {n \in DOMAIN parts : ChunkPromptChars(SubSeq(parts, 1, n)) <= chars}
           n == FirstChunk(parts, chars)
<1>1. Len(parts) \in Nat \ {0} /\ DOMAIN parts = 1..Len(parts)
  OBVIOUS
<1>2. S \subseteq Int /\ S # {} /\ (\A x \in S : x <= Len(parts)) /\ n = Max(S)
  BY <1>1 DEF FirstChunk
<1>3. n \in S /\ \A y \in S : n >= y
  <2> HIDE DEF S, n
  <2>1. Max(S) \in S /\ \A y \in S : Max(S) >= y
    <3>1. Len(parts) \in Int
      BY <1>1
    <3>2. QED
      BY ONLY <1>2, <3>1, MaxIs
  <2>2. QED
    BY <1>2, <2>1
<1> HIDE DEF n
<1>4. n \in 1..Len(parts)
  BY <1>1, <1>3
<1>5. n > 1 => ChunkPromptChars(SubSeq(parts, 1, n)) <= chars
  BY <1>3, <1>4
<1>6. ASSUME n < Len(parts) PROVE ChunkPromptChars(SubSeq(parts, 1, n + 1)) > chars
  <2>1. n + 1 \in DOMAIN parts
    BY <1>1, <1>4, <1>6
  <2>2. ~(n + 1 \in S)
    BY <1>3, <1>4
  <2>3. ~(ChunkPromptChars(SubSeq(parts, 1, n + 1)) <= chars)
    BY <2>1, <2>2
  <2>4. SubSeq(parts, 1, n + 1) \in Seq(Part)
    BY <1>1, <2>1
  <2>5. ChunkPromptChars(SubSeq(parts, 1, n + 1)) \in Nat
    BY <2>4, ChunkPromptCharsIsNat
  <2>6. QED
    BY <2>3, <2>5
<1>7. QED
  BY <1>4, <1>5, <1>6 DEF n

(* The chunks cs hold the parts, each once; a chunk above the limit has a  *)
(* single part, and no chunk has room for the first part of the next.      *)
Packs(cs, parts, chars) ==
  /\ cs \in Seq(Seq(Part))
  /\ parts = <<>> => cs = <<>>
  /\ parts # <<>> => cs # <<>> /\ cs[1][1] = parts[1]
  /\ \A c \in DOMAIN cs : Len(cs[c]) >= 1 /\ (ChunkPromptChars(cs[c]) > chars => Len(cs[c]) = 1)
  /\ \A c \in DOMAIN cs : c > 1 => ChunkPromptChars(Append(cs[c - 1], cs[c][1])) > chars
  /\ Flattens(parts, cs, DOMAIN cs)

(* The first n elements of a sequence ...                                  *)
LEMMA FrontIs ==
  ASSUME NEW U, NEW s \in Seq(U), NEW n \in 1..Len(s), NEW a, a = SubSeq(s, 1, n)
  PROVE  a \in Seq(U) /\ Len(a) = n /\ \A i \in 1..n : a[i] = s[i]
<1>1. Len(s) \in Nat /\ DOMAIN s = 1..Len(s) /\ n \in Nat /\ n <= Len(s) /\ 1 <= n
  OBVIOUS
<1>2. QED
  BY <1>1

(* ... and the others.                                                     *)
LEMMA RestIs ==
  ASSUME NEW U, NEW s \in Seq(U), NEW n \in 1..Len(s), NEW r, r = SubSeq(s, n + 1, Len(s))
  PROVE  /\ r \in Seq(U) /\ Len(r) = Len(s) - n
         /\ \A i \in 1..(Len(s) - n) : r[i] = s[n + i]
<1>1. PICK L \in Int : L = Len(s) /\ n \in Int /\ 1 <= n /\ n <= L
  OBVIOUS
<1>2. PICK m \in Int : m = n + 1
  BY <1>1
<1>3. \A i \in m..L : s[i] \in U
  BY <1>1, <1>2
<1>4. r = SubSeq(s, m, L)
  BY <1>1, <1>2
<1>5. r \in Seq(U)
  <2>1. m \in Int /\ L \in Int
    BY <1>1, <1>2
  <2>2. SubSeq(s, m, L) \in Seq(U)
    BY ONLY <1>3, <2>1, SubSeqProperties
  <2>3. QED
    BY <1>4, <2>2
<1>6. CASE m <= L
  <2>1. Len(r) = L - n
    BY <1>1, <1>2, <1>4, <1>6
  <2>2. \A i \in 1..(L - n) : r[i] = s[n + i]
    <3>1. ASSUME NEW i \in 1..(L - n) PROVE r[i] = s[n + i]
      <4>1. i \in 1..(L - m + 1) /\ m + i - 1 = n + i
        BY <1>1, <1>2
      <4>2. SubSeq(s, m, L)[i] = s[m + i - 1]
        BY <1>1, <1>2, <1>6, <4>1
      <4>3. QED
        BY <1>4, <4>1, <4>2
    <3>2. QED
      BY <3>1
  <2>3. QED
    BY <1>1, <1>5, <2>1, <2>2
<1>7. CASE m > L
  <2>1. L - n = 0
    BY <1>1, <1>2, <1>7
  <2>2. Len(r) = 0
    BY <1>1, <1>2, <1>4, <1>7
  <2>3. QED
    BY <1>1, <1>5, <2>1, <2>2
<1>8. QED
  BY <1>1, <1>2, <1>6, <1>7

(* A first chunk in front of a packing of what it leaves.                  *)
LEMMA PacksCons ==
  ASSUME NEW chars \in Nat, NEW parts \in Seq(Part), parts # <<>>, NEW n \in Nat,
         n = FirstChunk(parts, chars),
         NEW cs, Packs(cs, SubSeq(parts, n + 1, Len(parts)), chars)
  PROVE  Packs(<<SubSeq(parts, 1, n)>> \o cs, parts, chars)
<1>1. /\ n \in 1..Len(parts)
      /\ n > 1 => ChunkPromptChars(SubSeq(parts, 1, n)) <= chars
      /\ n < Len(parts) => ChunkPromptChars(SubSeq(parts, 1, n + 1)) > chars
  BY FirstChunkIs
<1>2. PICK a : a = SubSeq(parts, 1, n)
  OBVIOUS
<1>3. PICK r : r = SubSeq(parts, n + 1, Len(parts))
  OBVIOUS
<1>4. /\ a \in Seq(Part) /\ Len(a) = n
      /\ \A i \in 1..n : a[i] = parts[i]
      /\ r \in Seq(Part) /\ Len(r) = Len(parts) - n
      /\ \A i \in 1..(Len(parts) - n) : r[i] = parts[n + i]
  <2>1. a \in Seq(Part) /\ Len(a) = n /\ \A i \in 1..n : a[i] = parts[i]
    BY <1>1, <1>2, FrontIs
  <2>2. /\ r \in Seq(Part) /\ Len(r) = Len(parts) - n
        /\ \A i \in 1..(Len(parts) - n) : r[i] = parts[n + i]
    BY <1>1, <1>3, RestIs
  <2>3. QED
    BY <2>1, <2>2
<1>5. /\ cs \in Seq(Seq(Part))
      /\ r = <<>> => cs = <<>>
      /\ r # <<>> => cs # <<>> /\ cs[1][1] = r[1]
      /\ \A c \in DOMAIN cs : Len(cs[c]) >= 1 /\ (ChunkPromptChars(cs[c]) > chars => Len(cs[c]) = 1)
      /\ \A c \in DOMAIN cs : c > 1 => ChunkPromptChars(Append(cs[c - 1], cs[c][1])) > chars
      /\ Flattens(r, cs, DOMAIN cs)
  BY <1>3 DEF Packs
<1>6. PICK t : t = <<a>> \o cs
  OBVIOUS
<1>7. PICK N \in Nat : N = Len(cs) /\ DOMAIN cs = 1..N
  BY <1>5
<1>8. /\ t \in Seq(Seq(Part)) /\ DOMAIN t = 1..(N + 1) /\ t[1] = a /\ Len(t) = N + 1
      /\ \A k \in 1..N : k + 1 \in 1..(N + 1) /\ t[k + 1] = cs[k]
      /\ \A k \in 1..(N + 1) : k = 1 \/ (k # 1 /\ k - 1 \in 1..N /\ t[k] = cs[k - 1])
  BY <1>4, <1>5, <1>6, <1>7, ConsIs
<1>9. Len(parts) \in Nat
  OBVIOUS
<1>10. t # <<>> /\ t[1][1] = parts[1]
  <2>1. t # <<>>
    BY <1>7, <1>8
  <2>2. QED
    BY <1>1, <1>4, <1>8, <2>1
<1>11. ASSUME NEW c \in DOMAIN t
       PROVE  Len(t[c]) >= 1 /\ (ChunkPromptChars(t[c]) > chars => Len(t[c]) = 1)
  <2>1. CASE c = 1
    <3>1. ChunkPromptChars(a) \in Nat
      BY <1>4, ChunkPromptCharsIsNat
    <3>2. n > 1 => ~(ChunkPromptChars(a) > chars)
      BY <1>1, <1>2, <3>1
    <3>3. QED
      <4>1. t[c] = a /\ Len(a) >= 1 /\ (Len(a) = 1 \/ Len(a) > 1)
        BY <1>1, <1>4, <1>8, <2>1
      <4>2. QED
        BY <1>4, <3>2, <4>1
  <2>2. CASE c # 1
    <3>1. c - 1 \in DOMAIN cs /\ t[c] = cs[c - 1]
      BY <1>7, <1>8, <2>2
    <3>2. QED
      BY <1>5, <3>1
  <2>3. QED
    BY <2>1, <2>2
<1>12. ASSUME NEW c \in DOMAIN t, c > 1
       PROVE  ChunkPromptChars(Append(t[c - 1], t[c][1])) > chars
  <2>1. PICK k \in 1..N : k = c - 1 /\ t[c] = cs[k] /\ c - 1 = k
    <3>1. c # 1 /\ c \in 1..(N + 1)
      BY <1>8, <1>12
    <3>2. QED
      BY <1>8, <3>1
  <2>2. CASE k = 1
    <3>1. r # <<>> /\ n < Len(parts)
      <4>1. cs # <<>>
        BY <1>7, <2>1
      <4>2. r # <<>>
        BY <1>5, <4>1
      <4>3. Len(r) # 0
        BY <1>4, <4>2
      <4>4. QED
        BY <1>1, <1>4, <1>9, <4>2, <4>3
    <3>2. t[c][1] = parts[n + 1]
      <4>1. 1 \in 1..(Len(parts) - n)
        BY <1>1, <1>9, <3>1
      <4>2. QED
        BY <1>4, <1>5, <2>1, <2>2, <3>1, <4>1
    <3>3. Append(a, parts[n + 1]) = SubSeq(parts, 1, n + 1)
      <4>1. n + 1 \in 1..Len(parts)
        BY <1>1, <1>9, <3>1
      <4>2. PICK b : b = SubSeq(parts, 1, n + 1)
        OBVIOUS
      <4>3. b \in Seq(Part) /\ Len(b) = n + 1 /\ \A i \in 1..(n + 1) : b[i] = parts[i]
        BY <4>1, <4>2, FrontIs
      <4>4. PICK d : d = Append(a, parts[n + 1])
        OBVIOUS
      <4>5. parts[n + 1] \in Part
        BY <4>1
      <4>6. /\ d \in Seq(Part) /\ Len(d) = n + 1
            /\ \A i \in 1..(n + 1) : d[i] = IF i <= n THEN a[i] ELSE parts[n + 1]
        BY <1>4, <4>4, <4>5
      <4>7. \A i \in 1..(n + 1) : d[i] = b[i]
        BY <1>1, <1>4, <4>3, <4>6
      <4>8. d = b
        BY <4>3, <4>6, <4>7
      <4>9. QED
        BY <4>2, <4>4, <4>8
    <3>4. t[c - 1] = a
      BY <1>8, <2>1, <2>2
    <3>5. QED
      BY <1>1, <3>1, <3>2, <3>3, <3>4
  <2>3. CASE k # 1
    <3>1. k \in DOMAIN cs /\ k > 1 /\ k - 1 \in 1..N /\ t[c - 1] = cs[k - 1]
      <4>1. c - 1 \in 1..(N + 1) /\ c - 1 # 1 /\ (c - 1) - 1 = k - 1
        BY <1>7, <2>1, <2>3
      <4>2. t[c - 1] = cs[(c - 1) - 1]
        BY <1>8, <4>1
      <4>3. QED
        BY <1>7, <2>1, <2>3, <4>1, <4>2
    <3>2. QED
      BY <1>5, <2>1, <3>1
  <2>4. QED
    BY <2>2, <2>3
<1>13. Flattens(parts, t, DOMAIN t)
  <2>1. Len(parts) = Len(a) + Len(r)
    BY <1>1, <1>4, <1>9
  <2>2. \A i \in DOMAIN a : parts[i] = a[i]
    BY <1>4
  <2>3. \A i \in DOMAIN r : parts[Len(a) + i] = r[i]
    BY <1>4
  <2>4. Flattens(parts, <<a>> \o cs, DOMAIN (<<a>> \o cs))
    BY <1>4, <1>5, <2>1, <2>2, <2>3, FlattensCons
  <2>5. QED
    BY <1>6, <2>4
<1>14. Packs(t, parts, chars)
  BY <1>8, <1>10, <1>11, <1>12, <1>13 DEF Packs
<1>15. QED
  BY <1>2, <1>6, <1>14

(* The chunks are a packing of the parts.                                  *)
LEMMA PackPacks ==
  ASSUME NEW chars \in Nat, NEW items, items # <<>>, NEW parts \in Seq(Part),
         parts = Parts(items, chars)
  PROVE  Packs(ComplianceChunks(items, chars), parts, chars)
<1> DEFINE D == Seq(Part)
           W == Seq(Seq(Part))
           N(s) == FirstChunk(s, chars)
           Taken(s) == SubSeq(s, 1, N(s))
           Rest(s) == SubSeq(s, N(s) + 1, Len(s))
           H == [g \in [D -> W] |-> [s \in D |->
                   IF s = <<>> THEN <<>> ELSE <<Taken(s)>> \o g[Rest(s)]]]
           m == [s \in D |-> Len(s)]
           f == CHOOSE g : g = [s \in D |->
                   IF s = <<>> THEN <<>> ELSE <<Taken(s)>> \o g[Rest(s)]]
<1>1. ASSUME NEW s \in D, s # <<>>
      PROVE  /\ N(s) \in Nat /\ Taken(s) \in D
             /\ Rest(s) \in D /\ Len(Rest(s)) < Len(s)
             /\ Len(Rest(s)) \in Nat /\ Len(s) \in Nat
  <2>1. N(s) \in 1..Len(s) /\ Len(s) \in Nat
    BY <1>1, FirstChunkIs
  <2>2. PICK a : a = SubSeq(s, 1, N(s))
    OBVIOUS
  <2>3. PICK r : r = SubSeq(s, N(s) + 1, Len(s))
    OBVIOUS
  <2>4. PICK n \in 1..Len(s) : n = N(s)
    BY <2>1
  <2>5. a \in D
    BY <2>2, <2>4, FrontIs
  <2>6. r \in D /\ Len(r) = Len(s) - n
    BY <2>3, <2>4, RestIs
  <2>7. QED
    BY <2>1, <2>2, <2>3, <2>4, <2>5, <2>6
<1> HIDE DEF N
<1>2. H \in [[D -> W] -> [D -> W]]
  <2>1. ASSUME NEW g \in [D -> W], NEW s \in D, s # <<>>
        PROVE  <<Taken(s)>> \o g[Rest(s)] \in W
    <3>1. Taken(s) \in D /\ g[Rest(s)] \in Seq(D)
      BY <1>1, <2>1
    <3>2. QED
      BY <3>1, ConsIs
  <2>2. <<>> \in W
    OBVIOUS
  <2> HIDE DEF D, W, Taken, Rest
  <2>3. QED
    BY <2>1, <2>2
<1>3. Recursion(D, W, m, H)
  <2>1. W # {} /\ m \in [D -> Nat]
    <3>1. <<>> \in W /\ \A s \in D : Len(s) \in Nat
      OBVIOUS
    <3>2. QED
      BY <3>1
  <2>2. ASSUME NEW g \in [D -> W], NEW h \in [D -> W], NEW s \in D,
               \A t \in D : m[t] < m[s] => g[t] = h[t]
        PROVE  H[g][s] = H[h][s]
    <3>1. s # <<>> => g[Rest(s)] = h[Rest(s)]
      <4>1. s # <<>> => Rest(s) \in D /\ m[Rest(s)] < m[s]
        BY <1>1
      <4>2. QED
        BY <2>2, <4>1
    <3> HIDE DEF Taken, Rest
    <3>2. QED
      BY <3>1
  <2> HIDE DEF D, W, m, H
  <2>3. QED
    BY <1>2, <2>1, <2>2 DEF Recursion
<1>4. PICK g \in [D -> W] : H[g] = g
  <2> HIDE DEF D, W, m, H
  <2>1. QED
    BY <1>3, FixedPoint
<1>5. g = [s \in D |-> IF s = <<>> THEN <<>> ELSE <<Taken(s)>> \o g[Rest(s)]]
  BY <1>4
<1>6. f = [s \in D |-> IF s = <<>> THEN <<>> ELSE <<Taken(s)>> \o f[Rest(s)]]
  BY <1>5
<1>7. ComplianceChunks(items, chars) = f[parts]
  BY DEF ComplianceChunks, N
<1> HIDE DEF f
<1> DEFINE P == {n \in Nat : \A s \in D : Len(s) = n => Packs(f[s], s, chars)}
<1>8. ASSUME NEW n \in Nat, \A k \in 0..(n - 1) : k \in P PROVE n \in P
  <2>1. SUFFICES ASSUME NEW s \in D, Len(s) = n PROVE Packs(f[s], s, chars)
    OBVIOUS
  <2>2. CASE s = <<>>
    <3>1. f[s] = <<>>
      BY <1>6, <2>2
    <3>2. Flattens(<<>>, <<>>, DOMAIN <<>>)
      <4>1. FlattensBy(<<>>, <<>>, DOMAIN <<>>, <<>>, <<>>)
        BY DEF FlattensBy
      <4>2. QED
        BY <4>1 DEF Flattens
    <3>3. Packs(<<>>, <<>>, chars)
      BY <3>2 DEF Packs
    <3>4. QED
      BY <2>2, <3>1, <3>3
  <2>3. CASE s # <<>>
    <3>1. PICK r \in D : r = Rest(s) /\ Len(r) \in 0..(n - 1)
      <4>1. /\ Rest(s) \in D /\ Len(Rest(s)) < Len(s)
            /\ Len(Rest(s)) \in Nat /\ Len(s) \in Nat
        BY <1>1, <2>3
      <4> HIDE DEF Rest, D
      <4>2. Len(Rest(s)) \in 0..(n - 1)
        BY <2>1, <4>1
      <4>3. QED
        BY <4>1, <4>2
    <3>2. Packs(f[r], r, chars)
      <4>1. Len(r) \in P
        BY <1>8, <3>1
      <4>2. QED
        BY <4>1
    <3>3. f[s] = <<Taken(s)>> \o f[r]
      BY <1>6, <2>3, <3>1
    <3>4. PICK k \in Nat : k = N(s) /\ k = FirstChunk(s, chars)
      BY <1>1, <2>3 DEF N
    <3>5. Packs(f[r], SubSeq(s, k + 1, Len(s)), chars)
      BY <3>1, <3>2, <3>4
    <3>6. Packs(<<SubSeq(s, 1, k)>> \o f[r], s, chars)
      BY <2>3, <3>4, <3>5, PacksCons
    <3>7. QED
      BY <3>3, <3>4, <3>6
  <2>4. QED
    BY <2>2, <2>3
<1>9. \A n \in Nat : n \in P
  <2> HIDE DEF P
  <2>1. QED
    BY <1>8, CompleteInduction
<1>10. Packs(f[parts], parts, chars)
  <2>1. Len(parts) \in P
    BY <1>9
  <2>2. QED
    BY <2>1
<1>11. QED
  BY <1>7, <1>10

-----------------------------------------------------------------------------
(* The parts of the evidence.                                              *)

Text == [len : Nat, lines : SUBSET Nat]
Evidence == [path : Nat, hunk : Nat, text : Text]

(* The limit of a part is at least 1.                                      *)
LEMMA PartLimitIs ==
  ASSUME NEW chars \in Nat PROVE PartLimit(chars) \in Nat \ {0}
<1>1. PartFloor \in Nat \ {0} /\ chars \div 2 \in Nat
  BY PromptConstants
<1>2. QED
  BY <1>1, MaxOfTwo DEF PartLimit

(* Character p of hunk h of file i is in the core of part x.               *)
Holds(x, i, h, p) == x.path = i /\ x.hunk = h /\ x.core[1] <= p /\ p < x.core[2]

PartsOf(item, chars) ==
  LET split == SplitEvidenceItem(item.text, PartLimit(chars))
  IN  [p \in DOMAIN split |->
         [path |-> item.path, hunk |-> item.hunk, core |-> split[p].core,
          chars |-> split[p].last - split[p].first]]

(* r is the item in parts, each of its characters once.                    *)
IsSplit(r, item, chars) ==
  /\ r \in Seq(Part)
  /\ \A q \in DOMAIN r : /\ r[q].chars <= PartLimit(chars)
                         /\ r[q].path = item.path /\ r[q].hunk = item.hunk
  /\ \A p \in 0..(item.text.len - 1) :
       \E q \in DOMAIN r :
         /\ Holds(r[q], item.path, item.hunk, p)
         /\ \A o \in DOMAIN r : Holds(r[o], item.path, item.hunk, p) => o = q

(* The parts of one item hold every character of its text once.            *)
LEMMA PartsOfIs ==
  ASSUME NEW item \in Evidence, NEW chars \in Nat
  PROVE  IsSplit(PartsOf(item, chars), item, chars)
<1>0. PICK r : r = PartsOf(item, chars)
  OBVIOUS
<1>1. PICK max \in Nat \ {0} : max = PartLimit(chars)
  BY PartLimitIs
<1>2. item.path \in Nat /\ item.hunk \in Nat /\ item.text \in Text
  BY DEF Evidence
<1>3. IsText(item.text)
  BY <1>2 DEF IsText, Text
<1>4. PICK s : s = SplitEvidenceItem(item.text, max)
  OBVIOUS
<1>5. Covers(s, 0, item.text.len, max)
  BY <1>1, <1>3, <1>4, SplitCovers
<1>6. /\ s \in Seq(Piece)
      /\ \A q \in DOMAIN s : s[q].last - s[q].first \in 0..max
      /\ \A p \in 0..(item.text.len - 1) :
           \E q \in DOMAIN s : Has(s[q], p) /\ \A o \in DOMAIN s : Has(s[o], p) => o = q
  BY <1>5 DEF Covers
<1>7. r = [p \in DOMAIN s |->
             [path |-> item.path, hunk |-> item.hunk, core |-> s[p].core,
              chars |-> s[p].last - s[p].first]]
  BY <1>0, <1>1, <1>4 DEF PartsOf
<1>8. DOMAIN r = DOMAIN s /\ DOMAIN s = 1..Len(s) /\ Len(s) \in Nat
  BY <1>6, <1>7
<1>9. ASSUME NEW q \in DOMAIN s
      PROVE  /\ r[q] \in Part
             /\ r[q].chars <= max
             /\ r[q].path = item.path /\ r[q].hunk = item.hunk
             /\ \A p : Holds(r[q], item.path, item.hunk, p) <=> Has(s[q], p)
  <2>1. r[q] = [path |-> item.path, hunk |-> item.hunk, core |-> s[q].core,
                chars |-> s[q].last - s[q].first]
    BY <1>7
  <2>2. s[q].core \in Nat \X Nat
    <3>1. s[q] \in Piece
      BY <1>6
    <3>2. QED
      BY <3>1 DEF Piece
  <2>3. PICK d \in Nat : d = s[q].last - s[q].first /\ d <= max
    BY <1>6
  <2>4. r[q] \in Part
    BY <1>2, <2>1, <2>2, <2>3 DEF Part
  <2>5. \A p : Holds(r[q], item.path, item.hunk, p) <=> Has(s[q], p)
    BY <2>1 DEF Holds, Has
  <2>6. QED
    BY <2>1, <2>3, <2>4, <2>5
<1>10. r \in Seq(Part)
  BY <1>7, <1>8, <1>9
<1>11. ASSUME NEW p \in 0..(item.text.len - 1)
       PROVE  \E q \in DOMAIN r :
                /\ Holds(r[q], item.path, item.hunk, p)
                /\ \A o \in DOMAIN r : Holds(r[o], item.path, item.hunk, p) => o = q
  BY <1>6, <1>8, <1>9
<1>12. IsSplit(r, item, chars)
  BY <1>1, <1>8, <1>9, <1>10, <1>11 DEF IsSplit
<1>13. QED
  BY <1>0, <1>12

(* No other item is of the same hunk of the same file.                     *)
Alone(items, k) ==
  \A j \in DOMAIN items :
    items[j].path = items[k].path /\ items[j].hunk = items[k].hunk => j = k

Splits(parts, items, chars) ==
  /\ parts \in Seq(Part)
  /\ \A q \in DOMAIN parts : parts[q].chars <= PartLimit(chars)
  /\ \A k \in DOMAIN items : Alone(items, k) =>
       \A p \in 0..(items[k].text.len - 1) :
         \E q \in DOMAIN parts :
           /\ Holds(parts[q], items[k].path, items[k].hunk, p)
           /\ \A o \in DOMAIN parts :
                Holds(parts[o], items[k].path, items[k].hunk, p) => o = q

(* The parts of all items, in the order of the items.                      *)
LEMMA PartsSplit ==
  ASSUME NEW items \in Seq(Evidence), NEW chars \in Nat
  PROVE  Splits(Parts(items, chars), items, chars)
<1>1. PICK R : R = [k \in DOMAIN items |-> PartsOf(items[k], chars)]
  OBVIOUS
<1>2. PICK parts : parts = Parts(items, chars)
  OBVIOUS
<1>3. parts = FlattenSeq(R)
  BY <1>1, <1>2 DEF Parts, PartsOf
<1>4. DOMAIN R = DOMAIN items /\ DOMAIN items = 1..Len(items) /\ Len(items) \in Nat
  BY <1>1
<1>5. ASSUME NEW k \in DOMAIN items PROVE IsSplit(R[k], items[k], chars)
  BY <1>1, PartsOfIs
<1>6. R \in Seq(Seq(Part))
  BY <1>1, <1>4, <1>5 DEF IsSplit
<1>7. parts \in Seq(Part) /\ Flattens(parts, R, DOMAIN R)
  BY <1>3, <1>6, FlattenSeqFlattens
<1>8. PICK row, col : FlattensBy(parts, R, DOMAIN R, row, col)
  BY <1>7 DEF Flattens
<1>9. /\ row \in [DOMAIN parts -> DOMAIN R] /\ col \in [DOMAIN parts -> Nat]
      /\ \A a \in DOMAIN parts : col[a] \in DOMAIN R[row[a]] /\ parts[a] = R[row[a]][col[a]]
      /\ \A a, b \in DOMAIN parts : row[a] = row[b] /\ col[a] = col[b] => a = b
      /\ \A k \in DOMAIN R : \A h \in DOMAIN R[k] :
           \E a \in DOMAIN parts : row[a] = k /\ col[a] = h
  BY <1>8 DEF FlattensBy
<1>10. \A a \in DOMAIN parts : row[a] \in DOMAIN items
  BY <1>4, <1>9
<1>11. ASSUME NEW q \in DOMAIN parts PROVE parts[q].chars <= PartLimit(chars)
  <2>1. row[q] \in DOMAIN items /\ col[q] \in DOMAIN R[row[q]] /\ parts[q] = R[row[q]][col[q]]
    BY <1>9, <1>10
  <2>2. QED
    BY <1>5, <2>1 DEF IsSplit
<1>12. ASSUME NEW k \in DOMAIN items, Alone(items, k),
              NEW p \in 0..(items[k].text.len - 1)
       PROVE  \E q \in DOMAIN parts :
                /\ Holds(parts[q], items[k].path, items[k].hunk, p)
                /\ \A o \in DOMAIN parts :
                     Holds(parts[o], items[k].path, items[k].hunk, p) => o = q
  <2>1. PICK h \in DOMAIN R[k] :
          /\ Holds(R[k][h], items[k].path, items[k].hunk, p)
          /\ \A o \in DOMAIN R[k] : Holds(R[k][o], items[k].path, items[k].hunk, p) => o = h
    BY <1>5 DEF IsSplit
  <2>2. PICK q \in DOMAIN parts : row[q] = k /\ col[q] = h
    BY <1>4, <1>9
  <2>3. parts[q] = R[k][h]
    BY <1>9, <2>2
  <2>4. ASSUME NEW o \in DOMAIN parts, Holds(parts[o], items[k].path, items[k].hunk, p)
        PROVE  o = q
    <3>1. row[o] \in DOMAIN items /\ col[o] \in DOMAIN R[row[o]] /\ parts[o] = R[row[o]][col[o]]
      BY <1>9, <1>10
    <3>2. items[row[o]].path = items[k].path /\ items[row[o]].hunk = items[k].hunk
      <4>1. parts[o].path = items[row[o]].path /\ parts[o].hunk = items[row[o]].hunk
        BY <1>5, <3>1 DEF IsSplit
      <4>2. parts[o].path = items[k].path /\ parts[o].hunk = items[k].hunk
        BY <2>4 DEF Holds
      <4>3. QED
        BY <4>1, <4>2
    <3>3. row[o] = k
      BY <1>12, <3>1, <3>2 DEF Alone
    <3>4. col[o] = h
      BY <2>1, <2>4, <3>1, <3>3
    <3>5. QED
      BY <1>9, <2>2, <3>3, <3>4
  <2>5. QED
    BY <2>1, <2>2, <2>3, <2>4
<1>13. Splits(parts, items, chars)
  BY <1>7, <1>11, <1>12 DEF Splits
<1>14. QED
  BY <1>2, <1>13

(* The chunks of a sequence of items: their size, and that each character  *)
(* of an item is in one core.                                              *)
ChunksSize(cs, chars) ==
  \A c \in DOMAIN cs :
    /\ ChunkPromptChars(cs[c]) > chars => Len(cs[c]) <= 1
    /\ \A q \in DOMAIN cs[c] : cs[c][q].chars <= PartLimit(chars)
    /\ c > 1 => ChunkPromptChars(Append(cs[c - 1], cs[c][1])) > chars

HeldOnce(cs, i, h, p) ==
  \E c \in DOMAIN cs : \E q \in DOMAIN cs[c] :
    /\ Holds(cs[c][q], i, h, p)
    /\ \A d \in DOMAIN cs : \A o \in DOMAIN cs[d] :
         Holds(cs[d][o], i, h, p) => d = c /\ o = q

(* The chunks keep to the size, and every character of an item that has    *)
(* its place for itself is in the core of one part of one chunk.           *)
LEMMA ChunksAre ==
  ASSUME NEW items \in Seq(Evidence), NEW chars \in Nat
  PROVE  /\ ComplianceChunks(items, chars) \in Seq(Seq(Part))
         /\ ChunksSize(ComplianceChunks(items, chars), chars)
         /\ \A k \in DOMAIN items : Alone(items, k) =>
              \A p \in 0..(items[k].text.len - 1) :
                HeldOnce(ComplianceChunks(items, chars), items[k].path, items[k].hunk, p)
<1>1. PICK cs : cs = ComplianceChunks(items, chars)
  OBVIOUS
<1>2. CASE items = <<>>
  <2>1. cs = << <<>> >>
    BY <1>1, <1>2 DEF ComplianceChunks
  <2>2. << >> \in Seq(Part) /\ Len(<< >>) = 0
    OBVIOUS
  <2>3. cs \in Seq(Seq(Part)) /\ DOMAIN cs = {1} /\ cs[1] = << >> /\ DOMAIN items = {}
    BY <1>2, <2>1, <2>2
  <2>4. ChunksSize(cs, chars)
    BY <2>2, <2>3 DEF ChunksSize
  <2>5. QED
    BY <1>1, <2>3, <2>4
<1>3. CASE items # <<>>
  <2>1. PICK parts : parts = Parts(items, chars)
    OBVIOUS
  <2>2. Splits(parts, items, chars)
    BY <2>1, PartsSplit
  <2>3. /\ parts \in Seq(Part)
        /\ \A q \in DOMAIN parts : parts[q].chars <= PartLimit(chars)
    BY <2>2 DEF Splits
  <2>4. Packs(cs, parts, chars)
    BY <1>1, <1>3, <2>1, <2>3, PackPacks
  <2>5. /\ cs \in Seq(Seq(Part))
        /\ \A c \in DOMAIN cs : Len(cs[c]) >= 1 /\ (ChunkPromptChars(cs[c]) > chars => Len(cs[c]) = 1)
        /\ \A c \in DOMAIN cs : c > 1 => ChunkPromptChars(Append(cs[c - 1], cs[c][1])) > chars
        /\ Flattens(parts, cs, DOMAIN cs)
    BY <2>4 DEF Packs
  <2>6. PICK row, col : FlattensBy(parts, cs, DOMAIN cs, row, col)
    BY <2>5 DEF Flattens
  <2>7. /\ row \in [DOMAIN parts -> DOMAIN cs] /\ col \in [DOMAIN parts -> Nat]
        /\ \A a \in DOMAIN parts : col[a] \in DOMAIN cs[row[a]] /\ parts[a] = cs[row[a]][col[a]]
        /\ \A a, b \in DOMAIN parts : row[a] = row[b] /\ col[a] = col[b] => a = b
        /\ \A c \in DOMAIN cs : \A h \in DOMAIN cs[c] :
             \E a \in DOMAIN parts : row[a] = c /\ col[a] = h
    BY <2>6 DEF FlattensBy
  <2>8. ChunksSize(cs, chars)
    <3>1. ASSUME NEW c \in DOMAIN cs, NEW q \in DOMAIN cs[c]
          PROVE  cs[c][q].chars <= PartLimit(chars)
      <4>1. PICK a \in DOMAIN parts : row[a] = c /\ col[a] = q
        BY <2>7
      <4>2. parts[a] = cs[c][q]
        BY <2>7, <4>1
      <4>3. QED
        BY <2>3, <4>2
    <3>2. \A c \in DOMAIN cs : Len(cs[c]) = 1 => Len(cs[c]) <= 1
      OBVIOUS
    <3>3. QED
      BY <2>5, <3>1, <3>2 DEF ChunksSize
  <2>9. ASSUME NEW k \in DOMAIN items, Alone(items, k), NEW p \in 0..(items[k].text.len - 1)
        PROVE  HeldOnce(cs, items[k].path, items[k].hunk, p)
    <3>1. PICK q \in DOMAIN parts :
            /\ Holds(parts[q], items[k].path, items[k].hunk, p)
            /\ \A o \in DOMAIN parts :
                 Holds(parts[o], items[k].path, items[k].hunk, p) => o = q
      BY <2>2, <2>9 DEF Splits
    <3>2. row[q] \in DOMAIN cs /\ col[q] \in DOMAIN cs[row[q]] /\ parts[q] = cs[row[q]][col[q]]
      BY <2>7
    <3>3. ASSUME NEW d \in DOMAIN cs, NEW o \in DOMAIN cs[d],
                 Holds(cs[d][o], items[k].path, items[k].hunk, p)
          PROVE  d = row[q] /\ o = col[q]
      <4>1. PICK a \in DOMAIN parts : row[a] = d /\ col[a] = o
        BY <2>7
      <4>2. parts[a] = cs[d][o]
        BY <2>7, <4>1
      <4>3. a = q
        BY <3>1, <3>3, <4>2
      <4>4. QED
        BY <4>1, <4>3
    <3>4. QED
      BY <3>1, <3>2, <3>3 DEF HeldOnce
  <2>10. QED
    BY <1>1, <2>5, <2>8, <2>9
<1>4. QED
  BY <1>2, <1>3

-----------------------------------------------------------------------------
(* The delta and the evidence it makes.                                    *)

(* Sorted lists every member of a set of positions once.                   *)
LEMMA SortedIs ==
  ASSUME NEW n \in Nat, NEW S, S \subseteq 1..n
  PROVE  /\ Sorted(S, n) \in Seq(S)
         /\ \A a, b \in DOMAIN Sorted(S, n) : Sorted(S, n)[a] = Sorted(S, n)[b] => a = b
         /\ \A i \in S : \E a \in DOMAIN Sorted(S, n) : Sorted(S, n)[a] = i
<1>1. PICK s : s = [k \in 1..n |-> k]
  OBVIOUS
<1>2. s \in Seq(1..n) /\ DOMAIN s = 1..n /\ \A k \in 1..n : s[k] = k
  BY <1>1
<1>3. PICK r : r = AtPositions(s, S) /\ r = Sorted(S, n)
  BY <1>1 DEF Sorted
<1>4. r \in Seq(1..n) /\ Selects(r, s, DOMAIN s \cap S)
  BY <1>2, <1>3, AtPositionsSelects
<1>5. PICK p \in [DOMAIN r -> DOMAIN s \cap S] :
        /\ \A a, b \in DOMAIN r : p[a] = p[b] => a = b
        /\ \A j \in DOMAIN s \cap S : \E a \in DOMAIN r : p[a] = j
        /\ \A a \in DOMAIN r : r[a] = s[p[a]]
  BY <1>4 DEF Selects
<1>6. \A a \in DOMAIN r : p[a] \in S /\ r[a] = p[a]
  BY <1>2, <1>5
<1>7. \A i \in S : \E a \in DOMAIN r : r[a] = i
  BY <1>2, <1>5, <1>6
<1>8. \A a, b \in DOMAIN r : r[a] = r[b] => a = b
  BY <1>5, <1>6
<1>9. r \in Seq(S)
  <2>1. DOMAIN r = 1..Len(r) /\ Len(r) \in Nat
    BY <1>4
  <2>2. \A a \in 1..Len(r) : r[a] \in S
    BY <1>6, <2>1
  <2>3. r = [a \in 1..Len(r) |-> r[a]]
    BY <1>4
  <2>4. QED
    BY <2>1, <2>2, <2>3
<1>10. QED
  BY <1>3, <1>7, <1>8, <1>9

Kinds == {"script", "fragment", "compiled", "header", "asset", "artifact", "input", "other", "removed"}
DeltaFile == [path : Nat, kind : Kinds, hunks : Seq(Text)]

(* The delta of the files S against their baselines and of what is gone.   *)
IsDelta(delta, files, S, base, removed) ==
  /\ delta \in Seq(DeltaFile)
  /\ \A a, b \in DOMAIN delta : delta[a].path = delta[b].path => a = b
  /\ \A i \in S : \E k \in DOMAIN delta :
       delta[k].path = i /\ delta[k].hunks = files[i].hunks[base[i]]
  /\ \A x \in DOMAIN removed : \E k \in DOMAIN delta :
       delta[k].path = Len(files) + x /\ delta[k].hunks = removed[x]

Changed(files, bundle, scope, base) ==
  {i \in scope : ~bundle[i].truncated /\ files[i].hunks[base[i]] # <<>>}

(* The delta has an entry for every file that was read as a whole and      *)
(* changed, and for every deletion.                                        *)
LEMMA BuildDeltaIs ==
  ASSUME NEW files, Len(files) \in Nat, NEW bundle, NEW scope, scope \subseteq 1..Len(files),
         NEW base, NEW removed \in Seq(Seq(Text)),
         \A i \in scope : files[i].kind \in Kinds /\ files[i].hunks[base[i]] \in Seq(Text)
  PROVE  IsDelta(BuildDelta(files, bundle, scope, base, removed).files, files,
                 Changed(files, bundle, scope, base), base, removed)
<1> DEFINE S == {i \in scope : ~bundle[i].truncated /\ files[i].hunks[base[i]] # <<>>}
<1>1. PICK n \in Nat : n = Len(files)
  OBVIOUS
<1>2. S \subseteq 1..n
  BY <1>1
<1>3. PICK paths : paths = Sorted(S, n)
  OBVIOUS
<1>4. /\ paths \in Seq(S)
      /\ \A a, b \in DOMAIN paths : paths[a] = paths[b] => a = b
      /\ \A i \in S : \E a \in DOMAIN paths : paths[a] = i
  <2> HIDE DEF S
  <2>1. QED
    BY <1>2, <1>3, SortedIs
<1> DEFINE kept == [k \in DOMAIN paths |->
                      [path |-> paths[k], kind |-> files[paths[k]].kind,
                       hunks |-> files[paths[k]].hunks[base[paths[k]]]]]
           gone == [k \in DOMAIN removed |->
                      [path |-> Len(files) + k, kind |-> "removed", hunks |-> removed[k]]]
<1>5. PICK delta : delta = kept \o gone
  OBVIOUS
<1>6. BuildDelta(files, bundle, scope, base, removed).files = delta
  BY <1>1, <1>3, <1>5 DEF BuildDelta
<1>7. PICK P \in Nat : P = Len(paths) /\ DOMAIN paths = 1..P
  <2> HIDE DEF S
  <2>1. QED
    BY <1>4
<1>8. PICK R \in Nat : R = Len(removed) /\ DOMAIN removed = 1..R
  OBVIOUS
<1>9. \A k \in 1..P : paths[k] \in scope /\ paths[k] \in 1..n
  <2>1. \A k \in 1..P : paths[k] \in S
    <3> HIDE DEF S
    <3>1. QED
      BY <1>4, <1>7
  <2>2. QED
    BY <1>1, <2>1
<1> HIDE DEF S
<1>10. kept \in Seq(DeltaFile) /\ Len(kept) = P
  <2>1. \A k \in 1..P : kept[k] \in DeltaFile
    BY <1>7, <1>9 DEF DeltaFile
  <2>2. kept = [k \in 1..P |-> kept[k]]
    BY <1>7
  <2> HIDE DEF kept
  <2>3. QED
    BY <1>7, <2>1, <2>2
<1>11. gone \in Seq(DeltaFile) /\ Len(gone) = R
  <2>1. \A k \in 1..R : gone[k] \in DeltaFile
    <3>1. "removed" \in Kinds
      BY DEF Kinds
    <3>2. \A k \in 1..R : Len(files) + k \in Nat /\ removed[k] \in Seq(Text)
      BY <1>8
    <3>3. QED
      BY <1>8, <3>1, <3>2 DEF DeltaFile
  <2>2. gone = [k \in 1..R |-> gone[k]]
    BY <1>8
  <2> HIDE DEF gone
  <2>3. QED
    BY <1>8, <2>1, <2>2
<1>12. /\ \A k \in 1..P : /\ kept[k].path = paths[k]
                          /\ kept[k].hunks = files[paths[k]].hunks[base[paths[k]]]
       /\ \A k \in 1..R : gone[k].path = n + k /\ gone[k].hunks = removed[k]
  BY <1>1, <1>7, <1>8
<1> HIDE DEF kept, gone
<1>13. /\ delta \in Seq(DeltaFile) /\ DOMAIN delta = 1..(P + R)
       /\ \A k \in 1..P : k \in 1..(P + R) /\ delta[k] = kept[k]
       /\ \A k \in 1..R : P + k \in 1..(P + R) /\ delta[P + k] = gone[k]
  BY <1>5, <1>10, <1>11
<1>14. \A a \in 1..(P + R) : a \in 1..P \/ \E k \in 1..R : a = P + k
  <2>1. ASSUME NEW a \in 1..(P + R), a \notin 1..P PROVE \E k \in 1..R : a = P + k
    <3>1. a - P \in 1..R /\ a = P + (a - P)
      BY <2>1
    <3>2. QED
      BY <3>1
  <2>2. QED
    BY <2>1
<1>15. /\ \A k \in 1..P : delta[k].path = paths[k] /\ delta[k].path \in 1..n
       /\ \A k \in 1..R : delta[P + k].path = n + k /\ n + k \notin 1..n
  <2>1. \A k \in 1..P : delta[k].path = paths[k]
    BY <1>12, <1>13
  <2>2. \A k \in 1..R : delta[P + k].path = n + k
    BY <1>12, <1>13
  <2>3. \A k \in 1..R : n + k \notin 1..n
    BY <1>1
  <2>4. QED
    BY <1>9, <2>1, <2>2, <2>3
<1>16. ASSUME NEW a \in DOMAIN delta, NEW b \in DOMAIN delta, delta[a].path = delta[b].path
       PROVE  a = b
  <2>1. CASE a \in 1..P
    <3>1. b \in 1..P
      <4>1. ASSUME NEW k \in 1..R, b = P + k PROVE FALSE
        BY <1>15, <1>16, <2>1, <4>1
      <4>2. QED
        BY <1>13, <1>14, <4>1
    <3>2. paths[a] = paths[b]
      BY <1>15, <1>16, <2>1, <3>1
    <3>3. QED
      BY <1>4, <1>7, <2>1, <3>1, <3>2
  <2>2. CASE a \notin 1..P
    <3>1. PICK x \in 1..R : a = P + x
      BY <1>13, <1>14, <2>2
    <3>2. b \notin 1..P
      <4>1. ASSUME b \in 1..P PROVE FALSE
        BY <1>15, <1>16, <3>1, <4>1
      <4>2. QED
        BY <4>1
    <3>3. PICK y \in 1..R : b = P + y
      BY <1>13, <1>14, <3>2
    <3>4. n + x = n + y
      BY <1>15, <1>16, <3>1, <3>3
    <3>5. QED
      BY <3>1, <3>3, <3>4
  <2>3. QED
    BY <2>1, <2>2
<1>17. ASSUME NEW i \in S
       PROVE  \E k \in DOMAIN delta : delta[k].path = i /\ delta[k].hunks = files[i].hunks[base[i]]
  <2>1. PICK k \in DOMAIN paths : paths[k] = i
    BY <1>4
  <2>2. k \in DOMAIN delta /\ delta[k].path = i /\ delta[k].hunks = files[i].hunks[base[i]]
    BY <1>7, <1>12, <1>13, <2>1
  <2>3. QED
    BY <2>2
<1>18. ASSUME NEW x \in DOMAIN removed
       PROVE  \E k \in DOMAIN delta : delta[k].path = Len(files) + x /\ delta[k].hunks = removed[x]
  <2>1. /\ P + x \in DOMAIN delta /\ delta[P + x].path = Len(files) + x
        /\ delta[P + x].hunks = removed[x]
    BY <1>1, <1>8, <1>12, <1>13
  <2>2. QED
    BY <2>1
<1>19. IsDelta(delta, files, S, base, removed)
  BY <1>13, <1>16, <1>17, <1>18 DEF IsDelta
<1>20. QED
  BY <1>6, <1>19 DEF S, Changed

(* Every hunk of the delta is an item of its own.                          *)
Itemizes(items, delta) ==
  \A k \in DOMAIN delta : \A h \in DOMAIN delta[k].hunks :
    \E x \in DOMAIN items :
      /\ items[x].path = delta[k].path /\ items[x].hunk = h
      /\ items[x].text = delta[k].hunks[h]
      /\ Alone(items, x)

(* The evidence has an item for every hunk of the delta.                   *)
LEMMA EvidenceItemsAre ==
  ASSUME NEW files, Len(files) \in Nat, NEW bundle, NEW task,
         task.scope \subseteq 1..Len(files),
         \A i \in task.scope : files[i].text.lines \subseteq Nat /\ bundle[i].read \in Nat,
         task.delta.files \in Seq(DeltaFile),
         \A a, b \in DOMAIN task.delta.files :
           task.delta.files[a].path = task.delta.files[b].path => a = b
  PROVE  /\ EvidenceItems(files, bundle, task) \in Seq(Evidence)
         /\ Itemizes(EvidenceItems(files, bundle, task), task.delta.files)
<1>1. PICK delta \in Seq(DeltaFile) : delta = task.delta.files
  OBVIOUS
<1>2. \A a, b \in DOMAIN delta : delta[a].path = delta[b].path => a = b
  BY <1>1
<1>3. \A k \in DOMAIN delta : delta[k].path \in Nat /\ delta[k].hunks \in Seq(Text)
  <2>1. \A k \in DOMAIN delta : delta[k] \in DeltaFile
    BY <1>1
  <2>2. QED
    BY <2>1 DEF DeltaFile
<1> DEFINE Row(k) == [h \in DOMAIN delta[k].hunks |->
                        [path |-> delta[k].path, hunk |-> h, text |-> delta[k].hunks[h]]]
           S == {i \in task.scope : files[i].kind = "script"}
<1>4. PICK R : R = [k \in DOMAIN delta |-> Row(k)]
  OBVIOUS
<1>5. ASSUME NEW k \in DOMAIN delta
      PROVE  /\ R[k] \in Seq(Evidence) /\ DOMAIN R[k] = DOMAIN delta[k].hunks
             /\ \A h \in DOMAIN R[k] : /\ h \in Nat \ {0} /\ R[k][h].path = delta[k].path
                                       /\ R[k][h].hunk = h /\ R[k][h].text = delta[k].hunks[h]
  <2>1. PICK w \in Seq(Text) : w = delta[k].hunks
    BY <1>3
  <2>2. PICK L \in Nat : L = Len(w) /\ DOMAIN w = 1..L
    BY <2>1
  <2>3. R[k] = [h \in 1..L |-> [path |-> delta[k].path, hunk |-> h, text |-> w[h]]]
    BY <1>4, <2>1, <2>2
  <2>4. \A h \in 1..L : /\ [path |-> delta[k].path, hunk |-> h, text |-> w[h]] \in Evidence
                        /\ h \in Nat \ {0}
    BY <1>3, <2>1, <2>2 DEF Evidence
  <2>5. R[k] \in Seq(Evidence) /\ DOMAIN R[k] = 1..L
    BY <2>3, <2>4
  <2>6. \A h \in 1..L : R[k][h] = [path |-> delta[k].path, hunk |-> h, text |-> w[h]]
    BY <2>3
  <2>7. \A h \in 1..L : /\ R[k][h].path = delta[k].path
                        /\ R[k][h].hunk = h /\ R[k][h].text = w[h]
    <3>1. ASSUME NEW h \in 1..L
          PROVE  R[k][h].path = delta[k].path /\ R[k][h].hunk = h /\ R[k][h].text = w[h]
      <4>1. PICK x : x = R[k][h] /\ x = [path |-> delta[k].path, hunk |-> h, text |-> w[h]]
        BY <2>6
      <4>2. x.path = delta[k].path /\ x.hunk = h /\ x.text = w[h]
        BY ONLY <4>1
      <4>3. QED
        BY <4>1, <4>2
    <3>2. QED
      BY <3>1
  <2>8. QED
    BY <2>1, <2>2, <2>4, <2>5, <2>7
<1>6. PICK D \in Nat : D = Len(delta) /\ DOMAIN delta = 1..D
  BY <1>1
<1>7. R \in Seq(Seq(Evidence)) /\ DOMAIN R = 1..D
  BY <1>4, <1>5, <1>6
<1>8. PICK a : a = FlattenSeq(R)
  OBVIOUS
<1>9. a \in Seq(Evidence) /\ Flattens(a, R, DOMAIN R)
  BY <1>7, <1>8, FlattenSeqFlattens
<1>10. PICK row, col : FlattensBy(a, R, DOMAIN R, row, col)
  BY <1>9 DEF Flattens
<1>11. /\ row \in [DOMAIN a -> DOMAIN R] /\ col \in [DOMAIN a -> Nat]
       /\ \A x \in DOMAIN a : col[x] \in DOMAIN R[row[x]] /\ a[x] = R[row[x]][col[x]]
       /\ \A x, y \in DOMAIN a : row[x] = row[y] /\ col[x] = col[y] => x = y
       /\ \A k \in DOMAIN R : \A h \in DOMAIN R[k] :
            \E x \in DOMAIN a : row[x] = k /\ col[x] = h
  BY <1>10 DEF FlattensBy
<1>12. \A x \in DOMAIN a : /\ row[x] \in DOMAIN delta /\ a[x].path = delta[row[x]].path
                           /\ a[x].hunk = col[x] /\ a[x].hunk # 0
  BY <1>5, <1>6, <1>7, <1>11
<1>13. PICK n \in Nat : n = Len(files)
  OBVIOUS
<1>14. PICK scripts : scripts = Sorted(S, Len(files))
  OBVIOUS
<1>15. scripts \in Seq(S)
  <2>1. S \subseteq 1..n
    BY <1>13
  <2> HIDE DEF S
  <2>2. QED
    BY <1>13, <1>14, <2>1, SortedIs
<1>16. PICK b : b = [k \in DOMAIN scripts |->
                       [path |-> scripts[k], hunk |-> 0,
                        text |-> TextRead(files[scripts[k]], bundle[scripts[k]].read)]]
  OBVIOUS
<1>17. PICK L \in Nat : L = Len(scripts) /\ DOMAIN scripts = 1..L
  <2> HIDE DEF S
  <2>1. QED
    BY <1>15
<1>18. ASSUME NEW k \in 1..L PROVE b[k] \in Evidence /\ b[k].hunk = 0
  <2>1. scripts[k] \in S
    <3> HIDE DEF S
    <3>1. QED
      BY <1>15, <1>17
  <2>2. PICK i \in task.scope : i = scripts[k] /\ i \in Nat
    BY <1>13, <2>1
  <2>3. TextRead(files[i], bundle[i].read) \in Text
    BY <2>2 DEF TextRead, Text
  <2>4. b[k] = [path |-> i, hunk |-> 0, text |-> TextRead(files[i], bundle[i].read)]
    BY <1>16, <1>17, <2>2
  <2>5. QED
    BY <2>2, <2>3, <2>4 DEF Evidence
<1>19. b \in Seq(Evidence) /\ Len(b) = L
  BY <1>16, <1>17, <1>18
<1>20. PICK items : items = a \o b
  OBVIOUS
<1>21. EvidenceItems(files, bundle, task) = items
  BY <1>1, <1>4, <1>8, <1>14, <1>16, <1>20 DEF EvidenceItems
<1>22. PICK A \in Nat : A = Len(a) /\ DOMAIN a = 1..A
  BY <1>9
<1>23. /\ items \in Seq(Evidence) /\ DOMAIN items = 1..(A + L)
       /\ \A x \in 1..A : x \in 1..(A + L) /\ items[x] = a[x]
       /\ \A x \in 1..L : items[A + x] = b[x]
  <2>1. items \in Seq(Evidence) /\ Len(items) = A + L
    <3>1. a \o b \in Seq(Evidence)
      BY <1>9, <1>19
    <3>2. Len(a \o b) = Len(a) + Len(b)
      BY <1>9, <1>19, ConcatProperties
    <3>3. QED
      BY <1>19, <1>20, <1>22, <3>1, <3>2
  <2>2. \A x \in 1..(A + L) : items[x] = IF x <= A THEN a[x] ELSE b[x - A]
    BY <1>9, <1>17, <1>19, <1>20, <1>22
  <2>3. \A x \in 1..L : A + x \in 1..(A + L) /\ ~(A + x <= A) /\ (A + x) - A = x
    OBVIOUS
  <2>4. QED
    BY <2>1, <2>2, <2>3
<1>24. \A x \in DOMAIN items : x \in DOMAIN a \/ items[x].hunk = 0
  <2>1. ASSUME NEW x \in 1..(A + L), x \notin 1..A PROVE items[x].hunk = 0
    <3>1. PICK y \in 1..L : x = A + y
      <4>1. x - A \in 1..L /\ x = A + (x - A)
        BY <2>1
      <4>2. QED
        BY <4>1
    <3>2. QED
      BY <1>18, <1>23, <3>1
  <2>2. QED
    BY <1>22, <1>23, <2>1
<1>25. ASSUME NEW k \in DOMAIN delta, NEW h \in DOMAIN delta[k].hunks
       PROVE  \E x \in DOMAIN items :
                /\ items[x].path = delta[k].path /\ items[x].hunk = h
                /\ items[x].text = delta[k].hunks[h]
                /\ Alone(items, x)
  <2>1. k \in DOMAIN R /\ h \in DOMAIN R[k] /\ h # 0
    BY <1>5, <1>6, <1>7
  <2>2. PICK x \in DOMAIN a : row[x] = k /\ col[x] = h
    BY <1>11, <2>1
  <2>3. x \in DOMAIN items /\ items[x] = R[k][h]
    BY <1>11, <1>22, <1>23, <2>2
  <2>4. items[x].path = delta[k].path /\ items[x].hunk = h /\ items[x].text = delta[k].hunks[h]
    BY <1>5, <2>1, <2>3
  <2>5. ASSUME NEW y \in DOMAIN items, items[y].path = items[x].path, items[y].hunk = items[x].hunk
        PROVE  y = x
    <3>1. y \in DOMAIN a /\ items[y] = a[y]
      BY <1>22, <1>23, <1>24, <2>1, <2>4, <2>5
    <3>2. row[y] \in DOMAIN delta /\ delta[row[y]].path = delta[k].path /\ col[y] = h
      BY <1>12, <2>4, <2>5, <3>1
    <3>3. row[y] = k
      BY <1>2, <3>2
    <3>4. QED
      BY <1>11, <2>2, <3>1, <3>2, <3>3
  <2>6. QED
    BY <2>3, <2>4, <2>5 DEF Alone
<1>26. Itemizes(items, delta)
  BY <1>25 DEF Itemizes
<1>27. QED
  BY <1>1, <1>21, <1>23, <1>26

-----------------------------------------------------------------------------
(* The scope.                                                              *)

(* The closure is reached: it has the given files, and every header that   *)
(* a member includes.                                                      *)
LEMMA ClosureIs ==
  ASSUME NEW files, NEW bundle, IsFiniteSet(DOMAIN bundle),
         NEW included, included \subseteq DOMAIN bundle
  PROVE  LET C == AddIncludeClosure(files, bundle, included)
         IN  /\ included \subseteq C /\ C \subseteq DOMAIN bundle
             /\ AddIncludes(files, bundle, C) = C
<1> DEFINE B == DOMAIN bundle
           D == SUBSET B
           Add(S) == AddIncludes(files, bundle, S)
           H == [g \in [D -> D] |-> [S \in D |-> IF Add(S) = S THEN S ELSE g[Add(S)]]]
           m == [S \in D |-> Cardinality(B) - Cardinality(S)]
           f == CHOOSE g : g = [S \in D |-> IF Add(S) = S THEN S ELSE g[Add(S)]]
<1>1. ASSUME NEW S \in D PROVE Add(S) \in D /\ S \subseteq Add(S)
  BY DEF AddIncludes, OfKind
<1>2. ASSUME NEW S \in D
      PROVE  /\ IsFiniteSet(S) /\ Cardinality(S) \in Nat
             /\ Cardinality(B) \in Nat /\ Cardinality(S) <= Cardinality(B)
  BY FS_Subset, FS_CardinalityType
<1> HIDE DEF Add, B
<1>3. ASSUME NEW S \in D, Add(S) # S PROVE Add(S) \in D /\ m[Add(S)] < m[S]
  <2>1. Add(S) \in D /\ S \subseteq Add(S)
    BY <1>1
  <2>2. Cardinality(S) < Cardinality(Add(S))
    <3>1. IsFiniteSet(Add(S)) /\ Cardinality(Add(S)) \in Nat /\ Cardinality(S) \in Nat
      BY <1>2, <2>1
    <3>2. /\ Cardinality(S) <= Cardinality(Add(S))
          /\ Cardinality(S) = Cardinality(Add(S)) => S = Add(S)
      BY <2>1, <3>1, FS_Subset
    <3>3. QED
      BY <1>3, <3>1, <3>2
  <2>3. QED
    BY <1>2, <2>1, <2>2
<1>4. Recursion(D, D, m, H)
  <2>1. D # {} /\ m \in [D -> Nat]
    <3>1. \A S \in D : Cardinality(B) - Cardinality(S) \in Nat
      BY <1>2
    <3>2. QED
      BY <3>1
  <2>2. H \in [[D -> D] -> [D -> D]]
    <3>1. ASSUME NEW g \in [D -> D], NEW S \in D, Add(S) # S PROVE g[Add(S)] \in D
      BY <1>1
    <3> HIDE DEF D
    <3>2. QED
      BY <3>1
  <2>3. ASSUME NEW g \in [D -> D], NEW h \in [D -> D], NEW S \in D,
               \A U \in D : m[U] < m[S] => g[U] = h[U]
        PROVE  H[g][S] = H[h][S]
    <3>1. Add(S) # S => g[Add(S)] = h[Add(S)]
      BY <1>3, <2>3
    <3>2. QED
      BY <3>1
  <2> HIDE DEF D, m, H
  <2>4. QED
    BY <2>1, <2>2, <2>3 DEF Recursion
<1>5. PICK g \in [D -> D] : H[g] = g
  <2> HIDE DEF D, m, H
  <2>1. QED
    BY <1>4, FixedPoint
<1>6. g = [S \in D |-> IF Add(S) = S THEN S ELSE g[Add(S)]]
  BY <1>5
<1>7. f = [S \in D |-> IF Add(S) = S THEN S ELSE f[Add(S)]]
  BY <1>6
<1>8. AddIncludeClosure(files, bundle, included) = f[included]
  BY DEF AddIncludeClosure, Add, B
<1> HIDE DEF f
<1> DEFINE Closes(S, C) == S \subseteq C /\ C \in D /\ Add(C) = C
           P == {n \in Nat : \A S \in D : m[S] = n => Closes(S, f[S])}
<1>9. ASSUME NEW n \in Nat, \A k \in 0..(n - 1) : k \in P PROVE n \in P
  <2>1. SUFFICES ASSUME NEW S \in D, m[S] = n PROVE Closes(S, f[S])
    OBVIOUS
  <2>2. CASE Add(S) = S
    <3>1. f[S] = S
      BY <1>7, <2>2
    <3>2. QED
      BY <2>2, <3>1
  <2>3. CASE Add(S) # S
    <3>1. f[S] = f[Add(S)]
      BY <1>7, <2>3
    <3>2. Add(S) \in D /\ m[Add(S)] \in 0..(n - 1) /\ S \subseteq Add(S)
      <4>1. m \in [D -> Nat] /\ Add(S) \in D
        <5> HIDE DEF m, D
        <5>1. QED
          BY <1>1, <1>4 DEF Recursion
      <4>2. m[Add(S)] \in Nat
        <5> HIDE DEF m
        <5>1. QED
          BY <4>1
      <4>3. Add(S) \in D /\ m[Add(S)] < m[S] /\ S \subseteq Add(S)
        BY <1>1, <1>3, <2>3
      <4> HIDE DEF m, D, Add
      <4>4. QED
        BY <2>1, <4>2, <4>3
    <3>3. Closes(Add(S), f[Add(S)])
      <4>1. m[Add(S)] \in P
        BY <1>9, <3>2
      <4>2. QED
        BY <3>2, <4>1
    <3>4. QED
      BY <3>1, <3>2, <3>3
  <2>4. QED
    BY <2>2, <2>3
<1>10. \A n \in Nat : n \in P
  <2> HIDE DEF P
  <2>1. QED
    BY <1>9, CompleteInduction
<1>11. Closes(included, f[included])
  <2>1. included \in D
    BY DEF B
  <2>2. m[included] \in Nat
    BY <1>2, <2>1
  <2>3. m[included] \in P
    BY <1>10, <2>2
  <2>4. QED
    BY <2>1, <2>2, <2>3
<1>12. QED
  BY <1>8, <1>11 DEF Add, B

(* The scope has what the build takes and what those files include, with   *)
(* the assets of these; and if a file was cut, all but the input file.     *)
LEMMA ExecutionScopeIs ==
  ASSUME NEW files, NEW bundle, IsFiniteSet(DOMAIN bundle)
  PROVE  /\ ExecutionScope(files, bundle) \subseteq DOMAIN bundle
         /\ \E C \in SUBSET ExecutionScope(files, bundle) :
              /\ BuildInputs(files, bundle) \subseteq C /\ AddIncludes(files, bundle, C) = C
              /\ RuntimeAssets(files, bundle, C) \subseteq ExecutionScope(files, bundle)
         /\ Truncated(bundle) # {} =>
              \A i \in DOMAIN bundle : files[i].kind # "input" => i \in ExecutionScope(files, bundle)
<1>1. BuildInputs(files, bundle) \subseteq DOMAIN bundle
  <2>1. Named(files, bundle) \subseteq DOMAIN bundle
    BY DEF Named
  <2>2. QED
    BY <2>1 DEF BuildInputs, Scripts, OfKind
<1>2. PICK C : C = AddIncludeClosure(files, bundle, BuildInputs(files, bundle))
  OBVIOUS
<1>3. /\ BuildInputs(files, bundle) \subseteq C /\ C \subseteq DOMAIN bundle
      /\ AddIncludes(files, bundle, C) = C
  BY <1>1, <1>2, ClosureIs
<1>4. /\ C \subseteq RuntimeAssets(files, bundle, C)
      /\ RuntimeAssets(files, bundle, C) \subseteq DOMAIN bundle
  BY <1>3 DEF RuntimeAssets, OfKind
<1>5. /\ RuntimeAssets(files, bundle, C) \subseteq ExecutionScope(files, bundle)
      /\ ExecutionScope(files, bundle) \subseteq DOMAIN bundle
      /\ Truncated(bundle) # {} =>
           \A i \in DOMAIN bundle : files[i].kind # "input" => i \in ExecutionScope(files, bundle)
  BY <1>2, <1>4 DEF ExecutionScope, ExecutionScopeAsFound
<1>6. C \in SUBSET ExecutionScope(files, bundle)
  BY <1>4, <1>5
<1>7. QED
  BY <1>3, <1>5, <1>6

(* Which files a build takes depends only on the files that are there.     *)
LEMMA BuildInputsOfDomain ==
  ASSUME NEW files, NEW a, NEW b, DOMAIN a = DOMAIN b
  PROVE  BuildInputs(files, a) = BuildInputs(files, b)
<1>1. \A kinds : OfKind(files, a, kinds) = OfKind(files, b, kinds)
  BY DEF OfKind
<1>2. Scripts(files, a) = Scripts(files, b)
  BY <1>1 DEF Scripts
<1>3. Styles(files, a) = Styles(files, b)
  BY <1>2 DEF Styles
<1>4. Named(files, a) = Named(files, b)
  BY <1>2 DEF Named
<1>5. QED
  BY <1>1, <1>2, <1>3, <1>4 DEF BuildInputs

IsFile(f) ==
  /\ f.kind \in Kinds
  /\ f.text.lines \subseteq Nat
  /\ "addition" \in DOMAIN f.hunks
  /\ \A b \in DOMAIN f.hunks : f.hunks[b] \in Seq(Text)

BaselineOf(lab4, files, bundle, scope, i) ==
  IF lab4 THEN SelectedBaseline(files[i], SelectReference(files, bundle, scope))
          ELSE CourseBaseline(files[i])

(* A file is only compared with a baseline that it has.                    *)
LEMMA BaselinesExist ==
  ASSUME NEW f, IsFile(f), NEW public
  PROVE  /\ CourseBaseline(f) \in DOMAIN f.hunks
         /\ SelectedBaseline(f, public) \in DOMAIN f.hunks
BY DEF IsFile, CourseBaseline, SelectedBaseline

(* What a task is made of.                                                 *)
IsTask(t, lab4, files, bundle, removed) ==
  /\ t.scope = IF lab4 THEN ExecutionScope(files, bundle) ELSE DOMAIN bundle
  /\ t.delta.incomplete <=> \E i \in t.scope : bundle[i].truncated
  /\ \E base :
       /\ \A i \in t.scope : base[i] = BaselineOf(lab4, files, bundle, t.scope, i)
       /\ IsDelta(t.delta.files, files, Changed(files, bundle, t.scope, base), base,
                  IF lab4 THEN <<>> ELSE removed)

(* The task of a review is as IsTask says, in Lab 4 and elsewhere.         *)
LEMMA ReviewScopeIs ==
  ASSUME NEW lab4 \in BOOLEAN, NEW files, Len(files) \in Nat,
         \A i \in 1..Len(files) : IsFile(files[i]),
         NEW bundle, DOMAIN bundle \subseteq 1..Len(files), NEW removed \in Seq(Seq(Text))
  PROVE  IsTask(ReviewScope(lab4, files, bundle, removed), lab4, files, bundle, removed)
<1>1. PICK S : S = IF lab4 THEN ExecutionScope(files, bundle) ELSE DOMAIN bundle
  OBVIOUS
<1>2. S \subseteq DOMAIN bundle
  <2>1. IsFiniteSet(1..Len(files))
    BY FS_Interval
  <2>2. IsFiniteSet(DOMAIN bundle)
    BY <2>1, FS_Subset
  <2>3. QED
    BY <1>1, <2>2, ExecutionScopeIs
<1>3. PICK base : base = [i \in S |-> BaselineOf(lab4, files, bundle, S, i)]
  OBVIOUS
<1>4. PICK gone \in Seq(Seq(Text)) : gone = IF lab4 THEN <<>> ELSE removed
  <2>1. <<>> \in Seq(Seq(Text))
    OBVIOUS
  <2>2. QED
    BY <2>1
<1>5. PICK delta : delta = BuildDelta(files, bundle, S, base, gone)
  OBVIOUS
<1>6. \A i \in S : files[i].kind \in Kinds /\ files[i].hunks[base[i]] \in Seq(Text)
  <2>1. ASSUME NEW i \in S
        PROVE  files[i].kind \in Kinds /\ files[i].hunks[base[i]] \in Seq(Text)
    <3>1. IsFile(files[i])
      BY <1>2
    <3>2. base[i] \in DOMAIN files[i].hunks
      BY <1>3, <3>1, BaselinesExist DEF BaselineOf
    <3>3. QED
      BY <3>1, <3>2 DEF IsFile
  <2>2. QED
    BY <2>1
<1>7. IsDelta(delta.files, files, Changed(files, bundle, S, base), base, gone)
  <2>1. S \subseteq 1..Len(files)
    BY <1>2
  <2>2. QED
    BY <1>4, <1>5, <1>6, <2>1, BuildDeltaIs
<1>8. delta.incomplete = \E i \in S : bundle[i].truncated
  BY <1>5 DEF BuildDelta
<1>9. ReviewScope(lab4, files, bundle, removed) = [scope |-> S, delta |-> delta]
  <2>1. CASE lab4
    <3>1. PICK p \in BOOLEAN : p = SelectReference(files, bundle, S)
      BY DEF SelectReference
    <3>2. base = [i \in S |-> SelectedBaseline(files[i], p)]
      BY <1>3, <2>1, <3>1 DEF BaselineOf
    <3>3. Lab4Task(files, bundle) = TaskAgainst(files, bundle, S, p)
      <4>1. S \in SUBSET DOMAIN bundle
        BY <1>2
      <4>2. Lab4Task(files, bundle) =
              [q \in BOOLEAN |-> TaskAgainst(files, bundle, S, q)]
                [SelectReference(files, bundle, S)]
        BY <1>1, <2>1, <4>1 DEF Lab4Task
      <4>3. QED
        BY <3>1, <4>2
    <3>4. QED
      BY <1>4, <1>5, <2>1, <3>2, <3>3 DEF ReviewScope, TaskAgainst
  <2>2. CASE ~lab4
    <3>1. base = [i \in DOMAIN bundle |-> CourseBaseline(files[i])]
      BY <1>1, <1>3, <2>2 DEF BaselineOf
    <3>2. QED
      BY <1>1, <1>4, <1>5, <2>2, <3>1 DEF ReviewScope, PlainTask
  <2>3. QED
    BY <2>1, <2>2
<1>10. IsTask([scope |-> S, delta |-> delta], lab4, files, bundle, removed)
  <2>1. \A i \in S : base[i] = BaselineOf(lab4, files, bundle, S, i)
    BY <1>3
  <2>2. QED
    BY <1>1, <1>4, <1>7, <1>8, <2>1 DEF IsTask
<1>11. QED
  BY <1>9, <1>10


-----------------------------------------------------------------------------
(* Merging.                                                                *)

(* r lists what is in s, each element once.                                *)
Lists(r, s) ==
  /\ \A a, b \in DOMAIN r : r[a] = r[b] => a = b
  /\ \A a \in DOMAIN r : \E i \in DOMAIN s : s[i] = r[a]
  /\ \A i \in DOMAIN s : \E a \in DOMAIN r : r[a] = s[i]

(* FirstOfEach lists what a sequence holds, each value once.               *)
LEMMA FirstOfEachIs ==
  ASSUME NEW V, NEW s \in Seq(V)
  PROVE  FirstOfEach(s) \in Seq(V) /\ Lists(FirstOfEach(s), s)
<1> DEFINE New(t) == {i \in DOMAIN t : \A j \in 1..(i - 1) : t[j] # t[i]}
<1>1. s \in Seq(Range(s))
  BY DEF Range
<1>2. FirstOfEach(s) = AtPositions(s, New(s))
  BY <1>1 DEF FirstOfEach
<1>3. PICK r : r = AtPositions(s, New(s))
  OBVIOUS
<1>4. PICK I : I = New(s)
  OBVIOUS
<1>5. /\ I \subseteq DOMAIN s
      /\ \A i \in I : \A j \in 1..(i - 1) : s[j] # s[i]
      /\ \A i \in DOMAIN s : (\A j \in 1..(i - 1) : s[j] # s[i]) => i \in I
  BY <1>4
<1>6. r \in Seq(V) /\ Selects(r, s, DOMAIN s \cap I)
  BY <1>3, <1>4, AtPositionsSelects
<1>7. PICK p \in [DOMAIN r -> DOMAIN s \cap I] :
        /\ \A a, b \in DOMAIN r : p[a] = p[b] => a = b
        /\ \A j \in DOMAIN s \cap I : \E a \in DOMAIN r : p[a] = j
        /\ \A a \in DOMAIN r : r[a] = s[p[a]]
  BY <1>6 DEF Selects
<1>8. DOMAIN s = 1..Len(s) /\ Len(s) \in Nat
  OBVIOUS
<1>9. ASSUME NEW i \in I, NEW j \in I, s[i] = s[j] PROVE i = j
  <2>1. i \in 1..Len(s) /\ j \in 1..Len(s)
    BY <1>5, <1>8
  <2>2. ~(j < i) /\ ~(i < j)
    BY <1>5, <1>8, <1>9, <2>1
  <2>3. QED
    BY <2>1, <2>2
<1>10. ASSUME NEW a \in DOMAIN r, NEW b \in DOMAIN r, r[a] = r[b] PROVE a = b
  <2>1. p[a] \in I /\ p[b] \in I /\ s[p[a]] = s[p[b]]
    BY <1>7, <1>10
  <2>2. QED
    BY <1>7, <1>9, <2>1
<1>11. ASSUME NEW a \in DOMAIN r PROVE \E i \in DOMAIN s : s[i] = r[a]
  BY <1>7, <1>11
<1>12. ASSUME NEW i \in DOMAIN s PROVE \E a \in DOMAIN r : r[a] = s[i]
  <2> DEFINE Same == {j \in DOMAIN s : s[j] = s[i]}
  <2>1. Same \subseteq Nat /\ Same # {}
    BY <1>8, <1>12
  <2>2. PICK j \in Same : \A k \in Same : j <= k
    BY <2>1, LeastNat
  <2>3. j \in 1..Len(s) /\ s[j] = s[i] /\ j \in DOMAIN s
    BY <1>8, <2>2
  <2>4. \A k \in 1..(j - 1) : s[k] # s[j]
    <3>1. ASSUME NEW k \in 1..(j - 1), s[k] = s[j] PROVE FALSE
      <4>1. k \in Same /\ k \in Nat /\ k < j
        BY <1>8, <2>3, <3>1
      <4>2. QED
        BY <2>2, <2>3, <4>1
    <3>2. QED
      BY <3>1
  <2>5. j \in DOMAIN s \cap I
    BY <1>5, <2>3, <2>4
  <2>6. QED
    BY <1>7, <2>3, <2>5
<1>13. Lists(r, s)
  BY <1>10, <1>11, <1>12 DEF Lists
<1>14. QED
  BY <1>2, <1>3, <1>6, <1>13

Reported(verdicts, v) ==
  \E i \in DOMAIN verdicts : \E x \in DOMAIN verdicts[i].violations :
    verdicts[i].violations[x] = v

(* The violations of several verdicts, each listed once.                   *)
LEMMA AllViolationsIs ==
  ASSUME NEW V, NEW verdicts, Len(verdicts) \in Nat, DOMAIN verdicts = 1..Len(verdicts),
         \A i \in DOMAIN verdicts : verdicts[i].violations \in Seq(V)
  PROVE  /\ IsInjective(AllViolations(verdicts))
         /\ \A v : (\E a \in DOMAIN AllViolations(verdicts) : AllViolations(verdicts)[a] = v)
                     <=> Reported(verdicts, v)
<1> DEFINE ss == [i \in DOMAIN verdicts |-> verdicts[i].violations]
<1>1. ss \in Seq(Seq(V)) /\ DOMAIN ss = DOMAIN verdicts
  OBVIOUS
<1>2. PICK s \in Seq(V) : s = FlattenSeq(ss) /\ Flattens(s, ss, DOMAIN ss)
  BY <1>1, FlattenSeqFlattens
<1>3. PICK r \in Seq(V) : r = FirstOfEach(s) /\ Lists(r, s)
  BY <1>2, FirstOfEachIs
<1>4. AllViolations(verdicts) = r
  BY <1>2, <1>3 DEF AllViolations
<1>5. \A i \in DOMAIN verdicts : ss[i] = verdicts[i].violations
  OBVIOUS
<1>6. PICK row, col : FlattensBy(s, ss, DOMAIN ss, row, col)
  BY <1>2 DEF Flattens
<1> HIDE DEF ss
<1>7. ASSUME NEW v, NEW a \in DOMAIN r, r[a] = v PROVE Reported(verdicts, v)
  <2>1. PICK q \in DOMAIN s : s[q] = v
    BY <1>3, <1>7 DEF Lists
  <2>2. row[q] \in DOMAIN verdicts /\ col[q] \in DOMAIN ss[row[q]] /\ v = ss[row[q]][col[q]]
    BY <1>1, <1>6, <2>1 DEF FlattensBy
  <2>3. QED
    BY <1>5, <2>2 DEF Reported
<1>8. ASSUME NEW v, Reported(verdicts, v) PROVE \E a \in DOMAIN r : r[a] = v
  <2>0. PICK i \in DOMAIN verdicts :
          \E x \in DOMAIN verdicts[i].violations : verdicts[i].violations[x] = v
    BY <1>8 DEF Reported
  <2>1. PICK x \in DOMAIN verdicts[i].violations : verdicts[i].violations[x] = v
    BY <2>0
  <2>2. i \in DOMAIN ss /\ x \in DOMAIN ss[i] /\ ss[i][x] = v
    BY <1>1, <1>5, <2>1
  <2>3. PICK q \in DOMAIN s : row[q] = i /\ col[q] = x
    BY <1>6, <2>2 DEF FlattensBy
  <2>4. s[q] = v
    BY <1>6, <2>2, <2>3 DEF FlattensBy
  <2>5. QED
    BY <1>3, <2>4 DEF Lists
<1>9. IsInjective(r)
  BY <1>3 DEF Lists, IsInjective
<1>10. QED
  BY <1>4, <1>7, <1>8, <1>9

-----------------------------------------------------------------------------
(* Every review has a prompt.                                              *)

(* A text, even an empty one, has a part.                                  *)
LEMMA SplitIsNotEmpty ==
  ASSUME NEW text, IsText(text), NEW max \in Nat \ {0}
  PROVE  1 \in DOMAIN SplitEvidenceItem(text, max)
<1>1. PICK s : s = SplitEvidenceItem(text, max)
  OBVIOUS
<1>2. CASE text.len <= max
  <2>1. s = <<[core |-> <<0, text.len>>, first |-> 0, last |-> text.len]>>
    BY <1>1, <1>2 DEF SplitEvidenceItem
  <2>2. DOMAIN s = 1..1
    BY <2>1
  <2>3. QED
    BY <1>1, <2>2
<1>3. CASE text.len > max
  <2>1. Covers(s, 0, text.len, max)
    BY <1>1, SplitCovers
  <2>2. 0 \in 0..(text.len - 1)
    BY <1>3 DEF IsText
  <2>3. s \in Seq(Piece) /\ \E q \in DOMAIN s : Has(s[q], 0)
    BY <2>1, <2>2 DEF Covers
  <2>4. 1 \in DOMAIN s
    BY <2>3
  <2>5. QED
    BY <1>1, <2>4
<1>4. QED
  BY <1>2, <1>3 DEF IsText

(* There is always a prompt.                                               *)
LEMMA ChunksNotEmpty ==
  ASSUME NEW items \in Seq(Evidence), NEW chars \in Nat
  PROVE  ComplianceChunks(items, chars) # <<>>
<1>1. CASE items = <<>>
  <2>1. ComplianceChunks(items, chars) = << <<>> >>
    BY <1>1 DEF ComplianceChunks
  <2>2. << <<>> >> # <<>>
    OBVIOUS
  <2>3. QED
    BY <2>1, <2>2
<1>2. CASE items # <<>>
  <2>1. PICK parts : parts = Parts(items, chars)
    OBVIOUS
  <2>2. Splits(parts, items, chars)
    BY <2>1, PartsSplit
  <2>3. parts \in Seq(Part)
    BY <2>2 DEF Splits
  <2>4. Packs(ComplianceChunks(items, chars), parts, chars)
    BY <1>2, <2>1, <2>3, PackPacks
  <2>5. parts # <<>>
    <3>1. PICK R : R = [k \in DOMAIN items |-> PartsOf(items[k], chars)]
      OBVIOUS
    <3>2. parts = FlattenSeq(R)
      BY <2>1, <3>1 DEF Parts, PartsOf
    <3>3. DOMAIN items = 1..Len(items) /\ Len(items) \in Nat /\ 1 \in DOMAIN items
      BY <1>2
    <3>4. \A k \in DOMAIN items : R[k] \in Seq(Part)
      BY <3>1, PartsOfIs DEF IsSplit
    <3>5. R \in Seq(Seq(Part)) /\ DOMAIN R = DOMAIN items
      BY <3>1, <3>3, <3>4
    <3>6. Flattens(parts, R, DOMAIN R)
      BY <3>2, <3>5, FlattenSeqFlattens
    <3>7. 1 \in DOMAIN R[1]
      <4>1. items[1].text \in Text
        <5>1. items[1] \in Evidence
          BY <3>3
        <5>2. QED
          BY <5>1 DEF Evidence
      <4>2. IsText(items[1].text)
        BY <4>1 DEF IsText, Text
      <4>3. 1 \in DOMAIN SplitEvidenceItem(items[1].text, PartLimit(chars))
        BY <4>2, PartLimitIs, SplitIsNotEmpty
      <4>4. QED
        BY <3>1, <3>3, <4>3 DEF PartsOf
    <3>8. \E a : a \in DOMAIN parts
      BY <3>3, <3>5, <3>6, <3>7 DEF Flattens, FlattensBy
    <3>9. QED
      BY <3>8
  <2>6. QED
    BY <2>4, <2>5 DEF Packs
<1>3. QED
  BY <1>1, <1>2

-----------------------------------------------------------------------------
(* Budgets.                                                                *)

(* The items of U that come first get the lowest ranks, and as many items  *)
(* as there are ranks below n have such a rank.                            *)
LEMMA AheadIs ==
  ASSUME NEW items \in Seq(Item), NEW U, U \subseteq DOMAIN items, IsFiniteSet(U)
  PROVE  /\ \A i \in U : Cardinality(Ahead(items, U, i)) \in 0..(Cardinality(U) - 1)
         /\ \A i, j \in U :
              Cardinality(Ahead(items, U, i)) = Cardinality(Ahead(items, U, j)) => i = j
<1>1. \A i \in U : i \in Nat /\ items[i].size \in Nat /\ items[i].priority \in Nat
  <2>1. \A i \in U : i \in Nat /\ items[i] \in Item
    OBVIOUS
  <2>2. QED
    BY <2>1 DEF Item
<1>2. \A i \in U : /\ IsFiniteSet(Ahead(items, U, i)) /\ i \notin Ahead(items, U, i)
                   /\ Ahead(items, U, i) \subseteq U
                   /\ Cardinality(Ahead(items, U, i)) \in Nat
  <2>1. ASSUME NEW i \in U
        PROVE  /\ Ahead(items, U, i) \in SUBSET U /\ i \notin Ahead(items, U, i)
    BY <1>1 DEF Ahead, Before
  <2>2. QED
    BY <2>1, FS_Subset, FS_CardinalityType
<1>3. ASSUME NEW i \in U
      PROVE  Cardinality(Ahead(items, U, i)) \in 0..(Cardinality(U) - 1)
  <2>1. PICK A : A = Ahead(items, U, i)
    OBVIOUS
  <2>2. A \in SUBSET U /\ A # U /\ Cardinality(A) \in Nat
    BY <1>2, <1>3, <2>1
  <2>3. Cardinality(A) <= Cardinality(U) /\ Cardinality(A) # Cardinality(U)
    BY <2>2, FS_Subset
  <2>4. Cardinality(U) \in Nat
    BY FS_CardinalityType
  <2>5. QED
    BY <2>1, <2>2, <2>3, <2>4
<1>4. ASSUME NEW i \in U, NEW j \in U, Before(items, i, j)
      PROVE  Cardinality(Ahead(items, U, i)) # Cardinality(Ahead(items, U, j))
  <2>1. PICK A : A = Ahead(items, U, i)
    OBVIOUS
  <2>2. PICK B : B = Ahead(items, U, j)
    OBVIOUS
  <2>3. A \subseteq B
    <3>1. ASSUME NEW k \in A PROVE k \in B
      <4>1. k \in U /\ Before(items, k, i)
        BY <2>1, <3>1 DEF Ahead
      <4>2. Before(items, k, j)
        BY <1>1, <1>4, <4>1 DEF Before
      <4>3. QED
        BY <2>2, <4>1, <4>2 DEF Ahead
    <3>2. QED
      BY <3>1
  <2>4. i \in B /\ i \notin A /\ IsFiniteSet(B)
    BY <1>2, <1>4, <2>1, <2>2 DEF Ahead
  <2>5. Cardinality(A) = Cardinality(B) => A = B
    BY <2>3, <2>4, FS_Subset
  <2>6. QED
    BY <2>1, <2>2, <2>4, <2>5
<1>5. ASSUME NEW i \in U, NEW j \in U, i # j
      PROVE  Before(items, i, j) \/ Before(items, j, i)
  BY <1>1, <1>5 DEF Before
<1>6. QED
  BY <1>3, <1>4, <1>5

(* When ranks are distinct and leave no gap, there are n below n, or all   *)
(* of them.                                                                *)
LEMMA RanksBelow ==
  ASSUME NEW U, IsFiniteSet(U), NEW rk \in [U -> 0..(Cardinality(U) - 1)],
         \A x, y \in U : rk[x] = rk[y] => x = y, NEW n \in Nat,
         NEW S, S = {x \in U : rk[x] < n}
  PROVE  /\ IsFiniteSet(S)
         /\ Cardinality(S) = IF n <= Cardinality(U) THEN n ELSE Cardinality(U)
<1>1. PICK c \in Nat : c = Cardinality(U)
  BY FS_CardinalityType
<1>2. IsFiniteSet(0..(c - 1)) /\ Cardinality(0..(c - 1)) = c
  <2>1. 0 \in Int /\ c - 1 \in Int
    OBVIOUS
  <2>2. QED
    BY <2>1, FS_Interval
<1>3. rk \in Injection(U, 0..(c - 1))
  BY <1>1 DEF Injection, IsInjective
<1>4. rk \in Surjection(U, 0..(c - 1))
  BY <1>1, <1>2, <1>3, FS_Injection
<1>5. \A r \in 0..(c - 1) : \E x \in U : rk[x] = r
  BY <1>4 DEF Surjection
<1>6. PICK k \in Nat : k = IF n <= c THEN n ELSE c
  OBVIOUS
<1>7. IsFiniteSet(0..(k - 1)) /\ Cardinality(0..(k - 1)) = k
  <2>1. 0 \in Int /\ k - 1 \in Int
    OBVIOUS
  <2>2. QED
    BY <2>1, FS_Interval
<1>8. PICK g : g = [x \in S |-> rk[x]]
  OBVIOUS
<1>9. \A x \in S : x \in U /\ rk[x] < n /\ rk[x] \in 0..(c - 1) /\ rk[x] \in 0..(k - 1)
  BY <1>1, <1>6
<1>10. g \in Injection(S, 0..(k - 1))
  BY <1>8, <1>9 DEF Injection, IsInjective
<1>11. \A r \in 0..(k - 1) : \E x \in S : g[x] = r
  <2>1. ASSUME NEW r \in 0..(k - 1) PROVE \E x \in S : g[x] = r
    <3>1. r \in 0..(c - 1) /\ r < n
      BY <1>6
    <3>2. PICK x \in U : rk[x] = r
      BY <1>5, <3>1
    <3>3. x \in S
      BY <3>1, <3>2
    <3>4. QED
      BY <1>8, <3>2, <3>3
  <2>2. QED
    BY <2>1
<1>12. g \in Surjection(S, 0..(k - 1))
  BY <1>10, <1>11 DEF Injection, Surjection
<1>13. IsFiniteSet(S) /\ Cardinality(S) = Cardinality(0..(k - 1))
  BY <1>7, <1>10, <1>12, FS_Injection
<1>14. QED
  BY <1>1, <1>6, <1>7, <1>13

(* A sum grows with its terms.                                             *)
LEMMA SumMonotone ==
  ASSUME NEW D, IsFiniteSet(D), NEW a, NEW b,
         \A i \in D : a[i] \in Nat /\ b[i] \in Nat /\ a[i] <= b[i]
  PROVE  SumFunctionOnSet(a, D) <= SumFunctionOnSet(b, D)
<1> DEFINE P == {T \in SUBSET D : SumFunctionOnSet(a, T) <= SumFunctionOnSet(b, T)}
<1>1. ASSUME NEW T \in SUBSET D, \A x \in T : T \ {x} \in P PROVE T \in P
  <2>1. CASE T = {}
    <3>1. SumFunctionOnSet(a, T) = 0 /\ SumFunctionOnSet(b, T) = 0
      BY <2>1, SumOfNone
    <3>2. QED
      BY <3>1
  <2>2. CASE T # {}
    <3>1. PICK x \in T : TRUE
      BY <2>2
    <3>2. PICK U : U = T \ {x}
      OBVIOUS
    <3>3. U \in P /\ IsFiniteSet(T) /\ IsFiniteSet(U) /\ x \in D
      BY <1>1, <3>1, <3>2, FS_Subset
    <3>4. SumFunctionOnSet(a, U) \in Nat /\ SumFunctionOnSet(b, U) \in Nat
      BY <3>3, SumIsNat
    <3>5. SumFunctionOnSet(a, T) = a[x] + SumFunctionOnSet(a, U)
      BY <3>1, <3>2, <3>3, SumRemove
    <3>6. SumFunctionOnSet(b, T) = b[x] + SumFunctionOnSet(b, U)
      BY <3>1, <3>2, <3>3, SumRemove
    <3>7. SumFunctionOnSet(a, U) <= SumFunctionOnSet(b, U) /\ a[x] \in Nat /\ b[x] \in Nat /\ a[x] <= b[x]
      BY <3>3
    <3>8. QED
      BY <3>4, <3>5, <3>6, <3>7
  <2>3. QED
    BY <2>1, <2>2
<1>2. \A T \in SUBSET D : T \in P
  <2> HIDE DEF P
  <2>1. QED
    BY <1>1, SetInduction
<1>3. D \in P
  BY <1>2
<1>4. QED
  BY <1>3

(* Giving one more to the members of S adds their number to the sum.       *)
LEMMA SumRaise ==
  ASSUME NEW D, IsFiniteSet(D), NEW S, S \subseteq D, NEW b, NEW r,
         \A i \in D : b[i] \in Nat /\ r[i] = IF i \in S THEN b[i] + 1 ELSE b[i]
  PROVE  SumFunctionOnSet(r, D) = SumFunctionOnSet(b, D) + Cardinality(S)
<1> DEFINE P == {T \in SUBSET D :
                   SumFunctionOnSet(r, T) = SumFunctionOnSet(b, T) + Cardinality(T \cap S)}
<1>1. \A i \in D : r[i] \in Nat
  OBVIOUS
<1>2. ASSUME NEW T \in SUBSET D, \A x \in T : T \ {x} \in P PROVE T \in P
  <2>1. CASE T = {}
    <3>1. SumFunctionOnSet(r, T) = 0 /\ SumFunctionOnSet(b, T) = 0
      BY <2>1, SumOfNone
    <3>2. T \cap S = {} /\ Cardinality({}) = 0
      BY <2>1, FS_EmptySet
    <3>3. QED
      BY <3>1, <3>2
  <2>2. CASE T # {}
    <3>1. PICK x \in T : TRUE
      BY <2>2
    <3>2. PICK U : U = T \ {x}
      OBVIOUS
    <3>3. U \in P /\ U \in SUBSET D /\ IsFiniteSet(T) /\ IsFiniteSet(U) /\ x \in D
      BY <1>2, <3>1, <3>2, FS_Subset
    <3>4. SumFunctionOnSet(r, U) = SumFunctionOnSet(b, U) + Cardinality(U \cap S)
      BY <3>3
    <3>5. SumFunctionOnSet(b, U) \in Nat
      BY <3>3, SumIsNat
    <3>6. SumFunctionOnSet(r, T) = r[x] + SumFunctionOnSet(r, U)
      BY <1>1, <3>1, <3>2, <3>3, SumRemove
    <3>7. SumFunctionOnSet(b, T) = b[x] + SumFunctionOnSet(b, U)
      BY <3>1, <3>2, <3>3, SumRemove
    <3>8. IsFiniteSet(U \cap S) /\ Cardinality(U \cap S) \in Nat
      BY <3>3, FS_Intersection, FS_CardinalityType
    <3>9. Cardinality(T \cap S) = IF x \in S THEN Cardinality(U \cap S) + 1 ELSE Cardinality(U \cap S)
      <4>1. CASE x \in S
        <5>1. T \cap S = (U \cap S) \cup {x} /\ x \notin U \cap S
          BY <3>1, <3>2, <4>1
        <5>2. QED
          BY <3>8, <4>1, <5>1, FS_AddElement
      <4>2. CASE x \notin S
        <5>1. T \cap S = U \cap S
          BY <3>1, <3>2, <4>2
        <5>2. QED
          BY <4>2, <5>1
      <4>3. QED
        BY <4>1, <4>2
    <3>10. b[x] \in Nat /\ r[x] = IF x \in S THEN b[x] + 1 ELSE b[x]
      BY <3>3
    <3>11. SumFunctionOnSet(r, T) = SumFunctionOnSet(b, T) + Cardinality(T \cap S)
      BY <3>4, <3>5, <3>6, <3>7, <3>8, <3>9, <3>10
    <3>12. QED
      BY <3>11
  <2>3. QED
    BY <2>1, <2>2
<1>3. \A T \in SUBSET D : T \in P
  <2> HIDE DEF P
  <2>1. QED
    BY <1>2, SetInduction
<1>4. D \cap S = S
  OBVIOUS
<1>5. D \in P
  BY <1>3
<1>6. QED
  BY <1>4, <1>5

(* b gives every item at least what a gives it, and no more than its size. *)
Between(items, a, b) ==
  /\ b \in [DOMAIN items -> Nat]
  /\ \A i \in DOMAIN items : a[i] <= b[i] /\ b[i] <= items[i].size

(* The items are finitely many and have sizes.                             *)
LEMMA ItemsAreFinite ==
  ASSUME NEW items \in Seq(Item)
  PROVE  IsFiniteSet(DOMAIN items) /\ \A i \in DOMAIN items : items[i].size \in Nat
<1>1. DOMAIN items = 1..Len(items) /\ Len(items) \in Nat /\ 1 \in Int
  OBVIOUS
<1>2. IsFiniteSet(DOMAIN items)
  BY <1>1, FS_Interval
<1>3. \A i \in DOMAIN items : items[i] \in Item
  OBVIOUS
<1>4. QED
  BY <1>2, <1>3 DEF Item

(* A round gives out what is left, or one to each item that can take it.   *)
LEMMA RoundIs ==
  ASSUME NEW items \in Seq(Item), NEW b, Between(items, b, b), NEW n \in Nat,
         NEW r, r = Round(items, b, n)
  PROVE  LET u == Cardinality(Unfilled(items, b))
         IN  /\ Between(items, b, r) /\ u \in Nat
             /\ TotalOf(r) = TotalOf(b) + (IF n <= u THEN n ELSE u)
             /\ TotalOf(b) \in Nat
<1>1. IsFiniteSet(DOMAIN items) /\ \A i \in DOMAIN items : items[i].size \in Nat
  BY ItemsAreFinite
<1>2. PICK U : U = Unfilled(items, b)
  OBVIOUS
<1>3. U \subseteq DOMAIN items /\ \A i \in U : b[i] < items[i].size
  BY <1>2 DEF Unfilled
<1>4. IsFiniteSet(U) /\ Cardinality(U) \in Nat
  BY <1>1, <1>3, FS_Subset, FS_CardinalityType
<1>5. PICK rk : rk = [i \in U |-> Cardinality(Ahead(items, U, i))]
  OBVIOUS
<1>6. /\ \A i \in U : Cardinality(Ahead(items, U, i)) \in 0..(Cardinality(U) - 1)
      /\ \A i, j \in U :
           Cardinality(Ahead(items, U, i)) = Cardinality(Ahead(items, U, j)) => i = j
  BY <1>3, <1>4, AheadIs
<1>7. rk \in [U -> 0..(Cardinality(U) - 1)] /\ \A x, y \in U : rk[x] = rk[y] => x = y
  BY <1>5, <1>6
<1>8. PICK S : S = {i \in U : rk[i] < n}
  OBVIOUS
<1>9. Cardinality(S) = IF n <= Cardinality(U) THEN n ELSE Cardinality(U)
  BY <1>4, <1>7, <1>8, RanksBelow
<1>10. r = [i \in DOMAIN items |-> IF i \in S THEN b[i] + 1 ELSE b[i]]
  <2>1. \A i : i \in S <=> i \in U /\ Cardinality(Ahead(items, U, i)) < n
    BY <1>5, <1>8
  <2>2. QED
    BY <1>2, <2>1 DEF Round
<1>11. S \subseteq DOMAIN items /\ \A i \in S : b[i] < items[i].size
  BY <1>3, <1>8
<1>12. \A i \in DOMAIN items : b[i] \in Nat /\ b[i] <= items[i].size
  BY DEF Between
<1>13. \A i \in DOMAIN items : r[i] = IF i \in S THEN b[i] + 1 ELSE b[i]
  BY <1>10
<1>14. Between(items, b, r)
  <2>1. \A i \in DOMAIN items : r[i] \in Nat /\ b[i] <= r[i] /\ r[i] <= items[i].size
    BY <1>1, <1>11, <1>12, <1>13
  <2>2. QED
    BY <1>10, <2>1 DEF Between
<1>15. SumFunctionOnSet(r, DOMAIN items) = SumFunctionOnSet(b, DOMAIN items) + Cardinality(S)
  BY <1>1, <1>11, <1>12, <1>13, SumRaise
<1>16. DOMAIN r = DOMAIN items /\ DOMAIN b = DOMAIN items
  BY <1>10 DEF Between
<1>17. TotalOf(r) = TotalOf(b) + Cardinality(S)
  BY <1>15, <1>16 DEF TotalOf, SumFunction
<1>18. TotalOf(b) \in Nat
  BY <1>1, <1>12, <1>16, SumIsNat DEF TotalOf, SumFunction
<1>19. QED
  BY <1>2, <1>4, <1>9, <1>14, <1>17, <1>18

(* r deals out n above b, unless every item becomes complete before.       *)
Dealt(items, b, n, r) ==
  /\ Between(items, b, r)
  /\ TotalOf(r) \in Nat
  /\ TotalOf(r) <= TotalOf(b) + (IF n > 0 THEN n ELSE 0)
  /\ Unfilled(items, r) # {} => TotalOf(r) >= TotalOf(b) + n

(* The total of budgets is a number.                                       *)
LEMMA TotalIsNat ==
  ASSUME NEW items \in Seq(Item), NEW b, Between(items, b, b)
  PROVE  TotalOf(b) \in Nat
<1>1. DOMAIN b = DOMAIN items /\ \A i \in DOMAIN items : b[i] \in Nat
  BY DEF Between
<1>2. IsFiniteSet(DOMAIN items)
  BY ItemsAreFinite
<1>3. QED
  BY <1>1, <1>2, SumIsNat DEF TotalOf, SumFunction

Hand(budgets, left) == [budgets |-> budgets, left |-> left]

(* The rounds end, and deal out what they were given.                      *)
LEMMA DealIs ==
  ASSUME NEW items \in Seq(Item), NEW shares, Between(items, shares, shares), NEW rest \in Int
  PROVE  Dealt(items, shares, rest, Deal(items, shares, rest))
<1> DEFINE W == [DOMAIN items -> Nat]
           D == [budgets : W, left : Int]
           U(b) == Unfilled(items, b)
           After(s) == Hand(Round(items, s.budgets, s.left), s.left - Cardinality(U(s.budgets)))
           Stops(s) == s.left <= 0 \/ U(s.budgets) = {}
           H == [g \in [D -> W] |-> [s \in D |-> IF Stops(s) THEN s.budgets ELSE g[After(s)]]]
           m == [s \in D |-> IF s.left > 0 THEN s.left ELSE 0]
           f == CHOOSE g : g = [s \in D |-> IF Stops(s) THEN s.budgets ELSE g[After(s)]]
<1>1. \A s \in D : s.budgets \in W /\ s.left \in Int
  OBVIOUS
<1>2. ASSUME NEW b \in W
      PROVE  Cardinality(U(b)) \in Nat /\ (U(b) # {} => Cardinality(U(b)) > 0)
  <2>1. U(b) \in SUBSET DOMAIN items /\ IsFiniteSet(DOMAIN items)
    BY ItemsAreFinite DEF Unfilled
  <2>2. IsFiniteSet(U(b)) /\ Cardinality(U(b)) \in Nat
    BY <2>1, FS_Subset, FS_CardinalityType
  <2>3. U(b) # {} => Cardinality(U(b)) # 0
    BY <2>2, FS_EmptySet
  <2>4. QED
    BY <2>2, <2>3
<1>3. ASSUME NEW s \in D
      PROVE  /\ After(s) \in D
             /\ After(s).budgets = Round(items, s.budgets, s.left)
             /\ After(s).left = s.left - Cardinality(U(s.budgets))
             /\ m[s] \in Nat
             /\ ~Stops(s) => m[After(s)] < m[s]
  <2>1. PICK b \in W : b = s.budgets
    BY <1>1
  <2>2. PICK n \in Int : n = s.left
    BY <1>1
  <2>3. PICK u \in Nat : u = Cardinality(U(b)) /\ (U(b) # {} => u > 0)
    BY <1>2
  <2>4. Round(items, b, n) \in W
    <3>1. \A i \in DOMAIN items : b[i] \in Nat /\ b[i] + 1 \in Nat
      OBVIOUS
    <3>2. QED
      BY <3>1 DEF Round
  <2>5. After(s) = Hand(Round(items, b, n), n - u)
    BY <2>1, <2>2, <2>3
  <2>6. After(s) \in D /\ After(s).budgets = Round(items, b, n) /\ After(s).left = n - u
    BY <2>4, <2>5 DEF Hand
  <2>7. m[s] = (IF n > 0 THEN n ELSE 0) /\ m[After(s)] = (IF n - u > 0 THEN n - u ELSE 0)
    BY <2>2, <2>6
  <2>8. ~Stops(s) => n > 0 /\ u > 0
    BY <2>1, <2>2, <2>3
  <2>9. QED
    BY <2>1, <2>2, <2>3, <2>6, <2>7, <2>8
<1>4. H \in [[D -> W] -> [D -> W]]
  <2>1. ASSUME NEW g \in [D -> W], NEW s \in D
        PROVE  s.budgets \in W /\ g[After(s)] \in W
    BY <1>1, <1>3
  <2> HIDE DEF D, W, After, Stops
  <2>2. QED
    BY <2>1
<1>5. Recursion(D, W, m, H)
  <2>1. W # {}
    <3>1. [i \in DOMAIN items |-> 0] \in W
      OBVIOUS
    <3>2. QED
      BY <3>1
  <2>2. m \in [D -> Nat]
    BY <1>3
  <2>3. ASSUME NEW g \in [D -> W], NEW h \in [D -> W], NEW s \in D,
               \A y \in D : m[y] < m[s] => g[y] = h[y]
        PROVE  H[g][s] = H[h][s]
    <3>1. ~Stops(s) => g[After(s)] = h[After(s)]
      BY <1>3, <2>3
    <3> HIDE DEF D, W, After, Stops, m
    <3>2. QED
      BY <3>1
  <2>4. QED
    <3> HIDE DEF D, W, H, m
    <3>1. QED
      BY <1>4, <2>1, <2>2, <2>3 DEF Recursion
<1>6. \E g \in [D -> W] : H[g] = g
  <2> HIDE DEF D, W, H, m
  <2>1. QED
    BY <1>5, FixedPoint
<1>7. PICK g \in [D -> W] : H[g] = g
  BY <1>6
<1>8. g = [s \in D |-> IF Stops(s) THEN s.budgets ELSE g[After(s)]]
  <2> HIDE DEF D, W, After, Stops
  <2>1. QED
    BY <1>7
<1>9. f = [s \in D |-> IF Stops(s) THEN s.budgets ELSE f[After(s)]]
  <2> HIDE DEF D, W, After, Stops
  <2>1. QED
    BY <1>8
<1>10. Deal(items, shares, rest) = f[Hand(shares, rest)]
  BY DEF Deal, Hand
<1> HIDE DEF f
<1> DEFINE Good(s) == Between(items, s.budgets, s.budgets) => Dealt(items, s.budgets, s.left, f[s])
           P == {n \in Nat : \A s \in D : m[s] = n => Good(s)}
<1>11. ASSUME NEW n \in Nat, \A k \in 0..(n - 1) : k \in P PROVE n \in P
  <2>1. ASSUME NEW s \in D, m[s] = n, Between(items, s.budgets, s.budgets)
        PROVE  Dealt(items, s.budgets, s.left, f[s])
    <3>1. PICK b \in W : b = s.budgets
      BY <1>1
    <3>2. PICK l \in Int : l = s.left
      BY <1>1
    <3>3. f[s] = IF Stops(s) THEN b ELSE f[After(s)]
      <4> HIDE DEF D, W, After, Stops
      <4>1. QED
        BY <1>9, <3>1
    <3>4. Between(items, b, b) /\ TotalOf(b) \in Nat
      BY <2>1, <3>1, TotalIsNat
    <3>5. CASE Stops(s)
      <4>1. f[s] = b /\ (l <= 0 \/ U(b) = {})
        BY <3>1, <3>2, <3>3, <3>5
      <4>2. Dealt(items, b, l, b)
        BY <3>4, <4>1 DEF Dealt
      <4>3. QED
        BY <3>1, <3>2, <4>1, <4>2
    <3>6. CASE ~Stops(s)
      <4>1. l > 0 /\ l \in Nat /\ U(b) # {} /\ f[s] = f[After(s)]
        BY <3>1, <3>2, <3>3, <3>6
      <4>2. PICK r : r = Round(items, b, l)
        OBVIOUS
      <4>3. PICK u \in Nat : u = Cardinality(U(b)) /\ u > 0
        BY <1>2, <4>1
      <4>4. Between(items, b, r) /\ TotalOf(r) = TotalOf(b) + (IF l <= u THEN l ELSE u)
        BY <3>4, <4>1, <4>2, <4>3, RoundIs
      <4>5. After(s) \in D /\ After(s).budgets = r /\ After(s).left = l - u /\ m[After(s)] < n
        BY <1>3, <2>1, <3>1, <3>2, <3>6, <4>2, <4>3
      <4>6. m[After(s)] \in 0..(n - 1)
        BY <1>3, <4>5
      <4>7. Between(items, r, r)
        BY <4>4, ItemsAreFinite DEF Between
      <4>8. Dealt(items, r, l - u, f[s])
        <5>1. m[After(s)] \in P
          BY <1>11, <4>6
        <5>2. Good(After(s))
          BY <4>5, <5>1
        <5>3. QED
          BY <4>1, <4>5, <4>7, <5>2
      <4>9. PICK t : t = f[s]
        OBVIOUS
      <4>10. PICK tt \in Nat : tt = TotalOf(t)
        BY <4>8, <4>9 DEF Dealt
      <4>11. PICK tb \in Nat : tb = TotalOf(b)
        BY <3>4
      <4>12. PICK tr \in Nat : tr = TotalOf(r) /\ tr = tb + (IF l <= u THEN l ELSE u)
        BY <4>1, <4>4, <4>11
      <4>13. /\ Between(items, r, t) /\ tt <= tr + (IF l - u > 0 THEN l - u ELSE 0)
             /\ Unfilled(items, t) # {} => tt >= tr + (l - u)
        BY <4>8, <4>9, <4>10, <4>12 DEF Dealt
      <4>14. Between(items, b, t)
        BY <4>4, <4>13, ItemsAreFinite DEF Between
      <4>15. tt >= tr
        <5>1. IsFiniteSet(DOMAIN items)
          BY ItemsAreFinite
        <5>2. DOMAIN t = DOMAIN items /\ DOMAIN r = DOMAIN items
          BY <4>4, <4>13 DEF Between
        <5>3. \A i \in DOMAIN items : r[i] \in Nat /\ t[i] \in Nat /\ r[i] <= t[i]
          BY <4>4, <4>13 DEF Between
        <5>4. SumFunctionOnSet(r, DOMAIN items) <= SumFunctionOnSet(t, DOMAIN items)
          BY <5>1, <5>3, SumMonotone
        <5>5. QED
          BY <4>10, <4>12, <5>2, <5>4 DEF TotalOf, SumFunction
      <4>16. Dealt(items, b, l, t)
        <5>1. tt <= tb + l
          BY <4>1, <4>12, <4>13
        <5>2. Unfilled(items, t) # {} => tt >= tb + l
          BY <4>1, <4>12, <4>13, <4>15
        <5>3. QED
          BY <4>1, <4>10, <4>11, <4>14, <5>1, <5>2 DEF Dealt
      <4>17. QED
        BY <3>1, <3>2, <4>9, <4>16
    <3>7. QED
      BY <3>5, <3>6
  <2>2. QED
    BY <2>1
<1>12. \A n \in Nat : n \in P
  <2> HIDE DEF P
  <2>1. QED
    BY <1>11, CompleteInduction
<1>13. Hand(shares, rest) \in D
  BY DEF Hand, Between
<1>14. m[Hand(shares, rest)] \in P
  BY <1>3, <1>12, <1>13
<1>15. Good(Hand(shares, rest))
  BY <1>13, <1>14
<1>16. QED
  BY <1>10, <1>15 DEF Hand

(* A quotient that is rounded down, ...                                    *)
LEMMA FloorIs ==
  ASSUME NEW x \in Nat, NEW t \in Nat \ {0}, NEW q, q = x \div t
  PROVE  q \in Nat /\ t * q <= x
<1>1. q \in Int /\ t * q <= x /\ x < t * q + t
  OBVIOUS
<1>2. q >= 0
  <2>1. SUFFICES ASSUME q <= 0 - 1 PROVE FALSE
    BY <1>1
  <2>2. t * q <= t * (0 - 1)
    BY <1>1, <2>1
  <2>3. QED
    BY <1>1, <2>2
<1>3. QED
  BY <1>1, <1>2

(* ... cancelling a factor, ...                                            *)
LEMMA AtMost ==
  ASSUME NEW t \in Nat \ {0}, NEW a \in Nat, NEW m \in Nat, NEW n \in Nat,
         t * a <= m * t + t * n
  PROVE  a <= m + n
<1>1. SUFFICES ASSUME NEW k \in Nat, a = m + n + 1 + k PROVE FALSE
  <2>1. SUFFICES ASSUME a > m + n PROVE FALSE
    OBVIOUS
  <2>2. PICK k \in Nat : k = a - (m + n + 1)
    BY <2>1
  <2>3. QED
    BY <1>1, <2>2
<1>2. t * a = m * t + t * n + t + t * k
  BY <1>1
<1>3. t * k \in Nat
  OBVIOUS
<1>4. m * t \in Nat /\ t * n \in Nat
  OBVIOUS
<1>5. QED
  BY <1>2, <1>3, <1>4

(* ... and sums of shares by weight, multiplied by the total weight.       *)
LEMMA WeighedSum ==
  ASSUME NEW D, IsFiniteSet(D), NEW a, NEW w, NEW m \in Nat, NEW t \in Nat,
         \A i \in D : a[i] \in Nat /\ w[i] \in Nat /\ t * a[i] <= m * w[i] + t
  PROVE  t * SumFunctionOnSet(a, D) <= m * SumFunctionOnSet(w, D) + t * Cardinality(D)
<1> DEFINE P == {T \in SUBSET D :
                   t * SumFunctionOnSet(a, T) <= m * SumFunctionOnSet(w, T) + t * Cardinality(T)}
<1>1. ASSUME NEW T \in SUBSET D, \A x \in T : T \ {x} \in P PROVE T \in P
  <2>1. CASE T = {}
    <3>1. SumFunctionOnSet(a, T) = 0 /\ SumFunctionOnSet(w, T) = 0 /\ Cardinality(T) = 0
      BY <2>1, SumOfNone, FS_EmptySet
    <3>2. QED
      BY <3>1
  <2>2. CASE T # {}
    <3>1. PICK x \in T : TRUE
      BY <2>2
    <3>2. PICK U : U = T \ {x}
      OBVIOUS
    <3>3. U \in P /\ IsFiniteSet(T) /\ IsFiniteSet(U) /\ x \in D
      BY <1>1, <3>1, <3>2, FS_Subset
    <3>4. PICK p \in Nat : p = SumFunctionOnSet(a, U)
      BY <3>3, SumIsNat
    <3>5. PICK q \in Nat : q = SumFunctionOnSet(w, U)
      BY <3>3, SumIsNat
    <3>6. PICK c \in Nat : c = Cardinality(U)
      BY <3>3, FS_CardinalityType
    <3>7. Cardinality(T) = c + 1
      <4>1. Cardinality(U) = Cardinality(T) - 1
        BY <3>1, <3>2, <3>3, FS_RemoveElement
      <4>2. Cardinality(T) \in Nat
        BY <3>3, FS_CardinalityType
      <4>3. QED
        BY <3>6, <4>1, <4>2
    <3>8. SumFunctionOnSet(a, T) = a[x] + p
      BY <3>1, <3>2, <3>3, <3>4, SumRemove
    <3>9. SumFunctionOnSet(w, T) = w[x] + q
      BY <3>1, <3>2, <3>3, <3>5, SumRemove
    <3>10. t * p <= m * q + t * c
      BY <3>3, <3>4, <3>5, <3>6
    <3>11. PICK y \in Nat : y = a[x]
      BY <3>3
    <3>12. PICK z \in Nat : z = w[x]
      BY <3>3
    <3>13. t * y <= m * z + t
      BY <3>3, <3>11, <3>12
    <3>14. t * (y + p) = t * y + t * p /\ m * (z + q) = m * z + m * q /\ t * (c + 1) = t * c + t
      OBVIOUS
    <3>15. t * (y + p) <= m * (z + q) + t * (c + 1)
      <4>1. t * y \in Int /\ t * p \in Int /\ m * z \in Int /\ m * q \in Int /\ t * c \in Int
        OBVIOUS
      <4>2. QED
        BY <3>10, <3>13, <3>14, <4>1
    <3>16. QED
      BY <3>7, <3>8, <3>9, <3>11, <3>12, <3>15
  <2>3. QED
    BY <2>1, <2>2
<1>2. \A T \in SUBSET D : T \in P
  <2> HIDE DEF P
  <2>1. QED
    BY <1>1, SetInduction
<1>3. D \in P
  BY <1>2
<1>4. QED
  BY <1>3

(* What counts as 1 at least.                                              *)
LEMMA AtLeastOne ==
  ASSUME NEW n \in Nat
  PROVE  Max({n, 1}) \in Nat /\ Max({n, 1}) >= 1 /\ Max({n, 1}) >= n
<1>1. Max({n, 1}) = IF n >= 1 THEN n ELSE 1
  BY MaxOfTwo
<1>2. QED
  BY <1>1

(* Items that all have something to show.                                  *)
Sizable(items) == items \in Seq(Item) /\ \A i \in DOMAIN items : items[i].size >= 1

(* Every share lies between 1 and the size of its item, and all of them    *)
(* are at most one for each item above what there is.                      *)
LEMMA SharesAre ==
  ASSUME NEW items, Sizable(items), items # <<>>, NEW max \in Nat \ {0},
         NEW s, s = Shares(items, max)
  PROVE  /\ Between(items, s, s)
         /\ \A i \in DOMAIN items : s[i] >= 1
         /\ TotalOf(s) <= max + Len(items)
<1>1. /\ items \in Seq(Item) /\ IsFiniteSet(DOMAIN items) /\ 1 \in DOMAIN items
      /\ DOMAIN items = 1..Len(items) /\ Len(items) \in Nat
      /\ Cardinality(DOMAIN items) = Len(items)
  <2>1. items \in Seq(Item) /\ 1 \in DOMAIN items /\ DOMAIN items = 1..Len(items) /\ Len(items) \in Nat
    BY DEF Sizable
  <2>2. IsFiniteSet(1..Len(items)) /\ Cardinality(1..Len(items)) = Len(items)
    <3>1. 1 \in Int /\ Len(items) \in Int
      BY <2>1
    <3>2. QED
      BY <2>1, <3>1, FS_Interval
  <2>3. QED
    BY <2>1, <2>2
<1>2. PICK w : w = [i \in DOMAIN items |-> Weight(items[i])]
  OBVIOUS
<1>3. ASSUME NEW i \in DOMAIN items
      PROVE  w[i] \in Nat /\ w[i] >= 1 /\ items[i].size \in Nat /\ items[i].size >= 1
  <2>1. items[i].size \in Nat /\ items[i].priority \in Nat /\ items[i].size >= 1
    <3>1. items[i] \in Item
      BY <1>1
    <3>2. QED
      BY <3>1 DEF Item, Sizable
  <2>2. PICK a \in Nat : a = Max({items[i].size, 1}) /\ a >= 1
    BY <2>1, AtLeastOne
  <2>3. PICK b \in Nat : b = Max({items[i].priority, 1}) /\ b >= 1
    BY <2>1, AtLeastOne
  <2>4. w[i] = a * b
    BY <1>2, <2>2, <2>3 DEF Weight
  <2>5. a * b \in Nat /\ a * b >= 1
    BY <2>2, <2>3
  <2>6. QED
    BY <2>1, <2>4, <2>5
<1>4. PICK t : t = TotalOf(w)
  OBVIOUS
<1>5. t = SumFunctionOnSet(w, DOMAIN items)
  BY <1>2, <1>4 DEF TotalOf, SumFunction
<1>6. t \in Nat \ {0}
  <2>1. IsFiniteSet(DOMAIN items \ {1})
    BY <1>1, FS_RemoveElement
  <2>2. SumFunctionOnSet(w, DOMAIN items \ {1}) \in Nat
    BY <1>3, <2>1, SumIsNat
  <2>3. t = w[1] + SumFunctionOnSet(w, DOMAIN items \ {1})
    BY <1>1, <1>3, <1>5, SumRemove
  <2>4. QED
    BY <1>1, <1>3, <2>2, <2>3
<1>7. s = [i \in DOMAIN items |->
            Min({items[i].size, Max({1, (max * Weight(items[i])) \div t})})]
  BY <1>2, <1>4 DEF Shares
<1>8. ASSUME NEW i \in DOMAIN items
      PROVE  /\ s[i] \in Nat /\ s[i] >= 1 /\ s[i] <= items[i].size
             /\ t * s[i] <= max * w[i] + t
  <2>1. PICK x \in Nat : x = max * w[i]
    BY <1>3
  <2>2. PICK q : q = x \div t
    OBVIOUS
  <2>3. q \in Nat /\ t * q <= x
    BY <1>6, <2>2, FloorIs
  <2>4. PICK b \in Nat : b = Max({1, q}) /\ b = IF 1 >= q THEN 1 ELSE q
    BY <2>3, MaxOfTwo
  <2>5. s[i] = Min({items[i].size, b})
    BY <1>2, <1>7, <2>1, <2>2, <2>4
  <2>6. s[i] = IF items[i].size <= b THEN items[i].size ELSE b
    BY <1>3, <2>4, <2>5, MinOfTwo
  <2>7. s[i] \in Nat /\ s[i] >= 1 /\ s[i] <= items[i].size /\ s[i] <= q + 1
    BY <1>3, <2>3, <2>4, <2>6
  <2>8. PICK y \in Nat : y = s[i]
    BY <2>7
  <2>9. t * y <= t * (q + 1)
    BY <1>6, <2>3, <2>7, <2>8
  <2>10. t * (q + 1) = t * q + t /\ t * q \in Nat /\ t * y \in Nat
    BY <1>6, <2>3
  <2>11. t * y <= x + t
    BY <1>6, <2>3, <2>9, <2>10
  <2>12. QED
    BY <2>1, <2>7, <2>8, <2>11
<1>9. s \in [DOMAIN items -> Nat]
  BY <1>7, <1>8
<1>10. Between(items, s, s)
  BY <1>8, <1>9 DEF Between
<1>11. PICK a \in Nat : a = SumFunctionOnSet(s, DOMAIN items)
  BY <1>1, <1>8, SumIsNat
<1>12. t * a <= max * t + t * Len(items)
  <2>1. max \in Nat /\ t \in Nat /\ \A i \in DOMAIN items :
          s[i] \in Nat /\ w[i] \in Nat /\ t * s[i] <= max * w[i] + t
    BY <1>3, <1>6, <1>8
  <2>2. t * SumFunctionOnSet(s, DOMAIN items)
          <= max * SumFunctionOnSet(w, DOMAIN items) + t * Cardinality(DOMAIN items)
    BY <1>1, <2>1, WeighedSum
  <2>3. QED
    BY <1>1, <1>5, <1>11, <2>2
<1>13. a <= max + Len(items)
  BY <1>1, <1>6, <1>11, <1>12, AtMost
<1>14. TotalOf(s) = a
  BY <1>9, <1>11 DEF TotalOf, SumFunction
<1>15. QED
  BY <1>8, <1>10, <1>13, <1>14

(* Budgets of at least 1 and at most the size for each item, that spend    *)
(* what there is on the items that have a use for it, and exceed it by at  *)
(* most one for each item.                                                 *)
Spends(items, max, r) ==
  /\ Between(items, r, r)
  /\ \A i \in DOMAIN items : r[i] >= 1
  /\ TotalOf(r) <= max + Len(items)
  /\ \A i \in DOMAIN items : r[i] < items[i].size => TotalOf(r) >= max

(* Shares and rounds together ...                                          *)
LEMMA AllocatedIs ==
  ASSUME NEW items, Sizable(items), items # <<>>, NEW max \in Nat \ {0},
         NEW r, r = Allocated(items, max)
  PROVE  Spends(items, max, r)
<1>1. PICK s : s = Shares(items, max)
  OBVIOUS
<1>2. /\ Between(items, s, s)
      /\ \A i \in DOMAIN items : s[i] >= 1
      /\ TotalOf(s) <= max + Len(items)
  BY <1>1, SharesAre
<1>3. items \in Seq(Item) /\ s \in [DOMAIN items -> Nat]
  BY <1>2 DEF Sizable, Between
<1>4. PICK t \in Nat : t = TotalOf(s)
  BY <1>2, <1>3, TotalIsNat
<1>5. r = Deal(items, s, max - TotalOf(s))
  BY <1>1, <1>3 DEF Allocated
<1>6. Dealt(items, s, max - t, r)
  <2>1. max - t \in Int
    OBVIOUS
  <2>2. r = Deal(items, s, max - t)
    BY <1>4, <1>5
  <2>3. QED
    BY <1>2, <1>3, <2>1, <2>2, DealIs
<1>7. Between(items, s, r) /\ TotalOf(r) \in Nat
  BY <1>6 DEF Dealt
<1>8. TotalOf(r) <= max + Len(items)
  <2>1. TotalOf(r) <= t + (IF max - t > 0 THEN max - t ELSE 0)
    BY <1>4, <1>6 DEF Dealt
  <2>2. Len(items) \in Nat
    BY <1>3
  <2>3. QED
    BY <1>2, <1>4, <1>7, <2>1, <2>2
<1>9. ASSUME NEW i \in DOMAIN items
      PROVE  /\ r[i] \in Nat /\ r[i] >= 1 /\ r[i] <= items[i].size
             /\ r[i] < items[i].size => TotalOf(r) >= max
  <2>1. r[i] \in Nat /\ s[i] \in Nat /\ s[i] <= r[i] /\ r[i] <= items[i].size
    BY <1>3, <1>7 DEF Between
  <2>2. ASSUME r[i] < items[i].size PROVE TotalOf(r) >= max
    <3>1. i \in Unfilled(items, r)
      BY <2>2 DEF Unfilled
    <3>2. TotalOf(r) >= t + (max - t)
      BY <1>4, <1>6, <3>1 DEF Dealt
    <3>3. QED
      BY <1>7, <3>2
  <2>3. QED
    BY <1>2, <2>1, <2>2
<1>10. Between(items, r, r)
  BY <1>7, <1>9 DEF Between
<1>11. QED
  BY <1>8, <1>9, <1>10 DEF Spends

Bound(max) == Max({1, max})

(* ... are what AllocateBudgets gives.                                     *)
LEMMA AllocateBudgetsIs ==
  ASSUME NEW items, Sizable(items), NEW max \in Nat, NEW r, r = AllocateBudgets(items, max)
  PROVE  /\ r \in Seq(Nat) /\ Len(r) = Len(items)
         /\ Spends(items, Bound(max), r)
<1>1. Bound(max) \in Nat \ {0}
  BY MaxOfTwo DEF Bound
<1>2. items \in Seq(Item) /\ Len(items) \in Nat /\ DOMAIN items = 1..Len(items)
  BY DEF Sizable
<1>3. CASE items = <<>>
  <2>1. r = <<>>
    BY <1>3 DEF AllocateBudgets
  <2>2. TotalOf(r) = 0
    <3>1. TotalOf(r) = SumFunctionOnSet(r, {})
      BY <2>1 DEF TotalOf, SumFunction
    <3>2. QED
      BY <3>1, SumOfNone
  <2>3. r \in [DOMAIN items -> Nat] /\ r \in Seq(Nat) /\ Len(r) = Len(items)
    <3>1. <<>> \in Seq(Nat) /\ Len(<<>>) = 0
      OBVIOUS
    <3>2. PICK e \in Seq(Nat) : e = <<>> /\ Len(e) = 0
      BY <3>1
    <3>3. e \in [1..Len(e) -> Nat]
      OBVIOUS
    <3>4. Len(items) = 0
      BY <1>3, <3>1
    <3>5. DOMAIN items = 1..Len(e)
      BY <1>2, <3>2, <3>4
    <3>6. e \in [DOMAIN items -> Nat]
      BY <3>3, <3>5
    <3>7. QED
      BY <2>1, <3>2, <3>4, <3>6
  <2>4. Between(items, r, r)
    BY <1>3, <2>3 DEF Between
  <2>5. Spends(items, Bound(max), r)
    BY <1>1, <1>3, <2>2, <2>4 DEF Spends
  <2>6. QED
    BY <2>3, <2>5
<1>4. CASE items # <<>>
  <2>1. r = Allocated(items, Bound(max))
    BY <1>2, <1>4 DEF AllocateBudgets, Bound
  <2>2. Spends(items, Bound(max), r)
    BY <1>1, <1>4, <2>1, AllocatedIs
  <2>3. r \in [1..Len(items) -> Nat]
    BY <1>2, <2>2 DEF Spends, Between
  <2>4. r \in Seq(Nat) /\ Len(r) = Len(items)
    BY <1>2, <2>3
  <2>5. QED
    BY <2>2, <2>4
<1>5. QED
  BY <1>3, <1>4

(* Every hunk ...                                                          *)
LEMMA HunkItemsAre ==
  ASSUME NEW file \in DeltaFile
  PROVE  /\ Sizable(HunkItems(file)) /\ DOMAIN HunkItems(file) = DOMAIN file.hunks
         /\ \A h \in DOMAIN file.hunks :
              file.hunks[h].len \in Nat /\ HunkItems(file)[h].size >= file.hunks[h].len
<1>1. PICK hs \in Seq(Text) : hs = file.hunks
  BY DEF DeltaFile
<1>2. PICK items : items = HunkItems(file)
  OBVIOUS
<1>3. ASSUME NEW h \in DOMAIN hs PROVE hs[h].len \in Nat
  <2>1. hs[h] \in Text
    OBVIOUS
  <2>2. QED
    BY <2>1 DEF Text
<1>4. items = [h \in DOMAIN hs |-> [size |-> Max({hs[h].len, 1}), priority |-> 1]]
  BY <1>1, <1>2 DEF HunkItems
<1>5. \A h \in DOMAIN hs : /\ items[h] \in Item /\ items[h].size >= 1
                           /\ items[h].size >= hs[h].len
  <2>1. ASSUME NEW h \in DOMAIN hs
        PROVE  items[h] \in Item /\ items[h].size >= 1 /\ items[h].size >= hs[h].len
    <3>1. PICK n \in Nat : n = Max({hs[h].len, 1}) /\ n >= 1 /\ n >= hs[h].len
      BY <1>3, AtLeastOne
    <3>2. items[h] = [size |-> n, priority |-> 1]
      BY <1>4, <3>1
    <3>3. QED
      BY <3>1, <3>2 DEF Item
  <2>2. QED
    BY <2>1
<1>6. DOMAIN items = DOMAIN hs /\ items \in Seq(Item)
  <2>1. DOMAIN hs = 1..Len(hs) /\ Len(hs) \in Nat
    OBVIOUS
  <2>2. items \in [1..Len(hs) -> Item]
    BY <1>4, <1>5, <2>1
  <2>3. QED
    BY <2>1, <2>2
<1>7. QED
  BY <1>1, <1>2, <1>3, <1>5, <1>6 DEF Sizable

(* ... and every file has at least one character to show.                  *)
LEMMA FileItemsAre ==
  ASSUME NEW delta, delta.files \in Seq(DeltaFile)
  PROVE  Sizable(FileItems(delta)) /\ DOMAIN FileItems(delta) = DOMAIN delta.files
<1>1. PICK fs \in Seq(DeltaFile) : fs = delta.files
  OBVIOUS
<1>2. PICK items : items = FileItems(delta)
  OBVIOUS
<1>3. ASSUME NEW k \in DOMAIN fs
      PROVE  TotalOf([h \in DOMAIN fs[k].hunks |-> fs[k].hunks[h].len]) \in Nat
  <2>0. PICK file \in DeltaFile : file = fs[k]
    OBVIOUS
  <2>1. PICK hs \in Seq(Text) : hs = fs[k].hunks
    BY <2>0 DEF DeltaFile
  <2>2. PICK f : f = [h \in DOMAIN hs |-> hs[h].len]
    OBVIOUS
  <2>3. \A h \in DOMAIN hs : f[h] \in Nat
    <3>1. ASSUME NEW h \in DOMAIN hs PROVE hs[h].len \in Nat
      <4>1. hs[h] \in Text
        OBVIOUS
      <4>2. QED
        BY <4>1 DEF Text
    <3>2. QED
      BY <2>2, <3>1
  <2>4. DOMAIN hs = 1..Len(hs) /\ Len(hs) \in Nat /\ 1 \in Int
    OBVIOUS
  <2>5. IsFiniteSet(DOMAIN hs)
    BY <2>4, FS_Interval
  <2>6. SumFunctionOnSet(f, DOMAIN hs) \in Nat
    BY <2>3, <2>5, SumIsNat
  <2>7. QED
    BY <2>1, <2>2, <2>6 DEF TotalOf, SumFunction
<1>4. ASSUME NEW k \in DOMAIN fs
      PROVE  items[k] \in Item /\ items[k].size >= 1
  <2>1. PICK n \in Nat : n = TotalOf([h \in DOMAIN fs[k].hunks |-> fs[k].hunks[h].len])
    BY <1>3
  <2>2. PICK m \in Nat : m = Max({n, 1}) /\ m >= 1
    BY <2>1, AtLeastOne
  <2>3. PICK p \in Nat : p = Priority(fs[k].kind)
    BY DEF Priority
  <2>4. items[k] = [size |-> m, priority |-> p]
    BY <1>1, <1>2, <2>1, <2>2, <2>3 DEF FileItems
  <2>5. QED
    BY <2>2, <2>4 DEF Item
<1>5. DOMAIN items = DOMAIN fs
  BY <1>1, <1>2 DEF FileItems
<1>6. items \in Seq(Item)
  <2>1. DOMAIN fs = 1..Len(fs) /\ Len(fs) \in Nat
    OBVIOUS
  <2>2. items = [k \in DOMAIN fs |-> items[k]]
    BY <1>1, <1>2 DEF FileItems
  <2>3. items \in [1..Len(fs) -> Item]
    BY <1>4, <2>1, <2>2
  <2>4. QED
    BY <2>1, <2>3
<1>7. QED
  BY <1>1, <1>2, <1>4, <1>5, <1>6 DEF Sizable

(* What the prompt shows of one file of the delta ...                      *)
Pays(shown, file) ==
  /\ shown.budget \in Nat
  /\ DOMAIN shown.hunks = DOMAIN file.hunks
  /\ \A h \in DOMAIN file.hunks :
       /\ shown.hunks[h] \in Nat /\ shown.hunks[h] >= 1 /\ file.hunks[h].len \in Nat
       /\ shown.hunks[h] < file.hunks[h].len => TotalOf(shown.hunks) >= shown.budget

UsedOf(payload) == TotalOf([k \in DOMAIN payload |-> payload[k].budget])

(* ... and of all of them together.                                        *)
LEMMA PayloadIs ==
  ASSUME NEW delta, delta.files \in Seq(DeltaFile), NEW max \in Nat \ {0},
         NEW payload, payload = DeltaPayload(delta, max)
  PROVE  /\ DOMAIN payload = DOMAIN delta.files
         /\ UsedOf(payload) <= max + Len(delta.files)
         /\ \A k \in DOMAIN delta.files :
              /\ Pays(payload[k], delta.files[k])
              /\ payload[k].budget < FileItems(delta)[k].size => UsedOf(payload) >= max
<1>1. PICK fs \in Seq(DeltaFile) : fs = delta.files
  OBVIOUS
<1>2. PICK items : items = FileItems(delta)
  OBVIOUS
<1>3. Sizable(items) /\ DOMAIN items = DOMAIN fs
  BY <1>1, <1>2, FileItemsAre
<1>4. PICK b : b = AllocateBudgets(items, max)
  OBVIOUS
<1>5. Bound(max) = max
  BY MaxOfTwo DEF Bound
<1>6. b \in Seq(Nat) /\ Len(b) = Len(items) /\ Spends(items, max, b)
  BY <1>3, <1>4, <1>5, AllocateBudgetsIs
<1>7. payload = [k \in DOMAIN fs |->
                   [budget |-> b[k], hunks |-> AllocateBudgets(HunkItems(fs[k]), b[k])]]
  BY <1>1, <1>2, <1>4, <1>6 DEF DeltaPayload
<1>8. b \in [DOMAIN fs -> Nat] /\ Len(items) = Len(fs)
  <2>1. items \in Seq(Item) /\ b \in [DOMAIN items -> Nat]
    BY <1>3, <1>6 DEF Sizable, Spends, Between
  <2>2. PICK n \in Nat : n = Len(items) /\ DOMAIN items = 1..n
    BY <2>1
  <2>3. PICK m \in Nat : m = Len(fs) /\ DOMAIN fs = 1..m
    OBVIOUS
  <2>4. 1..n = 1..m
    BY <1>3, <2>2, <2>3
  <2>5. n = m
    <3>1. n > m => n \in 1..n /\ n \notin 1..m
      OBVIOUS
    <3>2. m > n => m \in 1..m /\ m \notin 1..n
      OBVIOUS
    <3>3. QED
      BY <2>4, <3>1, <3>2
  <2>6. QED
    BY <1>3, <2>1, <2>2, <2>3, <2>5
<1>9. UsedOf(payload) = TotalOf(b)
  <2>1. [k \in DOMAIN payload |-> payload[k].budget] = b
    BY <1>7, <1>8
  <2>2. QED
    BY <2>1 DEF UsedOf
<1>10. UsedOf(payload) <= max + Len(fs)
  BY <1>6, <1>8, <1>9 DEF Spends
<1>11. ASSUME NEW k \in DOMAIN fs
       PROVE  /\ Pays(payload[k], fs[k])
              /\ payload[k].budget < items[k].size => UsedOf(payload) >= max
  <2>1. PICK n \in Nat : n = b[k] /\ n >= 1
    BY <1>3, <1>6, <1>8 DEF Spends
  <2>2. PICK r : r = AllocateBudgets(HunkItems(fs[k]), n)
    OBVIOUS
  <2>3. payload[k].budget = n /\ payload[k].hunks = r
    BY <1>7, <2>1, <2>2
  <2>4. PICK file \in DeltaFile : file = fs[k]
    OBVIOUS
  <2>5. PICK hi : hi = HunkItems(file)
    OBVIOUS
  <2>6. /\ Sizable(hi) /\ DOMAIN hi = DOMAIN file.hunks
        /\ \A h \in DOMAIN file.hunks : file.hunks[h].len \in Nat /\ hi[h].size >= file.hunks[h].len
    BY <2>5, HunkItemsAre
  <2>7. Bound(n) = n
    BY <2>1, MaxOfTwo DEF Bound
  <2>8. Spends(hi, n, r)
    BY <2>2, <2>4, <2>5, <2>6, <2>7, AllocateBudgetsIs
  <2>9. r \in [DOMAIN hi -> Nat]
    BY <2>8 DEF Spends, Between
  <2>10. \A h \in DOMAIN hi : hi[h].size \in Nat
    BY <2>6, ItemsAreFinite DEF Sizable
  <2>11. ASSUME NEW h \in DOMAIN file.hunks
         PROVE  /\ r[h] \in Nat /\ r[h] >= 1 /\ file.hunks[h].len \in Nat
                /\ r[h] < file.hunks[h].len => TotalOf(r) >= n
    <3>1. r[h] < file.hunks[h].len => r[h] < hi[h].size
      BY <2>6, <2>9, <2>10
    <3>2. QED
      BY <2>6, <2>8, <2>9, <3>1 DEF Spends
  <2>12. Pays(payload[k], file)
    BY <2>1, <2>3, <2>6, <2>9, <2>11 DEF Pays
  <2>13. payload[k].budget < items[k].size => UsedOf(payload) >= max
    BY <1>3, <1>6, <1>9, <2>1, <2>3 DEF Spends
  <2>14. QED
    BY <2>4, <2>12, <2>13
<1>12. DOMAIN payload = DOMAIN fs
  BY <1>7
<1>13. QED
  BY <1>1, <1>2, <1>10, <1>11, <1>12
=============================================================================
