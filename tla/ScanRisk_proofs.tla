---------------------------- MODULE ScanRisk_proofs ---------------------------
(* The budgets of a batch cover the store, and the caps they stand for are *)
(* kept, for any number of underlyings, issuers, clusters and batches.     *)
EXTENDS ScanRisk, FiniteSetTheorems, TLAPS

-----------------------------------------------------------------------------
(* Induction.  The library's principles are about operators; stated about  *)
(* sets they are first-order, and follow from the existence of minimal     *)
(* elements.                                                               *)

LEMMA Minimal ==
  ASSUME NEW R, NEW A, IsWellFoundedOn(R, A), NEW B \in SUBSET A, B # {}
  PROVE  \E x \in B : \A y \in B : ~ (<<y, x>> \in R)
BY WFMin, Zenon

LEMMA LessIsWellFounded ==
  \E R : /\ IsWellFoundedOn(R, Nat)
         /\ \A m \in Nat : \A n \in Nat : m < n => <<m, n>> \in R
<1>1. \A m \in Nat : \A n \in Nat : m < n => <<m, n>> \in OpToRel(<, Nat)
  BY DEF OpToRel
<1>2. QED BY <1>1, NatLessThanWellFounded, Zenon

LEMMA NatSetInduction ==
  ASSUME NEW S \in SUBSET Nat, 0 \in S, \A n \in S : n + 1 \in S
  PROVE  S = Nat
<1> SUFFICES ASSUME Nat \ S # {} PROVE FALSE
  OBVIOUS
<1>1. PICK R : /\ IsWellFoundedOn(R, Nat)
               /\ \A m \in Nat : \A n \in Nat : m < n => <<m, n>> \in R
  BY LessIsWellFounded
<1>2. PICK n \in Nat \ S : \A m \in Nat \ S : ~ (<<m, n>> \in R)
  BY <1>1, Minimal
<1>3. n # 0 /\ n - 1 \in Nat /\ n - 1 < n
  OBVIOUS
<1>4. n - 1 \in S
  BY <1>1, <1>2, <1>3
<1>5. (n - 1) + 1 = n
  OBVIOUS
<1>6. QED BY <1>4, <1>5

LEMMA FiniteSetInduction ==
  ASSUME NEW D, IsFiniteSet(D), NEW F \in SUBSET (SUBSET D),
         \A s \in SUBSET D : (\A x \in s : s \ {x} \in F) => s \in F
  PROVE  F = SUBSET D
<1> SUFFICES ASSUME (SUBSET D) \ F # {} PROVE FALSE
  OBVIOUS
<1>1. IsWellFoundedOn(StrictSubsetOrdering(D), SUBSET D)
  <2>1. FiniteSubsetsOf(D) = SUBSET D
    BY FS_FiniteSubsetsOfFinite
  <2>2. IsWellFoundedOn(StrictSubsetOrdering(D), FiniteSubsetsOf(D))
    BY FS_StrictSubsetOrderingWellFounded
  <2>3. QED BY <2>1, <2>2
<1>2. PICK s \in (SUBSET D) \ F : \A t \in (SUBSET D) \ F :
               ~ (<<t, s>> \in StrictSubsetOrdering(D))
  BY <1>1, Minimal
<1>3. \A x \in s : s \ {x} \in SUBSET D /\ s \ {x} # s /\ s \ {x} \subseteq s
  BY <1>2
<1>4. ASSUME NEW x \in s PROVE s \ {x} \in F
  <2>1. <<s \ {x}, s>> \in StrictSubsetOrdering(D)
    BY <1>2, <1>3 DEF StrictSubsetOrdering
  <2>2. QED BY <1>2, <1>3, <2>1
<1>5. QED BY <1>2, <1>4

-----------------------------------------------------------------------------
(* Sums.  The community modules sum a function over a set by picking one   *)
(* element after another; for a finite set there is such a recursion, and  *)
(* its value does not depend on the picks.                                 *)

Picked(s) == CHOOSE x \in s : TRUE
Peel(g, w, s) == IF s = {} THEN 0 ELSE w[Picked(s)] + g[s \ {Picked(s)}]
Unfolds(g, w, D) == g = [s \in SUBSET D |-> Peel(g, w, s)]

LEMMA PickedIsIn == \A s : s # {} => Picked(s) \in s
BY DEF Picked

LEMMA SumUnfolded ==
  ASSUME NEW w, NEW D
  PROVE  SumFunctionOnSet(w, D) = (CHOOSE g : Unfolds(g, w, D))[D]
BY DEF SumFunctionOnSet, FoldFunctionOnSet, MapThenFoldSet, Unfolds, Peel, Picked


LEMMA CanUnfold ==
  ASSUME NEW w, NEW D, IsFiniteSet(D)
  PROVE  \E g : Unfolds(g, w, D)
<1> DEFINE Small(n) == {s \in SUBSET D : Cardinality(s) =< n}
           Holds(g, n) == g = [s \in Small(n) |-> Peel(g, w, s)]
           S == {n \in Nat : \E g : Holds(g, n)}
<1>1. \A s \in SUBSET D : /\ Cardinality(s) \in Nat
                          /\ Cardinality(s) = 0 => s = {}
                          /\ Cardinality(s) =< Cardinality(D)
                          /\ s # {} => Cardinality(s \ {Picked(s)}) = Cardinality(s) - 1
  BY FS_Subset, FS_CardinalityType, FS_EmptySet, FS_RemoveElement, PickedIsIn
<1>2. 0 \in S
  <2> DEFINE g == [s \in Small(0) |-> 0]
  <2>1. \A s \in Small(0) : s = {}
    <3>1. \A n \in Nat : n =< 0 => n = 0
      OBVIOUS
    <3>2. QED BY <1>1, <3>1
  <2>2. g = [s \in Small(0) |-> Peel(g, w, s)]
    BY <2>1 DEF Peel
  <2>3. QED BY <2>2
<1>3. ASSUME NEW n \in S PROVE n + 1 \in S
  <2>1. PICK g : Holds(g, n)
    OBVIOUS
  <2> DEFINE h == [s \in Small(n + 1) |->
                     IF Cardinality(s) =< n THEN g[s] ELSE Peel(g, w, s)]
  <2>2. ASSUME NEW s \in Small(n + 1) PROVE h[s] = Peel(h, w, s)
    <3>1. CASE s = {}
      <4>1. Cardinality(s) = 0 /\ s \in Small(n)
        BY <3>1, FS_EmptySet
      <4>2. QED BY <2>1, <3>1, <4>1 DEF Peel
    <3>2. CASE s # {}
      <4> DEFINE t == s \ {Picked(s)}
      <4>1. t \in Small(n) /\ t \in Small(n + 1) /\ Cardinality(t) =< n
        BY <1>1, <3>2
      <4>2. h[t] = g[t]
        BY <4>1
      <4>3. h[s] = Peel(g, w, s)
        BY <1>1, <2>1
      <4>4. QED BY <3>2, <4>2, <4>3 DEF Peel
    <3>3. QED BY <3>1, <3>2
  <2>3. h = [s \in Small(n + 1) |-> Peel(h, w, s)]
    BY <2>2
  <2> HIDE DEF h
  <2>4. Holds(h, n + 1)
    BY <2>3
  <2> HIDE DEF Holds
  <2>5. n \in Nat /\ (\E f : Holds(f, n + 1)) => n + 1 \in S
    OBVIOUS
  <2>6. QED BY <2>4, <2>5
<1>4. S = Nat
  <2> HIDE DEF S
  <2>1. S \in SUBSET Nat BY DEF S
  <2>2. QED BY <1>2, <1>3, <2>1, NatSetInduction
<1>5. Cardinality(D) \in S
  BY <1>1, <1>4
<1>6. PICK g : Holds(g, Cardinality(D))
  BY <1>5
<1>7. Small(Cardinality(D)) = SUBSET D
  BY <1>1
<1>8. QED BY <1>6, <1>7 DEF Unfolds

LEMMA UnfoldsAgree ==
  ASSUME NEW w, NEW D, IsFiniteSet(D), NEW E \in SUBSET D,
         NEW g, Unfolds(g, w, D), NEW h, Unfolds(h, w, E)
  PROVE  \A s \in SUBSET E : g[s] = h[s]
<1> DEFINE F == {s \in SUBSET E : g[s] = h[s]}
<1>1. IsFiniteSet(E)
  BY FS_Subset
<1>2. ASSUME NEW s \in SUBSET E, \A x \in s : s \ {x} \in F
      PROVE  s \in F
  <2>1. g[s] = Peel(g, w, s) /\ h[s] = Peel(h, w, s)
    BY DEF Unfolds
  <2>2. s # {} => g[s \ {Picked(s)}] = h[s \ {Picked(s)}]
    BY <1>2, PickedIsIn
  <2>3. QED BY <2>1, <2>2 DEF Peel
<1>3. F = SUBSET E
  <2> HIDE DEF F
  <2>1. F \in SUBSET (SUBSET E) BY DEF F
  <2>2. QED BY <1>1, <1>2, <2>1, FiniteSetInduction
<1>4. QED BY <1>3

LEMMA SumPeeled ==
  ASSUME NEW w, NEW D, IsFiniteSet(D)
  PROVE  /\ D = {} => SumFunctionOnSet(w, D) = 0
         /\ D # {} => SumFunctionOnSet(w, D) = w[Picked(D)] + SumFunctionOnSet(w, D \ {Picked(D)})
<1> DEFINE E == D \ {Picked(D)}
           g == CHOOSE f : Unfolds(f, w, D)
           h == CHOOSE f : Unfolds(f, w, E)
<1>1. IsFiniteSet(E) /\ E \in SUBSET D
  BY FS_RemoveElement
<1>2. Unfolds(g, w, D) /\ Unfolds(h, w, E)
  BY <1>1, CanUnfold
<1>3. SumFunctionOnSet(w, D) = g[D] /\ SumFunctionOnSet(w, E) = h[E]
  BY SumUnfolded
<1> HIDE DEF g, h, E
<1>4. g[E] = h[E]
  BY <1>1, <1>2, UnfoldsAgree
<1>5. g[D] = Peel(g, w, D)
  BY <1>2 DEF Unfolds
<1>6. QED BY <1>3, <1>4, <1>5 DEF Peel, E


LEMMA SumEmpty == \A w : SumFunctionOnSet(w, {}) = 0
BY SumPeeled, FS_EmptySet

IsWeight(w, D) == \A x \in D : w[x] \in Nat

LEMMA SumIsNat ==
  ASSUME NEW w, NEW D, IsFiniteSet(D), IsWeight(w, D)
  PROVE  SumFunctionOnSet(w, D) \in Nat
<1> DEFINE F == {s \in SUBSET D : SumFunctionOnSet(w, s) \in Nat}
<1>1. ASSUME NEW s \in SUBSET D, \A x \in s : s \ {x} \in F PROVE s \in F
  <2>1. CASE s = {}
    BY <2>1, SumEmpty
  <2>2. CASE s # {}
    <3>1. Picked(s) \in s /\ IsFiniteSet(s)
      BY <2>2, PickedIsIn, FS_Subset
    <3>2. SumFunctionOnSet(w, s) = w[Picked(s)] + SumFunctionOnSet(w, s \ {Picked(s)})
      BY <2>2, <3>1, SumPeeled
    <3>3. w[Picked(s)] \in Nat /\ SumFunctionOnSet(w, s \ {Picked(s)}) \in Nat
      BY <1>1, <3>1 DEF IsWeight
    <3>4. QED BY <3>2, <3>3
  <2>3. QED BY <2>1, <2>2
<1>2. F = SUBSET D
  <2> HIDE DEF F
  <2>1. F \in SUBSET (SUBSET D) BY DEF F
  <2>2. QED BY <1>1, <2>1, FiniteSetInduction
<1>3. QED BY <1>2

LEMMA SumRemove ==
  ASSUME NEW w, NEW D, IsFiniteSet(D), IsWeight(w, D), NEW x \in D
  PROVE  SumFunctionOnSet(w, D) = w[x] + SumFunctionOnSet(w, D \ {x})
<1> DEFINE F == {s \in SUBSET D : \A y \in s : SumFunctionOnSet(w, s) = w[y] + SumFunctionOnSet(w, s \ {y})}
<1>1. ASSUME NEW s \in SUBSET D, \A y \in s : s \ {y} \in F PROVE s \in F
  <2> SUFFICES ASSUME NEW y \in s PROVE SumFunctionOnSet(w, s) = w[y] + SumFunctionOnSet(w, s \ {y})
    OBVIOUS
  <2> DEFINE p == Picked(s)
  <2>1. p \in s /\ IsFiniteSet(s) /\ IsFiniteSet(s \ {y}) /\ IsFiniteSet(s \ {p})
    BY PickedIsIn, FS_Subset
  <2>2. SumFunctionOnSet(w, s) = w[p] + SumFunctionOnSet(w, s \ {p})
    BY <2>1, SumPeeled
  <2> HIDE DEF p
  <2>3. CASE y = p
    BY <2>2, <2>3
  <2>4. CASE y # p
    <3>1. SumFunctionOnSet(w, s \ {p}) = w[y] + SumFunctionOnSet(w, (s \ {p}) \ {y})
      BY <1>1, <2>1, <2>4
    <3>2. SumFunctionOnSet(w, s \ {y}) = w[p] + SumFunctionOnSet(w, (s \ {y}) \ {p})
      BY <1>1, <2>1, <2>4
    <3>3. (s \ {p}) \ {y} = (s \ {y}) \ {p}
      OBVIOUS
    <3> DEFINE r == (s \ {y}) \ {p}
    <3>4. w[p] \in Nat /\ w[y] \in Nat /\ SumFunctionOnSet(w, r) \in Nat
      <4>1. IsFiniteSet(r) /\ IsWeight(w, r)
        BY FS_Subset DEF IsWeight
      <4>2. QED BY <2>1, <4>1, SumIsNat DEF IsWeight
    <3> HIDE DEF r
    <3>5. SumFunctionOnSet(w, s \ {p}) = w[y] + SumFunctionOnSet(w, r) /\ SumFunctionOnSet(w, s \ {y}) = w[p] + SumFunctionOnSet(w, r)
      BY <3>1, <3>2, <3>3 DEF r
    <3>6. QED BY <2>2, <3>4, <3>5
  <2>5. QED BY <2>3, <2>4
<1>2. F = SUBSET D
  <2> HIDE DEF F
  <2>1. F \in SUBSET (SUBSET D) BY DEF F
  <2>2. QED BY <1>1, <2>1, FiniteSetInduction
<1>3. D \in F
  BY <1>2
<1>4. QED BY <1>3

LEMMA SumEqual ==
  ASSUME NEW v, NEW w, NEW D, IsFiniteSet(D), \A x \in D : v[x] = w[x]
  PROVE  SumFunctionOnSet(v, D) = SumFunctionOnSet(w, D)
<1> DEFINE F == {s \in SUBSET D : SumFunctionOnSet(v, s) = SumFunctionOnSet(w, s)}
<1>1. ASSUME NEW s \in SUBSET D, \A x \in s : s \ {x} \in F PROVE s \in F
  <2>1. CASE s = {}
    BY <2>1, SumEmpty
  <2>2. CASE s # {}
    <3>1. Picked(s) \in s /\ IsFiniteSet(s)
      BY <2>2, PickedIsIn, FS_Subset
    <3>2. /\ SumFunctionOnSet(v, s) = v[Picked(s)] + SumFunctionOnSet(v, s \ {Picked(s)})
          /\ SumFunctionOnSet(w, s) = w[Picked(s)] + SumFunctionOnSet(w, s \ {Picked(s)})
      BY <2>2, <3>1, SumPeeled
    <3>3. s \ {Picked(s)} \in F /\ v[Picked(s)] = w[Picked(s)]
      BY <1>1, <3>1
    <3>4. QED BY <3>2, <3>3
  <2>3. QED BY <2>1, <2>2
<1>2. F = SUBSET D
  <2> HIDE DEF F
  <2>1. F \in SUBSET (SUBSET D) BY DEF F
  <2>2. QED BY <1>1, <2>1, FiniteSetInduction
<1>3. QED BY <1>2

LEMMA SumMonotone ==
  ASSUME NEW v, NEW w, NEW D, IsFiniteSet(D), IsWeight(v, D), IsWeight(w, D),
         \A x \in D : v[x] =< w[x]
  PROVE  SumFunctionOnSet(v, D) =< SumFunctionOnSet(w, D)
<1> DEFINE F == {s \in SUBSET D : SumFunctionOnSet(v, s) =< SumFunctionOnSet(w, s)}
<1>1. ASSUME NEW s \in SUBSET D, \A x \in s : s \ {x} \in F PROVE s \in F
  <2>1. IsFiniteSet(s) /\ IsWeight(v, s) /\ IsWeight(w, s)
    BY FS_Subset DEF IsWeight
  <2>2. CASE s = {}
    BY <2>2, SumEmpty
  <2>3. CASE s # {}
    <3> DEFINE p == Picked(s)
               r == s \ {p}
    <3>1. p \in s /\ IsFiniteSet(r) /\ IsWeight(v, r) /\ IsWeight(w, r)
      BY <2>1, <2>3, PickedIsIn, FS_Subset DEF IsWeight
    <3>2. SumFunctionOnSet(v, s) = v[p] + SumFunctionOnSet(v, r) /\ SumFunctionOnSet(w, s) = w[p] + SumFunctionOnSet(w, r)
      BY <2>1, <2>3, SumPeeled
    <3>3. r \in F
      BY <1>1, <3>1
    <3>4. SumFunctionOnSet(v, r) \in Nat /\ SumFunctionOnSet(w, r) \in Nat /\ v[p] \in Nat /\ w[p] \in Nat
      BY <2>1, <3>1, SumIsNat DEF IsWeight
    <3>5. v[p] =< w[p] /\ SumFunctionOnSet(v, r) =< SumFunctionOnSet(w, r)
      BY <3>1, <3>3
    <3> HIDE DEF p, r
    <3>6. QED BY <3>2, <3>4, <3>5
  <2>4. QED BY <2>2, <2>3
<1>2. F = SUBSET D
  <2> HIDE DEF F
  <2>1. F \in SUBSET (SUBSET D) BY DEF F
  <2>2. QED BY <1>1, <2>1, FiniteSetInduction
<1>3. D \in F
  BY <1>2
<1>4. QED BY <1>3

LEMMA SumAdd ==
  ASSUME NEW u, NEW v, NEW w, NEW D, IsFiniteSet(D), IsWeight(v, D), IsWeight(w, D),
         \A x \in D : u[x] = v[x] + w[x]
  PROVE  SumFunctionOnSet(u, D) = SumFunctionOnSet(v, D) + SumFunctionOnSet(w, D)
<1> DEFINE F == {s \in SUBSET D : SumFunctionOnSet(u, s) = SumFunctionOnSet(v, s) + SumFunctionOnSet(w, s)}
<1>1. ASSUME NEW s \in SUBSET D, \A x \in s : s \ {x} \in F PROVE s \in F
  <2>1. IsFiniteSet(s) /\ IsWeight(v, s) /\ IsWeight(w, s)
    BY FS_Subset DEF IsWeight
  <2>2. CASE s = {}
    BY <2>2, SumEmpty
  <2>3. CASE s # {}
    <3> DEFINE p == Picked(s)
               r == s \ {p}
    <3>1. p \in s /\ IsFiniteSet(r) /\ IsWeight(v, r) /\ IsWeight(w, r)
      BY <2>1, <2>3, PickedIsIn, FS_Subset DEF IsWeight
    <3>2. /\ SumFunctionOnSet(u, s) = u[p] + SumFunctionOnSet(u, r)
          /\ SumFunctionOnSet(v, s) = v[p] + SumFunctionOnSet(v, r) /\ SumFunctionOnSet(w, s) = w[p] + SumFunctionOnSet(w, r)
      BY <2>1, <2>3, SumPeeled
    <3>3. r \in F
      BY <1>1, <3>1
    <3>4. SumFunctionOnSet(v, r) \in Nat /\ SumFunctionOnSet(w, r) \in Nat /\ v[p] \in Nat /\ w[p] \in Nat
      BY <2>1, <3>1, SumIsNat DEF IsWeight
    <3>5. u[p] = v[p] + w[p] /\ SumFunctionOnSet(u, r) = SumFunctionOnSet(v, r) + SumFunctionOnSet(w, r)
      BY <3>1, <3>3
    <3> HIDE DEF p, r
    <3>6. QED BY <3>2, <3>4, <3>5
  <2>4. QED BY <2>2, <2>3
<1>2. F = SUBSET D
  <2> HIDE DEF F
  <2>1. F \in SUBSET (SUBSET D) BY DEF F
  <2>2. QED BY <1>1, <2>1, FiniteSetInduction
<1>3. D \in F
  BY <1>2
<1>4. QED BY <1>3

LEMMA SumExtended ==
  ASSUME NEW v, NEW w, NEW D, NEW E, IsFiniteSet(E), D \in SUBSET E, IsWeight(v, E),
         \A x \in D : v[x] = w[x], \A x \in E \ D : v[x] = 0
  PROVE  SumFunctionOnSet(v, E) = SumFunctionOnSet(w, D)
<1> DEFINE F == {s \in SUBSET E : SumFunctionOnSet(v, s) = SumFunctionOnSet(w, s \cap D)}
<1>1. ASSUME NEW s \in SUBSET E, \A x \in s : s \ {x} \in F PROVE s \in F
  <2>1. CASE s = {}
    <3>1. s \cap D = {}
      BY <2>1
    <3>2. QED BY <2>1, <3>1, SumEmpty
  <2>2. CASE s # {}
    <3> PICK x \in s : TRUE
      BY <2>2
    <3>1. IsFiniteSet(s) /\ IsFiniteSet(s \cap D)
      BY FS_Subset
    <3>2. IsWeight(v, s) /\ IsWeight(w, s \cap D)
      BY DEF IsWeight
    <3>3. SumFunctionOnSet(v, s) = v[x] + SumFunctionOnSet(v, s \ {x})
      BY <3>1, <3>2, SumRemove
    <3>4. SumFunctionOnSet(v, s \ {x}) = SumFunctionOnSet(w, (s \ {x}) \cap D)
      BY <1>1
    <3>5. SumFunctionOnSet(v, s \ {x}) \in Nat
      <4>1. IsFiniteSet(s \ {x}) /\ IsWeight(v, s \ {x})
        BY <3>1, <3>2, FS_RemoveElement DEF IsWeight
      <4>2. QED BY <4>1, SumIsNat
    <3>6. x \in D => SumFunctionOnSet(v, s) = SumFunctionOnSet(w, s \cap D)
      <4> SUFFICES ASSUME x \in D
                   PROVE  SumFunctionOnSet(v, s) = SumFunctionOnSet(w, s \cap D)
        OBVIOUS
      <4>1. SumFunctionOnSet(w, s \cap D)
              = w[x] + SumFunctionOnSet(w, (s \cap D) \ {x})
        BY <3>1, <3>2, SumRemove
      <4>2. (s \ {x}) \cap D = (s \cap D) \ {x} /\ v[x] = w[x]
        OBVIOUS
      <4>3. QED BY <3>3, <3>4, <4>1, <4>2
    <3>7. x \notin D => SumFunctionOnSet(v, s) = SumFunctionOnSet(w, s \cap D)
      <4> SUFFICES ASSUME x \notin D
                   PROVE  SumFunctionOnSet(v, s) = SumFunctionOnSet(w, s \cap D)
        OBVIOUS
      <4>1. (s \ {x}) \cap D = s \cap D
        OBVIOUS
      <4>2. SumFunctionOnSet(v, s \ {x}) = SumFunctionOnSet(w, s \cap D)
        BY <3>4, <4>1
      <4>3. v[x] = 0
        OBVIOUS
      <4>4. QED BY <3>3, <3>5, <4>2, <4>3
    <3>8. QED BY <3>6, <3>7
  <2>3. QED BY <2>1, <2>2
<1>2. F = SUBSET E
  <2> HIDE DEF F
  <2>1. F \in SUBSET (SUBSET E) BY DEF F
  <2>2. QED BY <1>1, <2>1, FiniteSetInduction
<1>3. E \in F /\ E \cap D = D
  BY <1>2
<1>4. QED BY <1>3

LEMMA SumUnion ==
  ASSUME NEW u, NEW v, NEW w, NEW D, NEW E, IsFiniteSet(D), IsFiniteSet(E),
         IsWeight(v, D), IsWeight(w, E),
         \A x \in D \cup E : u[x] = (IF x \in D THEN v[x] ELSE 0)
                                      + (IF x \in E THEN w[x] ELSE 0)
  PROVE  SumFunctionOnSet(u, D \cup E) = SumFunctionOnSet(v, D) + SumFunctionOnSet(w, E)
<1> DEFINE U  == D \cup E
           vv == [x \in U |-> IF x \in D THEN v[x] ELSE 0]
           ww == [x \in U |-> IF x \in E THEN w[x] ELSE 0]
<1>1. IsFiniteSet(U) /\ D \in SUBSET U /\ E \in SUBSET U
  BY FS_Union
<1>2. IsWeight(vv, U) /\ IsWeight(ww, U)
  BY DEF IsWeight
<1>3. \A x \in U : u[x] = vv[x] + ww[x]
  OBVIOUS
<1>4. /\ \A x \in D : vv[x] = v[x]
      /\ \A x \in U \ D : vv[x] = 0
      /\ \A x \in E : ww[x] = w[x]
      /\ \A x \in U \ E : ww[x] = 0
  OBVIOUS
<1> HIDE DEF U, vv, ww
<1>5. SumFunctionOnSet(vv, U) = SumFunctionOnSet(v, D)
  BY <1>1, <1>2, <1>4, SumExtended
<1>6. SumFunctionOnSet(ww, U) = SumFunctionOnSet(w, E)
  BY <1>1, <1>2, <1>4, SumExtended
<1>7. SumFunctionOnSet(u, U) = SumFunctionOnSet(vv, U) + SumFunctionOnSet(ww, U)
  BY <1>1, <1>2, <1>3, SumAdd
<1>8. QED BY <1>5, <1>6, <1>7 DEF U

(* A sum is the sum of the sums of its parts.                              *)
LEMMA SumOfParts ==
  ASSUME NEW w, NEW D, IsFiniteSet(D), IsWeight(w, D), NEW C, IsFiniteSet(C),
         NEW g, \A x \in D : g[x] \in C,
         NEW h, \A c \in C : h[c] = SumFunctionOnSet(w, {x \in D : g[x] = c})
  PROVE  SumFunctionOnSet(w, D) = SumFunctionOnSet(h, C)
<1> DEFINE In(K) == {x \in D : g[x] \in K}
           F == {K \in SUBSET C : SumFunctionOnSet(w, In(K)) = SumFunctionOnSet(h, K)}
<1>0. ASSUME NEW K PROVE IsFiniteSet(In(K)) /\ IsWeight(w, In(K))
  BY FS_Subset DEF IsWeight
<1>a. IsWeight(h, C)
  <2> SUFFICES ASSUME NEW c \in C PROVE h[c] \in Nat
    BY DEF IsWeight
  <2>1. {x \in D : g[x] = c} = In({c})
    OBVIOUS
  <2>2. h[c] = SumFunctionOnSet(w, In({c}))
    BY <2>1
  <2>3. IsFiniteSet(In({c})) /\ IsWeight(w, In({c}))
    BY <1>0
  <2> HIDE DEF In
  <2>4. QED BY <2>2, <2>3, SumIsNat
<1>1. ASSUME NEW K \in SUBSET C, \A c \in K : K \ {c} \in F PROVE K \in F
  <2>1. CASE K = {}
    <3>1. In(K) = {}
      BY <2>1
    <3>2. QED BY <2>1, <3>1, SumEmpty
  <2>2. CASE K # {}
    <3> PICK c \in K : TRUE
      BY <2>2
    <3> DEFINE A == In(K \ {c})
               B == In({c})
    <3>1. /\ IsFiniteSet(A) /\ IsWeight(w, A)
          /\ IsFiniteSet(B) /\ IsWeight(w, B)
      BY <1>0
    <3>2. In(K) = A \cup B /\ A \cap B = {} /\ B = {x \in D : g[x] = c}
      OBVIOUS
    <3>3. SumFunctionOnSet(w, A) = SumFunctionOnSet(h, K \ {c})
      BY <1>1
    <3>4. IsFiniteSet(K) /\ IsWeight(h, K)
      BY <1>a, FS_Subset DEF IsWeight
    <3>5. SumFunctionOnSet(h, K) = h[c] + SumFunctionOnSet(h, K \ {c})
      BY <3>4, SumRemove
    <3>6. h[c] = SumFunctionOnSet(w, B)
      BY <3>2
    <3>7. SumFunctionOnSet(w, A) \in Nat /\ SumFunctionOnSet(w, B) \in Nat
      BY <3>1, SumIsNat
    <3> HIDE DEF A, B, In
    <3>8. SumFunctionOnSet(w, A \cup B)
            = SumFunctionOnSet(w, A) + SumFunctionOnSet(w, B)
      <4>1. \A x \in A \cup B : w[x] = (IF x \in A THEN w[x] ELSE 0)
                                         + (IF x \in B THEN w[x] ELSE 0)
        BY <3>1, <3>2 DEF IsWeight
      <4>2. QED BY <3>1, <4>1, SumUnion
    <3>9. SumFunctionOnSet(w, In(K)) = SumFunctionOnSet(h, K)
      BY <3>2, <3>3, <3>5, <3>6, <3>7, <3>8
    <3>10. QED BY <3>9, Zenon
  <2>3. QED BY <2>1, <2>2
<1>2. F = SUBSET C
  <2> HIDE DEF F
  <2>1. F \in SUBSET (SUBSET C) BY DEF F
  <2>2. QED BY <1>1, <2>1, FiniteSetInduction
<1>3. C \in F /\ In(C) = D
  BY <1>2
<1>4. QED BY <1>3

-----------------------------------------------------------------------------
(* Bags of positions and entries, and what they use.                       *)

IsFiniteBag(b) == /\ IsFiniteSet(DOMAIN b)
                  /\ IsABag(b)
                  /\ \A e \in DOMAIN b : e.fraction \in Nat

CapOf(b) == [e \in DOMAIN b |-> e.fraction * b[e]]

LEMMA BagWeights ==
  ASSUME NEW b, IsFiniteBag(b), NEW p
  PROVE  /\ IsFiniteSet(DOMAIN b \cap p)
         /\ IsWeight(CapOf(b), DOMAIN b) /\ IsWeight(CapOf(b), DOMAIN b \cap p)
         /\ IsWeight(b, DOMAIN b) /\ IsWeight(b, DOMAIN b \cap p)
<1>1. \A e \in DOMAIN b : b[e] \in Nat /\ e.fraction \in Nat
  BY DEF IsFiniteBag, IsABag
<1>2. \A m \in Nat, n \in Nat : m * n \in Nat
  OBVIOUS
<1>3. \A e \in DOMAIN b : CapOf(b)[e] \in Nat
  BY <1>1, <1>2 DEF CapOf
<1>4. QED BY <1>1, <1>3, FS_Intersection DEF IsWeight, IsFiniteBag

LEMMA UseIsNat ==
  ASSUME NEW b, IsFiniteBag(b), NEW p
  PROVE  SumOf(b, p) \in Nat /\ CountOf(b, p) \in Nat
BY BagWeights, SumIsNat DEF SumOf, CountOf, CapOf

LEMMA MergeIsFinite ==
  ASSUME NEW b, IsFiniteBag(b), NEW c, IsFiniteBag(c)
  PROVE  IsFiniteBag(b (+) c) /\ DOMAIN (b (+) c) = DOMAIN b \cup DOMAIN c
<1>1. DOMAIN (b (+) c) = DOMAIN b \cup DOMAIN c
  BY DEF (+)
<1>2. IsFiniteSet(DOMAIN b \cup DOMAIN c)
  BY FS_Union DEF IsFiniteBag
<1>3. \A e \in DOMAIN b \cup DOMAIN c : (b (+) c)[e] \in Nat /\ (b (+) c)[e] > 0
  BY DEF (+), IsFiniteBag, IsABag
<1>4. IsABag(b (+) c)
  BY <1>1, <1>3 DEF IsABag, (+)
<1>5. QED BY <1>1, <1>2, <1>4 DEF IsFiniteBag

LEMMA UseOfMerge ==
  ASSUME NEW b, IsFiniteBag(b), NEW c, IsFiniteBag(c), NEW p
  PROVE  /\ SumOf(b (+) c, p) = SumOf(b, p) + SumOf(c, p)
         /\ CountOf(b (+) c, p) = CountOf(b, p) + CountOf(c, p)
<1> DEFINE D == DOMAIN b \cap p
           E == DOMAIN c \cap p
<1>0. DOMAIN (b (+) c) = DOMAIN b \cup DOMAIN c
  BY MergeIsFinite
<1>1. DOMAIN (b (+) c) \cap p = D \cup E
  BY <1>0, Zenon
<1>2. /\ IsFiniteSet(D) /\ IsWeight(CapOf(b), D) /\ IsWeight(b, D)
      /\ IsFiniteSet(E) /\ IsWeight(CapOf(c), E) /\ IsWeight(c, E)
  BY BagWeights
<1>3. \A e \in D \cup E : /\ e \in DOMAIN b <=> e \in D
                          /\ e \in DOMAIN c <=> e \in E
                          /\ e \in DOMAIN (b (+) c)
  BY <1>1
<1>4. \A e \in D \cup E : (b (+) c)[e] = (IF e \in D THEN b[e] ELSE 0)
                                           + (IF e \in E THEN c[e] ELSE 0)
  BY <1>3 DEF (+)
<1>5. \A e \in D \cup E : CapOf(b (+) c)[e] = (IF e \in D THEN CapOf(b)[e] ELSE 0)
                                           + (IF e \in E THEN CapOf(c)[e] ELSE 0)
  <2>1. ASSUME NEW e \in D \cup E
        PROVE  /\ e.fraction \in Nat
               /\ e \in D => b[e] \in Nat /\ CapOf(b)[e] = e.fraction * b[e]
               /\ e \in E => c[e] \in Nat /\ CapOf(c)[e] = e.fraction * c[e]
               /\ CapOf(b (+) c)[e] = e.fraction * (b (+) c)[e]
    BY <1>2, <1>3 DEF CapOf, IsFiniteBag, IsWeight
  <2>2. \A k \in Nat, m \in Nat, n \in Nat : k * (m + n) = k * m + k * n
    OBVIOUS
  <2>3. \A k \in Nat : k * 0 = 0
    OBVIOUS
  <2> SUFFICES ASSUME NEW e \in D \cup E
               PROVE  CapOf(b (+) c)[e] = (IF e \in D THEN CapOf(b)[e] ELSE 0)
                                            + (IF e \in E THEN CapOf(c)[e] ELSE 0)
    OBVIOUS
  <2>4. CASE e \in D /\ e \in E
    BY <1>4, <2>1, <2>2, <2>4
  <2>5. CASE e \in D /\ e \notin E
    BY <1>4, <2>1, <2>5
  <2>6. CASE e \notin D /\ e \in E
    BY <1>4, <2>1, <2>6
  <2>7. QED BY <2>4, <2>5, <2>6
<1> HIDE DEF D, E
<1>6. SumFunctionOnSet(CapOf(b (+) c), D \cup E)
        = SumFunctionOnSet(CapOf(b), D) + SumFunctionOnSet(CapOf(c), E)
  BY <1>2, <1>5, SumUnion
<1>7. SumFunctionOnSet(b (+) c, D \cup E)
        = SumFunctionOnSet(b, D) + SumFunctionOnSet(c, E)
  BY <1>2, <1>4, SumUnion
<1>8. QED BY <1>1, <1>6, <1>7 DEF SumOf, CountOf, CapOf, D, E

LEMMA UseOfSame ==
  ASSUME NEW b, NEW p, NEW q, DOMAIN b \cap p = DOMAIN b \cap q
  PROVE  SumOf(b, p) = SumOf(b, q) /\ CountOf(b, p) = CountOf(b, q)
BY Zenon DEF SumOf, CountOf

LEMMA UseOfNone ==
  ASSUME NEW b, NEW p, DOMAIN b \cap p = {}
  PROVE  SumOf(b, p) = 0 /\ CountOf(b, p) = 0
BY SumEmpty DEF SumOf, CountOf

LEMMA UseOfPart ==
  ASSUME NEW b, IsFiniteBag(b), NEW p, NEW q, DOMAIN b \cap p \subseteq q
  PROVE  SumOf(b, p) =< SumOf(b, q) /\ CountOf(b, p) =< CountOf(b, q)
<1> DEFINE D == DOMAIN b \cap p
           E == (DOMAIN b \cap q) \ D
<1>1. D \cup E = DOMAIN b \cap q /\ D \cap E = {}
  OBVIOUS
<1>2. /\ IsFiniteSet(D) /\ IsFiniteSet(E)
      /\ IsWeight(CapOf(b), D) /\ IsWeight(CapOf(b), E)
      /\ IsWeight(b, D) /\ IsWeight(b, E)
  BY BagWeights, FS_Subset DEF IsWeight
<1>3. ASSUME NEW w, IsWeight(w, D), IsWeight(w, E)
      PROVE  SumFunctionOnSet(w, D) =< SumFunctionOnSet(w, D \cup E)
  <2> HIDE DEF D, E
  <2>1. \A x \in D \cup E : w[x] = (IF x \in D THEN w[x] ELSE 0)
                                     + (IF x \in E THEN w[x] ELSE 0)
    BY <1>1, <1>3 DEF IsWeight
  <2>2. SumFunctionOnSet(w, D \cup E)
          = SumFunctionOnSet(w, D) + SumFunctionOnSet(w, E)
    BY <1>2, <1>3, <2>1, SumUnion
  <2>3. SumFunctionOnSet(w, D) \in Nat /\ SumFunctionOnSet(w, E) \in Nat
    BY <1>2, <1>3, SumIsNat
  <2>4. QED BY <2>2, <2>3
<1> HIDE DEF D, E
<1>4. /\ SumFunctionOnSet(CapOf(b), D) =< SumFunctionOnSet(CapOf(b), D \cup E)
      /\ SumFunctionOnSet(b, D) =< SumFunctionOnSet(b, D \cup E)
  BY <1>2, <1>3
<1>5. QED BY <1>1, <1>4 DEF SumOf, CountOf, CapOf, D

LEMMA EmptyIsFinite == IsFiniteBag(EmptyBag) /\ DOMAIN EmptyBag = {}
BY FS_EmptySet DEF EmptyBag, SetToBag, IsFiniteBag, IsABag

LEMMA OneIsFinite ==
  ASSUME NEW e, e.fraction \in Nat
  PROVE  IsFiniteBag(SetToBag({e})) /\ DOMAIN SetToBag({e}) = {e}
<1>1. DOMAIN SetToBag({e}) = {e} /\ IsABag(SetToBag({e}))
  BY DEF SetToBag, IsABag
<1>2. IsFiniteSet({e})
  BY FS_Singleton
<1>3. QED BY <1>1, <1>2 DEF IsFiniteBag

LEMMA TakenIsFinite ==
  ASSUME NEW b, IsFiniteBag(b), NEW e
  PROVE  /\ IsFiniteBag(b (-) SetToBag({e}))
         /\ DOMAIN (b (-) SetToBag({e})) \subseteq DOMAIN b
<1> DEFINE c == b (-) SetToBag({e})
<1>1. DOMAIN c \subseteq DOMAIN b
  BY DEF (-)
<1>2. \A x \in DOMAIN c : c[x] \in Nat /\ c[x] > 0
  BY DEF (-), SetToBag, IsFiniteBag, IsABag
<1>3. IsABag(c)
  BY <1>2 DEF (-), IsABag
<1>4. IsFiniteSet(DOMAIN c)
  BY <1>1, FS_Subset DEF IsFiniteBag
<1> HIDE DEF c
<1>5. IsFiniteBag(c)
  BY <1>1, <1>3, <1>4 DEF IsFiniteBag
<1>6. QED BY <1>1, <1>5 DEF c

LEMMA UseOfOne ==
  ASSUME NEW e, e.fraction \in Nat, NEW p
  PROVE  /\ SumOf(SetToBag({e}), p) = (IF e \in p THEN e.fraction ELSE 0)
         /\ CountOf(SetToBag({e}), p) = (IF e \in p THEN 1 ELSE 0)
<1> DEFINE b == SetToBag({e})
<1>1. IsFiniteBag(b) /\ DOMAIN b = {e} /\ b[e] = 1
  BY OneIsFinite DEF SetToBag
<1>2. CapOf(b)[e] = e.fraction
  <2>1. CapOf(b)[e] = e.fraction * b[e]
    BY <1>1 DEF CapOf
  <2>2. \A k \in Nat : k * 1 = k
    OBVIOUS
  <2>3. QED BY <1>1, <2>1, <2>2
<1> HIDE DEF b
<1>3. e \in p => SumOf(b, p) = e.fraction /\ CountOf(b, p) = 1
  <2> SUFFICES ASSUME e \in p PROVE SumOf(b, p) = e.fraction /\ CountOf(b, p) = 1
    OBVIOUS
  <2>1. DOMAIN b \cap p = {e}
    BY <1>1
  <2>2. IsFiniteSet({e}) /\ IsWeight(CapOf(b), {e}) /\ IsWeight(b, {e})
    BY <1>1, BagWeights
  <2>3. SumFunctionOnSet(CapOf(b), {e}) = CapOf(b)[e] + SumFunctionOnSet(CapOf(b), {e} \ {e})
    BY <2>2, SumRemove
  <2>4. SumFunctionOnSet(b, {e}) = b[e] + SumFunctionOnSet(b, {e} \ {e})
    BY <2>2, SumRemove
  <2>5. {e} \ {e} = {}
    OBVIOUS
  <2>6. /\ SumFunctionOnSet(CapOf(b), {e} \ {e}) = 0
        /\ SumFunctionOnSet(b, {e} \ {e}) = 0
    BY <2>5, SumEmpty
  <2>7. SumFunctionOnSet(CapOf(b), {e}) = e.fraction /\ SumFunctionOnSet(b, {e}) = 1
    BY <1>1, <1>2, <2>3, <2>4, <2>6
  <2>8. QED BY <2>1, <2>7 DEF SumOf, CountOf, CapOf
<1>4. e \notin p => SumOf(b, p) = 0 /\ CountOf(b, p) = 0
  <2>1. e \notin p => DOMAIN b \cap p = {}
    BY <1>1
  <2>2. QED BY <2>1, UseOfNone
<1>5. QED BY <1>3, <1>4 DEF b

(* Shadow picks reserve nothing, whatever bag they are in.                 *)
LEMMA ReservedIsFinite ==
  ASSUME NEW b, IsFiniteBag(b)
  PROVE  /\ IsFiniteBag(ReservedOf(b))
         /\ DOMAIN ReservedOf(b) = {e \in DOMAIN b : ~ e.shadow}
<1>1. DOMAIN ReservedOf(b) = {e \in DOMAIN b : ~ e.shadow}
  BY DEF ReservedOf
<1>2. IsFiniteSet(DOMAIN ReservedOf(b))
  BY <1>1, FS_Subset DEF IsFiniteBag
<1>3. IsABag(ReservedOf(b))
  BY DEF ReservedOf, IsFiniteBag, IsABag
<1>4. QED BY <1>1, <1>2, <1>3 DEF IsFiniteBag

LEMMA ReservedOfMerge ==
  ASSUME NEW b, NEW c
  PROVE  ReservedOf(b (+) c) = ReservedOf(b) (+) ReservedOf(c)
<1> DEFINE D == {e \in DOMAIN b \cup DOMAIN c : ~ e.shadow}
<1>1. /\ DOMAIN (b (+) c) = DOMAIN b \cup DOMAIN c
      /\ \A e \in DOMAIN b \cup DOMAIN c :
           (b (+) c)[e] = (IF e \in DOMAIN b THEN b[e] ELSE 0)
                            + (IF e \in DOMAIN c THEN c[e] ELSE 0)
  BY DEF (+)
<1>2. /\ DOMAIN ReservedOf(b) = {e \in DOMAIN b : ~ e.shadow}
      /\ DOMAIN ReservedOf(c) = {e \in DOMAIN c : ~ e.shadow}
      /\ \A e \in DOMAIN ReservedOf(b) : ReservedOf(b)[e] = b[e]
      /\ \A e \in DOMAIN ReservedOf(c) : ReservedOf(c)[e] = c[e]
  BY DEF ReservedOf
<1>3. ReservedOf(b (+) c)
        = [e \in D |-> (IF e \in DOMAIN b THEN b[e] ELSE 0)
                         + (IF e \in DOMAIN c THEN c[e] ELSE 0)]
  BY <1>1 DEF ReservedOf
<1>4. ReservedOf(b) (+) ReservedOf(c)
        = [e \in D |-> (IF e \in DOMAIN ReservedOf(b) THEN ReservedOf(b)[e] ELSE 0)
                         + (IF e \in DOMAIN ReservedOf(c) THEN ReservedOf(c)[e] ELSE 0)]
  <2>1. DOMAIN ReservedOf(b) \cup DOMAIN ReservedOf(c) = D
    BY <1>2
  <2>2. QED BY <2>1 DEF (+)
<1>5. \A e \in D :
        /\ (IF e \in DOMAIN b THEN b[e] ELSE 0)
             = (IF e \in DOMAIN ReservedOf(b) THEN ReservedOf(b)[e] ELSE 0)
        /\ (IF e \in DOMAIN c THEN c[e] ELSE 0)
             = (IF e \in DOMAIN ReservedOf(c) THEN ReservedOf(c)[e] ELSE 0)
  BY <1>2
<1>6. QED BY <1>3, <1>4, <1>5

LEMMA UseOfAdmitted ==
  ASSUME NEW b, IsFiniteBag(b), NEW e, e.fraction \in Nat, NEW p
  PROVE  LET c == b (+) SetToBag({e})
         IN  /\ SumOf(ReservedOf(c), p) =< SumOf(ReservedOf(b), p) + e.fraction
             /\ CountOf(ReservedOf(c), p) =< CountOf(ReservedOf(b), p) + 1
<1> DEFINE d == SetToBag({e})
           r == ReservedOf(d)
<1>1. IsFiniteBag(d) /\ IsFiniteBag(r) /\ IsFiniteBag(ReservedOf(b))
      /\ DOMAIN d = {e} /\ DOMAIN r \subseteq {e}
  BY OneIsFinite, ReservedIsFinite
<1>2. SumOf(r, p) =< e.fraction /\ CountOf(r, p) =< 1
  <2>1. CASE e.shadow
    <3>1. DOMAIN r \cap p = {}
      BY <1>1, <2>1 DEF ReservedOf
    <3> HIDE DEF r
    <3>2. SumOf(r, p) = 0 /\ CountOf(r, p) = 0
      BY <3>1, UseOfNone
    <3>3. QED BY <3>2
  <2>2. CASE ~ e.shadow
    <3>1. r = d
      BY <2>2 DEF ReservedOf, SetToBag
    <3>2. /\ SumOf(d, p) = (IF e \in p THEN e.fraction ELSE 0)
          /\ CountOf(d, p) = (IF e \in p THEN 1 ELSE 0)
      BY UseOfOne
    <3> HIDE DEF r, d
    <3>3. QED BY <3>1, <3>2
  <2>3. QED BY <2>1, <2>2
<1>3. ReservedOf(b (+) d) = ReservedOf(b) (+) r
  BY ReservedOfMerge
<1> HIDE DEF r
<1>4. /\ SumOf(ReservedOf(b) (+) r, p) = SumOf(ReservedOf(b), p) + SumOf(r, p)
      /\ CountOf(ReservedOf(b) (+) r, p) = CountOf(ReservedOf(b), p) + CountOf(r, p)
  BY <1>1, UseOfMerge
<1>5. /\ SumOf(ReservedOf(b), p) \in Nat /\ SumOf(r, p) \in Nat
      /\ CountOf(ReservedOf(b), p) \in Nat /\ CountOf(r, p) \in Nat
  BY <1>1, UseIsNat
<1>6. QED BY <1>2, <1>3, <1>4, <1>5

-----------------------------------------------------------------------------
(* The gates, as numbers.                                                  *)

LEMMA LeastOfTwo ==
  \A a \in Int, b \in Int : \E m \in {a, b} : m =< a /\ m =< b
OBVIOUS

LEMMA LeastOfFive ==
  ASSUME NEW a \in Int, NEW b \in Int, NEW c \in Int, NEW d \in Int, NEW e \in Int,
         NEW S, S = {a, b, c, d, e}
  PROVE  /\ Min(S) \in S
         /\ Min(S) =< a /\ Min(S) =< b /\ Min(S) =< c /\ Min(S) =< d /\ Min(S) =< e
<1>1. PICK k \in {a, b} : k =< a /\ k =< b
  BY LeastOfTwo
<1>2. PICK l \in {k, c} : l =< k /\ l =< c
  BY <1>1, LeastOfTwo
<1>3. PICK m \in {l, d} : m =< l /\ m =< d
  BY <1>1, <1>2, LeastOfTwo
<1>4. PICK n \in {m, e} : n =< m /\ n =< e
  BY <1>1, <1>2, <1>3, LeastOfTwo
<1>5. k \in Int /\ l \in Int /\ m \in Int /\ n \in Int
  BY <1>1, <1>2, <1>3, <1>4
<1>6. n \in S
  BY <1>1, <1>2, <1>3, <1>4
<1>7. n =< a /\ n =< b /\ n =< c /\ n =< d /\ n =< e
  BY <1>1, <1>2, <1>3, <1>4, <1>5
<1>8. \E x \in S : \A y \in S : x =< y
  BY <1>6, <1>7
<1>9. Min(S) \in S /\ \A y \in S : Min(S) =< y
  BY <1>8, Zenon DEF Min
<1>10. QED BY <1>9

LEMMA RoomIsLeft ==
  ASSUME NEW cap \in Nat, NEW used \in Nat
  PROVE  Room(cap, used) \in Nat /\ (Room(cap, used) > 0 => used < cap)
<1>1. \E x \in {0, cap - used} : \A y \in {0, cap - used} : x >= y
  OBVIOUS
<1>2. /\ Room(cap, used) \in {0, cap - used}
      /\ \A y \in {0, cap - used} : Room(cap, used) >= y
  BY <1>1, Zenon DEF Room, Max
<1>3. QED BY <1>2

(* A candidate with a size fits a position, and neither the portfolio nor  *)
(* its issuer had reached the cap.                                         *)
LEMMA SizeIsBounded ==
  ASSUME TypeOK, NEW want \in 0..MaxPosition, NEW c \in Clusters, NEW i \in Issuers
  PROVE  /\ Size(want, c, i) \in Nat /\ Size(want, c, i) =< MaxPosition
         /\ Size(want, c, i) > 0 => total < MaxTotal /\ issuerUsed[i] < MaxIssuer
<1> DEFINE r1 == Room(MaxCluster, use[c].cap)
           r2 == Room(MaxIssuer, issuerUsed[i])
           r3 == Room(MaxTotal, total)
<1>1. /\ MaxPosition \in Nat /\ MaxCluster \in Nat /\ MaxIssuer \in Nat
      /\ MaxTotal \in Nat /\ want \in Nat
  BY CapsAssumption
<1>2. use[c].cap \in Nat /\ issuerUsed[i] \in Nat /\ total \in Nat
  BY DEF TypeOK
<1>3. r1 \in Nat /\ r2 \in Nat /\ r3 \in Nat /\ (r3 > 0 => total < MaxTotal)
      /\ (r2 > 0 => issuerUsed[i] < MaxIssuer)
  BY <1>1, <1>2, RoomIsLeft
<1> DEFINE S == {want, MaxPosition, r1, r2, r3}
<1>4. Size(want, c, i) = Min(S)
  BY DEF Size
<1> HIDE DEF r1, r2, r3
<1>5. want \in Int /\ MaxPosition \in Int /\ r1 \in Int /\ r2 \in Int /\ r3 \in Int
  BY <1>1, <1>3
<1>6. S = {want, MaxPosition, r1, r2, r3}
  OBVIOUS
<1>7. S \subseteq Nat
  BY <1>1, <1>3
<1> HIDE DEF S
<1>8. Min(S) \in S /\ Min(S) =< MaxPosition /\ Min(S) =< r2 /\ Min(S) =< r3
  BY <1>5, <1>6, LeastOfFive
<1>9. Min(S) \in Nat
  BY <1>7, <1>8
<1>10. Min(S) > 0 => r2 > 0 /\ r3 > 0
  BY <1>3, <1>8, <1>9
<1>11. Size(want, c, i) \in Nat /\ Size(want, c, i) =< MaxPosition
  BY <1>4, <1>8, <1>9
<1>12. QED BY <1>3, <1>4, <1>10, <1>11

-----------------------------------------------------------------------------
(* The uses of the store, by the sets of items they are about.             *)

Item            == Position \cup Entry
InCluster(f, c) == {e \in Item : e.underlying # Unknown /\ f[e.underlying] = c}
OfIssuer(i)     == {e \in Item : e.issuer = i}
Unattributed    == {e \in Item : e.underlying = Unknown}

Held(pos, led, p)      == SumOf(pos, p) + SumOf(ReservedOf(led), p)
HeldCount(pos, led, p) == CountOf(pos, p) + CountOf(ReservedOf(led), p)

IsStore(pos, led) == /\ IsFiniteBag(pos) /\ IsFiniteBag(led)
                     /\ DOMAIN pos \subseteq Position /\ DOMAIN led \subseteq Entry

LEMMA ItemFacts ==
  \A e \in Item : /\ e.underlying \in Underlyings \cup {Unknown}
                  /\ e.fraction \in Nat
<1>1. \A e \in Position : e.underlying \in Underlyings \cup {Unknown} /\ e.fraction \in Nat
  BY CapsAssumption DEF Position
<1>2. \A e \in Entry : e.underlying \in Underlyings \cup {Unknown} /\ e.fraction \in Nat
  BY CapsAssumption DEF Entry
<1>3. QED BY <1>1, <1>2 DEF Item

LEMMA BookIsOfItems ==
  ASSUME IsStore(positions, ledger)
  PROVE  Book \subseteq Item /\ DOMAIN positions \subseteq Book
         /\ DOMAIN ReservedOf(ledger) \subseteq Book
BY ReservedIsFinite DEF IsStore, Book, Reserved, Item

LEMMA UsedByPart ==
  ASSUME IsStore(positions, ledger), NEW p, NEW q, p = Book \cap q
  PROVE  /\ UsedBy(p) = Held(positions, ledger, q)
         /\ CountOf(positions, p) + CountOf(Reserved, p) = HeldCount(positions, ledger, q)
<1>1. /\ DOMAIN positions \cap p = DOMAIN positions \cap q
      /\ DOMAIN Reserved \cap p = DOMAIN Reserved \cap q
  BY DEF Book
<1>2. /\ SumOf(positions, p) = SumOf(positions, q)
      /\ SumOf(Reserved, p) = SumOf(Reserved, q)
      /\ CountOf(positions, p) = CountOf(positions, q)
      /\ CountOf(Reserved, p) = CountOf(Reserved, q)
  BY <1>1, UseOfSame
<1>3. QED BY <1>2 DEF UsedBy, Held, HeldCount, Reserved

UsesHeld ==
  /\ \A f, c : /\ ClusterUse(f, c).cap = Held(positions, ledger, InCluster(f, c))
               /\ ClusterUse(f, c).n = HeldCount(positions, ledger, InCluster(f, c))
               /\ ClusterUse(f, c) = Load(ClusterUse(f, c).n, ClusterUse(f, c).cap)
  /\ \A i : IssuerUse(i) = Held(positions, ledger, OfIssuer(i))
  /\ TotalUse = Held(positions, ledger, Item)
  /\ UnattributedUse = Held(positions, ledger, Unattributed)

LEMMA UsesAreHeld == IsStore(positions, ledger) => UsesHeld
<1> SUFFICES ASSUME IsStore(positions, ledger) PROVE UsesHeld
  OBVIOUS
<1>1. Book \subseteq Item
  BY BookIsOfItems
<1>2. ASSUME NEW f, NEW c
      PROVE  /\ ClusterUse(f, c).cap = Held(positions, ledger, InCluster(f, c))
             /\ ClusterUse(f, c).n = HeldCount(positions, ledger, InCluster(f, c))
             /\ ClusterUse(f, c) = Load(ClusterUse(f, c).n, ClusterUse(f, c).cap)
  <2> DEFINE p == {e \in Book : e.underlying # Unknown /\ f[e.underlying] = c}
  <2>1. p = Book \cap InCluster(f, c)
    BY <1>1 DEF InCluster
  <2>2. ClusterUse(f, c) = Load(CountOf(positions, p) + CountOf(Reserved, p), UsedBy(p))
    BY DEF ClusterUse
  <2> HIDE DEF p
  <2>3. /\ UsedBy(p) = Held(positions, ledger, InCluster(f, c))
        /\ CountOf(positions, p) + CountOf(Reserved, p)
             = HeldCount(positions, ledger, InCluster(f, c))
    BY <2>1, UsedByPart
  <2>4. QED BY <2>2, <2>3 DEF Load
<1>3. ASSUME NEW i PROVE IssuerUse(i) = Held(positions, ledger, OfIssuer(i))
  <2>1. {e \in Book : e.issuer = i} = Book \cap OfIssuer(i)
    BY <1>1 DEF OfIssuer
  <2>2. QED BY <2>1, UsedByPart DEF IssuerUse
<1>4. TotalUse = Held(positions, ledger, Item)
  <2>1. Book = Book \cap Item
    BY <1>1
  <2>2. QED BY <2>1, UsedByPart DEF TotalUse
<1>5. UnattributedUse = Held(positions, ledger, Unattributed)
  <2>1. {e \in Book : e.underlying = Unknown} = Book \cap Unattributed
    BY <1>1 DEF Unattributed
  <2>2. QED BY <2>1, UsedByPart DEF UnattributedUse
<1>6. QED BY <1>2, <1>3, <1>4, <1>5 DEF UsesHeld

LEMMA HeldIsNat ==
  ASSUME NEW pos, NEW led, IsStore(pos, led), NEW p
  PROVE  Held(pos, led, p) \in Nat /\ HeldCount(pos, led, p) \in Nat
<1>1. IsFiniteBag(pos) /\ IsFiniteBag(ReservedOf(led))
  BY ReservedIsFinite DEF IsStore
<1>2. /\ SumOf(pos, p) \in Nat /\ CountOf(pos, p) \in Nat
      /\ SumOf(ReservedOf(led), p) \in Nat /\ CountOf(ReservedOf(led), p) \in Nat
  BY <1>1, UseIsNat
<1>3. QED BY <1>2 DEF Held, HeldCount

(* What a scan records is added to every use by what it reserves.          *)
LEMMA HeldOfMerge ==
  ASSUME NEW pos, NEW led, IsStore(pos, led), NEW b, IsFiniteBag(b), NEW p
  PROVE  /\ Held(pos, led (+) b, p) = Held(pos, led, p) + SumOf(ReservedOf(b), p)
         /\ HeldCount(pos, led (+) b, p) = HeldCount(pos, led, p) + CountOf(ReservedOf(b), p)
         /\ SumOf(ReservedOf(b), p) \in Nat /\ CountOf(ReservedOf(b), p) \in Nat
<1>1. IsFiniteBag(pos) /\ IsFiniteBag(ReservedOf(led)) /\ IsFiniteBag(ReservedOf(b))
  BY ReservedIsFinite DEF IsStore
<1>2. ReservedOf(led (+) b) = ReservedOf(led) (+) ReservedOf(b)
  BY ReservedOfMerge
<1>3. /\ SumOf(ReservedOf(led (+) b), p)
           = SumOf(ReservedOf(led), p) + SumOf(ReservedOf(b), p)
      /\ CountOf(ReservedOf(led (+) b), p)
           = CountOf(ReservedOf(led), p) + CountOf(ReservedOf(b), p)
  BY <1>1, <1>2, UseOfMerge
<1>4. /\ SumOf(pos, p) \in Nat /\ SumOf(ReservedOf(led), p) \in Nat
      /\ SumOf(ReservedOf(b), p) \in Nat
      /\ CountOf(pos, p) \in Nat /\ CountOf(ReservedOf(led), p) \in Nat
      /\ CountOf(ReservedOf(b), p) \in Nat
  BY <1>1, UseIsNat
<1>5. QED BY <1>3, <1>4 DEF Held, HeldCount

(* The whole is what is unattributed and what the clusters use.            *)
LEMMA SumOfClusters ==
  ASSUME NEW b, IsFiniteBag(b), DOMAIN b \subseteq Item,
         NEW f \in [Underlyings -> Clusters], NEW h,
         \A c \in Clusters : h[c] = SumOf(b, InCluster(f, c))
  PROVE  /\ SumOf(b, Item) = SumOf(b, Unattributed) + SumFunctionOnSet(h, Clusters)
         /\ IsWeight(h, Clusters)
<1> DEFINE w == CapOf(b)
           D == DOMAIN b \cap Unattributed
           E == (DOMAIN b \cap Item) \ D
           g == [e \in E |-> f[e.underlying]]
<1>1. D \cup E = DOMAIN b \cap Item /\ D \cap E = {}
  BY DEF Unattributed
<1>2. IsFiniteSet(D) /\ IsFiniteSet(E) /\ IsWeight(w, D) /\ IsWeight(w, E)
  BY BagWeights, FS_Subset DEF IsWeight
<1>3. \A e \in E : e \in Item /\ e \in DOMAIN b /\ e.underlying \in Underlyings
                   /\ e.underlying # Unknown
  BY ItemFacts DEF Unattributed
<1>4. \A e \in E : g[e] \in Clusters
  BY <1>3
<1>5. ASSUME NEW c \in Clusters
      PROVE  h[c] = SumFunctionOnSet(w, {e \in E : g[e] = c}) /\ h[c] \in Nat
  <2>1. \A e \in DOMAIN b : e \in Unattributed => e \notin InCluster(f, c)
    BY DEF Unattributed, InCluster
  <2>2. {e \in E : g[e] = c} = DOMAIN b \cap InCluster(f, c)
    BY <1>3, <2>1 DEF InCluster, Unattributed
  <2>3. h[c] = SumFunctionOnSet(w, DOMAIN b \cap InCluster(f, c))
    BY DEF SumOf, CapOf
  <2>4. SumOf(b, InCluster(f, c)) \in Nat
    BY UseIsNat
  <2>5. QED BY <2>2, <2>3, <2>4
<1> HIDE DEF w, D, E, g
<1>6. SumFunctionOnSet(w, E) = SumFunctionOnSet(h, Clusters)
  BY <1>2, <1>4, <1>5, ClusteringsAssumption, SumOfParts
<1>7. SumFunctionOnSet(w, D \cup E) = SumFunctionOnSet(w, D) + SumFunctionOnSet(w, E)
  <2>1. \A x \in D \cup E : w[x] = (IF x \in D THEN w[x] ELSE 0)
                                     + (IF x \in E THEN w[x] ELSE 0)
    BY <1>1, <1>2 DEF IsWeight
  <2>2. QED BY <1>2, <2>1, SumUnion
<1>8. /\ SumOf(b, Item) = SumFunctionOnSet(w, D \cup E)
      /\ SumOf(b, Unattributed) = SumFunctionOnSet(w, D)
  BY <1>1 DEF SumOf, CapOf, w, D
<1>9. QED BY <1>5, <1>6, <1>7, <1>8 DEF IsWeight

LEMMA HeldOfClusters ==
  ASSUME NEW pos, NEW led, IsStore(pos, led), NEW f \in [Underlyings -> Clusters],
         NEW h, \A c \in Clusters : h[c] = Held(pos, led, InCluster(f, c))
  PROVE  Held(pos, led, Item) = Held(pos, led, Unattributed) + SumFunctionOnSet(h, Clusters)
<1> DEFINE r == ReservedOf(led)
           u == [c \in Clusters |-> SumOf(pos, InCluster(f, c))]
           v == [c \in Clusters |-> SumOf(r, InCluster(f, c))]
<1>1. /\ IsFiniteBag(pos) /\ DOMAIN pos \subseteq Item
      /\ IsFiniteBag(r) /\ DOMAIN r \subseteq Item
  BY ReservedIsFinite DEF IsStore, Item
<1>2. /\ \A c \in Clusters : u[c] = SumOf(pos, InCluster(f, c))
      /\ \A c \in Clusters : v[c] = SumOf(r, InCluster(f, c))
      /\ \A c \in Clusters : h[c] = u[c] + v[c]
  BY DEF Held
<1> HIDE DEF r, u, v
<1>3. /\ SumOf(pos, Item) = SumOf(pos, Unattributed) + SumFunctionOnSet(u, Clusters)
      /\ IsWeight(u, Clusters)
  BY <1>1, <1>2, SumOfClusters
<1>4. /\ SumOf(r, Item) = SumOf(r, Unattributed) + SumFunctionOnSet(v, Clusters)
      /\ IsWeight(v, Clusters)
  BY <1>1, <1>2, SumOfClusters
<1>5. SumFunctionOnSet(h, Clusters)
        = SumFunctionOnSet(u, Clusters) + SumFunctionOnSet(v, Clusters)
  BY <1>2, <1>3, <1>4, ClusteringsAssumption, SumAdd
<1>6. /\ SumFunctionOnSet(u, Clusters) \in Nat /\ SumFunctionOnSet(v, Clusters) \in Nat
      /\ SumOf(pos, Unattributed) \in Nat /\ SumOf(r, Unattributed) \in Nat
  BY <1>1, <1>3, <1>4, ClusteringsAssumption, SumIsNat, UseIsNat
<1>7. QED BY <1>3, <1>4, <1>5, <1>6 DEF Held, r

-----------------------------------------------------------------------------
(* The inductive invariant.  The budgets cover the store, all but the      *)
(* entries of a bag apart: what the batch's failed scans recorded, and,    *)
(* between its writing and its return, what the running scan did.          *)

Apart(b, p)      == SumOf(ReservedOf(b), p)
ApartCount(b, p) == CountOf(ReservedOf(b), p)

Covers(pos, led, f, u, iss, una, b) ==
  /\ \A c \in Clusters :
       /\ Held(pos, led, InCluster(f, c)) =< u[c].cap + Apart(b, InCluster(f, c))
       /\ HeldCount(pos, led, InCluster(f, c)) =< u[c].n + ApartCount(b, InCluster(f, c))
  /\ \A i \in Issuers : Held(pos, led, OfIssuer(i)) =< iss[i] + Apart(b, OfIssuer(i))
  /\ Held(pos, led, Unattributed) =< una + Apart(b, Unattributed)

SumOfUse(u) == SumFunction([c \in Clusters |-> u[c].cap])

Cluster == clusterOf[current]
After   == [use EXCEPT ![Cluster] = running]
Fresh   == ReservedOf(new)
IssuersAfter == [i \in Issuers |->
                   issuerUsed[i] + SumOf(Fresh, {e \in DOMAIN new : e.issuer = i})]

StoreOK == /\ IsStore(positions, ledger)
           /\ IsFiniteBag(new) /\ DOMAIN new \subseteq Entry
           /\ IsFiniteBag(orphans) /\ DOMAIN orphans \subseteq Entry

BudgetsOK ==
  passed /\ phase \in {"batch", "scan"} =>
    Covers(positions, ledger, clusterOf, use, issuerUsed, unattributed, orphans)

RecordedOK ==
  passed /\ phase = "recorded" =>
    Covers(positions, ledger, clusterOf, use, issuerUsed, unattributed, orphans (+) new)

TotalOK == passed /\ phase # "idle" => total = unattributed + SumOfUse(use)

ScanOK ==
  phase \in {"scan", "recorded"} =>
    /\ current \in Underlyings
    /\ \A e \in DOMAIN new : e.underlying = current /\ issuerUsed[e.issuer] < MaxIssuer
    /\ use[Cluster].cap + SumOf(Fresh, Entry) =< running.cap
    /\ use[Cluster].n + CountOf(Fresh, Entry) =< running.n
    /\ DOMAIN new # {} => /\ passed /\ total < MaxTotal
                          /\ running.cap =< MaxCluster /\ running.n =< MaxActive

IInv == TypeOK /\ StoreOK /\ BudgetsOK /\ RecordedOK /\ TotalOK /\ ScanOK

(* The bag apart is merged like any other.                                 *)
LEMMA ApartOfMerge ==
  ASSUME NEW b, IsFiniteBag(b), NEW c, IsFiniteBag(c), NEW p
  PROVE  /\ Apart(b (+) c, p) = Apart(b, p) + SumOf(ReservedOf(c), p)
         /\ ApartCount(b (+) c, p) = ApartCount(b, p) + CountOf(ReservedOf(c), p)
         /\ Apart(b, p) \in Nat /\ ApartCount(b, p) \in Nat
<1>1. IsFiniteBag(ReservedOf(b)) /\ IsFiniteBag(ReservedOf(c))
  BY ReservedIsFinite
<1>2. ReservedOf(b (+) c) = ReservedOf(b) (+) ReservedOf(c)
  BY ReservedOfMerge
<1>3. /\ SumOf(ReservedOf(b (+) c), p) = SumOf(ReservedOf(b), p) + SumOf(ReservedOf(c), p)
      /\ CountOf(ReservedOf(b (+) c), p)
           = CountOf(ReservedOf(b), p) + CountOf(ReservedOf(c), p)
  BY <1>1, <1>2, UseOfMerge
<1>4. SumOf(ReservedOf(b), p) \in Nat /\ CountOf(ReservedOf(b), p) \in Nat
  BY <1>1, UseIsNat
<1>5. QED BY <1>3, <1>4 DEF Apart, ApartCount

LEMMA NothingApart ==
  \A p : Apart(EmptyBag, p) = 0 /\ ApartCount(EmptyBag, p) = 0
<1> SUFFICES ASSUME NEW p PROVE Apart(EmptyBag, p) = 0 /\ ApartCount(EmptyBag, p) = 0
  OBVIOUS
<1>1. DOMAIN ReservedOf(EmptyBag) \cap p = {}
  BY EmptyIsFinite DEF ReservedOf
<1>2. QED BY <1>1, UseOfNone DEF Apart, ApartCount

LEMMA NoClustersIsOne == NoClusters \in Clusterings
BY ClusteringsAssumption DEF NoClusters

LEMMA ClustersOfUnderlyings ==
  \A f \in Clusterings : f \in [Underlyings -> Clusters]
BY ClusteringsAssumption

LEMMA InitIsInv == Init => IInv
<1> SUFFICES ASSUME Init PROVE IInv
  OBVIOUS
<1> USE DEF Init
<1>1. IsFiniteBag(EmptyBag) /\ DOMAIN EmptyBag = {}
  BY EmptyIsFinite
<1>2. TypeOK
  <2>1. \A S : IsBagOf(EmptyBag, S)
    BY <1>1 DEF IsBagOf, IsFiniteBag
  <2>2. use \in [Clusters -> [n : Nat, cap : Nat]] /\ running \in [n : Nat, cap : Nat]
    BY DEF NoUse, Load
  <2>3. issuerUsed \in [Issuers -> Nat]
    OBVIOUS
  <2>4. /\ IsBagOf(positions, Position) /\ IsBagOf(ledger, Entry)
        /\ IsBagOf(new, Entry) /\ IsBagOf(orphans, Entry)
    BY <2>1, Zenon
  <2>5. /\ phase \in {"idle", "batch", "scan", "recorded"}
        /\ todo \subseteq Underlyings /\ clusterOf \in Clusterings
        /\ current \in Underlyings \cup {Unknown}
    BY NoClustersIsOne
  <2>6. {passed, covered, healthy} \subseteq BOOLEAN
    <3>1. passed \in BOOLEAN /\ covered \in BOOLEAN
      OBVIOUS
    <3>2. healthy \in BOOLEAN
      OBVIOUS
    <3>3. QED BY <3>1, <3>2, Zenon
  <2>7. {unattributed, total, batches} \subseteq Nat
    OBVIOUS
  <2>8. QED BY <2>2, <2>3, <2>4, <2>5, <2>6, <2>7, Zenon DEF TypeOK
<1>3. StoreOK
  BY <1>1 DEF StoreOK, IsStore
<1>4. QED BY <1>2, <1>3 DEF IInv, BudgetsOK, RecordedOK, TotalOK, ScanOK

(* A batch begins with what the store uses.                                *)
LEMMA StartBatchKeepsInv ==
  ASSUME IInv, NEW f \in Clusterings, NEW known \in BOOLEAN, StartBatch(f, known)
  PROVE  IInv'
<1> USE DEF StartBatch, IInv
<1>0. orphans' = EmptyBag /\ IsFiniteBag(EmptyBag) /\ DOMAIN EmptyBag = {}
  BY EmptyIsFinite
<1>1. IsStore(positions, ledger)
  BY DEF StoreOK
<1>2. /\ \A c : /\ ClusterUse(f, c).cap = Held(positions, ledger, InCluster(f, c))
                /\ ClusterUse(f, c).n = HeldCount(positions, ledger, InCluster(f, c))
                /\ ClusterUse(f, c) = Load(ClusterUse(f, c).n, ClusterUse(f, c).cap)
      /\ \A i : IssuerUse(i) = Held(positions, ledger, OfIssuer(i))
      /\ TotalUse = Held(positions, ledger, Item)
      /\ UnattributedUse = Held(positions, ledger, Unattributed)
  BY <1>1, UsesAreHeld DEF UsesHeld
<1>3. \A p : /\ Held(positions, ledger, p) \in Nat
             /\ HeldCount(positions, ledger, p) \in Nat
  BY <1>1, HeldIsNat
<1>4. \A c \in Clusters : ClusterUse(f, c) \in [n : Nat, cap : Nat]
  BY <1>2, <1>3 DEF Load
<1>5. TypeOK'
  <2>1. use' \in [Clusters -> [n : Nat, cap : Nat]]
    BY <1>4 DEF Load
  <2>2. {unattributed', total', batches'} \subseteq Nat
    BY <1>2, <1>3 DEF TypeOK
  <2>3. issuerUsed' \in [Issuers -> Nat]
    BY <1>2, <1>3
  <2>4. IsBagOf(orphans', Entry)
    BY <1>0 DEF IsBagOf, IsFiniteBag
  <2>5. QED BY <2>1, <2>2, <2>3, <2>4 DEF TypeOK, store, scan
<1>6. StoreOK'
  BY <1>0 DEF StoreOK, store, scan
<1>7. phase' = "batch"
  OBVIOUS
<1>8. ASSUME passed'
      PROVE  /\ Covers(positions', ledger', clusterOf', use', issuerUsed', unattributed', orphans')
             /\ total' = unattributed' + SumOfUse(use')
  <2>1. known
    BY <1>8
  <2>2. /\ \A c \in Clusters : use'[c] = ClusterUse(f, c)
        /\ \A i \in Issuers : issuerUsed'[i] = IssuerUse(i)
        /\ unattributed' = UnattributedUse /\ total' = TotalUse
        /\ clusterOf' = f /\ positions' = positions /\ ledger' = ledger
    BY <2>1 DEF store
  <2>3. Covers(positions', ledger', clusterOf', use', issuerUsed', unattributed', orphans')
    <3>1. \A p : Apart(orphans', p) = 0 /\ ApartCount(orphans', p) = 0
      BY <1>0, NothingApart
    <3>2. QED BY <1>2, <1>3, <2>2, <3>1 DEF Covers
  <2> DEFINE h == [c \in Clusters |-> use'[c].cap]
  <2>4. \A c \in Clusters : h[c] = Held(positions, ledger, InCluster(f, c))
    BY <1>2, <2>2
  <2>5. SumOfUse(use') = SumFunctionOnSet(h, Clusters)
    BY DEF SumOfUse, SumFunction
  <2>6. f \in [Underlyings -> Clusters]
    BY ClustersOfUnderlyings
  <2> HIDE DEF h
  <2>7. Held(positions, ledger, Item)
          = Held(positions, ledger, Unattributed) + SumFunctionOnSet(h, Clusters)
    BY <1>1, <2>4, <2>6, HeldOfClusters
  <2>8. QED BY <1>2, <2>2, <2>3, <2>5, <2>7
<1>9. QED BY <1>5, <1>6, <1>7, <1>8 DEF BudgetsOK, RecordedOK, TotalOK, ScanOK

LEMMA StartScanKeepsInv ==
  ASSUME IInv, NEW u \in Underlyings, StartScan(u)
  PROVE  IInv'
<1> USE DEF StartScan, IInv
<1>1. clusterOf \in [Underlyings -> Clusters]
  BY ClustersOfUnderlyings DEF TypeOK
<1>2. use[clusterOf[u]] \in [n : Nat, cap : Nat]
  BY <1>1 DEF TypeOK
<1>3. IsFiniteBag(EmptyBag) /\ DOMAIN EmptyBag = {}
  BY EmptyIsFinite
<1>4. TypeOK'
  BY <1>2, <1>3 DEF TypeOK, IsBagOf, IsFiniteBag, store, acc
<1>5. StoreOK'
  BY <1>3 DEF StoreOK, store
<1>6. SumOf(Fresh, Entry)' = 0 /\ CountOf(Fresh, Entry)' = 0
  <2>1. DOMAIN ReservedOf(EmptyBag) \cap Entry = {}
    BY <1>3 DEF ReservedOf
  <2>2. SumOf(ReservedOf(EmptyBag), Entry) = 0 /\ CountOf(ReservedOf(EmptyBag), Entry) = 0
    BY <2>1, UseOfNone
  <2>3. Fresh' = ReservedOf(EmptyBag)
    BY DEF Fresh
  <2>4. /\ SumOf(Fresh', Entry) = 0 /\ CountOf(Fresh', Entry) = 0
    BY <2>2, <2>3
  <2>5. QED BY <2>4 DEF SumOf, CountOf
<1>7. ScanOK'
  <2>1. Cluster' = clusterOf[u] /\ use' = use /\ running' = use[clusterOf[u]]
    BY DEF Cluster, acc
  <2>2. DOMAIN new' = {} /\ current' \in Underlyings
    BY <1>3
  <2>3. /\ use'[Cluster'].cap + 0 =< running'.cap
        /\ use'[Cluster'].n + 0 =< running'.n
    BY <1>2, <2>1
  <2>4. QED BY <1>6, <2>2, <2>3 DEF ScanOK
<1>8. BudgetsOK' /\ RecordedOK' /\ TotalOK'
  BY DEF BudgetsOK, RecordedOK, TotalOK, store, acc
<1>9. QED BY <1>4, <1>5, <1>7, <1>8

LEMMA AdmitKeepsInv ==
  ASSUME IInv, NEW i \in Issuers, NEW want \in 0..MaxPosition, NEW shadow \in BOOLEAN,
         Admit(i, want, shadow)
  PROVE  IInv'
<1> DEFINE fraction == Size(want, clusterOf[current], i)
           e == [underlying |-> current, issuer |-> i, fraction |-> fraction,
                 shadow |-> shadow, healthy |-> healthy]
<1> USE DEF IInv
<1>1. /\ phase = "scan" /\ Actionable(fraction)
      /\ running' = Load(running.n + 1, running.cap + fraction)
      /\ new' = new (+) SetToBag({e})
      /\ UNCHANGED <<store, phase, batch, current, covered, healthy, batches>>
  BY DEF Admit
<1>2. current \in Underlyings /\ Cluster \in Clusters
  BY <1>1, ClustersOfUnderlyings DEF ScanOK, TypeOK, Cluster
<1>3. /\ fraction \in Nat /\ fraction =< MaxPosition /\ fraction > 0
      /\ total < MaxTotal /\ passed /\ issuerUsed[i] < MaxIssuer
      /\ running.n + 1 =< MaxActive /\ running.cap + fraction =< MaxCluster
  BY <1>1, <1>2, SizeIsBounded DEF Cluster, Actionable, ClusterPass
<1>4. e \in Entry /\ e.fraction = fraction /\ e.underlying = current /\ e.issuer = i
  BY <1>2, <1>3, CapsAssumption DEF Entry, TypeOK
<1> HIDE DEF fraction, e
<1>5. IsFiniteBag(new) /\ IsFiniteBag(SetToBag({e})) /\ DOMAIN SetToBag({e}) = {e}
  BY <1>3, <1>4, OneIsFinite DEF StoreOK
<1>6. IsFiniteBag(new') /\ DOMAIN new' = DOMAIN new \cup {e}
  BY <1>1, <1>5, MergeIsFinite
<1>7. StoreOK'
  BY <1>1, <1>4, <1>6 DEF StoreOK, store, batch
<1>8. running.n \in Nat /\ running.cap \in Nat
  BY DEF TypeOK
<1>9. running'.n = running.n + 1 /\ running'.cap = running.cap + fraction
  BY <1>1 DEF Load
<1>10. TypeOK'
  <2>1. running' \in [n : Nat, cap : Nat]
    BY <1>1, <1>3, <1>8 DEF Load
  <2>2. IsBagOf(new', Entry)
    BY <1>6, <1>7 DEF IsBagOf, IsFiniteBag, StoreOK
  <2>3. QED BY <1>1, <2>1, <2>2 DEF TypeOK, store, batch, acc
<1>11. /\ SumOf(ReservedOf(new'), Entry) =< SumOf(ReservedOf(new), Entry) + fraction
       /\ CountOf(ReservedOf(new'), Entry) =< CountOf(ReservedOf(new), Entry) + 1
  BY <1>1, <1>3, <1>4, <1>5, UseOfAdmitted
<1>12. /\ SumOf(ReservedOf(new'), Entry) \in Nat /\ CountOf(ReservedOf(new'), Entry) \in Nat
       /\ SumOf(ReservedOf(new), Entry) \in Nat /\ CountOf(ReservedOf(new), Entry) \in Nat
  BY <1>5, <1>6, ReservedIsFinite, UseIsNat
<1>13. use[Cluster].cap \in Nat /\ use[Cluster].n \in Nat
  BY <1>2 DEF TypeOK
<1>14. /\ use[Cluster].cap + SumOf(ReservedOf(new), Entry) =< running.cap
       /\ use[Cluster].n + CountOf(ReservedOf(new), Entry) =< running.n
  BY <1>1 DEF ScanOK, Fresh
<1>15. /\ use[Cluster].cap + SumOf(ReservedOf(new'), Entry) =< running'.cap
       /\ use[Cluster].n + CountOf(ReservedOf(new'), Entry) =< running'.n
  BY <1>3, <1>8, <1>9, <1>11, <1>12, <1>13, <1>14
<1>16. ScanOK'
  <2>1. Cluster' = Cluster /\ use' = use /\ current' = current
        /\ passed' = passed /\ total' = total /\ issuerUsed' = issuerUsed
    BY <1>1 DEF Cluster, batch, acc
  <2>2. \A x \in DOMAIN new' : x.underlying = current /\ issuerUsed[x.issuer] < MaxIssuer
    BY <1>1, <1>3, <1>4, <1>6 DEF ScanOK
  <2>3. /\ SumOf(Fresh, Entry)' = SumOf(ReservedOf(new'), Entry)
        /\ CountOf(Fresh, Entry)' = CountOf(ReservedOf(new'), Entry)
    BY DEF Fresh, SumOf, CountOf, Entry
  <2>4. QED BY <1>2, <1>3, <1>9, <1>15, <2>1, <2>2, <2>3 DEF ScanOK
<1>17. BudgetsOK' /\ RecordedOK' /\ TotalOK'
  BY <1>1 DEF BudgetsOK, RecordedOK, TotalOK, store, batch, acc
<1>18. QED BY <1>7, <1>10, <1>16, <1>17

(* What a scan reserves is all in one cluster and all attributed.          *)
LEMMA FreshIsOfOneCluster ==
  ASSUME TypeOK, StoreOK, ScanOK, phase \in {"scan", "recorded"}
  PROVE  /\ \A c \in Clusters : c # Cluster =>
              /\ SumOf(Fresh, InCluster(clusterOf, c)) = 0
              /\ CountOf(Fresh, InCluster(clusterOf, c)) = 0
         /\ SumOf(Fresh, InCluster(clusterOf, Cluster)) =< SumOf(Fresh, Entry)
         /\ CountOf(Fresh, InCluster(clusterOf, Cluster)) =< CountOf(Fresh, Entry)
         /\ SumOf(Fresh, Item) = SumOf(Fresh, Entry)
         /\ SumOf(Fresh, Unattributed) = 0
         /\ \A i \in Issuers : SumOf(Fresh, OfIssuer(i))
              = SumOf(Fresh, {e \in DOMAIN new : e.issuer = i})
         /\ IsFiniteBag(Fresh) /\ DOMAIN Fresh \subseteq DOMAIN new
<1>1. IsFiniteBag(Fresh) /\ DOMAIN Fresh \subseteq DOMAIN new
      /\ DOMAIN new \subseteq Entry
  BY ReservedIsFinite DEF StoreOK, Fresh
<1>2. \A e \in DOMAIN Fresh : e \in Entry /\ e \in Item /\ e.underlying = current
  BY <1>1 DEF ScanOK, Item
<1>3. current # Unknown
  BY UnknownAssumption DEF ScanOK
<1>4. ASSUME NEW c \in Clusters, c # Cluster
      PROVE  /\ SumOf(Fresh, InCluster(clusterOf, c)) = 0
             /\ CountOf(Fresh, InCluster(clusterOf, c)) = 0
  <2>1. DOMAIN Fresh \cap InCluster(clusterOf, c) = {}
    BY <1>2, <1>4 DEF InCluster, Cluster
  <2>2. QED BY <2>1, UseOfNone
<1>5. /\ SumOf(Fresh, InCluster(clusterOf, Cluster)) =< SumOf(Fresh, Entry)
      /\ CountOf(Fresh, InCluster(clusterOf, Cluster)) =< CountOf(Fresh, Entry)
  <2>1. DOMAIN Fresh \cap InCluster(clusterOf, Cluster) \subseteq Entry
    BY <1>2
  <2>2. QED BY <1>1, <2>1, UseOfPart
<1>6. SumOf(Fresh, Item) = SumOf(Fresh, Entry)
  <2>1. DOMAIN Fresh \cap Item = DOMAIN Fresh \cap Entry
    BY <1>2
  <2>2. QED BY <2>1, UseOfSame
<1>7. SumOf(Fresh, Unattributed) = 0
  <2>1. DOMAIN Fresh \cap Unattributed = {}
    BY <1>2, <1>3 DEF Unattributed
  <2>2. QED BY <2>1, UseOfNone
<1>8. ASSUME NEW i \in Issuers
      PROVE  SumOf(Fresh, OfIssuer(i)) = SumOf(Fresh, {e \in DOMAIN new : e.issuer = i})
  <2>1. DOMAIN Fresh \cap OfIssuer(i) = DOMAIN Fresh \cap {e \in DOMAIN new : e.issuer = i}
    BY <1>1, <1>2 DEF OfIssuer
  <2>2. QED BY <2>1, UseOfSame
<1>9. QED BY <1>1, <1>4, <1>5, <1>6, <1>7, <1>8

(* Recording adds to every use what the scan reserves of it.               *)
LEMMA HeldOfRecorded ==
  ASSUME StoreOK, NEW p
  PROVE  /\ Held(positions, ledger (+) new, p)
              = Held(positions, ledger, p) + SumOf(Fresh, p)
         /\ HeldCount(positions, ledger (+) new, p)
              = HeldCount(positions, ledger, p) + CountOf(Fresh, p)
         /\ Held(positions, ledger, p) \in Nat /\ HeldCount(positions, ledger, p) \in Nat
         /\ SumOf(Fresh, p) \in Nat /\ CountOf(Fresh, p) \in Nat
BY HeldOfMerge, HeldIsNat DEF StoreOK, Fresh

LEMMA RecordKeepsInv ==
  ASSUME IInv, Record
  PROVE  IInv'
<1> USE DEF IInv, Record
<1>1. ledger' = ledger (+) new /\ IsFiniteBag(ledger') /\ DOMAIN ledger' \subseteq Entry
  <2>1. IsFiniteBag(ledger) /\ IsFiniteBag(new)
        /\ DOMAIN ledger \subseteq Entry /\ DOMAIN new \subseteq Entry
    BY DEF StoreOK, IsStore
  <2>2. /\ IsFiniteBag(ledger (+) new)
        /\ DOMAIN (ledger (+) new) = DOMAIN ledger \cup DOMAIN new
    BY <2>1, MergeIsFinite
  <2>3. QED BY <2>1, <2>2
<1>2. StoreOK'
  BY <1>1 DEF StoreOK, IsStore, batch, scan
<1>3. TypeOK'
  BY <1>1 DEF TypeOK, IsBagOf, IsFiniteBag, batch, acc, scan
<1>4. ScanOK'
  BY DEF ScanOK, Cluster, Fresh, SumOf, CountOf, Entry, batch, acc, scan
<1>5. BudgetsOK' /\ TotalOK'
  BY DEF BudgetsOK, TotalOK, batch, acc
<1>6. RecordedOK'
  <2> SUFFICES ASSUME passed
               PROVE  Covers(positions, ledger (+) new, clusterOf, use, issuerUsed,
                             unattributed, orphans (+) new)
    BY DEF RecordedOK, batch, acc, scan
  <2>1. Covers(positions, ledger, clusterOf, use, issuerUsed, unattributed, orphans)
    BY DEF BudgetsOK
  <2>2. \A p : /\ Held(positions, ledger (+) new, p)
                    = Held(positions, ledger, p) + SumOf(Fresh, p)
               /\ HeldCount(positions, ledger (+) new, p)
                    = HeldCount(positions, ledger, p) + CountOf(Fresh, p)
               /\ Apart(orphans (+) new, p) = Apart(orphans, p) + SumOf(Fresh, p)
               /\ ApartCount(orphans (+) new, p) = ApartCount(orphans, p) + CountOf(Fresh, p)
               /\ Held(positions, ledger, p) \in Nat /\ HeldCount(positions, ledger, p) \in Nat
               /\ SumOf(Fresh, p) \in Nat /\ CountOf(Fresh, p) \in Nat
               /\ Apart(orphans, p) \in Nat /\ ApartCount(orphans, p) \in Nat
    BY HeldOfRecorded, ApartOfMerge DEF StoreOK, Fresh
  <2>3. /\ \A c \in Clusters : use[c].cap \in Nat /\ use[c].n \in Nat
        /\ \A i \in Issuers : issuerUsed[i] \in Nat
        /\ unattributed \in Nat
    BY DEF TypeOK
  <2>4. QED BY <2>1, <2>2, <2>3 DEF Covers
<1>7. QED BY <1>2, <1>3, <1>4, <1>5, <1>6

LEMMA ReturnKeepsInv ==
  ASSUME IInv, Return
  PROVE  IInv'
<1> USE DEF IInv, Return, ForgetScan
<1>1. /\ use' = After /\ phase' = "batch" /\ new' = EmptyBag
      /\ total' = unattributed + SumOfUse(After)
      /\ \A i \in Issuers : issuerUsed'[i] = IssuersAfter[i]
      /\ UNCHANGED <<positions, ledger, clusterOf, passed, unattributed, orphans>>
  BY DEF After, Cluster, IssuersAfter, Fresh, SumOfUse, store
<1>2. IsFiniteBag(EmptyBag) /\ DOMAIN EmptyBag = {}
  BY EmptyIsFinite
<1>3. StoreOK'
  BY <1>1, <1>2 DEF StoreOK
<1>4. After \in [Clusters -> [n : Nat, cap : Nat]]
  BY DEF After, TypeOK
<1>5. SumOfUse(After) \in Nat
  <2> DEFINE h == [c \in Clusters |-> After[c].cap]
  <2>1. IsWeight(h, Clusters)
    BY <1>4 DEF IsWeight
  <2>2. SumOfUse(After) = SumFunctionOnSet(h, Clusters)
    BY DEF SumOfUse, SumFunction
  <2> HIDE DEF h
  <2>3. QED BY <2>1, <2>2, ClusteringsAssumption, SumIsNat
<1>6. \A i \in Issuers : issuerUsed'[i] \in Nat
  <2>1. IsFiniteBag(Fresh)
    BY ReservedIsFinite DEF Fresh, StoreOK
  <2>2. \A p : SumOf(Fresh, p) \in Nat
    BY <2>1, UseIsNat
  <2>3. \A i \in Issuers : issuerUsed[i] \in Nat
    BY DEF TypeOK
  <2>4. QED BY <1>1, <2>2, <2>3 DEF IssuersAfter
<1>7. TypeOK'
  <2>1. issuerUsed' \in [Issuers -> Nat]
    BY <1>6
  <2>2. total' \in Nat
    BY <1>1, <1>5 DEF TypeOK
  <2>3. IsBagOf(new', Entry)
    BY <1>1, <1>2 DEF IsBagOf, IsFiniteBag
  <2>4. running' \in [n : Nat, cap : Nat]
    BY DEF Load
  <2>5. QED BY <1>1, <1>4, <2>1, <2>2, <2>3, <2>4 DEF TypeOK
<1>8. passed => Covers(positions, ledger, clusterOf, After, issuerUsed', unattributed, orphans)
  <2>0. Covers(positions, ledger, clusterOf, After, IssuersAfter, unattributed, orphans)
          => Covers(positions, ledger, clusterOf, After, issuerUsed', unattributed, orphans)
    BY <1>1 DEF Covers
  <2> SUFFICES ASSUME passed
               PROVE  Covers(positions, ledger, clusterOf, After, IssuersAfter, unattributed, orphans)
    BY <2>0
  <2>1. Covers(positions, ledger, clusterOf, use, issuerUsed, unattributed, orphans (+) new)
    BY DEF RecordedOK
  <2>2. /\ \A c \in Clusters : c # Cluster =>
              /\ SumOf(Fresh, InCluster(clusterOf, c)) = 0
              /\ CountOf(Fresh, InCluster(clusterOf, c)) = 0
        /\ SumOf(Fresh, InCluster(clusterOf, Cluster)) =< SumOf(Fresh, Entry)
        /\ CountOf(Fresh, InCluster(clusterOf, Cluster)) =< CountOf(Fresh, Entry)
        /\ SumOf(Fresh, Unattributed) = 0
        /\ \A i \in Issuers : SumOf(Fresh, OfIssuer(i))
              = SumOf(Fresh, {e \in DOMAIN new : e.issuer = i})
        /\ IsFiniteBag(Fresh)
    BY FreshIsOfOneCluster
  <2>3. \A p : /\ Apart(orphans (+) new, p) = Apart(orphans, p) + SumOf(Fresh, p)
               /\ ApartCount(orphans (+) new, p) = ApartCount(orphans, p) + CountOf(Fresh, p)
               /\ Held(positions, ledger, p) \in Nat /\ HeldCount(positions, ledger, p) \in Nat
               /\ SumOf(Fresh, p) \in Nat /\ CountOf(Fresh, p) \in Nat
               /\ Apart(orphans, p) \in Nat /\ ApartCount(orphans, p) \in Nat
    BY HeldOfRecorded, ApartOfMerge DEF StoreOK, Fresh
  <2>4. /\ use[Cluster].cap + SumOf(Fresh, Entry) =< running.cap
        /\ use[Cluster].n + CountOf(Fresh, Entry) =< running.n
        /\ SumOf(Fresh, Entry) \in Nat /\ CountOf(Fresh, Entry) \in Nat
    BY <2>3 DEF ScanOK
  <2>5. /\ \A c \in Clusters : use[c].cap \in Nat /\ use[c].n \in Nat
        /\ running.cap \in Nat /\ running.n \in Nat
        /\ \A i \in Issuers : issuerUsed[i] \in Nat
        /\ unattributed \in Nat
    BY DEF TypeOK
  <2>6. ASSUME NEW c \in Clusters
        PROVE  /\ Held(positions, ledger, InCluster(clusterOf, c))
                    =< After[c].cap + Apart(orphans, InCluster(clusterOf, c))
               /\ HeldCount(positions, ledger, InCluster(clusterOf, c))
                    =< After[c].n + ApartCount(orphans, InCluster(clusterOf, c))
    <3> DEFINE K == InCluster(clusterOf, c)
    <3>1. /\ Held(positions, ledger, K) =< use[c].cap + (Apart(orphans, K) + SumOf(Fresh, K))
          /\ HeldCount(positions, ledger, K)
               =< use[c].n + (ApartCount(orphans, K) + CountOf(Fresh, K))
      BY <2>1, <2>3 DEF Covers
    <3>2. CASE c = Cluster
      <4>1. After[c] = running
        BY <3>2 DEF After, TypeOK
      <4>2. SumOf(Fresh, K) =< SumOf(Fresh, Entry) /\ CountOf(Fresh, K) =< CountOf(Fresh, Entry)
        BY <2>2, <3>2
      <4> HIDE DEF K
      <4>3. /\ Held(positions, ledger, K) =< After[c].cap + Apart(orphans, K)
            /\ HeldCount(positions, ledger, K) =< After[c].n + ApartCount(orphans, K)
        BY <2>3, <2>4, <2>5, <3>1, <3>2, <4>1, <4>2
      <4>4. QED BY <4>3 DEF K
    <3>3. CASE c # Cluster
      <4>1. After[c] = use[c]
        BY <3>3 DEF After, TypeOK
      <4>2. SumOf(Fresh, K) = 0 /\ CountOf(Fresh, K) = 0
        BY <2>2, <3>3
      <4> HIDE DEF K
      <4>3. /\ Held(positions, ledger, K) =< After[c].cap + Apart(orphans, K)
            /\ HeldCount(positions, ledger, K) =< After[c].n + ApartCount(orphans, K)
        BY <2>3, <2>5, <3>1, <4>1, <4>2
      <4>4. QED BY <4>3 DEF K
    <3>4. QED BY <3>2, <3>3
  <2>7. ASSUME NEW i \in Issuers
        PROVE  Held(positions, ledger, OfIssuer(i)) =< IssuersAfter[i] + Apart(orphans, OfIssuer(i))
    <3>1. Held(positions, ledger, OfIssuer(i))
            =< issuerUsed[i] + (Apart(orphans, OfIssuer(i)) + SumOf(Fresh, OfIssuer(i)))
      BY <2>1, <2>3 DEF Covers
    <3>2. IssuersAfter[i] = issuerUsed[i] + SumOf(Fresh, OfIssuer(i))
      BY <2>2 DEF IssuersAfter
    <3>3. QED BY <2>3, <2>5, <3>1, <3>2
  <2>8. Held(positions, ledger, Unattributed) =< unattributed + Apart(orphans, Unattributed)
    <3>1. Held(positions, ledger, Unattributed)
            =< unattributed + (Apart(orphans, Unattributed) + SumOf(Fresh, Unattributed))
      BY <2>1, <2>3 DEF Covers
    <3>2. QED BY <2>2, <2>3, <2>5, <3>1
  <2>9. QED BY <2>6, <2>7, <2>8 DEF Covers
<1>9. BudgetsOK'
  <2>1. /\ positions' = positions /\ ledger' = ledger /\ clusterOf' = clusterOf
        /\ use' = After /\ unattributed' = unattributed /\ orphans' = orphans
        /\ passed' = passed
    BY <1>1
  <2> HIDE DEF IInv, Return, ForgetScan
  <2>2. passed' => Covers(positions', ledger', clusterOf', use', issuerUsed',
                          unattributed', orphans')
    BY <1>8, <2>1, Zenon
  <2>3. QED BY <2>2 DEF BudgetsOK
<1>10. RecordedOK' /\ ScanOK'
  BY <1>1 DEF RecordedOK, ScanOK
<1>11. TotalOK'
  BY <1>1 DEF TotalOK
<1>12. QED BY <1>3, <1>7, <1>9, <1>10, <1>11

LEMMA SkipKeepsInv ==
  ASSUME IInv, Skip
  PROVE  IInv'
<1> USE DEF IInv, Skip, ForgetScan
<1>1. IsFiniteBag(EmptyBag) /\ DOMAIN EmptyBag = {}
  BY EmptyIsFinite
<1>2. /\ phase' = "batch" /\ new' = EmptyBag
      /\ UNCHANGED <<positions, ledger, todo, clusterOf, passed, use, unattributed,
                     total, issuerUsed, batches>>
  BY DEF store, acc
<1>3. /\ orphans' = orphans \/ orphans' = orphans (+) new
      /\ IsFiniteBag(orphans') /\ DOMAIN orphans' \subseteq Entry
  BY MergeIsFinite DEF StoreOK
<1>4. TypeOK'
  <2>1. IsBagOf(new', Entry)
    BY <1>1 DEF IsBagOf, IsFiniteBag
  <2>2. running' \in [n : Nat, cap : Nat]
    BY DEF Load
  <2>3. IsBagOf(orphans', Entry)
    BY <1>3 DEF IsBagOf, IsFiniteBag
  <2>4. QED BY <1>2, <2>1, <2>2, <2>3 DEF TypeOK
<1>5. StoreOK'
  BY <1>1, <1>2, <1>3 DEF StoreOK
<1>6. BudgetsOK'
  BY <1>2 DEF BudgetsOK, RecordedOK
<1>7. QED BY <1>2, <1>4, <1>5, <1>6 DEF RecordedOK, TotalOK, ScanOK

(* Outside a batch only the store's bags remain to be typed.               *)
LEMMA IdleKeepsInv ==
  ASSUME TypeOK', StoreOK', phase' = "idle"
  PROVE  (BudgetsOK /\ RecordedOK /\ TotalOK /\ ScanOK)'
BY DEF BudgetsOK, RecordedOK, TotalOK, ScanOK

LEMMA ForgetKeepsInv ==
  ASSUME IInv, EndBatch \/ Crash
  PROVE  IInv'
<1> USE DEF IInv
<1>1. IsFiniteBag(EmptyBag) /\ DOMAIN EmptyBag = {}
  BY EmptyIsFinite
<1>2. /\ phase' = "idle" /\ todo' = {} /\ clusterOf' = NoClusters
      /\ passed' = FALSE /\ orphans' = EmptyBag
      /\ use' = NoUse /\ unattributed' = 0 /\ total' = 0
      /\ issuerUsed' = [i \in Issuers |-> 0]
      /\ UNCHANGED <<positions, ledger, batches>>
  BY DEF EndBatch, Crash, ForgetBatch, store
<1>3. \/ UNCHANGED <<current, covered, healthy, running, new>>
      \/ /\ current' = Unknown /\ covered' = FALSE /\ healthy' = FALSE
         /\ running' = Load(0, 0) /\ new' = EmptyBag
  BY DEF EndBatch, Crash, ForgetScan, scan
<1>4. /\ IsBagOf(new', Entry) /\ IsFiniteBag(new') /\ DOMAIN new' \subseteq Entry
      /\ IsBagOf(orphans', Entry) /\ IsFiniteBag(orphans') /\ DOMAIN orphans' \subseteq Entry
  BY <1>1, <1>2, <1>3 DEF IsBagOf, IsFiniteBag, StoreOK
<1>5. use' \in [Clusters -> [n : Nat, cap : Nat]] /\ running' \in [n : Nat, cap : Nat]
  BY <1>2, <1>3 DEF NoUse, Load, TypeOK
<1>6. covered' \in BOOLEAN /\ healthy' \in BOOLEAN
  BY <1>3 DEF TypeOK
<1>7. TypeOK'
  <2>1. {passed', covered', healthy'} \subseteq BOOLEAN
    BY <1>2, <1>6
  <2>2. {unattributed', total', batches'} \subseteq Nat
    BY <1>2 DEF TypeOK
  <2>3. issuerUsed' \in [Issuers -> Nat]
    BY <1>2
  <2>4. current' \in Underlyings \cup {Unknown}
    BY <1>3 DEF TypeOK
  <2>5. QED BY <1>2, <1>4, <1>5, <2>1, <2>2, <2>3, <2>4, NoClustersIsOne DEF TypeOK
<1>8. StoreOK'
  BY <1>2, <1>4 DEF StoreOK
<1>9. QED BY <1>2, <1>7, <1>8, IdleKeepsInv

LEMMA LabelKeepsInv ==
  ASSUME IInv, NEW e \in Entry, Label(e)
  PROVE  IInv'
<1> USE DEF IInv, Label
<1>1. /\ IsFiniteBag(ledger') /\ DOMAIN ledger' \subseteq Entry
  <2>1. IsFiniteBag(ledger) /\ DOMAIN ledger \subseteq Entry
    BY DEF StoreOK, IsStore
  <2>2. QED BY <2>1, TakenIsFinite
<1>2. StoreOK'
  BY <1>1 DEF StoreOK, IsStore, batch, scan
<1>3. TypeOK'
  BY <1>1 DEF TypeOK, IsBagOf, IsFiniteBag, batch, acc, scan
<1>4. QED BY <1>2, <1>3, IdleKeepsInv

LEMMA OpenKeepsInv ==
  ASSUME IInv, NEW p \in Position, Open(p)
  PROVE  IInv'
<1> USE DEF IInv, Open
<1>1. IsFiniteBag(positions') /\ DOMAIN positions' \subseteq Position
  <2>1. IsFiniteBag(positions) /\ DOMAIN positions \subseteq Position
    BY DEF StoreOK, IsStore
  <2>2. p.fraction \in Nat
    BY ItemFacts DEF Item
  <2>3. IsFiniteBag(SetToBag({p})) /\ DOMAIN SetToBag({p}) = {p}
    BY <2>2, OneIsFinite
  <2>4. QED BY <2>1, <2>3, MergeIsFinite
<1>2. StoreOK'
  BY <1>1 DEF StoreOK, IsStore, batch, scan
<1>3. TypeOK'
  BY <1>1 DEF TypeOK, IsBagOf, IsFiniteBag, batch, acc, scan
<1>4. QED BY <1>2, <1>3, IdleKeepsInv

LEMMA CloseKeepsInv ==
  ASSUME IInv, NEW p \in Position, Close(p)
  PROVE  IInv'
<1> USE DEF IInv, Close
<1>1. IsFiniteBag(positions') /\ DOMAIN positions' \subseteq Position
  <2>1. IsFiniteBag(positions) /\ DOMAIN positions \subseteq Position
    BY DEF StoreOK, IsStore
  <2>2. QED BY <2>1, TakenIsFinite
<1>2. StoreOK'
  BY <1>1 DEF StoreOK, IsStore, batch, scan
<1>3. TypeOK'
  BY <1>1 DEF TypeOK, IsBagOf, IsFiniteBag, batch, acc, scan
<1>4. QED BY <1>2, <1>3, IdleKeepsInv

LEMMA NextKeepsInv == IInv /\ [Next]_vars => IInv'
<1> SUFFICES ASSUME IInv, [Next]_vars PROVE IInv'
  OBVIOUS
<1>1. ASSUME NEW f \in Clusterings, NEW known \in BOOLEAN, StartBatch(f, known)
      PROVE  IInv'
  BY <1>1, StartBatchKeepsInv
<1>2. ASSUME NEW u \in Underlyings, StartScan(u) PROVE IInv'
  BY <1>2, StartScanKeepsInv
<1>3. ASSUME NEW i \in Issuers, NEW want \in 0..MaxPosition, NEW shadow \in BOOLEAN,
             Admit(i, want, shadow)
      PROVE  IInv'
  BY <1>3, AdmitKeepsInv
<1>4. CASE Record
  BY <1>4, RecordKeepsInv
<1>5. CASE Return
  BY <1>5, ReturnKeepsInv
<1>6. CASE Skip
  BY <1>6, SkipKeepsInv
<1>7. CASE EndBatch \/ Crash
  BY <1>7, ForgetKeepsInv
<1>8. ASSUME NEW e \in Entry, Label(e) PROVE IInv'
  BY <1>8, LabelKeepsInv
<1>9. ASSUME NEW p \in Position, Open(p) \/ Close(p) PROVE IInv'
  BY <1>9, OpenKeepsInv, CloseKeepsInv
<1>10. CASE UNCHANGED vars
  BY <1>10 DEF vars, store, batch, acc, scan, IInv, TypeOK, StoreOK, BudgetsOK,
     RecordedOK, TotalOK, ScanOK, Cluster, Fresh, SumOf, CountOf, Entry
<1>11. QED BY <1>1, <1>2, <1>3, <1>4, <1>5, <1>6, <1>7, <1>8, <1>9, <1>10 DEF Next

THEOREM Invariance == Spec => []IInv
<1>1. Init => IInv
  BY InitIsInv
<1>2. IInv /\ [Next]_vars => IInv'
  BY NextKeepsInv
<1>3. QED BY <1>1, <1>2, PTL DEF Spec

(* Every reachable state has its type: in particular what a batch counts   *)
(* and what it proposes are never negative, and no proposal is larger than *)
(* a position may be.                                                      *)
THEOREM TypeCorrect == Spec => []TypeOK
<1>1. IInv => TypeOK
  BY DEF IInv
<1>2. QED BY <1>1, Invariance, PTL

(* What the properties call uncounted is the bag of the failed scans,      *)
(* apart, by the same sets of items.                                       *)
LEMMA UncountedIsApart ==
  ASSUME TypeOK, StoreOK
  PROVE  /\ Uncounted(DOMAIN orphans).cap = Apart(orphans, Item)
         /\ \A i : UncountedOf(i).cap = Apart(orphans, OfIssuer(i))
         /\ \A c : /\ UncountedIn(c).cap = Apart(orphans, InCluster(clusterOf, c))
                   /\ UncountedIn(c).n = ApartCount(orphans, InCluster(clusterOf, c))
<1> DEFINE r == ReservedOf(orphans)
<1>1. \A p : Uncounted(p).cap = SumOf(r, p) /\ Uncounted(p).n = CountOf(r, p)
  BY DEF Uncounted, Load
<1>2. DOMAIN r \subseteq DOMAIN orphans /\ DOMAIN orphans \subseteq Entry
  BY ReservedIsFinite DEF StoreOK
<1>3. \A e \in DOMAIN r : e \in DOMAIN orphans /\ e \in Item /\ e.underlying # Unknown
  BY <1>2, UnknownAssumption DEF Item, Entry
<1> HIDE DEF r
<1>4. SumOf(r, DOMAIN orphans) = SumOf(r, Item)
  <2>1. DOMAIN r \cap DOMAIN orphans = DOMAIN r \cap Item
    BY <1>3
  <2>2. QED BY <2>1, UseOfSame
<1>5. ASSUME NEW i
      PROVE  SumOf(r, {e \in DOMAIN orphans : e.issuer = i}) = SumOf(r, OfIssuer(i))
  <2>1. DOMAIN r \cap {e \in DOMAIN orphans : e.issuer = i} = DOMAIN r \cap OfIssuer(i)
    BY <1>3 DEF OfIssuer
  <2>2. QED BY <2>1, UseOfSame
<1>6. ASSUME NEW c
      PROVE  LET part == {e \in DOMAIN orphans : clusterOf[e.underlying] = c}
             IN  /\ SumOf(r, part) = SumOf(r, InCluster(clusterOf, c))
                 /\ CountOf(r, part) = CountOf(r, InCluster(clusterOf, c))
  <2>1. DOMAIN r \cap {e \in DOMAIN orphans : clusterOf[e.underlying] = c}
          = DOMAIN r \cap InCluster(clusterOf, c)
    BY <1>3 DEF InCluster
  <2>2. QED BY <2>1, UseOfSame
<1>7. QED BY <1>1, <1>4, <1>5, <1>6 DEF UncountedOf, UncountedIn, Apart, ApartCount, r

LEMMA TotalIsCovered ==
  ASSUME IInv, passed, phase \in {"batch", "scan"}
  PROVE  /\ Held(positions, ledger, Item) =< total + Apart(orphans, Item)
         /\ Apart(orphans, Item) \in Nat
<1> USE DEF IInv
<1> DEFINE h == [c \in Clusters |-> Held(positions, ledger, InCluster(clusterOf, c))]
           o == [c \in Clusters |-> SumOf(ReservedOf(orphans), InCluster(clusterOf, c))]
           w == [c \in Clusters |-> use[c].cap]
           v == [c \in Clusters |-> use[c].cap
                                      + SumOf(ReservedOf(orphans), InCluster(clusterOf, c))]
<1>1. /\ IsStore(positions, ledger) /\ clusterOf \in [Underlyings -> Clusters]
      /\ IsFiniteBag(ReservedOf(orphans)) /\ DOMAIN ReservedOf(orphans) \subseteq Item
  BY ClustersOfUnderlyings, ReservedIsFinite DEF StoreOK, TypeOK, Item
<1>2. Covers(positions, ledger, clusterOf, use, issuerUsed, unattributed, orphans)
  BY DEF BudgetsOK
<1>3. total = unattributed + SumFunctionOnSet(w, Clusters)
  BY DEF TotalOK, SumOfUse, SumFunction
<1>4. \A c \in Clusters :
        /\ h[c] = Held(positions, ledger, InCluster(clusterOf, c))
        /\ o[c] = SumOf(ReservedOf(orphans), InCluster(clusterOf, c))
        /\ v[c] = w[c] + o[c]
  OBVIOUS
<1>5. IsWeight(h, Clusters) /\ IsWeight(w, Clusters)
  BY <1>1, HeldIsNat DEF IsWeight, TypeOK
<1>6. \A c \in Clusters : h[c] =< v[c]
  BY <1>2 DEF Covers, Apart
<1> HIDE DEF h, o, w, v
<1>7. /\ SumOf(ReservedOf(orphans), Item)
           = SumOf(ReservedOf(orphans), Unattributed) + SumFunctionOnSet(o, Clusters)
      /\ IsWeight(o, Clusters)
  BY <1>1, <1>4, SumOfClusters
<1>8. Held(positions, ledger, Item)
        = Held(positions, ledger, Unattributed) + SumFunctionOnSet(h, Clusters)
  BY <1>1, <1>4, HeldOfClusters
<1>9. SumFunctionOnSet(v, Clusters)
        = SumFunctionOnSet(w, Clusters) + SumFunctionOnSet(o, Clusters)
  BY <1>4, <1>5, <1>7, ClusteringsAssumption, SumAdd
<1>10. IsWeight(v, Clusters)
  BY <1>4, <1>5, <1>7 DEF IsWeight
<1>11. SumFunctionOnSet(h, Clusters) =< SumFunctionOnSet(v, Clusters)
  BY <1>5, <1>6, <1>10, ClusteringsAssumption, SumMonotone
<1>12. /\ SumFunctionOnSet(h, Clusters) \in Nat /\ SumFunctionOnSet(w, Clusters) \in Nat
       /\ SumFunctionOnSet(o, Clusters) \in Nat
       /\ SumOf(ReservedOf(orphans), Unattributed) \in Nat
       /\ Held(positions, ledger, Unattributed) \in Nat /\ unattributed \in Nat
  BY <1>1, <1>5, <1>7, ClusteringsAssumption, SumIsNat, HeldIsNat, UseIsNat DEF TypeOK
<1>13. Held(positions, ledger, Unattributed)
         =< unattributed + SumOf(ReservedOf(orphans), Unattributed)
  BY <1>2 DEF Covers, Apart
<1>14. QED BY <1>3, <1>7, <1>8, <1>9, <1>11, <1>12, <1>13 DEF Apart

(* scan_all.py's accumulators: between two scans of a batch the budgets    *)
(* the next one is sized against are at least what held positions and open *)
(* proposals use, per issuer, per cluster and in total, but for what the   *)
(* batch's failed scans had recorded.                                      *)
THEOREM BudgetsCover == Spec => []BudgetsCoverTheStore
<1>1. IInv => BudgetsCoverTheStore
  <2> SUFFICES ASSUME IInv, phase = "batch", passed
               PROVE  /\ TotalUse =< total + Uncounted(DOMAIN orphans).cap
                      /\ \A i \in Issuers : IssuerUse(i) =< issuerUsed[i] + UncountedOf(i).cap
                      /\ \A c \in Clusters :
                           /\ ClusterUse(clusterOf, c).cap =< use[c].cap + UncountedIn(c).cap
                           /\ ClusterUse(clusterOf, c).n =< use[c].n + UncountedIn(c).n
    BY DEF BudgetsCoverTheStore
  <2>1. TypeOK /\ StoreOK /\ IsStore(positions, ledger)
    BY DEF IInv, StoreOK
  <2>2. Covers(positions, ledger, clusterOf, use, issuerUsed, unattributed, orphans)
    BY DEF IInv, BudgetsOK
  <2>3. Held(positions, ledger, Item) =< total + Apart(orphans, Item)
    BY TotalIsCovered
  <2>4. /\ \A c : /\ ClusterUse(clusterOf, c).cap = Held(positions, ledger, InCluster(clusterOf, c))
                  /\ ClusterUse(clusterOf, c).n = HeldCount(positions, ledger, InCluster(clusterOf, c))
        /\ \A i : IssuerUse(i) = Held(positions, ledger, OfIssuer(i))
        /\ TotalUse = Held(positions, ledger, Item)
    BY <2>1, UsesAreHeld DEF UsesHeld
  <2>5. QED BY <2>1, <2>2, <2>3, <2>4, UncountedIsApart DEF Covers
<1>2. QED BY <1>1, Invariance, PTL

(* What a recording scan changes, in the terms of the sums.                *)
LEMMA RecordingAdds ==
  ASSUME IInv, IInv', [Next]_vars, Recording
  PROVE  /\ \A c \in Clusters :
              /\ ClusterUse(clusterOf, c)'.cap
                   = ClusterUse(clusterOf, c).cap + SumOf(Fresh, InCluster(clusterOf, c))
              /\ ClusterUse(clusterOf, c)'.n
                   = ClusterUse(clusterOf, c).n + CountOf(Fresh, InCluster(clusterOf, c))
              /\ ClusterUse(clusterOf, c).cap = Held(positions, ledger, InCluster(clusterOf, c))
              /\ ClusterUse(clusterOf, c).n = HeldCount(positions, ledger, InCluster(clusterOf, c))
         /\ TotalUse' = TotalUse + SumOf(Fresh, Item)
         /\ TotalUse = Held(positions, ledger, Item)
         /\ \A i \in Issuers : /\ IssuerUse(i)' = IssuerUse(i) + SumOf(Fresh, OfIssuer(i))
                               /\ IssuerUse(i) = Held(positions, ledger, OfIssuer(i))
         /\ \A p : /\ Held(positions, ledger, p) \in Nat
                   /\ HeldCount(positions, ledger, p) \in Nat
                   /\ SumOf(Fresh, p) \in Nat /\ CountOf(Fresh, p) \in Nat
                   /\ Apart(orphans, p) \in Nat /\ ApartCount(orphans, p) \in Nat
<1>1. Record
  BY DEF Next, vars, Recording, StartBatch, StartScan, Admit, Return, Skip, EndBatch,
     Crash, ForgetBatch, Label, Open, Close
<1>2. positions' = positions /\ ledger' = ledger (+) new /\ clusterOf' = clusterOf
  BY <1>1 DEF Record, batch
<1>3. StoreOK /\ IsStore(positions, ledger) /\ IsStore(positions', ledger')
  BY DEF IInv, StoreOK
<1>4. /\ \A f, c : /\ ClusterUse(f, c).cap = Held(positions, ledger, InCluster(f, c))
                   /\ ClusterUse(f, c).n = HeldCount(positions, ledger, InCluster(f, c))
      /\ \A i : IssuerUse(i) = Held(positions, ledger, OfIssuer(i))
      /\ TotalUse = Held(positions, ledger, Item)
  BY <1>3, UsesAreHeld DEF UsesHeld
<1>5. UsesHeld'
  <2>1. IsStore(positions, ledger)' => UsesHeld'
    BY UsesAreHeld, PTL
  <2>2. QED BY <1>3, <2>1
<1>6. /\ \A c : /\ ClusterUse(clusterOf, c)'.cap = Held(positions', ledger', InCluster(clusterOf', c))
              /\ ClusterUse(clusterOf, c)'.n = HeldCount(positions', ledger', InCluster(clusterOf', c))
      /\ \A i : IssuerUse(i)' = Held(positions', ledger', OfIssuer(i))
      /\ TotalUse' = Held(positions', ledger', Item)
  BY <1>5 DEF UsesHeld
<1>7. \A p : Apart(orphans, p) \in Nat /\ ApartCount(orphans, p) \in Nat
  BY <1>3, ApartOfMerge DEF StoreOK
<1>8. QED
  BY <1>2, <1>3, <1>4, <1>6, <1>7, HeldOfRecorded

(* evaluate_cluster_gate: a scan that records more capital in a cluster    *)
(* leaves it within the cap on capital and within the cap on positions,    *)
(* whatever the batch's earlier scans admitted to the same cluster, but    *)
(* for what failed scans of the batch had recorded there.                  *)
THEOREM ClusterCapKept == Spec => ClusterCapIsKept
<1> DEFINE A == Recording =>
                  \A c \in Clusters :
                    LET before == ClusterUse(clusterOf, c)
                        after  == ClusterUse(clusterOf, c)'
                    IN  after.cap > before.cap =>
                          /\ after.cap =< MaxCluster + UncountedIn(c).cap
                          /\ after.n =< MaxActive + UncountedIn(c).n
<1>1. IInv /\ IInv' /\ [Next]_vars => A
  <2> SUFFICES ASSUME IInv, IInv', [Next]_vars, Recording, NEW c \in Clusters,
                      ClusterUse(clusterOf, c)'.cap > ClusterUse(clusterOf, c).cap
               PROVE  /\ ClusterUse(clusterOf, c)'.cap =< MaxCluster + UncountedIn(c).cap
                      /\ ClusterUse(clusterOf, c)'.n =< MaxActive + UncountedIn(c).n
    OBVIOUS
  <2> DEFINE K == InCluster(clusterOf, c)
  <2>1. /\ ClusterUse(clusterOf, c)'.cap = Held(positions, ledger, K) + SumOf(Fresh, K)
        /\ ClusterUse(clusterOf, c)'.n = HeldCount(positions, ledger, K) + CountOf(Fresh, K)
        /\ ClusterUse(clusterOf, c).cap = Held(positions, ledger, K)
        /\ Held(positions, ledger, K) \in Nat /\ HeldCount(positions, ledger, K) \in Nat
        /\ SumOf(Fresh, K) \in Nat /\ CountOf(Fresh, K) \in Nat
        /\ Apart(orphans, K) \in Nat /\ ApartCount(orphans, K) \in Nat
    BY RecordingAdds
  <2>2. SumOf(Fresh, K) > 0
    BY <2>1
  <2>3. /\ TypeOK /\ StoreOK /\ ScanOK /\ phase \in {"scan", "recorded"} /\ phase = "scan"
    BY DEF IInv, Recording
  <2>4. /\ c # Cluster => SumOf(Fresh, K) = 0
        /\ SumOf(Fresh, InCluster(clusterOf, Cluster)) =< SumOf(Fresh, Entry)
        /\ CountOf(Fresh, InCluster(clusterOf, Cluster)) =< CountOf(Fresh, Entry)
        /\ IsFiniteBag(Fresh) /\ DOMAIN Fresh \subseteq DOMAIN new
    BY <2>3, FreshIsOfOneCluster
  <2>5. c = Cluster
    BY <2>2, <2>4
  <2>6. DOMAIN new # {}
    <3>1. DOMAIN Fresh = {} => DOMAIN Fresh \cap K = {}
      OBVIOUS
    <3>2. DOMAIN Fresh = {} => SumOf(Fresh, K) = 0
      BY <3>1, UseOfNone
    <3>3. SumOf(Fresh, K) # 0
      BY <2>1, <2>2
    <3>4. PICK e : e \in DOMAIN Fresh
      BY <3>2, <3>3, Zenon
    <3>5. QED BY <2>4, <3>4, Zenon
  <2>7. /\ use[c].cap + SumOf(Fresh, Entry) =< running.cap /\ running.cap =< MaxCluster
        /\ use[c].n + CountOf(Fresh, Entry) =< running.n /\ running.n =< MaxActive
        /\ passed
    BY <2>3, <2>5, <2>6 DEF ScanOK
  <2>8. /\ Held(positions, ledger, K) =< use[c].cap + Apart(orphans, K)
        /\ HeldCount(positions, ledger, K) =< use[c].n + ApartCount(orphans, K)
    BY <2>3, <2>7 DEF IInv, BudgetsOK, Covers
  <2>9. /\ use[c].cap \in Nat /\ use[c].n \in Nat /\ running.cap \in Nat /\ running.n \in Nat
        /\ MaxCluster \in Nat /\ MaxActive \in Nat
    BY <2>3, CapsAssumption DEF TypeOK
  <2>10. /\ SumOf(Fresh, Entry) \in Nat /\ CountOf(Fresh, Entry) \in Nat
         /\ SumOf(Fresh, K) =< SumOf(Fresh, Entry)
         /\ CountOf(Fresh, K) =< CountOf(Fresh, Entry)
    BY <2>4, <2>5, UseIsNat
  <2>11. /\ UncountedIn(c).cap = Apart(orphans, K)
         /\ UncountedIn(c).n = ApartCount(orphans, K)
    BY <2>3, UncountedIsApart
  <2> HIDE DEF K
  <2>12. Held(positions, ledger, K) + SumOf(Fresh, K) =< MaxCluster + Apart(orphans, K)
    BY <2>1, <2>7, <2>8, <2>9, <2>10
  <2>13. HeldCount(positions, ledger, K) + CountOf(Fresh, K)
           =< MaxActive + ApartCount(orphans, K)
    BY <2>1, <2>7, <2>8, <2>9, <2>10
  <2>14. QED BY <2>1, <2>11, <2>12, <2>13
<1>2. IInv /\ IInv' /\ [Next]_vars => [A]_vars
  BY <1>1
<1> HIDE DEF A
<1>3. Spec => [][A]_vars
  BY <1>2, Invariance, PTL DEF Spec
<1>4. QED BY <1>3 DEF A, ClusterCapIsKept

(* Size, as scan_all.py calls it: a scan adds nothing to a portfolio or to *)
(* an issuer that has reached its cap, and what one scan may add beyond    *)
(* the cap is less than the cap of one cluster, so that excesses do not    *)
(* add up; what failed scans of the batch had recorded comes on top.       *)
THEOREM Overshoot == Spec => OvershootIsOneScan
<1> DEFINE A == Recording =>
                  /\ TotalUse' > TotalUse =>
                       LET limit == MaxTotal + Uncounted(DOMAIN orphans).cap
                       IN  TotalUse < limit /\ TotalUse' < limit + MaxCluster
                  /\ \A i \in Issuers : IssuerUse(i)' > IssuerUse(i) =>
                       LET limit == MaxIssuer + UncountedOf(i).cap
                       IN  IssuerUse(i) < limit /\ IssuerUse(i)' < limit + MaxCluster
<1>1. IInv /\ IInv' /\ [Next]_vars => A
  <2> SUFFICES ASSUME IInv, IInv', [Next]_vars, Recording PROVE A
    OBVIOUS
  <2>1. /\ TotalUse' = TotalUse + SumOf(Fresh, Item)
        /\ TotalUse = Held(positions, ledger, Item)
        /\ \A i \in Issuers : /\ IssuerUse(i)' = IssuerUse(i) + SumOf(Fresh, OfIssuer(i))
                              /\ IssuerUse(i) = Held(positions, ledger, OfIssuer(i))
        /\ \A p : /\ Held(positions, ledger, p) \in Nat /\ SumOf(Fresh, p) \in Nat
                  /\ Apart(orphans, p) \in Nat
    BY RecordingAdds
  <2>2. /\ TypeOK /\ StoreOK /\ ScanOK /\ phase \in {"scan", "recorded"} /\ phase = "scan"
    BY DEF IInv, Recording
  <2>3. /\ SumOf(Fresh, Item) = SumOf(Fresh, Entry)
        /\ IsFiniteBag(Fresh) /\ DOMAIN Fresh \subseteq DOMAIN new
    BY <2>2, FreshIsOfOneCluster
  <2>4. Cluster \in Clusters
    BY <2>2, ClustersOfUnderlyings DEF TypeOK, ScanOK, Cluster
  <2>5. /\ use[Cluster].cap \in Nat /\ running.cap \in Nat /\ total \in Nat
        /\ MaxCluster \in Nat /\ MaxTotal \in Nat /\ MaxIssuer \in Nat
        /\ \A i \in Issuers : issuerUsed[i] \in Nat
    BY <2>2, <2>4, CapsAssumption DEF TypeOK
  <2>6. \A p : SumOf(Fresh, p) > 0 =>
          /\ DOMAIN Fresh \cap p # {} /\ DOMAIN new # {} /\ passed /\ total < MaxTotal
          /\ SumOf(Fresh, Entry) =< MaxCluster
    <3> SUFFICES ASSUME NEW p, SumOf(Fresh, p) > 0
                 PROVE  /\ DOMAIN Fresh \cap p # {} /\ DOMAIN new # {}
                        /\ passed /\ total < MaxTotal
                        /\ SumOf(Fresh, Entry) =< MaxCluster
      OBVIOUS
    <3>1. DOMAIN Fresh \cap p # {}
      BY <2>1, UseOfNone
    <3>2. PICK e \in DOMAIN Fresh : e \in p
      BY <3>1, Zenon
    <3>3. DOMAIN new # {}
      BY <2>3, <3>2, Zenon
    <3>4. /\ use[Cluster].cap + SumOf(Fresh, Entry) =< running.cap
          /\ running.cap =< MaxCluster /\ total < MaxTotal /\ passed
      BY <2>2, <3>3 DEF ScanOK
    <3>5. QED BY <2>1, <2>5, <3>1, <3>3, <3>4
  <2>7. ASSUME TotalUse' > TotalUse
        PROVE  LET limit == MaxTotal + Uncounted(DOMAIN orphans).cap
               IN  TotalUse < limit /\ TotalUse' < limit + MaxCluster
    <3>1. SumOf(Fresh, Item) > 0
      BY <2>1, <2>7
    <3>2. total < MaxTotal /\ SumOf(Fresh, Item) =< MaxCluster
      BY <2>3, <2>6, <3>1
    <3>3. TotalUse =< total + Apart(orphans, Item)
      BY <2>1, <2>2, <2>6, <3>1, TotalIsCovered
    <3>4. Uncounted(DOMAIN orphans).cap = Apart(orphans, Item)
      BY <2>2, UncountedIsApart
    <3>5. QED BY <2>1, <2>5, <3>2, <3>3, <3>4
  <2>8. ASSUME NEW i \in Issuers, IssuerUse(i)' > IssuerUse(i)
        PROVE  LET limit == MaxIssuer + UncountedOf(i).cap
               IN  IssuerUse(i) < limit /\ IssuerUse(i)' < limit + MaxCluster
    <3>1. SumOf(Fresh, OfIssuer(i)) > 0
      BY <2>1, <2>8
    <3>2. PICK e \in DOMAIN Fresh : e \in OfIssuer(i)
      BY <2>6, <3>1
    <3>3. issuerUsed[i] < MaxIssuer
      BY <2>2, <2>3, <3>2 DEF ScanOK, OfIssuer
    <3>4. SumOf(Fresh, OfIssuer(i)) =< MaxCluster
      <4>1. DOMAIN Fresh \cap OfIssuer(i) \subseteq Entry
        BY <2>2, <2>3 DEF StoreOK
      <4>2. SumOf(Fresh, OfIssuer(i)) =< SumOf(Fresh, Entry)
        BY <2>3, <4>1, UseOfPart
      <4>3. QED BY <2>1, <2>5, <2>6, <3>1, <4>2
    <3>5. IssuerUse(i) =< issuerUsed[i] + Apart(orphans, OfIssuer(i))
      BY <2>1, <2>2, <2>6, <3>1 DEF IInv, BudgetsOK, Covers
    <3>6. UncountedOf(i).cap = Apart(orphans, OfIssuer(i))
      BY <2>2, UncountedIsApart
    <3>7. QED BY <2>1, <2>5, <3>3, <3>4, <3>5, <3>6
  <2>9. QED BY <2>7, <2>8
<1>2. IInv /\ IInv' /\ [Next]_vars => [A]_vars
  BY <1>1
<1> HIDE DEF A
<1>3. Spec => [][A]_vars
  BY <1>2, Invariance, PTL DEF Spec
<1>4. QED BY <1>3 DEF A, OvershootIsOneScan

=============================================================================
