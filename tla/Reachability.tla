---------------------------- MODULE Reachability ----------------------------
(***************************************************************************)
(* Several modules say what a graph connects by a function that is grown   *)
(* step by step, as often as the graph has links.  These lemmas show, once *)
(* for all of them, that such a function exists, and that its last value   *)
(* is the least set that has the start and is closed under the links: the  *)
(* number of steps is enough.                                              *)
(***************************************************************************)
EXTENDS FiniteSetTheorems, WellFoundedInduction, TLAPS

(* What n \in Nat belongs to, when 0 does and n + 1 with n.                *)
LEMMA EveryNatural ==
  ASSUME NEW S, 0 \in S, \A n \in Nat : n \in S => n + 1 \in S
  PROVE  Nat \subseteq S
<1> SUFFICES ASSUME NEW m \in Nat, m \notin S PROVE FALSE
  OBVIOUS
<1> DEFINE Missing == {0 .. n : n \in Nat \ S}
<1>1. Missing \subseteq FiniteSubsetsOf(Nat) /\ Missing # {}
  <2>1. ASSUME NEW n \in Nat PROVE IsFiniteSet(0 .. n) /\ 0 .. n \subseteq Nat
    BY FS_Interval
  <2>. QED
    BY <2>1 DEF FiniteSubsetsOf
<1>2. PICK B \in Missing : \A A \in Missing : <<A, B>> \notin StrictSubsetOrdering(Nat)
  <2> HIDE DEF Missing
  <2>. QED
    BY <1>1, FS_StrictSubsetOrderingWellFounded, WFMin
<1>3. PICK n \in Nat \ S : B = 0 .. n
  BY <1>2
<1>4. n # 0 /\ n - 1 \in Nat
  BY <1>3
<1>5. CASE n - 1 \in S
  BY <1>3, <1>4, <1>5
<1>6. CASE n - 1 \notin S
  <2>1. 0 .. n - 1 \in Missing
    BY <1>4, <1>6
  <2>2. 0 .. n - 1 \subseteq 0 .. n /\ n \in 0 .. n /\ n \notin 0 .. n - 1
    BY <1>3, <1>4
  <2>3. <<0 .. n - 1, 0 .. n>> \in StrictSubsetOrdering(Nat)
    <3>1. 0 .. n - 1 \subseteq Nat /\ 0 .. n \subseteq Nat /\ 0 .. n - 1 # 0 .. n
      BY <1>3, <2>2
    <3>. QED
      BY <2>2, <3>1 DEF StrictSubsetOrdering
  <2>. QED
    BY <1>2, <1>3, <2>1, <2>3
<1>. QED
  BY <1>5, <1>6

(* A set of naturals has a least one.                                      *)
LEMMA LeastNatural ==
  ASSUME NEW S \in SUBSET Nat, S # {}
  PROVE  \E n \in S : \A m \in S : n <= m
<1> DEFINE Below == {n \in Nat : \A m \in S : n <= m}
<1>1. 0 \in Below
  OBVIOUS
<1>2. PICK n \in Below : n + 1 \notin Below
  <2>1. ~(Nat \subseteq Below)
    <3> PICK m \in S : TRUE
      OBVIOUS
    <3>1. m + 1 \notin Below /\ m + 1 \in Nat
      OBVIOUS
    <3>. QED
      BY <3>1
  <2> HIDE DEF Below
  <2>. QED
    BY <1>1, <2>1, EveryNatural
<1>3. n \in S
  BY <1>2
<1>. QED
  BY <1>3

(* A finite set of integers has a greatest one.                            *)
LEMMA GreatestInteger ==
  ASSUME NEW S \in SUBSET Int, IsFiniteSet(S), S # {}
  PROVE  \E m \in S : \A x \in S : x <= m
<1> DEFINE HasGreatest(T) == \E m \in T : \A x \in T : x <= m
           P == {n \in Nat : \A T \in SUBSET Int :
                   IsFiniteSet(T) /\ Cardinality(T) = n /\ T # {} => HasGreatest(T)}
<1>1. 0 \in P
  BY FS_EmptySet
<1>2. ASSUME NEW n \in P
      PROVE  n + 1 \in P
  <2> SUFFICES ASSUME NEW T \in SUBSET Int, IsFiniteSet(T), Cardinality(T) = n + 1, T # {}
               PROVE  HasGreatest(T)
    OBVIOUS
  <2>1. PICK x \in T : TRUE
    OBVIOUS
  <2> DEFINE R == T \ {x}
  <2>2. IsFiniteSet(R) /\ Cardinality(R) = n /\ R \in SUBSET Int
    <3>1. IsFiniteSet(R) /\ Cardinality(R) = Cardinality(T) - 1
      BY <2>1, FS_RemoveElement
    <3>. QED
      BY <3>1
  <2>3. CASE R = {}
    BY <2>3
  <2>4. CASE R # {}
    <3>1. PICK m \in R : \A y \in R : y <= m
      BY <1>2, <2>2, <2>4
    <3>2. \A y \in T : y = x \/ y \in R
      OBVIOUS
    <3>3. x <= m => \A y \in T : y <= m
      BY <3>1, <3>2
    <3>4. ~(x <= m) => \A y \in T : y <= x
      BY <3>1, <3>2
    <3>. QED
      BY <3>1, <3>3, <3>4
  <2>. QED
    BY <2>3, <2>4
<1>3. Nat \subseteq P
  <2> HIDE DEF P
  <2>. QED
    BY <1>1, <1>2, EveryNatural
<1>4. Cardinality(S) \in Nat
  BY FS_CardinalityType
<1>5. HasGreatest(S)
  BY <1>3, <1>4
<1>. QED
  BY <1>5

-----------------------------------------------------------------------------
Iterates(R, N, from, F) == R = [k \in 0 .. N |-> IF k = 0 THEN from ELSE F[R[k - 1]]]

LEMMA IteratesExist ==
  ASSUME NEW D, NEW F \in [D -> D], NEW from \in D, NEW N \in Nat
  PROVE  \E R \in [0 .. N -> D] : Iterates(R, N, from, F)
<1> DEFINE S == {n \in Nat : \E R \in [0 .. n -> D] : Iterates(R, n, from, F)}
<1>1. 0 \in S
  <2> DEFINE R == [k \in 0 .. 0 |-> from]
  <2>1. R \in [0 .. 0 -> D] /\ Iterates(R, 0, from, F)
    BY DEF Iterates
  <2>. QED
    BY <2>1
<1>2. ASSUME NEW n \in Nat, n \in S PROVE n + 1 \in S
  <2> PICK Q \in [0 .. n -> D] : Iterates(Q, n, from, F)
    BY <1>2
  <2> DEFINE R == [k \in 0 .. n + 1 |-> IF k = n + 1 THEN F[Q[n]] ELSE Q[k]]
  <2>1. R \in [0 .. n + 1 -> D]
    OBVIOUS
  <2>2. ASSUME NEW k \in 0 .. n + 1
        PROVE  R[k] = IF k = 0 THEN from ELSE F[R[k - 1]]
    <3>1. CASE k = n + 1
      BY <3>1
    <3>2. CASE k # n + 1
      <4>1. k \in 0 .. n /\ R[k] = Q[k] /\ (k # 0 => R[k - 1] = Q[k - 1])
        BY <3>2
      <4>2. Q[k] = IF k = 0 THEN from ELSE F[Q[k - 1]]
        BY <4>1 DEF Iterates
      <4>. QED
        BY <4>1, <4>2
    <3>. QED
      BY <3>1, <3>2
  <2>3. Iterates(R, n + 1, from, F)
    <3> HIDE DEF R
    <3>. QED
      BY <2>1, <2>2 DEF Iterates
  <2>. QED
    BY <2>1, <2>3
<1> HIDE DEF S
<1>3. N \in S
  BY <1>1, <1>2, EveryNatural
<1>. QED
  BY <1>3 DEF S
-----------------------------------------------------------------------------
(* Links E, each from the set In[e] to the set Out[e]: what gs is next to. *)
Grown(gs, E, In, Out) ==
  gs \union UNION {Out[e] : e \in {f \in E : In[f] \intersect gs # {}}}

IsClosed(gs, E, In, Out) == \A e \in E : In[e] \intersect gs # {} => Out[e] \subseteq gs

Grows(R, N, from, E, In, Out) ==
  R = [k \in 0 .. N |-> IF k = 0 THEN from ELSE Grown(R[k - 1], E, In, Out)]

LEMMA GrowthExists ==
  ASSUME NEW E, NEW In, NEW Out, NEW from, NEW N \in Nat
  PROVE  \E R : Grows(R, N, from, E, In, Out)
<1> DEFINE U == from \union UNION {Out[e] : e \in E}
           F == [gs \in SUBSET U |-> Grown(gs, E, In, Out)]
<1>1. F \in [SUBSET U -> SUBSET U]
  <2>1. \A gs \in SUBSET U : Grown(gs, E, In, Out) \subseteq U
    BY DEF Grown
  <2>. QED
    BY <2>1
<1>2. PICK R \in [0 .. N -> SUBSET U] : Iterates(R, N, from, F)
  <2>1. from \in SUBSET U
    OBVIOUS
  <2> HIDE DEF F, U
  <2>. QED
    BY <1>1, <2>1, IteratesExist
<1>3. \A k \in 0 .. N : k # 0 => F[R[k - 1]] = Grown(R[k - 1], E, In, Out)
  <2>1. ASSUME NEW k \in 0 .. N, k # 0 PROVE R[k - 1] \in SUBSET U
    <3>1. k - 1 \in 0 .. N
      BY <2>1
    <3>. QED
      BY <3>1
  <2>. QED
    BY <2>1
<1>4. Grows(R, N, from, E, In, Out)
  <2> HIDE DEF F, U
  <2>. QED
    BY <1>2, <1>3 DEF Iterates, Grows
<1>. QED
  BY <1>4

(* A step that adds something makes a link harmless that was not before,   *)
(* so that after as many steps as there are links nothing can be added.    *)
LEMMA GrowthIsClosure ==
  ASSUME NEW E, IsFiniteSet(E), NEW In, NEW Out, NEW from, NEW R,
         Grows(R, Cardinality(E), from, E, In, Out)
  PROVE  /\ from \subseteq R[Cardinality(E)]
         /\ IsClosed(R[Cardinality(E)], E, In, Out)
         /\ \A C : from \subseteq C /\ IsClosed(C, E, In, Out) => R[Cardinality(E)] \subseteq C
<1> DEFINE N == Cardinality(E)
           Inside(gs) == {e \in E : Out[e] \subseteq gs}
<1>1. N \in Nat
  BY FS_CardinalityType
<1>2. R[0] = from /\ \A k \in 0 .. N - 1 : R[k + 1] = Grown(R[k], E, In, Out)
  <2>1. \A k \in 0 .. N : R[k] = IF k = 0 THEN from ELSE Grown(R[k - 1], E, In, Out)
    BY DEF Grows
  <2>2. \A k \in 0 .. N - 1 : k + 1 \in 0 .. N /\ k + 1 # 0 /\ (k + 1) - 1 = k
    BY <1>1
  <2>. QED
    BY <1>1, <2>1, <2>2
<1>3. \A gs : Cardinality(Inside(gs)) \in 0 .. N /\ (Cardinality(Inside(gs)) = N => Inside(gs) = E)
  <2>1. ASSUME NEW gs
        PROVE  Cardinality(Inside(gs)) \in 0 .. N /\ (Cardinality(Inside(gs)) = N => Inside(gs) = E)
    <3>1. Inside(gs) \in SUBSET E
      OBVIOUS
    <3>. QED
      BY <1>1, <3>1, FS_Subset, FS_CardinalityType
  <2>. QED
    BY <2>1
<1>4. ASSUME NEW gs, ~IsClosed(gs, E, In, Out)
      PROVE  Cardinality(Inside(Grown(gs, E, In, Out))) > Cardinality(Inside(gs))
  <2> DEFINE next == Grown(gs, E, In, Out)
  <2>1. PICK e \in E : In[e] \intersect gs # {} /\ ~(Out[e] \subseteq gs)
    BY <1>4 DEF IsClosed
  <2>2. e \in Inside(next) /\ e \notin Inside(gs)
    BY <2>1 DEF Grown
  <2>3. Inside(gs) \subseteq Inside(next)
    BY DEF Grown
  <2>4. IsFiniteSet(Inside(next)) /\ IsFiniteSet(Inside(gs))
    <3>1. Inside(next) \in SUBSET E /\ Inside(gs) \in SUBSET E
      OBVIOUS
    <3>. QED
      BY <3>1, FS_Subset
  <2>5. Cardinality(Inside(gs)) <= Cardinality(Inside(next)) /\ Cardinality(Inside(gs)) # Cardinality(Inside(next))
    <3> HIDE DEF Inside, next
    <3>. QED
      BY <2>2, <2>3, <2>4, FS_Subset
  <2> HIDE DEF Inside, next
  <2>6. Cardinality(Inside(gs)) \in Nat /\ Cardinality(Inside(next)) \in Nat
    BY <2>4, FS_CardinalityType
  <2>. QED
    BY <2>5, <2>6 DEF next
<1>5. \A gs : IsClosed(gs, E, In, Out) => Grown(gs, E, In, Out) = gs
  BY DEF IsClosed, Grown
<1> DEFINE S == {n \in Nat : n <= N => \/ IsClosed(R[n], E, In, Out)
                                     \/ Cardinality(Inside(R[n])) >= n}
<1>6. 0 \in S
  BY <1>1, <1>3
<1>7. ASSUME NEW n \in Nat, n \in S PROVE n + 1 \in S
  <2> SUFFICES ASSUME n + 1 <= N
               PROVE  IsClosed(R[n + 1], E, In, Out) \/ Cardinality(Inside(R[n + 1])) >= n + 1
    OBVIOUS
  <2>1. n <= N /\ R[n + 1] = Grown(R[n], E, In, Out)
    BY <1>1, <1>2
  <2>2. CASE IsClosed(R[n], E, In, Out)
    BY <1>5, <2>1, <2>2
  <2>3. CASE ~IsClosed(R[n], E, In, Out)
    <3>1. Cardinality(Inside(R[n])) >= n
      BY <1>7, <2>1, <2>3
    <3>2. Cardinality(Inside(R[n + 1])) > Cardinality(Inside(R[n]))
      BY <1>4, <2>1, <2>3
    <3> HIDE DEF Inside, N
    <3>3. \A gs : Cardinality(Inside(gs)) \in Nat
      BY <1>1, <1>3
    <3>. QED
      BY <3>1, <3>2, <3>3
  <2>. QED
    BY <2>2, <2>3
<1>8. IsClosed(R[N], E, In, Out)
  <2>1. N \in S
    <3> HIDE DEF S, N
    <3>. QED
      BY <1>1, <1>6, <1>7, EveryNatural
  <2>2. CASE Cardinality(Inside(R[N])) >= N
    <3>1. Inside(R[N]) = E
      <4> HIDE DEF Inside
      <4>. QED
        BY <1>1, <1>3, <2>2
    <3>. QED
      BY <3>1 DEF IsClosed
  <2>. QED
    BY <1>1, <2>1, <2>2
<1> HIDE DEF S
<1>9. from \subseteq R[N]
  <2> DEFINE T == {n \in Nat : n <= N => from \subseteq R[n]}
  <2>1. 0 \in T
    BY <1>2
  <2>2. ASSUME NEW n \in Nat, n \in T PROVE n + 1 \in T
    <3>1. n + 1 <= N => R[n + 1] = Grown(R[n], E, In, Out) /\ n <= N
      BY <1>1, <1>2
    <3>. QED
      BY <2>2, <3>1 DEF Grown
  <2> HIDE DEF T
  <2>3. N \in T
    BY <1>1, <2>1, <2>2, EveryNatural
  <2>. QED
    BY <1>1, <2>3 DEF T
<1>10. ASSUME NEW C, from \subseteq C, IsClosed(C, E, In, Out) PROVE R[N] \subseteq C
  <2> DEFINE T == {n \in Nat : n <= N => R[n] \subseteq C}
  <2>1. 0 \in T
    BY <1>2, <1>10
  <2>2. ASSUME NEW n \in Nat, n \in T PROVE n + 1 \in T
    <3> SUFFICES ASSUME n + 1 <= N PROVE R[n + 1] \subseteq C
      OBVIOUS
    <3>1. R[n + 1] = Grown(R[n], E, In, Out) /\ R[n] \subseteq C
      BY <1>1, <1>2, <2>2
    <3>2. \A e \in E : In[e] \intersect R[n] # {} => Out[e] \subseteq C
      BY <1>10, <3>1 DEF IsClosed
    <3>. QED
      BY <3>1, <3>2 DEF Grown
  <2> HIDE DEF T
  <2>3. N \in T
    BY <1>1, <2>1, <2>2, EveryNatural
  <2>. QED
    BY <1>1, <2>3 DEF T
<1>. QED
  BY <1>8, <1>9, <1>10
=============================================================================
