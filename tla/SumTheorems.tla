---------------------------- MODULE SumTheorems ----------------------------
(***************************************************************************)
(* What MapThenSumSet computes, for a summand given as a function and a    *)
(* finite set of any size.  The fold's recursive function is shown to      *)
(* exist by taking a smallest set on which it would not; every fact after  *)
(* that is proved the same way.                                            *)
(***************************************************************************)
EXTENDS Integers, FiniteSetsExt, FiniteSetTheorems, TLAPS

Sum(F, S) == MapThenSumSet(LAMBDA x : F[x], S)

Pick(T) == CHOOSE x \in T : TRUE

(* The equation of the fold's recursive function.                          *)
Rest(f, F, T) == IF T = {} THEN 0 ELSE F[Pick(T)] + f[T \ {Pick(T)}]

IsSum(f, F, S) == f = [T \in SUBSET S |-> Rest(f, F, T)]

SumFcn(F, S) == CHOOSE f : IsSum(f, F, S)

-----------------------------------------------------------------------------
(* A non-empty set of subsets of a finite set has a minimal member.        *)
LEMMA SmallestSubset ==
  ASSUME NEW S, IsFiniteSet(S), NEW Bad, Bad \subseteq SUBSET S, Bad # {}
  PROVE  \E T \in Bad : IsFiniteSet(T) /\ \A U \in SUBSET T : U # T => U \notin Bad
<1>1. IsWellFoundedOn(StrictSubsetOrdering(S), SUBSET S)
  BY FS_StrictSubsetOrderingWellFounded, FS_FiniteSubsetsOfFinite
<1>2. PICK T \in Bad : \A U \in Bad : <<U, T>> \notin StrictSubsetOrdering(S)
  BY <1>1, WFMin
<1>3. ASSUME NEW U \in SUBSET T, U # T PROVE U \notin Bad
  BY <1>2, <1>3 DEF StrictSubsetOrdering
<1>4. IsFiniteSet(T)
  BY FS_Subset
<1> QED
  BY <1>3, <1>4

(* The element MapThenSumSet takes out of a set is one of the set.         *)
LEMMA PickIn == ASSUME NEW T, T # {} PROVE Pick(T) \in T
BY DEF Pick

(* The sum is the value of the recursive function of its definition.       *)
LEMMA SumIsFcn == ASSUME NEW F, NEW S PROVE Sum(F, S) = SumFcn(F, S)[S]
BY DEF Sum, MapThenSumSet, MapThenFoldSet, SumFcn, IsSum, Rest, Pick

(* Two such functions agree where both are defined.                        *)
LEMMA SumUnique ==
  ASSUME NEW F, NEW S, NEW T, NEW f, NEW g, IsFiniteSet(S),
         IsSum(f, F, S), IsSum(g, F, T), NEW U \in SUBSET S, U \in SUBSET T
  PROVE  f[U] = g[U]
<1> DEFINE Bad == {V \in SUBSET U : f[V] # g[V]}
<1>1. SUFFICES ASSUME Bad # {} PROVE FALSE
  OBVIOUS
<1>2. IsFiniteSet(U)
  BY FS_Subset
<1>3. PICK V \in Bad : \A W \in SUBSET V : W # V => W \notin Bad
  <2>1. Bad \subseteq SUBSET U
    OBVIOUS
  <2> HIDE DEF Bad
  <2> QED
    BY <1>1, <1>2, <2>1, SmallestSubset
<1>4. V \in SUBSET S /\ V \in SUBSET T
  OBVIOUS
<1>5. f[V] = Rest(f, F, V) /\ g[V] = Rest(g, F, V)
  BY <1>4 DEF IsSum
<1>6. CASE V = {}
  BY <1>5, <1>6 DEF Rest
<1>7. CASE V # {}
  <2>1. Pick(V) \in V
    BY <1>7, PickIn
  <2>2. V \ {Pick(V)} \notin Bad
    BY <1>3, <2>1
  <2> QED
    BY <1>5, <1>7, <2>1, <2>2 DEF Rest
<1> QED
  BY <1>6, <1>7

(* It exists.                                                              *)
LEMMA SumExists ==
  ASSUME NEW F, NEW S, IsFiniteSet(S)
  PROVE  IsSum(SumFcn(F, S), F, S)
<1> DEFINE Bad == {T \in SUBSET S : ~ \E f : IsSum(f, F, T)}
<1>1. SUFFICES ASSUME Bad # {} PROVE FALSE
  BY DEF SumFcn
<1>2. PICK T \in Bad : IsFiniteSet(T) /\ \A U \in SUBSET T : U # T => U \notin Bad
  <2>1. Bad \subseteq SUBSET S
    OBVIOUS
  <2> HIDE DEF Bad
  <2> QED
    BY <1>1, <2>1, SmallestSubset
<1>3. ASSUME NEW U \in SUBSET T, U # T
      PROVE  IsSum(SumFcn(F, U), F, U) /\ IsFiniteSet(U)
  <2>1. \E f : IsSum(f, F, U)
    BY <1>2, <1>3
  <2> QED
    BY <1>2, <2>1, FS_Subset DEF SumFcn
<1> DEFINE v(U) == SumFcn(F, U)[U]
           p == Pick(T)
           f == [U \in SUBSET T |->
                   IF U # T THEN v(U)
                   ELSE IF T = {} THEN 0 ELSE F[p] + v(T \ {p})]
<1>4. ASSUME NEW U \in SUBSET T PROVE f[U] = Rest(f, F, U)
  <2>1. CASE U = T /\ T = {}
    BY <2>1 DEF Rest
  <2>2. CASE U = T /\ T # {}
    <3>1. p \in T
      BY <2>2, PickIn
    <3>2. f[T \ {p}] = v(T \ {p})
      BY <3>1
    <3> QED
      BY <2>2, <3>2 DEF Rest
  <2>3. CASE U # T /\ U = {}
    <3>1. SumFcn(F, U)[U] = Rest(SumFcn(F, U), F, U)
      BY <1>3, <2>3 DEF IsSum
    <3> QED
      BY <2>3, <3>1 DEF Rest
  <2>4. CASE U # T /\ U # {}
    <3> DEFINE q == Pick(U)
               W == U \ {q}
    <3>1. q \in U
      BY <2>4, PickIn
    <3>2. W \in SUBSET T /\ W # T /\ W \in SUBSET U
      BY <3>1
    <3>3. SumFcn(F, U)[U] = Rest(SumFcn(F, U), F, U)
      BY <1>3, <2>4 DEF IsSum
    <3>4. SumFcn(F, U)[W] = SumFcn(F, W)[W]
      <4>1. IsSum(SumFcn(F, U), F, U) /\ IsFiniteSet(U)
        BY <1>3, <2>4
      <4>2. IsSum(SumFcn(F, W), F, W)
        BY <1>3, <3>2
      <4> HIDE DEF W
      <4> QED
        BY <3>2, <4>1, <4>2, SumUnique
    <3>5. f[U] = v(U) /\ f[W] = v(W)
      BY <2>4, <3>2
    <3> QED
      BY <2>4, <3>3, <3>4, <3>5 DEF Rest
  <2> QED
    BY <2>1, <2>2, <2>3, <2>4
<1>5. IsSum(f, F, T)
  <2>1. f = [U \in SUBSET T |-> f[U]]
    OBVIOUS
  <2> HIDE DEF f
  <2> QED
    BY <1>4, <2>1 DEF IsSum
<1> QED
  BY <1>5

-----------------------------------------------------------------------------
(* The sum over no element, and over the element that the fold takes first *)
(* and the others.                                                         *)
LEMMA SumEmpty == ASSUME NEW F PROVE Sum(F, {}) = 0
<1>1. IsSum(SumFcn(F, {}), F, {})
  BY SumExists, FS_EmptySet
<1>2. SumFcn(F, {})[{}] = Rest(SumFcn(F, {}), F, {})
  BY <1>1 DEF IsSum
<1> QED
  BY <1>2, SumIsFcn DEF Rest

(* One round of the recursion.                                             *)
LEMMA SumPick ==
  ASSUME NEW F, NEW S, IsFiniteSet(S), S # {}
  PROVE  Pick(S) \in S /\ Sum(F, S) = F[Pick(S)] + Sum(F, S \ {Pick(S)})
<1> DEFINE W == S \ {Pick(S)}
<1>1. Pick(S) \in S
  BY PickIn
<1>2. IsSum(SumFcn(F, S), F, S)
  BY SumExists
<1>3. IsFiniteSet(W) /\ IsSum(SumFcn(F, W), F, W)
  BY SumExists, FS_RemoveElement
<1>4. SumFcn(F, S)[W] = SumFcn(F, W)[W]
  <2>1. W \in SUBSET S /\ W \in SUBSET W
    OBVIOUS
  <2> HIDE DEF W
  <2> QED
    BY <1>2, <1>3, <2>1, SumUnique
<1>5. SumFcn(F, S)[S] = Rest(SumFcn(F, S), F, S)
  BY <1>2 DEF IsSum
<1> QED
  BY <1>1, <1>4, <1>5, SumIsFcn DEF Rest

(* Integers add up to an integer.                                          *)
LEMMA SumType ==
  ASSUME NEW F, NEW S, IsFiniteSet(S), \A x \in S : F[x] \in Int
  PROVE  Sum(F, S) \in Int
<1> DEFINE Bad == {T \in SUBSET S : Sum(F, T) \notin Int}
<1>1. SUFFICES ASSUME Bad # {} PROVE FALSE
  OBVIOUS
<1>2. PICK T \in Bad : IsFiniteSet(T) /\ \A U \in SUBSET T : U # T => U \notin Bad
  <2>1. Bad \subseteq SUBSET S
    OBVIOUS
  <2> HIDE DEF Bad
  <2> QED
    BY <1>1, <2>1, SmallestSubset
<1>3. CASE T = {}
  BY <1>3, SumEmpty
<1>4. CASE T # {}
  <2>1. Pick(T) \in T /\ Sum(F, T) = F[Pick(T)] + Sum(F, T \ {Pick(T)})
    BY <1>2, <1>4, SumPick
  <2>2. Sum(F, T \ {Pick(T)}) \in Int
    BY <1>2, <2>1
  <2> QED
    BY <2>1, <2>2
<1> QED
  BY <1>3, <1>4

(* Any element may be taken first.                                         *)
LEMMA SumRemove ==
  ASSUME NEW F, NEW S, IsFiniteSet(S), \A x \in S : F[x] \in Int, NEW e \in S
  PROVE  Sum(F, S) = F[e] + Sum(F, S \ {e})
<1> DEFINE Splits(T) == \A x \in T : Sum(F, T) = F[x] + Sum(F, T \ {x})
           Bad == {T \in SUBSET S : ~Splits(T)}
<1>1. SUFFICES ASSUME Bad # {} PROVE FALSE
  OBVIOUS
<1>2. PICK T \in Bad : IsFiniteSet(T) /\ \A U \in SUBSET T : U # T => U \notin Bad
  <2>1. Bad \subseteq SUBSET S
    OBVIOUS
  <2> HIDE DEF Bad
  <2> QED
    BY <1>1, <2>1, SmallestSubset
<1>3. PICK x \in T : Sum(F, T) # F[x] + Sum(F, T \ {x})
  OBVIOUS
<1> DEFINE p == Pick(T)
<1>4. p \in T /\ Sum(F, T) = F[p] + Sum(F, T \ {p})
  BY <1>2, <1>3, SumPick
<1>5. x # p
  BY <1>3, <1>4
<1>6. Sum(F, T \ {p}) = F[x] + Sum(F, (T \ {p}) \ {x})
  <2>1. T \ {p} \notin Bad
    BY <1>2, <1>4
  <2> QED
    BY <1>5, <2>1
<1>7. Sum(F, T \ {x}) = F[p] + Sum(F, (T \ {x}) \ {p})
  <2>1. T \ {x} \notin Bad
    BY <1>2
  <2> QED
    BY <1>4, <1>5, <2>1
<1>8. (T \ {p}) \ {x} = (T \ {x}) \ {p}
  OBVIOUS
<1> DEFINE rest == Sum(F, (T \ {x}) \ {p})
<1>9. rest \in Int
  <2>1. IsFiniteSet((T \ {x}) \ {p})
    BY <1>2, FS_RemoveElement
  <2> QED
    BY <2>1, SumType
<1>10. F[x] \in Int /\ F[p] \in Int
  BY <1>4
<1> HIDE DEF rest, p
<1>11. Sum(F, T) = F[p] + (F[x] + rest) /\ Sum(F, T \ {x}) = F[p] + rest
  BY <1>4, <1>6, <1>7, <1>8 DEF rest
<1> QED
  BY <1>3, <1>9, <1>10, <1>11

(* Equal summands have equal sums.                                         *)
LEMMA SumSame ==
  ASSUME NEW F, NEW G, NEW S, IsFiniteSet(S), \A x \in S : F[x] = G[x]
  PROVE  Sum(F, S) = Sum(G, S)
<1> DEFINE Bad == {T \in SUBSET S : Sum(F, T) # Sum(G, T)}
<1>1. SUFFICES ASSUME Bad # {} PROVE FALSE
  OBVIOUS
<1>2. PICK T \in Bad : IsFiniteSet(T) /\ \A U \in SUBSET T : U # T => U \notin Bad
  <2>1. Bad \subseteq SUBSET S
    OBVIOUS
  <2> HIDE DEF Bad
  <2> QED
    BY <1>1, <2>1, SmallestSubset
<1>3. CASE T = {}
  BY <1>3, SumEmpty
<1>4. CASE T # {}
  <2>1. /\ Pick(T) \in T
        /\ Sum(F, T) = F[Pick(T)] + Sum(F, T \ {Pick(T)})
        /\ Sum(G, T) = G[Pick(T)] + Sum(G, T \ {Pick(T)})
    BY <1>2, <1>4, SumPick
  <2>2. Sum(F, T \ {Pick(T)}) = Sum(G, T \ {Pick(T)})
    BY <1>2, <2>1
  <2> QED
    BY <2>1, <2>2
<1> QED
  BY <1>3, <1>4

(* One summand changes.                                                    *)
LEMMA SumUpdate ==
  ASSUME NEW F, NEW G, NEW S, IsFiniteSet(S), NEW e \in S,
         \A x \in S : F[x] \in Int /\ G[x] \in Int,
         \A x \in S : x # e => F[x] = G[x]
  PROVE  /\ Sum(F, S) \in Int /\ Sum(G, S) \in Int
         /\ Sum(G, S) = Sum(F, S) + (G[e] - F[e])
<1>1. Sum(F, S) = F[e] + Sum(F, S \ {e}) /\ Sum(G, S) = G[e] + Sum(G, S \ {e})
  BY SumRemove
<1>2. IsFiniteSet(S \ {e})
  BY FS_RemoveElement
<1>3. Sum(F, S \ {e}) = Sum(G, S \ {e})
  BY <1>2, SumSame
<1>4. Sum(F, S \ {e}) \in Int
  BY <1>2, SumType
<1>5. F[e] \in Int /\ G[e] \in Int
  OBVIOUS
<1> QED
  BY <1>1, <1>3, <1>4, <1>5

(* Smaller summands have a smaller sum.                                    *)
LEMMA SumAtMost ==
  ASSUME NEW F, NEW G, NEW S, IsFiniteSet(S),
         \A x \in S : F[x] \in Int /\ G[x] \in Int /\ F[x] =< G[x]
  PROVE  Sum(F, S) =< Sum(G, S)
<1> DEFINE Bad == {T \in SUBSET S : ~(Sum(F, T) =< Sum(G, T))}
<1>1. SUFFICES ASSUME Bad # {} PROVE FALSE
  OBVIOUS
<1>2. PICK T \in Bad : IsFiniteSet(T) /\ \A U \in SUBSET T : U # T => U \notin Bad
  <2>1. Bad \subseteq SUBSET S
    OBVIOUS
  <2> HIDE DEF Bad
  <2> QED
    BY <1>1, <2>1, SmallestSubset
<1>3. CASE T = {}
  BY <1>3, SumEmpty
<1>4. CASE T # {}
  <2> DEFINE p == Pick(T)
             W == T \ {p}
  <2>1. /\ p \in T
        /\ Sum(F, T) = F[p] + Sum(F, W)
        /\ Sum(G, T) = G[p] + Sum(G, W)
    BY <1>2, <1>4, SumPick
  <2>2. Sum(F, W) =< Sum(G, W)
    BY <1>2, <2>1
  <2>3. Sum(F, W) \in Int /\ Sum(G, W) \in Int
    <3>1. IsFiniteSet(W)
      BY <1>2, FS_RemoveElement
    <3> QED
      BY <3>1, SumType
  <2>4. F[p] \in Int /\ G[p] \in Int /\ F[p] =< G[p]
    BY <2>1
  <2>5. ~(Sum(F, T) =< Sum(G, T))
    OBVIOUS
  <2> HIDE DEF p, W
  <2> QED
    BY <2>1, <2>2, <2>3, <2>4, <2>5
<1> QED
  BY <1>3, <1>4

(* Summands outside a subset count only if they are not zero.              *)
LEMMA SumSubset ==
  ASSUME NEW F, NEW S, IsFiniteSet(S), NEW R \in SUBSET S,
         \A x \in S : F[x] \in Int, \A x \in S \ R : F[x] = 0
  PROVE  Sum(F, S) = Sum(F, R)
<1> DEFINE Bad == {T \in SUBSET S : Sum(F, T) # Sum(F, T \cap R)}
<1>0. S \cap R = R
  OBVIOUS
<1>1. SUFFICES ASSUME Bad # {} PROVE FALSE
  BY <1>0
<1>2. PICK T \in Bad : IsFiniteSet(T) /\ \A U \in SUBSET T : U # T => U \notin Bad
  <2>1. Bad \subseteq SUBSET S
    OBVIOUS
  <2> HIDE DEF Bad
  <2> QED
    BY <1>1, <2>1, SmallestSubset
<1>3. CASE T \subseteq R
  <2>1. T \cap R = T
    BY <1>3
  <2> QED
    BY <2>1
<1>4. CASE ~(T \subseteq R)
  <2>1. PICK x \in T : x \notin R
    BY <1>4
  <2>2. Sum(F, T) = F[x] + Sum(F, T \ {x})
    BY <1>2, SumRemove
  <2>3. F[x] = 0
    BY <2>1
  <2>4. Sum(F, T \ {x}) = Sum(F, (T \ {x}) \cap R)
    BY <1>2
  <2>5. (T \ {x}) \cap R = T \cap R
    BY <2>1
  <2>6. Sum(F, T \ {x}) \in Int
    <3>1. IsFiniteSet(T \ {x})
      BY <1>2, FS_RemoveElement
    <3> QED
      BY <3>1, SumType
  <2>7. Sum(F, T) = Sum(F, T \ {x})
    BY <2>2, <2>3, <2>6
  <2> QED
    BY <2>4, <2>5, <2>7
<1> QED
  BY <1>3, <1>4

(* Natural numbers add up to at least each of them.                        *)
LEMMA SumNatural ==
  ASSUME NEW F, NEW S, IsFiniteSet(S), \A x \in S : F[x] \in Nat
  PROVE  Sum(F, S) \in Nat /\ \A e \in S : F[e] =< Sum(F, S)
<1> DEFINE Zero == [x \in S |-> 0]
<1>1. ASSUME NEW T \in SUBSET S PROVE Sum(F, T) \in Nat
  <2>1. IsFiniteSet(T)
    BY FS_Subset
  <2>2. \A x \in T : Zero[x] \in Int /\ F[x] \in Int /\ Zero[x] =< F[x]
    OBVIOUS
  <2>3. \A x \in T : Zero[x] \in Int
    OBVIOUS
  <2>4. \A x \in T \ {} : Zero[x] = 0
    OBVIOUS
  <2> HIDE DEF Zero
  <2>5. Sum(Zero, T) =< Sum(F, T)
    BY <2>1, <2>2, SumAtMost
  <2>6. Sum(Zero, T) = Sum(Zero, {})
    BY <2>1, <2>3, <2>4, SumSubset
  <2>7. Sum(F, T) \in Int
    BY <2>1, <2>2, SumType
  <2> QED
    BY <2>5, <2>6, <2>7, SumEmpty
<1>2. ASSUME NEW e \in S PROVE F[e] =< Sum(F, S)
  <2>1. Sum(F, S) = F[e] + Sum(F, S \ {e})
    BY SumRemove
  <2>2. Sum(F, S \ {e}) \in Nat
    BY <1>1
  <2>3. F[e] \in Nat
    OBVIOUS
  <2> QED
    BY <2>1, <2>2, <2>3
<1> QED
  BY <1>1, <1>2
=============================================================================
