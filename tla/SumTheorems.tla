----------------------------- MODULE SumTheorems -----------------------------
(***************************************************************************)
(* The sum of a function over its domain, SumFunction of the community     *)
(* module Functions: that it is an integer, and how it follows a change of *)
(* one value.  The sum picks one element of a set after the other; every   *)
(* proof is an induction along these picks, over the set of the subsets    *)
(* for which a claim holds.                                                *)
(***************************************************************************)
EXTENDS Functions, Integers, FiniteSetTheorems, TLAPS

Pick(s) == CHOOSE x \in s : TRUE
Rest(s) == s \ {Pick(s)}

\* One step of the summation of f over the subsets of D, g being the sums of
\* the smaller ones.
Summed(f, D, g) == [s \in SUBSET D |-> IF s = {} THEN 0 ELSE f[Pick(s)] + g[Rest(s)]]

\* The sums of f over the subsets of D.
Sums(f, D) == CHOOSE g : g = Summed(f, D, g)

LEMMA SumFunctionIs ==
    ASSUME NEW f PROVE SumFunction(f) = Sums(f, DOMAIN f)[DOMAIN f]
  BY DEF SumFunction, SumFunctionOnSet, FoldFunctionOnSet, MapThenFoldSet, Sums, Summed, Pick, Rest

LEMMA RestIsSmaller ==
    ASSUME NEW s, s # {}
    PROVE  Pick(s) \in s /\ Rest(s) \subseteq s /\ Rest(s) # s /\ s = Rest(s) \cup {Pick(s)}
  BY DEF Pick, Rest

\* A set that has every subset of D whose smaller subsets it has, has them all.
LEMMA SubsetInduction ==
    ASSUME NEW D, IsFiniteSet(D), NEW P,
           \A s \in SUBSET D : (\A t \in SUBSET s : t # s => t \in P) => s \in P
    PROVE  \A s \in SUBSET D : s \in P
<1> DEFINE bad == (SUBSET D) \ P
<1> SUFFICES ASSUME bad # {} PROVE FALSE
  OBVIOUS
<1>1. IsWellFoundedOn(StrictSubsetOrdering(D), SUBSET D)
  <2>1. IsWellFoundedOn(StrictSubsetOrdering(D), FiniteSubsetsOf(D))
    BY FS_StrictSubsetOrderingWellFounded, Zenon
  <2>2. FiniteSubsetsOf(D) = SUBSET D
    BY FS_FiniteSubsetsOfFinite, Zenon
  <2> QED
    BY <2>1, <2>2, Zenon
<1>2. bad \subseteq SUBSET D
  OBVIOUS
<1>3. PICK s \in bad : \A t \in bad : ~ (<<t, s>> \in StrictSubsetOrdering(D))
  <2> HIDE DEF bad
  <2> QED
    BY <1>1, <1>2, WFMin
<1>4. \A t \in SUBSET s : t # s => <<t, s>> \in StrictSubsetOrdering(D) /\ t \in SUBSET D
  BY <1>3 DEF StrictSubsetOrdering
<1>5. ASSUME NEW t \in SUBSET s, t # s PROVE t \in P
  <2>1. <<t, s>> \in StrictSubsetOrdering(D) /\ t \in SUBSET D
    BY <1>4, <1>5, Zenon
  <2> SUFFICES ASSUME t \notin P PROVE FALSE
    OBVIOUS
  <2>2. t \in bad
    BY <2>1
  <2> QED
    BY <1>3, <2>1, <2>2, Zenon
<1>6. s \in SUBSET D /\ s \notin P
  BY <1>3, Zenon
<1> QED
  BY <1>5, <1>6, Zenon

\* The same along the picks.
LEMMA PickInduction ==
    ASSUME NEW D, IsFiniteSet(D), NEW P, {} \in P,
           \A s \in SUBSET D : s # {} /\ Rest(s) \in P => s \in P
    PROVE  \A s \in SUBSET D : s \in P
<1>1. ASSUME NEW s \in SUBSET D, \A t \in SUBSET s : t # s => t \in P
      PROVE  s \in P
  <2>1. CASE s = {}
    BY <2>1
  <2>2. CASE s # {}
    <3>1. Rest(s) \in P
      BY <1>1, <2>2, RestIsSmaller
    <3> QED
      BY <2>2, <3>1
  <2> QED
    BY <2>1, <2>2
<1> QED
  BY <1>1, SubsetInduction

\* The sums over a smaller domain are the same.
LEMMA SumsAgree ==
    ASSUME NEW f, NEW D, IsFiniteSet(D), NEW C \in SUBSET D, NEW g, NEW h,
           g = Summed(f, D, g), h = Summed(f, C, h)
    PROVE  \A s \in SUBSET C : g[s] = h[s]
<1> DEFINE P == {s \in SUBSET C : g[s] = h[s]}
<1>1. IsFiniteSet(C)
  BY FS_Subset
<1>2. \A s \in SUBSET C : /\ g[s] = IF s = {} THEN 0 ELSE f[Pick(s)] + g[Rest(s)]
                          /\ h[s] = IF s = {} THEN 0 ELSE f[Pick(s)] + h[Rest(s)]
  <2>1. \A s \in SUBSET C : s \in SUBSET D
    OBVIOUS
  <2>2. \A s \in SUBSET D : Summed(f, D, g)[s] = IF s = {} THEN 0 ELSE f[Pick(s)] + g[Rest(s)]
    BY DEF Summed
  <2>3. \A s \in SUBSET C : Summed(f, C, h)[s] = IF s = {} THEN 0 ELSE f[Pick(s)] + h[Rest(s)]
    BY DEF Summed
  <2> QED
    BY <2>1, <2>2, <2>3
<1>3. {} \in P
  BY <1>2
<1>4. \A s \in SUBSET C : s # {} /\ Rest(s) \in P => s \in P
  BY <1>2
<1>5. \A s \in SUBSET C : s \in P
  <2> HIDE DEF P
  <2> QED
    BY <1>1, <1>3, <1>4, PickInduction
<1> QED
  BY <1>5

\* The sums exist: those over D take the sums over the rest of each subset.
LEMMA SumsExist ==
    ASSUME NEW f, NEW D, IsFiniteSet(D)
    PROVE  Sums(f, D) = Summed(f, D, Sums(f, D))
<1> DEFINE P == {C \in SUBSET D : Sums(f, C) = Summed(f, C, Sums(f, C))}
<1>1. ASSUME NEW C \in SUBSET D, \A B \in SUBSET C : B # C => B \in P
      PROVE  C \in P
  <2> DEFINE h == [s \in SUBSET C |-> IF s = {} THEN 0 ELSE f[Pick(s)] + Sums(f, Rest(s))[Rest(s)]]
  <2>1. \A s \in SUBSET C : s # {} => /\ Rest(s) \in SUBSET C
                                      /\ IsFiniteSet(Rest(s))
                                      /\ Sums(f, Rest(s)) = Summed(f, Rest(s), Sums(f, Rest(s)))
    <3> SUFFICES ASSUME NEW s \in SUBSET C, s # {}
                 PROVE  /\ Rest(s) \in SUBSET C
                        /\ IsFiniteSet(Rest(s))
                        /\ Sums(f, Rest(s)) = Summed(f, Rest(s), Sums(f, Rest(s)))
      OBVIOUS
    <3>1. Rest(s) \in SUBSET C /\ Rest(s) \in SUBSET D /\ Rest(s) # C
      BY RestIsSmaller
    <3>2. IsFiniteSet(Rest(s))
      BY <3>1, FS_Subset
    <3> QED
      BY <1>1, <3>1, <3>2
  <2>2. ASSUME NEW s \in SUBSET C, s # {}
        PROVE  h[Rest(s)] = Sums(f, Rest(s))[Rest(s)]
    <3> DEFINE t == Rest(s)
    <3>1. t \in SUBSET C /\ IsFiniteSet(t) /\ Sums(f, t) = Summed(f, t, Sums(f, t))
      BY <2>1, <2>2
    <3>2. Sums(f, t)[t] = IF t = {} THEN 0 ELSE f[Pick(t)] + Sums(f, t)[Rest(t)]
      <4>1. Summed(f, t, Sums(f, t))[t] = IF t = {} THEN 0 ELSE f[Pick(t)] + Sums(f, t)[Rest(t)]
        <5> HIDE DEF t
        <5> QED
          BY DEF Summed
      <4> QED
        BY <3>1, <4>1, Zenon
    <3>3. h[t] = IF t = {} THEN 0 ELSE f[Pick(t)] + Sums(f, Rest(t))[Rest(t)]
      BY <3>1
    <3>4. CASE t = {}
      BY <3>2, <3>3, <3>4
    <3>5. CASE t # {}
      <4> HIDE DEF t, h
      <4>1. Rest(t) \in SUBSET t /\ Sums(f, Rest(t)) = Summed(f, Rest(t), Sums(f, Rest(t)))
        BY <2>1, <3>1, <3>5, RestIsSmaller
      <4>2. \A r \in SUBSET Rest(t) : Sums(f, t)[r] = Sums(f, Rest(t))[r]
        BY <3>1, <4>1, SumsAgree
      <4>3. Sums(f, t)[Rest(t)] = Sums(f, Rest(t))[Rest(t)]
        BY <4>2
      <4>4. h[t] = Sums(f, t)[t]
        BY <3>2, <3>3, <3>5, <4>3
      <4> QED
        BY <4>4 DEF t
    <3> QED
      BY <3>4, <3>5
  <2>3. h = Summed(f, C, h)
    <3>1. h = [s \in SUBSET C |-> IF s = {} THEN 0 ELSE f[Pick(s)] + h[Rest(s)]]
      BY <2>2
    <3> HIDE DEF h
    <3> QED
      BY <3>1 DEF Summed
  <2>4. Sums(f, C) = Summed(f, C, Sums(f, C))
    <3> HIDE DEF h
    <3> QED
      BY <2>3 DEF Sums
  <2> QED
    BY <2>4
<1>2. \A C \in SUBSET D : C \in P
  <2> HIDE DEF P
  <2> QED
    BY <1>1, SubsetInduction
<1> QED
  BY <1>2

LEMMA SumStep ==
    ASSUME NEW f, NEW D, IsFiniteSet(D), NEW s \in SUBSET D
    PROVE  Sums(f, D)[s] = IF s = {} THEN 0 ELSE f[Pick(s)] + Sums(f, D)[Rest(s)]
<1>1. Summed(f, D, Sums(f, D))[s] = IF s = {} THEN 0 ELSE f[Pick(s)] + Sums(f, D)[Rest(s)]
  BY DEF Summed
<1> QED
  BY <1>1, SumsExist, Zenon

\* The sum of integers is an integer.
LEMMA SumType ==
    ASSUME NEW D, IsFiniteSet(D), NEW f \in [D -> Int]
    PROVE  SumFunction(f) \in Int
<1> DEFINE P == {s \in SUBSET D : Sums(f, D)[s] \in Int}
<1>1. {} \in P
  BY SumStep
<1>2. ASSUME NEW s \in SUBSET D, s # {}, Rest(s) \in P
      PROVE  s \in P
  <2>1. f[Pick(s)] \in Int /\ Sums(f, D)[Rest(s)] \in Int
    BY <1>2, RestIsSmaller
  <2>2. Sums(f, D)[s] = f[Pick(s)] + Sums(f, D)[Rest(s)]
    BY <1>2, SumStep
  <2> QED
    BY <2>1, <2>2
<1>3. \A s \in SUBSET D : s \in P
  <2> HIDE DEF P
  <2> QED
    BY <1>1, <1>2, PickInduction
<1> QED
  BY <1>3, SumFunctionIs

\* The sum of zeros is zero.
LEMMA SumOfZeros ==
    ASSUME NEW D, IsFiniteSet(D)
    PROVE  SumFunction([d \in D |-> 0]) = 0
<1> DEFINE f == [d \in D |-> 0]
           P == {s \in SUBSET D : Sums(f, D)[s] = 0}
<1>1. {} \in P
  BY SumStep
<1>2. ASSUME NEW s \in SUBSET D, s # {}, Rest(s) \in P
      PROVE  s \in P
  <2>1. f[Pick(s)] = 0 /\ Sums(f, D)[Rest(s)] = 0
    BY <1>2, RestIsSmaller
  <2>2. Sums(f, D)[s] = f[Pick(s)] + Sums(f, D)[Rest(s)]
    BY <1>2, SumStep
  <2> QED
    BY <2>1, <2>2
<1>3. \A s \in SUBSET D : s \in P
  <2> HIDE DEF P
  <2> QED
    BY <1>1, <1>2, PickInduction
<1>4. DOMAIN f = D
  OBVIOUS
<1> QED
  BY <1>3, <1>4, SumFunctionIs

\* A changed value changes the sum by the difference.
LEMMA SumOfChanged ==
    ASSUME NEW D, IsFiniteSet(D), NEW f \in [D -> Int], NEW d \in D, NEW v \in Int
    PROVE  SumFunction([f EXCEPT ![d] = v]) = SumFunction(f) + (v - f[d])
<1>0. PICK g : g = [f EXCEPT ![d] = v]
  OBVIOUS
<1> DEFINE moved(s) == IF d \in s THEN v - f[d] ELSE 0
           P == {s \in SUBSET D : /\ Sums(f, D)[s] \in Int
                                  /\ Sums(g, D)[s] = Sums(f, D)[s] + moved(s)}
<1>1. {} \in P
  <2>1. {} \in SUBSET D /\ Sums(f, D)[{}] = 0 /\ Sums(g, D)[{}] = 0
    BY SumStep
  <2> QED
    BY <2>1
<1>2. ASSUME NEW s \in SUBSET D, s # {}, Rest(s) \in P
      PROVE  s \in P
  <2>1. /\ Pick(s) \in D /\ f[Pick(s)] \in Int /\ f[d] \in Int
        /\ Sums(f, D)[Rest(s)] \in Int
        /\ Sums(g, D)[Rest(s)] = Sums(f, D)[Rest(s)] + moved(Rest(s))
    BY <1>2, RestIsSmaller
  <2>2. /\ Sums(f, D)[s] = f[Pick(s)] + Sums(f, D)[Rest(s)]
        /\ Sums(g, D)[s] = g[Pick(s)] + Sums(g, D)[Rest(s)]
    BY <1>2, SumStep
  <2>3. CASE d = Pick(s)
    <3>1. d \in s /\ d \notin Rest(s) /\ g[Pick(s)] = v
      BY <1>0, <1>2, <2>3, RestIsSmaller DEF Rest
    <3> QED
      BY <2>1, <2>2, <2>3, <3>1
  <2>4. CASE d # Pick(s)
    <3>1. (d \in s <=> d \in Rest(s)) /\ g[Pick(s)] = f[Pick(s)]
      BY <1>0, <2>1, <2>4 DEF Rest
    <3> QED
      BY <2>1, <2>2, <3>1
  <2> QED
    BY <2>3, <2>4
<1>3. \A s \in SUBSET D : s \in P
  <2> HIDE DEF P
  <2> QED
    BY <1>1, <1>2, PickInduction
<1>4. DOMAIN f = D /\ DOMAIN g = D /\ moved(D) = v - f[d]
  BY <1>0
<1>5. Sums(g, D)[D] = Sums(f, D)[D] + (v - f[d])
  BY <1>3, <1>4
<1> QED
  BY <1>0, <1>4, <1>5, SumFunctionIs
==============================================================================
