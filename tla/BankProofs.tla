----------------------------- MODULE BankProofs -----------------------------
(***************************************************************************)
(* Facts about transfers and keyed stores, for any accounts, denominations *)
(* and values, and about sums over finite sets.                            *)
(***************************************************************************)
EXTENDS Bank, FiniteSetTheorems, TLAPS

\* A covered transfer between two accounts, which may be the same one, leaves
\* every balance a natural number.
LEMMA SendKeepsNat ==
    ASSUME NEW A, NEW D, NEW ledger \in [A -> [D -> Nat]],
           NEW from \in A, NEW to \in A, NEW d \in D, NEW n \in Nat,
           CanSend(ledger, from, d, n)
    PROVE  Send(ledger, from, to, d, n) \in [A -> [D -> Nat]]
  <1> DEFINE debited == [ledger EXCEPT ![from][d] = @ - n]
  <1>1. ledger[from] \in [D -> Nat] /\ ledger[from][d] - n \in Nat
    BY DEF CanSend
  <1>2. [ledger[from] EXCEPT ![d] = @ - n] \in [D -> Nat]
    BY <1>1
  <1>3. debited \in [A -> [D -> Nat]]
    BY <1>2
  <1> HIDE DEF debited
  <1>4. [debited[to] EXCEPT ![d] = @ + n] \in [D -> Nat]
    BY <1>3
  <1>5. [debited EXCEPT ![to][d] = @ + n] \in [A -> [D -> Nat]]
    BY <1>3, <1>4
  <1>6. QED
    BY <1>5 DEF Send, debited

\* What a transfer between two different accounts moves.
LEMMA SendMoves ==
    ASSUME NEW ledger, NEW from \in DOMAIN ledger, NEW to \in DOMAIN ledger, from # to,
           NEW d, NEW n
    PROVE  /\ \A e \in DOMAIN ledger[from] :
                Send(ledger, from, to, d, n)[from][e]
                  = IF e = d THEN ledger[from][e] - n ELSE ledger[from][e]
           /\ \A e \in DOMAIN ledger[to] :
                Send(ledger, from, to, d, n)[to][e]
                  = IF e = d THEN ledger[to][e] + n ELSE ledger[to][e]
  BY DEF Send

\* The product of two natural numbers is one.
LEMMA TimesNat == \A m, n \in Nat : m * n \in Nat
  OBVIOUS

\* Setting a key of a store to a value of its type keeps the type.
LEMMA PutType ==
    ASSUME NEW K, NEW V, NEW store, DOMAIN store \subseteq K,
           store \in [DOMAIN store -> V], NEW k \in K, NEW v \in V
    PROVE  /\ DOMAIN Put(store, k, v) \subseteq K
           /\ Put(store, k, v) \in [DOMAIN Put(store, k, v) -> V]
  BY DEF Put
-----------------------------------------------------------------------------
(***************************************************************************)
(* Sums of natural numbers over a finite set.  The sum of f over S is the  *)
(* number of pairs <<x, i>> with i in 1 .. f[x], so the facts about sums   *)
(* are facts about cardinalities; FoldIsTotal says that this is the number *)
(* that MapThenSumSet computes.                                            *)
(***************************************************************************)
\* Induction over the subsets of a finite set: P holds every subset when it
\* holds a set as soon as it holds what the set is without each of its elements.
LEMMA SubsetInduction ==
    ASSUME NEW S, IsFiniteSet(S), NEW P,
           \A T \in SUBSET S : (\A x \in T : T \ {x} \in P) => T \in P
    PROVE  SUBSET S \subseteq P
  <1> DEFINE Bad == (SUBSET S) \ P
  <1>1. SUFFICES ASSUME Bad # {} PROVE FALSE
    OBVIOUS
  <1>2. IsWellFoundedOn(StrictSubsetOrdering(S), FiniteSubsetsOf(S))
    BY FS_StrictSubsetOrderingWellFounded
  <1>3. Bad \subseteq FiniteSubsetsOf(S)
    BY FS_FiniteSubsetsOfFinite
  <1> HIDE DEF Bad
  <1>4. \E T \in Bad : \A U \in Bad : <<U, T>> \notin StrictSubsetOrdering(S)
    BY <1>1, <1>2, <1>3, WFMin
  <1>5. PICK T \in Bad : \A U \in Bad : <<U, T>> \notin StrictSubsetOrdering(S)
    BY <1>4
  <1>6. T \in SUBSET S /\ T \notin P
    BY DEF Bad
  <1>7. ASSUME NEW x \in T PROVE T \ {x} \in P
    <2>1. T \ {x} \in SUBSET S
      BY <1>6
    <2>2. <<T \ {x}, T>> \in StrictSubsetOrdering(S)
      BY <1>6, <2>1 DEF StrictSubsetOrdering
    <2>3. QED
      BY <1>5, <2>1, <2>2 DEF Bad
  <1>8. QED
    BY <1>6, <1>7

\* As many pairs as the sum of f over S.
Units(f, S) == {u \in S \X Nat : u[2] \in 1 .. f[u[1]]}

Total(f, S) == Cardinality(Units(f, S))

\* The pairs of one element.
LEMMA UnitsOfOne ==
    ASSUME NEW S, NEW f \in [S -> Nat], NEW x \in S
    PROVE  IsFiniteSet(Units(f, {x})) /\ Cardinality(Units(f, {x})) = f[x]
  <1> DEFINE B == 1 .. f[x]
             g == [i \in B |-> <<x, i>>]
             U == Units(f, {x})
  <1>1. IsFiniteSet(B) /\ Cardinality(B) = f[x]
    BY FS_Interval
  <1>2. g \in [B -> U]
    BY DEF Units
  <1>3. \A i, j \in B : g[i] = g[j] => i = j
    OBVIOUS
  <1>4. \A u \in U : \E i \in B : g[i] = u
    <2> TAKE u \in U
    <2>1. u = <<x, u[2]>> /\ u[2] \in B
      BY DEF Units
    <2>2. QED
      BY <2>1
  <1> HIDE DEF B, g, U
  <1>5. ExistsBijection(B, U)
    BY <1>2, <1>3, <1>4 DEF ExistsBijection, Bijection, Injection, Surjection, IsInjective
  <1>6. QED
    BY <1>1, <1>5, FS_Bijection DEF U

LEMMA UnitsSplit ==
    ASSUME NEW f, NEW S, NEW x \in S
    PROVE  /\ Units(f, S) = Units(f, {x}) \cup Units(f, S \ {x})
           /\ Units(f, {x}) \cap Units(f, S \ {x}) = {}
  BY DEF Units

LEMMA UnitsFinite ==
    ASSUME NEW D, NEW f \in [D -> Nat], NEW S \in SUBSET D, IsFiniteSet(S)
    PROVE  IsFiniteSet(Units(f, S))
  <1> DEFINE P == {T \in SUBSET S : IsFiniteSet(Units(f, T))}
  <1>1. ASSUME NEW T \in SUBSET S, \A x \in T : T \ {x} \in P
        PROVE  T \in P
    <2>1. CASE T = {}
      <3>1. Units(f, T) = {}
        BY <2>1 DEF Units
      <3>2. QED
        BY <3>1, FS_EmptySet
    <2>2. CASE T # {}
      <3>1. PICK x \in T : TRUE
        BY <2>2
      <3>2. IsFiniteSet(Units(f, {x}))
        BY UnitsOfOne
      <3>3. IsFiniteSet(Units(f, T \ {x}))
        BY <1>1
      <3>4. Units(f, T) = Units(f, {x}) \cup Units(f, T \ {x})
        BY UnitsSplit
      <3>5. IsFiniteSet(Units(f, {x}) \cup Units(f, T \ {x}))
        BY <3>2, <3>3, FS_Union
      <3>6. QED
        BY <3>4, <3>5
    <2>3. QED
      BY <2>1, <2>2
  <1>2. SUBSET S \subseteq P
    <2> HIDE DEF P
    <2>1. QED
      BY <1>1, SubsetInduction
  <1>3. QED
    BY <1>2

LEMMA TotalSplit ==
    ASSUME NEW D, NEW f \in [D -> Nat], NEW S \in SUBSET D, IsFiniteSet(S),
           NEW x \in S
    PROVE  Total(f, S) = f[x] + Total(f, S \ {x})
  <1>1. IsFiniteSet(Units(f, {x})) /\ Cardinality(Units(f, {x})) = f[x]
    BY UnitsOfOne
  <1>2. IsFiniteSet(Units(f, S \ {x}))
    BY UnitsFinite, FS_RemoveElement
  <1>3. Cardinality(Units(f, S)) =
          f[x] + Cardinality(Units(f, S \ {x})) - Cardinality({})
    BY <1>1, <1>2, UnitsSplit, FS_Union
  <1>4. QED
    BY <1>2, <1>3, FS_EmptySet, FS_CardinalityType DEF Total

LEMMA TotalType ==
    ASSUME NEW D, NEW f \in [D -> Nat], NEW S \in SUBSET D, IsFiniteSet(S)
    PROVE  Total(f, S) \in Nat
  BY UnitsFinite, FS_CardinalityType DEF Total

LEMMA TotalEmpty == ASSUME NEW f PROVE Total(f, {}) = 0
  <1>1. Units(f, {}) = {}
    BY DEF Units
  <1>2. QED
    BY <1>1, FS_EmptySet DEF Total

\* Only the values on S count.
LEMMA TotalSame ==
    ASSUME NEW f, NEW g, NEW S, \A x \in S : f[x] = g[x]
    PROVE  Total(f, S) = Total(g, S)
  <1>1. Units(f, S) = Units(g, S)
    BY DEF Units
  <1>2. QED
    BY <1>1 DEF Total

\* The one equation of the fold, for a function.
FoldStep(f, S, it) ==
    [s \in SUBSET S |->
       IF s = {} THEN 0
       ELSE f[CHOOSE x \in s : TRUE] + it[s \ {CHOOSE x \in s : TRUE}]]

\* The equation has a solution, the partial sums, ...
LEMMA FoldExists ==
    ASSUME NEW S, IsFiniteSet(S), NEW f \in [S -> Nat]
    PROVE  \E it : it = FoldStep(f, S, it)
  <1> DEFINE sums == [s \in SUBSET S |-> Total(f, s)]
  <1>1. ASSUME NEW s \in SUBSET S
        PROVE  Total(f, s) = IF s = {} THEN 0
                 ELSE f[CHOOSE x \in s : TRUE] + sums[s \ {CHOOSE x \in s : TRUE}]
    <2>1. CASE s = {}
      BY <2>1, TotalEmpty
    <2>2. CASE s # {}
      <3> DEFINE x == CHOOSE x \in s : TRUE
      <3>1. x \in s
        BY <2>2
      <3> HIDE DEF x
      <3>2. Total(f, s) = f[x] + Total(f, s \ {x})
        BY <3>1, FS_Subset, TotalSplit
      <3>3. sums[s \ {x}] = Total(f, s \ {x})
        OBVIOUS
      <3>4. QED
        BY <2>2, <3>2, <3>3 DEF x
    <2>3. QED
      BY <2>1, <2>2
  <1>2. sums = FoldStep(f, S, sums)
    BY <1>1 DEF FoldStep
  <1>3. QED
    BY <1>2

\* ... and no other one.
LEMMA FoldIsTotal ==
    ASSUME NEW S, IsFiniteSet(S), NEW f \in [S -> Nat], NEW it,
           it = FoldStep(f, S, it)
    PROVE  it[S] = Total(f, S)
  <1> DEFINE P == {s \in SUBSET S : it[s] = Total(f, s)}
  <1>1. ASSUME NEW s \in SUBSET S, \A x \in s : s \ {x} \in P
        PROVE  s \in P
    <2>1. it[s] = IF s = {} THEN 0
                  ELSE f[CHOOSE x \in s : TRUE] + it[s \ {CHOOSE x \in s : TRUE}]
      BY DEF FoldStep
    <2>2. CASE s = {}
      BY <2>1, <2>2, TotalEmpty
    <2>3. CASE s # {}
      <3> DEFINE x == CHOOSE x \in s : TRUE
      <3>1. x \in s
        BY <2>3
      <3>2. it[s] = f[x] + it[s \ {x}]
        BY <2>1, <2>3
      <3> HIDE DEF x
      <3>3. Total(f, s) = f[x] + Total(f, s \ {x})
        BY <3>1, FS_Subset, TotalSplit
      <3>4. it[s \ {x}] = Total(f, s \ {x})
        BY <1>1, <3>1
      <3>5. QED
        BY <3>2, <3>3, <3>4
    <2>4. QED
      BY <2>2, <2>3
  <1>2. SUBSET S \subseteq P
    <2> HIDE DEF P
    <2>1. QED
      BY <1>1, SubsetInduction
  <1>3. QED
    BY <1>2

\* A part of a set sums to no more than the set.
LEMMA TotalPart ==
    ASSUME NEW D, NEW f \in [D -> Nat], NEW S \in SUBSET D, IsFiniteSet(S),
           NEW T \in SUBSET S
    PROVE  Total(f, T) <= Total(f, S)
  <1>1. IsFiniteSet(Units(f, S))
    BY UnitsFinite
  <1>2. Units(f, T) \in SUBSET Units(f, S)
    BY DEF Units
  <1>3. QED
    BY <1>1, <1>2, FS_Subset DEF Total
=============================================================================
