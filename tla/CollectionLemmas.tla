-------------------------- MODULE CollectionLemmas --------------------------
(***************************************************************************)
(* What the proofs of several components need of finite sets, sequences    *)
(* and sums (SumFunctionOnSet of the community modules): induction over    *)
(* the natural numbers and over finite sets, both stated with a set in the *)
(* place of a predicate; a sequence with an element replaced or appended,  *)
(* and what ListFilter keeps of one; the sum of the empty set, of one more *)
(* element, of equal and of smaller summands.  Then functions defined by   *)
(* recursion, and with them the numerals of Numerals: powers, the digits   *)
(* of a number and the number of some digits, one by one and in groups,    *)
(* and what is computed digit by digit.                                    *)
(***************************************************************************)
EXTENDS Integers, Sequences, FiniteSets, Functions, ListFilter, Numerals,
        FiniteSetTheorems, WellFoundedInduction, TLAPS

(* Sequences.                                                              *)

LEMMA SeqElement == ASSUME NEW S, NEW s \in Seq(S), NEW i \in DOMAIN s PROVE s[i] \in S
OBVIOUS

LEMMA SeqFunction ==
    ASSUME NEW S, NEW s \in Seq(S), NEW n \in Nat, Len(s) = n PROVE s \in [1..n -> S]
OBVIOUS

LEMMA SeqReplace ==
    ASSUME NEW S, NEW s \in Seq(S), NEW i \in DOMAIN s, NEW e \in S
    PROVE  /\ [s EXCEPT ![i] = e] \in Seq(S)
           /\ DOMAIN [s EXCEPT ![i] = e] = DOMAIN s
           /\ Len([s EXCEPT ![i] = e]) = Len(s)
           /\ [s EXCEPT ![i] = e][i] = e
           /\ \A j \in DOMAIN s \ {i} : [s EXCEPT ![i] = e][j] = s[j]
OBVIOUS

LEMMA SeqAppend ==
    ASSUME NEW S, NEW s \in Seq(S), NEW e \in S
    PROVE  /\ Append(s, e) \in Seq(S)
           /\ Len(s) \in Nat /\ DOMAIN s = 1..Len(s)
           /\ Len(Append(s, e)) = Len(s) + 1
           /\ DOMAIN Append(s, e) = 1..(Len(s) + 1)
           /\ Append(s, e)[Len(s) + 1] = e
           /\ \A j \in DOMAIN s : Append(s, e)[j] = s[j]
OBVIOUS

-----------------------------------------------------------------------------
(* Induction.                                                              *)

\* A set that has 0 and with each number the next has all natural numbers.
LEMMA NatInduct ==
    ASSUME NEW T, 0 \in T, \A n \in Nat : n \in T => n + 1 \in T
    PROVE  Nat \subseteq T
<1> DEFINE Missing == Nat \ T
           R == {nn \in Nat \X Nat : nn[1] < nn[2]}
<1>0. IsWellFoundedOn(R, Nat)
  BY NatLessThanWellFounded DEF OpToRel
<1> SUFFICES ASSUME Missing # {} PROVE FALSE
  OBVIOUS
<1>1. \E x \in Missing : \A y \in Missing : ~ (<<y, x>> \in R)
  <2> HIDE DEF R
  <2> QED
    BY <1>0, WFMin
<1>2. PICK x \in Missing : \A y \in Missing : ~ (<<y, x>> \in R)
  BY <1>1
<1>3. x # 0 /\ x - 1 \in Nat /\ x - 1 < x
  OBVIOUS
<1>4. x - 1 \in Missing
  BY <1>3
<1>5. <<x - 1, x>> \in R
  BY <1>3, <1>4
<1> QED
  BY <1>2, <1>4, <1>5

LEMMA OneLess ==
    ASSUME NEW S, IsFiniteSet(S), NEW x \in S, NEW n \in Nat, Cardinality(S) = n + 1
    PROVE  Cardinality(S \ {x}) = n
<1>1. Cardinality(S \ {x}) = Cardinality(S) - 1
  BY FS_RemoveElement
<1> QED
  BY <1>1

\* A set that has {} and with each set that set with one more element of U has all
\* subsets of a finite U.
LEMMA SubsetInduct ==
    ASSUME NEW U, IsFiniteSet(U), NEW T, {} \in T,
           \A S \in SUBSET U : \A x \in U \ S : S \in T => S \cup {x} \in T
    PROVE  SUBSET U \subseteq T
<1> DEFINE C == {n \in Nat : \A S \in SUBSET U : Cardinality(S) = n => S \in T}
<1>1. \A S \in SUBSET U : IsFiniteSet(S) /\ Cardinality(S) \in Nat
  BY FS_Subset, FS_CardinalityType
<1>2. 0 \in C
  BY <1>1, FS_EmptySet
<1>3. ASSUME NEW n \in Nat, n \in C PROVE n + 1 \in C
  <2> SUFFICES ASSUME NEW S \in SUBSET U, Cardinality(S) = n + 1 PROVE S \in T
    OBVIOUS
  <2>1. S # {}
    BY FS_EmptySet
  <2>2. PICK x : x \in S
    BY <2>1
  <2>3. Cardinality(S \ {x}) = n
    BY <1>1, <2>2, OneLess
  <2>4. S \ {x} \in T
    BY <1>3, <2>3
  <2>5. (S \ {x}) \cup {x} \in T
    BY <2>2, <2>4
  <2>6. (S \ {x}) \cup {x} = S
    BY <2>2
  <2> QED
    BY <2>5, <2>6
<1>4. Nat \subseteq C
  <2> HIDE DEF C
  <2> QED
    BY <1>2, <1>3, NatInduct
<1> QED
  BY <1>1, <1>4

-----------------------------------------------------------------------------
(* The recursive function behind a sum.                                    *)

Pick(S) == CHOOSE x \in S : TRUE

\* What the partial sums over the subsets of a set satisfy.
PartialSums(it, f, S) ==
    /\ it \in [SUBSET S -> Int]
    /\ \A s \in SUBSET S : it[s] = IF s = {} THEN 0 ELSE f[Pick(s)] + it[s \ {Pick(s)}]

Iter(f, S) ==
    CHOOSE it : it = [s \in SUBSET S |->
        IF s = {} THEN 0
        ELSE f[CHOOSE x \in s : TRUE] + it[s \ {CHOOSE x \in s : TRUE}]]

LEMMA SumIsIter == ASSUME NEW f, NEW S PROVE SumFunctionOnSet(f, S) = Iter(f, S)[S]
BY DEF SumFunctionOnSet, FoldFunctionOnSet, MapThenFoldSet, Iter

LEMMA Picked == ASSUME NEW S, S # {} PROVE Pick(S) \in S
BY DEF Pick

LEMMA PartialSumsExist ==
    ASSUME NEW S, IsFiniteSet(S), NEW f, \A x \in S : f[x] \in Int
    PROVE  \E it : PartialSums(it, f, S)
<1> DEFINE Upto(it, n) ==
             \A s \in SUBSET S : Cardinality(s) <= n
               => it[s] = IF s = {} THEN 0 ELSE f[Pick(s)] + it[s \ {Pick(s)}]
           C == {n \in Nat : \E it \in [SUBSET S -> Int] : Upto(it, n)}
<1>1. \A s \in SUBSET S : IsFiniteSet(s) /\ Cardinality(s) \in Nat
                          /\ Cardinality(s) <= Cardinality(S)
  BY FS_Subset, FS_CardinalityType
<1>2. 0 \in C
  <2> DEFINE zero == [s \in SUBSET S |-> 0]
  <2>1. \A s \in SUBSET S : Cardinality(s) <= 0 => s = {} /\ zero[s] = 0
    BY <1>1, FS_EmptySet
  <2>2. Upto(zero, 0) /\ zero \in [SUBSET S -> Int]
    BY <2>1
  <2> QED
    BY <2>2
<1>3. ASSUME NEW n \in Nat, n \in C PROVE n + 1 \in C
  <2>1. PICK it \in [SUBSET S -> Int] : Upto(it, n)
    BY <1>3
  <2> DEFINE next == [s \in SUBSET S |-> IF s = {} THEN 0 ELSE f[Pick(s)] + it[s \ {Pick(s)}]]
  <2>2. next \in [SUBSET S -> Int]
    <3>1. ASSUME NEW s \in SUBSET S, s # {} PROVE f[Pick(s)] + it[s \ {Pick(s)}] \in Int
      BY <3>1, Picked
    <3> QED
      BY <3>1
  <2>3. Upto(next, n + 1)
    <3> SUFFICES ASSUME NEW s \in SUBSET S, Cardinality(s) <= n + 1
                 PROVE  next[s] = IF s = {} THEN 0 ELSE f[Pick(s)] + next[s \ {Pick(s)}]
      OBVIOUS
    <3>1. CASE s = {}
      BY <3>1
    <3>2. CASE s # {}
      <4> DEFINE t == s \ {Pick(s)}
      <4>1. t \in SUBSET S /\ Pick(s) \in s
        BY <3>2, Picked
      <4>2. Cardinality(t) <= n
        BY <1>1, <4>1, FS_RemoveElement
      <4>3. it[t] = IF t = {} THEN 0 ELSE f[Pick(t)] + it[t \ {Pick(t)}]
        BY <2>1, <4>1, <4>2
      <4>4. next[t] = it[t]
        BY <4>1, <4>3
      <4> QED
        BY <3>2, <4>4
    <3> QED
      BY <3>1, <3>2
  <2> HIDE DEF next, Upto
  <2> QED
    BY <2>2, <2>3
<1>4. Nat \subseteq C
  <2> HIDE DEF C
  <2> QED
    BY <1>2, <1>3, NatInduct
<1>5. Cardinality(S) \in C
  BY <1>1, <1>4
<1>6. PICK it \in [SUBSET S -> Int] : Upto(it, Cardinality(S))
  BY <1>5
<1>7. PartialSums(it, f, S)
  BY <1>1, <1>6 DEF PartialSums
<1> QED
  BY <1>7

\* On the sets that both know, two functions of partial sums agree.
LEMMA PartialSumsAgree ==
    ASSUME NEW S, NEW R, NEW f, NEW g, NEW it, NEW jt, PartialSums(it, f, S), PartialSums(jt, g, R),
           NEW U \in SUBSET (S \cap R), IsFiniteSet(U), \A x \in U : f[x] = g[x]
    PROVE  it[U] = jt[U]
<1> DEFINE C == {n \in Nat : \A s \in SUBSET U : Cardinality(s) = n => it[s] = jt[s]}
<1>1. \A s \in SUBSET U : IsFiniteSet(s) /\ Cardinality(s) \in Nat
  BY FS_Subset, FS_CardinalityType
<1>2. 0 \in C
  BY <1>1, FS_EmptySet DEF PartialSums
<1>3. ASSUME NEW n \in Nat, n \in C PROVE n + 1 \in C
  <2> SUFFICES ASSUME NEW s \in SUBSET U, Cardinality(s) = n + 1 PROVE it[s] = jt[s]
    OBVIOUS
  <2>1. s # {} /\ Pick(s) \in s
    BY FS_EmptySet, Picked
  <2>2. Cardinality(s \ {Pick(s)}) = n /\ s \ {Pick(s)} \in SUBSET U
    BY <1>1, <2>1, OneLess
  <2>3. it[s \ {Pick(s)}] = jt[s \ {Pick(s)}]
    BY <1>3, <2>2
  <2>4. f[Pick(s)] = g[Pick(s)]
    BY <2>1
  <2>5. /\ it[s] = f[Pick(s)] + it[s \ {Pick(s)}]
        /\ jt[s] = g[Pick(s)] + jt[s \ {Pick(s)}]
    BY <2>1 DEF PartialSums
  <2> QED
    BY <2>3, <2>4, <2>5
<1>4. Nat \subseteq C
  <2> HIDE DEF C
  <2> QED
    BY <1>2, <1>3, NatInduct
<1> QED
  BY <1>1, <1>4

LEMMA IterIsPartialSums ==
    ASSUME NEW S, IsFiniteSet(S), NEW f, \A x \in S : f[x] \in Int
    PROVE  PartialSums(Iter(f, S), f, S)
<1>1. PICK it : PartialSums(it, f, S)
  BY PartialSumsExist
<1>2. it = [s \in SUBSET S |->
              IF s = {} THEN 0
              ELSE f[CHOOSE x \in s : TRUE] + it[s \ {CHOOSE x \in s : TRUE}]]
  BY <1>1 DEF PartialSums, Pick
<1>3. Iter(f, S) = [s \in SUBSET S |->
              IF s = {} THEN 0
              ELSE f[CHOOSE x \in s : TRUE] + Iter(f, S)[s \ {CHOOSE x \in s : TRUE}]]
  BY <1>2 DEF Iter
<1> DEFINE jt == Iter(f, S)
<1>4. jt = [s \in SUBSET S |-> IF s = {} THEN 0 ELSE f[Pick(s)] + jt[s \ {Pick(s)}]]
  BY <1>3 DEF Pick
<1> HIDE DEF jt
<1> DEFINE C == {s \in SUBSET S : jt[s] \in Int}
<1>5. SUBSET S \subseteq C
  <2> DEFINE D == {n \in Nat : \A s \in SUBSET S : Cardinality(s) = n => jt[s] \in Int}
  <2>1. \A s \in SUBSET S : IsFiniteSet(s) /\ Cardinality(s) \in Nat
    BY FS_Subset, FS_CardinalityType
  <2>2. 0 \in D
    BY <1>4, <2>1, FS_EmptySet
  <2>3. ASSUME NEW n \in Nat, n \in D PROVE n + 1 \in D
    <3> SUFFICES ASSUME NEW s \in SUBSET S, Cardinality(s) = n + 1 PROVE jt[s] \in Int
      OBVIOUS
    <3>1. s # {} /\ Pick(s) \in s
      BY FS_EmptySet, Picked
    <3>2. Cardinality(s \ {Pick(s)}) = n /\ s \ {Pick(s)} \in SUBSET S
      BY <2>1, <3>1, OneLess
    <3>3. jt[s \ {Pick(s)}] \in Int /\ f[Pick(s)] \in Int
      BY <2>3, <3>1, <3>2
    <3>4. jt[s] = f[Pick(s)] + jt[s \ {Pick(s)}]
      BY <1>4, <3>1
    <3> QED
      BY <3>3, <3>4
  <2>4. Nat \subseteq D
    <3> HIDE DEF D
    <3> QED
      BY <2>2, <2>3, NatInduct
  <2> QED
    BY <2>1, <2>4
<1>6. PartialSums(jt, f, S)
  <2>1. jt \in [SUBSET S -> Int]
    BY <1>4, <1>5
  <2>2. \A s \in SUBSET S : jt[s] = IF s = {} THEN 0 ELSE f[Pick(s)] + jt[s \ {Pick(s)}]
    BY <1>4
  <2> QED
    BY <2>1, <2>2 DEF PartialSums
<1> QED
  BY <1>6 DEF jt

-----------------------------------------------------------------------------
(* Sums.                                                                   *)

\* A sum of integers is one; there is nothing in the empty sum.
LEMMA SumType ==
    ASSUME NEW S, IsFiniteSet(S), NEW f, \A x \in S : f[x] \in Int
    PROVE  SumFunctionOnSet(f, S) \in Int
<1>1. Iter(f, S) \in [SUBSET S -> Int] /\ S \in SUBSET S
  BY IterIsPartialSums DEF PartialSums
<1> QED
  BY <1>1, SumIsIter

LEMMA SumEmpty == ASSUME NEW f PROVE SumFunctionOnSet(f, {}) = 0
BY IterIsPartialSums, SumIsIter, FS_EmptySet DEF PartialSums

\* Equal summands have equal sums.
LEMMA SumSame ==
    ASSUME NEW S, IsFiniteSet(S), NEW f, NEW g, \A x \in S : f[x] \in Int /\ g[x] = f[x]
    PROVE  SumFunctionOnSet(f, S) = SumFunctionOnSet(g, S)
<1>1. PartialSums(Iter(f, S), f, S) /\ PartialSums(Iter(g, S), g, S)
  BY IterIsPartialSums
<1>2. Iter(f, S)[S] = Iter(g, S)[S]
  BY <1>1, PartialSumsAgree
<1> QED
  BY <1>2, SumIsIter

\* The element that is picked first.
LEMMA SumPicked ==
    ASSUME NEW S, IsFiniteSet(S), S # {}, NEW f, \A x \in S : f[x] \in Int
    PROVE  /\ Pick(S) \in S
           /\ SumFunctionOnSet(f, S) = f[Pick(S)] + SumFunctionOnSet(f, S \ {Pick(S)})
<1> DEFINE R == S \ {Pick(S)}
<1>1. Pick(S) \in S /\ R \subseteq S /\ IsFiniteSet(R)
  BY Picked, FS_Subset
<1>2. PartialSums(Iter(f, S), f, S) /\ PartialSums(Iter(f, R), f, R)
  BY <1>1, IterIsPartialSums
<1>3. Iter(f, S)[R] = Iter(f, R)[R]
  BY <1>1, <1>2, PartialSumsAgree
<1>4. Iter(f, S)[S] = f[Pick(S)] + Iter(f, S)[R]
  BY <1>2 DEF PartialSums
<1> QED
  BY <1>1, <1>3, <1>4, SumIsIter

\* The sum of a set is that without an element of it, and the element's summand.
LEMMA SumRemove ==
    ASSUME NEW S, IsFiniteSet(S), NEW f, \A x \in S : f[x] \in Int, NEW x \in S
    PROVE  SumFunctionOnSet(f, S) = f[x] + SumFunctionOnSet(f, S \ {x})
<1> DEFINE Sum(s) == SumFunctionOnSet(f, s)
           C == {n \in Nat : \A s \in SUBSET S : Cardinality(s) = n
                               => \A y \in s : Sum(s) = f[y] + Sum(s \ {y})}
<1>1. \A s \in SUBSET S : IsFiniteSet(s) /\ Cardinality(s) \in Nat /\ Sum(s) \in Int
  BY FS_Subset, FS_CardinalityType, SumType
<1> HIDE DEF Sum
<1>2. 0 \in C
  BY <1>1, FS_EmptySet
<1>3. ASSUME NEW n \in Nat, n \in C PROVE n + 1 \in C
  <2> SUFFICES ASSUME NEW s \in SUBSET S, Cardinality(s) = n + 1, NEW y \in s
               PROVE  Sum(s) = f[y] + Sum(s \ {y})
    OBVIOUS
  <2> DEFINE p == Pick(s)
  <2>1. p \in s /\ Sum(s) = f[p] + Sum(s \ {p})
    BY <1>1, SumPicked DEF Sum
  <2> HIDE DEF p
  <2>2. CASE y = p
    BY <2>1, <2>2
  <2>3. CASE y # p
    <3>1. Cardinality(s \ {p}) = n /\ Cardinality(s \ {y}) = n
      BY <1>1, <2>1, OneLess
    <3>2. Sum(s \ {p}) = f[y] + Sum((s \ {p}) \ {y})
      BY <1>3, <2>3, <3>1
    <3>3. Sum(s \ {y}) = f[p] + Sum((s \ {y}) \ {p})
      BY <1>3, <2>1, <2>3, <3>1
    <3>4. (s \ {p}) \ {y} = (s \ {y}) \ {p}
      OBVIOUS
    <3>5. f[p] \in Int /\ f[y] \in Int /\ Sum((s \ {y}) \ {p}) \in Int
      BY <1>1, <2>1
    <3>6. Sum(s \ {p}) = f[y] + Sum((s \ {y}) \ {p})
      BY <3>2, <3>4
    <3> QED
      BY <2>1, <3>3, <3>5, <3>6
  <2> QED
    BY <2>2, <2>3
<1>4. Nat \subseteq C
  <2> HIDE DEF C
  <2> QED
    BY <1>2, <1>3, NatInduct
<1> QED
  BY <1>1, <1>4 DEF Sum

LEMMA SumAdd ==
    ASSUME NEW S, IsFiniteSet(S), NEW f, NEW x, x \notin S,
           \A y \in S \cup {x} : f[y] \in Int
    PROVE  SumFunctionOnSet(f, S \cup {x}) = f[x] + SumFunctionOnSet(f, S)
<1>1. IsFiniteSet(S \cup {x}) /\ (S \cup {x}) \ {x} = S
  BY FS_AddElement
<1> QED
  BY <1>1, SumRemove

\* Smaller summands have a smaller sum.
LEMMA SumLeq ==
    ASSUME NEW S, IsFiniteSet(S), NEW f, NEW g,
           \A x \in S : f[x] \in Int /\ g[x] \in Int /\ f[x] <= g[x]
    PROVE  SumFunctionOnSet(f, S) <= SumFunctionOnSet(g, S)
<1> DEFINE T == {s \in SUBSET S : SumFunctionOnSet(f, s) <= SumFunctionOnSet(g, s)}
<1>1. {} \in T
  BY SumEmpty
<1>2. ASSUME NEW s \in SUBSET S, NEW x \in S \ s, s \in T PROVE s \cup {x} \in T
  <2>1. IsFiniteSet(s) /\ SumFunctionOnSet(f, s) \in Int /\ SumFunctionOnSet(g, s) \in Int
    BY FS_Subset, SumType
  <2>2. /\ SumFunctionOnSet(f, s \cup {x}) = f[x] + SumFunctionOnSet(f, s)
        /\ SumFunctionOnSet(g, s \cup {x}) = g[x] + SumFunctionOnSet(g, s)
    BY <2>1, SumAdd
  <2> QED
    BY <1>2, <2>1, <2>2
<1>3. SUBSET S \subseteq T
  <2> HIDE DEF T
  <2> QED
    BY <1>1, <1>2, SubsetInduct
<1> QED
  BY <1>3

\* What is nowhere below nothing has no sum below nothing.
LEMMA SumAtLeastZero ==
    ASSUME NEW S, IsFiniteSet(S), NEW f, \A x \in S : f[x] \in Int /\ f[x] >= 0
    PROVE  SumFunctionOnSet(f, S) >= 0
<1> DEFINE T == {s \in SUBSET S : SumFunctionOnSet(f, s) >= 0}
<1>1. {} \in T
  BY SumEmpty
<1>2. ASSUME NEW s \in SUBSET S, NEW x \in S \ s, s \in T PROVE s \cup {x} \in T
  <2>1. IsFiniteSet(s) /\ SumFunctionOnSet(f, s) \in Int
    BY FS_Subset, SumType
  <2>2. SumFunctionOnSet(f, s \cup {x}) = f[x] + SumFunctionOnSet(f, s)
    BY <2>1, SumAdd
  <2> QED
    BY <1>2, <2>1, <2>2
<1>3. SUBSET S \subseteq T
  <2> HIDE DEF T
  <2> QED
    BY <1>1, <1>2, SubsetInduct
<1> QED
  BY <1>3

-----------------------------------------------------------------------------
(* Filtered lists.                                                         *)

\* What a loop has kept after each of its rounds.
Rounds(kept, list, wanted) ==
    /\ kept = [n \in 0..Len(list) |-> kept[n]]
    /\ kept[0] = <<>>
    /\ \A n \in 1..Len(list) :
         kept[n] = IF list[n] \in wanted THEN Append(kept[n - 1], list[n]) ELSE kept[n - 1]

LEMMA RoundsExist ==
    ASSUME NEW E, NEW list \in Seq(E), NEW wanted
    PROVE  \E kept : Rounds(kept, list, wanted)
<1> DEFINE Upto(kept, m) ==
             /\ kept[0] = <<>>
             /\ \A n \in 1..m : kept[n] = IF list[n] \in wanted THEN Append(kept[n - 1], list[n])
                                          ELSE kept[n - 1]
           C == {m \in Nat : \E kept : /\ kept = [n \in 0..Len(list) |-> kept[n]]
                                    /\ Upto(kept, m)}
           C2 == {m \in Nat : m <= Len(list) => m \in C}
<1>0. Len(list) \in Nat
  OBVIOUS
<1>1. 0 \in C2
  <2> DEFINE none == [n \in 0..Len(list) |-> <<>>]
  <2>1. none = [n \in 0..Len(list) |-> none[n]] /\ Upto(none, 0)
    BY <1>0
  <2> QED
    BY <2>1
<1>2. ASSUME NEW m \in Nat, m \in C2 PROVE m + 1 \in C2
  <2> SUFFICES ASSUME m + 1 <= Len(list) PROVE m + 1 \in C
    OBVIOUS
  <2>1. m \in C
    BY <1>0, <1>2
  <2>2. PICK kept : kept = [n \in 0..Len(list) |-> kept[n]] /\ Upto(kept, m)
    BY <2>1
  <2> DEFINE e == IF list[m + 1] \in wanted THEN Append(kept[m], list[m + 1]) ELSE kept[m]
             next == [n \in 0..Len(list) |-> IF n = m + 1 THEN e ELSE kept[n]]
  <2>3. next = [n \in 0..Len(list) |-> next[n]] /\ next[m + 1] = e
        /\ \A n \in 0..m : next[n] = kept[n]
    BY <1>0
  <2> HIDE DEF next
  <2>3a. m \in 0..m /\ (m + 1) - 1 = m
         /\ \A n \in 1..m : n \in 0..m /\ n - 1 \in 0..m
    OBVIOUS
  <2>4. ASSUME NEW n \in 1..(m + 1)
        PROVE  next[n] = IF list[n] \in wanted THEN Append(next[n - 1], list[n]) ELSE next[n - 1]
    <3>1. CASE n = m + 1
      <4>1. next[m] = kept[m] /\ n - 1 = m
        BY <2>3, <2>3a, <3>1
      <4> QED
        BY <2>3, <3>1, <4>1
    <3>2. CASE n \in 1..m
      <4>1. next[n] = kept[n] /\ next[n - 1] = kept[n - 1]
        BY <2>3, <2>3a, <3>2
      <4> QED
        BY <2>2, <3>2, <4>1
    <3> QED
      BY <3>1, <3>2
  <2>5. Upto(next, m + 1)
    <3>1. next[0] = <<>>
      <4>1. 0 \in 0..m
        OBVIOUS
      <4> QED
        BY <2>2, <2>3, <4>1
    <3> QED
      BY <2>4, <3>1
  <2> HIDE DEF Upto
  <2> QED
    BY <2>3, <2>5
<1>3. Nat \subseteq C2
  <2> HIDE DEF C2
  <2> QED
    BY <1>1, <1>2, NatInduct
<1>4. Len(list) \in C
  BY <1>0, <1>3
<1> QED
  BY <1>4 DEF Rounds

LEMMA FilteredIsLast ==
    ASSUME NEW E, NEW list \in Seq(E), NEW wanted
    PROVE  \E kept : Rounds(kept, list, wanted) /\ Filtered(list, wanted) = kept[Len(list)]
<1> DEFINE Is(k) == k = [n \in 0..Len(list) |->
                      IF n = 0 THEN <<>>
                      ELSE IF list[n] \in wanted THEN Append(k[n - 1], list[n])
                      ELSE k[n - 1]]
           kept == CHOOSE k : Is(k)
<1>1. PICK k : Rounds(k, list, wanted)
  BY RoundsExist
<1>2. \A n \in 1..Len(list) : n # 0 /\ n \in 0..Len(list)
  OBVIOUS
<1>3. Is(k)
  BY <1>1, <1>2 DEF Rounds
<1>4. Is(kept)
  <2> HIDE DEF Is
  <2> QED
    BY <1>3
<1>5. Filtered(list, wanted) = kept[Len(list)]
  BY DEF Filtered
<1> HIDE DEF kept
<1>6. Rounds(kept, list, wanted)
  <2>1. kept = [n \in 0..Len(list) |->
                  IF n = 0 THEN <<>>
                  ELSE IF list[n] \in wanted THEN Append(kept[n - 1], list[n])
                  ELSE kept[n - 1]]
    BY <1>4
  <2>2. DOMAIN kept = 0..Len(list)
    BY <2>1
  <2>3. kept = [n \in 0..Len(list) |-> kept[n]]
    BY <2>1, <2>2
  <2>4. kept[0] = <<>>
    <3>1. 0 \in 0..Len(list)
      OBVIOUS
    <3> QED
      BY <2>1, <3>1
  <2>5. ASSUME NEW n \in 1..Len(list)
        PROVE  kept[n] = IF list[n] \in wanted THEN Append(kept[n - 1], list[n])
                         ELSE kept[n - 1]
    BY <1>2, <2>1
  <2> QED
    BY <2>3, <2>4, <2>5 DEF Rounds
<1> QED
  BY <1>5, <1>6

\* What is kept of a list is the elements of it that are wanted, each as often as it is
\* in the list.
LEMMA FilteredElements ==
    ASSUME NEW E, NEW list \in Seq(E), NEW wanted
    PROVE  /\ Filtered(list, wanted) \in Seq(E)
           /\ {Filtered(list, wanted)[i] : i \in DOMAIN Filtered(list, wanted)}
                = {list[i] : i \in DOMAIN list} \cap wanted
           /\ IsInjective(list) => IsInjective(Filtered(list, wanted))
<1>1. PICK kept : Rounds(kept, list, wanted) /\ Filtered(list, wanted) = kept[Len(list)]
  BY FilteredIsLast
<1> DEFINE Good(n) ==
             /\ kept[n] \in Seq(E)
             /\ \A i \in DOMAIN kept[n] : kept[n][i] \in wanted
             /\ \A i \in DOMAIN kept[n] : \E j \in 1..n : kept[n][i] = list[j]
             /\ \A j \in 1..n : list[j] \in wanted => \E i \in DOMAIN kept[n] : kept[n][i] = list[j]
             /\ IsInjective(list) => IsInjective(kept[n])
           C == {n \in Nat : n <= Len(list) => Good(n)}
<1>0. Len(list) \in Nat /\ DOMAIN list = 1..Len(list)
  OBVIOUS
<1>2. 0 \in C
  <2>1. kept[0] = <<>> /\ DOMAIN kept[0] = {} /\ 1..0 = {}
    BY <1>1 DEF Rounds
  <2>2. kept[0] \in Seq(E)
    BY <2>1
  <2> QED
    BY <2>1, <2>2 DEF IsInjective
<1>3. ASSUME NEW n \in Nat, n \in C PROVE n + 1 \in C
  <2> SUFFICES ASSUME n + 1 <= Len(list) PROVE Good(n + 1)
    OBVIOUS
  <2>1. Good(n)
    BY <1>0, <1>3
  <2>2. kept[n + 1] = IF list[n + 1] \in wanted THEN Append(kept[n], list[n + 1]) ELSE kept[n]
    <3>1. n + 1 \in 1..Len(list) /\ (n + 1) - 1 = n
      BY <1>0
    <3>2. kept[n + 1] = IF list[n + 1] \in wanted THEN Append(kept[(n + 1) - 1], list[n + 1])
                        ELSE kept[(n + 1) - 1]
      BY <1>1, <3>1 DEF Rounds
    <3> QED
      BY <3>1, <3>2
  <2>3. list[n + 1] \in E /\ n + 1 \in DOMAIN list
    BY <1>0
  <2>4. CASE list[n + 1] \notin wanted
    <3>1. kept[n + 1] = kept[n]
      BY <2>2, <2>4
    <3>2. \A j \in 1..(n + 1) : list[j] \in wanted => j \in 1..n
      BY <2>4
    <3>3. \A j \in 1..n : j \in 1..(n + 1)
      OBVIOUS
    <3> QED
      BY <2>1, <3>1, <3>2, <3>3
  <2>5. CASE list[n + 1] \in wanted
    <3> DEFINE old == kept[n]
               e == list[n + 1]
               len == Len(old)
    <3>1. old \in Seq(E) /\ e \in E
      BY <2>1, <2>3
    <3>2. kept[n + 1] = Append(old, e)
      BY <2>2, <2>5
    <3>o. /\ \A i \in DOMAIN old : old[i] \in wanted
          /\ \A i \in DOMAIN old : \E j \in 1..n : old[i] = list[j]
          /\ \A j \in 1..n : list[j] \in wanted => \E i \in DOMAIN old : old[i] = list[j]
          /\ IsInjective(list) => IsInjective(old)
      BY <2>1
    <3> HIDE DEF old
    <3>3. /\ kept[n + 1] \in Seq(E) /\ len \in Nat /\ DOMAIN old = 1..len
          /\ DOMAIN kept[n + 1] = 1..(len + 1) /\ kept[n + 1][len + 1] = e
          /\ \A i \in DOMAIN old : kept[n + 1][i] = old[i]
      BY <3>1, <3>2, SeqAppend
    <3> HIDE DEF len
    <3>4. \A i \in 1..(len + 1) : i \in 1..len \/ i = len + 1
      BY <3>3
    <3>5. \A j \in 1..(n + 1) : j \in 1..n \/ j = n + 1
      OBVIOUS
    <3>6. /\ \A j \in 1..n : j \in 1..(n + 1) /\ j \in DOMAIN list /\ j # n + 1
          /\ n + 1 \in 1..(n + 1)
          /\ \A i \in 1..len : i \in 1..(len + 1)
          /\ len + 1 \in 1..(len + 1)
      BY <1>0, <3>3
    <3> DEFINE new == kept[n + 1]
    <3> HIDE DEF new
    <3>n. DOMAIN new = 1..(len + 1) /\ new[len + 1] = e /\ \A i \in 1..len : new[i] = old[i]
      BY <3>3 DEF new
    <3>7. ASSUME NEW i \in DOMAIN new
          PROVE  new[i] \in wanted /\ \E j \in 1..(n + 1) : new[i] = list[j]
      <4>1. CASE i \in 1..len
        BY <3>n, <3>o, <3>3, <3>6, <4>1
      <4>2. CASE i = len + 1
        BY <2>5, <3>n, <3>6, <4>2
      <4> QED
        BY <3>n, <3>4, <4>1, <4>2
    <3>8. \A j \in 1..(n + 1) : list[j] \in wanted => \E i \in DOMAIN new : new[i] = list[j]
      BY <3>o, <3>3, <3>5, <3>6 DEF new
    <3>9. ASSUME IsInjective(list) PROVE IsInjective(new)
      <4>1. \A i \in 1..len : new[i] # e
        <5> SUFFICES ASSUME NEW i \in 1..len PROVE new[i] # e
          OBVIOUS
        <5>1. PICK j \in 1..n : old[i] = list[j]
          BY <3>o, <3>3
        <5>2. list[j] # list[n + 1]
          BY <2>3, <3>6, <3>9 DEF IsInjective
        <5> QED
          BY <3>n, <5>1, <5>2
      <4>2. IsInjective(old)
        BY <3>9, <3>o
      <4> QED
        BY <3>n, <3>3, <3>4, <4>1, <4>2 DEF IsInjective
    <3> QED
      BY <3>3, <3>7, <3>8, <3>9 DEF new
  <2> QED
    BY <2>4, <2>5
<1>4. Nat \subseteq C
  <2> HIDE DEF C
  <2> QED
    BY <1>2, <1>3, NatInduct
<1>5. Good(Len(list))
  <2> HIDE DEF Good
  <2> QED
    BY <1>0, <1>4
<1> DEFINE result == Filtered(list, wanted)
<1>6. result = kept[Len(list)]
  BY <1>1
<1>7. /\ result \in Seq(E)
      /\ \A i \in DOMAIN result : result[i] \in wanted
      /\ \A i \in DOMAIN result : \E j \in DOMAIN list : result[i] = list[j]
      /\ \A j \in DOMAIN list : list[j] \in wanted => \E i \in DOMAIN result : result[i] = list[j]
      /\ IsInjective(list) => IsInjective(result)
  <2> HIDE DEF result
  <2> QED
    BY <1>0, <1>5, <1>6
<1> HIDE DEF result
<1>8. {result[i] : i \in DOMAIN result} = {list[i] : i \in DOMAIN list} \cap wanted
  BY <1>7
<1> QED
  BY <1>7, <1>8 DEF result

\* Of a list of two, both are wanted if two are kept.
LEMMA FilteredPair ==
    ASSUME NEW a, NEW b, a # b, NEW wanted, Len(Filtered(<<a, b>>, wanted)) >= 2
    PROVE  a \in wanted /\ b \in wanted
<1> DEFINE result == Filtered(<<a, b>>, wanted)
<1>1. <<a, b>> \in Seq({a, b}) /\ IsInjective(<<a, b>>)
      /\ {<<a, b>>[i] : i \in DOMAIN <<a, b>>} = {a, b}
  BY DEF IsInjective
<1>2. /\ result \in Seq({a, b}) /\ IsInjective(result)
      /\ {result[i] : i \in DOMAIN result} = {a, b} \cap wanted
  <2> DEFINE two == <<a, b>>
  <2>1. /\ two \in Seq({a, b}) /\ IsInjective(two)
        /\ {two[i] : i \in DOMAIN two} = {a, b} /\ result = Filtered(two, wanted)
    BY <1>1
  <2> HIDE DEF two, result
  <2> QED
    BY <2>1, FilteredElements
<1> HIDE DEF result
<1>3. 1 \in DOMAIN result /\ 2 \in DOMAIN result
  <2>1. Len(result) >= 2
    BY DEF result
  <2> QED
    BY <1>2, <2>1
<1>4. result[1] # result[2]
  BY <1>2, <1>3 DEF IsInjective
<1> QED
  BY <1>2, <1>3, <1>4

-----------------------------------------------------------------------------
(* Functions defined by recursion over 0..m.                               *)

\* From a start, a step for each further number.
Recurs(f, m, start, step) == f[0] = start /\ \A i \in 1..m : f[i] = step[i][f[i - 1]]

LEMMA RecursionExists ==
    ASSUME NEW m \in Nat, NEW T, NEW start \in T, NEW step \in [1..m -> [T -> T]]
    PROVE  \E f \in [0..m -> T] : Recurs(f, m, start, step)
<1> DEFINE C == {l \in Nat : l <= m =>
                   \E f \in [0..m -> T] :
                     f[0] = start /\ \A i \in 1..l : f[i] = step[i][f[i - 1]]}
<1>1. 0 \in C
  <2> DEFINE f == [i \in 0..m |-> start]
  <2>1. f \in [0..m -> T] /\ f[0] = start /\ 1..0 = {}
    OBVIOUS
  <2> HIDE DEF f
  <2> QED
    BY <2>1
<1>2. ASSUME NEW l \in Nat, l \in C PROVE l + 1 \in C
  <2> SUFFICES ASSUME l + 1 <= m
               PROVE  \E f \in [0..m -> T] :
                        f[0] = start /\ \A i \in 1..l + 1 : f[i] = step[i][f[i - 1]]
    OBVIOUS
  <2>1. PICK f \in [0..m -> T] : f[0] = start /\ \A i \in 1..l : f[i] = step[i][f[i - 1]]
    BY <1>2
  <2> DEFINE g == [f EXCEPT ![l + 1] = step[l + 1][f[l]]]
  <2>2. l \in 0..m /\ l + 1 \in 1..m /\ l + 1 \in 0..m
    OBVIOUS
  <2>3. step[l + 1][f[l]] \in T
    BY <2>2
  <2>4. g \in [0..m -> T] /\ g[l + 1] = step[l + 1][f[l]]
        /\ \A i \in 0..l : g[i] = f[i]
    BY <2>2, <2>3
  <2> HIDE DEF g
  <2>5. ASSUME NEW i \in 1..l + 1 PROVE g[i] = step[i][g[i - 1]]
    <3>1. CASE i = l + 1
      <4>1. i - 1 = l /\ l \in 0..l
        BY <3>1
      <4> QED
        BY <2>4, <3>1, <4>1
    <3>2. CASE i \in 1..l
      <4>1. i \in 0..l /\ i - 1 \in 0..l
        BY <3>2
      <4> QED
        BY <2>1, <2>4, <3>2, <4>1
    <3> QED
      BY <3>1, <3>2
  <2>6. g[0] = start
    BY <2>1, <2>4
  <2> QED
    BY <2>4, <2>5, <2>6
<1>3. Nat \subseteq C
  <2> HIDE DEF C
  <2> QED
    BY <1>1, <1>2, NatInduct
<1>4. m \in C
  BY <1>3
<1> QED
  BY <1>4 DEF Recurs

\* A property of what is reached from the start by steps.
LEMMA CountInduct ==
    ASSUME NEW m \in Nat, NEW T, 0 \in T, \A i \in 1..m : i - 1 \in T => i \in T
    PROVE  0..m \subseteq T
<1> DEFINE C == {l \in Nat : l <= m => l \in T}
<1>1. 0 \in C
  OBVIOUS
<1>2. ASSUME NEW l \in Nat, l \in C PROVE l + 1 \in C
  <2> SUFFICES ASSUME l + 1 <= m PROVE l + 1 \in T
    OBVIOUS
  <2>1. l + 1 \in 1..m /\ (l + 1) - 1 = l /\ l \in T
    BY <1>2
  <2> QED
    BY <2>1
<1>3. Nat \subseteq C
  <2> HIDE DEF C
  <2> QED
    BY <1>1, <1>2, NatInduct
<1> QED
  BY <1>3

-----------------------------------------------------------------------------
(* Multiplication and division.                                            *)

LEMMA TimesNat == ASSUME NEW a \in Nat, NEW b \in Nat PROVE a * b \in Nat
OBVIOUS

LEMMA TimesMonotone ==
    ASSUME NEW a \in Nat, NEW b \in Int, NEW c \in Int, b <= c PROVE b * a <= c * a
<1>1. (c - b) * a \in Nat
  BY TimesNat
<1>2. (c - b) * a = c * a - b * a
  OBVIOUS
<1> QED
  BY <1>1, <1>2

\* What is left over and the quotient are determined.
LEMMA OneQuotient ==
    ASSUME NEW p \in Nat, NEW q \in Int, NEW s \in Int, NEW r \in 0..p - 1, NEW t \in 0..p - 1,
           r + q * p = t + s * p
    PROVE  q = s /\ r = t
<1>1. ASSUME NEW x \in Int, NEW y \in Int, NEW u \in 0..p - 1, NEW v \in 0..p - 1, x < y
      PROVE  u + x * p < v + y * p
  <2>1. (x + 1) * p <= y * p
    BY <1>1, TimesMonotone
  <2>2. (x + 1) * p = x * p + p
    OBVIOUS
  <2>3. x * p \in Int /\ y * p \in Int
    OBVIOUS
  <2> QED
    BY <2>1, <2>2, <2>3
<1>2. q = s
  <2>1. q * p \in Int /\ s * p \in Int
    OBVIOUS
  <2> QED
    BY <1>1, <2>1
<1> QED
  BY <1>2

LEMMA QuotientRest ==
    ASSUME NEW a \in Int, NEW d \in Nat \ {0}
    PROVE  a \div d \in Int /\ a % d \in 0..d - 1 /\ a = (a % d) + (a \div d) * d
OBVIOUS

LEMMA QuotientNat ==
    ASSUME NEW a \in Nat, NEW d \in Nat \ {0} PROVE a \div d \in Nat
OBVIOUS

\* The remainder of a number on division by a square, from its remainders.
LEMMA SquareRest ==
    ASSUME NEW v \in Int, NEW w \in Nat \ {0}
    PROVE  ((v \div w) % w) * w + (v % w) = v % (w * w)
<1> DEFINE q == v \div w
           p == q \div w
           r == v % w
           t == q % w
           u == v \div (w * w)
           z == v % (w * w)
<1>1. q \in Int /\ r \in 0..w - 1 /\ v = r + q * w
  BY QuotientRest
<1>2. p \in Int /\ t \in 0..w - 1 /\ q = t + p * w
  BY <1>1, QuotientRest
<1>3. w * w \in Nat \ {0}
  OBVIOUS
<1>4. u \in Int /\ z \in 0..w * w - 1 /\ v = z + u * (w * w)
  BY <1>3, QuotientRest
<1> HIDE DEF q, p, r, t, u, z
<1>5. r + t * w \in 0..w * w - 1
  <2>1. t * w <= (w - 1) * w
    BY <1>2, TimesMonotone
  <2>2. (w - 1) * w = w * w - w
    OBVIOUS
  <2>3. t * w \in Nat
    BY <1>2
  <2> QED
    BY <1>1, <1>3, <2>1, <2>2, <2>3
<1>6. (r + t * w) + p * (w * w) = z + u * (w * w)
  <2>1. (t + p * w) * w = t * w + p * (w * w)
    BY <1>2
  <2>2. t * w \in Int /\ p * (w * w) \in Int
    BY <1>2, <1>3
  <2> QED
    BY <1>1, <1>2, <1>4, <2>1, <2>2
<1>7. r + t * w = z
  BY <1>2, <1>3, <1>4, <1>5, <1>6, OneQuotient
<1>8. t * w \in Int /\ r \in Int
  BY <1>1, <1>2
<1> QED
  BY <1>7, <1>8 DEF q, r, t, z

-----------------------------------------------------------------------------
(* Powers.                                                                 *)

IsPowers(f, base, m) == f[0] = 1 /\ \A i \in 1..m : f[i] = base * f[i - 1]

LEMMA PowersExist ==
    ASSUME NEW base \in Nat, NEW m \in Nat
    PROVE  \E f \in [0..m -> Nat] : IsPowers(f, base, m) /\ Power(base, m) = f[m]
<1> DEFINE step == [i \in 1..m |-> [x \in Nat |-> base * x]]
           Is(f) == f = [i \in 0..m |-> IF i = 0 THEN 1 ELSE base * f[i - 1]]
           power == CHOOSE f : Is(f)
<1>1. step \in [1..m -> [Nat -> Nat]]
  BY TimesNat
<1>2. PICK g \in [0..m -> Nat] : g[0] = 1 /\ \A i \in 1..m : g[i] = step[i][g[i - 1]]
  <2> DEFINE T == Nat
             one == 1
  <2>1. one \in T /\ step \in [1..m -> [T -> T]]
    BY <1>1
  <2> HIDE DEF step, one, T
  <2>2. \E f \in [0..m -> T] : Recurs(f, m, one, step)
    BY <2>1, RecursionExists
  <2> QED
    BY <2>2 DEF one, T, Recurs
<1>3. \A i \in 1..m : g[i] = base * g[i - 1]
  <2>1. \A i \in 1..m : g[i - 1] \in Nat
    OBVIOUS
  <2> QED
    BY <1>2, <2>1
<1>4. \A i \in 0..m : i = 0 \/ i \in 1..m
  OBVIOUS
<1>5. Is(g)
  BY <1>2, <1>3, <1>4
<1>6. Is(power)
  <2> HIDE DEF Is
  <2> QED
    BY <1>5
<1>7. Power(base, m) = power[m]
  BY DEF Power
<1> HIDE DEF power
<1>8. power[0] = 1 /\ \A i \in 1..m : power[i] = base * power[i - 1]
  <2>1. 0 \in 0..m /\ \A i \in 1..m : i # 0 /\ i \in 0..m
    OBVIOUS
  <2> QED
    BY <1>6, <2>1
<1>9. \A i \in 0..m : power[i] \in Nat
  <2> DEFINE C == {i \in 0..m : power[i] \in Nat}
  <2>1. 0 \in C
    BY <1>8
  <2>2. ASSUME NEW i \in 1..m, i - 1 \in C PROVE i \in C
    BY <1>8, <2>2, TimesNat
  <2>3. 0..m \subseteq C
    <3> HIDE DEF C
    <3> QED
      BY <2>1, <2>2, CountInduct
  <2> QED
    BY <2>3
<1>10. power \in [0..m -> Nat]
  BY <1>6, <1>9
<1> QED
  BY <1>7, <1>8, <1>10 DEF IsPowers

LEMMA PowerAt ==
    ASSUME NEW base \in Nat, NEW m \in Nat, NEW f \in [0..m -> Nat], IsPowers(f, base, m)
    PROVE  \A i \in 0..m : Power(base, i) = f[i]
<1> SUFFICES ASSUME NEW l \in 0..m PROVE Power(base, l) = f[l]
  OBVIOUS
<1>0. l \in Nat /\ 0 \in 0..l /\ \A i \in 1..l : i - 1 \in 0..l /\ i \in 0..l /\ i \in 1..m
  OBVIOUS
<1>1. PICK g \in [0..l -> Nat] : IsPowers(g, base, l) /\ Power(base, l) = g[l]
  BY <1>0, PowersExist
<1> DEFINE C == {i \in 0..l : g[i] = f[i]}
<1>2. 0 \in C
  BY <1>0, <1>1 DEF IsPowers
<1>3. ASSUME NEW i \in 1..l, i - 1 \in C PROVE i \in C
  BY <1>0, <1>1, <1>3 DEF IsPowers
<1>4. 0..l \subseteq C
  <2> HIDE DEF C
  <2> QED
    BY <1>0, <1>2, <1>3, CountInduct
<1> QED
  BY <1>1, <1>4

LEMMA PowerNext ==
    ASSUME NEW base \in Nat
    PROVE  /\ Power(base, 0) = 1
           /\ \A i \in Nat : /\ Power(base, i) \in Nat
                             /\ Power(base, i + 1) = base * Power(base, i)
                             /\ base # 0 => Power(base, i) # 0
<1>1. ASSUME NEW i \in Nat
      PROVE  Power(base, i) \in Nat /\ Power(base, i + 1) = base * Power(base, i)
             /\ Power(base, 0) = 1
  <2>0. i + 1 \in Nat
    OBVIOUS
  <2>1. PICK f \in [0..i + 1 -> Nat] : IsPowers(f, base, i + 1)
    BY <2>0, PowersExist
  <2>2. i \in 0..i + 1 /\ i + 1 \in 0..i + 1 /\ i + 1 \in 1..i + 1 /\ (i + 1) - 1 = i
        /\ 0 \in 0..i + 1
    OBVIOUS
  <2>3. Power(base, i) = f[i] /\ Power(base, i + 1) = f[i + 1] /\ Power(base, 0) = f[0]
    BY <2>0, <2>1, <2>2, PowerAt
  <2> QED
    BY <2>1, <2>2, <2>3 DEF IsPowers
<1>2. ASSUME base # 0 PROVE \A i \in Nat : Power(base, i) # 0
  <2> DEFINE C == {i \in Nat : Power(base, i) # 0}
  <2>1. 0 \in C
    BY <1>1
  <2>2. ASSUME NEW i \in Nat, i \in C PROVE i + 1 \in C
    BY <1>1, <1>2, <2>2
  <2>3. Nat \subseteq C
    <3> HIDE DEF C
    <3> QED
      BY <2>1, <2>2, NatInduct
  <2> QED
    BY <2>3
<1> QED
  BY <1>1, <1>2

LEMMA PowerPlus ==
    ASSUME NEW base \in Nat, NEW i \in Nat, NEW j \in Nat
    PROVE  Power(base, i + j) = Power(base, i) * Power(base, j)
<1> DEFINE C == {l \in Nat : Power(base, i + l) = Power(base, i) * Power(base, l)}
<1>1. 0 \in C
  <2>1. Power(base, i) \in Nat /\ Power(base, 0) = 1 /\ i + 0 = i
    BY PowerNext
  <2> QED
    BY <2>1
<1>2. ASSUME NEW l \in Nat, l \in C PROVE l + 1 \in C
  <2>0. i + l \in Nat /\ i + (l + 1) = (i + l) + 1
    OBVIOUS
  <2>1. /\ Power(base, (i + l) + 1) = base * Power(base, i + l)
        /\ Power(base, l + 1) = base * Power(base, l)
        /\ Power(base, i) \in Nat /\ Power(base, l) \in Nat
    BY <2>0, PowerNext
  <2>2. Power(base, i + l) = Power(base, i) * Power(base, l)
    BY <1>2
  <2>3. \A x, y \in Nat : base * (x * y) = x * (base * y)
    OBVIOUS
  <2> QED
    BY <2>0, <2>1, <2>2, <2>3
<1>3. Nat \subseteq C
  <2> HIDE DEF C
  <2> QED
    BY <1>1, <1>2, NatInduct
<1> QED
  BY <1>3

LEMMA PowerTimes ==
    ASSUME NEW base \in Nat, NEW w \in Nat, NEW i \in Nat
    PROVE  Power(Power(base, w), i) = Power(base, w * i)
<1> DEFINE B == Power(base, w)
           C == {l \in Nat : Power(B, l) = Power(base, w * l)}
<1>0. B \in Nat
  BY PowerNext
<1>1. 0 \in C
  <2>1. w * 0 = 0
    OBVIOUS
  <2> HIDE DEF B
  <2> QED
    BY <1>0, <2>1, PowerNext
<1>2. ASSUME NEW l \in Nat, l \in C PROVE l + 1 \in C
  <2>1. w * (l + 1) = w + w * l /\ w * l \in Nat
    OBVIOUS
  <2>2. Power(base, w + w * l) = B * Power(base, w * l)
    BY <2>1, PowerPlus
  <2> HIDE DEF B
  <2> QED
    BY <1>0, <1>2, <2>1, <2>2, PowerNext
<1>3. Nat \subseteq C
  <2> HIDE DEF C
  <2> QED
    BY <1>1, <1>2, NatInduct
<1> QED
  BY <1>3 DEF B

-----------------------------------------------------------------------------
(* The number of a sequence of digits.                                     *)

IsValues(f, digits, base, m) ==
    f[0] = 0 /\ \A i \in 1..m : f[i] = f[i - 1] + digits[i] * Power(base, i - 1)

LEMMA ValuesExist ==
    ASSUME NEW digits \in Seq(Nat), NEW base \in Nat
    PROVE  \E f \in [0..Len(digits) -> Nat] :
             IsValues(f, digits, base, Len(digits))
               /\ LittleEndian(digits, base) = f[Len(digits)]
<1> DEFINE m == Len(digits)
           N == Nat
           zero == 0
           step == [i \in 1..m |-> [x \in Nat |-> x + digits[i] * Power(base, i - 1)]]
           Is(f) == f = [i \in 0..m |-> IF i = 0 THEN 0
                                        ELSE f[i - 1] + digits[i] * Power(base, i - 1)]
           value == CHOOSE f : Is(f)
<1>0. m \in Nat /\ DOMAIN digits = 1..m
  OBVIOUS
<1>1. \A i \in 1..m : digits[i] * Power(base, i - 1) \in Nat
  <2> SUFFICES ASSUME NEW i \in 1..m PROVE digits[i] * Power(base, i - 1) \in Nat
    OBVIOUS
  <2>1. i - 1 \in Nat /\ digits[i] \in Nat
    BY <1>0
  <2>2. Power(base, i - 1) \in Nat
    BY <2>1, PowerNext
  <2> QED
    BY <2>1, <2>2, TimesNat
<1> HIDE DEF m
<1>2. step \in [1..m -> [N -> N]] /\ zero \in N
  BY <1>1
<1>3. PICK g \in [0..m -> N] : Recurs(g, m, zero, step)
  <2> HIDE DEF step, N, zero
  <2> QED
    BY <1>0, <1>2, RecursionExists
<1>4. g[0] = 0 /\ \A i \in 1..m : g[i] = g[i - 1] + digits[i] * Power(base, i - 1)
  <2>1. \A i \in 1..m : g[i - 1] \in Nat
    BY <1>0
  <2> QED
    BY <1>3, <2>1 DEF Recurs
<1>5. \A i \in 0..m : i = 0 \/ i \in 1..m
  BY <1>0
<1>6. Is(g)
  BY <1>4, <1>5
<1>7. Is(value)
  <2> HIDE DEF Is
  <2> QED
    BY <1>6
<1>8. LittleEndian(digits, base) = value[m]
  BY DEF LittleEndian, m
<1> HIDE DEF value
<1>9. value[0] = 0 /\ \A i \in 1..m : value[i] = value[i - 1] + digits[i] * Power(base, i - 1)
  <2>1. 0 \in 0..m /\ \A i \in 1..m : i # 0 /\ i \in 0..m
    BY <1>0
  <2> QED
    BY <1>7, <2>1
<1> DEFINE C == {i \in 0..m : value[i] \in Nat}
<1>10. 0..m \subseteq C
  <2>1. 0 \in C
    BY <1>0, <1>9
  <2>2. ASSUME NEW i \in 1..m, i - 1 \in C PROVE i \in C
    <3> DEFINE more == digits[i] * Power(base, i - 1)
    <3>1. value[i] = value[i - 1] + more /\ more \in Nat
      BY <1>1, <1>9
    <3> HIDE DEF more
    <3> QED
      BY <1>0, <2>2, <3>1
  <2> HIDE DEF C
  <2> QED
    BY <1>0, <2>1, <2>2, CountInduct
<1>11. value \in [0..m -> Nat]
  BY <1>7, <1>10
<1> QED
  BY <1>8, <1>9, <1>11 DEF IsValues, m

\* Each partial value has one power of the base as its bound.
LEMMA ValuesBelow ==
    ASSUME NEW m \in Nat, NEW base \in Nat, NEW digits \in [1..m -> 0..base - 1],
           NEW f \in [0..m -> Nat], IsValues(f, digits, base, m)
    PROVE  \A i \in 0..m : f[i] \in 0..Power(base, i) - 1
<1> DEFINE C == {i \in 0..m : f[i] < Power(base, i)}
<1>1. 0 \in C
  BY PowerNext DEF IsValues
<1>2. ASSUME NEW i \in 1..m, i - 1 \in C PROVE i \in C
  <2> DEFINE p == Power(base, i - 1)
  <2>1. /\ i - 1 \in Nat /\ (i - 1) + 1 = i /\ i \in 0..m
        /\ digits[i] \in Nat /\ digits[i] + 1 <= base /\ f[i - 1] \in Nat
    OBVIOUS
  <2>2. p \in Nat /\ Power(base, i) = base * p
    BY <2>1, PowerNext
  <2>3. f[i] = f[i - 1] + digits[i] * p /\ f[i - 1] < p
    BY <1>2 DEF IsValues
  <2> DEFINE d == digits[i]
  <2>d. d \in Nat /\ d \in Int /\ d + 1 \in Int /\ base \in Int /\ d + 1 <= base
    BY <2>1
  <2> HIDE DEF p, d
  <2>4. (d + 1) * p <= base * p
    BY <2>d, <2>2, TimesMonotone
  <2>5. (d + 1) * p = d * p + p /\ d * p \in Nat /\ base * p \in Nat
    BY <2>d, <2>2, TimesNat
  <2> DEFINE dp == d * p
             bp == base * p
             before == f[i - 1]
  <2>6. /\ dp + p <= bp /\ dp \in Nat /\ bp \in Nat /\ before \in Nat
        /\ f[i] = before + dp /\ before < p
    BY <2>1, <2>3, <2>4, <2>5 DEF d
  <2>7. Power(base, i) = bp
    BY <2>2
  <2> HIDE DEF dp, bp, before
  <2>8. f[i] < bp
    BY ONLY <2>2, <2>6
  <2> QED
    BY <2>1, <2>7, <2>8
<1>3. 0..m \subseteq C
  <2> HIDE DEF C
  <2> QED
    BY <1>1, <1>2, CountInduct
<1> SUFFICES ASSUME NEW i \in 0..m PROVE f[i] \in 0..Power(base, i) - 1
  OBVIOUS
<1>4. i \in Nat /\ f[i] \in Nat /\ f[i] < Power(base, i)
  BY <1>3
<1>5. Power(base, i) \in Nat
  BY <1>4, PowerNext
<1> QED
  BY <1>4, <1>5

LEMMA NumberType ==
    ASSUME NEW digits \in Seq(Nat), NEW base \in Nat PROVE LittleEndian(digits, base) \in Nat
<1>1. Len(digits) \in 0..Len(digits)
  OBVIOUS
<1>2. PICK f \in [0..Len(digits) -> Nat] : LittleEndian(digits, base) = f[Len(digits)]
  BY ValuesExist
<1> QED
  BY <1>1, <1>2

LEMMA NumberBelow ==
    ASSUME NEW base \in Nat, NEW digits \in Seq(0..base - 1)
    PROVE  LittleEndian(digits, base) \in 0..Power(base, Len(digits)) - 1
<1>1. /\ Len(digits) \in Nat /\ Len(digits) \in 0..Len(digits)
      /\ digits \in Seq(Nat) /\ digits \in [1..Len(digits) -> 0..base - 1]
  OBVIOUS
<1>2. PICK f \in [0..Len(digits) -> Nat] :
        IsValues(f, digits, base, Len(digits)) /\ LittleEndian(digits, base) = f[Len(digits)]
  BY <1>1, ValuesExist
<1>3. \A i \in 0..Len(digits) : f[i] \in 0..Power(base, i) - 1
  BY <1>1, <1>2, ValuesBelow
<1> QED
  BY <1>1, <1>2, <1>3

\* Numbers of as many digits are the same only if the digits are.
LEMMA SameDigits ==
    ASSUME NEW base \in Nat, NEW x \in Seq(0..base - 1), NEW y \in Seq(0..base - 1),
           Len(x) = Len(y), LittleEndian(x, base) = LittleEndian(y, base)
    PROVE  x = y
<1> DEFINE m == Len(x)
<1>0. /\ m \in Nat /\ x \in Seq(Nat) /\ y \in Seq(Nat)
      /\ x \in [1..m -> 0..base - 1] /\ y \in [1..m -> 0..base - 1]
      /\ x \in [1..m -> Nat] /\ y \in [1..m -> Nat]
  OBVIOUS
<1>1. PICK f \in [0..m -> Nat] : IsValues(f, x, base, m) /\ LittleEndian(x, base) = f[m]
  BY <1>0, ValuesExist
<1>2. PICK g \in [0..m -> Nat] : IsValues(g, y, base, m) /\ LittleEndian(y, base) = g[m]
  <2>1. m = Len(y)
    OBVIOUS
  <2> QED
    BY <1>0, <2>1, ValuesExist
<1>3. f[m] = g[m]
  BY <1>1, <1>2
<1> HIDE DEF m
<1>4. \A i \in 0..m : f[i] \in 0..Power(base, i) - 1 /\ g[i] \in 0..Power(base, i) - 1
  BY <1>0, <1>1, <1>2, ValuesBelow
<1> DEFINE C == {l \in 0..m : f[m - l] = g[m - l] /\ \A i \in m - l + 1..m : x[i] = y[i]}
<1>5. 0 \in C
  BY <1>0, <1>3
<1>6. ASSUME NEW l \in 1..m, l - 1 \in C PROVE l \in C
  <2> DEFINE j == m - l + 1
             p == Power(base, j - 1)
  <2>1. j \in 1..m /\ j - 1 \in 0..m /\ j - 1 = m - l /\ j = m - (l - 1) /\ l \in 0..m
        /\ j - 1 \in Nat
        /\ \A i \in m - l + 1..m : i = j \/ i \in m - (l - 1) + 1..m
    BY <1>0
  <2>2. f[j] = g[j] /\ \A i \in m - (l - 1) + 1..m : x[i] = y[i]
    BY <1>6, <2>1
  <2>3. f[j] = f[j - 1] + x[j] * p /\ g[j] = g[j - 1] + y[j] * p
    BY <1>1, <1>2, <2>1 DEF IsValues
  <2>4. p \in Nat
    BY <2>1, PowerNext
  <2>5. f[j - 1] \in 0..p - 1 /\ g[j - 1] \in 0..p - 1 /\ x[j] \in Nat /\ y[j] \in Nat
    BY <1>0, <1>4, <2>1
  <2> HIDE DEF j, p
  <2>6. x[j] = y[j] /\ f[j - 1] = g[j - 1]
    <3> DEFINE q == x[j]
               s == y[j]
               u == f[j - 1]
               v == g[j - 1]
    <3>1. q \in Int /\ s \in Int /\ u \in 0..p - 1 /\ v \in 0..p - 1 /\ u + q * p = v + s * p
      <4>1. q \in Int /\ s \in Int /\ u \in 0..p - 1 /\ v \in 0..p - 1
        BY <2>5
      <4>2. u + q * p = v + s * p
        BY <2>2, <2>3, Zenon
      <4> QED
        BY <4>1, <4>2
    <3> HIDE DEF q, s, u, v
    <3>2. q = s /\ u = v
      BY <2>4, <3>1, OneQuotient
    <3> QED
      BY <3>2 DEF q, s, u, v
  <2>7. f[m - l] = g[m - l]
    BY <2>1, <2>6
  <2>8. \A i \in m - l + 1..m : x[i] = y[i]
    BY <2>1, <2>2, <2>6
  <2> QED
    BY <2>1, <2>7, <2>8
<1>7. 0..m \subseteq C
  <2> HIDE DEF C
  <2> QED
    BY <1>0, <1>5, <1>6, CountInduct
<1>8. \A i \in 1..m : x[i] = y[i]
  <2>1. m \in 0..m /\ m - m + 1 = 1
    BY <1>0
  <2> QED
    BY <1>7, <2>1
<1> QED
  BY <1>0, <1>8

\* Numbers whose digits begin alike have the same first partial values.
LEMMA ValuesAgree ==
    ASSUME NEW m \in Nat, NEW t \in 0..m, NEW base, NEW x, NEW y, NEW f, NEW g,
           IsValues(f, x, base, m), IsValues(g, y, base, t), \A i \in 1..t : x[i] = y[i]
    PROVE  \A i \in 0..t : f[i] = g[i]
<1> DEFINE C == {i \in 0..t : f[i] = g[i]}
<1>0. t \in Nat /\ 0 \in 0..t /\ \A i \in 1..t : i \in 1..m /\ i \in 0..t
  OBVIOUS
<1>1. 0 \in C
  BY <1>0 DEF IsValues
<1>2. ASSUME NEW i \in 1..t, i - 1 \in C PROVE i \in C
  BY <1>0, <1>2 DEF IsValues
<1>3. 0..t \subseteq C
  <2> HIDE DEF C
  <2> QED
    BY <1>0, <1>1, <1>2, CountInduct
<1> QED
  BY <1>3

LEMMA NumberIsValue ==
    ASSUME NEW m \in Nat, NEW base \in Nat, NEW x, NEW f, IsValues(f, x, base, m),
           NEW y \in Seq(Nat), Len(y) <= m, \A i \in 1..Len(y) : x[i] = y[i]
    PROVE  LittleEndian(y, base) = f[Len(y)]
<1> DEFINE t == Len(y)
<1>1. PICK g \in [0..t -> Nat] : IsValues(g, y, base, t) /\ LittleEndian(y, base) = g[t]
  BY ValuesExist
<1>2. t \in 0..t /\ t \in 0..m
  OBVIOUS
<1>3. \A i \in 1..t : x[i] = y[i]
  OBVIOUS
<1> HIDE DEF t
<1>4. \A i \in 0..t : f[i] = g[i]
  BY <1>1, <1>2, <1>3, ValuesAgree
<1>5. LittleEndian(y, base) = f[t]
  BY <1>1, <1>2, <1>4
<1> QED
  BY <1>5 DEF t

\* Zeros for the most significant digits add nothing.
LEMMA ZerosAddNothing ==
    ASSUME NEW x \in Seq(Nat), NEW y \in Seq(Nat), NEW base \in Nat, Len(y) <= Len(x),
           \A i \in 1..Len(y) : x[i] = y[i],
           \A i \in Len(y) + 1..Len(x) : x[i] = 0
    PROVE  LittleEndian(x, base) = LittleEndian(y, base)
<1> DEFINE m == Len(x)
           t == Len(y)
           r == m - t
<1>0. m \in Nat /\ t \in 0..m /\ r \in Nat /\ t \in Nat
  OBVIOUS
<1>1. PICK f \in [0..m -> Nat] : IsValues(f, x, base, m) /\ LittleEndian(x, base) = f[m]
  BY ValuesExist
<1>2. LittleEndian(y, base) = f[t]
  <2>1. m \in Nat /\ Len(y) <= m
    OBVIOUS
  <2> HIDE DEF m
  <2> QED
    BY <1>1, <2>1, NumberIsValue
<1> DEFINE C == {l \in 0..r : f[t + l] = f[t]}
<1>z. \A i \in t + 1..m : x[i] = 0
  OBVIOUS
<1> HIDE DEF m, t
<1>3. 0 \in C
  BY <1>0
<1>4. ASSUME NEW l \in 1..r, l - 1 \in C PROVE l \in C
  <2>1. t + l \in 1..m /\ t + l \in t + 1..m /\ (t + l) - 1 = t + (l - 1) /\ l \in 0..r
        /\ (t + l) - 1 \in Nat /\ (t + l) - 1 \in 0..m
    BY <1>0
  <2>2. f[t + l] = f[(t + l) - 1] + x[t + l] * Power(base, (t + l) - 1) /\ x[t + l] = 0
    BY <1>1, <1>z, <2>1 DEF IsValues
  <2>3. 0 * Power(base, (t + l) - 1) = 0
    <3>1. Power(base, (t + l) - 1) \in Nat
      BY <2>1, PowerNext
    <3> QED
      BY <3>1
  <2>4. f[(t + l) - 1] \in Nat
    BY <2>1
  <2>5. f[t + l] = f[(t + l) - 1]
    BY <2>2, <2>3, <2>4
  <2> QED
    BY <1>4, <2>1, <2>5
<1>5. 0..r \subseteq C
  <2> HIDE DEF C, r
  <2> QED
    BY <1>0, <1>3, <1>4, CountInduct
<1>6. r \in 0..r /\ t + r = m
  BY <1>0
<1> QED
  BY <1>1, <1>2, <1>5, <1>6

LEMMA PowerMonotone ==
    ASSUME NEW base \in Nat \ {0}, NEW i \in Nat, NEW j \in Nat, i <= j
    PROVE  Power(base, i) <= Power(base, j)
<1> DEFINE a == Power(base, i)
           b == Power(base, j - i)
<1>1. j - i \in Nat /\ i + (j - i) = j /\ base \in Nat /\ base # 0
  OBVIOUS
<1>2. Power(base, j) = a * b
  BY <1>1, PowerPlus
<1>3. a \in Nat /\ b \in Nat /\ b # 0
  BY <1>1, PowerNext
<1> HIDE DEF a, b
<1>4. 1 * a <= b * a
  BY <1>3, TimesMonotone
<1>5. 1 * a = a /\ b * a = a * b
  BY <1>3
<1> QED
  BY <1>2, <1>4, <1>5 DEF a

\* A number of more digits, the most significant one not zero, is greater.
LEMMA LongerIsGreater ==
    ASSUME NEW base \in Nat \ {0}, NEW x \in Seq(0..base - 1), NEW y \in Seq(Nat),
           Len(x) < Len(y), y[Len(y)] # 0
    PROVE  LittleEndian(x, base) < LittleEndian(y, base)
<1> DEFINE m == Len(y)
           p == Power(base, m - 1)
<1>0. m \in Nat /\ m \in 1..m /\ m - 1 \in Nat /\ Len(x) <= m - 1 /\ Len(x) \in Nat
      /\ y[m] \in Nat /\ base \in Nat /\ m - 1 \in 0..m /\ m \in 0..m
  OBVIOUS
<1>1. LittleEndian(x, base) \in 0..Power(base, Len(x)) - 1
  BY <1>0, NumberBelow
<1>2. Power(base, Len(x)) <= p
  BY <1>0, PowerMonotone
<1>3. PICK f \in [0..m -> Nat] : IsValues(f, y, base, m) /\ LittleEndian(y, base) = f[m]
  BY <1>0, ValuesExist
<1>4. f[m] = f[m - 1] + y[m] * p
  BY <1>0, <1>3 DEF IsValues
<1>5. p \in Nat /\ Power(base, Len(x)) \in Nat
  BY <1>0, PowerNext
<1> DEFINE d == y[m]
<1>6. d \in Int /\ 1 <= d
  BY <1>0
<1> HIDE DEF p, d
<1>7. 1 * p <= d * p /\ d * p \in Int
  BY <1>5, <1>6, TimesMonotone
<1>8. f[m] = f[m - 1] + d * p /\ f[m - 1] \in Nat
  BY <1>0, <1>4 DEF d
<1>9. 1 * p = p
  BY <1>5
<1>10. LittleEndian(y, base) >= p
  BY <1>3, <1>5, <1>7, <1>8, <1>9
<1>11. LittleEndian(y, base) \in Nat
  BY <1>0, NumberType
<1> QED
  BY <1>1, <1>2, <1>5, <1>10, <1>11

-----------------------------------------------------------------------------
(* The most significant digit first.                                       *)

Backwards(digits) == [i \in 1..Len(digits) |-> digits[Len(digits) + 1 - i]]

LEMMA BackwardsType ==
    ASSUME NEW S, NEW x \in Seq(S)
    PROVE  /\ Backwards(x) \in Seq(S) /\ Len(Backwards(x)) = Len(x)
           /\ \A i \in 1..Len(x) : Backwards(x)[i] = x[Len(x) + 1 - i]
<1>1. Len(x) \in Nat /\ \A i \in 1..Len(x) : Len(x) + 1 - i \in 1..Len(x)
  OBVIOUS
<1>2. \A i \in 1..Len(x) : x[Len(x) + 1 - i] \in S
  BY <1>1
<1> QED
  BY <1>1, <1>2 DEF Backwards

LEMMA BackwardsSame ==
    ASSUME NEW S, NEW x \in Seq(S), NEW y \in Seq(S), Backwards(x) = Backwards(y)
    PROVE  x = y
<1> DEFINE m == Len(x)
<1>1. m = Len(y) /\ m \in Nat
  BY BackwardsType
<1>2. \A i \in 1..m : m + 1 - i \in 1..m /\ m + 1 - (m + 1 - i) = i
  BY <1>1
<1>3. /\ \A i \in 1..m : Backwards(x)[i] = x[m + 1 - i]
      /\ \A i \in 1..m : Backwards(y)[i] = y[m + 1 - i]
  BY <1>1, BackwardsType
<1>4. \A i \in 1..m : x[i] = y[i]
  <2> SUFFICES ASSUME NEW i \in 1..m PROVE x[i] = y[i]
    OBVIOUS
  <2>1. x[m + 1 - (m + 1 - i)] = y[m + 1 - (m + 1 - i)]
    BY <1>2, <1>3
  <2> QED
    BY <1>2, <2>1
<1> QED
  BY <1>1, <1>4

LEMMA BigEndianIs == ASSUME NEW x, NEW base
                     PROVE BigEndian(x, base) = LittleEndian(Backwards(x), base)
BY DEF BigEndian, Backwards

LEMMA BigEndianType ==
    ASSUME NEW digits \in Seq(Nat), NEW base \in Nat PROVE BigEndian(digits, base) \in Nat
BY BigEndianIs, BackwardsType, NumberType

LEMMA BigEndianBelow ==
    ASSUME NEW base \in Nat, NEW digits \in Seq(0..base - 1)
    PROVE  BigEndian(digits, base) \in 0..Power(base, Len(digits)) - 1
<1>1. Backwards(digits) \in Seq(0..base - 1) /\ Len(Backwards(digits)) = Len(digits)
  BY BackwardsType
<1> QED
  BY <1>1, BigEndianIs, NumberBelow

LEMMA SameBigEndian ==
    ASSUME NEW base \in Nat, NEW x \in Seq(0..base - 1), NEW y \in Seq(0..base - 1),
           Len(x) = Len(y), BigEndian(x, base) = BigEndian(y, base)
    PROVE  x = y
<1>1. /\ Backwards(x) \in Seq(0..base - 1) /\ Len(Backwards(x)) = Len(x)
      /\ Backwards(y) \in Seq(0..base - 1) /\ Len(Backwards(y)) = Len(y)
  BY BackwardsType
<1>2. Backwards(x) = Backwards(y)
  BY <1>1, BigEndianIs, SameDigits
<1> QED
  BY <1>2, BackwardsSame

\* No two numbers without a leading zero are the same, of whatever length.
LEMMA SameText ==
    ASSUME NEW base \in Nat \ {0}, NEW x \in Seq(1..base - 1), NEW y \in Seq(1..base - 1),
           BigEndian(x, base) = BigEndian(y, base)
    PROVE  x = y
<1>0. x \in Seq(0..base - 1) /\ y \in Seq(0..base - 1) /\ base \in Nat
  OBVIOUS
<1>1. ASSUME NEW u \in Seq(1..base - 1), NEW v \in Seq(1..base - 1), Len(u) < Len(v)
      PROVE  BigEndian(u, base) < BigEndian(v, base)
  <2>1. /\ Backwards(u) \in Seq(1..base - 1) /\ Len(Backwards(u)) = Len(u)
        /\ Backwards(v) \in Seq(1..base - 1) /\ Len(Backwards(v)) = Len(v)
    BY BackwardsType
  <2> DEFINE bu == Backwards(u)
             bv == Backwards(v)
  <2>2. bu \in Seq(0..base - 1) /\ bv \in Seq(Nat) /\ Len(bu) < Len(bv)
        /\ Len(bv) \in 1..Len(bv)
    <3> HIDE DEF bu, bv
    <3>1. bu \in Seq(1..base - 1) /\ bv \in Seq(1..base - 1) /\ Len(bu) < Len(bv)
      BY <1>1, <2>1 DEF bu, bv
    <3> QED
      BY <3>1
  <2>3. bv[Len(bv)] # 0
    <3> HIDE DEF bv
    <3>1. bv \in Seq(1..base - 1) /\ Len(bv) \in 1..Len(bv)
      BY <2>1, <2>2 DEF bv
    <3> QED
      BY <3>1
  <2>4. LittleEndian(bu, base) < LittleEndian(bv, base)
    <3> HIDE DEF bu, bv
    <3> QED
      BY <2>2, <2>3, LongerIsGreater
  <2> QED
    BY <2>4, BigEndianIs
<1>2. BigEndian(x, base) \in Nat /\ BigEndian(y, base) \in Nat
  <2>1. x \in Seq(Nat) /\ y \in Seq(Nat)
    OBVIOUS
  <2> QED
    BY <1>0, <2>1, BigEndianType
<1>3. Len(x) = Len(y)
  <2>1. ~ (Len(x) < Len(y)) /\ ~ (Len(y) < Len(x))
    BY <1>1, <1>2
  <2> QED
    BY <2>1
<1> QED
  BY <1>0, <1>3, SameBigEndian

-----------------------------------------------------------------------------
(* The digits of a number.                                                 *)

IsRests(f, number, base, m) == f[0] = number /\ \A i \in 1..m : f[i] = f[i - 1] \div base
IsLasts(d, f, base, m) == d = [i \in 1..m |-> f[i - 1] % base]

LEMMA RestsExist ==
    ASSUME NEW number \in Nat, NEW base \in Nat \ {0}, NEW m \in Nat
    PROVE  \E f \in [0..m -> Nat] :
             /\ IsRests(f, number, base, m)
             /\ IsLasts(Digits(number, base, m), f, base, m)
<1> DEFINE N == Nat
           step == [i \in 1..m |-> [x \in Nat |-> x \div base]]
           Is(f) == f = [i \in 0..m |-> IF i = 0 THEN number ELSE f[i - 1] \div base]
           rest == CHOOSE f : Is(f)
<1>1. \A x \in Nat : x \div base \in Nat
  BY QuotientNat
<1>2. step \in [1..m -> [N -> N]] /\ number \in N
  BY <1>1
<1>3. PICK g \in [0..m -> N] : Recurs(g, m, number, step)
  <2> HIDE DEF step, N
  <2> QED
    BY <1>2, RecursionExists
<1>4. g[0] = number /\ \A i \in 1..m : g[i] = g[i - 1] \div base
  <2>1. \A i \in 1..m : g[i - 1] \in Nat
    OBVIOUS
  <2> QED
    BY <1>3, <2>1 DEF Recurs
<1>5. \A i \in 0..m : i = 0 \/ i \in 1..m
  OBVIOUS
<1>6. Is(g)
  BY <1>4, <1>5
<1>7. Is(rest)
  <2> HIDE DEF Is
  <2> QED
    BY <1>6
<1>8. Digits(number, base, m) = [i \in 1..m |-> rest[i - 1] % base]
  BY DEF Digits
<1> HIDE DEF rest
<1>9. rest[0] = number /\ \A i \in 1..m : rest[i] = rest[i - 1] \div base
  <2>1. 0 \in 0..m /\ \A i \in 1..m : i # 0 /\ i \in 0..m
    OBVIOUS
  <2> QED
    BY <1>7, <2>1
<1> DEFINE C == {i \in 0..m : rest[i] \in Nat}
<1>10. 0..m \subseteq C
  <2>1. 0 \in C
    BY <1>9
  <2>2. ASSUME NEW i \in 1..m, i - 1 \in C PROVE i \in C
    <3> DEFINE a == rest[i - 1]
    <3>1. a \in Nat /\ rest[i] = a \div base /\ i \in 0..m
      BY <1>9, <2>2
    <3> HIDE DEF a
    <3> QED
      BY <1>1, <3>1
  <2> HIDE DEF C
  <2> QED
    BY <2>1, <2>2, CountInduct
<1>11. rest \in [0..m -> Nat]
  BY <1>7, <1>10
<1> QED
  BY <1>8, <1>9, <1>11 DEF IsRests, IsLasts

LEMMA DigitsType ==
    ASSUME NEW number \in Nat, NEW base \in Nat \ {0}, NEW m \in Nat
    PROVE  Digits(number, base, m) \in Seq(0..base - 1) /\ Len(Digits(number, base, m)) = m
<1>1. PICK f \in [0..m -> Nat] : /\ IsRests(f, number, base, m)
                                 /\ IsLasts(Digits(number, base, m), f, base, m)
  BY RestsExist
<1>3. \A i \in 1..m : f[i - 1] % base \in 0..base - 1
  <2> SUFFICES ASSUME NEW i \in 1..m PROVE f[i - 1] % base \in 0..base - 1
    OBVIOUS
  <2> DEFINE a == f[i - 1]
  <2>1. a \in Int
    OBVIOUS
  <2> HIDE DEF a
  <2>2. a % base \in 0..base - 1
    BY <2>1, QuotientRest
  <2> QED
    BY <2>2 DEF a
<1>4. [i \in 1..m |-> f[i - 1] % base] \in Seq(0..base - 1)
      /\ Len([i \in 1..m |-> f[i - 1] % base]) = m
  BY <1>3
<1> QED
  BY <1>1, <1>4 DEF IsLasts

\* The digits of a number that has no more of them stand for it.
LEMMA DigitsNumber ==
    ASSUME NEW base \in Nat \ {0}, NEW m \in Nat, NEW number \in 0..Power(base, m) - 1
    PROVE  LittleEndian(Digits(number, base, m), base) = number
<1> DEFINE d == Digits(number, base, m)
<1>0. base \in Nat /\ Power(base, m) \in Nat /\ number \in Nat
  <2>1. base \in Nat
    OBVIOUS
  <2>2. Power(base, m) \in Nat
    BY <2>1, PowerNext
  <2> QED
    BY <2>1, <2>2
<1>1. PICK f \in [0..m -> Nat] : /\ IsRests(f, number, base, m)
                                 /\ IsLasts(d, f, base, m)
  BY <1>0, RestsExist
<1>2. d \in Seq(0..base - 1) /\ Len(d) = m /\ d \in Seq(Nat)
  <2>1. d \in Seq(0..base - 1) /\ Len(d) = m
    BY <1>0, DigitsType
  <2> HIDE DEF d
  <2> QED
    BY <2>1
<1> HIDE DEF d
<1>3. PICK v \in [0..m -> Nat] : IsValues(v, d, base, m) /\ LittleEndian(d, base) = v[m]
  BY <1>0, <1>2, ValuesExist
<1> DEFINE C == {i \in 0..m : v[i] + f[i] * Power(base, i) = number}
<1>4. 0 \in C
  <2>1. v[0] = 0 /\ f[0] = number /\ Power(base, 0) = 1
    BY <1>0, <1>1, <1>3, PowerNext DEF IsValues, IsRests
  <2>2. number * 1 = number
    BY <1>0
  <2> QED
    BY <1>0, <2>1, <2>2
<1>5. ASSUME NEW i \in 1..m, i - 1 \in C PROVE i \in C
  <2> DEFINE p == Power(base, i - 1)
             a == f[i - 1]
             q == f[i]
             r == d[i]
             u == v[i - 1]
  <2>1. i - 1 \in Nat /\ (i - 1) + 1 = i /\ i \in 0..m /\ i - 1 \in 0..m
    OBVIOUS
  <2>2. p \in Nat /\ Power(base, i) = base * p
    BY <1>0, <2>1, PowerNext
  <2>3. q = a \div base /\ r = a % base /\ v[i] = u + r * p
    BY <1>1, <1>3, <2>1 DEF IsRests, IsLasts, IsValues
  <2>4. a \in Nat /\ u \in Nat /\ u + a * p = number
    BY <1>5, <2>1
  <2> HIDE DEF p, a, q, r, u
  <2>5. r \in Int /\ q \in Int /\ a = r + q * base
    <3>0. a \in Int
      BY <2>4
    <3>1. a \div base \in Int /\ a % base \in 0..base - 1 /\ a = (a % base) + (a \div base) * base
      BY <3>0, QuotientRest, Zenon
    <3>2. r = a % base /\ q = a \div base
      BY <2>3
    <3> DEFINE c == a % base
               b == a \div base
    <3>3. /\ b \in Int /\ c \in 0..base - 1 /\ a = c + b * base /\ r = c /\ q = b
      BY <3>1, <3>2
    <3> HIDE DEF c, b
    <3> QED
      BY <3>3
  <2>6. a * p = r * p + q * (base * p)
    <3>1. (r + q * base) * p = r * p + q * (base * p)
      BY <1>0, <2>2, <2>5
    <3> QED
      BY <2>5, <3>1
  <2> DEFINE rp == r * p
             qp == q * (base * p)
  <2>7. rp \in Int /\ qp \in Int
    BY <1>0, <2>2, <2>5
  <2> HIDE DEF rp, qp
  <2>8. u + (rp + qp) = number
    BY <2>4, <2>6 DEF rp, qp
  <2>9. (u + rp) + qp = number
    BY <2>4, <2>7, <2>8
  <2> QED
    BY <2>1, <2>2, <2>3, <2>9 DEF rp, qp, q
<1>6. 0..m \subseteq C
  <2> HIDE DEF C
  <2> QED
    BY <1>4, <1>5, CountInduct
<1> DEFINE a == v[m]
           q == f[m]
           p == Power(base, m)
<1>7. a + q * p = number /\ a \in Nat /\ q \in Nat
  <2>1. m \in 0..m
    OBVIOUS
  <2> QED
    BY <1>6, <2>1
<1>8. a \in 0..p - 1
  <2>1. d \in [1..m -> 0..base - 1] /\ m \in 0..m
    BY <1>2
  <2> QED
    BY <1>0, <1>3, <2>1, ValuesBelow
<1>9. p \in Nat /\ number \in 0..p - 1
  BY <1>0
<1>v. LittleEndian(d, base) = a
  BY <1>3
<1> HIDE DEF a, q, p
<1>10. a + q * p = number + 0 * p
  BY <1>7, <1>9
<1>11. a = number
  <2>1. q \in Int /\ 0 \in Int
    BY <1>7
  <2> DEFINE zero == 0
  <2>2. a + q * p = number + zero * p /\ zero \in Int
    BY <1>10
  <2> HIDE DEF zero
  <2> QED
    BY <1>8, <1>9, <2>1, <2>2, OneQuotient
<1> QED
  BY <1>11, <1>v DEF d

\* A number has no other digits.
LEMMA DigitsUnique ==
    ASSUME NEW base \in Nat \ {0}, NEW x \in Seq(0..base - 1)
    PROVE  Digits(LittleEndian(x, base), base, Len(x)) = x
<1> DEFINE v == LittleEndian(x, base)
           d == Digits(v, base, Len(x))
<1>0. base \in Nat /\ Len(x) \in Nat
  OBVIOUS
<1>1. v \in 0..Power(base, Len(x)) - 1
  BY <1>0, NumberBelow
<1>2. v \in Nat
  BY <1>0, <1>1, PowerNext
<1>3. d \in Seq(0..base - 1) /\ Len(d) = Len(x)
  BY <1>0, <1>2, DigitsType
<1>4. LittleEndian(d, base) = v
  BY <1>0, <1>1, DigitsNumber
<1> HIDE DEF d
<1>5. d = x
  BY <1>0, <1>3, <1>4, SameDigits
<1> QED
  BY <1>5 DEF d

LEMMA SeqSame ==
    ASSUME NEW S, NEW x \in Seq(S), NEW y \in Seq(S), Len(x) = Len(y),
           \A i \in 1..Len(x) : x[i] = y[i]
    PROVE  x = y
OBVIOUS

LEMMA SeqIs ==
    ASSUME NEW S, NEW m \in Nat, NEW f \in [1..m -> S] PROVE f \in Seq(S) /\ Len(f) = m
OBVIOUS

LEMMA SeqWider == ASSUME NEW S, NEW T, S \subseteq T, NEW x \in Seq(S) PROVE x \in Seq(T)
<1>1. \A i \in 1..Len(x) : x[i] \in T
  OBVIOUS
<1> QED
  BY <1>1

LEMMA ConcatType ==
    ASSUME NEW S, NEW s \in Seq(S), NEW t \in Seq(S)
    PROVE  s \o t \in Seq(S) /\ Len(s \o t) = Len(s) + Len(t)
OBVIOUS

\* The digits of a number, written backwards, are the number.
LEMMA BackwardsNumber ==
    ASSUME NEW base \in Nat \ {0}, NEW m \in Nat, NEW v \in 0..Power(base, m) - 1, NEW w,
           w = [i \in 1..m |-> Digits(v, base, m)[m + 1 - i]]
    PROVE  w \in Seq(0..base - 1) /\ Len(w) = m /\ BigEndian(w, base) = v
<1> DEFINE d == Digits(v, base, m)
           S == 0..base - 1
<1>1. v \in Nat
  BY PowerNext
<1>2. d \in Seq(S) /\ Len(d) = m
  BY <1>1, DigitsType
<1>3. LittleEndian(d, base) = v
  BY DigitsNumber
<1>0. w = [i \in 1..m |-> d[m + 1 - i]]
  OBVIOUS
<1> HIDE DEF d, S
<1>4. \A i \in 1..m : m + 1 - i \in 1..m /\ m + 1 - (m + 1 - i) = i
  OBVIOUS
<1>5. w \in Seq(S) /\ Len(w) = m
  <2>1. \A i \in 1..m : w[i] \in S
    BY <1>0, <1>2, <1>4
  <2>2. w \in [1..m -> S]
    BY <2>1, <1>0
  <2> QED
    BY <2>2, SeqIs
<1>6. Backwards(w) = d
  <2>1. /\ Backwards(w) \in Seq(S) /\ Len(Backwards(w)) = m
        /\ \A i \in 1..m : Backwards(w)[i] = w[m + 1 - i]
    BY <1>5, BackwardsType
  <2>2. \A i \in 1..m : Backwards(w)[i] = d[i]
    <3> TAKE i \in 1..m
    <3>1. w[m + 1 - i] = d[m + 1 - (m + 1 - i)]
      BY <1>0, <1>4
    <3> QED
      BY <2>1, <3>1, <1>4
  <2> QED
    BY <2>1, <2>2, <1>2, SeqSame
<1>7. BigEndian(w, base) = v
  BY <1>6, <1>3, BigEndianIs
<1> QED
  BY <1>5, <1>7 DEF S

\* Digits taken together in groups of w are digits of the base Power(base, w).
InGroups(y, x, base, w, m) ==
    \A i \in 1..m : y[i] = LittleEndian([j \in 1..w |-> x[w * (i - 1) + j]], base)

LEMMA Grouped ==
    ASSUME NEW base \in Nat, NEW w \in Nat, NEW m \in Nat, NEW x \in Seq(Nat), NEW y \in Seq(Nat),
           Len(x) = w * m, Len(y) = m, InGroups(y, x, base, w, m)
    PROVE  LittleEndian(y, Power(base, w)) = LittleEndian(x, base)
<1> DEFINE B == Power(base, w)
           t == w * m
<1>0. B \in Nat /\ t \in Nat
  BY PowerNext, TimesNat
<1>1. PICK f \in [0..t -> Nat] : IsValues(f, x, base, t) /\ LittleEndian(x, base) = f[t]
  BY ValuesExist
<1>2. PICK g \in [0..m -> Nat] : IsValues(g, y, B, m) /\ LittleEndian(y, B) = g[m]
  <2> HIDE DEF B
  <2> QED
    BY <1>0, ValuesExist
<1> DEFINE C == {i \in 0..m : f[w * i] = g[i]}
<1>3. 0 \in C
  <2>1. w * 0 = 0
    OBVIOUS
  <2> QED
    BY <1>1, <1>2, <2>1 DEF IsValues
<1>4. ASSUME NEW i \in 1..m, i - 1 \in C PROVE i \in C
  <2> DEFINE s == w * (i - 1)
             group == [j \in 1..w |-> x[s + j]]
             P == Power(base, s)
  <2>0. s \in Nat /\ s + w = w * i /\ s + w <= t /\ i - 1 \in Nat /\ i \in 0..m
    <3>1. i - 1 \in Nat /\ i \in 0..m /\ i <= m /\ i \in Int /\ m \in Int
      OBVIOUS
    <3>2. i * w <= m * w
      BY <3>1, TimesMonotone
    <3>3. w * (i - 1) = w * i - w /\ i * w = w * i /\ m * w = w * m /\ w * i \in Int
      BY <3>1
    <3>4. w * (i - 1) \in Nat
      BY <3>1, TimesNat
    <3> QED
      BY <1>0, <3>1, <3>2, <3>3, <3>4
  <2> HIDE DEF s, t
  <2>1. group \in Seq(Nat) /\ Len(group) = w /\ \A j \in 1..w : group[j] = x[s + j]
    <3>1. \A j \in 1..w : s + j \in 1..t
      BY <1>0, <2>0
    <3>2. Len(x) = t
      BY DEF t
    <3> DEFINE N == Nat
    <3>3. x \in Seq(N)
      OBVIOUS
    <3> HIDE DEF N
    <3>4. \A j \in 1..w : x[s + j] \in N
      BY ONLY <3>1, <3>2, <3>3
    <3>5. group \in [1..w -> N] /\ \A j \in 1..w : group[j] = x[s + j]
      BY <3>4
    <3> HIDE DEF group
    <3>6. w \in Nat
      OBVIOUS
    <3>7. group \in Seq(N) /\ Len(group) = w
      BY ONLY <3>5, <3>6, SeqIs
    <3> QED
      BY <3>5, <3>7 DEF N
  <2>2. y[i] = LittleEndian(group, base)
    BY DEF s, InGroups
  <2> HIDE DEF group
  <2>3. PICK u \in [0..w -> Nat] : IsValues(u, group, base, w) /\ y[i] = u[w]
    BY <2>1, <2>2, ValuesExist
  <2>4. P \in Nat
    BY <2>0, PowerNext
  <2> DEFINE D == {j \in 0..w : f[s + j] = f[s] + u[j] * P}
  <2>s. s \in 0..t
    BY <1>0, <2>0
  <2>5. 0 \in D
    <3> HIDE DEF P
    <3>1. u[0] = 0
      BY <2>3 DEF IsValues
    <3>2. s + 0 = s /\ 0 * P = 0
      BY <2>0, <2>4
    <3>3. f[s] \in Nat
      BY <2>s
    <3> QED
      BY <3>1, <3>2, <3>3
  <2>6. ASSUME NEW j \in 1..w, j - 1 \in D PROVE j \in D
    <3> DEFINE q == Power(base, j - 1)
               e == group[j]
               a == u[j - 1]
    <3>1. j - 1 \in Nat /\ s + j \in 1..t /\ (s + j) - 1 = s + (j - 1) /\ j \in 0..w
      BY <1>0, <2>0
    <3>2. q \in Nat /\ Power(base, s + (j - 1)) = P * q
      BY <2>0, <3>1, PowerNext, PowerPlus
    <3>3. f[s + j] = f[s + (j - 1)] + e * (P * q)
      BY <1>1, <2>1, <3>1, <3>2 DEF IsValues
    <3>4. u[j] = a + e * q
      BY <2>3 DEF IsValues
    <3>5. f[s + (j - 1)] = f[s] + a * P
      BY <2>6
    <3>6. e \in Nat /\ a \in Nat /\ f[s] \in Nat
      <4>1. j - 1 \in 0..w
        OBVIOUS
      <4>2. a \in Nat
        BY <4>1
      <4>3. e \in Nat
        BY <2>1
      <4> QED
        BY <2>s, <4>2, <4>3
    <3> DEFINE z == f[s]
    <3> HIDE DEF P, q, e, a, z
    <3>7. (z + a * P) + e * (P * q) = z + (a + e * q) * P
      <4> DEFINE eq == e * q
      <4>1. e * (P * q) = (e * q) * P
        BY <2>4, <3>2, <3>6
      <4>2. eq \in Nat /\ e * (P * q) = eq * P
        BY <3>2, <3>6, <4>1, TimesNat
      <4> HIDE DEF eq
      <4>3. (a + eq) * P = a * P + eq * P
        BY <2>4, <3>6, <4>2
      <4> DEFINE aP == a * P
                 eqP == eq * P
      <4>4. aP \in Nat /\ eqP \in Nat
        BY <2>4, <3>6, <4>2, TimesNat
      <4>5. e * (P * q) = eqP /\ (a + eq) * P = aP + eqP
        BY <4>2, <4>3
      <4>6. (z + aP) + eqP = z + (aP + eqP)
        BY <3>6, <4>4 DEF z
      <4> QED
        BY <4>5, <4>6 DEF eq, aP, eqP
    <3>8. f[s + j] = z + u[j] * P
      BY <3>3, <3>4, <3>5, <3>7 DEF z
    <3> QED
      BY <3>1, <3>8 DEF z
  <2>7. 0..w \subseteq D
    <3> HIDE DEF D
    <3> QED
      BY <2>5, <2>6, CountInduct
  <2>8. f[w * i] = f[s] + y[i] * P
    <3>1. w \in 0..w
      OBVIOUS
    <3> QED
      BY <2>0, <2>3, <2>7, <3>1
  <2>9. g[i] = g[i - 1] + y[i] * Power(B, i - 1)
    BY <1>2 DEF IsValues
  <2>10. Power(B, i - 1) = P
    BY <2>0, PowerTimes DEF s
  <2>11. f[s] = g[i - 1]
    BY <1>4 DEF s
  <2> QED
    BY <2>0, <2>8, <2>9, <2>10, <2>11
<1>5. 0..m \subseteq C
  <2> HIDE DEF C
  <2> QED
    BY <1>3, <1>4, CountInduct
<1>6. m \in 0..m
  OBVIOUS
<1> QED
  BY <1>1, <1>2, <1>5, <1>6

-----------------------------------------------------------------------------
(* Arithmetic digit by digit.                                              *)

\* A recursion over positions whose values are integers.
LEMMA CarriesExist ==
    ASSUME NEW m \in Nat, NEW step \in [1..m -> [Int -> Int]]
    PROVE  \E c \in [0..m -> Int] : c = [i \in 0..m |-> IF i = 0 THEN 0 ELSE step[i][c[i - 1]]]
<1> DEFINE Z == Int
           zero == 0
<1>1. zero \in Z /\ step \in [1..m -> [Z -> Z]]
  OBVIOUS
<1> HIDE DEF Z, zero
<1>2. PICK c \in [0..m -> Z] : Recurs(c, m, zero, step)
  BY <1>1, RecursionExists
<1>3. ASSUME NEW i \in 0..m PROVE c[i] = IF i = 0 THEN 0 ELSE step[i][c[i - 1]]
  <2>1. CASE i = 0
    BY <1>2, <2>1 DEF Recurs, zero
  <2>2. CASE i # 0
    <3>1. i \in 1..m
      BY <2>2
    <3> QED
      BY <1>2, <2>2, <3>1 DEF Recurs
  <2> QED
    BY <2>1, <2>2
<1>4. c \in [0..m -> Int]
  BY <1>2 DEF Z
<1>5. c = [i \in 0..m |-> IF i = 0 THEN 0 ELSE step[i][c[i - 1]]]
  BY <1>3, <1>4
<1> QED
  BY <1>4, <1>5

CarriesTo(in, c, out, base, m) ==
    c[0] = 0 /\ \A i \in 1..m : in[i] + c[i - 1] = out[i] + c[i] * base

Carries(in, g, c, out, f, base, m) ==
    /\ m \in Nat /\ base \in Nat /\ in \in [1..m -> Int] /\ out \in [1..m -> Int]
    /\ c \in [0..m -> Int] /\ g \in [0..m -> Int] /\ f \in [0..m -> Int]
    /\ IsValues(g, in, base, m) /\ IsValues(f, out, base, m)
    /\ CarriesTo(in, c, out, base, m)

Balanced(g, c, f, base, i) == g[i] = f[i] + c[i] * Power(base, i)

\* What is carried on from each position makes up for what is left there.
LEMMA Carried ==
    ASSUME NEW m, NEW base, NEW in, NEW out, NEW c, NEW g, NEW f,
           Carries(in, g, c, out, f, base, m)
    PROVE  Balanced(g, c, f, base, m)
<1> DEFINE C == {l \in 0..m : g[l] = f[l] + c[l] * Power(base, l)}
<1>0. /\ m \in Nat /\ base \in Nat /\ in \in [1..m -> Int] /\ out \in [1..m -> Int]
      /\ c \in [0..m -> Int] /\ g \in [0..m -> Int] /\ f \in [0..m -> Int]
      /\ IsValues(g, in, base, m) /\ IsValues(f, out, base, m)
      /\ CarriesTo(in, c, out, base, m)
  BY DEF Carries
<1>1. 0 \in C
  <2>1. 0 \in 0..m /\ Power(base, 0) \in Nat
    BY <1>0, PowerNext
  <2>2. g[0] = 0 /\ f[0] = 0 /\ c[0] = 0
    BY <1>0 DEF IsValues, CarriesTo
  <2> QED
    BY <2>1, <2>2
<1>2. ASSUME NEW i \in 1..m, i - 1 \in C PROVE i \in C
  <2> DEFINE p == Power(base, i - 1)
             q == Power(base, i)
  <2>1. i - 1 \in Nat /\ i \in 0..m /\ i - 1 \in 0..m /\ i - 1 + 1 = i
    BY <1>0
  <2>2. p \in Nat /\ q = base * p
    BY <1>0, <2>1, PowerNext
  <2>3. /\ g[i - 1] = f[i - 1] + c[i - 1] * p
        /\ g[i] = g[i - 1] + in[i] * p /\ f[i] = f[i - 1] + out[i] * p
    BY <1>0, <1>2 DEF IsValues
  <2>4. in[i] + c[i - 1] = out[i] + c[i] * base
    BY <1>0 DEF CarriesTo
  <2> DEFINE ci == c[i]
             cj == c[i - 1]
             a == in[i]
             o == out[i]
  <2>5. ci \in Int /\ cj \in Int /\ a \in Int /\ o \in Int /\ f[i - 1] \in Int
    BY <1>0, <2>1
  <2> HIDE DEF p, q, ci, cj, a, o
  <2>6. (a + cj) * p = (o + ci * base) * p
    BY <2>4 DEF ci, cj, a, o
  <2>7. (a + cj) * p = a * p + cj * p
    BY <1>0, <2>2, <2>5
  <2>8. (o + ci * base) * p = o * p + ci * (base * p)
    <3> DEFINE d == ci * base
    <3>1. d \in Int /\ d * p = ci * (base * p)
      BY <1>0, <2>2, <2>5
    <3> HIDE DEF d
    <3>2. (o + d) * p = o * p + d * p
      BY <1>0, <2>2, <2>5, <3>1
    <3> QED
      BY <3>1, <3>2 DEF d
  <2>9. a * p + cj * p = o * p + ci * q
    BY <2>2, <2>6, <2>7, <2>8
  <2>10. g[i] = f[i - 1] + cj * p + a * p /\ f[i] = f[i - 1] + o * p
    BY <2>3 DEF cj, a, o
  <2> DEFINE ap == a * p
             op == o * p
             cp == cj * p
             cq == ci * q
  <2>11. ap \in Int /\ op \in Int /\ cp \in Int /\ cq \in Int
    BY <1>0, <2>2, <2>5
  <2> HIDE DEF ap, op, cp, cq
  <2>12. g[i] = f[i - 1] + cp + ap /\ f[i] = f[i - 1] + op /\ ap + cp = op + cq
    BY <2>9, <2>10 DEF ap, op, cp, cq
  <2>13. g[i] = f[i] + cq
    <3> DEFINE fj == f[i - 1]
               fi == f[i]
               gi == g[i]
    <3>1. fj \in Int /\ gi = fj + cp + ap /\ fi = fj + op
      BY <2>5, <2>12
    <3> HIDE DEF fj, fi, gi
    <3>2. gi = fi + cq
      BY <2>11, <2>12, <3>1
    <3> QED
      BY <3>2 DEF gi, fi
  <2> QED
    BY <2>1, <2>13 DEF cq, q, ci
<1>3. 0..m \subseteq C
  <2> HIDE DEF C
  <2> QED
    BY <1>0, <1>1, <1>2, CountInduct
<1>4. m \in 0..m
  BY <1>0
<1> QED
  BY <1>3, <1>4 DEF Balanced

SameFrom(i, x, y, m) == \A j \in i..m : x[j] = y[j]

\* The topmost position at which two numbers differ decides which is the less.
LEMMA TopDifference ==
    ASSUME NEW m \in Nat, NEW x, NEW y
    PROVE  \/ SameFrom(1, x, y, m)
           \/ \E i \in 1..m : x[i] # y[i] /\ SameFrom(i + 1, x, y, m)
<1> DEFINE Top(l) == \E i \in 1..m : x[i] # y[i] /\ SameFrom(i + 1, x, y, m)
           C == {l \in 0..m : Top(0) \/ SameFrom(m - l + 1, x, y, m)}
<1>1. 0 \in C
  <2>1. m - 0 + 1..m = {}
    OBVIOUS
  <2> QED
    BY <2>1 DEF SameFrom
<1>2. ASSUME NEW l \in 1..m, l - 1 \in C PROVE l \in C
  <2> DEFINE i == m - l + 1
  <2>1. i \in 1..m /\ m - (l - 1) + 1 = i + 1 /\ \A j \in i..m : j = i \/ j \in i + 1..m
    OBVIOUS
  <2>2. CASE Top(0)
    BY <2>2
  <2>3. CASE ~Top(0)
    <3>1. SameFrom(i + 1, x, y, m)
      BY <1>2, <2>1, <2>3
    <3>2. x[i] = y[i]
      BY <2>1, <2>3, <3>1
    <3>3. SameFrom(i, x, y, m)
      BY <2>1, <3>1, <3>2 DEF SameFrom
    <3> QED
      BY <3>3
  <2> QED
    BY <2>2, <2>3
<1>3. 0..m \subseteq C
  <2> HIDE DEF C
  <2> QED
    BY <1>1, <1>2, CountInduct
<1>4. m \in 0..m /\ m - m + 1 = 1
  OBVIOUS
<1> QED
  BY <1>3, <1>4

\* The digits of a number, and f of what they stand for as far as position i.
Counts(f, x, base, m) ==
    /\ m \in Nat /\ base \in Nat /\ x \in [1..m -> 0..base - 1] /\ f \in [0..m -> Nat]
    /\ IsValues(f, x, base, m)

LEMMA CountsExist ==
    ASSUME NEW base \in Nat, NEW x \in Seq(0..base - 1)
    PROVE  \E f : Counts(f, x, base, Len(x)) /\ LittleEndian(x, base) = f[Len(x)]
<1>1. Len(x) \in Nat /\ x \in [1..Len(x) -> 0..base - 1] /\ x \in Seq(Nat)
  <2> DEFINE S == 0..base - 1
             N == Nat
  <2>1. S \subseteq N /\ x \in Seq(S)
    OBVIOUS
  <2> HIDE DEF S, N
  <2>2. Len(x) \in Nat /\ x \in [1..Len(x) -> S] /\ x \in Seq(N)
    BY <2>1
  <2> QED
    BY <2>2 DEF S, N
<1> QED
  BY <1>1, ValuesExist DEF Counts

LEMMA CountsSame ==
    ASSUME NEW m, NEW base, NEW x, NEW y, NEW f, NEW g, Counts(f, x, base, m),
           Counts(g, y, base, m), SameFrom(1, x, y, m)
    PROVE  f[m] = g[m]
<1>1. m \in 0..m /\ m \in Nat /\ IsValues(f, x, base, m) /\ IsValues(g, y, base, m)
      /\ \A j \in 1..m : x[j] = y[j]
  BY DEF Counts, SameFrom
<1>2. \A j \in 0..m : f[j] = g[j]
  BY <1>1, ValuesAgree
<1> QED
  BY <1>1, <1>2

LEMMA LessAt ==
    ASSUME NEW m, NEW base, NEW x, NEW y, NEW f, NEW g, Counts(f, x, base, m),
           Counts(g, y, base, m), NEW i \in 1..m, x[i] < y[i], SameFrom(i + 1, x, y, m)
    PROVE  f[m] < g[m]
<1>0. /\ m \in Nat /\ base \in Nat /\ x \in [1..m -> 0..base - 1]
      /\ y \in [1..m -> 0..base - 1] /\ f \in [0..m -> Nat] /\ g \in [0..m -> Nat]
      /\ IsValues(f, x, base, m) /\ IsValues(g, y, base, m)
  BY DEF Counts
<1> DEFINE p == Power(base, i - 1)
           D == {l \in 0..m : l >= i => f[l] < g[l]}
<1>1. i - 1 \in Nat /\ i - 1 \in 0..m /\ i \in 0..m /\ p \in Nat
  <2>1. i - 1 \in Nat /\ i - 1 \in 0..m /\ i \in 0..m
    BY <1>0
  <2> QED
    BY <1>0, <2>1, PowerNext
<1>2. f[i] < g[i]
  <2> DEFINE a == x[i]
             b == y[i]
             fj == f[i - 1]
             gj == g[i - 1]
  <2>1. f[i] = fj + a * p /\ g[i] = gj + b * p
    BY <1>0 DEF IsValues
  <2>2. fj \in 0..p - 1 /\ gj \in Nat /\ a \in Nat /\ b \in Nat /\ a + 1 <= b
    <3>1. x[i] \in 0..base - 1 /\ y[i] \in 0..base - 1
      BY <1>0
    <3>2. fj \in 0..p - 1
      BY <1>0, <1>1, ValuesBelow
    <3>3. gj \in Nat
      BY <1>0, <1>1
    <3>4. a \in 0..base - 1 /\ b \in 0..base - 1 /\ a < b /\ base \in Nat
      BY <1>0, <3>1
    <3> HIDE DEF a, b
    <3>5. a \in Nat /\ b \in Nat /\ a + 1 <= b
      BY ONLY <3>4
    <3> QED
      BY <3>2, <3>3, <3>5
  <2> HIDE DEF a, b, fj, gj, p
  <2>3. (a + 1) * p <= b * p
    BY <1>1, <2>2, TimesMonotone
  <2>4. (a + 1) * p = a * p + p
    BY <1>1, <2>2
  <2> DEFINE ap == a * p
             bp == b * p
  <2>5. ap \in Nat /\ bp \in Nat
    BY <1>1, <2>2, TimesNat
  <2> HIDE DEF ap, bp
  <2>6. ap + p <= bp
    BY <2>3, <2>4 DEF ap, bp
  <2>7. fj + ap < gj + bp
    BY <1>1, <2>2, <2>5, <2>6
  <2> QED
    BY <2>1, <2>7 DEF ap, bp
<1>3. 0 \in D
  BY <1>0
<1>4. ASSUME NEW l \in 1..m, l - 1 \in D PROVE l \in D
  <2>0. l \in 0..m /\ l \in Nat /\ i \in Nat
    BY <1>0
  <2>1. CASE l < i
    BY <2>0, <2>1
  <2>2. CASE l = i
    BY <1>2, <2>0, <2>2
  <2>3. CASE l > i
    <3>1. x[l] = y[l] /\ l - 1 >= i /\ l - 1 \in 0..m
      BY <1>0, <2>0, <2>3 DEF SameFrom
    <3>2. f[l - 1] < g[l - 1]
      BY <1>4, <3>1
    <3> DEFINE t == x[l] * Power(base, l - 1)
    <3>3. f[l] = f[l - 1] + t /\ g[l] = g[l - 1] + t
      BY <1>0, <3>1 DEF IsValues
    <3>4. t \in Nat
      <4>1. l - 1 \in Nat /\ x[l] \in 0..base - 1
        BY <1>0
      <4>2. Power(base, l - 1) \in Nat
        BY <1>0, <4>1, PowerNext
      <4>3. x[l] \in Nat
        BY <1>0, <4>1
      <4> QED
        BY <4>2, <4>3, TimesNat
    <3> HIDE DEF t
    <3>5. f[l - 1] \in Nat /\ g[l - 1] \in Nat
      BY <1>0, <3>1
    <3>6. f[l] < g[l]
      BY <3>2, <3>3, <3>4, <3>5
    <3> QED
      BY <2>0, <3>6
  <2> QED
    BY <2>0, <2>1, <2>2, <2>3
<1>5. 0..m \subseteq D
  <2> HIDE DEF D
  <2> QED
    BY <1>0, <1>3, <1>4, CountInduct
<1>6. m \in 0..m /\ m >= i
  BY <1>0
<1> QED
  BY <1>5, <1>6

LEMMA LessMeans ==
    ASSUME NEW base \in Nat, NEW x \in Seq(0..base - 1), NEW y \in Seq(0..base - 1),
           Len(x) = Len(y)
    PROVE  LittleEndian(x, base) < LittleEndian(y, base)
             <=> \E i \in 1..Len(x) : x[i] < y[i] /\ SameFrom(i + 1, x, y, Len(x))
<1> DEFINE m == Len(x)
<1>1. m \in Nat /\ Len(y) = m
  OBVIOUS
<1>2. PICK f : Counts(f, x, base, m) /\ LittleEndian(x, base) = f[m]
  BY CountsExist
<1>3. PICK g : Counts(g, y, base, Len(y)) /\ LittleEndian(y, base) = g[Len(y)]
  BY CountsExist
<1>4. /\ Counts(g, y, base, m) /\ LittleEndian(y, base) = g[m]
      /\ f[m] \in Nat /\ g[m] \in Nat
      /\ \A i \in 1..m : x[i] \in Nat /\ y[i] \in Nat
  <2>1. Counts(g, y, base, m) /\ LittleEndian(y, base) = g[m]
    BY <1>1, <1>3
  <2>2. f \in [0..m -> Nat] /\ g \in [0..m -> Nat] /\ m \in 0..m
        /\ \A i \in 1..m : x[i] \in 0..base - 1 /\ y[i] \in 0..base - 1
    BY <1>1, <1>2, <2>1 DEF Counts
  <2> HIDE DEF m
  <2>3. f[m] \in Nat /\ g[m] \in Nat
    BY <2>2
  <2>4. \A i \in 1..m : x[i] \in Nat /\ y[i] \in Nat
    BY <2>2
  <2> QED
    BY <2>1, <2>3, <2>4
<1> HIDE DEF m
<1>5. ASSUME NEW i \in 1..m, x[i] < y[i], SameFrom(i + 1, x, y, m) PROVE f[m] < g[m]
  BY ONLY <1>2, <1>4, <1>5, LessAt
<1>6. ASSUME NEW i \in 1..m, y[i] < x[i], SameFrom(i + 1, x, y, m) PROVE g[m] < f[m]
  <2>1. SameFrom(i + 1, y, x, m)
    BY <1>6 DEF SameFrom
  <2> QED
    BY ONLY <1>2, <1>4, <1>6, <2>1, LessAt
<1>7. ASSUME f[m] < g[m]
      PROVE  \E i \in 1..m : x[i] < y[i] /\ SameFrom(i + 1, x, y, m)
  <2>1. CASE SameFrom(1, x, y, m)
    <3>1. f[m] = g[m]
      BY <1>2, <1>4, <2>1, CountsSame
    <3> QED
      BY <1>4, <1>7, <3>1
  <2>2. ASSUME NEW i \in 1..m, x[i] # y[i], SameFrom(i + 1, x, y, m)
        PROVE  x[i] < y[i]
    <3>1. x[i] \in Nat /\ y[i] \in Nat
      BY <1>4
    <3>2. ~ (y[i] < x[i])
      BY <1>4, <1>6, <1>7, <2>2
    <3> QED
      BY <2>2, <3>1, <3>2
  <2> QED
    BY <1>1, <2>1, <2>2, TopDifference
<1> QED
  BY <1>2, <1>4, <1>5, <1>7 DEF m

\* One row of the schoolbook method: a digit times a number, shifted to the digit's place.
ProductRow(a, y, i, m, col) == IF col - i + 1 \in 1..m THEN a * y[col - i + 1] ELSE 0

LEMMA RowType ==
    ASSUME NEW m \in Nat, NEW y \in [1..m -> Nat], NEW i, NEW a \in Nat, NEW col
    PROVE  ProductRow(a, y, i, m, col) \in Nat
<1>1. CASE col - i + 1 \in 1..m
  <2>1. y[col - i + 1] \in Nat
    BY <1>1
  <2>2. a * y[col - i + 1] \in Nat
    BY <2>1, TimesNat
  <2> QED
    BY <1>1, <2>2 DEF ProductRow
<1>2. CASE ~ (col - i + 1 \in 1..m)
  BY <1>2 DEF ProductRow
<1> QED
  BY <1>1, <1>2

LEMMA RowValues ==
    ASSUME NEW m, NEW base, NEW y, NEW g, Counts(g, y, base, m), NEW i \in 1..m, NEW a \in Nat
    PROVE  \E h \in [0..2 * m - 1 -> Nat] :
             /\ h[0] = 0 /\ h[2 * m - 1] = a * Power(base, i - 1) * g[m]
             /\ \A col \in 1..2 * m - 1 :
                  h[col] = h[col - 1] + ProductRow(a, y, i, m, col) * Power(base, col - 1)
<1> DEFINE w == 2 * m - 1
           p == Power(base, i - 1)
           ap == a * p
           V(col) == IF col < i THEN 0 ELSE IF col - i + 1 > m THEN g[m] ELSE g[col - i + 1]
           h == [col \in 0..w |-> ap * V(col)]
<1>0. /\ m \in Nat /\ base \in Nat /\ y \in [1..m -> 0..base - 1] /\ g \in [0..m -> Nat]
      /\ g[0] = 0 /\ \A j \in 1..m : g[j] = g[j - 1] + y[j] * Power(base, j - 1)
  BY DEF Counts, IsValues
<1>1. p \in Nat /\ ap \in Nat /\ i - 1 \in Nat /\ i \in Nat
  <2>1. i - 1 \in Nat /\ i \in Nat
    BY <1>0
  <2>2. p \in Nat
    BY <1>0, <2>1, PowerNext
  <2> QED
    BY <2>1, <2>2, TimesNat
<1>2. w \in Nat /\ 0 \in 0..w /\ w \in 0..w /\ 0 < i /\ w - i + 1 >= m /\ ~ (w < i /\ m > 1)
  BY <1>0, <1>1
<1>3. ASSUME NEW col \in 0..w PROVE V(col) \in Nat
  <2>1. m \in 0..m /\ (~(col < i) /\ ~(col - i + 1 > m) => col - i + 1 \in 0..m)
    BY <1>0, <1>1, <1>2
  <2>2. g[m] \in Nat /\ (~(col < i) /\ ~(col - i + 1 > m) => g[col - i + 1] \in Nat)
    BY <1>0, <2>1
  <2> QED
    BY <2>2
<1> HIDE DEF w, p, ap
<1>4. h \in [0..w -> Nat]
  <2> HIDE DEF V
  <2>1. \A col \in 0..w : ap * V(col) \in Nat
    BY <1>1, <1>3, TimesNat
  <2> QED
    BY <2>1
<1>5. h[0] = 0
  <2>1. V(0) = 0
    BY <1>2
  <2>2. h[0] = ap * V(0)
    BY <1>2
  <2> QED
    BY <1>1, <2>1, <2>2
<1>6. h[w] = ap * g[m]
  <2>1. ~ (w < i)
    BY <1>0, <1>2 DEF w
  <2>2. V(w) = g[m]
    <3>1. CASE w - i + 1 > m
      BY <2>1, <3>1
    <3>2. CASE ~ (w - i + 1 > m)
      <4>1. w - i + 1 = m
        BY <1>0, <1>1, <1>2, <3>2
      <4> QED
        BY <2>1, <3>2, <4>1
    <3> QED
      BY <3>1, <3>2
  <2>3. h[w] = ap * V(w)
    BY <1>2
  <2> QED
    BY <2>2, <2>3
<1>7. ASSUME NEW col \in 1..w
      PROVE  h[col] = h[col - 1] + ProductRow(a, y, i, m, col) * Power(base, col - 1)
  <2> DEFINE j == col - i + 1
  <2>1. col \in Nat /\ col - 1 \in Nat /\ col \in 0..w /\ col - 1 \in 0..w /\ j \in Int
    BY <1>1, <1>2
  <2>2. h[col] = ap * V(col) /\ h[col - 1] = ap * V(col - 1)
    BY <2>1
  <2>3. Power(base, col - 1) \in Nat
    BY <1>0, <2>1, PowerNext
  <2>4. CASE col < i
    <3>1. col - 1 < i /\ ~ (j \in 1..m)
      BY <1>1, <2>1, <2>4
    <3>2. V(col) = 0 /\ V(col - 1) = 0 /\ ProductRow(a, y, i, m, col) = 0
      BY <2>4, <3>1 DEF ProductRow
    <3> HIDE DEF h, V
    <3> QED
      BY <1>1, <2>2, <2>3, <3>2
  <2>5. CASE ~ (col < i) /\ j > m
    <3>1. ~ (j \in 1..m) /\ ~ (col - 1 < i)
      BY <1>0, <1>1, <2>1, <2>5
    <3>2. V(col) = g[m] /\ V(col - 1) = g[m]
      <4>1. V(col) = g[m]
        BY <2>5
      <4>2. CASE col - 1 - i + 1 > m
        BY <3>1, <4>1, <4>2
      <4>3. CASE ~ (col - 1 - i + 1 > m)
        <5>1. col - 1 - i + 1 = m
          BY <1>0, <1>1, <2>1, <2>5, <4>3
        <5> QED
          BY <3>1, <4>1, <4>3, <5>1
      <4> QED
        BY <4>2, <4>3
    <3>3. ProductRow(a, y, i, m, col) = 0
      BY <3>1 DEF ProductRow
    <3>4. g[m] \in Nat
      <4>1. m \in 0..m
        BY <1>0
      <4> QED
        BY <1>0, <4>1
    <3> HIDE DEF h, V
    <3>5. ap * g[m] \in Nat
      BY <1>1, <3>4, TimesNat
    <3> QED
      BY <2>2, <2>3, <3>2, <3>3, <3>5
  <2>6. CASE ~ (col < i) /\ ~ (j > m)
    <3>1. j \in 1..m /\ j - 1 \in Nat /\ j - 1 \in 0..m /\ j \in 0..m
          /\ col - 1 = (i - 1) + (j - 1)
      BY <1>0, <1>1, <2>1, <2>6
    <3>2. V(col) = g[j]
      BY <2>6
    <3>3. V(col - 1) = g[j - 1]
      <4>1. CASE col - 1 < i
        <5>1. j - 1 = 0
          BY <1>1, <2>1, <2>6, <4>1
        <5> QED
          BY <1>0, <4>1, <5>1
      <4>2. CASE ~ (col - 1 < i)
        <5>1. ~ (col - 1 - i + 1 > m) /\ col - 1 - i + 1 = j - 1
          BY <1>0, <1>1, <2>1, <2>6
        <5> QED
          BY <4>2, <5>1
      <4> QED
        BY <4>1, <4>2
    <3> DEFINE q == Power(base, j - 1)
               d == y[j]
               gj == g[j - 1]
    <3>4. q \in Nat /\ Power(base, col - 1) = p * q
      <4> HIDE DEF j
      <4>1. q \in Nat
        BY <1>0, <3>1, PowerNext
      <4>2. Power(base, (i - 1) + (j - 1)) = Power(base, i - 1) * Power(base, j - 1)
        BY <1>0, <1>1, <3>1, PowerPlus
      <4> QED
        BY <3>1, <4>1, <4>2 DEF p
    <3>5. ProductRow(a, y, i, m, col) = a * d
      BY <3>1 DEF ProductRow
    <3>6. g[j] = gj + d * q /\ gj \in Nat /\ d \in Nat
      <4>1. y[j] \in 0..base - 1 /\ g[j - 1] \in Nat /\ g[j] = g[j - 1] + y[j] * Power(base, j - 1)
        BY <1>0, <3>1
      <4> QED
        BY <1>0, <4>1
    <3> HIDE DEF h, V, j, q, d, gj
    <3>7. ap * (gj + d * q) = ap * gj + (a * d) * (p * q)
      <4> DEFINE dq == d * q
      <4>1. dq \in Nat
        BY <3>4, <3>6, TimesNat
      <4>2. ap * dq = (a * d) * (p * q)
        BY <1>1, <3>4, <3>6 DEF ap
      <4> HIDE DEF dq
      <4>3. ap * (gj + dq) = ap * gj + ap * dq
        BY <1>1, <3>6, <4>1
      <4> QED
        BY <4>2, <4>3 DEF dq
    <3> QED
      BY <2>2, <3>2, <3>3, <3>4, <3>5, <3>6, <3>7 DEF gj
  <2> QED
    BY <2>4, <2>5, <2>6
<1> HIDE DEF h
<1> QED
  BY <1>4, <1>5, <1>6, <1>7 DEF w, ap, p

\* s has the columns of the first rows, one row more at a time.
RowsAdded(s, x, y, m) ==
    /\ s \in [0..m -> [1..2 * m - 1 -> Nat]]
    /\ \A col \in 1..2 * m - 1 : s[0][col] = 0
    /\ \A i \in 1..m : \A col \in 1..2 * m - 1 :
         s[i][col] = s[i - 1][col] + ProductRow(x[i], y, i, m, col)

\* v counts the columns up to the product.
CountsProduct(v, columns, product, base, m) ==
    /\ v \in [0..2 * m - 1 -> Nat] /\ IsValues(v, columns, base, 2 * m - 1)
    /\ v[2 * m - 1] = product

\* ProductRow upon row, the columns add up to the product.
LEMMA ProductOfValues ==
    ASSUME NEW m, NEW base, NEW x, NEW y, NEW f, NEW g, Counts(f, x, base, m),
           Counts(g, y, base, m), m # 0, NEW s, RowsAdded(s, x, y, m)
    PROVE  \E v : CountsProduct(v, s[m], f[m] * g[m], base, m)
<1> DEFINE w == 2 * m - 1
           Sums(v, l) == v \in [0..w -> Nat] /\ IsValues(v, s[l], base, w) /\ v[w] = f[l] * g[m]
           C == {l \in 0..m : \E v : Sums(v, l)}
<1>0. /\ m \in Nat /\ base \in Nat /\ f \in [0..m -> Nat] /\ x \in [1..m -> 0..base - 1]
      /\ y \in [1..m -> 0..base - 1] /\ g \in [0..m -> Nat] /\ f[0] = 0
      /\ \A i \in 1..m : f[i] = f[i - 1] + x[i] * Power(base, i - 1)
  BY DEF Counts, IsValues
<1>1. w \in Nat /\ w \in 0..w /\ 0 \in 0..w /\ 0 \in 0..m /\ m \in 0..m /\ g[m] \in Nat
  BY <1>0
<1>2. ASSUME NEW col \in 1..w PROVE col - 1 \in 0..w /\ col \in 0..w /\ Power(base, col - 1) \in Nat
  <2>1. col - 1 \in Nat /\ col - 1 \in 0..w /\ col \in 0..w
    BY <1>1
  <2> QED
    BY <1>0, <2>1, PowerNext
<1>3. /\ s \in [0..m -> [1..w -> Nat]] /\ \A col \in 1..w : s[0][col] = 0
      /\ \A i \in 1..m : \A col \in 1..w :
           s[i][col] = s[i - 1][col] + ProductRow(x[i], y, i, m, col)
  BY DEF RowsAdded
<1> HIDE DEF w
<1>4. 0 \in C
  <2> DEFINE v == [col \in 0..w |-> 0]
  <2>1. v \in [0..w -> Nat] /\ v[w] = 0 /\ v[0] = 0
        /\ \A col \in 1..w : v[col] = 0 /\ v[col - 1] = 0
    BY <1>1, <1>2
  <2> HIDE DEF v
  <2>2. \A col \in 1..w : v[col] = v[col - 1] + s[0][col] * Power(base, col - 1)
    BY <1>2, <1>3, <2>1
  <2>3. IsValues(v, s[0], base, w)
    BY <2>1, <2>2 DEF IsValues
  <2>4. f[0] * g[m] = 0
    BY <1>0, <1>1
  <2>5. Sums(v, 0)
    BY <2>1, <2>3, <2>4
  <2> QED
    BY <1>1, <2>5
<1>5. ASSUME NEW l \in 1..m, l - 1 \in C PROVE l \in C
  <2> DEFINE a == x[l]
             p == Power(base, l - 1)
  <2>1. l \in 0..m /\ l - 1 \in 0..m /\ l - 1 \in Nat
    BY <1>0
  <2>2. a \in Nat /\ p \in Nat /\ f[l - 1] \in Nat /\ f[l] = f[l - 1] + a * p
    <3>1. x[l] \in 0..base - 1
      BY <1>0
    <3>2. p \in Nat
      BY <1>0, <2>1, PowerNext
    <3> QED
      BY <1>0, <2>1, <3>1, <3>2
  <2>3. PICK v : Sums(v, l - 1)
    BY <1>5
  <2>4. PICK h \in [0..w -> Nat] :
          /\ h[0] = 0 /\ h[w] = a * p * g[m]
          /\ \A col \in 1..w :
               h[col] = h[col - 1] + ProductRow(a, y, l, m, col) * Power(base, col - 1)
    <3> HIDE DEF a
    <3>1. l \in 1..m /\ a \in Nat /\ Counts(g, y, base, m)
      BY <2>2
    <3>2. \E h \in [0..2 * m - 1 -> Nat] :
            /\ h[0] = 0 /\ h[2 * m - 1] = a * Power(base, l - 1) * g[m]
            /\ \A col \in 1..2 * m - 1 :
                 h[col] = h[col - 1] + ProductRow(a, y, l, m, col) * Power(base, col - 1)
      BY ONLY <3>1, RowValues
    <3> QED
      BY <3>2 DEF w
  <2> HIDE DEF a, p
  <2> DEFINE u == [col \in 0..w |-> v[col] + h[col]]
  <2>5. v \in [0..w -> Nat] /\ v[0] = 0 /\ v[w] = f[l - 1] * g[m]
        /\ \A col \in 1..w : v[col] = v[col - 1] + s[l - 1][col] * Power(base, col - 1)
    BY <2>3 DEF IsValues
  <2>6. u \in [0..w -> Nat] /\ \A col \in 0..w : u[col] = v[col] + h[col]
    BY <2>5
  <2> HIDE DEF u
  <2>7. ASSUME NEW col \in 1..w PROVE u[col] = u[col - 1] + s[l][col] * Power(base, col - 1)
    <3> DEFINE q == Power(base, col - 1)
               b == s[l - 1][col]
               r == ProductRow(a, y, l, m, col)
               vj == v[col - 1]
               hj == h[col - 1]
    <3>1. q \in Nat /\ b \in Nat /\ r \in Nat /\ vj \in Nat /\ hj \in Nat
      <4>1. y \in [1..m -> Nat]
        <5>1. y \in [1..m -> 0..base - 1] /\ base \in Nat
          BY <1>0
        <5>2. ASSUME NEW c \in 1..m PROVE y[c] \in Nat
          BY ONLY <5>1, <5>2
        <5> QED
          BY <5>1, <5>2
      <4>2. r \in Nat
        BY <1>0, <2>2, <4>1, RowType
      <4>3. s[l - 1] \in [1..w -> Nat]
        BY <1>3, <2>1
      <4> QED
        BY <1>2, <2>4, <2>5, <4>2, <4>3
    <3>2. s[l][col] = b + r
      BY <1>3 DEF a
    <3>3. v[col] = vj + b * q /\ h[col] = hj + r * q /\ u[col] = v[col] + h[col]
          /\ u[col - 1] = vj + hj
      BY <1>2, <2>4, <2>5, <2>6
    <3> HIDE DEF q, b, r, vj, hj
    <3>4. (b + r) * q = b * q + r * q
      BY <3>1
    <3> DEFINE bq == b * q
               rq == r * q
    <3>5. bq \in Nat /\ rq \in Nat
      BY <3>1, TimesNat
    <3> HIDE DEF bq, rq
    <3>6. u[col] = vj + hj + (bq + rq)
      BY <3>1, <3>3, <3>5 DEF bq, rq
    <3>7. u[col] = u[col - 1] + (b + r) * q
      BY <3>3, <3>4, <3>6 DEF bq, rq
    <3> QED
      BY <3>2, <3>7 DEF q
  <2>8. IsValues(u, s[l], base, w)
    <3>1. u[0] = 0
      BY <1>1, <2>4, <2>5, <2>6
    <3> QED
      BY <2>7, <3>1 DEF IsValues
  <2>9. u[w] = f[l] * g[m]
    <3> DEFINE fj == f[l - 1]
               gm == g[m]
               ap == a * p
    <3>1. fj \in Nat /\ gm \in Nat /\ ap \in Nat
      BY <1>1, <2>2, TimesNat
    <3>2. u[w] = fj * gm + ap * gm /\ f[l] = fj + ap
      BY <1>1, <2>2, <2>4, <2>5, <2>6
    <3> HIDE DEF fj, gm, ap
    <3>3. (fj + ap) * gm = fj * gm + ap * gm
      BY <3>1
    <3> QED
      BY <3>2, <3>3 DEF gm
  <2>10. Sums(u, l)
    BY <2>6, <2>8, <2>9
  <2> HIDE DEF Sums
  <2> QED
    BY <2>1, <2>10
<1>6. 0..m \subseteq C
  <2> HIDE DEF C
  <2> QED
    BY <1>0, <1>4, <1>5, CountInduct
<1>7. \E v : Sums(v, m)
  BY <1>1, <1>6
<1> QED
  BY <1>7 DEF w, CountsProduct

LEMMA SumOfValues ==
    ASSUME NEW m, NEW base, NEW x, NEW y, NEW f, NEW g, Counts(f, x, base, m),
           Counts(g, y, base, m)
    PROVE  /\ IsValues([i \in 0..m |-> f[i] + g[i]], [i \in 1..m |-> x[i] + y[i]], base, m)
           /\ IsValues([i \in 0..m |-> f[i] - g[i]], [i \in 1..m |-> x[i] - y[i]], base, m)
<1> DEFINE s == [i \in 0..m |-> f[i] + g[i]]
           d == [i \in 0..m |-> f[i] - g[i]]
           xs == [i \in 1..m |-> x[i] + y[i]]
           xd == [i \in 1..m |-> x[i] - y[i]]
<1>0. /\ m \in Nat /\ base \in Nat /\ f \in [0..m -> Nat] /\ x \in [1..m -> 0..base - 1]
      /\ y \in [1..m -> 0..base - 1] /\ g \in [0..m -> Nat] /\ f[0] = 0 /\ g[0] = 0
      /\ \A i \in 1..m : f[i] = f[i - 1] + x[i] * Power(base, i - 1)
      /\ \A i \in 1..m : g[i] = g[i - 1] + y[i] * Power(base, i - 1)
  BY DEF Counts, IsValues
<1>1. 0 \in 0..m /\ s[0] = 0 /\ d[0] = 0
  BY <1>0
<1>2. ASSUME NEW i \in 1..m
      PROVE  /\ s[i] = s[i - 1] + xs[i] * Power(base, i - 1)
             /\ d[i] = d[i - 1] + xd[i] * Power(base, i - 1)
  <2> DEFINE p == Power(base, i - 1)
             a == x[i]
             b == y[i]
             fj == f[i - 1]
             gj == g[i - 1]
  <2>1. i - 1 \in Nat /\ i - 1 \in 0..m /\ i \in 0..m
    BY <1>0
  <2>2. p \in Nat /\ a \in Nat /\ b \in Nat /\ fj \in Nat /\ gj \in Nat
    <3>1. p \in Nat
      BY <1>0, <2>1, PowerNext
    <3>2. x[i] \in 0..base - 1 /\ y[i] \in 0..base - 1
      BY <1>0
    <3> QED
      BY <1>0, <2>1, <3>1, <3>2
  <2>3. /\ s[i] = f[i] + g[i] /\ s[i - 1] = fj + gj /\ xs[i] = a + b
        /\ d[i] = f[i] - g[i] /\ d[i - 1] = fj - gj /\ xd[i] = a - b
        /\ f[i] = fj + a * p /\ g[i] = gj + b * p
    BY <1>0, <2>1
  <2> HIDE DEF s, d, xs, xd, p, a, b, fj, gj
  <2>4. (a + b) * p = a * p + b * p /\ (a - b) * p = a * p - b * p
    BY <2>2
  <2> DEFINE ap == a * p
             bp == b * p
  <2>5. ap \in Nat /\ bp \in Nat
    BY <2>2, TimesNat
  <2>6. f[i] = fj + ap /\ g[i] = gj + bp /\ (a + b) * p = ap + bp /\ (a - b) * p = ap - bp
    BY <2>3, <2>4
  <2> HIDE DEF ap, bp
  <2>7. s[i] = s[i - 1] + (ap + bp) /\ d[i] = d[i - 1] + (ap - bp)
    BY <2>2, <2>3, <2>5, <2>6
  <2> QED
    BY <2>3, <2>6, <2>7 DEF p
<1> HIDE DEF s, d, xs, xd
<1>3. IsValues(s, xs, base, m) /\ IsValues(d, xd, base, m)
  BY <1>1, <1>2 DEF IsValues
<1> QED
  BY <1>3 DEF s, d, xs, xd

Carrying(in, g, c, out, base, m) ==
    /\ m \in Nat /\ base \in Nat /\ in \in [1..m -> Int] /\ c \in [0..m -> Int]
    /\ g \in [0..m -> Int] /\ IsValues(g, in, base, m)
    /\ out \in Seq(0..base - 1) /\ Len(out) = m /\ CarriesTo(in, c, out, base, m)

\* What is left at the positions and what is carried on from the last one.
Makes(total, out, last, base, m) == total = LittleEndian(out, base) + last * Power(base, m)

LEMMA CarriedNumber ==
    ASSUME NEW m, NEW base, NEW in, NEW c, NEW g, NEW out, Carrying(in, g, c, out, base, m)
    PROVE  Makes(g[m], out, c[m], base, m)
<1>0. /\ m \in Nat /\ base \in Nat /\ in \in [1..m -> Int] /\ c \in [0..m -> Int]
      /\ g \in [0..m -> Int] /\ IsValues(g, in, base, m)
      /\ out \in Seq(0..base - 1) /\ Len(out) = m /\ CarriesTo(in, c, out, base, m)
  BY DEF Carrying
<1>1. PICK f : Counts(f, out, base, m) /\ LittleEndian(out, base) = f[m]
  BY <1>0, CountsExist
<1>2. f \in [0..m -> Int] /\ IsValues(f, out, base, m) /\ m \in 0..m
  <2>1. f \in [0..m -> Nat] /\ IsValues(f, out, base, m) /\ m \in 0..m
    BY <1>1 DEF Counts
  <2>2. \A i \in 0..m : f[i] \in Int
    BY <2>1
  <2> QED
    BY <2>1, <2>2
<1>3. out \in [1..m -> Int]
  <2>1. ASSUME NEW i \in 1..m PROVE out[i] \in Int
    <3> DEFINE S == 0..base - 1
    <3>1. out \in Seq(S) /\ i \in 1..Len(out)
      BY <1>0
    <3> HIDE DEF S
    <3>2. out[i] \in S
      BY <3>1
    <3> QED
      BY <1>0, <3>2 DEF S
  <2> QED
    BY <1>0, <2>1
<1>4. Carries(in, g, c, out, f, base, m)
  BY <1>0, <1>2, <1>3 DEF Carries
<1>5. Balanced(g, c, f, base, m)
  BY <1>4, Carried
<1> QED
  BY <1>1, <1>5 DEF Balanced, Makes

LEMMA AppendValue ==
    ASSUME NEW x \in Seq(Nat), NEW d \in Nat, NEW base \in Nat
    PROVE  LittleEndian(Append(x, d), base) = LittleEndian(x, base) + d * Power(base, Len(x))
<1> DEFINE y == Append(x, d)
           m == Len(x)
           t == Len(y)
<1>1. m \in Nat /\ t = m + 1 /\ y \in Seq(Nat) /\ y[t] = d /\ t \in 1..t /\ t - 1 = m
      /\ \A i \in 1..m : y[i] = x[i]
  <2> DEFINE N == Nat
  <2>1. x \in Seq(N) /\ d \in N
    OBVIOUS
  <2> HIDE DEF N
  <2>2. m \in Nat /\ t = m + 1 /\ y \in Seq(N) /\ y[m + 1] = d /\ \A i \in 1..m : y[i] = x[i]
    BY <2>1
  <2> QED
    BY <2>2 DEF N
<1> HIDE DEF y
<1>2. PICK f \in [0..t -> Nat] : IsValues(f, y, base, t) /\ LittleEndian(y, base) = f[t]
  BY <1>1, ValuesExist
<1>3. f[t] = f[m] + d * Power(base, m)
  BY <1>1, <1>2 DEF IsValues
<1>4. LittleEndian(x, base) = f[m]
  <2>1. t \in Nat /\ Len(x) <= t /\ \A i \in 1..Len(x) : y[i] = x[i]
    BY <1>1
  <2> HIDE DEF t, m
  <2>2. LittleEndian(x, base) = f[Len(x)]
    BY <1>2, <2>1, NumberIsValue
  <2> QED
    BY <2>2 DEF m
<1> QED
  BY <1>2, <1>3, <1>4 DEF y

-----------------------------------------------------------------------------
(* Digits one by one and w at a time.                                      *)

\* The positions of m groups of w digits.
LEMMA PlaceOf ==
    ASSUME NEW w \in Nat \ {0}, NEW m \in Nat, NEW i \in 1..m, NEW j \in 1..w
    PROVE  /\ w * (i - 1) + j \in 1..w * m
           /\ (w * (i - 1) + j - 1) \div w = i - 1
           /\ (w * (i - 1) + j - 1) % w = j - 1
<1> DEFINE d == i - 1
           p == w * d
           t == w * m
           before == p + j - 1
           r == before % w
           q == before \div w
<1>1. w \in Nat /\ d \in Nat /\ j - 1 \in 0..w - 1 /\ d + 1 <= m /\ t \in Nat /\ m \in Nat
  BY TimesNat
<1>2. p \in Nat /\ p = d * w
  BY <1>1, TimesNat
<1>3. (d + 1) * w <= m * w
  BY <1>1, TimesMonotone
<1>4. p + w <= t
  <2>1. (d + 1) * w = p + w /\ m * w = t
    BY <1>1, <1>2
  <2> QED
    BY <1>3, <2>1
<1> HIDE DEF d, p, t
<1>5. p + j \in 1..t
  BY <1>1, <1>2, <1>4
<1>6. before \in Int /\ before = (j - 1) + d * w
  BY <1>1, <1>2
<1> HIDE DEF before
<1>7. q \in Int /\ r \in 0..w - 1 /\ before = r + q * w
  BY <1>6, QuotientRest
<1> HIDE DEF q, r
<1>8. (j - 1) + d * w = r + q * w /\ d \in Int
  BY <1>1, <1>6, <1>7
<1>9. d = q /\ j - 1 = r
  <2> DEFINE e == j - 1
  <2>1. e \in 0..w - 1 /\ e + d * w = r + q * w
    BY <1>1, <1>8
  <2> HIDE DEF e
  <2>2. d = q /\ e = r
    BY <1>1, <1>7, <1>8, <2>1, OneQuotient
  <2> QED
    BY <2>2 DEF e
<1> QED
  BY <1>5, <1>9 DEF d, p, t, before, q, r

\* The position of a digit among the groups.
LEMMA GroupOf ==
    ASSUME NEW w \in Nat \ {0}, NEW m \in Nat, NEW at \in 1..w * m
    PROVE  (at - 1) \div w \in 0..m - 1 /\ (at - 1) % w \in 0..w - 1
<1> DEFINE q == (at - 1) \div w
           r == (at - 1) % w
           t == w * m
<1>1. t \in Nat /\ w \in Nat /\ at \in 1..t
  BY TimesNat
<1> DEFINE before == at - 1
<1>2. before \in Nat /\ before \in Int /\ at \in Int /\ before = at - 1
  BY <1>1
<1>3. q \in Nat /\ r \in 0..w - 1 /\ at - 1 = r + q * w
  <2>1. q = before \div w /\ r = before % w
    OBVIOUS
  <2> HIDE DEF before, q, r
  <2>2. before \div w \in Nat /\ before % w \in 0..w - 1
        /\ before = (before % w) + (before \div w) * w
    BY <1>2, QuotientRest, QuotientNat
  <2> QED
    BY <1>2, <2>1, <2>2
<1> HIDE DEF q, r, before
<1>4. q < m
  <2> SUFFICES ASSUME m <= q PROVE FALSE
    BY <1>3
  <2>1. m * w <= q * w
    BY <1>1, <1>3, TimesMonotone
  <2> DEFINE s == q * w
  <2>2. m * w = t /\ s \in Nat
    BY <1>1, <1>3, TimesNat
  <2>3. t <= s /\ at - 1 = r + s
    BY <1>3, <2>1, <2>2
  <2> HIDE DEF s, t
  <2> QED
    BY ONLY <1>1, <1>2, <1>3, <2>2, <2>3
<1> QED
  BY <1>3, <1>4 DEF q, r

\* The digits of digits in the base Power(base, w), each of which has w.
Spread(x, base, w, m) ==
    [at \in 1..w * m |-> Digits(x[(at - 1) \div w + 1], base, w)[((at - 1) % w) + 1]]

LEMMA SpreadNumber ==
    ASSUME NEW base \in Nat \ {0}, NEW w \in Nat \ {0}, NEW x \in Seq(0..Power(base, w) - 1)
    PROVE  /\ Spread(x, base, w, Len(x)) \in Seq(0..base - 1)
           /\ Len(Spread(x, base, w, Len(x))) = w * Len(x)
           /\ LittleEndian(Spread(x, base, w, Len(x)), base) = LittleEndian(x, Power(base, w))
<1> DEFINE m == Len(x)
           P == Power(base, w)
           S == 0..base - 1
           t == w * m
           bits == Spread(x, base, w, m)
           D(i) == Digits(x[i], base, w)
<1>1. m \in Nat /\ P \in Nat /\ t \in Nat /\ base \in Nat /\ w \in Nat
  <2>1. m \in Nat /\ base \in Nat /\ w \in Nat
    OBVIOUS
  <2> HIDE DEF m
  <2>2. P \in Nat
    BY <2>1, PowerNext
  <2>3. t \in Nat
    BY <2>1, TimesNat
  <2> QED
    BY <2>1, <2>2, <2>3
<1>2. ASSUME NEW i \in 1..m
      PROVE  /\ D(i) \in Seq(S) /\ Len(D(i)) = w /\ LittleEndian(D(i), base) = x[i]
  <2>1. x[i] \in 0..P - 1
    BY <1>1
  <2>2. x[i] \in Nat
    BY <1>1, <2>1
  <2> QED
    BY <1>1, <2>1, <2>2, DigitsType, DigitsNumber
<1>3. bits = [at \in 1..t |-> D((at - 1) \div w + 1)[((at - 1) % w) + 1]]
  BY DEF Spread
<1> HIDE DEF S, D, bits
<1>4. ASSUME NEW at \in 1..t PROVE bits[at] \in S
  <2> DEFINE q == (at - 1) \div w
             r == (at - 1) % w
  <2>1. q \in 0..m - 1 /\ r \in 0..w - 1
    BY <1>1, GroupOf
  <2>2. bits[at] = D(q + 1)[r + 1]
    BY <1>3
  <2> HIDE DEF q, r
  <2>3. q + 1 \in 1..m /\ r + 1 \in 1..w
    BY <1>1, <2>1
  <2> QED
    BY <1>2, <2>2, <2>3
<1>5. bits \in Seq(S) /\ Len(bits) = t
  <2>1. bits \in [1..t -> S]
    <3> DEFINE e(at) == D((at - 1) \div w + 1)[((at - 1) % w) + 1]
    <3>1. bits = [at \in 1..t |-> e(at)]
      BY <1>3
    <3>2. \A at \in 1..t : e(at) \in S
      BY <1>3, <1>4
    <3> HIDE DEF e, t
    <3> QED
      BY <3>1, <3>2
  <2> HIDE DEF t
  <2> QED
    BY ONLY <1>1, <2>1, SeqIs
<1>6. ASSUME NEW i \in 1..m
      PROVE  x[i] = LittleEndian([j \in 1..w |-> bits[w * (i - 1) + j]], base)
  <2>1. ASSUME NEW j \in 1..w PROVE bits[w * (i - 1) + j] = D(i)[j]
    <3> DEFINE at == w * (i - 1) + j
    <3>1. at \in 1..t /\ (at - 1) \div w = i - 1 /\ (at - 1) % w = j - 1
      <4>1. m \in Nat
        BY <1>1
      <4> HIDE DEF m
      <4>2. /\ w * (i - 1) + j \in 1..w * m
            /\ (w * (i - 1) + j - 1) \div w = i - 1
            /\ (w * (i - 1) + j - 1) % w = j - 1
        BY ONLY <4>1, w \in Nat \ {0}, i \in 1..m, j \in 1..w, PlaceOf
      <4>3. at = w * (i - 1) + j /\ t = w * m
        OBVIOUS
      <4> HIDE DEF at, t
      <4> QED
        BY <4>2, <4>3
    <3> HIDE DEF at
    <3>2. bits[at] = D((at - 1) \div w + 1)[((at - 1) % w) + 1]
      BY <1>3, <3>1
    <3>3. (i - 1) + 1 = i /\ (j - 1) + 1 = j
      BY <1>1
    <3>4. bits[at] = D(i)[j]
      BY <3>1, <3>2, <3>3
    <3> QED
      BY <3>4 DEF at
  <2>2. [j \in 1..w |-> bits[w * (i - 1) + j]] = [j \in 1..w |-> D(i)[j]]
    BY <2>1
  <2>3. D(i) = [j \in 1..w |-> D(i)[j]]
    <3> DEFINE d == D(i)
    <3>1. d \in Seq(S) /\ Len(d) = w
      BY <1>2
    <3> HIDE DEF d
    <3>2. d = [j \in 1..w |-> d[j]]
      BY <3>1
    <3> QED
      BY <3>2 DEF d
  <2> QED
    BY <1>2, <2>2, <2>3
<1>7. x \in Seq(Nat) /\ bits \in Seq(Nat)
  <2> DEFINE N == Nat
             R == 0..P - 1
  <2>1. S \subseteq N /\ R \subseteq N /\ x \in Seq(R)
    BY <1>1 DEF S
  <2> HIDE DEF N, R
  <2>2. x \in Seq(N) /\ bits \in Seq(N)
    BY ONLY <1>5, <2>1, SeqWider
  <2> QED
    BY <2>2 DEF N
<1>8. LittleEndian(x, Power(base, w)) = LittleEndian(bits, base)
  <2>1. InGroups(x, bits, base, w, m)
    BY <1>6 DEF InGroups
  <2> QED
    BY <1>1, <1>5, <1>7, <2>1, Grouped
<1> QED
  BY <1>5, <1>8 DEF bits, S

\* w digits at a time.
Gather(bits, base, w, m) ==
    [i \in 1..m |-> LittleEndian([j \in 1..w |-> bits[w * (i - 1) + j]], base)]

LEMMA GatherNumber ==
    ASSUME NEW base \in Nat \ {0}, NEW w \in Nat \ {0}, NEW m \in Nat,
           NEW bits \in Seq(0..base - 1), Len(bits) = w * m
    PROVE  /\ Gather(bits, base, w, m) \in Seq(0..Power(base, w) - 1)
           /\ Len(Gather(bits, base, w, m)) = m
           /\ LittleEndian(Gather(bits, base, w, m), Power(base, w)) = LittleEndian(bits, base)
<1> DEFINE P == Power(base, w)
           S == 0..base - 1
           R == 0..P - 1
           part(i) == [j \in 1..w |-> bits[w * (i - 1) + j]]
           y == Gather(bits, base, w, m)
<1>1. P \in Nat /\ w \in Nat /\ base \in Nat
  BY PowerNext
<1>2. y = [i \in 1..m |-> LittleEndian(part(i), base)]
  BY DEF Gather
<1>3. ASSUME NEW i \in 1..m PROVE LittleEndian(part(i), base) \in R
  <2>1. ASSUME NEW j \in 1..w PROVE bits[w * (i - 1) + j] \in S
    <3> DEFINE at == w * (i - 1) + j
    <3>1. at \in 1..Len(bits)
      BY PlaceOf
    <3> HIDE DEF at, S
    <3>2. bits \in Seq(S)
      BY DEF S
    <3>3. bits[at] \in S
      BY <3>1, <3>2
    <3> QED
      BY <3>3 DEF at
  <2>2. part(i) \in [1..w -> S]
    BY <2>1
  <2> DEFINE z == part(i)
  <2> HIDE DEF S, z
  <2>3. z \in Seq(S) /\ Len(z) = w
    <3>1. z \in [1..w -> S]
      BY <2>2 DEF z
    <3> QED
      BY ONLY <1>1, <3>1, SeqIs
  <2>4. LittleEndian(z, base) \in 0..Power(base, Len(z)) - 1
    BY <1>1, <2>3, NumberBelow DEF S
  <2> QED
    BY <2>3, <2>4 DEF z
<1> HIDE DEF R, part, y
<1>4. y \in Seq(R) /\ Len(y) = m
  <2>1. y \in [1..m -> R]
    BY <1>2, <1>3
  <2> QED
    BY ONLY <2>1, SeqIs
<1>5. InGroups(y, bits, base, w, m)
  BY <1>2 DEF part, InGroups
<1>6. y \in Seq(Nat) /\ bits \in Seq(Nat)
  <2> DEFINE N == Nat
  <2>1. S \subseteq N /\ R \subseteq N /\ bits \in Seq(S)
    BY <1>1 DEF R
  <2> HIDE DEF N, S
  <2>2. y \in Seq(N) /\ bits \in Seq(N)
    BY ONLY <1>4, <2>1, SeqWider
  <2> QED
    BY <2>2 DEF N
<1>7. LittleEndian(y, Power(base, w)) = LittleEndian(bits, base)
  BY <1>1, <1>4, <1>5, <1>6, Grouped
<1> QED
  BY <1>4, <1>7 DEF y, R
=============================================================================
