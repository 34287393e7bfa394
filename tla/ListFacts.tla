------------------------------ MODULE ListFacts -----------------------------
(***************************************************************************)
(* Facts about ranks in a finite set, smallest numbers, induction over Nat *)
(* and lists, for the proofs about what sorts, counts, filters or goes by  *)
(* the first of several.  An order is a set of pairs.  Induction follows   *)
(* from the pigeonhole principle.                                          *)
(***************************************************************************)
EXTENDS Lists, Functions, FiniteSetTheorems, TLAPS

(* Sets of numbers of a list are finite, and have a number of elements.    *)
LEMMA NumbersFinite ==
    ASSUME NEW n \in Nat, NEW S \in SUBSET (1 .. n)
    PROVE  S \in SUBSET Nat /\ IsFiniteSet(S) /\ Cardinality(S) \in Nat
<1>1. IsFiniteSet(1 .. n)
  BY FS_Interval
<1>2. IsFiniteSet(S)
  BY <1>1, FS_Subset
<1>. QED  BY <1>2, FS_CardinalityType

-----------------------------------------------------------------------------
(* Ranks.                                                                  *)

(* What comes before an element.                                           *)
Below(S, R, i) == {j \in S : <<j, i>> \in R}

(* A strict total order on a set.                                          *)
StrictOrder(S, R) ==
    /\ \A i \in S : <<i, i>> \notin R
    /\ \A i, j \in S : <<i, j>> \in R \/ i = j \/ <<j, i>> \in R
    /\ \A i, j, k \in S : <<i, j>> \in R /\ <<j, k>> \in R => <<i, k>> \in R

(* Fewer elements than there are come before any of them.                  *)
LEMMA RankBounds ==
    ASSUME NEW S, IsFiniteSet(S), NEW R, StrictOrder(S, R), NEW i \in S
    PROVE  /\ IsFiniteSet(Below(S, R, i))
           /\ Cardinality(Below(S, R, i)) \in 0 .. Cardinality(S) - 1
<1>1. Below(S, R, i) \in SUBSET (S \ {i})
  BY DEF Below, StrictOrder
<1>2. IsFiniteSet(S \ {i}) /\ Cardinality(S \ {i}) = Cardinality(S) - 1
  BY FS_RemoveElement
<1>3. /\ IsFiniteSet(Below(S, R, i))
      /\ Cardinality(Below(S, R, i)) <= Cardinality(S \ {i})
  BY <1>1, <1>2, FS_Subset
<1>4. Cardinality(Below(S, R, i)) \in Nat /\ Cardinality(S) \in Nat
  BY <1>3, FS_CardinalityType
<1>. QED  BY <1>2, <1>3, <1>4

(* Fewer come before one than before a later one.                          *)
LEMMA RankGrows ==
    ASSUME NEW S, IsFiniteSet(S), NEW R, StrictOrder(S, R), NEW i \in S, NEW j \in S,
           <<i, j>> \in R
    PROVE  Cardinality(Below(S, R, i)) < Cardinality(Below(S, R, j))
<1>1. Below(S, R, i) \in SUBSET (Below(S, R, j) \ {i})
  BY DEF Below, StrictOrder
<1>2. IsFiniteSet(Below(S, R, j)) /\ i \in Below(S, R, j)
  BY RankBounds DEF Below
<1>3. /\ IsFiniteSet(Below(S, R, j) \ {i})
      /\ Cardinality(Below(S, R, j) \ {i}) = Cardinality(Below(S, R, j)) - 1
  BY <1>2, FS_RemoveElement
<1>4. Cardinality(Below(S, R, i)) <= Cardinality(Below(S, R, j) \ {i})
  BY <1>1, <1>3, FS_Subset
<1>5. Cardinality(Below(S, R, i)) \in Nat /\ Cardinality(Below(S, R, j)) \in Nat
  BY RankBounds
<1>. QED  BY <1>3, <1>4, <1>5

(* So the ranks are the numbers from 0 on, each taken once.                *)
LEMMA RankBijection ==
    ASSUME NEW S, IsFiniteSet(S), NEW R, StrictOrder(S, R)
    PROVE  [i \in S |-> Cardinality(Below(S, R, i))] \in Bijection(S, 0 .. Cardinality(S) - 1)
<1>. DEFINE rank == [i \in S |-> Cardinality(Below(S, R, i))]
            T == 0 .. Cardinality(S) - 1
<1>0. Cardinality(S) \in Nat
  BY FS_CardinalityType
<1>1. rank \in [S -> T]
  BY RankBounds
<1>2. ASSUME NEW i \in S, NEW j \in S, rank[i] = rank[j] PROVE i = j
  <2>1. CASE <<i, j>> \in R
    <3>1. rank[i] < rank[j]
      BY <2>1, RankGrows
    <3>. QED  BY <1>0, <1>1, <1>2, <3>1
  <2>2. CASE <<j, i>> \in R
    <3>1. rank[j] < rank[i]
      BY <2>2, RankGrows
    <3>. QED  BY <1>0, <1>1, <1>2, <3>1
  <2>. QED  BY <2>1, <2>2 DEF StrictOrder
<1>3. rank \in Injection(S, T)
  BY <1>1, <1>2 DEF Injection, IsInjective
<1>4. IsFiniteSet(T) /\ Cardinality(T) = Cardinality(S)
  BY <1>0, FS_Interval, SMTT(30)
<1>5. rank \in Surjection(S, T)
  BY <1>3, <1>4, FS_Injection
<1>. QED  BY <1>3, <1>5 DEF Bijection

(* A sort that is cut after n keeps n elements, or all of them.            *)
LEMMA TopCount ==
    ASSUME NEW S, IsFiniteSet(S), NEW R, StrictOrder(S, R), NEW n \in Nat
    PROVE  LET T == {i \in S : Cardinality(Below(S, R, i)) < n} IN
           IsFiniteSet(T) /\ Cardinality(T) = IF n <= Cardinality(S) THEN n ELSE Cardinality(S)
<1>. DEFINE T == {i \in S : Cardinality(Below(S, R, i)) < n}
            rank == [i \in S |-> Cardinality(Below(S, R, i))]
            m == IF n <= Cardinality(S) THEN n ELSE Cardinality(S)
            f == [i \in T |-> rank[i]]
<1>0. Cardinality(S) \in Nat
  BY FS_CardinalityType
<1>1. rank \in Bijection(S, 0 .. Cardinality(S) - 1)
  BY RankBijection
<1>. HIDE DEF rank
<1>2. /\ \A i \in S : rank[i] \in 0 .. Cardinality(S) - 1
      /\ \A i, j \in S : rank[i] = rank[j] => i = j
      /\ \A k \in 0 .. Cardinality(S) - 1 : \E i \in S : rank[i] = k
  BY <1>1 DEF Bijection, Injection, Surjection, IsInjective
<1>3. T = {i \in S : rank[i] < n}
  BY DEF rank
<1>. HIDE DEF T
<1>4. f \in [T -> 0 .. m - 1]
  BY <1>0, <1>2, <1>3
<1>5. f \in Injection(T, 0 .. m - 1)
  BY <1>2, <1>3, <1>4 DEF Injection, IsInjective
<1>6. \A k \in 0 .. m - 1 : \E i \in T : f[i] = k
  BY <1>0, <1>2, <1>3
<1>7. f \in Bijection(T, 0 .. m - 1)
  BY <1>4, <1>5, <1>6 DEF Bijection, Surjection
<1>8. IsFiniteSet(0 .. m - 1) /\ Cardinality(0 .. m - 1) = m
  <2>1. m \in Nat
    BY <1>0
  <2>. HIDE DEF m
  <2>2. m - 1 \in Int
    BY <2>1
  <2>3. /\ IsFiniteSet(0 .. m - 1)
        /\ Cardinality(0 .. m - 1) = IF 0 > m - 1 THEN 0 ELSE (m - 1) - 0 + 1
    BY <2>2, FS_Interval
  <2>. QED  BY <2>1, <2>3
<1>9. IsFiniteSet(T)
  BY <1>3, FS_Subset
<1>10. Cardinality(T) = m
  BY <1>5, <1>7, <1>8, <1>9, FS_Injection DEF Bijection
<1>. QED  BY <1>9, <1>10 DEF T

(* An order on a finite set has a first element.                           *)
LEMMA FirstOf ==
    ASSUME NEW S, IsFiniteSet(S), S # {}, NEW R, StrictOrder(S, R)
    PROVE  \E i \in S : \A j \in S : j = i \/ <<i, j>> \in R
<1>1. Cardinality(S) \in Nat /\ Cardinality(S) # 0
  BY FS_CardinalityType, FS_EmptySet
<1>2. [i \in S |-> Cardinality(Below(S, R, i))] \in Surjection(S, 0 .. Cardinality(S) - 1)
  BY RankBijection DEF Bijection
<1>. DEFINE rank == [i \in S |-> Cardinality(Below(S, R, i))]
<1>3. PICK i \in S : Cardinality(Below(S, R, i)) = 0
  <2>1. 0 \in 0 .. Cardinality(S) - 1
    BY <1>1
  <2>2. PICK i \in S : rank[i] = 0
    BY <1>2, <2>1 DEF Surjection
  <2>. QED  BY <2>2
<1>4. Below(S, R, i) = {}
  BY <1>3, RankBounds, FS_EmptySet
<1>. QED  BY <1>4 DEF Below, StrictOrder

-----------------------------------------------------------------------------
(* Numbers.                                                                *)

(* Induction: a set with 0, and with n + 1 whenever it has n, has every    *)
(* natural number.  Otherwise the successor would map its elements up to a *)
(* missing one into fewer.                                                 *)
LEMMA Induct ==
    ASSUME NEW T, 0 \in T, \A n \in Nat : n \in T => n + 1 \in T
    PROVE  \A n \in Nat : n \in T
<1>. SUFFICES ASSUME NEW n \in Nat, n \notin T PROVE FALSE
    OBVIOUS
<1>. DEFINE U == {i \in 0 .. n : i \in T}
           V == U \ {0}
           f == [i \in U |-> i + 1]
<1>1. IsFiniteSet(0 .. n)
    BY FS_Interval
<1>2. IsFiniteSet(U)
    BY <1>1, FS_Subset
<1>3. 0 \in U
    OBVIOUS
<1>4. IsFiniteSet(V) /\ Cardinality(V) = Cardinality(U) - 1
    BY <1>2, <1>3, FS_RemoveElement
<1>5. Cardinality(U) \in Nat
    BY <1>2, FS_CardinalityType
<1>6. f \in [U -> V]
    <2>. SUFFICES ASSUME NEW i \in U PROVE i + 1 \in V
        OBVIOUS
    <2>1. i \in Nat /\ i <= n /\ i \in T
        OBVIOUS
    <2>2. i + 1 \in T
        BY <2>1
    <2>3. i # n
        BY <2>1
    <2>. QED BY <2>1, <2>2, <2>3
<1>7. Cardinality(V) < Cardinality(U)
    BY <1>4, <1>5
<1>8. \E x, y \in U : x # y /\ f[x] = f[y]
    <2>. HIDE DEF f, U, V
    <2>. QED BY <1>2, <1>4, <1>6, <1>7, FS_PigeonHole
<1>. QED BY <1>8

(* A set of natural numbers has a smallest one.                            *)
LEMMA Smallest ==
    ASSUME NEW S \in SUBSET Nat, S # {}
    PROVE  \E i \in S : \A j \in S : i <= j
<1>. SUFFICES ASSUME \A i \in S : \E j \in S : j < i
              PROVE  FALSE
  OBVIOUS
<1>. DEFINE T == {n \in Nat : \A i \in S : n < i}
<1>1. 0 \in T
  OBVIOUS
<1>2. \A n \in Nat : n \in T => n + 1 \in T
  OBVIOUS
<1>. HIDE DEF T
<1>3. \A n \in Nat : n \in T
  BY <1>1, <1>2, Induct
<1>4. PICK i \in S : i \in Nat
  OBVIOUS
<1>5. i \in T
  BY <1>3, <1>4
<1>. QED  BY <1>4, <1>5 DEF T

-----------------------------------------------------------------------------
(* Lists.                                                                  *)

(* The numbers of a finite set in ascending order: each of them, once.     *)
LEMMA AscendingLists ==
    ASSUME NEW S \in SUBSET Nat, IsFiniteSet(S)
    PROVE  /\ Ascending(S) \in Seq(S) /\ Len(Ascending(S)) = Cardinality(S)
           /\ \A i \in S : \E k \in DOMAIN Ascending(S) : Ascending(S)[k] = i
           /\ \A k, l \in DOMAIN Ascending(S) : Ascending(S)[k] = Ascending(S)[l] => k = l
<1>. DEFINE R == {p \in S \X S : p[1] < p[2]}
            rank == [i \in S |-> Cardinality(Below(S, R, i))]
            Nth(k) == CHOOSE i \in S : Cardinality({j \in S : j < i}) = k - 1
<1>0. Cardinality(S) \in Nat
  BY FS_CardinalityType
<1>1. StrictOrder(S, R)
  BY DEF StrictOrder
<1>2. rank \in Bijection(S, 0 .. Cardinality(S) - 1)
  BY <1>1, RankBijection
<1>3. ASSUME NEW i \in S PROVE Cardinality({j \in S : j < i}) = rank[i]
  <2>1. {j \in S : j < i} = Below(S, R, i)
    BY DEF Below
  <2>. QED  BY <2>1
<1>4. Ascending(S) = [k \in 1 .. Cardinality(S) |-> Nth(k)]
  BY DEF Ascending
<1>. HIDE DEF rank
<1>5. /\ \A i \in S : rank[i] \in 0 .. Cardinality(S) - 1
      /\ \A i, j \in S : rank[i] = rank[j] => i = j
      /\ \A k \in 0 .. Cardinality(S) - 1 : \E i \in S : rank[i] = k
  BY <1>2 DEF Bijection, Injection, Surjection, IsInjective
<1>6. ASSUME NEW k \in 1 .. Cardinality(S) PROVE Nth(k) \in S /\ rank[Nth(k)] = k - 1
  <2>1. k - 1 \in 0 .. Cardinality(S) - 1
    BY <1>0
  <2>2. \E i \in S : Cardinality({j \in S : j < i}) = k - 1
    BY <1>3, <1>5, <2>1
  <2>3. Nth(k) \in S /\ Cardinality({j \in S : j < Nth(k)}) = k - 1
    BY <2>2
  <2>. QED  BY <1>3, <2>3
<1>. HIDE DEF Nth
<1>7. Ascending(S) \in Seq(S) /\ Len(Ascending(S)) = Cardinality(S)
      /\ DOMAIN Ascending(S) = 1 .. Cardinality(S)
  BY <1>0, <1>4, <1>6
<1>8. ASSUME NEW i \in S PROVE \E k \in DOMAIN Ascending(S) : Ascending(S)[k] = i
  <2>1. rank[i] + 1 \in 1 .. Cardinality(S)
    BY <1>0, <1>5
  <2>2. rank[Nth(rank[i] + 1)] = rank[i] /\ Nth(rank[i] + 1) \in S
    BY <1>0, <1>5, <1>6, <2>1
  <2>3. Nth(rank[i] + 1) = i
    BY <1>5, <2>2
  <2>. QED  BY <1>4, <1>7, <2>1, <2>3
<1>9. ASSUME NEW k \in DOMAIN Ascending(S), NEW l \in DOMAIN Ascending(S),
             Ascending(S)[k] = Ascending(S)[l]
      PROVE  k = l
  <2>1. k \in Int /\ l \in Int /\ k - 1 = l - 1
    BY <1>0, <1>4, <1>6, <1>7, <1>9
  <2>. QED  BY <2>1
<1>. QED  BY <1>7, <1>8, <1>9

(* A function on the numbers of a list is a list.                          *)
LEMMA FunctionIsList ==
    ASSUME NEW s, IsList(s), NEW f, DOMAIN f = DOMAIN s, f = [i \in DOMAIN f |-> f[i]]
    PROVE  IsList(f)
<1>1. s \in Seq(ToSet(s))
  BY DEF IsList
<1>2. DOMAIN f = 1 .. Len(s) /\ Len(s) \in Nat
  BY <1>1
<1>3. \A i \in DOMAIN f : f[i] \in ToSet(f)
  BY DEF ToSet
<1>4. f \in Seq(ToSet(f))
  BY <1>2, <1>3
<1>. QED  BY <1>4 DEF IsList

(* A list with one more element.                                           *)
LEMMA AppendLists ==
    ASSUME NEW s, IsList(s), NEW x
    PROVE  /\ IsList(Append(s, x)) /\ Len(s) \in Nat
           /\ DOMAIN s = 1 .. Len(s) /\ DOMAIN Append(s, x) = 1 .. Len(s) + 1
           /\ Len(Append(s, x)) = Len(s) + 1
           /\ \A i \in DOMAIN s : Append(s, x)[i] = s[i]
           /\ Append(s, x)[Len(s) + 1] = x
<1>1. s \in Seq(ToSet(s) \cup {x})
  BY DEF IsList
<1>2. Append(s, x) \in Seq(ToSet(s) \cup {x})
  BY <1>1
<1>3. /\ Len(s) \in Nat
      /\ DOMAIN s = 1 .. Len(s) /\ DOMAIN Append(s, x) = 1 .. Len(s) + 1
      /\ Len(Append(s, x)) = Len(s) + 1
      /\ \A i \in DOMAIN s : Append(s, x)[i] = s[i]
      /\ Append(s, x)[Len(s) + 1] = x
  BY <1>1, <1>2
<1>4. Append(s, x) \in Seq(ToSet(Append(s, x)))
  BY <1>2, <1>3 DEF ToSet
<1>. QED  BY <1>3, <1>4 DEF IsList

(* A sequence is a list of its elements.                                   *)
LEMMA SeqIsList ==
    ASSUME NEW S, NEW s \in Seq(S)
    PROVE  IsList(s) /\ s \in Seq(ToSet(s)) /\ DOMAIN s = 1 .. Len(s) /\ Len(s) \in Nat
BY DEF IsList, ToSet

(* Two lists, one after the other.                                         *)
LEMMA ConcatLists ==
    ASSUME NEW s, IsList(s), NEW t, IsList(t)
    PROVE  /\ DOMAIN s = 1 .. Len(s) /\ Len(s) \in Nat /\ Len(t) \in Nat
           /\ DOMAIN (s \o t) = 1 .. Len(s) + Len(t) /\ Len(s \o t) = Len(s) + Len(t)
           /\ \A i \in DOMAIN s : (s \o t)[i] = s[i]
           /\ \A i \in 1 .. Len(t) : (s \o t)[Len(s) + i] = t[i]
           /\ IsList(s \o t)
           /\ s # <<>> => Len(s) # 0
<1>. DEFINE V == ToSet(s) \cup ToSet(t)
<1>1. s \in Seq(V) /\ t \in Seq(V) /\ s \in Seq(ToSet(s))
  BY DEF IsList
<1>2. s # <<>> => Len(s) # 0
  BY <1>1
<1>. HIDE DEF V
<1>3. s \o t \in Seq(V)
  BY <1>1
<1>4. /\ DOMAIN s = 1 .. Len(s) /\ Len(s) \in Nat /\ Len(t) \in Nat
      /\ DOMAIN (s \o t) = 1 .. Len(s) + Len(t) /\ Len(s \o t) = Len(s) + Len(t)
      /\ \A i \in DOMAIN s : (s \o t)[i] = s[i]
      /\ \A i \in 1 .. Len(t) : (s \o t)[Len(s) + i] = t[i]
  BY <1>1
<1>. QED  BY <1>2, <1>3, <1>4, SeqIsList

(* Every element of the two lists is one of the first or of the second.    *)
LEMMA ConcatParts ==
    ASSUME NEW s, IsList(s), NEW t, IsList(t)
    PROVE  /\ \A k \in DOMAIN (s \o t) :
                 \/ k \in DOMAIN s /\ (s \o t)[k] = s[k]
                 \/ \E i \in DOMAIN t : k = Len(s) + i /\ (s \o t)[k] = t[i]
           /\ \A i \in DOMAIN s : i \in DOMAIN (s \o t) /\ (s \o t)[i] = s[i]
           /\ Len(s) \in Nat /\ DOMAIN s = 1 .. Len(s) /\ DOMAIN t = 1 .. Len(t)
<1>1. PICK u : u = s \o t
  OBVIOUS
<1>2. /\ DOMAIN s = 1 .. Len(s) /\ Len(s) \in Nat /\ Len(t) \in Nat
      /\ DOMAIN u = 1 .. Len(s) + Len(t)
      /\ \A i \in DOMAIN s : u[i] = s[i]
  BY <1>1, ConcatLists
<1>3. \A i \in 1 .. Len(t) : u[Len(s) + i] = t[i]
  BY <1>1, ConcatLists
<1>4. DOMAIN t = 1 .. Len(t)
  BY DEF IsList
<1>5. ASSUME NEW k \in DOMAIN u, k \notin DOMAIN s
      PROVE  \E i \in DOMAIN t : k = Len(s) + i /\ u[k] = t[i]
  <2>1. k - Len(s) \in 1 .. Len(t) /\ k = Len(s) + (k - Len(s))
    BY <1>2, <1>5
  <2>. QED  BY <1>3, <1>4, <2>1
<1>6. \A i \in DOMAIN s : i \in DOMAIN u
  BY <1>2
<1>. QED  BY <1>1, <1>2, <1>4, <1>5, <1>6

(* So it holds what both hold.                                             *)
LEMMA ConcatSets ==
    ASSUME NEW s, IsList(s), NEW t, IsList(t)
    PROVE  IsList(s \o t) /\ ToSet(s \o t) = ToSet(s) \cup ToSet(t)
<1>0. IsList(s \o t) /\ Len(s) \in Nat /\ Len(t) \in Nat /\ DOMAIN (s \o t) = 1 .. Len(s) + Len(t)
  BY ConcatLists
<1>8. DOMAIN s = 1 .. Len(s) /\ \A i \in DOMAIN s : (s \o t)[i] = s[i]
  BY ConcatLists
<1>9. \A i \in 1 .. Len(t) : (s \o t)[Len(s) + i] = t[i]
  BY ConcatLists
<1>1. /\ DOMAIN s = 1 .. Len(s) /\ Len(s) \in Nat /\ Len(t) \in Nat
      /\ DOMAIN (s \o t) = 1 .. Len(s) + Len(t)
      /\ \A i \in DOMAIN s : (s \o t)[i] = s[i]
      /\ \A i \in 1 .. Len(t) : (s \o t)[Len(s) + i] = t[i]
      /\ IsList(s \o t)
  BY <1>0, <1>8, <1>9
<1>2. DOMAIN t = 1 .. Len(t)
  BY DEF IsList
<1>3. PICK u : u = s \o t
  OBVIOUS
<1>4. ASSUME NEW k \in DOMAIN u PROVE u[k] \in ToSet(s) \cup ToSet(t)
  <2>1. CASE k <= Len(s)
    BY <1>1, <1>3, <2>1 DEF ToSet
  <2>2. CASE ~ (k <= Len(s))
    <3>1. PICK m \in 1 .. Len(t) : k = Len(s) + m
      <4>1. k - Len(s) \in 1 .. Len(t) /\ k = Len(s) + (k - Len(s))
        BY <1>1, <1>3, <2>2
      <4>. QED  BY <4>1
    <3>. QED  BY <1>1, <1>2, <1>3, <3>1 DEF ToSet
  <2>. QED  BY <2>1, <2>2
<1>5. ASSUME NEW i \in DOMAIN s PROVE s[i] \in ToSet(u)
  BY <1>1, <1>3 DEF ToSet
<1>6. ASSUME NEW i \in 1 .. Len(t) PROVE t[i] \in ToSet(u)
  <2>1. Len(s) + i \in DOMAIN u /\ u[Len(s) + i] = t[i]
    BY <1>1, <1>3
  <2>. QED  BY <2>1 DEF ToSet
<1>7. ToSet(u) = ToSet(s) \cup ToSet(t)
  BY <1>2, <1>4, <1>5, <1>6 DEF ToSet
<1>. QED  BY <1>1, <1>3, <1>7

(* A list without its first element.                                       *)
LEMMA TailLists ==
    ASSUME NEW s, IsList(s), s # <<>>
    PROVE  /\ IsList(Tail(s)) /\ Len(s) \in Nat \ {0} /\ DOMAIN s = 1 .. Len(s)
           /\ Len(Tail(s)) = Len(s) - 1 /\ DOMAIN Tail(s) = 1 .. Len(s) - 1
           /\ \A i \in DOMAIN Tail(s) : i + 1 \in DOMAIN s /\ Tail(s)[i] = s[i + 1]
           /\ Head(s) = s[1] /\ 1 \in DOMAIN s
<1>1. s \in Seq(ToSet(s))
  BY DEF IsList
<1>2. Tail(s) \in Seq(ToSet(s))
  BY <1>1
<1>3. /\ Len(s) \in Nat \ {0} /\ DOMAIN s = 1 .. Len(s)
      /\ Len(Tail(s)) = Len(s) - 1 /\ DOMAIN Tail(s) = 1 .. Len(s) - 1
      /\ \A i \in DOMAIN Tail(s) : i + 1 \in DOMAIN s /\ Tail(s)[i] = s[i + 1]
      /\ Head(s) = s[1] /\ 1 \in DOMAIN s
  BY <1>1
<1>. QED  BY <1>2, <1>3, SeqIsList

(* A list without repetitions.                                             *)
Unrepeated(s) == IsList(s) /\ \A i, j \in DOMAIN s : s[i] = s[j] => i = j

(* Its tail has none either, nor its head.                                 *)
LEMMA UnrepeatedTail ==
    ASSUME NEW s, Unrepeated(s), s # <<>>
    PROVE  /\ Unrepeated(Tail(s)) /\ Head(s) \notin ToSet(Tail(s))
           /\ ToSet(Tail(s)) \subseteq ToSet(s) /\ Head(s) \in ToSet(s)
<1>1. IsList(s)
  BY DEF Unrepeated
<1>2. /\ IsList(Tail(s)) /\ Len(s) \in Nat \ {0} /\ DOMAIN s = 1 .. Len(s)
      /\ DOMAIN Tail(s) = 1 .. Len(s) - 1
      /\ \A i \in DOMAIN Tail(s) : i + 1 \in DOMAIN s /\ Tail(s)[i] = s[i + 1]
      /\ Head(s) = s[1] /\ 1 \in DOMAIN s
  BY <1>1, TailLists
<1>3. ASSUME NEW i \in DOMAIN Tail(s), NEW j \in DOMAIN Tail(s), Tail(s)[i] = Tail(s)[j]
      PROVE  i = j
  <2>1. i + 1 = j + 1 /\ i \in Int /\ j \in Int
    BY <1>2, <1>3 DEF Unrepeated
  <2>. QED  BY <2>1
<1>4. ASSUME NEW i \in DOMAIN Tail(s) PROVE Tail(s)[i] # Head(s) /\ Tail(s)[i] \in ToSet(s)
  <2>1. i + 1 # 1
    BY <1>2
  <2>. QED  BY <1>2, <2>1 DEF Unrepeated, ToSet
<1>. QED  BY <1>2, <1>3, <1>4 DEF Unrepeated, ToSet

(* The picked elements are those at the positions asked for.               *)
LEMMA PickedLists ==
    ASSUME NEW s, IsList(s), NEW I \in SUBSET (DOMAIN s)
    PROVE  /\ IsList(Picked(s, I)) /\ ToSet(Picked(s, I)) = {s[i] : i \in I}
           /\ \A k \in DOMAIN Picked(s, I) : \E i \in I : Picked(s, I)[k] = s[i]
           /\ (\A i, j \in I : s[i] = s[j] => i = j) => Unrepeated(Picked(s, I))
<1>1. DOMAIN s = 1 .. Len(s) /\ Len(s) \in Nat
  BY DEF IsList
<1>2. I \in SUBSET Nat /\ IsFiniteSet(I)
  BY <1>1, NumbersFinite
<1>3. PICK at : at = Ascending(I)
  OBVIOUS
<1>4. /\ at \in Seq(I)
      /\ \A i \in I : \E k \in DOMAIN at : at[k] = i
      /\ \A k, l \in DOMAIN at : at[k] = at[l] => k = l
  BY <1>2, <1>3, AscendingLists
<1>5. Picked(s, I) = [k \in DOMAIN at |-> s[at[k]]]
  BY <1>3 DEF Picked
<1>6. IsList(at) /\ DOMAIN Picked(s, I) = DOMAIN at
  BY <1>4, <1>5, SeqIsList
<1>7. IsList(Picked(s, I))
  BY <1>5, <1>6, FunctionIsList
<1>8. \A k \in DOMAIN at : at[k] \in I /\ Picked(s, I)[k] = s[at[k]]
  BY <1>4, <1>5
<1>. HIDE <1>5
<1>9. ASSUME \A i, j \in I : s[i] = s[j] => i = j PROVE Unrepeated(Picked(s, I))
  BY <1>4, <1>6, <1>7, <1>8, <1>9 DEF Unrepeated
<1>10. ToSet(Picked(s, I)) = {s[i] : i \in I}
  BY <1>4, <1>6, <1>8 DEF ToSet
<1>. QED  BY <1>6, <1>7, <1>8, <1>9, <1>10

(* The first at some positions is one of them, and there is one.           *)
LEMMA FirstAtOne ==
    ASSUME NEW s, NEW I \in SUBSET Nat
    PROVE  /\ \A x \in FirstAt(s, I) : \E i \in I : x = s[i]
           /\ \A x, y \in FirstAt(s, I) : x = y
           /\ I # {} => FirstAt(s, I) # {}
<1>1. \A x \in FirstAt(s, I) : \E i \in I : x = s[i] /\ \A j \in I : i <= j
  BY DEF FirstAt
<1>2. ASSUME NEW x \in FirstAt(s, I), NEW y \in FirstAt(s, I) PROVE x = y
  <2>1. PICK i \in I : x = s[i] /\ \A j \in I : i <= j
    BY <1>1
  <2>2. PICK j \in I : y = s[j] /\ \A k \in I : j <= k
    BY <1>1
  <2>3. i <= j /\ j <= i /\ i \in Nat /\ j \in Nat
    BY <2>1, <2>2
  <2>. QED  BY <2>1, <2>2, <2>3
<1>3. I # {} => FirstAt(s, I) # {}
  BY Smallest DEF FirstAt
<1>. QED  BY <1>1, <1>2, <1>3

(* The lists of a list, one after the other, hold what these hold.  The    *)
(* partial results exist for every number of lists.                        *)
LEMMA FlattenLists ==
    ASSUME NEW seqs, IsList(seqs), \A i \in DOMAIN seqs : IsList(seqs[i])
    PROVE  /\ IsList(FlattenSeq(seqs))
           /\ ToSet(FlattenSeq(seqs)) = UNION {ToSet(seqs[i]) : i \in DOMAIN seqs}
<1>. DEFINE n == Len(seqs)
            Partly(f, m) ==
                /\ f = [i \in 1 .. m |-> IF i = 1 THEN seqs[i] ELSE f[i - 1] \o seqs[i]]
                /\ \A i \in 1 .. m : /\ IsList(f[i])
                                     /\ ToSet(f[i]) = UNION {ToSet(seqs[j]) : j \in 1 .. i}
            T == {m \in Nat : m <= n => \E f : Partly(f, m)}
<1>1. DOMAIN seqs = 1 .. n /\ n \in Nat
  BY DEF IsList
<1>. HIDE DEF n, Partly
<1>2. 0 \in T
  <2>1. Partly([i \in {} |-> <<>>], 0)
    BY DEF Partly
  <2>. QED  BY <2>1
<1>3. ASSUME NEW m \in Nat, m \in T PROVE m + 1 \in T
  <2>. SUFFICES ASSUME m + 1 <= n PROVE \E f : Partly(f, m + 1)
    OBVIOUS
  <2>0. m <= n
    BY <1>1
  <2>1. PICK f : Partly(f, m)
    BY <1>3, <2>0
  <2>. DEFINE last == IF m = 0 THEN seqs[m + 1] ELSE f[m] \o seqs[m + 1]
              g == [i \in 1 .. m + 1 |-> IF i = m + 1 THEN last ELSE f[i]]
  <2>2. m + 1 \in DOMAIN seqs /\ IsList(seqs[m + 1])
    BY <1>1
  <2>3. IsList(last) /\ ToSet(last) = UNION {ToSet(seqs[j]) : j \in 1 .. m + 1}
    <3>1. CASE m = 0
      <4>1. 1 .. m + 1 = {1} /\ last = seqs[1]
        BY <3>1
      <4>. QED  BY <2>2, <3>1, <4>1
    <3>2. CASE m # 0
      <4>1. /\ m \in 1 .. m /\ IsList(f[m])
            /\ ToSet(f[m]) = UNION {ToSet(seqs[j]) : j \in 1 .. m}
        <5>1. m \in 1 .. m
          BY <3>2
        <5>. QED  BY <2>1, <5>1 DEF Partly
      <4>2. last = f[m] \o seqs[m + 1]
        BY <3>2
      <4>3. IsList(last) /\ ToSet(last) = ToSet(f[m]) \cup ToSet(seqs[m + 1])
        BY <2>2, <4>1, <4>2, ConcatSets
      <4>4. 1 .. m + 1 = (1 .. m) \cup {m + 1}
        OBVIOUS
      <4>. QED  BY <4>1, <4>3, <4>4
    <3>. QED  BY <3>1, <3>2
  <2>. HIDE DEF last
  <2>4. \A i \in 1 .. m : f[i] = IF i = 1 THEN seqs[i] ELSE f[i - 1] \o seqs[i]
    BY <2>1 DEF Partly
  <2>5. ASSUME NEW i \in 1 .. m + 1
        PROVE  g[i] = IF i = 1 THEN seqs[i] ELSE g[i - 1] \o seqs[i]
    <3>1. CASE i = m + 1
      <4>1. CASE m = 0
        BY <3>1, <4>1 DEF last
      <4>2. CASE m # 0
        <5>1. i # 1 /\ i - 1 = m /\ g[m] = f[m] /\ g[i] = last
          BY <3>1, <4>2
        <5>2. last = f[m] \o seqs[i]
          BY <3>1, <4>2 DEF last
        <5>. QED  BY <5>1, <5>2
      <4>. QED  BY <4>1, <4>2
    <3>2. CASE i \in 1 .. m
      <4>1. g[i] = f[i] /\ (i # 1 => g[i - 1] = f[i - 1])
        BY <3>2
      <4>. QED  BY <2>4, <3>2, <4>1
    <3>. QED  BY <3>1, <3>2
  <2>6. \A i \in 1 .. m + 1 : /\ IsList(g[i])
                              /\ ToSet(g[i]) = UNION {ToSet(seqs[j]) : j \in 1 .. i}
    <3>. SUFFICES ASSUME NEW i \in 1 .. m + 1
                  PROVE  IsList(g[i]) /\ ToSet(g[i]) = UNION {ToSet(seqs[j]) : j \in 1 .. i}
      OBVIOUS
    <3>1. CASE i = m + 1
      BY <2>3, <3>1
    <3>2. CASE i \in 1 .. m
      <4>1. g[i] = f[i]
        BY <3>2
      <4>. QED  BY <2>1, <3>2, <4>1 DEF Partly
    <3>. QED  BY <3>1, <3>2
  <2>7. g = [i \in 1 .. m + 1 |-> IF i = 1 THEN seqs[i] ELSE g[i - 1] \o seqs[i]]
    <3>1. DOMAIN g = 1 .. m + 1 /\ g = [i \in DOMAIN g |-> g[i]]
      OBVIOUS
    <3>. HIDE DEF g
    <3>. QED  BY <2>5, <3>1
  <2>. HIDE DEF g
  <2>8. Partly(g, m + 1)
    BY <2>6, <2>7 DEF Partly
  <2>. QED  BY <2>8
<1>. HIDE DEF T
<1>4. n \in T
  BY <1>1, <1>2, <1>3, Induct
<1>5. CASE n = 0
  <2>1. FlattenSeq(seqs) = seqs /\ DOMAIN seqs = {}
    BY <1>1, <1>5 DEF FlattenSeq, n
  <2>. QED  BY <2>1 DEF ToSet
<1>6. CASE n # 0
  <2>. DEFINE Step(f) == [i \in 1 .. n |-> IF i = 1 THEN seqs[i] ELSE f[i - 1] \o seqs[i]]
              flat == CHOOSE f : f = Step(f)
  <2>1. PICK f : Partly(f, n)
    BY <1>1, <1>4 DEF T
  <2>2. f = Step(f)
    BY <2>1 DEF Partly
  <2>3. flat = Step(flat)
    BY <2>2
  <2>. HIDE DEF flat
  <2>. DEFINE U == {m \in Nat : \A i \in 1 .. n : i <= m => flat[i] = f[i]}
  <2>4. 0 \in U
    OBVIOUS
  <2>5. ASSUME NEW m \in Nat, m \in U PROVE m + 1 \in U
    <3>. SUFFICES ASSUME m + 1 \in 1 .. n PROVE flat[m + 1] = f[m + 1]
      BY <2>5
    <3>1. flat[m + 1] = (IF m + 1 = 1 THEN seqs[m + 1] ELSE flat[(m + 1) - 1] \o seqs[m + 1])
      BY <2>3
    <3>2. f[m + 1] = (IF m + 1 = 1 THEN seqs[m + 1] ELSE f[(m + 1) - 1] \o seqs[m + 1])
      BY <2>2
    <3>3. m + 1 # 1 => flat[(m + 1) - 1] = f[(m + 1) - 1]
      <4>1. (m + 1) - 1 = m /\ (m + 1 # 1 => m \in 1 .. n)
        BY <1>1
      <4>. QED  BY <2>5, <4>1
    <3>. QED  BY <3>1, <3>2, <3>3
  <2>. HIDE DEF U
  <2>6. n \in U
    BY <1>1, <2>4, <2>5, Induct
  <2>7. n \in 1 .. n /\ flat[n] = f[n]
    BY <1>1, <1>6, <2>6 DEF U
  <2>8. FlattenSeq(seqs) = flat[n]
    BY <1>6 DEF FlattenSeq, flat, n
  <2>9. IsList(f[n]) /\ ToSet(f[n]) = UNION {ToSet(seqs[j]) : j \in 1 .. n}
    BY <2>1, <2>7 DEF Partly
  <2>. QED  BY <1>1, <2>7, <2>8, <2>9
<1>. QED  BY <1>5, <1>6
=============================================================================
