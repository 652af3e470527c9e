-------------------------- MODULE ArrayFilter_proofs --------------------------
(***************************************************************************)
(* What filter() returns: the elements at the chosen indices, all of them, *)
(* each of them once, in their order.                                      *)
(***************************************************************************)
EXTENDS ArrayFilter, FiniteSetTheorems, FunctionTheorems, TLAPS

(* Every number up to the count of the indices is the rank of one of them, and
   a greater index has a greater rank (Array.prototype.filter). *)
LEMMA NthIndexProperties ==
  ASSUME NEW I \in SUBSET Nat, IsFiniteSet(I)
  PROVE  /\ Cardinality(I) \in Nat
         /\ \A n \in 1 .. Cardinality(I) :
              /\ NthIndex(I, n) \in I
              /\ Cardinality({k \in I : k <= NthIndex(I, n)}) = n
         /\ \A i \in I : \E n \in 1 .. Cardinality(I) : NthIndex(I, n) = i
         /\ \A m, n \in 1 .. Cardinality(I) :
              m < n => NthIndex(I, m) < NthIndex(I, n)
  <1> DEFINE N == Cardinality(I)
             Upto(i) == {k \in I : k <= i}
             rank == [i \in I |-> Cardinality(Upto(i))]
  <1>1. N \in Nat
    BY FS_CardinalityType
  <1>2. \A i \in I : /\ Upto(i) \in SUBSET I /\ i \in Upto(i)
                     /\ IsFiniteSet(Upto(i))
                     /\ Cardinality(Upto(i)) \in 1 .. N
    <2> TAKE i \in I
    <2>1. Upto(i) \in SUBSET I /\ i \in Upto(i)
      OBVIOUS
    <2>2. /\ IsFiniteSet(Upto(i)) /\ Cardinality(Upto(i)) <= N
          /\ Cardinality(Upto(i)) \in Nat
      BY <2>1, FS_Subset, FS_CardinalityType
    <2>3. Cardinality(Upto(i)) # 0
      BY <2>1, <2>2, FS_EmptySet
    <2> HIDE DEF Upto
    <2> QED BY <1>1, <2>1, <2>2, <2>3
  <1>3. \A i, j \in I : i < j => rank[i] < rank[j]
    <2> SUFFICES ASSUME NEW i \in I, NEW j \in I, i < j
                 PROVE  rank[i] < rank[j]
      OBVIOUS
    <2>0. i \in Nat /\ j \in Nat /\ \A k \in I : k \in Nat
      OBVIOUS
    <2>1. Upto(i) \in SUBSET Upto(j) /\ j \in Upto(j) /\ j \notin Upto(i)
      <3>1. \A k \in I : k <= i => k <= j
        BY <2>0
      <3>2. j <= j /\ ~(j <= i)
        BY <2>0
      <3> QED BY <3>1, <3>2, Zenon
    <2>2. rank[i] <= rank[j] /\ rank[i] # rank[j]
      BY <1>2, <2>1, FS_Subset
    <2>3. rank[i] \in Nat /\ rank[j] \in Nat
      BY <1>1, <1>2
    <2> HIDE DEF rank
    <2> QED BY <2>2, <2>3
  <1>4. rank \in [I -> 1 .. N]
    BY <1>2
  <1> HIDE DEF rank
  <1>5. \A i, j \in I : rank[i] = rank[j] => i = j
    <2> SUFFICES ASSUME NEW i \in I, NEW j \in I, rank[i] = rank[j]
                 PROVE  i = j
      OBVIOUS
    <2>1. i \in Nat /\ j \in Nat /\ rank[i] \in Nat
      BY <1>1, <1>4
    <2> QED BY <1>3, <2>1
  <1>6. rank \in Surjection(I, 1 .. N)
    <2>1. rank \in Injection(I, 1 .. N)
      BY <1>4, <1>5, Fun_IsInj
    <2>2. IsFiniteSet(1 .. N) /\ Cardinality(1 .. N) = N
      BY <1>1, FS_Interval
    <2> QED BY <2>1, <2>2, FS_Injection
  <1>7. \A n \in 1 .. N : \E i \in I : rank[i] = n
    BY <1>6, Fun_SurjectionProperties
  <1>8. \A i \in I : rank[i] = Cardinality(Upto(i))
    BY DEF rank
  <1>9. \A n \in 1 .. N : NthIndex(I, n) \in I /\ rank[NthIndex(I, n)] = n
    <2> TAKE n \in 1 .. N
    <2>1. \E i \in I : Cardinality({k \in I : k <= i}) = n
      BY <1>7, <1>8
    <2>2. /\ NthIndex(I, n) \in I
          /\ Cardinality({k \in I : k <= NthIndex(I, n)}) = n
      BY <2>1 DEF NthIndex
    <2> QED BY <1>8, <2>2
  <1>10. \A i \in I : \E n \in 1 .. N : NthIndex(I, n) = i
    BY <1>4, <1>5, <1>9
  <1>11. \A m, n \in 1 .. N : m < n => NthIndex(I, m) < NthIndex(I, n)
    <2> SUFFICES ASSUME NEW m \in 1 .. N, NEW n \in 1 .. N, m < n
                 PROVE  NthIndex(I, m) < NthIndex(I, n)
      OBVIOUS
    <2>1. NthIndex(I, m) \in Nat /\ NthIndex(I, n) \in Nat
      BY <1>9
    <2>2. /\ NthIndex(I, m) \in I /\ rank[NthIndex(I, m)] = m
          /\ NthIndex(I, n) \in I /\ rank[NthIndex(I, n)] = n
      BY <1>9
    <2>3. m \in Nat /\ n \in Nat
      BY <1>1
    <2>4. ~(NthIndex(I, n) < NthIndex(I, m))
      <3>1. NthIndex(I, n) < NthIndex(I, m) => n < m
        BY <1>3, <2>2
      <3> QED BY <2>3, <3>1
    <2>5. NthIndex(I, m) # NthIndex(I, n)
      BY <2>2, <2>3
    <2> QED BY <2>1, <2>4, <2>5
  <1> QED BY <1>1, <1>8, <1>9, <1>10, <1>11

(* filter() keeps exactly the chosen elements, each of them once, in their
   order (Array.prototype.filter). *)
LEMMA ElementsAtProperties ==
  ASSUME NEW S, NEW list \in Seq(S), NEW I \in SUBSET DOMAIN list
  PROVE  /\ ElementsAt(list, I) \in Seq(S)
         /\ Len(ElementsAt(list, I)) = Cardinality(I)
         /\ Cardinality(I) \in 0 .. Len(list)
         /\ \A n \in DOMAIN ElementsAt(list, I) :
              \E i \in I : ElementsAt(list, I)[n] = list[i]
         /\ \A i \in I : \E n \in DOMAIN ElementsAt(list, I) :
                            ElementsAt(list, I)[n] = list[i]
         /\ \A m, n \in DOMAIN ElementsAt(list, I) :
              m < n => \E i, j \in I : /\ i < j
                                       /\ ElementsAt(list, I)[m] = list[i]
                                       /\ ElementsAt(list, I)[n] = list[j]
  <1> DEFINE N == Cardinality(I)
             kept == ElementsAt(list, I)
  <1>1. DOMAIN list = 1 .. Len(list) /\ Len(list) \in Nat
    OBVIOUS
  <1>2. I \in SUBSET Nat /\ IsFiniteSet(I) /\ N <= Len(list)
    <2>1. ASSUME NEW n \in Nat
          PROVE  IsFiniteSet(1 .. n) /\ Cardinality(1 .. n) <= n
      BY FS_Interval
    <2>2. I \in SUBSET (1 .. Len(list))
      BY <1>1
    <2>3. IsFiniteSet(I) /\ N <= Len(list)
      BY <1>1, <2>1, <2>2, FS_Subset, FS_CardinalityType
    <2> QED BY <2>2, <2>3
  <1>3. /\ N \in Nat
        /\ \A n \in 1 .. N : NthIndex(I, n) \in I
        /\ \A i \in I : \E n \in 1 .. N : NthIndex(I, n) = i
        /\ \A m, n \in 1 .. N : m < n => NthIndex(I, m) < NthIndex(I, n)
    BY <1>2, NthIndexProperties
  <1>4. \A i \in I : list[i] \in S
    BY <1>1
  <1>5. kept = [n \in 1 .. N |-> list[NthIndex(I, n)]]
    BY DEF ElementsAt
  <1> HIDE DEF kept, N
  <1>6. kept \in Seq(S) /\ Len(kept) = N /\ DOMAIN kept = 1 .. N
    BY <1>3, <1>4, <1>5
  <1>7. /\ \A n \in 1 .. N : \E i \in I : kept[n] = list[i]
        /\ \A i \in I : \E n \in 1 .. N : kept[n] = list[i]
    BY <1>3, <1>5
  <1>8. ASSUME NEW m \in 1 .. N, NEW n \in 1 .. N, m < n
        PROVE  \E i, j \in I : i < j /\ kept[m] = list[i] /\ kept[n] = list[j]
    BY <1>3, <1>5, <1>8
  <1>9. N \in 0 .. Len(list)
    BY <1>1, <1>2, <1>3
  <1>10. /\ kept \in Seq(S) /\ Len(kept) = N /\ N \in 0 .. Len(list)
         /\ \A n \in DOMAIN kept : \E i \in I : kept[n] = list[i]
         /\ \A i \in I : \E n \in DOMAIN kept : kept[n] = list[i]
         /\ \A m, n \in DOMAIN kept :
              m < n => \E i, j \in I :
                         i < j /\ kept[m] = list[i] /\ kept[n] = list[j]
    <2>1. /\ \A n \in DOMAIN kept : \E i \in I : kept[n] = list[i]
          /\ \A i \in I : \E n \in DOMAIN kept : kept[n] = list[i]
      BY <1>6, <1>7
    <2>2. \A m, n \in DOMAIN kept :
            m < n => \E i, j \in I :
                       i < j /\ kept[m] = list[i] /\ kept[n] = list[j]
      BY <1>6, <1>8
    <2> QED BY <1>6, <1>9, <2>1, <2>2
  <1> QED BY <1>10 DEF kept, N
===============================================================================
