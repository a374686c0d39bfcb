------------------------------- MODULE Lists -------------------------------
(***************************************************************************)
(* Facts about lists that the theorems of several components need, and the *)
(* induction they rest on: a set of numbers that is not empty has a least  *)
(* member.                                                                 *)
(***************************************************************************)
EXTENDS Integers, SequencesExt, FiniteSetTheorems, SequenceTheorems, WellFoundedInduction, TLAPS

(* A set of natural numbers that is not empty has a least member. *)
LEMMA LeastNat ==
    ASSUME NEW S, S \subseteq Nat, S # {}
    PROVE  \E n \in S : \A m \in S : n <= m
<1>1. PICK k \in S : TRUE
  OBVIOUS
<1> DEFINE X == 0 .. k
           T == {0 .. m : m \in S \cap X}
           R == StrictSubsetOrdering(X)
<1>2. T \subseteq FiniteSubsetsOf(X) /\ T # {}
  <2>1. \A m \in S \cap X : (0 .. m) \in SUBSET X /\ IsFiniteSet(0 .. m)
    BY FS_Interval
  <2>2. k \in S \cap X
    BY <1>1
  <2> QED
    BY <2>1, <2>2 DEF FiniteSubsetsOf
<1>3. IsWellFoundedOn(R, FiniteSubsetsOf(X))
  BY FS_StrictSubsetOrderingWellFounded
<1> HIDE DEF R, T
<1>4. PICK x \in T : \A y \in T : <<y, x>> \notin R
  BY <1>2, <1>3, WFMin
<1>5. PICK n \in S \cap X : x = 0 .. n
  BY <1>4 DEF T
<1>6. ASSUME NEW m \in S, m < n PROVE FALSE
  <2>1. m \in S \cap X /\ (0 .. m) \in T
    BY <1>5, <1>6 DEF T
  <2>2. (0 .. m) \subseteq (0 .. n) /\ n \in 0 .. n /\ n \notin 0 .. m
    BY <1>5, <1>6
  <2>3. <<0 .. m, 0 .. n>> \in R
    BY <2>1, <2>2, <1>5, <1>2, <1>4 DEF R, StrictSubsetOrdering, FiniteSubsetsOf
  <2> QED
    BY <2>1, <2>3, <1>4, <1>5
<1> QED
  BY <1>5, <1>6

(* So what holds of 0, and of n + 1 when it holds of n, holds of all numbers:
   P is the set of those it holds of. *)
LEMMA EveryNat ==
    ASSUME NEW P, 0 \in P, \A n \in Nat : n \in P => n + 1 \in P
    PROVE  Nat \subseteq P
<1> SUFFICES ASSUME NEW k \in Nat, k \notin P PROVE FALSE
  OBVIOUS
<1>1. PICK n \in Nat \ P : \A m \in Nat \ P : n <= m
  BY LeastNat
<1>2. n # 0 /\ n - 1 \in Nat /\ n - 1 \in P
  BY <1>1
<1> QED
  BY <1>1, <1>2

-----------------------------------------------------------------------------
(* Sorting. *)

(* A finite set can be listed by a value of its members. *)
LEMMA SortedListExists ==
    ASSUME NEW S, IsFiniteSet(S), NEW v, \A x \in S : v[x] \in Nat
    PROVE  \E q \in SetToSeqs(S) : \A i, j \in DOMAIN q : i < j => v[q[i]] <= v[q[j]]
<1> DEFINE Listed(T) == \E q \in SetToSeqs(T) : \A i, j \in DOMAIN q : i < j => v[q[i]] <= v[q[j]]
           P == {n \in Nat : \A T \in SUBSET S : Cardinality(T) = n => Listed(T)}
<1>1. 0 \in P
  <2> SUFFICES ASSUME NEW T \in SUBSET S, Cardinality(T) = 0 PROVE Listed(T)
    OBVIOUS
  <2>1. T = {}
    BY FS_EmptySet, FS_Subset
  <2> DEFINE f == [i \in 1 .. 0 |-> 0]
  <2>2. f \in [1 .. 0 -> T] /\ DOMAIN f = {} /\ \A i, j \in 1 .. 0 : i # j => f[i] # f[j]
    OBVIOUS
  <2> HIDE DEF f
  <2>3. f \in SetToSeqs(T)
    BY <2>2 DEF SetToSeqs
  <2> QED
    BY <2>2, <2>3
<1>2. ASSUME NEW n \in Nat, n \in P PROVE n + 1 \in P
  <2> SUFFICES ASSUME NEW T \in SUBSET S, Cardinality(T) = n + 1 PROVE Listed(T)
    OBVIOUS
  <2>1. IsFiniteSet(T) /\ T # {}
    BY FS_Subset, FS_EmptySet
  <2>2. PICK x \in T : \A y \in T : v[x] <= v[y]
    <3>1. {v[y] : y \in T} \subseteq Nat /\ {v[y] : y \in T} # {}
      BY <2>1
    <3>2. PICK m \in {v[y] : y \in T} : \A k \in {v[y] : y \in T} : m <= k
      BY <3>1, LeastNat
    <3> QED
      BY <3>2
  <2> DEFINE U == T \ {x}
  <2>3. Cardinality(U) = n
    <3>1. Cardinality(U) = Cardinality(T) - 1
      BY <2>1, FS_RemoveElement
    <3> QED
      BY <3>1
  <2>4. PICK q \in SetToSeqs(U) : \A i, j \in DOMAIN q : i < j => v[q[i]] <= v[q[j]]
    BY <1>2, <2>3
  <2> DEFINE r == [i \in 1 .. n + 1 |-> IF i = 1 THEN x ELSE q[i - 1]]
  <2>5. q \in [1 .. n -> U] /\ \A i, j \in 1 .. n : i # j => q[i] # q[j]
    BY <2>3, <2>4 DEF SetToSeqs
  <2>6. \A i \in 1 .. n + 1 : /\ r[i] \in T
                              /\ i # 1 => i - 1 \in 1 .. n /\ r[i] = q[i - 1] /\ r[i] \in U
                              /\ i = 1 => r[i] = x
    BY <2>2, <2>5
  <2>7. DOMAIN r = 1 .. n + 1
    OBVIOUS
  <2> HIDE DEF r
  <2>8. \A i, j \in 1 .. n + 1 : i # j => r[i] # r[j]
    BY <2>5, <2>6
  <2>9. \A i, j \in 1 .. n + 1 : i < j => v[r[i]] <= v[r[j]]
    <3> SUFFICES ASSUME NEW i \in 1 .. n + 1, NEW j \in 1 .. n + 1, i < j
                 PROVE  v[r[i]] <= v[r[j]]
      OBVIOUS
    <3>1. CASE i = 1
      BY <3>1, <2>2, <2>6
    <3>2. CASE i # 1
      <4>1. i - 1 \in DOMAIN q /\ j - 1 \in DOMAIN q /\ i - 1 < j - 1
        BY <3>2, <2>5
      <4>2. r[i] = q[i - 1] /\ r[j] = q[j - 1]
        BY <3>2, <2>6
      <4> QED
        BY <4>1, <4>2, <2>4
    <3> QED
      BY <3>1, <3>2
  <2>10. r \in SetToSeqs(T)
    <3>1. r \in [1 .. n + 1 -> T]
      BY <2>6, <2>7 DEF r
    <3> QED
      BY <3>1, <2>8 DEF SetToSeqs
  <2> QED
    BY <2>7, <2>9, <2>10
<1> HIDE DEF P
<1>3. Nat \subseteq P
  BY <1>1, <1>2, EveryNat
<1>4. Cardinality(S) \in Nat
  BY FS_CardinalityType
<1> QED
  BY <1>3, <1>4 DEF P

-----------------------------------------------------------------------------
(* Joining lists.  A member of the joined list is named by the list it comes
   from and its position there: a cell. *)

Cells(s, n) == UNION {{l} \X DOMAIN s[l] : l \in 1 .. n}

(* The cells of the lists before s[k]. *)
Before(s, k) == Cardinality(Cells(s, k - 1))

(* Each list adds as many cells as it is long. *)
LEMMA CellsOfOneMore ==
    ASSUME NEW S, NEW s \in Seq(Seq(S)), NEW n \in 1 .. Len(s)
    PROVE  /\ IsFiniteSet(Cells(s, n)) /\ IsFiniteSet(Cells(s, n - 1))
           /\ Cardinality(Cells(s, n)) = Before(s, n) + Len(s[n])
<1>1. ASSUME NEW m \in 0 .. Len(s) PROVE IsFiniteSet(Cells(s, m))
  <2> DEFINE Row(l) == {l} \X DOMAIN s[l]
  <2>1. ASSUME NEW l \in 1 .. m PROVE IsFiniteSet(Row(l))
    <3>1. s[l] \in Seq(S)
      BY <2>1
    <3>2. DOMAIN s[l] = 1 .. Len(s[l]) /\ Len(s[l]) \in Nat
      BY <3>1
    <3>3. IsFiniteSet(1 .. Len(s[l]))
      BY <3>2, FS_Interval
    <3>4. IsFiniteSet({l})
      BY FS_Singleton
    <3> QED
      BY <3>2, <3>3, <3>4, FS_Product
  <2>2. IsFiniteSet(1 .. m)
    BY FS_Interval
  <2> DEFINE g == [l \in 1 .. m |-> Row(l)]
  <2>3. IsFiniteSet({Row(l) : l \in 1 .. m})
    <3>1. g \in Surjection(1 .. m, {Row(l) : l \in 1 .. m})
      BY DEF Surjection
    <3> HIDE DEF g, Row
    <3> QED
      BY <2>2, <3>1, FS_Surjection
  <2> HIDE DEF Row
  <2>4. IsFiniteSet(UNION {Row(l) : l \in 1 .. m})
    BY <2>1, <2>3, FS_UNION
  <2> QED
    BY <2>4 DEF Cells, Row
<1>2. IsFiniteSet(Cells(s, n)) /\ IsFiniteSet(Cells(s, n - 1))
  BY <1>1
<1> DEFINE row == {n} \X DOMAIN s[n]
<1>3. Cells(s, n) = Cells(s, n - 1) \cup row
  <2>1. 1 .. n = (1 .. n - 1) \cup {n}
    OBVIOUS
  <2> QED
    BY <2>1 DEF Cells
<1>4. Cells(s, n - 1) \cap row = {}
  BY DEF Cells
<1>5. IsFiniteSet(row) /\ Cardinality(row) = Len(s[n])
  <2>1. s[n] \in Seq(S)
    OBVIOUS
  <2>2. DOMAIN s[n] = 1 .. Len(s[n]) /\ Len(s[n]) \in Nat
    BY <2>1
  <2>3. IsFiniteSet(DOMAIN s[n]) /\ Cardinality(DOMAIN s[n]) = Len(s[n])
    BY <2>2, FS_Interval
  <2>4. IsFiniteSet({n}) /\ Cardinality({n}) = 1
    BY FS_Singleton
  <2>5. IsFiniteSet(row) /\ Cardinality(row) = Cardinality({n}) * Cardinality(DOMAIN s[n])
    BY <2>3, <2>4, FS_Product
  <2> QED
    BY <2>2, <2>3, <2>4, <2>5
<1> HIDE DEF row
<1>6. Cardinality(Cells(s, n)) =
          Cardinality(Cells(s, n - 1)) + Cardinality(row) - Cardinality({})
  BY <1>2, <1>3, <1>4, <1>5, FS_Union
<1>7. Cardinality({}) = 0
  BY FS_EmptySet
<1>8. Cardinality(Cells(s, n - 1)) \in Nat /\ Len(s[n]) \in Nat
  BY <1>2, FS_CardinalityType
<1> QED
  BY <1>2, <1>5, <1>6, <1>7, <1>8 DEF Before

(* The function that FlattenSeq is defined by: f[n] joins the first n lists. *)
Joins(f, s, n) == f = [i \in 1 .. n |-> IF i = 1 THEN s[i] ELSE f[i - 1] \o s[i]]

(* There is one. *)
LEMMA JoinsExists ==
    ASSUME NEW s
    PROVE  \A n \in Nat : \E f : Joins(f, s, n)
<1> DEFINE P == {n \in Nat : \E f : Joins(f, s, n)}
<1>1. 0 \in P
  <2> DEFINE f == [i \in 1 .. 0 |-> 0]
  <2>1. f = [i \in 1 .. 0 |-> IF i = 1 THEN s[i] ELSE f[i - 1] \o s[i]]
    OBVIOUS
  <2> QED
    BY <2>1 DEF Joins
<1>2. ASSUME NEW n \in Nat, n \in P PROVE n + 1 \in P
  <2>1. PICK f : Joins(f, s, n)
    BY <1>2
  <2> DEFINE g == [i \in 1 .. n + 1 |->
                      IF i = n + 1 THEN IF i = 1 THEN s[i] ELSE f[i - 1] \o s[i] ELSE f[i]]
             h == [i \in 1 .. n + 1 |-> IF i = 1 THEN s[i] ELSE g[i - 1] \o s[i]]
  <2>2. ASSUME NEW i \in 1 .. n + 1 PROVE g[i] = h[i]
    <3>1. CASE i = 1 /\ n # 0
      BY <3>1, <2>1 DEF Joins
    <3>2. CASE i = 1 /\ n = 0
      BY <3>2
    <3>3. CASE i # 1 /\ i = n + 1
      <4>1. i - 1 \in 1 .. n + 1 /\ i - 1 # n + 1
        BY <3>3
      <4>2. g[i - 1] = f[i - 1]
        BY <4>1
      <4> QED
        BY <3>3, <4>2
    <3>4. CASE i # 1 /\ i # n + 1
      <4>1. i \in 1 .. n /\ i - 1 \in 1 .. n + 1 /\ i - 1 # n + 1
        BY <3>4
      <4>2. g[i] = f[i] /\ g[i - 1] = f[i - 1]
        BY <4>1
      <4>3. f[i] = f[i - 1] \o s[i]
        BY <3>4, <4>1, <2>1 DEF Joins
      <4> QED
        BY <3>4, <4>2, <4>3
    <3> QED
      BY <3>1, <3>2, <3>3, <3>4
  <2>3. g = h
    BY <2>2
  <2>4. g = [i \in 1 .. n + 1 |-> IF i = 1 THEN s[i] ELSE g[i - 1] \o s[i]]
    BY <2>3
  <2> HIDE DEF g, h
  <2>5. Joins(g, s, n + 1)
    BY <2>4 DEF Joins
  <2> QED
    BY <2>5
<1> HIDE DEF P
<1>3. Nat \subseteq P
  BY <1>1, <1>2, EveryNat
<1> QED
  BY <1>3 DEF P

(* t joins the first n lists. *)
IsJoined(t, s, n, S) ==
    /\ t \in Seq(S)
    /\ Len(t) = Cardinality(Cells(s, n))
    /\ \A k \in 1 .. n : \A i \in DOMAIN s[k] :
          /\ Before(s, k) + i \in DOMAIN t
          /\ t[Before(s, k) + i] = s[k][i]
    /\ \A p \in DOMAIN t : \E k \in 1 .. n : \E i \in DOMAIN s[k] : p = Before(s, k) + i

(* A joined list has a member for each cell, in the order of the cells. *)
LEMMA FlattenIsJoined ==
    ASSUME NEW S, NEW s \in Seq(Seq(S))
    PROVE  /\ FlattenSeq(s) \in Seq(S)
           /\ Len(FlattenSeq(s)) = Cardinality(Cells(s, Len(s)))
           /\ \A k \in DOMAIN s : \A i \in DOMAIN s[k] :
                 /\ Before(s, k) + i \in DOMAIN FlattenSeq(s)
                 /\ FlattenSeq(s)[Before(s, k) + i] = s[k][i]
           /\ \A p \in DOMAIN FlattenSeq(s) :
                 \E k \in DOMAIN s : \E i \in DOMAIN s[k] : p = Before(s, k) + i
<1>1. IsJoined(<<>>, s, 0, S)
  <2>1. Cells(s, 0) = {} /\ 1 .. 0 = {}
    BY DEF Cells
  <2>2. <<>> \in Seq(S) /\ Len(<<>>) = 0 /\ DOMAIN <<>> = {}
    OBVIOUS
  <2> QED
    BY <2>1, <2>2, FS_EmptySet DEF IsJoined
<1>2. ASSUME NEW n \in 1 .. Len(s), NEW t, IsJoined(t, s, n - 1, S)
      PROVE  IsJoined(t \o s[n], s, n, S)
  <2> DEFINE u == t \o s[n]
  <2>1. s[n] \in Seq(S) /\ t \in Seq(S)
    BY <1>2 DEF IsJoined
  <2>2. /\ u \in Seq(S) /\ Len(u) = Len(t) + Len(s[n])
        /\ \A p \in 1 .. Len(t) : u[p] = t[p]
        /\ \A i \in 1 .. Len(s[n]) : u[Len(t) + i] = s[n][i]
    BY <2>1
  <2>3. DOMAIN t = 1 .. Len(t) /\ DOMAIN s[n] = 1 .. Len(s[n]) /\ DOMAIN u = 1 .. Len(t) + Len(s[n])
        /\ Len(t) \in Nat /\ Len(s[n]) \in Nat
    BY <2>1, <2>2
  <2> HIDE DEF u
  <2>4. Len(t) = Before(s, n)
    BY <1>2 DEF IsJoined, Before
  <2>5. Len(u) = Cardinality(Cells(s, n))
    BY <2>2, <2>4, CellsOfOneMore
  <2>6. ASSUME NEW k \in 1 .. n, NEW i \in DOMAIN s[k]
        PROVE  Before(s, k) + i \in DOMAIN u /\ u[Before(s, k) + i] = s[k][i]
    <3>1. CASE k = n
      BY <3>1, <2>2, <2>3, <2>4
    <3>2. CASE k # n
      <4>1. k \in 1 .. n - 1
        BY <3>2
      <4>2. Before(s, k) + i \in DOMAIN t /\ t[Before(s, k) + i] = s[k][i]
        BY <4>1, <1>2 DEF IsJoined
      <4> QED
        BY <4>2, <2>2, <2>3
    <3> QED
      BY <3>1, <3>2
  <2>7. ASSUME NEW p \in DOMAIN u
        PROVE  \E k \in 1 .. n : \E i \in DOMAIN s[k] : p = Before(s, k) + i
    <3>1. CASE p \in DOMAIN t
      <4>1. PICK k \in 1 .. n - 1 : \E i \in DOMAIN s[k] : p = Before(s, k) + i
        BY <3>1, <1>2 DEF IsJoined
      <4> QED
        BY <4>1
    <3>2. CASE p \notin DOMAIN t
      <4>1. p - Len(t) \in DOMAIN s[n] /\ p = Before(s, n) + (p - Len(t))
        BY <3>2, <2>3, <2>4
      <4> QED
        BY <4>1
    <3> QED
      BY <3>1, <3>2
  <2> QED
    BY <2>2, <2>5, <2>6, <2>7 DEF IsJoined, u
<1>3. DOMAIN s = 1 .. Len(s) /\ Len(s) \in Nat
  OBVIOUS
<1>4. CASE Len(s) = 0
  <2>1. s = <<>> /\ FlattenSeq(s) = <<>>
    BY <1>4 DEF FlattenSeq
  <2>2. IsJoined(FlattenSeq(s), s, Len(s), S)
    BY <2>1, <1>1, <1>4
  <2> QED
    BY <2>2, <1>3 DEF IsJoined
<1>5. CASE Len(s) # 0
  <2> DEFINE F == CHOOSE f : f = [i \in 1 .. Len(s) |-> IF i = 1 THEN s[i] ELSE f[i - 1] \o s[i]]
  <2>1. Joins(F, s, Len(s))
    BY <1>3, JoinsExists DEF Joins
  <2>2. FlattenSeq(s) = F[Len(s)]
    BY <1>5 DEF FlattenSeq
  <2> HIDE DEF F
  <2> DEFINE P == {n \in Nat : n \in 1 .. Len(s) => IsJoined(F[n], s, n, S)}
  <2>3. ASSUME NEW n \in Nat, n \in P PROVE n + 1 \in P
    <3> SUFFICES ASSUME n + 1 \in 1 .. Len(s) PROVE IsJoined(F[n + 1], s, n + 1, S)
      OBVIOUS
    <3>1. CASE n = 0
      <4>1. F[1] = s[1] /\ s[1] \in Seq(S)
        BY <2>1, <3>1 DEF Joins
      <4>2. F[1] = <<>> \o s[1]
        BY <4>1
      <4>3. 1 \in 1 .. Len(s) /\ 1 - 1 = 0
        BY <3>1
      <4>4. IsJoined(<<>> \o s[1], s, 1, S)
        BY <4>3, <1>1, <1>2
      <4> QED
        BY <3>1, <4>2, <4>4
    <3>2. CASE n # 0
      <4>1. n + 1 # 1 /\ (n + 1) - 1 = n /\ n \in 1 .. Len(s)
        BY <3>2, <1>3
      <4>2. F[n + 1] = F[n] \o s[n + 1]
        BY <2>1, <4>1 DEF Joins
      <4>3. IsJoined(F[n], s, n, S)
        BY <4>1, <2>3
      <4> QED
        BY <4>1, <4>2, <4>3, <1>2
    <3> QED
      BY <3>1, <3>2
  <2>4. 0 \in P
    OBVIOUS
  <2> HIDE DEF P
  <2>5. Nat \subseteq P
    BY <2>3, <2>4, EveryNat
  <2>6. IsJoined(F[Len(s)], s, Len(s), S)
    <3>1. Len(s) \in P /\ Len(s) \in 1 .. Len(s)
      BY <2>5, <1>3, <1>5
    <3> QED
      BY <3>1 DEF P
  <2> QED
    BY <2>2, <2>6, <1>3 DEF IsJoined
<1> QED
  BY <1>4, <1>5
=============================================================================
