----------------------------- MODULE PsetProofs -----------------------------
(***************************************************************************)
(* Sets of pointers: the order of their elements, what an insertion makes  *)
(* of it, and the bytes of a list of any length.                           *)
(***************************************************************************)
EXTENDS OutputCodec, ElementsProofs, WellFoundedInduction

-----------------------------------------------------------------------------
(***************************************************************************)
(* Induction over natural numbers.                                         *)
(***************************************************************************)
\* A set of natural numbers that is not empty has a least element.
LEMMA Least ==
  ASSUME NEW T \in SUBSET Nat, T # {}
  PROVE  \E m \in T : \A k \in T : m <= k
  <1> DEFINE R == {ss \in Nat \X Nat : ss[1] < ss[2]}
  <1>1. IsWellFoundedOn(R, Nat)
    BY NatLessThanWellFounded DEF OpToRel
  <1>2. \E x \in T : \A y \in T : ~ (<< y, x >> \in R)
    <2> HIDE DEF R
    <2> QED BY <1>1, WFMin
  <1>3. PICK x \in T : \A y \in T : ~ (<< y, x >> \in R)
    BY <1>2
  <1>4. \A y \in T : ~ (y < x)
    <2> TAKE y \in T
    <2>1. ~ (<< y, x >> \in R)
      BY <1>3
    <2>2. << y, x >> \in Nat \X Nat
      OBVIOUS
    <2> QED BY <2>1, <2>2
  <1> QED BY <1>4

\* Induction as a fact about sets: one that holds 0 and every successor holds
\* all.
LEMMA Upward ==
  ASSUME NEW T, 0 \in T, \A n \in T \cap Nat : n + 1 \in T
  PROVE  Nat \subseteq T
  <1> SUFFICES ASSUME Nat \ T # {} PROVE FALSE
    OBVIOUS
  <1>1. PICK m \in Nat \ T : \A k \in Nat \ T : m <= k
    BY Least
  <1>2. m - 1 \in Nat /\ m - 1 \in T
    BY <1>1
  <1>3. (m - 1) + 1 = m
    BY <1>1
  <1> QED BY <1>1, <1>2, <1>3

-----------------------------------------------------------------------------
(***************************************************************************)
(* The order of tokens and of kinds.                                       *)
(***************************************************************************)
\* Comparing two arrays of bytes of any lengths, as operator< of QByteArray
\* does, is a strict order.
LEMMA BytesOrder ==
  ASSUME NEW a \in Bytes, NEW b \in Bytes, NEW c \in Bytes
  PROVE  /\ ~ BytesLess(a, a)
         /\ BytesLess(a, b) /\ BytesLess(b, c) => BytesLess(a, c)
  <1>1. /\ Len(a) \in Nat /\ Len(b) \in Nat /\ Len(c) \in Nat
        /\ \A i \in 1 .. Len(a) : a[i] \in Int
        /\ \A i \in 1 .. Len(b) : b[i] \in Int
        /\ \A i \in 1 .. Len(c) : c[i] \in Int
    BY RadixAssumption DEF Bytes, Byte
  <1>2. ~ BytesLess(a, a)
    BY <1>1 DEF BytesLess
  <1>3. ASSUME BytesLess(a, b), BytesLess(b, c)
        PROVE  BytesLess(a, c)
    <2>1. PICK i \in 1 .. Len(b) :
            /\ i <= Len(a) + 1 /\ \A j \in 1 .. i - 1 : a[j] = b[j]
            /\ i <= Len(a) => a[i] < b[i]
      BY <1>1, <1>3 DEF BytesLess
    <2>2. PICK k \in 1 .. Len(c) :
            /\ k <= Len(b) + 1 /\ \A j \in 1 .. k - 1 : b[j] = c[j]
            /\ k <= Len(b) => b[k] < c[k]
      BY <1>1, <1>3 DEF BytesLess
    <2> DEFINE m == IF i <= k THEN i ELSE k
    <2>3. /\ m \in 1 .. Len(c) /\ m <= Len(a) + 1
          /\ \A j \in 1 .. m - 1 : a[j] = c[j]
          /\ m <= Len(a) => a[m] < c[m]
      <3>1. CASE i < k
        BY <1>1, <2>1, <2>2, <3>1
      <3>2. CASE i = k
        BY <1>1, <2>1, <2>2, <3>2
      <3>3. CASE k < i
        BY <1>1, <2>1, <2>2, <3>3
      <3> QED BY <3>1, <3>2, <3>3
    <2> QED BY <1>1, <2>3 DEF BytesLess
  <1> QED BY <1>2, <1>3

\* Every element of a list that has a kind has one of the seven.
LEMMA Kinds ==
  ASSUME NEW f \in Lists, f # "native_tokens", NEW x \in Member(f)
  PROVE  x.type \in 0 .. 6
  BY DEF Lists, Member

\* A native token is compared by an identifier, of whatever length.
LEMMA Tokens ==
  ASSUME NEW x \in Member("native_tokens")
  PROVE  x.token_id \in Bytes
  BY DEF Member, NativeToken

\* ptrLess orders the elements of every list strictly (carray.hpp).
LEMMA Order ==
  ASSUME NEW f \in Lists, NEW x \in Member(f), NEW y \in Member(f), NEW z \in Member(f)
  PROVE  /\ ~ Less(f, x, x)
         /\ Less(f, x, y) /\ Less(f, y, z) => Less(f, x, z)
  <1>1. CASE f = "native_tokens"
    <2>1. x.token_id \in Bytes /\ y.token_id \in Bytes /\ z.token_id \in Bytes
      BY <1>1, Tokens
    <2> QED BY <1>1, <2>1, BytesOrder DEF Less, TokenLess
  <1>2. CASE f # "native_tokens"
    <2>1. x.type \in 0 .. 6 /\ y.type \in 0 .. 6 /\ z.type \in 0 .. 6
      BY <1>2, Kinds
    <2> QED BY <1>2, <2>1 DEF Less, TypeLess
  <1> QED BY <1>1, <1>2

\* A set of objects, none of them a null pointer, in strict order.
Sorted(f, set) ==
  /\ set \in Seq(Member(f))
  /\ \A i \in 1 .. Len(set) : \A j \in 1 .. i - 1 : Less(f, set[j], set[i])

\* The sequence with x after its first k elements.
Put(set, k, x) == SubSeq(set, 1, k) \o << x >> \o Drop(set, k)

IsPut(put, S, set, k, x) ==
  /\ put \in Seq(S) /\ Len(put) = Len(set) + 1 /\ Len(set) \in Nat
  /\ \A i \in 1 .. k : put[i] = set[i]
  /\ put[k + 1] = x
  /\ \A i \in k + 2 .. Len(set) + 1 : put[i] = set[i - 1]

\* What a sequence with one more element in it holds, and where.
LEMMA PutIs ==
  ASSUME NEW S, NEW set \in Seq(S), NEW x \in S, NEW k \in 0 .. Len(set)
  PROVE  IsPut(Put(set, k, x), S, set, k, x)
  <1> DEFINE n == Len(set)
             a == SubSeq(set, 1, k)
             b == << x >>
             c == SubSeq(set, k + 1, n)
             ab == a \o b
             put == ab \o c
  <1>1. n \in Nat /\ \A i \in 1 .. n : set[i] \in S
    BY LenProperties, ElementOfSeq
  <1>2. /\ a \in Seq(S) /\ Len(a) = k
        /\ \A i \in 1 .. k : a[i] = set[i]
    <2>1. \A i \in 1 .. k : set[i] \in S
      BY <1>1
    <2>2. /\ a \in Seq(S) /\ Len(a) = IF 1 <= k THEN k - 1 + 1 ELSE 0
          /\ \A i \in 1 .. k - 1 + 1 : a[i] = set[1 + i - 1]
      BY <1>1, <2>1, SubSeqProperties
    <2> HIDE DEF a
    <2> QED BY <1>1, <2>2
  <1>3. b \in Seq(S) /\ Len(b) = 1 /\ b[1] = x
    OBVIOUS
  <1>4. /\ c \in Seq(S) /\ Len(c) = n - k
        /\ \A i \in 1 .. n - k : c[i] = set[k + i]
    <2>1. \A i \in k + 1 .. n : set[i] \in S
      BY <1>1
    <2>2. /\ c \in Seq(S) /\ Len(c) = IF k + 1 <= n THEN n - (k + 1) + 1 ELSE 0
          /\ \A i \in 1 .. n - (k + 1) + 1 : c[i] = set[k + 1 + i - 1]
      BY <1>1, <2>1, SubSeqProperties
    <2> HIDE DEF c
    <2> QED BY <1>1, <2>2
  <1>5. Put(set, k, x) = put
    BY DEF Put, Drop
  <1> HIDE DEF a, b, c, n
  <1>6. /\ ab \in Seq(S) /\ Len(ab) = k + 1
        /\ \A i \in 1 .. k + 1 : ab[i] = IF i <= k THEN a[i] ELSE b[i - k]
    <2>1. /\ a \o b \in Seq(S) /\ Len(a \o b) = Len(a) + Len(b)
          /\ \A i \in 1 .. Len(a) + Len(b) : (a \o b)[i] = IF i <= Len(a) THEN a[i] ELSE b[i - Len(a)]
      BY <1>2, <1>3, ConcatProperties
    <2> HIDE DEF ab
    <2> QED BY <1>2, <1>3, <2>1 DEF ab
  <1> HIDE DEF ab
  <1>7. /\ put \in Seq(S) /\ Len(put) = (k + 1) + (n - k)
        /\ \A i \in 1 .. (k + 1) + (n - k) : put[i] = IF i <= k + 1 THEN ab[i] ELSE c[i - (k + 1)]
    <2>1. /\ ab \o c \in Seq(S) /\ Len(ab \o c) = Len(ab) + Len(c)
          /\ \A i \in 1 .. Len(ab) + Len(c) : (ab \o c)[i] = IF i <= Len(ab) THEN ab[i] ELSE c[i - Len(ab)]
      BY <1>4, <1>6, ConcatProperties
    <2> HIDE DEF put
    <2> QED BY <1>4, <1>6, <2>1 DEF put
  <1> HIDE DEF put
  <1>8. Len(put) = n + 1
    BY <1>1, <1>7
  <1>9. \A i \in 1 .. k : put[i] = set[i]
    <2> TAKE i \in 1 .. k
    <2>1. i \in 1 .. (k + 1) + (n - k) /\ i <= k + 1 /\ i \in 1 .. k + 1 /\ i <= k
      BY <1>1 DEF n
    <2>2. put[i] = ab[i]
      BY <1>7, <2>1
    <2>3. ab[i] = a[i]
      BY <1>6, <2>1
    <2> QED BY <1>2, <2>2, <2>3
  <1>10. put[k + 1] = x
    <2>1. k + 1 \in 1 .. (k + 1) + (n - k) /\ k + 1 \in 1 .. k + 1 /\ ~ (k + 1 <= k) /\ k + 1 - k = 1
      BY <1>1 DEF n
    <2>2. put[k + 1] = ab[k + 1]
      BY <1>7, <2>1
    <2>3. ab[k + 1] = b[1]
      BY <1>6, <2>1
    <2> QED BY <1>3, <2>2, <2>3
  <1>11. \A i \in k + 2 .. n + 1 : put[i] = set[i - 1]
    <2> TAKE i \in k + 2 .. n + 1
    <2>1. put[i] = c[i - (k + 1)]
      BY <1>1, <1>7 DEF n
    <2>2. i - (k + 1) \in 1 .. n - k /\ k + (i - (k + 1)) = i - 1
      BY <1>1 DEF n
    <2> QED BY <1>4, <2>1, <2>2
  <1> QED BY <1>1, <1>5, <1>7, <1>8, <1>9, <1>10, <1>11 DEF n, IsPut

\* Where in a sorted set an object belongs.
Fitting(f, set, x, k) ==
  /\ \A i \in 1 .. k : Less(f, set[i], x)
  /\ \A i \in k + 1 .. Len(set) : Less(f, x, set[i])

\* In an ordered pset there is a place for an element that compares unequal to
\* all.
LEMMA PlaceExists ==
  ASSUME NEW f \in Lists, NEW set, Sorted(f, set), NEW x \in Member(f),
         ~ \E i \in 1 .. Len(set) : ~ Less(f, set[i], x) /\ ~ Less(f, x, set[i])
  PROVE  \E k \in 0 .. Len(set) : Fitting(f, set, x, k)
  <1> DEFINE n == Len(set)
             T == {i \in Nat : i >= 1 /\ (i <= n => ~ Less(f, set[i], x))}
  <1>1. n \in Nat /\ \A i \in 1 .. n : set[i] \in Member(f)
    BY LenProperties, ElementOfSeq DEF Sorted
  <1>2. n + 1 \in T /\ T \in SUBSET Nat
    BY <1>1
  <1>3. PICK m \in T : \A k \in T : m <= k
    BY <1>2, Least
  <1>4. m \in Nat /\ m >= 1 /\ m <= n + 1 /\ (m <= n => ~ Less(f, set[m], x))
    BY <1>2, <1>3
  <1>5. \A i \in 1 .. m - 1 : Less(f, set[i], x)
    <2> TAKE i \in 1 .. m - 1
    <2>1. i \in Nat /\ i >= 1 /\ i <= n /\ ~ (m <= i)
      BY <1>1, <1>4
    <2>2. i \notin T
      BY <1>3, <2>1
    <2> QED BY <2>1, <2>2
  <1>6. \A i \in m .. n : Less(f, x, set[i])
    <2> TAKE i \in m .. n
    <2>1. m \in 1 .. n /\ i \in 1 .. n
      BY <1>1, <1>4
    <2>2. Less(f, x, set[m])
      BY <1>4, <2>1
    <2>3. CASE i = m
      BY <2>2, <2>3
    <2>4. CASE i # m
      <3>1. m \in 1 .. i - 1
        BY <1>1, <2>1, <2>4
      <3>2. Less(f, set[m], set[i])
        BY <2>1, <3>1 DEF Sorted
      <3> QED BY <1>1, <2>1, <2>2, <3>2, Order
    <2> QED BY <2>3, <2>4
  <1> DEFINE k == m - 1
  <1>7. k \in 0 .. n /\ k + 1 = m
    BY <1>1, <1>4
  <1>8. Fitting(f, set, x, k)
    <2>1. \A i \in k + 1 .. Len(set) : Less(f, x, set[i])
      BY <1>6, <1>7
    <2>2. \A i \in 1 .. k : Less(f, set[i], x)
      BY <1>5
    <2> QED BY <2>1, <2>2 DEF Fitting
  <1> QED BY <1>7, <1>8

\* std::set::insert keeps the set, or puts the element in its place.
LEMMA InsertIs ==
  ASSUME NEW f \in Lists, NEW set, Sorted(f, set), NEW x \in Member(f)
  PROVE  \/ Insert(f, set, x) = set /\ set # << >>
         \/ \E k \in 0 .. Len(set) : Fitting(f, set, x, k) /\ Insert(f, set, x) = Put(set, k, x)
  <1>1. CASE \E i \in 1 .. Len(set) : ~ Less(f, set[i], x) /\ ~ Less(f, x, set[i])
    <2>1. Insert(f, set, x) = set
      BY <1>1 DEF Insert
    <2>2. Len(<< >>) = 0
      OBVIOUS
    <2>3. set # << >>
      BY <1>1, <2>2
    <2> QED BY <2>1, <2>3
  <1>2. CASE ~ \E i \in 1 .. Len(set) : ~ Less(f, set[i], x) /\ ~ Less(f, x, set[i])
    <2> DEFINE at == CHOOSE k \in 0 .. Len(set) : Fitting(f, set, x, k)
    <2>1. at \in 0 .. Len(set) /\ Fitting(f, set, x, at)
      BY <1>2, PlaceExists
    <2>2. Insert(f, set, x) = Put(set, at, x)
      BY <1>2 DEF Insert, Fitting, Put
    <2> QED BY <2>1, <2>2
  <1> QED BY <1>1, <1>2

\* After it the pset is ordered, holds at most one element more, and nothing
\* else is new.
LEMMA InsertSorted ==
  ASSUME NEW f \in Lists, NEW set, Sorted(f, set), NEW x \in Member(f)
  PROVE  LET new == Insert(f, set, x)
         IN  /\ Sorted(f, new) /\ Len(new) <= Len(set) + 1
             /\ \A i \in 1 .. Len(new) : new[i] = x \/ \E j \in 1 .. Len(set) : new[i] = set[j]
  <1> DEFINE new == Insert(f, set, x)
             n == Len(set)
  <1>1. n \in Nat /\ set \in Seq(Member(f)) /\ \A i \in 1 .. n : set[i] \in Member(f)
    BY LenProperties, ElementOfSeq DEF Sorted
  <1>2. CASE new = set
    BY <1>1, <1>2
  <1>3. ASSUME NEW k \in 0 .. n, Fitting(f, set, x, k), new = Put(set, k, x)
        PROVE  /\ Sorted(f, new) /\ Len(new) <= n + 1
               /\ \A i \in 1 .. Len(new) : new[i] = x \/ \E j \in 1 .. n : new[i] = set[j]
    <2> HIDE DEF new
    <2>1. /\ new \in Seq(Member(f)) /\ Len(new) = n + 1
          /\ \A i \in 1 .. k : new[i] = set[i]
          /\ new[k + 1] = x
          /\ \A i \in k + 2 .. n + 1 : new[i] = set[i - 1]
      <3>1. IsPut(new, Member(f), set, k, x)
        BY <1>1, <1>3, PutIs
      <3> QED BY <3>1 DEF IsPut
    <2>2. \A i \in 1 .. n + 1 : new[i] = x \/ \E j \in 1 .. n : new[i] = set[j]
      <3> TAKE i \in 1 .. n + 1
      <3>1. CASE i <= k
        BY <1>1, <2>1, <3>1
      <3>2. CASE i = k + 1
        BY <2>1, <3>2
      <3>3. CASE i >= k + 2
        <4>1. i - 1 \in 1 .. n /\ new[i] = set[i - 1]
          BY <1>1, <2>1, <3>3
        <4> QED BY <4>1
      <3> QED BY <1>1, <3>1, <3>2, <3>3
    <2>3. \A i \in 1 .. n + 1 : \A j \in 1 .. i - 1 : Less(f, new[j], new[i])
      <3> TAKE i \in 1 .. n + 1
      <3> TAKE j \in 1 .. i - 1
      <3>1. CASE i <= k
        <4>1. i \in 1 .. n /\ new[i] = set[i] /\ new[j] = set[j]
          BY <1>1, <2>1, <3>1
        <4> QED BY <4>1 DEF Sorted
      <3>2. CASE i = k + 1
        <4>1. j \in 1 .. k /\ new[i] = x /\ new[j] = set[j]
          BY <1>1, <2>1, <3>2
        <4> QED BY <1>3, <4>1 DEF Fitting
      <3>3. CASE i >= k + 2
        <4> DEFINE h == i - 1
        <4>1. h \in 1 .. n /\ h \in k + 1 .. n /\ new[i] = set[h]
          BY <1>1, <2>1, <3>3
        <4>2. Less(f, x, set[h])
          BY <1>3, <4>1 DEF Fitting
        <4>3. CASE j <= k
          <5>1. new[j] = set[j] /\ j \in 1 .. h - 1
            BY <1>1, <2>1, <3>3, <4>3
          <5>2. Less(f, set[j], set[h])
            BY <4>1, <5>1 DEF Sorted
          <5> QED BY <4>1, <5>1, <5>2
        <4>4. CASE j = k + 1
          BY <2>1, <4>1, <4>2, <4>4
        <4>5. CASE j >= k + 2
          <5> DEFINE l == j - 1
          <5>1. l \in 1 .. h - 1 /\ new[j] = set[l]
            BY <1>1, <2>1, <3>3, <4>5
          <5>2. Less(f, set[l], set[h])
            BY <4>1, <5>1 DEF Sorted
          <5> QED BY <4>1, <5>1, <5>2
        <4> QED BY <1>1, <4>3, <4>4, <4>5
      <3> QED BY <1>1, <3>1, <3>2, <3>3
    <2> QED BY <1>1, <2>1, <2>2, <2>3 DEF Sorted
  <1> HIDE DEF new
  <1>4. new = set \/ \E k \in 0 .. n : Fitting(f, set, x, k) /\ new = Put(set, k, x)
    BY InsertIs DEF new
  <1>5. /\ Sorted(f, new) /\ Len(new) <= n + 1
        /\ \A i \in 1 .. Len(new) : new[i] = x \/ \E j \in 1 .. n : new[i] = set[j]
    BY <1>2, <1>3, <1>4
  <1> QED BY <1>5 DEF new, n

\* An element above all the others comes last: a pset read in the order it was
\* written.
LEMMA InsertLast ==
  ASSUME NEW f \in Lists, NEW set, Sorted(f, set), NEW x \in Member(f),
         \A i \in 1 .. Len(set) : Less(f, set[i], x)
  PROVE  Insert(f, set, x) = Put(set, Len(set), x)
  <1> DEFINE n == Len(set)
  <1>1. n \in Nat /\ \A i \in 1 .. n : set[i] \in Member(f)
    BY LenProperties, ElementOfSeq DEF Sorted
  <1>2. \A i \in 1 .. n : ~ Less(f, x, set[i])
    BY <1>1, Order
  <1>3. \A k \in 0 .. n : Fitting(f, set, x, k) <=> k = n
    <2> TAKE k \in 0 .. n
    <2>1. ASSUME Fitting(f, set, x, k), k # n PROVE FALSE
      <3>1. n \in k + 1 .. n /\ n \in 1 .. n
        BY <1>1, <2>1
      <3> QED BY <1>2, <2>1, <3>1 DEF Fitting
    <2>2. Fitting(f, set, x, n)
      BY <1>1 DEF Fitting
    <2> QED BY <2>1, <2>2
  <1>4. ~ \E i \in 1 .. n : ~ Less(f, set[i], x) /\ ~ Less(f, x, set[i])
    OBVIOUS
  <1> DEFINE at == CHOOSE k \in 0 .. n : Fitting(f, set, x, k)
  <1>5. at = n
    <2>1. n \in 0 .. n
      BY <1>1
    <2>2. at \in 0 .. n /\ Fitting(f, set, x, at)
      BY <1>3, <2>1
    <2> QED BY <1>3, <2>2
  <1>6. Insert(f, set, x) = Put(set, at, x)
    BY <1>4 DEF Insert, Fitting, Put
  <1> QED BY <1>5, <1>6

-----------------------------------------------------------------------------
(***************************************************************************)
(* The elements of a list, written and read.                               *)
(***************************************************************************)
\* A token that serialize() can follow is whole.
LEMMA WholeToken ==
  ASSUME NEW e, e \in Pointers("native_tokens"), ~ NullElement("native_tokens", e)
  PROVE  e \in NativeToken
  BY DEF Pointers, Member, NullElement

\* A condition whose pointers serialize() can follow has every field of its
\* kind.
LEMMA WholeCondition ==
  ASSUME NEW e, e \in Pointers("unlock_conditions"), ~ NullElement("unlock_conditions", e)
  PROVE  e \in Condition
  <1> DEFINE k == e.type
  <1>1. e # nullptr /\ ~ (k \in (0 .. 6) \ {2} /\ e.address = nullptr)
    BY DEF NullElement, Addressed
  <1>2. /\ e \in [type : 0 .. 6, address : Address \cup {nullptr},
                  extra : Word(0) \cup Word(4) \cup Word(8)]
        /\ k = 2 => e.address = nullptr
        /\ e.extra \in Word(ExtraLen(k))
    BY <1>1 DEF Pointers, Member
  <1>3. /\ k \in 0 .. 6 /\ e = [type |-> k, address |-> e.address, extra |-> e.extra]
        /\ e.address \in IF k = 2 THEN {nullptr} ELSE Address
    BY <1>1, <1>2
  <1> DEFINE C(j) == [type : {j}, address : IF j = 2 THEN {nullptr} ELSE Address,
                      extra : Word(ExtraLen(j))]
  <1>4. e \in C(k)
    BY <1>2, <1>3
  <1> HIDE DEF C
  <1>5. e \in UNION { C(j) : j \in 0 .. 6 }
    BY <1>3, <1>4
  <1> QED BY <1>5 DEF Condition, C

\* So has a feature.
LEMMA WholeFeature ==
  ASSUME NEW f \in {"features", "immutable_features"}, NEW e,
         e \in Pointers(f), ~ NullElement(f, e)
  PROVE  e \in Feature
  <1>1. e # nullptr /\ ~ (e.type \in {0, 1} /\ e.address = nullptr)
    BY DEF NullElement, Addressed
  <1>2. e \in [type : {0, 1}, address : Address \cup {nullptr}, data : {<< >>}]
             \cup [type : {2, 3}, address : {nullptr}, data : Bytes]
    BY <1>1 DEF Pointers, Member
  <1>3. CASE e \in [type : {0, 1}, address : Address \cup {nullptr}, data : {<< >>}]
    <2>1. e.type \in {0, 1} /\ e.address \in Address /\ e.data = << >>
      BY <1>1, <1>3
    <2>2. e \in [type : {0, 1}, address : Address, data : {<< >>}]
      BY <1>3, <2>1
    <2> QED BY <2>2 DEF Feature
  <1>4. CASE e \in [type : {2, 3}, address : {nullptr}, data : Bytes]
    BY <1>4 DEF Feature
  <1> QED BY <1>2, <1>3, <1>4

\* A feature is written as bytes, fitting its prefix or not.
LEMMA FeatureWritten ==
  ASSUME NEW e \in Feature
  PROVE  WriteFeature(e) \in Bytes
  <1> DEFINE k == e.type
             b == << k >>
             body == IF k \in {0, 1} THEN WriteAddress(e.address) ELSE WriteArray(e.data, SizeLen(k))
  <1>1. /\ k \in 0 .. 16 /\ (k \in {0, 1} \/ k \in {2, 3})
        /\ k \in {0, 1} => e.address \in Address
        /\ k \in {2, 3} => e.data \in Bytes
    BY DEF Feature
  <1>2. SizeLen(k) \in {1, 2, 4}
    BY DEF SizeLen
  <1>3. b \in Bytes /\ body \in Bytes
    BY <1>1, <1>2, Kind, AddressBack, ArrayWritten
  <1>4. WriteFeature(e) = b \o body
    BY DEF WriteFeature
  <1> QED BY <1>3, <1>4, Joined

\* So is every element without a null pointer in it (serializeList).
LEMMA ElementWritten ==
  ASSUME NEW f \in Lists, NEW e \in Pointers(f), ~ NullElement(f, e)
  PROVE  WriteElement(f, e) \in Bytes
  <1>1. CASE f = "native_tokens"
    BY <1>1, WholeToken, TokenBack DEF WriteElement
  <1>2. CASE f = "unlock_conditions"
    BY <1>2, WholeCondition, ConditionBack DEF WriteElement
  <1>3. CASE f \in {"features", "immutable_features"}
    BY <1>3, WholeFeature, FeatureWritten DEF WriteElement
  <1> QED BY <1>1, <1>2, <1>3 DEF Lists

\* An element that fits is read by deserializeList as serializeList wrote it,
\* and nothing after it.
LEMMA ElementBack ==
  ASSUME NEW f \in Lists, NEW e \in Pointers(f), ~ NullElement(f, e), ElementFits(f, e),
         NEW junk \in Junk, NEW s \in Bytes
  PROVE  ReadElement(f, WriteElement(f, e) \o s, junk) = Got(e, s)
  <1>0. e # nullptr
    BY DEF NullElement
  <1>1. CASE f = "native_tokens"
    <2>1. e \in NativeToken /\ TokenFits(e)
      BY <1>0, <1>1, WholeToken DEF ElementFits
    <2> QED BY <1>1, <2>1, TokenBack DEF WriteElement, ReadElement
  <1>2. CASE f = "unlock_conditions"
    <2>1. e \in Condition /\ ConditionFits(e)
      BY <1>0, <1>2, WholeCondition DEF ElementFits
    <2> QED BY <1>2, <2>1, ConditionBack DEF WriteElement, ReadElement
  <1>3. CASE f \in {"features", "immutable_features"}
    <2>1. e \in Feature /\ FeatureFits(e)
      BY <1>0, <1>3, WholeFeature DEF ElementFits
    <2>2. ReadFeature(WriteFeature(e) \o s, junk) = Got(e, s)
      BY <2>1, FeatureBack
    <2> QED BY <1>3, <2>2 DEF WriteElement, ReadElement
  <1> QED BY <1>1, <1>2, <1>3 DEF Lists

\* Whatever the stream holds, a native token is read.
LEMMA TokenRead ==
  ASSUME NEW s \in Bytes
  PROVE  /\ ReadToken(s).v \in NativeToken /\ ReadToken(s).rest \in Bytes
         /\ TokenFits(ReadToken(s).v)
  <1> DEFINE id == ReadRaw(s, TokenIdLen)
             amount == ReadRaw(id.rest, HashLen)
  <1>1. id.v \in Bytes /\ Len(id.v) = TokenIdLen /\ id.rest \in Bytes
    BY Hashes, RawRead, WordIsBytes
  <1>2. amount.v \in Hash /\ amount.rest \in Bytes
    BY <1>1, Hashes, RawRead
  <1> HIDE DEF id, amount
  <1>3. ReadToken(s) = Got([token_id |-> id.v, amount |-> amount.v], amount.rest)
    BY DEF ReadToken, id, amount
  <1> QED BY <1>1, <1>2, <1>3 DEF Got, NativeToken, TokenFits

\* Whatever the stream holds, a feature that fits its prefix, or a null
\* pointer.
LEMMA FeatureRead ==
  ASSUME NEW s \in Bytes, NEW junk \in Junk
  PROVE  LET e == ReadFeature(s, junk)
         IN  /\ e.v \in Pointers("features")
             /\ e.v # nullptr => FeatureFits(e.v)
             /\ e.rest \in Bytes
  <1> DEFINE kind == ReadInt(s, 1)
             k == kind.v[1]
             addr == ReadAddress(kind.rest)
             data == ReadArray(kind.rest, SizeLen(k), junk)
             e == ReadFeature(s, junk)
  <1>1. e = CASE k \in {0, 1} -> Got([type |-> k, address |-> addr.v, data |-> << >>], addr.rest)
              [] k \in {2, 3} -> Got([type |-> k, address |-> nullptr, data |-> data.v], data.rest)
              [] OTHER -> Got(nullptr, kind.rest)
    BY DEF ReadFeature
  <1>2. kind.rest \in Bytes
    BY KindRead
  <1> HIDE DEF kind
  <1>3. /\ addr.v \in Address \cup {nullptr} /\ addr.rest \in Bytes
        /\ addr.v # nullptr => AddressFits(addr.v)
    BY <1>2, AddressRead
  <1>4. SizeLen(k) \in {1, 2, 4}
    BY DEF SizeLen
  <1>5. data.v \in Bytes /\ Within(Len(data.v), SizeLen(k)) /\ data.rest \in Bytes
    BY <1>2, <1>4, ArrayRead
  <1> HIDE DEF addr, data, e, k
  <1>6. CASE k \in {0, 1}
    <2> DEFINE x == [type |-> k, address |-> addr.v, data |-> << >>]
    <2>1. e = Got(x, addr.rest)
      BY <1>1, <1>6
    <2>2. x \in Pointers("features")
      BY <1>3, <1>6 DEF Pointers, Member
    <2>3. Within(Len(x.data), SizeLen(x.type))
      <3>1. SizeLen(k) = 1 /\ x.data = << >> /\ x.type = k
        BY <1>6 DEF SizeLen
      <3>2. Within(0, 1)
        BY RadixAssumption DEF Within
      <3> HIDE DEF x
      <3> QED BY <3>1, <3>2
    <2>4. x.address = addr.v
      OBVIOUS
    <2> HIDE DEF x
    <2> QED BY <1>3, <2>1, <2>2, <2>3, <2>4 DEF Got, FeatureFits, e
  <1>7. CASE k \in {2, 3}
    <2> DEFINE x == [type |-> k, address |-> nullptr, data |-> data.v]
    <2>1. e = Got(x, data.rest)
      BY <1>1, <1>7
    <2>2. x \in Pointers("features")
      BY <1>5, <1>7 DEF Pointers, Member
    <2>3. Within(Len(x.data), SizeLen(x.type))
      BY <1>5
    <2>4. x.address = nullptr
      OBVIOUS
    <2> HIDE DEF x
    <2> QED BY <1>5, <2>1, <2>2, <2>3, <2>4 DEF Got, FeatureFits, e
  <1>8. CASE k \notin {0, 1} /\ k \notin {2, 3}
    <2>1. e = Got(nullptr, kind.rest)
      BY <1>1, <1>8
    <2> QED BY <1>2, <2>1 DEF Got, Pointers, e
  <1> QED BY <1>6, <1>7, <1>8

\* Whatever the stream holds, an object the list may hold, or a null pointer:
\* from_ has no other answer.
LEMMA ElementRead ==
  ASSUME NEW f \in Lists, NEW s \in Bytes, NEW junk \in Junk
  PROVE  LET e == ReadElement(f, s, junk)
         IN  /\ e.v \in Pointers(f)
             /\ ElementFits(f, e.v)
             /\ e.rest \in Bytes
  <1>1. CASE f = "native_tokens"
    BY <1>1, TokenRead DEF ReadElement, Pointers, Member, ElementFits
  <1>2. CASE f = "unlock_conditions"
    <2>1. /\ ReadCondition(s).v \in ReadableCondition \cup {nullptr} /\ ReadCondition(s).rest \in Bytes
          /\ ReadCondition(s).v # nullptr => ConditionFits(ReadCondition(s).v)
      BY ConditionRead
    <2>2. ReadableCondition \subseteq Member("unlock_conditions")
      <3> SUFFICES ASSUME NEW k \in 0 .. 6,
                          NEW u \in [type : {k}, address : (IF k = 2 THEN {} ELSE Address) \cup {nullptr},
                                     extra : Word(ExtraLen(k))]
                   PROVE  u \in Member("unlock_conditions")
        BY DEF ReadableCondition
      <3>1. /\ u.type = k /\ u.address \in Address \cup {nullptr} /\ (k = 2 => u.address = nullptr)
            /\ u.extra \in Word(ExtraLen(k))
            /\ u = [type |-> u.type, address |-> u.address, extra |-> u.extra]
        OBVIOUS
      <3>2. Word(ExtraLen(k)) \subseteq Word(0) \cup Word(4) \cup Word(8)
        BY DEF ExtraLen
      <3>3. u \in [type : 0 .. 6, address : Address \cup {nullptr},
                   extra : Word(0) \cup Word(4) \cup Word(8)]
        BY <3>1, <3>2
      <3> QED BY <3>1, <3>3 DEF Member
    <2> QED BY <1>2, <2>1, <2>2 DEF ReadElement, Pointers, ElementFits
  <1>3. CASE f \in {"features", "immutable_features"}
    <2>1. Pointers(f) = Pointers("features")
      BY <1>3 DEF Pointers, Member
    <2>2. ReadElement(f, s, junk) = ReadFeature(s, junk)
      BY <1>3 DEF ReadElement
    <2> DEFINE e == ReadFeature(s, junk)
    <2>3. e.v \in Pointers("features") /\ (e.v # nullptr => FeatureFits(e.v)) /\ e.rest \in Bytes
      BY FeatureRead
    <2> HIDE DEF e
    <2> QED BY <1>3, <2>1, <2>2, <2>3 DEF ElementFits, e
  <1> QED BY <1>1, <1>2, <1>3 DEF Lists

-----------------------------------------------------------------------------
(***************************************************************************)
(* The bytes of a list from any of its elements on.                        *)
(***************************************************************************)
RemainsFrom(k, e, w, n) ==
  /\ e \in [k .. n -> Bytes]
  /\ e[n] = << >>
  /\ \A i \in k .. n - 1 : e[i] = w[i + 1] \o e[i + 1]
IsRemains(e, w, n) == RemainsFrom(0, e, w, n)

\* The bytes of a list of any length exist: those of the last element, then
\* those of the last two, and so on.
LEMMA RemainsExist ==
  ASSUME NEW n \in Nat, NEW w \in [1 .. n -> Bytes]
  PROVE  \E e : IsRemains(e, w, n)
  <1> DEFINE T == {m \in Nat : m <= n => \E e : RemainsFrom(n - m, e, w, n)}
  <1>1. 0 \in T
    <2> DEFINE e == [i \in n .. n |-> << >>]
    <2>1. << >> \in Bytes
      BY EmptySeq DEF Bytes
    <2>2. RemainsFrom(n, e, w, n)
      <3>1. e \in [n .. n -> Bytes] /\ e[n] = << >>
        BY <2>1
      <3>2. n .. n - 1 = {}
        OBVIOUS
      <3> HIDE DEF e
      <3> QED BY <3>1, <3>2 DEF RemainsFrom
    <2>3. n - 0 = n
      OBVIOUS
    <2> HIDE DEF e
    <2> QED BY <2>2, <2>3
  <1>2. ASSUME NEW m \in T \cap Nat PROVE m + 1 \in T
    <2> SUFFICES ASSUME m + 1 <= n PROVE \E e : RemainsFrom(n - (m + 1), e, w, n)
      BY <1>2
    <2> DEFINE k == n - (m + 1)
    <2>1. PICK e : RemainsFrom(n - m, e, w, n)
      BY <1>2
    <2>2. k \in Nat /\ k + 1 = n - m /\ k < n /\ k + 1 \in 1 .. n
      BY <1>2
    <2> HIDE DEF k
    <2>3. e[k + 1] \in Bytes /\ w[k + 1] \in Bytes
      BY <2>1, <2>2 DEF RemainsFrom
    <2> DEFINE x == w[k + 1] \o e[k + 1]
               d == [i \in k .. n |-> IF i = k THEN x ELSE e[i]]
    <2>4. x \in Bytes
      BY <2>3, Joined
    <2>5. w[k + 1] \o e[k + 1] = x
      OBVIOUS
    <2> HIDE DEF x
    <2>6. d \in [k .. n -> Bytes]
      BY <2>1, <2>2, <2>4 DEF RemainsFrom
    <2>7. d[n] = << >>
      BY <2>1, <2>2 DEF RemainsFrom
    <2>8. \A i \in k .. n - 1 : d[i] = w[i + 1] \o d[i + 1]
      <3> TAKE i \in k .. n - 1
      <3>1. d[i + 1] = e[i + 1]
        BY <2>2
      <3>2. CASE i = k
        <4>1. d[i] = x
          BY <2>2, <3>2
        <4> HIDE DEF d
        <4> QED BY <2>5, <3>1, <3>2, <4>1
      <3>3. CASE i # k
        <4>1. i \in n - m .. n - 1 /\ d[i] = e[i]
          BY <2>2, <3>3
        <4> QED BY <2>1, <3>1, <4>1 DEF RemainsFrom
      <3> QED BY <3>2, <3>3
    <2> HIDE DEF d
    <2>9. RemainsFrom(k, d, w, n)
      BY <2>6, <2>7, <2>8 DEF RemainsFrom
    <2> QED BY <2>9 DEF k
  <1> HIDE DEF T
  <1>3. Nat \subseteq T
    BY <1>1, <1>2, Upward
  <1>4. \E e : RemainsFrom(n - n, e, w, n)
    BY <1>3 DEF T
  <1>5. n - n = 0
    OBVIOUS
  <1> QED BY <1>4, <1>5 DEF IsRemains

Written(f, set) ==
  [i \in 1 .. Len(set) |-> IF NullElement(f, set[i]) THEN << >> ELSE WriteElement(f, set[i])]
Remains(f, set) == CHOOSE e : IsRemains(e, Written(f, set), Len(set))

\* The bytes from an element on are those of the element and then those from
\* the next one on.
LEMMA RemainsAre ==
  ASSUME NEW f \in Lists, NEW set \in Seq(Pointers(f))
  PROVE  /\ Len(set) \in Nat
         /\ \A i \in 0 .. Len(set) : Remains(f, set)[i] \in Bytes
         /\ Remains(f, set)[Len(set)] = << >>
         /\ \A i \in 0 .. Len(set) - 1 :
              ~ NullElement(f, set[i + 1]) =>
                Remains(f, set)[i] = WriteElement(f, set[i + 1]) \o Remains(f, set)[i + 1]
  <1> DEFINE n == Len(set)
             w == Written(f, set)
             e == Remains(f, set)
  <1>1. n \in Nat /\ \A i \in 1 .. n : set[i] \in Pointers(f)
    BY LenProperties, ElementOfSeq
  <1>2. w \in [1 .. n -> Bytes]
    <2>1. \A i \in 1 .. n : (IF NullElement(f, set[i]) THEN << >> ELSE WriteElement(f, set[i])) \in Bytes
      <3>1. << >> \in Bytes
        BY EmptySeq DEF Bytes
      <3> QED BY <1>1, <3>1, ElementWritten
    <2> QED BY <2>1 DEF Written
  <1>3. IsRemains(e, w, n)
    <2>1. \E x : IsRemains(x, w, n)
      BY <1>1, <1>2, RemainsExist
    <2> QED BY <2>1 DEF Remains
  <1>4. \A i \in 0 .. n - 1 : ~ NullElement(f, set[i + 1]) => w[i + 1] = WriteElement(f, set[i + 1])
    BY <1>1 DEF Written
  <1> HIDE DEF e, w, n
  <1>5. \A i \in 0 .. n : e[i] \in Bytes
    BY <1>3 DEF IsRemains, RemainsFrom
  <1>6. \A i \in 0 .. n - 1 : ~ NullElement(f, set[i + 1]) => e[i] = WriteElement(f, set[i + 1]) \o e[i + 1]
    BY <1>3, <1>4 DEF IsRemains, RemainsFrom
  <1> QED BY <1>1, <1>3, <1>5, <1>6 DEF IsRemains, RemainsFrom, e, n
=============================================================================
