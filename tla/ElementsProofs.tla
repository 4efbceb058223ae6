--------------------------- MODULE ElementsProofs ---------------------------
(***************************************************************************)
(* What is written is read back, class by class, whatever follows it in    *)
(* the stream, for bytes of any number of values and hashes of any length. *)
(***************************************************************************)
EXTENDS Elements, SequenceTheorems, TLAPS

-----------------------------------------------------------------------------
(***************************************************************************)
(* Numbers.  A size is read as it was written as long as it fits.          *)
(***************************************************************************)
\* A number is put together again from its quotient and its remainder.
LEMMA Division ==
  ASSUME NEW n \in Nat, NEW r \in Nat \ {0}
  PROVE  n = r * (n \div r) + (n % r) /\ n \div r \in Nat /\ n % r \in 0 .. r - 1
  OBVIOUS

\* A product of natural numbers is one; a step of its own keeps the provers
\* from multiplying out.
LEMMA Products ==
  ASSUME NEW a \in Nat, NEW b \in Nat
  PROVE  a * b \in Nat
  OBVIOUS

\* No other quotient and remainder put it together.
LEMMA DivisionUnique ==
  ASSUME NEW n \in Nat, NEW r \in Nat \ {0}, NEW q \in Nat, NEW m \in 0 .. r - 1, n = r * q + m
  PROVE  n \div r = q /\ n % r = m
  OBVIOUS

\* The two low digits of a number in base r*r.
LEMMA Distribute ==
  ASSUME NEW r \in Nat, NEW p \in Nat, NEW m \in Nat, NEW k \in Nat
  PROVE  r * (r * p + m) + k = (r * r) * p + (r * m + k)
  OBVIOUS

\* Dividing by r twice is dividing by r*r: the second half of quint32.
LEMMA DivisionTwice ==
  ASSUME NEW n \in Nat, NEW r \in Nat \ {0}
  PROVE  /\ r * r \in Nat \ {0}
         /\ n \div (r * r) = (n \div r) \div r
  <1> DEFINE q == n \div r
             p == q \div r
             m == q % r
             k == n % r
             s == r * r
  <1>1. n = r * q + k /\ q \in Nat /\ k \in 0 .. r - 1
    BY Division
  <1>2. q = r * p + m /\ p \in Nat /\ m \in 0 .. r - 1
    BY <1>1, Division
  <1> HIDE DEF q, p, m, k
  <1>3. s \in Nat \ {0}
    OBVIOUS
  <1>4. n = s * p + (r * m + k)
    BY <1>1, <1>2, Distribute
  <1>5. r * m \in Nat /\ r * m <= r * (r - 1)
    BY <1>2
  <1>6. r * m + k \in 0 .. s - 1
    BY <1>1, <1>5
  <1> HIDE DEF s
  <1>7. n \div s = p
    <2> DEFINE t == r * m + k
    <2>1. n = s * p + t /\ t \in 0 .. s - 1
      BY <1>4, <1>6
    <2> HIDE DEF t
    <2> QED BY <1>2, <1>3, <2>1, DivisionUnique
  <1> QED BY <1>3, <1>7 DEF q, p, s

\* The value of four digits is that of two halves in base r*r.
LEMMA Rebuild ==
  ASSUME NEW r \in Nat, NEW a \in Nat, NEW b \in Nat, NEW c \in Nat, NEW d \in Nat
  PROVE  a + r * (b + r * (c + r * d)) = (r * r) * (c + r * d) + (a + r * b)
  OBVIOUS

\* Two bytes and two bytes are four bytes, as quint32 is written.
LEMMA Four ==
  ASSUME NEW a, NEW b, NEW c, NEW d
  PROVE  << a, b >> \o << c, d >> = << a, b, c, d >>
  <1> DEFINE S == {a, b, c, d}
             x == << a, b >>
             y == << c, d >>
             z == << a, b, c, d >>
  <1>1. x \in Seq(S) /\ y \in Seq(S) /\ z \in Seq(S)
    OBVIOUS
  <1>2. /\ Len(x) = 2 /\ x[1] = a /\ x[2] = b
        /\ Len(y) = 2 /\ y[1] = c /\ y[2] = d
        /\ Len(z) = 4 /\ z[1] = a /\ z[2] = b /\ z[3] = c /\ z[4] = d
    OBVIOUS
  <1> HIDE DEF S, x, y, z
  <1>3. /\ x \o y \in Seq(S) /\ Len(x \o y) = Len(x) + Len(y)
        /\ \A i \in 1 .. Len(x) + Len(y) : (x \o y)[i] = IF i <= Len(x) THEN x[i] ELSE y[i - Len(x)]
    BY <1>1, ConcatProperties
  <1>4. \A i \in 1 .. 4 : (x \o y)[i] = z[i]
    BY <1>2, <1>3
  <1>5. x \o y = z
    BY <1>1, <1>2, <1>3, <1>4, SeqEqual
  <1> QED BY <1>5 DEF x, y, z

\* static_cast<quintN> of a size gives N/8 bytes, and the value they are read
\* back as is the size whenever it fits the width: the three widths of list
\* sizes and fl_array prefixes.
THEOREM Sizes ==
  ASSUME NEW n \in Nat, NEW w \in {1, 2, 4}
  PROVE  /\ UInt(n, w) \in Word(w)
         /\ Within(n, w) => ValueOf(UInt(n, w)) = n
  <1> DEFINE R == Radix
             s == R * R
             q == n \div R
             m == n \div s
             l == m \div R
  <1>1. R \in Nat \ {0}
    BY RadixAssumption
  <1>2. s \in Nat \ {0} /\ m = q \div R
    BY <1>1, DivisionTwice
  <1>3. q \in Nat /\ m \in Nat /\ l \in Nat
    BY <1>1, <1>2, Division
  <1>4. n % R \in Byte /\ q % R \in Byte /\ m % R \in Byte /\ l % R \in Byte
    BY <1>1, <1>3, Division DEF Byte
  <1>5. n = R * q + (n % R) /\ q = R * m + (q % R) /\ m = R * l + (m % R)
    BY <1>1, <1>2, <1>3, Division
  <1>6. CASE w = 1
    <2>1. UInt(n, w) = << n % R >>
      BY <1>6 DEF UInt, quint8
    <2>2. Within(n, w) => n % R = n
      BY <1>1, <1>6 DEF Within
    <2> QED BY <2>1, <2>2, <1>4, <1>6 DEF Word, ValueOf
  <1>7. CASE w = 2
    <2>1. UInt(n, w) = << n % R, q % R >>
      BY <1>7 DEF UInt, quint16
    <2>2. ASSUME Within(n, w) PROVE q % R = q
      BY <2>2, <1>1, <1>3, <1>7 DEF Within
    <2> HIDE DEF q
    <2>3. << n % R, q % R >> \in [1 .. 2 -> Byte]
      BY <1>4
    <2>4. ValueOf(<< n % R, q % R >>) = (n % R) + R * (q % R)
      BY DEF ValueOf
    <2>5. n % R \in Nat /\ n = R * q + (n % R) /\ R * q \in Nat
      BY <1>1, <1>3, <1>4, <1>5 DEF Byte
    <2>6. ASSUME Within(n, w) PROVE ValueOf(<< n % R, q % R >>) = n
      BY <2>2, <2>4, <2>5, <2>6
    <2> QED BY <2>1, <2>3, <2>6, <1>7 DEF Word
  <1>8. CASE w = 4
    <2> DEFINE a == n % R
               b == q % R
               c == m % R
               d == l % R
    <2>1. UInt(n, w) = << a, b, c, d >>
      <3>1. quint16(n) = << a, b >> /\ quint16(m) = << c, d >>
        BY DEF quint16
      <3>2. UInt(n, w) = quint16(n) \o quint16(m)
        BY <1>8 DEF UInt, quint32
      <3> HIDE DEF a, b, c, d, m
      <3>3. << a, b >> \o << c, d >> = << a, b, c, d >>
        BY Four
      <3> QED BY <3>1, <3>2, <3>3
    <2>2. ASSUME Within(n, w) PROVE d = l
      <3>1. m < s
        BY <2>2, <1>8 DEF Within
      <3>2. l < R
        <4> SUFFICES ASSUME l >= R PROVE FALSE
          BY <1>1, <1>3
        <4> HIDE DEF l, m
        <4>1. R * l >= R * R
          BY <1>1, <1>3
        <4> QED BY <3>1, <4>1, <1>1, <1>3, <1>4, <1>5 DEF Byte
      <3> QED BY <3>2, <1>1, <1>3
    <2>3. << a, b, c, d >> \in [1 .. 4 -> Byte]
      BY <1>4
    <2>4. ValueOf(<< a, b, c, d >>) = a + R * (b + R * (c + R * d))
      BY DEF ValueOf
    <2>5. a \in Nat /\ b \in Nat /\ c \in Nat /\ d \in Nat
      BY <1>4 DEF Byte
    <2>6. n = R * (R * m + b) + a /\ m = R * l + c
      BY <1>5
    <2> HIDE DEF a, b, c, d, q, m, l
    <2>7. ASSUME d = l PROVE a + R * (b + R * (c + R * d)) = n
      BY <2>5, <2>6, <2>7, <1>1, <1>3
    <2> QED BY <2>1, <2>2, <2>3, <2>4, <2>7, <1>8 DEF Word
  <1> QED BY <1>6, <1>7, <1>8

\* Whatever bytes a size is read from, its value fits the width it was read
\* with: an array that was read can be written again.
LEMMA ValueFits ==
  ASSUME NEW w \in {1, 2, 4}, NEW b \in Word(w)
  PROVE  ValueOf(b) \in Nat /\ Within(ValueOf(b), w)
  <1>1. Radix \in Nat \ {0} /\ \A i \in 1 .. w : b[i] \in 0 .. Radix - 1
    BY RadixAssumption DEF Word, Byte
  <1>2. Len(b) = w
    BY DEF Word
  <1>3. CASE w = 1
    BY <1>1, <1>2, <1>3 DEF ValueOf, Within
  <1>4. CASE w = 2
    <2> DEFINE x == b[1]
               y == b[2]
               v == ValueOf(b)
               R == Radix
    <2>1. v = R * y + x
      BY <1>1, <1>2, <1>4 DEF ValueOf
    <2>2. x \in 0 .. R - 1 /\ y \in 0 .. R - 1 /\ R \in Nat \ {0}
      BY <1>1, <1>4
    <2>3. Within(v, w) <=> v \div R < R
      BY <1>4 DEF Within
    <2> HIDE DEF x, y, v, R
    <2>4. v \in Nat
      BY <2>1, <2>2, Products
    <2>5. v \div R = y
      BY <2>1, <2>2, <2>4, DivisionUnique
    <2>6. v \in Nat /\ Within(v, w)
      BY <2>2, <2>3, <2>4, <2>5
    <2> QED BY <2>6 DEF v
  <1>5. CASE w = 4
    <2> DEFINE R == Radix
               s == R * R
               h == b[3] + R * b[4]
               k == b[1] + R * b[2]
    <2>1. b[1] \in 0 .. R - 1 /\ b[2] \in 0 .. R - 1 /\ b[3] \in 0 .. R - 1 /\ b[4] \in 0 .. R - 1
      BY <1>1, <1>5
    <2>2. ValueOf(b) = b[1] + R * (b[2] + R * (b[3] + R * b[4]))
      BY <1>2, <1>5 DEF ValueOf
    <2>3. ValueOf(b) = s * h + k
      BY <2>1, <2>2, <1>1, Rebuild
    <2> HIDE DEF R
    <2>4. \A x, y \in 0 .. R - 1 : x + R * y \in 0 .. s - 1
      <3> TAKE x, y \in 0 .. R - 1
      <3>1. R * y \in Nat /\ R * y <= R * (R - 1)
        BY <1>1 DEF R
      <3>2. R * (R - 1) = s - R
        BY <1>1 DEF R
      <3> QED BY <3>1, <3>2, <1>1 DEF R
    <2>5. k \in 0 .. s - 1 /\ h \in 0 .. s - 1
      BY <2>1, <2>4
    <2>6. s \in Nat \ {0}
      BY <1>1 DEF R
    <2>7. s * h \in Nat
      BY <2>5, <2>6, Products
    <2>10. Within(ValueOf(b), w) <=> ValueOf(b) \div s < s
      BY <1>5 DEF Within, R
    <2> HIDE DEF s, h, k
    <2>8. ValueOf(b) \in Nat
      BY <2>3, <2>5, <2>6, <2>7
    <2>9. ValueOf(b) \div s = h
      BY <2>3, <2>5, <2>6, <2>8, DivisionUnique
    <2> QED BY <2>5, <2>6, <2>8, <2>9, <2>10
  <1> QED BY <1>3, <1>4, <1>5

-----------------------------------------------------------------------------
(***************************************************************************)
(* Byte strings.                                                           *)
(***************************************************************************)
\* A word of w bytes is a byte string of that length.
LEMMA WordIsBytes ==
  ASSUME NEW w \in Nat, NEW x \in Word(w)
  PROVE  x \in Bytes /\ Len(x) = w /\ \A i \in 1 .. w : x[i] \in Byte
  BY DEF Word, Bytes

\* Byte strings put one after the other are a byte string.
LEMMA Joined ==
  ASSUME NEW a \in Bytes, NEW b \in Bytes
  PROVE  a \o b \in Bytes
  BY ConcatProperties DEF Bytes

\* Where the pieces of a stream are split does not matter.
LEMMA Regroup ==
  ASSUME NEW a \in Bytes, NEW b \in Bytes, NEW c \in Bytes
  PROVE  (a \o b) \o c = a \o (b \o c)
  BY ConcatAssociative DEF Bytes

\* A stream that begins with x and goes on with s.
Follows(z, x, s) == x \in Bytes /\ s \in Bytes /\ z = x \o s

\* A piece written first is followed by the rest.
LEMMA One ==
  ASSUME NEW a \in Bytes, NEW s \in Bytes
  PROVE  Follows(a \o s, a, s)
  BY DEF Follows

\* Two pieces written one after the other are met in that order.
LEMMA Two ==
  ASSUME NEW a \in Bytes, NEW b \in Bytes, NEW s \in Bytes
  PROVE  /\ a \o b \in Bytes
         /\ Follows((a \o b) \o s, a, b \o s) /\ Follows(b \o s, b, s)
  <1>1. a \o b \in Bytes
    BY Joined
  <1>2. b \o s \in Bytes
    BY Joined
  <1>3. (a \o b) \o s = a \o (b \o s)
    BY Regroup
  <1> QED BY <1>1, <1>2, <1>3 DEF Follows

\* So are three, the shape of most classes: kind, first member, second member.
LEMMA Three ==
  ASSUME NEW a \in Bytes, NEW b \in Bytes, NEW c \in Bytes, NEW s \in Bytes
  PROVE  /\ (a \o b) \o c \in Bytes
         /\ Follows(((a \o b) \o c) \o s, a, b \o (c \o s))
         /\ Follows(b \o (c \o s), b, c \o s) /\ Follows(c \o s, c, s)
  <1>1. c \o s \in Bytes
    BY Joined
  <1>2. b \o (c \o s) \in Bytes
    BY <1>1, Joined
  <1>3. (a \o b) \o c \in Bytes
    <2>1. a \o b \in Bytes
      BY Joined
    <2> QED BY <2>1, Joined
  <1>4. ((a \o b) \o c) \o s = a \o (b \o (c \o s))
    <2>1. a \o b \in Bytes
      BY Joined
    <2>2. (a \o b) \o (c \o s) = a \o (b \o (c \o s))
      BY <1>1, Regroup, SMTT(40)
    <2>3. ((a \o b) \o c) \o s = (a \o b) \o (c \o s)
      BY <2>1, Regroup, ZenonT(60)
    <2> QED BY <2>2, <2>3
  <1> QED BY <1>1, <1>2, <1>3, <1>4 DEF Follows

\* And four, the shape of the token scheme.
LEMMA FourParts ==
  ASSUME NEW a \in Bytes, NEW b \in Bytes, NEW c \in Bytes, NEW d \in Bytes, NEW s \in Bytes
  PROVE  /\ ((a \o b) \o c) \o d \in Bytes
         /\ Follows((((a \o b) \o c) \o d) \o s, a, b \o (c \o (d \o s)))
         /\ Follows(b \o (c \o (d \o s)), b, c \o (d \o s))
         /\ Follows(c \o (d \o s), c, d \o s) /\ Follows(d \o s, d, s)
  <1>1. d \o s \in Bytes
    BY Joined
  <1>2. c \o (d \o s) \in Bytes
    BY <1>1, Joined
  <1>3. b \o (c \o (d \o s)) \in Bytes
    BY <1>2, Joined
  <1>4. ((a \o b) \o c) \o d \in Bytes
    <2>1. (a \o b) \o c \in Bytes
      BY Three
    <2> QED BY <2>1, Joined
  <1>5. (((a \o b) \o c) \o d) \o s = a \o (b \o (c \o (d \o s)))
    <2> DEFINE x == d \o s
               y == (a \o b) \o c
    <2>1. y \in Bytes
      BY Three
    <2>2. x \in Bytes
      BY <1>1
    <2> HIDE DEF x
    <2>3. y \o x = a \o (b \o (c \o x))
      <3>1. a \o b \in Bytes
        BY Joined
      <3>2. c \o x \in Bytes
        BY <2>2, Joined
      <3>3. (a \o b) \o (c \o x) = a \o (b \o (c \o x))
        <4> DEFINE q == c \o x
        <4>1. q \in Bytes
          BY <3>2
        <4> HIDE DEF q
        <4>2. (a \o b) \o q = a \o (b \o q)
          BY <4>1, Regroup, SMTT(40)
        <4> QED BY <4>2 DEF q
      <3>4. ((a \o b) \o c) \o x = (a \o b) \o (c \o x)
        BY <2>2, <3>1, Regroup, ZenonT(60)
      <3> QED BY <3>3, <3>4
    <2> HIDE DEF y
    <2>4. (y \o d) \o s = y \o (d \o s)
      BY <2>1, Regroup, ZenonT(60)
    <2> QED BY <2>3, <2>4 DEF x, y
  <1> QED BY <1>1, <1>2, <1>3, <1>4, <1>5 DEF Follows

\* The front of a stream that begins with a is a, and what is left after it is
\* s.
LEMMA Split ==
  ASSUME NEW a \in Bytes, NEW s \in Bytes
  PROVE  /\ Len(a \o s) = Len(a) + Len(s) /\ Len(a) \in Nat /\ Len(s) \in Nat
         /\ \A i \in 1 .. Len(a) : (a \o s)[i] = a[i]
         /\ SubSeq(a \o s, 1, Len(a)) = a
         /\ Drop(a \o s, Len(a)) = s
  <1> DEFINE t == a \o s
             n == Len(a)
             p == SubSeq(t, 1, n)
             q == SubSeq(t, n + 1, Len(t))
  <1>1. /\ t \in Seq(Byte) /\ Len(t) = n + Len(s) /\ n \in Nat /\ Len(s) \in Nat
        /\ \A i \in 1 .. n + Len(s) : t[i] = IF i <= n THEN a[i] ELSE s[i - n]
    BY ConcatProperties, LenProperties DEF Bytes
  <1>2. \A i \in 1 .. Len(t) : t[i] \in Byte
    BY <1>1, ElementOfSeq
  <1> HIDE DEF t, n
  <1>3. /\ p \in Seq(Byte) /\ Len(p) = n
        /\ \A i \in 1 .. n : p[i] = t[i]
    <2>1. \A i \in 1 .. n : t[i] \in Byte
      BY <1>1, <1>2
    <2>2. /\ p \in Seq(Byte) /\ Len(p) = IF 1 <= n THEN n - 1 + 1 ELSE 0
          /\ \A i \in 1 .. n - 1 + 1 : p[i] = t[1 + i - 1]
      BY <1>1, <2>1, SubSeqProperties
    <2> HIDE DEF p
    <2> QED BY <1>1, <2>2
  <1>4. p = a
    <2>1. \A i \in 1 .. Len(p) : p[i] = a[i]
      BY <1>1, <1>3
    <2> HIDE DEF p
    <2> QED BY <1>3, <2>1, SeqEqual DEF Bytes, n
  <1>5. /\ q \in Seq(Byte) /\ Len(q) = Len(s)
        /\ \A i \in 1 .. Len(s) : q[i] = t[n + i]
    <2>1. \A i \in n + 1 .. Len(t) : t[i] \in Byte
      BY <1>1, <1>2
    <2>2. /\ q \in Seq(Byte) /\ Len(q) = IF n + 1 <= Len(t) THEN Len(t) - (n + 1) + 1 ELSE 0
          /\ \A i \in 1 .. Len(t) - (n + 1) + 1 : q[i] = t[(n + 1) + i - 1]
      BY <1>1, <2>1, SubSeqProperties
    <2> HIDE DEF q
    <2> QED BY <1>1, <2>2
  <1>6. q = s
    <2>1. \A i \in 1 .. Len(q) : q[i] = s[i]
      BY <1>1, <1>5
    <2> HIDE DEF q
    <2> QED BY <1>5, <2>1, SeqEqual DEF Bytes
  <1> QED BY <1>1, <1>4, <1>6 DEF Drop, t, n

\* What is left of a stream after a read, of however many bytes, is a stream.
LEMMA Rest ==
  ASSUME NEW s \in Bytes, NEW n \in Nat
  PROVE  Drop(s, n) \in Bytes
  <1>1. Len(s) \in Nat /\ \A i \in n + 1 .. Len(s) : s[i] \in Byte
    BY LenProperties, ElementOfSeq DEF Bytes
  <1> QED BY <1>1, SubSeqProperties DEF Drop, Bytes

\* QDataStream >> quintN gives N/8 bytes even when the stream is short of them
\* (carray.hpp).
LEMMA IntRead ==
  ASSUME NEW s \in Bytes, NEW w \in Nat
  PROVE  ReadInt(s, w).v \in Word(w) /\ ReadInt(s, w).rest \in Bytes
  <1>1. Zeros(w) \in Word(w) /\ << >> \in Bytes
    BY RadixAssumption DEF Zeros, Word, Byte, Bytes
  <1>2. ASSUME Len(s) >= w PROVE SubSeq(s, 1, w) \in Word(w)
    <2>1. Len(s) \in Nat /\ \A i \in 1 .. w : s[i] \in Byte
      BY <1>2, LenProperties, ElementOfSeq DEF Bytes
    <2>2. /\ SubSeq(s, 1, w) \in Seq(Byte)
          /\ Len(SubSeq(s, 1, w)) = IF 1 <= w THEN w - 1 + 1 ELSE 0
      BY <2>1, SubSeqProperties
    <2> DEFINE t == SubSeq(s, 1, w)
    <2> HIDE DEF t
    <2>3. t \in Seq(Byte) /\ Len(t) = w
      BY <2>2 DEF t
    <2>4. t \in Word(w)
      BY <2>3, LenProperties DEF Word
    <2> QED BY <2>4 DEF t
  <1>3. Drop(s, w) \in Bytes
    BY Rest
  <1> QED BY <1>1, <1>2, <1>3 DEF ReadInt, Got

\* So does readRawData into a zeroed buffer (carray.cpp).
LEMMA RawRead ==
  ASSUME NEW s \in Bytes, NEW n \in Nat
  PROVE  ReadRaw(s, n).v \in Word(n) /\ ReadRaw(s, n).rest \in Bytes
  <1>1. \A i \in 1 .. n : (IF i <= Len(s) THEN s[i] ELSE 0) \in Byte
    BY RadixAssumption, ElementOfSeq, LenProperties DEF Byte, Bytes
  <1> QED BY <1>1, Rest DEF ReadRaw, Got, Word

\* And fl_array gives as many bytes as its prefix says, uninitialised ones
\* included, never more than the prefix can count.
LEMMA ArrayRead ==
  ASSUME NEW s \in Bytes, NEW w \in {1, 2, 4}, NEW junk \in Junk
  PROVE  LET a == ReadArray(s, w, junk)
         IN  a.v \in Bytes /\ Within(Len(a.v), w) /\ a.rest \in Bytes
  <1> DEFINE size == ReadInt(s, w)
             n == ValueOf(size.v)
             d == [i \in 1 .. n |-> IF i <= Len(size.rest) THEN size.rest[i] ELSE junk]
  <1>1. size.v \in Word(w) /\ size.rest \in Bytes
    BY IntRead
  <1>2. n \in Nat /\ Within(n, w)
    BY <1>1, ValueFits
  <1>3. ReadArray(s, w, junk) = [v |-> d, rest |-> Drop(size.rest, n)]
    BY DEF ReadArray, Got
  <1> HIDE DEF size, n
  <1>4. \A i \in 1 .. n : d[i] \in Byte
    <2>1. junk \in Byte
      BY JunkAssumption
    <2>2. Len(size.rest) \in Nat /\ \A i \in 1 .. Len(size.rest) : size.rest[i] \in Byte
      BY <1>1, LenProperties, ElementOfSeq DEF Bytes
    <2> QED BY <1>2, <2>1, <2>2
  <1>5. d \in Word(n)
    BY <1>4 DEF Word
  <1>6. d \in Bytes /\ Len(d) = n
    BY <1>2, <1>5, WordIsBytes
  <1> HIDE DEF d
  <1> QED BY <1>1, <1>2, <1>3, <1>6, Rest

\* An integer that was written is read as it was, and no byte of what follows
\* it.
LEMMA IntBack ==
  ASSUME NEW w \in Nat, NEW x \in Word(w), NEW z, NEW s, Follows(z, x, s)
  PROVE  ReadInt(z, w).v = x /\ ReadInt(z, w).rest = s
  <1>1. x \in Bytes /\ Len(x) = w
    BY WordIsBytes
  <1>2. Len(z) >= w /\ SubSeq(z, 1, w) = x /\ Drop(z, w) = s
    BY <1>1, Split DEF Follows
  <1> QED BY <1>2 DEF ReadInt, Got

\* The same for c_array.
LEMMA RawBack ==
  ASSUME NEW n \in Nat, NEW x \in Word(n), NEW z, NEW s, Follows(z, x, s)
  PROVE  ReadRaw(z, n).v = x /\ ReadRaw(z, n).rest = s
  <1> DEFINE d == [i \in 1 .. n |-> IF i <= Len(z) THEN z[i] ELSE 0]
  <1>1. x \in Bytes /\ Len(x) = n
    BY WordIsBytes
  <1>2. \A i \in 1 .. n : d[i] = x[i]
    BY <1>1, Split DEF Follows
  <1>3. d = x
    BY <1>2 DEF Word
  <1>4. Drop(z, n) = s
    BY <1>1, Split DEF Follows
  <1> QED BY <1>3, <1>4 DEF ReadRaw, Got

\* fl_array is written as a byte string.
LEMMA ArrayWritten ==
  ASSUME NEW w \in {1, 2, 4}, NEW x \in Bytes
  PROVE  WriteArray(x, w) \in Bytes
  <1>1. UInt(Len(x), w) \in Bytes
    BY Sizes, WordIsBytes, LenProperties DEF Bytes
  <1> QED BY <1>1, Joined DEF WriteArray

\* fl_array is read as it was written if its size fits the prefix; no
\* uninitialised byte is then left in it.
THEOREM ArrayBack ==
  ASSUME NEW w \in {1, 2, 4}, NEW x \in Bytes, NEW junk \in Junk, Within(Len(x), w),
         NEW z, NEW s, Follows(z, WriteArray(x, w), s)
  PROVE  ReadArray(z, w, junk).v = x /\ ReadArray(z, w, junk).rest = s
  <1> DEFINE size == UInt(Len(x), w)
             n == Len(x)
             t == x \o s
             d == [i \in 1 .. n |-> IF i <= Len(t) THEN t[i] ELSE junk]
             r == ReadInt(z, w)
  <1>1. n \in Nat /\ size \in Word(w) /\ ValueOf(size) = n
    BY Sizes, LenProperties DEF Bytes
  <1>2. size \in Bytes /\ s \in Bytes
    BY <1>1, WordIsBytes DEF Follows
  <1>3. z = (size \o x) \o s
    BY DEF Follows, WriteArray
  <1>4. d = x
    <2>1. \A i \in 1 .. n : d[i] = x[i]
      BY <1>2, Split
    <2>2. x = [i \in 1 .. n |-> x[i]]
      BY LenProperties DEF Bytes
    <2> QED BY <2>1, <2>2
  <1>5. Drop(t, n) = s
    BY <1>2, Split
  <1>6. ReadArray(z, w, junk) =
          Got([i \in 1 .. ValueOf(r.v) |-> IF i <= Len(r.rest) THEN r.rest[i] ELSE junk],
              Drop(r.rest, ValueOf(r.v)))
    BY DEF ReadArray
  <1> HIDE DEF size, n
  <1>7. Follows(z, size, t)
    BY <1>2, <1>3, Two
  <1> HIDE DEF t
  <1>8. r.v = size /\ r.rest = t
    BY <1>1, <1>7, IntBack
  <1> HIDE DEF r
  <1>9. ReadArray(z, w, junk) = Got(x, s)
    BY <1>1, <1>4, <1>5, <1>6, <1>8
  <1> QED BY <1>9 DEF Got

\* A kind is one byte.
LEMMA Kind ==
  ASSUME NEW k \in 0 .. 16
  PROVE  << k >> \in Word(1) /\ << k >> \in Bytes
  <1>1. << k >> \in Word(1)
    BY RadixAssumption DEF Word, Byte
  <1> QED BY <1>1, WordIsBytes

\* A kind is read as it was written.
LEMMA KindBack ==
  ASSUME NEW k \in 0 .. 16, NEW z, NEW s, Follows(z, << k >>, s)
  PROVE  ReadInt(z, 1).v[1] = k /\ ReadInt(z, 1).rest = s
  <1> DEFINE b == << k >>
  <1>1. b[1] = k
    OBVIOUS
  <1>2. b \in Word(1)
    BY Kind
  <1> HIDE DEF b
  <1>3. Follows(z, b, s)
    BY DEF b
  <1> QED BY <1>1, <1>2, <1>3, IntBack

\* Whatever is read as a kind is a byte.
LEMMA KindRead ==
  ASSUME NEW s \in Bytes
  PROVE  ReadInt(s, 1).v[1] \in Byte /\ ReadInt(s, 1).rest \in Bytes
  BY IntRead DEF Word

\* The lengths of hashes, token identifiers and signatures are lengths.
LEMMA Hashes ==
  HashLen \in Nat /\ TokenIdLen \in Nat /\ SigLen \in Nat /\ Hash = Word(HashLen)
  BY HashLenAssumption DEF TokenIdLen, SigLen, Hash

\* Bytes are a word of as many.
LEMMA SizedIsWord ==
  ASSUME NEW x \in Bytes, NEW n \in Nat, Len(x) = n
  PROVE  x \in Word(n)
  BY DEF Bytes, Word

-----------------------------------------------------------------------------
(***************************************************************************)
(* Addresses (src/qaddresses.cpp).                                         *)
(***************************************************************************)
\* Every address whose hash has its length is read by Address::from_ as it was
\* serialised, whatever follows it in the stream, and nothing of what follows is
\* consumed (src/qaddresses.cpp).
THEOREM AddressBack ==
  ASSUME NEW a \in Address
  PROVE  /\ WriteAddress(a) \in Bytes
         /\ AddressFits(a) => \A s \in Bytes : ReadAddress(WriteAddress(a) \o s) = Got(a, s)
  <1> DEFINE k == << a.type >>
  <1>1. /\ a.type \in AddressKinds /\ a.type \in 0 .. 16
        /\ AddressFits(a) => a.addrhash \in Word(HashLen)
        /\ a = [type |-> a.type, addrhash |-> a.addrhash]
    BY Hashes, SizedIsWord DEF Address, AddressFits, AddressKinds
  <1>2. a.addrhash \in Bytes /\ k \in Bytes
    BY <1>1, Kind DEF Address
  <1>3. WriteAddress(a) = k \o a.addrhash
    BY DEF WriteAddress
  <1>4. ASSUME NEW s \in Bytes, AddressFits(a)
        PROVE  ReadAddress(WriteAddress(a) \o s) = Got(a, s)
    <2> DEFINE z == WriteAddress(a) \o s
               t == a.addrhash \o s
               kind == ReadInt(z, 1)
               hash == ReadRaw(kind.rest, HashLen)
    <2>1. ReadAddress(z) = IF kind.v[1] \in AddressKinds
                           THEN Got([type |-> kind.v[1], addrhash |-> hash.v], hash.rest)
                           ELSE Got(nullptr, kind.rest)
      BY DEF ReadAddress
    <2> HIDE DEF k
    <2>2. Follows(z, k, t) /\ Follows(t, a.addrhash, s)
      BY <1>2, <1>3, Two
    <2> HIDE DEF z, t
    <2>3. kind.v[1] = a.type /\ kind.rest = t
      BY <1>1, <2>2, KindBack DEF k
    <2>4. hash.v = a.addrhash /\ hash.rest = s
      BY <1>1, <1>4, <2>2, <2>3, Hashes, RawBack
    <2> HIDE DEF kind, hash
    <2>5. ReadAddress(z) = Got(a, s)
      BY <1>1, <2>1, <2>3, <2>4
    <2> QED BY <2>5 DEF z
  <1> QED BY <1>2, <1>3, <1>4, Joined

\* Whatever the stream holds, Address::from_ gives an address whose hash has its
\* length, or a null pointer.
LEMMA AddressRead ==
  ASSUME NEW s \in Bytes
  PROVE  /\ ReadAddress(s).v \in Address \cup {nullptr} /\ ReadAddress(s).rest \in Bytes
         /\ ReadAddress(s).v # nullptr => AddressFits(ReadAddress(s).v)
  <1> DEFINE kind == ReadInt(s, 1)
             hash == ReadRaw(kind.rest, HashLen)
  <1>1. kind.rest \in Bytes
    BY KindRead
  <1>2. hash.v \in Bytes /\ Len(hash.v) = HashLen /\ hash.rest \in Bytes
    BY <1>1, RawRead, Hashes, WordIsBytes
  <1> HIDE DEF kind, hash
  <1>3. ReadAddress(s) = IF kind.v[1] \in AddressKinds
                         THEN Got([type |-> kind.v[1], addrhash |-> hash.v], hash.rest)
                         ELSE Got(nullptr, kind.rest)
    BY DEF ReadAddress, kind, hash
  <1> QED BY <1>1, <1>2, <1>3 DEF Got, Address, AddressFits

-----------------------------------------------------------------------------
(***************************************************************************)
(* Unlock conditions (src/qunlock_conditions.cpp).                         *)
(***************************************************************************)
\* Every unlock condition of the seven kinds whose address has its length is read
\* by Unlock_Condition::from_ as it was serialised: the address first, then the amount or the time, for
\* the kinds that have them (src/qunlock_conditions.cpp).
THEOREM ConditionBack ==
  ASSUME NEW u \in Condition
  PROVE  /\ WriteCondition(u) \in Bytes
         /\ ConditionFits(u) => \A s \in Bytes : ReadCondition(WriteCondition(u) \o s) = Got(u, s)
  <1> DEFINE k == u.type
             a == IF k = 2 THEN << >> ELSE WriteAddress(u.address)
  <1>1. /\ k \in 0 .. 6 /\ k \in 0 .. 16
        /\ IF k = 2 THEN u.address = nullptr ELSE u.address \in Address
        /\ ConditionFits(u) => u.address = nullptr \/ AddressFits(u.address)
        /\ u.extra \in Word(ExtraLen(k))
        /\ u = [type |-> k, address |-> u.address, extra |-> u.extra]
    BY DEF Condition, ConditionFits
  <1>2. ExtraLen(k) \in Nat
    BY <1>1 DEF ExtraLen
  <1>3. u.extra \in Bytes /\ << k >> \in Bytes
    BY <1>1, <1>2, WordIsBytes, Kind
  <1>4. a \in Bytes
    BY <1>1, AddressBack, EmptySeq DEF Bytes
  <1>5. ASSUME NEW t \in Bytes, ConditionFits(u)
        PROVE  (IF k = 2 THEN Got(nullptr, a \o t) ELSE ReadAddress(a \o t)) = Got(u.address, t)
    <2>1. CASE k = 2
      BY <1>1, <2>1, ConcatEmptySeq DEF Bytes
    <2>2. CASE k # 2
      <3>1. u.address \in Address /\ a = WriteAddress(u.address)
        BY <1>1, <2>2
      <3>2. AddressFits(u.address)
        BY <1>1, <1>5, <2>2, NullHeldAssumption DEF ConditionFits
      <3> HIDE DEF a
      <3> QED BY <2>2, <3>1, <3>2, AddressBack
    <2> QED BY <2>1, <2>2
  <1>6. WriteCondition(u) = (<< k >> \o a) \o u.extra
    BY DEF WriteCondition
  <1> HIDE DEF a
  <1>7. ASSUME NEW s \in Bytes, ConditionFits(u)
        PROVE  ReadCondition(WriteCondition(u) \o s) = Got(u, s)
    <2> DEFINE z == WriteCondition(u) \o s
               t == u.extra \o s
               r == a \o t
               kind == ReadInt(z, 1)
               addr == IF kind.v[1] = 2 THEN Got(nullptr, kind.rest) ELSE ReadAddress(kind.rest)
               extra == ReadInt(addr.rest, ExtraLen(kind.v[1]))
    <2>1. ReadCondition(z) =
            IF kind.v[1] \in 0 .. 6
            THEN Got([type |-> kind.v[1], address |-> addr.v, extra |-> extra.v], extra.rest)
            ELSE Got(nullptr, kind.rest)
      BY DEF ReadCondition
    <2> DEFINE b == << k >>
    <2>2. b \in Bytes /\ z = ((b \o a) \o u.extra) \o s
      BY <1>3, <1>6
    <2> HIDE DEF b
    <2>3. Follows(z, b, r) /\ Follows(t, u.extra, s)
      BY <1>3, <1>4, <2>2, Three
    <2>4. t \in Bytes
      BY <1>3, Joined
    <2>5. (IF k = 2 THEN Got(nullptr, r) ELSE ReadAddress(r)) = Got(u.address, t)
      BY <1>5, <1>7, <2>4
    <2> HIDE DEF z, t, r
    <2>6. kind.v[1] = k /\ kind.rest = r
      BY <1>1, <2>3, KindBack DEF b
    <2>7. addr.v = u.address /\ addr.rest = t
      BY <2>5, <2>6 DEF Got
    <2>8. extra.v = u.extra /\ extra.rest = s
      BY <1>1, <1>2, <2>3, <2>6, <2>7, IntBack
    <2> HIDE DEF kind, addr, extra
    <2>9. ReadCondition(z) = Got(u, s)
      BY <1>1, <2>1, <2>6, <2>7, <2>8
    <2> QED BY <2>9 DEF z
  <1> QED BY <1>3, <1>4, <1>6, <1>7, Joined

\* A condition that was read may have no address, and one of an unknown kind is a null pointer.
ReadableCondition ==
  UNION { [type : {k}, address : (IF k = 2 THEN {} ELSE Address) \cup {nullptr},
           extra : Word(ExtraLen(k))] : k \in 0 .. 6 }

\* Whatever the stream holds, Unlock_Condition::from_ gives a condition, with
\* an address of full length or without its address, or a null pointer.
LEMMA ConditionRead ==
  ASSUME NEW s \in Bytes
  PROVE  /\ ReadCondition(s).v \in ReadableCondition \cup {nullptr} /\ ReadCondition(s).rest \in Bytes
         /\ ReadCondition(s).v # nullptr => ConditionFits(ReadCondition(s).v)
  <1> DEFINE kind == ReadInt(s, 1)
             k == kind.v[1]
             addr == IF k = 2 THEN Got(nullptr, kind.rest) ELSE ReadAddress(kind.rest)
             extra == ReadInt(addr.rest, ExtraLen(k))
  <1>1. kind.rest \in Bytes
    BY KindRead
  <1> HIDE DEF kind
  <1>2. /\ addr.v \in (IF k = 2 THEN {} ELSE Address) \cup {nullptr} /\ addr.rest \in Bytes
        /\ addr.v # nullptr => AddressFits(addr.v)
    BY <1>1, AddressRead DEF Got
  <1>3. ReadCondition(s) = IF k \in 0 .. 6
                           THEN Got([type |-> k, address |-> addr.v, extra |-> extra.v], extra.rest)
                           ELSE Got(nullptr, kind.rest)
    BY DEF ReadCondition, kind
  <1> HIDE DEF k, addr
  <1>4. ASSUME k \in 0 .. 6
        PROVE  extra.v \in Word(ExtraLen(k)) /\ extra.rest \in Bytes
    <2>1. ExtraLen(k) \in Nat
      BY <1>4 DEF ExtraLen
    <2> QED BY <1>2, <2>1, IntRead
  <1> HIDE DEF extra
  <1>5. ASSUME k \in 0 .. 6
        PROVE  /\ [type |-> k, address |-> addr.v, extra |-> extra.v] \in ReadableCondition
               /\ ConditionFits([type |-> k, address |-> addr.v, extra |-> extra.v])
    BY <1>2, <1>4, <1>5 DEF ReadableCondition, ConditionFits
  <1> QED BY <1>1, <1>3, <1>4, <1>5 DEF Got

-----------------------------------------------------------------------------
(***************************************************************************)
(* Features (src/qfeatures.cpp).                                           *)
(***************************************************************************)
\* Every feature whose data fits its prefix, two bytes for metadata and one for
\* a tag, and whose address has its length is read by Feature::from_ as it was
\* serialised (src/qfeatures.cpp).
THEOREM FeatureBack ==
  ASSUME NEW f \in Feature, NEW junk \in Junk
  PROVE  /\ WriteFeature(f) \in Bytes
         /\ FeatureFits(f) => \A s \in Bytes : ReadFeature(WriteFeature(f) \o s, junk) = Got(f, s)
  <1> DEFINE k == f.type
             b == << k >>
             body == IF k \in {0, 1} THEN WriteAddress(f.address) ELSE WriteArray(f.data, SizeLen(k))
  <1>1. /\ k \in 0 .. 16 /\ (k \in {0, 1} \/ k \in {2, 3})
        /\ k \in {0, 1} => f.address \in Address /\ f.data = << >>
        /\ k \in {2, 3} => f.address = nullptr /\ f.data \in Bytes
        /\ f = [type |-> k, address |-> f.address, data |-> f.data]
    BY DEF Feature
  <1>2. SizeLen(k) \in {1, 2, 4}
    BY DEF SizeLen
  <1>3. b \in Bytes
    BY <1>1, Kind
  <1>4. body \in Bytes
    BY <1>1, <1>2, AddressBack, ArrayWritten
  <1>5. WriteFeature(f) = b \o body
    BY DEF WriteFeature
  <1> HIDE DEF body
  <1>6. ASSUME NEW s \in Bytes, FeatureFits(f)
        PROVE  ReadFeature(WriteFeature(f) \o s, junk) = Got(f, s)
    <2> DEFINE z == WriteFeature(f) \o s
               t == body \o s
               kind == ReadInt(z, 1)
               addr == ReadAddress(kind.rest)
               data == ReadArray(kind.rest, SizeLen(kind.v[1]), junk)
    <2>1. ReadFeature(z, junk) =
            CASE kind.v[1] \in {0, 1} ->
                   Got([type |-> kind.v[1], address |-> addr.v, data |-> << >>], addr.rest)
              [] kind.v[1] \in {2, 3} ->
                   Got([type |-> kind.v[1], address |-> nullptr, data |-> data.v], data.rest)
              [] OTHER -> Got(nullptr, kind.rest)
      BY DEF ReadFeature
    <2> HIDE DEF b
    <2>2. Follows(z, b, t) /\ Follows(t, body, s)
      BY <1>3, <1>4, <1>5, Two
    <2> HIDE DEF z
    <2>3. kind.v[1] = k /\ kind.rest = t
      <3> HIDE DEF t
      <3> QED BY <1>1, <2>2, KindBack DEF b
    <2>4. CASE k \in {0, 1}
      <3>1. f.address \in Address /\ AddressFits(f.address)
        BY <1>1, <1>6, <2>4, NullHeldAssumption DEF FeatureFits
      <3>2. ReadAddress(t) = Got(f.address, s)
        BY <1>1, <2>4, <3>1, AddressBack DEF body
      <3> HIDE DEF t
      <3>3. addr.v = f.address /\ addr.rest = s
        BY <2>3, <3>2 DEF Got
      <3> HIDE DEF kind, addr
      <3>4. ReadFeature(z, junk) = Got(f, s)
        BY <1>1, <2>1, <2>3, <2>4, <3>3
      <3> QED BY <3>4 DEF z
    <2>5. CASE k \in {2, 3}
      <3>1. body = WriteArray(f.data, SizeLen(k))
        BY <2>5 DEF body
      <3>2. Within(Len(f.data), SizeLen(k)) /\ f.data \in Bytes
        BY <1>1, <1>6, <2>5 DEF FeatureFits
      <3> HIDE DEF t
      <3>3. data.v = f.data /\ data.rest = s
        BY <1>2, <2>2, <2>3, <3>1, <3>2, ArrayBack
      <3> HIDE DEF kind, data
      <3>4. ReadFeature(z, junk) = Got(f, s)
        BY <1>1, <2>1, <2>3, <2>5, <3>3
      <3> QED BY <3>4 DEF z
    <2> QED BY <1>1, <2>4, <2>5
  <1> QED BY <1>3, <1>4, <1>5, <1>6, Joined

-----------------------------------------------------------------------------
(***************************************************************************)
(* Native tokens and the token scheme (qnative_tokens, qtoken_scheme.cpp). *)
(***************************************************************************)
\* Every native token whose identifier has its length is read as it was
\* serialised (src/qnative_tokens.cpp).
THEOREM TokenBack ==
  ASSUME NEW t \in NativeToken
  PROVE  /\ WriteToken(t) \in Bytes
         /\ TokenFits(t) => \A s \in Bytes : ReadToken(WriteToken(t) \o s) = Got(t, s)
  <1> DEFINE a == t.token_id
             b == t.amount
  <1>1. /\ a \in Bytes /\ b \in Word(HashLen)
        /\ TokenFits(t) => a \in Word(TokenIdLen)
        /\ t = [token_id |-> a, amount |-> b]
    BY Hashes, SizedIsWord DEF NativeToken, TokenFits
  <1>2. WriteToken(t) = a \o b
    BY DEF WriteToken
  <1> HIDE DEF a, b
  <1>3. a \in Bytes /\ b \in Bytes
    BY <1>1, Hashes, WordIsBytes
  <1>4. ASSUME NEW s \in Bytes, TokenFits(t)
        PROVE  ReadToken(WriteToken(t) \o s) = Got(t, s)
    <2> DEFINE z == WriteToken(t) \o s
               r == b \o s
               id == ReadRaw(z, TokenIdLen)
               amount == ReadRaw(id.rest, HashLen)
    <2>1. ReadToken(z) = Got([token_id |-> id.v, amount |-> amount.v], amount.rest)
      BY DEF ReadToken
    <2>2. Follows(z, a, r) /\ Follows(r, b, s)
      BY <1>2, <1>3, Two
    <2> HIDE DEF z, r
    <2>3. id.v = a /\ id.rest = r
      BY <1>1, <1>4, <2>2, Hashes, RawBack
    <2>4. amount.v = b /\ amount.rest = s
      BY <1>1, <2>2, <2>3, Hashes, RawBack
    <2> HIDE DEF id, amount
    <2>5. ReadToken(z) = Got(t, s)
      BY <1>1, <2>1, <2>3, <2>4
    <2> QED BY <2>5 DEF z
  <1> QED BY <1>2, <1>3, <1>4, Joined

\* The token scheme is read as it was serialised, its three amounts in order
\* (src/qtoken_scheme.cpp).
THEOREM SchemeBack ==
  ASSUME NEW t \in TokenScheme
  PROVE  /\ WriteScheme(t) \in Bytes
         /\ \A s \in Bytes : ReadScheme(WriteScheme(t) \o s) = Got(t, s)
  <1> DEFINE k == << 0 >>
             a == t.minted
             b == t.melted
             c == t.maximum
  <1>1. /\ t.type = 0 /\ a \in Word(HashLen) /\ b \in Word(HashLen) /\ c \in Word(HashLen)
        /\ t = [type |-> 0, minted |-> a, melted |-> b, maximum |-> c]
    BY Hashes DEF TokenScheme
  <1>2. WriteScheme(t) = ((k \o a) \o b) \o c
    BY <1>1 DEF WriteScheme
  <1> HIDE DEF a, b, c
  <1>3. k \in Bytes /\ a \in Bytes /\ b \in Bytes /\ c \in Bytes
    BY <1>1, Hashes, WordIsBytes, Kind
  <1>4. ASSUME NEW s \in Bytes
        PROVE  ReadScheme(WriteScheme(t) \o s) = Got(t, s)
    <2> DEFINE z == WriteScheme(t) \o s
               q == c \o s
               r == b \o q
               p == a \o r
               kind == ReadInt(z, 1)
               minted == ReadRaw(kind.rest, HashLen)
               melted == ReadRaw(minted.rest, HashLen)
               maximum == ReadRaw(melted.rest, HashLen)
    <2>1. ReadScheme(z) =
            IF kind.v[1] = 0
            THEN Got([type |-> 0, minted |-> minted.v, melted |-> melted.v,
                      maximum |-> maximum.v], maximum.rest)
            ELSE Got(nullptr, kind.rest)
      BY DEF ReadScheme
    <2> HIDE DEF k
    <2>2. Follows(z, k, p) /\ Follows(p, a, r) /\ Follows(r, b, q) /\ Follows(q, c, s)
      BY <1>2, <1>3, FourParts
    <2> HIDE DEF z, p, q, r
    <2>3. kind.v[1] = 0 /\ kind.rest = p
      BY <2>2, KindBack DEF k
    <2>4. minted.v = a /\ minted.rest = r
      BY <1>1, <2>2, <2>3, Hashes, RawBack
    <2>5. melted.v = b /\ melted.rest = q
      BY <1>1, <2>2, <2>4, Hashes, RawBack
    <2>6. maximum.v = c /\ maximum.rest = s
      BY <1>1, <2>2, <2>5, Hashes, RawBack
    <2> HIDE DEF kind, minted, melted, maximum
    <2>7. ReadScheme(z) = Got(t, s)
      BY <1>1, <2>1, <2>3, <2>4, <2>5, <2>6
    <2> QED BY <2>7 DEF z
  <1> QED BY <1>2, <1>3, <1>4, FourParts

-----------------------------------------------------------------------------
(***************************************************************************)
(* Inputs, signatures and unlocks (src/qinputs.cpp, src/qsignatures.cpp,   *)
(* src/qunlocks.cpp).                                                      *)
(***************************************************************************)
\* Every UTXO input whose transaction identifier has its length is read by
\* Input::from_ as it was serialised (src/qinputs.cpp).
THEOREM InputBack ==
  ASSUME NEW i \in Input
  PROVE  /\ WriteInput(i) \in Bytes
         /\ InputFits(i) => \A s \in Bytes : ReadInput(WriteInput(i) \o s) = Got(i, s)
  <1> DEFINE k == << 0 >>
             a == i.transaction_id
             b == i.transaction_output_index
  <1>1. /\ i.type = 0 /\ a \in Bytes /\ b \in Word(2)
        /\ InputFits(i) => a \in Word(HashLen)
        /\ i = [type |-> 0, transaction_id |-> a, transaction_output_index |-> b]
    BY Hashes, SizedIsWord DEF Input, InputFits
  <1>2. WriteInput(i) = (k \o a) \o b
    BY <1>1 DEF WriteInput
  <1> HIDE DEF a, b
  <1>3. k \in Bytes /\ a \in Bytes /\ b \in Bytes
    BY <1>1, Hashes, WordIsBytes, Kind
  <1>4. ASSUME NEW s \in Bytes, InputFits(i)
        PROVE  ReadInput(WriteInput(i) \o s) = Got(i, s)
    <2> DEFINE z == WriteInput(i) \o s
               q == b \o s
               r == a \o q
               kind == ReadInt(z, 1)
               id == ReadRaw(kind.rest, HashLen)
               index == ReadInt(id.rest, 2)
    <2>1. ReadInput(z) =
            IF kind.v[1] = 0
            THEN Got([type |-> 0, transaction_id |-> id.v,
                      transaction_output_index |-> index.v], index.rest)
            ELSE Got(nullptr, kind.rest)
      BY DEF ReadInput
    <2> HIDE DEF k
    <2>2. Follows(z, k, r) /\ Follows(r, a, q) /\ Follows(q, b, s)
      BY <1>2, <1>3, Three
    <2> HIDE DEF z, q, r
    <2>3. kind.v[1] = 0 /\ kind.rest = r
      BY <2>2, KindBack DEF k
    <2>4. id.v = a /\ id.rest = q
      BY <1>1, <1>4, <2>2, <2>3, Hashes, RawBack
    <2>5. index.v = b /\ index.rest = s
      BY <1>1, <2>2, <2>4, IntBack
    <2> HIDE DEF kind, id, index
    <2>6. ReadInput(z) = Got(i, s)
      BY <1>1, <2>1, <2>3, <2>4, <2>5
    <2> QED BY <2>6 DEF z
  <1> QED BY <1>2, <1>3, <1>4, Three

\* Every Ed25519 signature whose key and signature have their lengths is read as
\* it was serialised (src/qsignatures.cpp).
THEOREM SignatureBack ==
  ASSUME NEW g \in Signature
  PROVE  /\ WriteSignature(g) \in Bytes
         /\ SignatureFits(g) => \A s \in Bytes : ReadSignature(WriteSignature(g) \o s) = Got(g, s)
  <1> DEFINE k == << 0 >>
             a == g.public_key
             b == g.signature
  <1>1. /\ g.type = 0 /\ a \in Bytes /\ b \in Bytes
        /\ SignatureFits(g) => a \in Word(HashLen) /\ b \in Word(SigLen)
        /\ g = [type |-> 0, public_key |-> a, signature |-> b]
    BY Hashes, SizedIsWord DEF Signature, SignatureFits
  <1>2. WriteSignature(g) = (k \o a) \o b
    BY <1>1 DEF WriteSignature
  <1> HIDE DEF a, b
  <1>3. k \in Bytes /\ a \in Bytes /\ b \in Bytes
    BY <1>1, Hashes, WordIsBytes, Kind
  <1>4. ASSUME NEW s \in Bytes, SignatureFits(g)
        PROVE  ReadSignature(WriteSignature(g) \o s) = Got(g, s)
    <2> DEFINE z == WriteSignature(g) \o s
               q == b \o s
               r == a \o q
               kind == ReadInt(z, 1)
               key == ReadRaw(kind.rest, HashLen)
               sig == ReadRaw(key.rest, SigLen)
    <2>1. ReadSignature(z) =
            IF kind.v[1] = 0
            THEN Got([type |-> 0, public_key |-> key.v, signature |-> sig.v], sig.rest)
            ELSE Got(nullptr, kind.rest)
      BY DEF ReadSignature
    <2> HIDE DEF k
    <2>2. Follows(z, k, r) /\ Follows(r, a, q) /\ Follows(q, b, s)
      BY <1>2, <1>3, Three
    <2> HIDE DEF z, q, r
    <2>3. kind.v[1] = 0 /\ kind.rest = r
      BY <2>2, KindBack DEF k
    <2>4. key.v = a /\ key.rest = q
      BY <1>1, <1>4, <2>2, <2>3, Hashes, RawBack
    <2>5. sig.v = b /\ sig.rest = s
      BY <1>1, <1>4, <2>2, <2>4, Hashes, RawBack
    <2> HIDE DEF kind, key, sig
    <2>6. ReadSignature(z) = Got(g, s)
      BY <1>1, <2>1, <2>3, <2>4, <2>5
    <2> QED BY <2>6 DEF z
  <1> QED BY <1>2, <1>3, <1>4, Three

\* Every unlock, with its signature, if of full length, or with the index of
\* another unlock, is read by Unlock::from_ as it was serialised (src/qunlocks.cpp).
THEOREM UnlockBack ==
  ASSUME NEW u \in Unlock
  PROVE  /\ WriteUnlock(u) \in Bytes
         /\ UnlockFits(u) => \A s \in Bytes : ReadUnlock(WriteUnlock(u) \o s) = Got(u, s)
  <1> DEFINE k == u.type
             b == << k >>
             body == IF k = 0 THEN WriteSignature(u.signature) ELSE u.reference
  <1>1. /\ k \in 0 .. 16 /\ (k = 0 \/ k \in 1 .. 3)
        /\ k = 0 => u.signature \in Signature /\ u.reference = << >>
        /\ k \in 1 .. 3 => u.signature = nullptr /\ u.reference \in Word(2)
        /\ u = [type |-> k, signature |-> u.signature, reference |-> u.reference]
    BY DEF Unlock
  <1>2. b \in Bytes
    BY <1>1, Kind
  <1>3. body \in Bytes
    BY <1>1, SignatureBack, WordIsBytes
  <1>4. WriteUnlock(u) = b \o body
    BY DEF WriteUnlock
  <1> HIDE DEF body
  <1>5. ASSUME NEW s \in Bytes, UnlockFits(u)
        PROVE  ReadUnlock(WriteUnlock(u) \o s) = Got(u, s)
    <2> DEFINE z == WriteUnlock(u) \o s
               t == body \o s
               kind == ReadInt(z, 1)
               sig == ReadSignature(kind.rest)
               ref == ReadInt(kind.rest, 2)
    <2>1. ReadUnlock(z) =
            CASE kind.v[1] = 0 ->
                   Got([type |-> 0, signature |-> sig.v, reference |-> << >>], sig.rest)
              [] kind.v[1] \in 1 .. 3 ->
                   Got([type |-> kind.v[1], signature |-> nullptr, reference |-> ref.v], ref.rest)
              [] OTHER -> Got(nullptr, kind.rest)
      BY DEF ReadUnlock
    <2> HIDE DEF b
    <2>2. Follows(z, b, t) /\ Follows(t, body, s)
      BY <1>2, <1>3, <1>4, Two
    <2> HIDE DEF z
    <2>3. kind.v[1] = k /\ kind.rest = t
      <3> HIDE DEF t
      <3> QED BY <1>1, <2>2, KindBack DEF b
    <2>4. CASE k = 0
      <3>1. u.signature \in Signature /\ SignatureFits(u.signature)
        BY <1>1, <1>5, <2>4, NullHeldAssumption DEF UnlockFits
      <3>2. ReadSignature(t) = Got(u.signature, s)
        BY <1>1, <2>4, <3>1, SignatureBack DEF body
      <3> HIDE DEF t
      <3>3. sig.v = u.signature /\ sig.rest = s
        BY <2>3, <3>2 DEF Got
      <3> HIDE DEF kind, sig
      <3>4. ReadUnlock(z) = Got(u, s)
        BY <1>1, <2>1, <2>3, <2>4, <3>3
      <3> QED BY <3>4 DEF z
    <2>5. CASE k \in 1 .. 3
      <3>1. body = u.reference
        BY <2>5 DEF body
      <3> HIDE DEF t
      <3>2. ref.v = u.reference /\ ref.rest = s
        BY <1>1, <2>2, <2>3, <2>5, <3>1, IntBack
      <3> HIDE DEF kind, ref
      <3>3. ReadUnlock(z) = Got(u, s)
        BY <1>1, <2>1, <2>3, <2>5, <3>2
      <3> QED BY <3>3 DEF z
    <2> QED BY <1>1, <2>4, <2>5
  <1> QED BY <1>2, <1>3, <1>4, <1>5, Joined

-----------------------------------------------------------------------------
(***************************************************************************)
(* The tagged data payload (src/qpayloads.cpp), after its kind.            *)
(***************************************************************************)
\* A tagged data payload whose tag and data fit their prefixes, one byte and
\* four, is read as it was serialised, after its kind of four bytes
\* (src/qpayloads.cpp).
THEOREM TaggedBack ==
  ASSUME NEW p \in TaggedData, NEW junk \in Junk, Within(Len(p.tag), 1), Within(Len(p.data), 4)
  PROVE  /\ WriteTagged(p) \in Bytes
         /\ \A s \in Bytes :
              /\ ReadInt(WriteTagged(p) \o s, 4).v = quint32(5)
              /\ ReadTagged(ReadInt(WriteTagged(p) \o s, 4).rest, junk) = Got(p, s)
  <1> DEFINE k == UInt(5, 4)
             a == WriteArray(p.tag, 1)
             b == WriteArray(p.data, 4)
  <1>1. /\ p.type = 5 /\ p.tag \in Bytes /\ p.data \in Bytes
        /\ p = [type |-> 5, tag |-> p.tag, data |-> p.data]
    BY DEF TaggedData
  <1>2. WriteTagged(p) = (k \o a) \o b
    BY <1>1 DEF WriteTagged, UInt
  <1>3. a \in Bytes /\ b \in Bytes
    BY <1>1, ArrayWritten
  <1>4. k \in Word(4) /\ k = quint32(5)
    BY Sizes DEF UInt
  <1> HIDE DEF k
  <1>5. k \in Bytes
    BY <1>4, WordIsBytes
  <1>6. ASSUME NEW s \in Bytes
        PROVE  /\ ReadInt(WriteTagged(p) \o s, 4).v = quint32(5)
               /\ ReadTagged(ReadInt(WriteTagged(p) \o s, 4).rest, junk) = Got(p, s)
    <2> DEFINE z == WriteTagged(p) \o s
               q == b \o s
               r == a \o q
               tag == ReadArray(r, 1, junk)
               data == ReadArray(tag.rest, 4, junk)
    <2>1. ReadTagged(r, junk) = Got([type |-> 5, tag |-> tag.v, data |-> data.v], data.rest)
      BY DEF ReadTagged
    <2>2. Follows(z, k, r) /\ Follows(r, a, q) /\ Follows(q, b, s)
      <3> HIDE DEF a, b
      <3> QED BY <1>2, <1>3, <1>5, Three
    <2> HIDE DEF z, q, r
    <2>3. ReadInt(z, 4).v = k /\ ReadInt(z, 4).rest = r
      BY <1>4, <2>2, IntBack
    <2>4. tag.v = p.tag /\ tag.rest = q
      BY <1>1, <2>2, ArrayBack
    <2>5. data.v = p.data /\ data.rest = s
      BY <1>1, <2>2, <2>4, ArrayBack
    <2> HIDE DEF tag, data
    <2>6. ReadTagged(r, junk) = Got(p, s)
      BY <1>1, <2>1, <2>4, <2>5
    <2>7. ReadInt(z, 4).v = quint32(5) /\ ReadTagged(ReadInt(z, 4).rest, junk) = Got(p, s)
      BY <1>4, <2>3, <2>6
    <2> QED BY <2>7 DEF z
  <1> HIDE DEF a, b
  <1> QED BY <1>2, <1>3, <1>5, <1>6, Three

-----------------------------------------------------------------------------
(***************************************************************************)
(* Reading a stream cut short.                                             *)
(***************************************************************************)
\* What came of a stream that was cut: all but the last bytes, lost in number.
FrontOf(r, z, lost) ==
  /\ r \in Bytes /\ z \in Bytes /\ lost \in Nat /\ Len(z) = Len(r) + lost
  /\ \A i \in 1 .. Len(r) : r[i] = z[i]

\* A read from the front of a stream that gives what it gives of the whole, and
\* leaves the front of what is left of that; or all that came is consumed.
ShortRead(a, b, lost) == (a.v = b.v /\ FrontOf(a.rest, b.rest, lost)) \/ a.rest = << >>

\* Nothing is left of a stream after as many bytes as it has.
LEMMA DropAll ==
  ASSUME NEW s \in Bytes, NEW n \in Nat, Len(s) <= n
  PROVE  Drop(s, n) = << >>
  <1>1. Len(s) \in Nat
    BY LenProperties DEF Bytes
  <1>2. Len(s) < n + 1
    BY <1>1
  <1>3. SubSeq(s, n + 1, Len(s)) = << >>
    BY <1>1, <1>2, SubSeqEmpty
  <1> QED BY <1>3 DEF Drop

\* What is left of a front is a front of what is left.
LEMMA FrontSplit ==
  ASSUME NEW r, NEW z, NEW lost, FrontOf(r, z, lost), NEW n \in Nat, n <= Len(r)
  PROVE  /\ SubSeq(r, 1, n) = SubSeq(z, 1, n) /\ FrontOf(Drop(r, n), Drop(z, n), lost)
         /\ Len(r) \in Nat /\ Len(z) \in Nat /\ n <= Len(z)
  <1>1. /\ r \in Seq(Byte) /\ z \in Seq(Byte) /\ Len(r) \in Nat /\ Len(z) \in Nat /\ Len(r) <= Len(z)
        /\ \A i \in 1 .. Len(r) : r[i] = z[i]
    BY LenProperties DEF FrontOf, Bytes
  <1>2. (\A i \in 1 .. Len(r) : r[i] \in Byte) /\ (\A i \in 1 .. Len(z) : z[i] \in Byte)
    BY <1>1, ElementOfSeq
  <1> DEFINE a == SubSeq(r, 1, n)
             b == SubSeq(z, 1, n)
             c == SubSeq(r, n + 1, Len(r))
             d == SubSeq(z, n + 1, Len(z))
             lr == Len(r)
             lz == Len(z)
  <1>3. a \in Seq(Byte) /\ Len(a) = n /\ \A i \in 1 .. n : a[i] = r[i]
    <2>1. \A i \in 1 .. n : r[i] \in Byte
      BY <1>1, <1>2
    <2>2. /\ a \in Seq(Byte) /\ Len(a) = (IF 1 <= n THEN n - 1 + 1 ELSE 0)
          /\ \A i \in 1 .. n - 1 + 1 : a[i] = r[1 + i - 1]
      BY <2>1, SubSeqProperties
    <2> HIDE DEF a
    <2> QED BY <2>2
  <1>4. b \in Seq(Byte) /\ Len(b) = n /\ \A i \in 1 .. n : b[i] = z[i]
    <2>1. \A i \in 1 .. n : z[i] \in Byte
      BY <1>1, <1>2
    <2>2. /\ b \in Seq(Byte) /\ Len(b) = (IF 1 <= n THEN n - 1 + 1 ELSE 0)
          /\ \A i \in 1 .. n - 1 + 1 : b[i] = z[1 + i - 1]
      BY <2>1, SubSeqProperties
    <2> HIDE DEF b
    <2> QED BY <2>2
  <1>5. c \in Seq(Byte) /\ Len(c) = lr - n /\ \A i \in 1 .. lr - n : c[i] = r[n + i]
    <2>1. \A i \in n + 1 .. lr : r[i] \in Byte
      BY <1>1, <1>2
    <2>2. /\ c \in Seq(Byte) /\ Len(c) = (IF n + 1 <= lr THEN lr - (n + 1) + 1 ELSE 0)
          /\ \A i \in 1 .. lr - (n + 1) + 1 : c[i] = r[(n + 1) + i - 1]
      BY <1>1, <2>1, SubSeqProperties
    <2> HIDE DEF c
    <2>3. lr \in Nat /\ n <= lr
      BY <1>1
    <2> HIDE DEF lr
    <2> QED BY <2>2, <2>3
  <1>6. d \in Seq(Byte) /\ Len(d) = lz - n /\ \A i \in 1 .. lz - n : d[i] = z[n + i]
    <2>1. \A i \in n + 1 .. lz : z[i] \in Byte
      BY <1>1, <1>2
    <2>2. /\ d \in Seq(Byte) /\ Len(d) = (IF n + 1 <= lz THEN lz - (n + 1) + 1 ELSE 0)
          /\ \A i \in 1 .. lz - (n + 1) + 1 : d[i] = z[(n + 1) + i - 1]
      BY <1>1, <2>1, SubSeqProperties
    <2> HIDE DEF d
    <2>3. lz \in Nat /\ n <= lz
      BY <1>1
    <2> HIDE DEF lz
    <2> QED BY <2>2, <2>3
  <1>7. /\ lr \in Nat /\ lz \in Nat /\ lost \in Nat /\ lz = lr + lost /\ n <= lr /\ lr <= lz
        /\ \A i \in 1 .. lr : r[i] = z[i]
    BY <1>1 DEF FrontOf
  <1> HIDE DEF a, b, c, d, lr, lz
  <1>8. a = b
    <2>1. \A i \in 1 .. Len(a) : a[i] = b[i]
      BY <1>3, <1>4, <1>7
    <2> QED BY <1>3, <1>4, <2>1, SeqEqual
  <1>9. FrontOf(c, d, lost)
    <2>1. ASSUME NEW i \in 1 .. lr - n PROVE c[i] = d[i]
      <3>1. i \in 1 .. lz - n /\ n + i \in 1 .. lr
        BY <1>7
      <3> QED BY <1>5, <1>6, <1>7, <3>1
    <2>2. Len(d) = Len(c) + lost
      BY <1>5, <1>6, <1>7
    <2>3. \A i \in 1 .. Len(c) : c[i] = d[i]
      BY <1>5, <2>1
    <2> QED BY <1>5, <1>6, <1>7, <2>2, <2>3 DEF FrontOf, Bytes
  <1> QED BY <1>7, <1>8, <1>9 DEF a, b, c, d, lr, lz, Drop

\* An integer that came whole is read as it was sent, and otherwise as zero.
LEMMA IntShort ==
  ASSUME NEW r, NEW z, NEW lost, FrontOf(r, z, lost), NEW w \in Nat
  PROVE  \/ ReadInt(r, w).v = ReadInt(z, w).v /\ FrontOf(ReadInt(r, w).rest, ReadInt(z, w).rest, lost)
         \/ ReadInt(r, w).v = Zeros(w) /\ ReadInt(r, w).rest = << >>
  <1>1. Len(r) \in Nat
    BY LenProperties DEF FrontOf, Bytes
  <1>2. CASE w <= Len(r)
    <2>1. SubSeq(r, 1, w) = SubSeq(z, 1, w) /\ FrontOf(Drop(r, w), Drop(z, w), lost) /\ Len(z) \in Nat /\ w <= Len(z)
      BY <1>2, FrontSplit
    <2> QED BY <1>1, <1>2, <2>1 DEF ReadInt, Got
  <1>3. CASE ~ (w <= Len(r))
    BY <1>1, <1>3 DEF ReadInt, Got
  <1> QED BY <1>2, <1>3

\* A hash is read as it was sent, or the stream is at its end.
LEMMA RawShort ==
  ASSUME NEW r, NEW z, NEW lost, FrontOf(r, z, lost), NEW n \in Nat
  PROVE  ShortRead(ReadRaw(r, n), ReadRaw(z, n), lost)
  <1>1. Len(r) \in Nat /\ r \in Bytes /\ \A i \in 1 .. Len(r) : r[i] = z[i]
    BY LenProperties DEF FrontOf, Bytes
  <1>2. CASE n <= Len(r)
    <2>1. FrontOf(Drop(r, n), Drop(z, n), lost) /\ Len(z) \in Nat /\ n <= Len(z)
      BY <1>2, FrontSplit
    <2>2. [i \in 1 .. n |-> IF i <= Len(r) THEN r[i] ELSE 0] = [i \in 1 .. n |-> IF i <= Len(z) THEN z[i] ELSE 0]
      BY <1>1, <1>2, <2>1
    <2> QED BY <2>1, <2>2 DEF ReadRaw, Got, ShortRead
  <1>3. CASE ~ (n <= Len(r))
    <2>1. Drop(r, n) = << >>
      BY <1>1, <1>3, DropAll
    <2> QED BY <2>1 DEF ReadRaw, Got, ShortRead
  <1> QED BY <1>2, <1>3

\* So is an array with its size.
LEMMA ArrayShort ==
  ASSUME NEW r, NEW z, NEW lost, FrontOf(r, z, lost), NEW w \in {1, 2, 4}, NEW junk \in Junk
  PROVE  ShortRead(ReadArray(r, w, junk), ReadArray(z, w, junk), lost)
  <1> DEFINE a == ReadInt(r, w)
             b == ReadInt(z, w)
             n == ValueOf(a.v)
             d(s, k) == [i \in 1 .. k |-> IF i <= Len(s) THEN s[i] ELSE junk]
  <1>1. /\ ReadArray(r, w, junk).v = d(a.rest, n) /\ ReadArray(r, w, junk).rest = Drop(a.rest, n)
        /\ ReadArray(z, w, junk).v = d(b.rest, ValueOf(b.v))
        /\ ReadArray(z, w, junk).rest = Drop(b.rest, ValueOf(b.v))
    BY DEF ReadArray, Got
  <1>2. a.rest \in Bytes /\ a.v \in Word(w) /\ n \in Nat
    BY IntRead, ValueFits DEF FrontOf
  <1>3. \/ a.v = b.v /\ FrontOf(a.rest, b.rest, lost)
        \/ a.v = Zeros(w) /\ a.rest = << >>
    BY IntShort
  <1> HIDE DEF a, b, n
  <1>4. CASE a.rest = << >>
    <2>1. Drop(<< >>, n) = << >>
      <3>1. << >> \in Bytes /\ Len(<< >>) <= n
        BY <1>2, EmptySeq DEF Bytes
      <3> QED BY <1>2, <3>1, DropAll
    <2> QED BY <1>1, <1>4, <2>1 DEF ShortRead
  <1>5. CASE a.v = b.v /\ FrontOf(a.rest, b.rest, lost) /\ n <= Len(a.rest)
    <2> DEFINE x == a.rest
               y == b.rest
    <2>1. FrontOf(x, y, lost) /\ n <= Len(x) /\ n = ValueOf(b.v)
      BY <1>5 DEF n
    <2> HIDE DEF x, y
    <2>2. FrontOf(Drop(x, n), Drop(y, n), lost) /\ Len(x) \in Nat /\ Len(y) \in Nat /\ n <= Len(y)
      BY <1>2, <2>1, FrontSplit
    <2>3. \A i \in 1 .. n : x[i] = y[i] /\ i <= Len(x) /\ i <= Len(y)
      BY <1>2, <2>1, <2>2 DEF FrontOf
    <2>4. d(x, n) = d(y, n)
      BY <2>3
    <2> HIDE DEF d
    <2> QED BY <1>1, <2>1, <2>2, <2>4 DEF ShortRead, x, y
  <1>6. CASE ~ (n <= Len(a.rest))
    <2>1. Len(a.rest) \in Nat
      BY <1>2, LenProperties DEF Bytes
    <2>2. Drop(a.rest, n) = << >>
      BY <1>2, <1>6, <2>1, DropAll
    <2> QED BY <1>1, <2>2 DEF ShortRead
  <1> QED BY <1>3, <1>4, <1>5, <1>6

\* At the end of a stream an integer is zero, and no read goes beyond.
LEMMA NoneLeft ==
  /\ << >> \in Bytes /\ \A z \in Bytes : FrontOf(<< >>, z, Len(z))
  /\ \A w \in Nat : ReadInt(<< >>, w).rest = << >> /\ ReadRaw(<< >>, w).rest = << >>
  /\ \A w \in Nat \ {0} : ReadInt(<< >>, w).v = Zeros(w)
  /\ ReadInt(<< >>, 1).v[1] = 0
  /\ \A w \in {1, 2, 4} : \A junk \in Junk : ReadArray(<< >>, w, junk).rest = << >>
  <1>1. << >> \in Bytes /\ Len(<< >>) = 0
    BY EmptySeq DEF Bytes
  <1>2. \A n \in Nat : Drop(<< >>, n) = << >>
    BY <1>1, DropAll
  <1>3. ASSUME NEW z \in Bytes PROVE FrontOf(<< >>, z, Len(z))
    <2>1. Len(z) \in Nat
      BY LenProperties DEF Bytes
    <2> QED BY <1>1, <2>1 DEF FrontOf
  <1>4. \A w \in Nat : ReadInt(<< >>, w).rest = << >> /\ ReadRaw(<< >>, w).rest = << >>
    BY <1>2 DEF ReadInt, ReadRaw, Got
  <1>5. ASSUME NEW w \in Nat \ {0} PROVE ReadInt(<< >>, w).v = Zeros(w)
    BY <1>1 DEF ReadInt, Got
  <1>6. ReadInt(<< >>, 1).v[1] = 0
    <2>1. ReadInt(<< >>, 1).v = Zeros(1)
      BY <1>5
    <2>2. Zeros(1)[1] = 0
      BY DEF Zeros
    <2> QED BY <2>1, <2>2
  <1>7. ASSUME NEW w \in {1, 2, 4}, NEW junk \in Junk
        PROVE  ReadArray(<< >>, w, junk).rest = << >>
    <2> DEFINE a == ReadInt(<< >>, w)
    <2>1. a.rest = << >> /\ ValueOf(a.v) \in Nat
      BY <1>1, <1>4, IntRead, ValueFits
    <2>2. ReadArray(<< >>, w, junk).rest = Drop(a.rest, ValueOf(a.v))
      BY DEF ReadArray, Got
    <2> HIDE DEF a
    <2> QED BY <1>2, <2>1, <2>2
  <1> QED BY <1>1, <1>3, <1>4, <1>5, <1>6, <1>7

\* Of a stream of which anything came, the kind did.
LEMMA KindShort ==
  ASSUME NEW r, NEW z, NEW lost, FrontOf(r, z, lost), r # << >>
  PROVE  ReadInt(r, 1).v = ReadInt(z, 1).v /\ FrontOf(ReadInt(r, 1).rest, ReadInt(z, 1).rest, lost)
  <1>1. Len(r) \in Nat /\ Len(r) # 0
    BY EmptySeq, LenProperties DEF FrontOf, Bytes
  <1>2. SubSeq(r, 1, 1) = SubSeq(z, 1, 1) /\ FrontOf(Drop(r, 1), Drop(z, 1), lost) /\ Len(z) \in Nat /\ 1 <= Len(z)
    BY <1>1, FrontSplit
  <1> QED BY <1>1, <1>2 DEF ReadInt, Got
=============================================================================
