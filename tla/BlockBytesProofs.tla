-------------------------- MODULE BlockBytesProofs --------------------------
(***************************************************************************)
(* The bytes of a block.  A block is written as lists of elements, each of *)
(* which is a byte string, between counts and fields of a fixed width; these*)
(* lemmas say what the bytes from an element of a list on are, and what the*)
(* readers of the elements give for whatever bytes (src/qblock.cpp,        *)
(* qpayloads.cpp, qessences.cpp, qunlocks.cpp).  BlockProofs uses them.    *)
(***************************************************************************)
EXTENDS BlockCodec, OutputCodecProofs

-----------------------------------------------------------------------------
(***************************************************************************)
(* Lists of byte strings with a tail after them.                           *)
(***************************************************************************)
\* e[i] is the bytes from element i + 1 of the list w on.
IsChain(e, w, s) ==
  /\ e \in [0 .. Len(w) -> Bytes] /\ e[Len(w)] = s
  /\ \A i \in 0 .. Len(w) - 1 : e[i] = w[i + 1] \o e[i + 1]
Chain(w, s) == CHOOSE e : IsChain(e, w, s)

\* They exist: the bytes of the list alone do, and the tail follows each.
LEMMA ChainIs ==
  ASSUME NEW w \in Seq(Bytes), NEW s \in Bytes
  PROVE  IsChain(Chain(w, s), w, s) /\ Len(w) \in Nat
  <1> DEFINE n == Len(w)
  <1>1. n \in Nat /\ w \in [1 .. n -> Bytes]
    BY LenProperties, ElementOfSeq
  <1>2. PICK d : IsRemains(d, w, n)
    BY <1>1, RemainsExist
  <1>3. /\ d \in [0 .. n -> Bytes] /\ d[n] = << >>
        /\ \A i \in 0 .. n - 1 : d[i] = w[i + 1] \o d[i + 1]
    BY <1>2 DEF IsRemains, RemainsFrom
  <1> DEFINE e == [i \in 0 .. n |-> d[i] \o s]
  <1>4. e \in [0 .. n -> Bytes]
    BY <1>3, Joined
  <1>5. e[n] = s
    BY <1>1, <1>3, ConcatEmptySeq DEF Bytes
  <1>6. ASSUME NEW i \in 0 .. n - 1 PROVE e[i] = w[i + 1] \o e[i + 1]
    <2> DEFINE x == w[i + 1]
               y == d[i + 1]
    <2>1. i \in 0 .. n /\ i + 1 \in 1 .. n /\ i + 1 \in 0 .. n
      BY <1>1
    <2>2. x \in Bytes /\ y \in Bytes /\ d[i] = x \o y
      BY <1>1, <1>3, <2>1
    <2>3. e[i] = d[i] \o s /\ e[i + 1] = y \o s
      BY <2>1
    <2> HIDE DEF x, y, e
    <2>4. (x \o y) \o s = x \o (y \o s)
      BY <2>2, Regroup
    <2> QED BY <2>2, <2>3, <2>4 DEF x
  <1> HIDE DEF e
  <1>7. IsChain(e, w, s)
    BY <1>4, <1>5, <1>6 DEF IsChain
  <1> HIDE DEF n
  <1> QED BY <1>1, <1>7 DEF Chain, n

\* The function by which FlattenSeq is defined: the elements up to each.
IsFlat(g, w, n) ==
  /\ g \in [1 .. n -> Bytes]
  /\ \A i \in 1 .. n : g[i] = IF i = 1 THEN w[i] ELSE g[i - 1] \o w[i]

\* It exists for a list of any length.
LEMMA FlatExists ==
  ASSUME NEW w \in Seq(Bytes)
  PROVE  \E g : IsFlat(g, w, Len(w))
  <1> DEFINE T == {m \in Nat : m <= Len(w) => \E g : IsFlat(g, w, m)}
  <1>1. Len(w) \in Nat /\ \A i \in 1 .. Len(w) : w[i] \in Bytes
    BY LenProperties, ElementOfSeq
  <1>2. 0 \in T
    <2> DEFINE g == [i \in 1 .. 0 |-> << >>]
    <2>1. 1 .. 0 = {}
      OBVIOUS
    <2>2. IsFlat(g, w, 0)
      BY <2>1 DEF IsFlat
    <2> HIDE DEF g
    <2> QED BY <2>2
  <1>3. ASSUME NEW m \in T \cap Nat PROVE m + 1 \in T
    <2> SUFFICES ASSUME m + 1 <= Len(w) PROVE \E g : IsFlat(g, w, m + 1)
      BY <1>3
    <2>1. PICK g : IsFlat(g, w, m)
      BY <1>1, <1>3
    <2> DEFINE k == m + 1
               x == IF k = 1 THEN w[k] ELSE g[m] \o w[k]
               h == [i \in 1 .. k |-> IF i = k THEN x ELSE g[i]]
    <2>2. k \in 1 .. Len(w) /\ m \in Nat /\ k - 1 = m
      BY <1>1, <1>3
    <2>3. x \in Bytes
      <3>1. w[k] \in Bytes
        BY <1>1, <2>2
      <3>2. CASE k = 1
        BY <3>1, <3>2
      <3>3. CASE k # 1
        <4>1. m \in 1 .. m
          BY <2>2, <3>3
        <4>2. g[m] \in Bytes
          BY <2>1, <4>1 DEF IsFlat
        <4> QED BY <3>1, <3>3, <4>2, Joined
      <3> QED BY <3>2, <3>3
    <2>4. x = IF k = 1 THEN w[k] ELSE g[k - 1] \o w[k]
      BY <2>2
    <2> HIDE DEF x
    <2>5. ASSUME NEW i \in 1 .. k
          PROVE  h[i] \in Bytes /\ h[i] = IF i = 1 THEN w[i] ELSE h[i - 1] \o w[i]
      <3>1. CASE i = k
        <4>1. h[i] = x
          BY <3>1
        <4>2. i # 1 => i - 1 \in 1 .. k /\ i - 1 # k
          BY <2>2, <3>1
        <4>3. i # 1 => h[i - 1] = g[i - 1]
          BY <4>2
        <4> HIDE DEF h
        <4> QED BY <2>3, <2>4, <3>1, <4>1, <4>3
      <3>2. CASE i # k
        <4>1. i \in 1 .. m
          BY <2>2, <3>2
        <4>2. h[i] = g[i]
          BY <3>2
        <4>3. i # 1 => i - 1 \in 1 .. k /\ i - 1 # k
          BY <2>2, <4>1
        <4>4. i # 1 => h[i - 1] = g[i - 1]
          BY <4>3
        <4> HIDE DEF h
        <4> QED BY <2>1, <4>1, <4>2, <4>4 DEF IsFlat
      <3> QED BY <3>1, <3>2
    <2>6. h \in [1 .. k -> Bytes]
      BY <2>5
    <2> HIDE DEF h
    <2>7. IsFlat(h, w, k)
      BY <2>5, <2>6 DEF IsFlat
    <2> QED BY <2>7
  <1> HIDE DEF T
  <1>4. Nat \subseteq T
    BY <1>2, <1>3, Upward
  <1> QED BY <1>1, <1>4 DEF T

\* FlattenSeq, by which the list is written, with the tail after it.
LEMMA Flattened ==
  ASSUME NEW w \in Seq(Bytes), NEW s \in Bytes
  PROVE  S!FlattenSeq(w) \in Bytes /\ S!FlattenSeq(w) \o s = Chain(w, s)[0]
  <1> DEFINE n == Len(w)
             e == Chain(w, s)
             Flat == LET flatten[i \in 1 .. Len(w)] == IF i = 1 THEN w[i] ELSE flatten[i - 1] \o w[i]
                     IN  flatten
  <1>1. n \in Nat /\ IsChain(e, w, s) /\ \A i \in 1 .. n : w[i] \in Bytes
    BY ChainIs, ElementOfSeq
  <1>2. CASE n = 0
    <2>1. S!FlattenSeq(w) = w
      BY <1>2 DEF S!FlattenSeq
    <2>2. w = << >>
      BY <1>2, EmptySeq
    <2>3. << >> \o s = s /\ << >> \in Bytes
      BY EmptySeq, ConcatEmptySeq DEF Bytes
    <2> QED BY <1>1, <1>2, <2>1, <2>2, <2>3 DEF IsChain
  <1>3. CASE n # 0
    <2>1. S!FlattenSeq(w) = Flat[n]
      BY <1>3 DEF S!FlattenSeq
    <2>2. Flat = [i \in 1 .. n |-> IF i = 1 THEN w[i] ELSE Flat[i - 1] \o w[i]]
      <3>1. PICK g : IsFlat(g, w, n)
        BY FlatExists
      <3>2. g = [i \in 1 .. n |-> IF i = 1 THEN w[i] ELSE g[i - 1] \o w[i]]
        BY <3>1 DEF IsFlat
      <3> QED BY <3>2, Zenon
    <2> HIDE DEF Flat
    <2>3. \A i \in 1 .. n : Flat[i] = IF i = 1 THEN w[i] ELSE Flat[i - 1] \o w[i]
      BY <2>2
    <2>4. /\ \A i \in 0 .. n : e[i] \in Bytes
          /\ \A i \in 0 .. n - 1 : e[i] = w[i + 1] \o e[i + 1]
          /\ e[n] = s
      BY <1>1 DEF IsChain
    <2> HIDE DEF e
    <2> DEFINE T == {i \in Nat : i \in 1 .. n => Flat[i] \in Bytes /\ Flat[i] \o e[i] = e[0]}
    <2>5. ASSUME NEW i \in T \cap Nat PROVE i + 1 \in T
      <3> DEFINE x == w[i + 1]
                 y == e[i + 1]
                 z == Flat[i]
      <3>1. ASSUME i + 1 \in 1 .. n
            PROVE  Flat[i + 1] \in Bytes /\ Flat[i + 1] \o e[i + 1] = e[0]
        <4>1. /\ i \in Nat /\ i \in 0 .. n - 1 /\ i + 1 \in 0 .. n
              /\ i # 0 => i \in 1 .. n /\ i + 1 # 1 /\ (i + 1) - 1 = i
          BY <1>1, <2>5, <3>1
        <4>2. i # 0 => z \in Bytes /\ z \o e[i] = e[0]
          BY <2>5, <4>1
        <4> HIDE DEF T, n
        <4>3. x \in Bytes /\ y \in Bytes /\ e[i] = x \o y
          BY <1>1, <2>4, <3>1, <4>1
        <4>4. CASE i = 0
          <5>1. Flat[i + 1] = x
            BY <2>3, <3>1, <4>4
          <5> QED BY <4>3, <4>4, <5>1
        <4>5. CASE i # 0
          <5>1. Flat[i + 1] = z \o x
            BY <2>3, <3>1, <4>1, <4>5
          <5>2. z \in Bytes /\ z \o e[i] = e[0]
            BY <4>2, <4>5
          <5> HIDE DEF x, y, z
          <5>3. z \o x \in Bytes
            BY ONLY <4>3, <5>2, Joined
          <5>4. (z \o x) \o y = z \o (x \o y)
            BY ONLY <4>3, <5>2, Regroup
          <5> QED BY <4>3, <5>1, <5>2, <5>3, <5>4 DEF y
        <4> QED BY <4>4, <4>5
      <3>2. i + 1 \in Nat
        BY <2>5
      <3> QED BY <3>1, <3>2
    <2>6. 0 \in T
      OBVIOUS
    <2> HIDE DEF T
    <2>7. Nat \subseteq T
      BY <2>5, <2>6, Upward
    <2>8. n \in 1 .. n
      BY <1>1, <1>3
    <2>9. Flat[n] \in Bytes /\ Flat[n] \o e[n] = e[0]
      BY <1>1, <2>7, <2>8 DEF T
    <2> QED BY <2>1, <2>4, <2>9 DEF e
  <1> QED BY <1>2, <1>3

-----------------------------------------------------------------------------
(***************************************************************************)
(* The elements of a payload, read from whatever stream.                   *)
(***************************************************************************)
\* An input of the one known kind, whose identifier has its length, or a null pointer.
LEMMA InputRead ==
  ASSUME NEW s \in Bytes
  PROVE  /\ ReadInput(s).v \in Input \cup {nullptr} /\ ReadInput(s).rest \in Bytes
         /\ ReadInput(s).v # nullptr => InputFits(ReadInput(s).v)
  <1> DEFINE kind == ReadInt(s, 1)
             id == ReadRaw(kind.rest, HashLen)
             index == ReadInt(id.rest, 2)
  <1>1. kind.rest \in Bytes
    BY KindRead
  <1>2. id.v \in Bytes /\ Len(id.v) = HashLen /\ id.rest \in Bytes
    BY <1>1, RawRead, Hashes, WordIsBytes
  <1> HIDE DEF id
  <1>3. index.v \in Word(2) /\ index.rest \in Bytes
    BY <1>2, IntRead
  <1>4. ReadInput(s) = IF kind.v[1] = 0
                       THEN Got([type |-> 0, transaction_id |-> id.v,
                                 transaction_output_index |-> index.v], index.rest)
                       ELSE Got(nullptr, kind.rest)
    BY DEF ReadInput, id
  <1> HIDE DEF kind, index
  <1> QED BY <1>1, <1>2, <1>3, <1>4 DEF Got, Input, InputFits

\* A signature of the one known kind, with the lengths it should have, or a null pointer.
LEMMA SignatureRead ==
  ASSUME NEW s \in Bytes
  PROVE  /\ ReadSignature(s).v \in Signature \cup {nullptr} /\ ReadSignature(s).rest \in Bytes
         /\ ReadSignature(s).v # nullptr => SignatureFits(ReadSignature(s).v)
  <1> DEFINE kind == ReadInt(s, 1)
             key == ReadRaw(kind.rest, HashLen)
             sig == ReadRaw(key.rest, SigLen)
  <1>1. kind.rest \in Bytes
    BY KindRead
  <1>2. key.v \in Bytes /\ Len(key.v) = HashLen /\ key.rest \in Bytes
    BY <1>1, RawRead, Hashes, WordIsBytes
  <1> HIDE DEF key
  <1>3. sig.v \in Bytes /\ Len(sig.v) = SigLen /\ sig.rest \in Bytes
    BY <1>2, RawRead, Hashes, WordIsBytes
  <1>4. ReadSignature(s) = IF kind.v[1] = 0
                           THEN Got([type |-> 0, public_key |-> key.v, signature |-> sig.v],
                                    sig.rest)
                           ELSE Got(nullptr, kind.rest)
    BY DEF ReadSignature, key
  <1> HIDE DEF kind, sig
  <1> QED BY <1>1, <1>2, <1>3, <1>4 DEF Got, Signature, SignatureFits

\* An unlock, perhaps without its signature, or a null pointer.
LEMMA UnlockRead ==
  ASSUME NEW s \in Bytes
  PROVE  /\ ReadUnlock(s).v \in UnlockObject \cup {nullptr} /\ ReadUnlock(s).rest \in Bytes
         /\ ReadUnlock(s).v # nullptr => UnlockFits(ReadUnlock(s).v)
  <1> DEFINE kind == ReadInt(s, 1)
             k == kind.v[1]
             sig == ReadSignature(kind.rest)
             ref == ReadInt(kind.rest, 2)
  <1>1. kind.rest \in Bytes /\ k \in Byte
    BY KindRead
  <1>2. /\ sig.v \in Signature \cup {nullptr} /\ sig.rest \in Bytes
        /\ sig.v # nullptr => SignatureFits(sig.v)
    BY <1>1, SignatureRead
  <1>3. ref.v \in Word(2) /\ ref.rest \in Bytes
    BY <1>1, IntRead
  <1>4. /\ k = 0 => ReadUnlock(s) = Got([type |-> 0, signature |-> sig.v, reference |-> << >>],
                                        sig.rest)
        /\ k \in 1 .. 3 => ReadUnlock(s) = Got([type |-> k, signature |-> nullptr,
                                                reference |-> ref.v], ref.rest)
        /\ k # 0 /\ k \notin 1 .. 3 => ReadUnlock(s) = Got(nullptr, kind.rest)
    BY DEF ReadUnlock
  <1> HIDE DEF kind, k, sig, ref
  <1>5. CASE k = 0
    BY <1>2, <1>4, <1>5 DEF Got, Unlock, UnlockObject, UnlockFits
  <1>6. CASE k \in 1 .. 3
    BY <1>3, <1>4, <1>6 DEF Got, Unlock, UnlockObject, UnlockFits
  <1>7. CASE k # 0 /\ k \notin 1 .. 3
    BY <1>1, <1>4, <1>7 DEF Got
  <1> QED BY <1>5, <1>6, <1>7

\* Tagged data that fits its prefixes.
LEMMA TaggedRead ==
  ASSUME NEW s \in Bytes, NEW junk \in Junk
  PROVE  LET t == ReadTagged(s, junk)
         IN  t.v \in TaggedData /\ TaggedFits(t.v) /\ t.rest \in Bytes
  <1> DEFINE tag == ReadArray(s, 1, junk)
             data == ReadArray(tag.rest, 4, junk)
  <1>1. tag.v \in Bytes /\ Within(Len(tag.v), 1) /\ tag.rest \in Bytes
    BY ArrayRead
  <1> HIDE DEF tag
  <1>2. data.v \in Bytes /\ Within(Len(data.v), 4) /\ data.rest \in Bytes
    BY <1>1, ArrayRead
  <1>3. ReadTagged(s, junk) = Got([type |-> 5, tag |-> tag.v, data |-> data.v], data.rest)
    BY DEF ReadTagged, tag
  <1> HIDE DEF data
  <1> QED BY <1>1, <1>2, <1>3 DEF Got, TaggedData, TaggedFits

\* A count or a length is a number that its width can hold.
LEMMA SizeRead ==
  ASSUME NEW s \in Bytes, NEW w \in {1, 2, 4}
  PROVE  LET n == ReadInt(s, w)
         IN  ValueOf(n.v) \in Nat /\ Within(ValueOf(n.v), w) /\ n.rest \in Bytes
  BY IntRead, ValueFits

\* A front of a list with the next element appended is a longer front.
LEMMA Longer ==
  ASSUME NEW T, NEW s \in Seq(T), NEW k \in 0 .. Len(s) - 1
  PROVE  /\ Append(SubSeq(s, 1, k), s[k + 1]) = SubSeq(s, 1, k + 1)
         /\ SubSeq(s, 1, 0) = << >> /\ SubSeq(s, 1, Len(s)) = s
  <1>1. Len(s) \in Nat /\ k \in Nat /\ k + 1 \in 1 .. Len(s) /\ \A i \in 1 .. Len(s) : s[i] \in T
    BY LenProperties, ElementOfSeq
  <1> DEFINE a == SubSeq(s, 1, k)
             b == SubSeq(s, 1, k + 1)
             x == s[k + 1]
             c == Append(a, x)
  <1>2. a \in Seq(T) /\ Len(a) = k /\ \A i \in 1 .. k : a[i] = s[i]
    BY <1>1, SubSeqProperties
  <1>3. b \in Seq(T) /\ Len(b) = k + 1 /\ \A i \in 1 .. k + 1 : b[i] = s[i]
    BY <1>1, SubSeqProperties
  <1>4. x \in T
    BY <1>1
  <1>5. SubSeq(s, 1, 0) = << >> /\ SubSeq(s, 1, Len(s)) = s
    BY <1>1, SubSeqEmpty, SubSeqFull
  <1> HIDE DEF a, b, x
  <1>6. c \in Seq(T) /\ Len(c) = k + 1 /\ (\A i \in 1 .. k : c[i] = a[i]) /\ c[k + 1] = x
    BY <1>2, <1>4, AppendProperties
  <1> HIDE DEF c
  <1>7. \A i \in 1 .. k + 1 : c[i] = b[i]
    BY <1>1, <1>2, <1>3, <1>6 DEF x
  <1>8. c = b
    BY <1>3, <1>6, <1>7, SeqEqual
  <1> QED BY <1>5, <1>8 DEF a, b, x, c

-----------------------------------------------------------------------------
(***************************************************************************)
(* Blocks, payloads and essences by their fields.                          *)
(***************************************************************************)
BlockOf(pv, ps, p, n) == [protocol_version |-> pv, parents |-> ps, payload |-> p, nonce |-> n]
PayloadOf(e, us) == [type |-> 6, essence |-> e, unlocks |-> us]
EssenceOf(net, ins, ic, os, p) ==
  [network_id |-> net, inputs |-> ins, inputs_commitment |-> ic, outputs |-> os, payload |-> p]

\* An assignment to one field leaves the others.
LEMMA BlockSet ==
  ASSUME NEW pv, NEW ps, NEW p, NEW n, NEW x
  PROVE  LET b == BlockOf(pv, ps, p, n)
         IN  /\ [b EXCEPT !.protocol_version = x] = BlockOf(x, ps, p, n)
             /\ [b EXCEPT !.parents = x] = BlockOf(pv, x, p, n)
             /\ [b EXCEPT !.parents = Append(@, x)] = BlockOf(pv, Append(ps, x), p, n)
             /\ [b EXCEPT !.payload = x] = BlockOf(pv, ps, x, n)
             /\ [b EXCEPT !.nonce = x] = BlockOf(pv, ps, p, x)
  <1> DEFINE b == BlockOf(pv, ps, p, n)
  <1>1. [b EXCEPT !.protocol_version = x] = BlockOf(x, ps, p, n)
    BY DEF BlockOf
  <1>2. [b EXCEPT !.parents = x] = BlockOf(pv, x, p, n)
    BY DEF BlockOf
  <1>3. [b EXCEPT !.parents = Append(@, x)] = BlockOf(pv, Append(ps, x), p, n)
    BY SMTT(40) DEF BlockOf
  <1>4. [b EXCEPT !.payload = x] = BlockOf(pv, ps, x, n)
    BY DEF BlockOf
  <1>5. [b EXCEPT !.nonce = x] = BlockOf(pv, ps, p, x)
    BY DEF BlockOf
  <1> QED BY <1>1, <1>2, <1>3, <1>4, <1>5

\* Nor do assignments through the pointers of a payload and an essence.
LEMMA PayloadSet ==
  ASSUME NEW pv, NEW ps, NEW n, NEW e, NEW us, NEW x
  PROVE  LET b == BlockOf(pv, ps, PayloadOf(e, us), n)
         IN  [b EXCEPT !.payload.unlocks = Append(@, x)] = BlockOf(pv, ps, PayloadOf(e, Append(us, x)), n)
  <1> DEFINE b == BlockOf(pv, ps, PayloadOf(e, us), n)
  <1>1. b.payload.unlocks = us
    BY DEF BlockOf, PayloadOf
  <1>2. \A y : [b EXCEPT !.payload.unlocks = y] = BlockOf(pv, ps, PayloadOf(e, y), n)
    BY DEF BlockOf, PayloadOf
  <1> HIDE DEF b
  <1>3. [b EXCEPT !.payload.unlocks = Append(@, x)] = [b EXCEPT !.payload.unlocks = Append(us, x)]
    BY <1>1
  <1> QED BY <1>2, <1>3 DEF b

LEMMA EssenceSet ==
  ASSUME NEW pv, NEW ps, NEW n, NEW us, NEW net, NEW ins, NEW ic, NEW os, NEW p, NEW x
  PROVE  LET b == BlockOf(pv, ps, PayloadOf(EssenceOf(net, ins, ic, os, p), us), n)
             B(e) == BlockOf(pv, ps, PayloadOf(e, us), n)
         IN  /\ [b EXCEPT !.payload.essence.inputs = Append(@, x)] = B(EssenceOf(net, Append(ins, x), ic, os, p))
             /\ [b EXCEPT !.payload.essence.inputs_commitment = x] = B(EssenceOf(net, ins, x, os, p))
             /\ [b EXCEPT !.payload.essence.outputs = Append(@, x)] = B(EssenceOf(net, ins, ic, Append(os, x), p))
             /\ [b EXCEPT !.payload.essence.payload = x] = B(EssenceOf(net, ins, ic, os, x))
  <1> DEFINE b == BlockOf(pv, ps, PayloadOf(EssenceOf(net, ins, ic, os, p), us), n)
             B(e) == BlockOf(pv, ps, PayloadOf(e, us), n)
  <1>1. b.payload.essence.inputs = ins /\ b.payload.essence.outputs = os
    BY DEF BlockOf, PayloadOf, EssenceOf
  <1>2. \A y : [b EXCEPT !.payload.essence.inputs = y] = B(EssenceOf(net, y, ic, os, p))
    BY DEF BlockOf, PayloadOf, EssenceOf
  <1>3. \A y : [b EXCEPT !.payload.essence.outputs = y] = B(EssenceOf(net, ins, ic, y, p))
    BY DEF BlockOf, PayloadOf, EssenceOf
  <1>4. [b EXCEPT !.payload.essence.inputs_commitment = x] = B(EssenceOf(net, ins, x, os, p))
    BY DEF BlockOf, PayloadOf, EssenceOf
  <1>5. [b EXCEPT !.payload.essence.payload = x] = B(EssenceOf(net, ins, ic, os, x))
    BY DEF BlockOf, PayloadOf, EssenceOf
  <1> HIDE DEF b, B
  <1>6. [b EXCEPT !.payload.essence.inputs = Append(@, x)] = [b EXCEPT !.payload.essence.inputs = Append(ins, x)]
    BY <1>1
  <1>7. [b EXCEPT !.payload.essence.outputs = Append(@, x)] = [b EXCEPT !.payload.essence.outputs = Append(os, x)]
    BY <1>1
  <1> QED BY <1>2, <1>3, <1>4, <1>5, <1>6, <1>7 DEF b, B

\* The fields of an object say what it is.
LEMMA BlockFields ==
  ASSUME NEW b \in BlockObject
  PROVE  /\ b = BlockOf(b.protocol_version, b.parents, b.payload, b.nonce)
         /\ b.protocol_version \in Byte /\ b.parents \in Seq(Bytes) /\ b.nonce \in Word(8)
         /\ b.payload \in TaggedData \cup TransactionPayload \cup {nullptr}
  BY DEF BlockObject, BlockOf

LEMMA PayloadFields ==
  ASSUME NEW p \in TransactionPayload
  PROVE  /\ p = PayloadOf(p.essence, p.unlocks) /\ p.type = 6
         /\ p.essence \in Essence \cup {nullptr} /\ p.unlocks \in Seq(UnlockObject \cup {nullptr})
  BY DEF TransactionPayload, PayloadOf

LEMMA EssenceFields ==
  ASSUME NEW e \in Essence
  PROVE  /\ e = EssenceOf(e.network_id, e.inputs, e.inputs_commitment, e.outputs, e.payload)
         /\ e.network_id \in Word(8) /\ e.inputs \in Seq(Input \cup {nullptr})
         /\ e.inputs_commitment \in Bytes /\ e.outputs \in Seq(OutputObject \cup {nullptr})
         /\ e.payload \in TaggedData \cup {nullptr}
  BY DEF Essence, EssenceOf

\* The kind of a payload tells its class.
LEMMA PayloadKinds ==
  ASSUME NEW p \in TaggedData \cup TransactionPayload \cup {nullptr}, p # nullptr
  PROVE  (p \in TaggedData /\ p.type = 5) \/ (p \in TransactionPayload /\ p.type = 6)
  BY DEF TaggedData, TransactionPayload

-----------------------------------------------------------------------------
(***************************************************************************)
(* The bytes of a block.                                                   *)
(***************************************************************************)
\* A count or a length is written in as many bytes as its width.
LEMMA SizeWritten ==
  ASSUME NEW n \in Nat
  PROVE  /\ quint8(n) \in Word(1) /\ quint16(n) \in Word(2) /\ quint32(n) \in Word(4)
         /\ quint8(n) \in Bytes /\ quint16(n) \in Bytes /\ quint32(n) \in Bytes
         /\ Within(n, 1) => ValueOf(quint8(n)) = n
         /\ Within(n, 2) => ValueOf(quint16(n)) = n
         /\ Within(n, 4) => ValueOf(quint32(n)) = n
         /\ UInt(n, 1) = quint8(n) /\ UInt(n, 2) = quint16(n) /\ UInt(n, 4) = quint32(n)
  <1>1. UInt(n, 1) = quint8(n) /\ UInt(n, 2) = quint16(n) /\ UInt(n, 4) = quint32(n)
    BY DEF UInt
  <1>2. \A w \in {1, 2, 4} : UInt(n, w) \in Word(w) /\ (Within(n, w) => ValueOf(UInt(n, w)) = n)
    BY Sizes
  <1>3. \A w \in {1, 2, 4} : UInt(n, w) \in Bytes
    BY <1>2, WordIsBytes
  <1> QED BY <1>1, <1>2, <1>3

\* The kinds of a payload differ from one another and from no payload.
LEMMA PayloadTags ==
  /\ quint32(5) \in Word(4) /\ quint32(6) \in Word(4) /\ quint32(0) = Zeros(4)
  /\ quint32(5) # quint32(6) /\ quint32(5) # Zeros(4) /\ quint32(6) # Zeros(4)
  <1>1. Within(0, 4) /\ Within(5, 4) /\ Within(6, 4)
    <2>1. Radix * Radix \in Nat /\ Radix * Radix > 16
      BY RadixAssumption, Products
    <2>2. \A n \in 0 .. 6 : n \div (Radix * Radix) = 0
      BY <2>1
    <2> QED BY <2>1, <2>2 DEF Within
  <1>2. ValueOf(quint32(5)) = 5 /\ ValueOf(quint32(6)) = 6 /\ quint32(5) \in Word(4) /\ quint32(6) \in Word(4)
    BY <1>1, SizeWritten
  <1>3. quint32(0) = Zeros(4)
    <2>1. quint32(0) \in Word(4)
      BY SizeWritten
    <2>2. 0 % Radix = 0 /\ 0 \div Radix = 0 /\ 0 \div (Radix * Radix) = 0
      <3>1. Radix * Radix \in Nat /\ Radix * Radix > 16
        BY RadixAssumption, Products
      <3> QED BY <3>1, RadixAssumption
    <2>3. quint32(0) = << 0, 0 >> \o << 0, 0 >>
      BY <2>2 DEF quint32, quint16
    <2>4. << 0, 0 >> \o << 0, 0 >> = Zeros(4)
      BY DEF Zeros
    <2> QED BY <2>3, <2>4
  <1>4. ValueOf(quint32(0)) = 0
    BY <1>1, SizeWritten
  <1> QED BY <1>2, <1>3, <1>4

\* The elements of the lists of a transaction, one by one; an output that is
\* null is never written.
InputTexts(e) == [i \in 1 .. Len(e.inputs) |-> WriteInput(e.inputs[i])]
OutputText(o) == IF o = nullptr THEN << >> ELSE Text(o, << >>)
OutputTexts(e) == [i \in 1 .. Len(e.outputs) |-> OutputText(e.outputs[i])]
UnlockTexts(p) == [i \in 1 .. Len(p.unlocks) |-> WriteUnlock(p.unlocks[i])]

\* What follows the outputs; the outputs and what follows them; the payload.
UnlocksText(p) == quint16(Len(p.unlocks)) \o WriteAll(p.unlocks, WriteUnlock)
TailText(p) == IF NullTail(p) THEN << >> ELSE EssenceTail(p.essence) \o UnlocksText(p)
FromOutputs(p) == Chain(OutputTexts(p.essence), TailText(p))
PayloadText(p) ==
  IF p.type = 5 THEN WriteTagged(p)
  ELSE (quint32(6) \o WriteEssenceHead(p.essence)) \o FromOutputs(p)[0]

\* The block before its payload, and the whole.
HeadText(b) == (<< b.protocol_version >> \o quint8(Len(b.parents))) \o S!FlattenSeq(b.parents)
PayloadPart(b) == IF b.payload = nullptr THEN quint32(0) ELSE WithLength(PayloadText(b.payload))
BlockText(b) == (HeadText(b) \o PayloadPart(b)) \o b.nonce

\* No null pointer stops the writer of a payload.
PayloadComplete(p) ==
  p # nullptr /\ p.type = 6 =>
    /\ ~ NullHead(p) /\ ~ NullTail(p)
    /\ \A i \in 1 .. Len(p.essence.outputs) :
         p.essence.outputs[i] # nullptr /\ Complete(p.essence.outputs[i])

\* A list of texts is a sequence of byte strings.
LEMMA Texts ==
  ASSUME NEW n \in Nat, NEW w, w = [i \in 1 .. n |-> w[i]], \A i \in 1 .. n : w[i] \in Bytes
  PROVE  w \in Seq(Bytes) /\ Len(w) = n
  <1>1. w \in [1 .. n -> Bytes]
    OBVIOUS
  <1> QED BY <1>1

\* So are the texts of the elements of a transaction.
LEMMA InputTextsAre ==
  ASSUME NEW e \in Essence, \A i \in 1 .. Len(e.inputs) : e.inputs[i] # nullptr
  PROVE  /\ InputTexts(e) \in Seq(Bytes) /\ Len(InputTexts(e)) = Len(e.inputs)
         /\ Len(e.inputs) \in Nat
         /\ \A i \in 1 .. Len(e.inputs) :
              e.inputs[i] \in Input /\ InputTexts(e)[i] = WriteInput(e.inputs[i])
         /\ WriteAll(e.inputs, WriteInput) = S!FlattenSeq(InputTexts(e))
  <1> DEFINE n == Len(e.inputs)
             w == InputTexts(e)
  <1>1. n \in Nat /\ \A i \in 1 .. n : e.inputs[i] \in Input
    <2>1. e.inputs \in Seq(Input \cup {nullptr})
      BY EssenceFields
    <2> QED BY <2>1, LenProperties, ElementOfSeq
  <1>2. w = [i \in 1 .. n |-> w[i]] /\ \A i \in 1 .. n : w[i] = WriteInput(e.inputs[i])
    BY DEF InputTexts
  <1>3. WriteAll(e.inputs, WriteInput) = S!FlattenSeq(w)
    BY DEF WriteAll, InputTexts
  <1> HIDE DEF w
  <1>4. \A i \in 1 .. n : w[i] \in Bytes
    BY <1>1, <1>2, InputBack
  <1> HIDE DEF n
  <1>5. w \in Seq(Bytes) /\ Len(w) = n
    BY <1>1, <1>2, <1>4, Texts
  <1> QED BY <1>1, <1>2, <1>3, <1>5 DEF w, n

LEMMA UnlockTextsAre ==
  ASSUME NEW p \in TransactionPayload, ~ NullTail(p)
  PROVE  /\ UnlockTexts(p) \in Seq(Bytes) /\ Len(UnlockTexts(p)) = Len(p.unlocks)
         /\ Len(p.unlocks) \in Nat
         /\ \A i \in 1 .. Len(p.unlocks) :
              p.unlocks[i] \in Unlock /\ UnlockTexts(p)[i] = WriteUnlock(p.unlocks[i])
         /\ WriteAll(p.unlocks, WriteUnlock) = S!FlattenSeq(UnlockTexts(p))
  <1> DEFINE n == Len(p.unlocks)
             w == UnlockTexts(p)
  <1>1. n \in Nat /\ \A i \in 1 .. n : p.unlocks[i] \in Unlock
    <2>1. p.unlocks \in Seq(UnlockObject \cup {nullptr})
      BY PayloadFields
    <2>2. n \in Nat /\ \A i \in 1 .. n : p.unlocks[i] \in UnlockObject \cup {nullptr}
      BY <2>1, LenProperties, ElementOfSeq
    <2>3. ASSUME NEW i \in 1 .. n PROVE p.unlocks[i] \in Unlock
      <3> DEFINE u == p.unlocks[i]
      <3>1. ~ (u # nullptr => (u.type = 0 /\ u.signature = nullptr))
        BY DEF NullTail, NullUnlock
      <3>2. u \in UnlockObject \cup {nullptr}
        BY <2>2
      <3> HIDE DEF u
      <3>3. u \in Unlock
        BY <3>1, <3>2 DEF UnlockObject
      <3> QED BY <3>3 DEF u
    <2> QED BY <2>2, <2>3
  <1>2. w = [i \in 1 .. n |-> w[i]] /\ \A i \in 1 .. n : w[i] = WriteUnlock(p.unlocks[i])
    BY DEF UnlockTexts
  <1>3. WriteAll(p.unlocks, WriteUnlock) = S!FlattenSeq(w)
    BY DEF WriteAll, UnlockTexts
  <1> HIDE DEF w
  <1>4. \A i \in 1 .. n : w[i] \in Bytes
    BY <1>1, <1>2, UnlockBack
  <1> HIDE DEF n
  <1>5. w \in Seq(Bytes) /\ Len(w) = n
    BY <1>1, <1>2, <1>4, Texts
  <1> QED BY <1>1, <1>2, <1>3, <1>5 DEF w, n

LEMMA OutputTextsAre ==
  ASSUME NEW e \in Essence
  PROVE  /\ OutputTexts(e) \in Seq(Bytes) /\ Len(OutputTexts(e)) = Len(e.outputs)
         /\ Len(e.outputs) \in Nat
         /\ \A i \in 1 .. Len(e.outputs) :
              /\ e.outputs[i] = nullptr \/ Proper(e.outputs[i])
              /\ OutputTexts(e)[i] = OutputText(e.outputs[i])
  <1> DEFINE n == Len(e.outputs)
             w == OutputTexts(e)
  <1>1. n \in Nat /\ \A i \in 1 .. n : e.outputs[i] = nullptr \/ Proper(e.outputs[i])
    <2>1. e.outputs \in Seq(OutputObject \cup {nullptr})
      BY EssenceFields
    <2>2. n \in Nat /\ \A i \in 1 .. n : e.outputs[i] \in OutputObject \cup {nullptr}
      BY <2>1, LenProperties, ElementOfSeq
    <2> QED BY <2>2 DEF OutputObject
  <1>2. w = [i \in 1 .. n |-> w[i]] /\ \A i \in 1 .. n : w[i] = OutputText(e.outputs[i])
    BY DEF OutputTexts
  <1> HIDE DEF w
  <1>3. \A i \in 1 .. n : w[i] \in Bytes
    BY <1>1, <1>2, NoTail, TextTail DEF OutputText
  <1> HIDE DEF n
  <1>4. w \in Seq(Bytes) /\ Len(w) = n
    BY <1>1, <1>2, <1>3, Texts
  <1> QED BY <1>1, <1>2, <1>4 DEF w, n

\* Tagged data and what is put behind its length are bytes.
LEMMA TaggedBytes ==
  ASSUME NEW p \in TaggedData
  PROVE  p.type = 5 /\ WriteTagged(p) \in Bytes
  <1> DEFINE a == WriteArray(p.tag, 1)
             b == WriteArray(p.data, 4)
  <1>1. p.type = 5 /\ p.tag \in Bytes /\ p.data \in Bytes
    BY DEF TaggedData
  <1>2. quint32(5) \in Bytes /\ a \in Bytes /\ b \in Bytes
    BY <1>1, ArrayWritten, SizeWritten
  <1>3. WriteTagged(p) = (quint32(5) \o a) \o b
    BY <1>1 DEF WriteTagged
  <1> HIDE DEF a, b
  <1> QED BY <1>1, <1>2, <1>3, Joined

LEMMA LengthBytes ==
  ASSUME NEW x \in Bytes
  PROVE  /\ Len(x) \in Nat /\ WithLength(x) = quint32(Len(x)) \o x /\ WithLength(x) \in Bytes
         /\ \A s \in Bytes : WithLength(x) \o s = quint32(Len(x)) \o (x \o s)
  <1>1. Len(x) \in Nat /\ quint32(Len(x)) \in Bytes /\ UInt(Len(x), 4) = quint32(Len(x))
    BY LenProperties, SizeWritten DEF Bytes
  <1> DEFINE n == quint32(Len(x))
  <1>2. WithLength(x) = n \o x /\ n \in Bytes
    BY <1>1 DEF WithLength
  <1> HIDE DEF n
  <1>3. n \o x \in Bytes
    BY <1>2, Joined
  <1>4. \A s \in Bytes : (n \o x) \o s = n \o (x \o s)
    BY ONLY <1>2, x \in Bytes, Regroup
  <1> QED BY <1>1, <1>2, <1>3, <1>4 DEF n

\* The essence up to its outputs is bytes: the kind, the network, the inputs,
\* the commitment and the count of the outputs, in this order.
LEMMA EssenceHeadBytes ==
  ASSUME NEW e \in Essence, \A i \in 1 .. Len(e.inputs) : e.inputs[i] # nullptr
  PROVE  /\ WriteEssenceHead(e) \in Bytes
         /\ \A s \in Bytes :
              WriteEssenceHead(e) \o s =
                << 1 >> \o (e.network_id \o (quint16(Len(e.inputs)) \o
                  Chain(InputTexts(e), e.inputs_commitment \o (quint16(Len(e.outputs)) \o s))[0]))
  <1> DEFINE w == InputTexts(e)
             one == << 1 >>
             net == e.network_id
             n == quint16(Len(e.inputs))
             all == S!FlattenSeq(w)
             ic == e.inputs_commitment
             m == quint16(Len(e.outputs))
  <1>1. w \in Seq(Bytes) /\ Len(e.inputs) \in Nat /\ WriteAll(e.inputs, WriteInput) = all
    BY InputTextsAre
  <1>2. Len(e.outputs) \in Nat
    BY OutputTextsAre
  <1>3. net \in Word(8) /\ ic \in Bytes
    BY EssenceFields
  <1>4. one \in Bytes
    BY Kind
  <1>5. net \in Bytes /\ n \in Bytes /\ m \in Bytes
    BY <1>1, <1>2, <1>3, SizeWritten, WordIsBytes
  <1>6. WriteEssenceHead(e) = ((((one \o net) \o n) \o all) \o ic) \o m
    BY <1>1 DEF WriteEssenceHead
  <1> HIDE DEF w, one, net, n, ic, m
  <1>7. all \in Bytes
    BY <1>1, NoTail, Flattened
  <1>8. ASSUME NEW s \in Bytes
        PROVE  /\ WriteEssenceHead(e) \in Bytes
               /\ WriteEssenceHead(e) \o s = one \o (net \o (n \o Chain(w, ic \o (m \o s))[0]))
    <2> DEFINE t == ic \o (m \o s)
               y == ((one \o net) \o n) \o all
    <2>1. t \in Bytes
      BY <1>3, <1>5, Joined
    <2> HIDE DEF t
    <2>2. all \o t = Chain(w, t)[0]
      BY <1>1, <2>1, Flattened
    <2> HIDE DEF all
    <2>3. y \in Bytes /\ Follows(y \o t, one, net \o (n \o (all \o t)))
      BY ONLY <1>4, <1>5, <1>7, <2>1, FourParts
    <2> HIDE DEF y
    <2>4. s \in Bytes
      BY <1>8
    <2>5. (y \o ic) \o m \in Bytes /\ Follows(((y \o ic) \o m) \o s, y, ic \o (m \o s))
      BY ONLY <1>3, <1>5, <2>3, <2>4, Three
    <2> QED BY <1>6, <2>2, <2>3, <2>5 DEF Follows, t, y
  <1> QED BY <1>8, NoTail DEF w, one, net, n, ic, m

\* What follows the outputs is bytes: the payload of the essence, if any, and
\* four zeros, then the unlocks after their count.
LEMMA TailBytes ==
  ASSUME NEW p \in TransactionPayload, p.essence \in Essence
  PROVE  /\ EssenceTail(p.essence) \in Bytes /\ TailText(p) \in Bytes
         /\ ~ NullTail(p) =>
              /\ UnlocksText(p) \in Bytes
              /\ \A s \in Bytes :
                   UnlocksText(p) \o s = quint16(Len(p.unlocks)) \o Chain(UnlockTexts(p), s)[0]
  <1> DEFINE e == p.essence
  <1>1. EssenceTail(e) \in Bytes
    <2>1. e.payload \in TaggedData \cup {nullptr}
      BY EssenceFields
    <2>2. quint32(0) \in Bytes
      BY SizeWritten
    <2>3. CASE e.payload = nullptr
      BY <2>2, <2>3, NoTail, Joined DEF EssenceTail
    <2>4. CASE e.payload # nullptr
      <3>1. WithLength(WriteTagged(e.payload)) \in Bytes
        BY <2>1, <2>4, TaggedBytes, LengthBytes
      <3> QED BY <2>2, <2>4, <3>1, Joined DEF EssenceTail
    <2> QED BY <2>3, <2>4
  <1>2. ASSUME ~ NullTail(p)
        PROVE  /\ UnlocksText(p) \in Bytes
               /\ \A s \in Bytes :
                    UnlocksText(p) \o s = quint16(Len(p.unlocks)) \o Chain(UnlockTexts(p), s)[0]
    <2> DEFINE w == UnlockTexts(p)
               n == quint16(Len(p.unlocks))
               all == S!FlattenSeq(w)
    <2>1. w \in Seq(Bytes) /\ Len(p.unlocks) \in Nat /\ UnlocksText(p) = n \o all
      BY <1>2, UnlockTextsAre DEF UnlocksText
    <2>2. n \in Bytes
      BY <2>1, SizeWritten
    <2> HIDE DEF w, n
    <2>3. all \in Bytes /\ \A s \in Bytes : all \o s = Chain(w, s)[0]
      BY <2>1, NoTail, Flattened
    <2> HIDE DEF all
    <2>4. n \o all \in Bytes /\ \A s \in Bytes : (n \o all) \o s = n \o (all \o s)
      BY <2>2, <2>3, Joined, Regroup
    <2> QED BY <2>1, <2>3, <2>4 DEF w, n
  <1>3. TailText(p) \in Bytes
    <2>1. CASE NullTail(p)
      BY <2>1, NoTail DEF TailText
    <2>2. CASE ~ NullTail(p)
      BY <1>1, <1>2, <2>2, Joined DEF TailText
    <2> QED BY <2>1, <2>2
  <1> QED BY <1>1, <1>2, <1>3

\* An essence that was written is one, and its inputs are not null.
LEMMA HeadGiven ==
  ASSUME NEW p \in TransactionPayload, p # nullptr, ~ NullHead(p)
  PROVE  /\ p.essence \in Essence /\ p.essence # nullptr
         /\ \A i \in 1 .. Len(p.essence.inputs) : p.essence.inputs[i] # nullptr
  <1>1. p.type = 6 /\ p.essence \in Essence \cup {nullptr}
    BY PayloadFields
  <1>2. p.essence # nullptr /\ \A i \in 1 .. Len(p.essence.inputs) : p.essence.inputs[i] # nullptr
    BY <1>1 DEF NullHead
  <1> QED BY <1>1, <1>2

\* From each output on, the bytes of a transaction are those of the output,
\* with what follows it as their tail.
LEMMA OutputsBytes ==
  ASSUME NEW p \in TransactionPayload, p # nullptr, ~ NullHead(p)
  PROVE  LET c == FromOutputs(p)
             os == p.essence.outputs
         IN  /\ Len(os) \in Nat /\ PayloadText(p) \in Bytes
             /\ \A i \in 0 .. Len(os) : c[i] \in Bytes
             /\ c[Len(os)] = TailText(p)
             /\ \A i \in 1 .. Len(os) : os[i] # nullptr => c[i - 1] = Text(os[i], c[i])
             /\ \A i \in 1 .. Len(os) : os[i] # nullptr => Proper(os[i])
             /\ (quint32(6) \o WriteEssenceHead(p.essence)) \in Bytes
             /\ PayloadText(p) = (quint32(6) \o WriteEssenceHead(p.essence)) \o c[0]
  <1> DEFINE c == FromOutputs(p)
             os == p.essence.outputs
             n == Len(os)
             w == OutputTexts(p.essence)
             h == quint32(6) \o WriteEssenceHead(p.essence)
  <1>1. /\ p.essence \in Essence
        /\ \A i \in 1 .. Len(p.essence.inputs) : p.essence.inputs[i] # nullptr
    BY HeadGiven
  <1>2. /\ w \in Seq(Bytes) /\ Len(w) = n /\ n \in Nat
        /\ \A i \in 1 .. n : (os[i] = nullptr \/ Proper(os[i])) /\ w[i] = OutputText(os[i])
    BY <1>1, OutputTextsAre
  <1>3. TailText(p) \in Bytes
    BY <1>1, TailBytes
  <1>4. IsChain(c, w, TailText(p))
    BY <1>2, <1>3, ChainIs DEF FromOutputs
  <1> HIDE DEF c, w
  <1>5. /\ \A i \in 0 .. n : c[i] \in Bytes
        /\ c[n] = TailText(p) /\ \A i \in 0 .. n - 1 : c[i] = w[i + 1] \o c[i + 1]
    BY <1>2, <1>4 DEF IsChain
  <1> HIDE DEF n
  <1>6. ASSUME NEW i \in 1 .. n, os[i] # nullptr
        PROVE  c[i - 1] = Text(os[i], c[i])
    <2>1. i - 1 \in 0 .. n - 1 /\ i \in 0 .. n /\ (i - 1) + 1 = i
      BY <1>2
    <2>2. c[i - 1] = w[i] \o c[i]
      BY <1>5, <2>1
    <2>3. Proper(os[i]) /\ w[i] = Text(os[i], << >>) /\ c[i] \in Bytes
      BY <1>2, <1>5, <1>6, <2>1 DEF OutputText
    <2> QED BY <2>2, <2>3, TextTail
  <1>7. h \in Bytes
    <2>1. WriteEssenceHead(p.essence) \in Bytes /\ quint32(6) \in Bytes
      BY <1>1, EssenceHeadBytes, SizeWritten
    <2> QED BY <2>1, Joined
  <1>8. PayloadText(p) = h \o c[0]
    <2>1. p.type = 6
      BY PayloadFields
    <2> QED BY <2>1 DEF PayloadText, c
  <1> HIDE DEF h
  <1>9. 0 \in 0 .. n
    BY <1>2
  <1>10. PayloadText(p) \in Bytes
    BY <1>5, <1>7, <1>8, <1>9, Joined
  <1> QED BY <1>2, <1>5, <1>6, <1>7, <1>8, <1>10 DEF c, n, h

\* The version, the count of the parents, and the parents.
LEMMA HeadTextBytes ==
  ASSUME NEW b \in BlockObject
  PROVE  /\ HeadText(b) \in Bytes /\ Len(b.parents) \in Nat
         /\ \A s \in Bytes :
              HeadText(b) \o s =
                << b.protocol_version >> \o (quint8(Len(b.parents)) \o Chain(b.parents, s)[0])
  <1> DEFINE v == << b.protocol_version >>
             n == quint8(Len(b.parents))
             all == S!FlattenSeq(b.parents)
  <1>1. b.protocol_version \in Byte /\ b.parents \in Seq(Bytes) /\ Len(b.parents) \in Nat
    BY BlockFields, LenProperties
  <1>2. v \in Bytes /\ n \in Bytes
    BY <1>1, SizeWritten DEF Bytes
  <1>3. all \in Bytes /\ \A s \in Bytes : all \o s = Chain(b.parents, s)[0]
    BY <1>1, NoTail, Flattened
  <1>4. HeadText(b) = (v \o n) \o all
    BY DEF HeadText
  <1> HIDE DEF v, n, all
  <1>5. HeadText(b) \in Bytes
    BY <1>2, <1>3, <1>4, Joined
  <1>6. ASSUME NEW s \in Bytes PROVE HeadText(b) \o s = v \o (n \o (all \o s))
    <2>1. Follows(((v \o n) \o all) \o s, v, n \o (all \o s))
      BY <1>2, <1>3, Three
    <2> QED BY <1>4, <2>1 DEF Follows
  <1> QED BY <1>1, <1>3, <1>5, <1>6 DEF v, n
=============================================================================
