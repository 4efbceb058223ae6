-------------------------- MODULE OutputCodecProofs --------------------------
(***************************************************************************)
(* An output of any class, with lists and arrays of any length, written    *)
(* and read.                                                               *)
(***************************************************************************)
EXTENDS PsetProofs

-----------------------------------------------------------------------------
(***************************************************************************)
(* Outputs as records with four lists.                                     *)
(***************************************************************************)
\* The fields every output has.
LEMMA Fields ==
  ASSUME NEW o, IsOutput(o)
  PROVE  /\ o.type \in OutputKinds /\ o.amount \in Word(8)
         /\ \A f \in Lists : o[f] \in Seq(Pointers(f))
  <1>1. /\ o.type \in OutputKinds /\ o.amount \in Word(8)
        /\ o.native_tokens \in Seq(Pointers("native_tokens"))
        /\ o.unlock_conditions \in Seq(Pointers("unlock_conditions"))
        /\ o.features \in Seq(Pointers("features"))
        /\ o.immutable_features \in Seq(Pointers("immutable_features"))
    BY DEF IsOutput, OutputRecord
  <1>2. \A f \in Lists : o[f] \in Seq(Pointers(f))
    BY <1>1 DEF Lists
  <1> QED BY <1>1, <1>2

\* n is o with es for its list f.
ListSet(n, o, f, es) ==
  /\ IsOutput(n)
  /\ n.type = o.type /\ n.amount = o.amount /\ n.own = o.own
  /\ n[f] = es /\ \A g \in Lists \ {f} : n[g] = o[g]

\* Changing one list of an output leaves the others and its class.
LEMMA SetList ==
  ASSUME NEW o, IsOutput(o), NEW f \in Lists, NEW es \in Seq(Pointers(f))
  PROVE  ListSet([o EXCEPT ![f] = es], o, f, es)
  <1>1. CASE f = "native_tokens"
    BY <1>1 DEF ListSet, IsOutput, OutputRecord, Lists
  <1>2. CASE f = "unlock_conditions"
    BY <1>2 DEF ListSet, IsOutput, OutputRecord, Lists
  <1>3. CASE f = "features"
    BY <1>3 DEF ListSet, IsOutput, OutputRecord, Lists
  <1>4. CASE f = "immutable_features"
    BY <1>4 DEF ListSet, IsOutput, OutputRecord, Lists
  <1> QED BY <1>1, <1>2, <1>3, <1>4 DEF Lists

\* Changing the fields of its class leaves the lists.
LEMMA SetOwn ==
  ASSUME NEW o, IsOutput(o), NEW kind \in OutputKinds, NEW own \in Own(kind)
  PROVE  LET n == [o EXCEPT !.own = own]
         IN  /\ IsOutput(n)
             /\ n.type = o.type /\ n.amount = o.amount /\ n.own = own
             /\ \A g \in Lists : n[g] = o[g]
  <1>1. own \in Own(3) \cup Own(4) \cup Own(5) \cup Own(6)
    BY DEF OutputKinds
  <1> QED BY <1>1 DEF IsOutput, OutputRecord, Lists

\* Outputs with equal fields and lists are equal.
LEMMA SameOutput ==
  ASSUME NEW a, IsOutput(a), NEW b, IsOutput(b),
         a.type = b.type, a.amount = b.amount, a.own = b.own, \A f \in Lists : a[f] = b[f]
  PROVE  a = b
  <1>1. /\ a.native_tokens = b.native_tokens /\ a.unlock_conditions = b.unlock_conditions
        /\ a.features = b.features /\ a.immutable_features = b.immutable_features
    BY DEF Lists
  <1> QED BY <1>1, SMTT(40) DEF IsOutput, OutputRecord

\* What the reader begins with: an output with empty lists.
LEMMA FirstOutput ==
  ASSUME NEW kind \in OutputKinds, NEW amount \in Word(8)
  PROVE  LET o == [type |-> kind, amount |-> amount, native_tokens |-> << >>,
                   unlock_conditions |-> << >>, features |-> << >>,
                   immutable_features |-> << >>, own |-> << >>]
         IN  /\ IsOutput(o) /\ o.type = kind /\ o.amount = amount /\ o.own = << >>
             /\ \A f \in Lists : o[f] = << >>
  <1>1. \A S : << >> \in Seq(S)
    BY EmptySeq
  <1>2. << >> \in Own(3)
    BY DEF Own
  <1> QED BY <1>1, <1>2 DEF IsOutput, OutputRecord, Lists

-----------------------------------------------------------------------------
(***************************************************************************)
(* The fields of one class.                                                *)
(***************************************************************************)
OwnSound(o) == o.own \in Own(o.type) /\ OwnFits(o)

\* Whatever the stream holds, a token scheme or a null pointer is read.
LEMMA SchemeRead ==
  ASSUME NEW s \in Bytes
  PROVE  ReadScheme(s).v \in TokenScheme \cup {nullptr} /\ ReadScheme(s).rest \in Bytes
  <1> DEFINE kind == ReadInt(s, 1)
             minted == ReadRaw(kind.rest, HashLen)
             melted == ReadRaw(minted.rest, HashLen)
             maximum == ReadRaw(melted.rest, HashLen)
  <1>1. kind.rest \in Bytes
    BY KindRead
  <1>2. minted.v \in Hash /\ minted.rest \in Bytes
    BY <1>1, Hashes, RawRead
  <1>3. melted.v \in Hash /\ melted.rest \in Bytes
    BY <1>2, Hashes, RawRead
  <1>4. maximum.v \in Hash /\ maximum.rest \in Bytes
    BY <1>3, Hashes, RawRead
  <1>5. ReadScheme(s) = IF kind.v[1] = 0
                        THEN Got([type |-> 0, minted |-> minted.v, melted |-> melted.v,
                                  maximum |-> maximum.v], maximum.rest)
                        ELSE Got(nullptr, kind.rest)
    BY DEF ReadScheme
  <1> HIDE DEF kind, minted, melted, maximum
  <1> QED BY <1>1, <1>2, <1>3, <1>4, <1>5 DEF Got, TokenScheme

\* Whatever the stream holds, the fields of an alias, with an identifier that has its
\* length and metadata that fits its prefix.
LEMMA AliasRead ==
  ASSUME NEW s \in Bytes, NEW junk \in Junk
  PROVE  LET a == ReadAlias(s, junk)
         IN  /\ a.v \in Own(4) /\ a.rest \in Bytes
             /\ Len(a.v.alias_id) = HashLen /\ Within(Len(a.v.state_metadata), 2)
  <1> DEFINE id == ReadRaw(s, HashLen)
             index == ReadInt(id.rest, 4)
             data == ReadArray(index.rest, 2, junk)
             counter == ReadInt(data.rest, 4)
             a == ReadAlias(s, junk)
  <1>1. id.v \in Bytes /\ Len(id.v) = HashLen /\ id.rest \in Bytes
    BY Hashes, RawRead, WordIsBytes
  <1>2. index.v \in Word(4) /\ index.rest \in Bytes
    BY <1>1, IntRead
  <1>3. data.v \in Bytes /\ Within(Len(data.v), 2) /\ data.rest \in Bytes
    BY <1>2, ArrayRead
  <1>4. counter.v \in Word(4) /\ counter.rest \in Bytes
    BY <1>3, IntRead
  <1>5. a = Got([alias_id |-> id.v, state_index |-> index.v, state_metadata |-> data.v,
                 foundry_counter |-> counter.v], counter.rest)
    BY DEF ReadAlias
  <1> HIDE DEF id, index, data, counter, a
  <1>6. /\ a.v = [alias_id |-> id.v, state_index |-> index.v, state_metadata |-> data.v,
                  foundry_counter |-> counter.v]
        /\ a.rest = counter.rest
    BY <1>5 DEF Got
  <1>7. a.v \in Own(4) /\ a.v.alias_id = id.v /\ a.v.state_metadata = data.v
    BY <1>1, <1>2, <1>3, <1>4, <1>6 DEF Own
  <1> QED BY <1>1, <1>3, <1>4, <1>6, <1>7 DEF a

\* So for every class.
LEMMA OwnRead ==
  ASSUME NEW kind \in OutputKinds, NEW s \in Bytes, NEW junk \in Junk
  PROVE  LET own == ReadOwn(kind, s, junk)
         IN  /\ own.v \in Own(kind) /\ own.rest \in Bytes
             /\ kind = 4 => Len(own.v.alias_id) = HashLen /\ Within(Len(own.v.state_metadata), 2)
             /\ kind = 6 => Len(own.v.nft_id) = HashLen
  <1>1. CASE kind = 3
    BY <1>1 DEF ReadOwn, Own, Got
  <1>2. CASE kind = 4
    <2>1. ReadOwn(kind, s, junk) = ReadAlias(s, junk)
      BY <1>2 DEF ReadOwn
    <2> QED BY <1>2, <2>1, AliasRead
  <1>3. CASE kind = 5
    <2> DEFINE serial == ReadInt(s, 4)
               scheme == ReadScheme(serial.rest)
    <2>1. ReadOwn(kind, s, junk)
            = Got([serial_number |-> serial.v, token_scheme |-> scheme.v], scheme.rest)
      BY <1>3 DEF ReadOwn, ReadFoundry
    <2>2. serial.v \in Word(4) /\ serial.rest \in Bytes
      BY IntRead
    <2>3. scheme.v \in TokenScheme \cup {nullptr} /\ scheme.rest \in Bytes
      BY <2>2, SchemeRead
    <2> HIDE DEF serial, scheme
    <2> QED BY <1>3, <2>1, <2>2, <2>3 DEF Got, Own
  <1>4. CASE kind = 6
    <2> DEFINE id == ReadRaw(s, HashLen)
    <2>1. ReadOwn(kind, s, junk) = Got([nft_id |-> id.v], id.rest)
      BY <1>4 DEF ReadOwn, ReadNFT
    <2>2. id.v \in Bytes /\ Len(id.v) = HashLen /\ id.rest \in Bytes
      BY Hashes, RawRead, WordIsBytes
    <2> HIDE DEF id
    <2> QED BY <1>4, <2>1, <2>2 DEF Got, Own
  <1> QED BY <1>1, <1>2, <1>3, <1>4 DEF OutputKinds

\* The fields of an alias and of a foundry, in the order serialize() writes
\* them.
LEMMA OwnParts ==
  ASSUME NEW o
  PROVE  /\ o.type = 4 => WriteOwn(o) = ((o.own.alias_id \o o.own.state_index)
                                       \o WriteArray(o.own.state_metadata, 2)) \o o.own.foundry_counter
         /\ o.type = 5 => WriteOwn(o) = o.own.serial_number \o WriteScheme(o.own.token_scheme)
  <1> DEFINE a == ((o.own.alias_id \o o.own.state_index)
                     \o WriteArray(o.own.state_metadata, 2)) \o o.own.foundry_counter
             b == o.own.serial_number \o WriteScheme(o.own.token_scheme)
             c == o.own.nft_id
  <1>1. WriteOwn(o) = CASE o.type = 3 -> << >> [] o.type = 4 -> a [] o.type = 5 -> b [] o.type = 6 -> c
    BY Zenon DEF WriteOwn
  <1> HIDE DEF a, b, c
  <1>2. (o.type = 4 => WriteOwn(o) = a) /\ (o.type = 5 => WriteOwn(o) = b)
    BY <1>1
  <1> QED BY <1>2 DEF a, b

\* The fields of a class are written as bytes.
LEMMA OwnWritten ==
  ASSUME NEW o, o.type \in OutputKinds, o.own \in Own(o.type), ~ NullOwn(o)
  PROVE  WriteOwn(o) \in Bytes
  <1>1. CASE o.type = 3
    BY <1>1, EmptySeq DEF WriteOwn, Bytes
  <1>2. CASE o.type = 4
    <2> DEFINE a == o.own.alias_id
               b == o.own.state_index
               c == WriteArray(o.own.state_metadata, 2)
               d == o.own.foundry_counter
    <2>1. /\ a \in Bytes /\ b \in Word(4) /\ o.own.state_metadata \in Bytes /\ d \in Word(4)
      BY <1>2 DEF Own
    <2>2. a \in Bytes /\ b \in Bytes /\ c \in Bytes /\ d \in Bytes
      BY <2>1, WordIsBytes, ArrayWritten
    <2>3. WriteOwn(o) = ((a \o b) \o c) \o d
      BY <1>2, OwnParts
    <2> HIDE DEF a, b, c, d
    <2> QED BY <2>2, <2>3, FourParts
  <1>3. CASE o.type = 5
    <2> DEFINE a == o.own.serial_number
               b == WriteScheme(o.own.token_scheme)
    <2>1. a \in Word(4) /\ o.own.token_scheme \in TokenScheme
      BY <1>3 DEF Own, NullOwn
    <2>2. a \in Bytes /\ b \in Bytes
      BY <2>1, WordIsBytes, SchemeBack
    <2>3. WriteOwn(o) = a \o b
      BY <1>3, OwnParts
    <2> HIDE DEF a, b
    <2> QED BY <2>2, <2>3, Joined
  <1>4. CASE o.type = 6
    <2>1. o.own.nft_id \in Bytes
      BY <1>4 DEF Own
    <2> QED BY <1>4, <2>1 DEF WriteOwn
  <1> QED BY <1>1, <1>2, <1>3, <1>4 DEF OutputKinds

\* They are read by the constructor of the class as its serialize() wrote them,
\* and nothing after them.
LEMMA OwnBack ==
  ASSUME NEW o, o.type \in OutputKinds, OwnSound(o), ~ NullOwn(o),
         NEW junk \in Junk, NEW s \in Bytes
  PROVE  ReadOwn(o.type, WriteOwn(o) \o s, junk) = Got(o.own, s)
  <1>1. CASE o.type = 3
    <2>1. o.own = << >> /\ WriteOwn(o) = << >>
      BY <1>1 DEF OwnSound, Own, WriteOwn
    <2>2. << >> \o s = s
      BY ConcatEmptySeq DEF Bytes
    <2> QED BY <1>1, <2>1, <2>2 DEF ReadOwn
  <1>2. CASE o.type = 4
    <2> DEFINE a == o.own.alias_id
               b == o.own.state_index
               m == o.own.state_metadata
               c == WriteArray(m, 2)
               d == o.own.foundry_counter
               z == WriteOwn(o) \o s
               t1 == d \o s
               t2 == c \o t1
               t3 == b \o t2
               id == ReadRaw(z, HashLen)
               index == ReadInt(id.rest, 4)
               data == ReadArray(index.rest, 2, junk)
               counter == ReadInt(data.rest, 4)
    <2>1. /\ a \in Bytes /\ Len(a) = HashLen /\ b \in Word(4) /\ m \in Bytes /\ d \in Word(4)
          /\ o.own = [alias_id |-> a, state_index |-> b, state_metadata |-> m, foundry_counter |-> d]
          /\ Within(Len(m), 2)
      BY <1>2 DEF OwnSound, OwnFits, Own
    <2>2. /\ a \in Bytes /\ b \in Bytes /\ c \in Bytes /\ d \in Bytes
          /\ a \in Word(HashLen)
      BY <2>1, Hashes, SizedIsWord, WordIsBytes, ArrayWritten
    <2>3. WriteOwn(o) = ((a \o b) \o c) \o d
      BY <1>2, OwnParts
    <2>4. ReadOwn(o.type, z, junk)
            = Got([alias_id |-> id.v, state_index |-> index.v, state_metadata |-> data.v,
                   foundry_counter |-> counter.v], counter.rest)
      BY <1>2 DEF ReadOwn, ReadAlias
    <2> HIDE DEF a, b, d, m
    <2>5. Follows(z, a, t3) /\ Follows(t3, b, t2) /\ Follows(t2, c, t1) /\ Follows(t1, d, s)
      <3> HIDE DEF c
      <3> QED BY <2>2, <2>3, FourParts
    <2> HIDE DEF z, t1, t2, t3
    <2>6. id.v = a /\ id.rest = t3
      BY <2>2, <2>5, Hashes, RawBack
    <2>7. index.v = b /\ index.rest = t2
      BY <2>1, <2>5, <2>6, IntBack
    <2>8. data.v = m /\ data.rest = t1
      BY <2>1, <2>5, <2>7, ArrayBack
    <2>9. counter.v = d /\ counter.rest = s
      BY <2>1, <2>5, <2>8, IntBack
    <2> HIDE DEF id, index, data, counter
    <2>10. ReadOwn(o.type, z, junk) = Got(o.own, s)
      BY <2>1, <2>4, <2>6, <2>7, <2>8, <2>9
    <2> QED BY <2>10 DEF z
  <1>3. CASE o.type = 5
    <2> DEFINE a == o.own.serial_number
               c == o.own.token_scheme
               b == WriteScheme(c)
               z == WriteOwn(o) \o s
               t == b \o s
               serial == ReadInt(z, 4)
               scheme == ReadScheme(serial.rest)
    <2>1. /\ a \in Word(4) /\ c \in TokenScheme
          /\ o.own = [serial_number |-> a, token_scheme |-> c]
      BY <1>3 DEF OwnSound, Own, NullOwn
    <2>2. a \in Bytes /\ b \in Bytes
      BY <2>1, WordIsBytes, SchemeBack
    <2>3. WriteOwn(o) = a \o b
      BY <1>3, OwnParts
    <2>4. ReadOwn(o.type, z, junk)
            = Got([serial_number |-> serial.v, token_scheme |-> scheme.v], scheme.rest)
      BY <1>3 DEF ReadOwn, ReadFoundry
    <2>5. ReadScheme(t) = Got(c, s)
      BY <2>1, SchemeBack
    <2> HIDE DEF a, b, c
    <2>6. Follows(z, a, t)
      BY <2>2, <2>3, Two
    <2> HIDE DEF z, t
    <2>7. serial.v = a /\ serial.rest = t
      BY <2>1, <2>6, IntBack
    <2>8. scheme.v = c /\ scheme.rest = s
      BY <2>5, <2>7 DEF Got
    <2> HIDE DEF serial, scheme
    <2>9. ReadOwn(o.type, z, junk) = Got(o.own, s)
      BY <2>1, <2>4, <2>7, <2>8
    <2> QED BY <2>9 DEF z
  <1>4. CASE o.type = 6
    <2> DEFINE a == o.own.nft_id
               z == WriteOwn(o) \o s
               id == ReadRaw(z, HashLen)
    <2>1. a \in Bytes /\ Len(a) = HashLen /\ o.own = [nft_id |-> a]
      BY <1>4 DEF OwnSound, OwnFits, Own
    <2>2. ReadOwn(o.type, z, junk) = Got([nft_id |-> id.v], id.rest)
      BY <1>4 DEF ReadOwn, ReadNFT
    <2>3. WriteOwn(o) = a
      BY <1>4 DEF WriteOwn
    <2>4. a \in Word(HashLen)
      BY <2>1, Hashes, SizedIsWord
    <2> HIDE DEF a
    <2>5. Follows(z, a, s)
      BY <2>1, <2>3, One
    <2> HIDE DEF z
    <2>6. id.v = a /\ id.rest = s
      BY <2>4, <2>5, Hashes, RawBack
    <2> HIDE DEF id
    <2>7. ReadOwn(o.type, z, junk) = Got(o.own, s)
      BY <2>1, <2>2, <2>6
    <2> QED BY <2>7 DEF z
  <1> QED BY <1>1, <1>2, <1>3, <1>4 DEF OutputKinds

-----------------------------------------------------------------------------
(***************************************************************************)
(* The bytes of a whole output with a tail after them, and those from any  *)
(* place of it on.                                                         *)
(***************************************************************************)
OwnBytes(o) == IF NullOwn(o) THEN << >> ELSE WriteOwn(o)
From(o, f, after) == quint8(Len(o[f])) \o (Remains(f, o[f])[0] \o after)
AfterFeatures(o, tail) == IF o.type = 3 THEN tail ELSE From(o, "immutable_features", tail)
AfterConditions(o, tail) == From(o, "features", AfterFeatures(o, tail))
AfterTokens(o, tail) == OwnBytes(o) \o From(o, "unlock_conditions", AfterConditions(o, tail))
After(o, f, tail) ==
  CASE f = "native_tokens"      -> AfterTokens(o, tail)
    [] f = "unlock_conditions"  -> AfterConditions(o, tail)
    [] f = "features"           -> AfterFeatures(o, tail)
    [] f = "immutable_features" -> tail
Text(o, tail) == (<< o.type >> \o o.amount) \o From(o, "native_tokens", AfterTokens(o, tail))

\* A count below Radix is the value of the byte it is cast to.
LEMMA CountWritten ==
  ASSUME NEW n \in Nat
  PROVE  quint8(n) \in Word(1) /\ quint8(n) \in Bytes /\ (n < Radix => ValueOf(quint8(n)) = n)
  <1>1. UInt(n, 1) = quint8(n)
    BY DEF UInt
  <1>2. UInt(n, 1) \in Word(1) /\ (Within(n, 1) => ValueOf(UInt(n, 1)) = n)
    BY Sizes
  <1>3. Within(n, 1) <=> n < Radix
    BY DEF Within
  <1> QED BY <1>1, <1>2, <1>3, WordIsBytes

\* From its count on, a list is written as bytes.
LEMMA FromBytes ==
  ASSUME NEW o, IsOutput(o), NEW f \in Lists, NEW after \in Bytes
  PROVE  From(o, f, after) \in Bytes
  <1>1. o[f] \in Seq(Pointers(f))
    BY Fields
  <1>2. Len(o[f]) \in Nat /\ Remains(f, o[f])[0] \in Bytes
    <2>1. Len(o[f]) \in Nat /\ \A i \in 0 .. Len(o[f]) : Remains(f, o[f])[i] \in Bytes
      BY <1>1, RemainsAre
    <2>2. 0 \in 0 .. Len(o[f])
      BY <2>1
    <2> QED BY <2>1, <2>2
  <1>3. quint8(Len(o[f])) \in Bytes
    BY <1>2, CountWritten
  <1>4. Remains(f, o[f])[0] \o after \in Bytes
    BY <1>2, Joined
  <1> QED BY <1>3, <1>4, Joined DEF From

\* The fields of the class are bytes.
LEMMA OwnBytesAre ==
  ASSUME NEW o, Proper(o)
  PROVE  OwnBytes(o) \in Bytes
  <1>1. o.type \in OutputKinds /\ o.own \in Own(o.type)
    BY Fields DEF Proper
  <1> QED BY <1>1, OwnWritten, EmptySeq DEF OwnBytes, Bytes

\* The kind and the amount are bytes.
LEMMA HeadBytes ==
  ASSUME NEW o, IsOutput(o)
  PROVE  << o.type >> \o o.amount \in Bytes
  <1> DEFINE b == << o.type >>
  <1>1. o.type \in 0 .. 16 /\ o.amount \in Word(8)
    BY Fields DEF OutputKinds
  <1>2. b \in Bytes /\ o.amount \in Bytes
    BY <1>1, Kind, WordIsBytes
  <1> HIDE DEF b
  <1>3. b \o o.amount \in Bytes
    BY <1>2, Joined
  <1> QED BY <1>3 DEF b

\* So is what follows each list, and the whole.
LEMMA AfterBytes ==
  ASSUME NEW o, Proper(o), NEW tail \in Bytes
  PROVE  /\ \A f \in Lists : After(o, f, tail) \in Bytes
         /\ Text(o, tail) \in Bytes
  <1>1. IsOutput(o)
    BY DEF Proper
  <1>3. AfterFeatures(o, tail) \in Bytes
    BY <1>1, FromBytes DEF AfterFeatures, Lists
  <1>4. AfterConditions(o, tail) \in Bytes
    BY <1>1, <1>3, FromBytes DEF AfterConditions, Lists
  <1>5. From(o, "unlock_conditions", AfterConditions(o, tail)) \in Bytes
    BY <1>1, <1>4, FromBytes DEF Lists
  <1>6. AfterTokens(o, tail) \in Bytes
    BY <1>5, OwnBytesAre, Joined DEF AfterTokens
  <1>7. From(o, "native_tokens", AfterTokens(o, tail)) \in Bytes
    BY <1>1, <1>6, FromBytes DEF Lists
  <1>8. << o.type >> \o o.amount \in Bytes
    BY <1>1, HeadBytes
  <1>9. Text(o, tail) \in Bytes
    BY <1>7, <1>8, Joined DEF Text
  <1> QED BY <1>3, <1>4, <1>6, <1>9 DEF After, Lists

\* What comes between list f and the count of the next.
Between(o, f) == IF f = "native_tokens" THEN OwnBytes(o) ELSE << >>

\* What follows a list is the fields of the class, after the tokens, and then
\* the next list; nothing after the last.
LEMMA AfterNext ==
  ASSUME NEW o, Proper(o), NEW f \in Lists, NEW tail \in Bytes
  PROVE  LET g == NextList(o.type, f)
         IN  /\ Between(o, f) \in Bytes
             /\ g \in Lists \cup {"done"}
             /\ g = "done" => f # "native_tokens" /\ After(o, f, tail) = tail
             /\ g # "done" => After(o, f, tail) = Between(o, f) \o From(o, g, After(o, g, tail))
  <1>1. IsOutput(o)
    BY DEF Proper
  <1>2. << >> \in Bytes /\ OwnBytes(o) \in Bytes
    BY OwnBytesAre, EmptySeq DEF Bytes
  <1>3. CASE f = "native_tokens"
    <2>1. /\ NextList(o.type, f) = "unlock_conditions" /\ After(o, f, tail) = AfterTokens(o, tail)
          /\ After(o, "unlock_conditions", tail) = AfterConditions(o, tail)
      BY <1>3 DEF NextList, After
    <2> QED BY <1>2, <1>3, <2>1 DEF Between, AfterTokens, Lists
  <1>4. CASE f = "unlock_conditions"
    <2>1. /\ NextList(o.type, f) = "features" /\ After(o, f, tail) = AfterConditions(o, tail)
          /\ After(o, "features", tail) = AfterFeatures(o, tail)
      BY <1>4 DEF NextList, After
    <2>2. From(o, "features", AfterFeatures(o, tail)) \in Bytes
      BY <1>4, <2>1, AfterBytes DEF AfterConditions
    <2>3. << >> \o From(o, "features", AfterFeatures(o, tail)) = From(o, "features", AfterFeatures(o, tail))
      BY <2>2, ConcatEmptySeq DEF Bytes
    <2> QED BY <1>2, <1>4, <2>1, <2>3 DEF Between, AfterConditions, Lists
  <1>5. CASE f = "features"
    <2>1. /\ NextList(o.type, f) = IF o.type = 3 THEN "done" ELSE "immutable_features"
          /\ After(o, f, tail) = AfterFeatures(o, tail) /\ After(o, "immutable_features", tail) = tail
      BY <1>5 DEF NextList, After
    <2> DEFINE t == From(o, "immutable_features", tail)
    <2>2. t \in Bytes
      BY <1>1, <1>2, FromBytes DEF Lists
    <2>3. << >> \o t = t
      BY <2>2, ConcatEmptySeq DEF Bytes
    <2>4. AfterFeatures(o, tail) = IF o.type = 3 THEN tail ELSE t
      BY DEF AfterFeatures
    <2> QED BY <1>2, <1>5, <2>1, <2>3, <2>4 DEF Between, Lists
  <1>6. CASE f = "immutable_features"
    <2>1. NextList(o.type, f) = "done" /\ After(o, f, tail) = tail
      BY <1>6 DEF NextList, After
    <2> QED BY <1>2, <1>6, <2>1 DEF Between
  <1> QED BY <1>3, <1>4, <1>5, <1>6 DEF Lists

\* The tail follows a list whatever was written before the end.
LEMMA FromTail ==
  ASSUME NEW o, IsOutput(o), NEW f \in Lists, NEW after \in Bytes, NEW tail \in Bytes
  PROVE  From(o, f, after \o tail) = From(o, f, after) \o tail
  <1> DEFINE c == quint8(Len(o[f]))
             r == Remains(f, o[f])[0]
  <1>1. o[f] \in Seq(Pointers(f))
    BY Fields
  <1>2. c \in Bytes /\ r \in Bytes
    <2>1. Len(o[f]) \in Nat /\ \A i \in 0 .. Len(o[f]) : Remains(f, o[f])[i] \in Bytes
      BY <1>1, RemainsAre
    <2>2. 0 \in 0 .. Len(o[f])
      BY <2>1
    <2> QED BY <2>1, <2>2, CountWritten
  <1> HIDE DEF c, r
  <1>3. r \o after \in Bytes /\ (r \o after) \o tail = r \o (after \o tail)
    BY <1>2, Joined, Regroup, SMTT(40)
  <1>4. (c \o (r \o after)) \o tail = c \o ((r \o after) \o tail)
    BY <1>2, <1>3, Regroup, ZenonT(60)
  <1> QED BY <1>3, <1>4 DEF From, c, r

\* The bytes of an output with a tail are its bytes and then the tail.
LEMMA TextTail ==
  ASSUME NEW o, Proper(o), NEW tail \in Bytes
  PROVE  Text(o, << >>) \in Bytes /\ Text(o, tail) = Text(o, << >>) \o tail
  <1> DEFINE e == << >>
  <1>1. IsOutput(o) /\ e \in Bytes /\ e \o tail = tail
    BY EmptySeq, ConcatEmptySeq DEF Proper, Bytes
  <1>2. \A f \in Lists : After(o, f, e) \in Bytes
    BY <1>1, AfterBytes
  <1> HIDE DEF e
  <1>3. AfterFeatures(o, e) \in Bytes /\ AfterConditions(o, e) \in Bytes /\ AfterTokens(o, e) \in Bytes
    BY <1>2 DEF After, Lists
  <1>4. AfterFeatures(o, tail) = AfterFeatures(o, e) \o tail
    <2>1. "immutable_features" \in Lists
      BY DEF Lists
    <2>2. From(o, "immutable_features", e \o tail) = From(o, "immutable_features", e) \o tail
      BY <1>1, <2>1, FromTail
    <2> QED BY <1>1, <2>2 DEF AfterFeatures
  <1>5. AfterConditions(o, tail) = AfterConditions(o, e) \o tail
    <2>1. "features" \in Lists
      BY DEF Lists
    <2>2. From(o, "features", AfterFeatures(o, e) \o tail) = From(o, "features", AfterFeatures(o, e)) \o tail
      BY <1>1, <1>3, <2>1, FromTail
    <2> QED BY <1>4, <2>2 DEF AfterConditions
  <1>6. AfterTokens(o, tail) = AfterTokens(o, e) \o tail
    <2> DEFINE b == OwnBytes(o)
               c == From(o, "unlock_conditions", AfterConditions(o, e))
    <2>1. From(o, "unlock_conditions", AfterConditions(o, tail)) = c \o tail
      <3>1. "unlock_conditions" \in Lists
        BY DEF Lists
      <3>2. From(o, "unlock_conditions", AfterConditions(o, e) \o tail) = c \o tail
        BY <1>1, <1>3, <3>1, FromTail
      <3> QED BY <1>5, <3>2
    <2>2. b \in Bytes /\ c \in Bytes
      BY <1>1, <1>3, OwnBytesAre, FromBytes DEF Lists
    <2> HIDE DEF b, c
    <2>3. (b \o c) \o tail = b \o (c \o tail)
      BY <2>2, Regroup
    <2> QED BY <2>1, <2>3 DEF AfterTokens, b, c
  <1>7. Text(o, tail) = Text(o, e) \o tail
    <2> DEFINE h == << o.type >> \o o.amount
               c == From(o, "native_tokens", AfterTokens(o, e))
    <2>1. From(o, "native_tokens", AfterTokens(o, tail)) = c \o tail
      <3>1. "native_tokens" \in Lists
        BY DEF Lists
      <3>2. From(o, "native_tokens", AfterTokens(o, e) \o tail) = c \o tail
        BY <1>1, <1>3, <3>1, FromTail
      <3> QED BY <1>6, <3>2
    <2>2. h \in Bytes /\ c \in Bytes
      BY <1>1, <1>3, HeadBytes, FromBytes DEF Lists
    <2> HIDE DEF h, c
    <2>3. (h \o c) \o tail = h \o (c \o tail)
      BY <2>2, Regroup
    <2> QED BY <2>1, <2>3 DEF Text, h, c
  <1> QED BY <1>1, <1>7, AfterBytes DEF e

-----------------------------------------------------------------------------
(***************************************************************************)
(* The writer.                                                             *)
(***************************************************************************)
\* The lists that are behind a place.
Past(kind, place) ==
  CASE place = "unlock_conditions"  -> {"native_tokens"}
    [] place = "features"           -> {"native_tokens", "unlock_conditions"}
    [] place = "immutable_features" -> {"native_tokens", "unlock_conditions", "features"}
    [] place = "done"               -> IF kind = 3 THEN Lists \ {"immutable_features"} ELSE Lists
    [] OTHER                        -> {}

\* With each list the reader and the writer leave one more behind them, and
\* come to the end after the last.
LEMMA PastNext ==
  ASSUME NEW kind \in OutputKinds, NEW f \in Lists, kind = 3 => f # "immutable_features"
  PROVE  LET g == NextList(kind, f)
         IN  /\ g \in Lists \cup {"done"}
             /\ Past(kind, g) = Past(kind, f) \cup {f} /\ f \notin Past(kind, f)
             /\ Past(kind, f) \subseteq Lists
             /\ g \in Lists => g \notin Past(kind, g) /\ g # "native_tokens" /\ g # f
             /\ kind = 3 => g # "immutable_features"
             /\ g = "done" => f # "native_tokens"
             /\ g = "done" => \A h \in Lists : h \in Past(kind, g) \/ (kind = 3 /\ h = "immutable_features")
  <1>1. CASE f = "native_tokens"
    BY <1>1 DEF NextList, Past, Lists
  <1>2. CASE f = "unlock_conditions"
    BY <1>2 DEF NextList, Past, Lists
  <1>3. CASE f = "features" /\ kind = 3
    BY <1>3 DEF NextList, Past, Lists
  <1>4. CASE f = "features" /\ kind # 3
    BY <1>4 DEF NextList, Past, Lists
  <1>5. CASE f = "immutable_features"
    BY <1>5 DEF NextList, Past, Lists
  <1> QED BY <1>1, <1>2, <1>3, <1>4, <1>5 DEF Lists

NoNulls(o, f, n) == \A i \in 1 .. n : ~ NullElement(f, o[f][i])

\* What has been written, before element n + 1 of list f.
WriterAt(o, tail, total, w, f, n) ==
  /\ n <= Len(o[f]) /\ (o.type = 3 => f # "immutable_features")
  /\ w \o (Remains(f, o[f])[n] \o After(o, f, tail)) = total
  /\ NoNulls(o, f, n)

Writing(o, tail, total, w, at, n) ==
  /\ w \in Bytes /\ n \in Nat /\ at \in Places \cup {"crash"}
  /\ at = "head" => w \o Text(o, tail) = total
  /\ at \in Lists => WriterAt(o, tail, total, w, at, n)
  /\ at = "done" => w \o tail = total
  /\ \A f \in Past(o.type, at) : NoNulls(o, f, Len(o[f]))
  /\ at \in Places \ {"head", "native_tokens"} => ~ NullOwn(o)
  /\ at = "crash" => HasNull(o)

\* Where the reader and the writer can be.
LEMMA Place ==
  /\ Lists \subseteq Places /\ "head" \in Places /\ "done" \in Places
  /\ "head" \notin Lists /\ "done" \notin Lists /\ "crash" \notin Places /\ "idle" \notin Places
  BY DEF Places, Lists

\* After the head, the writer has written the front of the bytes of the output.
LEMMA WriteHeadInv ==
  ASSUME NEW tail \in Bytes, NEW total, Proper(src), Writing(src, tail, total, wire, wat, wi),
         WriteHead
  PROVE  Writing(src, tail, total, wire', wat', wi')
  <1> DEFINE f == "native_tokens"
             t == << src.type >>
             a == src.amount
             c == quint8(Len(src[f]))
             r == Remains(f, src[f])[0] \o After(src, f, tail)
  <1>1. /\ wat = "head" /\ wire \in Bytes /\ wire \o Text(src, tail) = total
        /\ wat' = f /\ wi' = 0 /\ wire' = ((wire \o t) \o a) \o c
    BY DEF Writing, WriteHead
  <1>2. IsOutput(src) /\ src[f] \in Seq(Pointers(f)) /\ src.type \in 0 .. 16 /\ a \in Word(8) /\ f \in Lists
    BY Fields DEF Proper, OutputKinds, Lists
  <1>3. Len(src[f]) \in Nat /\ Remains(f, src[f])[0] \in Bytes
    <2>1. Len(src[f]) \in Nat /\ \A i \in 0 .. Len(src[f]) : Remains(f, src[f])[i] \in Bytes
      BY <1>2, RemainsAre
    <2>2. 0 \in 0 .. Len(src[f])
      BY <2>1
    <2> QED BY <2>1, <2>2
  <1>4. After(src, f, tail) \in Bytes
    BY <1>2, AfterBytes
  <1>5. t \in Bytes /\ a \in Bytes /\ c \in Bytes
    BY <1>2, <1>3, Kind, WordIsBytes, CountWritten
  <1>6. r \in Bytes
    BY <1>3, <1>4, Joined
  <1>7. Text(src, tail) = (t \o a) \o (c \o r)
    BY DEF Text, From, After
  <1> HIDE DEF t, a, c, r
  <1>8. t \o a \in Bytes /\ c \o r \in Bytes /\ wire \o t \in Bytes
    BY <1>1, <1>5, <1>6, Joined
  <1>9. wire' = (wire \o (t \o a)) \o c
    <2>1. (wire \o t) \o a = wire \o (t \o a)
      BY <1>1, <1>5, Regroup
    <2> QED BY <1>1, <2>1
  <1> DEFINE ta == t \o a
             w == (wire \o ta) \o c
  <1>10. ta \in Bytes /\ wire' = w /\ Text(src, tail) = ta \o (c \o r)
    BY <1>7, <1>8, <1>9
  <1> HIDE DEF ta
  <1>11. wire \o ta \in Bytes /\ w \in Bytes
    <2>1. wire \o ta \in Bytes
      BY <1>1, <1>10, Joined
    <2> QED BY <1>5, <2>1, Joined
  <1>12. w \o r = total
    <2> DEFINE x == wire \o ta
               y == c \o r
    <2>1. x \in Bytes /\ y \in Bytes /\ total = wire \o (ta \o y)
      BY <1>1, <1>8, <1>10, <1>11
    <2>2. wire \o (ta \o y) = x \o y
      <3> HIDE DEF y
      <3> QED BY <1>1, <1>10, <2>1, Regroup, ZenonT(60)
    <2>3. c \in Bytes /\ r \in Bytes
      BY <1>5, <1>6
    <2>4. (x \o c) \o r = x \o (c \o r)
      <3> HIDE DEF x
      <3> QED BY <2>1, <2>3, Regroup
    <2> QED BY <2>1, <2>2, <2>4
  <1> HIDE DEF w
  <1>13. WriterAt(src, tail, total, w, f, 0)
    <2>1. 0 <= Len(src[f]) /\ NoNulls(src, f, 0)
      BY <1>3 DEF NoNulls
    <2>2. f # "immutable_features"
      OBVIOUS
    <2>3. w \o (Remains(f, src[f])[0] \o After(src, f, tail)) = total
      BY <1>12 DEF r
    <2> HIDE DEF f
    <2> QED BY <2>1, <2>2, <2>3 DEF WriterAt
  <1>14. Past(src.type, f) = {}
    BY DEF Past
  <1> QED BY <1>1, <1>2, <1>10, <1>11, <1>13, <1>14, Place DEF Writing

\* After an element, too: serializeList.
LEMMA WriteItemInv ==
  ASSUME NEW tail \in Bytes, NEW total, Proper(src), Writing(src, tail, total, wire, wat, wi),
         NEW f \in Lists, WriteItem(f)
  PROVE  Writing(src, tail, total, wire', wat', wi')
  <1> DEFINE e == src[f][wi + 1]
             w == WriteElement(f, e)
             r == Remains(f, src[f])[wi]
             q == Remains(f, src[f])[wi + 1]
             a == After(src, f, tail)
  <1>1. /\ wat = f /\ wi < Len(src[f]) /\ ~ NullElement(f, e) /\ wi \in Nat
        /\ wire' = wire \o w /\ wi' = wi + 1 /\ wat' = f
    BY DEF Writing, WriteItem
  <1>2. IsOutput(src) /\ src[f] \in Seq(Pointers(f))
    BY Fields DEF Proper
  <1>3. Len(src[f]) \in Nat /\ wi + 1 \in 1 .. Len(src[f]) /\ wi \in 0 .. Len(src[f]) - 1
    BY <1>1, <1>2, LenProperties
  <1>4. e \in Pointers(f)
    BY <1>2, <1>3, ElementOfSeq
  <1>5. w \in Bytes
    BY <1>1, <1>4, ElementWritten
  <1>6. q \in Bytes /\ r = w \o q
    <2>1. /\ \A i \in 0 .. Len(src[f]) : Remains(f, src[f])[i] \in Bytes
          /\ \A i \in 0 .. Len(src[f]) - 1 :
               ~ NullElement(f, src[f][i + 1]) =>
                 Remains(f, src[f])[i] = WriteElement(f, src[f][i + 1]) \o Remains(f, src[f])[i + 1]
      BY <1>2, RemainsAre
    <2>2. wi + 1 \in 0 .. Len(src[f])
      BY <1>3
    <2> QED BY <1>1, <1>3, <2>1, <2>2
  <1>7. a \in Bytes /\ wire \in Bytes /\ wire \o (r \o a) = total /\ NoNulls(src, f, wi)
        /\ (src.type = 3 => f # "immutable_features")
    BY <1>1, AfterBytes DEF Writing, WriterAt
  <1> HIDE DEF e, w, r, q, a
  <1>8. wire \o w \in Bytes
    BY <1>5, <1>7, Joined
  <1>9. (wire \o w) \o (q \o a) = total
    <2> DEFINE p == q \o a
    <2>1. p \in Bytes
      BY <1>6, <1>7, Joined
    <2>2. (w \o q) \o a = w \o p
      BY <1>5, <1>6, <1>7, Regroup, ZenonT(60)
    <2> HIDE DEF p
    <2>3. (wire \o w) \o p = wire \o (w \o p)
      BY <1>5, <1>7, <2>1, Regroup, SMTT(40)
    <2> QED BY <1>6, <1>7, <2>2, <2>3 DEF p
  <1>10. NoNulls(src, f, wi + 1)
    <2> SUFFICES ASSUME NEW i \in 1 .. wi + 1 PROVE ~ NullElement(f, src[f][i])
      BY DEF NoNulls
    <2>1. i \in 1 .. wi \/ i = wi + 1
      BY <1>1
    <2> QED BY <1>1, <1>7, <2>1 DEF NoNulls, e
  <1>11. WriterAt(src, tail, total, wire \o w, f, wi + 1)
    BY <1>3, <1>7, <1>9, <1>10 DEF WriterAt, q, a
  <1>12. \A g \in Past(src.type, f) : NoNulls(src, g, Len(src[g]))
    BY <1>1 DEF Writing
  <1>13. f # "native_tokens" => ~ NullOwn(src)
    BY <1>1, Place DEF Writing
  <1>14. Writing(src, tail, total, wire \o w, f, wi + 1)
    BY <1>1, <1>8, <1>11, <1>12, <1>13, Place DEF Writing
  <1> QED BY <1>1, <1>14

\* And after the last of a list: the fields of the class after the tokens, and
\* the next count.
LEMMA WriteNextInv ==
  ASSUME NEW tail \in Bytes, NEW total, Proper(src), Writing(src, tail, total, wire, wat, wi),
         NEW f \in Lists, WriteNext(f)
  PROVE  Writing(src, tail, total, wire', wat', wi')
  <1> DEFINE g == NextList(src.type, f)
             own == IF f = "native_tokens" THEN WriteOwn(src) ELSE << >>
             c == IF g = "done" THEN << >> ELSE quint8(Len(src[g]))
             n == Len(src[f])
             a == After(src, f, tail)
             r == Remains(g, src[g])[0] \o After(src, g, tail)
             w == (wire \o own) \o c
  <1>1. /\ wat = f /\ wi = n /\ ~ (f = "native_tokens" /\ NullOwn(src))
        /\ wire' = w /\ wi' = 0 /\ wat' = g
    BY DEF WriteNext
  <1>2. /\ Proper(src) /\ IsOutput(src) /\ src.type \in OutputKinds
        /\ \A h \in Lists : src[h] \in Seq(Pointers(h))
    BY Fields DEF Proper
  <1>3. /\ wire \in Bytes /\ wire \o (Remains(f, src[f])[n] \o a) = total
        /\ NoNulls(src, f, n) /\ (src.type = 3 => f # "immutable_features")
        /\ \A h \in Past(src.type, f) : NoNulls(src, h, Len(src[h]))
        /\ f # "native_tokens" => ~ NullOwn(src)
    BY <1>1, Place DEF Writing, WriterAt
  <1>4. own = Between(src, f) /\ ~ NullOwn(src)
    BY <1>1, <1>3 DEF Between, OwnBytes
  <1>5. /\ own \in Bytes /\ g \in Lists \cup {"done"}
        /\ g = "done" => f # "native_tokens" /\ a = tail
        /\ g # "done" => a = own \o From(src, g, After(src, g, tail))
    <2> HIDE DEF own, g
    <2>1. own = Between(src, f)
      BY <1>4
    <2> QED BY <1>2, <2>1, AfterNext DEF g
  <1>6. a \in Bytes /\ wire \o a = total
    <2>1. a \in Bytes
      BY <1>2, AfterBytes
    <2>2. Remains(f, src[f])[n] = << >>
      BY <1>2, RemainsAre
    <2>3. << >> \o a = a
      BY <2>1, ConcatEmptySeq DEF Bytes
    <2> QED BY <1>3, <2>1, <2>2, <2>3
  <1>7. \A h \in Past(src.type, g) : NoNulls(src, h, Len(src[h]))
    BY <1>2, <1>3, PastNext
  <1>8. /\ src.type = 3 => g # "immutable_features"
        /\ g \in Lists => g # "native_tokens"
    BY <1>2, <1>3, PastNext
  <1> HIDE DEF g
  <1>9. CASE g = "done"
    <2>1. own = << >> /\ c = << >>
      BY <1>5, <1>9
    <2>2. wire \o << >> = wire
      BY <1>3, ConcatEmptySeq DEF Bytes
    <2>3. w = wire
      <3> HIDE DEF own, c
      <3> QED BY <2>1, <2>2
    <2>4. w \o tail = total
      BY <1>5, <1>6, <1>9, <2>2, <2>3
    <2> HIDE DEF w
    <2> QED BY <1>1, <1>3, <1>4, <1>7, <1>9, <2>3, <2>4, Place DEF Writing
  <1>10. CASE g # "done"
    <2>1. g \in Lists
      BY <1>5, <1>10
    <2>2. Len(src[g]) \in Nat /\ Remains(g, src[g])[0] \in Bytes
      <3>1. Len(src[g]) \in Nat /\ \A i \in 0 .. Len(src[g]) : Remains(g, src[g])[i] \in Bytes
        BY <1>2, <2>1, RemainsAre
      <3>2. 0 \in 0 .. Len(src[g])
        BY <3>1
      <3> QED BY <3>1, <3>2
    <2>3. c \in Bytes /\ c = quint8(Len(src[g]))
      BY <1>10, <2>2, CountWritten
    <2>4. r \in Bytes
      BY <1>2, <2>1, <2>2, AfterBytes, Joined
    <2>5. a = own \o (c \o r)
      BY <1>5, <1>10, <2>3 DEF From
    <2> HIDE DEF own, c, r
    <2>6. wire \o own \in Bytes
      BY <1>3, <1>5, Joined
    <2>7. w \in Bytes
      BY <2>3, <2>6, Joined
    <2>8. w \o r = total
      <3> DEFINE x == wire \o own
                 y == c \o r
      <3>1. x \in Bytes /\ y \in Bytes
        BY <2>3, <2>4, <2>6, Joined
      <3>2. wire \o (own \o y) = x \o y
        <4> HIDE DEF y
        <4> QED BY <1>3, <1>5, <3>1, Regroup, ZenonT(60)
      <3>3. (x \o c) \o r = x \o (c \o r)
        <4> HIDE DEF x
        <4> QED BY <2>3, <2>4, <3>1, Regroup, SMTT(40)
      <3> QED BY <1>6, <2>5, <3>2, <3>3
    <2> HIDE DEF w
    <2>9. WriterAt(src, tail, total, w, g, 0)
      BY <1>8, <2>2, <2>8 DEF WriterAt, NoNulls, r
    <2> QED BY <1>1, <1>4, <1>7, <2>1, <2>7, <2>9, Place DEF Writing
  <1> QED BY <1>9, <1>10

\* The writer stops only at a null pointer.
LEMMA WriteNullInv ==
  ASSUME NEW tail \in Bytes, NEW total, Proper(src), Writing(src, tail, total, wire, wat, wi),
         NEW f \in Lists, WriteNull(f)
  PROVE  Writing(src, tail, total, wire', wat', wi')
  <1>1. wat = f /\ wat' = "crash" /\ wire' = wire /\ wi' = wi /\ wire \in Bytes /\ wi \in Nat
    BY DEF Writing, WriteNull
  <1>2. HasNull(src)
    <2>1. CASE wi < Len(src[f]) /\ NullElement(f, src[f][wi + 1])
      <3>1. wi + 1 \in 1 .. Len(src[f])
        <4>1. src[f] \in Seq(Pointers(f))
          BY Fields DEF Proper
        <4>2. Len(src[f]) \in Nat
          BY <4>1, LenProperties
        <4> QED BY <1>1, <2>1, <4>2
      <3> QED BY <2>1, <3>1 DEF HasNull
    <2>2. CASE NullOwn(src)
      BY <2>2 DEF HasNull
    <2> QED BY <2>1, <2>2 DEF WriteNull
  <1>3. Past(src.type, "crash") = {}
    BY DEF Past
  <1> QED BY <1>1, <1>2, <1>3, Place DEF Writing

\* serialize() is in no list once it has ended.
LEMMA SerializeFrom ==
  ASSUME Serialize
  PROVE  wat \in Lists \cup {"head"}
  BY DEF Serialize, WriteHead, WriteItem, WriteNext, WriteNull

\* So after every step of serialize().
LEMMA SerializeInv ==
  ASSUME NEW tail \in Bytes, NEW total, Proper(src), Writing(src, tail, total, wire, wat, wi),
         Serialize
  PROVE  Writing(src, tail, total, wire', wat', wi')
  BY WriteHeadInv, WriteItemInv, WriteNextInv, WriteNullInv DEF Serialize

-----------------------------------------------------------------------------
(***************************************************************************)
(* The reader, of whatever stream.                                         *)
(***************************************************************************)
Held(f, es) ==
  /\ es \in Seq(Pointers(f)) /\ Ordered(f, es)
  /\ \A i \in 1 .. Len(es) : es[i] # nullptr => ElementFits(f, es[i])
AllHeld(o) == \A f \in Lists : Held(f, o[f]) /\ Len(o[f]) <= Radix - 1

\* A new pset is ordered.
LEMMA EmptyHeld ==
  ASSUME NEW f \in Lists
  PROVE  Held(f, << >>) /\ Len(<< >>) = 0 /\ 0 <= Radix - 1
  <1>1. Len(<< >>) = 0 /\ << >> \in Seq(Pointers(f))
    BY EmptySeq
  <1> QED BY <1>1, RadixAssumption DEF Held, Ordered

\* A pset with one element is ordered, be that a null pointer.
LEMMA OneHeld ==
  ASSUME NEW f \in Lists, NEW e \in Pointers(f), e # nullptr => ElementFits(f, e)
  PROVE  Held(f, << e >>) /\ Len(<< e >>) = 1
  <1> DEFINE es == << e >>
  <1>1. es \in Seq(Pointers(f)) /\ Len(es) = 1 /\ es[1] = e
    OBVIOUS
  <1> HIDE DEF es
  <1>2. \A i \in 1 .. Len(es) : i = 1
    BY <1>1
  <1>3. Ordered(f, es)
    BY <1>1, <1>2 DEF Ordered
  <1>4. \A i \in 1 .. Len(es) : es[i] # nullptr => ElementFits(f, es[i])
    BY <1>1, <1>2
  <1>5. Held(f, es) /\ Len(es) = 1
    BY <1>1, <1>3, <1>4 DEF Held
  <1> QED BY <1>5 DEF es

\* If its first element is not null, none is.
LEMMA HeldSorted ==
  ASSUME NEW f \in Lists, NEW es \in Seq(Pointers(f)), Ordered(f, es), es[1] # nullptr
  PROVE  Sorted(f, es) /\ \A i \in 1 .. Len(es) : es[i] # nullptr
  <1>1. Len(es) \in Nat /\ (\A i \in 1 .. Len(es) : es[i] \in Pointers(f))
        /\ es = [i \in 1 .. Len(es) |-> es[i]]
    BY LenProperties, ElementOfSeq
  <1>2. \A i \in 1 .. Len(es) : es[i] # nullptr
    <2> TAKE i \in 1 .. Len(es)
    <2>1. CASE i = 1
      BY <2>1
    <2>2. CASE i # 1
      <3>1. 1 \in 1 .. i - 1
        BY <1>1, <2>2
      <3> QED BY <3>1 DEF Ordered
    <2> QED BY <2>1, <2>2
  <1>3. \A i \in 1 .. Len(es) : es[i] \in Member(f)
    BY <1>1, <1>2 DEF Pointers
  <1>4. es \in Seq(Member(f))
    BY <1>1, <1>3
  <1> QED BY <1>2, <1>4 DEF Sorted, Ordered

\* Inserting into a pset without null pointers keeps its order.
LEMMA InsertHeld ==
  ASSUME NEW f \in Lists, NEW es, Held(f, es), es[1] # nullptr,
         NEW e \in Pointers(f), e # nullptr, ElementFits(f, e)
  PROVE  Held(f, Insert(f, es, e)) /\ Len(Insert(f, es, e)) <= Len(es) + 1
  <1> DEFINE new == Insert(f, es, e)
  <1>1. e \in Member(f) /\ es \in Seq(Pointers(f))
    BY DEF Pointers, Held
  <1>2. Sorted(f, es) /\ \A i \in 1 .. Len(es) : es[i] # nullptr
    BY <1>1, HeldSorted DEF Held
  <1>3. /\ Sorted(f, new) /\ Len(new) <= Len(es) + 1
        /\ \A i \in 1 .. Len(new) : new[i] = e \/ \E j \in 1 .. Len(es) : new[i] = es[j]
    BY <1>1, <1>2, InsertSorted
  <1> HIDE DEF new
  <1>4. \A i \in 1 .. Len(new) : new[i] # nullptr /\ ElementFits(f, new[i])
    BY <1>2, <1>3 DEF Held
  <1>5. new \in Seq(Pointers(f))
    <2>1. new \in Seq(Member(f)) /\ Member(f) \subseteq Pointers(f)
      BY <1>3 DEF Sorted, Pointers
    <2> QED BY <2>1, SeqMonotonic
  <1>6. Ordered(f, new)
    <2>1. Len(new) \in Nat
      BY <1>5, LenProperties
    <2> SUFFICES ASSUME NEW i \in 1 .. Len(new), NEW j \in 1 .. i - 1
                 PROVE  new[i] # nullptr /\ new[j] # nullptr /\ Less(f, new[j], new[i])
      BY DEF Ordered
    <2>2. j \in 1 .. Len(new)
      BY <2>1
    <2> QED BY <1>3, <1>4, <2>2 DEF Sorted
  <1>7. Held(f, new)
    BY <1>4, <1>5, <1>6 DEF Held
  <1> QED BY <1>3, <1>7 DEF new

\* An output that was read up to list f, n elements of which are to come.
Filling(o, f, n) ==
  /\ IsOutput(o) /\ AllHeld(o) /\ Len(o[f]) + n <= Radix - 1
  /\ o.type = 3 => f # "immutable_features"
  /\ \A g \in Lists \ (Past(o.type, f) \cup {f}) : o[g] = << >>
  /\ IF f = "native_tokens" THEN o.own = << >> ELSE OwnSound(o)

\* An output that was read.
Built(o) ==
  IsOutput(o) /\ AllHeld(o) /\ OwnSound(o) /\ (o.type = 3 => o.immutable_features = << >>)

ReaderHolds(o, at, n) ==
  /\ n \in 0 .. Radix - 1 /\ at \in Places \cup {"idle", "crash"}
  /\ at \in Lists => Filling(o, at, n)
  /\ at = "crash" => IsOutput(o) /\ AllHeld(o) /\ (o.own = << >> \/ OwnSound(o))
  /\ at = "done" => o = nullptr \/ Built(o)

\* The count of a list is below Radix, whatever byte it is read from.
LEMMA CountRead ==
  ASSUME NEW s \in Bytes
  PROVE  ReadInt(s, 1).rest \in Bytes /\ ValueOf(ReadInt(s, 1).v) \in 0 .. Radix - 1
  <1>1. ReadInt(s, 1).v \in Word(1) /\ ReadInt(s, 1).rest \in Bytes
    BY IntRead
  <1>2. ValueOf(ReadInt(s, 1).v) \in Nat /\ Within(ValueOf(ReadInt(s, 1).v), 1)
    BY <1>1, ValueFits
  <1> QED BY <1>1, <1>2, RadixAssumption DEF Within

\* Whatever the stream, the head gives a null pointer or an output with empty
\* lists.
LEMMA ReadHeadInv ==
  ASSUME rest \in Bytes, ReaderHolds(dst, rat, left), ReadHead
  PROVE  rest' \in Bytes /\ ReaderHolds(dst', rat', left')
  <1> DEFINE kind == ReadInt(rest, 1)
             amount == ReadInt(kind.rest, 8)
             count == ReadInt(amount.rest, 1)
             o == [type |-> kind.v[1], amount |-> amount.v, native_tokens |-> << >>,
                   unlock_conditions |-> << >>, features |-> << >>,
                   immutable_features |-> << >>, own |-> << >>]
  <1>1. \/ /\ kind.v[1] \in OutputKinds /\ dst' = o /\ rest' = count.rest
           /\ left' = ValueOf(count.v) /\ rat' = "native_tokens"
        \/ dst' = nullptr /\ rest' = kind.rest /\ rat' = "done" /\ left' = left
    BY DEF ReadHead
  <1>2. kind.rest \in Bytes /\ left \in 0 .. Radix - 1
    BY KindRead DEF ReaderHolds
  <1>3. amount.v \in Word(8) /\ amount.rest \in Bytes
    BY <1>2, IntRead
  <1>4. count.rest \in Bytes /\ ValueOf(count.v) \in 0 .. Radix - 1
    BY <1>3, CountRead
  <1>5. ASSUME kind.v[1] \in OutputKinds
        PROVE  Filling(o, "native_tokens", ValueOf(count.v))
    <2> HIDE DEF kind, amount, count
    <2>1. IsOutput(o) /\ o.own = << >> /\ \A f \in Lists : o[f] = << >>
      BY <1>3, <1>5, FirstOutput
    <2> HIDE DEF o
    <2>2. AllHeld(o)
      BY <2>1, EmptyHeld DEF AllHeld
    <2>3. Len(o["native_tokens"]) = 0
      BY <2>1, EmptyHeld DEF Lists
    <2>4. 0 + ValueOf(count.v) <= Radix - 1
      BY <1>4, RadixAssumption
    <2> QED BY <2>1, <2>2, <2>3, <2>4 DEF Filling
  <1> HIDE DEF kind, amount, count, o
  <1>6. CASE /\ kind.v[1] \in OutputKinds /\ dst' = o /\ rest' = count.rest
             /\ left' = ValueOf(count.v) /\ rat' = "native_tokens"
    BY <1>4, <1>5, <1>6 DEF ReaderHolds, Places, Lists
  <1>7. CASE dst' = nullptr /\ rest' = kind.rest /\ rat' = "done" /\ left' = left
    BY <1>2, <1>7, Place DEF ReaderHolds
  <1> QED BY <1>1, <1>6, <1>7

\* An element more keeps every pset in order, and no longer than the counts
\* allow.
LEMMA ReadItemInv ==
  ASSUME rest \in Bytes, ReaderHolds(dst, rat, left), NEW f \in Lists, ReadItem(f)
  PROVE  rest' \in Bytes /\ ReaderHolds(dst', rat', left')
  <1>1. PICK junk \in Junk : /\ rest' = ReadElement(f, rest, junk).rest
                             /\ InsertElement(f, ReadElement(f, rest, junk).v)
    BY DEF ReadItem
  <1> DEFINE e == ReadElement(f, rest, junk).v
             es == dst[f]
             SetTo(new) == dst' = [dst EXCEPT ![f] = new]
  <1>2. /\ rat = f /\ left > 0 /\ left' = left - 1 /\ rest \in Bytes
        /\ left \in 0 .. Radix - 1 /\ Filling(dst, f, left)
    BY DEF ReadItem, ReaderHolds
  <1>3. e \in Pointers(f) /\ (e # nullptr => ElementFits(f, e)) /\ rest' \in Bytes
    BY <1>1, <1>2, ElementRead
  <1>4. /\ IsOutput(dst) /\ AllHeld(dst) /\ Held(f, es) /\ Len(es) + left <= Radix - 1
        /\ Len(es) \in Nat
    BY <1>2, LenProperties DEF Filling, AllHeld, Held
  <1>5. left' \in 0 .. Radix - 1
    BY <1>2, RadixAssumption
  <1>6. ASSUME NEW new, SetTo(new), Held(f, new), Len(new) <= Len(es) + 1, rat' = rat
        PROVE  ReaderHolds(dst', rat', left')
    <2>1. Len(new) \in Nat /\ Len(new) + left' <= Radix - 1 /\ Len(new) <= Radix - 1
      BY <1>2, <1>4, <1>5, <1>6, RadixAssumption, LenProperties DEF Held
    <2>2. /\ IsOutput(dst') /\ dst'.type = dst.type /\ dst'.own = dst.own
          /\ dst'[f] = new /\ \A g \in Lists \ {f} : dst'[g] = dst[g]
      <3>1. IsOutput(dst) /\ new \in Seq(Pointers(f))
        BY <1>4, <1>6 DEF Held
      <3>2. ListSet([dst EXCEPT ![f] = new], dst, f, new)
        BY <3>1, SetList
      <3>3. ListSet(dst', dst, f, new)
        BY <1>6, <3>2 DEF SetTo
      <3> QED BY <3>3 DEF ListSet
    <2>3. AllHeld(dst')
      BY <1>4, <1>6, <2>1, <2>2 DEF AllHeld
    <2>4. Filling(dst', f, left')
      BY <1>2, <2>1, <2>2, <2>3 DEF Filling, OwnSound, OwnFits
    <2> QED BY <1>2, <1>5, <1>6, <2>4, Place DEF ReaderHolds
  <1>7. \/ es = << >> /\ SetTo(<< e >>) /\ rat' = rat
        \/ es # << >> /\ e # nullptr /\ es[1] # nullptr /\ SetTo(Insert(f, es, e)) /\ rat' = rat
        \/ rat' = "crash" /\ dst' = dst
    BY <1>1 DEF InsertElement
  <1> HIDE DEF e, es, SetTo
  <1>8. CASE es = << >> /\ SetTo(<< e >>) /\ rat' = rat
    <2>1. Held(f, << e >>) /\ Len(<< e >>) = 1
      BY <1>3, OneHeld
    <2>2. Len(<< e >>) <= Len(es) + 1
      BY <1>4, <2>1
    <2> QED BY <1>3, <1>6, <1>8, <2>1, <2>2
  <1>9. CASE e # nullptr /\ es[1] # nullptr /\ SetTo(Insert(f, es, e)) /\ rat' = rat
    <2>1. Held(f, Insert(f, es, e)) /\ Len(Insert(f, es, e)) <= Len(es) + 1
      BY <1>3, <1>4, <1>9, InsertHeld
    <2> QED BY <1>3, <1>6, <1>9, <2>1
  <1>10. CASE rat' = "crash" /\ dst' = dst
    <2>1. dst.own = << >> \/ OwnSound(dst)
      BY <1>2 DEF Filling
    <2> QED BY <1>3, <1>4, <1>5, <1>10, <2>1, Place DEF ReaderHolds
  <1> QED BY <1>7, <1>8, <1>9, <1>10

\* Going to the next list keeps them, and the last one ends with an output that
\* can be written again.
LEMMA ReadNextInv ==
  ASSUME rest \in Bytes, ReaderHolds(dst, rat, left), NEW f \in Lists, ReadNext(f)
  PROVE  rest' \in Bytes /\ ReaderHolds(dst', rat', left') /\ (rat' = "done" => Built(dst'))
  <1> DEFINE Fields1(junk) == IF f = "native_tokens" THEN ReadOwn(dst.type, rest, junk)
                                                     ELSE Got(dst.own, rest)
  <1>1. PICK junk \in Junk :
          /\ dst' = [dst EXCEPT !.own = Fields1(junk).v]
          /\ \/ rat' = "done" /\ rest' = Fields1(junk).rest /\ left' = left
             \/ /\ rat' # "done" /\ rest' = ReadInt(Fields1(junk).rest, 1).rest
                /\ left' = ValueOf(ReadInt(Fields1(junk).rest, 1).v)
    BY DEF ReadNext
  <1> DEFINE own == Fields1(junk)
             g == NextList(dst.type, f)
             n == [dst EXCEPT !.own = own.v]
  <1>2. /\ rat = f /\ left = 0 /\ rat' = g /\ rest \in Bytes
        /\ left \in 0 .. Radix - 1 /\ Filling(dst, f, left)
    BY DEF ReadNext, ReaderHolds
  <1>3. /\ IsOutput(dst) /\ AllHeld(dst) /\ dst.type \in OutputKinds
        /\ dst.type = 3 => f # "immutable_features"
    BY <1>2, Fields DEF Filling
  <1>4. /\ own.v \in Own(dst.type) /\ own.rest \in Bytes
        /\ dst.type = 4 => Len(own.v.alias_id) = HashLen /\ Within(Len(own.v.state_metadata), 2)
        /\ dst.type = 6 => Len(own.v.nft_id) = HashLen
    <2>1. CASE f = "native_tokens"
      BY <1>2, <1>3, <2>1, OwnRead
    <2>2. CASE f # "native_tokens"
      BY <1>2, <2>2 DEF Got, Filling, OwnSound, OwnFits
    <2> QED BY <2>1, <2>2
  <1>5. /\ IsOutput(n) /\ n.type = dst.type /\ n.own = own.v /\ \A h \in Lists : n[h] = dst[h]
    <2> HIDE DEF own
    <2> QED BY <1>3, <1>4, SetOwn
  <1> HIDE DEF own, n, Fields1
  <1>6. AllHeld(n) /\ OwnSound(n)
    BY <1>3, <1>4, <1>5 DEF AllHeld, OwnSound, OwnFits
  <1>7. dst' = n /\ own.rest \in Bytes
    BY <1>1, <1>4 DEF own, n
  <1>8. \A h \in Lists \ (Past(dst.type, f) \cup {f}) : n[h] = << >>
    BY <1>2, <1>5 DEF Filling
  <1>9. /\ g \in Lists \cup {"done"} /\ Past(dst.type, g) = Past(dst.type, f) \cup {f}
        /\ g \in Lists => g \notin Past(dst.type, g) /\ g # "native_tokens"
        /\ dst.type = 3 => g # "immutable_features"
    BY <1>3, PastNext
  <1> HIDE DEF g
  <1>10. CASE g = "done"
    <2>1. rest' = own.rest /\ left' = left
      BY <1>1, <1>2, <1>10 DEF own
    <2>2. dst.type = 3 => n.immutable_features = << >>
      <3>1. dst.type = 3 => "immutable_features" \in Lists \ (Past(dst.type, f) \cup {f})
        BY <1>9, <1>10 DEF Past, Lists
      <3> QED BY <1>8, <3>1
    <2>3. Built(n)
      BY <1>5, <1>6, <2>2 DEF Built
    <2> QED BY <1>2, <1>7, <1>10, <2>1, <2>3, Place DEF ReaderHolds
  <1>11. CASE g # "done"
    <2>1. /\ rest' = ReadInt(own.rest, 1).rest /\ left' = ValueOf(ReadInt(own.rest, 1).v)
          /\ g \in Lists
      BY <1>1, <1>2, <1>9, <1>11 DEF own
    <2>2. rest' \in Bytes /\ left' \in 0 .. Radix - 1
      BY <1>7, <2>1, CountRead
    <2>3. n[g] = << >>
      BY <1>8, <1>9, <2>1
    <2>4. Len(n[g]) + left' <= Radix - 1
      BY <2>1, <2>2, <2>3, EmptyHeld, RadixAssumption
    <2>5. \A h \in Lists \ (Past(n.type, g) \cup {g}) : n[h] = << >>
      BY <1>5, <1>8, <1>9
    <2>6. Filling(n, g, left')
      BY <1>5, <1>6, <1>9, <2>1, <2>4, <2>5 DEF Filling
    <2> QED BY <1>2, <1>7, <2>1, <2>2, <2>6, Place DEF ReaderHolds
  <1> QED BY <1>10, <1>11

\* from_ is in no list before it is called, nor once it has ended.
LEMMA DeserializeFrom ==
  ASSUME Deserialize
  PROVE  rat \in Lists \cup {"head"} /\ rat' \notin {"idle", "head"}
  <1>1. CASE ReadHead
    BY <1>1 DEF ReadHead
  <1>2. ASSUME NEW f \in Lists, ReadItem(f)
        PROVE  rat \in Lists \cup {"head"} /\ rat' \notin {"idle", "head"}
    BY <1>2, Place DEF ReadItem, InsertElement
  <1>3. ASSUME NEW f \in Lists, ReadNext(f)
        PROVE  rat \in Lists \cup {"head"} /\ rat' \notin {"idle", "head"}
    BY <1>3 DEF ReadNext, NextList, Lists
  <1> QED BY <1>1, <1>2, <1>3 DEF Deserialize

\* So does every step of from_.
LEMMA DeserializeInv ==
  ASSUME rest \in Bytes, ReaderHolds(dst, rat, left), Deserialize
  PROVE  rest' \in Bytes /\ ReaderHolds(dst', rat', left')
  BY ReadHeadInv, ReadItemInv, ReadNextInv DEF Deserialize

-----------------------------------------------------------------------------
(***************************************************************************)
(* The reader, of the bytes of an output that fits.                        *)
(***************************************************************************)
\* The first k elements of an ordered list with the next one inserted are its
\* first k + 1: reading in the order of writing never drops and never moves an
\* element.
LEMMA Grown ==
  ASSUME NEW f \in Lists, NEW set \in Seq(Pointers(f)), Ordered(f, set),
         \A i \in 1 .. Len(set) : set[i] # nullptr, NEW k \in 0 .. Len(set) - 1
  PROVE  LET p == SubSeq(set, 1, k)
             q == SubSeq(set, 1, k + 1)
         IN  /\ k = 0 => << set[k + 1] >> = q
             /\ Insert(f, p, set[k + 1]) = q
             /\ p = << >> => k = 0
             /\ p # << >> => p[1] # nullptr
  <1> DEFINE S == Member(f)
             n == Len(set)
             e == set[k + 1]
             p == SubSeq(set, 1, k)
             q == SubSeq(set, 1, k + 1)
  <1>1. n \in Nat /\ k \in Nat /\ k + 1 \in 1 .. n /\ \A i \in 1 .. n : set[i] \in S
    <2>1. n \in Nat /\ \A i \in 1 .. n : set[i] \in Pointers(f)
      BY LenProperties, ElementOfSeq
    <2> QED BY <2>1 DEF Pointers
  <1>2. e \in S /\ e # nullptr
    BY <1>1
  <1>3. p \in Seq(S) /\ Len(p) = k /\ \A i \in 1 .. k : p[i] = set[i]
    <2>1. \A i \in 1 .. k : set[i] \in S
      BY <1>1
    <2>2. /\ p \in Seq(S) /\ Len(p) = (IF 1 <= k THEN k - 1 + 1 ELSE 0)
          /\ \A i \in 1 .. k - 1 + 1 : p[i] = set[1 + i - 1]
      <3> HIDE DEF S
      <3> QED BY <1>1, <2>1, SubSeqProperties
    <2> HIDE DEF p
    <2> QED BY <1>1, <2>2
  <1>4. q \in Seq(S) /\ Len(q) = k + 1 /\ \A i \in 1 .. k + 1 : q[i] = set[i]
    <2>1. \A i \in 1 .. k + 1 : set[i] \in S
      BY <1>1
    <2>2. /\ q \in Seq(S) /\ Len(q) = (IF 1 <= k + 1 THEN (k + 1) - 1 + 1 ELSE 0)
          /\ \A i \in 1 .. (k + 1) - 1 + 1 : q[i] = set[1 + i - 1]
      <3> HIDE DEF S
      <3> QED BY <1>1, <2>1, SubSeqProperties
    <2> HIDE DEF q
    <2> QED BY <1>1, <2>2
  <1> HIDE DEF S, n, p, q
  <1>5. \A i \in 1 .. n : \A j \in 1 .. i - 1 : Less(f, set[j], set[i])
    BY DEF Ordered, n
  <1>6. Sorted(f, p)
    <2> SUFFICES ASSUME NEW i \in 1 .. k, NEW j \in 1 .. i - 1
                 PROVE  Less(f, p[j], p[i])
      BY <1>3 DEF Sorted, S
    <2>1. i \in 1 .. n /\ j \in 1 .. k
      BY <1>1
    <2> QED BY <1>3, <1>5, <2>1
  <1>7. \A i \in 1 .. Len(p) : Less(f, p[i], e)
    <2> SUFFICES ASSUME NEW i \in 1 .. k PROVE Less(f, p[i], e)
      BY <1>3
    <2>1. i \in 1 .. (k + 1) - 1
      BY <1>1
    <2> QED BY <1>1, <1>3, <1>5, <2>1
  <1> HIDE DEF e
  <1>8. Insert(f, p, e) = Put(p, k, e)
    BY <1>2, <1>3, <1>6, <1>7, InsertLast DEF S
  <1>9. Put(p, k, e) = q
    <2> DEFINE put == Put(p, k, e)
    <2>1. IsPut(put, S, p, k, e)
      <3>1. k \in 0 .. Len(p)
        BY <1>1, <1>3
      <3> QED BY <1>2, <1>3, <3>1, PutIs
    <2> HIDE DEF put
    <2>2. /\ put \in Seq(S) /\ Len(put) = k + 1 /\ put[k + 1] = e
          /\ \A i \in 1 .. k : put[i] = p[i]
      BY <1>3, <2>1 DEF IsPut
    <2>3. \A i \in 1 .. Len(put) : put[i] = q[i]
      <3> SUFFICES ASSUME NEW i \in 1 .. k + 1 PROVE put[i] = q[i]
        BY <2>2
      <3>1. CASE i = k + 1
        BY <1>4, <2>2, <3>1 DEF e
      <3>2. CASE i \in 1 .. k
        BY <1>3, <1>4, <2>2, <3>2
      <3> QED BY <1>1, <3>1, <3>2
    <2>4. put = q
      BY <1>4, <2>2, <2>3, SeqEqual
    <2> QED BY <2>4 DEF put
  <1>10. k = 0 => << e >> = q
    <2> SUFFICES ASSUME k = 0 PROVE << e >> = q
      OBVIOUS
    <2> DEFINE r == << e >>
    <2>1. r \in Seq(S) /\ Len(r) = 1 /\ r[1] = e
      BY <1>2
    <2> HIDE DEF r
    <2>2. Len(r) = Len(q) /\ \A i \in 1 .. Len(r) : r[i] = q[i]
      BY <1>4, <2>1 DEF e
    <2>3. r = q
      BY <1>4, <2>1, <2>2, SeqEqual
    <2> QED BY <2>3 DEF r
  <1>11. /\ p = << >> => k = 0
         /\ p # << >> => p[1] # nullptr
    <2>1. p = << >> => k = 0
      <3>1. Len(<< >>) = 0
        OBVIOUS
      <3> QED BY <1>3, <3>1
    <2>2. p # << >> => k # 0
      BY <1>3, EmptySeq
    <2>3. k # 0 => 1 \in 1 .. k /\ 1 \in 1 .. n
      BY <1>1
    <2>4. k # 0 => p[1] = set[1] /\ set[1] # nullptr
      BY <1>3, <2>3 DEF n
    <2> QED BY <2>1, <2>2, <2>4
  <1> QED BY <1>8, <1>9, <1>10, <1>11 DEF e, p, q

\* No null pointer stopped the writer of an output.
Complete(o) == ~ NullOwn(o) /\ \A f \in Past(o.type, "done") : NoNulls(o, f, Len(o[f]))

\* What is known of an output that fits once it is written.
Sound(o) ==
  /\ Proper(o) /\ OwnSound(o) /\ ~ NullOwn(o) /\ (o.type = 3 => o.immutable_features = << >>)
  /\ \A f \in Lists :
       /\ o[f] \in Seq(Pointers(f)) /\ Len(o[f]) \in 0 .. Radix - 1
       /\ \A i \in 1 .. Len(o[f]) : ~ NullElement(f, o[f][i]) /\ ElementFits(f, o[f][i])

\* An output that fits and was written to the end has no null pointer in any
\* list.
LEMMA SoundWritten ==
  ASSUME NEW o, Proper(o), Complete(o), Fits(o)
  PROVE  Sound(o)
  <1>1. Proper(o) /\ IsOutput(o) /\ o.type \in OutputKinds /\ o.own \in Own(o.type)
        /\ \A f \in Lists : o[f] \in Seq(Pointers(f))
    BY Fields DEF Proper
  <1>2. OwnSound(o) /\ (o.type = 3 => o.immutable_features = << >>)
    BY <1>1 DEF Fits, OwnSound
  <1>3. ~ NullOwn(o) /\ \A f \in Past(o.type, "done") : NoNulls(o, f, Len(o[f]))
    BY DEF Complete
  <1>4. ASSUME NEW f \in Lists
        PROVE  /\ Len(o[f]) \in 0 .. Radix - 1
               /\ \A i \in 1 .. Len(o[f]) :
                    ~ NullElement(f, o[f][i]) /\ ElementFits(f, o[f][i])
    <2>1. Len(o[f]) \in Nat /\ Len(o[f]) < Radix
      <3>1. Within(Len(o[f]), 1)
        BY DEF Fits
      <3> QED BY <1>1, <3>1, LenProperties DEF Within
    <2>2. NoNulls(o, f, Len(o[f]))
      <3>1. CASE f \in Past(o.type, "done")
        BY <1>3, <3>1
      <3>2. CASE f \notin Past(o.type, "done")
        <4>1. o.type = 3 /\ f = "immutable_features"
          BY <3>2 DEF Past, Lists
        <4>2. Len(o[f]) = 0
          BY <1>2, <4>1, EmptySeq
        <4> QED BY <4>2 DEF NoNulls
      <3> QED BY <3>1, <3>2
    <2>3. \A i \in 1 .. Len(o[f]) : ElementFits(f, o[f][i])
      BY DEF Fits
    <2>4. Len(o[f]) \in 0 .. Radix - 1
      BY <2>1, RadixAssumption
    <2> QED BY <2>2, <2>3, <2>4 DEF NoNulls
  <1> QED BY <1>1, <1>2, <1>3, <1>4 DEF Sound

\* What the reader holds of an output o whose bytes it reads, with a
\* tail after them.
Copied(o, tail, r, at, n, d) ==
  /\ at # "crash"
  /\ at = "head" => r = Text(o, tail)
  /\ at \in Lists =>
       /\ n <= Len(o[at]) /\ r = Remains(at, o[at])[Len(o[at]) - n] \o After(o, at, tail)
       /\ d.type = o.type /\ d.amount = o.amount
       /\ d[at] = SubSeq(o[at], 1, Len(o[at]) - n)
       /\ \A g \in Past(o.type, at) : d[g] = o[g]
       /\ at # "native_tokens" => d.own = o.own
  /\ at = "done" => d = o /\ r = tail

\* The count in front of a list is read as its length, and the list follows.
LEMMA FirstRemains ==
  ASSUME NEW o, Sound(o), NEW f \in Lists, NEW tail \in Bytes
  PROVE  /\ Remains(f, o[f])[0] \in Bytes /\ After(o, f, tail) \in Bytes
         /\ ReadInt(From(o, f, After(o, f, tail)), 1).rest = Remains(f, o[f])[0] \o After(o, f, tail)
         /\ ValueOf(ReadInt(From(o, f, After(o, f, tail)), 1).v) = Len(o[f])
  <1> DEFINE n == Len(o[f])
             c == quint8(n)
             r == Remains(f, o[f])[0] \o After(o, f, tail)
             z == From(o, f, After(o, f, tail))
  <1>1. Proper(o) /\ o[f] \in Seq(Pointers(f)) /\ n \in 0 .. Radix - 1
    BY DEF Sound
  <1>2. n \in Nat /\ n < Radix
    BY <1>1, RadixAssumption
  <1>3. Remains(f, o[f])[0] \in Bytes
    <2>1. \A i \in 0 .. n : Remains(f, o[f])[i] \in Bytes
      BY <1>1, RemainsAre
    <2>2. 0 \in 0 .. n
      BY <1>2
    <2> QED BY <2>1, <2>2
  <1>4. After(o, f, tail) \in Bytes
    BY <1>1, AfterBytes
  <1>5. c \in Word(1) /\ c \in Bytes /\ ValueOf(c) = n
    BY <1>2, CountWritten
  <1>6. r \in Bytes
    BY <1>3, <1>4, Joined
  <1>7. Follows(z, c, r)
    BY <1>5, <1>6 DEF Follows, From
  <1> HIDE DEF c, r, z
  <1>8. ReadInt(z, 1).v = c /\ ReadInt(z, 1).rest = r
    BY <1>5, <1>7, IntBack
  <1> QED BY <1>3, <1>4, <1>5, <1>8 DEF r, z

\* The steps of from_ on some bytes, after which others are left.
HeadFrom(bytes, after) ==
  LET kind   == ReadInt(bytes, 1)
      amount == ReadInt(kind.rest, 8)
      count  == ReadInt(amount.rest, 1)
  IN  \/ /\ kind.v[1] \in OutputKinds
         /\ dst' = [type |-> kind.v[1], amount |-> amount.v, native_tokens |-> << >>,
                    unlock_conditions |-> << >>, features |-> << >>,
                    immutable_features |-> << >>, own |-> << >>]
         /\ after = count.rest
         /\ left' = ValueOf(count.v)
         /\ rat' = "native_tokens"
      \/ kind.v[1] \notin OutputKinds /\ dst' = nullptr /\ after = kind.rest /\ rat' = "done"
ItemFrom(f, bytes, after) ==
  /\ rat = f /\ left > 0 /\ left' = left - 1
  /\ \E junk \in Junk : /\ after = ReadElement(f, bytes, junk).rest
                         /\ InsertElement(f, ReadElement(f, bytes, junk).v)
OwnFrom(f, bytes, junk) ==
  IF f = "native_tokens" THEN ReadOwn(dst.type, bytes, junk) ELSE Got(dst.own, bytes)
NextFrom(f, bytes, after) ==
  /\ rat = f /\ left = 0 /\ rat' = NextList(dst.type, f)
  /\ \E junk \in Junk :
       LET own == OwnFrom(f, bytes, junk)
       IN  /\ dst' = [dst EXCEPT !.own = own.v]
           /\ \/ rat' = "done" /\ after = own.rest /\ left' = left
              \/ /\ rat' # "done" /\ after = ReadInt(own.rest, 1).rest
                 /\ left' = ValueOf(ReadInt(own.rest, 1).v)

\* They are the steps of from_ on what it has still to read.
LEMMA StepsFrom ==
  /\ ReadHead => HeadFrom(rest, rest')
  /\ \A f \in Lists : /\ ReadItem(f) => ItemFrom(f, rest, rest')
                      /\ ReadNext(f) => NextFrom(f, rest, rest')
  <1>1. ReadHead => HeadFrom(rest, rest')
    BY DEF ReadHead, HeadFrom
  <1>2. ASSUME NEW f \in Lists, ReadItem(f) PROVE ItemFrom(f, rest, rest')
    BY <1>2 DEF ReadItem, ItemFrom
  <1>3. ASSUME NEW f \in Lists, ReadNext(f) PROVE NextFrom(f, rest, rest')
    BY <1>3 DEF ReadNext, NextFrom, OwnFrom
  <1> QED BY <1>1, <1>2, <1>3

\* The kind, the amount and the first count stand in front.
LEMMA HeadHere ==
  ASSUME NEW source, Proper(source), NEW tail \in Bytes
  PROVE  LET kind == ReadInt(Text(source, tail), 1)
             amount == ReadInt(kind.rest, 8)
         IN  /\ kind.v = << source.type >> /\ kind.v[1] = source.type /\ source.type \in OutputKinds
             /\ amount.v = source.amount
             /\ amount.rest = From(source, "native_tokens", After(source, "native_tokens", tail))
             /\ Text(source, tail) \in Bytes /\ kind.rest \in Bytes /\ amount.rest \in Bytes
  <1> DEFINE f == "native_tokens"
             t == << source.type >>
             a == source.amount
             s == From(source, f, After(source, f, tail))
             bytes == Text(source, tail)
             kind == ReadInt(bytes, 1)
             amount == ReadInt(kind.rest, 8)
  <1>2. IsOutput(source) /\ source.type \in OutputKinds /\ a \in Word(8) /\ f \in Lists
    BY Fields DEF Proper, Lists
  <1>3. t \in Word(1) /\ t \in Bytes /\ t[1] = source.type /\ a \in Bytes
    <2>1. source.type \in 0 .. 16
      BY <1>2 DEF OutputKinds
    <2>2. t \in Word(1) /\ t \in Bytes
      BY <2>1, Kind
    <2>3. a \in Bytes
      BY <1>2, WordIsBytes
    <2> QED BY <2>2, <2>3
  <1>4. s \in Bytes
    BY <1>2, AfterBytes, FromBytes
  <1>5. bytes = (t \o a) \o s
    BY DEF Text, After
  <1> DEFINE body == a \o s
  <1> HIDE DEF t, a, s, bytes
  <1>7. Follows(bytes, t, body) /\ Follows(body, a, s)
    BY <1>3, <1>4, <1>5, Two
  <1> HIDE DEF body
  <1>8. kind.v = t /\ kind.rest = body
    <2>1. t \in Word(1) /\ Follows(bytes, t, body)
      BY <1>3, <1>7
    <2>2. ReadInt(bytes, 1).v = t /\ ReadInt(bytes, 1).rest = body
      BY ONLY <2>1, IntBack
    <2> QED BY <2>2
  <1>9. amount.v = a /\ amount.rest = s
    <2>1. a \in Word(8) /\ Follows(body, a, s)
      BY <1>2, <1>7
    <2>2. ReadInt(body, 8).v = a /\ ReadInt(body, 8).rest = s
      BY ONLY <2>1, IntBack
    <2> QED BY <1>8, <2>2
  <1>10. bytes \in Bytes /\ body \in Bytes
    BY <1>2, <1>7, <1>8, AfterBytes, IntRead DEF Follows, bytes
  <1> QED BY <1>2, <1>3, <1>4, <1>8, <1>9, <1>10 DEF t, a, s, bytes

\* The head of an output is read as it was written.
LEMMA ReadHeadCopy ==
  ASSUME NEW source, Sound(source), NEW tail \in Bytes,
         NEW bytes, NEW after, bytes = Text(source, tail), HeadFrom(bytes, after)
  PROVE  Copied(source, tail, after, rat', left', dst')
  <1> DEFINE f == "native_tokens"
             a == source.amount
             s == From(source, f, After(source, f, tail))
             kind == ReadInt(bytes, 1)
             amount == ReadInt(kind.rest, 8)
             count == ReadInt(amount.rest, 1)
             o == [type |-> kind.v[1], amount |-> amount.v, native_tokens |-> << >>,
                   unlock_conditions |-> << >>, features |-> << >>,
                   immutable_features |-> << >>, own |-> << >>]
  <1>1. \/ /\ kind.v[1] \in OutputKinds /\ dst' = o /\ after = count.rest
           /\ left' = ValueOf(count.v) /\ rat' = "native_tokens"
        \/ kind.v[1] \notin OutputKinds /\ dst' = nullptr /\ after = kind.rest /\ rat' = "done"
    BY DEF HeadFrom
  <1>2. Proper(source) /\ IsOutput(source) /\ source.type \in OutputKinds /\ a \in Word(8) /\ f \in Lists
    BY Fields DEF Sound, Proper, Lists
  <1>3. kind.v = << source.type >> /\ kind.v[1] = source.type /\ amount.v = a /\ amount.rest = s
    BY HeadHere DEF Sound
  <1>6. After(source, f, tail) \in Bytes /\ Remains(f, source[f])[0] \in Bytes
        /\ ReadInt(s, 1).rest = Remains(f, source[f])[0] \o After(source, f, tail)
        /\ ValueOf(ReadInt(s, 1).v) = Len(source[f])
    BY <1>2, FirstRemains
  <1> HIDE DEF a, s, kind, amount
  <1>10. dst' = o /\ after = ReadInt(s, 1).rest /\ left' = ValueOf(ReadInt(s, 1).v) /\ rat' = f
    BY <1>1, <1>2, <1>3
  <1>11. o.type = source.type /\ o.amount = source.amount /\ o[f] = << >>
    BY <1>3 DEF a
  <1> HIDE DEF o
  <1>12. /\ Len(source[f]) \in Nat
         /\ Len(source[f]) - Len(source[f]) = 0 /\ SubSeq(source[f], 1, 0) = << >>
    <2>1. Len(source[f]) \in Nat
      BY <1>2, Fields, LenProperties
    <2> QED BY <2>1, SubSeqEmpty
  <1>13. Past(source.type, f) = {}
    BY DEF Past
  <1> HIDE DEF f
  <1> HIDE DEF s
  <1>14. /\ left' = Len(source[f]) /\ after = Remains(f, source[f])[0] \o After(source, f, tail)
         /\ dst'.type = source.type /\ dst'.amount = source.amount /\ dst'[f] = << >> /\ rat' = f
    BY <1>6, <1>10, <1>11
  <1>15. /\ left' <= Len(source[f]) /\ Len(source[f]) - left' = 0 /\ f \in Lists
         /\ \A g \in Past(source.type, f) : dst'[g] = source[g]
    BY <1>2, <1>12, <1>13, <1>14
  <1>16. f \notin {"crash", "head", "done"} /\ ~ (f # "native_tokens")
    BY DEF f
  <1> QED BY <1>12, <1>14, <1>15, <1>16 DEF Copied

\* The element that comes next is the one that was written there.
LEMMA ElementHere ==
  ASSUME NEW source, Sound(source), NEW tail \in Bytes, NEW f \in Lists,
         NEW n \in Nat, 0 < n, n <= Len(source[f]), NEW junk \in Junk
  PROVE  LET k == Len(source[f]) - n
             e == source[f][k + 1]
             a == After(source, f, tail)
         IN  /\ ReadElement(f, Remains(f, source[f])[k] \o a, junk) = Got(e, Remains(f, source[f])[k + 1] \o a)
             /\ k \in 0 .. Len(source[f]) - 1 /\ e \in Pointers(f) /\ ~ NullElement(f, e)
  <1> DEFINE set == source[f]
             m == Len(set)
             k == m - n
             e == set[k + 1]
             w == WriteElement(f, e)
             q == Remains(f, set)[k + 1]
             a == After(source, f, tail)
  <1>3. /\ Proper(source) /\ set \in Seq(Pointers(f))
        /\ \A i \in 1 .. m : ~ NullElement(f, set[i]) /\ ElementFits(f, set[i])
    BY Fields DEF Sound, Proper
  <1>4. m \in Nat /\ k \in 0 .. m - 1 /\ k + 1 \in 1 .. m /\ k + 1 \in 0 .. m
    BY <1>3, LenProperties
  <1>6. e \in Pointers(f) /\ ~ NullElement(f, e) /\ ElementFits(f, e) /\ e # nullptr
    BY <1>3, <1>4, ElementOfSeq DEF NullElement
  <1>7. /\ \A i \in 0 .. m : Remains(f, set)[i] \in Bytes
        /\ Remains(f, set)[k] = w \o q
    BY <1>3, <1>4, <1>6, RemainsAre
  <1>8. w \in Bytes /\ q \in Bytes /\ a \in Bytes
    BY <1>3, <1>4, <1>6, <1>7, ElementWritten, AfterBytes
  <1> DEFINE r == q \o a
  <1>9. Remains(f, set)[k] \o a = w \o r /\ r \in Bytes
    <2> HIDE DEF w, q, a
    <2>1. (w \o q) \o a = w \o (q \o a)
      BY <1>8, Regroup
    <2>2. q \o a \in Bytes
      BY <1>8, Joined
    <2> QED BY <1>7, <2>1, <2>2
  <1> HIDE DEF r, e
  <1>10. ReadElement(f, w \o r, junk) = Got(e, r)
    BY <1>6, <1>9, ElementBack
  <1> QED BY <1>4, <1>6, <1>9, <1>10 DEF r, e

\* The copy grows by the next element of the source, and the reader stands
\* before the one after it.
LEMMA ReadItemCopy ==
  ASSUME NEW source, Sound(source), NEW tail \in Bytes, NEW f \in Lists, NEW bytes, NEW after,
         Copied(source, tail, bytes, rat, left, dst),
         Filling(dst, f, left), left \in Nat, ItemFrom(f, bytes, after)
  PROVE  Copied(source, tail, after, rat', left', dst')
  <1> DEFINE set == source[f]
             n == Len(set)
             k == n - left
             e == set[k + 1]
             q == Remains(f, set)[k + 1]
             a == After(source, f, tail)
             p == SubSeq(set, 1, k)
  <1>1. /\ rat = f /\ left > 0 /\ left' = left - 1
        /\ left <= n /\ bytes = Remains(f, set)[k] \o a
        /\ dst.type = source.type /\ dst.amount = source.amount /\ dst[f] = p
        /\ \A g \in Past(source.type, f) : dst[g] = source[g]
        /\ f # "native_tokens" => dst.own = source.own
    BY DEF ItemFrom, Copied
  <1>2. PICK junk \in Junk : /\ after = ReadElement(f, bytes, junk).rest
                             /\ InsertElement(f, ReadElement(f, bytes, junk).v)
    BY DEF ItemFrom
  <1>3. /\ Proper(source) /\ set \in Seq(Pointers(f)) /\ Ordered(f, set) /\ source.type \in OutputKinds
        /\ \A i \in 1 .. n : ~ NullElement(f, set[i]) /\ ElementFits(f, set[i])
    BY Fields DEF Sound, Proper
  <1>4. n \in Nat /\ k \in 0 .. n - 1 /\ k + 1 \in 1 .. n /\ k + 1 \in 0 .. n
    BY <1>1, <1>3, LenProperties
  <1>5. \A i \in 1 .. n : set[i] # nullptr
    BY <1>3 DEF NullElement
  <1>6. e \in Pointers(f) /\ ~ NullElement(f, e) /\ e # nullptr
    BY <1>3, <1>4, <1>5, ElementOfSeq
  <1>10. ReadElement(f, bytes, junk) = Got(e, q \o a)
    BY <1>1, ElementHere
  <1>11. /\ k = 0 => << e >> = SubSeq(set, 1, k + 1)
         /\ Insert(f, p, e) = SubSeq(set, 1, k + 1)
         /\ p = << >> => k = 0
         /\ p # << >> => p[1] # nullptr
    <2> HIDE DEF k, n
    <2> QED BY <1>3, <1>4, <1>5, Grown DEF n
  <1> HIDE DEF p, e, q, a
  <1>12. after = q \o a /\ InsertElement(f, e)
    BY <1>2, <1>10 DEF Got
  <1>13. dst' = [dst EXCEPT ![f] = SubSeq(set, 1, k + 1)] /\ rat' = rat
    <2>1. \/ p = << >> /\ dst' = [dst EXCEPT ![f] = << e >>] /\ rat' = rat
          \/ /\ p # << >> /\ e # nullptr /\ p[1] # nullptr
             /\ dst' = [dst EXCEPT ![f] = Insert(f, @, e)] /\ rat' = rat
          \/ p # << >> /\ (e = nullptr \/ p[1] = nullptr)
      BY <1>1, <1>12 DEF InsertElement
    <2>2. [dst EXCEPT ![f] = Insert(f, @, e)] = [dst EXCEPT ![f] = Insert(f, p, e)]
      BY <1>1
    <2> QED BY <1>6, <1>11, <2>1, <2>2
  <1> DEFINE new == SubSeq(set, 1, k + 1)
  <1>14. new \in Seq(Pointers(f))
    <2>1. \A i \in 1 .. k + 1 : set[i] \in Pointers(f)
      BY <1>3, <1>4, ElementOfSeq
    <2>2. 1 \in Int /\ k + 1 \in Int
      BY <1>4
    <2> HIDE DEF k
    <2> QED BY <2>1, <2>2, SubSeqProperties
  <1>15. dst' = [dst EXCEPT ![f] = new]
    BY <1>13
  <1> HIDE DEF new
  <1>16. ListSet(dst', dst, f, new)
    <2>1. IsOutput(dst)
      BY DEF Filling
    <2>2. ListSet([dst EXCEPT ![f] = new], dst, f, new)
      BY <1>14, <2>1, SetList
    <2> QED BY <1>15, <2>2
  <1>17. n - left' = k + 1 /\ left' <= n
    BY <1>1, <1>4
  <1>18. f \notin Past(source.type, f) /\ Past(source.type, f) \subseteq Lists
    <2>1. source.type = 3 => f # "immutable_features"
      BY <1>1 DEF Filling
    <2> QED BY <1>3, <2>1, PastNext
  <1>19. \A g \in Past(source.type, f) : dst'[g] = source[g]
    BY <1>1, <1>16, <1>18 DEF ListSet
  <1>20. after = Remains(f, set)[n - left'] \o After(source, f, tail)
    BY <1>12, <1>17 DEF q, a
  <1>21. dst'[f] = SubSeq(set, 1, n - left')
    BY <1>16, <1>17 DEF new, ListSet
  <1>22. dst'.type = source.type /\ dst'.amount = source.amount /\ (f # "native_tokens" => dst'.own = source.own)
    BY <1>1, <1>16 DEF ListSet
  <1>23. rat' = f
    BY <1>1, <1>13
  <1> HIDE DEF k
  <1> QED BY <1>17, <1>19, <1>20, <1>21, <1>22, <1>23, Place DEF Copied, n, set

\* The fields of the class are the ones that were written.
LEMMA OwnHere ==
  ASSUME NEW source, Sound(source), NEW tail \in Bytes, NEW junk \in Junk
  PROVE  ReadOwn(source.type, After(source, "native_tokens", tail), junk).v = source.own
  <1> DEFINE s == From(source, "unlock_conditions", After(source, "unlock_conditions", tail))
  <1>1. Proper(source) /\ source.type \in OutputKinds /\ OwnSound(source) /\ ~ NullOwn(source)
    BY Fields DEF Sound, Proper
  <1>2. s \in Bytes
    <2>1. IsOutput(source) /\ "unlock_conditions" \in Lists
      BY <1>1 DEF Proper, Lists
    <2>2. After(source, "unlock_conditions", tail) \in Bytes
      BY <1>1, <2>1, AfterBytes
    <2> QED BY <2>1, <2>2, FromBytes
  <1>3. After(source, "native_tokens", tail) = WriteOwn(source) \o s
    BY <1>1 DEF After, AfterTokens, OwnBytes
  <1> HIDE DEF s
  <1>4. ReadOwn(source.type, WriteOwn(source) \o s, junk) = Got(source.own, s)
    BY <1>1, <1>2, OwnBack
  <1>5. ReadOwn(source.type, After(source, "native_tokens", tail), junk) = Got(source.own, s)
    BY <1>3, <1>4
  <1> QED BY <1>5 DEF Got

\* The fields of the class are read as they were written and the next list
\* begins; after the last the copy is the source.
LEMMA ReadNextCopy ==
  ASSUME NEW source, Sound(source), NEW tail \in Bytes, NEW f \in Lists, NEW bytes, NEW after,
         Copied(source, tail, bytes, rat, left, dst),
         Filling(dst, f, left), NextFrom(f, bytes, after)
  PROVE  Copied(source, tail, after, rat', left', dst')
  <1> DEFINE Class(junk) == IF f = "native_tokens" THEN ReadOwn(dst.type, bytes, junk)
                                                   ELSE Got(dst.own, bytes)
             g == NextList(source.type, f)
             n == Len(source[f])
             u == IF g = "done" THEN tail ELSE From(source, g, After(source, g, tail))
  <1>1. /\ rat = f /\ left = 0 /\ rat' = g
        /\ bytes = Remains(f, source[f])[n - 0] \o After(source, f, tail)
        /\ dst.type = source.type /\ dst.amount = source.amount /\ dst[f] = SubSeq(source[f], 1, n - 0)
        /\ \A h \in Past(source.type, f) : dst[h] = source[h]
        /\ f # "native_tokens" => dst.own = source.own
    BY DEF NextFrom, Copied
  <1>2. PICK junk \in Junk :
          /\ dst' = [dst EXCEPT !.own = Class(junk).v]
          /\ \/ rat' = "done" /\ after = Class(junk).rest /\ left' = left
             \/ /\ rat' # "done" /\ after = ReadInt(Class(junk).rest, 1).rest
                /\ left' = ValueOf(ReadInt(Class(junk).rest, 1).v)
    BY DEF NextFrom, OwnFrom
  <1>3. /\ Proper(source) /\ IsOutput(source) /\ source[f] \in Seq(Pointers(f)) /\ n \in Nat
        /\ source.type \in OutputKinds /\ OwnSound(source) /\ ~ NullOwn(source)
    BY Fields, LenProperties DEF Sound, Proper
  <1>4. IsOutput(dst) /\ (source.type = 3 => f # "immutable_features")
        /\ \A h \in Lists \ (Past(source.type, f) \cup {f}) : dst[h] = << >>
    BY <1>1 DEF Filling
  <1>5. n - 0 = n /\ Remains(f, source[f])[n] = << >> /\ SubSeq(source[f], 1, n) = source[f]
    <2>1. n - 0 = n
      BY <1>3
    <2>2. Remains(f, source[f])[n] = << >>
      BY <1>3, RemainsAre
    <2>3. SubSeq(source[f], 1, n) = source[f]
      BY <1>3, SubSeqFull
    <2> QED BY <2>1, <2>2, <2>3
  <1>6. After(source, f, tail) \in Bytes /\ bytes = After(source, f, tail) /\ dst[f] = source[f]
    <2>1. After(source, f, tail) \in Bytes
      BY <1>3, AfterBytes
    <2>2. << >> \o After(source, f, tail) = After(source, f, tail)
      BY <2>1, ConcatEmptySeq DEF Bytes
    <2> HIDE DEF n
    <2> QED BY <1>1, <1>5, <2>1, <2>2
  <1>7. /\ Between(source, f) \in Bytes /\ g \in Lists \cup {"done"}
        /\ g = "done" => f # "native_tokens" /\ After(source, f, tail) = tail
        /\ g # "done" => After(source, f, tail) = Between(source, f) \o u
    BY <1>3, AfterNext
  <1>8. /\ Past(source.type, g) = Past(source.type, f) \cup {f}
        /\ Past(source.type, f) \subseteq Lists
        /\ g \in Lists => g \notin Past(source.type, g) /\ g # "native_tokens"
        /\ g = "done" => \A h \in Lists : h \in Past(source.type, g)
                                            \/ (source.type = 3 /\ h = "immutable_features")
    BY <1>3, <1>4, PastNext
  <1>9. u \in Bytes
    <2>1. g # "done" => From(source, g, After(source, g, tail)) \in Bytes
      BY <1>3, <1>7, AfterBytes, FromBytes
    <2> QED BY <2>1
  <1>10. g # "done" => /\ ReadInt(u, 1).rest = Remains(g, source[g])[0] \o After(source, g, tail)
                       /\ ValueOf(ReadInt(u, 1).v) = Len(source[g])
    BY <1>7, FirstRemains
  <1>11. g = "done" => u = tail
    OBVIOUS
  <1> HIDE DEF g, u
  <1>12. Class(junk) = Got(source.own, u)
    <2>1. CASE f = "native_tokens"
      <3>1. bytes = WriteOwn(source) \o u
        BY <1>3, <1>6, <1>7, <2>1 DEF Between, OwnBytes
      <3>2. ReadOwn(source.type, WriteOwn(source) \o u, junk) = Got(source.own, u)
        BY <1>3, <1>9, OwnBack
      <3> QED BY <1>1, <2>1, <3>1, <3>2
    <2>2. CASE f # "native_tokens"
      <3>1. << >> \o u = u
        BY <1>9, ConcatEmptySeq DEF Bytes
      <3>2. bytes = u
        BY <1>6, <1>7, <1>11, <2>2, <3>1 DEF Between
      <3> QED BY <1>1, <2>2, <3>2
    <2> QED BY <2>1, <2>2
  <1>13. Class(junk).v = source.own /\ Class(junk).rest = u
    BY <1>12 DEF Got
  <1> HIDE DEF Class
  <1>14. dst' = [dst EXCEPT !.own = source.own]
    BY <1>2, <1>13
  <1>15. /\ IsOutput(dst') /\ dst'.type = source.type /\ dst'.amount = source.amount
         /\ dst'.own = source.own /\ \A h \in Lists : dst'[h] = dst[h]
    <2>1. source.own \in Own(source.type)
      BY DEF Sound, Proper
    <2>2. LET m == [dst EXCEPT !.own = source.own]
          IN  /\ IsOutput(m) /\ m.type = dst.type /\ m.amount = dst.amount /\ m.own = source.own
              /\ \A h \in Lists : m[h] = dst[h]
      BY <1>3, <1>4, <2>1, SetOwn
    <2> QED BY <1>1, <1>14, <2>2
  <1>16. \A h \in Past(source.type, g) : dst'[h] = source[h]
    BY <1>1, <1>6, <1>8, <1>15
  <1>17. CASE g = "done"
    <2>1. after = tail
      BY <1>1, <1>2, <1>11, <1>13, <1>17
    <2>2. ASSUME NEW h \in Lists PROVE dst'[h] = source[h]
      <3>1. CASE h \in Past(source.type, g)
        BY <1>16, <3>1
      <3>2. CASE h \notin Past(source.type, g)
        <4>1. source.type = 3 /\ h = "immutable_features"
          BY <1>8, <1>17, <3>2
        <4>2. source[h] = << >>
          BY <4>1 DEF Sound
        <4>3. dst[h] = << >>
          BY <1>4, <1>8, <3>2
        <4> QED BY <1>15, <4>2, <4>3
      <3> QED BY <3>1, <3>2
    <2>3. dst' = source
      BY <1>3, <1>15, <2>2, SameOutput
    <2> QED BY <1>1, <1>17, <2>1, <2>3, Place DEF Copied
  <1>18. CASE g # "done"
    <2>1. g \in Lists
      BY <1>7, <1>18
    <2>2. after = Remains(g, source[g])[0] \o After(source, g, tail) /\ left' = Len(source[g])
      BY <1>1, <1>2, <1>10, <1>13, <1>18
    <2>3. dst'[g] = << >>
      BY <1>4, <1>8, <1>15, <2>1
    <2>4. Len(source[g]) \in Nat
      BY <1>3, <2>1, Fields, LenProperties
    <2>5. Len(source[g]) - left' = 0 /\ left' <= Len(source[g]) /\ SubSeq(source[g], 1, 0) = << >>
      BY <2>2, <2>4, SubSeqEmpty
    <2> QED BY <1>1, <1>15, <1>16, <1>18, <2>1, <2>2, <2>3, <2>5, Place DEF Copied
  <1> QED BY <1>17, <1>18

\* So after every step of from_ the reader holds a part of the copy.
LEMMA DeserializeCopy ==
  ASSUME NEW source, Sound(source), NEW tail \in Bytes, rest \in Bytes,
         ReaderHolds(dst, rat, left), Copied(source, tail, rest, rat, left, dst), Deserialize
  PROVE  Copied(source, tail, rest', rat', left', dst')
  <1>1. CASE ReadHead
    <2>1. rest = Text(source, tail)
      BY <1>1 DEF ReadHead, Copied
    <2> QED BY <1>1, <2>1, StepsFrom, ReadHeadCopy
  <1>2. ASSUME NEW f \in Lists, rat = f PROVE Filling(dst, f, left) /\ left \in Nat
    BY <1>2, RadixAssumption DEF ReaderHolds
  <1>3. ASSUME NEW f \in Lists, ReadItem(f) PROVE Copied(source, tail, rest', rat', left', dst')
    <2>1. rat = f
      BY <1>3 DEF ReadItem
    <2> QED BY <1>2, <1>3, <2>1, StepsFrom, ReadItemCopy
  <1>4. ASSUME NEW f \in Lists, ReadNext(f) PROVE Copied(source, tail, rest', rat', left', dst')
    <2>1. rat = f
      BY <1>4 DEF ReadNext
    <2> QED BY <1>2, <1>4, <2>1, StepsFrom, ReadNextCopy
  <1> QED BY <1>1, <1>3, <1>4 DEF Deserialize

-----------------------------------------------------------------------------
(***************************************************************************)
(* The whole of it.                                                        *)
(***************************************************************************)
WriterInv == Proper(src) /\ Writing(src, << >>, Text(src, << >>), wire, wat, wi)

ReaderInv ==
  /\ stream \in Bytes /\ rest \in Bytes /\ ReaderHolds(dst, rat, left)
  /\ rat \in {"idle", "head"} => dst = nullptr
  /\ rat # "idle" => wat = "done"

CopyInv ==
  /\ (stream = wire /\ rat = "head") => rest = Text(src, << >>)
  /\ (stream = wire /\ rat = "done") => Built(dst)
  /\ (stream = wire /\ Fits(src) /\ rat # "idle") => Copied(src, << >>, rest, rat, left, dst)

RoundInv ==
  /\ round \in {1, 2}
  /\ round = 1 => src \in Outputs
  /\ round = 2 => Built(src) /\ (rat # "idle" => stream = wire)

Inv == WriterInv /\ ReaderInv /\ CopyInv /\ RoundInv

\* An output that was read, and written again to its end, fits: the prefixes it
\* was read with bound what they counted.
LEMMA BuiltFits ==
  ASSUME NEW o, Complete(o), Built(o)
  PROVE  Fits(o)
  <1>1. /\ IsOutput(o) /\ AllHeld(o) /\ OwnSound(o)
        /\ o.type = 3 => o.immutable_features = << >>
    BY DEF Built
  <1>2. \A f \in Past(o.type, "done") : NoNulls(o, f, Len(o[f]))
    BY DEF Complete
  <1>3. ASSUME NEW f \in Lists
        PROVE  /\ Within(Len(o[f]), 1)
               /\ \A i \in 1 .. Len(o[f]) : ElementFits(f, o[f][i])
    <2>1. Held(f, o[f]) /\ Len(o[f]) <= Radix - 1
      BY <1>1 DEF AllHeld
    <2>2. Len(o[f]) \in Nat
      BY <2>1, LenProperties DEF Held
    <2>3. Within(Len(o[f]), 1)
      BY <2>1, <2>2, RadixAssumption DEF Within
    <2>4. ASSUME NEW i \in 1 .. Len(o[f]) PROVE ElementFits(f, o[f][i])
      <3>1. CASE f \in Past(o.type, "done")
        <4>1. o[f][i] # nullptr
          BY <1>2, <3>1 DEF NoNulls, NullElement
        <4> QED BY <2>1, <4>1 DEF Held
      <3>2. CASE f \notin Past(o.type, "done")
        <4>1. o[f] = << >>
          BY <1>1, <3>2 DEF Past, Lists
        <4>2. Len(o[f]) = 0
          BY <4>1, EmptySeq
        <4> QED BY <4>2
      <3> QED BY <3>1, <3>2
    <2> QED BY <2>3, <2>4
  <1> QED BY <1>1, <1>3 DEF Fits, OwnSound

\* The first byte of an output is the kind of a known class.
LEMMA HeadKnown ==
  ASSUME NEW source, Proper(source), NEW tail \in Bytes, rest = Text(source, tail), ReadHead
  PROVE  rat' = "native_tokens"
  <1>1. ReadInt(rest, 1).v[1] \in OutputKinds => rat' = "native_tokens"
    BY DEF ReadHead
  <1>2. ReadInt(rest, 1).v[1] = source.type /\ source.type \in OutputKinds
    BY HeadHere
  <1> QED BY <1>1, <1>2

\* Nothing follows an output that is cloned.
LEMMA NoTail ==
  << >> \in Bytes
  BY EmptySeq DEF Bytes

\* The invariant holds when clone() is called.
LEMMA InvInit ==
  ASSUME Init
  PROVE  Inv
  <1>1. /\ src \in Outputs /\ round = 1 /\ wire = << >> /\ wat = "head" /\ wi = 0
        /\ stream = << >> /\ rest = << >> /\ rat = "idle" /\ left = 0 /\ dst = nullptr
    BY DEF Init
  <1>2. << >> \in Bytes /\ 0 \in 0 .. Radix - 1
    BY EmptySeq, RadixAssumption DEF Bytes
  <1>3. Past(src.type, "head") = {}
    BY DEF Past
  <1>4. WriterInv
    <2>1. Proper(src)
      BY <1>1, OutputsAssumption
    <2> DEFINE total == Text(src, << >>)
    <2>2. total \in Bytes /\ << >> \o total = total
      BY <1>2, <2>1, AfterBytes, ConcatEmptySeq DEF Bytes
    <2> HIDE DEF total
    <2>3. Writing(src, << >>, total, wire, wat, wi)
      BY <1>1, <1>2, <1>3, <2>2, Place DEF Writing, total
    <2> QED BY <2>1, <2>3 DEF WriterInv, total
  <1>5. ReaderInv
    BY <1>1, <1>2 DEF ReaderInv, ReaderHolds, Places, Lists
  <1>6. CopyInv /\ RoundInv
    BY <1>1 DEF CopyInv, RoundInv
  <1> QED BY <1>4, <1>5, <1>6 DEF Inv

\* It holds after every step of serialize().
LEMMA InvWrite ==
  ASSUME Inv, Write
  PROVE  Inv'
  <1>1. UNCHANGED << src, stream, round, rest, rat, left, dst >> /\ Serialize
    BY DEF Write, readerVars
  <1>2. Writing(src, << >>, Text(src, << >>), wire', wat', wi')
    BY <1>1, NoTail, SerializeInv DEF Inv, WriterInv
  <1>3. wat # "done" /\ rat = "idle"
    BY <1>1, Place, SerializeFrom DEF Inv, ReaderInv
  <1>4. WriterInv'
    BY <1>1, <1>2 DEF Inv, WriterInv
  <1>5. ReaderInv'
    BY <1>1, <1>3 DEF Inv, ReaderInv
  <1>6. CopyInv' /\ RoundInv'
    BY <1>1, <1>3 DEF Inv, CopyInv, RoundInv
  <1> QED BY <1>4, <1>5, <1>6 DEF Inv

\* It holds when the reader is given a stream, whole, cut or foreign.
LEMMA InvDeliver ==
  ASSUME Inv, Deliver
  PROVE  Inv'
  <1>1. /\ wat = "done" /\ rat = "idle" /\ rest' = stream' /\ rat' = "head"
        /\ stream' \in {wire} \cup (IF round = 1 THEN ForeignStreams ELSE {})
                              \cup (IF round = 1 /\ Lossy THEN Cuts ELSE {})
        /\ UNCHANGED << src, round, wire, wat, wi, left, dst >>
    BY DEF Deliver, writerVars
  <1>2. wire \in Bytes /\ wire = Text(src, << >>)
    <2>1. wire \in Bytes /\ wire \o << >> = Text(src, << >>)
      BY <1>1, Place DEF Inv, WriterInv, Writing
    <2> QED BY <2>1, ConcatEmptySeq DEF Bytes
  <1>3. stream' \in Bytes
    <2>1. ASSUME NEW s \in Cuts PROVE s \in Bytes
      <3>1. PICK n \in 0 .. Len(wire) - 1 : s = SubSeq(wire, 1, n)
        BY DEF Cuts
      <3>2. Len(wire) \in Nat /\ \A i \in 1 .. Len(wire) : wire[i] \in Byte
        BY <1>2, LenProperties, ElementOfSeq DEF Bytes
      <3>3. \A i \in 1 .. n : wire[i] \in Byte
        BY <3>2
      <3>4. SubSeq(wire, 1, n) \in Seq(Byte)
        BY <3>2, <3>3, SubSeqProperties
      <3> QED BY <3>1, <3>4 DEF Bytes
    <2>2. stream' = wire \/ stream' \in ForeignStreams \/ stream' \in Cuts
      BY <1>1
    <2> QED BY <1>2, <2>1, <2>2, ForeignAssumption
  <1>4. WriterInv'
    BY <1>1 DEF Inv, WriterInv
  <1>5. ReaderInv'
    <2>1. ReaderHolds(dst, "head", left) /\ dst = nullptr
      BY <1>1, Place DEF Inv, ReaderInv, ReaderHolds
    <2> QED BY <1>1, <1>3, <2>1 DEF ReaderInv
  <1>6. stream' = wire' => rest' = Text(src', << >>)
    BY <1>1, <1>2
  <1>7. CopyInv'
    BY <1>1, <1>6, Place DEF CopyInv, Copied
  <1>8. RoundInv'
    BY <1>1 DEF Inv, RoundInv
  <1> QED BY <1>4, <1>5, <1>7, <1>8 DEF Inv

\* It holds after every step of from_.
LEMMA InvRead ==
  ASSUME Inv, Read
  PROVE  Inv'
  <1>1. UNCHANGED << src, stream, round, wire, wat, wi >> /\ Deserialize
    BY DEF Read, writerVars
  <1>2. rat # "idle" /\ wat = "done"
    BY <1>1, Place, DeserializeFrom DEF Inv, ReaderInv
  <1>3. rest' \in Bytes /\ ReaderHolds(dst', rat', left')
    BY <1>1, DeserializeInv DEF Inv, ReaderInv
  <1>4. rat' # "idle" /\ rat' # "head"
    BY <1>1, DeserializeFrom
  <1>5. WriterInv'
    BY <1>1 DEF Inv, WriterInv
  <1>6. ReaderInv'
    BY <1>1, <1>2, <1>3, <1>4 DEF Inv, ReaderInv
  <1>7. (stream = wire /\ rat' = "done") => Built(dst')
    <2>1. CASE ReadHead
      <3>1. stream = wire => rest = Text(src, << >>)
        BY <2>1 DEF ReadHead, Inv, CopyInv
      <3> QED BY <2>1, <3>1, NoTail, HeadKnown DEF Inv, WriterInv
    <2>2. ASSUME NEW f \in Lists, ReadItem(f) PROVE rat' # "done"
      BY <2>2, Place DEF ReadItem, InsertElement
    <2>3. ASSUME NEW f \in Lists, ReadNext(f) PROVE rat' = "done" => Built(dst')
      BY <2>3, ReadNextInv DEF Inv, ReaderInv
    <2> QED BY <1>1, <2>1, <2>2, <2>3 DEF Deserialize
  <1>8. ASSUME stream = wire, Fits(src)
        PROVE  Copied(src, << >>, rest', rat', left', dst')
    <2>1. Sound(src)
      BY <1>2, <1>8, SoundWritten, Place DEF Inv, WriterInv, Writing, Complete
    <2>2. Copied(src, << >>, rest, rat, left, dst)
      BY <1>2, <1>8 DEF Inv, CopyInv
    <2> QED BY <1>1, <2>1, <2>2, NoTail, DeserializeCopy DEF Inv, ReaderInv
  <1>9. Fits(src') <=> Fits(src)
    BY <1>1
  <1>10. CopyInv'
    BY <1>1, <1>4, <1>7, <1>8, <1>9 DEF CopyInv
  <1>11. RoundInv'
    BY <1>1, <1>2 DEF Inv, RoundInv
  <1> QED BY <1>5, <1>6, <1>10, <1>11 DEF Inv

\* It holds when the caller clones what was received: that is an output any
\* program could have built.
LEMMA InvClone ==
  ASSUME Inv, CloneReceived
  PROVE  Inv'
  <1>1. /\ rat = "done" /\ dst # nullptr /\ src' = dst /\ round' = 2
        /\ wire' = << >> /\ wat' = "head" /\ wi' = 0
        /\ stream' = << >> /\ rest' = << >> /\ rat' = "idle" /\ left' = 0 /\ dst' = nullptr
    BY DEF CloneReceived
  <1>2. Built(dst)
    BY <1>1, Place DEF Inv, ReaderInv, ReaderHolds
  <1>3. Proper(dst)
    BY <1>2 DEF Built, Proper, AllHeld, Held, OwnSound
  <1>4. << >> \in Bytes /\ 0 \in 0 .. Radix - 1
    BY EmptySeq, RadixAssumption DEF Bytes
  <1>5. Past(dst.type, "head") = {}
    BY DEF Past
  <1>6. Writing(dst, << >>, Text(dst, << >>), << >>, "head", 0)
    BY <1>4, <1>5, Place DEF Writing
  <1>7. WriterInv'
    BY <1>1, <1>3, <1>6 DEF WriterInv
  <1>8. ReaderHolds(nullptr, "idle", 0)
    BY <1>4 DEF ReaderHolds, Places, Lists
  <1>9. ReaderInv'
    BY <1>1, <1>4, <1>8 DEF ReaderInv
  <1>10. CopyInv' /\ RoundInv'
    BY <1>1, <1>2 DEF CopyInv, RoundInv
  <1> QED BY <1>7, <1>9, <1>10 DEF Inv

\* So every step keeps it.
LEMMA InvStep ==
  ASSUME Inv, [Next]_vars
  PROVE  Inv'
  <1>1. CASE vars' = vars
    <2>1. UNCHANGED << src, stream, round, wire, wat, wi, rest, rat, left, dst >>
      BY <1>1 DEF vars, writerVars, readerVars
    <2>2. WriterInv' /\ ReaderInv'
      BY <2>1 DEF Inv, WriterInv, ReaderInv
    <2>3. CopyInv' /\ RoundInv'
      BY <2>1 DEF Inv, CopyInv, RoundInv
    <2> QED BY <2>2, <2>3 DEF Inv
  <1>2. CASE Finished
    <2>1. vars' = vars
      BY <1>2 DEF Finished
    <2> QED BY <1>1, <2>1
  <1> QED BY <1>1, <1>2, InvWrite, InvDeliver, InvRead, InvClone DEF Next

\* The invariant, of every behaviour.
LEMMA Invariance ==
  Spec => []Inv
  <1>1. Init => Inv
    BY InvInit
  <1>2. Inv /\ [Next]_vars => Inv'
    BY InvStep
  <1> QED BY <1>1, <1>2, PTL DEF Spec

-----------------------------------------------------------------------------
(***************************************************************************)
(* What follows for every set of outputs and of foreign streams.           *)
(***************************************************************************)
\* Bytes are bytes, the reader and the writer are at a known place with a count
\* below Radix, and the objects are outputs, for every set of outputs and every
\* stream, however cut or foreign.
THEOREM OutputsTyped == Spec => []TypeOK
  <1>1. ASSUME Inv PROVE TypeOK
    <2>1. Proper(src) /\ IsOutput(src) /\ Writing(src, << >>, Text(src, << >>), wire, wat, wi)
      BY <1>1 DEF Inv, WriterInv, Proper
    <2>2. /\ stream \in Bytes /\ rest \in Bytes /\ ReaderHolds(dst, rat, left)
          /\ rat \in {"idle", "head"} => dst = nullptr
      BY <1>1 DEF Inv, ReaderInv
    <2>3. dst = nullptr \/ (IsOutput(dst) /\ (dst.own = << >> \/ OwnSound(dst)))
      BY <2>2 DEF ReaderHolds, Filling, Built, Places
    <2> QED BY <2>1, <2>2, <2>3 DEF TypeOK, Writing, ReaderHolds, OwnSound
  <1> QED BY <1>1, Invariance, PTL

\* Whatever the stream, every pset of the output read, finished or not, is in
\* strict order: a kind or a token that comes twice is kept once (carray.hpp).
THEOREM OutputsOrdered == Spec => []PsetsOrdered
  <1>1. ASSUME Inv PROVE PsetsOrdered
    <2>1. ReaderHolds(dst, rat, left) /\ (rat \in {"idle", "head"} => dst = nullptr)
      BY <1>1 DEF Inv, ReaderInv
    <2>2. dst = nullptr \/ AllHeld(dst)
      BY <2>1 DEF ReaderHolds, Filling, Built, Places
    <2> QED BY <2>2 DEF PsetsOrdered, AllHeld, Held
  <1> QED BY <1>1, Invariance, PTL

\* An output of any class with lists and arrays of any size that fit their
\* prefixes is read to its last byte and not beyond, so what follows it in a
\* transaction is found (deserializeList, the constructors from a stream).
THEOREM WholeOutputConsumed == Spec => []WholeStreamConsumed
  <1>1. ASSUME Inv PROVE WholeStreamConsumed
    <2> SUFFICES ASSUME Whole, Fits(src) PROVE rest = << >>
      BY DEF WholeStreamConsumed
    <2>1. rat = "done" /\ Copied(src, << >>, rest, rat, left, dst)
      BY <1>1 DEF Whole, Inv, CopyInv
    <2> QED BY <2>1 DEF Copied
  <1> QED BY <1>1, Invariance, PTL

\* clone() gives an equal output exactly when each list has fewer than Radix
\* elements, each array fits its prefix, each identifier and hash has the length it
\* is read with, and a Basic output has no immutable features: for every output, its
\* byte arrays of any length, not only for those at the limits that are model-checked
\* (serializeList, fl_array's operator<<, c_array's operator<<).
THEOREM CloneExact == Spec => []CloneEqualIffFits
  <1>1. ASSUME Inv PROVE CloneEqualIffFits
    <2> SUFFICES ASSUME Whole PROVE (dst = src) <=> Fits(src)
      BY DEF CloneEqualIffFits
    <2>1. rat = "done" /\ stream = wire /\ wat = "done" /\ WriterInv /\ CopyInv
      BY <1>1 DEF Whole, Inv, ReaderInv
    <2>2. ASSUME Fits(src) PROVE dst = src
      BY <2>1, <2>2 DEF CopyInv, Copied
    <2>3. ASSUME dst = src PROVE Fits(src)
      <3>1. Built(src)
        BY <2>1, <2>3 DEF CopyInv
      <3>2. Complete(src)
        BY <2>1, Place DEF WriterInv, Writing, Complete
      <3> QED BY <3>1, <3>2, BuiltFits
    <2> QED BY <2>2, <2>3
  <1> QED BY <1>1, Invariance, PTL

\* What was read, from whatever stream, clones to its equal and to the last
\* byte, unless there is a null pointer in it.
THEOREM ReceivedCloned == Spec => []ReceivedClones
  <1>1. ASSUME Inv PROVE ReceivedClones
    <2> SUFFICES ASSUME round = 2
                 PROVE  /\ rat = "done" => (dst = src /\ rest = << >>)
                        /\ wat = "crash" => HasNull(src)
      BY DEF ReceivedClones
    <2>1. Built(src) /\ (rat = "done" => stream = wire /\ wat = "done")
      BY <1>1 DEF Inv, RoundInv, ReaderInv
    <2>2. ASSUME rat = "done" PROVE dst = src /\ rest = << >>
      <3>1. Fits(src)
        <4>1. Complete(src)
          BY <1>1, <2>1, <2>2, Place DEF Inv, WriterInv, Writing, Complete
        <4> QED BY <2>1, <4>1, BuiltFits
      <3>2. Copied(src, << >>, rest, rat, left, dst)
        BY <1>1, <2>1, <2>2, <3>1 DEF Inv, CopyInv
      <3> QED BY <2>2, <3>2 DEF Copied
    <2>3. wat = "crash" => HasNull(src)
      BY <1>1 DEF Inv, WriterInv, Writing
    <2> QED BY <2>2, <2>3
  <1> QED BY <1>1, Invariance, PTL

-----------------------------------------------------------------------------
(***************************************************************************)
(* The objects of a list that was cut short.                               *)
(***************************************************************************)
\* An address is read as it was sent or the stream is at its end; where no kind
\* came it is zero, which is the kind of an address.
LEMMA AddressShort ==
  ASSUME NEW r, NEW z, NEW lost, FrontOf(r, z, lost)
  PROVE  /\ ShortRead(ReadAddress(r), ReadAddress(z), lost)
         /\ ReadAddress(z).v # nullptr => ReadAddress(r).v # nullptr
         /\ ReadAddress(<< >>).v # nullptr /\ ReadAddress(<< >>).rest = << >>
  <1> DEFINE Kind1(s) == ReadInt(s, 1)
             Hash1(s) == ReadRaw(Kind1(s).rest, HashLen)
             Made(s) == [type |-> Kind1(s).v[1], addrhash |-> Hash1(s).v]
  <1>1. ASSUME NEW s \in Bytes
        PROVE  /\ Kind1(s).v[1] \in AddressKinds => ReadAddress(s) = Got(Made(s), Hash1(s).rest)
               /\ Kind1(s).v[1] \notin AddressKinds => ReadAddress(s) = Got(nullptr, Kind1(s).rest)
               /\ Kind1(s).v[1] \in AddressKinds => Made(s) # nullptr
    <2>1. /\ Kind1(s).v[1] \in AddressKinds => ReadAddress(s) = Got(Made(s), Hash1(s).rest)
          /\ Kind1(s).v[1] \notin AddressKinds => ReadAddress(s) = Got(nullptr, Kind1(s).rest)
      BY DEF ReadAddress
    <2>2. Hash1(s).v \in Bytes
      BY KindRead, RawRead, Hashes, WordIsBytes
    <2> HIDE DEF Hash1, Kind1
    <2>3. Kind1(s).v[1] \in AddressKinds => Made(s) \in Address
      BY <2>2 DEF Address
    <2> QED BY <2>1, <2>3, NullAssumption
  <1>2. r \in Bytes /\ z \in Bytes /\ << >> \in Bytes
    BY NoneLeft DEF FrontOf
  <1>3. Kind1(<< >>).v[1] = 0 /\ Kind1(<< >>).rest = << >> /\ Hash1(<< >>).rest = << >> /\ 0 \in AddressKinds
    BY NoneLeft, Hashes DEF AddressKinds
  <1>4. ReadAddress(<< >>).v # nullptr /\ ReadAddress(<< >>).rest = << >>
    <2> HIDE DEF Hash1, Kind1, Made
    <2> QED BY <1>1, <1>2, <1>3 DEF Got
  <1>5. CASE r = << >>
    BY <1>4, <1>5 DEF ShortRead
  <1>6. CASE r # << >>
    <2>1. Kind1(r).v = Kind1(z).v /\ FrontOf(Kind1(r).rest, Kind1(z).rest, lost)
      BY <1>6, KindShort
    <2>2. ShortRead(Hash1(r), Hash1(z), lost)
      BY <2>1, RawShort, Hashes
    <2> HIDE DEF Hash1, Kind1
    <2>3. CASE Kind1(r).v[1] \in AddressKinds
      BY <1>1, <1>2, <1>4, <2>1, <2>2, <2>3 DEF ShortRead, Got
    <2>4. CASE Kind1(r).v[1] \notin AddressKinds
      BY <1>1, <1>2, <1>4, <2>1, <2>4 DEF ShortRead, Got
    <2> QED BY <2>3, <2>4
  <1> QED BY <1>4, <1>5, <1>6

\* A condition that lost its kind has the kind 0, an address.
LEMMA ConditionShort ==
  ASSUME NEW r, NEW z, NEW lost, FrontOf(r, z, lost)
  PROVE  LET f == "unlock_conditions"
         IN  /\ ShortRead(ReadCondition(r), ReadCondition(z), lost)
             /\ ~ NullElement(f, ReadCondition(z).v) => ~ NullElement(f, ReadCondition(r).v)
             /\ ~ NullElement(f, ReadCondition(<< >>).v) /\ ReadCondition(<< >>).rest = << >>
  <1> DEFINE f == "unlock_conditions"
             Kind1(s) == ReadInt(s, 1)
             K(s) == Kind1(s).v[1]
             Addr(s) == IF K(s) = 2 THEN Got(nullptr, Kind1(s).rest) ELSE ReadAddress(Kind1(s).rest)
             Extra(s) == ReadInt(Addr(s).rest, ExtraLen(K(s)))
             Made(s) == [type |-> K(s), address |-> Addr(s).v, extra |-> Extra(s).v]
  <1>1. ASSUME NEW s \in Bytes
        PROVE  /\ K(s) \in 0 .. 6 => ReadCondition(s) = Got(Made(s), Extra(s).rest)
               /\ K(s) \notin 0 .. 6 => ReadCondition(s) = Got(nullptr, Kind1(s).rest)
    BY DEF ReadCondition
  <1>2. ASSUME NEW s \in Bytes, K(s) \in 0 .. 6
        PROVE  NullElement(f, Made(s)) <=> (K(s) # 2 /\ Addr(s).v = nullptr)
    <2>1. Kind1(s).rest \in Bytes
      BY KindRead
    <2> HIDE DEF Kind1
    <2>2. Addr(s).v \in (IF K(s) = 2 THEN {} ELSE Address) \cup {nullptr} /\ Addr(s).rest \in Bytes
      BY <2>1, AddressRead DEF Got
    <2> HIDE DEF Addr
    <2>3. ExtraLen(K(s)) \in Nat /\ Word(ExtraLen(K(s))) \subseteq Word(0) \cup Word(4) \cup Word(8)
      BY <1>2 DEF ExtraLen
    <2>4. Extra(s).v \in Word(ExtraLen(K(s)))
      BY <2>2, <2>3, IntRead
    <2> HIDE DEF Extra, K
    <2>5. /\ Made(s).type = K(s) /\ Made(s).address = Addr(s).v /\ Made(s).extra = Extra(s).v
          /\ Made(s) \in [type : 0 .. 6, address : Address \cup {nullptr},
                          extra : Word(0) \cup Word(4) \cup Word(8)]
      BY <1>2, <2>2, <2>3, <2>4
    <2> HIDE DEF Made
    <2>6. Made(s) \in Member(f)
      BY <2>2, <2>4, <2>5 DEF Member
    <2>7. Made(s) # nullptr
      BY <2>6, NullAssumption DEF Lists
    <2>8. Addressed(f) = (0 .. 6) \ {2} /\ f # "native_tokens"
      BY DEF Addressed
    <2> QED BY <1>2, <2>5, <2>7, <2>8 DEF NullElement
  <1>3. r \in Bytes /\ z \in Bytes /\ << >> \in Bytes /\ FrontOf(<< >>, << >>, 0)
    BY NoneLeft DEF FrontOf
  <1>4. K(<< >>) = 0 /\ Kind1(<< >>).rest = << >>
    BY NoneLeft
  <1>5. Addr(<< >>).v # nullptr /\ Addr(<< >>).rest = << >>
    <2> HIDE DEF K
    <2> QED BY <1>3, <1>4, AddressShort
  <1>6. Extra(<< >>).rest = << >>
    <2> HIDE DEF Addr, K
    <2>1. ExtraLen(0) \in Nat
      BY DEF ExtraLen
    <2> QED BY <1>4, <1>5, <2>1, NoneLeft
  <1>7. ~ NullElement(f, ReadCondition(<< >>).v) /\ ReadCondition(<< >>).rest = << >>
    <2> HIDE DEF Addr, K, Extra, Kind1, Made, f
    <2> QED BY <1>1, <1>2, <1>3, <1>4, <1>5, <1>6 DEF Got
  <1>8. CASE r = << >>
    BY <1>7, <1>8 DEF ShortRead
  <1>9. CASE r # << >>
    <2>1. Kind1(r).v = Kind1(z).v /\ FrontOf(Kind1(r).rest, Kind1(z).rest, lost) /\ K(r) = K(z)
      BY <1>9, KindShort
    <2> HIDE DEF Kind1, K
    <2>2. ShortRead(Addr(r), Addr(z), lost) /\ (Addr(z).v # nullptr => Addr(r).v # nullptr)
      <3>1. CASE K(r) = 2
        BY <2>1, <3>1 DEF ShortRead, Got
      <3>2. CASE K(r) # 2
        BY <2>1, <3>2, AddressShort
      <3> QED BY <3>1, <3>2
    <2> HIDE DEF Addr
    <2>3. CASE K(r) \in 0 .. 6
      <3>1. ExtraLen(K(r)) \in Nat
        BY <2>3 DEF ExtraLen
      <3>2. ShortRead(Extra(r), Extra(z), lost)
        <4>1. CASE Addr(r).rest = << >>
          BY <3>1, <4>1, NoneLeft DEF ShortRead
        <4>2. CASE FrontOf(Addr(r).rest, Addr(z).rest, lost)
          BY <2>1, <3>1, <4>2, IntShort DEF ShortRead
        <4> QED BY <2>2, <4>1, <4>2 DEF ShortRead
      <3>3. Addr(r).v = Addr(z).v \/ Extra(r).rest = << >>
        <4>1. CASE Addr(r).rest = << >>
          BY <3>1, <4>1, NoneLeft
        <4> QED BY <2>2, <4>1 DEF ShortRead
      <3> HIDE DEF Extra
      <3>4. ShortRead(Got(Made(r), Extra(r).rest), Got(Made(z), Extra(z).rest), lost)
        BY <2>1, <3>2, <3>3 DEF ShortRead, Got
      <3> HIDE DEF Made, f
      <3>5. ReadCondition(r) = Got(Made(r), Extra(r).rest) /\ ReadCondition(z) = Got(Made(z), Extra(z).rest)
        BY <1>1, <1>3, <2>1, <2>3
      <3>6. ~ NullElement(f, Made(z)) => ~ NullElement(f, Made(r))
        BY <1>2, <1>3, <2>1, <2>2, <2>3
      <3> QED BY <1>7, <3>4, <3>5, <3>6 DEF Got, f
    <2>4. CASE K(r) \notin 0 .. 6
      <3> HIDE DEF f
      <3>1. ReadCondition(r) = Got(nullptr, Kind1(r).rest) /\ ReadCondition(z) = Got(nullptr, Kind1(z).rest)
        BY <1>1, <1>3, <2>1, <2>4
      <3> QED BY <1>7, <2>1, <3>1 DEF Got, ShortRead, f
    <2> QED BY <2>3, <2>4
  <1> QED BY <1>7, <1>8, <1>9

\* A feature that lost its kind is a sender.
LEMMA FeatureShort ==
  ASSUME NEW f \in {"features", "immutable_features"}, NEW r, NEW z,
         NEW lost, FrontOf(r, z, lost), NEW junk \in Junk
  PROVE  /\ ShortRead(ReadFeature(r, junk), ReadFeature(z, junk), lost)
         /\ ~ NullElement(f, ReadFeature(z, junk).v) => ~ NullElement(f, ReadFeature(r, junk).v)
         /\ ~ NullElement(f, ReadFeature(<< >>, junk).v) /\ ReadFeature(<< >>, junk).rest = << >>
  <1> DEFINE Kind1(s) == ReadInt(s, 1)
             K(s) == Kind1(s).v[1]
             Addr(s) == ReadAddress(Kind1(s).rest)
             Data(s) == ReadArray(Kind1(s).rest, SizeLen(K(s)), junk)
             Sent(s) == [type |-> K(s), address |-> Addr(s).v, data |-> << >>]
             Filled(s) == [type |-> K(s), address |-> nullptr, data |-> Data(s).v]
  <1>1. ASSUME NEW s \in Bytes
        PROVE  /\ K(s) \in {0, 1} => ReadFeature(s, junk) = Got(Sent(s), Addr(s).rest)
               /\ K(s) \in {2, 3} => ReadFeature(s, junk) = Got(Filled(s), Data(s).rest)
               /\ K(s) \notin 0 .. 3 => ReadFeature(s, junk) = Got(nullptr, Kind1(s).rest)
    BY DEF ReadFeature
  <1>2. ASSUME NEW s \in Bytes
        PROVE  /\ K(s) \in {0, 1} => (NullElement(f, Sent(s)) <=> Addr(s).v = nullptr)
               /\ K(s) \in {2, 3} => ~ NullElement(f, Filled(s))
    <2>1. Kind1(s).rest \in Bytes
      BY KindRead
    <2> HIDE DEF Kind1
    <2>2. Addr(s).v \in Address \cup {nullptr}
      BY <2>1, AddressRead
    <2>3. Data(s).v \in Bytes
      <3>1. SizeLen(K(s)) \in {1, 2, 4}
        BY DEF SizeLen
      <3> QED BY <2>1, <3>1, ArrayRead
    <2> HIDE DEF Addr, Data, K
    <2>4. /\ K(s) \in {0, 1} => Sent(s) \in Member(f)
          /\ K(s) \in {2, 3} => Filled(s) \in Member(f)
      BY <2>2, <2>3 DEF Member
    <2>5. nullptr \notin Member(f) /\ Addressed(f) = {0, 1} /\ f # "native_tokens"
      BY NullAssumption DEF Lists, Addressed
    <2>6. /\ Sent(s).type = K(s) /\ Sent(s).address = Addr(s).v /\ Filled(s).type = K(s)
      OBVIOUS
    <2> HIDE DEF Sent, Filled
    <2> QED BY <2>4, <2>5, <2>6 DEF NullElement
  <1>3. r \in Bytes /\ z \in Bytes /\ << >> \in Bytes /\ FrontOf(<< >>, << >>, 0)
    BY NoneLeft DEF FrontOf
  <1>4. K(<< >>) = 0 /\ Kind1(<< >>).rest = << >>
    BY NoneLeft
  <1>5. Addr(<< >>).v # nullptr /\ Addr(<< >>).rest = << >>
    BY <1>3, <1>4, AddressShort
  <1>6. ~ NullElement(f, ReadFeature(<< >>, junk).v) /\ ReadFeature(<< >>, junk).rest = << >>
    <2> HIDE DEF Addr, K, Data, Kind1, Sent, Filled
    <2> QED BY <1>1, <1>2, <1>3, <1>4, <1>5 DEF Got
  <1>7. CASE r = << >>
    BY <1>6, <1>7 DEF ShortRead
  <1>8. CASE r # << >>
    <2>1. Kind1(r).v = Kind1(z).v /\ FrontOf(Kind1(r).rest, Kind1(z).rest, lost) /\ K(r) = K(z)
      BY <1>8, KindShort
    <2> HIDE DEF Kind1, K
    <2>2. ShortRead(Addr(r), Addr(z), lost) /\ (Addr(z).v # nullptr => Addr(r).v # nullptr)
      BY <2>1, AddressShort
    <2>3. ShortRead(Data(r), Data(z), lost)
      <3>1. SizeLen(K(r)) \in {1, 2, 4}
        BY DEF SizeLen
      <3> QED BY <2>1, <3>1, ArrayShort
    <2> HIDE DEF Addr, Data
    <2>4. CASE K(r) \in {0, 1}
      <3>1. ShortRead(Got(Sent(r), Addr(r).rest), Got(Sent(z), Addr(z).rest), lost)
        BY <2>1, <2>2 DEF ShortRead, Got
      <3> HIDE DEF Sent
      <3>2. /\ ReadFeature(r, junk) = Got(Sent(r), Addr(r).rest)
            /\ ReadFeature(z, junk) = Got(Sent(z), Addr(z).rest)
        BY <1>1, <1>3, <2>1, <2>4
      <3>3. ~ NullElement(f, Sent(z)) => ~ NullElement(f, Sent(r))
        BY <1>2, <1>3, <2>1, <2>2, <2>4
      <3> QED BY <1>6, <3>1, <3>2, <3>3 DEF Got
    <2>5. CASE K(r) \in {2, 3}
      <3>1. ShortRead(Got(Filled(r), Data(r).rest), Got(Filled(z), Data(z).rest), lost)
        BY <2>1, <2>3 DEF ShortRead, Got
      <3> HIDE DEF Filled
      <3>2. /\ ReadFeature(r, junk) = Got(Filled(r), Data(r).rest)
            /\ ReadFeature(z, junk) = Got(Filled(z), Data(z).rest)
        BY <1>1, <1>3, <2>1, <2>5
      <3>3. ~ NullElement(f, Filled(r))
        BY <1>2, <1>3, <2>5
      <3> QED BY <1>6, <3>1, <3>2, <3>3 DEF Got
    <2>6. CASE K(r) \notin 0 .. 3
      <3>1. /\ ReadFeature(r, junk) = Got(nullptr, Kind1(r).rest)
            /\ ReadFeature(z, junk) = Got(nullptr, Kind1(z).rest)
        BY <1>1, <1>3, <2>1, <2>6
      <3> QED BY <1>6, <2>1, <3>1 DEF Got, ShortRead
    <2> QED BY <2>4, <2>5, <2>6
  <1> QED BY <1>6, <1>7, <1>8

\* A token has no kind to lose.
LEMMA TokenShort ==
  ASSUME NEW r, NEW z, NEW lost, FrontOf(r, z, lost)
  PROVE  LET f == "native_tokens"
         IN  /\ ShortRead(ReadToken(r), ReadToken(z), lost)
             /\ ~ NullElement(f, ReadToken(r).v) /\ ReadToken(<< >>).rest = << >>
  <1> DEFINE Id(s) == ReadRaw(s, TokenIdLen)
             Amount(s) == ReadRaw(Id(s).rest, HashLen)
             Made(s) == [token_id |-> Id(s).v, amount |-> Amount(s).v]
  <1>1. \A s \in Bytes : ReadToken(s) = Got(Made(s), Amount(s).rest)
    BY DEF ReadToken
  <1>2. r \in Bytes /\ z \in Bytes /\ << >> \in Bytes
    BY NoneLeft DEF FrontOf
  <1>3. ~ NullElement("native_tokens", ReadToken(r).v)
    <2>1. ReadToken(r).v \in Member("native_tokens")
      BY <1>2, TokenRead DEF Member
    <2>2. ReadToken(r).v # nullptr
      BY <2>1, NullAssumption DEF Lists
    <2> QED BY <2>2 DEF NullElement
  <1>4. Id(<< >>).rest = << >>
    BY NoneLeft, Hashes
  <1>5. Amount(<< >>).rest = << >>
    <2> HIDE DEF Id
    <2> QED BY <1>4, NoneLeft, Hashes
  <1>6. ShortRead(Id(r), Id(z), lost)
    BY Hashes, RawShort
  <1> HIDE DEF Id
  <1>7. Id(r).rest = << >> => Amount(r).rest = << >>
    BY NoneLeft, Hashes
  <1>8. FrontOf(Id(r).rest, Id(z).rest, lost) => ShortRead(Amount(r), Amount(z), lost)
    BY Hashes, RawShort
  <1> HIDE DEF Amount
  <1>9. ShortRead(Got(Made(r), Amount(r).rest), Got(Made(z), Amount(z).rest), lost)
    BY <1>6, <1>7, <1>8 DEF ShortRead, Got
  <1> HIDE DEF Made
  <1> QED BY <1>1, <1>2, <1>3, <1>5, <1>9 DEF Got

\* So an object of a list is never a null pointer because the stream was cut.
LEMMA ElementShort ==
  ASSUME NEW f \in Lists, NEW r, NEW z, NEW lost, FrontOf(r, z, lost), NEW junk \in Junk
  PROVE  /\ ShortRead(ReadElement(f, r, junk), ReadElement(f, z, junk), lost)
         /\ ~ NullElement(f, ReadElement(f, z, junk).v) => ~ NullElement(f, ReadElement(f, r, junk).v)
         /\ ~ NullElement(f, ReadElement(f, << >>, junk).v) /\ ReadElement(f, << >>, junk).rest = << >>
  <1>1. CASE f = "native_tokens"
    <2>1. \A s : ReadElement(f, s, junk) = ReadToken(s)
      BY <1>1 DEF ReadElement
    <2>2. FrontOf(<< >>, << >>, 0)
      BY NoneLeft
    <2> QED BY <1>1, <2>1, <2>2, TokenShort
  <1>2. CASE f = "unlock_conditions"
    <2>1. \A s : ReadElement(f, s, junk) = ReadCondition(s)
      BY <1>2 DEF ReadElement
    <2> QED BY <1>2, <2>1, ConditionShort
  <1>3. CASE f \in {"features", "immutable_features"}
    <2>1. \A s : ReadElement(f, s, junk) = ReadFeature(s, junk)
      BY <1>3 DEF ReadElement
    <2> QED BY <1>3, <2>1, FeatureShort
  <1> QED BY <1>1, <1>2, <1>3 DEF Lists

\* A token scheme that lost its kind is the simple one.
LEMMA SchemeShort ==
  ASSUME NEW r, NEW z, NEW lost, FrontOf(r, z, lost)
  PROVE  /\ ShortRead(ReadScheme(r), ReadScheme(z), lost)
         /\ ReadScheme(z).v # nullptr => ReadScheme(r).v # nullptr
         /\ ReadScheme(<< >>).v # nullptr /\ ReadScheme(<< >>).rest = << >>
  <1> DEFINE Kind1(s) == ReadInt(s, 1)
             Minted(s) == ReadRaw(Kind1(s).rest, HashLen)
             Melted(s) == ReadRaw(Minted(s).rest, HashLen)
             Most(s) == ReadRaw(Melted(s).rest, HashLen)
             Made(s) == [type |-> 0, minted |-> Minted(s).v, melted |-> Melted(s).v, maximum |-> Most(s).v]
  <1>1. ASSUME NEW s \in Bytes
        PROVE  /\ Kind1(s).v[1] = 0 => ReadScheme(s) = Got(Made(s), Most(s).rest) /\ Made(s) # nullptr
               /\ Kind1(s).v[1] # 0 => ReadScheme(s) = Got(nullptr, Kind1(s).rest)
    <2>1. /\ Kind1(s).v[1] = 0 => ReadScheme(s) = Got(Made(s), Most(s).rest)
          /\ Kind1(s).v[1] # 0 => ReadScheme(s) = Got(nullptr, Kind1(s).rest)
      BY DEF ReadScheme
    <2>2. Kind1(s).rest \in Bytes
      BY KindRead
    <2> HIDE DEF Kind1
    <2>3. Minted(s).v \in Hash /\ Minted(s).rest \in Bytes
      BY <2>2, RawRead, Hashes
    <2> HIDE DEF Minted
    <2>4. Melted(s).v \in Hash /\ Melted(s).rest \in Bytes
      BY <2>3, RawRead, Hashes
    <2> HIDE DEF Melted
    <2>5. Most(s).v \in Hash
      BY <2>4, RawRead, Hashes
    <2> HIDE DEF Most
    <2>6. Made(s) \in TokenScheme
      BY <2>3, <2>4, <2>5 DEF TokenScheme
    <2> QED BY <2>1, <2>6, NullAssumption
  <1>2. r \in Bytes /\ z \in Bytes /\ << >> \in Bytes
    BY NoneLeft DEF FrontOf
  <1>3. Kind1(<< >>).v[1] = 0 /\ Kind1(<< >>).rest = << >>
    BY NoneLeft
  <1>4. \A s : /\ Kind1(s).rest = << >> => Minted(s).rest = << >>
               /\ Minted(s).rest = << >> => Melted(s).rest = << >>
               /\ Melted(s).rest = << >> => Most(s).rest = << >>
    <2>1. ReadRaw(<< >>, HashLen).rest = << >>
      BY NoneLeft, Hashes
    <2> QED BY <2>1
  <1>5. \A s, t : /\ FrontOf(Kind1(s).rest, Kind1(t).rest, lost) => ShortRead(Minted(s), Minted(t), lost)
                  /\ FrontOf(Minted(s).rest, Minted(t).rest, lost) => ShortRead(Melted(s), Melted(t), lost)
                  /\ FrontOf(Melted(s).rest, Melted(t).rest, lost) => ShortRead(Most(s), Most(t), lost)
    BY RawShort, Hashes
  <1>6. r # << >> => Kind1(r).v = Kind1(z).v /\ FrontOf(Kind1(r).rest, Kind1(z).rest, lost)
    BY KindShort
  <1> HIDE DEF Kind1, Minted, Melted, Most
  <1>7. r # << >> => ShortRead(Got(Made(r), Most(r).rest), Got(Made(z), Most(z).rest), lost)
    BY <1>4, <1>5, <1>6 DEF ShortRead, Got
  <1> HIDE DEF Made
  <1>8. ReadScheme(<< >>).v # nullptr /\ ReadScheme(<< >>).rest = << >>
    BY <1>1, <1>2, <1>3, <1>4 DEF Got
  <1>9. CASE r = << >>
    BY <1>8, <1>9 DEF ShortRead
  <1>10. CASE r # << >> /\ Kind1(r).v[1] = 0
    BY <1>1, <1>2, <1>6, <1>7, <1>8, <1>10 DEF Got
  <1>11. CASE r # << >> /\ Kind1(r).v[1] # 0
    BY <1>1, <1>2, <1>6, <1>8, <1>11 DEF Got, ShortRead
  <1> QED BY <1>9, <1>10, <1>11

\* The numbers of a class are as they were sent or zero, and its token scheme is
\* there.
OwnKept(kind, v, w) ==
  /\ kind = 4 => /\ v.state_index \in {w.state_index, Zeros(4)}
                 /\ v.foundry_counter \in {w.foundry_counter, Zeros(4)}
  /\ kind = 5 => /\ v.serial_number \in {w.serial_number, Zeros(4)}
                 /\ w.token_scheme # nullptr => v.token_scheme # nullptr

\* The fields of a class are read as they were sent or the stream is at its end,
\* and no number of theirs is read in part.
LEMMA OwnShort ==
  ASSUME NEW kind \in OutputKinds, NEW r, NEW z, NEW lost, FrontOf(r, z, lost), NEW junk \in Junk
  PROVE  /\ ShortRead(ReadOwn(kind, r, junk), ReadOwn(kind, z, junk), lost)
         /\ OwnKept(kind, ReadOwn(kind, r, junk).v, ReadOwn(kind, z, junk).v)
  <1>1. CASE kind = 3
    <2>1. \A s : ReadOwn(kind, s, junk) = Got(<< >>, s)
      BY <1>1 DEF ReadOwn
    <2> QED BY <1>1, <2>1 DEF ShortRead, Got, OwnKept
  <1>2. CASE kind = 4
    <2> DEFINE Id(s) == ReadRaw(s, HashLen)
               Index(s) == ReadInt(Id(s).rest, 4)
               Data(s) == ReadArray(Index(s).rest, 2, junk)
               Counter(s) == ReadInt(Data(s).rest, 4)
               Made(s) == [alias_id |-> Id(s).v, state_index |-> Index(s).v, state_metadata |-> Data(s).v,
                           foundry_counter |-> Counter(s).v]
    <2>1. \A s : ReadOwn(kind, s, junk) = Got(Made(s), Counter(s).rest)
      BY <1>2 DEF ReadOwn, ReadAlias
    <2>2. \A s : /\ Id(s).rest = << >> => Index(s).rest = << >> /\ Index(s).v = Zeros(4)
                 /\ Index(s).rest = << >> => Data(s).rest = << >>
                 /\ Data(s).rest = << >> => Counter(s).rest = << >> /\ Counter(s).v = Zeros(4)
      <3>1. ReadInt(<< >>, 4).rest = << >> /\ ReadInt(<< >>, 4).v = Zeros(4)
        BY NoneLeft
      <3>2. ReadArray(<< >>, 2, junk).rest = << >>
        BY NoneLeft
      <3> QED BY <3>1, <3>2
    <2>3. ShortRead(Id(r), Id(z), lost)
      BY RawShort, Hashes
    <2>4. FrontOf(Id(r).rest, Id(z).rest, lost) =>
            \/ Index(r).v = Index(z).v /\ FrontOf(Index(r).rest, Index(z).rest, lost)
            \/ Index(r).v = Zeros(4) /\ Index(r).rest = << >>
      BY IntShort
    <2>5. FrontOf(Index(r).rest, Index(z).rest, lost) => ShortRead(Data(r), Data(z), lost)
      BY ArrayShort
    <2>6. FrontOf(Data(r).rest, Data(z).rest, lost) =>
            \/ Counter(r).v = Counter(z).v /\ FrontOf(Counter(r).rest, Counter(z).rest, lost)
            \/ Counter(r).v = Zeros(4) /\ Counter(r).rest = << >>
      BY IntShort
    <2> HIDE DEF Id, Index, Data, Counter
    <2>7. ShortRead(Got(Made(r), Counter(r).rest), Got(Made(z), Counter(z).rest), lost)
      BY <2>2, <2>3, <2>4, <2>5, <2>6 DEF ShortRead, Got
    <2>8. /\ Made(r).state_index \in {Made(z).state_index, Zeros(4)}
          /\ Made(r).foundry_counter \in {Made(z).foundry_counter, Zeros(4)}
      BY <2>2, <2>3, <2>4, <2>5, <2>6 DEF ShortRead
    <2> HIDE DEF Made
    <2> QED BY <1>2, <2>1, <2>7, <2>8 DEF Got, OwnKept
  <1>3. CASE kind = 5
    <2> DEFINE Serial(s) == ReadInt(s, 4)
               Scheme(s) == ReadScheme(Serial(s).rest)
               Made(s) == [serial_number |-> Serial(s).v, token_scheme |-> Scheme(s).v]
    <2>1. \A s : ReadOwn(kind, s, junk) = Got(Made(s), Scheme(s).rest)
      BY <1>3 DEF ReadOwn, ReadFoundry
    <2>2. \/ Serial(r).v = Serial(z).v /\ FrontOf(Serial(r).rest, Serial(z).rest, lost)
          \/ Serial(r).v = Zeros(4) /\ Serial(r).rest = << >>
      BY IntShort
    <2>3. FrontOf(Serial(r).rest, Serial(z).rest, lost) =>
            /\ ShortRead(Scheme(r), Scheme(z), lost)
            /\ Scheme(z).v # nullptr => Scheme(r).v # nullptr
      BY SchemeShort
    <2>4. Serial(r).rest = << >> => Scheme(r).v # nullptr /\ Scheme(r).rest = << >>
      BY SchemeShort
    <2> HIDE DEF Serial, Scheme
    <2>5. ShortRead(Got(Made(r), Scheme(r).rest), Got(Made(z), Scheme(z).rest), lost)
      BY <2>2, <2>3, <2>4 DEF ShortRead, Got
    <2>6. /\ Made(r).serial_number \in {Made(z).serial_number, Zeros(4)}
          /\ Made(z).token_scheme # nullptr => Made(r).token_scheme # nullptr
      BY <2>2, <2>3, <2>4
    <2> HIDE DEF Made
    <2> QED BY <1>3, <2>1, <2>5, <2>6 DEF Got, OwnKept
  <1>4. CASE kind = 6
    <2> DEFINE Id(s) == ReadRaw(s, HashLen)
    <2>1. \A s : ReadOwn(kind, s, junk) = Got([nft_id |-> Id(s).v], Id(s).rest)
      BY <1>4 DEF ReadOwn, ReadNFT
    <2>2. ShortRead(Id(r), Id(z), lost)
      BY RawShort, Hashes
    <2> HIDE DEF Id
    <2> QED BY <1>4, <2>1, <2>2 DEF ShortRead, Got, OwnKept
  <1> QED BY <1>1, <1>2, <1>3, <1>4 DEF OutputKinds

-----------------------------------------------------------------------------
(***************************************************************************)
(* The reader, of the bytes of an output that were cut.                    *)
(***************************************************************************)
\* What the reader holds of an output o when its stream has run out: the numbers
\* as they were written or zero, and no null pointer.
Spent(o, at, d) ==
  /\ IsOutput(d) /\ d.type = o.type /\ d.amount \in {o.amount, Zeros(8)}
  /\ \A f \in Lists : NoNulls(d, f, Len(d[f]))
  /\ at # "native_tokens" => OwnKept(o.type, d.own, o.own)

\* It reads along with a reader of the whole stream, as many bytes behind its end as
\* were lost; or the stream has run out, perhaps before the kind.
Short(o, tail, r, at, n, d, lost) ==
  \/ \E z : FrontOf(r, z, lost) /\ Copied(o, tail, z, at, n, d)
  \/ r = << >> /\ at \in Lists \cup {"done"} /\ Spent(o, at, d)
  \/ r = << >> /\ at = "done" /\ d = nullptr

\* What the stream ran out of is not known to be missing.
LEMMA OwnSelf ==
  ASSUME NEW kind, NEW v
  PROVE  OwnKept(kind, v, v)
  BY DEF OwnKept

\* A part of the copy is a copy with nothing missing yet.
LEMMA CopiedSpent ==
  ASSUME NEW o, Sound(o), NEW tail, NEW z, NEW f \in Lists, NEW n \in Nat, NEW d,
         Copied(o, tail, z, f, n, d), Filling(d, f, n)
  PROVE  Spent(o, f, d)
  <1>1. /\ n <= Len(o[f]) /\ d.type = o.type /\ d.amount = o.amount
        /\ d[f] = SubSeq(o[f], 1, Len(o[f]) - n)
        /\ \A g \in Past(o.type, f) : d[g] = o[g]
        /\ f # "native_tokens" => d.own = o.own
    BY DEF Copied
  <1>2. /\ IsOutput(d) /\ \A g \in Lists \ (Past(o.type, f) \cup {f}) : d[g] = << >>
    BY <1>1 DEF Filling
  <1>3. \A g \in Lists : /\ o[g] \in Seq(Pointers(g)) /\ Len(o[g]) \in Nat
                         /\ \A i \in 1 .. Len(o[g]) : ~ NullElement(g, o[g][i])
    BY LenProperties DEF Sound
  <1>4. ASSUME NEW g \in Lists PROVE NoNulls(d, g, Len(d[g]))
    <2>1. CASE g = f
      <3> DEFINE k == Len(o[f]) - n
                 s == SubSeq(o[f], 1, k)
      <3>1. k \in Nat /\ k <= Len(o[f]) /\ \A i \in 1 .. k : o[f][i] \in Pointers(f)
        BY <1>1, <1>3, ElementOfSeq
      <3> HIDE DEF k
      <3>2. /\ Len(s) = (IF 1 <= k THEN k - 1 + 1 ELSE 0)
            /\ \A i \in 1 .. k - 1 + 1 : s[i] = o[f][1 + i - 1]
        BY <3>1, SubSeqProperties
      <3> HIDE DEF s
      <3>3. Len(s) = k /\ \A i \in 1 .. k : s[i] = o[f][i]
        BY <3>1, <3>2
      <3>4. d[g] = s
        BY <1>1, <2>1 DEF k, s
      <3>5. \A i \in 1 .. k : i \in 1 .. Len(o[f])
        BY <1>3, <3>1
      <3> QED BY <1>3, <2>1, <3>3, <3>4, <3>5 DEF NoNulls
    <2>2. CASE g \in Past(o.type, f)
      BY <1>1, <1>3, <2>2 DEF NoNulls
    <2>3. CASE g \notin Past(o.type, f) \cup {f}
      BY <1>2, <2>3, EmptySeq DEF NoNulls
    <2> QED BY <2>1, <2>2, <2>3
  <1>5. f # "native_tokens" => OwnKept(o.type, d.own, o.own)
    BY <1>1, OwnSelf
  <1> QED BY <1>1, <1>2, <1>4, <1>5 DEF Spent

\* One more object that is no null pointer does not crash the reader.
LEMMA SpentItem ==
  ASSUME NEW o, NEW f \in Lists, rat = f, ReaderHolds(dst, rat, left), Spent(o, f, dst),
         NEW e \in Pointers(f), ~ NullElement(f, e), InsertElement(f, e)
  PROVE  rat' = f /\ Spent(o, f, dst')
  <1> DEFINE es == dst[f]
             SetTo(new) == dst' = [dst EXCEPT ![f] = new]
  <1>1. /\ IsOutput(dst) /\ dst.type = o.type /\ dst.amount \in {o.amount, Zeros(8)}
        /\ \A g \in Lists : NoNulls(dst, g, Len(dst[g]))
        /\ f # "native_tokens" => OwnKept(o.type, dst.own, o.own)
    BY DEF Spent
  <1>2. Held(f, es) /\ es \in Seq(Pointers(f)) /\ Ordered(f, es) /\ Len(es) \in Nat
    BY LenProperties DEF ReaderHolds, Filling, AllHeld, Held
  <1>3. e # nullptr /\ \A i \in 1 .. Len(es) : ~ NullElement(f, es[i]) /\ es[i] # nullptr
    BY <1>1 DEF NoNulls, NullElement
  <1>4. es # << >> => 1 \in 1 .. Len(es)
    <2>1. es # << >> => Len(es) # 0
      BY <1>2, EmptySeq
    <2> QED BY <1>2, <2>1
  <1>5. \/ es = << >> /\ SetTo(<< e >>) /\ rat' = rat
        \/ es # << >> /\ SetTo(Insert(f, es, e)) /\ rat' = rat
    BY <1>3, <1>4 DEF InsertElement
  <1>6. ASSUME NEW new, SetTo(new), new \in Seq(Pointers(f)),
               \A i \in 1 .. Len(new) : ~ NullElement(f, new[i])
        PROVE  Spent(o, f, dst')
    <2>1. ListSet([dst EXCEPT ![f] = new], dst, f, new)
      BY <1>1, <1>6, SetList
    <2>2. ListSet(dst', dst, f, new)
      BY <1>6, <2>1
    <2> HIDE DEF SetTo, es
    <2>3. \A g \in Lists : NoNulls(dst', g, Len(dst'[g]))
      BY <1>1, <1>6, <2>2 DEF ListSet, NoNulls
    <2> QED BY <1>1, <2>2, <2>3 DEF ListSet, Spent
  <1> HIDE DEF es, SetTo
  <1>7. ASSUME SetTo(<< e >>) PROVE Spent(o, f, dst')
    <2> DEFINE s == << e >>
    <2>1. s \in Seq(Pointers(f)) /\ Len(s) = 1 /\ s[1] = e
      OBVIOUS
    <2> HIDE DEF s
    <2>2. \A i \in 1 .. Len(s) : i = 1
      BY <2>1
    <2>3. SetTo(s)
      BY <1>7 DEF s
    <2>4. \A i \in 1 .. Len(s) : ~ NullElement(f, s[i])
      BY <2>1, <2>2
    <2> QED BY ONLY <1>6, <2>1, <2>3, <2>4
  <1>8. ASSUME es # << >>, SetTo(Insert(f, es, e)) PROVE Spent(o, f, dst')
    <2> DEFINE s == Insert(f, es, e)
    <2>1. Sorted(f, es) /\ e \in Member(f)
      BY <1>2, <1>3, <1>4, <1>8, HeldSorted DEF Pointers
    <2>2. /\ Sorted(f, s)
          /\ \A i \in 1 .. Len(s) : s[i] = e \/ \E j \in 1 .. Len(es) : s[i] = es[j]
      BY <2>1, InsertSorted
    <2> HIDE DEF s
    <2>3. s \in Seq(Pointers(f))
      <3>1. s \in Seq(Member(f)) /\ Member(f) \subseteq Pointers(f)
        BY <2>2 DEF Sorted, Pointers
      <3> QED BY <3>1, SeqMonotonic
    <2>4. \A i \in 1 .. Len(s) : ~ NullElement(f, s[i])
      BY <1>3, <2>2
    <2>5. SetTo(s)
      BY <1>8 DEF s
    <2> QED BY ONLY <1>6, <2>3, <2>4, <2>5
  <1> QED BY <1>5, <1>7, <1>8

\* The head of what came gives the kind and the amount, and the stream goes on;
\* or the amount is zero and nothing is left; or not even a kind came.
LEMMA ReadHeadShort ==
  ASSUME NEW o, Sound(o), NEW tail \in Bytes, NEW lost,
         FrontOf(rest, Text(o, tail), lost), ReadHead
  PROVE  Short(o, tail, rest', rat', left', dst', lost) /\ (dst' = nullptr => rest = << >>)
  <1> DEFINE z == Text(o, tail)
             kind(s) == ReadInt(s, 1)
             amount(s) == ReadInt(kind(s).rest, 8)
             count(s) == ReadInt(amount(s).rest, 1)
             made(s) == [type |-> kind(s).v[1], amount |-> amount(s).v, native_tokens |-> << >>,
                         unlock_conditions |-> << >>, features |-> << >>,
                         immutable_features |-> << >>, own |-> << >>]
  <1>1. \/ /\ kind(rest).v[1] \in OutputKinds /\ dst' = made(rest) /\ rest' = count(rest).rest
           /\ left' = ValueOf(count(rest).v) /\ rat' = "native_tokens"
        \/ /\ kind(rest).v[1] \notin OutputKinds /\ dst' = nullptr /\ rest' = kind(rest).rest
           /\ rat' = "done"
    BY DEF ReadHead
  <1>2. Proper(o) /\ o.amount \in Word(8) /\ o.type \in OutputKinds
    BY Fields DEF Sound, Proper
  <1>3. /\ kind(z).v = << o.type >> /\ kind(z).v[1] = o.type /\ amount(z).v = o.amount
    BY <1>2, HeadHere
  <1>4. rest \in Bytes
    BY DEF FrontOf
  <1>5. CASE rest = << >>
    <2>1. kind(rest).v[1] = 0 /\ kind(rest).rest = << >>
      BY <1>5, NoneLeft
    <2>2. 0 \notin OutputKinds
      BY DEF OutputKinds
    <2> HIDE DEF kind, made, count
    <2> QED BY <1>1, <1>5, <2>1, <2>2 DEF Short
  <1>6. CASE rest # << >>
    <2>1. kind(rest).v = kind(z).v /\ FrontOf(kind(rest).rest, kind(z).rest, lost)
      BY <1>6, KindShort
    <2> HIDE DEF kind
    <2>2. \/ amount(rest).v = amount(z).v /\ FrontOf(amount(rest).rest, amount(z).rest, lost)
          \/ amount(rest).v = Zeros(8) /\ amount(rest).rest = << >>
      BY <2>1, IntShort
    <2>3. kind(rest).rest \in Bytes
      BY <2>1 DEF FrontOf
    <2>4. amount(rest).v \in Word(8)
      BY <2>3, IntRead
    <2> HIDE DEF amount
    <2>5. amount(rest).rest = << >> => count(rest).rest = << >>
      BY NoneLeft
    <2>6. FrontOf(amount(rest).rest, amount(z).rest, lost) =>
            \/ count(rest).v = count(z).v /\ FrontOf(count(rest).rest, count(z).rest, lost)
            \/ count(rest).v = Zeros(1) /\ count(rest).rest = << >>
      BY IntShort
    <2>7. /\ dst' = made(rest) /\ rest' = count(rest).rest
          /\ left' = ValueOf(count(rest).v) /\ rat' = "native_tokens"
      BY <1>1, <1>2, <1>3, <2>1
    <2>8. /\ IsOutput(made(rest)) /\ made(rest).type = o.type /\ made(rest).amount = amount(rest).v
          /\ \A f \in Lists : made(rest)[f] = << >>
      <3>1. kind(rest).v[1] = o.type
        BY <1>3, <2>1
      <3> QED BY <1>2, <2>4, <3>1, FirstOutput DEF Lists
    <2>9. made(rest) # nullptr
      BY <2>8, NullAssumption DEF IsOutput
    <2>10. CASE amount(rest).v = amount(z).v /\ count(rest).v = count(z).v
                  /\ FrontOf(count(rest).rest, count(z).rest, lost)
      <3> DEFINE after == count(z).rest
      <3>1. made(rest) = made(z)
        BY <2>1, <2>10
      <3>2. /\ kind(z).v[1] \in OutputKinds /\ dst' = made(z) /\ after = count(z).rest
            /\ left' = ValueOf(count(z).v) /\ rat' = "native_tokens"
        BY <1>2, <1>3, <2>7, <2>10, <3>1
      <3>3. HeadFrom(z, after)
        BY <3>2 DEF HeadFrom, kind, amount, count, made
      <3> HIDE DEF after, made, count, z
      <3>4. Copied(o, tail, after, rat', left', dst')
        BY <3>3, ReadHeadCopy DEF z
      <3>5. FrontOf(rest', after, lost)
        BY <2>7, <2>10 DEF after
      <3> QED BY <2>7, <2>9, <3>4, <3>5 DEF Short
    <2>11. CASE count(rest).rest = << >>
      <3> HIDE DEF made, count
      <3>1. made(rest).amount \in {o.amount, Zeros(8)}
        BY <1>3, <2>2, <2>8
      <3>2. \A f \in Lists : NoNulls(made(rest), f, Len(made(rest)[f]))
        BY <2>8, EmptySeq DEF NoNulls
      <3>3. Spent(o, "native_tokens", made(rest))
        BY <2>8, <3>1, <3>2 DEF Spent
      <3> QED BY <2>7, <2>9, <2>11, <3>3 DEF Short, Lists
    <2> QED BY <2>2, <2>5, <2>6, <2>10, <2>11
  <1> QED BY <1>5, <1>6

\* An object read past the end is no null pointer, and one read at the end is the
\* one that was written or the stream has run out.
LEMMA ReadItemShort ==
  ASSUME NEW o, Sound(o), NEW tail \in Bytes, rest \in Bytes, ReaderHolds(dst, rat, left),
         NEW lost, Short(o, tail, rest, rat, left, dst, lost), NEW f \in Lists, ReadItem(f)
  PROVE  rat' = f /\ Short(o, tail, rest', rat', left', dst', lost)
  <1>1. PICK junk \in Junk : /\ rest' = ReadElement(f, rest, junk).rest
                             /\ InsertElement(f, ReadElement(f, rest, junk).v)
    BY DEF ReadItem
  <1> DEFINE e == ReadElement(f, rest, junk).v
  <1>2. /\ rat = f /\ left > 0 /\ left' = left - 1 /\ left \in Nat /\ Filling(dst, f, left)
    BY RadixAssumption DEF ReadItem, ReaderHolds
  <1>3. e \in Pointers(f)
    BY ElementRead
  <1>4. f # "done"
    BY Place
  <1>5. ASSUME Spent(o, f, dst), ~ NullElement(f, e), rest' = << >>
        PROVE  rat' = f /\ Short(o, tail, rest', rat', left', dst', lost)
    <2> HIDE DEF e
    <2>1. rat' = f /\ Spent(o, f, dst')
      BY <1>1, <1>2, <1>3, <1>5, SpentItem DEF e
    <2> QED BY <1>5, <2>1 DEF Short
  <1>6. ASSUME NEW z, FrontOf(rest, z, lost), Copied(o, tail, z, rat, left, dst)
        PROVE  rat' = f /\ Short(o, tail, rest', rat', left', dst', lost)
    <2> DEFINE a == After(o, f, tail)
               k == Len(o[f]) - left
               zz == ReadElement(f, z, junk).rest
    <2>1. left <= Len(o[f]) /\ z = Remains(f, o[f])[k] \o a
      BY <1>2, <1>6 DEF Copied
    <2>2. /\ ReadElement(f, Remains(f, o[f])[k] \o a, junk) = Got(o[f][k + 1], Remains(f, o[f])[k + 1] \o a)
          /\ ~ NullElement(f, o[f][k + 1])
      BY <1>2, <2>1, ElementHere
    <2>3. ~ NullElement(f, ReadElement(f, z, junk).v)
      BY <2>1, <2>2 DEF Got
    <2>4. /\ ShortRead(ReadElement(f, rest, junk), ReadElement(f, z, junk), lost)
          /\ ~ NullElement(f, e)
      BY <1>6, <2>3, ElementShort
    <2>5. CASE e = ReadElement(f, z, junk).v /\ FrontOf(rest', zz, lost)
      <3>1. ItemFrom(f, z, zz)
        BY <1>1, <1>2, <2>5 DEF ItemFrom
      <3> HIDE DEF zz, a, k
      <3>2. Copied(o, tail, zz, rat', left', dst')
        BY <1>2, <1>6, <3>1, ReadItemCopy
      <3>3. rat' = f
        BY <1>2, <3>1, <3>2, Place DEF Copied, ItemFrom, InsertElement
      <3> QED BY <2>5, <3>2, <3>3 DEF Short
    <2>6. CASE rest' = << >>
      <3>1. Spent(o, f, dst)
        BY <1>2, <1>6, CopiedSpent
      <3> QED BY <1>5, <2>4, <2>6, <3>1
    <2> QED BY <1>1, <2>4, <2>5, <2>6 DEF ShortRead
  <1>7. ASSUME rest = << >>, Spent(o, f, dst)
        PROVE  rat' = f /\ Short(o, tail, rest', rat', left', dst', lost)
    <2>1. ~ NullElement(f, e) /\ rest' = << >>
      BY <1>1, <1>7, NoneLeft, ElementShort
    <2> QED BY <1>5, <1>7, <2>1
  <1> QED BY <1>2, <1>4, <1>6, <1>7 DEF Short

\* The fields of a class that were cut are what they were or zero, and so are the
\* counts of the lists that follow.
LEMMA ReadNextShort ==
  ASSUME NEW o, Sound(o), NEW tail \in Bytes, rest \in Bytes, ReaderHolds(dst, rat, left),
         NEW lost, Short(o, tail, rest, rat, left, dst, lost), NEW f \in Lists, ReadNext(f)
  PROVE  Short(o, tail, rest', rat', left', dst', lost) /\ dst' # nullptr
  <1>1. PICK junk \in Junk :
          /\ dst' = [dst EXCEPT !.own = OwnFrom(f, rest, junk).v]
          /\ \/ rat' = "done" /\ rest' = OwnFrom(f, rest, junk).rest /\ left' = left
             \/ /\ rat' # "done" /\ rest' = ReadInt(OwnFrom(f, rest, junk).rest, 1).rest
                /\ left' = ValueOf(ReadInt(OwnFrom(f, rest, junk).rest, 1).v)
    BY DEF ReadNext, OwnFrom
  <1> DEFINE own(s) == OwnFrom(f, s, junk)
             count(s) == ReadInt(own(s).rest, 1)
  <1>2. /\ rat = f /\ left = 0 /\ left \in Nat /\ rat' = NextList(dst.type, f)
        /\ Filling(dst, f, left) /\ f # "done"
    BY Place DEF ReadNext, ReaderHolds
  <1>3. IsOutput(dst) /\ dst.type \in OutputKinds /\ (dst.type = 3 => f # "immutable_features")
    BY <1>2, Fields DEF Filling
  <1>4. rat' \in Lists \cup {"done"} /\ rat' # "native_tokens"
    BY <1>2, <1>3, PastNext, Place
  <1>5. own(rest).v \in Own(dst.type)
    <2>1. CASE f = "native_tokens"
      BY <1>3, <2>1, OwnRead DEF OwnFrom
    <2>2. CASE f # "native_tokens"
      BY <1>2, <2>2 DEF OwnFrom, Got, Filling, OwnSound
    <2> QED BY <2>1, <2>2
  <1>6. /\ IsOutput(dst') /\ dst'.type = dst.type /\ dst'.amount = dst.amount /\ dst'.own = own(rest).v
        /\ \A h \in Lists : dst'[h] = dst[h]
    <2> HIDE DEF own
    <2>1. LET m == [dst EXCEPT !.own = own(rest).v]
          IN  /\ IsOutput(m) /\ m.type = dst.type /\ m.amount = dst.amount /\ m.own = own(rest).v
              /\ \A h \in Lists : m[h] = dst[h]
      BY <1>3, <1>5, SetOwn
    <2> QED BY <1>1, <2>1 DEF own
  <1>7. dst' # nullptr
    BY <1>6, NullAssumption DEF IsOutput
  <1>8. ASSUME Spent(o, f, dst), OwnKept(o.type, own(rest).v, o.own), rest' = << >>
        PROVE  Short(o, tail, rest', rat', left', dst', lost)
    <2> HIDE DEF own
    <2>1. Spent(o, rat', dst')
      BY <1>6, <1>8 DEF Spent, NoNulls
    <2> QED BY <1>4, <1>8, <2>1 DEF Short
  <1>9. ASSUME own(rest).rest = << >> PROVE rest' = << >>
    BY <1>1, <1>9, NoneLeft
  <1>10. ASSUME NEW z, FrontOf(rest, z, lost), Copied(o, tail, z, rat, left, dst)
         PROVE  Short(o, tail, rest', rat', left', dst', lost)
    <2>1. dst.type = o.type /\ Spent(o, f, dst) /\ (f # "native_tokens" => dst.own = o.own)
      BY <1>2, <1>10, CopiedSpent DEF Copied
    <2>2. ShortRead(own(rest), own(z), lost) /\ OwnKept(o.type, own(rest).v, o.own)
      <3>1. CASE f = "native_tokens"
        <4>1. z = After(o, f, tail)
          <5>1. o[f] \in Seq(Pointers(f)) /\ Len(o[f]) \in Nat
            BY LenProperties DEF Sound
          <5>2. z = Remains(f, o[f])[Len(o[f]) - 0] \o After(o, f, tail)
            BY <1>2, <1>10 DEF Copied
          <5>3. Len(o[f]) - 0 = Len(o[f]) /\ Remains(f, o[f])[Len(o[f])] = << >>
            <6>1. Remains(f, o[f])[Len(o[f])] = << >>
              BY <5>1, RemainsAre
            <6> QED BY <5>1, <6>1
          <5>4. After(o, f, tail) \in Bytes
            <6>1. Proper(o)
              BY DEF Sound
            <6> QED BY <6>1, AfterBytes
          <5>5. << >> \o After(o, f, tail) = After(o, f, tail)
            BY <5>4, ConcatEmptySeq DEF Bytes
          <5> QED BY <5>2, <5>3, <5>5
        <4>2. ReadOwn(o.type, z, junk).v = o.own
          BY <3>1, <4>1, OwnHere
        <4>3. own(rest) = ReadOwn(o.type, rest, junk) /\ own(z) = ReadOwn(o.type, z, junk)
          BY <2>1, <3>1 DEF OwnFrom
        <4>4. /\ ShortRead(ReadOwn(o.type, rest, junk), ReadOwn(o.type, z, junk), lost)
              /\ OwnKept(o.type, ReadOwn(o.type, rest, junk).v, ReadOwn(o.type, z, junk).v)
          BY <1>3, <1>10, <2>1, OwnShort
        <4> HIDE DEF own
        <4> QED BY <4>2, <4>3, <4>4
      <3>2. CASE f # "native_tokens"
        <4>1. own(rest) = Got(dst.own, rest) /\ own(z) = Got(dst.own, z)
          BY <3>2 DEF OwnFrom
        <4> HIDE DEF own
        <4> QED BY <1>10, <2>1, <3>2, <4>1, OwnSelf DEF ShortRead, Got
      <3> QED BY <3>1, <3>2
    <2>3. CASE own(rest).rest = << >>
      <3> HIDE DEF own
      <3> QED BY <1>8, <1>9, <2>1, <2>2, <2>3 DEF own
    <2>4. CASE own(rest).v = own(z).v /\ FrontOf(own(rest).rest, own(z).rest, lost)
      <3>1. \/ count(rest).v = count(z).v /\ FrontOf(count(rest).rest, count(z).rest, lost)
            \/ count(rest).v = Zeros(1) /\ count(rest).rest = << >>
        BY <2>4, IntShort
      <3> DEFINE zz == IF rat' = "done" THEN own(z).rest ELSE count(z).rest
      <3>2. CASE /\ rat' # "done" => count(rest).v = count(z).v
                 /\ FrontOf(rest', zz, lost)
        <4>1. NextFrom(f, z, zz)
          BY <1>1, <1>2, <2>4, <3>2 DEF NextFrom
        <4> HIDE DEF zz, own, count
        <4>2. Copied(o, tail, zz, rat', left', dst')
          BY <1>2, <1>10, <4>1, ReadNextCopy
        <4> QED BY <3>2, <4>2 DEF Short
      <3>3. CASE rat' # "done" /\ count(rest).rest = << >>
        <4>1. rest' = << >>
          BY <1>1, <3>3
        <4> QED BY <1>8, <2>1, <2>2, <4>1
      <3>4. CASE rat' = "done"
        BY <1>1, <2>4, <3>2, <3>4
      <3>5. CASE rat' # "done" /\ count(rest).v = count(z).v /\ FrontOf(count(rest).rest, count(z).rest, lost)
        BY <1>1, <3>2, <3>5
      <3> QED BY <3>1, <3>3, <3>4, <3>5
    <2> QED BY <2>2, <2>3, <2>4 DEF ShortRead
  <1>11. ASSUME rest = << >>, Spent(o, f, dst)
         PROVE  Short(o, tail, rest', rat', left', dst', lost)
    <2>1. dst.type = o.type /\ (f # "native_tokens" => OwnKept(o.type, dst.own, o.own))
      BY <1>11 DEF Spent
    <2>2. own(rest).rest = << >> /\ OwnKept(o.type, own(rest).v, o.own)
      <3>1. CASE f = "native_tokens"
        <4> DEFINE z == WriteOwn(o) \o << >>
        <4>1. Proper(o) /\ o.type \in OutputKinds /\ OwnSound(o) /\ ~ NullOwn(o)
          BY Fields DEF Sound, Proper
        <4>2. ReadOwn(o.type, z, junk) = Got(o.own, << >>)
          BY <4>1, NoTail, OwnBack
        <4>3. z \in Bytes
          BY <4>1, NoTail, OwnWritten, Joined DEF OwnSound
        <4> HIDE DEF z
        <4>4. FrontOf(rest, z, Len(z))
          BY <1>11, <4>3, NoneLeft
        <4>5. /\ ShortRead(ReadOwn(o.type, rest, junk), ReadOwn(o.type, z, junk), Len(z))
              /\ OwnKept(o.type, ReadOwn(o.type, rest, junk).v, ReadOwn(o.type, z, junk).v)
          BY <4>1, <4>4, OwnShort
        <4>6. own(rest) = ReadOwn(o.type, rest, junk)
          BY <2>1, <3>1 DEF OwnFrom
        <4>7. \A s : FrontOf(s, << >>, Len(z)) => s = << >>
          BY EmptySeq, LenProperties DEF FrontOf, Bytes
        <4> HIDE DEF own
        <4> QED BY <4>2, <4>5, <4>6, <4>7 DEF ShortRead, Got
      <3>2. CASE f # "native_tokens"
        <4>1. own(rest) = Got(dst.own, rest)
          BY <3>2 DEF OwnFrom
        <4> QED BY <1>11, <2>1, <3>2, <4>1 DEF Got
      <3> QED BY <3>1, <3>2
    <2> HIDE DEF own
    <2> QED BY <1>8, <1>9, <1>11, <2>2 DEF own
  <1> QED BY <1>2, <1>7, <1>10, <1>11 DEF Short

\* So it is after every step of from_.
LEMMA DeserializeShort ==
  ASSUME NEW o, Sound(o), NEW tail \in Bytes, rest \in Bytes, ReaderHolds(dst, rat, left),
         NEW lost, Short(o, tail, rest, rat, left, dst, lost), Deserialize
  PROVE  Short(o, tail, rest', rat', left', dst', lost)
  <1>1. CASE ReadHead
    <2>1. rat = "head"
      BY <1>1 DEF ReadHead
    <2>2. FrontOf(rest, Text(o, tail), lost)
      BY <2>1, Place DEF Short, Copied
    <2> QED BY <1>1, <2>2, ReadHeadShort
  <1>2. ASSUME NEW f \in Lists, ReadItem(f) PROVE Short(o, tail, rest', rat', left', dst', lost)
    BY <1>2, ReadItemShort
  <1>3. ASSUME NEW f \in Lists, ReadNext(f) PROVE Short(o, tail, rest', rat', left', dst', lost)
    BY <1>3, ReadNextShort
  <1> QED BY <1>1, <1>2, <1>3 DEF Deserialize

\* Of a stream that was cut the reader holds a part of the output that was
\* written, and nothing only where nothing came.
CutInv ==
  /\ rat = "head" => rest = stream
  /\ (rat # "idle" /\ stream \in Cuts /\ Fits(src)) =>
       /\ Short(src, << >>, rest, rat, left, dst, Len(wire) - Len(stream))
       /\ rat \notin {"head", "idle"} /\ dst = nullptr => stream = << >>

\* What came is a front of what was sent.
LEMMA CutFront ==
  ASSUME wire \in Bytes, NEW s \in Cuts
  PROVE  FrontOf(s, wire, Len(wire) - Len(s))
  <1>1. PICK n \in 0 .. Len(wire) - 1 : s = SubSeq(wire, 1, n)
    BY DEF Cuts
  <1>2. Len(wire) \in Nat /\ n \in Nat /\ n <= Len(wire) /\ \A i \in 1 .. n : wire[i] \in Byte
    BY LenProperties, ElementOfSeq DEF Bytes
  <1>3. /\ s \in Seq(Byte) /\ Len(s) = (IF 1 <= n THEN n - 1 + 1 ELSE 0)
        /\ \A i \in 1 .. n - 1 + 1 : s[i] = wire[1 + i - 1]
    BY <1>1, <1>2, SubSeqProperties
  <1>4. Len(s) = n /\ \A i \in 1 .. n : s[i] = wire[i]
    BY <1>2, <1>3
  <1> QED BY <1>2, <1>3, <1>4 DEF FrontOf, Bytes

\* An output that fits and was written has no null pointer.
LEMMA SourceSound ==
  ASSUME Inv, wat = "done", Fits(src)
  PROVE  Sound(src)
  BY SoundWritten, Place DEF Inv, WriterInv, Writing, Complete

\* No step breaks it.
LEMMA CutStep ==
  ASSUME Inv, CutInv, [Next]_vars
  PROVE  CutInv'
  <1>1. CASE vars' = vars
    <2>1. UNCHANGED << src, stream, round, wire, wat, wi, rest, rat, left, dst >>
      BY <1>1 DEF vars, writerVars, readerVars
    <2> QED BY <2>1 DEF CutInv, Cuts
  <1>2. CASE Write
    <2>1. rat' = rat /\ wat # "done"
      BY <1>2, SerializeFrom, Place DEF Write, readerVars
    <2>2. rat = "idle"
      BY <2>1 DEF Inv, ReaderInv
    <2> QED BY <2>1, <2>2 DEF CutInv
  <1>3. CASE Deliver
    <2>1. /\ wat = "done" /\ rest' = stream' /\ rat' = "head"
          /\ UNCHANGED << src, round, wire, wat, wi, left, dst >>
      BY <1>3 DEF Deliver, writerVars
    <2>2. wire \in Bytes /\ wire = Text(src, << >>)
      <3>1. wire \in Bytes /\ wire \o << >> = Text(src, << >>)
        BY <2>1, Place DEF Inv, WriterInv, Writing
      <3> QED BY <3>1, ConcatEmptySeq DEF Bytes
    <2>3. stream' \in Cuts => FrontOf(rest', wire, Len(wire) - Len(stream'))
      BY <2>1, <2>2, CutFront
    <2>4. Copied(src, << >>, wire, "head", left, dst)
      BY <2>2, Place DEF Copied
    <2>5. Cuts' = Cuts /\ src' = src
      BY <2>1 DEF Cuts
    <2> QED BY <2>1, <2>3, <2>4, <2>5 DEF CutInv, Short
  <1>4. CASE Read
    <2> DEFINE lost == Len(wire) - Len(stream)
    <2>1. UNCHANGED << src, stream, round, wire, wat, wi >> /\ Deserialize
      BY <1>4 DEF Read, writerVars
    <2>2. rat \in Lists \cup {"head"} /\ rat' \notin {"idle", "head"}
      BY <2>1, DeserializeFrom
    <2>3. wat = "done" /\ rest \in Bytes /\ ReaderHolds(dst, rat, left) /\ rat # "idle"
      BY <2>2, Place DEF Inv, ReaderInv
    <2> HIDE DEF lost
    <2>4. ASSUME stream \in Cuts, Fits(src)
          PROVE  Short(src, << >>, rest', rat', left', dst', lost) /\ (dst' = nullptr => stream = << >>)
      <3>1. Sound(src) /\ Short(src, << >>, rest, rat, left, dst, lost)
        BY <2>3, <2>4, SourceSound DEF CutInv, lost
      <3>2. CASE ReadHead
        <4>1. rat = "head" /\ rest = stream
          BY <3>2 DEF ReadHead, CutInv
        <4>2. FrontOf(rest, Text(src, << >>), lost)
          BY <3>1, <4>1, Place DEF Short, Copied
        <4> QED BY <3>1, <3>2, <4>1, <4>2, NoTail, ReadHeadShort
      <3>3. ASSUME NEW f \in Lists, ReadItem(f)
            PROVE  Short(src, << >>, rest', rat', left', dst', lost) /\ dst' # nullptr
        <4>1. rat' = f /\ Short(src, << >>, rest', rat', left', dst', lost)
          BY <2>3, <3>1, <3>3, NoTail, ReadItemShort
        <4>2. ReaderHolds(dst', rat', left')
          BY <2>3, <3>3, ReadItemInv
        <4>3. IsOutput(dst')
          BY <4>1, <4>2 DEF ReaderHolds, Filling
        <4> QED BY <4>1, <4>3, NullAssumption DEF IsOutput
      <3>4. ASSUME NEW f \in Lists, ReadNext(f)
            PROVE  Short(src, << >>, rest', rat', left', dst', lost) /\ dst' # nullptr
        BY <2>3, <3>1, <3>4, NoTail, ReadNextShort
      <3> QED BY <2>1, <3>2, <3>3, <3>4 DEF Deserialize
    <2>5. Cuts' = Cuts /\ src' = src /\ stream' = stream /\ wire' = wire
      BY <2>1 DEF Cuts
    <2> QED BY <2>2, <2>4, <2>5 DEF CutInv, lost
  <1>5. CASE CloneReceived
    BY <1>5 DEF CloneReceived, CutInv
  <1>6. CASE Finished
    <2>1. vars' = vars
      BY <1>6 DEF Finished
    <2> QED BY <1>1, <2>1
  <1> QED BY <1>1, <1>2, <1>3, <1>4, <1>5, <1>6 DEF Next

\* The invariant of cut streams, of every behaviour.
LEMMA CutInvariance ==
  Spec => [](Inv /\ CutInv)
  <1>1. Init => CutInv
    BY DEF Init, CutInv
  <1>2. Inv /\ CutInv /\ [Next]_vars => CutInv'
    BY CutStep
  <1> QED BY <1>1, <1>2, Invariance, PTL DEF Spec

\* A stream cut at whatever byte gives amounts, indexes, counters and serial
\* numbers that are as they were sent or zero, never in part: for every output and
\* every cut (QDataStream's operator>>, the constructors from a stream).
THEOREM CutNumbers == Spec => []CutNumbersWholeOrZero
  <1>1. ASSUME Inv, CutInv PROVE CutNumbersWholeOrZero
    <2> SUFFICES ASSUME Cut, Fits(src), dst # nullptr
                 PROVE  /\ dst.amount \in {src.amount, Zeros(8)}
                        /\ rat = "done" =>
                             \A i \in 1 .. Len(Numbers(src)) : Numbers(dst)[i] \in {Numbers(src)[i], Zeros(4)}
      BY DEF CutNumbersWholeOrZero
    <2>1. /\ Short(src, << >>, rest, rat, left, dst, Len(wire) - Len(stream))
          /\ rat \in Lists \cup {"done", "crash"}
      BY <1>1 DEF Cut, CutInv, Inv, ReaderInv, ReaderHolds, Places
    <2>2. CASE \E z : Copied(src, << >>, z, rat, left, dst)
      <3>1. dst.amount = src.amount /\ (rat = "done" => dst = src)
        BY <2>1, <2>2 DEF Copied
      <3> QED BY <3>1
    <2>3. CASE Spent(src, rat, dst)
      <3>1. /\ dst.type = src.type /\ dst.amount \in {src.amount, Zeros(8)}
            /\ rat = "done" => OwnKept(src.type, dst.own, src.own)
        BY <2>3 DEF Spent
      <3>2. ASSUME rat = "done", src.type = 4
            PROVE  \A i \in 1 .. Len(Numbers(src)) : Numbers(dst)[i] \in {Numbers(src)[i], Zeros(4)}
        <4>1. /\ Numbers(src) = << src.own.state_index, src.own.foundry_counter >>
              /\ Numbers(dst) = << dst.own.state_index, dst.own.foundry_counter >>
          BY <3>1, <3>2 DEF Numbers
        <4>2. /\ dst.own.state_index \in {src.own.state_index, Zeros(4)}
              /\ dst.own.foundry_counter \in {src.own.foundry_counter, Zeros(4)}
          BY <3>1, <3>2 DEF OwnKept
        <4> QED BY <4>1, <4>2
      <3>3. ASSUME rat = "done", src.type = 5
            PROVE  \A i \in 1 .. Len(Numbers(src)) : Numbers(dst)[i] \in {Numbers(src)[i], Zeros(4)}
        <4>1. Numbers(src) = << src.own.serial_number >> /\ Numbers(dst) = << dst.own.serial_number >>
          BY <3>1, <3>3 DEF Numbers
        <4>2. dst.own.serial_number \in {src.own.serial_number, Zeros(4)}
          BY <3>1, <3>3 DEF OwnKept
        <4> QED BY <4>1, <4>2
      <3>4. ASSUME src.type \notin {4, 5} PROVE Len(Numbers(src)) = 0
        BY <3>4, EmptySeq DEF Numbers
      <3>5. CASE src.type \notin {4, 5}
        BY <3>1, <3>4, <3>5
      <3> QED BY <3>1, <3>2, <3>3, <3>5
    <2> QED BY <2>1, <2>2, <2>3 DEF Short
  <1> QED BY <1>1, CutInvariance, PTL

\* A stream cut anywhere but before its first byte is read to an object, without a
\* crash and without a null pointer in it: for every output and every cut (the
\* from_ functions, whose kind is zero where the byte is missing).
THEOREM CutObject == Spec => []CutGivesObject
  <1>1. ASSUME Inv, CutInv PROVE CutGivesObject
    <2> SUFFICES ASSUME Cut, Fits(src)
                 PROVE  /\ rat # "crash"
                        /\ (rat = "done" /\ stream # << >>) => (dst # nullptr /\ ~ HasNull(dst))
      BY DEF CutGivesObject
    <2>1. Short(src, << >>, rest, rat, left, dst, Len(wire) - Len(stream)) /\ rat # "idle"
      BY <1>1 DEF Cut, CutInv
    <2>2. rat # "crash"
      BY <2>1, Place DEF Short, Copied
    <2>3. ASSUME rat = "done", stream # << >>
          PROVE  dst # nullptr /\ ~ HasNull(dst)
      <3>1. dst # nullptr
        BY <1>1, <2>1, <2>3 DEF Cut, CutInv
      <3>2. Sound(src)
        BY <1>1, <2>1, SourceSound DEF Inv, ReaderInv
      <3>3. CASE \E z : Copied(src, << >>, z, rat, left, dst)
        <4>1. dst = src
          BY <2>3, <3>3 DEF Copied
        <4> QED BY <3>1, <3>2, <4>1 DEF Sound, HasNull
      <3>4. CASE Spent(src, rat, dst)
        <4>1. \A f \in Lists : NoNulls(dst, f, Len(dst[f]))
          BY <3>4 DEF Spent
        <4>2. ~ NullOwn(dst)
          <5>1. dst.type = src.type /\ OwnKept(src.type, dst.own, src.own) /\ ~ NullOwn(src)
            BY <2>3, <3>2, <3>4 DEF Spent, Sound
          <5> QED BY <5>1 DEF OwnKept, NullOwn
        <4> QED BY <3>1, <4>1, <4>2 DEF HasNull, NoNulls
      <3> QED BY <2>1, <2>3, <3>1, <3>3, <3>4 DEF Short
    <2> QED BY <2>2, <2>3
  <1> QED BY <1>1, CutInvariance, PTL

-----------------------------------------------------------------------------
(***************************************************************************)
(* In memory, where nothing is lost, the codec does what Clone promises.   *)
(***************************************************************************)
InMemory == Lossy = FALSE /\ ForeignStreams = {} /\ \A o \in Outputs : Fits(o)

MemoryInv == Inv /\ (rat # "idle" => stream = wire)

\* In memory the reader reads what was written.
LEMMA MemoryStep ==
  ASSUME InMemory, MemoryInv, [Next]_vars
  PROVE  MemoryInv'
  <1>1. Inv'
    BY InvStep DEF MemoryInv
  <1>2. CASE vars' = vars
    BY <1>2 DEF MemoryInv, vars, writerVars, readerVars, Inv, WriterInv, ReaderInv, CopyInv, RoundInv
  <1>3. CASE Write
    <2>1. wat # "done"
      BY <1>3, Place, SerializeFrom DEF Write
    <2>2. rat' = "idle"
      BY <1>3, <2>1 DEF MemoryInv, Inv, ReaderInv, Write, readerVars
    <2> QED BY <1>1, <2>2 DEF MemoryInv
  <1>4. CASE Deliver
    <2>1. stream' = wire'
      BY <1>4 DEF Deliver, InMemory, writerVars
    <2> QED BY <1>1, <2>1 DEF MemoryInv
  <1>5. CASE Read
    <2>1. rat # "idle"
      BY <1>5, Place, DeserializeFrom DEF Read
    <2>2. stream' = stream /\ wire' = wire
      BY <1>5 DEF Read, writerVars
    <2> QED BY <1>1, <2>1, <2>2 DEF MemoryInv
  <1>6. CASE CloneReceived
    BY <1>1, <1>6 DEF CloneReceived, MemoryInv
  <1>7. CASE Finished
    BY <1>2, <1>7 DEF Finished
  <1> QED BY <1>2, <1>3, <1>4, <1>5, <1>6, <1>7 DEF Next

\* Every step of the codec is a step of Clone or changes nothing the caller
\* sees.
LEMMA MemoryClones ==
  ASSUME InMemory, MemoryInv, MemoryInv', [Next]_vars
  PROVE  [Abstract!Copy \/ Abstract!Again]_<< src, Result >>
  <1>1. CASE vars' = vars
    BY <1>1 DEF vars, writerVars, readerVars, Result
  <1>2. CASE Write
    BY <1>2 DEF Write, readerVars, Result
  <1>3. CASE Deliver
    BY <1>3 DEF Deliver, Result
  <1>4. CASE Read
    <2>1. rat # "idle" /\ rat # "done" /\ rat' # "idle"
      BY <1>4, Place, DeserializeFrom DEF Read
    <2>2. src' = src /\ wat = "done" /\ wat' = "done" /\ stream' = wire'
      BY <1>4, <2>1 DEF MemoryInv, Inv, ReaderInv, Read, writerVars
    <2>3. Fits(src)
      <3>1. CASE round = 1
        BY <3>1 DEF MemoryInv, Inv, RoundInv, InMemory
      <3>2. CASE round = 2
        <4>1. Complete(src)
          BY <2>2, Place DEF MemoryInv, Inv, WriterInv, Writing, Complete
        <4> QED BY <3>2, <4>1, BuiltFits DEF MemoryInv, Inv, RoundInv
      <3> QED BY <3>1, <3>2 DEF MemoryInv, Inv, RoundInv
    <2>4. Fits(src')
      BY <2>2, <2>3
    <2>5. Copied(src', << >>, rest', rat', left', dst')
      BY <2>1, <2>2, <2>4 DEF MemoryInv, Inv, CopyInv
    <2>6. CASE rat' = "done"
      <3>1. dst' = src
        BY <2>2, <2>5, <2>6 DEF Copied
      <3>2. Result = nullptr /\ Result' = src
        BY <2>1, <2>6, <3>1 DEF Result
      <3> QED BY <2>2, <3>2 DEF Abstract!Copy, Result
    <2>7. CASE rat' # "done"
      BY <2>1, <2>2, <2>7 DEF Result
    <2> QED BY <2>6, <2>7
  <1>5. CASE CloneReceived
    BY <1>5 DEF CloneReceived, Result, Abstract!Again
  <1>6. CASE Finished
    BY <1>1, <1>6 DEF Finished
  <1> QED BY <1>1, <1>2, <1>3, <1>4, <1>5, <1>6 DEF Next

\* When nothing is lost and every output fits, the codec implements Clone's
\* safety: the caller gets, in one step, an output equal to the one it asked to
\* copy, and the source is not touched (qoutputs.hpp, Output::clone).
THEOREM CloneRefined ==
  ASSUME InMemory
  PROVE  Spec => Abstract!Init /\ [][Abstract!Copy \/ Abstract!Again]_<< src, Result >>
  <1>1. Init => Abstract!Init /\ MemoryInv
    <2> SUFFICES ASSUME Init PROVE Abstract!Init /\ MemoryInv
      OBVIOUS
    <2>1. rat = "idle"
      BY DEF Init
    <2>2. MemoryInv
      BY <2>1, InvInit DEF MemoryInv
    <2>3. Abstract!Init
      BY <2>1 DEF Abstract!Init, Result
    <2> QED BY <2>2, <2>3
  <1>2. MemoryInv /\ [Next]_vars => MemoryInv'
    BY MemoryStep
  <1>3. MemoryInv /\ MemoryInv' /\ [Next]_vars
          => [Abstract!Copy \/ Abstract!Again]_<< src, Result >>
    BY MemoryClones
  <1> QED BY <1>1, <1>2, <1>3, PTL DEF Spec
=============================================================================
