---------------------------- MODULE BlockProofs -----------------------------
(***************************************************************************)
(* Proofs about BlockCodec, for every set of blocks a client may mean,     *)
(* every set of foreign streams, and every Radix, HashLen and Junk.        *)
(*                                                                         *)
(* BlockInv joins four facts: BlockWriting (the bytes written so far, and  *)
(* those to come, are the text of the block), BlockReading (whatever the   *)
(* stream, what is read so far is a part of a block whose counts fit),     *)
(* ClientInv (what the setters have set) and CopyOfBlock (of the bytes the *)
(* writer wrote, the reader has what was written so far, and has still to  *)
(* read the rest).  Outputs are written and read by steps of OutputCodec,  *)
(* and OutputCodecProofs says what those do when bytes follow an output.   *)
(***************************************************************************)
EXTENDS BlockBytesProofs

-----------------------------------------------------------------------------

(***************************************************************************)
(* The writer of a block, and of a transaction's outputs within it.        *)
(***************************************************************************)
\* Of a transaction: the outputs before bi are written, and output bi is being
\* written, with what follows it still to come.
WritingOutputs ==
  LET p == block.payload
      os == p.essence.outputs
  IN  /\ p \in TransactionPayload /\ p # nullptr /\ ~ NullHead(p)
      /\ out = HeadText(block) /\ bi <= Len(os)
      /\ wat = "idle" => bi = 0 /\ wire \o FromOutputs(p)[0] = PayloadText(p)
      /\ wat # "idle" =>
           /\ bi >= 1 /\ src = os[bi] /\ src # nullptr
           /\ Writing(src, FromOutputs(p)[bi], PayloadText(p), wire, wat, wi)
      /\ \A i \in 1 .. bi - 1 : os[i] # nullptr /\ Complete(os[i])

BlockWriting ==
  /\ block \in BlockObject /\ wire \in Bytes /\ out \in Bytes
  /\ bat \in WriterPlaces /\ bi \in Nat /\ wi \in Nat
  /\ bat = "api" => out = << >> /\ wat = "idle" /\ bi = 0
  /\ bat = "outputs" => WritingOutputs
  /\ bat \in {"close", "nonce", "done"} =>
       PayloadComplete(block.payload) /\ (block.payload # nullptr => wire = PayloadText(block.payload))
  /\ bat = "close" => out = HeadText(block)
  /\ bat = "nonce" => out = HeadText(block) \o PayloadPart(block)
  /\ bat = "done" => out = BlockText(block)

\* The setters change the block before it is written.
LEMMA CallWriting ==
  ASSUME BlockWriting, want \in BlockObject, NEW setter \in Setters, Call(setter)
  PROVE  BlockWriting'
  <1>1. bat = "api" /\ bat' = bat /\ out' = out /\ wire' = wire /\ wat' = wat /\ wi' = wi /\ bi' = bi
    BY DEF Call, vars, writerVars, blockWriterVars
  <1>2. block' \in BlockObject
    <2> DEFINE pv == block.protocol_version
               ps == block.parents
               p == block.payload
               n == block.nonce
               b == BlockOf(pv, ps, p, n)
    <2>1. /\ block = b /\ pv \in Byte /\ ps \in Seq(Bytes) /\ n \in Word(8)
          /\ p \in TaggedData \cup TransactionPayload \cup {nullptr}
      BY BlockFields DEF BlockWriting
    <2>2. /\ want.protocol_version \in Byte /\ want.parents \in Seq(Bytes) /\ want.nonce \in Word(8)
      BY BlockFields
    <2> HIDE DEF pv, ps, p, n
    <2>3. /\ [b EXCEPT !.protocol_version = want.protocol_version] = BlockOf(want.protocol_version, ps, p, n)
          /\ [b EXCEPT !.parents = want.parents] = BlockOf(pv, want.parents, p, n)
          /\ [b EXCEPT !.nonce = want.nonce] = BlockOf(pv, ps, p, want.nonce)
      BY DEF BlockOf
    <2> HIDE DEF b
    <2>4. \/ block' = [b EXCEPT !.protocol_version = want.protocol_version]
          \/ block' = [b EXCEPT !.parents = want.parents]
          \/ block' = [b EXCEPT !.nonce = want.nonce]
      BY <2>1 DEF Call, set_pv, set_parents, set_nonce
    <2> QED BY <2>1, <2>2, <2>3, <2>4 DEF BlockOf, BlockObject
  <1> QED BY <1>1, <1>2 DEF BlockWriting

\* The head of the block, and of a transaction.
LEMMA WriteBlockHeadInv ==
  ASSUME BlockWriting, WriteBlockHead
  PROVE  BlockWriting'
  <1> DEFINE p == block.payload
  <1>1. /\ bat = "api" /\ ~ NullHead(p) /\ out' = HeadText(block)
        /\ block' = block /\ wat' = wat /\ wi' = wi /\ bi' = bi /\ src' = src
    BY DEF WriteBlockHead, HeadText, clientVars
  <1>2. /\ block \in BlockObject /\ wire \in Bytes /\ wat = "idle" /\ bi = 0 /\ wi \in Nat
        /\ bi \in Nat
    BY <1>1 DEF BlockWriting
  <1>3. p \in TaggedData \cup TransactionPayload \cup {nullptr}
    BY <1>2, BlockFields
  <1>4. out' \in Bytes
    BY <1>1, <1>2, HeadTextBytes
  <1>5. CASE p = nullptr
    <2>1. bat' = "close" /\ wire' = wire
      BY <1>5 DEF WriteBlockHead
    <2>2. PayloadComplete(p)
      BY <1>5 DEF PayloadComplete
    <2> QED BY <1>1, <1>2, <1>4, <1>5, <2>1, <2>2 DEF BlockWriting, WriterPlaces
  <1>6. CASE p # nullptr /\ p.type = 5
    <2>1. bat' = "close" /\ wire' = WriteTagged(p)
      BY <1>6 DEF WriteBlockHead
    <2>2. PayloadComplete(p) /\ PayloadText(p) = WriteTagged(p)
      BY <1>6 DEF PayloadComplete, PayloadText
    <2>3. WriteTagged(p) \in Bytes
      BY <1>3, <1>6, PayloadKinds, TaggedBytes
    <2> QED BY <1>1, <1>2, <1>4, <1>6, <2>1, <2>2, <2>3 DEF BlockWriting, WriterPlaces
  <1>7. CASE p # nullptr /\ p.type # 5
    <2>1. p \in TransactionPayload /\ p.type = 6
      BY <1>3, <1>7, PayloadKinds
    <2>2. bat' = "outputs" /\ wire' = quint32(6) \o WriteEssenceHead(p.essence)
      BY <1>7 DEF WriteBlockHead
    <2>3. /\ wire' \in Bytes /\ Len(p.essence.outputs) \in Nat
          /\ wire' \o FromOutputs(p)[0] = PayloadText(p)
      BY <1>1, <1>7, <2>1, <2>2, OutputsBytes
    <2>4. WritingOutputs'
      BY <1>1, <1>2, <1>7, <2>1, <2>3 DEF WritingOutputs
    <2> QED BY <1>1, <1>2, <1>4, <2>2, <2>3, <2>4 DEF BlockWriting, WriterPlaces
  <1> QED BY <1>5, <1>6, <1>7

\* An output that was written to its end is complete.
LEMMA OutputWritten ==
  ASSUME NEW o, NEW tail, NEW total, NEW w, NEW n, Writing(o, tail, total, w, "done", n)
  PROVE  Complete(o) /\ w \o tail = total
  <1>1. "done" \in Places \ {"head", "native_tokens"}
    BY DEF Places
  <1> QED BY <1>1 DEF Writing, Complete

\* Between two outputs, what is to come is the bytes from the next one on.
LEMMA BetweenWritten ==
  ASSUME BlockWriting, BetweenOutputs
  PROVE  LET p == block.payload
             os == p.essence.outputs
         IN  /\ p \in TransactionPayload /\ p # nullptr /\ ~ NullHead(p) /\ bat = "outputs"
             /\ out = HeadText(block) /\ bi \in 0 .. Len(os) /\ Len(os) \in Nat
             /\ wire \o FromOutputs(p)[bi] = PayloadText(p)
             /\ \A i \in 1 .. bi : os[i] # nullptr /\ Complete(os[i])
  <1> DEFINE p == block.payload
             os == p.essence.outputs
  <1>1. /\ p \in TransactionPayload /\ p # nullptr /\ ~ NullHead(p) /\ bat = "outputs"
        /\ out = HeadText(block) /\ bi <= Len(os) /\ bi \in Nat
        /\ wat \in {"idle", "done"}
    BY DEF BlockWriting, BetweenOutputs, WritingOutputs
  <1>2. Len(os) \in Nat
    BY <1>1, OutputsBytes
  <1>3. CASE wat = "idle"
    BY <1>1, <1>2, <1>3 DEF BlockWriting, WritingOutputs
  <1>4. CASE wat = "done"
    <2>1. /\ bi >= 1 /\ src = os[bi] /\ src # nullptr
          /\ Writing(src, FromOutputs(p)[bi], PayloadText(p), wire, "done", wi)
          /\ \A i \in 1 .. bi - 1 : os[i] # nullptr /\ Complete(os[i])
      BY <1>1, <1>4 DEF BlockWriting, WritingOutputs
    <2>2. Complete(src) /\ wire \o FromOutputs(p)[bi] = PayloadText(p)
      BY <2>1, OutputWritten
    <2>3. \A i \in 1 .. bi : os[i] # nullptr /\ Complete(os[i])
      BY <1>1, <2>1, <2>2
    <2> QED BY <1>1, <1>2, <2>2, <2>3
  <1> QED BY <1>1, <1>3, <1>4

\* The next output is begun.
LEMMA WriteOutputInv ==
  ASSUME BlockWriting, WriteOutput
  PROVE  BlockWriting'
  <1> DEFINE p == block.payload
             os == p.essence.outputs
             c == FromOutputs(p)
  <1>1. /\ p \in TransactionPayload /\ p # nullptr /\ ~ NullHead(p) /\ bat = "outputs"
        /\ out = HeadText(block) /\ bi \in 0 .. Len(os) /\ Len(os) \in Nat
        /\ wire \o c[bi] = PayloadText(p)
        /\ \A i \in 1 .. bi : os[i] # nullptr /\ Complete(os[i])
    BY BetweenWritten DEF WriteOutput
  <1>2. /\ bi < Len(os) /\ os[bi + 1] # nullptr /\ src' = os[bi + 1] /\ bi' = bi + 1 /\ wat' = "head"
        /\ wire' = wire /\ wi' = wi /\ out' = out /\ bat' = bat /\ block' = block
    BY DEF WriteOutput, clientVars
  <1>3. block \in BlockObject /\ wire \in Bytes /\ out \in Bytes /\ wi \in Nat
    BY DEF BlockWriting
  <1>4. c[bi] = Text(os[bi + 1], c[bi + 1])
    <2> DEFINE i == bi + 1
    <2>1. i \in 1 .. Len(os) /\ i - 1 = bi /\ os[i] # nullptr
      BY <1>1, <1>2
    <2> HIDE DEF i
    <2>2. c[i - 1] = Text(os[i], c[i])
      BY <1>1, <2>1, OutputsBytes
    <2> QED BY <2>1, <2>2 DEF i
  <1>5. Writing(src', c[bi'], PayloadText(p), wire', wat', wi')
    <2>1. "head" \in Places /\ "head" \notin Lists /\ \A k : Past(k, "head") = {}
      BY DEF Places, Lists, Past
    <2> HIDE DEF c
    <2> QED BY <1>1, <1>2, <1>3, <1>4, <2>1 DEF Writing
  <1>6. \A i \in 1 .. bi' - 1 : os[i] # nullptr /\ Complete(os[i])
    BY <1>1, <1>2
  <1>7. WritingOutputs'
    BY <1>1, <1>2, <1>5, <1>6 DEF WritingOutputs
  <1> QED BY <1>1, <1>2, <1>3, <1>7 DEF BlockWriting

\* A step of the output.
LEMMA WriteWithinInv ==
  ASSUME BlockWriting, bat = "outputs", Write, UNCHANGED << clientVars, blockWriterVars >>
  PROVE  BlockWriting'
  <1> DEFINE p == block.payload
             os == p.essence.outputs
             c == FromOutputs(p)
  <1>1. /\ Serialize /\ src' = src /\ block' = block /\ out' = out /\ bat' = bat /\ bi' = bi
    BY DEF Write, clientVars, blockWriterVars
  <1>2. wat \in Lists \cup {"head"}
    BY <1>1, SerializeFrom
  <1>3. wat # "idle"
    BY <1>2, Place
  <1>4. /\ p \in TransactionPayload /\ p # nullptr /\ ~ NullHead(p)
        /\ out = HeadText(block) /\ bi <= Len(os) /\ bi >= 1 /\ bi \in Nat
        /\ src = os[bi] /\ src # nullptr /\ Writing(src, c[bi], PayloadText(p), wire, wat, wi)
        /\ \A i \in 1 .. bi - 1 : os[i] # nullptr /\ Complete(os[i])
    BY <1>3 DEF BlockWriting, WritingOutputs
  <1>5. Proper(src) /\ c[bi] \in Bytes
    <2>1. bi \in 1 .. Len(os) /\ bi \in 0 .. Len(os)
      BY <1>4, OutputsBytes
    <2> QED BY <1>4, <2>1, OutputsBytes
  <1> DEFINE t == c[bi]
             total == PayloadText(p)
  <1>6. Proper(src) /\ t \in Bytes /\ Writing(src, t, total, wire, wat, wi)
    BY <1>4, <1>5
  <1> HIDE DEF t, total
  <1>7. Writing(src, t, total, wire', wat', wi')
    BY <1>1, <1>6, SerializeInv
  <1>8. wire' \in Bytes /\ wi' \in Nat /\ wat' # "idle"
    BY <1>7, Place DEF Writing
  <1>9. WritingOutputs'
    BY <1>1, <1>4, <1>7, <1>8 DEF WritingOutputs, t, total
  <1> QED BY <1>1, <1>8, <1>9 DEF BlockWriting

\* What follows the outputs.
LEMMA WriteUnlocksInv ==
  ASSUME BlockWriting, WriteUnlocks
  PROVE  BlockWriting'
  <1> DEFINE p == block.payload
             os == p.essence.outputs
             c == FromOutputs(p)
  <1>1. /\ p \in TransactionPayload /\ p # nullptr /\ ~ NullHead(p) /\ bat = "outputs"
        /\ out = HeadText(block) /\ bi \in 0 .. Len(os) /\ Len(os) \in Nat
        /\ wire \o c[bi] = PayloadText(p)
        /\ \A i \in 1 .. bi : os[i] # nullptr /\ Complete(os[i])
    BY BetweenWritten DEF WriteUnlocks
  <1> DEFINE tail == EssenceTail(p.essence)
             n == quint16(Len(p.unlocks))
             all == WriteAll(p.unlocks, WriteUnlock)
  <1>2. /\ bi = Len(os) /\ ~ NullTail(p)
        /\ wire' = ((wire \o tail) \o n) \o all
        /\ bat' = "close" /\ out' = out /\ block' = block /\ wi' = wi /\ bi' = bi
    BY DEF WriteUnlocks, clientVars
  <1>3. block \in BlockObject /\ wire \in Bytes /\ out \in Bytes /\ wi \in Nat
    BY DEF BlockWriting
  <1>4. tail \in Bytes /\ n \in Bytes /\ all \in Bytes
    <2>1. p.essence \in Essence
      BY <1>1, HeadGiven
    <2>2. tail \in Bytes
      BY <1>1, <2>1, TailBytes
    <2>3. /\ UnlockTexts(p) \in Seq(Bytes) /\ Len(p.unlocks) \in Nat
          /\ all = S!FlattenSeq(UnlockTexts(p))
      BY <1>1, <1>2, UnlockTextsAre
    <2>4. all \in Bytes
      BY <2>3, NoTail, Flattened
    <2> QED BY <2>2, <2>3, <2>4, SizeWritten
  <1>5. c[bi] = tail \o (n \o all)
    BY <1>1, <1>2, OutputsBytes DEF TailText, UnlocksText
  <1> HIDE DEF c
  <1>6. wire' = PayloadText(p) /\ wire' \in Bytes
    <2> HIDE DEF tail, n, all
    <2>1. ((wire \o tail) \o n) \o all = wire \o (tail \o (n \o all))
      <3>1. Follows(((wire \o tail) \o n) \o all, wire, tail \o (n \o all))
        BY <1>3, <1>4, Three
      <3> QED BY <3>1 DEF Follows
    <2>2. ((wire \o tail) \o n) \o all \in Bytes
      BY <1>3, <1>4, Joined
    <2> QED BY <1>1, <1>2, <1>5, <2>1, <2>2
  <1>7. PayloadComplete(p)
    BY <1>1, <1>2 DEF PayloadComplete
  <1> HIDE DEF tail, n, all
  <1> QED BY <1>1, <1>2, <1>3, <1>6, <1>7 DEF BlockWriting, WriterPlaces

\* A null pointer that is met ends the program.
LEMMA WriteBlockNullInv ==
  ASSUME BlockWriting, WriteBlockNull
  PROVE  BlockWriting'
  <1>1. /\ bat' = "crash" /\ wire' = wire /\ out' = out /\ block' = block /\ bi' = bi /\ wi' = wi
    BY DEF WriteBlockNull, vars, writerVars, clientVars
  <1> QED BY <1>1 DEF BlockWriting, WriterPlaces

\* The payload, behind its length.
LEMMA WritePayloadInv ==
  ASSUME BlockWriting, WritePayload
  PROVE  BlockWriting'
  <1> DEFINE p == block.payload
  <1>1. /\ bat = "close" /\ bat' = "nonce" /\ wire' = wire /\ block' = block /\ bi' = bi /\ wi' = wi
        /\ out' = out \o (IF p = nullptr THEN quint32(0) ELSE WithLength(wire))
    BY DEF WritePayload, vars, writerVars, clientVars
  <1>2. /\ block \in BlockObject /\ wire \in Bytes /\ out \in Bytes /\ bi \in Nat /\ wi \in Nat
        /\ PayloadComplete(p) /\ (p # nullptr => wire = PayloadText(p))
        /\ out = HeadText(block)
    BY <1>1 DEF BlockWriting
  <1>3. out' = HeadText(block) \o PayloadPart(block)
    BY <1>1, <1>2 DEF PayloadPart
  <1>4. out' \in Bytes
    <2>1. (IF p = nullptr THEN quint32(0) ELSE WithLength(wire)) \in Bytes
      BY <1>2, SizeWritten, LengthBytes
    <2> QED BY <1>1, <1>2, <2>1, Joined
  <1> QED BY <1>1, <1>2, <1>3, <1>4 DEF BlockWriting, WriterPlaces

\* The nonce ends the block.
LEMMA WriteNonceInv ==
  ASSUME BlockWriting, WriteNonce
  PROVE  BlockWriting'
  <1>1. /\ bat = "nonce" /\ bat' = "done" /\ wire' = wire /\ block' = block /\ bi' = bi /\ wi' = wi
        /\ out' = out \o block.nonce
    BY DEF WriteNonce, vars, writerVars, clientVars
  <1>2. /\ block \in BlockObject /\ wire \in Bytes /\ out \in Bytes /\ bi \in Nat /\ wi \in Nat
        /\ PayloadComplete(block.payload)
        /\ (block.payload # nullptr => wire = PayloadText(block.payload))
        /\ out = HeadText(block) \o PayloadPart(block)
    BY <1>1 DEF BlockWriting
  <1>3. out' = BlockText(block)
    BY <1>1, <1>2 DEF BlockText
  <1>4. out' \in Bytes
    <2>1. block.nonce \in Bytes
      BY <1>2, BlockFields, WordIsBytes
    <2> QED BY <1>1, <1>2, <2>1, Joined
  <1> QED BY <1>1, <1>2, <1>3, <1>4 DEF BlockWriting, WriterPlaces

-----------------------------------------------------------------------------
(***************************************************************************)
(* The reader of a block, of whatever stream.                              *)
(***************************************************************************)
\* Of an essence, with i inputs and k outputs to come: its counts and identifiers fit,
\* and each output is null or one that from_ builds.
EssenceRead(e, i, k) ==
  /\ e \in Essence /\ Within(Len(e.inputs) + i, 2) /\ Within(Len(e.outputs) + k, 2)
  /\ \A j \in 1 .. Len(e.outputs) : e.outputs[j] # nullptr => Built(e.outputs[j])
  /\ \A j \in 1 .. Len(e.inputs) : e.inputs[j] # nullptr => InputFits(e.inputs[j])
  /\ e.payload # nullptr => TaggedFits(e.payload)

\* Of a transaction, with u unlocks to come, and of any payload.
TransactionRead(p, u) ==
  /\ p \in TransactionPayload /\ Within(Len(p.unlocks) + u, 2)
  /\ p.essence # nullptr =>
       EssenceRead(p.essence, 0, 0) /\ Len(p.essence.inputs_commitment) = HashLen
  /\ \A j \in 1 .. Len(p.unlocks) : p.unlocks[j] # nullptr => UnlockFits(p.unlocks[j])
PayloadRead(p) == p = nullptr \/ (p \in TaggedData /\ TaggedFits(p)) \/ TransactionRead(p, 0)

BlockReading ==
  /\ stream \in Bytes /\ rest \in Bytes /\ rbat \in ReaderPlaces /\ bleft \in Nat
  /\ ReaderHolds(dst, rat, left) /\ (rbat # "outputs" => rat = "idle")
  /\ rbat \in {"idle", "head"} => got = nullptr
  /\ rbat \notin {"idle", "head"} => got \in BlockObject /\ got.parents \in Seq(Hash)
  /\ rbat = "parents" => got.payload = nullptr /\ Len(got.parents) + bleft < Radix
  /\ rbat \notin {"idle", "head", "parents"} => Len(got.parents) < Radix
  /\ rbat \in {"inputs", "outputs"} => got.payload \in TransactionPayload /\ got.payload.unlocks = << >>
  /\ rbat = "inputs" => /\ EssenceRead(got.payload.essence, bleft, 0)
                        /\ got.payload.essence.outputs = << >>
  /\ rbat = "outputs" => /\ EssenceRead(got.payload.essence, 0, bleft)
                         /\ Len(got.payload.essence.inputs_commitment) = HashLen
                         /\ rat # "idle" => bleft > 0
  /\ rbat = "unlocks" => TransactionRead(got.payload, bleft)
  /\ rbat \in {"nonce", "done"} => PayloadRead(got.payload)

\* An output that was read may be written.
LEMMA BuiltObject ==
  ASSUME NEW o, Built(o)
  PROVE  o \in OutputObject
  <1>1. Proper(o)
    BY DEF Built, AllHeld, Held, OwnSound, Proper
  <1>2. o \in OutputRecord
    BY <1>1 DEF Proper, IsOutput
  <1> QED BY <1>1, <1>2 DEF OutputObject

\* One element less is to come when one more is there.
LEMMA OneMore ==
  ASSUME NEW T, NEW s \in Seq(T), NEW x \in T, NEW n \in Nat, n > 0
  PROVE  /\ Append(s, x) \in Seq(T) /\ Len(s) \in Nat /\ n - 1 \in Nat
         /\ Len(Append(s, x)) + (n - 1) = Len(s) + n
         /\ Len(Append(s, x)) = Len(s) + 1
         /\ \A i \in 1 .. Len(s) : Append(s, x)[i] = s[i]
         /\ Append(s, x)[Len(s) + 1] = x
  <1>1. Len(s) \in Nat
    BY LenProperties
  <1>2. /\ Append(s, x) \in Seq(T) /\ Len(Append(s, x)) = Len(s) + 1
        /\ \A i \in 1 .. Len(s) : Append(s, x)[i] = s[i]
        /\ Append(s, x)[Len(s) + 1] = x
    BY AppendProperties
  <1> QED BY <1>1, <1>2

\* What a step of the block's reader leaves alone.
LEMMA ReaderKeeps ==
  ASSUME NEW place, Reading(place)
  PROVE  /\ rbat = place /\ src' = src /\ stream' = stream /\ round' = round /\ left' = left
         /\ dst' = dst /\ wire' = wire /\ wat' = wat /\ wi' = wi /\ want' = want
         /\ called' = called /\ block' = block /\ out' = out /\ bat' = bat /\ bi' = bi
  BY DEF Reading, writerVars, clientVars, blockWriterVars

\* The version and the count of the parents.
LEMMA ReadBlockHeadInv ==
  ASSUME BlockReading, ReadBlockHead
  PROVE  BlockReading'
  <1> DEFINE pv == ReadInt(rest, 1)
             count == ReadInt(pv.rest, 1)
             v == pv.v[1]
  <1>1. rbat = "head" /\ stream' = stream /\ left' = left /\ dst' = dst /\ rat' = rat
    BY ReaderKeeps DEF ReadBlockHead
  <1>2. /\ got' = BlockOf(v, << >>, nullptr, Zeros(8))
        /\ rest' = count.rest /\ bleft' = ValueOf(count.v) /\ rbat' = "parents"
    BY DEF ReadBlockHead, BlockOf
  <1>3. rest \in Bytes /\ stream \in Bytes /\ ReaderHolds(dst, rat, left) /\ rat = "idle"
    BY <1>1 DEF BlockReading
  <1>4. v \in Byte /\ pv.rest \in Bytes
    BY <1>3, KindRead
  <1> HIDE DEF v
  <1>5. ValueOf(count.v) \in 0 .. Radix - 1 /\ count.rest \in Bytes
    BY <1>4, CountRead
  <1> HIDE DEF pv, count
  <1>6. << >> \in Seq(Bytes) /\ << >> \in Seq(Hash) /\ Len(<< >>) = 0
    BY EmptySeq
  <1>7. Zeros(8) \in Word(8)
    BY RadixAssumption DEF Zeros, Word, Byte
  <1>8. /\ got' \in BlockObject /\ got'.parents = << >> /\ got'.payload = nullptr
    BY <1>2, <1>4, <1>6, <1>7 DEF BlockObject, BlockOf
  <1>9. bleft' \in Nat /\ Len(got'.parents) + bleft' < Radix
    BY <1>2, <1>5, <1>6, <1>8, RadixAssumption
  <1>10. rest' \in Bytes /\ stream' \in Bytes /\ ReaderHolds(dst', rat', left') /\ rat' = "idle"
    BY <1>1, <1>2, <1>3, <1>5
  <1> QED BY <1>2, <1>6, <1>8, <1>9, <1>10 DEF BlockReading, ReaderPlaces

\* One more parent.
LEMMA ReadParentInv ==
  ASSUME BlockReading, ReadParent
  PROVE  BlockReading'
  <1> DEFINE pv == got.protocol_version
             ps == got.parents
             n == got.nonce
             id == ReadRaw(rest, HashLen)
             x == id.v
  <1>1. /\ rbat = "parents" /\ bleft > 0 /\ stream' = stream /\ left' = left /\ dst' = dst
        /\ got' = [got EXCEPT !.parents = Append(@, x)]
        /\ rest' = id.rest /\ bleft' = bleft - 1 /\ rbat' = rbat /\ rat' = rat
    BY ReaderKeeps DEF ReadParent
  <1>2. /\ rest \in Bytes /\ stream \in Bytes /\ ReaderHolds(dst, rat, left) /\ rat = "idle"
        /\ got \in BlockObject /\ ps \in Seq(Hash) /\ got.payload = nullptr /\ bleft \in Nat
        /\ Len(ps) + bleft < Radix
    BY <1>1 DEF BlockReading
  <1>3. x \in Hash /\ id.rest \in Bytes
    BY <1>2, RawRead, Hashes
  <1>4. got = BlockOf(pv, ps, nullptr, n) /\ pv \in Byte /\ n \in Word(8)
    BY <1>2, BlockFields
  <1> HIDE DEF x, id, pv, ps, n
  <1>5. got' = BlockOf(pv, Append(ps, x), nullptr, n)
    BY <1>1, <1>4, BlockSet
  <1>6. /\ Append(ps, x) \in Seq(Hash) /\ Len(ps) \in Nat /\ bleft - 1 \in Nat
        /\ Len(Append(ps, x)) + (bleft - 1) = Len(ps) + bleft
    BY <1>1, <1>2, <1>3, OneMore
  <1>7. Hash \subseteq Bytes
    BY Hashes, WordIsBytes
  <1>8. Seq(Hash) \subseteq Seq(Bytes)
    BY <1>7, SeqMonotonic
  <1>9. /\ got' \in BlockObject /\ got'.parents = Append(ps, x) /\ got'.payload = nullptr
    BY <1>4, <1>5, <1>6, <1>8 DEF BlockObject, BlockOf
  <1> QED BY <1>1, <1>2, <1>3, <1>6, <1>9 DEF BlockReading

\* Blocks, payloads and essences put together from their fields.
LEMMA BlockIs ==
  ASSUME NEW pv \in Byte, NEW ps \in Seq(Hash), NEW n \in Word(8),
         NEW p \in TaggedData \cup TransactionPayload \cup {nullptr}
  PROVE  LET b == BlockOf(pv, ps, p, n)
         IN  b \in BlockObject /\ b.protocol_version = pv /\ b.parents = ps /\ b.payload = p /\ b.nonce = n
  <1>1. Hash \subseteq Bytes
    BY Hashes, WordIsBytes
  <1>2. ps \in Seq(Bytes)
    BY <1>1, SeqMonotonic
  <1> QED BY <1>2 DEF BlockOf, BlockObject

LEMMA PayloadIs ==
  ASSUME NEW e \in Essence \cup {nullptr}, NEW us \in Seq(UnlockObject \cup {nullptr})
  PROVE  LET p == PayloadOf(e, us)
         IN  p \in TransactionPayload /\ p.essence = e /\ p.unlocks = us /\ p.type = 6
  BY DEF PayloadOf, TransactionPayload

LEMMA EssenceIs ==
  ASSUME NEW net \in Word(8), NEW ins \in Seq(Input \cup {nullptr}), NEW ic \in Bytes,
         NEW os \in Seq(OutputObject \cup {nullptr}), NEW p \in TaggedData \cup {nullptr}
  PROVE  LET e == EssenceOf(net, ins, ic, os, p)
         IN  /\ e \in Essence /\ e.network_id = net /\ e.inputs = ins /\ e.inputs_commitment = ic
             /\ e.outputs = os /\ e.payload = p
  BY DEF EssenceOf, Essence

\* A new list is empty and fits.
LEMMA NoElements ==
  /\ \A T : << >> \in Seq(T)
  /\ Len(<< >>) = 0 /\ Within(0, 2) /\ \A n \in Nat : 0 + n = n /\ n + 0 = n
  <1>1. \A T : << >> \in Seq(T) /\ Len(<< >>) = 0
    BY EmptySeq
  <1>2. Within(0, 2)
    BY RadixAssumption DEF Within
  <1> QED BY <1>1, <1>2

\* What the reader of a block holds between two outputs or elsewhere, where no
\* output is being read.
LEMMA Elsewhere ==
  ASSUME BlockReading, rat = "idle"
  PROVE  ReaderHolds(dst, rat, left) /\ stream \in Bytes /\ rest \in Bytes /\ bleft \in Nat
  BY DEF BlockReading

\* The payload, or its beginning.
LEMMA ReadPayloadInv ==
  ASSUME BlockReading, ReadPayload
  PROVE  BlockReading'
  <1> DEFINE pv == got.protocol_version
             ps == got.parents
             n == got.nonce
             length == ReadInt(rest, 4)
             kind == ReadInt(length.rest, 4)
             essence == ReadInt(kind.rest, 1)
             network == ReadInt(essence.rest, 8)
             inputs == ReadInt(network.rest, 2)
             unlocks == ReadInt(essence.rest, 2)
             none == length.v = Zeros(4)
             e0 == EssenceOf(network.v, << >>, << >>, << >>, nullptr)
  <1>1. /\ rbat = "parents" /\ bleft = 0 /\ stream' = stream /\ left' = left /\ dst' = dst
        /\ rat' = rat
    BY ReaderKeeps, SMTT(40) DEF ReadPayload
  <1>2. \/ /\ none /\ rest' = length.rest /\ rbat' = "nonce" /\ got' = got /\ bleft' = bleft
        \/ /\ rbat' = "nonce" /\ bleft' = bleft
           /\ \E junk \in Junk : /\ got' = [got EXCEPT !.payload = ReadTagged(kind.rest, junk).v]
                                 /\ rest' = ReadTagged(kind.rest, junk).rest
        \/ /\ got' = [got EXCEPT !.payload = PayloadOf(e0, << >>)]
           /\ rest' = inputs.rest /\ bleft' = ValueOf(inputs.v) /\ rbat' = "inputs"
        \/ /\ got' = [got EXCEPT !.payload = PayloadOf(nullptr, << >>)]
           /\ rest' = unlocks.rest /\ bleft' = ValueOf(unlocks.v) /\ rbat' = "unlocks"
        \/ /\ rest' = kind.rest /\ rbat' = "nonce" /\ got' = got /\ bleft' = bleft
    BY DEF ReadPayload, AfterUnknown, EssenceOf, PayloadOf
  <1>3. /\ rest \in Bytes /\ stream \in Bytes /\ ReaderHolds(dst, rat, left) /\ rat = "idle"
        /\ got \in BlockObject /\ ps \in Seq(Hash) /\ got.payload = nullptr /\ bleft \in Nat
        /\ Len(ps) + bleft < Radix
    BY <1>1 DEF BlockReading
  <1>4. Len(ps) < Radix
    BY <1>1, <1>3, LenProperties
  <1>5. got = BlockOf(pv, ps, nullptr, n) /\ pv \in Byte /\ n \in Word(8)
    BY <1>3, BlockFields
  <1>6. length.rest \in Bytes
    BY <1>3, IntRead
  <1> HIDE DEF length
  <1>7. kind.rest \in Bytes
    BY <1>6, IntRead
  <1> HIDE DEF kind
  <1>8. essence.rest \in Bytes
    BY <1>7, IntRead
  <1> HIDE DEF essence
  <1>9. network.rest \in Bytes /\ network.v \in Word(8)
    BY <1>8, IntRead
  <1> HIDE DEF network
  <1>10. ValueOf(inputs.v) \in Nat /\ Within(ValueOf(inputs.v), 2) /\ inputs.rest \in Bytes
    BY <1>9, SizeRead
  <1>11. ValueOf(unlocks.v) \in Nat /\ Within(ValueOf(unlocks.v), 2) /\ unlocks.rest \in Bytes
    BY <1>8, SizeRead
  <1> HIDE DEF pv, ps, n, inputs, unlocks, none
  <1>12. \A p : [got EXCEPT !.payload = p] = BlockOf(pv, ps, p, n)
    BY <1>5 DEF BlockOf
  <1>13. stream' \in Bytes /\ ReaderHolds(dst', rat', left') /\ rat' = "idle"
    BY <1>1, <1>3
  <1>14. CASE got' = got /\ rbat' = "nonce" /\ bleft' = bleft /\ rest' \in Bytes
    <2>1. PayloadRead(got'.payload)
      BY <1>3, <1>14 DEF PayloadRead
    <2> QED BY <1>3, <1>4, <1>13, <1>14, <2>1 DEF BlockReading, ReaderPlaces, ps
  <1>15. ASSUME NEW junk \in Junk, got' = [got EXCEPT !.payload = ReadTagged(kind.rest, junk).v],
                rest' = ReadTagged(kind.rest, junk).rest, rbat' = "nonce", bleft' = bleft
         PROVE  BlockReading'
    <2> DEFINE t == ReadTagged(kind.rest, junk)
               b == BlockOf(pv, ps, t.v, n)
    <2>1. t.v \in TaggedData /\ TaggedFits(t.v) /\ t.rest \in Bytes
      BY <1>7, TaggedRead
    <2>2. got' = b /\ rest' = t.rest
      BY <1>12, <1>15
    <2> HIDE DEF t
    <2>3. b \in BlockObject /\ b.parents = ps /\ b.payload = t.v
      BY <1>3, <1>5, <2>1, BlockIs
    <2> HIDE DEF b
    <2>4. PayloadRead(t.v)
      BY <2>1 DEF PayloadRead
    <2> QED BY <1>3, <1>4, <1>13, <1>15, <2>1, <2>2, <2>3, <2>4 DEF BlockReading, ReaderPlaces
  <1>16. CASE /\ got' = [got EXCEPT !.payload = PayloadOf(e0, << >>)]
              /\ rest' = inputs.rest /\ bleft' = ValueOf(inputs.v) /\ rbat' = "inputs"
    <2> DEFINE p0 == PayloadOf(e0, << >>)
               b == BlockOf(pv, ps, p0, n)
    <2>1. /\ << >> \in Bytes /\ << >> \in Seq(Input \cup {nullptr})
          /\ << >> \in Seq(OutputObject \cup {nullptr}) /\ << >> \in Seq(UnlockObject \cup {nullptr})
      BY NoTail, NoElements
    <2>2. /\ e0 \in Essence /\ e0.inputs = << >> /\ e0.outputs = << >> /\ e0.payload = nullptr
      BY <1>9, <2>1 DEF Essence, EssenceOf
    <2> HIDE DEF e0
    <2>3. p0 \in TransactionPayload /\ p0.essence = e0 /\ p0.unlocks = << >>
      BY <2>1, <2>2 DEF TransactionPayload, PayloadOf
    <2>4. EssenceRead(e0, ValueOf(inputs.v), 0)
      BY <1>10, <2>2, NoElements DEF EssenceRead
    <2> HIDE DEF p0
    <2>5. got' = b
      BY <1>12, <1>16 DEF p0
    <2>6. b \in BlockObject /\ b.parents = ps /\ b.payload = p0
      BY <1>3, <1>5, <2>3, BlockIs
    <2> HIDE DEF b
    <2> QED BY <1>3, <1>4, <1>10, <1>13, <1>16, <2>2, <2>3, <2>4, <2>5, <2>6 DEF BlockReading, ReaderPlaces
  <1>17. CASE /\ got' = [got EXCEPT !.payload = PayloadOf(nullptr, << >>)]
              /\ rest' = unlocks.rest /\ bleft' = ValueOf(unlocks.v) /\ rbat' = "unlocks"
    <2> DEFINE p0 == PayloadOf(nullptr, << >>)
               b == BlockOf(pv, ps, p0, n)
    <2>1. p0 \in TransactionPayload /\ p0.essence = nullptr /\ p0.unlocks = << >>
      BY NoElements, PayloadIs, ZenonT(60)
    <2>2. TransactionRead(p0, ValueOf(unlocks.v))
      BY <1>11, <2>1, NoElements DEF TransactionRead
    <2> HIDE DEF p0
    <2>3. got' = b
      BY <1>12, <1>17 DEF p0
    <2>4. b \in BlockObject /\ b.parents = ps /\ b.payload = p0
      BY <1>3, <1>5, <2>1, BlockIs
    <2> HIDE DEF b
    <2> QED BY <1>3, <1>4, <1>11, <1>13, <1>17, <2>1, <2>2, <2>3, <2>4 DEF BlockReading, ReaderPlaces
  <1> HIDE DEF e0
  <1> QED BY <1>2, <1>6, <1>7, <1>14, <1>15, <1>16, <1>17

\* While an essence is read, the block has one.
LEMMA GotEssence ==
  ASSUME BlockReading, rbat \in {"inputs", "outputs"}
  PROVE  LET e == got.payload.essence
         IN  /\ got = BlockOf(got.protocol_version, got.parents,
                              PayloadOf(EssenceOf(e.network_id, e.inputs, e.inputs_commitment,
                                                  e.outputs, e.payload), << >>), got.nonce)
             /\ got.protocol_version \in Byte /\ got.parents \in Seq(Hash) /\ got.nonce \in Word(8)
             /\ Len(got.parents) < Radix
             /\ e.network_id \in Word(8) /\ e.inputs \in Seq(Input \cup {nullptr})
             /\ e.inputs_commitment \in Bytes /\ e.outputs \in Seq(OutputObject \cup {nullptr})
             /\ e.payload \in TaggedData \cup {nullptr}
             /\ stream \in Bytes /\ rest \in Bytes /\ bleft \in Nat /\ ReaderHolds(dst, rat, left)
  <1> DEFINE p == got.payload
             e == p.essence
  <1>1. /\ got \in BlockObject /\ got.parents \in Seq(Hash) /\ Len(got.parents) < Radix
        /\ p \in TransactionPayload /\ p.unlocks = << >> /\ e \in Essence
        /\ stream \in Bytes /\ rest \in Bytes /\ bleft \in Nat /\ ReaderHolds(dst, rat, left)
    BY DEF BlockReading, EssenceRead
  <1>2. /\ got = BlockOf(got.protocol_version, got.parents, p, got.nonce)
        /\ got.protocol_version \in Byte /\ got.nonce \in Word(8)
    BY <1>1, BlockFields
  <1>3. p = PayloadOf(e, << >>)
    BY <1>1, PayloadFields
  <1>4. /\ e = EssenceOf(e.network_id, e.inputs, e.inputs_commitment, e.outputs, e.payload)
        /\ e.network_id \in Word(8) /\ e.inputs \in Seq(Input \cup {nullptr})
        /\ e.inputs_commitment \in Bytes /\ e.outputs \in Seq(OutputObject \cup {nullptr})
        /\ e.payload \in TaggedData \cup {nullptr}
    BY <1>1, EssenceFields
  <1> HIDE DEF p, e
  <1>5. got = BlockOf(got.protocol_version, got.parents,
                      PayloadOf(EssenceOf(e.network_id, e.inputs, e.inputs_commitment,
                                          e.outputs, e.payload), << >>), got.nonce)
    BY <1>2, <1>3, <1>4
  <1> QED BY <1>1, <1>2, <1>4, <1>5 DEF p, e

\* A block with another essence.
LEMMA WithEssence ==
  ASSUME NEW pv \in Byte, NEW ps \in Seq(Hash), NEW n \in Word(8), NEW e \in Essence
  PROVE  LET b == BlockOf(pv, ps, PayloadOf(e, << >>), n)
         IN  /\ b \in BlockObject /\ b.parents = ps /\ b.payload \in TransactionPayload
             /\ b.payload.unlocks = << >> /\ b.payload.essence = e
  <1> DEFINE p == PayloadOf(e, << >>)
  <1>1. << >> \in Seq(UnlockObject \cup {nullptr})
    BY NoElements
  <1>2. p \in TransactionPayload /\ p.unlocks = << >> /\ p.essence = e
    BY <1>1, PayloadIs
  <1> HIDE DEF p
  <1>3. LET b == BlockOf(pv, ps, p, n) IN b \in BlockObject /\ b.parents = ps /\ b.payload = p
    BY <1>2, BlockIs
  <1> QED BY <1>2, <1>3 DEF p

\* One more input.
LEMMA ReadOneInputInv ==
  ASSUME BlockReading, ReadOneInput
  PROVE  BlockReading'
  <1> DEFINE pv == got.protocol_version
             ps == got.parents
             n == got.nonce
             e == got.payload.essence
             net == e.network_id
             ins == e.inputs
             ic == e.inputs_commitment
             os == e.outputs
             ep == e.payload
             input == ReadInput(rest)
             x == input.v
             e1 == EssenceOf(net, Append(ins, x), ic, os, ep)
             b == BlockOf(pv, ps, PayloadOf(e1, << >>), n)
  <1>1. /\ rbat = "inputs" /\ bleft > 0 /\ stream' = stream /\ left' = left /\ dst' = dst
        /\ got' = [got EXCEPT !.payload.essence.inputs = Append(@, x)]
        /\ rest' = input.rest /\ bleft' = bleft - 1 /\ rbat' = rbat /\ rat' = rat
    BY ReaderKeeps DEF ReadOneInput
  <1>2. /\ got = BlockOf(pv, ps, PayloadOf(EssenceOf(net, ins, ic, os, ep), << >>), n)
        /\ pv \in Byte /\ ps \in Seq(Hash) /\ n \in Word(8) /\ Len(ps) < Radix
        /\ net \in Word(8) /\ ins \in Seq(Input \cup {nullptr}) /\ ic \in Bytes
        /\ os \in Seq(OutputObject \cup {nullptr}) /\ ep \in TaggedData \cup {nullptr}
        /\ stream \in Bytes /\ rest \in Bytes /\ bleft \in Nat /\ ReaderHolds(dst, rat, left)
    BY <1>1, GotEssence
  <1>3. /\ EssenceRead(e, bleft, 0) /\ rat = "idle" /\ os = << >>
    BY <1>1 DEF BlockReading
  <1>4. /\ x \in Input \cup {nullptr} /\ input.rest \in Bytes
        /\ x # nullptr => InputFits(x)
    BY <1>2, InputRead
  <1> HIDE DEF x, input, pv, ps, n, net, ins, ic, os, ep
  <1>5. got' = b
    BY <1>1, <1>2, EssenceSet
  <1>6. /\ Append(ins, x) \in Seq(Input \cup {nullptr}) /\ bleft - 1 \in Nat
        /\ Len(Append(ins, x)) + (bleft - 1) = Len(ins) + bleft
        /\ Len(ins) \in Nat /\ Len(Append(ins, x)) = Len(ins) + 1
        /\ \A i \in 1 .. Len(ins) : Append(ins, x)[i] = ins[i]
        /\ Append(ins, x)[Len(ins) + 1] = x
    BY <1>1, <1>2, <1>4, OneMore
  <1>7. e1 \in Essence /\ e1.inputs = Append(ins, x) /\ e1.outputs = os /\ e1.payload = ep
    BY <1>2, <1>6, SMTT(40) DEF Essence, EssenceOf
  <1>8. EssenceRead(e1, bleft - 1, 0)
    <2>1. \A j \in 1 .. Len(ins) : ins[j] # nullptr => InputFits(ins[j])
      BY <1>3 DEF EssenceRead, ins
    <2>2. \A j \in 1 .. Len(Append(ins, x)) :
            Append(ins, x)[j] # nullptr => InputFits(Append(ins, x)[j])
      <3> SUFFICES ASSUME NEW j \in 1 .. Len(ins) + 1
                   PROVE  Append(ins, x)[j] # nullptr => InputFits(Append(ins, x)[j])
        BY <1>6
      <3>1. CASE j \in 1 .. Len(ins)
        BY <1>6, <2>1, <3>1
      <3>2. CASE j = Len(ins) + 1
        BY <1>4, <1>6, <3>2
      <3> QED BY <1>6, <3>1, <3>2
    <2> QED BY <1>3, <1>6, <1>7, <2>2 DEF EssenceRead, ins, os, ep
  <1> HIDE DEF e1
  <1>9. /\ b \in BlockObject /\ b.parents = ps /\ b.payload \in TransactionPayload
        /\ b.payload.unlocks = << >> /\ b.payload.essence = e1
    BY <1>2, <1>7, WithEssence
  <1> HIDE DEF b, e
  <1> QED BY <1>1, <1>2, <1>3, <1>4, <1>5, <1>6, <1>7, <1>8, <1>9 DEF BlockReading

\* The commitment and the count of the outputs.
LEMMA ReadCommitmentInv ==
  ASSUME BlockReading, ReadCommitment
  PROVE  BlockReading'
  <1> DEFINE pv == got.protocol_version
             ps == got.parents
             n == got.nonce
             e == got.payload.essence
             net == e.network_id
             ins == e.inputs
             ic == e.inputs_commitment
             os == e.outputs
             ep == e.payload
             commitment == ReadRaw(rest, HashLen)
             count == ReadInt(commitment.rest, 2)
             x == commitment.v
             k == ValueOf(count.v)
             e1 == EssenceOf(net, ins, x, os, ep)
             b == BlockOf(pv, ps, PayloadOf(e1, << >>), n)
  <1>1. /\ rbat = "inputs" /\ bleft = 0 /\ stream' = stream /\ left' = left /\ dst' = dst
        /\ got' = [got EXCEPT !.payload.essence.inputs_commitment = x]
        /\ rest' = count.rest /\ bleft' = k /\ rbat' = "outputs" /\ rat' = rat
    BY ReaderKeeps DEF ReadCommitment
  <1>2. /\ got = BlockOf(pv, ps, PayloadOf(EssenceOf(net, ins, ic, os, ep), << >>), n)
        /\ pv \in Byte /\ ps \in Seq(Hash) /\ n \in Word(8) /\ Len(ps) < Radix
        /\ net \in Word(8) /\ ins \in Seq(Input \cup {nullptr}) /\ ic \in Bytes
        /\ os \in Seq(OutputObject \cup {nullptr}) /\ ep \in TaggedData \cup {nullptr}
        /\ stream \in Bytes /\ rest \in Bytes /\ bleft \in Nat /\ ReaderHolds(dst, rat, left)
    BY <1>1, GotEssence
  <1>3. /\ EssenceRead(e, bleft, 0) /\ rat = "idle" /\ os = << >>
    BY <1>1 DEF BlockReading
  <1>4. x \in Hash /\ commitment.rest \in Bytes
    BY <1>2, RawRead, Hashes
  <1> HIDE DEF x, commitment
  <1>5. k \in Nat /\ Within(k, 2) /\ count.rest \in Bytes
    BY <1>4, SizeRead
  <1>6. x \in Bytes /\ Len(x) = HashLen
    BY <1>4, Hashes, WordIsBytes
  <1> HIDE DEF k, count, pv, ps, n, net, ins, ic, os, ep
  <1>7. got' = b
    <2>1. \A y : [BlockOf(pv, ps, PayloadOf(EssenceOf(net, ins, ic, os, ep), << >>), n)
                   EXCEPT !.payload.essence.inputs_commitment = y]
                  = BlockOf(pv, ps, PayloadOf(EssenceOf(net, ins, y, os, ep), << >>), n)
      BY DEF BlockOf, PayloadOf, EssenceOf
    <2> QED BY <1>1, <1>2, <2>1
  <1>8. /\ e1 \in Essence /\ e1.inputs = ins /\ e1.outputs = << >> /\ e1.payload = ep
        /\ e1.inputs_commitment = x
    BY <1>2, <1>3, <1>6 DEF Essence, EssenceOf
  <1>9. EssenceRead(e1, 0, k)
    <2>1. Len(ins) \in Nat /\ Within(Len(ins) + 0, 2)
      BY <1>1, <1>2, <1>3, LenProperties DEF EssenceRead, ins
    <2>2. Len(<< >>) = 0 /\ 0 + k = k
      BY <1>5, NoElements
    <2>3. \A j \in 1 .. Len(<< >>) : FALSE
      BY <2>2
    <2>4. /\ ep # nullptr => TaggedFits(ep)
          /\ \A j \in 1 .. Len(ins) : ins[j] # nullptr => InputFits(ins[j])
      BY <1>3 DEF EssenceRead, ep, ins
    <2> QED BY <1>5, <1>8, <2>1, <2>2, <2>3, <2>4 DEF EssenceRead
  <1> HIDE DEF e1
  <1>10. /\ b \in BlockObject /\ b.parents = ps /\ b.payload \in TransactionPayload
         /\ b.payload.unlocks = << >> /\ b.payload.essence = e1
    BY <1>2, <1>8, WithEssence
  <1> HIDE DEF b, e
  <1> QED BY <1>1, <1>2, <1>3, <1>5, <1>6, <1>7, <1>8, <1>9, <1>10 DEF BlockReading, ReaderPlaces

\* An output is begun.
LEMMA ReadOutputInv ==
  ASSUME BlockReading, ReadOutput
  PROVE  BlockReading'
  <1>1. /\ rbat = "outputs" /\ rat = "idle" /\ bleft > 0 /\ stream' = stream /\ left' = left /\ dst' = dst
        /\ rat' = "head" /\ rest' = rest /\ got' = got /\ rbat' = rbat /\ bleft' = bleft
    BY ReaderKeeps DEF ReadOutput, blockReaderVars
  <1>2. ReaderHolds(dst', rat', left')
    <2>1. left' \in 0 .. Radix - 1 /\ rat' = "head"
      BY <1>1 DEF BlockReading, ReaderHolds
    <2> QED BY <2>1, Place DEF ReaderHolds
  <1> QED BY <1>1, <1>2 DEF BlockReading

\* The output that from_ gave joins the others.
LEMMA TakeOutputInv ==
  ASSUME BlockReading, TakeOutput
  PROVE  BlockReading'
  <1> DEFINE pv == got.protocol_version
             ps == got.parents
             n == got.nonce
             e == got.payload.essence
             net == e.network_id
             ins == e.inputs
             ic == e.inputs_commitment
             os == e.outputs
             ep == e.payload
             e1 == EssenceOf(net, ins, ic, Append(os, dst), ep)
             b == BlockOf(pv, ps, PayloadOf(e1, << >>), n)
  <1>1. /\ rbat = "outputs" /\ rat = "done" /\ stream' = stream /\ left' = left /\ dst' = dst
        /\ got' = [got EXCEPT !.payload.essence.outputs = Append(@, dst)]
        /\ rest' = rest /\ bleft' = bleft - 1 /\ rbat' = rbat /\ rat' = "idle"
    BY ReaderKeeps DEF TakeOutput
  <1>2. /\ got = BlockOf(pv, ps, PayloadOf(EssenceOf(net, ins, ic, os, ep), << >>), n)
        /\ pv \in Byte /\ ps \in Seq(Hash) /\ n \in Word(8) /\ Len(ps) < Radix
        /\ net \in Word(8) /\ ins \in Seq(Input \cup {nullptr}) /\ ic \in Bytes
        /\ os \in Seq(OutputObject \cup {nullptr}) /\ ep \in TaggedData \cup {nullptr}
        /\ stream \in Bytes /\ rest \in Bytes /\ bleft \in Nat /\ ReaderHolds(dst, rat, left)
    BY <1>1, GotEssence
  <1>3. /\ EssenceRead(e, 0, bleft) /\ bleft > 0 /\ Len(ic) = HashLen
    BY <1>1 DEF BlockReading
  <1>4. dst = nullptr \/ Built(dst)
    BY <1>1, <1>2 DEF ReaderHolds
  <1>5. dst \in OutputObject \cup {nullptr}
    BY <1>4, BuiltObject
  <1> HIDE DEF pv, ps, n, net, ins, ic, os, ep
  <1>6. got' = b
    <2>1. \A y : [BlockOf(pv, ps, PayloadOf(EssenceOf(net, ins, ic, os, ep), << >>), n)
                   EXCEPT !.payload.essence.outputs = y]
                  = BlockOf(pv, ps, PayloadOf(EssenceOf(net, ins, ic, y, ep), << >>), n)
      BY DEF BlockOf, PayloadOf, EssenceOf
    <2>2. got.payload.essence.outputs = os
      BY DEF os
    <2>3. got' = [got EXCEPT !.payload.essence.outputs = Append(os, dst)]
      BY <1>1, <2>2
    <2> QED BY <1>2, <2>1, <2>3
  <1>7. /\ Append(os, dst) \in Seq(OutputObject \cup {nullptr}) /\ bleft - 1 \in Nat
        /\ Len(Append(os, dst)) + (bleft - 1) = Len(os) + bleft
        /\ Len(os) \in Nat /\ Len(Append(os, dst)) = Len(os) + 1
        /\ \A i \in 1 .. Len(os) : Append(os, dst)[i] = os[i]
        /\ Append(os, dst)[Len(os) + 1] = dst
    BY <1>2, <1>3, <1>5, OneMore
  <1>8. /\ e1 \in Essence /\ e1.inputs = ins /\ e1.outputs = Append(os, dst) /\ e1.payload = ep
        /\ e1.inputs_commitment = ic
    BY <1>2, <1>7, SMTT(40) DEF Essence, EssenceOf
  <1>9. EssenceRead(e1, 0, bleft - 1)
    <2>1. \A j \in 1 .. Len(os) : os[j] # nullptr => Built(os[j])
      BY <1>3 DEF EssenceRead, os
    <2>2. \A j \in 1 .. Len(Append(os, dst)) : Append(os, dst)[j] # nullptr => Built(Append(os, dst)[j])
      <3> SUFFICES ASSUME NEW j \in 1 .. Len(os) + 1
                   PROVE  Append(os, dst)[j] # nullptr => Built(Append(os, dst)[j])
        BY <1>7
      <3>1. CASE j \in 1 .. Len(os)
        BY <1>7, <2>1, <3>1
      <3>2. CASE j = Len(os) + 1
        BY <1>4, <1>7, <3>2
      <3> QED BY <1>7, <3>1, <3>2
    <2> QED BY <1>3, <1>7, <1>8, <2>2 DEF EssenceRead, ins, os, ep
  <1> HIDE DEF e1
  <1>10. /\ b \in BlockObject /\ b.parents = ps /\ b.payload \in TransactionPayload
         /\ b.payload.unlocks = << >> /\ b.payload.essence = e1
    BY <1>2, <1>8, WithEssence
  <1>11. ReaderHolds(dst', rat', left')
    <2>1. left' \in 0 .. Radix - 1 /\ rat' = "idle"
      BY <1>1, <1>2 DEF ReaderHolds
    <2> QED BY <2>1, Place DEF ReaderHolds
  <1> HIDE DEF b, e
  <1> QED BY <1>1, <1>2, <1>3, <1>6, <1>7, <1>8, <1>9, <1>10, <1>11 DEF BlockReading

\* The payload of an essence and the count of the unlocks.
LEMMA ReadEssencePayloadInv ==
  ASSUME BlockReading, ReadEssencePayload
  PROVE  BlockReading'
  <1> DEFINE pv == got.protocol_version
             ps == got.parents
             n == got.nonce
             e == got.payload.essence
             net == e.network_id
             ins == e.inputs
             ic == e.inputs_commitment
             os == e.outputs
             ep == e.payload
             length == ReadInt(rest, 4)
             kind == ReadInt(length.rest, 4)
             none == length.v = Zeros(4)
             known == kind.v = quint32(5)
             Tagged(junk) == ReadTagged(kind.rest, junk)
             X(junk) == IF ~ none /\ known THEN Tagged(junk).v ELSE nullptr
             Past1(junk) == IF none THEN length.rest ELSE IF known THEN Tagged(junk).rest ELSE kind.rest
             Unlocks(junk) == ReadInt(Past1(junk), 2)
  <1>1. /\ rbat = "outputs" /\ rat = "idle" /\ bleft = 0 /\ stream' = stream /\ left' = left /\ dst' = dst
        /\ rbat' = "unlocks" /\ rat' = rat
    BY ReaderKeeps DEF ReadEssencePayload
  <1>2. PICK junk \in Junk :
          /\ got' = [got EXCEPT !.payload.essence.payload = X(junk)]
          /\ rest' = Unlocks(junk).rest /\ bleft' = ValueOf(Unlocks(junk).v)
    BY DEF ReadEssencePayload, AfterUnknown
  <1> DEFINE tagged == Tagged(junk)
             x == X(junk)
             past == Past1(junk)
             unlocks == Unlocks(junk)
             k == ValueOf(unlocks.v)
             e1 == EssenceOf(net, ins, ic, os, x)
             p1 == PayloadOf(e1, << >>)
             b == BlockOf(pv, ps, p1, n)
  <1>3. /\ got = BlockOf(pv, ps, PayloadOf(EssenceOf(net, ins, ic, os, ep), << >>), n)
        /\ pv \in Byte /\ ps \in Seq(Hash) /\ n \in Word(8) /\ Len(ps) < Radix
        /\ net \in Word(8) /\ ins \in Seq(Input \cup {nullptr}) /\ ic \in Bytes
        /\ os \in Seq(OutputObject \cup {nullptr}) /\ ep \in TaggedData \cup {nullptr}
        /\ stream \in Bytes /\ rest \in Bytes /\ bleft \in Nat /\ ReaderHolds(dst, rat, left)
    BY <1>1, GotEssence
  <1>4. EssenceRead(e, 0, 0) /\ Len(ic) = HashLen
    BY <1>1 DEF BlockReading
  <1>5. length.rest \in Bytes
    BY <1>3, IntRead
  <1> HIDE DEF length
  <1>6. kind.rest \in Bytes
    BY <1>5, IntRead
  <1> HIDE DEF kind
  <1>7. tagged.v \in TaggedData /\ TaggedFits(tagged.v) /\ tagged.rest \in Bytes
    BY <1>6, TaggedRead
  <1> HIDE DEF tagged
  <1>8. x \in TaggedData \cup {nullptr} /\ (x # nullptr => TaggedFits(x)) /\ past \in Bytes
    <2>1. x = (IF ~ none /\ known THEN tagged.v ELSE nullptr)
      BY DEF tagged
    <2>2. past = (IF none THEN length.rest ELSE IF known THEN tagged.rest ELSE kind.rest)
      BY DEF tagged
    <2> HIDE DEF x, past
    <2> QED BY <1>5, <1>6, <1>7, <2>1, <2>2
  <1>9. got' = [got EXCEPT !.payload.essence.payload = x] /\ rest' = unlocks.rest /\ bleft' = k
    BY <1>2
  <1>10. unlocks = ReadInt(past, 2)
    OBVIOUS
  <1> HIDE DEF x, past, unlocks
  <1>11. k \in Nat /\ Within(k, 2) /\ unlocks.rest \in Bytes
    BY <1>8, <1>10, SizeRead
  <1> HIDE DEF k, pv, ps, n, net, ins, ic, os, ep
  <1>12. got' = b
    <2>1. \A y : [BlockOf(pv, ps, PayloadOf(EssenceOf(net, ins, ic, os, ep), << >>), n)
                   EXCEPT !.payload.essence.payload = y]
                  = BlockOf(pv, ps, PayloadOf(EssenceOf(net, ins, ic, os, y), << >>), n)
      BY DEF BlockOf, PayloadOf, EssenceOf
    <2> QED BY <1>3, <1>9, <2>1
  <1>13. /\ e1 \in Essence /\ e1.inputs = ins /\ e1.outputs = os /\ e1.payload = x
         /\ e1.inputs_commitment = ic
    BY <1>3, <1>8 DEF Essence, EssenceOf
  <1>14. EssenceRead(e1, 0, 0) /\ Len(e1.inputs_commitment) = HashLen
    BY <1>4, <1>8, <1>13 DEF EssenceRead, ins, os, ic
  <1> HIDE DEF e1
  <1>15. p1 \in TransactionPayload /\ p1.essence = e1 /\ p1.unlocks = << >>
    <2>1. << >> \in Seq(UnlockObject \cup {nullptr})
      BY NoElements
    <2> QED BY <1>13, <2>1 DEF PayloadOf, TransactionPayload
  <1>16. TransactionRead(p1, k)
    BY <1>11, <1>14, <1>15, NoElements DEF TransactionRead
  <1> HIDE DEF p1
  <1>17. b \in BlockObject /\ b.parents = ps /\ b.payload = p1
    BY <1>3, <1>15, BlockIs
  <1> HIDE DEF b, e
  <1> QED BY <1>1, <1>3, <1>9, <1>11, <1>12, <1>16, <1>17 DEF BlockReading, ReaderPlaces

\* A transaction within the essence.
LEMMA ReadNestedInv ==
  ASSUME BlockReading, ReadNested
  PROVE  BlockReading'
  <1>1. /\ rbat = "outputs" /\ rat = "idle" /\ rbat' = "nested" /\ stream' = stream /\ left' = left
        /\ dst' = dst /\ got' = got /\ rest' = rest /\ bleft' = bleft /\ rat' = rat
    BY ReaderKeeps DEF ReadNested
  <1> QED BY <1>1 DEF BlockReading, ReaderPlaces

\* One more unlock.
LEMMA ReadOneUnlockInv ==
  ASSUME BlockReading, ReadOneUnlock
  PROVE  BlockReading'
  <1> DEFINE pv == got.protocol_version
             ps == got.parents
             n == got.nonce
             p == got.payload
             e == p.essence
             us == p.unlocks
             unlock == ReadUnlock(rest)
             x == unlock.v
             p1 == PayloadOf(e, Append(us, x))
             b == BlockOf(pv, ps, p1, n)
  <1>1. /\ rbat = "unlocks" /\ bleft > 0 /\ stream' = stream /\ left' = left /\ dst' = dst
        /\ got' = [got EXCEPT !.payload.unlocks = Append(@, x)]
        /\ rest' = unlock.rest /\ bleft' = bleft - 1 /\ rbat' = rbat /\ rat' = rat
    BY ReaderKeeps DEF ReadOneUnlock
  <1>2. /\ rest \in Bytes /\ stream \in Bytes /\ ReaderHolds(dst, rat, left) /\ rat = "idle"
        /\ got \in BlockObject /\ ps \in Seq(Hash) /\ Len(ps) < Radix /\ bleft \in Nat
        /\ TransactionRead(p, bleft)
    BY <1>1 DEF BlockReading
  <1>3. /\ got = BlockOf(pv, ps, p, n) /\ pv \in Byte /\ n \in Word(8)
    BY <1>2, BlockFields
  <1>4. /\ p = PayloadOf(e, us) /\ e \in Essence \cup {nullptr} /\ us \in Seq(UnlockObject \cup {nullptr})
    BY <1>2, PayloadFields DEF TransactionRead
  <1>5. /\ x \in UnlockObject \cup {nullptr} /\ unlock.rest \in Bytes
        /\ x # nullptr => UnlockFits(x)
    BY <1>2, UnlockRead
  <1> HIDE DEF x, unlock, pv, ps, n
  <1>6. got' = b
    <2> HIDE DEF e, us
    <2>1. \A y : [BlockOf(pv, ps, PayloadOf(e, us), n) EXCEPT !.payload.unlocks = y]
                  = BlockOf(pv, ps, PayloadOf(e, y), n)
      BY DEF BlockOf, PayloadOf
    <2>2. got' = [got EXCEPT !.payload.unlocks = Append(us, x)]
      BY <1>1 DEF us
    <2> QED BY <1>3, <1>4, <2>1, <2>2
  <1>7. /\ Append(us, x) \in Seq(UnlockObject \cup {nullptr}) /\ bleft - 1 \in Nat
        /\ Len(Append(us, x)) + (bleft - 1) = Len(us) + bleft
        /\ Len(us) \in Nat /\ Len(Append(us, x)) = Len(us) + 1
        /\ \A i \in 1 .. Len(us) : Append(us, x)[i] = us[i]
        /\ Append(us, x)[Len(us) + 1] = x
    BY <1>1, <1>2, <1>4, <1>5, OneMore
  <1>8. p1 \in TransactionPayload /\ p1.essence = e /\ p1.unlocks = Append(us, x)
    BY <1>4, <1>7, PayloadIs
  <1>9. TransactionRead(p1, bleft - 1)
    <2>1. \A j \in 1 .. Len(us) : us[j] # nullptr => UnlockFits(us[j])
      BY <1>2 DEF TransactionRead
    <2>2. \A j \in 1 .. Len(Append(us, x)) :
            Append(us, x)[j] # nullptr => UnlockFits(Append(us, x)[j])
      <3> SUFFICES ASSUME NEW j \in 1 .. Len(us) + 1
                   PROVE  Append(us, x)[j] # nullptr => UnlockFits(Append(us, x)[j])
        BY <1>7
      <3>1. CASE j \in 1 .. Len(us)
        BY <1>7, <2>1, <3>1
      <3>2. CASE j = Len(us) + 1
        BY <1>5, <1>7, <3>2
      <3> QED BY <1>7, <3>1, <3>2
    <2> QED BY <1>2, <1>7, <1>8, <2>2 DEF TransactionRead
  <1> HIDE DEF p1
  <1>10. b \in BlockObject /\ b.parents = ps /\ b.payload = p1
    BY <1>2, <1>3, <1>8, BlockIs
  <1> HIDE DEF b, p, e, us
  <1> QED BY <1>1, <1>2, <1>5, <1>6, <1>7, <1>9, <1>10 DEF BlockReading

\* The nonce.
LEMMA ReadNonceInv ==
  ASSUME BlockReading, ReadNonce
  PROVE  BlockReading'
  <1> DEFINE pv == got.protocol_version
             ps == got.parents
             n == got.nonce
             p == got.payload
             nonce == ReadInt(rest, 8)
             x == nonce.v
             b == BlockOf(pv, ps, p, x)
  <1>1. /\ rbat = "nonce" \/ (rbat = "unlocks" /\ bleft = 0)
        /\ stream' = stream /\ left' = left /\ dst' = dst
        /\ got' = [got EXCEPT !.nonce = x]
        /\ rest' = nonce.rest /\ bleft' = bleft /\ rbat' = "done" /\ rat' = rat
    BY ReaderKeeps DEF ReadNonce
  <1>2. /\ rest \in Bytes /\ stream \in Bytes /\ ReaderHolds(dst, rat, left) /\ rat = "idle"
        /\ got \in BlockObject /\ ps \in Seq(Hash) /\ Len(ps) < Radix /\ bleft \in Nat
    BY <1>1 DEF BlockReading
  <1>3. /\ got = BlockOf(pv, ps, p, n) /\ pv \in Byte
        /\ p \in TaggedData \cup TransactionPayload \cup {nullptr}
    BY <1>2, BlockFields
  <1>4. PayloadRead(p)
    BY <1>1 DEF BlockReading, PayloadRead
  <1>5. x \in Word(8) /\ nonce.rest \in Bytes
    BY <1>2, IntRead
  <1> HIDE DEF x, nonce, pv, ps, n
  <1>6. got' = b
    <2> HIDE DEF p
    <2> QED BY <1>1, <1>3 DEF BlockOf
  <1>7. b \in BlockObject /\ b.parents = ps /\ b.payload = p
    BY <1>2, <1>3, <1>5, BlockIs
  <1> HIDE DEF b, p
  <1> QED BY <1>1, <1>2, <1>4, <1>5, <1>6, <1>7 DEF BlockReading, ReaderPlaces

\* The steps of from_ within the outputs.
LEMMA ReadWithinInv ==
  ASSUME BlockReading, rbat = "outputs", rat # "done", Read,
         UNCHANGED << clientVars, blockWriterVars, blockReaderVars >>
  PROVE  BlockReading'
  <1>1. /\ Deserialize /\ stream' = stream /\ got' = got /\ rbat' = rbat /\ bleft' = bleft
    BY DEF Read, blockReaderVars
  <1>2. rat \in Lists \cup {"head"} /\ rat' \notin {"idle", "head"}
    BY <1>1, DeserializeFrom
  <1>3. rest' \in Bytes /\ ReaderHolds(dst', rat', left')
    BY <1>1, DeserializeInv DEF BlockReading
  <1>4. rat # "idle"
    BY <1>2, Place
  <1> QED BY <1>1, <1>2, <1>3, <1>4 DEF BlockReading

-----------------------------------------------------------------------------
(***************************************************************************)
(* The reader of a block, of the bytes its writer wrote.                   *)
(***************************************************************************)
\* What the reader has still to read, list element by list element.
FromParents(b) == Chain(b.parents, PayloadPart(b) \o b.nonce)
FromInputs(b) ==
  LET p == b.payload
      e == p.essence
  IN  Chain(InputTexts(e),
            e.inputs_commitment \o (quint16(Len(e.outputs)) \o (FromOutputs(p)[0] \o b.nonce)))
FromUnlocks(b) == Chain(UnlockTexts(b.payload), b.nonce)

\* The parents that were written can be counted, and each is read whole.
ParentsFit(b) ==
  Within(Len(b.parents), 1) /\ \A i \in 1 .. Len(b.parents) : Len(b.parents[i]) = HashLen

\* The version and the parents, as far as they are read.
ParentsRead(at, n, r, g) ==
  /\ at = "head" => r = BlockText(block)
  /\ at = "parents" =>
       /\ n <= Len(block.parents) /\ r = FromParents(block)[Len(block.parents) - n]
       /\ g = BlockOf(block.protocol_version, SubSeq(block.parents, 1, Len(block.parents) - n),
                      nullptr, Zeros(8))

\* The block with a part of its payload.
Partly(p) == BlockOf(block.protocol_version, block.parents, p, Zeros(8))
PartOfEssence(ins, ic, os) ==
  Partly(PayloadOf(EssenceOf(block.payload.essence.network_id, ins, ic, os, nullptr), << >>))

\* The payload and the nonce, as far as they are read.
InputsRead(at, n, r, g) ==
  LET ins == block.payload.essence.inputs
  IN  at = "inputs" =>
        /\ block.payload \in TransactionPayload /\ block.payload # nullptr
        /\ n <= Len(ins) /\ r = FromInputs(block)[Len(ins) - n]
        /\ g = PartOfEssence(SubSeq(ins, 1, Len(ins) - n), << >>, << >>)
OutputsRead(at, n, r, g, place, l, d) ==
  LET e == block.payload.essence
      os == e.outputs
      c == FromOutputs(block.payload)
      k == Len(os) - n
  IN  at = "outputs" =>
        /\ block.payload \in TransactionPayload /\ block.payload # nullptr
        /\ n <= Len(os) /\ g = PartOfEssence(e.inputs, e.inputs_commitment, SubSeq(os, 1, k))
        /\ place = "idle" => r = c[k] \o block.nonce
        /\ place # "idle" => n > 0 /\ Copied(os[k + 1], c[k + 1] \o block.nonce, r, place, l, d)
UnlocksRead(at, n, r, g) ==
  LET us == block.payload.unlocks
  IN  at = "unlocks" =>
        /\ block.payload \in TransactionPayload /\ block.payload # nullptr
        /\ n <= Len(us) /\ r = FromUnlocks(block)[Len(us) - n]
        /\ g = Partly(PayloadOf(block.payload.essence, SubSeq(us, 1, Len(us) - n)))
NonceRead(at, r, g) ==
  /\ at = "nonce" => r = block.nonce /\ g = Partly(block.payload)
  /\ at = "done" => r = << >> /\ g = block
AllRead ==
  /\ InputsRead(rbat, bleft, rest, got) /\ OutputsRead(rbat, bleft, rest, got, rat, left, dst)
  /\ UnlocksRead(rbat, bleft, rest, got) /\ NonceRead(rbat, rest, got)

\* A payload whose length is written as zero is passed over.
Unseen == rbat \notin {"idle", "head", "parents"} => rbat \in {"nonce", "done"} /\ got.payload = nullptr

\* One element of a list follows another, and the tail follows the last.
LEMMA ChainStep ==
  ASSUME NEW w \in Seq(Bytes), NEW s \in Bytes
  PROVE  /\ Chain(w, s)[Len(w)] = s /\ Len(w) \in Nat
         /\ \A k \in 0 .. Len(w) : Chain(w, s)[k] \in Bytes
         /\ \A k \in 0 .. Len(w) - 1 : Follows(Chain(w, s)[k], w[k + 1], Chain(w, s)[k + 1])
  <1>1. IsChain(Chain(w, s), w, s) /\ Len(w) \in Nat
    BY ChainIs
  <1>2. \A k \in 0 .. Len(w) : Chain(w, s)[k] \in Bytes
    BY <1>1 DEF IsChain
  <1>3. \A k \in 0 .. Len(w) - 1 : Follows(Chain(w, s)[k], w[k + 1], Chain(w, s)[k + 1])
    <2> SUFFICES ASSUME NEW k \in 0 .. Len(w) - 1
                 PROVE  Follows(Chain(w, s)[k], w[k + 1], Chain(w, s)[k + 1])
      OBVIOUS
    <2>1. k + 1 \in 1 .. Len(w) /\ k + 1 \in 0 .. Len(w)
      BY <1>1
    <2>2. w[k + 1] \in Bytes
      BY <2>1, ElementOfSeq
    <2>3. Chain(w, s)[k] = w[k + 1] \o Chain(w, s)[k + 1]
      BY <1>1 DEF IsChain
    <2> QED BY <1>2, <2>1, <2>2, <2>3 DEF Follows
  <1> QED BY <1>1, <1>2, <1>3 DEF IsChain

\* A block that is written is there, to its last byte.
LEMMA BlockWritten ==
  ASSUME BlockWriting, bat = "done"
  PROVE  /\ block = BlockOf(block.protocol_version, block.parents, block.payload, block.nonce)
         /\ block \in BlockObject /\ block.protocol_version \in Byte /\ block.parents \in Seq(Bytes)
         /\ block.payload \in TaggedData \cup TransactionPayload \cup {nullptr}
         /\ block.nonce \in Word(8) /\ block.nonce \in Bytes
         /\ PayloadComplete(block.payload) /\ out = BlockText(block)
         /\ block.payload # nullptr => wire = PayloadText(block.payload) /\ PayloadText(block.payload) \in Bytes
         /\ PayloadPart(block) \in Bytes /\ PayloadPart(block) \o block.nonce \in Bytes
  <1> DEFINE p == block.payload
  <1>1. /\ block \in BlockObject /\ PayloadComplete(p) /\ out = BlockText(block)
        /\ p # nullptr => wire = PayloadText(p)
    BY DEF BlockWriting
  <1>2. /\ block = BlockOf(block.protocol_version, block.parents, p, block.nonce)
        /\ block.protocol_version \in Byte /\ block.parents \in Seq(Bytes) /\ block.nonce \in Word(8)
        /\ p \in TaggedData \cup TransactionPayload \cup {nullptr}
    BY <1>1, BlockFields
  <1>3. block.nonce \in Bytes
    BY <1>2, WordIsBytes
  <1>4. ASSUME p # nullptr PROVE PayloadText(p) \in Bytes
    <2>1. CASE p \in TaggedData /\ p.type = 5
      <3>1. PayloadText(p) = WriteTagged(p)
        BY <2>1 DEF PayloadText
      <3> QED BY <2>1, <3>1, TaggedBytes
    <2>2. CASE p \in TransactionPayload /\ p.type = 6
      <3>1. ~ NullHead(p)
        BY <1>1, <1>4, <2>2 DEF PayloadComplete
      <3> QED BY <1>4, <2>2, <3>1, OutputsBytes
    <2> QED BY <1>2, <1>4, <2>1, <2>2, PayloadKinds
  <1>5. PayloadPart(block) \in Bytes
    <2>1. CASE p = nullptr
      BY <2>1, SizeWritten DEF PayloadPart
    <2>2. CASE p # nullptr
      BY <1>4, <2>2, LengthBytes DEF PayloadPart
    <2> QED BY <2>1, <2>2
  <1>6. PayloadPart(block) \o block.nonce \in Bytes
    BY <1>3, <1>5, Joined
  <1> QED BY <1>1, <1>2, <1>3, <1>4, <1>5, <1>6

\* So is a transaction.
LEMMA TransactionWritten ==
  ASSUME BlockWriting, bat = "done", block.payload \in TransactionPayload, block.payload # nullptr
  PROVE  LET p == block.payload
             e == p.essence
             os == e.outputs
         IN  /\ p = PayloadOf(e, p.unlocks) /\ p.unlocks \in Seq(UnlockObject \cup {nullptr})
             /\ p.type = 6 /\ ~ NullHead(p) /\ ~ NullTail(p)
             /\ e \in Essence /\ e # nullptr
             /\ e = EssenceOf(e.network_id, e.inputs, e.inputs_commitment, os, e.payload)
             /\ e.network_id \in Word(8) /\ e.inputs \in Seq(Input \cup {nullptr})
             /\ e.inputs_commitment \in Bytes /\ os \in Seq(OutputObject \cup {nullptr})
             /\ Len(e.inputs) \in Nat /\ Len(os) \in Nat /\ Len(p.unlocks) \in Nat
             /\ \A i \in 1 .. Len(e.inputs) : e.inputs[i] # nullptr
             /\ \A i \in 1 .. Len(os) : os[i] # nullptr /\ Complete(os[i])
  <1> DEFINE p == block.payload
             e == p.essence
             os == e.outputs
  <1>1. PayloadComplete(p)
    BY BlockWritten
  <1>2. p = PayloadOf(e, p.unlocks) /\ p.unlocks \in Seq(UnlockObject \cup {nullptr}) /\ p.type = 6
    BY PayloadFields
  <1>3. ~ NullHead(p) /\ ~ NullTail(p) /\ \A i \in 1 .. Len(os) : os[i] # nullptr /\ Complete(os[i])
    BY <1>1, <1>2 DEF PayloadComplete
  <1>4. e \in Essence /\ e # nullptr /\ \A i \in 1 .. Len(e.inputs) : e.inputs[i] # nullptr
    BY <1>3, HeadGiven
  <1>5. /\ e = EssenceOf(e.network_id, e.inputs, e.inputs_commitment, os, e.payload)
        /\ e.network_id \in Word(8) /\ e.inputs \in Seq(Input \cup {nullptr})
        /\ e.inputs_commitment \in Bytes /\ os \in Seq(OutputObject \cup {nullptr})
    BY <1>4, EssenceFields
  <1>6. Len(e.inputs) \in Nat /\ Len(os) \in Nat /\ Len(p.unlocks) \in Nat
    BY <1>2, <1>5, LenProperties
  <1> QED BY <1>2, <1>3, <1>4, <1>5, <1>6

\* The version and the count of the parents stand in front.
LEMMA BlockHeadHere ==
  ASSUME BlockWriting, bat = "done", ParentsFit(block)
  PROVE  LET first == ReadInt(BlockText(block), 1)
             count == ReadInt(first.rest, 1)
         IN  /\ first.v[1] = block.protocol_version
             /\ ValueOf(count.v) = Len(block.parents) /\ count.rest = FromParents(block)[0]
             /\ BlockText(block) \in Bytes
  <1> DEFINE pv == block.protocol_version
             b == << pv >>
             ps == block.parents
             n == Len(ps)
             tail == PayloadPart(block) \o block.nonce
             c == FromParents(block)
             text == BlockText(block)
             first == ReadInt(text, 1)
             count == ReadInt(first.rest, 1)
  <1>2. /\ pv \in Byte /\ ps \in Seq(Bytes) /\ block \in BlockObject
        /\ PayloadPart(block) \in Bytes /\ block.nonce \in Bytes /\ tail \in Bytes
    BY BlockWritten
  <1>3. c[0] \in Bytes /\ n \in Nat
    BY <1>2, ChainStep DEF FromParents
  <1>4. b \in Word(1) /\ b[1] = pv
    BY <1>2 DEF Word
  <1>5. quint8(n) \in Word(1) /\ quint8(n) \in Bytes /\ ValueOf(quint8(n)) = n
    BY <1>3, SizeWritten DEF ParentsFit
  <1>6. text = b \o (quint8(n) \o c[0])
    <2> HIDE DEF b, pv
    <2>1. HeadText(block) \in Bytes /\ HeadText(block) \o tail = b \o (quint8(n) \o c[0])
      BY <1>2, HeadTextBytes DEF FromParents, b, pv
    <2>2. BlockText(block) = HeadText(block) \o tail
      BY <1>2, <2>1, Regroup DEF BlockText
    <2> QED BY <2>1, <2>2
  <1> HIDE DEF b, text
  <1>7. b \in Bytes
    BY <1>4, WordIsBytes
  <1>8. Follows(text, b, quint8(n) \o c[0]) /\ Follows(quint8(n) \o c[0], quint8(n), c[0])
    BY <1>3, <1>5, <1>6, <1>7, Joined DEF Follows
  <1> DEFINE z == quint8(n) \o c[0]
  <1> HIDE DEF c, z
  <1>9. first.v = b /\ first.rest = z
    <2>1. Follows(text, b, z)
      BY <1>8 DEF z
    <2> QED BY ONLY <1>4, <2>1, IntBack
  <1>10. text \in Bytes
    <2>1. z \in Bytes
      BY <1>3, <1>5, Joined DEF z
    <2>2. text = b \o z
      BY <1>6 DEF z
    <2> QED BY <1>7, <2>1, <2>2, Joined
  <1> HIDE DEF first
  <1>11. count.v = quint8(n) /\ count.rest = c[0]
    BY <1>5, <1>8, <1>9, IntBack DEF z
  <1> HIDE DEF count
  <1>12. first.v[1] = pv /\ ValueOf(count.v) = n
    BY <1>4, <1>5, <1>9, <1>11
  <1> QED BY <1>10, <1>11, <1>12 DEF first, count, text, c

\* They are read as they were written.
LEMMA CopyHead ==
  ASSUME BlockWriting, bat = "done", ParentsFit(block), BlockReading, rest = BlockText(block),
         ReadBlockHead
  PROVE  ParentsRead(rbat', bleft', rest', got')
  <1> DEFINE ps == block.parents
             n == Len(ps)
             first == ReadInt(rest, 1)
             count == ReadInt(first.rest, 1)
  <1>1. /\ block' = block /\ got' = BlockOf(first.v[1], << >>, nullptr, Zeros(8))
        /\ rest' = count.rest /\ bleft' = ValueOf(count.v) /\ rbat' = "parents"
    BY ReaderKeeps DEF ReadBlockHead, BlockOf
  <1>2. /\ first.v[1] = block.protocol_version
        /\ ValueOf(count.v) = n /\ count.rest = FromParents(block)[0]
    BY BlockHeadHere
  <1>3. ps \in Seq(Bytes) /\ n \in Nat
    BY BlockWritten, LenProperties
  <1>4. SubSeq(ps, 1, 0) = << >> /\ n - n = 0 /\ n <= n
    BY <1>3, SubSeqProperties DEF Bytes
  <1> HIDE DEF first, count
  <1> QED BY <1>1, <1>2, <1>4 DEF ParentsRead

\* Each parent stands in its place.
LEMMA ParentHere ==
  ASSUME BlockWriting, bat = "done", ParentsFit(block),
         NEW n \in Nat, n > 0, n <= Len(block.parents)
  PROVE  LET ps == block.parents
             k == Len(ps) - n
             c == FromParents(block)
             id == ReadRaw(c[k], HashLen)
         IN  /\ id.v = ps[k + 1] /\ id.rest = c[k + 1] /\ Len(ps) - (n - 1) = k + 1 /\ n - 1 <= Len(ps)
             /\ Append(SubSeq(ps, 1, k), id.v) = SubSeq(ps, 1, k + 1)
  <1> DEFINE ps == block.parents
             k == Len(ps) - n
             x == ps[k + 1]
             tail == PayloadPart(block) \o block.nonce
             c == FromParents(block)
             id == ReadRaw(c[k], HashLen)
  <1>1. ps \in Seq(Bytes) /\ tail \in Bytes
    BY BlockWritten
  <1>2. /\ Len(ps) \in Nat /\ \A i \in 0 .. Len(ps) - 1 : Follows(c[i], ps[i + 1], c[i + 1])
    BY <1>1, ChainStep DEF FromParents
  <1>3. /\ k \in 0 .. Len(ps) - 1 /\ k + 1 \in 1 .. Len(ps) /\ Len(ps) - (n - 1) = k + 1
        /\ n - 1 <= Len(ps)
    BY <1>2
  <1>4. Follows(c[k], x, c[k + 1]) /\ x \in Word(HashLen)
    <2>1. Follows(c[k], x, c[k + 1])
      BY <1>2, <1>3
    <2>2. x \in Bytes /\ Len(x) = HashLen
      BY <1>1, <1>3, ElementOfSeq DEF ParentsFit
    <2>3. x \in [1 .. HashLen -> Byte]
      BY <2>2, LenProperties, Hashes DEF Bytes
    <2> QED BY <2>1, <2>3 DEF Word
  <1> HIDE DEF c, x, k
  <1>5. id.v = x /\ id.rest = c[k + 1]
    BY <1>4, Hashes, RawBack
  <1> HIDE DEF id
  <1>6. Append(SubSeq(ps, 1, k), x) = SubSeq(ps, 1, k + 1)
    BY <1>1, <1>3, Longer DEF x
  <1> QED BY <1>3, <1>5, <1>6 DEF id, x, k, c

\* So is each parent.
LEMMA CopyParent ==
  ASSUME BlockWriting, bat = "done", ParentsFit(block), BlockReading,
         ParentsRead(rbat, bleft, rest, got), ReadParent
  PROVE  ParentsRead(rbat', bleft', rest', got')
  <1> DEFINE pv == block.protocol_version
             ps == block.parents
             k == Len(ps) - bleft
             c == FromParents(block)
             id == ReadRaw(rest, HashLen)
  <1>1. /\ block' = block /\ rbat = "parents" /\ bleft > 0 /\ got' = [got EXCEPT !.parents = Append(@, id.v)]
        /\ rest' = id.rest /\ bleft' = bleft - 1 /\ rbat' = "parents"
    BY ReaderKeeps DEF ReadParent
  <1>2. /\ bleft \in Nat /\ bleft <= Len(ps) /\ rest = c[k]
        /\ got = BlockOf(pv, SubSeq(ps, 1, k), nullptr, Zeros(8))
    BY <1>1 DEF BlockReading, ParentsRead
  <1>3. /\ id.rest = c[k + 1] /\ Len(ps) - (bleft - 1) = k + 1 /\ bleft - 1 <= Len(ps)
        /\ Append(SubSeq(ps, 1, k), id.v) = SubSeq(ps, 1, k + 1)
    BY <1>1, <1>2, ParentHere
  <1> HIDE DEF id, c, k
  <1>4. got' = BlockOf(pv, SubSeq(ps, 1, k + 1), nullptr, Zeros(8))
    <2> HIDE DEF pv, ps
    <2>1. \A y : [BlockOf(pv, SubSeq(ps, 1, k), nullptr, Zeros(8)) EXCEPT !.parents = y]
                  = BlockOf(pv, y, nullptr, Zeros(8))
      BY DEF BlockOf
    <2>2. got.parents = SubSeq(ps, 1, k)
      BY <1>2 DEF BlockOf
    <2>3. got' = [got EXCEPT !.parents = Append(SubSeq(ps, 1, k), id.v)]
      BY <1>1, <2>2
    <2> QED BY <1>2, <1>3, <2>1, <2>3
  <1> HIDE DEF pv
  <1> QED BY <1>1, <1>3, <1>4 DEF ParentsRead, c, pv

\* The length of the payload stands after the parents, be that zero.
LEMMA LengthHere ==
  ASSUME BlockWriting, bat = "done"
  PROVE  LET length == ReadInt(FromParents(block)[Len(block.parents) - 0], 4)
         IN  /\ block.payload = nullptr => length.v = Zeros(4) /\ length.rest = block.nonce
             /\ block.payload # nullptr => length.v = quint32(Len(wire)) /\ length.rest = wire \o block.nonce
  <1> DEFINE p == block.payload
             ps == block.parents
             n == Len(ps)
             tail == PayloadPart(block) \o block.nonce
             text == FromParents(block)[n - 0]
             length == ReadInt(text, 4)
             z == quint32(0)
  <1>1. /\ ps \in Seq(Bytes) /\ tail \in Bytes /\ block.nonce \in Bytes
        /\ p # nullptr => wire = PayloadText(p) /\ wire \in Bytes
    BY BlockWritten
  <1>2. text = tail
    <2>1. n \in Nat /\ FromParents(block)[n] = tail
      BY <1>1, ChainStep DEF FromParents
    <2>2. n - 0 = n
      BY <2>1
    <2> QED BY <2>1, <2>2
  <1> HIDE DEF text
  <1>3. CASE p = nullptr
    <2>1. Follows(text, z, block.nonce)
      BY <1>1, <1>2, <1>3, SizeWritten DEF Follows, PayloadPart
    <2>2. z \in Word(4) /\ z = Zeros(4)
      BY PayloadTags, SizeWritten
    <2> HIDE DEF z
    <2>3. length.v = z /\ length.rest = block.nonce
      BY ONLY <2>1, <2>2, IntBack
    <2> QED BY <1>3, <2>2, <2>3 DEF text
  <1>4. CASE p # nullptr
    <2> DEFINE l == quint32(Len(wire))
               s == wire \o block.nonce
    <2>1. Len(wire) \in Nat /\ tail = l \o s
      <3>1. PayloadPart(block) = WithLength(wire)
        BY <1>1, <1>4 DEF PayloadPart
      <3>2. Len(wire) \in Nat /\ WithLength(wire) \o block.nonce = l \o s
        BY <1>1, <1>4, LengthBytes
      <3> QED BY <3>1, <3>2
    <2>2. l \in Word(4) /\ l \in Bytes
      BY <2>1, SizeWritten
    <2>3. s \in Bytes
      BY <1>1, <1>4, Joined
    <2> HIDE DEF l, s
    <2>4. Follows(text, l, s)
      BY <1>2, <2>1, <2>2, <2>3 DEF Follows
    <2>5. length.v = l /\ length.rest = s
      BY ONLY <2>2, <2>4, IntBack, SMTT(40)
    <2> QED BY <1>4, <2>5 DEF l, s, text
  <1> QED BY <1>3, <1>4

\* So it is read, and the parents before it are all there.
LEMMA LengthRead ==
  ASSUME BlockWriting, bat = "done", BlockReading, rbat = "parents", bleft = 0,
         ParentsRead(rbat, bleft, rest, got)
  PROVE  LET length == ReadInt(rest, 4)
         IN  /\ got = Partly(nullptr)
             /\ block.payload = nullptr => length.v = Zeros(4) /\ length.rest = block.nonce
             /\ block.payload # nullptr => length.v = quint32(Len(wire)) /\ length.rest = wire \o block.nonce
  <1> DEFINE ps == block.parents
             n == Len(ps)
  <1>1. SubSeq(ps, 1, n - 0) = ps
    <2>1. ps \in Seq(Bytes) /\ n \in Nat
      BY BlockWritten, LenProperties
    <2>2. SubSeq(ps, 1, n) = ps /\ n - 0 = n
      BY <2>1, SeqEqual, SubSeqProperties
    <2> QED BY <2>2
  <1>2. rest = FromParents(block)[n - 0] /\ got = Partly(nullptr)
    BY <1>1 DEF ParentsRead, Partly
  <1> QED BY <1>2, LengthHere

\* A transaction begins with its kinds, its network and its inputs.
LEMMA TransactionBytes ==
  ASSUME BlockWriting, bat = "done", block.payload \in TransactionPayload, block.payload # nullptr
  PROVE  LET e == block.payload.essence
             c == FromInputs(block)
             net == e.network_id
             size == quint16(Len(e.inputs))
         IN  /\ wire \o block.nonce = quint32(6) \o (<< 1 >> \o (net \o (size \o c[0])))
             /\ c[0] \in Bytes
  <1> DEFINE p == block.payload
             e == p.essence
             c == FromOutputs(p)
             head == WriteEssenceHead(e)
             k == quint32(6)
             s == c[0] \o block.nonce
  <1>1. /\ ~ NullHead(p) /\ e \in Essence /\ \A i \in 1 .. Len(e.inputs) : e.inputs[i] # nullptr
        /\ e.inputs_commitment \in Bytes /\ Len(e.outputs) \in Nat
    BY TransactionWritten
  <1>2. wire = PayloadText(p) /\ block.nonce \in Bytes
    BY BlockWritten
  <1>3. PayloadText(p) = (k \o head) \o c[0] /\ c[0] \in Bytes
    <2>1. /\ PayloadText(p) = (k \o head) \o c[0] /\ \A i \in 0 .. Len(e.outputs) : c[i] \in Bytes
      BY <1>1, OutputsBytes
    <2>2. 0 \in 0 .. Len(e.outputs)
      BY <1>1
    <2> QED BY <2>1, <2>2
  <1>4. k \in Bytes
    BY SizeWritten
  <1>5. s \in Bytes
    BY <1>2, <1>3, Joined, SMTT(40)
  <1>6. /\ head \in Bytes
        /\ head \o s = << 1 >> \o (e.network_id \o (quint16(Len(e.inputs)) \o FromInputs(block)[0]))
    BY <1>1, <1>5, EssenceHeadBytes DEF FromInputs
  <1>7. FromInputs(block)[0] \in Bytes
    <2> DEFINE t == e.inputs_commitment \o (quint16(Len(e.outputs)) \o s)
    <2>1. quint16(Len(e.outputs)) \in Bytes
      BY <1>1, SizeWritten
    <2>2. t \in Bytes
      BY <1>1, <1>5, <2>1, Joined
    <2>3. InputTexts(e) \in Seq(Bytes)
      BY <1>1, InputTextsAre
    <2>4. FromInputs(block) = Chain(InputTexts(e), t)
      BY DEF FromInputs
    <2> HIDE DEF t
    <2>5. Chain(InputTexts(e), t)[0] \in Bytes
      BY <2>2, <2>3, ChainStep
    <2> QED BY <2>4, <2>5
  <1> HIDE DEF c, head, k
  <1>8. wire \o block.nonce = k \o (head \o s)
    <2>1. k \o head \in Bytes /\ (k \o head) \o s = k \o (head \o s)
      BY <1>4, <1>5, <1>6, Joined, Regroup, ZenonT(60)
    <2>2. ((k \o head) \o c[0]) \o block.nonce = (k \o head) \o s
      BY <1>2, <1>3, <2>1, Regroup
    <2> QED BY <1>2, <1>3, <2>1, <2>2, SMTT(40)
  <1> QED BY <1>6, <1>7, <1>8 DEF k

\* Of a block that fits every count of a transaction is read as it was written,
\* and so is every output.
LEMMA FittingTransaction ==
  ASSUME BlockWriting, bat = "done", BlockFits(block),
         block.payload \in TransactionPayload, block.payload # nullptr
  PROVE  LET p == block.payload
             e == p.essence
             os == e.outputs
         IN  /\ Within(Len(e.inputs), 2) /\ Within(Len(os), 2) /\ Within(Len(p.unlocks), 2)
             /\ Len(e.inputs_commitment) = HashLen
             /\ \A i \in 1 .. Len(os) : Sound(os[i])
             /\ \A i \in 1 .. Len(e.inputs) : InputFits(e.inputs[i])
             /\ \A i \in 1 .. Len(p.unlocks) : UnlockFits(p.unlocks[i])
  <1> DEFINE p == block.payload
             e == p.essence
             os == e.outputs
  <1>1. p.type = 6 /\ \A i \in 1 .. Len(os) : os[i] # nullptr /\ Complete(os[i])
    BY TransactionWritten
  <1>2. TransactionFits(p)
    BY <1>1 DEF BlockFits
  <1>3. \A i \in 1 .. Len(os) : Sound(os[i])
    <2> SUFFICES ASSUME NEW i \in 1 .. Len(os) PROVE Sound(os[i])
      OBVIOUS
    <2>1. Complete(os[i]) /\ os[i] # nullptr /\ Fits(os[i])
      BY <1>1, <1>2 DEF TransactionFits
    <2>2. ~ NullHead(p)
      BY TransactionWritten
    <2>3. \A j \in 1 .. Len(os) : os[j] # nullptr => Proper(os[j])
      BY <2>2, OutputsBytes
    <2> QED BY <2>1, <2>3, SoundWritten
  <1> QED BY <1>2, <1>3 DEF TransactionFits

\* The block fits, its payload is seen, and its essence has no payload.
ExactBlock == BlockFits(block) /\ PayloadSeen /\ ~ HasEssencePayload(block)

LEMMA ExactTransaction ==
  ASSUME BlockWriting, bat = "done", ExactBlock,
         block.payload \in TransactionPayload, block.payload # nullptr
  PROVE  LET p == block.payload
             e == p.essence
             os == e.outputs
         IN  /\ Within(Len(e.inputs), 2) /\ Within(Len(os), 2) /\ Within(Len(p.unlocks), 2)
             /\ Len(e.inputs_commitment) = HashLen /\ e.payload = nullptr
             /\ \A i \in 1 .. Len(os) : Sound(os[i])
  <1>1. block.payload.type = 6
    BY TransactionWritten
  <1>2. block.payload.essence.payload = nullptr
    BY <1>1 DEF ExactBlock, HasEssencePayload
  <1> QED BY <1>2, FittingTransaction DEF ExactBlock

\* A payload of tagged data is read whole.
LEMMA CopyTagged ==
  ASSUME BlockWriting, bat = "done", BlockFits(block), block.payload \in TaggedData, block.payload.type = 5,
         block.payload # nullptr, NEW junk \in Junk
  PROVE  LET kind == ReadInt(wire \o block.nonce, 4)
         IN  /\ kind.v = quint32(5)
             /\ ReadTagged(kind.rest, junk) = Got(block.payload, block.nonce)
  <1> DEFINE p == block.payload
  <1>1. wire = WriteTagged(p) /\ block.nonce \in Bytes
    BY BlockWritten DEF PayloadText
  <1>2. Within(Len(p.tag), 1) /\ Within(Len(p.data), 4)
    BY DEF BlockFits, TaggedFits
  <1> QED BY <1>1, <1>2, TaggedBack

\* So are the kinds, the network and the count of the inputs of a transaction.
LEMMA CopyTransaction ==
  ASSUME BlockWriting, bat = "done", BlockFits(block),
         block.payload \in TransactionPayload, block.payload # nullptr
  PROVE  LET kind == ReadInt(wire \o block.nonce, 4)
             essence == ReadInt(kind.rest, 1)
             network == ReadInt(essence.rest, 8)
             inputs == ReadInt(network.rest, 2)
         IN  /\ kind.v = quint32(6) /\ essence.v = << 1 >>
             /\ network.v = block.payload.essence.network_id
             /\ ValueOf(inputs.v) = Len(block.payload.essence.inputs)
             /\ inputs.rest = FromInputs(block)[0]
  <1> DEFINE e == block.payload.essence
             one == << 1 >>
             net == e.network_id
             size == quint16(Len(e.inputs))
             c == FromInputs(block)[0]
             six == quint32(6)
             z2 == size \o c
             z1 == net \o z2
             z0 == one \o z1
             z == wire \o block.nonce
             kind == ReadInt(z, 4)
             essence == ReadInt(kind.rest, 1)
             network == ReadInt(essence.rest, 8)
             inputs == ReadInt(network.rest, 2)
  <1>1. z = six \o z0 /\ c \in Bytes
    BY TransactionBytes
  <1>2. Within(Len(e.inputs), 2)
    BY FittingTransaction
  <1>3. net \in Word(8) /\ Len(e.inputs) \in Nat
    BY TransactionWritten
  <1>4. six \in Word(4) /\ six \in Bytes
    BY SizeWritten
  <1>5. one \in Word(1) /\ one \in Bytes
    BY Kind
  <1>6. net \in Bytes
    BY <1>3, WordIsBytes
  <1>7. size \in Word(2) /\ size \in Bytes /\ ValueOf(size) = Len(e.inputs)
    BY <1>2, <1>3, SizeWritten
  <1> HIDE DEF one, net, size, c, six, z
  <1>8. z2 \in Bytes /\ Follows(z2, size, c)
    BY <1>1, <1>7, Joined DEF Follows
  <1> HIDE DEF z2
  <1>9. z1 \in Bytes /\ Follows(z1, net, z2)
    BY <1>6, <1>8, Joined DEF Follows
  <1> HIDE DEF z1
  <1>10. z0 \in Bytes /\ Follows(z0, one, z1)
    BY <1>5, <1>9, Joined DEF Follows
  <1> HIDE DEF z0
  <1>11. Follows(z, six, z0)
    BY <1>1, <1>4, <1>10 DEF Follows
  <1>12. kind.v = six /\ kind.rest = z0
    BY <1>4, <1>11, IntBack
  <1> HIDE DEF kind
  <1>13. essence.v = one /\ essence.rest = z1
    BY <1>5, <1>10, <1>12, IntBack
  <1> HIDE DEF essence
  <1>14. network.v = net /\ network.rest = z2
    BY <1>3, <1>9, <1>13, IntBack
  <1> HIDE DEF network
  <1>15. inputs.v = size /\ inputs.rest = c
    BY <1>7, <1>8, <1>14, IntBack
  <1> HIDE DEF inputs
  <1> QED BY <1>7, <1>12, <1>13, <1>14, <1>15 DEF kind, essence, network, inputs, z, six, one, net, c

\* The payload, or its beginning, is read as it was written.
LEMMA CopyPayload ==
  ASSUME BlockWriting, bat = "done", BlockReading, ExactBlock,
         ParentsRead(rbat, bleft, rest, got), ReadPayload
  PROVE  AllRead'
  <1> DEFINE p == block.payload
             e == p.essence
             length == ReadInt(rest, 4)
             kind == ReadInt(length.rest, 4)
             essence == ReadInt(kind.rest, 1)
             network == ReadInt(essence.rest, 8)
             inputs == ReadInt(network.rest, 2)
             none == length.v = Zeros(4)
             e0 == EssenceOf(network.v, << >>, << >>, << >>, nullptr)
  <1>1. rbat = "parents" /\ bleft = 0 /\ block' = block /\ rat' = rat
    BY ReaderKeeps, SMTT(40) DEF ReadPayload
  <1>2. \/ /\ none /\ rest' = length.rest /\ rbat' = "nonce" /\ got' = got
        \/ /\ ~ none /\ kind.v = quint32(5) /\ rbat' = "nonce"
           /\ \E junk \in Junk : /\ got' = [got EXCEPT !.payload = ReadTagged(kind.rest, junk).v]
                                 /\ rest' = ReadTagged(kind.rest, junk).rest
        \/ /\ ~ none /\ kind.v = quint32(6) /\ essence.v = << 1 >>
           /\ got' = [got EXCEPT !.payload = PayloadOf(e0, << >>)]
           /\ rest' = inputs.rest /\ bleft' = ValueOf(inputs.v) /\ rbat' = "inputs"
        \/ ~ none /\ kind.v = quint32(6) /\ essence.v # << 1 >>
        \/ ~ none /\ kind.v \notin {quint32(5), quint32(6)}
    BY DEF ReadPayload, EssenceOf, PayloadOf
  <1>3. /\ got = Partly(nullptr)
        /\ p = nullptr => length.v = Zeros(4) /\ length.rest = block.nonce
        /\ p # nullptr => length.v = quint32(Len(wire)) /\ length.rest = wire \o block.nonce
    BY <1>1, LengthRead
  <1>4. \A x : [got EXCEPT !.payload = x] = Partly(x)
    <2>1. \A x : [Partly(nullptr) EXCEPT !.payload = x] = Partly(x)
      BY DEF Partly, BlockOf
    <2> QED BY <1>3, <2>1
  <1>5. p # nullptr => ~ none
    BY <1>3 DEF ExactBlock, PayloadSeen
  <1> HIDE DEF length
  <1>6. CASE p = nullptr
    <2>1. rest' = block.nonce /\ got' = Partly(p) /\ rbat' = "nonce"
      BY <1>2, <1>3, <1>6
    <2> QED BY <1>1, <2>1 DEF AllRead, InputsRead, OutputsRead, UnlocksRead, NonceRead, Partly
  <1>7. CASE p # nullptr /\ p \in TaggedData /\ p.type = 5
    <2>1. \A junk \in Junk : kind.v = quint32(5) /\ ReadTagged(kind.rest, junk) = Got(p, block.nonce)
      BY <1>3, <1>7, CopyTagged DEF ExactBlock
    <2>2. quint32(5) # quint32(6) /\ \E junk \in Junk : TRUE
      BY PayloadTags, JunkAssumption
    <2> HIDE DEF kind
    <2>3. kind.v = quint32(5)
      BY <2>1, <2>2
    <2>4. PICK junk \in Junk : /\ got' = [got EXCEPT !.payload = ReadTagged(kind.rest, junk).v]
                               /\ rest' = ReadTagged(kind.rest, junk).rest /\ rbat' = "nonce"
      BY <1>2, <1>5, <1>7, <2>2, <2>3
    <2>5. ReadTagged(kind.rest, junk).v = p /\ ReadTagged(kind.rest, junk).rest = block.nonce
      BY <2>1 DEF Got
    <2>6. rest' = block.nonce /\ got' = Partly(p) /\ rbat' = "nonce"
      BY <1>4, <2>4, <2>5
    <2> QED BY <1>1, <2>6 DEF AllRead, InputsRead, OutputsRead, UnlocksRead, NonceRead, Partly
  <1>8. CASE p # nullptr /\ p \in TransactionPayload
    <2>1. /\ kind.v = quint32(6) /\ essence.v = << 1 >> /\ network.v = e.network_id
          /\ ValueOf(inputs.v) = Len(e.inputs) /\ inputs.rest = FromInputs(block)[0]
      BY <1>3, <1>8, CopyTransaction DEF ExactBlock
    <2>2. quint32(5) # quint32(6)
      BY PayloadTags
    <2>3. Len(e.inputs) \in Nat /\ e.inputs \in Seq(Input \cup {nullptr})
      BY <1>8, TransactionWritten
    <2>4. SubSeq(e.inputs, 1, 0) = << >>
      BY <2>3, SubSeqProperties
    <2> HIDE DEF kind, essence, network, inputs
    <2>5. /\ got' = [got EXCEPT !.payload = PayloadOf(e0, << >>)]
          /\ rest' = inputs.rest /\ bleft' = ValueOf(inputs.v) /\ rbat' = "inputs"
      BY <1>2, <1>5, <1>8, <2>1, <2>2
    <2>6. got' = PartOfEssence(<< >>, << >>, << >>)
      BY <1>4, <2>1, <2>5 DEF PartOfEssence
    <2> HIDE DEF p, e
    <2>7. Len(e.inputs) - Len(e.inputs) = 0 /\ Len(e.inputs) <= Len(e.inputs)
      BY <2>3
    <2>8. InputsRead(rbat, bleft, rest, got)'
      BY <1>1, <1>8, <2>1, <2>4, <2>5, <2>6, <2>7 DEF InputsRead, e, p, PartOfEssence, Partly
    <2> QED BY <2>5, <2>8 DEF AllRead, InputsRead, OutputsRead, UnlocksRead, NonceRead
  <1>9. p \in TaggedData \cup TransactionPayload \cup {nullptr}
    BY BlockWritten
  <1> QED BY <1>6, <1>7, <1>8, <1>9, PayloadKinds

\* A payload whose length is written as zero is passed over.
LEMMA PassPayload ==
  ASSUME BlockWriting, bat = "done", BlockReading, ~ PayloadSeen,
         ParentsRead(rbat, bleft, rest, got), ReadPayload
  PROVE  rbat' = "nonce" /\ got'.payload = nullptr
  <1>1. rbat = "parents" /\ bleft = 0
    BY DEF ReadPayload, Reading
  <1>2. /\ got = Partly(nullptr)
        /\ block.payload # nullptr => ReadInt(rest, 4).v = quint32(Len(wire))
    BY <1>1, LengthRead
  <1>3. ReadInt(rest, 4).v = Zeros(4)
    BY <1>2 DEF PayloadSeen
  <1>4. rbat' = "nonce" /\ got' = got
    BY <1>3 DEF ReadPayload
  <1> QED BY <1>2, <1>4 DEF Partly, BlockOf

\* Of a list of m elements, n of which are to come, the next one's place.
LEMMA ToCome ==
  ASSUME NEW m \in Nat, NEW n \in Nat, n > 0, n <= m
  PROVE  /\ m - n \in 0 .. m - 1 /\ m - n + 1 \in 1 .. m /\ m - (n - 1) = m - n + 1
         /\ n - 1 <= m
  OBVIOUS

\* Each input stands in its place.
LEMMA InputHere ==
  ASSUME BlockWriting, bat = "done", BlockFits(block), block.payload \in TransactionPayload, block.payload # nullptr,
         NEW n \in Nat, n > 0, n <= Len(block.payload.essence.inputs)
  PROVE  LET ins == block.payload.essence.inputs
             k == Len(ins) - n
             c == FromInputs(block)
             input == ReadInput(c[k])
         IN  /\ input.v = ins[k + 1] /\ input.rest = c[k + 1]
             /\ Len(ins) - (n - 1) = k + 1 /\ n - 1 <= Len(ins)
             /\ Append(SubSeq(ins, 1, k), input.v) = SubSeq(ins, 1, k + 1)
             /\ c[k] = WriteInput(ins[k + 1]) \o c[k + 1] /\ ins[k + 1] \in Input /\ c[k + 1] \in Bytes
  <1> DEFINE e == block.payload.essence
             ins == e.inputs
             k == Len(ins) - n
             x == ins[k + 1]
             c == FromInputs(block)
             input == ReadInput(c[k])
  <1>1. /\ e \in Essence /\ ins \in Seq(Input \cup {nullptr}) /\ Len(ins) \in Nat
        /\ \A i \in 1 .. Len(ins) : ins[i] # nullptr
    BY TransactionWritten
  <1>2. /\ k \in 0 .. Len(ins) - 1 /\ k + 1 \in 1 .. Len(ins) /\ Len(ins) - (n - 1) = k + 1
        /\ n - 1 <= Len(ins)
    BY <1>1, ToCome
  <1>3. c[k] = WriteInput(x) \o c[k + 1] /\ x \in Input /\ c[k + 1] \in Bytes
    <2>1. /\ InputTexts(e) \in Seq(Bytes) /\ Len(InputTexts(e)) = Len(ins)
          /\ x \in Input /\ InputTexts(e)[k + 1] = WriteInput(x)
      BY <1>1, <1>2, InputTextsAre
    <2> DEFINE t == e.inputs_commitment \o (quint16(Len(e.outputs)) \o (FromOutputs(block.payload)[0] \o block.nonce))
    <2>2. t \in Bytes
      <3>1. ~ NullHead(block.payload) /\ Len(e.outputs) \in Nat /\ e.inputs_commitment \in Bytes
        BY TransactionWritten
      <3>2. FromOutputs(block.payload)[0] \in Bytes
        <4>1. \A i \in 0 .. Len(e.outputs) : FromOutputs(block.payload)[i] \in Bytes
          BY <3>1, OutputsBytes
        <4>2. 0 \in 0 .. Len(e.outputs)
          BY <3>1
        <4> QED BY <4>1, <4>2
      <3>3. block.nonce \in Bytes /\ quint16(Len(e.outputs)) \in Bytes
        BY <3>1, BlockWritten, SizeWritten
      <3> QED BY <3>1, <3>2, <3>3, Joined
    <2>3. c = Chain(InputTexts(e), t)
      BY DEF FromInputs
    <2> HIDE DEF t, c, x, k
    <2>4. Follows(c[k], InputTexts(e)[k + 1], c[k + 1])
      BY <1>2, <2>1, <2>2, <2>3, ChainStep
    <2> QED BY <2>1, <2>4 DEF Follows
  <1> HIDE DEF c
  <1>4. input.v = x /\ input.rest = c[k + 1]
    <2> HIDE DEF x, k
    <2>1. ReadInput(WriteInput(x) \o c[k + 1]) = Got(x, c[k + 1])
      <3>1. InputFits(x)
        BY <1>2, FittingTransaction DEF x, k
      <3> QED BY <1>3, <3>1, InputBack
    <2> QED BY <1>3, <2>1 DEF Got
  <1> HIDE DEF input
  <1>5. Append(SubSeq(ins, 1, k), x) = SubSeq(ins, 1, k + 1)
    BY <1>1, <1>2, Longer
  <1> QED BY <1>2, <1>3, <1>4, <1>5 DEF input, c

\* Each input is read as it was written.
LEMMA CopyInput ==
  ASSUME BlockWriting, bat = "done", BlockFits(block), BlockReading, AllRead, ReadOneInput
  PROVE  AllRead'
  <1> DEFINE ins == block.payload.essence.inputs
             k == Len(ins) - bleft
             c == FromInputs(block)
             input == ReadInput(rest)
             Part(list) == PartOfEssence(list, << >>, << >>)
  <1>1. /\ rbat = "inputs" /\ bleft > 0 /\ got' = [got EXCEPT !.payload.essence.inputs = Append(@, input.v)]
        /\ rest' = input.rest /\ bleft' = bleft - 1 /\ rbat' = "inputs" /\ block' = block
    BY ReaderKeeps DEF ReadOneInput
  <1>2. /\ block.payload \in TransactionPayload /\ block.payload # nullptr
        /\ bleft <= Len(ins) /\ rest = c[k] /\ got = Part(SubSeq(ins, 1, k)) /\ bleft \in Nat
    BY <1>1 DEF AllRead, InputsRead, BlockReading
  <1>3. /\ input.rest = c[k + 1] /\ Len(ins) - (bleft - 1) = k + 1 /\ bleft - 1 <= Len(ins)
        /\ Append(SubSeq(ins, 1, k), input.v) = SubSeq(ins, 1, k + 1)
    BY <1>1, <1>2, InputHere
  <1> HIDE DEF input, c, k
  <1>4. got' = Part(SubSeq(ins, 1, k + 1))
    <2> HIDE DEF ins
    <2>1. \A y, z : [Part(y) EXCEPT !.payload.essence.inputs = z] = Part(z)
      BY DEF PartOfEssence, Partly, BlockOf, PayloadOf, EssenceOf
    <2>2. \A y : Part(y).payload.essence.inputs = y
      BY DEF PartOfEssence, Partly, BlockOf, PayloadOf, EssenceOf
    <2> HIDE DEF Part
    <2>3. got' = [got EXCEPT !.payload.essence.inputs = Append(SubSeq(ins, 1, k), input.v)]
      BY <1>1, <1>2, <2>2
    <2> QED BY <1>2, <1>3, <2>1, <2>3
  <1>5. InputsRead(rbat, bleft, rest, got)'
    BY <1>1, <1>2, <1>3, <1>4 DEF InputsRead, PartOfEssence, Partly, c
  <1> QED BY <1>1, <1>5 DEF AllRead, OutputsRead, UnlocksRead, NonceRead

\* The commitment and the count of the outputs stand after the inputs.
LEMMA CommitmentHere ==
  ASSUME BlockWriting, bat = "done", BlockFits(block),
         block.payload \in TransactionPayload, block.payload # nullptr
  PROVE  LET e == block.payload.essence
             commitment == ReadRaw(FromInputs(block)[Len(e.inputs) - 0], HashLen)
             count == ReadInt(commitment.rest, 2)
         IN  /\ commitment.v = e.inputs_commitment /\ ValueOf(count.v) = Len(e.outputs)
             /\ count.rest = FromOutputs(block.payload)[0] \o block.nonce
  <1> DEFINE p == block.payload
             e == p.essence
             ins == e.inputs
             os == e.outputs
             ic == e.inputs_commitment
             size == quint16(Len(os))
             s == FromOutputs(p)[0] \o block.nonce
             z1 == size \o s
             z0 == ic \o z1
             text == FromInputs(block)[Len(ins) - 0]
             commitment == ReadRaw(text, HashLen)
             count == ReadInt(commitment.rest, 2)
  <1>1. /\ ~ NullHead(p) /\ e \in Essence /\ ins \in Seq(Input \cup {nullptr}) /\ Len(ins) \in Nat
        /\ os \in Seq(OutputObject \cup {nullptr}) /\ Len(os) \in Nat /\ ic \in Bytes
        /\ \A i \in 1 .. Len(ins) : ins[i] # nullptr
    BY TransactionWritten
  <1>2. Within(Len(os), 2) /\ Len(ic) = HashLen
    BY FittingTransaction
  <1>3. s \in Bytes
    <2>1. \A i \in 0 .. Len(os) : FromOutputs(p)[i] \in Bytes
      BY <1>1, OutputsBytes
    <2>2. 0 \in 0 .. Len(os) /\ block.nonce \in Bytes
      BY <1>1, BlockWritten
    <2> QED BY <2>1, <2>2, Joined
  <1>4. size \in Word(2) /\ size \in Bytes /\ ValueOf(size) = Len(os)
    BY <1>1, <1>2, SizeWritten
  <1>5. z1 \in Bytes /\ z0 \in Bytes
    BY <1>1, <1>3, <1>4, Joined
  <1>6. text = z0
    <2>1. InputTexts(e) \in Seq(Bytes) /\ Len(InputTexts(e)) = Len(ins)
      BY <1>1, InputTextsAre
    <2>2. FromInputs(block) = Chain(InputTexts(e), z0)
      BY DEF FromInputs
    <2> HIDE DEF z0
    <2>3. Chain(InputTexts(e), z0)[Len(InputTexts(e))] = z0
      BY <1>5, <2>1, ChainStep
    <2>4. Len(ins) - 0 = Len(ins)
      BY <1>1
    <2> QED BY <2>1, <2>2, <2>3, <2>4
  <1>7. ic \in Word(HashLen)
    <2>1. ic \in [1 .. HashLen -> Byte]
      BY <1>1, <1>2, LenProperties, Hashes DEF Bytes
    <2> QED BY <2>1 DEF Word
  <1> HIDE DEF s, size, text
  <1>8. Follows(z1, size, s)
    BY <1>3, <1>4 DEF Follows
  <1> HIDE DEF z1
  <1>9. Follows(text, ic, z1)
    BY <1>1, <1>5, <1>6 DEF Follows
  <1> HIDE DEF z0, ic
  <1>10. commitment.v = ic /\ commitment.rest = z1
    BY <1>7, <1>9, Hashes, RawBack
  <1> HIDE DEF commitment
  <1>11. count.v = size /\ count.rest = s
    BY <1>4, <1>8, <1>10, IntBack
  <1> HIDE DEF count
  <1> QED BY <1>4, <1>10, <1>11 DEF count, commitment, text, s, size, ic

\* They are read as they were written.
LEMMA CopyCommitment ==
  ASSUME BlockWriting, bat = "done", BlockReading, ExactBlock, AllRead, ReadCommitment
  PROVE  AllRead'
  <1> DEFINE p == block.payload
             e == p.essence
             ins == e.inputs
             os == e.outputs
             ic == e.inputs_commitment
             s == FromOutputs(p)[0] \o block.nonce
             commitment == ReadRaw(rest, HashLen)
             count == ReadInt(commitment.rest, 2)
  <1>1. /\ rbat = "inputs" /\ bleft = 0 /\ got' = [got EXCEPT !.payload.essence.inputs_commitment = commitment.v]
        /\ rest' = count.rest /\ bleft' = ValueOf(count.v) /\ rbat' = "outputs" /\ block' = block
        /\ rat' = rat
    BY ReaderKeeps DEF ReadCommitment
  <1>2. /\ p \in TransactionPayload /\ p # nullptr /\ rat = "idle"
        /\ rest = FromInputs(block)[Len(ins) - 0]
        /\ got = PartOfEssence(SubSeq(ins, 1, Len(ins) - 0), << >>, << >>)
    BY <1>1 DEF AllRead, InputsRead, BlockReading
  <1>3. /\ ins \in Seq(Input \cup {nullptr}) /\ Len(ins) \in Nat
        /\ os \in Seq(OutputObject \cup {nullptr}) /\ Len(os) \in Nat
    BY <1>2, TransactionWritten
  <1>4. commitment.v = ic /\ ValueOf(count.v) = Len(os) /\ count.rest = s
    BY <1>2, CommitmentHere DEF ExactBlock
  <1> HIDE DEF commitment, count, s, ic
  <1>5. SubSeq(ins, 1, Len(ins) - 0) = ins /\ SubSeq(os, 1, 0) = << >>
    <2>1. Len(ins) - 0 = Len(ins)
      BY <1>3
    <2>2. SubSeq(ins, 1, Len(ins)) = ins
      BY <1>3, SeqEqual, SubSeqProperties
    <2>3. SubSeq(os, 1, 0) = << >>
      BY <1>3, SubSeqProperties
    <2> QED BY <2>1, <2>2, <2>3
  <1>6. got' = PartOfEssence(ins, ic, << >>)
    <2>1. got = PartOfEssence(ins, << >>, << >>)
      BY <1>2, <1>5
    <2> HIDE DEF ins
    <2>2. \A y, z : [PartOfEssence(ins, y, << >>) EXCEPT !.payload.essence.inputs_commitment = z]
                     = PartOfEssence(ins, z, << >>)
      BY DEF PartOfEssence, Partly, BlockOf, PayloadOf, EssenceOf
    <2> QED BY <1>1, <1>4, <2>1, <2>2
  <1>7. Len(os) - Len(os) = 0 /\ Len(os) <= Len(os) /\ bleft' = Len(os) /\ rest' = s /\ rat' = "idle"
    BY <1>1, <1>2, <1>3, <1>4
  <1>8. OutputsRead(rbat, bleft, rest, got, rat, left, dst)'
    BY <1>1, <1>2, <1>5, <1>6, <1>7, ZenonT(60) DEF OutputsRead, s, ic, PartOfEssence, Partly
  <1> QED BY <1>1, <1>8 DEF AllRead, InputsRead, UnlocksRead, NonceRead

\* Each output stands in its place.
LEMMA OutputHere ==
  ASSUME BlockWriting, bat = "done", BlockFits(block),
         block.payload \in TransactionPayload, block.payload # nullptr,
         NEW n \in Nat, n > 0, n <= Len(block.payload.essence.outputs)
  PROVE  LET os == block.payload.essence.outputs
             c == FromOutputs(block.payload)
             k == Len(os) - n
             tail == c[k + 1] \o block.nonce
         IN  /\ Len(os) \in Nat /\ os \in Seq(OutputObject \cup {nullptr})
             /\ k \in 0 .. Len(os) - 1 /\ Len(os) - (n - 1) = k + 1 /\ n - 1 <= Len(os)
             /\ tail \in Bytes /\ Sound(os[k + 1]) /\ c[k] \o block.nonce = Text(os[k + 1], tail)
  <1> DEFINE p == block.payload
             os == p.essence.outputs
             c == FromOutputs(p)
             k == Len(os) - n
             o == os[k + 1]
             a == Text(o, << >>)
             b == c[k + 1]
             d == block.nonce
  <1>1. Len(os) \in Nat /\ os \in Seq(OutputObject \cup {nullptr}) /\ ~ NullHead(p)
    BY TransactionWritten
  <1>2. /\ k \in 0 .. Len(os) - 1 /\ k + 1 \in 1 .. Len(os) /\ Len(os) - (n - 1) = k + 1
        /\ n - 1 <= Len(os) /\ k + 1 \in 0 .. Len(os)
    BY <1>1
  <1>3. d \in Bytes
    BY BlockWritten
  <1>4. \A i \in 1 .. Len(os) : os[i] # nullptr
    BY TransactionWritten
  <1>5. /\ \A i \in 0 .. Len(os) : c[i] \in Bytes
        /\ \A i \in 1 .. Len(os) : os[i] # nullptr => c[i - 1] = Text(os[i], c[i])
        /\ \A i \in 1 .. Len(os) : os[i] # nullptr => Proper(os[i])
    BY <1>1, OutputsBytes
  <1>6. Sound(o)
    <2>1. \A i \in 1 .. Len(os) : Sound(os[i])
      BY FittingTransaction
    <2> QED BY <1>2, <2>1
  <1>7. b \in Bytes /\ Proper(o) /\ c[k] = Text(o, b)
    <2>1. (k + 1) - 1 = k
      BY <1>2
    <2> QED BY <1>2, <1>4, <1>5, <2>1
  <1> HIDE DEF o, c, k, d
  <1>8. b \o d \in Bytes
    BY <1>3, <1>7, Joined
  <1>9. c[k] \o d = Text(o, b \o d)
    <2>1. a \in Bytes /\ Text(o, b) = a \o b
      BY <1>7, TextTail
    <2>2. Text(o, b \o d) = a \o (b \o d)
      BY <1>7, <1>8, TextTail
    <2> HIDE DEF a, b
    <2>3. (a \o b) \o d = a \o (b \o d)
      BY <1>3, <1>7, <2>1, Regroup
    <2> QED BY <1>7, <2>1, <2>2, <2>3
  <1> QED BY <1>1, <1>2, <1>6, <1>8, <1>9 DEF o, c, k, d

\* An output that is begun, goes on or is taken is the next one.
LEMMA NextOutput ==
  ASSUME BlockWriting, bat = "done", ExactBlock, BlockReading, AllRead, rbat = "outputs", bleft > 0
  PROVE  LET os == block.payload.essence.outputs
             c == FromOutputs(block.payload)
             k == Len(os) - bleft
             tail == c[k + 1] \o block.nonce
         IN  /\ os \in Seq(OutputObject \cup {nullptr})
             /\ k \in 0 .. Len(os) - 1 /\ Len(os) - (bleft - 1) = k + 1 /\ bleft - 1 <= Len(os)
             /\ tail \in Bytes /\ Sound(os[k + 1]) /\ c[k] \o block.nonce = Text(os[k + 1], tail)
  <1>1. /\ block.payload \in TransactionPayload /\ block.payload # nullptr
        /\ bleft <= Len(block.payload.essence.outputs) /\ bleft \in Nat
    BY DEF AllRead, OutputsRead, BlockReading
  <1> QED BY <1>1, OutputHere DEF ExactBlock

\* An output is begun at its first byte.
LEMMA CopyReadOutput ==
  ASSUME BlockWriting, bat = "done", BlockReading, ExactBlock, AllRead, ReadOutput
  PROVE  AllRead'
  <1> DEFINE os == block.payload.essence.outputs
             c == FromOutputs(block.payload)
             k == Len(os) - bleft
             tail == c[k + 1] \o block.nonce
  <1>1. /\ rbat = "outputs" /\ rat = "idle" /\ bleft > 0 /\ rat' = "head" /\ rest' = rest /\ got' = got
        /\ rbat' = "outputs" /\ bleft' = bleft /\ block' = block /\ left' = left /\ dst' = dst
    BY ReaderKeeps DEF ReadOutput, blockReaderVars
  <1>2. /\ block.payload \in TransactionPayload /\ block.payload # nullptr /\ bleft <= Len(os)
        /\ got = PartOfEssence(block.payload.essence.inputs, block.payload.essence.inputs_commitment,
                               SubSeq(os, 1, k))
        /\ rest = c[k] \o block.nonce
    BY <1>1 DEF AllRead, OutputsRead
  <1>3. rest = Text(os[k + 1], tail)
    BY <1>1, <1>2, NextOutput
  <1>4. Copied(os[k + 1], tail, rest', rat', left', dst')
    BY <1>1, <1>3, Place DEF Copied
  <1>5. OutputsRead(rbat, bleft, rest, got, rat, left, dst)'
    BY <1>1, <1>2, <1>4 DEF OutputsRead, PartOfEssence, Partly
  <1> QED BY <1>1, <1>5 DEF AllRead, InputsRead, UnlocksRead, NonceRead

\* from_ reads it as it was written.
LEMMA CopyWithin ==
  ASSUME BlockWriting, bat = "done", BlockReading, ExactBlock, AllRead,
         rbat = "outputs", rat # "done", Read,
         UNCHANGED << clientVars, blockWriterVars, blockReaderVars >>
  PROVE  AllRead'
  <1> DEFINE os == block.payload.essence.outputs
             c == FromOutputs(block.payload)
             k == Len(os) - bleft
             tail == c[k + 1] \o block.nonce
             o == os[k + 1]
  <1>1. /\ Deserialize /\ got' = got /\ rbat' = "outputs" /\ bleft' = bleft /\ block' = block
    BY DEF Read, blockReaderVars, clientVars
  <1>2. rat # "idle" /\ rat' # "idle"
    <2>1. rat \in Lists \cup {"head"} /\ rat' \notin {"idle", "head"}
      BY <1>1, DeserializeFrom
    <2> QED BY <2>1, Place
  <1>3. /\ block.payload \in TransactionPayload /\ block.payload # nullptr /\ bleft <= Len(os)
        /\ got = PartOfEssence(block.payload.essence.inputs, block.payload.essence.inputs_commitment,
                               SubSeq(os, 1, k))
        /\ bleft > 0 /\ Copied(o, tail, rest, rat, left, dst)
    BY <1>2 DEF AllRead, OutputsRead
  <1>4. tail \in Bytes /\ Sound(o)
    BY <1>3, NextOutput
  <1>5. rest \in Bytes /\ ReaderHolds(dst, rat, left)
    BY DEF BlockReading
  <1> HIDE DEF o, tail
  <1>6. Copied(o, tail, rest', rat', left', dst')
    BY ONLY <1>1, <1>3, <1>4, <1>5, DeserializeCopy
  <1>7. OutputsRead(rbat, bleft, rest, got, rat, left, dst)'
    BY <1>1, <1>2, <1>3, <1>6 DEF OutputsRead, PartOfEssence, Partly, o, tail
  <1> QED BY <1>1, <1>7 DEF AllRead, InputsRead, UnlocksRead, NonceRead

\* It joins those before it, and the reader is at the first byte after it.
LEMMA CopyTakeOutput ==
  ASSUME BlockWriting, bat = "done", BlockReading, ExactBlock, AllRead, TakeOutput
  PROVE  AllRead'
  <1> DEFINE e == block.payload.essence
             os == e.outputs
             n == Len(os)
             c == FromOutputs(block.payload)
             k == n - bleft
             Part(list) == PartOfEssence(e.inputs, e.inputs_commitment, list)
  <1>1. /\ rbat = "outputs" /\ rat = "done" /\ rbat' = "outputs" /\ bleft' = bleft - 1 /\ block' = block
        /\ got' = [got EXCEPT !.payload.essence.outputs = Append(@, dst)]
        /\ rest' = rest /\ rat' = "idle"
    BY ReaderKeeps DEF TakeOutput
  <1>2. /\ block.payload \in TransactionPayload /\ block.payload # nullptr /\ bleft <= n
        /\ got = Part(SubSeq(os, 1, k)) /\ bleft > 0
        /\ Copied(os[k + 1], c[k + 1] \o block.nonce, rest, rat, left, dst)
    BY <1>1 DEF AllRead, OutputsRead
  <1>3. dst = os[k + 1] /\ rest = c[k + 1] \o block.nonce
    BY <1>1, <1>2 DEF Copied
  <1>4. /\ os \in Seq(OutputObject \cup {nullptr}) /\ k \in 0 .. n - 1
        /\ n - (bleft - 1) = k + 1 /\ bleft - 1 <= n
    BY <1>1, <1>2, NextOutput
  <1>5. Append(SubSeq(os, 1, k), os[k + 1]) = SubSeq(os, 1, k + 1)
    BY <1>4, Longer
  <1>6. got' = Part(SubSeq(os, 1, k + 1))
    <2> HIDE DEF k, os
    <2>1. \A y, z : [Part(y) EXCEPT !.payload.essence.outputs = z] = Part(z)
      BY DEF PartOfEssence, Partly, BlockOf, PayloadOf, EssenceOf
    <2>2. \A y : Part(y).payload.essence.outputs = y
      BY DEF PartOfEssence, Partly, BlockOf, PayloadOf, EssenceOf
    <2> HIDE DEF Part
    <2>3. got' = [got EXCEPT !.payload.essence.outputs = Append(SubSeq(os, 1, k), os[k + 1])]
      BY <1>1, <1>2, <1>3, <2>2
    <2> QED BY <1>2, <1>5, <2>1, <2>3
  <1>7. OutputsRead(rbat, bleft, rest, got, rat, left, dst)'
    BY <1>1, <1>2, <1>3, <1>4, <1>6 DEF OutputsRead, PartOfEssence, Partly
  <1> QED BY <1>1, <1>7 DEF AllRead, InputsRead, UnlocksRead, NonceRead

\* After the outputs of an essence without a payload there are four zeros and the
\* count of the unlocks.
LEMMA TailHere ==
  ASSUME BlockWriting, bat = "done", ExactBlock,
         block.payload \in TransactionPayload, block.payload # nullptr
  PROVE  LET p == block.payload
             os == p.essence.outputs
             us == p.unlocks
             length == ReadInt(FromOutputs(p)[Len(os) - 0] \o block.nonce, 4)
             count == ReadInt(length.rest, 2)
         IN  /\ length.v = Zeros(4)
             /\ ValueOf(count.v) = Len(us) /\ count.rest = FromUnlocks(block)[Len(us) - Len(us)]
             /\ SubSeq(os, 1, Len(os) - 0) = os /\ SubSeq(us, 1, Len(us) - Len(us)) = << >>
             /\ Len(us) <= Len(us) /\ p.essence.payload = nullptr
             /\ p.essence = EssenceOf(p.essence.network_id, p.essence.inputs,
                                      p.essence.inputs_commitment, os, nullptr)
  <1> DEFINE p == block.payload
             e == p.essence
             os == e.outputs
             us == p.unlocks
             c == FromOutputs(p)
             d == block.nonce
             zero == quint32(0)
             size == quint16(Len(us))
             s == FromUnlocks(block)[0]
             z1 == size \o s
             z0 == zero \o z1
             z == c[Len(os) - 0] \o d
             length == ReadInt(z, 4)
             count == ReadInt(length.rest, 2)
  <1>1. /\ ~ NullHead(p) /\ ~ NullTail(p) /\ e \in Essence /\ Len(os) \in Nat /\ Len(us) \in Nat
        /\ os \in Seq(OutputObject \cup {nullptr}) /\ us \in Seq(UnlockObject \cup {nullptr})
        /\ e = EssenceOf(e.network_id, e.inputs, e.inputs_commitment, os, e.payload)
    BY TransactionWritten
  <1>2. Within(Len(us), 2) /\ e.payload = nullptr
    BY ExactTransaction
  <1>3. Len(os) - 0 = Len(os) /\ SubSeq(os, 1, Len(os)) = os /\ SubSeq(us, 1, 0) = << >>
    <2>1. SubSeq(os, 1, Len(os)) = os
      BY <1>1, SeqEqual, SubSeqProperties
    <2>2. SubSeq(us, 1, 0) = << >>
      BY <1>1, SubSeqProperties
    <2> QED BY <1>1, <2>1, <2>2
  <1>4. d \in Bytes
    BY BlockWritten
  <1>5. zero \in Word(4) /\ zero \in Bytes /\ zero = Zeros(4)
    BY PayloadTags, SizeWritten
  <1>6. size \in Word(2) /\ size \in Bytes /\ ValueOf(size) = Len(us)
    BY <1>1, <1>2, SizeWritten
  <1>7. s \in Bytes
    <2>1. UnlockTexts(p) \in Seq(Bytes)
      BY <1>1, UnlockTextsAre, ZenonT(60)
    <2> QED BY <1>4, <2>1, ChainStep, SMTT(40) DEF FromUnlocks
  <1>8. z = z0
    <2> DEFINE t == UnlocksText(p)
    <2>1. c[Len(os)] = TailText(p)
      BY <1>1, OutputsBytes
    <2>2. EssenceTail(e) = zero
      <3>1. << >> \o zero = zero
        BY <1>5, ConcatEmptySeq DEF Bytes
      <3> QED BY <1>2, <3>1 DEF EssenceTail
    <2>3. TailText(p) = zero \o t
      BY <1>1, <2>2, SMTT(40) DEF TailText
    <2>4. t \in Bytes /\ t \o d = z1
      BY <1>1, <1>4, TailBytes DEF FromUnlocks
    <2> HIDE DEF t, d, zero, z1
    <2>5. (zero \o t) \o d = zero \o (t \o d)
      BY <1>4, <1>5, <2>4, Regroup
    <2> QED BY <1>3, <2>1, <2>3, <2>4, <2>5
  <1>9. Len(us) - Len(us) = 0 /\ Len(us) <= Len(us)
    BY <1>1
  <1> HIDE DEF s, size, zero, d
  <1>10. z1 \in Bytes /\ Follows(z1, size, s)
    BY <1>6, <1>7, Joined DEF Follows
  <1> HIDE DEF z1
  <1>11. Follows(z, zero, z1)
    BY <1>5, <1>8, <1>10 DEF Follows
  <1> HIDE DEF z0, z
  <1>12. length.v = zero /\ length.rest = z1
    BY <1>5, <1>11, IntBack
  <1> HIDE DEF length
  <1>13. count.v = size /\ count.rest = s
    BY <1>6, <1>10, <1>12, IntBack
  <1> HIDE DEF count
  <1>14. length.v = Zeros(4) /\ ValueOf(count.v) = Len(us) /\ count.rest = s
    BY <1>5, <1>6, <1>12, <1>13
  <1> QED BY <1>1, <1>2, <1>3, <1>9, <1>14 DEF s, length, count, z, d

\* So they are read, and the essence is the one that was written.
LEMMA CopyEssencePayload ==
  ASSUME BlockWriting, bat = "done", BlockReading, ExactBlock, AllRead, ReadEssencePayload
  PROVE  AllRead'
  <1> DEFINE p == block.payload
             e == p.essence
             os == e.outputs
             us == p.unlocks
             length == ReadInt(rest, 4)
             count == ReadInt(length.rest, 2)
  <1>1. rbat = "outputs" /\ rat = "idle" /\ bleft = 0 /\ block' = block /\ rbat' = "unlocks"
    BY ReaderKeeps DEF ReadEssencePayload
  <1>2. length.v = Zeros(4) => /\ got' = [got EXCEPT !.payload.essence.payload = nullptr]
                               /\ rest' = count.rest /\ bleft' = ValueOf(count.v)
    BY DEF ReadEssencePayload
  <1>3. /\ p \in TransactionPayload /\ p # nullptr /\ rest = FromOutputs(p)[Len(os) - 0] \o block.nonce
        /\ got = PartOfEssence(e.inputs, e.inputs_commitment, SubSeq(os, 1, Len(os) - 0))
    BY <1>1 DEF AllRead, OutputsRead
  <1>4. /\ length.v = Zeros(4)
        /\ ValueOf(count.v) = Len(us) /\ count.rest = FromUnlocks(block)[Len(us) - Len(us)]
        /\ SubSeq(os, 1, Len(os) - 0) = os /\ SubSeq(us, 1, Len(us) - Len(us)) = << >>
        /\ Len(us) <= Len(us) /\ e.payload = nullptr
        /\ e = EssenceOf(e.network_id, e.inputs, e.inputs_commitment, os, nullptr)
    BY <1>3, TailHere
  <1> HIDE DEF length, count
  <1>5. got' = Partly(PayloadOf(e, << >>))
    <2>1. got = PartOfEssence(e.inputs, e.inputs_commitment, os)
      BY <1>3, <1>4
    <2>2. \A y, z : [PartOfEssence(y, z, os) EXCEPT !.payload.essence.payload = nullptr]
                     = PartOfEssence(y, z, os)
      BY DEF PartOfEssence, Partly, BlockOf, PayloadOf, EssenceOf
    <2>3. got' = PartOfEssence(e.inputs, e.inputs_commitment, os)
      BY <1>2, <1>4, <2>1, <2>2
    <2> QED BY <1>4, <2>3 DEF PartOfEssence
  <1>6. bleft' = Len(us) /\ rest' = FromUnlocks(block)[Len(us) - Len(us)]
    BY <1>2, <1>4
  <1>7. UnlocksRead(rbat, bleft, rest, got)'
    BY <1>1, <1>3, <1>4, <1>5, <1>6 DEF UnlocksRead, Partly
  <1> QED BY <1>1, <1>7 DEF AllRead, InputsRead, OutputsRead, NonceRead

\* Each unlock stands in its place.
LEMMA UnlockHere ==
  ASSUME BlockWriting, bat = "done", BlockFits(block), block.payload \in TransactionPayload, block.payload # nullptr,
         NEW n \in Nat, n > 0, n <= Len(block.payload.unlocks)
  PROVE  LET us == block.payload.unlocks
             k == Len(us) - n
             c == FromUnlocks(block)
             unlock == ReadUnlock(c[k])
         IN  /\ unlock.rest = c[k + 1]
             /\ Len(us) - (n - 1) = k + 1 /\ n - 1 <= Len(us)
             /\ Append(SubSeq(us, 1, k), unlock.v) = SubSeq(us, 1, k + 1)
  <1> DEFINE p == block.payload
             us == p.unlocks
             k == Len(us) - n
             x == us[k + 1]
             c == FromUnlocks(block)
             unlock == ReadUnlock(c[k])
  <1>1. ~ NullTail(p) /\ us \in Seq(UnlockObject \cup {nullptr}) /\ Len(us) \in Nat
    BY TransactionWritten
  <1>2. k \in 0 .. Len(us) - 1 /\ k + 1 \in 1 .. Len(us) /\ Len(us) - (n - 1) = k + 1 /\ n - 1 <= Len(us)
    BY <1>1
  <1>3. c[k] = WriteUnlock(x) \o c[k + 1] /\ x \in Unlock /\ c[k + 1] \in Bytes
    <2>1. /\ UnlockTexts(p) \in Seq(Bytes) /\ Len(UnlockTexts(p)) = Len(us)
          /\ x \in Unlock /\ UnlockTexts(p)[k + 1] = WriteUnlock(x)
      BY <1>1, <1>2, UnlockTextsAre
    <2>2. block.nonce \in Bytes /\ c = Chain(UnlockTexts(p), block.nonce)
      BY BlockWritten DEF FromUnlocks
    <2> HIDE DEF c, x, k
    <2>3. Follows(c[k], UnlockTexts(p)[k + 1], c[k + 1])
      BY <1>2, <2>1, <2>2, ChainStep
    <2> QED BY <2>1, <2>3 DEF Follows
  <1> HIDE DEF c
  <1>4. unlock.v = x /\ unlock.rest = c[k + 1]
    <2> HIDE DEF x, k
    <2>1. ReadUnlock(WriteUnlock(x) \o c[k + 1]) = Got(x, c[k + 1])
      <3>1. UnlockFits(x)
        BY <1>2, FittingTransaction DEF x, k
      <3> QED BY <1>3, <3>1, UnlockBack
    <2> QED BY <1>3, <2>1 DEF Got
  <1> HIDE DEF unlock
  <1>5. Append(SubSeq(us, 1, k), x) = SubSeq(us, 1, k + 1)
    BY <1>1, <1>2, Longer
  <1> QED BY <1>2, <1>4, <1>5 DEF unlock, c

\* Each unlock is read as it was written.
LEMMA CopyUnlock ==
  ASSUME BlockWriting, bat = "done", BlockFits(block), BlockReading, AllRead, ReadOneUnlock
  PROVE  AllRead'
  <1> DEFINE p == block.payload
             us == p.unlocks
             k == Len(us) - bleft
             c == FromUnlocks(block)
             unlock == ReadUnlock(rest)
             Part(list) == Partly(PayloadOf(p.essence, list))
  <1>1. /\ rbat = "unlocks" /\ bleft > 0 /\ got' = [got EXCEPT !.payload.unlocks = Append(@, unlock.v)]
        /\ rest' = unlock.rest /\ bleft' = bleft - 1 /\ rbat' = "unlocks" /\ block' = block
    BY ReaderKeeps DEF ReadOneUnlock
  <1>2. /\ p \in TransactionPayload /\ p # nullptr
        /\ bleft <= Len(us) /\ rest = c[k] /\ got = Part(SubSeq(us, 1, k)) /\ bleft \in Nat
    BY <1>1 DEF AllRead, UnlocksRead, BlockReading
  <1>3. /\ unlock.rest = c[k + 1] /\ Len(us) - (bleft - 1) = k + 1 /\ bleft - 1 <= Len(us)
        /\ Append(SubSeq(us, 1, k), unlock.v) = SubSeq(us, 1, k + 1)
    BY <1>1, <1>2, UnlockHere
  <1> HIDE DEF c, unlock
  <1>4. got' = Part(SubSeq(us, 1, k + 1))
    <2> HIDE DEF k, us
    <2>1. \A y, z : [Part(y) EXCEPT !.payload.unlocks = z] = Part(z)
      BY DEF Partly, BlockOf, PayloadOf
    <2>2. \A y : Part(y).payload.unlocks = y
      BY DEF Partly, BlockOf, PayloadOf
    <2> HIDE DEF Part
    <2>3. got' = [got EXCEPT !.payload.unlocks = Append(SubSeq(us, 1, k), unlock.v)]
      BY <1>1, <1>2, <2>2
    <2> QED BY <1>2, <1>3, <2>1, <2>3
  <1>5. UnlocksRead(rbat, bleft, rest, got)'
    BY <1>1, <1>2, <1>3, <1>4 DEF UnlocksRead, Partly, c
  <1> QED BY <1>1, <1>5 DEF AllRead, InputsRead, OutputsRead, NonceRead

\* The nonce stands after the last unlock.
LEMMA NonceHere ==
  ASSUME BlockWriting, bat = "done", block.payload \in TransactionPayload, block.payload # nullptr
  PROVE  LET p == block.payload
             us == p.unlocks
         IN  /\ FromUnlocks(block)[Len(us) - 0] = block.nonce
             /\ SubSeq(us, 1, Len(us) - 0) = us /\ p = PayloadOf(p.essence, us)
  <1> DEFINE p == block.payload
             us == p.unlocks
  <1>1. /\ ~ NullTail(p) /\ us \in Seq(UnlockObject \cup {nullptr}) /\ Len(us) \in Nat
        /\ p = PayloadOf(p.essence, us)
    BY TransactionWritten
  <1>2. Len(us) - 0 = Len(us) /\ SubSeq(us, 1, Len(us)) = us
    <2>1. SubSeq(us, 1, Len(us)) = us
      BY <1>1, SeqEqual, SubSeqProperties
    <2> QED BY <1>1, <2>1
  <1>3. FromUnlocks(block)[Len(us)] = block.nonce
    <2>1. UnlockTexts(p) \in Seq(Bytes) /\ Len(UnlockTexts(p)) = Len(us)
      BY <1>1, UnlockTextsAre
    <2>2. block.nonce \in Bytes
      BY BlockWritten
    <2> QED BY <2>1, <2>2, ChainStep DEF FromUnlocks
  <1> QED BY <1>1, <1>2, <1>3

\* The nonce is the last, and with it the block is the one that was written.
LEMMA CopyNonce ==
  ASSUME BlockWriting, bat = "done", BlockReading, AllRead, ReadNonce
  PROVE  AllRead'
  <1> DEFINE p == block.payload
             us == p.unlocks
             d == block.nonce
             nonce == ReadInt(rest, 8)
             x == nonce.v
             none == << >>
  <1>1. /\ rbat = "nonce" \/ (rbat = "unlocks" /\ bleft = 0)
        /\ got' = [got EXCEPT !.nonce = x] /\ rest' = nonce.rest /\ rbat' = "done" /\ block' = block
    BY ReaderKeeps DEF ReadNonce
  <1>2. d \in Word(8) /\ d \in Bytes /\ block = BlockOf(block.protocol_version, block.parents, p, d)
    BY BlockWritten
  <1>3. rest = d /\ got = Partly(p)
    <2>1. CASE rbat = "nonce"
      BY <2>1 DEF AllRead, NonceRead
    <2>2. CASE rbat = "unlocks" /\ bleft = 0
      <3>1. /\ p \in TransactionPayload /\ p # nullptr /\ rest = FromUnlocks(block)[Len(us) - 0]
            /\ got = Partly(PayloadOf(p.essence, SubSeq(us, 1, Len(us) - 0)))
        BY <2>2 DEF AllRead, UnlocksRead
      <3> QED BY <3>1, NonceHere
    <2> QED BY <1>1, <2>1, <2>2
  <1>4. Follows(rest, d, none)
    BY <1>2, <1>3, NoTail, ConcatEmptySeq DEF Follows, Bytes
  <1> HIDE DEF d, none
  <1>5. x = d /\ nonce.rest = none
    BY <1>2, <1>4, IntBack
  <1> HIDE DEF x, nonce
  <1>6. got' = block
    <2> HIDE DEF p
    <2>1. \A y : [Partly(p) EXCEPT !.nonce = y] = BlockOf(block.protocol_version, block.parents, p, y)
      BY DEF Partly, BlockOf
    <2> QED BY <1>1, <1>2, <1>3, <1>5, <2>1
  <1>7. NonceRead(rbat, rest, got)'
    BY <1>1, <1>5, <1>6 DEF NonceRead, none
  <1> QED BY <1>1, <1>7 DEF AllRead, InputsRead, OutputsRead, UnlocksRead

-----------------------------------------------------------------------------
(***************************************************************************)
(* All of it, of every step.                                               *)
(***************************************************************************)
\* The block is the one its client means, in the fields it has set.  Nothing is
\* read before all is written.
ClientInv ==
  /\ want \in BlockObject /\ called \subseteq Setters /\ round \in {1, 2}
  /\ rbat # "idle" => bat = "done"
  /\ round = 1 =>
       /\ block.payload = want.payload
       /\ "set_pv" \in called => block.protocol_version = want.protocol_version
       /\ "set_parents" \in called => block.parents = want.parents
       /\ "set_nonce" \in called => block.nonce = want.nonce

\* What is read of the bytes that were written.
CopyOfBlock ==
  /\ ParentsFit(block) => ParentsRead(rbat, bleft, rest, got)
  /\ ExactBlock => AllRead
  /\ ParentsFit(block) /\ ~ PayloadSeen => Unseen

BlockInv ==
  /\ BlockWriting /\ BlockReading /\ ClientInv
  /\ rbat # "idle" /\ stream = out => CopyOfBlock

\* A step that leaves the reader or the writer alone keeps what is known of it.
LEMMA SameReader ==
  ASSUME BlockReading, stream' = stream, rest' = rest, rat' = rat, left' = left, dst' = dst,
         got' = got, rbat' = rbat, bleft' = bleft
  PROVE  BlockReading'
  BY DEF BlockReading

LEMMA SameWriter ==
  ASSUME BlockWriting, src' = src, wire' = wire, wat' = wat, wi' = wi, block' = block, out' = out,
         bat' = bat, bi' = bi
  PROVE  BlockWriting'
  BY DEF BlockWriting, WritingOutputs

\* A block that fits has parents that fit.
LEMMA ExactParents ==
  ASSUME ExactBlock
  PROVE  ParentsFit(block)
  BY DEF ExactBlock, BlockFits, ParentsFit

\* The new block has the payload it is given and whatever the memory held.
LEMMA BlockInvInit ==
  ASSUME BlockInit
  PROVE  BlockInv
  <1>1. want \in BlockObject /\ called = {}
    BY WantedAssumption DEF BlockInit
  <1>2. PICK junk \in Junk : block = NewBlock(want.payload, junk)
    BY DEF BlockInit
  <1>3. /\ out = << >> /\ bat = "api" /\ bi = 0 /\ got = nullptr /\ rbat = "idle" /\ bleft = 0
        /\ round = 1 /\ wire = << >> /\ wat = "idle" /\ wi = 0
        /\ stream = << >> /\ rest = << >> /\ rat = "idle" /\ left = 0 /\ dst = nullptr
    BY DEF BlockInit
  <1>4. << >> \in Bytes /\ 0 \in Nat /\ 0 \in 0 .. Radix - 1
    BY NoTail, RadixAssumption
  <1>5. block \in BlockObject /\ block.payload = want.payload
    <2>1. junk \in Byte
      BY JunkAssumption
    <2>2. [i \in 1 .. 8 |-> junk] \in Word(8)
      BY <2>1 DEF Word
    <2>3. << >> \in Seq(Bytes)
      BY NoElements
    <2>4. want.payload \in TaggedData \cup TransactionPayload \cup {nullptr}
      BY <1>1, BlockFields
    <2> QED BY <1>2, <2>1, <2>2, <2>3, <2>4 DEF NewBlock, BlockObject
  <1>6. BlockWriting
    BY <1>3, <1>4, <1>5 DEF BlockWriting, WriterPlaces
  <1>7. ReaderHolds(dst, rat, left)
    BY <1>3, <1>4, Place DEF ReaderHolds
  <1>8. BlockReading
    BY <1>3, <1>4, <1>7 DEF BlockReading, ReaderPlaces
  <1>9. ClientInv
    BY <1>1, <1>3, <1>5 DEF ClientInv
  <1> QED BY <1>3, <1>6, <1>8, <1>9 DEF BlockInv

\* The client sets what it means.
LEMMA BlockInvCall ==
  ASSUME BlockInv, NEW setter \in Setters, Call(setter)
  PROVE  BlockInv'
  <1>1. /\ bat = "api" /\ round = 1 /\ called' = called \cup {setter} /\ want' = want
        /\ stream' = stream /\ rest' = rest /\ rat' = rat /\ left' = left /\ dst' = dst
        /\ got' = got /\ rbat' = rbat /\ bleft' = bleft /\ round' = round
        /\ \/ setter = "set_pv" /\ block' = [block EXCEPT !.protocol_version = want.protocol_version]
           \/ setter = "set_parents" /\ block' = [block EXCEPT !.parents = want.parents]
           \/ setter = "set_nonce" /\ block' = [block EXCEPT !.nonce = want.nonce]
    BY DEF Call, vars, readerVars, blockReaderVars, set_pv, set_parents, set_nonce
  <1>2. BlockWriting' /\ BlockReading'
    BY <1>1, CallWriting, SameReader DEF BlockInv, ClientInv
  <1>3. rbat = "idle"
    BY <1>1 DEF BlockInv, ClientInv
  <1>4. ClientInv'
    <2> DEFINE pv == block.protocol_version
               ps == block.parents
               p == block.payload
               n == block.nonce
    <2>1. /\ want \in BlockObject /\ called \subseteq Setters /\ p = want.payload
          /\ "set_pv" \in called => pv = want.protocol_version
          /\ "set_parents" \in called => ps = want.parents
          /\ "set_nonce" \in called => n = want.nonce
      BY <1>1 DEF BlockInv, ClientInv
    <2>2. block = BlockOf(pv, ps, p, n)
      BY BlockFields DEF BlockInv, BlockWriting
    <2> HIDE DEF pv, ps, p, n
    <2>3. \/ setter = "set_pv" /\ block' = BlockOf(want.protocol_version, ps, p, n)
          \/ setter = "set_parents" /\ block' = BlockOf(pv, want.parents, p, n)
          \/ setter = "set_nonce" /\ block' = BlockOf(pv, ps, p, want.nonce)
      <3>1. \A x : /\ [BlockOf(pv, ps, p, n) EXCEPT !.protocol_version = x] = BlockOf(x, ps, p, n)
                   /\ [BlockOf(pv, ps, p, n) EXCEPT !.parents = x] = BlockOf(pv, x, p, n)
                   /\ [BlockOf(pv, ps, p, n) EXCEPT !.nonce = x] = BlockOf(pv, ps, p, x)
        BY DEF BlockOf
      <3> QED BY <1>1, <2>2, <3>1
    <2>4. \A a, b, c, d : LET x == BlockOf(a, b, c, d)
                          IN  x.protocol_version = a /\ x.parents = b /\ x.payload = c /\ x.nonce = d
      BY DEF BlockOf
    <2>5. called' \subseteq Setters /\ round' \in {1, 2}
      BY <1>1, <2>1
    <2>6. block'.payload = want.payload
      BY <2>1, <2>3, <2>4
    <2>7. "set_pv" \in called' => block'.protocol_version = want.protocol_version
      BY <1>1, <2>1, <2>3, <2>4
    <2>8. "set_parents" \in called' => block'.parents = want.parents
      BY <1>1, <2>1, <2>3, <2>4
    <2>9. "set_nonce" \in called' => block'.nonce = want.nonce
      BY <1>1, <2>1, <2>3, <2>4
    <2> QED BY <1>1, <1>3, <2>1, <2>5, <2>6, <2>7, <2>8, <2>9 DEF ClientInv
  <1> QED BY <1>1, <1>2, <1>3, <1>4 DEF BlockInv

\* The writer's steps come before the reader's.
LEMMA BlockInvWrite ==
  ASSUME BlockInv, WriteBlock
  PROVE  BlockInv'
  <1>1. /\ stream' = stream /\ rest' = rest /\ rat' = rat /\ left' = left /\ dst' = dst
        /\ got' = got /\ rbat' = rbat /\ bleft' = bleft /\ round' = round
        /\ want' = want /\ called' = called /\ block' = block /\ bat # "done"
    <2>1. CASE WriteBlockHead
      BY <2>1 DEF WriteBlockHead, readerVars, clientVars, blockReaderVars
    <2>2. CASE WriteOutput
      BY <2>2 DEF WriteOutput, BetweenOutputs, readerVars, clientVars, blockReaderVars
    <2>3. CASE WriteUnlocks
      BY <2>3 DEF WriteUnlocks, BetweenOutputs, readerVars, clientVars, blockReaderVars
    <2>4. CASE WriteBlockNull
      BY <2>4 DEF WriteBlockNull, BetweenOutputs, vars, readerVars, clientVars, blockReaderVars
    <2>5. CASE WritePayload
      BY <2>5 DEF WritePayload, vars, readerVars, clientVars, blockReaderVars
    <2>6. CASE WriteNonce
      BY <2>6 DEF WriteNonce, vars, readerVars, clientVars, blockReaderVars
    <2>7. CASE /\ bat = "outputs" /\ Write
               /\ UNCHANGED << clientVars, blockWriterVars, blockReaderVars >>
      BY <2>7 DEF Write, readerVars, clientVars, blockReaderVars
    <2> QED BY <2>1, <2>2, <2>3, <2>4, <2>5, <2>6, <2>7 DEF WriteBlock
  <1>2. BlockWriting'
    BY WriteBlockHeadInv, WriteOutputInv, WriteUnlocksInv, WriteBlockNullInv, WritePayloadInv,
       WriteNonceInv, WriteWithinInv DEF WriteBlock, BlockInv
  <1>3. BlockReading'
    BY <1>1, SameReader DEF BlockInv
  <1>4. rbat' = "idle"
    BY <1>1 DEF BlockInv, ClientInv
  <1>5. ClientInv'
    BY <1>1, <1>4 DEF BlockInv, ClientInv
  <1> QED BY <1>2, <1>3, <1>4, <1>5 DEF BlockInv

\* What is sent is the whole, a part of it, or another program's.
LEMMA BlockInvSend ==
  ASSUME BlockInv, Send
  PROVE  BlockInv'
  <1>1. /\ bat = "done" /\ rbat = "idle" /\ rest' = stream' /\ rbat' = "head"
        /\ stream' \in {out} \cup (IF round = 1 THEN CutBlocks \cup ForeignStreams ELSE {})
        /\ src' = src /\ round' = round /\ wire' = wire /\ wat' = wat /\ wi' = wi
        /\ rat' = rat /\ left' = left /\ dst' = dst /\ want' = want /\ called' = called
        /\ block' = block /\ out' = out /\ bat' = bat /\ bi' = bi /\ got' = got /\ bleft' = bleft
    BY DEF Send, writerVars, clientVars, blockWriterVars
  <1>2. out \in Bytes /\ out = BlockText(block)
    BY <1>1 DEF BlockInv, BlockWriting
  <1>3. stream' \in Bytes
    <2>1. \A n \in 0 .. Len(out) - 1 : SubSeq(out, 1, n) \in Bytes
      <3> SUFFICES ASSUME NEW n \in 0 .. Len(out) - 1 PROVE SubSeq(out, 1, n) \in Bytes
        OBVIOUS
      <3>1. Len(out) \in Nat
        BY <1>2, LenProperties DEF Bytes
      <3>2. 1 \in 1 .. Len(out) + 1 /\ n \in 0 .. Len(out)
        BY <3>1
      <3> QED BY <1>2, <3>2, SubSeqProperties DEF Bytes
    <2>2. CutBlocks \subseteq Bytes
      BY <2>1 DEF CutBlocks
    <2> QED BY <1>1, <1>2, <2>2, ForeignAssumption
  <1>4. BlockWriting'
    BY <1>1, SameWriter DEF BlockInv
  <1>5. BlockReading'
    <2>1. ReaderHolds(dst, rat, left) /\ got = nullptr /\ bleft \in Nat /\ rat = "idle"
      BY <1>1 DEF BlockInv, BlockReading
    <2> QED BY <1>1, <1>3, <2>1 DEF BlockReading, ReaderPlaces
  <1>6. ClientInv'
    BY <1>1 DEF BlockInv, ClientInv
  <1>7. stream' = out' => CopyOfBlock'
    <2>1. ASSUME stream' = out' PROVE ParentsRead(rbat, bleft, rest, got)'
      BY <1>1, <1>2, <2>1 DEF ParentsRead
    <2>2. AllRead' /\ Unseen'
      BY <1>1 DEF AllRead, InputsRead, OutputsRead, UnlocksRead, NonceRead, Unseen
    <2> QED BY <2>1, <2>2 DEF CopyOfBlock
  <1> QED BY <1>4, <1>5, <1>6, <1>7 DEF BlockInv

\* The reader's steps leave the writer's side alone, and the reader does not
\* go back.
LEMMA ReadLeaves ==
  ASSUME ReadBlock
  PROVE  /\ src' = src /\ stream' = stream /\ round' = round /\ wire' = wire /\ wat' = wat /\ wi' = wi
         /\ want' = want /\ called' = called /\ block' = block /\ out' = out /\ bat' = bat /\ bi' = bi
         /\ rbat # "idle" /\ rbat' \notin {"idle", "head"}
         /\ rbat' = "parents" => ReadBlockHead \/ ReadParent
         /\ rbat \in {"nonce", "done"} => ReadNonce
  <1>1. CASE ReadBlockHead
    BY <1>1, ReaderKeeps DEF ReadBlockHead
  <1>2. CASE ReadParent
    BY <1>2, ReaderKeeps DEF ReadParent
  <1>3. CASE ReadPayload
    BY <1>3, ReaderKeeps DEF ReadPayload
  <1>4. CASE ReadOneInput
    BY <1>4, ReaderKeeps DEF ReadOneInput
  <1>5. CASE ReadCommitment
    BY <1>5, ReaderKeeps DEF ReadCommitment
  <1>6. CASE ReadOutput
    BY <1>6, ReaderKeeps DEF ReadOutput, blockReaderVars
  <1>7. CASE TakeOutput
    BY <1>7, ReaderKeeps DEF TakeOutput
  <1>8. CASE ReadEssencePayload
    BY <1>8, ReaderKeeps DEF ReadEssencePayload
  <1>9. CASE ReadNested
    BY <1>9, ReaderKeeps DEF ReadNested
  <1>10. CASE ReadOneUnlock
    BY <1>10, ReaderKeeps DEF ReadOneUnlock
  <1>11. CASE ReadNonce
    BY <1>11, ReaderKeeps DEF ReadNonce
  <1>12. CASE /\ rbat = "outputs" /\ rat # "done" /\ Read
              /\ UNCHANGED << clientVars, blockWriterVars, blockReaderVars >>
    BY <1>12 DEF Read, writerVars, clientVars, blockWriterVars, blockReaderVars
  <1> QED BY <1>1, <1>2, <1>3, <1>4, <1>5, <1>6, <1>7, <1>8, <1>9, <1>10, <1>11, <1>12 DEF ReadBlock

\* Every step of Block's constructor builds a block, whatever the stream.
LEMMA BlockReadingStep ==
  ASSUME BlockReading, ReadBlock
  PROVE  BlockReading'
  BY ReadBlockHeadInv, ReadParentInv, ReadPayloadInv, ReadOneInputInv, ReadCommitmentInv,
     ReadOutputInv, TakeOutputInv, ReadEssencePayloadInv, ReadNestedInv, ReadOneUnlockInv,
     ReadNonceInv, ReadWithinInv DEF ReadBlock

\* Of the bytes that were written, it reads what was written.
LEMMA CopyStep ==
  ASSUME BlockWriting, BlockReading, bat = "done", CopyOfBlock, ReadBlock
  PROVE  CopyOfBlock'
  <1>1. block' = block /\ wire' = wire /\ rbat' \notin {"idle", "head"}
    BY ReadLeaves
  <1>2. ParentsFit(block)' => ParentsRead(rbat, bleft, rest, got)'
    <2> SUFFICES ASSUME ParentsFit(block) PROVE ParentsRead(rbat, bleft, rest, got)'
      BY <1>1 DEF ParentsFit
    <2>1. ParentsRead(rbat, bleft, rest, got)
      BY DEF CopyOfBlock
    <2>2. ParentsRead(rbat, bleft, rest, got)' <=> ParentsRead(rbat', bleft', rest', got')
      BY <1>1 DEF ParentsRead
    <2>3. CASE ReadBlockHead
      <3>1. rest = BlockText(block)
        BY <2>1, <2>3 DEF ReadBlockHead, Reading, ParentsRead
      <3> QED BY <2>2, <2>3, <3>1, CopyHead
    <2>4. CASE ReadParent
      BY <2>1, <2>2, <2>4, CopyParent
    <2>5. CASE rbat' # "parents"
      BY <1>1, <2>2, <2>5 DEF ParentsRead
    <2> QED BY <2>3, <2>4, <2>5, ReadLeaves
  <1>3. ExactBlock' => AllRead'
    <2> SUFFICES ASSUME ExactBlock PROVE AllRead'
      BY <1>1 DEF ExactBlock, PayloadSeen
    <2>1. ParentsRead(rbat, bleft, rest, got) /\ AllRead
      BY ExactParents DEF CopyOfBlock
    <2>2. CASE ReadBlockHead \/ ReadParent
      <3>1. rbat' = "parents"
        BY <2>2 DEF ReadBlockHead, ReadParent, Reading
      <3> QED BY <3>1 DEF AllRead, InputsRead, OutputsRead, UnlocksRead, NonceRead
    <2>3. CASE ReadPayload
      BY <2>1, <2>3, CopyPayload
    <2>4. CASE ReadOneInput
      BY <2>1, <2>4, CopyInput DEF ExactBlock
    <2>5. CASE ReadCommitment
      BY <2>1, <2>5, CopyCommitment
    <2>6. CASE ReadOutput
      BY <2>1, <2>6, CopyReadOutput
    <2>7. CASE TakeOutput
      BY <2>1, <2>7, CopyTakeOutput
    <2>8. CASE ReadEssencePayload
      BY <2>1, <2>8, CopyEssencePayload
    <2>9. CASE ReadOneUnlock
      BY <2>1, <2>9, CopyUnlock DEF ExactBlock
    <2>10. CASE ReadNonce
      BY <2>1, <2>10, CopyNonce
    <2>11. CASE /\ rbat = "outputs" /\ rat # "done" /\ Read
                /\ UNCHANGED << clientVars, blockWriterVars, blockReaderVars >>
      BY <2>1, <2>11, CopyWithin
    <2>12. CASE ReadNested
      <3>1. rbat' = "nested"
        BY <2>12 DEF ReadNested
      <3> QED BY <3>1 DEF AllRead, InputsRead, OutputsRead, UnlocksRead, NonceRead
    <2> QED BY <2>2, <2>3, <2>4, <2>5, <2>6, <2>7, <2>8, <2>9, <2>10, <2>11, <2>12 DEF ReadBlock
  <1>4. ParentsFit(block)' /\ ~ PayloadSeen' => Unseen'
    <2> SUFFICES ASSUME ParentsFit(block), ~ PayloadSeen PROVE Unseen'
      BY <1>1 DEF ParentsFit, PayloadSeen
    <2>1. ParentsRead(rbat, bleft, rest, got) /\ Unseen
      BY DEF CopyOfBlock
    <2>2. CASE ReadBlockHead \/ ReadParent
      <3>1. rbat' = "parents"
        BY <2>2 DEF ReadBlockHead, ReadParent, Reading
      <3> QED BY <3>1 DEF Unseen
    <2>3. CASE ReadPayload
      BY <2>1, <2>3, PassPayload DEF Unseen
    <2>4. CASE rbat \in {"nonce", "done"}
      <3>1. ReadNonce
        BY <2>4, ReadLeaves
      <3>2. got' = [got EXCEPT !.nonce = ReadInt(rest, 8).v] /\ rbat' = "done"
        BY <3>1 DEF ReadNonce
      <3>3. got \in BlockObject /\ got.payload = nullptr
        BY <2>1, <2>4 DEF Unseen, BlockReading
      <3>4. got'.payload = nullptr
        BY <3>2, <3>3 DEF BlockObject
      <3> QED BY <3>2, <3>4 DEF Unseen
    <2>5. CASE rbat \in {"head", "parents"}
      <3>1. ReadBlockHead \/ ReadParent \/ ReadPayload
        BY <2>5 DEF ReadBlock, ReadOneInput, ReadCommitment, ReadOutput, TakeOutput,
                    ReadEssencePayload, ReadNested, ReadOneUnlock, ReadNonce, Reading
      <3> QED BY <2>2, <2>3, <3>1
    <2> QED BY <2>1, <2>4, <2>5, ReadLeaves DEF Unseen
  <1> QED BY <1>2, <1>3, <1>4 DEF CopyOfBlock

LEMMA BlockInvRead ==
  ASSUME BlockInv, ReadBlock
  PROVE  BlockInv'
  <1>1. /\ src' = src /\ stream' = stream /\ round' = round /\ wire' = wire /\ wat' = wat /\ wi' = wi
        /\ want' = want /\ called' = called /\ block' = block /\ out' = out /\ bat' = bat /\ bi' = bi
        /\ rbat # "idle"
    BY ReadLeaves
  <1>2. BlockWriting' /\ BlockReading'
    BY <1>1, SameWriter, BlockReadingStep DEF BlockInv
  <1>3. bat = "done" /\ ClientInv'
    BY <1>1 DEF BlockInv, ClientInv
  <1>4. stream' = out' => CopyOfBlock'
    BY <1>1, <1>3, CopyStep DEF BlockInv
  <1> QED BY <1>2, <1>3, <1>4 DEF BlockInv

\* A block that was read may be written.
LEMMA BlockInvForward ==
  ASSUME BlockInv, Forward
  PROVE  BlockInv'
  <1>1. /\ rbat = "done" /\ round = 1 /\ block' = got /\ round' = 2
        /\ out' = << >> /\ bat' = "api" /\ bi' = 0
        /\ got' = nullptr /\ rbat' = "idle" /\ bleft' = 0
        /\ src' = nullptr /\ wire' = << >> /\ wat' = "idle" /\ wi' = 0
        /\ rest' = << >> /\ rat' = "idle" /\ left' = 0 /\ dst' = nullptr
        /\ want' = want /\ called' = called /\ stream' = stream
    BY DEF Forward
  <1>2. got \in BlockObject /\ stream \in Bytes
    BY <1>1 DEF BlockInv, BlockReading
  <1>3. << >> \in Bytes /\ 0 \in Nat /\ 0 \in 0 .. Radix - 1
    BY NoTail, RadixAssumption
  <1>4. BlockWriting'
    BY <1>1, <1>2, <1>3 DEF BlockWriting, WriterPlaces
  <1>5. ReaderHolds(dst', rat', left')
    BY <1>1, <1>3, Place DEF ReaderHolds
  <1>6. BlockReading'
    BY <1>1, <1>2, <1>3, <1>5 DEF BlockReading, ReaderPlaces
  <1>7. ClientInv'
    BY <1>1 DEF BlockInv, ClientInv
  <1> QED BY <1>1, <1>4, <1>6, <1>7 DEF BlockInv

\* So every step keeps it.
LEMMA BlockInvStep ==
  ASSUME BlockInv, [BlockNext]_bvars
  PROVE  BlockInv'
  <1>1. CASE bvars' = bvars
    <2>1. /\ src' = src /\ stream' = stream /\ round' = round /\ wire' = wire /\ wat' = wat /\ wi' = wi
          /\ rest' = rest /\ rat' = rat /\ left' = left /\ dst' = dst
          /\ want' = want /\ called' = called /\ block' = block /\ out' = out /\ bat' = bat /\ bi' = bi
          /\ got' = got /\ rbat' = rbat /\ bleft' = bleft
      BY <1>1 DEF bvars, vars, writerVars, readerVars, clientVars, blockWriterVars, blockReaderVars
    <2>2. BlockWriting' /\ BlockReading'
      BY <2>1, SameWriter, SameReader DEF BlockInv
    <2>3. ClientInv'
      BY <2>1 DEF BlockInv, ClientInv
    <2>4. CopyOfBlock => CopyOfBlock'
      BY <2>1 DEF CopyOfBlock, ParentsFit, ParentsRead, ExactBlock, PayloadSeen, AllRead, InputsRead,
                  OutputsRead, UnlocksRead, NonceRead, PartOfEssence, Partly, Unseen
    <2> QED BY <2>1, <2>2, <2>3, <2>4 DEF BlockInv
  <1>2. CASE BlockFinished
    BY <1>1, <1>2 DEF BlockFinished
  <1>3. ASSUME NEW s \in Setters, Call(s) PROVE BlockInv'
    BY <1>3, BlockInvCall
  <1> QED BY <1>1, <1>2, <1>3, BlockInvWrite, BlockInvSend, BlockInvRead, BlockInvForward DEF BlockNext

LEMMA BlockInvariance ==
  BlockSpec => []BlockInv
  <1>1. BlockInit => BlockInv
    BY BlockInvInit
  <1>2. BlockInv /\ [BlockNext]_bvars => BlockInv'
    BY BlockInvStep
  <1> QED BY <1>1, <1>2, PTL DEF BlockSpec

-----------------------------------------------------------------------------
(***************************************************************************)
(* The reader, of a block that fits and that was cut at whatever byte.     *)
(***************************************************************************)
\* As many bytes of the block as were not sent.
Lost == Len(out) - Len(stream)

\* The reader of a cut stream reads along with a reader of the whole one, and
\* outputs are to come only where they were written; or the stream has run out.
AlongOutputs(n, r, place, l, d) ==
  LET p == block.payload
      os == p.essence.outputs
      c == FromOutputs(p)
      k == Len(os) - n
  IN  /\ p \in TransactionPayload /\ p # nullptr /\ n <= Len(os)
      /\ place = "idle" => FrontOf(r, c[k] \o block.nonce, Lost)
      /\ place # "idle" => n > 0 /\ Short(os[k + 1], c[k + 1] \o block.nonce, r, place, l, d, Lost)
AlongInputs(n, r) ==
  LET p == block.payload
      ins == p.essence.inputs
  IN  /\ p \in TransactionPayload /\ p # nullptr /\ n <= Len(ins)
      /\ FrontOf(r, FromInputs(block)[Len(ins) - n], Lost)
AlongParents(n, r) ==
  n <= Len(block.parents) /\ FrontOf(r, FromParents(block)[Len(block.parents) - n], Lost)
Along(at, n, r, place, l, d) ==
  /\ at = "head" => FrontOf(r, BlockText(block), Lost)
  /\ at = "parents" => r = << >> \/ AlongParents(n, r)
  /\ at = "inputs" => r = << >> \/ AlongInputs(n, r)
  /\ at = "outputs" =>
       (r = << >> /\ place \in {"idle", "head", "done"}) \/ AlongOutputs(n, r, place, l, d)

\* An integer that came whole leaves the front of what is left of the whole, and
\* of one that did not nothing is left: so is the integer after it.
LEMMA TwoShort ==
  ASSUME NEW r, NEW z, NEW lost, r = << >> \/ FrontOf(r, z, lost), NEW w \in Nat
  PROVE  \/ ReadInt(r, w).rest = << >>
         \/ ReadInt(r, w).v = ReadInt(z, w).v /\ FrontOf(ReadInt(r, w).rest, ReadInt(z, w).rest, lost)
  BY IntShort, NoneLeft

\* So is an input, whatever its kind.
LEMMA InputShort ==
  ASSUME NEW r, NEW z, NEW lost, r = << >> \/ FrontOf(r, z, lost)
  PROVE  ReadInput(r).rest = << >> \/ FrontOf(ReadInput(r).rest, ReadInput(z).rest, lost)
  <1> DEFINE kind(s) == ReadInt(s, 1)
             id(s) == ReadRaw(kind(s).rest, HashLen)
             index(s) == ReadInt(id(s).rest, 2)
  <1>1. \A s : ReadInput(s).rest = IF kind(s).v[1] = 0 THEN index(s).rest ELSE kind(s).rest
    BY DEF ReadInput, Got
  <1>2. \/ kind(r).rest = << >>
        \/ kind(r).v = kind(z).v /\ FrontOf(kind(r).rest, kind(z).rest, lost)
    BY TwoShort
  <1> HIDE DEF kind
  <1>3. id(r).rest = << >> \/ FrontOf(id(r).rest, id(z).rest, lost)
    <2>1. kind(r).rest = << >> => id(r).rest = << >>
      BY NoneLeft, Hashes
    <2>2. FrontOf(kind(r).rest, kind(z).rest, lost) => id(r).rest = << >> \/ FrontOf(id(r).rest, id(z).rest, lost)
      BY RawShort, Hashes DEF ShortRead
    <2> QED BY <1>2, <2>1, <2>2
  <1> HIDE DEF id
  <1>4. index(r).rest = << >> \/ FrontOf(index(r).rest, index(z).rest, lost)
    BY <1>3, TwoShort
  <1>5. kind(r).rest = << >> => index(r).rest = << >>
    <2>1. kind(r).rest = << >> => id(r).rest = << >>
      BY NoneLeft, Hashes DEF id
    <2> QED BY <2>1, NoneLeft
  <1> HIDE DEF index
  <1> QED BY <1>1, <1>2, <1>4, <1>5

\* So are tagged data and an unlock, of whatever kinds.
LEMMA TaggedShort ==
  ASSUME NEW r, NEW z, NEW lost, r = << >> \/ FrontOf(r, z, lost), NEW junk \in Junk
  PROVE  \/ ReadTagged(r, junk).rest = << >>
         \/ FrontOf(ReadTagged(r, junk).rest, ReadTagged(z, junk).rest, lost)
  <1> DEFINE tag(s) == ReadArray(s, 1, junk)
             data(s) == ReadArray(tag(s).rest, 4, junk)
  <1>1. \A s : ReadTagged(s, junk).rest = data(s).rest
    BY DEF ReadTagged, Got
  <1>2. tag(r).rest = << >> \/ FrontOf(tag(r).rest, tag(z).rest, lost)
    BY NoneLeft, ArrayShort DEF ShortRead
  <1> HIDE DEF tag
  <1>3. data(r).rest = << >> \/ FrontOf(data(r).rest, data(z).rest, lost)
    BY <1>2, NoneLeft, ArrayShort DEF ShortRead
  <1> HIDE DEF data
  <1> QED BY <1>1, <1>3

LEMMA UnlockShort ==
  ASSUME NEW r, NEW z, NEW lost, r = << >> \/ FrontOf(r, z, lost)
  PROVE  ReadUnlock(r).rest = << >> \/ FrontOf(ReadUnlock(r).rest, ReadUnlock(z).rest, lost)
  <1> DEFINE kind(s) == ReadInt(s, 1)
             inner(s) == ReadInt(kind(s).rest, 1)
             key(s) == ReadRaw(inner(s).rest, HashLen)
             sig(s) == ReadRaw(key(s).rest, SigLen)
             ref(s) == ReadInt(kind(s).rest, 2)
  <1>1. ASSUME NEW s
        PROVE  /\ kind(s).v[1] = 0 =>
                    ReadUnlock(s).rest = IF inner(s).v[1] = 0 THEN sig(s).rest ELSE inner(s).rest
               /\ kind(s).v[1] \in 1 .. 3 => ReadUnlock(s).rest = ref(s).rest
               /\ kind(s).v[1] \notin 0 .. 3 => ReadUnlock(s).rest = kind(s).rest
    <2>1. ReadSignature(kind(s).rest).rest = IF inner(s).v[1] = 0 THEN sig(s).rest ELSE inner(s).rest
      BY DEF ReadSignature, Got
    <2> HIDE DEF kind, inner, sig
    <2> QED BY <2>1 DEF ReadUnlock, Got, kind
  <1>2. \/ kind(r).rest = << >>
        \/ kind(r).v = kind(z).v /\ FrontOf(kind(r).rest, kind(z).rest, lost)
    BY TwoShort
  <1> HIDE DEF kind
  <1>3. \/ inner(r).rest = << >>
        \/ inner(r).v = inner(z).v /\ FrontOf(inner(r).rest, inner(z).rest, lost)
    BY <1>2, TwoShort
  <1>4. ref(r).rest = << >> \/ FrontOf(ref(r).rest, ref(z).rest, lost)
    BY <1>2, TwoShort
  <1>5. kind(r).rest = << >> => inner(r).rest = << >> /\ ref(r).rest = << >>
    BY NoneLeft
  <1> HIDE DEF inner, ref
  <1>6. key(r).rest = << >> \/ FrontOf(key(r).rest, key(z).rest, lost)
    BY <1>3, NoneLeft, RawShort, Hashes DEF ShortRead
  <1>7. inner(r).rest = << >> => key(r).rest = << >>
    BY NoneLeft, Hashes
  <1> HIDE DEF key
  <1>8. sig(r).rest = << >> \/ FrontOf(sig(r).rest, sig(z).rest, lost)
    BY <1>6, NoneLeft, RawShort, Hashes DEF ShortRead
  <1>9. key(r).rest = << >> => sig(r).rest = << >>
    BY NoneLeft, Hashes
  <1> HIDE DEF sig
  <1> QED BY <1>1, <1>2, <1>3, <1>4, <1>5, <1>7, <1>8, <1>9

\* The count of the parents is read as it was written, or nothing is left.
LEMMA AlongHead ==
  ASSUME BlockWriting, bat = "done", BlockFits(block), FrontOf(rest, BlockText(block), Lost), ReadBlockHead
  PROVE  Along(rbat', bleft', rest', rat', left', dst')
  <1> DEFINE first(s) == ReadInt(s, 1)
             count(s) == ReadInt(first(s).rest, 1)
             text == BlockText(block)
  <1>1. rest' = count(rest).rest /\ bleft' = ValueOf(count(rest).v) /\ rbat' = "parents"
    BY DEF ReadBlockHead
  <1>2. ValueOf(count(text).v) = Len(block.parents) /\ count(text).rest = FromParents(block)[0]
    BY BlockHeadHere DEF BlockFits, ParentsFit
  <1>3. first(rest).rest = << >> \/ FrontOf(first(rest).rest, first(text).rest, Lost)
    BY TwoShort
  <1> HIDE DEF first
  <1>4. \/ count(rest).rest = << >>
        \/ count(rest).v = count(text).v /\ FrontOf(count(rest).rest, count(text).rest, Lost)
    BY <1>3, TwoShort
  <1> HIDE DEF count, text
  <1>5. ASSUME rest' # << >> PROVE AlongParents(bleft', rest')
    <2>1. bleft' = Len(block.parents) /\ FrontOf(rest', FromParents(block)[0], Lost)
      BY <1>1, <1>2, <1>4, <1>5
    <2>2. Len(block.parents) \in Nat
      BY BlockWritten, LenProperties
    <2>3. Len(block.parents) - Len(block.parents) = 0 /\ Len(block.parents) <= Len(block.parents)
      BY <2>2
    <2> QED BY <2>1, <2>3 DEF AlongParents
  <1> QED BY <1>1, <1>5 DEF Along

\* A parent is read as it was written, or nothing is left.
LEMMA AlongParent ==
  ASSUME BlockWriting, bat = "done", BlockFits(block), BlockReading,
         rest = << >> \/ AlongParents(bleft, rest), ReadParent
  PROVE  Along(rbat', bleft', rest', rat', left', dst')
  <1> DEFINE k == Len(block.parents) - bleft
             c == FromParents(block)
  <1>1. bleft \in Nat /\ bleft > 0 /\ rest' = ReadRaw(rest, HashLen).rest /\ bleft' = bleft - 1 /\ rbat' = "parents"
    BY ReaderKeeps DEF ReadParent, Reading, BlockReading
  <1>2. CASE rest = << >>
    <2>1. rest' = << >>
      BY <1>1, <1>2, NoneLeft, Hashes
    <2> QED BY <1>1, <2>1 DEF Along
  <1>3. CASE AlongParents(bleft, rest)
    <2>1. bleft <= Len(block.parents) /\ FrontOf(rest, c[k], Lost)
      BY <1>3 DEF AlongParents
    <2>2. /\ ReadRaw(c[k], HashLen).rest = c[k + 1]
          /\ Len(block.parents) - (bleft - 1) = k + 1 /\ bleft - 1 <= Len(block.parents)
      BY <1>1, <2>1, ParentHere DEF BlockFits, ParentsFit
    <2> HIDE DEF c, k
    <2>3. rest' = << >> \/ FrontOf(rest', c[k + 1], Lost)
      BY <1>1, <2>1, <2>2, RawShort, Hashes DEF ShortRead
    <2> QED BY <1>1, <2>2, <2>3 DEF Along, AlongParents, c
  <1> QED BY <1>2, <1>3

\* Inputs are read of no payload but a transaction's, as many as were written, or
\* nothing is left.
LEMMA AlongPayload ==
  ASSUME BlockWriting, bat = "done", BlockFits(block), BlockReading,
         rest = << >> \/ AlongParents(bleft, rest), ReadPayload
  PROVE  Along(rbat', bleft', rest', rat', left', dst')
  <1> DEFINE p == block.payload
             e == p.essence
             z == FromParents(block)[Len(block.parents) - 0]
             length(s) == ReadInt(s, 4)
             kind(s) == ReadInt(length(s).rest, 4)
             essence(s) == ReadInt(kind(s).rest, 1)
             network(s) == ReadInt(essence(s).rest, 8)
             inputs(s) == ReadInt(network(s).rest, 2)
  <1>1. rbat = "parents" /\ bleft = 0 /\ rbat' \in {"nonce", "unlocks", "inputs"}
    BY DEF ReadPayload, Reading
  <1>2. rbat' = "inputs" => /\ length(rest).v # Zeros(4) /\ kind(rest).v = quint32(6)
                            /\ essence(rest).v = << 1 >>
                            /\ rest' = inputs(rest).rest /\ bleft' = ValueOf(inputs(rest).v)
    BY DEF ReadPayload
  <1>3. ASSUME rbat' = "inputs", rest' # << >> PROVE AlongInputs(bleft', rest')
    <2>1. inputs(rest).rest # << >>
      BY <1>2, <1>3
    <2>2. \A w \in Nat : ReadInt(<< >>, w).rest = << >>
      BY NoneLeft
    <2> USE <2>2
    <2>3. network(rest).rest # << >>
      BY <2>1
    <2>4. essence(rest).rest # << >>
      BY <2>3
    <2>5. kind(rest).rest # << >>
      BY <2>4
    <2>6. length(rest).rest # << >>
      BY <2>5
    <2>7. rest # << >>
      BY <2>6
    <2>8. FrontOf(rest, z, Lost)
      BY <1>1, <2>7 DEF AlongParents
    <2> HIDE DEF z
    <2>9. length(rest).v = length(z).v /\ FrontOf(length(rest).rest, length(z).rest, Lost)
      BY <2>6, <2>8, TwoShort
    <2>10. /\ p = nullptr => length(z).v = Zeros(4)
           /\ p # nullptr => length(z).rest = wire \o block.nonce
      BY LengthHere DEF z
    <2> HIDE DEF length
    <2>11. p # nullptr /\ length(z).rest = wire \o block.nonce
      BY <1>2, <1>3, <2>9, <2>10
    <2>12. kind(rest).v = kind(z).v /\ FrontOf(kind(rest).rest, kind(z).rest, Lost)
      BY <2>5, <2>9, TwoShort
    <2>13. p \in TransactionPayload
      <3>1. ASSUME p \in TaggedData, p.type = 5 PROVE FALSE
        <4>1. PICK junk \in Junk : TRUE
          BY JunkAssumption
        <4>2. kind(z).v = quint32(5)
          BY <2>11, <3>1, <4>1, CopyTagged
        <4> QED BY <1>2, <1>3, <2>12, <4>2, PayloadTags
      <3> QED BY <2>11, <3>1, BlockWritten, PayloadKinds
    <2> DEFINE y == wire \o block.nonce
               kindY == ReadInt(y, 4)
               essenceY == ReadInt(kindY.rest, 1)
               networkY == ReadInt(essenceY.rest, 8)
               inputsY == ReadInt(networkY.rest, 2)
    <2>14. ValueOf(inputsY.v) = Len(e.inputs) /\ inputsY.rest = FromInputs(block)[0]
      BY <2>11, <2>13, CopyTransaction
    <2>15. inputs(z) = inputsY
      BY <2>11
    <2> HIDE DEF kind, y, inputsY
    <2>16. FrontOf(essence(rest).rest, essence(z).rest, Lost)
      BY <2>4, <2>12, TwoShort
    <2> HIDE DEF essence
    <2>17. FrontOf(network(rest).rest, network(z).rest, Lost)
      BY <2>3, <2>16, TwoShort
    <2> HIDE DEF network
    <2>18. inputs(rest).v = inputs(z).v /\ FrontOf(inputs(rest).rest, inputs(z).rest, Lost)
      BY <2>1, <2>17, TwoShort
    <2> HIDE DEF inputs
    <2>19. bleft' = Len(e.inputs) /\ FrontOf(rest', FromInputs(block)[0], Lost)
      BY <1>2, <1>3, <2>14, <2>15, <2>18
    <2>20. Len(e.inputs) \in Nat
      BY <2>11, <2>13, TransactionWritten
    <2>21. Len(e.inputs) - Len(e.inputs) = 0 /\ Len(e.inputs) <= Len(e.inputs)
      BY <2>20
    <2> QED BY <2>11, <2>13, <2>19, <2>21 DEF AlongInputs
  <1> QED BY <1>1, <1>3 DEF Along

\* An input is read as it was written, or nothing is left.
LEMMA AlongInput ==
  ASSUME BlockWriting, bat = "done", BlockFits(block), BlockReading,
         rest = << >> \/ AlongInputs(bleft, rest), ReadOneInput
  PROVE  Along(rbat', bleft', rest', rat', left', dst')
  <1> DEFINE ins == block.payload.essence.inputs
             k == Len(ins) - bleft
             c == FromInputs(block)
  <1>1. bleft \in Nat /\ bleft > 0 /\ rest' = ReadInput(rest).rest /\ bleft' = bleft - 1 /\ rbat' = "inputs"
    BY ReaderKeeps DEF ReadOneInput, Reading, BlockReading
  <1>2. CASE rest = << >>
    <2>1. ReadInput(<< >>).rest = << >>
      BY NoneLeft, Hashes DEF ReadInput, Got
    <2> QED BY <1>1, <1>2, <2>1 DEF Along
  <1>3. CASE AlongInputs(bleft, rest)
    <2>1. /\ block.payload \in TransactionPayload /\ block.payload # nullptr
          /\ bleft <= Len(ins) /\ FrontOf(rest, c[k], Lost)
      BY <1>3 DEF AlongInputs
    <2>2. /\ ReadInput(c[k]).rest = c[k + 1] /\ Len(ins) - (bleft - 1) = k + 1 /\ bleft - 1 <= Len(ins)
      BY <1>1, <2>1, InputHere
    <2> HIDE DEF c, k
    <2>3. rest' = << >> \/ FrontOf(rest', c[k + 1], Lost)
      BY <1>1, <2>1, <2>2, InputShort
    <2> QED BY <1>1, <2>1, <2>2, <2>3 DEF Along, AlongInputs, c
  <1> QED BY <1>2, <1>3

\* The count of the outputs is read as it was written, or nothing is left.
LEMMA AlongCommitment ==
  ASSUME BlockWriting, bat = "done", BlockFits(block), BlockReading,
         rest = << >> \/ AlongInputs(bleft, rest), ReadCommitment
  PROVE  Along(rbat', bleft', rest', rat', left', dst')
  <1> DEFINE e == block.payload.essence
             z == FromInputs(block)[Len(e.inputs) - 0]
             commitment(s) == ReadRaw(s, HashLen)
             count(s) == ReadInt(commitment(s).rest, 2)
  <1>1. /\ rbat = "inputs" /\ bleft = 0 /\ rest' = count(rest).rest /\ bleft' = ValueOf(count(rest).v)
        /\ rbat' = "outputs" /\ rat' = "idle"
    BY ReaderKeeps DEF ReadCommitment, BlockReading
  <1>2. CASE rest = << >>
    <2>1. commitment(rest).rest = << >>
      BY <1>2, NoneLeft, Hashes
    <2> HIDE DEF commitment
    <2>2. rest' = << >>
      BY <1>1, <2>1, NoneLeft
    <2> QED BY <1>1, <2>2 DEF Along
  <1>3. CASE AlongInputs(bleft, rest)
    <2>1. block.payload \in TransactionPayload /\ block.payload # nullptr /\ FrontOf(rest, z, Lost)
      BY <1>1, <1>3 DEF AlongInputs
    <2>2. ValueOf(count(z).v) = Len(e.outputs) /\ count(z).rest = FromOutputs(block.payload)[0] \o block.nonce
      BY <2>1, CommitmentHere
    <2>3. commitment(rest).rest = << >> \/ FrontOf(commitment(rest).rest, commitment(z).rest, Lost)
      BY <2>1, RawShort, Hashes DEF ShortRead
    <2> HIDE DEF commitment, z
    <2>4. \/ count(rest).rest = << >>
          \/ count(rest).v = count(z).v /\ FrontOf(count(rest).rest, count(z).rest, Lost)
      BY <2>3, TwoShort
    <2> HIDE DEF count
    <2>5. ASSUME rest' # << >> PROVE AlongOutputs(bleft', rest', rat', left', dst')
      <3>1. bleft' = Len(e.outputs) /\ FrontOf(rest', FromOutputs(block.payload)[0] \o block.nonce, Lost)
        BY <1>1, <2>2, <2>4, <2>5
      <3>2. Len(e.outputs) \in Nat
        BY <2>1, TransactionWritten
      <3>3. Len(e.outputs) - Len(e.outputs) = 0 /\ Len(e.outputs) <= Len(e.outputs)
        BY <3>2
      <3> QED BY <1>1, <2>1, <3>1, <3>3 DEF AlongOutputs
    <2> QED BY <1>1, <2>5 DEF Along
  <1> QED BY <1>2, <1>3

\* An output is begun where it was written, or nothing is left.
LEMMA AlongReadOutput ==
  ASSUME BlockWriting, bat = "done", BlockFits(block), BlockReading,
         Along(rbat, bleft, rest, rat, left, dst), ReadOutput
  PROVE  Along(rbat', bleft', rest', rat', left', dst')
  <1> DEFINE os == block.payload.essence.outputs
             c == FromOutputs(block.payload)
             k == Len(os) - bleft
             tail == c[k + 1] \o block.nonce
  <1>1. /\ rbat = "outputs" /\ rat = "idle" /\ bleft > 0 /\ bleft \in Nat /\ rat' = "head" /\ rest' = rest
        /\ rbat' = "outputs" /\ bleft' = bleft /\ left' = left /\ dst' = dst
    BY ReaderKeeps DEF ReadOutput, blockReaderVars, BlockReading
  <1>2. CASE rest = << >>
    BY <1>1, <1>2 DEF Along
  <1>3. CASE AlongOutputs(bleft, rest, rat, left, dst)
    <2>1. /\ block.payload \in TransactionPayload /\ block.payload # nullptr /\ bleft <= Len(os)
          /\ FrontOf(rest, c[k] \o block.nonce, Lost)
      BY <1>1, <1>3 DEF AlongOutputs
    <2>2. c[k] \o block.nonce = Text(os[k + 1], tail)
      BY <1>1, <2>1, OutputHere
    <2> HIDE DEF c, k, tail
    <2>3. Copied(os[k + 1], tail, c[k] \o block.nonce, "head", left, dst)
      BY <2>2, Place DEF Copied
    <2>4. Short(os[k + 1], tail, rest', rat', left', dst', Lost)
      BY <1>1, <2>1, <2>3 DEF Short
    <2>5. AlongOutputs(bleft', rest', rat', left', dst')
      BY <1>1, <2>1, <2>4 DEF AlongOutputs, tail, c, k
    <2> QED BY <1>1, <2>5 DEF Along
  <1> QED BY <1>1, <1>2, <1>3 DEF Along

\* from_ reads it along, or gives a null pointer where nothing is left.
LEMMA AlongWithin ==
  ASSUME BlockWriting, bat = "done", BlockFits(block), BlockReading,
         Along(rbat, bleft, rest, rat, left, dst), rbat = "outputs", rat # "done", Read,
         UNCHANGED << clientVars, blockWriterVars, blockReaderVars >>
  PROVE  Along(rbat', bleft', rest', rat', left', dst')
  <1> DEFINE os == block.payload.essence.outputs
             c == FromOutputs(block.payload)
             k == Len(os) - bleft
             tail == c[k + 1] \o block.nonce
             o == os[k + 1]
  <1>1. Deserialize /\ rbat' = "outputs" /\ bleft' = bleft /\ bleft \in Nat
    BY DEF Read, blockReaderVars, BlockReading
  <1>2. rat \in Lists \cup {"head"} /\ rat # "idle" /\ rat' # "idle"
    BY <1>1, DeserializeFrom, Place
  <1>3. rest \in Bytes /\ ReaderHolds(dst, rat, left)
    BY DEF BlockReading
  <1>4. CASE AlongOutputs(bleft, rest, rat, left, dst)
    <2>1. /\ block.payload \in TransactionPayload /\ block.payload # nullptr
          /\ bleft > 0 /\ bleft <= Len(os) /\ Short(o, tail, rest, rat, left, dst, Lost)
      BY <1>2, <1>4 DEF AlongOutputs
    <2>2. tail \in Bytes /\ Sound(o)
      BY <1>1, <2>1, OutputHere
    <2> HIDE DEF o, tail
    <2>3. Short(o, tail, rest', rat', left', dst', Lost)
      BY ONLY <1>1, <1>3, <2>1, <2>2, DeserializeShort
    <2>4. AlongOutputs(bleft', rest', rat', left', dst')
      BY <1>1, <1>2, <2>1, <2>3 DEF AlongOutputs, o, tail
    <2> QED BY <1>1, <2>4 DEF Along
  <1>5. CASE rest = << >> /\ rat \in {"idle", "head", "done"}
    <2>1. ReadHead
      <3>1. rat = "head" /\ "head" \notin Lists
        BY <1>2, <1>5, Place
      <3> QED BY <1>1, <3>1 DEF Deserialize, ReadItem, ReadNext
    <2>2. ReadInt(rest, 1).v[1] = 0 /\ ReadInt(rest, 1).rest = << >> /\ 0 \notin OutputKinds
      BY <1>5, NoneLeft DEF OutputKinds
    <2>3. rest' = << >> /\ rat' = "done"
      BY <2>1, <2>2 DEF ReadHead
    <2> QED BY <1>1, <2>3 DEF Along
  <1> QED BY <1>4, <1>5 DEF Along

\* After an output the reader is where the next one was written, or nothing is left.
LEMMA AlongTakeOutput ==
  ASSUME BlockWriting, bat = "done", BlockFits(block), BlockReading,
         Along(rbat, bleft, rest, rat, left, dst), TakeOutput
  PROVE  Along(rbat', bleft', rest', rat', left', dst')
  <1> DEFINE os == block.payload.essence.outputs
             c == FromOutputs(block.payload)
             k == Len(os) - bleft
             tail == c[k + 1] \o block.nonce
  <1>1. /\ rbat = "outputs" /\ rat = "done" /\ rbat' = "outputs" /\ bleft' = bleft - 1
        /\ bleft \in Nat /\ rest' = rest /\ rat' = "idle"
    BY ReaderKeeps DEF TakeOutput, BlockReading
  <1>2. CASE rest = << >>
    BY <1>1, <1>2 DEF Along
  <1>3. CASE rest # << >> /\ AlongOutputs(bleft, rest, rat, left, dst)
    <2>1. /\ block.payload \in TransactionPayload /\ block.payload # nullptr /\ bleft > 0
          /\ bleft <= Len(os) /\ Short(os[k + 1], tail, rest, rat, left, dst, Lost)
      BY <1>1, <1>3 DEF AlongOutputs
    <2>2. Len(os) - (bleft - 1) = k + 1 /\ bleft - 1 <= Len(os)
      BY <1>1, <2>1, OutputHere
    <2> HIDE DEF tail, k, c
    <2>3. PICK z : FrontOf(rest, z, Lost) /\ Copied(os[k + 1], tail, z, rat, left, dst)
      BY <1>3, <2>1 DEF Short
    <2>4. FrontOf(rest', tail, Lost)
      BY <1>1, <2>3 DEF Copied
    <2>5. AlongOutputs(bleft', rest', rat', left', dst')
      BY <1>1, <2>1, <2>2, <2>4 DEF AlongOutputs, tail, c
    <2> QED BY <1>1, <2>5 DEF Along
  <1> QED BY <1>1, <1>2, <1>3 DEF Along

\* After the inputs and the outputs, of a block whose essence has no payload, it
\* reads along too, so that of a block that was cut the nonce is not whole.
AlongUnlocks(n, r) ==
  LET p == block.payload
      us == p.unlocks
  IN  /\ p \in TransactionPayload /\ p # nullptr /\ n <= Len(us)
      /\ FrontOf(r, FromUnlocks(block)[Len(us) - n], Lost)
AlongEnd(at, n, r, g) ==
  /\ at = "unlocks" => r = << >> \/ AlongUnlocks(n, r)
  /\ at = "nonce" => r = << >> \/ FrontOf(r, block.nonce, Lost)
  /\ at = "done" /\ Lost # 0 => r = << >> /\ g.nonce = Zeros(8)

\* A payload that is not a transaction is followed by the nonce, or nothing is left;
\* no payload is taken for one of another kind.
LEMMA EndPayload ==
  ASSUME BlockWriting, bat = "done", ExactBlock, BlockReading,
         rest = << >> \/ AlongParents(bleft, rest), ReadPayload
  PROVE  AlongEnd(rbat', bleft', rest', got')
  <1> DEFINE p == block.payload
             z == FromParents(block)[Len(block.parents) - 0]
             length(s) == ReadInt(s, 4)
             kind(s) == ReadInt(length(s).rest, 4)
             essence(s) == ReadInt(kind(s).rest, 1)
             none(s) == length(s).v = Zeros(4)
  <1>1. rbat = "parents" /\ bleft = 0
    BY DEF ReadPayload, Reading
  <1>2. \/ none(rest) /\ rest' = length(rest).rest /\ rbat' = "nonce"
        \/ /\ ~ none(rest) /\ kind(rest).v = quint32(5) /\ rbat' = "nonce"
           /\ \E junk \in Junk : rest' = ReadTagged(kind(rest).rest, junk).rest
        \/ rbat' = "inputs"
        \/ /\ ~ none(rest) /\ kind(rest).v = quint32(6) /\ essence(rest).v # << 1 >>
           /\ rest' = ReadInt(essence(rest).rest, 2).rest /\ rbat' = "unlocks"
        \/ /\ ~ none(rest) /\ kind(rest).v \notin {quint32(5), quint32(6)}
           /\ rest' = kind(rest).rest /\ rbat' = "nonce"
    BY DEF ReadPayload, AfterUnknown
  <1>3. \/ length(rest).rest = << >>
        \/ length(rest).v = length(z).v /\ FrontOf(length(rest).rest, length(z).rest, Lost)
    BY <1>1, TwoShort DEF AlongParents
  <1>4. /\ p = nullptr => none(z) /\ length(z).rest = block.nonce
        /\ p # nullptr => ~ none(z) /\ length(z).rest = wire \o block.nonce
    BY LengthHere DEF ExactBlock, PayloadSeen
  <1>5. p # nullptr => (p \in TaggedData /\ p.type = 5) \/ p \in TransactionPayload
    BY BlockWritten, PayloadKinds
  <1>6. ASSUME p # nullptr, p \in TaggedData, p.type = 5, NEW junk \in Junk
        PROVE  kind(z).v = quint32(5) /\ ReadTagged(kind(z).rest, junk).rest = block.nonce
    <2> DEFINE kindY == ReadInt(wire \o block.nonce, 4)
    <2>1. kind(z) = kindY
      BY <1>4, <1>6
    <2>2. kindY.v = quint32(5) /\ ReadTagged(kindY.rest, junk) = Got(p, block.nonce)
      BY <1>6, CopyTagged DEF ExactBlock
    <2> HIDE DEF kind, kindY
    <2>3. ReadTagged(kindY.rest, junk).rest = block.nonce
      BY <2>2 DEF Got
    <2> QED BY <2>1, <2>2, <2>3
  <1>7. ASSUME p # nullptr, p \in TransactionPayload
        PROVE  kind(z).v = quint32(6) /\ essence(z).v = << 1 >>
    BY <1>4, <1>7, CopyTransaction DEF ExactBlock
  <1> HIDE DEF length, z
  <1>8. \/ kind(rest).rest = << >>
        \/ kind(rest).v = kind(z).v /\ FrontOf(kind(rest).rest, kind(z).rest, Lost)
    BY <1>3, TwoShort
  <1>9. length(rest).rest = << >> => kind(rest).rest = << >>
    BY NoneLeft
  <1> HIDE DEF kind
  <1>10. \/ essence(rest).rest = << >>
         \/ essence(rest).v = essence(z).v
    <2>1. kind(rest).rest = << >> \/ FrontOf(kind(rest).rest, kind(z).rest, Lost)
      BY <1>8
    <2> QED BY <2>1, TwoShort
  <1>11. kind(rest).rest = << >> => essence(rest).rest = << >>
    BY NoneLeft
  <1> HIDE DEF essence
  <1>12. quint32(5) # quint32(6) /\ \E junk \in Junk : TRUE
    BY PayloadTags, JunkAssumption
  <1>13. CASE none(rest) /\ rest' = length(rest).rest /\ rbat' = "nonce"
    BY <1>3, <1>4, <1>13 DEF AlongEnd
  <1>14. CASE /\ ~ none(rest) /\ kind(rest).v = quint32(5) /\ rbat' = "nonce"
              /\ \E junk \in Junk : rest' = ReadTagged(kind(rest).rest, junk).rest
    <2>1. PICK junk \in Junk : rest' = ReadTagged(kind(rest).rest, junk).rest
      BY <1>14
    <2>2. rest' = << >> \/ FrontOf(rest', ReadTagged(kind(z).rest, junk).rest, Lost)
      BY <1>8, <2>1, TaggedShort
    <2>3. kind(rest).rest = << >> => rest' = << >>
      BY <2>1, NoneLeft DEF ReadTagged, Got
    <2>4. ASSUME rest' # << >> PROVE ReadTagged(kind(z).rest, junk).rest = block.nonce
      <3>1. kind(z).v = quint32(5) /\ ~ none(z)
        BY <1>3, <1>8, <1>9, <1>14, <2>3, <2>4
      <3> QED BY <1>4, <1>5, <1>6, <1>7, <1>12, <3>1
    <2> QED BY <1>14, <2>2, <2>4 DEF AlongEnd
  <1>15. CASE rbat' = "inputs"
    BY <1>15 DEF AlongEnd
  <1>16. CASE /\ ~ none(rest) /\ kind(rest).v = quint32(6) /\ essence(rest).v # << 1 >>
              /\ rest' = ReadInt(essence(rest).rest, 2).rest /\ rbat' = "unlocks"
    <2>1. essence(rest).rest = << >>
      <3> SUFFICES ASSUME essence(rest).rest # << >> PROVE FALSE
        OBVIOUS
      <3>1. kind(z).v = quint32(6) /\ ~ none(z) /\ essence(z).v # << 1 >>
        BY <1>3, <1>8, <1>9, <1>10, <1>11, <1>16
      <3>2. \E junk \in Junk : kind(z).v = quint32(6)
        BY <1>12, <3>1
      <3> QED BY <1>4, <1>5, <1>6, <1>7, <1>12, <3>1, <3>2
    <2>2. rest' = << >>
      BY <1>16, <2>1, NoneLeft
    <2> QED BY <1>16, <2>2 DEF AlongEnd
  <1>17. CASE /\ ~ none(rest) /\ kind(rest).v \notin {quint32(5), quint32(6)}
              /\ rest' = kind(rest).rest /\ rbat' = "nonce"
    <2>1. ASSUME rest' # << >> PROVE FALSE
      <3>1. kind(z).v \notin {quint32(5), quint32(6)} /\ ~ none(z)
        BY <1>3, <1>8, <1>9, <1>17, <2>1
      <3> QED BY <1>4, <1>5, <1>6, <1>7, <1>12, <3>1
    <2> QED BY <1>17, <2>1 DEF AlongEnd
  <1> QED BY <1>2, <1>13, <1>14, <1>15, <1>16, <1>17

\* The count of the unlocks is read as it was written, or nothing is left.
LEMMA EndEssencePayload ==
  ASSUME BlockWriting, bat = "done", ExactBlock, BlockReading,
         Along(rbat, bleft, rest, rat, left, dst), ReadEssencePayload
  PROVE  AlongEnd(rbat', bleft', rest', got')
  <1> DEFINE p == block.payload
             os == p.essence.outputs
             z == FromOutputs(p)[Len(os) - 0] \o block.nonce
             length(s) == ReadInt(s, 4)
             count(s) == ReadInt(length(s).rest, 2)
  <1>1. rbat = "outputs" /\ rat = "idle" /\ bleft = 0 /\ rbat' = "unlocks"
    BY DEF ReadEssencePayload, Reading
  <1>2. length(rest).v = Zeros(4) => rest' = count(rest).rest /\ bleft' = ValueOf(count(rest).v)
    BY DEF ReadEssencePayload
  <1>3. CASE rest = << >>
    <2>1. length(rest).v = Zeros(4) /\ length(rest).rest = << >>
      BY <1>3, NoneLeft
    <2> HIDE DEF length
    <2>2. rest' = << >>
      BY <1>2, <2>1, NoneLeft
    <2> QED BY <1>1, <2>2 DEF AlongEnd
  <1>4. CASE AlongOutputs(bleft, rest, rat, left, dst)
    <2>1. p \in TransactionPayload /\ p # nullptr /\ FrontOf(rest, z, Lost)
      BY <1>1, <1>4 DEF AlongOutputs
    <2>2. /\ length(z).v = Zeros(4) /\ ValueOf(count(z).v) = Len(p.unlocks)
          /\ count(z).rest = FromUnlocks(block)[Len(p.unlocks) - Len(p.unlocks)]
          /\ Len(p.unlocks) <= Len(p.unlocks)
      BY <2>1, TailHere
    <2> HIDE DEF z
    <2>3. \/ length(rest).v = length(z).v /\ FrontOf(length(rest).rest, length(z).rest, Lost)
          \/ length(rest).v = Zeros(4) /\ length(rest).rest = << >>
      BY <2>1, IntShort
    <2> HIDE DEF length
    <2>4. rest' = count(rest).rest /\ bleft' = ValueOf(count(rest).v)
      BY <1>2, <2>2, <2>3
    <2>5. \/ count(rest).rest = << >>
          \/ count(rest).v = count(z).v /\ FrontOf(count(rest).rest, count(z).rest, Lost)
      BY <2>3, TwoShort
    <2> HIDE DEF count
    <2> QED BY <1>1, <2>1, <2>2, <2>4, <2>5 DEF AlongEnd, AlongUnlocks
  <1> QED BY <1>1, <1>3, <1>4 DEF Along

\* An unlock is read to its end, or nothing is left.
LEMMA EndUnlock ==
  ASSUME BlockWriting, bat = "done", BlockFits(block), BlockReading,
         rest = << >> \/ AlongUnlocks(bleft, rest), ReadOneUnlock
  PROVE  AlongEnd(rbat', bleft', rest', got')
  <1> DEFINE us == block.payload.unlocks
             k == Len(us) - bleft
             c == FromUnlocks(block)
  <1>1. bleft \in Nat /\ bleft > 0 /\ rest' = ReadUnlock(rest).rest /\ bleft' = bleft - 1 /\ rbat' = "unlocks"
    BY ReaderKeeps DEF ReadOneUnlock, Reading, BlockReading
  <1>2. CASE rest = << >>
    <2>1. FrontOf(<< >>, << >>, 0)
      BY NoneLeft, EmptySeq
    <2>2. ReadUnlock(<< >>).rest = << >>
      <3>1. \/ ReadUnlock(<< >>).rest = << >>
            \/ FrontOf(ReadUnlock(<< >>).rest, ReadUnlock(<< >>).rest, 1)
        BY UnlockShort
      <3>2. ~ FrontOf(ReadUnlock(<< >>).rest, ReadUnlock(<< >>).rest, 1)
        BY LenProperties DEF FrontOf, Bytes
      <3> QED BY <3>1, <3>2
    <2> QED BY <1>1, <1>2, <2>2 DEF AlongEnd
  <1>3. CASE AlongUnlocks(bleft, rest)
    <2>1. /\ block.payload \in TransactionPayload /\ block.payload # nullptr
          /\ bleft <= Len(us) /\ FrontOf(rest, c[k], Lost)
      BY <1>3 DEF AlongUnlocks
    <2>2. ReadUnlock(c[k]).rest = c[k + 1] /\ Len(us) - (bleft - 1) = k + 1 /\ bleft - 1 <= Len(us)
      BY <1>1, <2>1, UnlockHere
    <2> HIDE DEF c, k
    <2>3. rest' = << >> \/ FrontOf(rest', c[k + 1], Lost)
      BY <1>1, <2>1, <2>2, UnlockShort
    <2> QED BY <1>1, <2>1, <2>2, <2>3 DEF AlongEnd, AlongUnlocks, c
  <1> QED BY <1>2, <1>3

\* A nonce of which a byte is missing is zero, and nothing is left.
LEMMA EndNonce ==
  ASSUME BlockWriting, bat = "done", BlockReading, AlongEnd(rbat, bleft, rest, got), ReadNonce
  PROVE  AlongEnd(rbat', bleft', rest', got')
  <1> DEFINE nonce == ReadInt(rest, 8)
  <1>1. /\ rbat = "nonce" \/ (rbat = "unlocks" /\ bleft = 0)
        /\ got' = [got EXCEPT !.nonce = nonce.v] /\ rest' = nonce.rest /\ rbat' = "done"
    BY DEF ReadNonce
  <1>2. got \in BlockObject
    BY <1>1 DEF BlockReading
  <1>3. got'.nonce = nonce.v
    <2>1. got = BlockOf(got.protocol_version, got.parents, got.payload, got.nonce)
      BY <1>2, BlockFields
    <2> HIDE DEF nonce
    <2> QED BY <1>1, <2>1 DEF BlockOf
  <1>4. rest = << >> \/ FrontOf(rest, block.nonce, Lost)
    <2>1. CASE rbat = "nonce"
      BY <2>1 DEF AlongEnd
    <2>2. CASE rbat = "unlocks" /\ bleft = 0
      BY <2>2, NonceHere DEF AlongEnd, AlongUnlocks
    <2> QED BY <1>1, <2>1, <2>2
  <1>5. ASSUME Lost # 0 PROVE nonce.v = Zeros(8) /\ nonce.rest = << >>
    <2>1. CASE rest = << >>
      BY <2>1, NoneLeft
    <2>2. CASE FrontOf(rest, block.nonce, Lost)
      <3>1. Len(block.nonce) = 8
        BY BlockWritten, WordIsBytes
      <3>2. Len(rest) \in Nat /\ Lost \in Nat /\ Len(rest) + Lost = 8
        BY <2>2, <3>1, LenProperties DEF FrontOf, Bytes
      <3>3. ~ (Len(rest) >= 8)
        BY <1>5, <3>2
      <3> QED BY <3>3 DEF ReadInt, Got
    <2> QED BY <1>4, <2>1, <2>2
  <1> QED BY <1>1, <1>3, <1>5 DEF AlongEnd

\* What is read is the bytes of a block that fits, whole or cut.
Sent == rbat # "idle" /\ stream \in {out} \cup CutBlocks /\ BlockFits(block)
BlockCutInv ==
  Sent => /\ Along(rbat, bleft, rest, rat, left, dst)
          /\ ExactBlock => AlongEnd(rbat, bleft, rest, got)

\* No step of the constructor breaks it.
LEMMA AlongStep ==
  ASSUME BlockWriting, bat = "done", BlockFits(block), BlockReading,
         Along(rbat, bleft, rest, rat, left, dst), ReadBlock
  PROVE  Along(rbat, bleft, rest, rat, left, dst)'
  <1>1. Along(rbat', bleft', rest', rat', left', dst') => Along(rbat, bleft, rest, rat, left, dst)'
    <2>1. block' = block /\ Lost' = Lost
      BY ReadLeaves DEF Lost
    <2> QED BY <2>1 DEF Along, AlongParents, AlongInputs, AlongOutputs
  <1>2. CASE ReadBlockHead
    <2>1. FrontOf(rest, BlockText(block), Lost)
      BY <1>2 DEF ReadBlockHead, Reading, Along
    <2> QED BY <1>1, <1>2, <2>1, AlongHead
  <1>3. CASE ReadParent
    <2>1. rest = << >> \/ AlongParents(bleft, rest)
      BY <1>3 DEF ReadParent, Reading, Along
    <2> QED BY <1>1, <1>3, <2>1, AlongParent
  <1>4. CASE ReadPayload
    <2>1. rest = << >> \/ AlongParents(bleft, rest)
      BY <1>4 DEF ReadPayload, Reading, Along
    <2> QED BY <1>1, <1>4, <2>1, AlongPayload
  <1>5. CASE ReadOneInput
    <2>1. rest = << >> \/ AlongInputs(bleft, rest)
      BY <1>5 DEF ReadOneInput, Reading, Along
    <2> QED BY <1>1, <1>5, <2>1, AlongInput
  <1>6. CASE ReadCommitment
    <2>1. rest = << >> \/ AlongInputs(bleft, rest)
      BY <1>6 DEF ReadCommitment, Reading, Along
    <2> QED BY <1>1, <1>6, <2>1, AlongCommitment
  <1>7. CASE ReadOutput
    BY <1>1, <1>7, AlongReadOutput
  <1>8. CASE TakeOutput
    BY <1>1, <1>8, AlongTakeOutput
  <1>9. CASE ReadEssencePayload \/ ReadNested \/ ReadOneUnlock \/ ReadNonce
    <2>1. rbat' \in {"nested", "unlocks", "done"}
      BY <1>9 DEF ReadEssencePayload, ReadNested, ReadOneUnlock, ReadNonce, Reading
    <2> QED BY <1>1, <2>1 DEF Along
  <1>10. CASE /\ rbat = "outputs" /\ rat # "done" /\ Read
              /\ UNCHANGED << clientVars, blockWriterVars, blockReaderVars >>
    BY <1>1, <1>10, AlongWithin
  <1> QED BY <1>2, <1>3, <1>4, <1>5, <1>6, <1>7, <1>8, <1>9, <1>10 DEF ReadBlock

LEMMA EndStep ==
  ASSUME BlockWriting, bat = "done", ExactBlock, BlockReading,
         Along(rbat, bleft, rest, rat, left, dst), AlongEnd(rbat, bleft, rest, got), ReadBlock
  PROVE  AlongEnd(rbat, bleft, rest, got)'
  <1>1. AlongEnd(rbat', bleft', rest', got') => AlongEnd(rbat, bleft, rest, got)'
    <2>1. block' = block /\ Lost' = Lost
      BY ReadLeaves DEF Lost
    <2> QED BY <2>1 DEF AlongEnd, AlongUnlocks
  <1>2. CASE rbat' \in {"parents", "inputs", "outputs", "nested"}
    BY <1>1, <1>2 DEF AlongEnd
  <1>3. CASE ReadPayload
    <2>1. rest = << >> \/ AlongParents(bleft, rest)
      BY <1>3 DEF ReadPayload, Reading, Along
    <2> QED BY <1>1, <1>3, <2>1, EndPayload
  <1>4. CASE ReadEssencePayload
    BY <1>1, <1>4, EndEssencePayload
  <1>5. CASE ReadOneUnlock
    <2>1. rest = << >> \/ AlongUnlocks(bleft, rest)
      BY <1>5 DEF ReadOneUnlock, Reading, AlongEnd
    <2> QED BY <1>1, <1>5, <2>1, EndUnlock DEF ExactBlock
  <1>6. CASE ReadNonce
    BY <1>1, <1>6, EndNonce
  <1>7. \/ rbat' \in {"parents", "inputs", "outputs", "nested"}
        \/ ReadPayload \/ ReadEssencePayload \/ ReadOneUnlock \/ ReadNonce
    <2>1. ReadBlockHead \/ ReadParent => rbat' = "parents"
      BY DEF ReadBlockHead, ReadParent, Reading
    <2>2. ReadOneInput => rbat' = "inputs"
      BY DEF ReadOneInput, Reading
    <2>3. ReadCommitment \/ ReadOutput \/ TakeOutput => rbat' = "outputs"
      BY DEF ReadCommitment, ReadOutput, TakeOutput, Reading, blockReaderVars
    <2>4. rbat = "outputs" /\ UNCHANGED << clientVars, blockWriterVars, blockReaderVars >> => rbat' = "outputs"
      BY DEF blockReaderVars
    <2>5. ReadNested => rbat' = "nested"
      BY DEF ReadNested
    <2> QED BY <2>1, <2>2, <2>3, <2>4, <2>5 DEF ReadBlock
  <1> QED BY <1>2, <1>3, <1>4, <1>5, <1>6, <1>7

\* A cut block is the front of the whole one.
LEMMA CutBlockFront ==
  ASSUME out \in Bytes, NEW s \in {out} \cup CutBlocks
  PROVE  FrontOf(s, out, Len(out) - Len(s))
  <1>1. PICK n \in 0 .. Len(out) : s = SubSeq(out, 1, n)
    <2>1. Len(out) \in Nat /\ out = SubSeq(out, 1, Len(out))
      <3>1. Len(out) \in Nat
        BY LenProperties DEF Bytes
      <3>2. SubSeq(out, 1, Len(out)) = out
        BY <3>1, SeqEqual, SubSeqProperties DEF Bytes
      <3> QED BY <3>1, <3>2
    <2> QED BY <2>1 DEF CutBlocks
  <1>2. Len(out) \in Nat /\ n \in Nat /\ n <= Len(out) /\ \A i \in 1 .. n : out[i] \in Byte
    BY LenProperties, ElementOfSeq DEF Bytes
  <1>3. /\ s \in Seq(Byte) /\ Len(s) = (IF 1 <= n THEN n - 1 + 1 ELSE 0)
        /\ \A i \in 1 .. n - 1 + 1 : s[i] = out[1 + i - 1]
    BY <1>1, <1>2, SubSeqProperties
  <1>4. Len(s) = n /\ \A i \in 1 .. n : s[i] = out[i]
    BY <1>2, <1>3
  <1> QED BY <1>2, <1>3, <1>4 DEF FrontOf, Bytes

LEMMA BlockCutStep ==
  ASSUME BlockInv, BlockCutInv, [BlockNext]_bvars
  PROVE  BlockCutInv'
  <1>1. CASE bvars' = bvars
    <2>1. /\ rest' = rest /\ rat' = rat /\ left' = left /\ dst' = dst /\ stream' = stream
          /\ block' = block /\ out' = out /\ rbat' = rbat /\ bleft' = bleft
          /\ wire' = wire /\ got' = got
      BY <1>1 DEF bvars, vars, writerVars, readerVars, clientVars, blockWriterVars, blockReaderVars
    <2>2. Lost' = Lost
      BY <2>1 DEF Lost
    <2>3. (Sent' => Sent) /\ (ExactBlock' => ExactBlock)
      BY <2>1 DEF Sent, CutBlocks, ExactBlock, PayloadSeen
    <2>4. Along(rbat, bleft, rest, rat, left, dst) => Along(rbat, bleft, rest, rat, left, dst)'
      BY <2>1, <2>2 DEF Along, AlongParents, AlongInputs, AlongOutputs
    <2>5. AlongEnd(rbat, bleft, rest, got) => AlongEnd(rbat, bleft, rest, got)'
      BY <2>1, <2>2 DEF AlongEnd, AlongUnlocks
    <2> QED BY <2>3, <2>4, <2>5 DEF BlockCutInv
  <1>2. CASE BlockFinished
    BY <1>1, <1>2 DEF BlockFinished
  <1>3. ASSUME NEW s \in Setters, Call(s) PROVE BlockCutInv'
    <2>1. rbat' = rbat /\ rbat = "idle"
      BY <1>3 DEF Call, blockReaderVars, BlockInv, ClientInv
    <2> QED BY <2>1 DEF BlockCutInv, Sent
  <1>4. CASE WriteBlock
    <2>1. rbat' = "idle"
      <3>1. bat # "done" /\ rbat' = rbat
        BY <1>4 DEF WriteBlock, WriteBlockHead, WriteOutput, WriteUnlocks, WriteBlockNull, WritePayload,
                    WriteNonce, BetweenOutputs, blockReaderVars
      <3> QED BY <3>1 DEF BlockInv, ClientInv
    <2> QED BY <2>1 DEF BlockCutInv, Sent
  <1>5. CASE Send
    <2>1. bat = "done" /\ rest' = stream' /\ rbat' = "head" /\ out' = out /\ block' = block
      BY <1>5 DEF Send, clientVars, blockWriterVars
    <2>2. out \in Bytes /\ out = BlockText(block)
      BY <2>1 DEF BlockInv, BlockWriting
    <2>3. CutBlocks' = CutBlocks
      BY <2>1 DEF CutBlocks
    <2>4. stream' \in {out} \cup CutBlocks => FrontOf(rest', BlockText(block), Len(out) - Len(stream'))
      BY <2>1, <2>2, CutBlockFront
    <2>5. Lost' = Len(out) - Len(stream')
      BY <2>1 DEF Lost
    <2> QED BY <2>1, <2>3, <2>4, <2>5 DEF BlockCutInv, Sent, Along, AlongEnd
  <1>6. CASE ReadBlock
    <2>1. /\ stream' = stream /\ block' = block /\ out' = out /\ rbat # "idle"
          /\ BlockWriting /\ BlockReading /\ bat = "done"
      BY <1>6, ReadLeaves DEF BlockInv, ClientInv
    <2>2. (Sent' => Sent) /\ (ExactBlock' => ExactBlock)
      BY <1>6, <2>1, ReadLeaves DEF Sent, CutBlocks, ExactBlock, PayloadSeen
    <2>3. Sent => Along(rbat, bleft, rest, rat, left, dst)'
      BY <1>6, <2>1, AlongStep DEF BlockCutInv, Sent
    <2>4. Sent /\ ExactBlock => AlongEnd(rbat, bleft, rest, got)'
      BY <1>6, <2>1, EndStep DEF BlockCutInv, Sent
    <2> QED BY <2>2, <2>3, <2>4 DEF BlockCutInv
  <1>7. CASE Forward
    BY <1>7 DEF Forward, BlockCutInv, Sent
  <1> QED BY <1>1, <1>2, <1>3, <1>4, <1>5, <1>6, <1>7 DEF BlockNext

LEMMA BlockCutInvariance ==
  BlockSpec => [](BlockInv /\ BlockCutInv)
  <1>1. BlockInit => BlockInv /\ BlockCutInv
    BY BlockInvInit DEF BlockInit, BlockCutInv, Sent
  <1>2. (BlockInv /\ BlockCutInv) /\ [BlockNext]_bvars => (BlockInv /\ BlockCutInv)'
    BY BlockInvStep, BlockCutStep
  <1> QED BY <1>1, <1>2, PTL DEF BlockSpec

-----------------------------------------------------------------------------
(***************************************************************************)
(* What follows for every set of blocks and of foreign streams.            *)
(***************************************************************************)
\* Of whatever stream, Block's constructor builds a block whose parents are
\* hashes, and the writer writes bytes.
THEOREM BlockTyped == BlockSpec => []BlockTypeOK
  <1>1. ASSUME BlockInv PROVE BlockTypeOK
    <2>1. /\ out \in Bytes /\ wire \in Bytes /\ bat \in WriterPlaces /\ bi \in Nat
          /\ block \in BlockObject
      BY <1>1 DEF BlockInv, BlockWriting
    <2>2. /\ stream \in Bytes /\ rest \in Bytes /\ rbat \in ReaderPlaces /\ bleft \in Nat
          /\ got = nullptr \/ (got \in BlockObject /\ got.parents \in Seq(Hash))
      BY <1>1 DEF BlockInv, BlockReading
    <2>3. called \subseteq Setters
      BY <1>1 DEF BlockInv, ClientInv
    <2>4. block.protocol_version \in Byte /\ block.nonce \in Word(8)
      BY <2>1, BlockFields
    <2>5. got # nullptr => /\ got.protocol_version \in Byte /\ got.nonce \in Word(8)
                           /\ \A i \in 1 .. Len(got.parents) : got.parents[i] \in Hash
      <3> SUFFICES ASSUME got # nullptr
                   PROVE  /\ got.protocol_version \in Byte /\ got.nonce \in Word(8)
                          /\ \A i \in 1 .. Len(got.parents) : got.parents[i] \in Hash
        OBVIOUS
      <3>1. got \in BlockObject /\ got.parents \in Seq(Hash)
        BY <2>2
      <3>2. got.protocol_version \in Byte /\ got.nonce \in Word(8)
        BY <3>1, BlockFields
      <3>3. \A i \in 1 .. Len(got.parents) : got.parents[i] \in Hash
        BY <3>1, ElementOfSeq
      <3> QED BY <3>2, <3>3
    <2> QED BY <2>1, <2>2, <2>3, <2>4, <2>5 DEF BlockTypeOK
  <1> QED BY <1>1, BlockInvariance, PTL

\* to_object<Block> gives back what from_object wrote, of every block whose
\* counts fit and whose essence has no payload, and when all setters were
\* called, in whatever order, that is the block the client meant
\* (src/qblock.cpp, qpayloads.cpp, qessences.cpp).
THEOREM BlockRoundTrip == BlockSpec => []RoundTrip
  <1>1. ASSUME BlockInv PROVE RoundTrip
    <2> SUFFICES ASSUME BlockWhole, BlockFits(block), PayloadSeen, ~ HasEssencePayload(block)
                 PROVE  /\ got = block /\ rest = << >>
                        /\ called = Setters /\ round = 1 => got = want
      BY DEF RoundTrip
    <2>1. AllRead
      BY <1>1 DEF BlockWhole, BlockInv, CopyOfBlock, ExactBlock
    <2>2. got = block /\ rest = << >>
      BY <2>1 DEF BlockWhole, AllRead, NonceRead
    <2>3. ASSUME called = Setters, round = 1 PROVE block = want
      <3>1. /\ block.protocol_version = want.protocol_version /\ block.parents = want.parents
            /\ block.payload = want.payload /\ block.nonce = want.nonce
            /\ block \in BlockObject /\ want \in BlockObject
        BY <1>1, <2>3 DEF BlockInv, ClientInv, Setters, BlockWriting
      <3>2. /\ block = BlockOf(block.protocol_version, block.parents, block.payload, block.nonce)
            /\ want = BlockOf(want.protocol_version, want.parents, want.payload, want.nonce)
        BY <3>1, BlockFields
      <3> QED BY <3>1, <3>2
    <2> QED BY <2>2, <2>3
  <1> QED BY <1>1, BlockInvariance, PTL

\* Of every block the one that is read is equal only if it fits, and always if it
\* does: whatever is read has counts that fit and identifiers, keys and signatures of
\* their lengths, and a payload whose length is written as zero is not read at all
\* (src/qblock.cpp, qpayloads.cpp, qessences.cpp, qoutputs.cpp).
THEOREM BlockLimits == BlockSpec => []BlockEqualIffFits
  <1>1. ASSUME BlockInv, BlockWhole, BlockFits(block), PayloadSeen, ~ HasEssencePayload(block)
        PROVE  got = block /\ rest = << >>
    <2>1. AllRead
      BY <1>1 DEF BlockWhole, BlockInv, CopyOfBlock, ExactBlock
    <2> QED BY <1>1, <2>1 DEF BlockWhole, AllRead, NonceRead
  <1>2. ASSUME BlockInv, BlockWhole, got = block PROVE BlockFits(block) /\ PayloadSeen
    <2> DEFINE p == block.payload
    <2>1. /\ rbat = "done" /\ stream = out /\ BlockReading /\ BlockWriting /\ bat = "done"
          /\ CopyOfBlock
      BY <1>2 DEF BlockWhole, BlockInv, ClientInv
    <2>2. /\ block.parents \in Seq(Hash) /\ Len(block.parents) < Radix /\ PayloadRead(p)
          /\ block \in BlockObject
      BY <1>2, <2>1 DEF BlockReading
    <2>3. ParentsFit(block)
      <3>1. \A i \in 1 .. Len(block.parents) : block.parents[i] \in Word(HashLen)
        BY <2>2, ElementOfSeq, Hashes
      <3>2. \A i \in 1 .. Len(block.parents) : Len(block.parents[i]) = HashLen
        BY <3>1, Hashes, WordIsBytes
      <3>3. Len(block.parents) \in Nat /\ Within(Len(block.parents), 1)
        BY <2>2, LenProperties, RadixAssumption DEF Within
      <3> QED BY <3>2, <3>3 DEF ParentsFit
    <2>4. PayloadSeen
      BY <1>2, <2>1, <2>3 DEF CopyOfBlock, Unseen, PayloadSeen
    <2>5. p # nullptr => IF p.type = 5 THEN TaggedFits(p) ELSE TransactionFits(p)
      <3> SUFFICES ASSUME p # nullptr PROVE IF p.type = 5 THEN TaggedFits(p) ELSE TransactionFits(p)
        OBVIOUS
      <3>1. CASE p \in TaggedData /\ TaggedFits(p)
        <4>1. p.type = 5
          BY <3>1 DEF TaggedData
        <4> QED BY <3>1, <4>1
      <3>2. CASE TransactionRead(p, 0)
        <4>1. p \in TransactionPayload /\ Len(p.unlocks) + 0 = Len(p.unlocks) /\ Within(Len(p.unlocks), 2)
          <5>1. p \in TransactionPayload /\ Within(Len(p.unlocks) + 0, 2)
            BY <3>2 DEF TransactionRead
          <5>2. Len(p.unlocks) \in Nat
            BY <2>1, <5>1, TransactionWritten
          <5> QED BY <5>1, <5>2
        <4>2. /\ p.type = 6 /\ p.essence # nullptr /\ Len(p.essence.inputs) \in Nat
              /\ Len(p.essence.outputs) \in Nat
              /\ \A i \in 1 .. Len(p.essence.outputs) :
                   p.essence.outputs[i] # nullptr /\ Complete(p.essence.outputs[i])
              /\ \A i \in 1 .. Len(p.essence.inputs) : p.essence.inputs[i] # nullptr
              /\ \A i \in 1 .. Len(p.unlocks) : p.unlocks[i] # nullptr
          <5>1. \A i \in 1 .. Len(p.unlocks) : p.unlocks[i] # nullptr
            BY <2>1, <4>1, TransactionWritten DEF NullTail, NullUnlock
          <5> QED BY <2>1, <4>1, <5>1, TransactionWritten
        <4>3. EssenceRead(p.essence, 0, 0) /\ Len(p.essence.inputs_commitment) = HashLen
          BY <3>2, <4>2 DEF TransactionRead
        <4>4. \A i \in 1 .. Len(p.essence.outputs) : Fits(p.essence.outputs[i])
          BY <4>2, <4>3, BuiltFits DEF EssenceRead
        <4>5. /\ Within(Len(p.essence.inputs), 2) /\ Within(Len(p.essence.outputs), 2)
              /\ p.essence.payload # nullptr => TaggedFits(p.essence.payload)
          <5>1. /\ Len(p.essence.inputs) + 0 = Len(p.essence.inputs)
                /\ Len(p.essence.outputs) + 0 = Len(p.essence.outputs)
            BY <4>2
          <5> QED BY <4>3, <5>1 DEF EssenceRead
        <4>6. /\ \A i \in 1 .. Len(p.essence.inputs) : InputFits(p.essence.inputs[i])
              /\ \A i \in 1 .. Len(p.unlocks) : UnlockFits(p.unlocks[i])
          BY <3>2, <4>2, <4>3 DEF EssenceRead, TransactionRead
        <4>7. TransactionFits(p)
          BY <4>1, <4>3, <4>4, <4>5, <4>6 DEF TransactionFits
        <4> QED BY <4>2, <4>7
      <3> QED BY <2>2, <3>1, <3>2 DEF PayloadRead
    <2> QED BY <2>3, <2>4, <2>5 DEF BlockFits, ParentsFit
  <1>3. BlockInv => BlockEqualIffFits
    BY <1>1, <1>2 DEF BlockEqualIffFits
  <1> QED BY <1>3, BlockInvariance, PTL

\* A block whose counts fit is read to its end however few of its bytes came: the
\* constructors of Block, of its payload and of its outputs follow no null pointer
\* (src/qblock.cpp, qpayloads.cpp, qessences.cpp, qoutputs.cpp).
THEOREM CutBlockRead == BlockSpec => []CutBlockIsRead
  <1>1. ASSUME BlockInv, BlockCutInv PROVE CutBlockIsRead
    <2> SUFFICES ASSUME Sent PROVE rat # "crash"
      BY DEF CutBlockIsRead, Sent
    <2>1. CASE rbat # "outputs"
      BY <1>1, <2>1 DEF BlockInv, BlockReading
    <2>2. CASE rbat = "outputs"
      <3>1. \/ rat \in {"idle", "head", "done"}
            \/ AlongOutputs(bleft, rest, rat, left, dst)
        BY <1>1, <2>2 DEF BlockCutInv, Along
      <3>2. "crash" \notin Lists \cup {"done"}
        BY DEF Lists
      <3> QED BY <3>1, <3>2 DEF AlongOutputs, Short, Copied
    <2> QED BY <2>1, <2>2
  <1> QED BY <1>1, BlockCutInvariance, PTL

\* Of a block read to its end with a byte missing the nonce is zero and nothing is
\* left to read, when its counts fit, its payload is seen and its essence has no
\* payload: it does not take what came of the nonce, nor anything else, for it
\* (src/include/block/qblock.hpp; the constructors of qpayloads.cpp and of
\* qessences.cpp before it).
THEOREM CutNonce == BlockSpec => []CutNonceZero
  <1>1. ASSUME BlockInv, BlockCutInv PROVE CutNonceZero
    <2> SUFFICES ASSUME rbat = "done", stream \in CutBlocks, ExactBlock
                 PROVE  got.nonce = Zeros(8) /\ rest = << >>
      BY DEF CutNonceZero, ExactBlock
    <2>1. AlongEnd(rbat, bleft, rest, got)
      BY <1>1 DEF BlockCutInv, Sent, ExactBlock
    <2>2. Lost # 0
      <3>1. out \in Bytes
        BY <1>1 DEF BlockInv, ClientInv, BlockWriting
      <3>2. PICK n \in 0 .. Len(out) - 1 : stream = SubSeq(out, 1, n)
        BY DEF CutBlocks
      <3>3. Len(out) \in Nat /\ n \in Nat /\ n < Len(out) /\ \A i \in 1 .. n : out[i] \in Byte
        BY <3>1, <3>2, LenProperties, ElementOfSeq DEF Bytes
      <3>4. Len(stream) = IF 1 <= n THEN n - 1 + 1 ELSE 0
        BY <3>2, <3>3, SubSeqProperties
      <3>5. Len(stream) = n
        BY <3>3, <3>4
      <3> QED BY <3>3, <3>5 DEF Lost
    <2> QED BY <2>1, <2>2 DEF AlongEnd
  <1> QED BY <1>1, BlockCutInvariance, PTL
=============================================================================
