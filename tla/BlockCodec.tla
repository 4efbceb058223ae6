----------------------------- MODULE BlockCodec -----------------------------
(***************************************************************************)
(* A block: built by a client through the setters of Block, serialised,    *)
(* sent, and read by Block's constructor from a stream (src/qblock.cpp,    *)
(* qpayloads.cpp, qessences.cpp).  The payload is first written into a     *)
(* buffer of its own, `wire`, since its length goes before it; its outputs *)
(* are written and read by the steps of OutputCodec.                       *)
(*                                                                         *)
(* The payload of an essence is tagged data here: that of the other kind   *)
(* is a transaction inside a transaction, which no client builds.  A       *)
(* reader that meets one ends in the place "nested", and what it goes on   *)
(* to read, by the same constructors, is not followed.  A block that was   *)
(* read may be forwarded: serialised and read once more.                   *)
(***************************************************************************)
EXTENDS OutputCodec
S == INSTANCE SequencesExt

(***************************************************************************)
(* The objects a client may build, or read.  A pointer may be null; a      *)
(* parent and a commitment are byte arrays, of any length.                 *)
(***************************************************************************)
OutputObject == {o \in OutputRecord : Proper(o)}
UnlockObject == Unlock \cup [type : {0}, signature : {nullptr}, reference : {<< >>}]
Essence ==
  [network_id : Word(8), inputs : Seq(Input \cup {nullptr}), inputs_commitment : Bytes,
   outputs : Seq(OutputObject \cup {nullptr}), payload : TaggedData \cup {nullptr}]
TransactionPayload ==
  [type : {6}, essence : Essence \cup {nullptr}, unlocks : Seq(UnlockObject \cup {nullptr})]
BlockObject ==
  [protocol_version : Byte, parents : Seq(Bytes),
   payload : TaggedData \cup TransactionPayload \cup {nullptr}, nonce : Word(8)]

CONSTANT Wanted   \* the blocks a client sets out to build

ASSUME WantedAssumption == Wanted \subseteq BlockObject

VARIABLES
  want,        \* the block the client means
  called,      \* the setters it has called
  block,       \* its Block object
  out,         \* the serialised block
  bat, bi,     \* where the block's writer is, and how many outputs are written
  got,         \* the block being read
  rbat, bleft  \* where its reader is, and how many of a list are to come

clientVars == << want, called, block >>
blockWriterVars == << out, bat, bi >>
blockReaderVars == << got, rbat, bleft >>
bvars == << vars, clientVars, blockWriterVars, blockReaderVars >>

-----------------------------------------------------------------------------
(***************************************************************************)
(* The client: Block(payload), which leaves the protocol version and the   *)
(* nonce uninitialised, then set_pv, set_parents and set_nonce in any      *)
(* order.  Here each setter is called at most once.                        *)
(***************************************************************************)
Setters == {"set_pv", "set_parents", "set_nonce"}
NewBlock(payload, junk) ==
  [protocol_version |-> junk, parents |-> << >>, payload |-> payload,
   nonce |-> [i \in 1 .. 8 |-> junk]]

set_pv == block' = [block EXCEPT !.protocol_version = want.protocol_version]
set_parents == block' = [block EXCEPT !.parents = want.parents]
set_nonce == block' = [block EXCEPT !.nonce = want.nonce]

Call(setter) ==
  /\ bat = "api" /\ round = 1 /\ setter \notin called
  /\ called' = called \cup {setter}
  /\ \/ setter = "set_pv" /\ set_pv
     \/ setter = "set_parents" /\ set_parents
     \/ setter = "set_nonce" /\ set_nonce
  /\ UNCHANGED << vars, want, blockWriterVars, blockReaderVars >>

-----------------------------------------------------------------------------
(***************************************************************************)
(* Block::serialize and operator<.                                         *)
(***************************************************************************)
WriteAll(list, W(_)) == S!FlattenSeq([i \in 1 .. Len(list) |-> W(list[i])])
WithLengthSelf(bytes) == UInt(Len(bytes) + 4, 4) \o bytes
WithLength(bytes) == UInt(Len(bytes), 4) \o bytes

\* A transaction payload (6) up to the count of its outputs.
WriteEssenceHead(e) ==
  << 1 >> \o e.network_id \o quint16(Len(e.inputs)) \o WriteAll(e.inputs, WriteInput)
    \o e.inputs_commitment \o quint16(Len(e.outputs))

\* Pointers that serialize() follows: one that is null ends the program.
NullUnlock(u) == u # nullptr => (u.type = 0 /\ u.signature = nullptr)
NullHead(p) ==
  /\ p # nullptr /\ p.type = 6
  /\ p.essence # nullptr => \E i \in 1 .. Len(p.essence.inputs) : p.essence.inputs[i] = nullptr
NullTail(p) == \E i \in 1 .. Len(p.unlocks) : NullUnlock(p.unlocks[i])

WriteBlockHead ==
  /\ bat = "api" /\ ~ NullHead(block.payload)
  /\ out' = << block.protocol_version >> \o quint8(Len(block.parents))
              \o S!FlattenSeq(block.parents)
  /\ \/ /\ block.payload = nullptr
        /\ bat' = "close"
        /\ UNCHANGED wire
     \/ /\ block.payload # nullptr /\ block.payload.type = 5
        /\ wire' = WriteTagged(block.payload)
        /\ bat' = "close"
     \/ /\ block.payload # nullptr /\ block.payload.type = 6
        /\ wire' = quint32(6) \o WriteEssenceHead(block.payload.essence)
        /\ bat' = "outputs"
  /\ UNCHANGED << src, stream, round, wat, wi, readerVars, clientVars, bi, blockReaderVars >>

BetweenOutputs == bat = "outputs" /\ wat \in {"idle", "done"}

WriteOutput ==
  /\ BetweenOutputs
  /\ bi < Len(block.payload.essence.outputs) /\ block.payload.essence.outputs[bi + 1] # nullptr
  /\ src' = block.payload.essence.outputs[bi + 1]
  /\ bi' = bi + 1
  /\ wat' = "head"
  /\ UNCHANGED << stream, round, wire, wi, readerVars, clientVars, out, bat, blockReaderVars >>

\* The zero is written whether or not there is a payload: there is no else.
EssenceTailNoZero(e) ==
  IF e.payload = nullptr THEN << >> ELSE WithLength(WriteTagged(e.payload))
EssenceTail(e) ==
  (IF e.payload = nullptr THEN << >> ELSE WithLength(WriteTagged(e.payload))) \o quint32(0)

WriteUnlocks ==
  LET p == block.payload
  IN  /\ BetweenOutputs
      /\ bi = Len(p.essence.outputs) /\ ~ NullTail(p)
      /\ wire' = wire \o EssenceTail(p.essence) \o quint16(Len(p.unlocks))
                   \o WriteAll(p.unlocks, WriteUnlock)
      /\ bat' = "close"
      /\ UNCHANGED << src, stream, round, wat, wi, readerVars, clientVars, out, bi,
                      blockReaderVars >>

WriteBlockNull ==
  LET p == block.payload
  IN  /\ \/ bat = "api" /\ NullHead(p)
         \/ BetweenOutputs /\ bi < Len(p.essence.outputs) /\ p.essence.outputs[bi + 1] = nullptr
         \/ BetweenOutputs /\ bi = Len(p.essence.outputs) /\ NullTail(p)
      /\ bat' = "crash"
      /\ UNCHANGED << vars, clientVars, out, bi, blockReaderVars >>

\* The length and the payload end operator<; serialize adds the nonce.
WritePayload ==
  /\ bat = "close"
  /\ out' = out \o (IF block.payload = nullptr THEN quint32(0) ELSE WithLength(wire))
  /\ bat' = "nonce"
  /\ UNCHANGED << vars, clientVars, bi, blockReaderVars >>

WriteNonce ==
  /\ bat = "nonce"
  /\ out' = out \o block.nonce
  /\ bat' = "done"
  /\ UNCHANGED << vars, clientVars, bi, blockReaderVars >>

WriteBlock ==
  \/ WriteBlockHead \/ WriteOutput \/ WriteUnlocks \/ WriteBlockNull \/ WritePayload
  \/ WriteNonce
  \/ /\ bat = "outputs" /\ Write
     /\ UNCHANGED << clientVars, blockWriterVars, blockReaderVars >>

\* In the first round the bytes may be cut, or come from another program.
CutBlocks == IF Lossy THEN {SubSeq(out, 1, n) : n \in 0 .. Len(out) - 1} ELSE {}
Send ==
  /\ bat = "done" /\ rbat = "idle"
  /\ stream' \in {out} \cup (IF round = 1 THEN CutBlocks \cup ForeignStreams ELSE {})
  /\ rest' = stream'
  /\ rbat' = "head"
  /\ UNCHANGED << src, round, writerVars, rat, left, dst, clientVars, blockWriterVars,
                  got, bleft >>

-----------------------------------------------------------------------------
(***************************************************************************)
(* Block::Block(QDataStream&).  Each step reads from `rest`; the outputs   *)
(* of an essence are read by the steps of OutputCodec in between.          *)
(***************************************************************************)
Reading(place) ==
  /\ rbat = place
  /\ UNCHANGED << src, stream, round, writerVars, left, dst, clientVars, blockWriterVars >>

ReadBlockHead ==
  LET pv    == ReadInt(rest, 1)
      count == ReadInt(pv.rest, 1)
  IN  /\ Reading("head")
      /\ got' = [protocol_version |-> pv.v[1], parents |-> << >>, payload |-> nullptr,
                 nonce |-> Zeros(8)]
      /\ rest' = count.rest /\ bleft' = ValueOf(count.v)
      /\ rbat' = "parents"
      /\ UNCHANGED rat

ReadParentUnsized ==   \* into a Block_ID that nobody gave a size
  /\ Reading("parents") /\ bleft > 0
  /\ got' = [got EXCEPT !.parents = Append(@, << >>)]
  /\ bleft' = bleft - 1
  /\ UNCHANGED << rest, rbat, rat >>
ReadParentWaits ==   \* until the whole of the identifier is there
  LET id == ReadRaw(rest, HashLen)
      ok == Len(rest) >= HashLen
  IN  /\ Reading("parents") /\ bleft > 0
      /\ got' = IF ok THEN [got EXCEPT !.parents = Append(@, id.v)] ELSE got
      /\ rest' = (IF ok THEN id.rest ELSE rest) /\ bleft' = (IF ok THEN bleft - 1 ELSE bleft)
      /\ UNCHANGED << rbat, rat >>
ReadParent ==
  LET id == ReadRaw(rest, HashLen)
  IN  /\ Reading("parents") /\ bleft > 0
      /\ got' = [got EXCEPT !.parents = Append(@, id.v)]
      /\ rest' = id.rest /\ bleft' = bleft - 1
      /\ UNCHANGED << rbat, rat >>

\* Of a payload of an unknown kind only the kind is consumed.
AfterUnknownPeeked(kind, length) == kind.v \o kind.rest   \* the kind is looked at and left
AfterUnknown(kind, length) == kind.rest

\* The length is only tested: what is read is decided by the kind that follows.
ReadPayload ==
  LET length  == ReadInt(rest, 4)
      kind    == ReadInt(length.rest, 4)
      essence == ReadInt(kind.rest, 1)
      network == ReadInt(essence.rest, 8)
      inputs  == ReadInt(network.rest, 2)
      unlocks == ReadInt(essence.rest, 2)
      none    == length.v = Zeros(4)
      Transaction(e) == [type |-> 6, essence |-> e, unlocks |-> << >>]
  IN  /\ Reading("parents") /\ bleft = 0
      /\ \/ /\ none
            /\ rest' = length.rest /\ rbat' = "nonce"
            /\ UNCHANGED << got, bleft >>
         \/ /\ ~ none /\ kind.v = quint32(5)
            /\ \E junk \in Junk :
                 LET tagged == ReadTagged(kind.rest, junk)
                 IN  got' = [got EXCEPT !.payload = tagged.v] /\ rest' = tagged.rest
            /\ rbat' = "nonce"
            /\ UNCHANGED bleft
         \/ /\ ~ none /\ kind.v = quint32(6) /\ essence.v = << 1 >>
            /\ got' = [got EXCEPT !.payload = Transaction(
                         [network_id |-> network.v, inputs |-> << >>, inputs_commitment |-> << >>,
                          outputs |-> << >>, payload |-> nullptr])]
            /\ rest' = inputs.rest /\ bleft' = ValueOf(inputs.v)
            /\ rbat' = "inputs"
         \/ /\ ~ none /\ kind.v = quint32(6) /\ essence.v # << 1 >>
            /\ got' = [got EXCEPT !.payload = Transaction(nullptr)]
            /\ rest' = unlocks.rest /\ bleft' = ValueOf(unlocks.v)
            /\ rbat' = "unlocks"
         \/ /\ ~ none /\ kind.v \notin {quint32(5), quint32(6)}
            /\ rest' = AfterUnknown(kind, length) /\ rbat' = "nonce"
            /\ UNCHANGED << got, bleft >>
      /\ UNCHANGED rat

ReadOneInput ==
  LET input == ReadInput(rest)
  IN  /\ Reading("inputs") /\ bleft > 0
      /\ got' = [got EXCEPT !.payload.essence.inputs = Append(@, input.v)]
      /\ rest' = input.rest /\ bleft' = bleft - 1
      /\ UNCHANGED << rbat, rat >>

ReadCommitment ==
  LET commitment == ReadRaw(rest, HashLen)
      count      == ReadInt(commitment.rest, 2)
  IN  /\ Reading("inputs") /\ bleft = 0
      /\ got' = [got EXCEPT !.payload.essence.inputs_commitment = commitment.v]
      /\ rest' = count.rest /\ bleft' = ValueOf(count.v)
      /\ rbat' = "outputs"
      /\ UNCHANGED rat

\* Output::from_ is entered, runs by the steps of OutputCodec, and is left.
ReadOutput ==
  /\ Reading("outputs") /\ rat = "idle" /\ bleft > 0
  /\ rat' = "head"
  /\ UNCHANGED << rest, blockReaderVars >>
TakeOutput ==
  /\ Reading("outputs") /\ rat = "done"
  /\ got' = [got EXCEPT !.payload.essence.outputs = Append(@, dst)]
  /\ bleft' = bleft - 1
  /\ rat' = "idle"
  /\ UNCHANGED << rest, rbat >>

\* As for the block's payload, and then the count of the unlocks.
ReadEssencePayload ==
  LET length == ReadInt(rest, 4)
      kind   == ReadInt(length.rest, 4)
      none   == length.v = Zeros(4)
  IN  /\ Reading("outputs") /\ rat = "idle" /\ bleft = 0
      /\ \E junk \in Junk :
           LET tagged  == ReadTagged(kind.rest, junk)
               known   == kind.v = quint32(5)
               after   == IF none THEN length.rest ELSE IF known THEN tagged.rest
                          ELSE AfterUnknown(kind, length)
               unlocks == ReadInt(after, 2)
           IN  /\ none \/ kind.v # quint32(6)
               /\ got' = [got EXCEPT !.payload.essence.payload =
                            IF ~ none /\ known THEN tagged.v ELSE nullptr]
               /\ rest' = unlocks.rest /\ bleft' = ValueOf(unlocks.v)
      /\ rbat' = "unlocks"
      /\ UNCHANGED rat

ReadNested ==
  LET length == ReadInt(rest, 4)
      kind   == ReadInt(length.rest, 4)
  IN  /\ Reading("outputs") /\ rat = "idle" /\ bleft = 0
      /\ length.v # Zeros(4) /\ kind.v = quint32(6)
      /\ rbat' = "nested"
      /\ UNCHANGED << rest, got, bleft, rat >>

ReadOneUnlock ==
  LET unlock == ReadUnlock(rest)
  IN  /\ Reading("unlocks") /\ bleft > 0
      /\ got' = [got EXCEPT !.payload.unlocks = Append(@, unlock.v)]
      /\ rest' = unlock.rest /\ bleft' = bleft - 1
      /\ UNCHANGED << rbat, rat >>

ReadNonceRaw ==   \* as an array of eight bytes
  LET nonce == ReadRaw(rest, 8)
  IN  /\ Reading(rbat) /\ (rbat = "nonce" \/ (rbat = "unlocks" /\ bleft = 0))
      /\ got' = [got EXCEPT !.nonce = nonce.v]
      /\ rest' = nonce.rest
      /\ rbat' = "done"
      /\ UNCHANGED << bleft, rat >>
ReadNonce ==
  LET nonce == ReadInt(rest, 8)
  IN  /\ Reading(rbat) /\ (rbat = "nonce" \/ (rbat = "unlocks" /\ bleft = 0))
      /\ got' = [got EXCEPT !.nonce = nonce.v]
      /\ rest' = nonce.rest
      /\ rbat' = "done"
      /\ UNCHANGED << bleft, rat >>

ReadBlock ==
  \/ ReadBlockHead \/ ReadParent \/ ReadPayload \/ ReadOneInput \/ ReadCommitment
  \/ ReadOutput \/ TakeOutput \/ ReadEssencePayload \/ ReadNested
  \/ ReadOneUnlock \/ ReadNonce
  \/ /\ rbat = "outputs" /\ rat # "done" /\ Read
     /\ UNCHANGED << clientVars, blockWriterVars, blockReaderVars >>

\* The client that read a block serialises it and sends it on.
Forward ==
  /\ rbat = "done" /\ round = 1
  /\ block' = got /\ round' = 2
  /\ out' = << >> /\ bat' = "api" /\ bi' = 0
  /\ got' = nullptr /\ rbat' = "idle" /\ bleft' = 0
  /\ src' = nullptr /\ wire' = << >> /\ wat' = "idle" /\ wi' = 0
  /\ rest' = << >> /\ rat' = "idle" /\ left' = 0 /\ dst' = nullptr
  /\ UNCHANGED << want, called, stream >>

-----------------------------------------------------------------------------
Crashed == bat = "crash" \/ wat = "crash" \/ rat = "crash"
BlockEnded == Crashed \/ rbat = "nested" \/ (rbat = "done" /\ round = 2)
BlockFinished == BlockEnded /\ UNCHANGED bvars

BlockInit ==
  /\ want \in Wanted /\ called = {}
  /\ \E junk \in Junk : block = NewBlock(want.payload, junk)
  /\ out = << >> /\ bat = "api" /\ bi = 0
  /\ got = nullptr /\ rbat = "idle" /\ bleft = 0
  /\ src = nullptr /\ round = 1
  /\ wire = << >> /\ wat = "idle" /\ wi = 0
  /\ stream = << >> /\ rest = << >> /\ rat = "idle" /\ left = 0 /\ dst = nullptr

BlockNext == (\E s \in Setters : Call(s)) \/ WriteBlock \/ Send \/ ReadBlock
             \/ Forward \/ BlockFinished

BlockSpec == BlockInit /\ [][BlockNext]_bvars

\* The client goes on until its block is sent; the calls run to their end.
FairBlockSpec == BlockSpec /\ WF_bvars(BlockNext)

-----------------------------------------------------------------------------
WriterPlaces == {"api", "outputs", "close", "nonce", "done", "crash"}
ReaderPlaces ==
  {"idle", "head", "parents", "inputs", "outputs", "nested", "unlocks", "nonce", "done"}

\* Where the writer and the reader of the block can be, and what they hold.
BlockTypeOK ==
  /\ out \in Bytes /\ wire \in Bytes /\ stream \in Bytes /\ rest \in Bytes
  /\ bat \in WriterPlaces /\ bi \in Nat /\ rbat \in ReaderPlaces /\ bleft \in Nat
  /\ called \subseteq Setters
  /\ block.protocol_version \in Byte /\ block.nonce \in Word(8)
  /\ got # nullptr =>
       /\ got.protocol_version \in Byte /\ got.nonce \in Word(8)
       /\ \A i \in 1 .. Len(got.parents) : got.parents[i] \in Hash

\* Every count and size of a block fits its width, and every hash has its length.
TaggedFits(p) == Within(Len(p.tag), 1) /\ Within(Len(p.data), 4)
TransactionFits(p) ==
  /\ Within(Len(p.essence.inputs), 2) /\ Within(Len(p.essence.outputs), 2)
  /\ Within(Len(p.unlocks), 2) /\ Len(p.essence.inputs_commitment) = HashLen
  /\ \A i \in 1 .. Len(p.essence.inputs) : InputFits(p.essence.inputs[i])
  /\ \A i \in 1 .. Len(p.essence.outputs) : Fits(p.essence.outputs[i])
  /\ \A i \in 1 .. Len(p.unlocks) : UnlockFits(p.unlocks[i])
  /\ p.essence.payload # nullptr => TaggedFits(p.essence.payload)
BlockFits(b) ==
  /\ Within(Len(b.parents), 1) /\ \A i \in 1 .. Len(b.parents) : Len(b.parents[i]) = HashLen
  /\ b.payload # nullptr =>
       IF b.payload.type = 5 THEN TaggedFits(b.payload) ELSE TransactionFits(b.payload)

\* A payload whose length is a multiple of 2^32 is written with the length of none.
PayloadSeen == block.payload # nullptr => quint32(Len(wire)) # Zeros(4)

HasEssencePayload(b) ==
  b.payload # nullptr /\ b.payload.type = 6 /\ b.payload.essence.payload # nullptr
BlockWhole == rbat = "done" /\ stream = out

(***************************************************************************)
(* to_object<Block> gives back the block from_object wrote, to the last    *)
(* byte, whichever setters were called: what tests/serialization.cpp       *)
(* asserts of one block with tagged data.  When all were called, in any    *)
(* order, that is the block the client meant.  Forwarded, a block that was *)
(* read from whatever stream is read again as the same block.              *)
(***************************************************************************)
RoundTrip ==
  (BlockWhole /\ BlockFits(block) /\ PayloadSeen /\ ~ HasEssencePayload(block)) =>
    /\ got = block /\ rest = << >>
    /\ called = Setters /\ round = 1 => got = want

(***************************************************************************)
(* The same of every block.  Transaction_Essence::serialize ends a payload *)
(* of its own with four zero bytes that its constructor does not read.     *)
(***************************************************************************)
EssencePayloadRoundTrip ==
  (BlockWhole /\ BlockFits(block) /\ PayloadSeen) => (got = block /\ rest = << >>)

(***************************************************************************)
(* The block read is the one written exactly when every count and size     *)
(* fits its width, every hash, identifier and key has its length and the   *)
(* length of the payload is not taken for none.  Past that it is another   *)
(* block, and nobody is told: a tag of 256 bytes, a signature of 63 and a  *)
(* public key of 33.  (A payload of the essence is lost by itself, see     *)
(* above; a block that has one and does not fit is not read back either.)  *)
(***************************************************************************)
BlockEqualIffFits ==
  BlockWhole =>
    LET same == got = block /\ rest = << >>
        fits == BlockFits(block) /\ PayloadSeen
    IN  /\ same => fits
        /\ fits /\ ~ HasEssencePayload(block) => same

(***************************************************************************)
(* No part of a block's bytes but the whole reads as that block, unless    *)
(* its nonce is zero and only zeros, or bytes an uninitialised array       *)
(* happened to hold, were lost.                                            *)
(***************************************************************************)
CutBlockDiffers ==
  (rbat = "done" /\ stream # out /\ got = block) =>
    /\ block.nonce = Zeros(8)
    /\ \A i \in Len(stream) + 1 .. Len(out) : out[i] \in Junk \cup {0}

(***************************************************************************)
(* A block whose counts fit is read to its end however few of its bytes    *)
(* came: no null pointer is followed while it is read, neither where the   *)
(* stream ran out within an output nor where it ran out before one.        *)
(***************************************************************************)
CutBlockIsRead ==
  (rbat # "idle" /\ stream \in {out} \cup CutBlocks /\ BlockFits(block)) => rat # "crash"

(***************************************************************************)
(* However a block was cut, its nonce is read as zero and nothing is left: *)
(* whichever part of it the stream ran out in, no bytes of one part are    *)
(* taken for those of another, nor a part of the nonce for the whole.      *)
(***************************************************************************)
CutNonceZero ==
  (/\ rbat = "done" /\ stream \in CutBlocks
   /\ BlockFits(block) /\ PayloadSeen /\ ~ HasEssencePayload(block)) =>
    got.nonce = Zeros(8) /\ rest = << >>

(***************************************************************************)
(* Every block is written and read to the end, and so is the one forwarded *)
(* after it, unless a null pointer ends the program: the counts that drive *)
(* the loops bound them.                                                   *)
(***************************************************************************)
BlockTermination == <>[]BlockEnded
=============================================================================
