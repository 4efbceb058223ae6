----------------------------- MODULE OutputCodec -----------------------------
(***************************************************************************)
(* One output written by serialize() and read back by Output::from_, list  *)
(* element by list element, as clone() does in memory and as a client does *)
(* with the bytes a node sent it (src/qoutputs.cpp, qoutputs.hpp).         *)
(*                                                                         *)
(* The writer appends to `wire`.  Deliver hands the reader a stream: all   *)
(* of wire, or, where the bytes crossed a network, a part of it or bytes   *)
(* of another program.  The reader consumes `rest` and builds `dst`.  What *)
(* was received may then be cloned in turn, once.                          *)
(***************************************************************************)
EXTENDS Elements

CONSTANTS
  Outputs,         \* the outputs that are written
  Lossy,           \* whether the reader may be given a cut stream
  ForeignStreams   \* streams this library did not write

ASSUME LossyAssumption == Lossy \in BOOLEAN
ASSUME ForeignAssumption == ForeignStreams \subseteq Bytes

VARIABLES
  src,      \* the output that is written
  wire,     \* what the writer has produced
  wat, wi,  \* where the writer is: a list, and how many of it are written
  stream,   \* what the reader was given
  rest,     \* what it has still to read
  rat, left,\* where the reader is: a list, and how many of it are to come
  dst,      \* the output it builds
  round     \* 1, or 2 when the output received is cloned

writerVars == << wire, wat, wi >>
readerVars == << rest, rat, left, dst >>
vars == << src, stream, round, writerVars, readerVars >>

-----------------------------------------------------------------------------
(***************************************************************************)
(* Outputs: Basic (3), Alias (4), Foundry (5), NFT (6).  own holds the     *)
(* fields that only one class has.                                         *)
(***************************************************************************)
OutputKinds == 3 .. 6
Lists == {"native_tokens", "unlock_conditions", "features", "immutable_features"}
Own(kind) ==
  CASE kind = 3 -> {<< >>}
    [] kind = 4 -> [alias_id : Bytes, state_index : Word(4), state_metadata : Bytes,
                    foundry_counter : Word(4)]
    [] kind = 5 -> [serial_number : Word(4), token_scheme : TokenScheme \cup {nullptr}]
    [] kind = 6 -> [nft_id : Bytes]

\* The list that follows list f; Basic outputs have no immutable features.
NextList(kind, f) ==
  CASE f = "native_tokens"      -> "unlock_conditions"
    [] f = "unlock_conditions"  -> "features"
    [] f = "features"           -> IF kind = 3 THEN "done" ELSE "immutable_features"
    [] f = "immutable_features" -> "done"

-----------------------------------------------------------------------------
WriteElement(f, e) ==
  CASE f = "native_tokens"     -> WriteToken(e)
    [] f = "unlock_conditions" -> WriteCondition(e)
    [] f \in {"features", "immutable_features"} -> WriteFeature(e)

\* The fields of one class only; they follow the native tokens.
WriteOwnCounterFirst(o) ==
  CASE o.type = 3 -> << >>
    [] o.type = 4 -> o.own.alias_id \o o.own.state_index
                       \o o.own.foundry_counter \o WriteArray(o.own.state_metadata, 2)
    [] o.type = 5 -> o.own.serial_number \o WriteScheme(o.own.token_scheme)
    [] o.type = 6 -> o.own.nft_id
WriteOwn(o) ==
  CASE o.type = 3 -> << >>
    [] o.type = 4 -> o.own.alias_id \o o.own.state_index
                       \o WriteArray(o.own.state_metadata, 2) \o o.own.foundry_counter
    [] o.type = 5 -> o.own.serial_number \o WriteScheme(o.own.token_scheme)
    [] o.type = 6 -> o.own.nft_id

WriteHead ==
  /\ wat = "head"
  /\ wire' = wire \o << src.type >> \o src.amount \o quint8(Len(src.native_tokens))
  /\ wat' = "native_tokens"
  /\ wi' = 0

\* Pointers that serialize() follows.
Addressed(f) == CASE f = "native_tokens"     -> {}
                  [] f = "unlock_conditions" -> (0 .. 6) \ {2}
                  [] OTHER                   -> {0, 1}
NullElement(f, e) ==
  IF e = nullptr THEN TRUE
  ELSE f # "native_tokens" /\ e.type \in Addressed(f) /\ e.address = nullptr
NullOwn(o) == o.type = 5 /\ o.own.token_scheme = nullptr

WriteItem(f) ==
  /\ wat = f
  /\ wi < Len(src[f])
  /\ ~ NullElement(f, src[f][wi + 1])
  /\ wire' = wire \o WriteElement(f, src[f][wi + 1])
  /\ wi' = wi + 1
  /\ UNCHANGED wat

WriteNextImmutable(f) ==   \* of a Basic output too
  LET next == IF f = "features" THEN "immutable_features" ELSE NextList(src.type, f)
      own  == IF f = "native_tokens" THEN WriteOwn(src) ELSE << >>
  IN  /\ wat = f
      /\ wi = Len(src[f])
      /\ wire' = wire \o own \o (IF next = "done" THEN << >> ELSE quint8(Len(src[next])))
      /\ wat' = next
      /\ wi' = 0
WriteNext(f) ==
  LET next == NextList(src.type, f)
      own  == IF f = "native_tokens" THEN WriteOwn(src) ELSE << >>
  IN  /\ wat = f
      /\ wi = Len(src[f])
      /\ ~ (f = "native_tokens" /\ NullOwn(src))
      /\ wire' = wire \o own \o (IF next = "done" THEN << >> ELSE quint8(Len(src[next])))
      /\ wat' = next
      /\ wi' = 0

WriteNull(f) ==
  /\ wat = f
  /\ \/ wi < Len(src[f]) /\ NullElement(f, src[f][wi + 1])
     \/ wi = Len(src[f]) /\ f = "native_tokens" /\ NullOwn(src)
  /\ wat' = "crash"
  /\ UNCHANGED << wire, wi >>

Serialize == WriteHead \/ \E f \in Lists : WriteItem(f) \/ WriteNext(f) \/ WriteNull(f)

-----------------------------------------------------------------------------
ReadElement(f, s, junk) ==
  CASE f = "native_tokens"     -> ReadToken(s)
    [] f = "unlock_conditions" -> ReadCondition(s)
    [] f \in {"features", "immutable_features"} -> ReadFeature(s, junk)

Less(f, a, b) == IF f = "native_tokens" THEN TokenLess(a, b) ELSE TypeLess(a, b)

(***************************************************************************)
(* pset, a std::set of pointers compared by the objects they point to, is  *)
(* the sequence of its elements in that order.  insert keeps the element   *)
(* that is already there when the new one compares equal to it.            *)
(***************************************************************************)
InsertDuplicate(f, set, x) ==
  LET at == CHOOSE k \in 0 .. Len(set) :
              /\ \A i \in 1 .. k : ~ Less(f, x, set[i])
              /\ \A i \in k + 1 .. Len(set) : Less(f, x, set[i])
  IN  SubSeq(set, 1, at) \o << x >> \o Drop(set, at)
Insert(f, set, x) ==
  IF \E i \in 1 .. Len(set) : ~ Less(f, set[i], x) /\ ~ Less(f, x, set[i])
  THEN set
  ELSE LET at == CHOOSE k \in 0 .. Len(set) :
                   /\ \A i \in 1 .. k : Less(f, set[i], x)
                   /\ \A i \in k + 1 .. Len(set) : Less(f, x, set[i])
       IN  SubSeq(set, 1, at) \o << x >> \o Drop(set, at)

ReadAlias(s, junk) ==
  LET id      == ReadRaw(s, HashLen)
      index   == ReadInt(id.rest, 4)
      data    == ReadArray(index.rest, 2, junk)
      counter == ReadInt(data.rest, 4)
  IN  Got([alias_id |-> id.v, state_index |-> index.v, state_metadata |-> data.v,
           foundry_counter |-> counter.v], counter.rest)
ReadFoundryRaw(s) ==   \* the serial number read as an array of four bytes
  LET serial == ReadRaw(s, 4)
      scheme == ReadScheme(serial.rest)
  IN  Got([serial_number |-> serial.v, token_scheme |-> scheme.v], scheme.rest)
ReadFoundry(s) ==
  LET serial == ReadInt(s, 4)
      scheme == ReadScheme(serial.rest)
  IN  Got([serial_number |-> serial.v, token_scheme |-> scheme.v], scheme.rest)
ReadNFTUnsized(s) == Got([nft_id |-> << >>], s)   \* into an NFT_ID that nobody gave a size
ReadNFT(s) ==
  LET id == ReadRaw(s, HashLen)
  IN  Got([nft_id |-> id.v], id.rest)
ReadOwn(kind, s, junk) ==
  CASE kind = 3 -> Got(<< >>, s)
    [] kind = 4 -> ReadAlias(s, junk)
    [] kind = 5 -> ReadFoundry(s)
    [] kind = 6 -> ReadNFT(s)

\* An output kind the program does not know gives a null pointer.
ReadHead ==
  LET kind   == ReadInt(rest, 1)
      amount == ReadInt(kind.rest, 8)
      count  == ReadInt(amount.rest, 1)
  IN  /\ rat = "head"
      /\ \/ /\ kind.v[1] \in OutputKinds
            /\ dst' = [type |-> kind.v[1], amount |-> amount.v, native_tokens |-> << >>,
                       unlock_conditions |-> << >>, features |-> << >>,
                       immutable_features |-> << >>, own |-> << >>]
            /\ rest' = count.rest
            /\ left' = ValueOf(count.v)
            /\ rat' = "native_tokens"
         \/ /\ kind.v[1] \notin OutputKinds
            /\ dst' = nullptr
            /\ rest' = kind.rest
            /\ rat' = "done"
            /\ UNCHANGED left

\* Inserting into a pset compares objects, so a null pointer beside another
\* element is dereferenced.
InsertElement(f, e) ==
  \/ /\ dst[f] = << >>
     /\ dst' = [dst EXCEPT ![f] = << e >>]
     /\ UNCHANGED rat
  \/ /\ dst[f] # << >> /\ e # nullptr /\ dst[f][1] # nullptr
     /\ dst' = [dst EXCEPT ![f] = Insert(f, @, e)]
     /\ UNCHANGED rat
  \/ /\ dst[f] # << >> /\ (e = nullptr \/ dst[f][1] = nullptr)
     /\ rat' = "crash"
     /\ UNCHANGED dst

ReadItemWaits(f) ==   \* as long as there is nothing to read
  /\ rat = f
  /\ left > 0
  /\ IF rest = << >> THEN UNCHANGED readerVars
     ELSE \E junk \in Junk :
            LET e == ReadElement(f, rest, junk)
            IN  left' = left - 1 /\ rest' = e.rest /\ InsertElement(f, e.v)
ReadItem(f) ==
  /\ rat = f
  /\ left > 0
  /\ left' = left - 1
  /\ \E junk \in Junk :
       LET e == ReadElement(f, rest, junk)
       IN  rest' = e.rest /\ InsertElement(f, e.v)

ReadNext(f) ==
  /\ rat = f
  /\ left = 0
  /\ rat' = NextList(dst.type, f)
  /\ \E junk \in Junk :
       LET own   == IF f = "native_tokens" THEN ReadOwn(dst.type, rest, junk)
                                           ELSE Got(dst.own, rest)
           count == ReadInt(own.rest, 1)
       IN  /\ dst' = [dst EXCEPT !.own = own.v]
           /\ \/ rat' = "done" /\ rest' = own.rest /\ UNCHANGED left
              \/ rat' # "done" /\ rest' = count.rest /\ left' = ValueOf(count.v)

Deserialize == ReadHead \/ \E f \in Lists : ReadItem(f) \/ ReadNext(f)

-----------------------------------------------------------------------------
Cuts == {SubSeq(wire, 1, n) : n \in 0 .. Len(wire) - 1}

Deliver ==
  /\ wat = "done" /\ rat = "idle"
  /\ stream' \in {wire} \cup (IF round = 1 THEN ForeignStreams ELSE {})
                        \cup (IF round = 1 /\ Lossy THEN Cuts ELSE {})
  /\ rest' = stream'
  /\ rat' = "head"
  /\ UNCHANGED << src, round, writerVars, left, dst >>

\* The caller calls clone() on the output it has got.
CloneReceived ==
  /\ rat = "done" /\ dst # nullptr /\ round = 1
  /\ src' = dst
  /\ round' = 2
  /\ wire' = << >> /\ wat' = "head" /\ wi' = 0
  /\ stream' = << >> /\ rest' = << >> /\ rat' = "idle" /\ left' = 0 /\ dst' = nullptr

Ended == wat = "crash" \/ rat = "crash" \/ (rat = "done" /\ (round = 2 \/ dst = nullptr))

Write == Serialize /\ UNCHANGED << src, stream, round, readerVars >>
Read == Deserialize /\ UNCHANGED << src, stream, round, writerVars >>
Finished == Ended /\ UNCHANGED vars

(***************************************************************************)
(* The objects a list may hold: constructed or read, so perhaps without an *)
(* address.  A pset holds at most one null pointer, and then nothing else, *)
(* since inserting beside it compares objects.                             *)
(***************************************************************************)
Member(f) ==
  CASE f = "native_tokens"     -> NativeToken
    [] f = "unlock_conditions" ->
         { u \in [type : 0 .. 6, address : Address \cup {nullptr},
                  extra : Word(0) \cup Word(4) \cup Word(8)] :
             (u.type = 2 => u.address = nullptr) /\ u.extra \in Word(ExtraLen(u.type)) }
    [] f \in {"features", "immutable_features"} ->
         [type : {0, 1}, address : Address \cup {nullptr}, data : {<< >>}]
           \cup [type : {2, 3}, address : {nullptr}, data : Bytes]
Pointers(f) == Member(f) \cup {nullptr}
Ordered(f, set) ==
  \A i \in 1 .. Len(set) :
    \A j \in 1 .. i - 1 : set[i] # nullptr /\ set[j] # nullptr /\ Less(f, set[j], set[i])

OutputRecord ==
  [type : OutputKinds, amount : Word(8), native_tokens : Seq(Pointers("native_tokens")),
   unlock_conditions : Seq(Pointers("unlock_conditions")), features : Seq(Pointers("features")),
   immutable_features : Seq(Pointers("immutable_features")),
   own : Own(3) \cup Own(4) \cup Own(5) \cup Own(6)]
IsOutput(o) == o \in OutputRecord
Proper(o) == IsOutput(o) /\ o.own \in Own(o.type) /\ \A f \in Lists : Ordered(f, o[f])

ASSUME OutputsAssumption == \A o \in Outputs : Proper(o)
ASSUME NullAssumption ==   \* the null pointer is no object
  /\ nullptr \notin Address \cup TokenScheme \cup OutputRecord
  /\ \A f \in Lists : nullptr \notin Member(f)

Init ==
  /\ src \in Outputs /\ round = 1
  /\ wire = << >> /\ wat = "head" /\ wi = 0
  /\ stream = << >> /\ rest = << >> /\ rat = "idle" /\ left = 0 /\ dst = nullptr

Next == Write \/ Deliver \/ Read \/ CloneReceived \/ Finished

Spec == Init /\ [][Next]_vars

\* The calls run to their end in one thread.
FairSpec == Spec /\ WF_vars(Next)

-----------------------------------------------------------------------------
Places == Lists \cup {"head", "done"}
ElementFits(f, e) ==
  e # nullptr => CASE f = "native_tokens"     -> TokenFits(e)
                   [] f = "unlock_conditions" -> ConditionFits(e)
                   [] f \in {"features", "immutable_features"} -> FeatureFits(e)
OwnFits(o) ==
  /\ o.type = 4 => Len(o.own.alias_id) = HashLen /\ Within(Len(o.own.state_metadata), 2)
  /\ o.type = 6 => Len(o.own.nft_id) = HashLen

\* Where the writer and the reader can be, and what they hold: an identifier that was
\* read has the length of a hash, though one that is written may have any.
TypeOK ==
  /\ wire \in Bytes /\ stream \in Bytes /\ rest \in Bytes
  /\ wat \in Places \cup {"crash"} /\ wi \in Nat
  /\ rat \in Places \cup {"idle", "crash"} /\ left \in 0 .. Radix - 1
  /\ IsOutput(src)
  /\ dst = nullptr \/ (IsOutput(dst) /\ (dst.own = << >> \/ OwnFits(dst)))

Whole == rat = "done" /\ stream = wire
Cut == rat # "idle" /\ stream # wire /\ stream \in Cuts

\* Every list has fewer elements, and every array fewer bytes, than its prefix counts,
\* and every identifier and hash has its length.
\* A Basic output has the public field immutable_features_ too, and does not write it.
Fits(o) ==
  /\ \A f \in Lists : Within(Len(o[f]), 1) /\ \A i \in 1 .. Len(o[f]) : ElementFits(f, o[f][i])
  /\ o.type = 3 => o.immutable_features = << >>
  /\ OwnFits(o)

(***************************************************************************)
(* clone() gives an equal output exactly when every list and array of it   *)
(* fits the width its size is written with, and every identifier and hash  *)
(* has its length: the casts in serializeList and in fl_array's operator<< *)
(* are silent, a c_array is written without its size, and past that the    *)
(* copy differs.  Of an NFT that was read from JSON without its nftId the  *)
(* copy takes the counts and kinds that follow for the identifier.         *)
(***************************************************************************)
CloneEqualIffFits == Whole => ((dst = src) <=> Fits(src))

(***************************************************************************)
(* An output that fits is read to its last byte and not beyond: what       *)
(* follows it in a transaction is found where it was written.              *)
(***************************************************************************)
WholeStreamConsumed == (Whole /\ Fits(src)) => rest = << >>

(***************************************************************************)
(* A stream cut short is never reported, but an amount, an index, a        *)
(* counter or a serial number is then read as it was sent or as zero, and  *)
(* never in part.                                                          *)
(***************************************************************************)
Numbers(o) ==
  CASE o.type = 4 -> << o.own.state_index, o.own.foundry_counter >>
    [] o.type = 5 -> << o.own.serial_number >>
    [] OTHER      -> << >>
CutNumbersWholeOrZero ==
  (Cut /\ Fits(src) /\ dst # nullptr) =>
    /\ dst.amount \in {src.amount, Zeros(8)}
    /\ rat = "done" =>
         \A i \in 1 .. Len(Numbers(src)) : Numbers(dst)[i] \in {Numbers(src)[i], Zeros(4)}

(***************************************************************************)
(* A stream cut anywhere but before its first byte still gives an object,  *)
(* never a null pointer: zero is the tag of a known class wherever a tag   *)
(* is missing inside an output.                                            *)
(***************************************************************************)
HasNull(o) ==
  \/ \E f \in Lists : \E i \in 1 .. Len(o[f]) : NullElement(f, o[f][i])
  \/ NullOwn(o)
CutGivesObject ==
  /\ Cut /\ Fits(src) => rat # "crash"
  /\ (rat = "done" /\ Cut /\ Fits(src) /\ stream # << >>) => (dst # nullptr /\ ~ HasNull(dst))

(***************************************************************************)
(* Whatever the stream, a pset holds its elements in strict order: a kind  *)
(* or a token that comes twice is kept once.                               *)
(***************************************************************************)
PsetsOrdered ==
  dst # nullptr => \A f \in Lists : Ordered(f, dst[f])

(***************************************************************************)
(* What was received, from whatever stream, clones to its equal: a reader  *)
(* can only have built lists and arrays that fit their prefixes.  A null   *)
(* pointer among them is the one thing clone() does not survive.           *)
(***************************************************************************)
ReceivedClones ==
  round = 2 => /\ rat = "done" => (dst = src /\ rest = << >>)
               /\ wat = "crash" => HasNull(src)

(***************************************************************************)
(* Every call ends: the counts that drive the loops bound them even when   *)
(* the bytes they count are missing.                                       *)
(***************************************************************************)
Termination == <>Ended

(***************************************************************************)
(* The codec implements Clone, which promises an equal copy in one step.   *)
(***************************************************************************)
Result == IF rat = "done" THEN dst ELSE nullptr
Abstract == INSTANCE Clone WITH source <- src, copy <- Result
ImplementsClone == Abstract!Spec
=============================================================================
