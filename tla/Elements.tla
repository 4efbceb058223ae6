------------------------------ MODULE Elements ------------------------------
(***************************************************************************)
(* The classes that hold no list: how serialize() writes them and how the  *)
(* constructor from a QDataStream, reached through from_(), reads them.    *)
(* from_ reads the kind first and answers nullptr, with only the kind      *)
(* consumed, when it does not know it.                                     *)
(*                                                                         *)
(* A hash, an identifier or a key is a c_array, which keeps any number of  *)
(* bytes: from JSON it has as many as its string, and none when the key is *)
(* missing.  It is written as it is, and read as the number of bytes it    *)
(* should have.  Where that matters ...Fits says that an object can be     *)
(* read back.                                                              *)
(***************************************************************************)
EXTENDS Wire

CONSTANT HashLen   \* bytes of a BLAKE2b-256 hash, public key or quint256: 32

ASSUME HashLenAssumption == HashLen \in Nat /\ HashLen > 0

TokenIdLen == HashLen + 6    \* 38: address, serial number, token scheme kind
SigLen == 2 * HashLen        \* 64
Hash == Word(HashLen)

(***************************************************************************)
(* Addresses: Ed25519 (0), Alias (8), NFT (16).                            *)
(***************************************************************************)
AddressKinds == {0, 8, 16}
Address == [type : AddressKinds, addrhash : Bytes]
AddressFits(a) == Len(a.addrhash) = HashLen
WriteAddress(a) == << a.type >> \o a.addrhash
ReadAddress(s) ==
  LET kind == ReadInt(s, 1)
      hash == ReadRaw(kind.rest, HashLen)
  IN  IF kind.v[1] \in AddressKinds
      THEN Got([type |-> kind.v[1], addrhash |-> hash.v], hash.rest)
      ELSE Got(nullptr, kind.rest)

(***************************************************************************)
(* Unlock conditions: Address (0), Storage_Deposit_Return (1), Timelock    *)
(* (2), Expiration (3), State_Controller_Address (4), Governor_Address (5) *)
(* and Immutable_Alias_Address (6).  Timelock has no address; extra is the *)
(* return amount of kind 1 and the unix time of kinds 2 and 3.             *)
(***************************************************************************)
ExtraLen(kind) == CASE kind = 1 -> 8 [] kind \in {2, 3} -> 4 [] kind \in {0, 4, 5, 6} -> 0
Condition ==
  UNION { [type : {k}, address : IF k = 2 THEN {nullptr} ELSE Address,
           extra : Word(ExtraLen(k))] : k \in 0 .. 6 }
ConditionFits(u) == u.address # nullptr => AddressFits(u.address)
WriteCondition(u) ==
  << u.type >> \o (IF u.type = 2 THEN << >> ELSE WriteAddress(u.address)) \o u.extra
ReadConditionExtraFirst(s) ==
  LET kind  == ReadInt(s, 1)
      k     == kind.v[1]
      extra == ReadInt(kind.rest, ExtraLen(k))
      addr  == IF k = 2 THEN Got(nullptr, extra.rest) ELSE ReadAddress(extra.rest)
  IN  IF k \in 0 .. 6
      THEN Got([type |-> k, address |-> addr.v, extra |-> extra.v], addr.rest)
      ELSE Got(nullptr, kind.rest)
ReadCondition(s) ==
  LET kind  == ReadInt(s, 1)
      k     == kind.v[1]
      addr  == IF k = 2 THEN Got(nullptr, kind.rest) ELSE ReadAddress(kind.rest)
      extra == ReadInt(addr.rest, ExtraLen(k))
  IN  IF k \in 0 .. 6
      THEN Got([type |-> k, address |-> addr.v, extra |-> extra.v], extra.rest)
      ELSE Got(nullptr, kind.rest)

(***************************************************************************)
(* Features: Sender (0) and Issuer (1) hold an address, Metadata (2) an    *)
(* array with a two-byte size, Tag (3) one with a one-byte size.           *)
(***************************************************************************)
SizeLen(kind) == IF kind = 2 THEN 2 ELSE 1
Feature ==
  [type : {0, 1}, address : Address, data : {<< >>}]
    \cup [type : {2, 3}, address : {nullptr}, data : Bytes]
FeatureFits(f) ==
  /\ f.address # nullptr => AddressFits(f.address)
  /\ Within(Len(f.data), SizeLen(f.type))
WriteFeature(f) ==
  << f.type >> \o (IF f.type \in {0, 1} THEN WriteAddress(f.address)
                                        ELSE WriteArray(f.data, SizeLen(f.type)))
ReadFeatureNoSender(s, junk) ==
  LET kind == ReadInt(s, 1)
      k    == kind.v[1]
      addr == ReadAddress(kind.rest)
      data == ReadArray(kind.rest, SizeLen(k), junk)
  IN  CASE k = 1          -> Got([type |-> k, address |-> addr.v, data |-> << >>], addr.rest)
        [] k \in {2, 3} -> Got([type |-> k, address |-> nullptr, data |-> data.v], data.rest)
        [] OTHER        -> Got(nullptr, kind.rest)
ReadFeature(s, junk) ==
  LET kind == ReadInt(s, 1)
      k    == kind.v[1]
      addr == ReadAddress(kind.rest)
      data == ReadArray(kind.rest, SizeLen(k), junk)
  IN  CASE k \in {0, 1} -> Got([type |-> k, address |-> addr.v, data |-> << >>], addr.rest)
        [] k \in {2, 3} -> Got([type |-> k, address |-> nullptr, data |-> data.v], data.rest)
        [] OTHER        -> Got(nullptr, kind.rest)

\* Both kinds of objects above are ordered by their type, one of each in a pset.
TypeLess(a, b) == a.type < b.type

(***************************************************************************)
(* Native tokens have no kind; they are ordered by their identifier.       *)
(***************************************************************************)
NativeToken == [token_id : Bytes, amount : Hash]
TokenFits(t) == Len(t.token_id) = TokenIdLen
WriteToken(t) == t.token_id \o t.amount
ReadToken(s) ==
  LET id     == ReadRaw(s, TokenIdLen)
      amount == ReadRaw(id.rest, HashLen)
  IN  Got([token_id |-> id.v, amount |-> amount.v], amount.rest)
TokenLess(a, b) == BytesLess(a.token_id, b.token_id)

(***************************************************************************)
(* The simple token scheme (0), the only one there is.                     *)
(***************************************************************************)
TokenScheme == [type : {0}, minted : Hash, melted : Hash, maximum : Hash]
WriteScheme(t) == << t.type >> \o t.minted \o t.melted \o t.maximum
ReadScheme(s) ==
  LET kind    == ReadInt(s, 1)
      minted  == ReadRaw(kind.rest, HashLen)
      melted  == ReadRaw(minted.rest, HashLen)
      maximum == ReadRaw(melted.rest, HashLen)
  IN  IF kind.v[1] = 0
      THEN Got([type |-> 0, minted |-> minted.v, melted |-> melted.v,
                maximum |-> maximum.v], maximum.rest)
      ELSE Got(nullptr, kind.rest)
(***************************************************************************)
(* The input that names an output of an earlier transaction: UTXO (0).     *)
(***************************************************************************)
Input == [type : {0}, transaction_id : Bytes, transaction_output_index : Word(2)]
InputFits(i) == Len(i.transaction_id) = HashLen
WriteInput(i) == << i.type >> \o i.transaction_id \o i.transaction_output_index
ReadInputAnyKind(s) ==   \* without a look at the kind
  LET id    == ReadRaw(Drop(s, 1), HashLen)
      index == ReadInt(id.rest, 2)
  IN  Got([type |-> 0, transaction_id |-> id.v, transaction_output_index |-> index.v], index.rest)
ReadInput(s) ==
  LET kind  == ReadInt(s, 1)
      id    == ReadRaw(kind.rest, HashLen)
      index == ReadInt(id.rest, 2)
  IN  IF kind.v[1] = 0
      THEN Got([type |-> 0, transaction_id |-> id.v, transaction_output_index |-> index.v],
               index.rest)
      ELSE Got(nullptr, kind.rest)

(***************************************************************************)
(* Signatures: Ed25519 (0).  Unlocks: Signature (0) holds one; Reference   *)
(* (1), Alias (2) and NFT (3) hold the index of another unlock.            *)
(***************************************************************************)
Signature == [type : {0}, public_key : Bytes, signature : Bytes]
SignatureFits(g) == Len(g.public_key) = HashLen /\ Len(g.signature) = SigLen
WriteSignature(g) == << g.type >> \o g.public_key \o g.signature
ReadSignature(s) ==
  LET kind == ReadInt(s, 1)
      key  == ReadRaw(kind.rest, HashLen)
      sig  == ReadRaw(key.rest, SigLen)
  IN  IF kind.v[1] = 0
      THEN Got([type |-> 0, public_key |-> key.v, signature |-> sig.v], sig.rest)
      ELSE Got(nullptr, kind.rest)

\* The null pointer is no object.
ASSUME NullHeldAssumption == nullptr \notin Address \cup Signature

Unlock ==
  [type : {0}, signature : Signature, reference : {<< >>}]
    \cup [type : 1 .. 3, signature : {nullptr}, reference : Word(2)]
UnlockFits(u) == u.signature # nullptr => SignatureFits(u.signature)
WriteUnlock(u) ==
  << u.type >> \o (IF u.type = 0 THEN WriteSignature(u.signature) ELSE u.reference)
ReadUnlock(s) ==
  LET kind == ReadInt(s, 1)
      k    == kind.v[1]
      sig  == ReadSignature(kind.rest)
      ref  == ReadInt(kind.rest, 2)
  IN  CASE k = 0      -> Got([type |-> 0, signature |-> sig.v, reference |-> << >>], sig.rest)
        [] k \in 1 .. 3 -> Got([type |-> k, signature |-> nullptr, reference |-> ref.v], ref.rest)
        [] OTHER      -> Got(nullptr, kind.rest)

(***************************************************************************)
(* The tagged data payload, whose kind (5) takes four bytes.               *)
(***************************************************************************)
TaggedData == [type : {5}, tag : Bytes, data : Bytes]
WriteTagged(p) == quint32(p.type) \o WriteArray(p.tag, 1) \o WriteArray(p.data, 4)
ReadTagged(s, junk) ==   \* after the kind
  LET tag  == ReadArray(s, 1, junk)
      data == ReadArray(tag.rest, 4, junk)
  IN  Got([type |-> 5, tag |-> tag.v, data |-> data.v], data.rest)
=============================================================================
