---------------------------- MODULE MCBlockCodec ----------------------------
(***************************************************************************)
(* Instances of BlockCodec.                                                *)
(***************************************************************************)
EXTENDS BlockCodec

Fill(n, b) == [i \in 1 .. n |-> b]
Num(n, w) == [i \in 1 .. w |-> IF i = 1 THEN n ELSE 0]

Tagged(t, n) == [type |-> 5, tag |-> Fill(t, 4), data |-> Fill(n, 13)]
UTXO(k) == [type |-> 0, transaction_id |-> Fill(HashLen, 2), transaction_output_index |-> Num(k, 2)]
SignatureUnlock ==
  [type |-> 0, reference |-> << >>,
   signature |-> [type |-> 0, public_key |-> Fill(HashLen, 5), signature |-> Fill(SigLen, 6)]]
IndexUnlock(kind) == [type |-> kind, signature |-> nullptr, reference |-> Num(0, 2)]

Ed == [type |-> 0, addrhash |-> Fill(HashLen, 5)]
ToEd == [type |-> 0, address |-> Ed, extra |-> << >>]
Feat(k, d) == [type |-> k, address |-> nullptr, data |-> d]
Basic(feats) ==
  [type |-> 3, amount |-> Num(9, 8), native_tokens |-> << >>, unlock_conditions |-> << ToEd >>,
   features |-> feats, immutable_features |-> << >>, own |-> << >>]
NFT ==
  [type |-> 6, amount |-> Num(9, 8), native_tokens |-> << >>, unlock_conditions |-> << ToEd >>,
   features |-> << >>, immutable_features |-> << Feat(2, Fill(2, 8)) >>,
   own |-> [nft_id |-> Zeros(HashLen)]]

Transaction(ins, outs, payload, unlocks) ==
  [type |-> 6,
   essence |-> [network_id |-> Num(7, 8), inputs |-> ins, inputs_commitment |-> Fill(HashLen, 1),
                outputs |-> outs, payload |-> payload],
   unlocks |-> unlocks]
Transfer == Transaction(<< UTXO(0), UTXO(1) >>, << Basic(<< Feat(2, << 4 >>), Feat(3, << 4 >>) >>), NFT >>, nullptr,
                        << SignatureUnlock, IndexUnlock(1) >>)
Block(pv, n, payload, nonce) ==
  [protocol_version |-> pv, parents |-> [i \in 1 .. n |-> Fill(HashLen, i % Radix)],
   payload |-> payload, nonce |-> nonce]

Typical ==
  { Block(2, 2, nullptr, Num(3, 8)),
    Block(2, 1, Tagged(1, 3), Fill(8, 3)),
    Block(2, 1, Transfer, Num(3, 8)),
    Block(2, 0, Transaction(<< >>, << >>, nullptr, << IndexUnlock(2), IndexUnlock(3) >>), Zeros(8)),
    Block(1, 1, nullptr, Zeros(8)) }

\* Counts and sizes at their widths and one past; Radix is 17 in this instance.
AtLimits ==
  { Block(2, n, p, Num(3, 8)) :
      n \in {16, 17}, p \in {nullptr, Tagged(16, 1), Tagged(17, 2), Tagged(18, 0)} }
  \cup { Block(2, 1, Transaction(<< >>, << Basic(<< Feat(3, Fill(n, 4)) >>) >>, nullptr,
                                  [i \in 1 .. m |-> IndexUnlock(1)]), Num(3, 8)) :
           n \in {16, 17}, m \in {16, 17, 18} }

\* Hashes, identifiers and keys that are shorter or longer than they are read.
Misfit ==
  { [Block(2, 2, nullptr, Num(3, 8)) EXCEPT !.parents[2] = Fill(n, 1)] : n \in {0, 1, 3} }
  \cup { [Block(2, 1, Transfer, Num(3, 8)) EXCEPT !.payload.essence.inputs_commitment = Fill(n, 1)] : n \in {0, 3} }
  \cup { [Block(2, 1, Transfer, Num(3, 8)) EXCEPT !.payload.essence.inputs[1].transaction_id = Fill(n, 2)] : n \in {0, 3} }
  \cup { [Block(2, 1, Transfer, Num(3, 8)) EXCEPT !.payload.essence.outputs[1].unlock_conditions[1].address.addrhash = Fill(n, 5),
                                                  !.payload.essence.outputs[2].own.nft_id = Fill(k, 0)] :
            n \in {0, 2, 3}, k \in {0, 2} }
  \cup { [Block(2, 1, Transfer, Num(3, 8)) EXCEPT !.payload.unlocks[1].signature.public_key = Fill(n, 5),
                                                  !.payload.unlocks[1].signature.signature = Fill(k, 5)] :
            n \in {1, 2, 3}, k \in {3, 4, 5} }
Huge == { Block(2, 1, Tagged(1, n), Num(3, 8)) : n \in {83510, 83511} }
Outgoing == Huge \cup Typical \cup AtLimits \cup Misfit

(***************************************************************************)
(* Blocks of another program, which may know kinds that this one does not. *)
(***************************************************************************)
Nonce == Fill(8, 3)
Foreign(payload) == << 2, 1 >> \o Fill(HashLen, 1) \o WithLength(payload) \o Nonce
Counted(list, w) == UInt(Len(list), w) \o S!FlattenSeq(list)
TransactionBytes(ins, outs, payload, unlocks) ==
  quint32(6) \o << 1 >> \o Num(7, 8) \o Counted(ins, 2) \o Fill(HashLen, 1) \o Counted(outs, 2)
    \o WithLength(payload) \o Counted(unlocks, 2)
OutputHead(kind, tokens) == << kind >> \o Num(9, 8) \o Counted(tokens, 1)
BasicBytes(tokens, conditions, features) ==
  OutputHead(3, tokens) \o Counted(conditions, 1) \o Counted(features, 1)
FoundryBytes(scheme) == OutputHead(5, << >>) \o Num(1, 4) \o scheme \o << 0, 0, 0 >>

In == WriteInput(UTXO(0))
Out == BasicBytes(<< >>, << WriteCondition(ToEd) >>, << >>)
Lock == WriteUnlock(SignatureUnlock)
Plain == WriteFeature(Feat(2, << 4 >>))
Timelock == << 2 >> \o Num(5, 4)
Token(n) == Fill(TokenIdLen, n) \o Fill(HashLen, n)
Of(ins, outs, unlocks) == Foreign(TransactionBytes(ins, outs, << >>, unlocks))

\* A payload of an unknown kind with this content.
Contents == { << >>, << 7, 7, 7 >>, Fill(12, 7) }
Alien(content) == Foreign(quint32(7) \o content)
\* The same as the payload of an essence.
AlienMessage(content) ==
  Foreign(TransactionBytes(<< In >>, << Out >>, quint32(7) \o content, << Lock >>))

Shifted == { AlienMessage(c) : c \in Contents \ {<< >>} }

\* Something of an unknown kind, alone in its place, or in a pset with something known.
Alone ==
  { Foreign(quint32(6) \o << 2 >> \o Zeros(9)),
    Of(<< In, << 1 >> >>, << Out >>, << Lock >>), Of(<< In >>, << << 9 >>, Out >>, << Lock >>),
    Of(<< In >>, << Out >>, << Lock, << 4 >> >>), Of(<< In >>, << Out >>, << << 0, 1 >> >>),
    Of(<< In >>, << BasicBytes(<< >>, << << 7 >> >>, << >>) >>, << Lock >>),
    Of(<< In >>, << BasicBytes(<< >>, << << 0, 3 >> >>, << >>) >>, << Lock >>),
    Of(<< In >>, << Out, BasicBytes(<< >>, << >>, << << 9 >> >>) >>, << Lock >>),
    Of(<< In >>, << FoundryBytes(<< 1 >>) >>, << Lock >>) }
Beside ==
  { Of(<< In >>, << BasicBytes(<< >>, << WriteCondition(ToEd), << 7 >> >>, << >>) >>, << Lock >>),
    Of(<< In >>, << BasicBytes(<< >>, << >>, << << 9 >>, Plain >>) >>, << Lock >>) }

\* Known kinds, in any order and more than once.
Unsorted ==
  { Of(<< In, In >>, << BasicBytes(t, c, f), FoundryBytes(<< 0 >> \o Fill(3 * HashLen, 1)) >>, << Lock, Lock >>) :
      t \in { << Token(2), Token(1), Token(1) >>, << Token(1) >> },
      c \in { << Timelock, WriteCondition(ToEd), Timelock >> },
      f \in { << << 3, 1, 4 >>, Plain, << 3, 0 >> >>, << Plain >> } }
ForeignBlocks ==
  Alone \cup Beside \cup Unsorted \cup { Alien(c) : c \in Contents } \cup { AlienMessage(c) : c \in Contents }
    \cup { Foreign(TransactionBytes(<< In >>, << Out >>, payload, << Lock >>)) :
             payload \in { WriteTagged(Tagged(1, 2)),
                          TransactionBytes(<< In >>, << Out >>, << >>, << Lock >>) } }

\* A transaction that carries a message.
WithMessage == { Block(2, 1, Transaction(<< UTXO(0) >>, << Basic(<< >>) >>, p, << SignatureUnlock >>),
                       Fill(8, 3)) : p \in {nullptr, Tagged(1, 2)} }

\* The block of tests/serialization.cpp and the bytes it asserts.
Parent1 ==
  << 33, 15, 199, 187, 129, 134, 57, 172, 72, 164, 198, 175, 161, 242, 88, 26,
     139, 149, 37, 226, 15, 218, 104, 146, 127, 43, 47, 248, 54, 247, 53, 120 >>
Parent2 ==
  << 219, 15, 165, 76, 41, 247, 253, 146, 141, 146, 202, 67, 241, 147, 222, 228,
     127, 89, 21, 73, 245, 151, 168, 17, 200, 250, 103, 171, 3, 30, 189, 156 >>
IOTA == << 73, 79, 84, 65 >>
HelloWorld == << 104, 101, 108, 108, 111, 32, 119, 111, 114, 108, 100 >>
TestBlock ==
  [protocol_version |-> 2, parents |-> << Parent1, Parent2 >>,
   payload |-> [type |-> 5, tag |-> IOTA, data |-> HelloWorld],
   nonce |-> << 206, 109, 0, 0, 0, 0, 0, 0 >>]
TestBlocks == { TestBlock }
TestBytes ==
  << 2, 2 >> \o Parent1 \o Parent2 \o << 24, 0, 0, 0, 5, 0, 0, 0, 4 >> \o IOTA
    \o << 11, 0, 0, 0 >> \o HelloWorld \o << 206, 109, 0, 0, 0, 0, 0, 0 >>

(***************************************************************************)
(* The bytes tests/serialization.cpp asserts of its block, for every order *)
(* of the setters, and what it asserts of the block read from them.        *)
(***************************************************************************)
TestVector ==
  called = Setters /\ round = 1 =>
    /\ bat = "done" => out = TestBytes
    /\ BlockWhole => got = TestBlock

(***************************************************************************)
(* A payload of an unknown kind is dropped and its content is read as what *)
(* follows: a block's nonce then begins with the content, and as many      *)
(* bytes are left over; the signatures of a transaction are lost whenever  *)
(* its message has any content.                                            *)
(***************************************************************************)
UnknownPayloadShifts ==
  rbat = "done" /\ round = 1 =>
    \A c \in Contents :
      /\ stream = Alien(c) =>
           /\ got.payload = nullptr /\ got.nonce = SubSeq(c \o Nonce, 1, 8)
           /\ rest = Drop(c \o Nonce, 8)
      /\ stream = AlienMessage(c) =>
           /\ got.payload.essence.payload = nullptr
           /\ c = << >> <=> got.payload.unlocks = << ReadUnlock(Lock).v >> /\ got.nonce = Nonce

(***************************************************************************)
(* An essence, input, output, unlock, condition or feature of an unknown   *)
(* kind is read as a null pointer.  It crashes the reader when a pset      *)
(* holds another element, and otherwise the writer, when the block is sent *)
(* on, and so do the unlocks read from the content of a message of an      *)
(* unknown kind.  A block of known kinds crashes neither.                  *)
(***************************************************************************)
UnknownKindCrashes ==
  /\ rat = "crash" => stream \in Beside
  /\ bat = "crash" \/ wat = "crash" => stream \in Alone \cup Shifted
  /\ rbat = "done" /\ round = 1 => stream \notin Beside
  /\ round = 2 /\ bat = "done" /\ rbat = "idle" => stream \notin Alone \cup Shifted

Relayed == { Block(2, 1, nullptr, Num(3, 8)) }
NoOutputs == {}
NoStreams == {}
=============================================================================
