---------------------------- MODULE MCOutputCodec ----------------------------
(***************************************************************************)
(* Instances of OutputCodec, and of Deposit over the outputs it writes.    *)
(***************************************************************************)
EXTENDS Deposit

Fill(n, b) == [i \in 1 .. n |-> b]
Num(n, w) == [i \in 1 .. w |-> IF i = 1 THEN n ELSE 0]

Ed == [type |-> 0, addrhash |-> Fill(HashLen, 5)]
AliasAddr == [type |-> 8, addrhash |-> Fill(HashLen, 6)]
NFTAddr == [type |-> 16, addrhash |-> [Fill(HashLen, 7) EXCEPT ![HashLen] = 0]]

Cond(k, a, x) == [type |-> k, address |-> a, extra |-> x]
ToEd == Cond(0, Ed, << >>)
Return == Cond(1, AliasAddr, Num(9, 8))
Lock == Cond(2, nullptr, << 1, 2, 3, 4 >>)
Expire == Cond(3, NFTAddr, << 4, 3, 2, 1 >>)
Control == << Cond(4, Ed, << >>), Cond(5, NFTAddr, << >>) >>
OfAlias == Cond(6, AliasAddr, << >>)

Feat(k, a, d) == [type |-> k, address |-> a, data |-> d]
Sender == Feat(0, Ed, << >>)
Issuer == Feat(1, NFTAddr, << >>)
Meta(n) == Feat(2, nullptr, Fill(n, 13))
Tag(n) == Feat(3, nullptr, Fill(n, 4))

Token(k) == [token_id |-> [Fill(TokenIdLen, 1) EXCEPT ![TokenIdLen] = k], amount |-> Num(8, HashLen)]
Tokens(n) == [k \in 1 .. n |-> Token(k - 1)]
Scheme == [type |-> 0, minted |-> Num(1, HashLen), melted |-> Num(2, HashLen),
           maximum |-> Num(3, HashLen)]

Out(k, toks, conds, feats, immut, own) ==
  [type |-> k, amount |-> << 8, 7, 0, 0, 0, 0, 0, 1 >>, native_tokens |-> toks,
   unlock_conditions |-> conds, features |-> feats, immutable_features |-> immut, own |-> own]
Basic(toks, conds, feats) == Out(3, toks, conds, feats, << >>, << >>)
Alias(meta, feats) ==
  Out(4, << >>, Control, feats, << Issuer, Meta(1) >>,
      [alias_id |-> Fill(HashLen, 0), state_index |-> << 2, 3, 0, 0 >>, state_metadata |-> Fill(meta, 9),
       foundry_counter |-> Num(1, 4)])
Foundry(toks) ==
  Out(5, toks, << OfAlias >>, << Meta(2) >>, << >>, [serial_number |-> << 1, 2, 0, 0 >>, token_scheme |-> Scheme])
NFT(id, feats) == Out(6, << >>, << ToEd, Expire >>, feats, << Issuer >>, [nft_id |-> id])

\* One output of each class and each element at least once, all within their widths.
Typical ==
  { Basic(<< >>, << ToEd >>, << >>),
    Basic(Tokens(2), << ToEd, Return, Lock, Expire >>, << Sender, Meta(3), Tag(2) >>),
    Alias(3, << Sender >>),
    Foundry(Tokens(1)),
    NFT(Fill(HashLen, 0), << Tag(0) >>),
    NFT(Fill(HashLen, 2), << >>) }

\* Sizes at the limit of their prefix and one past it: Radix is 17 in this instance;
\* and a Basic output whose inherited immutable features were set.
AtLimits ==
  { Basic(Tokens(n), << ToEd >>, << >>) : n \in {16, 17} }
    \cup { Basic(<< >>, << ToEd >>, << Tag(n) >>) : n \in {16, 17, 18} }
    \cup { Basic(<< >>, << ToEd >>, << Meta(n) >>) : n \in {17, 288, 289} }
    \cup { Alias(n, << Tag(k) >>) : n \in {0, 288, 289, 300}, k \in {1, 17} }
    \cup { Out(3, << >>, << ToEd >>, << >>, << Issuer >>, << >>) }

\* Identifiers and hashes of any length: none, as from JSON without the key, or one
\* byte less or more than they are read as.
To(n) == Cond(0, [type |-> 0, addrhash |-> Fill(n, 5)], << >>)
Unsized ==
  { NFT(Fill(n, k), << >>) : n \in {0, 1, 3}, k \in {0, 3} }
    \cup { [Alias(1, << Sender >>) EXCEPT !.own.alias_id = Fill(n, 1)] : n \in {0, 1, 3} }
    \cup { Basic(<< >>, << To(n) >>, << Feat(0, [type |-> 8, addrhash |-> Fill(k, 6)], << >>) >>) :
              n \in {0, 2, 3}, k \in {1, 2} }
    \cup { Basic(<< [Token(0) EXCEPT !.token_id = Fill(n, 1)], Token(3) >>, << ToEd >>, << >>) :
              n \in {0, TokenIdLen - 1} }
Odd == AtLimits \cup Unsized

\* Bytes of a program that knows kinds this library does not: an output of kind 7,
\* a condition of kind 9 alone and beside another, a feature of kind 12 beside others,
\* an address of kind 1 and a token scheme of kind 1.
Start(k, n) == << k >> \o Num(1, 8) \o << n >>
Newer ==
  { Start(7, 0) \o << 0, 0 >>,
    Start(3, 0) \o << 1, 9, 0 >>,
    Start(3, 0) \o << 2 >> \o WriteCondition(ToEd) \o << 9, 0 >>,
    Start(3, 0) \o << 2, 9 >> \o WriteCondition(ToEd) \o << 0 >>,
    Start(3, 0) \o << 1 >> \o WriteCondition(ToEd) \o << 3 >> \o WriteFeature(Sender)
      \o << 12 >> \o WriteFeature(Tag(2)),
    Start(3, 0) \o << 1, 0, 1, 0 >>,
    Start(5, 0) \o Num(1, 4) \o << 1, 0, 0 >>,
    \* Two conditions of one kind, two tokens out of order and twice.
    Start(3, 0) \o << 2 >> \o WriteCondition(ToEd) \o WriteCondition(Cond(0, NFTAddr, << >>)) \o << 0 >>,
    Start(3, 3) \o WriteToken(Token(2)) \o WriteToken(Token(1)) \o WriteToken(Token(2))
      \o << 1 >> \o WriteCondition(ToEd) \o << 0 >> }
OneOutput == { Basic(<< >>, << ToEd >>, << >>) }
NoStreams == {}

\* A quint64 has 4096 values here: the weights and prices, of a key, of a byte and of
\* the weight, give sums below and above that for the outputs of AtLimits.
NodePrices == {<< 0, 1, 1 >>, << 10, 1, 1 >>, << 10, 1, 8 >>, << 1, 10, 1 >>, << 1, 100, 0 >>, << 130, 0, 1 >>}
=============================================================================
