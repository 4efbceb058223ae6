------------------------------- MODULE Signing -------------------------------
(***************************************************************************)
(* A client that makes transactions: it builds an essence of outputs it    *)
(* holds, signs the hash of the essence, sends the payload, once or more,  *)
(* and computes from the payload the identifiers its next transactions     *)
(* refer to (src/qessences.cpp, qpayloads.cpp, qblock.cpp).                *)
(*                                                                         *)
(* Nothing is copied on the way.  An essence keeps the client's pointers   *)
(* to its outputs, the client may go on to change what they point to, and  *)
(* get_hash, get_id and serialize read it anew on each call.  Discipline   *)
(* is what the client does about that:                                     *)
(*   "clone"  it never changes an output it gave to an essence: it goes on *)
(*            with a clone() of it;                                        *)
(*   "share"  it goes on with the same object, but not before it learned   *)
(*            that the transaction was booked; then it takes down the      *)
(*            identifiers of all its outputs at once and does not send the *)
(*            transaction again.                                           *)
(* Either way it takes the hash of an output that it will spend before it  *)
(* changes it.                                                             *)
(***************************************************************************)
EXTENDS Naturals, Sequences

CONSTANTS
  Handles,          \* the client's pointers to outputs
  Objects,          \* where outputs live
  nullptr,          \* the null pointer
  Contents,         \* what an output holds besides its class and identifier
  Made,             \* the outputs the client makes
  Genesis,          \* the outputs there are to begin with
  Discipline,       \* "clone" or "share"
  MaxTransactions,  \* bound on the transactions the client makes
  MaxInputs,        \* bound on the inputs of one
  MaxOutputs        \* bound on the outputs of one

Alias == 4
NFT == 6

(***************************************************************************)
(* A hash is known by what was hashed: no two values have one hash, and no *)
(* hash is zero.                                                           *)
(***************************************************************************)
Hash(x) == [blake2b |-> x]
ZeroId == [zeros |-> 32]

ASSUME DisciplineAssumption == Discipline \in {"clone", "share"}
ASSUME BoundsAssumption == MaxTransactions \in Nat /\ MaxInputs \in Nat /\ MaxOutputs \in Nat
\* The factories give a zero identifier.
ASSUME MadeAssumption == Made \cup Genesis \subseteq [type : 3 .. 6, id : {ZeroId}, content : Contents]
ASSUME NullAssumption == nullptr \notin Objects

VARIABLES
  ptr,      \* the object each handle points to, or nullptr
  heap,     \* the output in each object
  origin,   \* the identifier of the booked output a handle stands for, or nullptr
  commit,   \* the hash the client took of that output, or nullptr
  given,    \* the places in transactions a handle was given to
  txs,      \* the transactions, in the order they were made
  learned,  \* those the client learned were booked, if it shares
  sent      \* the payloads that went out

handleVars == << ptr, origin, commit, given >>
vars == << ptr, heap, origin, commit, given, txs, learned, sent >>

Transactions == 1 .. Len(txs)

-----------------------------------------------------------------------------
(***************************************************************************)
(* What the library computes.  The bytes of an object are its value.       *)
(***************************************************************************)
set_idAlways(x, outputid) ==
  IF x.type \in {Alias, NFT} THEN [x EXCEPT !.id = Hash(outputid)] ELSE x
set_id(x, outputid) ==
  IF x.type \in {Alias, NFT} /\ x.id = ZeroId THEN [x EXCEPT !.id = Hash(outputid)] ELSE x

\* Transaction_Essence::serialize follows the pointers to the outputs.
EssenceBytes(t) ==
  [inputs |-> txs[t].inputs, inputs_commitment |-> txs[t].inputs_commitment,
   outputs |-> [i \in 1 .. Len(txs[t].outputs) |-> heap[txs[t].outputs[i]]]]
PayloadBytes(t) == [essence |-> EssenceBytes(t), unlock |-> txs[t].unlock]

get_hashOfInputs(t) == Hash(txs[t].inputs)
get_hash(t) == Hash(EssenceBytes(t))
get_id(t) == Hash(PayloadBytes(t))
get_inputs_Commitment(hashes) == Hash(hashes)

\* Output_Metadata_Response::outputid_, and what the client makes of get_id.
OutputId(transaction, i) == [transaction |-> transaction, index |-> i]

\* The output that an identifier names.
Named(o) == o.transaction.blake2b.essence.outputs[o.index]
GenesisPayload(x) == [essence |-> [outputs |-> << x >>], unlock |-> nullptr]

-----------------------------------------------------------------------------
\* Objects that nothing points to.
Unused ==
  {q \in Objects : /\ \A h \in Handles : ptr[h] # q
                   /\ \A t \in Transactions : \A i \in 1 .. Len(txs[t].outputs) : txs[t].outputs[i] # q}

\* h points to a new object holding x; its last one is freed if that was the last pointer to it.
Point(h, x, o, c) ==
  /\ UNCHANGED << txs, learned, sent >>
  /\ Unused # {}
  /\ LET q == CHOOSE q \in Unused : TRUE
     IN  /\ ptr' = [ptr EXCEPT ![h] = q]
         /\ heap' = [r \in Objects |-> IF r = q THEN x ELSE IF r \in Unused' THEN nullptr ELSE heap[r]]
  /\ origin' = [origin EXCEPT ![h] = o]
  /\ commit' = [commit EXCEPT ![h] = c]
  /\ given' = [given EXCEPT ![h] = {}]

\* The factories of Output.
Create(h) == \E x \in Made : Point(h, x, nullptr, nullptr)

\* An output comes from the node with its metadata.
Booked ==
  {OutputId(Hash(GenesisPayload(x)), 1) : x \in Genesis}
    \cup UNION {{OutputId(Hash(m), i) : i \in 1 .. Len(m.essence.outputs)} : m \in sent}
Take(h) == \E o \in Booked : Point(h, Named(o), o, nullptr)

CloneToSame(h, g) ==   \* the same object
  /\ ptr[h] # nullptr /\ g # h
  /\ ptr' = [ptr EXCEPT ![g] = ptr[h]]
  /\ origin' = [origin EXCEPT ![g] = origin[h]]
  /\ commit' = [commit EXCEPT ![g] = commit[h]]
  /\ given' = [given EXCEPT ![g] = {}]
  /\ UNCHANGED << heap, txs, learned, sent >>
CloneTo(h, g) ==
  /\ ptr[h] # nullptr /\ g # h
  /\ Point(g, heap[ptr[h]], origin[h], commit[h])

\* What the client hashes of an output it will spend, before it changes it.
Commit(h) ==
  /\ ptr[h] # nullptr /\ origin[h] # nullptr /\ commit[h] = nullptr
  /\ commit' = [commit EXCEPT ![h] = Hash(heap[ptr[h]])]
  /\ UNCHANGED << ptr, heap, origin, given, txs, learned, sent >>

\* Whether the client, keeping to its discipline, may change the output.
MayChange(h) ==
  /\ ptr[h] # nullptr
  /\ origin[h] # nullptr => commit[h] # nullptr
  /\ IF Discipline = "clone" THEN given[h] = {} ELSE \A p \in given[h] : p[1] \in learned

SetId(h) ==
  /\ MayChange(h) /\ origin[h] # nullptr
  /\ heap' = [heap EXCEPT ![ptr[h]] = set_id(@, origin[h])]
  /\ UNCHANGED << handleVars, txs, learned, sent >>

\* consume() and the public fields.
Change(h) ==
  /\ MayChange(h)
  /\ \E c \in Contents : heap' = [heap EXCEPT ![ptr[h]].content = c]
  /\ UNCHANGED << handleVars, txs, learned, sent >>

-----------------------------------------------------------------------------
Picks(max) == {s \in UNION {[1 .. n -> Handles] : n \in 1 .. max} :
                 \A i, j \in DOMAIN s : i # j => s[i] # s[j]}

\* Input::UTXO, Block::get_inputs_Commitment and Essence::Transaction.
Make(ins, outs) ==
  LET t == Len(txs) + 1
  IN  /\ t <= MaxTransactions
      /\ \A i \in DOMAIN ins : origin[ins[i]] # nullptr /\ commit[ins[i]] # nullptr
      /\ \A i \in DOMAIN outs : ptr[outs[i]] # nullptr
      /\ txs' = Append(txs,
                  [inputs |-> [i \in DOMAIN ins |-> origin[ins[i]]],
                   inputs_commitment |-> get_inputs_Commitment([i \in DOMAIN ins |-> commit[ins[i]]]),
                   outputs |-> [i \in DOMAIN outs |-> ptr[outs[i]]], unlock |-> nullptr])
      /\ given' = [h \in Handles |->
                     given[h] \cup {<< t, i >> : i \in {j \in DOMAIN outs : outs[j] = h}}]
      /\ UNCHANGED << ptr, heap, origin, commit, learned, sent >>

\* The hash is signed; Unlock::Signature and Payload::Transaction follow.
Sign(t) ==
  /\ txs[t].unlock = nullptr
  /\ txs' = [txs EXCEPT ![t].unlock = get_hash(t)]
  /\ UNCHANGED << handleVars, heap, learned, sent >>

\* In a block, with other parents and another nonce each time.
Send(t) ==
  /\ txs[t].unlock # nullptr
  /\ Discipline = "share" => t \notin learned
  /\ sent' = sent \cup {PayloadBytes(t)}
  /\ UNCHANGED << handleVars, heap, txs, learned >>

\* The client calls get_id and names the outputs of t by it.
Learn(t) ==
  /\ txs[t].unlock # nullptr
  /\ Discipline = "share" => t \notin learned /\ PayloadBytes(t) \in sent
  /\ learned' = IF Discipline = "share" THEN learned \cup {t} ELSE learned
  /\ origin' = [h \in Handles |->
                  IF \E p \in given[h] : p[1] = t
                  THEN OutputId(get_id(t), (CHOOSE p \in given[h] : p[1] = t)[2]) ELSE origin[h]]
  /\ commit' = [h \in Handles |-> IF \E p \in given[h] : p[1] = t THEN nullptr ELSE commit[h]]
  /\ UNCHANGED << ptr, heap, given, txs, sent >>

Init ==
  /\ ptr = [h \in Handles |-> nullptr] /\ heap = [q \in Objects |-> nullptr]
  /\ origin = [h \in Handles |-> nullptr] /\ commit = [h \in Handles |-> nullptr]
  /\ given = [h \in Handles |-> {}]
  /\ txs = << >> /\ learned = {} /\ sent = {}

Next ==
  \/ \E h \in Handles : \/ Create(h) \/ Take(h) \/ Commit(h) \/ SetId(h) \/ Change(h)
                        \/ \E g \in Handles : CloneTo(h, g)
  \/ \E ins \in Picks(MaxInputs), outs \in Picks(MaxOutputs) : Make(ins, outs)
  \/ \E t \in Transactions : Sign(t) \/ Send(t) \/ Learn(t)

Spec == Init /\ [][Next]_vars

-----------------------------------------------------------------------------
\* What a node asks of a payload, whoever sent it.
Covered(m) == m.unlock = Hash(m.essence)
Commits(m) ==
  m.essence.inputs_commitment =
    Hash([i \in DOMAIN m.essence.inputs |-> Hash(Named(m.essence.inputs[i]))])
IsGenesis(m) == \E x \in Genesis : m = GenesisPayload(x)

(***************************************************************************)
(* The signature of every payload sent covers the bytes it is sent with,   *)
(* and its commitment is to the outputs it spends as they were booked.     *)
(***************************************************************************)
SentValid == \A m \in sent : Covered(m) /\ Commits(m)

(***************************************************************************)
(* An identifier the client computed names an output of a payload whose    *)
(* signature covers it: one that a node can have booked.                   *)
(***************************************************************************)
NamesValid(o) ==
  LET m == o.transaction.blake2b
  IN  /\ o.index \in DOMAIN m.essence.outputs
      /\ IsGenesis(m) \/ (Covered(m) /\ Commits(m))
OriginsValid == \A h \in Handles : origin[h] # nullptr => NamesValid(origin[h])

(***************************************************************************)
(* The identifier of an NFT or alias is the hash of that of the output     *)
(* that began its chain, an output of its class whose own is still zero.   *)
(***************************************************************************)
BeginsChain(x) ==
  x.id # ZeroId => Named(x.id.blake2b).id = ZeroId /\ Named(x.id.blake2b).type = x.type
IdsBeginChains ==
  /\ \A h \in Handles : ptr[h] # nullptr => BeginsChain(heap[ptr[h]])
  /\ \A m \in sent : \A i \in DOMAIN m.essence.outputs : BeginsChain(m.essence.outputs[i])

(***************************************************************************)
(* What was signed stays as it was as long as the client may still send    *)
(* it, whatever it does with the outputs in it.                            *)
(***************************************************************************)
Open(t) == Discipline = "clone" \/ t \notin learned
SignedFrozen ==
  [][\A t \in Transactions : (txs[t].unlock # nullptr /\ Open(t)) => PayloadBytes(t)' = PayloadBytes(t)]_vars

(***************************************************************************)
(* With "clone" the pointers cannot be seen: transactions are values.      *)
(***************************************************************************)
T == INSTANCE Transfers WITH book <- [t \in Transactions |-> PayloadBytes(t)]
TransactionsAreValues == T!Spec
=============================================================================
