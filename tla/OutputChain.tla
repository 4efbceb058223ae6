----------------------------- MODULE OutputChain -----------------------------
(***************************************************************************)
(* The life of outputs that keep an identity: a client makes one with a    *)
(* factory of Output, or takes one it owns from a node, gives it its       *)
(* identifier (set_id), strips it (consume), fills its public fields       *)
(* again, copies it (clone) and publishes it as the successor of the one   *)
(* it took (include/block/qoutputs.hpp, src/qoutputs.cpp).                 *)
(*                                                                         *)
(* The ledger is the node's, outside the repository.  A successor is       *)
(* published by a client that called set_id with the identifier of the     *)
(* output it took (Output_Metadata_Response::outputid_) and consume, in    *)
(* either order and any number of times.                                   *)
(***************************************************************************)
EXTENDS Naturals, Sequences

CONSTANTS
  Handles,     \* the pointers to outputs a client has
  nullptr,     \* the null pointer
  Address,     \* addresses of unlock conditions
  Feature,     \* features
  Token,       \* native tokens
  Serial,      \* serial numbers of foundries
  Ids,         \* 32-byte identifiers
  ZeroId,      \* the 32 zero bytes of an identifier not yet given
  HashOf(_),   \* BLAKE2b-256 of an output's identifier
  Made,        \* the outputs the client makes
  MaxOutputs   \* bound on the outputs of the ledger

\* No output's identifier hashes to zero, and no two to the same hash.
ASSUME BoundAssumption == MaxOutputs \in Nat
ASSUME IdAssumption ==
  /\ ZeroId \in Ids
  /\ \A o \in 1 .. MaxOutputs : HashOf(o) \in Ids /\ HashOf(o) # ZeroId
ASSUME HashAssumption ==
  \A o, p \in 1 .. MaxOutputs : HashOf(o) = HashOf(p) => o = p

Basic == 3
Alias == 4
Foundry == 5
NFT == 6
Kinds == 3 .. 6

(***************************************************************************)
(* An output.  unlock_conditions_ is the addresses of its conditions in    *)
(* the order of the pset; id is nft_id_ or alias_id_; amounts and the      *)
(* state of an alias play no part here.                                    *)
(***************************************************************************)
Output ==
  [type : Kinds, unlock_conditions_ : Seq(Address), features_ : SUBSET Feature,
   native_tokens_ : SUBSET Token, immutable_features_ : SUBSET Feature, id : Ids,
   serial_number_ : Serial]

\* The factories give a zero identifier; every output is given a condition.
ASSUME MadeAssumption ==
  /\ Made \subseteq Output
  /\ \A x \in Made : x.id = ZeroId /\ x.unlock_conditions_ # << >>

VARIABLES
  heap,    \* the output behind each handle
  taken,   \* the ledger output it was taken from, or 0
  stage,   \* "new", "taken", "consumed" or "filled"
  added,   \* what the client put into it since it took it
  ledger,  \* what was published, in order; an output is known by its place
  spent    \* the outputs that have a successor

vars == << heap, taken, stage, added, ledger, spent >>
clientVars == << heap, taken, stage, added >>
ledgerVars == << ledger, spent >>

Nothing == [features_ |-> {}, native_tokens_ |-> {}]
Content(x) == [features_ |-> x.features_, native_tokens_ |-> x.native_tokens_]
Published == 1 .. Len(ledger)

-----------------------------------------------------------------------------
(***************************************************************************)
(* The methods of Output.                                                  *)
(***************************************************************************)
\* get_id: a foundry's is the address of its first condition and its serial number.
get_id(x) ==
  IF x.type \in {Alias, NFT} THEN x.id
  ELSE IF x.type = Foundry THEN << x.unlock_conditions_[1], x.serial_number_ >> ELSE ZeroId

\* set_id gives an identifier to an Alias or NFT output that has none yet.
set_idAlways(x, outputid) ==
  IF x.type \in {Alias, NFT} THEN [x EXCEPT !.id = HashOf(outputid)] ELSE x
set_idRaw(x, outputid) ==   \* the 34 bytes themselves
  IF x.type \in {Alias, NFT} /\ x.id = ZeroId THEN [x EXCEPT !.id = outputid] ELSE x
set_id(x, outputid) ==
  IF x.type \in {Alias, NFT} /\ x.id = ZeroId THEN [x EXCEPT !.id = HashOf(outputid)] ELSE x

\* consume; Foundry_Output overrides it since get_id needs the conditions.
consumeKeepsFeatures(x) ==
  [x EXCEPT !.native_tokens_ = {},
            !.unlock_conditions_ = IF x.type = Foundry THEN @ ELSE << >>]
consumeBase(x) == [x EXCEPT !.features_ = {}, !.native_tokens_ = {}, !.unlock_conditions_ = << >>]
consume(x) ==
  [x EXCEPT !.features_ = {}, !.native_tokens_ = {},
            !.unlock_conditions_ = IF x.type = Foundry THEN @ ELSE << >>]

-----------------------------------------------------------------------------
Hold(h, x, o, s, a) ==
  /\ heap' = [heap EXCEPT ![h] = x]
  /\ taken' = [taken EXCEPT ![h] = o]
  /\ stage' = [stage EXCEPT ![h] = s]
  /\ added' = [added EXCEPT ![h] = a]

\* Output::Basic, Alias, Foundry and NFT: the identifier is 32 zero bytes.
Create(h) ==
  /\ \E x \in Made : Hold(h, x, 0, "new", Content(x))
  /\ UNCHANGED ledgerVars

\* An output that has no successor is taken from the node.
Take(h, o) ==
  /\ o \notin spent
  /\ Hold(h, ledger[o].output, o, "taken", Nothing)
  /\ UNCHANGED ledgerVars

SetId(h) ==
  /\ heap[h] # nullptr /\ taken[h] # 0
  /\ heap' = [heap EXCEPT ![h] = set_id(@, taken[h])]
  /\ UNCHANGED << taken, stage, added, ledgerVars >>

Consume(h) ==
  /\ heap[h] # nullptr /\ taken[h] # 0
  /\ Hold(h, consume(heap[h]), taken[h], "consumed", Nothing)
  /\ UNCHANGED ledgerVars

\* The client inserts into the public psets; a foundry has its condition already.
Fill(h, a, F, T) ==
  /\ heap[h] # nullptr /\ stage[h] = "consumed"
  /\ Hold(h, [heap[h] EXCEPT !.features_ = @ \cup F, !.native_tokens_ = @ \cup T,
                             !.unlock_conditions_ = IF @ = << >> THEN << a >> ELSE @],
          taken[h], "filled", [features_ |-> F, native_tokens_ |-> T])
  /\ UNCHANGED ledgerVars

CloneTo(h, g) ==
  /\ heap[h] # nullptr /\ g # h
  /\ Hold(g, heap[h], taken[h], stage[h], added[h])
  /\ UNCHANGED ledgerVars

\* The client published the output: it can now call set_id with its identifier.
Publish(h) ==
  LET o == Len(ledger) + 1
      p == taken[h]
  IN  /\ heap[h] # nullptr /\ o <= MaxOutputs
      /\ \/ stage[h] = "new" /\ spent' = spent
         \/ /\ stage[h] = "filled" /\ p \notin spent
            /\ heap[h].type \in {Alias, NFT} => heap[h].id # ZeroId
            /\ spent' = spent \cup {p}
      /\ ledger' = Append(ledger, [output |-> heap[h], spends |-> p, added |-> added[h],
                                   root |-> IF p = 0 THEN o ELSE ledger[p].root])
      /\ taken' = [taken EXCEPT ![h] = o]
      /\ stage' = [stage EXCEPT ![h] = "taken"]
      /\ added' = [added EXCEPT ![h] = Nothing]
      /\ UNCHANGED heap

Init ==
  /\ heap = [h \in Handles |-> nullptr]
  /\ taken = [h \in Handles |-> 0]
  /\ stage = [h \in Handles |-> "new"]
  /\ added = [h \in Handles |-> Nothing]
  /\ ledger = << >> /\ spent = {}

Next ==
  \E h \in Handles :
    \/ Create(h)
    \/ \E o \in Published : Take(h, o)
    \/ SetId(h)
    \/ Consume(h)
    \/ \E a \in Address, F \in SUBSET Feature, T \in SUBSET Token : Fill(h, a, F, T)
    \/ \E g \in Handles : CloneTo(h, g)
    \/ Publish(h)

Spec == Init /\ [][Next]_vars

-----------------------------------------------------------------------------
Stages == {"new", "taken", "consumed", "filled"}
Additions == [features_ : SUBSET Feature, native_tokens_ : SUBSET Token]
Entry == [output : Output, spends : Nat, added : Additions, root : Nat]

\* What each variable holds.
TypeOK ==
  /\ heap \in [Handles -> Output \cup {nullptr}]
  /\ taken \in [Handles -> Nat] /\ \A h \in Handles : taken[h] <= Len(ledger)
  /\ stage \in [Handles -> Stages]
  /\ added \in [Handles -> Additions]
  /\ ledger \in Seq(Entry)
  /\ \A o \in Published : ledger[o].spends < o /\ ledger[o].root \in 1 .. o
  /\ spent \subseteq Published

\* An output with a predecessor, and that predecessor.
Successor(o) == o \in Published /\ ledger[o].spends # 0
Pred(o) == ledger[ledger[o].spends]

(***************************************************************************)
(* The identifier of a published Alias or NFT output is that of the output *)
(* that began its chain, as carray.hpp says of NFT_ID and Alias_ID: zero   *)
(* in that output itself, its hash in every later one.                     *)
(***************************************************************************)
IdIsHashOfCreator ==
  \A o \in Published :
    ledger[o].output.type \in {Alias, NFT} =>
      ledger[o].output.id = IF ledger[o].root = o THEN ZeroId ELSE HashOf(ledger[o].root)

(***************************************************************************)
(* Two chains never carry one identifier.                                  *)
(***************************************************************************)
ChainsDistinct ==
  \A o, p \in Published :
    (/\ ledger[o].output.type \in {Alias, NFT} /\ ledger[p].output.type \in {Alias, NFT}
     /\ ledger[o].output.id # ZeroId /\ ledger[o].output.id = ledger[p].output.id)
      => ledger[o].root = ledger[p].root

(***************************************************************************)
(* A foundry keeps the identifier of its token through every successor,    *)
(* and get_id, which dereferences the first unlock condition, always finds *)
(* one in a foundry a client holds, consumed or not.                       *)
(***************************************************************************)
FoundryIdKept ==
  /\ \A h \in Handles : (heap[h] # nullptr /\ heap[h].type = Foundry) =>
                           heap[h].unlock_conditions_ # << >>
  /\ \A o \in Published : (Successor(o) /\ ledger[o].output.type = Foundry) =>
                             get_id(ledger[o].output) = get_id(Pred(o).output)

(***************************************************************************)
(* A successor has the class and the immutable features of its             *)
(* predecessor, and no other feature or token than the client added: none  *)
(* is carried over from the output that was consumed.                      *)
(***************************************************************************)
SuccessorCarries ==
  \A o \in Published : Successor(o) =>
    /\ ledger[o].output.type = Pred(o).output.type
    /\ ledger[o].output.immutable_features_ = Pred(o).output.immutable_features_
    /\ Content(ledger[o].output) = ledger[o].added
=============================================================================
