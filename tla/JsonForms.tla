------------------------------ MODULE JsonForms ------------------------------
(***************************************************************************)
(* The JSON forms: what get_Json of each class writes and what its         *)
(* constructor from a QJsonValue reads.  The two are written separately,   *)
(* key by key and conversion by conversion.  A key that is not there or a  *)
(* value of another type is no error: it reads as zero, empty or null.     *)
(*                                                                         *)
(* An object is a record of its class and its fields.  A byte array is a   *)
(* sequence of bytes, its hex string [hex |-> bytes], a number as decimal  *)
(* string [digits |-> n], and a quint256, whose class belongs to another   *)
(* library, as string [quint256 |-> n].                                    *)
(***************************************************************************)
EXTENDS Integers, Sequences, SequencesExt, TLC

CONSTANTS
  Half,     \* the least number that is not an int: 2^31 in the program
  Short,    \* the number of values of a quint16
  Kinds,    \* the number of values of a quint8
  Long,     \* the number of values of a quint64
  Made,     \* the objects that programs make
  OutId,    \* the hash of an output identifier
  nullptr,  \* the null pointer
  Crash,    \* the result of a call that follows a null pointer
  MaxTrips  \* bound on how often an object is written and read

\* The largest kind is NFT_Address's 16.
ASSUME WidthAssumption ==
  Half \in Nat /\ Short \in 1 .. Half /\ Kinds \in 17 .. Half /\ Long >= 4 * Half

VARIABLES
  x,     \* the object in memory
  j,     \* its JSON
  at,    \* what happened last: "made", "written", "edited", "read", "identified"
  edit,  \* what another program did to the JSON
  made,  \* the object the first program made
  trips  \* how often an object was read

vars == << x, j, at, edit, made, trips >>

Zeros == << 0 >>   \* an identifier of zeros

-----------------------------------------------------------------------------
(***************************************************************************)
(* JSON values, and Qt's conversions of them.                              *)
(***************************************************************************)
Null == [null |-> TRUE]
Undefined == [undefined |-> TRUE]
Str(s) == [str |-> s]
Num(n) == [num |-> n]
Bool(b) == [bool |-> b]
Arr(s) == [arr |-> s]
Obj(f) == [obj |-> f]

Is(v, kind) == kind \in DOMAIN v
At(v, key) == IF Is(v, "obj") /\ key \in DOMAIN v.obj THEN v.obj[key] ELSE Undefined
toArray(v) == IF Is(v, "arr") THEN v.arr ELSE << >>
toBool(v) == Is(v, "bool") /\ v.bool
toInteger(v) == IF Is(v, "num") /\ 2 * v.num \in -Long .. Long - 1 THEN v.num ELSE 0
toInt(v) == IF Is(v, "num") /\ v.num \in -Half .. Half - 1 THEN v.num ELSE 0
toULongLong(v) == IF Is(v, "str") /\ Is(v.str, "digits") THEN v.str.digits ELSE 0
quint256(v) == IF Is(v, "str") /\ Is(v.str, "quint256") THEN v.str.quint256 ELSE 0
fromHex(v) == IF Is(v, "str") /\ Is(v.str, "hex") THEN v.str.hex ELSE << >>

\* Casts of a quint32 to int, and of an int or a qint64 to what a field holds.
toSignedCapped(n) == IF n < Half THEN n ELSE Half - 1
toSigned(n) == IF n < Half THEN n ELSE n - 2 * Half
quint64(n) == n % Long
quint32(n) == n % (2 * Half)
quint16(n) == n % Short
quint8(n) == n % Kinds

\* get_type casts to the kinds of the family; those of payloads have 32 bits.
get_type(family, v) ==
  IF family = "Payload" THEN quint32(toInt(At(v, "type"))) ELSE quint8(toInt(At(v, "type")))

-----------------------------------------------------------------------------
(***************************************************************************)
(* The classes of each family, by their "type".  Classes of no family are  *)
(* read without a look at it.                                              *)
(***************************************************************************)
Families ==
  [Address   |-> [Ed25519_Address |-> 0, Alias_Address |-> 8, NFT_Address |-> 16],
   Condition |-> [Address_Unlock_Condition |-> 0, Storage_Deposit_Return_Unlock_Condition |-> 1,
                  Timelock_Unlock_Condition |-> 2, Expiration_Unlock_Condition |-> 3,
                  State_Controller_Address_Unlock_Condition |-> 4,
                  Governor_Address_Unlock_Condition |-> 5,
                  Immutable_Alias_Address_Unlock_Condition |-> 6],
   Feature   |-> [Sender_Feature |-> 0, Issuer_Feature |-> 1, Metadata_Feature |-> 2, Tag_Feature |-> 3],
   Scheme    |-> [Simple_Token_Scheme |-> 0],
   Output    |-> [Basic_Output |-> 3, Alias_Output |-> 4, Foundry_Output |-> 5, NFT_Output |-> 6],
   Input     |-> [UTXO_Input |-> 0],
   Signature |-> [Ed25519_Signature |-> 0],
   Unlock    |-> [Signature_Unlock |-> 0, Reference_Unlock |-> 1, Alias_Unlock |-> 2, NFT_Unlock |-> 3],
   Essence   |-> [Transaction_Essence |-> 1],
   Payload   |-> [Tagged_Data_Payload |-> 5, Transaction_Payload |-> 6]]

FamilyOf(class) ==
  IF \E f \in DOMAIN Families : class \in DOMAIN Families[f]
  THEN CHOOSE f \in DOMAIN Families : class \in DOMAIN Families[f] ELSE class
Typed(class) == FamilyOf(class) # class
TypeOf(y) == Families[FamilyOf(y.class)][y.class]
Outputs == DOMAIN Families.Output

-----------------------------------------------------------------------------
(***************************************************************************)
(* What get_Json inserts besides "type": for each key, the field and how   *)
(* it is written.  What the constructor reads: for each field, the key and *)
(* how it is read; the key "" is the JSON of the object itself.            *)
(***************************************************************************)
AddressKey == [Ed25519_Address |-> "pubKeyHash", Alias_Address |-> "aliasId", NFT_Address |-> "nftId"]
AddressWrites(class) == AddressKey[class] :> << "addrhash", "hex" >>
AddressReads(class) == [addrhash |-> << AddressKey[class], "hex" >>]

ConditionWrites(class) ==
  CASE class = "Storage_Deposit_Return_Unlock_Condition" ->
         [returnAddress |-> << "address", "object" >>, amount |-> << "return_amount", "number" >>]
    [] class = "Timelock_Unlock_Condition" -> [unixTime |-> << "unix_time", "int" >>]
    [] class = "Expiration_Unlock_Condition" ->
         [returnAddress |-> << "address", "object" >>, unixTime |-> << "unix_time", "int" >>]
    [] OTHER -> [address |-> << "address", "object" >>]
ConditionReads(class) ==
  CASE class = "Storage_Deposit_Return_Unlock_Condition" ->
         [address |-> << "returnAddress", "Address" >>, return_amount |-> << "amount", "toULongLong" >>]
    [] class = "Timelock_Unlock_Condition" -> [unix_time |-> << "unixTime", "quint32" >>]
    [] class = "Expiration_Unlock_Condition" ->
         [unix_time |-> << "unixTime", "quint32" >>, address |-> << "returnAddress", "Address" >>]
    [] OTHER -> [address |-> << "address", "Address" >>]

FeatureWrites(class) ==
  CASE class = "Metadata_Feature" -> [data |-> << "data", "hex" >>]
    [] class = "Tag_Feature"      -> [tag |-> << "tag", "hex" >>]
    [] OTHER                      -> [address |-> << "address", "object" >>]
FeatureReads(class) ==
  CASE class = "Metadata_Feature" -> [data |-> << "data", "hex" >>]
    [] class = "Tag_Feature"      -> [tag |-> << "tag", "hex" >>]
    [] OTHER                      -> [address |-> << "address", "Address" >>]

TokenWrites == [id |-> << "token_id", "hex" >>, amount |-> << "amount", "toHex" >>]
TokenReads == [token_id |-> << "id", "hex" >>, amount |-> << "amount", "quint256" >>]

SchemeWrites ==
  [mintedTokens |-> << "minted_tokens", "toHex" >>, meltedTokens |-> << "melted_tokens", "toHex" >>,
   maximumSupply |-> << "maximum_supply", "toHex" >>]
SchemeReads ==
  [minted_tokens |-> << "mintedTokens", "quint256" >>, melted_tokens |-> << "meltedTokens", "quint256" >>,
   maximum_supply |-> << "maximumSupply", "quint256" >>]

OutputWrites ==
  [amount |-> << "amount", "number" >>, nativeTokens |-> << "native_tokens", "listIfAny" >>,
   unlockConditions |-> << "unlock_conditions", "list" >>, features |-> << "features", "listIfAny" >>,
   immutableFeatures |-> << "immutable_features", "listIfAny" >>]
OutputReads ==
  [amount |-> << "amount", "toULongLong" >>, unlock_conditions |-> << "unlockConditions", "Condition" >>,
   features |-> << "features", "Feature" >>, native_tokens |-> << "nativeTokens", "Native_Token" >>,
   immutable_features |-> << "immutableFeatures", "Feature" >>]

NFTWrites == [nftId |-> << "id", "hex" >>]
NFTReads == [id |-> << "nftId", "hex" >>]
FoundryWrites ==
  [serialNumber |-> << "serial_number", "int" >>, tokenScheme |-> << "token_scheme", "object" >>]
FoundryReads ==
  [token_scheme |-> << "tokenScheme", "Scheme" >>, serial_number |-> << "serialNumber", "quint32" >>]
AliasWrites ==
  [aliasId |-> << "id", "hex" >>, stateIndex |-> << "state_index", "int" >>,
   foundryCounter |-> << "foundry_counter", "int" >>, stateMetadata |-> << "state_metadata", "hex" >>]
AliasReadsSwapped ==
  [id |-> << "aliasId", "hex" >>, state_index |-> << "foundryCounter", "quint32" >>,
   foundry_counter |-> << "stateIndex", "quint32" >>, state_metadata |-> << "stateMetadata", "hex" >>]
AliasReads ==
  [id |-> << "aliasId", "hex" >>, state_index |-> << "stateIndex", "quint32" >>,
   foundry_counter |-> << "foundryCounter", "quint32" >>, state_metadata |-> << "stateMetadata", "hex" >>]

InputWrites == [transactionId |-> << "transaction_id", "hex" >>,
                transactionOutputIndex |-> << "transaction_output_index", "int" >>]
InputReads == [transaction_id |-> << "transactionId", "hex" >>,
               transaction_output_index |-> << "transactionOutputIndex", "toInt16" >>]

SignatureWrites == [publicKey |-> << "public_key", "hex" >>, signature |-> << "signature", "hex" >>]
SignatureReads == [public_key |-> << "publicKey", "hex" >>, signature |-> << "signature", "hex" >>]

UnlockWrites(class) ==
  IF class = "Signature_Unlock" THEN [signature |-> << "signature", "object" >>]
                                ELSE [reference |-> << "reference", "int" >>]
UnlockReads(class) ==
  IF class = "Signature_Unlock" THEN [signature |-> << "signature", "Signature" >>]
                                ELSE [reference |-> << "reference", "toInt16" >>]

PayloadWrites(class) ==
  CASE class = "Tagged_Data_Payload" -> [tag |-> << "tag", "hex" >>, data |-> << "data", "hex" >>]
    [] class = "Transaction_Payload" ->
         [essence |-> << "essence", "object" >>, unlocks |-> << "unlocks", "list" >>]
PayloadReads(class) ==
  CASE class = "Tagged_Data_Payload" -> [tag |-> << "tag", "hex" >>, data |-> << "data", "hex" >>]
    [] class = "Transaction_Payload" ->
         [essence |-> << "essence", "Essence" >>, unlocks |-> << "unlocks", "Unlock" >>]

EssenceWrites ==
  [networkId |-> << "network_id", "number" >>, inputsCommitment |-> << "inputs_commitment", "hex" >>,
   inputs |-> << "inputs", "list" >>, outputs |-> << "outputs", "list" >>,
   payload |-> << "payload", "objectOrNull" >>]
EssenceReads ==
  [network_id |-> << "networkId", "toInt64" >>, inputs |-> << "inputs", "Input" >>,
   inputs_commitment |-> << "inputsCommitment", "hex" >>, outputs |-> << "outputs", "Output" >>,
   payload |-> << "payload", "Payload" >>]

BlockWrites ==
  [protocolVersion |-> << "protocol_version", "int" >>, parents |-> << "parents", "hexList" >>,
   payload |-> << "payload", "objectOrNull" >>, nonce |-> << "nonce", "number" >>]
BlockReads ==
  [protocol_version |-> << "protocolVersion", "toInt8" >>, nonce |-> << "nonce", "toInteger64" >>,
   payload |-> << "", "Payload" >>, parents |-> << "outputs", "hexList" >>]

MetadataWrites ==
  [blockId |-> << "block_id", "hex" >>, transactionId |-> << "transaction_id", "hex" >>,
   outputIndex |-> << "output_index", "int" >>, isSpent |-> << "is_spent", "bool" >>,
   outputId |-> << "outputid", "hex" >>]
MetadataReads ==
  [block_id |-> << "blockId", "hex" >>, transaction_id |-> << "transactionId", "hex" >>,
   output_index |-> << "outputIndex", "toInteger16" >>, is_spent |-> << "isSpent", "bool" >>,
   outputid |-> << "", "set_outputid" >>]

Writes(class) ==
  LET family == FamilyOf(class)
  IN  CASE family = "Address"   -> AddressWrites(class)
        [] family = "Condition" -> ConditionWrites(class)
        [] family = "Feature"   -> FeatureWrites(class)
        [] family = "Scheme"    -> SchemeWrites
        [] family = "Input"     -> InputWrites
        [] family = "Signature" -> SignatureWrites
        [] family = "Unlock"    -> UnlockWrites(class)
        [] family = "Essence"   -> EssenceWrites
        [] family = "Payload"   -> PayloadWrites(class)
        [] class = "Native_Token"             -> TokenWrites
        [] class = "Block"                    -> BlockWrites
        [] class = "Output_Metadata_Response" -> MetadataWrites
        [] class = "Basic_Output"   -> OutputWrites
        [] class = "NFT_Output"     -> OutputWrites @@ NFTWrites
        [] class = "Foundry_Output" -> OutputWrites @@ FoundryWrites
        [] class = "Alias_Output"   -> OutputWrites @@ AliasWrites
Reads(class) ==
  LET family == FamilyOf(class)
  IN  CASE family = "Address"   -> AddressReads(class)
        [] family = "Condition" -> ConditionReads(class)
        [] family = "Feature"   -> FeatureReads(class)
        [] family = "Scheme"    -> SchemeReads
        [] family = "Input"     -> InputReads
        [] family = "Signature" -> SignatureReads
        [] family = "Unlock"    -> UnlockReads(class)
        [] family = "Essence"   -> EssenceReads
        [] family = "Payload"   -> PayloadReads(class)
        [] class = "Native_Token"             -> TokenReads
        [] class = "Block"                    -> BlockReads
        [] class = "Output_Metadata_Response" -> MetadataReads
        [] class = "Basic_Output"   -> OutputReads
        [] class = "NFT_Output"     -> OutputReads @@ NFTReads
        [] class = "Foundry_Output" -> OutputReads @@ FoundryReads
        [] class = "Alias_Output"   -> OutputReads @@ AliasReads

\* Read by get_T into a pset, or by get_Tvec into a vector; other families are one object.
InPsets == {"Condition", "Feature", "Native_Token"}
InVectors == {"Input", "Output", "Unlock"}

-----------------------------------------------------------------------------
RECURSIVE get_Json(_)

WriteAsEager(how, v) ==
  CASE how = "hex" -> Str([hex |-> v])
    [] how = "hexList" -> Arr([i \in DOMAIN v |-> Str([hex |-> v[i]])])
    [] how = "number" -> Str([digits |-> v])
    [] how = "toHex" -> Str([quint256 |-> v])
    [] how = "int" -> Num(toSigned(v))
    [] how = "bool" -> Bool(v)
    [] how \in {"object", "objectOrNull"} -> get_Json(v)
    [] how \in {"list", "listIfAny"} ->
         LET s == [i \in DOMAIN v |-> get_Json(v[i])]
         IN  IF \E i \in DOMAIN s : s[i] = Crash THEN Crash ELSE Arr(s)
WriteAs(how, v) ==
  CASE how = "hex" -> Str([hex |-> v])
    [] how = "hexList" -> Arr([i \in DOMAIN v |-> Str([hex |-> v[i]])])
    [] how = "number" -> Str([digits |-> v])
    [] how = "toHex" -> Str([quint256 |-> v])
    [] how = "int" -> Num(toSigned(v))
    [] how = "bool" -> Bool(v)
    [] how = "object" -> get_Json(v)
    [] how = "objectOrNull" -> IF v = nullptr THEN Null ELSE get_Json(v)
    [] how \in {"list", "listIfAny"} ->
         LET s == [i \in DOMAIN v |-> get_Json(v[i])]
         IN  IF \E i \in DOMAIN s : s[i] = Crash THEN Crash ELSE Arr(s)

get_Json(y) ==   \* of a null pointer: the call crashes
  IF y = nullptr THEN Crash
  ELSE LET w == Writes(y.class)
           f == [k \in {k \in DOMAIN w : w[k][2] = "listIfAny" => y[w[k][1]] # << >>} |->
                   WriteAs(w[k][2], y[w[k][1]])]
       IN  IF \E k \in DOMAIN f : f[k] = Crash THEN Crash
           ELSE Obj(f @@ IF Typed(y.class) THEN [type |-> Num(TypeOf(y))] ELSE << >>)

-----------------------------------------------------------------------------
BytesLess(a, b) ==
  \E i \in 1 .. Len(b) : /\ i - 1 <= Len(a) /\ SubSeq(a, 1, i - 1) = SubSeq(b, 1, i - 1)
                        /\ (i > Len(a) \/ a[i] < b[i])
Less(y, z) ==
  IF y.class = "Native_Token" THEN BytesLess(y.token_id, z.token_id) ELSE TypeOf(y) < TypeOf(z)

\* std::set::insert with ptrLess, which follows both pointers it compares.
InsertFirst(s, y) ==
  IF s = Crash THEN Crash ELSE IF s = << >> THEN << y >>
  ELSE IF y = nullptr \/ s[1] = nullptr THEN Crash ELSE << y >> \o s
Insert(s, y) ==
  IF s = Crash THEN Crash ELSE IF s = << >> THEN << y >>
  ELSE IF y = nullptr \/ s[1] = nullptr THEN Crash
  ELSE LET below(z) == Less(z, y)
           above(z) == Less(y, z)
       IN  IF \E i \in DOMAIN s : ~below(s[i]) /\ ~above(s[i]) THEN s
           ELSE SelectSeq(s, below) \o << y >> \o SelectSeq(s, above)

RECURSIVE from_(_, _)

get_T(family, s) == FoldLeft(Insert, << >>, [i \in DOMAIN s |-> from_(family, s[i])])
get_Tvec(family, s) == [i \in DOMAIN s |-> from_(family, s[i])]

ReadAs(how, v) ==
  CASE how = "hex" -> fromHex(v)
    [] how = "hexList" -> [i \in DOMAIN toArray(v) |-> fromHex(toArray(v)[i])]
    [] how = "toULongLong" -> toULongLong(v)
    [] how = "quint256" -> quint256(v)
    [] how = "toInt8" -> quint8(toInt(v))
    [] how = "toInt16" -> quint16(toInt(v))
    [] how = "toInt64" -> quint64(toInt(v))
    [] how = "quint32" -> quint32(toInteger(v))
    [] how = "toInteger64" -> quint64(toInteger(v))
    [] how = "toInteger16" -> quint16(toInteger(v))
    [] how = "bool" -> toBool(v)
    [] how = "set_outputid" ->
         Append(fromHex(At(v, "transactionId")), quint16(toInteger(At(v, "outputIndex"))))
    [] how \in InPsets -> get_T(how, toArray(v))
    [] how \in InVectors -> get_Tvec(how, toArray(v))
    [] OTHER -> from_(how, v)

Construct(class, v) ==
  LET r == Reads(class)
      f == [k \in DOMAIN r |-> ReadAs(r[k][2], IF r[k][1] = "" THEN v ELSE At(v, r[k][1]))]
  IN  IF \E k \in DOMAIN f : f[k] = Crash \/ (r[k][2] \in InVectors /\ \E i \in DOMAIN f[k] : f[k][i] = Crash)
      THEN Crash ELSE [class |-> class] @@ f

from_(family, v) ==
  IF family \notin DOMAIN Families THEN Construct(family, v)
  ELSE LET classes == {c \in DOMAIN Families[family] : Families[family][c] = get_type(family, v)}
       IN  IF classes = {} THEN nullptr ELSE Construct(CHOOSE c \in classes : TRUE, v)

set_idAlways(y) == [y EXCEPT !.id = OutId]
set_id(y) == IF y.id = Zeros THEN [y EXCEPT !.id = OutId] ELSE y

-----------------------------------------------------------------------------
Write ==
  /\ at \in {"made", "read", "identified"} /\ trips < MaxTrips
  /\ x \notin {Crash, nullptr}
  /\ j' = get_Json(x)
  /\ x' = IF j' = Crash THEN Crash ELSE x
  /\ at' = "written"
  /\ UNCHANGED << edit, made, trips >>

Read ==
  /\ at \in {"written", "edited"} /\ x # Crash
  /\ x' = from_(FamilyOf(made.class), j)
  /\ at' = "read" /\ trips' = trips + 1
  /\ UNCHANGED << j, edit, made >>

SetId ==
  /\ at = "read" /\ x \notin {Crash, nullptr} /\ x.class \in {"NFT_Output", "Alias_Output"}
  /\ x' = set_id(x)
  /\ at' = "identified"
  /\ UNCHANGED << j, edit, made, trips >>

\* JSON that another program wrote: it differs in one key, or a block's has one more
\* that the reader looks for and the writer never writes.
Numbers == {-Half - 1, -1, Kinds + 1, Short + 2, Half, 2 * Half + 3}
Added == [parents     |-> "outputs" :> Arr(<< Str([hex |-> << 6 >>]) >>),
          tagged      |-> "type" :> Num(5),
          transaction |-> "type" :> Num(6)]
Edited(how, key) ==
  LET v == j.obj[key]
  IN  CASE how = "gone" -> [k \in DOMAIN j.obj \ {key} |-> j.obj[k]]
        [] how = "retyped" -> [j.obj EXCEPT ![key] = Null]
        [] how = "reversed" -> [j.obj EXCEPT ![key] = Arr(Reverse(v.arr))]
        [] how \in {"unknown", "wrapped"} ->
             LET type(u) == IF how = "unknown" THEN Kinds - 1 ELSE u.obj.type.num + Kinds
                 other(u) == Obj([u.obj EXCEPT !.type = Num(type(u))])
             IN  [j.obj EXCEPT ![key] = IF Is(v, "obj") THEN other(v)
                                        ELSE Arr([v.arr EXCEPT ![Len(v.arr)] = other(@)])]
IsNumeral(v) == Is(v, "num") \/ (Is(v, "str") /\ Is(v.str, "digits"))
Edits(key) ==
  LET v == j.obj[key]
      elements == IF Is(v, "arr") THEN {v.arr[i] : i \in DOMAIN v.arr} ELSE {v}
  IN  {"gone", "retyped"} \cup (IF Is(v, "arr") THEN {"reversed"} ELSE {})
        \cup (IF elements # {} /\ \A u \in elements : Is(At(u, "type"), "num") THEN {"unknown", "wrapped"} ELSE {})
Edit ==
  /\ at = "written" /\ trips = 0 /\ j # Crash
  /\ \/ \E key \in DOMAIN j.obj \ {"type"} : \E how \in Edits(key) :
          j' = Obj(Edited(how, key)) /\ edit' = [how |-> how, key |-> key]
     \/ \E key \in {k \in DOMAIN j.obj \ {"type"} : IsNumeral(j.obj[k])} : \E n \in Numbers :
          j' = Obj([j.obj EXCEPT ![key] = Num(n)]) /\ edit' = [how |-> "number", key |-> key]
     \/ made.class = "Block" /\ \E how \in DOMAIN Added :
          j' = Obj(j.obj @@ Added[how]) /\ edit' = [how |-> how, key |-> ""]
  /\ at' = "edited"
  /\ UNCHANGED << x, made, trips >>

Init ==
  /\ made \in Made /\ x = made /\ j = Undefined
  /\ at = "made" /\ edit = [how |-> "none", key |-> ""] /\ trips = 0

\* The program ended, or the bound is reached.
Finished ==
  /\ x \in {Crash, nullptr} \/ (trips = MaxTrips /\ at \in {"read", "identified"})
  /\ UNCHANGED vars

Next == Write \/ Read \/ SetId \/ Edit \/ Finished

Spec == Init /\ [][Next]_vars

-----------------------------------------------------------------------------
(***************************************************************************)
(* What is left of an object after it was written and read: the network of *)
(* an essence is lost, and all of a block but its version.                 *)
(***************************************************************************)
Survives(y) ==
  CASE y.class = "Block" -> [y EXCEPT !.parents = << >>, !.payload = nullptr, !.nonce = 0]
    [] y.class = "Transaction_Payload" -> [y EXCEPT !.essence.network_id = 0]
    [] y.class = "Transaction_Essence" -> [y EXCEPT !.network_id = 0]
    [] OTHER -> y

(***************************************************************************)
(* Every other object is read as it was written: for numbers on both sides *)
(* of 2^31, lists in psets in whatever order another program has them, and *)
(* kinds that only agree in their low byte, which a payload's must not.    *)
(***************************************************************************)
JsonRoundTrip ==
  /\ at = "read" /\ trips = 1
  /\ \/ edit.how = "none"
     \/ edit.how = "reversed" /\ edit.key \notin {"inputs", "outputs", "unlocks"}
     \/ edit.how = "wrapped" /\ edit.key # "payload"
  => x = Survives(made)

(***************************************************************************)
(* A key that is missing or of another type costs the fields read from it  *)
(* and no other; nothing says so.  A number is silently taken modulo the   *)
(* width of its field, a negative one too, except that one that is not an  *)
(* int is zero where toInt() reads it.  A number where a string was is     *)
(* read for a network and a nonce, and as zero for an amount.  A block     *)
(* takes its parents from "outputs", and for its payload it takes itself:  *)
(* with a "type" of its own that is an empty one of that type.             *)
(***************************************************************************)
Widths ==
  [protocolVersion |-> Kinds, reference |-> Short, transactionOutputIndex |-> Short,
   outputIndex |-> Short, unixTime |-> 2 * Half, serialNumber |-> 2 * Half, stateIndex |-> 2 * Half,
   foundryCounter |-> 2 * Half, networkId |-> Long, nonce |-> Long]
IntKeys == {"protocolVersion", "reference", "transactionOutputIndex", "networkId"}
NumberRead(key, n) ==
  IF key \notin DOMAIN Widths \/ (key \in IntKeys /\ n \notin -Half .. Half - 1) THEN 0
  ELSE n % Widths[key]
Default(how) ==
  CASE how \in {"hex", "hexList"} \cup InPsets \cup InVectors -> << >>
    [] how = "bool" -> FALSE
    [] how \in DOMAIN Families -> from_(how, Null)
    [] OTHER -> 0
BlockWith(how) ==
  LET b == Survives(made)
  IN  CASE how = "parents" -> [b EXCEPT !.parents = << << 6 >> >>]
        [] how = "tagged" ->
             [b EXCEPT !.payload = [class |-> "Tagged_Data_Payload", tag |-> << >>, data |-> << >>]]
        [] how = "transaction" ->
             [b EXCEPT !.payload = [class |-> "Transaction_Payload", essence |-> nullptr, unlocks |-> << >>]]
EditIsLocal ==
  /\ (at = "read" /\ trips = 1 /\ edit.how \in {"gone", "retyped", "number"}) =>
       LET r == Reads(made.class)
       IN  /\ x \notin {Crash, nullptr} /\ x.class = made.class
           /\ \A k \in DOMAIN r :
                IF r[k][1] \notin {"", edit.key} THEN x[k] = Survives(made)[k]
                ELSE r[k][1] = edit.key =>
                       x[k] = IF edit.how = "number" THEN NumberRead(edit.key, j.obj[edit.key].num)
                              ELSE Default(r[k][2])
  /\ (at = "read" /\ trips = 1 /\ edit.how \in DOMAIN Added) => x = BlockWith(edit.how)

(***************************************************************************)
(* An object that was read, from whatever JSON, is on the next trip read   *)
(* as it is but for what no trip keeps: a network or a nonce another       *)
(* program gave as a number is read, then written as a string, and then    *)
(* read as zero; the parents and the payload a block was read with are     *)
(* written under keys that its constructor does not look at.  A third trip *)
(* has nothing more to lose.                                               *)
(***************************************************************************)
NextTripKeeps == [][(trips >= 1 /\ trips' > trips) => x' = Survives(x)]_vars

(***************************************************************************)
(* After set_id an NFT or alias has its identifier, or the hash if it was  *)
(* zero; read from JSON without one it has none and never gets one.        *)
(***************************************************************************)
IdSettable ==
  at = "identified" =>
    x.id = IF edit.how \in {"gone", "retyped"} /\ edit.key \in {"nftId", "aliasId"} THEN << >>
           ELSE IF made.id = Zeros THEN OutId ELSE made.id

(***************************************************************************)
(* An object of an unknown type is a null pointer, and so is an essence    *)
(* that is not there, as when the JSON of a block has the type of a        *)
(* transaction.  The reader crashes on it in a pset that holds another     *)
(* element, otherwise get_Json does, and no call crashes on anything else. *)
(* Only an absent payload is expected.                                     *)
(***************************************************************************)
InPset(key) == \E k \in DOMAIN Reads(made.class) :
                 Reads(made.class)[k][1] = key /\ Reads(made.class)[k][2] \in InPsets
NullsCrash ==
  /\ at = "read" /\ trips = 1 =>
       (x = Crash <=> edit.how = "unknown" /\ InPset(edit.key) /\ Len(j.obj[edit.key].arr) > 1)
  /\ at = "written" =>
       (x = Crash <=> /\ trips = 1
                     /\ \/ edit.how = "unknown" /\ edit.key # "payload"
                        \/ edit.how = "transaction"
                        \/ edit.how \in {"gone", "retyped"} /\ edit.key = "essence")
=============================================================================
