----------------------------- MODULE MCJsonForms -----------------------------
(***************************************************************************)
(* Objects for JsonForms: every class, numbers on both sides of Half, and  *)
(* psets of none, one and two elements.                                    *)
(***************************************************************************)
EXTENDS JsonForms

Low == 1
High == 2 * Half - 1
Address == [class |-> "Alias_Address", addrhash |-> << 1, 2 >>]
Addresses == {[class |-> c, addrhash |-> << 1, 2 >>] : c \in DOMAIN Families.Address}
Conditions ==
  {[class |-> "Storage_Deposit_Return_Unlock_Condition", address |-> a, return_amount |-> High] : a \in Addresses}
  \cup {[class |-> "Timelock_Unlock_Condition", unix_time |-> n] : n \in {Low, High}}
  \cup {[class |-> "Expiration_Unlock_Condition", address |-> Address, unix_time |-> n] : n \in {Half - 1, Half}}
  \cup {[class |-> c, address |-> Address] : c \in
          {"Address_Unlock_Condition", "State_Controller_Address_Unlock_Condition",
           "Governor_Address_Unlock_Condition", "Immutable_Alias_Address_Unlock_Condition"}}
Features ==
  {[class |-> c, address |-> Address] : c \in {"Sender_Feature", "Issuer_Feature"}}
  \cup {[class |-> "Metadata_Feature", data |-> << 7 >>], [class |-> "Tag_Feature", tag |-> << >>]}
Token(n) == [class |-> "Native_Token", token_id |-> << n >>, amount |-> 5]
Scheme == [class |-> "Simple_Token_Scheme", minted_tokens |-> 1, melted_tokens |-> 2, maximum_supply |-> 3]

\* psets of up to two elements
Psets(s) == {<< >>} \cup {<< e >> : e \in s} \cup {<< e, f >> : e, f \in s}
Ordered(s) == {p \in Psets(s) : Len(p) = 2 => Less(p[1], p[2])}
Own ==
  {[class |-> "Basic_Output"]}
  \cup {[class |-> "NFT_Output", id |-> i] : i \in {Zeros, << 4 >>}}
  \cup {[class |-> "Foundry_Output", serial_number |-> n, token_scheme |-> Scheme] : n \in {Low, High}}
  \cup {[class |-> "Alias_Output", id |-> i, state_index |-> n, foundry_counter |-> Half - 1,
          state_metadata |-> << 9 >>] : i \in {Zeros, << 4 >>}, n \in {Low, High}}
General(conditions, features, tokens, immutable) ==
  [amount |-> High, unlock_conditions |-> conditions, features |-> features, native_tokens |-> tokens,
   immutable_features |-> immutable]
MCOutputs ==
  {o @@ General(c, << >>, << >>, << >>) : o \in Own, c \in Ordered(Conditions)}
  \cup {o @@ General(<< [class |-> "Address_Unlock_Condition", address |-> Address] >>, f, t, g) :
          o \in Own, f \in Ordered(Features), g \in Ordered(Features), t \in {<< >>, << Token(1), Token(2) >>}}
Output == CHOOSE o \in MCOutputs : o.class = "NFT_Output" /\ Len(o.unlock_conditions) = 2

Tagged == [class |-> "Tagged_Data_Payload", tag |-> << 1 >>, data |-> << 2, 3 >>]
Unlocks ==
  {[class |-> "Signature_Unlock",
    signature |-> [class |-> "Ed25519_Signature", public_key |-> << 1 >>, signature |-> << 2 >>]]}
  \cup {[class |-> c, reference |-> Short - 1] : c \in {"Reference_Unlock", "Alias_Unlock", "NFT_Unlock"}}
Essences ==
  {[class |-> "Transaction_Essence", network_id |-> n, inputs_commitment |-> << 3 >>,
    inputs |-> << [class |-> "UTXO_Input", transaction_id |-> << 1 >>, transaction_output_index |-> Short - 1] >>,
    outputs |-> os, payload |-> p] : n \in {0, Low, High}, p \in {nullptr, Tagged}, os \in {<< >>, << Output, Output >>}}
Transactions == {[class |-> "Transaction_Payload", essence |-> e, unlocks |-> << u >>] : e \in Essences, u \in Unlocks}
Blocks ==
  {[class |-> "Block", protocol_version |-> 2, parents |-> s, payload |-> p, nonce |-> n] :
     s \in {<< >>, << << 1 >>, << 2 >> >>}, n \in {0, High}, p \in {nullptr, Tagged} \cup Transactions}
Metadata ==
  {[class |-> "Output_Metadata_Response", block_id |-> << 5 >>, transaction_id |-> << 1, 2 >>,
    output_index |-> n, is_spent |-> b, outputid |-> << 1, 2, n >>] : n \in {0, Short - 1}, b \in BOOLEAN}
MCMade ==
  MCOutputs \cup {Tagged, Scheme, Token(1)} \cup Transactions \cup Essences \cup Blocks \cup Metadata
  \cup Conditions \cup Features \cup Unlocks
=============================================================================
