---------------------------- MODULE MCOutputChain ----------------------------
(***************************************************************************)
(* An instance of OutputChain: an output's identifier is its place in the  *)
(* ledger, and its hash a number that is no identifier of an output.       *)
(***************************************************************************)
EXTENDS OutputChain, TLC
MCHash(o) == 100 + o
MCIds == {0} \cup {MCHash(o) : o \in 1 .. MaxOutputs}
First == CHOOSE a \in Address : TRUE
MCMade ==
  { [type |-> k, unlock_conditions_ |-> << First >>, features_ |-> Feature, native_tokens_ |-> Token,
     immutable_features_ |-> IF k = Basic THEN {} ELSE Feature, id |-> ZeroId, serial_number_ |-> 1] :
      k \in Kinds }
Pointers == Permutations(Handles)
=============================================================================
