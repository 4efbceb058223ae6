------------------------------ MODULE MCSigning ------------------------------
(***************************************************************************)
(* Instances of Signing: one booked output to begin with.                  *)
(***************************************************************************)
EXTENDS Signing, TLC
MCMade == {[type |-> 6, id |-> ZeroId, content |-> CHOOSE c \in Contents : TRUE]}
MCGenesis == {[type |-> 3, id |-> ZeroId, content |-> CHOOSE c \in Contents : TRUE]}
Renamings == Permutations(Handles)
=============================================================================
