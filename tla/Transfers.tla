------------------------------ MODULE Transfers ------------------------------
(***************************************************************************)
(* What a client takes a transaction for: a value.  It is made once,       *)
(* signed as it was made, and sent as it was signed, as often as needed.   *)
(***************************************************************************)
EXTENDS Naturals, Sequences

CONSTANT nullptr
VARIABLES book, sent

Hash(x) == [blake2b |-> x]

Init == book = << >> /\ sent = {}

Make ==
  /\ Len(book') = Len(book) + 1
  /\ \A t \in 1 .. Len(book) : book'[t] = book[t]
  /\ book'[Len(book')].unlock = nullptr
  /\ UNCHANGED sent
Sign(t) ==
  /\ book[t].unlock = nullptr
  /\ book' = [book EXCEPT ![t].unlock = Hash(book[t].essence)]
  /\ UNCHANGED sent
Send(t) ==
  /\ book[t].unlock # nullptr
  /\ sent' = sent \cup {book[t]}
  /\ UNCHANGED book

Next == Make \/ \E t \in 1 .. Len(book) : Sign(t) \/ Send(t)

Spec == Init /\ [][Next]_<< book, sent >>
=============================================================================
