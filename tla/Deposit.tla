------------------------------ MODULE Deposit ------------------------------
(***************************************************************************)
(* The storage deposit an output needs: min_deposit_of_output multiplies   *)
(* its weight by a price, in words of 64 bits that wrap without notice.    *)
(***************************************************************************)
EXTENDS OutputCodec

CONSTANTS
  Wide,         \* the number of values of a quint64
  Prices        \* <<wkey, wdata, v_byte_cost>> of the nodes that may be asked

ASSUME WideAssumption == Wide \in Nat \ {0}
ASSUME PricesAssumption == Prices \subseteq Nat \X Nat \X Nat

quint64(n) == n % Wide

(***************************************************************************)
(* The serialised output has size bytes; wkey and wdata weigh a byte of a  *)
(* key (34 of them) and of data (40 besides the output's own).             *)
(***************************************************************************)
min_deposit_of_outputNoOffset(size, wkey, wdata, v_byte_cost) ==
  quint64(quint64(size * wdata) * v_byte_cost)
min_deposit_of_output(size, wkey, wdata, v_byte_cost) ==
  LET offset == quint64(quint64(34 * wkey) + quint64(40 * wdata))
      outp   == quint64(size * wdata)
  IN  quint64(quint64(outp + offset) * v_byte_cost)

Price(size, wkey, wdata, v_byte_cost) == ((size + 40) * wdata + 34 * wkey) * v_byte_cost

(***************************************************************************)
(* The minimum deposit, taken from the bytes that serialize() writes, is   *)
(* the price of the output exactly when that price is a number of 64 bits. *)
(* Above that it wraps (min_deposit_of_output, src/qoutputs.cpp).          *)
(***************************************************************************)
DepositExactIfFits ==
  wat = "done" =>
    \A p \in Prices :
      LET price == Price(Len(wire), p[1], p[2], p[3])
      IN  min_deposit_of_output(Len(wire), p[1], p[2], p[3]) = price <=> price < Wide
=============================================================================
