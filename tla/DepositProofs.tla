--------------------------- MODULE DepositProofs ---------------------------
(***************************************************************************)
(* The deposit is exact as long as it fits: for any weights, and so for    *)
(* the bytes of any output that is written.                                *)
(***************************************************************************)
EXTENDS Deposit, OutputCodecProofs

\* A number of 64 bits is not changed by being stored in a word of 64 bits.
LEMMA Unwrapped ==
  ASSUME NEW n \in Nat, n < Wide
  PROVE  quint64(n) = n
BY WideAssumption DEF quint64

\* Products of naturals, which the provers know little of.
LEMMA Product ==
  ASSUME NEW a \in Nat, NEW b \in Nat
  PROVE  a * b \in Nat /\ (b > 0 => a <= a * b)
<1>1. a * b \in Nat
  OBVIOUS
<1>2. ASSUME b > 0 PROVE a <= a * b
  <2>1. a * (b - 1) \in Nat
    BY <1>2
  <2>2. a * b = a * (b - 1) + a
    BY <1>2
  <2> QED
    BY <1>1, <2>1, <2>2
<1> QED
  BY <1>1, <1>2

(***************************************************************************)
(* The deposit is the price of the whole output exactly when that price is *)
(* a number of 64 bits: no step before the last can wrap on its own        *)
(* (min_deposit_of_output, src/qoutputs.cpp).                              *)
(***************************************************************************)
THEOREM DepositIsPrice ==
  ASSUME NEW size \in Nat, NEW wkey \in Nat, NEW wdata \in Nat, NEW v_byte_cost \in Nat
  PROVE  min_deposit_of_output(size, wkey, wdata, v_byte_cost) = Price(size, wkey, wdata, v_byte_cost)
           <=> Price(size, wkey, wdata, v_byte_cost) < Wide
<1> DEFINE data == size * wdata
           offset == 34 * wkey + 40 * wdata
           weight == data + offset
           price == Price(size, wkey, wdata, v_byte_cost)
<1>1. /\ data \in Nat /\ 34 * wkey \in Nat /\ 40 * wdata \in Nat
      /\ offset \in Nat /\ weight \in Nat
  BY Product
<1>2. price = weight * v_byte_cost
  <2>1. (size + 40) * wdata = data + 40 * wdata
    OBVIOUS
  <2>2. (size + 40) * wdata + 34 * wkey = weight
    BY <1>1, <2>1
  <2> QED
    BY <2>2 DEF Price
<1>3. price \in Nat /\ (v_byte_cost > 0 => weight <= price)
  BY <1>1, <1>2, Product
<1>4. ASSUME v_byte_cost = 0
         PROVE  /\ min_deposit_of_output(size, wkey, wdata, v_byte_cost) = price
                /\ price < Wide
  <2> DEFINE w == quint64(quint64(data) + quint64(quint64(34 * wkey) + quint64(40 * wdata)))
  <2>1. \A n \in Nat : quint64(n) \in Nat
    BY WideAssumption DEF quint64
  <2>2. w \in Nat
    BY <1>1, <2>1
  <2>3. w * v_byte_cost = 0 /\ weight * v_byte_cost = 0
    <3> HIDE DEF w, weight
    <3> QED
      BY <1>4, <1>1, <2>2
  <2>4. min_deposit_of_output(size, wkey, wdata, v_byte_cost) = quint64(w * v_byte_cost)
    BY DEF min_deposit_of_output
  <2> QED
    BY <1>2, <2>3, <2>4, Unwrapped, WideAssumption
<1>5. ASSUME v_byte_cost > 0, price < Wide
      PROVE  min_deposit_of_output(size, wkey, wdata, v_byte_cost) = price
  <2>1. /\ quint64(data) = data
        /\ quint64(34 * wkey) = 34 * wkey /\ quint64(40 * wdata) = 40 * wdata
        /\ quint64(offset) = offset /\ quint64(weight) = weight
        /\ quint64(weight * v_byte_cost) = weight * v_byte_cost
    <3> HIDE DEF price, data
    <3>1. /\ data < Wide /\ 34 * wkey < Wide /\ 40 * wdata < Wide
          /\ offset < Wide /\ weight < Wide
      BY <1>1, <1>3, <1>5, WideAssumption
    <3>2. weight * v_byte_cost < Wide
      BY <1>2, <1>5
    <3> QED
      BY <1>1, <1>2, <1>3, <3>1, <3>2, Unwrapped
  <2> QED
    BY <1>2, <2>1 DEF min_deposit_of_output
<1>6. ASSUME min_deposit_of_output(size, wkey, wdata, v_byte_cost) = price
      PROVE  price < Wide
  <2> DEFINE w == quint64(quint64(data) + quint64(quint64(34 * wkey) + quint64(40 * wdata)))
  <2>1. price = quint64(w * v_byte_cost)
    BY <1>6 DEF min_deposit_of_output
  <2>2. \A n \in Nat : quint64(n) \in 0 .. Wide - 1
    BY WideAssumption DEF quint64
  <2>3. w \in Nat
    <3>1. quint64(data) \in Nat /\ quint64(34 * wkey) \in Nat /\ quint64(40 * wdata) \in Nat
      BY <1>1, <2>2
    <3>2. quint64(quint64(34 * wkey) + quint64(40 * wdata)) \in Nat
      BY <3>1, <2>2
    <3> QED
      BY <3>1, <3>2, <2>2
  <2>4. w * v_byte_cost \in Nat
    <3> HIDE DEF w
    <3> QED
      BY <2>3, Product
  <2> QED
    BY <2>1, <2>2, <2>4, WideAssumption
<1> QED
  BY <1>4, <1>5, <1>6

\* Whatever outputs are written, and whatever the weights and prices of the node: the
\* deposit asked for an output is its price if and only if that price fits a word
\* (min_deposit_of_output, src/qoutputs.cpp).
THEOREM DepositExact == Spec => []DepositExactIfFits
  <1>1. ASSUME TypeOK PROVE DepositExactIfFits
    <2>1. Len(wire) \in Nat
      BY <1>1 DEF TypeOK, Bytes
    <2>2. \A p \in Prices : p[1] \in Nat /\ p[2] \in Nat /\ p[3] \in Nat
      BY PricesAssumption
    <2> QED
      BY <2>1, <2>2, DepositIsPrice DEF DepositExactIfFits
  <1> QED
    BY <1>1, OutputsTyped, PTL
=============================================================================
