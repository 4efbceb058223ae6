-------------------------------- MODULE Wire --------------------------------
(***************************************************************************)
(* Byte strings and the QDataStream reads and writes that every class of   *)
(* the library is serialised with (include/block/carray.hpp, carray.cpp).  *)
(*                                                                         *)
(* A stream being read is the byte string still to be read.  A read gives  *)
(* Got(value, what is left); nothing in the library looks at the status of *)
(* the stream, so a read past the end is not an error, only a short value. *)
(* An integer that the library never computes with (an amount, a time, a   *)
(* nonce) is the tuple of its little-endian bytes; counts, lengths and     *)
(* tags are numbers.                                                       *)
(***************************************************************************)
EXTENDS Integers, Sequences

CONSTANTS
  Radix,    \* number of values of a byte: 256 in the program
  Junk,     \* bytes that memory nobody has written may hold
  nullptr   \* the null std::shared_ptr

Byte == 0 .. Radix - 1

\* The largest tag the program writes in one byte is NFT_Address's 16.
ASSUME RadixAssumption == Radix \in Nat /\ Radix > 16
ASSUME JunkAssumption == Junk \subseteq Byte /\ Junk # {}

Bytes == Seq(Byte)
Word(w) == [1 .. w -> Byte]
Zeros(n) == [i \in 1 .. n |-> 0]
Drop(s, n) == SubSeq(s, n + 1, Len(s))
Got(v, left) == [v |-> v, rest |-> left]

(***************************************************************************)
(* Unsigned integers of one, two and four bytes.  static_cast<quintN> of a *)
(* size keeps the low bytes: a number too large for its width wraps.       *)
(* (Here and below, a definition whose name extends that of the one after  *)
(* it is a slip in the code which the properties are known to catch.)      *)
(***************************************************************************)
quint8(n) == << n % Radix >>
quint16(n) == << n % Radix, (n \div Radix) % Radix >>
quint32(n) == quint16(n) \o quint16(n \div (Radix * Radix))
UInt(n, w) == CASE w = 1 -> quint8(n) [] w = 2 -> quint16(n) [] w = 4 -> quint32(n)

ValueOfSigned(b) ==
  CASE Len(b) = 1 -> IF b[1] > Radix \div 2 THEN 0 ELSE b[1]
    [] Len(b) = 2 -> b[1] + Radix * b[2]
    [] Len(b) = 4 -> b[1] + Radix * (b[2] + Radix * (b[3] + Radix * b[4]))
ValueOf(b) ==
  CASE Len(b) = 1 -> b[1]
    [] Len(b) = 2 -> b[1] + Radix * b[2]
    [] Len(b) = 4 -> b[1] + Radix * (b[2] + Radix * (b[3] + Radix * b[4]))

\* Whether a size is less than the number of values of w bytes.
Within(n, w) ==
  CASE w = 1 -> n < Radix
    [] w = 2 -> n \div Radix < Radix
    [] w = 4 -> n \div (Radix * Radix) < Radix * Radix

(***************************************************************************)
(* QDataStream >> quintN: fewer than w bytes left are consumed and the     *)
(* value read is zero.                                                     *)
(***************************************************************************)
ReadInt(s, w) ==
  IF Len(s) >= w THEN Got(SubSeq(s, 1, w), Drop(s, w)) ELSE Got(Zeros(w), << >>)

(***************************************************************************)
(* QDataStream >> c_array of n bytes, readRawData into a buffer the caller *)
(* filled with zeros: what the stream is short of stays zero.              *)
(***************************************************************************)
ReadRaw(s, n) ==
  Got([i \in 1 .. n |-> IF i <= Len(s) THEN s[i] ELSE 0], Drop(s, n))

(***************************************************************************)
(* fl_array<quintN>: the size, cast to the prefix's width, then the data.  *)
(* The reader resizes the array, which leaves its bytes uninitialised, and *)
(* then reads into it: what the stream is short of stays as memory was.    *)
(***************************************************************************)
WriteArrayWide(d, w) == UInt(Len(d), 2) \o d
WriteArray(d, w) == UInt(Len(d), w) \o d
ReadArray(s, w, junk) ==
  LET size == ReadInt(s, w)
      n    == ValueOf(size.v)
  IN  Got([i \in 1 .. n |-> IF i <= Len(size.rest) THEN size.rest[i] ELSE junk],
          Drop(size.rest, n))

\* QByteArray's operator<: the first byte that differs, a prefix before what it begins.
BytesLess(a, b) ==
  \E i \in 1 .. Len(b) :
    /\ i <= Len(a) + 1 /\ \A j \in 1 .. i - 1 : a[j] = b[j]
    /\ i <= Len(a) => a[i] < b[i]
=============================================================================
