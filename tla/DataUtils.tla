----------------------------- MODULE DataUtils -----------------------------
(***************************************************************************)
(* Bit helpers of common/DataUtils.hpp shared by the EM4100 decoder, the   *)
(* EPROM image generator and the T5557 encoder.  Integers stand for the    *)
(* unsigned C values; a bit is 0 or 1.                                     *)
(*                                                                         *)
(* The two lookup tables behind parityNibble and reverseNibble (PARITY and *)
(* REVERSED_NIBBLE) are defined in a DataUtils.cpp that is not part of the *)
(* sources; they are taken from the specification: the even-parity bit of  *)
(* a nibble, and the nibble with its four bits in reverse order.           *)
(***************************************************************************)
EXTENDS Naturals

\* Bit k of the unsigned value x.
BitAt(x, k) == (x \div 2^k) % 2

\* A C bool as a bit.
Bit(b) == IF b THEN 1 ELSE 0

\* The bits of the nibble n, most significant first.
NibbleBits(n) == <<BitAt(n, 3), BitAt(n, 2), BitAt(n, 1), BitAt(n, 0)>>

\* DataUtils::parityNibble: the bit that makes the number of ones even.
parityNibble(n) == (BitAt(n, 0) + BitAt(n, 1) + BitAt(n, 2) + BitAt(n, 3)) % 2

\* DataUtils::reverseNibble: bit i of the result is bit 3 - i of n.
reverseNibble(n) == BitAt(n, 0) * 8 + BitAt(n, 1) * 4 + BitAt(n, 2) * 2 + BitAt(n, 3)

\* The uint8_t whose bit k is f[k].
ByteOfBits(f) == f[0] + 2 * f[1] + 4 * f[2] + 8 * f[3]
                 + 16 * f[4] + 32 * f[5] + 64 * f[6] + 128 * f[7]

\* The uint8_t operators a & b, a | b and a ^ b.
And8(a, b) == ByteOfBits([k \in 0 .. 7 |-> BitAt(a, k) * BitAt(b, k)])
Or8(a, b)  == ByteOfBits([k \in 0 .. 7 |-> BitAt(a, k) + BitAt(b, k) - BitAt(a, k) * BitAt(b, k)])
Xor8(a, b) == ByteOfBits([k \in 0 .. 7 |-> (BitAt(a, k) + BitAt(b, k)) % 2])

(* A uint32_t buffer[] is a function from bit offsets to bits: offset k  *)
(* is bit k % 32 of buffer[k \div 32].                                     *)

\* DataUtils::putBit: set or clear the bit at offset k.
putBit(buf, k, b) == [buf EXCEPT ![k] = b]

\* DataUtils::putBitsMsb: the count low bits of bits, most significant
\* first, at offset.
putBitsMsb(buf, offset, bits, count) ==
    [k \in DOMAIN buf |->
        IF offset <= k /\ k < offset + count
        THEN BitAt(bits, count - 1 - (k - offset))
        ELSE buf[k]]

\* The value of the 32-bit word w of the buffer.
Word(buf, w) == LET RECURSIVE Acc(_)
                    Acc(i) == IF i < 0 THEN 0 ELSE 2 * Acc(i - 1) + buf[32 * w + 31 - i]
                IN  Acc(31)
=============================================================================
