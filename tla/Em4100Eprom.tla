---------------------------- MODULE Em4100Eprom ----------------------------
(***************************************************************************)
(* Em4100Eprom::generate (Em4100Eprom.cpp): the two 32-bit words a T5557   *)
(* must store to answer as an EM4100 tag with a customer ID and a token.   *)
(* The result array is a function from the 64 bit offsets to bits; an      *)
(* offset generate never writes keeps whatever value the caller's array    *)
(* held (main.cpp passes an uninitialised uint32_t[2]).                    *)
(*                                                                         *)
(* TLC integers stop at 2^31 - 1, so a uint32_t token is the tuple of its  *)
(* four bytes, most significant first.                                     *)
(***************************************************************************)
EXTENDS Naturals, Sequences, DataUtils

\* Offsets of the two 32-bit EPROM words.
EpromBits == 0 .. 63

\* A uint32_t as its bytes, most significant first.
Word32 == [1 .. 4 -> 0 .. 255]

\* (w >> ((7 - i) * 4)) & 0x0f for i = 0 .. 7: nibble i + 1 of w, counted
\* from the most significant one.
Nibble32(w, i) == IF i % 2 = 1 THEN w[(i + 1) \div 2] \div 16 ELSE w[i \div 2] % 16

\* _bufferAddBits: the count low bits of bits, least significant first, at
\* bitOffset; returns the buffer with them written.
bufferAddBits(buffer, bitOffset, bits, count) ==
    [k \in DOMAIN buffer |->
        IF bitOffset <= k /\ k < bitOffset + count
        THEN BitAt(bits, k - bitOffset)
        ELSE buffer[k]]

\* The ten nibbles generate writes after the preamble, in order: customer
\* ID high and low nibble, then the token from its most significant nibble.
CodeNibbles(customerId, token) ==
    <<customerId \div 16, customerId % 16>>
        \o [i \in 1 .. 8 |-> Nibble32(token, i)]

\* The running column parity: XOR of the reversed nibbles.
RECURSIVE XorAll(_)
XorAll(s) == IF s = <<>> THEN 0 ELSE Xor8(Head(s), XorAll(Tail(s)))

\* Variant of Groups that forgets to reverse the nibbles.
GroupsUnreversed(customerId, token) ==
    LET rev == CodeNibbles(customerId, token)
    IN  << <<511, 9>> >>
        \o [i \in 1 .. 10 |-> <<rev[i] + parityNibble(rev[i]) * 16, 5>>]
        \o << <<XorAll(rev), 5>> >>

\* The (bits, count) groups generate appends, in order: preamble, one
\* group of reversed nibble plus its parity bit per code nibble, and the
\* column parity.
Groups(customerId, token) ==
    LET rev == [i \in 1 .. 10 |-> reverseNibble(CodeNibbles(customerId, token)[i])]
    IN  << <<511, 9>> >>
        \o [i \in 1 .. 10 |-> <<rev[i] + parityNibble(rev[i]) * 16, 5>>]
        \o << <<XorAll(rev), 5>> >>

\* generate(result, customerId, token) applied to the array initial.
generate(initial, customerId, token) ==
    LET g == Groups(customerId, token)
        RECURSIVE Write(_, _, _)
        Write(buffer, written, i) ==
            IF i > Len(g) THEN buffer
            ELSE Write(bufferAddBits(buffer, written, g[i][1], g[i][2]),
                       written + g[i][2], i + 1)
    IN  Write(initial, 0, 1)
=============================================================================
