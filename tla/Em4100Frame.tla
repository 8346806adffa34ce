---------------------------- MODULE Em4100Frame ----------------------------
(***************************************************************************)
(* The EM4100 frame of a token as the specification lays it out (spec      *)
(* sections 4.3 and 4.4): nine ones, each of the ten nibbles (customer ID, *)
(* then the token from its most significant nibble) most significant bit  *)
(* first with its even parity bit, the four column parities and a stop    *)
(* bit 0.  This is the reference the generator and the decoder are        *)
(* checked against; it is written from the specification, not the code.  *)
(***************************************************************************)
EXTENDS Naturals, Sequences, DataUtils

\* The token's nibbles, most significant first.
FrameNibbles(t) ==
    <<t.versionOrCustomerId \div 16, t.versionOrCustomerId % 16>>
        \o [i \in 1 .. 8 |-> IF i % 2 = 1 THEN t.data[(i + 1) \div 2] \div 16
                              ELSE t.data[i \div 2] % 16]

\* Each nibble, most significant bit first, followed by its parity bit.
RECURSIVE RowGroups(_)
RowGroups(ns) ==
    IF ns = <<>> THEN <<>>
    ELSE NibbleBits(Head(ns)) \o <<parityNibble(Head(ns))>> \o RowGroups(Tail(ns))

\* Bit i of the column parity is the XOR of bit i of every nibble.
ColumnParity(ns) ==
    LET col(i) == (LET RECURSIVE Sum(_)
                       Sum(s) == IF s = <<>> THEN 0 ELSE BitAt(Head(s), i) + Sum(Tail(s))
                   IN  Sum(ns)) % 2
    IN  col(3) * 8 + col(2) * 4 + col(1) * 2 + col(0)

SpecFrame(t) ==
    [i \in 1 .. 9 |-> 1]
        \o RowGroups(FrameNibbles(t))
        \o NibbleBits(ColumnParity(FrameNibbles(t))) \o <<0>>
=============================================================================
