--------------------------- MODULE Em4100Decoder ---------------------------
(***************************************************************************)
(* Em4100Decoder (Em4100Decoder.cpp/.hpp): the EM4100 frame state machine. *)
(* It listens to a coding decoder and handles one EVENT_NEW_BIT per call   *)
(* of onEvent; a frame that passes every parity check is notified to its   *)
(* own listeners as EVENT_NEW_TOKEN.  The notification of a call is the    *)
(* variable emitted: <<>> or the one token of that call.                   *)
(***************************************************************************)
EXTENDS Naturals, Sequences, DataUtils

VARIABLES
    state,        \* DECODER_STATE_PREAMBLE or DECODER_STATE_DATA
    bitCount,     \* ones seen in a row while in the preamble
    nibble,       \* the nibble being filled, most significant bit first
    nibbleLen,    \* bits of nibble filled (the fifth bit is the parity)
    nibbleCount,  \* nibbles accepted in this frame
    data,         \* uint8_t data[6]
    emitted       \* tokens notified by the last call

decoderVars == <<state, bitCount, nibble, nibbleLen, nibbleCount, data, emitted>>

Byte == 0 .. 255

\* EventNewTokenData; the uint32_t data is the tuple of its bytes, most
\* significant first.
Token == [versionOrCustomerId : Byte, data : [1 .. 4 -> Byte]]

TypeOK ==
    /\ state \in {"PREAMBLE", "DATA"}
    /\ bitCount \in 0 .. 8
    /\ nibble \in 0 .. 15
    /\ nibbleLen \in 0 .. 4
    /\ nibbleCount \in 0 .. 11
    /\ data \in [0 .. 5 -> Byte]
    /\ emitted \in Seq(Token) /\ Len(emitted) <= 1

\* The constructor's reset().  nibbleLen, nibbleCount and data are left
\* uninitialised by the code and are written before they are read; they
\* start at 0 here.
Init ==
    /\ state = "PREAMBLE"
    /\ bitCount = 0
    /\ nibble = 0
    /\ nibbleLen = 0
    /\ nibbleCount = 0
    /\ data = [i \in 0 .. 5 |-> 0]
    /\ emitted = <<>>

\* Variant of colsParity that does not shift the low nibbles up.
colsParityUnshifted(d) ==
    LET term(i) == Xor8(And8(d[i], 240), d[i] % 16)
    IN  Xor8(Xor8(Xor8(Xor8(term(0), term(1)), term(2)), term(3)), term(4))

\* The column parity computed over data[0..4]: high nibbles and low nibbles
\* shifted up, XORed together into a uint8_t.
colsParity(d) ==
    LET term(i) == Xor8(And8(d[i], 240), (d[i] * 16) % 256)
    IN  Xor8(Xor8(Xor8(Xor8(term(0), term(1)), term(2)), term(3)), term(4))

\* Variant of TokenOf that assembles the data bytes least significant
\* first.
TokenOfLittleEndian(d) ==
    [versionOrCustomerId |-> d[0], data |-> <<d[4], d[3], d[2], d[1]>>]

\* EVENT_NEW_TOKEN data: byte 0, then bytes 1..4 big-endian.
TokenOf(d) ==
    [versionOrCustomerId |-> d[0], data |-> <<d[1], d[2], d[3], d[4]>>]

\* Variant of Preamble that waits for a tenth one.
PreambleTenOnes(isOne) ==
    /\ state = "PREAMBLE"
    /\ IF isOne
       THEN IF bitCount + 1 = 10
            THEN /\ state' = "DATA"
                 /\ bitCount' = 0
                 /\ nibbleCount' = 0
                 /\ nibbleLen' = 0
            ELSE /\ bitCount' = bitCount + 1
                 /\ UNCHANGED <<state, nibbleCount, nibbleLen>>
       ELSE /\ bitCount' = 0
            /\ UNCHANGED <<state, nibbleCount, nibbleLen>>
    /\ emitted' = <<>>
    /\ UNCHANGED <<nibble, data>>

\* DECODER_STATE_PREAMBLE: count ones; the ninth one starts the data.
Preamble(isOne) ==
    /\ state = "PREAMBLE"
    /\ IF isOne
       THEN IF bitCount + 1 = 9
            THEN /\ state' = "DATA"
                 /\ bitCount' = 0
                 /\ nibbleCount' = 0
                 /\ nibbleLen' = 0
            ELSE /\ bitCount' = bitCount + 1
                 /\ UNCHANGED <<state, nibbleCount, nibbleLen>>
       ELSE /\ bitCount' = 0
            /\ UNCHANGED <<state, nibbleCount, nibbleLen>>
    /\ emitted' = <<>>
    /\ UNCHANGED <<nibble, data>>

\* nibble |= (1 << k) or nibble &= ~(1 << k).
SetBit(x, k, b) == x - BitAt(x, k) * 2^k + b * 2^k

\* DECODER_STATE_DATA, one of the first four bits of a group: fill the
\* nibble, most significant bit first.
DataBit(isOne) ==
    /\ state = "DATA"
    /\ nibbleLen # 4
    /\ nibble' = SetBit(nibble, 3 - nibbleLen, Bit(isOne))
    /\ nibbleLen' = nibbleLen + 1
    /\ emitted' = <<>>
    /\ UNCHANGED <<state, bitCount, nibbleCount, data>>

\* Variant of parityOk that does not check the stop bit.
parityOkNoStopBit(isOne) ==
    IF nibbleCount = 10 THEN TRUE
    ELSE parityNibble(nibble) = Bit(isOne)

\* The fifth bit of a group: the even parity of the nibble for the ten
\* data groups, the stop bit 0 for the eleventh (column parity) group.
parityOk(isOne) ==
    IF nibbleCount = 10 THEN ~isOne
    ELSE parityNibble(nibble) = Bit(isOne)

\* data[nibbleCount >> 1] after the nibble is packed: an even nibbleCount
\* clears the byte and sets its high nibble, an odd one ORs the low nibble.
Packed ==
    LET byteNo == nibbleCount \div 2
        byteHi == nibbleCount % 2
    IN  [data EXCEPT ![byteNo] =
            Or8(IF byteHi = 1 THEN @ ELSE 0, IF byteHi = 1 THEN nibble ELSE nibble * 16)]

\* "Parity not OK!": the frame is dropped and the preamble is searched.
ParityFailed(isOne) ==
    /\ state = "DATA"
    /\ nibbleLen = 4
    /\ ~parityOk(isOne)
    /\ state' = "PREAMBLE"
    /\ emitted' = <<>>
    /\ UNCHANGED <<bitCount, nibble, nibbleLen, nibbleCount, data>>

\* A group of the first ten passed its parity: pack it and go on.
NibbleAccepted(isOne) ==
    /\ state = "DATA"
    /\ nibbleLen = 4
    /\ parityOk(isOne)
    /\ nibbleCount + 1 # 11
    /\ data' = Packed
    /\ nibbleLen' = 0
    /\ nibbleCount' = nibbleCount + 1
    /\ emitted' = <<>>
    /\ UNCHANGED <<state, bitCount, nibble>>

\* The eleventh group passed its stop bit: compare the column parity with
\* data[5], notify the token if they agree, and search the next preamble.
FrameEnd(isOne) ==
    /\ state = "DATA"
    /\ nibbleLen = 4
    /\ parityOk(isOne)
    /\ nibbleCount + 1 = 11
    /\ data' = Packed
    /\ nibbleLen' = 0
    /\ nibbleCount' = nibbleCount + 1
    /\ emitted' = IF colsParity(Packed) = Packed[5] THEN <<TokenOf(Packed)>> ELSE <<>>
    /\ state' = "PREAMBLE"
    /\ UNCHANGED <<bitCount, nibble>>

\* onEvent(EVENT_NEW_BIT) with the bit isOne.
OnNewBit(isOne) ==
    \/ Preamble(isOne)
    \/ DataBit(isOne)
    \/ ParityFailed(isOne)
    \/ NibbleAccepted(isOne)
    \/ FrameEnd(isOne)
=============================================================================
