---------------------------- MODULE T5557Encoder ----------------------------
(***************************************************************************)
(* T5557Encoder (T5557Encoder.cpp/.hpp): the pulse trains that write a    *)
(* block of a T5557 with the "fixed bit length" protocol.  TransferData    *)
(* opens the train with a start gap and sends each bit as a high pulse     *)
(* (long for a 1, short for a 0) followed by a low write gap.              *)
(*                                                                         *)
(* A train is a sequence of Samples [lengthUs, isLow].  A uint32_t word is *)
(* the function from its bit numbers 0 .. 31 to its bits.                  *)
(***************************************************************************)
EXTENDS Naturals, Sequences, DataUtils, Interface

LOCAL INSTANCE SequencesExt


\* TransferData's pulse lengths: the middle of each range of the protocol.
SL_FIXED_DATA_ONE == CARRIER_US * ((48 + 63) \div 2)
SL_FIXED_DATA_ZERO == CARRIER_US * ((16 + 31) \div 2)
SL_FIXED_WRITE_GAP == CARRIER_US * ((8 + 30) \div 2)
SL_FIXED_START_GAP == CARRIER_US * ((10 + 50) \div 2)

\* addPulse(high, length).
addPulse(high, length) == <<[lengthUs |-> length, isLow |-> ~high]>>

\* addBit: the data pulse and the write gap after it.
addBit(bit) ==
    addPulse(TRUE, IF bit = 1 THEN SL_FIXED_DATA_ONE ELSE SL_FIXED_DATA_ZERO)
        \o addPulse(FALSE, SL_FIXED_WRITE_GAP)

\* The bits 0 .. n - 1 of an unsigned value as a word function.
BitsOf(x, n) == [i \in 0 .. n - 1 |-> BitAt(x, i)]

\* addBitsLsb and addBitsMsb: the first bitsToTransfer bits of the word,
\* from bit 0 up or from bit bitsToTransfer - 1 down.
addBitsLsb(word, bitsToTransfer) ==
    FlattenSeq([i \in 1 .. bitsToTransfer |-> addBit(word[i - 1])])
addBitsMsb(word, bitsToTransfer) ==
    FlattenSeq([i \in 1 .. bitsToTransfer |-> addBit(word[bitsToTransfer - i])])

\* Variant of encodeBlock that sends the data word most significant bit
\* first.
encodeBlockDataMsb(page, block, lock, passwordSend, password, data) ==
    addPulse(FALSE, SL_FIXED_START_GAP)
        \o addBitsLsb(BitsOf(1 + (page % 2) * 2, 2), 2)
        \o (IF passwordSend THEN addBitsMsb(password, 32) ELSE <<>>)
        \o addBit(Bit(lock))
        \o addBitsMsb(data, 32)
        \o addBitsMsb(BitsOf(block, 3), 3)

\* encodeBlock: start gap, opcode 1 then the page bit, the password if it
\* is sent, the lock bit, the data from bit 0 and the block address from
\* its most significant bit.
encodeBlock(page, block, lock, passwordSend, password, data) ==
    addPulse(FALSE, SL_FIXED_START_GAP)
        \o addBitsLsb(BitsOf(1 + (page % 2) * 2, 2), 2)
        \o (IF passwordSend THEN addBitsMsb(password, 32) ELSE <<>>)
        \o addBit(Bit(lock))
        \o addBitsLsb(data, 32)
        \o addBitsMsb(BitsOf(block, 3), 3)

\* The enumerations of T5557Encoder::Parameters and their codes.
dataRateValue == [DATA_RATE_8 |-> 0, DATA_RATE_16 |-> 1, DATA_RATE_32 |-> 2,
                  DATA_RATE_40 |-> 3, DATA_RATE_50 |-> 4, DATA_RATE_64 |-> 5,
                  DATA_RATE_100 |-> 6, DATA_RATE_128 |-> 7]
modulationValue == [MODULATION_DIRECT |-> 0, MODULATION_PSK1 |-> 1,
                     MODULATION_PSK2 |-> 2, MODULATION_PSK3 |-> 3,
                     MODULATION_FSK1 |-> 4, MODULATION_FSK2 |-> 5,
                     MODULATION_FSK1a |-> 6, MODULATION_FSK2a |-> 7,
                     MODULATION_MANCHESTER |-> 8, MODULATION_BIPHASE |-> 16]
pskSubValue == [PSK_SUBCARRIER_RF_2 |-> 0, PSK_SUBCARRIER_RF_4 |-> 1,
                PSK_SUBCARRIER_RF_8 |-> 2]

\* The Parameters constructor's values.
DefaultParameters ==
    [lock |-> FALSE, masterKey |-> 0, dataRate |-> "DATA_RATE_16",
     modulation |-> "MODULATION_MANCHESTER", pskSubcarrier |-> "PSK_SUBCARRIER_RF_2",
     answerOnRequest |-> TRUE, maxBlock |-> 0, password |-> FALSE,
     sequenceTerminator |-> FALSE, powerOnResetDelay |-> FALSE]

\* The configuration word encodeParameters packs, field after field from
\* bit offset 0, each field most significant bit first.
ConfigWord(params) ==
    LET fields == << <<params.masterKey, 4>>, <<0, 7>>,
                     <<dataRateValue[params.dataRate], 3>>, <<0, 1>>,
                     <<modulationValue[params.modulation], 5>>,
                     <<pskSubValue[params.pskSubcarrier], 2>>,
                     <<Bit(params.answerOnRequest), 1>>, <<0, 1>>,
                     <<params.maxBlock, 3>>, <<Bit(params.password), 1>>,
                     <<Bit(params.sequenceTerminator), 1>>, <<0, 2>>,
                     <<Bit(params.powerOnResetDelay), 1>> >>
        RECURSIVE Pack(_, _, _)
        Pack(data, bitOffset, i) ==
            IF i > Len(fields) THEN data
            ELSE Pack(putBitsMsb(data, bitOffset, fields[i][1], fields[i][2]),
                      bitOffset + fields[i][2], i + 1)
    IN  Pack([k \in 0 .. 31 |-> 0], 0, 1)

\* encodeParameters: the configuration word written to block 0 of page 0.
encodeParameters(params, passwordSend, password) ==
    encodeBlock(0, 0, params.lock, passwordSend, password, ConfigWord(params))
=============================================================================
