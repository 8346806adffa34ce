----------------------------- MODULE WritePath -----------------------------
(***************************************************************************)
(* The write path of main.cpp: the configuration block and the two blocks  *)
(* of an EM4100 image, each encoded by T5557Encoder and handed to          *)
(* InterfaceUsbImpl::putSamples, which loads the reader's buffers, starts  *)
(* a transmit transfer, sleeps 500 ms and asks for the transfer's status.  *)
(* The firmware (Firmware) runs beside the host: its main loop and       *)
(* interrupts step while the host sleeps.                                  *)
(*                                                                         *)
(* The tag is a T5557 as the specification describes its write protocol:  *)
(* a start gap, then one high pulse a bit (16 to 31 carrier periods a 0,   *)
(* 48 to 63 a 1) each followed by a write gap; a standard write of page 0  *)
(* is opcode 1 0, the lock bit, 32 data bits and the 3-bit block address,  *)
(* most significant first.  It takes the command when the reader's         *)
(* transmission ends.  A block of the tag is its bits in the order they    *)
(* were sent, <<>> while this run has not written it.                      *)
(*                                                                         *)
(* Timing.  The host's status request comes 500 ms after TRANSFER_START.   *)
(* A whole transmission takes about 25 ms, but the wait for the start edge *)
(* may take longer than 500 ms: its timeout, 60000 * CARRIER_US truncated  *)
(* to the 16-bit wValue, is 21248 ADC samples, one every                   *)
(* PRESCALER_MINIMAL_VALUE = 4 carrier periods, about 680 ms.  So the      *)
(* status request may come at any point of the transfer after the main    *)
(* loop has started it, but before the timeout.                            *)
(***************************************************************************)
EXTENDS Naturals, Sequences, T5557Encoder, InterfaceUsb, Em4100Eprom

CONSTANTS
    CustomerIds,   \* customer IDs the user may ask for
    Tokens,        \* tokens the user may ask for
    DataRates,     \* the bitrate option, as T5557Encoder data rates
    EdgeWait       \* ADC samples the firmware waits for its start edge

ASSUME CustomerIds \subseteq 0 .. 255 /\ Tokens \subseteq Word32
ASSUME DataRates \subseteq {"DATA_RATE_16", "DATA_RATE_32", "DATA_RATE_64"}

VARIABLES
    fwState, timeout, timedOut, id, tx, edgeStart, fallingEdge, command,
    ioBufferOffset, opOffset, opLength, adcLastSignal, ioBuffer, sampleVector,
    interrupts, adcIrq, prescalerOn, timerIrq, coil

F == INSTANCE Firmware WITH SAMPLE_BUFFER_SIZE <- sampleVectorSize,
                              PULSE_VECTOR_SIZE <- pulseVectorSize

VARIABLES
    eprom,        \* the EM4100 image generate made
    dataRate,     \* the data rate of the configuration
    call,         \* the putSamples call of main.cpp: 1 config, 2 and 3 blocks
    hostPc,       \* "PUT", "SLEEP", "DONE" or "FAILED"
    transferId,   \* the id TRANSFER_START returned
    sent,         \* the Samples of the current putSamples call
    tag           \* the tag's blocks

fwVars == <<fwState, timeout, timedOut, id, tx, edgeStart, fallingEdge, command,
            ioBufferOffset, opOffset, opLength, adcLastSignal, ioBuffer, sampleVector,
            interrupts, adcIrq, prescalerOn, timerIrq, coil>>
hostVars == <<eprom, dataRate, call, hostPc, transferId, sent>>
vars == <<fwVars, hostVars, tag>>

Blocks == 0 .. 7

\* main.cpp: the default Parameters with the bitrate option's data rate
\* and maxBlock = 2; the 32-bit words of the image, bit i of word w being
\* image bit 32 * w + i.
params == [DefaultParameters EXCEPT !.dataRate = dataRate, !.maxBlock = 2]
imageWord(w) == [i \in 0 .. 31 |-> eprom[32 * w + i]]
noPassword == [i \in 0 .. 31 |-> 0]

\* The Samples of each putSamples call of main.cpp.
Trains ==
    << encodeParameters(params, FALSE, noPassword),
       encodeBlock(0, 1, FALSE, FALSE, noPassword, imageWord(0)),
       encodeBlock(0, 2, FALSE, FALSE, noPassword, imageWord(1)) >>

Init ==
    /\ F!Init
    /\ \E c \in CustomerIds, t \in Tokens :
          eprom = generate([k \in EpromBits |-> 2], c, t)
    /\ dataRate \in DataRates
    /\ call = 1
    /\ hostPc = "PUT"
    /\ transferId = 0
    /\ sent = <<>>
    /\ tag = [b \in Blocks |-> <<>>]

\* putSamples up to the sleep: more pulse lengths than the pulse vector
\* holds throw TooManyPulsesException before any request, which main.cpp
\* reports as the write's failure; otherwise the pulse vector and the
\* sample buffer are written, then TRANSFER_START.  The number of Samples
\* is not checked against the buffer.
PutSamples ==
    /\ hostPc = "PUT"
    /\ sent' = Trains[call]
    /\ IF TooManyPulses(sent')
       THEN /\ hostPc' = "FAILED"
            /\ UNCHANGED <<fwVars, transferId>>
       ELSE /\ F!VectorsWrite(PulseVectorBuffer(sent'), SampleBuffer(sent'))
            /\ F!TransferStart({"TX_MODE", "START_ON_EDGE", "FALLING_EDGE"}, EdgeWait)
            /\ transferId' = id'
            /\ hostPc' = "SLEEP"
            /\ UNCHANGED <<opOffset, opLength, adcLastSignal, interrupts, adcIrq,
                           prescalerOn, timerIrq, coil>>
    /\ UNCHANGED <<eprom, dataRate, call, tag>>

\* After the sleep, TRANSFER_STATUS.  Status OK returns from putSamples
\* and main.cpp goes on with its next call.
StatusOk ==
    /\ hostPc = "SLEEP"
    /\ fwState # "STARTING"
    /\ F!TransferStatus(transferId) = "OK"
    /\ call' = IF call < 3 THEN call + 1 ELSE call
    /\ hostPc' = IF call < 3 THEN "PUT" ELSE "DONE"
    /\ UNCHANGED <<fwVars, eprom, dataRate, transferId, sent, tag>>

\* Any other status throws InvalidStateException, which main.cpp reports
\* as the write's failure.
StatusFailed ==
    /\ hostPc = "SLEEP"
    /\ fwState # "STARTING"
    /\ F!TransferStatus(transferId) # "OK"
    /\ hostPc' = "FAILED"
    /\ UNCHANGED <<fwVars, eprom, dataRate, call, transferId, sent, tag>>

HostStep == PutSamples \/ StatusOk \/ StatusFailed

\* The bits a T5557 reads from a train of pulses, or <<>> when a pulse is
\* out of the protocol's ranges.
TagBits(c) ==
    LET highs == SelectSeq(c, LAMBDA p : p.high)
        valid == /\ c # <<>> /\ ~c[1].high /\ c[1].cycles \in 10 .. 50
                 /\ \A i \in 2 .. Len(c) :
                       c[i].cycles \in IF c[i].high THEN (16 .. 31) \cup (48 .. 63)
                                                    ELSE 8 .. 30
    IN  IF valid THEN [i \in 1 .. Len(highs) |-> IF highs[i].cycles >= 48 THEN 1 ELSE 0]
        ELSE <<>>

\* The tag takes a standard write of page 0 and stores its data bits in
\* the addressed block.
TagProgram(c) ==
    LET b == TagBits(c)
    IN  IF Len(b) = 38 /\ b[1] = 1 /\ b[2] = 0
        THEN [tag EXCEPT ![4 * b[36] + 2 * b[37] + b[38]] = SubSeq(b, 4, 35)]
        ELSE tag

\* The firmware steps; the transmission ends with the tag hearing it.  The
\* edge wait times out only after the host's status request (680 ms
\* against 500 ms).
FirmwareStep ==
    \/ (F!TxEnd \/ F!TxMarker) /\ tag' = TagProgram(coil)
    \/ F!AdcWait /\ (timedOut' => hostPc # "SLEEP") /\ UNCHANGED tag
    \/ (F!MainStarting \/ F!TxPulse \/ F!MainFinished) /\ UNCHANGED tag

Next ==
    \/ HostStep /\ UNCHANGED tag
    \/ FirmwareStep /\ UNCHANGED hostVars

\* The firmware's interrupts fire and its main loop runs while they are
\* enabled; the host's sleep ends.
Spec == Init /\ [][Next]_vars /\ WF_vars(FirmwareStep /\ UNCHANGED hostVars)
                              /\ WF_vars(HostStep /\ UNCHANGED tag)

TypeOK ==
    /\ F!FirmwareTypeOK
    /\ dataRate \in DataRates
    /\ call \in 1 .. 3
    /\ hostPc \in {"PUT", "SLEEP", "DONE", "FAILED"}
    /\ transferId \in 0 .. 255
    /\ tag \in [Blocks -> Seq({0, 1})]

-----------------------------------------------------------------------------
\* The configuration block the specification's bit-field table gives for
\* the parameters main.cpp sets, in the order its bits are sent.
SpecConfigBits ==
    LET rateCode == dataRateValue[dataRate]
    IN  <<0, 0, 0, 0>> \o <<0, 0, 0, 0, 0, 0, 0>>
        \o <<BitAt(rateCode, 2), BitAt(rateCode, 1), BitAt(rateCode, 0)>> \o <<0>>
        \o <<0, 1, 0, 0, 0>> \o <<0, 0>> \o <<1>> \o <<0>> \o <<0, 1, 0>>
        \o <<0>> \o <<0>> \o <<0, 0>> \o <<0>>

\* The image's words in the order encodeBlock sends them.
SpecImageBits(w) == [i \in 1 .. 32 |-> eprom[32 * w + i - 1]]

\* When main.cpp's write returns without an error, the tag holds the
\* configuration of the bit-field table in block 0 and the EM4100 image
\* in blocks 1 and 2: the encoder, the host's buffer packing and the
\* firmware's playback together send what the tag must receive.
TagHoldsImage ==
    hostPc = "DONE" =>
        /\ tag[0] = SpecConfigBits
        /\ tag[1] = SpecImageBits(0)
        /\ tag[2] = SpecImageBits(1)

\* writeSamples (putSamples) puts on the coil exactly the Samples it was
\* given: when a transmission ends, the pulses played are the Samples'
\* lengths in carrier periods and levels.
CoilPlaysSamples ==
    (fwState = "FINISHED" /\ ~timedOut) =>
        coil = [i \in DOMAIN sent |-> [cycles |-> sent[i].lengthUs \div CARRIER_US,
                                       high |-> ~sent[i].isLow]]

\* A write that main.cpp reports as failed did not program the block the
\* failing putSamples call was sending.
FailedCallNotWritten == hostPc = "FAILED" => tag[call - 1] = <<>>

\* Every write ends: the host returns or fails, and the firmware is idle
\* again, whether or not the tag ever gives the start edge.
WriteEnds == <>(hostPc \in {"DONE", "FAILED"} /\ fwState = "IDLE")
=============================================================================
