------------------------------ MODULE Firmware ------------------------------
(***************************************************************************)
(* The reader's firmware (firmware/src/main.c): the USB requests it serves *)
(* (usbFunctionSetup, usbFunctionWrite, usbFunctionRead), the main loop's  *)
(* handling of a pending command and of STATE_STARTING and STATE_FINISHED, *)
(* the ADC interrupt (edge wait and sample store) and the TIMER0 compare   *)
(* interrupt that plays pulses on the coil.                                *)
(*                                                                         *)
(* Which interrupt may fire is hardware state, not _commonCtx.state: the   *)
(* ADC interrupt fires while interrupts are on, the ADC is started and     *)
(* TIMER0 is clocked (its compare match triggers the conversion); the      *)
(* TIMER0 interrupt while interrupts are on, its compare interrupt is      *)
(* enabled and it is clocked.  Each branch of an interrupt is an action.   *)
(* An ADC sample is above ADC_HI (0), below ADC_LO (1) or between them,    *)
(* which keeps the last level.                                             *)
(*                                                                         *)
(* Left out: the prescaler value and compare-on-start flag (timing only),  *)
(* the coil carrier (PROTO_CMD_COIL_ENABLE, never sent by rfid-tool), the  *)
(* V-USB driver and oscillator calibration.  coil is the sequence of       *)
(* pulses the TIMER0 interrupt has played since the transfer started: a    *)
(* pulse lasts OCR0A + 1 carrier periods, high when the pin is an input.   *)
(***************************************************************************)
EXTENDS Integers, Sequences, DataUtils

CONSTANTS
    SAMPLE_BUFFER_SIZE,   \* bytes of ioBuffer
    PULSE_VECTOR_SIZE,    \* bytes of sampleVector
    EdgeWait              \* largest edge-wait timeout a host asks for

VARIABLES
    fwState,         \* _commonCtx.state
    timeout,         \* _commonCtx.timeout
    timedOut,        \* _commonCtx.timedOut
    id,              \* _commonCtx.id, the last transfer id
    tx,              \* _commonCtx.tx
    edgeStart,       \* _commonCtx.edgeStart
    fallingEdge,     \* _commonCtx.fallingEdge
    command,         \* the pending command
    ioBufferOffset,  \* offset of the data stage of a vector request
    opOffset,        \* samples stored or nibbles played
    opLength,        \* samples or nibbles the transfer may take
    adcLastSignal,   \* the level of the last ADC sample, -1 when unknown
    ioBuffer,        \* the sample buffer
    sampleVector,    \* the pulse lengths in carrier periods
    interrupts,      \* the global interrupt flag (sei / cli)
    adcIrq,          \* ADC auto-trigger and interrupt on (_adcStart / _adcStop)
    prescalerOn,     \* TIMER0 clocked (_prescallerStart / _prescallerStop)
    timerIrq,        \* TIMER0 compare interrupt enabled (OCIE0A)
    coil             \* the pulses played so far

ctxVars == <<fwState, timeout, timedOut, id, tx, edgeStart, fallingEdge>>
usbVars == <<command, ioBufferOffset>>
opVars == <<opOffset, opLength, adcLastSignal>>
bufVars == <<ioBuffer, sampleVector>>
hwVars == <<interrupts, adcIrq, prescalerOn, timerIrq>>
firmwareVars == <<ctxVars, usbVars, opVars, bufVars, hwVars, coil>>

States == {"IDLE", "STARTING", "WAIT_CONDITION", "RX", "TX", "FINISHED"}
Commands == {"NOP", "RESET", "PULSE_VECTOR_READ", "PULSE_VECTOR_WRITE",
             "SAMPLE_VECTOR_READ", "SAMPLE_VECTOR_WRITE"}
Byte == 0 .. 255
Pulse == [cycles : 1 .. 256, high : BOOLEAN]

\* Power-on (and the restart the bootloader jump leads to): static
\* variables as initialised, main() has run cli() and started the coil.
Init ==
    /\ fwState = "IDLE"
    /\ timeout = 0
    /\ timedOut = FALSE
    /\ id = 0
    /\ tx = FALSE
    /\ edgeStart = FALSE
    /\ fallingEdge = FALSE
    /\ command = "NOP"
    /\ ioBufferOffset = 0
    /\ opOffset = 0
    /\ opLength = 0
    /\ adcLastSignal = -1
    /\ ioBuffer = [j \in 0 .. SAMPLE_BUFFER_SIZE - 1 |-> 0]
    /\ sampleVector = [j \in 0 .. PULSE_VECTOR_SIZE - 1 |-> 0]
    /\ interrupts = FALSE
    /\ adcIrq = FALSE
    /\ prescalerOn = FALSE
    /\ timerIrq = FALSE
    /\ coil = <<>>

-----------------------------------------------------------------------------
(* usbFunctionSetup.  Each request is its effect on the firmware; a host   *)
(* action adds UNCHANGED for the rest.  Replies are the response bytes,    *)
(* return codes and statuses by name.                                      *)

VersionReply == <<"OK", 0, 1>>
BufferSizeReply == <<"OK", 4, 1, SAMPLE_BUFFER_SIZE \div 256, SAMPLE_BUFFER_SIZE % 256,
                     PULSE_VECTOR_SIZE \div 256, PULSE_VECTOR_SIZE % 256>>

\* PROTO_CMD_RESET: left pending for the main loop; one byte, RC OK.
SetupReset == command' = "RESET"
ResetReply == <<"OK">>

\* PROTO_CMD_TRANSFER_START: flags from wIndex, the timeout from the
\* 16-bit wValue, a new uint8_t id in the reply.
TransferStart(flags, wValue) ==
    /\ tx' = ("TX_MODE" \in flags)
    /\ edgeStart' = ("START_ON_EDGE" \in flags)
    /\ fallingEdge' = ("FALLING_EDGE" \in flags)
    /\ fwState' = "STARTING"
    /\ timeout' = wValue % 65536
    /\ timedOut' = FALSE
    /\ id' = (id + 1) % 256
StartReply == <<"OK", id'>>

\* PROTO_CMD_TRANSFER_STATUS for transfer wIndex.
TransferStatus(wIndex) ==
    IF wIndex # id THEN "UNKNOWN"
    ELSE IF fwState = "IDLE" THEN IF timedOut THEN "TIMEOUT" ELSE "OK"
    ELSE "IN_PROGRESS"
StatusReply(wIndex) ==
    IF wIndex # id THEN <<"INVALID_VAL", "UNKNOWN", 0, 0>>
    ELSE <<"OK", TransferStatus(wIndex), opOffset \div 256, opOffset % 256>>

\* The buffer a vector request reads or writes, and its size.
VectorSize(cmd) == IF cmd \in {"SAMPLE_VECTOR_READ", "SAMPLE_VECTOR_WRITE"}
                   THEN PULSE_VECTOR_SIZE ELSE SAMPLE_BUFFER_SIZE

\* A vector write: the setup resets ioBufferOffset and sets the command,
\* then usbFunctionWrite copies the data stage (the sequence of bytes
\* the host sends) in until the buffer is full.
VectorWrite(cmd, data) ==
    LET n == IF Len(data) < VectorSize(cmd) THEN Len(data) ELSE VectorSize(cmd)
        Copied(buf) == [j \in DOMAIN buf |-> IF j < n THEN data[j + 1] ELSE buf[j]]
    IN  /\ command' = cmd
        /\ ioBufferOffset' = n
        /\ IF cmd = "SAMPLE_VECTOR_WRITE"
           THEN sampleVector' = Copied(sampleVector) /\ UNCHANGED ioBuffer
           ELSE ioBuffer' = Copied(ioBuffer) /\ UNCHANGED sampleVector

\* Both vector writes of putSamples, pulse lengths first.
VectorsWrite(pulseVector, sampleBuffer) ==
    /\ command' = "PULSE_VECTOR_WRITE"
    /\ ioBufferOffset' = SAMPLE_BUFFER_SIZE
    /\ sampleVector' = pulseVector
    /\ ioBuffer' = sampleBuffer

\* A vector read of len bytes: usbFunctionRead copies out until the
\* source ends; the reply is what it copied.
VectorRead(cmd, len) ==
    /\ command' = cmd
    /\ ioBufferOffset' = IF len < VectorSize(cmd) THEN len ELSE VectorSize(cmd)
ReadReply(cmd) ==
    LET src == IF cmd = "SAMPLE_VECTOR_READ" THEN sampleVector ELSE ioBuffer
    IN  [i \in 1 .. ioBufferOffset' |-> src[i - 1]]

-----------------------------------------------------------------------------
(* The main loop, once 5 ms pass without USB traffic.                      *)

\* A pending PROTO_CMD_RESET jumps to the bootloader, which restarts the
\* firmware: every variable as Init has it.
MainReset ==
    /\ command = "RESET"
    /\ fwState' = "IDLE" /\ timeout' = 0 /\ timedOut' = FALSE /\ id' = 0
    /\ tx' = FALSE /\ edgeStart' = FALSE /\ fallingEdge' = FALSE
    /\ command' = "NOP" /\ ioBufferOffset' = 0
    /\ opOffset' = 0 /\ opLength' = 0 /\ adcLastSignal' = -1
    /\ ioBuffer' = [j \in 0 .. SAMPLE_BUFFER_SIZE - 1 |-> 0]
    /\ sampleVector' = [j \in 0 .. PULSE_VECTOR_SIZE - 1 |-> 0]
    /\ interrupts' = FALSE /\ adcIrq' = FALSE /\ prescalerOn' = FALSE /\ timerIrq' = FALSE
    /\ coil' = <<>>

\* Variant of MainStarting that sizes the buffer the other way round.
MainStartingSwappedLength ==
    /\ fwState = "STARTING"
    /\ command # "RESET"
    /\ opOffset' = 0
    /\ opLength' = SAMPLE_BUFFER_SIZE * (IF tx THEN 8 ELSE 2)
    /\ adcLastSignal' = -1
    /\ fwState' = IF edgeStart THEN "WAIT_CONDITION" ELSE IF tx THEN "TX" ELSE "RX"
    /\ interrupts' = TRUE /\ adcIrq' = TRUE /\ prescalerOn' = TRUE
    /\ timerIrq' = (timerIrq \/ (~edgeStart /\ tx))
    /\ coil' = <<>>
    /\ UNCHANGED <<timeout, timedOut, id, tx, edgeStart, fallingEdge, usbVars, bufVars>>

\* STATE_STARTING: two nibbles a byte to transmit or eight samples a byte
\* to receive, the ADC level unknown, then the edge wait or the transfer
\* itself; sei(), _adcStart(), and TIMER0 started (with its compare
\* interrupt for a transmission without edge wait).
MainStarting ==
    /\ fwState = "STARTING"
    /\ command # "RESET"
    /\ opOffset' = 0
    /\ opLength' = SAMPLE_BUFFER_SIZE * (IF tx THEN 2 ELSE 8)
    /\ adcLastSignal' = -1
    /\ fwState' = IF edgeStart THEN "WAIT_CONDITION" ELSE IF tx THEN "TX" ELSE "RX"
    /\ interrupts' = TRUE /\ adcIrq' = TRUE /\ prescalerOn' = TRUE
    /\ timerIrq' = (timerIrq \/ (~edgeStart /\ tx))
    /\ coil' = <<>>
    /\ UNCHANGED <<timeout, timedOut, id, tx, edgeStart, fallingEdge, usbVars, bufVars>>

\* Variant of MainFinished that stops the hardware but never goes idle.
MainFinishedNoIdle ==
    /\ fwState = "FINISHED"
    /\ command # "RESET"
    /\ UNCHANGED firmwareVars

\* STATE_FINISHED: cli(), TIMER0 and the ADC stopped, idle.
MainFinished ==
    /\ fwState = "FINISHED"
    /\ command # "RESET"
    /\ fwState' = "IDLE"
    /\ interrupts' = FALSE /\ adcIrq' = FALSE /\ prescalerOn' = FALSE /\ timerIrq' = FALSE
    /\ UNCHANGED <<timeout, timedOut, id, tx, edgeStart, fallingEdge, usbVars,
                   opVars, bufVars, coil>>

-----------------------------------------------------------------------------
(* The interrupts.                                                         *)

AdcFires == interrupts /\ adcIrq /\ prescalerOn
TimerFires == interrupts /\ timerIrq /\ prescalerOn

\* uint8_t oldSignal = adcLastSignal: the unknown level -1 becomes 255, so
\* the interrupt's "oldSignal == -1" (255 against the int -1) never holds
\* and an unknown level counts as a high one (non-zero).
oldSignal == adcLastSignal % 256

\* The edges the wait looks for, from the old level to the new one.
FallingEdge(signal) == oldSignal # 0 /\ signal = 0
RisingEdge(signal) == oldSignal = 0 /\ signal # 0
Edge(signal) == IF fallingEdge THEN FallingEdge(signal) ELSE RisingEdge(signal)

\* Variant of AdcWait that counts the timeout down without testing it.
AdcWaitCountsPastZero ==
    /\ AdcFires
    /\ fwState = "WAIT_CONDITION"
    /\ \E signal \in {0, 1, adcLastSignal} :
          /\ adcLastSignal' = signal
          /\ \/ /\ Edge(signal)
                /\ fwState' = IF tx THEN "TX" ELSE "RX"
                /\ adcIrq' = ~tx /\ timerIrq' = tx
                /\ UNCHANGED <<timeout, timedOut, interrupts, prescalerOn>>
             \/ /\ ~Edge(signal)
                /\ timeout' = (timeout - 1) % 65536
                /\ UNCHANGED <<fwState, timedOut, hwVars>>
             \/ /\ ~Edge(signal) /\ timeout = 0
                /\ fwState' = "FINISHED" /\ timedOut' = TRUE
                /\ prescalerOn' = FALSE /\ timerIrq' = FALSE
                /\ UNCHANGED <<timeout, interrupts, adcIrq>>
    /\ UNCHANGED <<id, tx, edgeStart, fallingEdge, usbVars, opOffset, opLength,
                   bufVars, coil>>

\* ADC interrupt in STATE_WAIT_CONDITION.  The edge starts the transfer:
\* TIMER0 restarted, for a transmission with its compare interrupt and
\* the ADC stopped.  Anything else counts the timeout down and, when it
\* is spent, finishes the transfer as timed out with TIMER0 stopped.
AdcWait ==
    /\ AdcFires
    /\ fwState = "WAIT_CONDITION"
    /\ \E signal \in {0, 1, adcLastSignal} :
          /\ adcLastSignal' = signal
          /\ \/ /\ Edge(signal)
                /\ fwState' = IF tx THEN "TX" ELSE "RX"
                /\ adcIrq' = ~tx /\ timerIrq' = tx
                /\ UNCHANGED <<timeout, timedOut, interrupts, prescalerOn>>
             \/ /\ ~Edge(signal) /\ timeout > 0
                /\ timeout' = timeout - 1
                /\ UNCHANGED <<fwState, timedOut, hwVars>>
             \/ /\ ~Edge(signal) /\ timeout = 0
                /\ fwState' = "FINISHED" /\ timedOut' = TRUE
                /\ prescalerOn' = FALSE /\ timerIrq' = FALSE
                /\ UNCHANGED <<timeout, interrupts, adcIrq>>
    /\ UNCHANGED <<id, tx, edgeStart, fallingEdge, usbVars, opOffset, opLength,
                   bufVars, coil>>

\* Bit k of byte x set to b.
StoreBit(x, k, b) == x + (b - BitAt(x, k)) * 2^k

\* Variant of AdcSample that tests for the end before counting the sample.
AdcSampleLateEnd ==
    /\ AdcFires
    /\ fwState # "WAIT_CONDITION"
    /\ opOffset \div 8 < SAMPLE_BUFFER_SIZE
    /\ \E signal \in {0, 1, adcLastSignal} :
          /\ adcLastSignal' = signal
          /\ ioBuffer' = [ioBuffer EXCEPT ![opOffset \div 8] =
                             StoreBit(@, opOffset % 8, Bit(signal # 0))]
    /\ opOffset' = (opOffset + 1) % 65536
    /\ IF opOffset = opLength
       THEN fwState' = "FINISHED" /\ prescalerOn' = FALSE /\ timerIrq' = FALSE
       ELSE UNCHANGED <<fwState, prescalerOn, timerIrq>>
    /\ UNCHANGED <<timeout, timedOut, id, tx, edgeStart, fallingEdge, usbVars,
                   opLength, sampleVector, interrupts, adcIrq, coil>>

\* ADC interrupt in any other state: the level is stored at bit opOffset
\* of ioBuffer, and when opOffset reaches opLength the transfer is
\* finished and TIMER0 stopped.  The store is only taken while it falls
\* inside ioBuffer; IsrInBounds checks that it always does.
AdcSample ==
    /\ AdcFires
    /\ fwState # "WAIT_CONDITION"
    /\ opOffset \div 8 < SAMPLE_BUFFER_SIZE
    /\ \E signal \in {0, 1, adcLastSignal} :
          /\ adcLastSignal' = signal
          /\ ioBuffer' = [ioBuffer EXCEPT ![opOffset \div 8] =
                             StoreBit(@, opOffset % 8, Bit(signal # 0))]
    /\ opOffset' = (opOffset + 1) % 65536
    /\ IF opOffset' = opLength
       THEN fwState' = "FINISHED" /\ prescalerOn' = FALSE /\ timerIrq' = FALSE
       ELSE UNCHANGED <<fwState, prescalerOn, timerIrq>>
    /\ UNCHANGED <<timeout, timedOut, id, tx, edgeStart, fallingEdge, usbVars,
                   opLength, sampleVector, interrupts, adcIrq, coil>>

\* Variant of pulseIdx that plays the high nibble of a byte first.
pulseIdxHighFirst == IF opOffset % 2 = 0 THEN ioBuffer[opOffset \div 2] \div 16
                                         ELSE ioBuffer[opOffset \div 2] % 16

\* The nibble the TIMER0 interrupt reads at opOffset.
pulseIdx == IF opOffset % 2 = 1 THEN ioBuffer[opOffset \div 2] \div 16
                                ELSE ioBuffer[opOffset \div 2] % 16

\* _stopTx: TIMER0 stopped, the coil pin released, STATE_FINISHED.
StopTx ==
    /\ fwState' = "FINISHED"
    /\ prescalerOn' = FALSE /\ timerIrq' = FALSE
    /\ UNCHANGED <<timeout, timedOut, id, tx, edgeStart, fallingEdge, usbVars,
                   opVars, bufVars, interrupts, adcIrq, coil>>

\* TIMER0_COMPA: every nibble the buffer may hold has been played.
TxEnd ==
    /\ TimerFires
    /\ opOffset = opLength
    /\ StopTx

\* TIMER0_COMPA: pulse index 7 marks the end of the samples.
TxMarker ==
    /\ TimerFires
    /\ opOffset # opLength
    /\ opOffset \div 2 < SAMPLE_BUFFER_SIZE
    /\ pulseIdx % 8 = 7
    /\ StopTx

\* TIMER0_COMPA: the next pulse, sampleVector[index] carrier periods long
\* (OCR0A is a uint8_t set to the length minus one), high when bit 3 is
\* set.
TxPulse ==
    /\ TimerFires
    /\ opOffset # opLength
    /\ opOffset \div 2 < SAMPLE_BUFFER_SIZE
    /\ pulseIdx % 8 # 7
    /\ coil' = Append(coil,
                 [cycles |-> ((sampleVector[pulseIdx % 8] + 255) % 256) + 1,
                  high |-> pulseIdx >= 8])
    /\ opOffset' = opOffset + 1
    /\ UNCHANGED <<ctxVars, usbVars, opLength, adcLastSignal, bufVars, hwVars>>

\* The firmware's own steps: main loop and interrupts.
FirmwareStep ==
    \/ MainReset \/ MainStarting \/ MainFinished
    \/ AdcWait \/ AdcSample \/ TxEnd \/ TxMarker \/ TxPulse

FirmwareTypeOK ==
    /\ fwState \in States
    /\ timeout \in 0 .. EdgeWait
    /\ timedOut \in BOOLEAN /\ tx \in BOOLEAN
    /\ edgeStart \in BOOLEAN /\ fallingEdge \in BOOLEAN
    /\ id \in Byte
    /\ command \in Commands
    /\ ioBufferOffset \in 0 .. VectorSize(command)
    /\ opOffset \in 0 .. SAMPLE_BUFFER_SIZE * 8
    /\ opLength \in {0, SAMPLE_BUFFER_SIZE * 2, SAMPLE_BUFFER_SIZE * 8}
    /\ adcLastSignal \in {-1, 0, 1}
    /\ ioBuffer \in [0 .. SAMPLE_BUFFER_SIZE - 1 -> Byte]
    /\ sampleVector \in [0 .. PULSE_VECTOR_SIZE - 1 -> Byte]
    /\ {interrupts, adcIrq, prescalerOn, timerIrq} \subseteq BOOLEAN
    /\ coil \in Seq(Pulse)

=============================================================================
