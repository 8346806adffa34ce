----------------------------- MODULE UsbSession -----------------------------
(***************************************************************************)
(* rfid-tool's conversation with the reader over USB: the requests         *)
(* InterfaceUsbImpl (impl/InterfaceUsbImpl.cpp) sends for what main.cpp   *)
(* asks of it, served by the firmware (Firmware, INSTANCE).                *)
(*                                                                         *)
(* A run of main.cpp parses its arguments (CommandLine) and returns at    *)
(* once on the help or a write without modulation or bitrate.  Otherwise   *)
(* it opens the reader (the constructor asks for the version and the      *)
(* buffer sizes), then, by its options, resets the reader, shows the help, *)
(* reads samples (getSamples) or writes (putSamples, WriteCalls times).    *)
(* Every request is checked by checkResponse; an exception ends the run.   *)
(* The user may run the tool again, up to Runs runs: the firmware keeps    *)
(* whatever it was doing, since nothing in a run waits for or stops the    *)
(* transfer the previous run left behind.                                  *)
(*                                                                         *)
(* Timing, from the code's constants: the main loop arms a transfer       *)
(* within 5 ms of its request, long before the host's 500 ms sleep ends,   *)
(* but the edge wait lasts 60000 (read) or 21248 (write) ADC samples 32 us *)
(* apart, more than that sleep.  So the host asks for the status at any    *)
(* point of the transfer after the main loop has armed it, and the wait of *)
(* the transfer the host sleeps on never times out before the host asks.  *)
(* A new run starts more than 5 ms after the last, so a pending reset has  *)
(* been carried out.                                                       *)
(***************************************************************************)
EXTENDS Integers, Sequences, DataUtils, CommandLine, UsbDeviceSearch

CONSTANTS
    SAMPLE_BUFFER_SIZE,   \* the firmware's buffer sizes
    PULSE_VECTOR_SIZE,
    EdgeWait,             \* the edge-wait timeout the host asks for
    Argvs,                \* argument lists of a run, as getopt_long returns them
    PulseVectors,         \* pulse vectors putSamples may send
    SampleBuffers,        \* sample buffers putSamples may send
    WriteCalls,           \* putSamples calls of a write
    Runs                  \* runs of the tool

ASSUME Runs \in Nat \ {0}

VARIABLES
    fwState, timeout, timedOut, id, tx, edgeStart, fallingEdge, command,
    ioBufferOffset, opOffset, opLength, adcLastSignal, ioBuffer, sampleVector,
    interrupts, adcIrq, prescalerOn, timerIrq, coil

F == INSTANCE Firmware

\* The firmware's variables, grouped as in Firmware.
ctxVars == <<fwState, timeout, timedOut, id, tx, edgeStart, fallingEdge>>
usbVars == <<command, ioBufferOffset>>
opVars == <<opOffset, opLength, adcLastSignal>>
bufVars == <<ioBuffer, sampleVector>>
hwVars == <<interrupts, adcIrq, prescalerOn, timerIrq>>
firmwareVars == <<ctxVars, usbVars, opVars, bufVars, hwVars, coil>>

VARIABLES
    run,          \* runs of the tool so far
    argv,         \* the arguments of this run
    options,      \* main.cpp's static ExecutionOptions
    hostPc,       \* where the run is
    transferId,   \* the id TRANSFER_START returned
    call,         \* the putSamples call of a write
    sizes,        \* the vector sizes the constructor read
    loaded,       \* the vector and buffer this run wrote last
    readBuf,      \* the bytes getSamples read
    preempted     \* the firmware state the last TRANSFER_START found

hostVars == <<searchVars, run, argv, options, hostPc, transferId, call, sizes, loaded, readBuf,
             preempted>>
vars == <<firmwareVars, hostVars>>

HostPcs == {"SEARCH", "OPEN", "RESET", "RX_START", "RX_SLEEP", "RX_READ", "TX_VECTORS",
            "TX_BUFFER", "TX_START", "TX_SLEEP", "DONE", "FAILED"}
Sleeping == {"RX_SLEEP", "TX_SLEEP"}

\* UsbFirmwareVersion::isSupported.
isSupported(major, minor) == major = 0 /\ minor \in {1, 2}

\* doTransferRx with checkResponse: bufferSize bytes are asked for, one
\* more for the return code when checkRc; usb_control_msg returns at most
\* that many.  The request throws when fewer came back or the return code
\* is not OK.
RxFails(reply, bufferSize, checkRc) ==
    LET transferSize == bufferSize + Bit(checkRc)
        returned == IF Len(reply) < transferSize THEN Len(reply) ELSE transferSize
    IN  \/ returned # transferSize
        \/ transferSize > 0 /\ checkRc /\ reply[1] # "OK"

\* The flags and wValue of getSamples and putSamples.
RxFlags == {"START_ON_EDGE", "FALLING_EDGE"}
TxFlags == {"TX_MODE", "START_ON_EDGE", "FALLING_EDGE"}

Init ==
    /\ F!Init
    /\ run = 1
    /\ argv \in Argvs
    /\ options = ParseOptions(argv)
    /\ hostPc = IF Rejected(options) THEN "FAILED" ELSE "SEARCH"
    /\ SearchInit
    /\ transferId = 0
    /\ call = 1
    /\ sizes = [sampleVectorSize |-> 0, pulseVectorSize |-> 0]
    /\ loaded = [vector |-> <<>>, buffer |-> <<>>]
    /\ readBuf = <<>>
    /\ preempted = "IDLE"

\* InterfaceFactory::newInstance(TYPE_USB) constructs an InterfaceUsbImpl,
\* whose constructor walks the USB busses for the reader.
Search ==
    /\ hostPc = "SEARCH"
    /\ SearchDevice \/ NextBus
    /\ UNCHANGED <<firmwareVars, run, argv, options, hostPc, transferId, call, sizes, loaded, readBuf, preempted>>

\* The walk is over.  Without a handle the constructor sends nothing, and
\* main's getVersion throws NotConnectedException (checkConnection).
SearchEnd ==
    /\ hostPc = "SEARCH"
    /\ SearchDone
    /\ hostPc' = IF handle = "NONE" THEN "FAILED" ELSE "OPEN"
    /\ UNCHANGED <<firmwareVars, searchVars, run, argv, options, transferId, call, sizes, loaded, readBuf, preempted>>

\* The constructor: PROTO_CMD_GET_VERSION and PROTO_CMD_GET_BUFFER_SIZE,
\* then main.cpp's getVersion (checkConnection) and its options.
Open ==
    /\ hostPc = "OPEN"
    /\ LET v == F!VersionReply
           s == F!BufferSizeReply
       IN  IF RxFails(v, 2, TRUE) \/ RxFails(s, 6, TRUE) \/ ~isSupported(v[2], v[3])
           THEN hostPc' = "FAILED" /\ UNCHANGED sizes
           ELSE /\ sizes' = [sampleVectorSize |-> 256 * s[4] + s[5],
                             pulseVectorSize |-> 256 * s[6] + s[7]]
                /\ hostPc' = CASE Operation(options) = "reset" -> "RESET"
                               [] Operation(options) = "usage" -> "DONE"
                               [] Operation(options) = "read" -> "RX_START"
                               [] Operation(options) = "write" -> "TX_VECTORS"
    /\ UNCHANGED <<firmwareVars, searchVars, run, argv, options, transferId, call, loaded, readBuf, preempted>>

\* InterfaceUsbImpl::reset: PROTO_CMD_RESET, then main.cpp returns.
Reset ==
    /\ hostPc = "RESET"
    /\ F!SetupReset
    /\ hostPc' = IF RxFails(F!ResetReply, 0, TRUE) THEN "FAILED" ELSE "DONE"
    /\ UNCHANGED <<ctxVars, ioBufferOffset, opVars, bufVars, hwVars, coil>>
    /\ UNCHANGED <<searchVars, run, argv, options, transferId, call, sizes, loaded, readBuf, preempted>>

\* getSamples: TRANSFER_START for a capture started on a falling edge.
RxStart ==
    /\ hostPc = "RX_START"
    /\ F!TransferStart(RxFlags, EdgeWait)
    /\ transferId' = F!StartReply[2]
    /\ preempted' = fwState
    /\ hostPc' = IF RxFails(F!StartReply, 1, TRUE) THEN "FAILED" ELSE "RX_SLEEP"
    /\ UNCHANGED <<usbVars, opVars, bufVars, hwVars, coil>>
    /\ UNCHANGED <<searchVars, run, argv, options, call, sizes, loaded, readBuf>>

\* putSamples: PROTO_CMD_SAMPLE_VECTOR_WRITE with the pulse lengths.
PutVector ==
    /\ hostPc = "TX_VECTORS"
    /\ \E v \in PulseVectors :
          /\ Len(v) = sizes.pulseVectorSize
          /\ F!VectorWrite("SAMPLE_VECTOR_WRITE", v)
          /\ loaded' = [loaded EXCEPT !.vector = v]
    /\ hostPc' = "TX_BUFFER"
    /\ UNCHANGED <<ctxVars, opVars, hwVars, coil>>
    /\ UNCHANGED <<searchVars, run, argv, options, transferId, call, sizes, readBuf, preempted>>

\* putSamples: PROTO_CMD_PULSE_VECTOR_WRITE with the nibbles.
PutBuffer ==
    /\ hostPc = "TX_BUFFER"
    /\ \E b \in SampleBuffers :
          /\ Len(b) = sizes.sampleVectorSize
          /\ F!VectorWrite("PULSE_VECTOR_WRITE", b)
          /\ loaded' = [loaded EXCEPT !.buffer = b]
    /\ hostPc' = "TX_START"
    /\ UNCHANGED <<ctxVars, opVars, hwVars, coil>>
    /\ UNCHANGED <<searchVars, run, argv, options, transferId, call, sizes, readBuf, preempted>>

\* putSamples: TRANSFER_START for a transmission started on a falling
\* edge.
TxStart ==
    /\ hostPc = "TX_START"
    /\ F!TransferStart(TxFlags, EdgeWait)
    /\ transferId' = F!StartReply[2]
    /\ preempted' = fwState
    /\ hostPc' = IF RxFails(F!StartReply, 1, TRUE) THEN "FAILED" ELSE "TX_SLEEP"
    /\ UNCHANGED <<usbVars, opVars, bufVars, hwVars, coil>>
    /\ UNCHANGED <<searchVars, run, argv, options, call, sizes, loaded, readBuf>>

\* After the 500 ms sleep, TRANSFER_STATUS; status OK goes on with the
\* read of the samples, the next putSamples call, or the end of main.cpp.
StatusOk ==
    /\ hostPc \in Sleeping
    /\ fwState # "STARTING"
    /\ ~RxFails(F!StatusReply(transferId), 3, TRUE)
    /\ F!StatusReply(transferId)[2] = "OK"
    /\ hostPc' = IF hostPc = "RX_SLEEP" THEN "RX_READ"
                 ELSE IF call < WriteCalls THEN "TX_VECTORS" ELSE "DONE"
    /\ call' = IF hostPc = "TX_SLEEP" /\ call < WriteCalls THEN call + 1 ELSE call
    /\ UNCHANGED <<firmwareVars, searchVars, run, argv, options, transferId, sizes, loaded, readBuf, preempted>>

\* A reply that fails checkResponse throws InvalidResponseException, any
\* status but OK InvalidStateException: main.cpp reports it and returns.
StatusFailed ==
    /\ hostPc \in Sleeping
    /\ fwState # "STARTING"
    /\ \/ RxFails(F!StatusReply(transferId), 3, TRUE)
       \/ F!StatusReply(transferId)[2] # "OK"
    /\ hostPc' = "FAILED"
    /\ UNCHANGED <<firmwareVars, searchVars, run, argv, options, transferId, call, sizes, loaded, readBuf, preempted>>

\* getSamples: PROTO_CMD_PULSE_VECTOR_READ of the whole buffer, without
\* a return code; then main.cpp decodes the samples and returns.
ReadSamples ==
    /\ hostPc = "RX_READ"
    /\ F!VectorRead("PULSE_VECTOR_READ", sizes.sampleVectorSize)
    /\ readBuf' = F!ReadReply("PULSE_VECTOR_READ")
    /\ hostPc' = IF RxFails(readBuf', sizes.sampleVectorSize, FALSE) THEN "FAILED" ELSE "DONE"
    /\ UNCHANGED <<ctxVars, opVars, bufVars, hwVars, coil>>
    /\ UNCHANGED <<searchVars, run, argv, options, transferId, call, sizes, loaded, preempted>>

\* The user runs the tool again, with any arguments.
Rerun ==
    /\ hostPc \in {"DONE", "FAILED"}
    /\ run < Runs
    /\ command # "RESET"
    /\ run' = run + 1
    /\ argv' \in Argvs
    /\ options' = ParseOptions(argv')
    /\ hostPc' = IF Rejected(options') THEN "FAILED" ELSE "SEARCH"
    /\ busses' \in BusLayouts /\ bus' = 1 /\ dev' = 1 /\ handle' = "NONE"
    /\ call' = 1
    /\ UNCHANGED <<firmwareVars, transferId, sizes, loaded, readBuf, preempted>>

HostStep == Search \/ SearchEnd \/ Open \/ Reset \/ RxStart \/ PutVector \/ PutBuffer \/ TxStart
            \/ StatusOk \/ StatusFailed \/ ReadSamples

\* The firmware's steps.  The edge wait of the transfer the host sleeps on
\* does not time out before the host asks for its status.  Between a
\* TRANSFER_START and the main loop's arming (at most 5 ms) the ADC
\* interrupt of an earlier transfer stores at most about 80 samples of
\* 64 us: it can reach opLength there only if that transfer was already
\* storing (STATE_RX, near the end of its capture), never from an edge
\* wait, which would need the whole buffer (1536 samples of 32 us).  The
\* model's buffer is a byte, so any capture that was storing may finish.
FirmwareStep ==
    \/ F!AdcWait /\ (timedOut' => ~(hostPc \in Sleeping /\ transferId = id))
                /\ UNCHANGED hostVars
    \/ F!MainReset /\ UNCHANGED hostVars
    \/ F!MainStarting /\ UNCHANGED hostVars
    \/ F!MainFinished /\ UNCHANGED hostVars
    \/ F!AdcSample /\ (fwState = "STARTING" => preempted = "RX")
                  /\ UNCHANGED hostVars
    \/ F!TxEnd /\ UNCHANGED hostVars
    \/ F!TxMarker /\ UNCHANGED hostVars
    \/ F!TxPulse /\ UNCHANGED hostVars

\* One run of the tool against the reader.
Next == HostStep \/ FirmwareStep

\* The interrupts fire while they are enabled and the main loop spins; the
\* host's requests are answered and its sleep ends.
Spec == Init /\ [][Next]_vars /\ WF_vars(FirmwareStep) /\ WF_vars(HostStep)

\* Runs of the tool one after another: the user may start the tool again
\* while the reader is still busy with the previous run's transfer.
RerunNext == Next \/ Rerun
RerunSpec == Init /\ [][RerunNext]_vars

-----------------------------------------------------------------------------
SessionTypeOK ==
    /\ F!FirmwareTypeOK
    /\ run \in 1 .. Runs
    /\ options \in [showHelp : BOOLEAN, resetIface : BOOLEAN, read : BOOLEAN,
                    write : BOOLEAN, customerId : 0 .. 255, token : [1 .. 4 -> 0 .. 255],
                    modulation : Modulations, bitrate : Bitrates]
    /\ hostPc \in HostPcs
    /\ bus \in 1 .. Len(busses) + 1 /\ handle \in {"NONE", "READER"}
    /\ transferId \in F!Byte
    /\ call \in 1 .. WriteCalls
    /\ loaded.vector \in PulseVectors \cup {<<>>}
    /\ loaded.buffer \in SampleBuffers \cup {<<>>}

\* The pulses a buffer the host wrote stands for: its nibbles, low nibble
\* of a byte first, up to the first end marker, each a pulse of the
\* vector's length (vector index from 0) and the nibble's level.
Nibbles(buf) == [n \in 1 .. 2 * Len(buf) |->
                    IF n % 2 = 1 THEN buf[(n + 1) \div 2] % 16 ELSE buf[n \div 2] \div 16]
RECURSIVE Playback(_, _, _)
Playback(ns, vec, n) ==
    IF n > Len(ns) \/ ns[n] % 8 = 7 THEN <<>>
    ELSE <<[cycles |-> vec[(ns[n] % 8) + 1], high |-> ns[n] >= 8]>> \o Playback(ns, vec, n + 1)

\* The interrupts never index outside their buffers: while the ADC
\* interrupt may store a sample, the sample's bit lies inside ioBuffer;
\* while the TIMER0 interrupt may play a nibble, the nibble lies inside
\* ioBuffer.  opLength bounds both only if the transfer that sized it is
\* the one the enabled interrupt serves.
IsrInBounds ==
    /\ (F!AdcFires /\ fwState # "WAIT_CONDITION") => opOffset < SAMPLE_BUFFER_SIZE * 8
    /\ (F!TimerFires /\ opOffset # opLength) => opOffset < SAMPLE_BUFFER_SIZE * 2

\* The ISR's comment ("return if last sample was unknown"): the first
\* ADC sample of a transfer only primes the edge detector, so the
\* transmission starts only on a falling edge from a known high level
\* (1, a sample below ADC_LO).
TxStartsOnEdge ==
    [][fwState = "WAIT_CONDITION" /\ fwState' = "TX" => adcLastSignal = 1]_vars

\* When TRANSFER_STATUS answers OK to the host, the transfer the host
\* started did its work: a capture counted every sample of the buffer,
\* a transmission put on the coil exactly the
\* pulses of the vector and buffer the host wrote.
StatusOkMeansDone ==
    [][StatusOk =>
         IF hostPc = "RX_SLEEP"
         THEN opLength = 8 * SAMPLE_BUFFER_SIZE /\ opOffset = opLength
         ELSE coil = Playback(Nibbles(loaded.buffer), loaded.vector, 1)]_vars

\* Every transfer the main loop arms is finished and the firmware goes
\* idle again: by the edge, the buffer end, a marker or the timeout.
TransferEnds == fwState = "STARTING" ~> fwState = "IDLE"

\* What the arguments ask of the reader, read off the argument list as a
\* whole: nothing with -h or an option getopt_long does not know, nor for
\* -p without a recognised -m and -b among the arguments; otherwise a
\* reset with -R, else a capture with -r, else a write with -p.
Asked(args) ==
    LET given == {args[i].opt : i \in DOMAIN args}
        has(c, vals) == \E i \in DOMAIN args : args[i].opt = c /\ args[i].arg \in vals
        valid == /\ "h" \notin given
                 /\ given \subseteq OptionChars
                 /\ "p" \in given => has("m", {"manchester"}) /\ has("b", {"16", "32", "64"})
    IN  CASE ~valid -> "nothing"
          [] "R" \in given -> "reset"
          [] "r" \in given -> "read"
          [] "p" \in given -> "write"
          [] OTHER -> "nothing"

\* main.cpp (its getopt_long loop, the checks before the reader is opened
\* and the choice after getVersion) makes the reader do only what the
\* arguments ask: the reset command only for a reset, vector writes only
\* for a write, and a transfer only for a read or a write, in the
\* direction asked.
ReaderDoesAsAsked ==
    /\ command = "RESET" => Asked(argv) = "reset"
    /\ command \in {"SAMPLE_VECTOR_WRITE", "PULSE_VECTOR_WRITE"} => Asked(argv) = "write"
    /\ id # 0 => Asked(argv) = IF tx THEN "write" ELSE "read"

\* The reader's side of each operation: the reset command, a capture or a
\* transmission started.
Done(op) ==
    CASE op = "reset" -> command = "RESET"
      [] op = "read" -> id # 0 /\ ~tx
      [] op = "write" -> id # 0 /\ tx
      [] OTHER -> TRUE

\* Conversely, whatever the arguments ask is eventually begun on the
\* reader, unless the device search finds no reader: main.cpp refuses no
\* argument list that names a reset, a read, or a write with its
\* modulation and bitrate.
AskedIsDone == <>(Done(Asked(argv)) \/ (SearchDone /\ handle = "NONE"))

\* The constructor of InterfaceUsbImpl returns: its walk over the USB
\* busses ends, with the reader's handle or without one.
ConstructorReturns == <>(hostPc # "SEARCH")
=============================================================================
