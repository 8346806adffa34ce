# TLA+ models of rfid-tool

This directory holds TLA+ models of rfid-tool and of the firmware of its
reader. The models are written from the sources under `src/` and checked with
TLC. Every module names the code it translates; `PROJECT.json` maps each
definition to its lines.

## The system

rfid-tool reads EM4100 tags and writes T5557 tags through a USB reader built
around an AVR.

- **Read** (`main.cpp` 227-236)
  - `InterfaceUsbImpl::getSamples` asks the firmware for one capture: 1536 ADC
    samples of the demodulated signal, 64 us apart, started on a falling edge.
    It turns the capture into run-length `Sample`s.
  - `CarrierDecoder::checkPulses` finds the tag's data rate (divider 16, 32 or
    64) and classifies pulses as short or long.
  - The `ManchesterDecoder` (or `BiphaseDecoder`) turns pulses into bits.
  - The `Em4100Decoder` finds the 9-one preamble, checks row parity, the stop
    bit and column parity, and notifies the token.
  - Each stage notifies the next one synchronously (`Notifier::notify`).
- **Write** (`main.cpp` 238-280)
  - `T5557Encoder::encodeParameters` encodes the configuration block (block 0).
    `Em4100Eprom::generate` builds the 64-bit EM4100 image, and `encodeBlock`
    encodes its two words as blocks 1 and 2.
  - Each block goes to `InterfaceUsbImpl::putSamples`, which:
    1. packs the pulse lengths and one nibble per Sample into the reader's
       buffers;
    2. starts a TX transfer;
    3. sleeps 500 ms;
    4. asks for the transfer's status and fails on anything but OK.
  - The firmware (`firmware/src/main.c`) then works in three places:
    - its main loop arms the transfer;
    - the ADC interrupt waits for a falling edge of the coil signal, counting
      down a timeout;
    - the TIMER0 compare interrupt plays the nibbles on the coil.
- **The command line** (`main.cpp` 37-203)
  - `getopt_long` fills the static `ExecutionOptions` in argument order.
  - A help request, an unknown option, or a write without a known modulation
    and bitrate ends the run before the reader is opened.
  - After the reader's version has been read: a reset, or the usage when
    there is neither a read nor a write, or a read (which wins over a
    write), or a write.
- **The device search** (`InterfaceFactory.cpp`, `InterfaceUsbImpl.cpp` 199-255)
  - The constructor walks libusb's busses and devices for the reader's ids.
  - It opens each match and keeps it when the product string is `rfid-tool`.
- **The USB conversation** (`InterfaceUsbImpl.cpp`, `main.c` 346-518)
  - The host opens the reader with GET_VERSION and GET_BUFFER_SIZE, and checks
    every reply with `checkResponse` (length, return code).
  - A transfer is TRANSFER_START, a 500 ms sleep, then TRANSFER_STATUS; a read
    follows it with PULSE_VECTOR_READ.
  - The firmware answers each request inside `usbFunctionSetup`; a reset and
    a transfer's arming wait for its main loop. Its interrupts run on whatever
    the main loop and the last transfer left enabled.
  - Each run of rfid-tool is a new process. Nothing stops the transfer that
    the previous run left behind.

## Modules

| Module | Models | State and actions |
|---|---|---|
| `DataUtils` | `DataUtils.hpp` bit helpers | operators: `putBit`, `putBitsMsb`, `parityNibble`, `reverseNibble` |
| `Interface` | `Interface::CARRIER_US` | the 8 us carrier period, from the specification: its definition is not among the sources |
| `CarrierDecoder` | `CarrierDecoder.cpp` | the decoder's fields as variables, `Init` = `reset()`. One loop pass of `checkPulses` is `CheckSample(s)`, made of `NextCarrier`, `Unsynced`, `SyncedPulse` and `SyncedBadPulse`. The notified event is the variable `event`. |
| `ManchesterDecoder`, `BiphaseDecoder` | `impl/*Decoder.cpp` | the flip-flop, the timer and the `_lastShort` flag. `OnPulse` is split into one action per branch of `onEvent`; `OnSyncChanged` is `reset()`. |
| `Em4100Decoder` | `Em4100Decoder.cpp` | `state`, `bitCount`, `nibble`, `nibbleLen`, `nibbleCount`, `data` and the notified tokens. `OnNewBit` is split into `Preamble`, `DataBit`, `ParityFailed`, `NibbleAccepted` and `FrameEnd`. |
| `Em4100Eprom` | `Em4100Eprom.cpp` | `generate` as an operator over a bit-offset function |
| `Em4100Frame` | specification 4.3/4.4 | the reference EM4100 frame, written from the specification and used only by properties |
| `T5557Encoder` | `T5557Encoder.cpp/.hpp` | `TransferData`, `encodeBlock`, `encodeParameters`, `Parameters()` |
| `InterfaceUsb` | `InterfaceUsbImpl.cpp` 379-426 | the pulse vector and sample buffer that `putSamples` builds |
| `Firmware` | `firmware/src/main.c` | the transfer context, the pending `command` and `ioBufferOffset`, `opOffset`/`opLength`, `adcLastSignal`, both buffers, the interrupt-enable state (`interrupts`, `adcIrq`, `prescalerOn`, `timerIrq`) and `coil` (the pulses played). Each request is an operator a host action uses (`SetupReset`, `TransferStart`, `VectorWrite`, `VectorRead`, with their replies). There is one action per main-loop case (`MainReset`, `MainStarting`, `MainFinished`) and per interrupt branch (`AdcWait`, `AdcSample`, `TxEnd`, `TxMarker`, `TxPulse`). An interrupt fires when its enable bits are set, not by `_commonCtx.state`. |
| `CommandLine` | `main.cpp` 37-203, 217-227 | operators: `ParseOption` (one pass of the `getopt_long` switch), `ParseOptions` (a `FoldLeft` over the arguments), `Rejected` (the checks before the reader is opened), `Operation` (the choice after `getVersion`). `strtol`'s long is converted to `uint8_t` and `uint32_t` modulo 2^w. |
| `UsbDeviceSearch` | `InterfaceUsbImpl.cpp` 26-28, 53-104, 199-255 | `busses`, `bus`, `dev`, `handle`. `SearchDevice` is one pass of the inner loop's body, including the `continue` when `usb_open` fails. `NextBus` is the outer loop's step. |
| `UsbSession` | `InterfaceFactory.cpp`, `InterfaceUsbImpl.cpp`, `main.cpp` 120-283, with `Firmware`, `CommandLine`, `UsbDeviceSearch` | `argv` is drawn from a set of argument lists, and `options = ParseOptions(argv)`. A rejected list ends at once. `Search`/`SearchEnd` run the device walk. Then one host action per request sequence of a run of rfid-tool: `Open` (constructor), `Reset`, `RxStart`, `PutVector`, `PutBuffer`, `TxStart`, `StatusOk`/`StatusFailed`, `ReadSamples`. `RxFails` is `checkResponse` over `doTransferRx`. `Rerun` starts the tool again, in `RerunSpec` only. |
| `Em4100Link` | the decoder fed by a tag | a programmed tag repeats its 64 bits; the reader may start at any bit, and up to `MaxFlips` bits arrive inverted |
| `ReadPath` | the whole read | Carrier, Manchester and Em4100 decoders composed by `INSTANCE`. The tag's signal is sampled as `getSamples` sees it, and one run of equal samples is one step through the chain. |
| `WritePath` | the whole write | the host's three `putSamples` calls (`PutSamples`, `StatusOk`, `StatusFailed`) against `Firmware` (`INSTANCE`). In `PutSamples`, a train with more pulse lengths than the pulse vector holds throws `TooManyPulsesException` and the write fails. The number of Samples is not checked, as in the code. The T5557 tag is the receiver: it programs a block when a transmission ends, if the pulses are in the protocol's ranges. |

The `MC*` modules give the constants for TLC and add the history variables
that some properties need (`badRun` and `badSinceRotation` of
`MCCarrierDecoder`, and the `m*`/`b*` variables of
`MCCodingDecoders`).

## Runs

| Run | Checks | Result |
|---|---|---|
| `em4100_eprom` | `EpromIsFrame`: for 144 customer ID/token pairs, `generate` writes every bit of the specification's frame. The array starts undefined, as in `main.cpp`. | pass |
| `em4100_link` | `NoMisread`, `TokenOnlyFromValidFrame` (a token is notified only when the last 64 bits are exactly its frame), `TokenEventuallyRead`. Bounds: 2 customer IDs, 3 tokens, any start bit, one inverted bit. | pass |
| `carrier` | `RotationOnlyOnSustainedError` (the specification's rule: every divider rotation comes after at least 10 out-of-window samples since the previous rotation, across sync changes and 50-sample window resets) and `BadRunBounded` (at most 19 consecutive bad samples at one divider, against the specification's 10: finding 1), for sample lengths 0..640 us | pass |
| `coding` | after the first long pulse since a reset, Manchester and Biphase notify exactly the tag's bits | pass |
| `read_path` | `NoMisread`: at every rate, no other token is ever reported. `TokenReadInCaptureAtRF16`: at RF/16, any capture start yields the programmed token. | pass |
| `usb_session` | one run of rfid-tool against a freshly started reader, for 9 argument lists and 2 bus layouts. `ReaderDoesAsAsked`: the reader is reset, read or written only as a declarative reading of the arguments (`Asked`) says. `AskedIsDone`: the run eventually does what was asked, unless no reader was found. `IsrInBounds`: an enabled interrupt never indexes past `ioBuffer`. `StatusOkMeansDone`: when the status the host reads is OK, a capture counted every sample of the buffer and a transmission played exactly the pulses of the vector and buffer the host wrote (all nibble patterns of a 1-byte buffer, markers included). `TransferEnds`: every armed transfer ends with the firmware idle. | pass |
| `usb_device_hang` | `ConstructorReturns`: the device search ends, on a bus with a device that has the reader's ids but cannot be opened | **violated** (finding 7) |
| `usb_session_edge` | `TxStartsOnEdge`: TX starts only after a known high level | **violated** (finding 3) |
| `usb_rerun` | `StatusOkMeansDone` when the tool is run twice in a row | **violated** (finding 6) |
| `write_path` | `TagHoldsImage`: when the write succeeds, the tag holds the specified configuration and the image. `WriteEnds`: every write ends with the host done or failed and the firmware idle. Covers all three data rates. | pass |
| `write_path_coil` | the coil plays exactly the Samples given to `putSamples` | **violated** (finding) |
| `write_path_failed_call` | a block reported as failed is not written | **violated** (finding) |

Every property of a passing run has a mutant in `PROJECT.json`: a plausible
bug in a mapped definition under which TLC finds the property violated.

## Findings

1. **Ten bad pulses.** The error check happens at the top of the next sample,
   and the window reset at the 50th sample clears `errorCount`. So up to 19
   bad samples can pass at one divider (`CarrierDecoder.cpp` 73-84).
   `BadRunBounded` holds with 19; with the specification's 10 as the bound,
   TLC finds an eleventh bad sample.
2. **One capture is too short at slow rates.** At RF/64 the decoder rotates
   16→32→64 and synchronises after about 530 of the 1536 samples. It then
   waits for a preamble, and the capture ends inside the frame. `main.cpp`
   reads only once.
3. **The "unknown level" check is dead.** The ADC interrupt does
   `uint8_t oldSignal = adcLastSignal;` with `adcLastSignal == -1`, so
   `oldSignal == -1` never holds. A first sample above `ADC_HI` counts as a
   falling edge (`main.c` 177).
4. **Extra pulse after the last write gap.** A T5557 train has 77 Samples. The
   78th nibble is 0, not the end marker 7, so the firmware plays one more low
   pulse of 19 periods. The final gap becomes 38 carrier periods. (The tag
   model in `WritePath`, `TagBits`, reads the two lows as two gaps of 19
   periods, each in the write-gap range 8..30. Whether a real T5557 takes a
   final gap of 38 periods is not modelled.)
5. **Failure reported for a written block.** The edge wait lasts about 680 ms
   (`60000 * 8` truncated to 16 bits is 21248 samples of 32 us), longer than
   the 500 ms sleep. `putSamples` can throw while the firmware goes on and
   writes the block. If this happens on the configuration call, the tag is
   left with `maxBlock = 2` over stale blocks.
6. **A second run is told OK for work never done.** `TRANSFER_START` is
   accepted in any state (`main.c` 451), and the interrupts of the transfer in
   progress stay on until the main loop arms the new one, up to 5 ms later.
   Suppose a run failed with IN_PROGRESS (finding 5, or a read whose tag gave
   no edge within 500 ms), its edge came later, and the tool runs again while
   that transmission or capture is in its last milliseconds. The old interrupt
   ends it inside the new `STATE_STARTING`: TIMER0's `_stopTx` at the end
   marker, or the ADC store branch, which only excludes `WAIT_CONDITION`
   (`main.c` 237). It sets `STATE_FINISHED` over `STATE_STARTING`, the main
   loop goes idle, and the new transfer's status is OK: a read got no capture
   of its own, or a write played nothing. TLC finds this in 24 steps: a write
   fails, its transmission starts, and the rerun's read is told OK.
   An edge wait still pending cannot do this, because it would have to store a
   whole buffer (1536 samples of 32 µs) in 5 ms. `UsbSession` records in
   `preempted` the state each `TRANSFER_START` found, and lets the ADC
   interrupt store in `STARTING` only after one that found `STATE_RX`. (The
   model's buffer is one byte, so any capture that was storing may finish.)
   With reruns, `IsrInBounds` also fails: a transmission still playing when a
   read is armed keeps the TIMER0 interrupt on with the read's length. That
   needs a buffer without an end marker to run past the buffer.
7. **The device search can hang.** When `usb_open` fails on a device with the
   reader's ids, the inner loop `continue`s without taking the next device
   (`InterfaceUsbImpl.cpp` 231). It opens the same device again forever, so
   the constructor never returns. TLC finds the stutter after one step.

`TokenReadInCapture` at RF/32 and RF/64 (finding 2) is no longer a run.
`MCReadPathSlowRates.cfg` reproduces it:
`tlc -config MCReadPathSlowRates.cfg MCReadPath`.

## Bounds and why they suffice

- **Tokens and customer IDs:** all zeros, all ones and a mixed pattern, with 0
  and 165. This covers runs of one and two halves, parity 0 and 1, and
  preamble-like data.
- **Data rates:** all three data rates that the `--bitrate` option allows.
- **Reads:** the full 1536-sample buffer (192 bytes) and every start sample of
  the first high run.
- **Host and firmware:** a 1-byte buffer (eight samples, two nibbles), which
  reaches both ending conditions of a transmission and the capture's end. It
  uses every nibble kind in both places, and the firmware's 7-entry pulse
  vector with two sets of lengths, one of them at the uint8_t limit 255. A
  write makes three `putSamples` calls, as `main.cpp` does. `usb_rerun` allows
  two runs of the tool.
- **Edge-wait timeout:** 1 or 2 samples instead of 21248, because the only
  thing that matters is whether it runs out before the host's status request.
  `WritePath` and `UsbSession` encode that ordering as a guard: the wait
  times out only after the host has left its sleep (680 ms or 1.92 s against
  500 ms). The status request may come at any point after the main loop armed
  the transfer (5 ms), since the edge may come at any time.
- **Arguments:** 9 lists. They cover:
  - reset alone and with a read;
  - `-v`, `-h` and an unknown option;
  - no arguments;
  - a write rejected for a missing modulation;
  - a write under an unknown modulation;
  - an accepted write whose later `-b 17` is ignored, with `-c 300` and
    `-t -1` wrapping to `uint8_t` and `uint32_t`.
- **Bus layouts:** two.
  - One has a device of another vendor, then one with the reader's ids and
    another product string, then the reader on the next bus.
  - The other has a reader whose `usb_get_string_simple` fails.
  - `usb_device_hang` has a reader-id device that cannot be opened.
- **Carrier counters:** up to 12, well below the uint8_t wrap (see the
  hazards).

## Fairness

- **`WritePath`:** weak fairness on the firmware's steps and on the host's
  steps.
  - The interrupts keep firing while they are enabled, and the main loop spins.
  - The host's sleep always ends.
  - Every ADC interrupt in the edge wait counts the timeout down or starts TX,
    so no firmware step is a stutter, and fairness does not force the tag to
    give an edge.
- **`UsbSession`:** the same, for the firmware's steps and the host's
  requests, the device walk included. Starting the tool again (`Rerun`) is not forced, and `Spec` leaves
  it out.
- **`Em4100Link`:** `[]<><<Next>>_vars`. The tag always has a next bit and the
  decoder handles every bit, so Next is always enabled, and this is weak
  fairness of Next.
- **Everything else:** safety only.

## Not modelled

- The libusb transport, `Log`, the exception classes' messages, the help text
  and `-v`: I/O and formatting.
- `usb_close` and the handles left open on devices that were not the reader:
  nothing reads them again, and the process ends.
- `usbGetStringAscii`'s descriptor fallback is modelled only by what it
  returns (an empty string).
- The firmware's coil enable and USB driver. The
  bootloader jump is a restart into `Init`.
  - `PROTO_CMD_COIL_ENABLE` answers no bytes, but `InterfaceUsbImpl::transfer`
    asks for one (its return code), so it would always throw.
  - Nothing in `main.cpp` calls `transfer`.
- The prescaler value and compare-on-start flag: timing only. `ReadPath`
  models the samples a capture stores from a tag's signal; `Firmware` stores
  any level.
- `InterfaceUsbImpl::putSamples` does not check the number of Samples against
  the sample buffer (384 places), although `TooManySamplesException` exists.
  `main.cpp`'s trains have at most 77 Samples, so no run can reach the
  overflow. It is listed as a hazard.
- The oscillator calibration (`main.c` 539-575, called at 596-602 when the
  main loop sees a USB bus reset) has no module. Its result depends on the
  chip's frame length for each `OSCCAL` value, which the sources do not give.
  Its two edges are listed as a hazard: the endless loop at `trialValue` 255,
  and setting 1 never being measured at 0.
- `DataUtils::parityByte`, which nothing calls.
- The `PARITY` and `REVERSED_NIBBLE` tables. Their `DataUtils.cpp` is not among
  the sources, so they are taken from the specification.
