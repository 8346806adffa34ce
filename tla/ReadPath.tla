------------------------------ MODULE ReadPath ------------------------------
(***************************************************************************)
(* The read path of main.cpp: one capture of the reader's sampler turned  *)
(* into Samples by InterfaceUsbImpl::getSamples, and checkPulses of a      *)
(* CarrierDecoder whose listener chain is ManchesterDecoder and then       *)
(* Em4100Decoder.  Notifier::notify calls the listeners synchronously, so  *)
(* one step is one Sample through the whole chain.                         *)
(*                                                                         *)
(* The tag holds the image Em4100Eprom::generate made for one customer ID  *)
(* and token and sends its 64 bits over and over, Manchester coded at the *)
(* data rate it was written with (RF/16, RF/32 or RF/64 carrier periods   *)
(* per bit); a 1 is a high half bit then a low one as the Samples show    *)
(* them.  The firmware samples the demodulated signal every                *)
(* CARRIER_US * prescaler = 64 us, starting on the edge getSamples asks   *)
(* for, and stores SAMPLE_BUFFER_SIZE * 8 samples.                         *)
(*                                                                         *)
(* getSamples turns the stored samples into runs: a run is pushed when the *)
(* next sample differs, so the run the buffer ends in is never pushed, and *)
(* the first run is one sample short (currentStateLength starts at 0).     *)
(***************************************************************************)
EXTENDS Naturals, Sequences, Em4100Eprom, Interface

CONSTANTS
    CustomerIds,   \* customer IDs the tag may hold
    Tokens,        \* tokens the tag may hold
    DataRates      \* carrier periods per bit the tag may send at

ASSUME CustomerIds \subseteq 0 .. 255 /\ Tokens \subseteq Word32
ASSUME DataRates \subseteq {16, 32, 64}

VARIABLES
    carrierDivider, errorCount, pulseCount, hasSync, loCount, hiCount,
    range, event,
    ffOut, timerRunning, bitOut,
    state, bitCount, nibble, nibbleLen, nibbleCount, data, emitted

C == INSTANCE CarrierDecoder
M == INSTANCE ManchesterDecoder
E == INSTANCE Em4100Decoder

VARIABLES
    programmed,   \* the token the tag holds
    eprom,        \* the image it sends, bit offset -> bit
    rate,         \* its data rate
    half,         \* the half bit its next run of equal levels starts at
    used,         \* samples of that run already gone by
    stored,       \* samples stored in the buffer so far
    first,        \* no run has been pushed yet
    done,         \* the buffer is full and checkPulses has returned
    read          \* tokens the Em4100Decoder notified so far

tagVars == <<programmed, eprom, rate, half, used, stored, first, done, read>>
chainVars == <<carrierDivider, errorCount, pulseCount, hasSync, loCount,
               hiCount, range, event, ffOut, timerRunning, bitOut, state,
               bitCount, nibble, nibbleLen, nibbleCount, data, emitted>>
vars == <<chainVars, tagVars>>

prescaler == 8             \* the sampler prescaler getSamples asks for
SAMPLE_BUFFER_SIZE == 192  \* bytes of the firmware's sample buffer
SampleUs == CARRIER_US * prescaler
CaptureSamples == SAMPLE_BUFFER_SIZE * 8

\* The half bits of the image and their levels (TRUE: high).
Halves == 0 .. 127
HalfLevel(h) == LET b == eprom[(h % 128) \div 2] = 1
                IN  IF h % 2 = 0 THEN b ELSE ~b

\* A run of equal halves starting at h: Manchester runs are one or two
\* halves long.
RunHalves(h) == IF HalfLevel(h + 1) = HalfLevel(h) THEN 2 ELSE 1
RunSamples(h) == (RunHalves(h) * ((rate * CARRIER_US) \div 2)) \div SampleUs

Init ==
    /\ C!Init /\ M!Init /\ E!Init
    /\ \E c \in CustomerIds, t \in Tokens :
          /\ programmed = [versionOrCustomerId |-> c, data |-> t]
          /\ eprom = generate([k \in EpromBits |-> 2], c, t)
    /\ rate \in DataRates
    \* FLAG_START_ON_EDGE | FLAG_FALLING_EDGE: the sampler starts on the
    \* first ADC sample that reads 0 (a high Sample level) after a non-zero
    \* one, and the unknown level -1 counts as non-zero (Firmware's
    \* oldSignal): so at a low to high edge, or at any sample of a high run
    \* the transfer starts in.  The trigger sample is not stored.
    /\ half \in {h \in Halves : HalfLevel(h) /\ ~HalfLevel((h + 127) % 128)}
    /\ used \in 1 .. RunSamples(half)
    /\ stored = 0
    /\ first = TRUE
    /\ done = FALSE
    /\ read = <<>>

\* The Em4100Decoder hears the bit the Manchester decoder notified, if any.
Em4100Hears ==
    IF bitOut' = <<>>
    THEN /\ emitted' = <<>>
         /\ UNCHANGED <<state, bitCount, nibble, nibbleLen, nibbleCount, data>>
    ELSE E!OnNewBit(bitOut'[1])

\* The listeners of the CarrierDecoder hear the event it notified, if any.
ListenersHear ==
    /\ CASE event'.type = "NEW_PULSE" -> M!OnPulse(event'.isHigh, event'.isLong)
         [] event'.type = "SYNC_CHANGED" -> M!OnSyncChanged
         [] OTHER -> bitOut' = <<>> /\ UNCHANGED <<ffOut, timerRunning>>
    /\ Em4100Hears
    /\ read' = read \o emitted'

\* The tag's next run is the next Sample: its stored length, one sample
\* short if it is the first, and its level (Sample's isHigh, so isLow is
\* its negation).  The chain handles it in one checkPulses iteration.
PushRun ==
    /\ ~done
    /\ LET len == RunSamples(half) - used
       IN  /\ len > 0
           /\ stored + len < CaptureSamples
           /\ C!CheckSample(C!Sample((len - (IF first THEN 1 ELSE 0)) * SampleUs,
                                      ~HalfLevel(half)))
           /\ stored' = stored + len
    /\ ListenersHear
    /\ half' = (half + RunHalves(half)) % 128
    /\ used' = 0
    /\ first' = FALSE
    /\ UNCHANGED <<programmed, eprom, rate, done>>

\* The edge sample was the whole run: the buffer starts with the next run.
SkipRun ==
    /\ ~done
    /\ RunSamples(half) - used = 0
    /\ half' = (half + RunHalves(half)) % 128
    /\ used' = 0
    /\ UNCHANGED chainVars
    /\ UNCHANGED <<programmed, eprom, rate, stored, first, done, read>>

\* The buffer fills up inside this run (or right at its end, with no
\* sample after it): the run is never pushed and checkPulses returns.
CaptureEnd ==
    /\ ~done
    /\ LET len == RunSamples(half) - used
       IN  /\ len > 0
           /\ stored + len >= CaptureSamples
    /\ done' = TRUE
    /\ event' = C!NoEvent /\ bitOut' = <<>> /\ emitted' = <<>>
    /\ UNCHANGED <<carrierDivider, errorCount, pulseCount, hasSync, loCount,
                   hiCount, range, ffOut, timerRunning, state, bitCount,
                   nibble, nibbleLen, nibbleCount, data>>
    /\ UNCHANGED <<programmed, eprom, rate, half, used, stored, first, read>>

Next == PushRun \/ SkipRun \/ CaptureEnd

\* getSamples returns a finite vector: the read path stops when the buffer
\* has been decoded.
Spec == Init /\ [][Next]_vars

TypeOK ==
    /\ C!CarrierTypeOK /\ M!ManchesterTypeOK /\ E!TypeOK
    /\ programmed \in E!Token
    /\ rate \in DataRates
    /\ half \in Halves
    /\ used \in 0 .. 8
    /\ stored \in 0 .. CaptureSamples
    /\ first \in BOOLEAN /\ done \in BOOLEAN
    /\ read \in Seq(E!Token)

-----------------------------------------------------------------------------
\* Whatever the data rate and the instant the capture starts, every token
\* the chain reports is the one the tag holds.
NoMisread == \A i \in DOMAIN read : read[i] = programmed

\* The spec's round trip (section 8): the pulses of a tag holding the image
\* of generate(customerId, token) decode through the carrier, Manchester
\* and EM4100 decoders to that token, within the one buffer a read
\* captures.
TokenReadInCapture == done => read # <<>>

\* The round trip within one capture for a tag at RF/16, the divider the
\* carrier decoder starts with: whatever sample the capture starts at,
\* the token is read before the buffer ends.
TokenReadInCaptureAtRF16 == rate = 16 => TokenReadInCapture
=============================================================================
