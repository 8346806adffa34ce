---------------------------- MODULE InterfaceUsb ----------------------------
(***************************************************************************)
(* The host side of InterfaceUsbImpl::putSamples (impl/InterfaceUsbImpl.cpp)*)
(* as operators: the buffers it builds from a vector of Samples before it  *)
(* writes them to the reader.                                              *)
(*                                                                         *)
(* The distinct pulse lengths, in carrier periods, go to the reader's      *)
(* pulse vector (PROTO_CMD_SAMPLE_VECTOR_WRITE) in ascending order; every  *)
(* Sample becomes one nibble of the sample buffer                          *)
(* (PROTO_CMD_PULSE_VECTOR_WRITE): bit 3 is set for a high Sample, bits    *)
(* 0 .. 2 are the index of its length in the pulse vector.  The buffer is  *)
(* first filled with 0xff, so its unused nibbles are 15.                   *)
(***************************************************************************)
EXTENDS Naturals, Sequences, FiniteSets, DataUtils, Interface

\* The reader's sizes, as GET_BUFFER_SIZE reports them to the constructor
\* (firmware PULSE_VECTOR_SIZE and SAMPLE_BUFFER_SIZE).
pulseVectorSize == 7
sampleVectorSize == 192

\* std::set<int> pulses: the lengths of the Samples in carrier periods.
pulses(samples) == {samples[i].lengthUs \div CARRIER_US : i \in DOMAIN samples}

\* putSamples throws TooManyPulsesException when they do not fit.
TooManyPulses(samples) == Cardinality(pulses(samples)) > pulseVectorSize

\* std::distance(pulses.begin(), pulses.find(p)): the number of smaller
\* pulses in the ordered set.
pulseIndex(set, p) == Cardinality({q \in set : q < p})

\* The pulse vector buffer: memset to 0, then the set in ascending order,
\* each length stored in a uint8_t.
PulseVectorBuffer(samples) ==
    LET set == pulses(samples)
    IN  [j \in 0 .. pulseVectorSize - 1 |->
            IF j < Cardinality(set)
            THEN (CHOOSE p \in set : pulseIndex(set, p) = j) % 256
            ELSE 0]

\* The nibble of one Sample.
sampleValue(set, sample) ==
    Or8(IF sample.isLow THEN 0 ELSE 8,
        pulseIndex(set, sample.lengthUs \div CARRIER_US))

\* The sample buffer: memset to 0xff; Sample number n (from 0) is stored
\* whole into byte n >> 1 when n is even, which clears its high nibble,
\* and or-ed into that high nibble when n is odd.  So byte j holds Samples
\* 2j and 2j + 1, Sample 2j and a zero nibble when 2j is the last one,
\* and 0xff past the last Sample.
SampleBuffer(samples) ==
    LET set == pulses(samples)
        value(n) == sampleValue(set, samples[n + 1])
    IN  [j \in 0 .. sampleVectorSize - 1 |->
            IF 2 * j + 1 < Len(samples)
            THEN Or8(value(2 * j), (value(2 * j + 1) * 16) % 256)
            ELSE IF 2 * j < Len(samples) THEN value(2 * j)
            ELSE 255]
=============================================================================
