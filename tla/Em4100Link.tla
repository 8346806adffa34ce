----------------------------- MODULE Em4100Link -----------------------------
(***************************************************************************)
(* A T5557 programmed by rfid-tool with the image of Em4100Eprom::generate *)
(* transmits its two data blocks over and over, and the bits reach the     *)
(* Em4100Decoder one onEvent call at a time.  The reader may start         *)
(* listening at any bit of the frame, and up to MaxFlips bits arrive       *)
(* inverted (noise on the air or a demodulation error).                    *)
(*                                                                         *)
(* The tag is the environment of the decoder: it is not code of this       *)
(* repository.  The order of the bits on the air is the order in which     *)
(* T5557Encoder::encodeBlock writes them: bit offset 0 of the image first. *)
(***************************************************************************)
EXTENDS Naturals, Sequences, Em4100Eprom, Em4100Frame

CONSTANTS
    CustomerIds,  \* customer IDs the tag may be programmed with
    Tokens,       \* 32-bit tokens the tag may be programmed with
    MaxFlips      \* bound on the number of bits received inverted

ASSUME CustomerIds \subseteq 0 .. 255 /\ Tokens \subseteq Word32
ASSUME MaxFlips \in Nat

VARIABLES state, bitCount, nibble, nibbleLen, nibbleCount, data, emitted

D == INSTANCE Em4100Decoder

VARIABLES
    programmed,   \* the token the tag was programmed with
    eprom,        \* the image generate wrote, offset -> bit
    pos,          \* offset of the next bit the tag transmits
    flipsLeft,    \* inverted bits still allowed
    received,     \* bits delivered so far, counted up to Window
    flipAge       \* bits delivered since the inverted one (Window: none)

linkVars == <<programmed, eprom, pos, flipsLeft, received, flipAge>>
vars == <<D!decoderVars, linkVars>>

\* An array bit generate never wrote: main.cpp's em4100Eprom is not
\* initialised, so such a bit is whatever the stack held.
Unset == 2

\* The length of an EM4100 frame, and how far back the history reaches.
Window == 64

TagBits(k) == IF eprom[k] = Unset THEN {0, 1} ELSE {eprom[k]}

Init ==
    /\ D!Init
    /\ \E c \in CustomerIds, t \in Tokens :
          /\ programmed = [versionOrCustomerId |-> c, data |-> t]
          /\ eprom = generate([k \in EpromBits |-> Unset], c, t)
    /\ pos \in EpromBits
    /\ flipsLeft = MaxFlips
    /\ received = 0
    /\ flipAge = Window

\* The decoder receives bit b and the tag moves to its next bit.
Deliver(b) ==
    /\ D!OnNewBit(b = 1)
    /\ pos' = (pos + 1) % 64
    /\ received' = IF received < Window THEN received + 1 ELSE Window
    /\ UNCHANGED <<programmed, eprom>>

\* The tag's bit arrives as sent.
TagSend ==
    /\ \E b \in TagBits(pos) : Deliver(b)
    /\ flipAge' = IF flipAge < Window THEN flipAge + 1 ELSE Window
    /\ UNCHANGED flipsLeft

\* The tag's bit arrives inverted.
TagSendCorrupted ==
    /\ flipsLeft > 0
    /\ \E b \in TagBits(pos) : Deliver(1 - b)
    /\ flipAge' = 0
    /\ flipsLeft' = flipsLeft - 1

Next == TagSend \/ TagSendCorrupted

\* The reader keeps processing the bits of the tag.
\* The decoder handles every bit (OnNewBit is total) and the tag always has
\* a next bit, so Next is always enabled and weak fairness of Next is the
\* same as Next being taken infinitely often; it is stated that way because
\* TLC evaluates ENABLED of the decoder's steps very slowly.
Spec == Init /\ [][Next]_vars /\ []<><<Next>>_vars

LinkTypeOK ==
    /\ D!TypeOK
    /\ programmed \in D!Token
    /\ eprom \in [EpromBits -> {0, 1, Unset}]
    /\ pos \in EpromBits
    /\ flipsLeft \in 0 .. MaxFlips
    /\ received \in 0 .. Window
    /\ flipAge \in 0 .. Window

\* The bit the decoder received j calls ago (0: the last one), as far as
\* the history of the tag, its position and the inverted bit determine it.
ReceivedBit(j) ==
    LET sent == eprom[(pos - 1 - j) % 64]
    IN  IF flipAge = j THEN 1 - sent ELSE sent

\* The last Window bits the decoder received, oldest first.
ReceivedFrame == [i \in 1 .. Window |-> ReceivedBit(Window - i)]

-----------------------------------------------------------------------------
(* Properties.                                                             *)

\* With at most MaxFlips inverted bits on the air, the decoder never
\* reports a token other than the one the tag was programmed with.
NoMisread == \A i \in DOMAIN emitted : emitted[i] = programmed

\* The decoder refines the EM4100 frame format: it notifies a token only
\* when the last 64 bits it received (preamble, ten row groups, column
\* parity and stop bit) are exactly the frame of that token as the
\* specification lays it out.  This is what the parity checks, the stop
\* bit check and the column parity compare of onEvent must jointly ensure.
TokenOnlyFromValidFrame ==
    emitted # <<>> =>
        /\ received = Window
        /\ ReceivedFrame = SpecFrame(emitted[1])

\* Round trip: the token written by generate is eventually read back by
\* the decoder, whatever bit the reader starts at and whatever the noise.
TokenEventuallyRead == <>(emitted = <<programmed>>)
=============================================================================
