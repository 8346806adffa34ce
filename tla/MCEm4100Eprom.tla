---------------------------- MODULE MCEm4100Eprom ----------------------------
(***************************************************************************)
(* Em4100Eprom::generate checked against the frame layout of the           *)
(* specification: every pair of customer ID and token below is a distinct  *)
(* initial state holding the image generate writes into an array that     *)
(* held no defined bit before (main.cpp does not initialise it).           *)
(***************************************************************************)
EXTENDS Naturals, Sequences, Em4100Eprom, Em4100Frame

\* Customer IDs with every nibble value in some position.
MCCustomerIds == {0, 1, 18, 52, 86, 120, 154, 188, 222, 240, 165, 255}

\* Tokens mixing all-zero, all-one and irregular nibbles in every byte.
MCTokens == {<<x, y, 255 - x, (x + y) % 256>> : x \in {0, 18, 171, 255}, y \in {0, 52, 205}}

\* The value of an array bit generate does not write.
Unset == 2

VARIABLES customerId, token, eprom

vars == <<customerId, token, eprom>>

Init ==
    /\ customerId \in MCCustomerIds
    /\ token \in MCTokens
    /\ eprom = generate([k \in EpromBits |-> Unset], customerId, token)

\* The image is written once; nothing changes it afterwards.
Next == UNCHANGED vars

Spec == Init /\ [][Next]_vars

-----------------------------------------------------------------------------
\* generate writes every one of the 64 bits, and bit offset k of the image
\* (the order T5557Encoder::encodeBlock sends the two words in) is bit k + 1
\* of the specification's frame for this customer ID and token: preamble,
\* reversed-then-sent nibbles with row parity, column parity, stop bit.
EpromIsFrame ==
    LET frame == SpecFrame([versionOrCustomerId |-> customerId, data |-> token])
    IN  \A k \in EpromBits : eprom[k] = frame[k + 1]
=============================================================================
