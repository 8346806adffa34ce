--------------------------- MODULE BiphaseDecoder ---------------------------
(***************************************************************************)
(* BiphaseDecoder (impl/BiphaseDecoder.cpp): a long pulse is a 1, two      *)
(* short pulses in a row are a 0.  One step is one onEvent call; the bit   *)
(* it notifies is the variable bitOut: <<>> or <<isOne>>.                  *)
(***************************************************************************)
EXTENDS Naturals, Sequences

VARIABLES
    lastShort,   \* _lastShort: a short pulse waits for its pair
    bitOut       \* what the last call notified

biphaseVars == <<lastShort, bitOut>>

\* The constructor's reset().
Init ==
    /\ lastShort = FALSE
    /\ bitOut = <<>>

\* EVENT_NEW_PULSE, long: a 1.
LongPulse(isHigh, isLong) ==
    /\ isLong
    /\ lastShort' = FALSE
    /\ bitOut' = <<TRUE>>

\* Variant of SecondShort that does not clear _lastShort.
SecondShortKeepsHalf(isHigh, isLong) ==
    /\ ~isLong
    /\ lastShort
    /\ bitOut' = <<FALSE>>
    /\ UNCHANGED lastShort

\* EVENT_NEW_PULSE, short after a short: the pair is a 0.
SecondShort(isHigh, isLong) ==
    /\ ~isLong
    /\ lastShort
    /\ lastShort' = FALSE
    /\ bitOut' = <<FALSE>>

\* EVENT_NEW_PULSE, a first short: wait for the second.
FirstShort(isHigh, isLong) ==
    /\ ~isLong
    /\ ~lastShort
    /\ lastShort' = TRUE
    /\ bitOut' = <<>>

\* onEvent(EVENT_NEW_PULSE).
OnPulse(isHigh, isLong) ==
    \/ LongPulse(isHigh, isLong)
    \/ SecondShort(isHigh, isLong)
    \/ FirstShort(isHigh, isLong)

\* onEvent(EVENT_SYNC_CHANGED): reset().
OnSyncChanged ==
    /\ lastShort' = FALSE
    /\ bitOut' = <<>>

BiphaseTypeOK ==
    /\ lastShort \in BOOLEAN
    /\ bitOut \in {<<>>} \cup {<<b>> : b \in BOOLEAN}
=============================================================================
