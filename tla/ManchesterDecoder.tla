-------------------------- MODULE ManchesterDecoder --------------------------
(***************************************************************************)
(* ManchesterDecoder (impl/ManchesterDecoder.cpp): an edge-triggered       *)
(* flip-flop with a half-bit timer, listening to the CarrierDecoder.  One  *)
(* step is one onEvent call; the bit it notifies (EVENT_NEW_BIT) is the    *)
(* variable bitOut: <<>> or <<isOne>>.                                     *)
(***************************************************************************)
EXTENDS Naturals, Sequences

VARIABLES
    ffOut,          \* the flip-flop output, the level of the last bit
    timerRunning,   \* a short pulse with an edge was seen: half a bit
    bitOut          \* what the last call notified

manchesterVars == <<ffOut, timerRunning, bitOut>>

\* The constructor's reset().
Init ==
    /\ ffOut = FALSE
    /\ timerRunning = FALSE
    /\ bitOut = <<>>

\* Variant of TimerPulse that leaves the timer running after a long pulse.
TimerPulseKeepsTimer(isHigh, isLong) ==
    /\ timerRunning
    /\ ffOut' = isHigh
    /\ bitOut' = <<isHigh>>
    /\ timerRunning' = isLong

\* EVENT_NEW_PULSE while the timer runs: the pulse ends the second half of
\* a split bit; its level is the bit.  The timer is restarted for a long
\* pulse and then cleared again, because ffOut ^ isHigh is then false.
TimerPulse(isHigh, isLong) ==
    /\ timerRunning
    /\ ffOut' = isHigh
    /\ bitOut' = <<isHigh>>
    /\ timerRunning' = IF isLong THEN isHigh # isHigh ELSE FALSE

\* EVENT_NEW_PULSE with an edge (isHigh ^ ffOut) and no timer: a long
\* pulse is a whole bit of the new level, a short one starts the timer.
EdgeLong(isHigh, isLong) ==
    /\ ~timerRunning
    /\ isHigh # ffOut
    /\ isLong
    /\ timerRunning' = FALSE
    /\ ffOut' = isHigh
    /\ bitOut' = <<isHigh>>

EdgeShort(isHigh, isLong) ==
    /\ ~timerRunning
    /\ isHigh # ffOut
    /\ ~isLong
    /\ timerRunning' = TRUE
    /\ bitOut' = <<>>
    /\ UNCHANGED ffOut

\* EVENT_NEW_PULSE without an edge and no timer: nothing happens.
NoEdge(isHigh, isLong) ==
    /\ ~timerRunning
    /\ isHigh = ffOut
    /\ bitOut' = <<>>
    /\ UNCHANGED <<ffOut, timerRunning>>

\* onEvent(EVENT_NEW_PULSE).
OnPulse(isHigh, isLong) ==
    \/ TimerPulse(isHigh, isLong)
    \/ EdgeLong(isHigh, isLong)
    \/ EdgeShort(isHigh, isLong)
    \/ NoEdge(isHigh, isLong)

\* onEvent(EVENT_SYNC_CHANGED): reset().
OnSyncChanged ==
    /\ ffOut' = FALSE
    /\ timerRunning' = FALSE
    /\ bitOut' = <<>>

ManchesterTypeOK ==
    /\ ffOut \in BOOLEAN
    /\ timerRunning \in BOOLEAN
    /\ bitOut \in {<<>>} \cup {<<b>> : b \in BOOLEAN}
=============================================================================
