--------------------------- MODULE CarrierDecoder ---------------------------
(***************************************************************************)
(* CarrierDecoder (CarrierDecoder.cpp/.hpp): finds the carrier divider of  *)
(* the tag by trial and classifies each sample as a short or long pulse.   *)
(* checkPulses runs the body of its loop once per sample; one step of this *)
(* module is that body for one sample.  The body notifies at most one      *)
(* event, which is the value of the variable event after the step:         *)
(* NoEvent, a SYNC_CHANGED record or a NEW_PULSE record.                   *)
(*                                                                         *)
(* The counters are uint8_t; loCount and hiCount are never cleared at a    *)
(* window boundary and wrap at 256.                                        *)
(***************************************************************************)
EXTENDS Naturals

VARIABLES
    carrierDivider,        \* 16, 32 or 64
    errorCount,            \* out-of-window samples in the current window
    pulseCount,            \* samples in the current window
    hasSync,
    loCount, hiCount,      \* short and long samples seen while unsynced
    range,                 \* shortMin, shortMax, longMin, longMax (us)
    event                  \* what the last sample notified

carrierVars == <<carrierDivider, errorCount, pulseCount, hasSync, loCount,
                 hiCount, range, event>>

CARRIER_PULSE_LENGTH == 8   \* microseconds of one carrier period
PULSE_MAX == 50             \* samples in one evaluation window
ERROR_TRESHOLD == 10        \* errors in a window that make the divider rotate

Dividers == {16, 32, 64}

NoEvent == [type |-> "NONE"]
SyncEvent(sync, divider) == [type |-> "SYNC_CHANGED", hasSync |-> sync, carrierDivider |-> divider]
PulseEvent(high, long) == [type |-> "NEW_PULSE", isHigh |-> high, isLong |-> long]

Events == {NoEvent}
          \cup {SyncEvent(s, d) : s \in BOOLEAN, d \in Dividers \cup {0}}
          \cup {PulseEvent(h, l) : h \in BOOLEAN, l \in BOOLEAN}

\* A Sample of Interface.hpp: its length and whether it is a low level.
Sample(us, low) == [lengthUs |-> us, isLow |-> low]

\* updatePulseRange: the short window is the half period of the divider
\* +- 25 %, the long one twice the half period with the same delta.
updatePulseRange(divider) ==
    LET pulseLength == (divider * CARRIER_PULSE_LENGTH) \div 2
        delta == pulseLength \div 4
    IN  [shortMin |-> pulseLength - delta, shortMax |-> pulseLength + delta,
         longMin |-> 2 * pulseLength - delta, longMax |-> 2 * pulseLength + delta]

PULSE_SHORT(us) == range.shortMin <= us /\ us <= range.shortMax
PULSE_LONG(us) == range.longMin <= us /\ us <= range.longMax

\* The constructor's reset().
Init ==
    /\ carrierDivider = 16
    /\ errorCount = 0
    /\ pulseCount = 0
    /\ hasSync = FALSE
    /\ loCount = 0
    /\ hiCount = 0
    /\ range = updatePulseRange(16)
    /\ event = NoEvent

\* The divider rotation of nextCarrier: 16 -> 32 -> 64 -> 16.
NextDivider(divider) == CASE divider = 16 -> 32 [] divider = 32 -> 64 [] divider = 64 -> 16

\* pulseCount++ at the top of the loop body.
pulseCountNow == pulseCount + 1

\* Variant of windowPulseCount that compares with PULSE_MAX + 1.
windowPulseCountOffByOne == IF pulseCountNow = PULSE_MAX + 1 THEN 0 ELSE pulseCountNow

\* The window counters after the "Next loop" branch: the fiftieth sample
\* of a window clears both before it is classified.
windowPulseCount == IF pulseCountNow = PULSE_MAX THEN 0 ELSE pulseCountNow
windowErrorCount == IF pulseCountNow = PULSE_MAX THEN 0 ELSE errorCount

\* Variant of NextCarrier whose error check is off by one.
NextCarrierEarly(s) ==
    /\ errorCount >= ERROR_TRESHOLD - 1
    /\ hasSync' = FALSE
    /\ loCount' = 0
    /\ hiCount' = 0
    /\ errorCount' = 0
    /\ pulseCount' = 0
    /\ event' = SyncEvent(FALSE, 0)
    /\ carrierDivider' = NextDivider(carrierDivider)
    /\ range' = updatePulseRange(NextDivider(carrierDivider))

\* errorCount >= ERROR_TRESHOLD: the sample is consumed without being
\* classified, every counter is cleared, SYNC_CHANGED(false, 0) is
\* notified and the next divider and its windows are taken.
NextCarrier(s) ==
    /\ errorCount >= ERROR_TRESHOLD
    /\ hasSync' = FALSE
    /\ loCount' = 0
    /\ hiCount' = 0
    /\ errorCount' = 0
    /\ pulseCount' = 0
    /\ event' = SyncEvent(FALSE, 0)
    /\ carrierDivider' = NextDivider(carrierDivider)
    /\ range' = updatePulseRange(NextDivider(carrierDivider))

\* NO_SYNC -> SYNC: count the sample as short, long or an error, and
\* declare the sync once more than four short and four long samples and
\* fewer than four errors of the window have been seen.
Unsynced(s) ==
    /\ errorCount < ERROR_TRESHOLD
    /\ ~hasSync
    /\ LET short == PULSE_SHORT(s.lengthUs)
           long == ~short /\ PULSE_LONG(s.lengthUs)
           lo == IF short THEN (loCount + 1) % 256 ELSE loCount
           hi == IF long THEN (hiCount + 1) % 256 ELSE hiCount
           err == IF short \/ long THEN windowErrorCount ELSE windowErrorCount + 1
           sync == hi > 4 /\ lo > 4 /\ err < 4
       IN  /\ loCount' = lo
           /\ hiCount' = hi
           /\ errorCount' = err
           /\ hasSync' = sync
           /\ event' = IF sync THEN SyncEvent(TRUE, carrierDivider) ELSE NoEvent
    /\ pulseCount' = windowPulseCount
    /\ UNCHANGED <<carrierDivider, range>>

\* SYNC: a sample in the long or the short window is notified as a pulse
\* of its level.
SyncedPulse(s) ==
    /\ errorCount < ERROR_TRESHOLD
    /\ hasSync
    /\ PULSE_LONG(s.lengthUs) \/ PULSE_SHORT(s.lengthUs)
    /\ event' = PulseEvent(~s.isLow, PULSE_LONG(s.lengthUs))
    /\ pulseCount' = windowPulseCount
    /\ errorCount' = windowErrorCount
    /\ UNCHANGED <<carrierDivider, hasSync, loCount, hiCount, range>>

\* Variant of SyncedBadPulse that does not count the error.
SyncedBadPulseUncounted(s) ==
    /\ errorCount < ERROR_TRESHOLD
    /\ hasSync
    /\ ~PULSE_LONG(s.lengthUs) /\ ~PULSE_SHORT(s.lengthUs)
    /\ event' = NoEvent
    /\ pulseCount' = windowPulseCount
    /\ errorCount' = windowErrorCount
    /\ UNCHANGED <<carrierDivider, hasSync, loCount, hiCount, range>>

\* SYNC: a sample in neither window is dropped and counted as an error.
SyncedBadPulse(s) ==
    /\ errorCount < ERROR_TRESHOLD
    /\ hasSync
    /\ ~PULSE_LONG(s.lengthUs) /\ ~PULSE_SHORT(s.lengthUs)
    /\ event' = NoEvent
    /\ pulseCount' = windowPulseCount
    /\ errorCount' = windowErrorCount + 1
    /\ UNCHANGED <<carrierDivider, hasSync, loCount, hiCount, range>>

\* One pass of the loop of checkPulses.
CheckSample(s) ==
    \/ NextCarrier(s)
    \/ Unsynced(s)
    \/ SyncedPulse(s)
    \/ SyncedBadPulse(s)

CarrierTypeOK ==
    /\ carrierDivider \in Dividers
    /\ errorCount \in 0 .. PULSE_MAX
    /\ pulseCount \in 0 .. PULSE_MAX - 1
    /\ hasSync \in BOOLEAN
    /\ loCount \in 0 .. 255 /\ hiCount \in 0 .. 255
    /\ range \in [shortMin : Nat, shortMax : Nat, longMin : Nat, longMax : Nat]
    /\ event \in Events
=============================================================================
