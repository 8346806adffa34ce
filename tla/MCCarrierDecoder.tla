--------------------------- MODULE MCCarrierDecoder ---------------------------
(***************************************************************************)
(* CarrierDecoder fed with arbitrary samples.  The host's getSamples makes *)
(* every length a multiple of CARRIER_US * prescaler = 64 us, so the       *)
(* lengths 0, 64, ..., 640 us cover the short and long windows of the      *)
(* three dividers, their edges and the lengths outside all of them.       *)
(*                                                                         *)
(* badRun is a history variable: the number of consecutive samples, up to  *)
(* the last one, that fell in neither window of the divider in force when  *)
(* they arrived; a sample in a window and a rotation clear it.             *)
(* badSinceRotation is another: the out-of-window samples since the last  *)
(* rotation, whatever the evaluation windows in between, counted up to    *)
(* ERROR_TRESHOLD.                                                         *)
(***************************************************************************)
EXTENDS Naturals, CarrierDecoder

CONSTANTS
    Lengths,    \* sample lengths the input may have, in microseconds
    MaxCount    \* bound on loCount and hiCount explored

VARIABLES badRun, badSinceRotation

vars == <<carrierVars, badRun, badSinceRotation>>

MCLengths == {64 * n : n \in 0 .. 10}
MCMaxCount == 12

InWindow(us) == PULSE_SHORT(us) \/ PULSE_LONG(us)

MCInit == Init /\ badRun = 0 /\ badSinceRotation = 0

\* One sample of the input is handled by the loop body of checkPulses.
MCNext ==
    \E us \in Lengths, low \in BOOLEAN :
        /\ CheckSample(Sample(us, low))
        /\ badRun' = IF carrierDivider' # carrierDivider \/ InWindow(us) THEN 0
                     ELSE badRun + 1
        /\ badSinceRotation' =
               IF carrierDivider' # carrierDivider THEN 0
               ELSE IF InWindow(us) THEN badSinceRotation
               ELSE IF badSinceRotation < ERROR_TRESHOLD THEN badSinceRotation + 1
               ELSE badSinceRotation

MCSpec == MCInit /\ [][MCNext]_vars

\* The exploration stops where a uint8 counter would be far from wrapping.
CountConstraint == loCount <= MaxCount /\ hiCount <= MaxCount

-----------------------------------------------------------------------------
\* The specification's rule for nextCarrier: the divider rotates only on
\* sustained error, never on a single bad sample.  Whenever checkPulses
\* takes the next divider, at least ERROR_TRESHOLD samples since the last
\* rotation fell outside the windows they were classified against, whatever
\* the sync state and the 50-sample window resets in between.
RotationOnlyOnSustainedError ==
    [][carrierDivider' # carrierDivider => badSinceRotation >= ERROR_TRESHOLD]_vars

\* A run of out-of-window samples cannot last forever without a divider
\* rotation: the error check on the next sample, and the window reset on
\* the fiftieth sample that clears errorCount before counting it, let at
\* most 2 * ERROR_TRESHOLD - 1 consecutive bad samples through; the next
\* one rotates the divider.
BadRunBounded == badRun <= 2 * ERROR_TRESHOLD - 1
=============================================================================
