--------------------------- MODULE MCCodingDecoders ---------------------------
(***************************************************************************)
(* The two CodingDecoders, each fed by its own tag that sends arbitrary    *)
(* bits, and each reset at any time by a SYNC_CHANGED of the carrier       *)
(* decoder.  A pulse is a run of equal half bits: one half is a short      *)
(* pulse, two a long one.  The reader may start at any half bit.           *)
(*                                                                         *)
(* Manchester: a 1 is a high half followed by a low half, a 0 the other    *)
(* way round.  Biphase: the level changes at every bit boundary and in the *)
(* middle of a 0 only, so a 1 is one long pulse and a 0 two short ones.    *)
(*                                                                         *)
(* Each tag is its bit (mCur, bCur) and whether it is at the second half   *)
(* (mSecond, bSecond).  History variables record, for the last pulse,      *)
(* whether it ended where the decoder should notify a bit (mDue, bDue),    *)
(* which bit that is (mExpected, bExpected), and whether the decoder has   *)
(* notified a bit for a long pulse since its last reset (mLocked, bLocked).*)
(***************************************************************************)
EXTENDS Naturals, Sequences

VARIABLES ffOut, timerRunning, mBit, lastShort, bBit
VARIABLES mCur, mSecond, mDue, mExpected, mLocked
VARIABLES bCur, bSecond, bDue, bExpected, bLocked

M == INSTANCE ManchesterDecoder WITH bitOut <- mBit
B == INSTANCE BiphaseDecoder WITH bitOut <- bBit

mVars == <<ffOut, timerRunning, mBit, mCur, mSecond, mDue, mExpected, mLocked>>
bVars == <<lastShort, bBit, bCur, bSecond, bDue, bExpected, bLocked>>
vars == <<mVars, bVars>>

Init ==
    /\ M!Init /\ B!Init
    /\ mCur \in BOOLEAN /\ mSecond \in BOOLEAN
    /\ bCur \in BOOLEAN /\ bSecond \in BOOLEAN
    /\ mDue = FALSE /\ mExpected = FALSE /\ mLocked = FALSE
    /\ bDue = FALSE /\ bExpected = FALSE /\ bLocked = FALSE

-----------------------------------------------------------------------------
(* The Manchester tag.                                                     *)

\* The level of a Manchester half bit: a 1 starts high.
MLevel(bit, isSecond) == IF isSecond THEN ~bit ELSE bit

\* The first half of a bit is followed by the opposite level: a short
\* pulse that ends at the mid-bit transition, where the bit is due.
MFirstHalf ==
    /\ ~mSecond
    /\ M!OnPulse(MLevel(mCur, FALSE), FALSE)
    /\ mSecond' = TRUE
    /\ mDue' = TRUE /\ mExpected' = mCur
    /\ UNCHANGED <<mCur, mLocked, bVars>>

\* The second half of a bit and then the next bit: a long pulse if the
\* next bit starts at the same level (it then ends mid-bit of next).
MSecondHalf ==
    /\ mSecond
    /\ \E next \in BOOLEAN :
          LET long == MLevel(next, FALSE) = MLevel(mCur, TRUE)
          IN  /\ M!OnPulse(MLevel(mCur, TRUE), long)
              /\ mCur' = next
              /\ mSecond' = long
              /\ mDue' = long /\ mExpected' = next
              /\ mLocked' = (mLocked \/ (long /\ mBit' # <<>>))
    /\ UNCHANGED bVars

MSyncChanged ==
    /\ M!OnSyncChanged
    /\ mLocked' = FALSE /\ mDue' = FALSE
    /\ UNCHANGED <<mCur, mSecond, mExpected, bVars>>

-----------------------------------------------------------------------------
(* The Biphase tag.  Its levels alternate and the decoder ignores them.    *)

\* A 1 sent whole: one long pulse.
BOne ==
    /\ ~bSecond /\ bCur
    /\ B!OnPulse(FALSE, TRUE)
    /\ \E next \in BOOLEAN : bCur' = next
    /\ bDue' = TRUE /\ bExpected' = TRUE
    /\ bLocked' = TRUE
    /\ UNCHANGED <<bSecond, mVars>>

\* The first half of a 0.
BZeroFirst ==
    /\ ~bSecond /\ ~bCur
    /\ B!OnPulse(FALSE, FALSE)
    /\ bSecond' = TRUE
    /\ bDue' = FALSE
    /\ UNCHANGED <<bCur, bExpected, bLocked, mVars>>

\* The second half of a bit: the end of a 0, or the rest of a 1 the reader
\* started in the middle of.
BSecond ==
    /\ bSecond
    /\ B!OnPulse(FALSE, FALSE)
    /\ \E next \in BOOLEAN : bCur' = next
    /\ bSecond' = FALSE
    /\ bDue' = ~bCur /\ bExpected' = FALSE
    /\ UNCHANGED <<bLocked, mVars>>

BSyncChanged ==
    /\ B!OnSyncChanged
    /\ bLocked' = FALSE /\ bDue' = FALSE
    /\ UNCHANGED <<bCur, bSecond, bExpected, mVars>>

Next ==
    \/ MFirstHalf \/ MSecondHalf \/ MSyncChanged
    \/ BOne \/ BZeroFirst \/ BSecond \/ BSyncChanged

Spec == Init /\ [][Next]_vars

TypeOK == M!ManchesterTypeOK /\ B!BiphaseTypeOK

-----------------------------------------------------------------------------
\* Once the Manchester decoder has notified a bit for a long pulse since
\* its last reset, the flip-flop is in phase with the tag: it notifies a
\* bit exactly for the pulses that end at a mid-bit transition, and that
\* bit is the one the tag sent.
ManchesterDecodesAfterLock ==
    mLocked => mBit = IF mDue THEN <<mExpected>> ELSE <<>>

\* Once the Biphase decoder has seen a long pulse since its last reset,
\* it pairs short pulses the way the tag sent them: it notifies a bit
\* exactly when a bit ends, and that bit is the one the tag sent.
BiphaseDecodesAfterLock ==
    bLocked => bBit = IF bDue THEN <<bExpected>> ELSE <<>>
=============================================================================
