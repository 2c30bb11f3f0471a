--------------------------- MODULE DriftCorrection ---------------------------
(***************************************************************************)
(* How the player of a guest follows the one of its host (applyState of    *)
(* sync/sync_manager.cpp, fed by onRelayState of sync/sync_session.cpp).   *)
(* Times are in milliseconds, rates in hundredths of a percent.  All that  *)
(* matters of the two positions is how far the guest is behind.            *)
(***************************************************************************)
EXTENDS Integers

CONSTANTS Offsets,      \* how far behind (or ahead) a seek can leave the guest
          Errors,       \* what the latency compensation may be wrong by
          MaxActs       \* bound: what the host and the guest's user do

ASSUME DriftAssumption ==
    Offsets \subseteq Int /\ Errors \subseteq Int /\ MaxActs \in Nat

VARIABLES
    behind,         \* host position minus guest position
    hostPlays, guestPlays,
    speedCorrection,
    allowImmediate, \* m_allowImmediateSeekUntil is not over
    jumped,         \* bookkeeping: the last state was followed by a seek
    acts            \* bookkeeping

driftVars == <<behind, hostPlays, guestPlays, speedCorrection, allowImmediate, jumped, acts>>

TinyDrift     == 50
ModerateDrift == 250
HardSeek      == 1000
MaxRateAdjust == 300
SendInterval  == 1500

Abs(n) == IF n < 0 THEN -n ELSE n
Within(n, bound) == IF n > bound THEN bound ELSE IF n < -bound THEN -bound ELSE n
Over(n, d) == IF n < 0 THEN -((-n) \div d) ELSE n \div d    \* rounds towards zero

TargetRate(delta) == Over(Within(delta, ModerateDrift) * MaxRateAdjust, ModerateDrift)

Smoothed(old, delta) == Over(6 * old + 4 * TargetRate(delta), 10)

\* A slip to check against: a tenth of the full correction is dropped too.
NegligibleTenfold(rate) == Abs(rate) < 100

Negligible(rate) == Abs(rate) < 10

Seeks(delta, plays, immediate) ==
    \/ Abs(delta) > TinyDrift /\ (immediate \/ ~plays)
    \/ Abs(delta) >= HardSeek

\* applyState: delta is how far behind the guest believes it is.
ApplyState(delta, plays, immediate) ==
    LET rate == Smoothed(speedCorrection, delta)
        soft == plays /\ ~Seeks(delta, plays, immediate) /\ Abs(delta) > TinyDrift
    IN  /\ guestPlays' = plays
        /\ speedCorrection' = IF soft /\ ~Negligible(rate) THEN rate ELSE 0
        /\ jumped' = Seeks(delta, plays, immediate)

\* onRelayState: the position is extrapolated by the transit time only while
\* the host plays; the window for an immediate seek closes with its first use.
OnRelayState(now, plays, error) ==
    LET delta == IF plays THEN now + error ELSE now
    IN  /\ ApplyState(delta, plays, allowImmediate)
        /\ behind' = IF Seeks(delta, plays, allowImmediate) THEN now - delta ELSE now
        /\ allowImmediate' = FALSE

DriftInit ==
    /\ behind \in Offsets /\ hostPlays = TRUE /\ guestPlays = TRUE /\ speedCorrection = 0
    /\ allowImmediate = FALSE /\ jumped = FALSE /\ acts = 0

DriftOff ==      \* no session
    /\ behind = 0 /\ hostPlays = FALSE /\ guestPlays = TRUE /\ speedCorrection = 0
    /\ allowImmediate = FALSE /\ jumped = FALSE /\ acts = 0

Acts == acts < MaxActs /\ acts' = acts + 1

\* What the guest gains in an interval.
Gained == Over(speedCorrection * SendInterval, 10000)

\* tick: the host sends its state every 1.5 s while it plays.
HostTick(error) ==
    /\ hostPlays /\ OnRelayState(behind - Gained, TRUE, error)
    /\ UNCHANGED <<hostPlays, acts>>

\* notifyLocalAction: play, pause and seek are sent at once.
HostAction(now, plays, error) ==
    /\ Acts /\ OnRelayState(now, plays, error) /\ hostPlays' = plays

\* requestSeek and requestSeekDelta of the guest's user.
RequestSeek ==
    /\ Acts /\ allowImmediate' = TRUE
    /\ UNCHANGED <<behind, hostPlays, guestPlays, speedCorrection, jumped>>
WindowEnds ==
    /\ allowImmediate /\ allowImmediate' = FALSE
    /\ UNCHANGED <<behind, hostPlays, guestPlays, speedCorrection, jumped, acts>>

DriftNext ==
    \/ \E error \in Errors : HostTick(error)
    \/ \E now \in Offsets, plays \in BOOLEAN, error \in Errors : HostAction(now, plays, error)
    \/ RequestSeek \/ WindowEnds

\* A host that plays goes on sending.
DriftFairness == WF_driftVars(\E error \in Errors : HostTick(error))

----------------------------------------------------------------------------
(* Properties.                                                             *)

\* The picture is never more than 3% fast or slow, and a player that is paused
\* or has just been placed by a seek is left with the host's own speed.
CorrectionIsGentle ==
    /\ Abs(speedCorrection) <= MaxRateAdjust
    /\ ~guestPlays \/ jumped => speedCorrection = 0

\* As near to the host as the guest can tell with an estimate that may be wrong.
InStepWithin == {n \in -HardSeek .. HardSeek : \E error \in Errors : Abs(n) <= TinyDrift + Abs(error)}

\* Left alone, the guest gets in step and stays so, whatever the distance it
\* starts from and whatever the smoothing still remembers of an earlier drift:
\* no overshoot, no oscillation around the band in which nothing is corrected.
GuestGetsInStep == <>[](hostPlays => behind \in InStepWithin)

\* What the smoothing keeps, in one interval, of a full correction the other way.
Kept == Over(6 * MaxRateAdjust * SendInterval, 100000)

\* A moderate drift is corrected by the rate alone: the guest jumps only when it
\* has to, and is never taken further away by more than what the smoothing keeps
\* of a correction made before the host sought.  That much may also bring it to
\* the distance where a jump is due, so a drift is moderate only below it.
DriftIsWornOff ==
    [][hostPlays /\ acts' = acts /\ behind' # behind /\ ~allowImmediate
         /\ (\A error \in Errors : Abs(behind) + Kept + Abs(error) < HardSeek)
       => ~jumped' /\ (Abs(behind') <= Abs(behind) + Kept)]_driftVars

\* Together: the guest is brought in step, for good, and without being disturbed.
DriftIsCorrected == []CorrectionIsGentle /\ GuestGetsInStep /\ DriftIsWornOff
=============================================================================
