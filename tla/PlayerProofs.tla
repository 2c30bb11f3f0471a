---------------------------- MODULE PlayerProofs -----------------------------
(***************************************************************************)
(* The player, for any files, settings, distances and commands: the        *)
(* settings that survive it, how it is kept in step with the host, and     *)
(* what the frame loop and mpv's playlist know of each other.              *)
(***************************************************************************)
EXTENDS MediaPlayer, Settings, DriftCorrection, SequenceTheorems, TLAPS

----------------------------------------------------------------------------
(* The settings on the disk.                                               *)

\* The settings with nothing else running.
SettingsSpec == SettingsInit /\ [][SettingsNext]_settingsVars

Writable == [style : Values, plain : Values, quiet : Values \cup {NotUtf8}]
Stored == [style : Values, plain : Values, quiet : Values \cup {NotUtf8}, volume : Levels]

SettingsTypes ==
    /\ lifecycle \in {"off", "running", "saving", "leaving"}
    /\ app \in Writable /\ disk \in [whole : BOOLEAN, data : Stored]
    /\ dirty \in BOOLEAN /\ muted \in BOOLEAN /\ failed \in BOOLEAN
    /\ volume \in Levels /\ lastVolume \in Levels /\ heard \in Levels

\* While the file is empty the program has not yet gone back to its work; and
\* the level that was heard is the present one unless there is silence.
SettingsInv ==
    /\ SettingsTypes
    /\ lifecycle # "off" => applied = app.style
    /\ lifecycle = "running" /\ ~dirty /\ ~failed => OnDisk
    /\ lifecycle = "off" /\ ~failed => Loaded(disk) = Snapshot
    /\ volume > 0 => heard = volume
    /\ MuteIsUndone

LEMMA LoadedIsStored ==
    ASSUME disk \in [whole : BOOLEAN, data : Stored]
    PROVE  Loaded(disk) \in Stored
  <1>1. Defaults \in Stored
    BY SettingsAssumption DEF Defaults, Stored, Levels
  <1>2. QED
    BY <1>1 DEF Loaded

LEMMA SettingsInitInv == SettingsInit => SettingsInv
  <1> SUFFICES ASSUME SettingsInit
               PROVE  SettingsInv
    OBVIOUS
  <1>1. Defaults \in Stored /\ app \in Writable
    BY SettingsAssumption DEF SettingsInit, Defaults, Stored, Writable, Levels
  <1>2. Empty \in [whole : BOOLEAN, data : Stored] /\ Loaded(Empty) = Defaults
    BY <1>1 DEF Empty, Loaded
  <1>3. Defaults = Snapshot
    BY DEF SettingsInit, Defaults, Snapshot
  <1>4. SettingsTypes
    BY <1>1, <1>2 DEF SettingsInit, SettingsTypes, Levels
  <1>5. QED
    BY <1>2, <1>3, <1>4 DEF SettingsInit, SettingsInv, MuteIsUndone, OnDisk

\* Starting brings back what the disk has.
LEMMA StartAppKeeps ==
    ASSUME SettingsInv, StartApp, Hears
    PROVE  SettingsInv'
  <1>1. PICK stored \in Stored : stored = Loaded(disk)
    BY LoadedIsStored DEF SettingsInv, SettingsTypes
  <1>2. /\ app' = [style |-> stored.style, plain |-> stored.plain, quiet |-> stored.quiet]
        /\ applied' = stored.style /\ volume' = stored.volume
        /\ Loaded(disk)' = stored
    BY <1>1 DEF StartApp, FromDisk, Loaded
  <1>3. app' \in Writable /\ volume' \in Levels /\ app'.style = stored.style
        /\ app'.plain = stored.plain
    BY <1>2 DEF Writable, Stored
  <1>4. heard' \in Levels /\ (volume' > 0 => heard' = volume')
    BY <1>3 DEF Hears, SettingsInv, SettingsTypes
  <1>5. SettingsTypes'
    BY <1>3, <1>4 DEF SettingsInv, SettingsTypes, StartApp, Levels
  <1>6. QED
    BY <1>2, <1>3, <1>4, <1>5 DEF SettingsInv, StartApp, MuteIsUndone, OnDisk

\* What is done while it runs leaves the disk alone.
LEMMA RunningKeeps ==
    ASSUME SettingsInv, Hears,
           \/ \E v \in Values : ChangeStyle(v) \/ ChangePlain(v) \/ ChangeQuiet(v)
           \/ ChangeQuiet(NotUtf8) \/ ResetStyle \/ TwoSecondsPass
    PROVE  SettingsInv'
  <1>1. /\ Running /\ Loaded(disk)' = Loaded(disk)
        /\ UNCHANGED <<volume, lastVolume, muted>>
    BY DEF ChangeStyle, ChangePlain, ChangeQuiet, ResetStyle, TwoSecondsPass, Running, Loaded
  <1>2. /\ app' \in Writable /\ applied' = app'.style
        /\ dirty' \in BOOLEAN
        /\ ~dirty' => ~dirty /\ app'.style = app.style /\ app'.plain = app.plain
    BY SettingsAssumption DEF SettingsInv, SettingsTypes, Writable, ApplyStyle, Running,
       ChangeStyle, ChangePlain, ChangeQuiet, ResetStyle, TwoSecondsPass
  <1>3. SettingsTypes'
    BY <1>1, <1>2 DEF SettingsInv, SettingsTypes, Running, Hears
  <1>4. QED
    BY <1>1, <1>2, <1>3 DEF SettingsInv, SettingsTypes, Running, Hears, MuteIsUndone, OnDisk,
       Levels

LEMMA VolumeKeeps ==
    ASSUME SettingsInv, Hears, ToggleMute \/ \E v \in Levels : ApplyVolume(v)
    PROVE  SettingsInv'
  <1>1. /\ Running /\ Loaded(disk)' = Loaded(disk)
        /\ UNCHANGED <<app, applied, dirty>>
    BY DEF ApplyVolume, ToggleMute, Running, Loaded
  <1>2. /\ volume \in Nat /\ volume' \in Levels /\ lastVolume' \in Levels
        /\ muted' \in BOOLEAN
    <2>1. volume \in Nat /\ volume \in Levels /\ lastVolume \in Levels /\ 0 \in Levels
      BY DEF SettingsInv, SettingsTypes, Levels
    <2>2. ASSUME ToggleMute
          PROVE  /\ volume' \in {0, lastVolume} /\ lastVolume' \in {lastVolume, volume}
                 /\ muted' \in {TRUE, FALSE}
      BY <2>2 DEF ToggleMute
    <2>3. CASE \E v \in Levels : ApplyVolume(v)
      BY <2>3 DEF SettingsInv, SettingsTypes, ApplyVolume, Levels
    <2>4. QED
      BY <2>1, <2>2, <2>3
  <1>3. heard' \in Levels /\ (volume' > 0 => heard' = volume')
    BY <1>2 DEF SettingsInv, SettingsTypes, Hears
  <1>4. MuteIsUndone'
    <2>1. CASE ToggleMute /\ ~muted /\ volume > 0
      BY <1>2, <2>1 DEF ToggleMute, Hears, SettingsInv, MuteIsUndone
    <2>2. CASE ToggleMute /\ ~(~muted /\ volume > 0)
      BY <2>2 DEF ToggleMute, MuteIsUndone
    <2>3. ASSUME NEW v \in Levels, ApplyVolume(v), muted'
          PROVE  volume' = 0 /\ lastVolume' = heard'
      <3>1. muted /\ v = 0
        BY <2>3 DEF ApplyVolume
      <3>2. volume' = 0 /\ lastVolume' = lastVolume /\ heard' = heard
        BY <2>3, <3>1 DEF ApplyVolume, Hears
      <3>3. QED
        BY <3>1, <3>2 DEF SettingsInv, MuteIsUndone
    <2>4. QED
      BY <2>1, <2>2, <2>3 DEF MuteIsUndone
  <1>5. SettingsTypes'
    BY <1>1, <1>2, <1>3 DEF SettingsInv, SettingsTypes, Running
  <1>6. QED
    BY <1>1, <1>3, <1>4, <1>5 DEF SettingsInv, Running, OnDisk

\* The file is emptied, then written; or the program ends in between.
LEMMA SavingKeeps ==
    ASSUME SettingsInv, Hears, Saving \/ LeaveBegins \/ Crash
    PROVE  SettingsInv'
  <1>1. /\ UNCHANGED <<app, applied, volume, lastVolume, muted>>
        /\ heard' \in Levels
        /\ volume' > 0 => heard' = volume'
        /\ MuteIsUndone'
    BY DEF SettingsInv, SettingsTypes, Saving, SaveBegins, LeaveBegins, SaveEnds, LeaveEnds,
       SaveThrows, Crash, Hears, MuteIsUndone, Levels
  <1>2. Snapshot \in Stored /\ Snapshot' = Snapshot
    <2>1. PICK now \in Writable : now = app
      BY DEF SettingsInv, SettingsTypes
    <2>2. Snapshot = [style |-> now.style, plain |-> now.plain, quiet |-> now.quiet,
                      volume |-> volume]
      BY <2>1 DEF Snapshot
    <2>3. volume \in Levels
      BY DEF SettingsInv, SettingsTypes
    <2>4. QED
      BY <1>1, <2>2, <2>3 DEF Stored, Writable, Snapshot
  <1>3. Defaults \in Stored
    BY SettingsAssumption DEF Defaults, Stored, Levels
  <1>4. disk' \in [whole : BOOLEAN, data : Stored]
    <2>1. disk' \in {disk, Empty, Written(Snapshot)}
      BY DEF Saving, SaveBegins, LeaveBegins, SaveEnds, LeaveEnds, Write, SaveThrows, Crash
    <2>2. Empty \in [whole : BOOLEAN, data : Stored]
      BY <1>3 DEF Empty
    <2>3. Written(Snapshot) \in [whole : BOOLEAN, data : Stored]
      BY <1>2 DEF Written
    <2>4. QED
      BY <2>1, <2>2, <2>3 DEF SettingsInv, SettingsTypes
  <1>5. SettingsTypes'
    <2>1. lifecycle' \in {"off", "running", "saving", "leaving"}
      BY DEF SettingsInv, SettingsTypes, Saving, SaveBegins, LeaveBegins, SaveEnds, LeaveEnds,
         SaveThrows, Crash
    <2>2. dirty' \in {dirty, FALSE} /\ failed' \in {failed, TRUE, FALSE}
      BY DEF Saving, SaveBegins, LeaveBegins, SaveEnds, LeaveEnds, Write, SaveThrows, Crash
    <2>3. dirty' \in BOOLEAN /\ failed' \in BOOLEAN /\ muted' \in BOOLEAN
      BY <1>1, <2>2 DEF SettingsInv, SettingsTypes
    <2>4. app' \in Writable /\ volume' \in Levels /\ lastVolume' \in Levels
      BY <1>1 DEF SettingsInv, SettingsTypes
    <2>5. QED
      BY <1>1, <1>4, <2>1, <2>3, <2>4 DEF SettingsTypes
  <1>6. CASE SaveEnds \/ LeaveEnds
    <2>1. lifecycle # "off" /\ applied' = app'.style
      BY <1>1, <1>6 DEF SettingsInv, SaveEnds, LeaveEnds
    <2>2. CASE failed'
      BY <1>1, <1>5, <2>1, <2>2 DEF SettingsInv
    <2>3. CASE ~failed'
      <3>1. Loaded(disk)' = Snapshot
        BY <1>6, <2>3 DEF SaveEnds, LeaveEnds, Write, Written, Loaded
      <3>2. Snapshot.style = app.style /\ Snapshot.plain = app.plain
        BY DEF Snapshot
      <3>3. Loaded(disk)' = Snapshot' /\ OnDisk'
        BY <1>1, <1>2, <3>1, <3>2 DEF OnDisk
      <3>4. QED
        BY <1>1, <1>5, <2>1, <3>3 DEF SettingsInv
    <2>4. QED
      BY <2>2, <2>3
  <1>7. CASE SaveBegins \/ LeaveBegins \/ SaveThrows \/ Crash
    <2>1. lifecycle' \in {"off", "running"} => failed'
      BY <1>7 DEF SaveBegins, LeaveBegins, SaveThrows, Crash
    <2>2. lifecycle' # "off" => applied' = app'.style
      BY <1>1, <1>7 DEF SettingsInv, SaveBegins, LeaveBegins, SaveThrows, Crash
    <2>3. QED
      BY <1>1, <1>5, <2>1, <2>2 DEF SettingsInv
  <1>8. QED
    BY <1>6, <1>7 DEF Saving

\* Whatever crashes, restarts, empty files and failed saves went before: the
\* settings shown and those mpv was given are the same, and so are those a restart
\* would bring back, except while the difference is marked as unsaved or the last
\* save since the start failed; and a mute can always be undone.
THEOREM SettingsTheorem == SettingsSpec => [](SavedUnlessDirty /\ MuteIsUndone)
  <1>1. SettingsInv /\ [SettingsNext]_settingsVars => SettingsInv'
    <2>1. SettingsInv /\ SettingsNext => SettingsInv'
      BY StartAppKeeps, RunningKeeps, VolumeKeeps, SavingKeeps DEF SettingsNext, SettingsStep
    <2>2. SettingsInv /\ UNCHANGED settingsVars => SettingsInv'
      BY DEF SettingsInv, SettingsTypes, settingsVars, MuteIsUndone, Loaded, Snapshot,
         OnDisk
    <2>3. QED
      BY <2>1, <2>2
  <1>2. SettingsInv => SavedUnlessDirty /\ MuteIsUndone
    BY DEF SettingsInv, SavedUnlessDirty, Snapshot
  <1>3. QED
    BY <1>1, <1>2, SettingsInitInv, PTL DEF SettingsSpec

----------------------------------------------------------------------------
(* In step with the host.                                                  *)

\* The guest's player with nothing else running.
DriftSpec == DriftInit /\ [][DriftNext]_driftVars

DriftTypes ==
    /\ behind \in Int /\ speedCorrection \in Int /\ acts \in Nat
    /\ allowImmediate \in BOOLEAN /\ guestPlays \in BOOLEAN /\ jumped \in BOOLEAN

CorrectionInv == DriftTypes /\ CorrectionIsGentle

\* The correction the drift asks for is of its direction and in proportion to it.
LEMMA TargetRateBounds ==
    ASSUME NEW delta \in Int
    PROVE  /\ TargetRate(delta) \in Int
           /\ TargetRate(delta) <= 300 /\ TargetRate(delta) >= -300
           /\ delta > 0 => TargetRate(delta) >= 0 /\ 5 * TargetRate(delta) <= 6 * delta
           /\ delta < 0 => TargetRate(delta) <= 0 /\ 5 * TargetRate(delta) >= 6 * delta
  <1>1. PICK kept \in Int : kept = Within(delta, 250)
    BY DEF Within
  <1>2. /\ kept <= 250 /\ kept >= -250
        /\ delta > 0 => kept > 0 /\ kept <= delta
        /\ delta < 0 => kept < 0 /\ kept >= delta
        /\ delta = 0 => kept = 0
    BY <1>1 DEF Within
  <1>3. TargetRate(delta) = IF kept * 300 < 0 THEN -((-(kept * 300)) \div 250)
                            ELSE (kept * 300) \div 250
    BY <1>1 DEF TargetRate, Over, ModerateDrift, MaxRateAdjust
  <1>4. CASE kept >= 0
    BY <1>2, <1>3, <1>4
  <1>5. CASE kept < 0
    BY <1>2, <1>3, <1>5
  <1>6. QED
    BY <1>4, <1>5

\* Six tenths of the old correction and four of the new.
LEMMA SmoothedBounds ==
    ASSUME NEW old \in Int, old <= 300, old >= -300, NEW delta \in Int
    PROVE  /\ Smoothed(old, delta) \in Int
           /\ Smoothed(old, delta) <= 300 /\ Smoothed(old, delta) >= -300
           /\ delta > 0 => /\ Smoothed(old, delta) >= -180
                           /\ 25 * Smoothed(old, delta) <= 4500 + 12 * delta
           /\ delta < 0 => /\ Smoothed(old, delta) <= 180
                           /\ 25 * Smoothed(old, delta) >= 12 * delta - 4500
  <1>1. PICK target \in Int : target = TargetRate(delta)
    BY TargetRateBounds
  <1>2. /\ target <= 300 /\ target >= -300
        /\ delta > 0 => target >= 0 /\ 5 * target <= 6 * delta
        /\ delta < 0 => target <= 0 /\ 5 * target >= 6 * delta
    BY <1>1, TargetRateBounds
  <1>3. PICK n \in Int : n = 6 * old + 4 * target
    OBVIOUS
  <1>4. Smoothed(old, delta) = IF n < 0 THEN -((-n) \div 10) ELSE n \div 10
    BY <1>1, <1>3 DEF Smoothed, Over
  <1>5. PICK rate \in Int : rate = Smoothed(old, delta)
    BY <1>4
  <1>6. /\ n >= 0 => rate >= 0 /\ 10 * rate <= n
        /\ n < 0 => rate <= 0 /\ 10 * rate >= n
    BY <1>4, <1>5
  <1>7. n <= 3000 /\ n >= -3000
    BY <1>2, <1>3
  <1>8. delta > 0 => n >= -1800 /\ 5 * n <= 9000 + 24 * delta
    BY <1>2, <1>3
  <1>9. delta < 0 => n <= 1800 /\ 5 * n >= 24 * delta - 9000
    BY <1>2, <1>3
  <1>10. QED
    BY <1>5, <1>6, <1>7, <1>8, <1>9

\* What a state of the host leaves of the correction.
LEMMA CorrectionAfterState ==
    ASSUME CorrectionInv, NEW delta \in Int, NEW plays \in BOOLEAN, NEW immediate,
           ApplyState(delta, plays, immediate)
    PROVE  /\ speedCorrection' \in Int /\ CorrectionIsGentle'
           /\ guestPlays' \in BOOLEAN /\ jumped' \in BOOLEAN
           /\ \/ speedCorrection' = 0
              \/ /\ speedCorrection' = Smoothed(speedCorrection, delta)
                 /\ plays /\ ~Seeks(delta, plays, immediate) /\ Abs(delta) > 50
  <1>1. speedCorrection \in Int /\ speedCorrection <= 300 /\ speedCorrection >= -300
    BY DEF CorrectionInv, DriftTypes, CorrectionIsGentle, Abs, MaxRateAdjust
  <1>2. /\ Smoothed(speedCorrection, delta) \in Int
        /\ Smoothed(speedCorrection, delta) <= 300 /\ Smoothed(speedCorrection, delta) >= -300
    BY <1>1, SmoothedBounds
  <1>3. \/ speedCorrection' = 0
        \/ /\ speedCorrection' = Smoothed(speedCorrection, delta)
           /\ plays /\ ~Seeks(delta, plays, immediate) /\ Abs(delta) > 50
    BY DEF ApplyState, TinyDrift
  <1>4. ~guestPlays' \/ jumped' => speedCorrection' = 0
    BY DEF ApplyState
  <1>5. speedCorrection' \in Int /\ Abs(speedCorrection') <= 300
    BY <1>2, <1>3 DEF Abs
  <1>6. guestPlays' \in BOOLEAN /\ jumped' \in BOOLEAN
    BY DEF ApplyState, Seeks
  <1>7. QED
    BY <1>3, <1>4, <1>5, <1>6 DEF CorrectionIsGentle, MaxRateAdjust

LEMMA OnRelayStateTypes ==
    ASSUME NEW now \in Int, NEW plays \in BOOLEAN, NEW error \in Errors,
           OnRelayState(now, plays, error)
    PROVE  \E delta \in Int :
              /\ delta = IF plays THEN now + error ELSE now
              /\ ApplyState(delta, plays, allowImmediate)
              /\ behind' = IF Seeks(delta, plays, allowImmediate) THEN now - delta ELSE now
              /\ behind' \in Int /\ allowImmediate' = FALSE
  <1>1. error \in Int
    BY DriftAssumption
  <1>2. PICK delta \in Int : delta = IF plays THEN now + error ELSE now
    BY <1>1
  <1>3. QED
    BY <1>2 DEF OnRelayState

\* What the guest gains in an interval, at the rates it may have.
LEMMA GainedBounds ==
    ASSUME speedCorrection \in Int
    PROVE  /\ Gained \in Int
           /\ speedCorrection >= 0 => Gained >= 0 /\ 20 * Gained <= 3 * speedCorrection
           /\ speedCorrection <= 0 => Gained <= 0 /\ 20 * Gained >= 3 * speedCorrection
  <1>1. PICK n \in Int : n = speedCorrection * 1500
    OBVIOUS
  <1>2. Gained = IF n < 0 THEN -((-n) \div 10000) ELSE n \div 10000
    BY <1>1 DEF Gained, Over, SendInterval
  <1>3. PICK gained \in Int : gained = Gained
    BY <1>2
  <1>4. /\ n >= 0 => gained >= 0 /\ 10000 * gained <= n
        /\ n < 0 => gained <= 0 /\ 10000 * gained >= n
    BY <1>2, <1>3
  <1>5. QED
    BY <1>1, <1>3, <1>4

\* The steps, as what they do to the distance and the correction.
ByState == \E now \in Int, plays \in BOOLEAN, error \in Errors :
              OnRelayState(now, plays, error) /\ acts' \in Nat
Quiet == /\ UNCHANGED <<behind, speedCorrection, guestPlays, jumped>>
         /\ allowImmediate' \in BOOLEAN /\ acts' \in Nat

LEMMA DriftSteps ==
    ASSUME CorrectionInv, DriftNext
    PROVE  ByState \/ Quiet
  <1>1. behind \in Int /\ speedCorrection \in Int /\ acts \in Nat /\ allowImmediate \in BOOLEAN
    BY DEF CorrectionInv, DriftTypes
  <1>2. ASSUME NEW error \in Errors, HostTick(error)
        PROVE  ByState
    <2>1. PICK now \in Int : now = behind - Gained
      BY <1>1, GainedBounds
    <2>2. OnRelayState(behind - Gained, TRUE, error) /\ acts' = acts
      BY <1>2 DEF HostTick
    <2>3. OnRelayState(now, TRUE, error) /\ acts' \in Nat
      BY <1>1, <2>1, <2>2
    <2>4. QED
      BY <2>3 DEF ByState
  <1>3. ASSUME NEW now \in Offsets, NEW plays \in BOOLEAN, NEW error \in Errors,
               HostAction(now, plays, error)
        PROVE  ByState
    <2>1. now \in Int
      BY DriftAssumption
    <2>2. OnRelayState(now, plays, error) /\ acts' = acts + 1
      BY <1>3 DEF HostAction, Acts
    <2>3. QED
      BY <1>1, <2>1, <2>2 DEF ByState
  <1>4. CASE RequestSeek \/ WindowEnds
    <2>1. UNCHANGED <<behind, speedCorrection, guestPlays, jumped>>
      BY <1>4 DEF RequestSeek, WindowEnds
    <2>2. allowImmediate' \in BOOLEAN
      BY <1>4 DEF RequestSeek, WindowEnds
    <2>3. acts' \in Nat
      BY <1>1, <1>4 DEF RequestSeek, WindowEnds, Acts
    <2>4. QED
      BY <2>1, <2>2, <2>3 DEF Quiet
  <1>5. ASSUME NEW now \in Offsets, NEW plays \in BOOLEAN, NEW error \in Errors,
               HostAction(now, plays, error)
        PROVE  ByState \/ Quiet
    BY <1>3, <1>5, Zenon
  <1>6. QED
    BY <1>2, <1>4, <1>5, Zenon DEF DriftNext

LEMMA CorrectionInitInv == DriftInit => CorrectionInv
  <1>1. DriftInit => DriftTypes
    <2>1. DriftInit => behind \in Int /\ speedCorrection \in Int /\ acts \in Nat
      BY DriftAssumption DEF DriftInit
    <2>2. DriftInit => allowImmediate \in BOOLEAN /\ guestPlays \in BOOLEAN /\ jumped \in BOOLEAN
      BY DEF DriftInit
    <2>3. QED
      BY <2>1, <2>2 DEF DriftTypes
  <1>2. DriftInit => CorrectionIsGentle
    BY DEF DriftInit, CorrectionIsGentle, Abs, MaxRateAdjust
  <1>3. QED
    BY <1>1, <1>2 DEF CorrectionInv

LEMMA CorrectionStep == CorrectionInv /\ [DriftNext]_driftVars => CorrectionInv'
  <1>1. ASSUME CorrectionInv, NEW now \in Int, NEW plays \in BOOLEAN, NEW error \in Errors,
               OnRelayState(now, plays, error), acts' \in Nat
        PROVE  CorrectionInv'
    <2>1. PICK delta \in Int : /\ ApplyState(delta, plays, allowImmediate)
                               /\ behind' \in Int /\ allowImmediate' = FALSE
      BY <1>1, OnRelayStateTypes
    <2>2. /\ speedCorrection' \in Int /\ CorrectionIsGentle'
          /\ guestPlays' \in BOOLEAN /\ jumped' \in BOOLEAN
      BY <1>1, <2>1, CorrectionAfterState
    <2>3. QED
      BY <1>1, <2>1, <2>2 DEF CorrectionInv, DriftTypes
  <1>2. CorrectionInv /\ Quiet => CorrectionInv'
    BY DEF CorrectionInv, DriftTypes, CorrectionIsGentle, Quiet
  <1>3. CorrectionInv /\ UNCHANGED driftVars => CorrectionInv'
    BY DEF CorrectionInv, DriftTypes, CorrectionIsGentle, driftVars
  <1>4. CorrectionInv /\ ByState => CorrectionInv'
    BY <1>1 DEF ByState
  <1>5. QED
    BY <1>2, <1>3, <1>4, DriftSteps

\* For any distances, errors of the estimate and course of events: the picture is
\* never more than 3% fast or slow, and a player that is paused or has just been
\* placed by a seek is left with the host's own speed.
THEOREM CorrectionTheorem == DriftSpec => []CorrectionIsGentle
  <1>1. CorrectionInv => CorrectionIsGentle
    BY DEF CorrectionInv
  <1>2. QED
    BY <1>1, CorrectionInitInv, CorrectionStep, PTL DEF DriftSpec

\* The hypothesis of the next theorem: the latency of a state is estimated to
\* within the drift that is let pass.
EstimatesAreGood == \A error \in Errors : Abs(error) < TinyDrift

\* A correction is of the direction of the drift, or is what the smoothing has
\* kept of one in the other direction; and it does not exceed by more than that
\* what the drift asks for.
DriftInv ==
    /\ CorrectionInv
    /\ \/ speedCorrection = 0
       \/ /\ behind >= 2 /\ speedCorrection >= -180
          /\ 25 * speedCorrection <= 4500 + 12 * (behind + 49)
       \/ /\ behind <= -2 /\ speedCorrection <= 180
          /\ 25 * speedCorrection >= 12 * (behind - 49) - 4500

LEMMA DriftInvAfterState ==
    ASSUME EstimatesAreGood, DriftInv, NEW now \in Int, NEW plays \in BOOLEAN,
           NEW error \in Errors, OnRelayState(now, plays, error), acts' \in Nat
    PROVE  DriftInv'
  <1>1. PICK delta \in Int :
              /\ delta = IF plays THEN now + error ELSE now
              /\ ApplyState(delta, plays, allowImmediate)
              /\ behind' = IF Seeks(delta, plays, allowImmediate) THEN now - delta ELSE now
              /\ behind' \in Int /\ allowImmediate' = FALSE
    BY OnRelayStateTypes
  <1>2. CorrectionInv'
    <2>1. CorrectionInv
      BY DEF DriftInv
    <2>2. /\ speedCorrection' \in Int /\ CorrectionIsGentle'
          /\ guestPlays' \in BOOLEAN /\ jumped' \in BOOLEAN
      BY <1>1, <2>1, CorrectionAfterState
    <2>3. QED
      BY <1>1, <2>2 DEF CorrectionInv, DriftTypes
  <1>3. \/ speedCorrection' = 0
        \/ /\ speedCorrection' = Smoothed(speedCorrection, delta)
           /\ plays /\ ~Seeks(delta, plays, allowImmediate) /\ Abs(delta) > 50
    BY <1>1, CorrectionAfterState DEF DriftInv
  <1>4. CASE speedCorrection' = 0
    BY <1>2, <1>4 DEF DriftInv
  <1>5. CASE /\ speedCorrection' = Smoothed(speedCorrection, delta)
             /\ plays /\ ~Seeks(delta, plays, allowImmediate) /\ Abs(delta) > 50
    <2>1. error \in Int /\ error <= 49 /\ error >= -49
      BY DriftAssumption DEF EstimatesAreGood, Abs, TinyDrift
    <2>2. behind' = now /\ delta = now + error
      BY <1>1, <1>5
    <2>3. delta > 50 \/ delta < -50
      BY <1>5 DEF Abs
    <2>4. speedCorrection \in Int /\ speedCorrection <= 300 /\ speedCorrection >= -300
      BY DEF DriftInv, CorrectionInv, DriftTypes, CorrectionIsGentle, Abs, MaxRateAdjust
    <2>5. CASE delta > 50
      <3>1. behind' >= 2 /\ delta <= behind' + 49
        BY <2>1, <2>2, <2>5
      <3>2. speedCorrection' \in Int /\ speedCorrection' >= -180
            /\ 25 * speedCorrection' <= 4500 + 12 * delta
        <4>1. delta > 0
          BY <2>5
        <4>2. QED
          BY <1>5, <2>4, <4>1, SmoothedBounds
      <3>3. 25 * speedCorrection' <= 4500 + 12 * (behind' + 49)
        BY <1>1, <3>1, <3>2
      <3>4. QED
        BY <1>1, <1>2, <3>1, <3>2, <3>3 DEF DriftInv
    <2>6. CASE delta < -50
      <3>1. behind' <= -2 /\ delta >= behind' - 49
        BY <2>1, <2>2, <2>6
      <3>2. speedCorrection' \in Int /\ speedCorrection' <= 180
            /\ 25 * speedCorrection' >= 12 * delta - 4500
        <4>1. delta < 0
          BY <2>6
        <4>2. QED
          BY <1>5, <2>4, <4>1, SmoothedBounds
      <3>3. 25 * speedCorrection' >= 12 * (behind' - 49) - 4500
        BY <1>1, <3>1, <3>2
      <3>4. QED
        BY <1>1, <1>2, <3>1, <3>2, <3>3 DEF DriftInv
    <2>7. QED
      BY <2>3, <2>5, <2>6
  <1>6. QED
    BY <1>3, <1>4, <1>5

LEMMA DriftStep == EstimatesAreGood /\ DriftInv /\ [DriftNext]_driftVars => DriftInv'
  <1>1. DriftInv /\ UNCHANGED <<behind, speedCorrection>> /\ CorrectionInv' => DriftInv'
    BY DEF DriftInv
  <1>2. DriftInv => CorrectionInv
    BY DEF DriftInv
  <1>3. UNCHANGED driftVars \/ Quiet => UNCHANGED <<behind, speedCorrection>>
    BY DEF driftVars, Quiet
  <1>4. EstimatesAreGood /\ DriftInv /\ ByState => DriftInv'
    BY DriftInvAfterState DEF ByState
  <1>5. QED
    BY <1>1, <1>2, <1>3, <1>4, DriftSteps, CorrectionStep

\* In an interval the guest is taken further away by no more than the smoothing
\* keeps, even when it overshoots.
LEMMA GainedIsSmall ==
    ASSUME DriftInv
    PROVE  /\ behind - Gained \in Int
           /\ Abs(behind - Gained) <= Abs(behind) + 27
  <1>1. behind \in Int /\ speedCorrection \in Int
    BY DEF DriftInv, CorrectionInv, DriftTypes
  <1>2. PICK gained \in Int : gained = Gained
    BY <1>1, GainedBounds
  <1>3. /\ speedCorrection >= 0 => gained >= 0 /\ 20 * gained <= 3 * speedCorrection
        /\ speedCorrection <= 0 => gained <= 0 /\ 20 * gained >= 3 * speedCorrection
    BY <1>1, <1>2, GainedBounds
  <1>4. CASE speedCorrection = 0
    BY <1>1, <1>2, <1>3, <1>4 DEF Abs
  <1>5. CASE /\ behind >= 2 /\ speedCorrection >= -180
             /\ 25 * speedCorrection <= 4500 + 12 * (behind + 49)
    <2>1. gained >= -27
      BY <1>1, <1>3, <1>5
    <2>2. gained <= 2 * behind + 27
      BY <1>1, <1>3, <1>5
    <2>3. QED
      BY <1>1, <1>2, <1>5, <2>1, <2>2 DEF Abs
  <1>6. CASE /\ behind <= -2 /\ speedCorrection <= 180
             /\ 25 * speedCorrection >= 12 * (behind - 49) - 4500
    <2>1. gained <= 27
      BY <1>1, <1>3, <1>6
    <2>2. gained >= 2 * behind - 27
      BY <1>1, <1>3, <1>6
    <2>3. QED
      BY <1>1, <1>2, <1>6, <2>1, <2>2 DEF Abs
  <1>7. QED
    BY <1>4, <1>5, <1>6 DEF DriftInv

LEMMA KeptIs27 == Kept = 27
  <1>1. 6 * 300 * 1500 = 2700000 /\ 2700000 \div 100000 = 27
    OBVIOUS
  <1>2. QED
    BY <1>1 DEF Kept, Over, MaxRateAdjust, SendInterval

\* A moderate drift is corrected by the rate alone: for any distances and course of
\* events, with estimates within TinyDrift, a guest in that range does not jump and
\* is not taken further away by more than the smoothing keeps.
THEOREM DriftTheorem ==
    ASSUME EstimatesAreGood
    PROVE  DriftSpec => DriftIsWornOff
  <1>1. DriftInit => DriftInv
    BY CorrectionInitInv DEF DriftInv, DriftInit
  <1>2. ASSUME DriftInv, DriftNext,
               hostPlays /\ acts' = acts /\ behind' # behind /\ ~allowImmediate
                 /\ (\A error \in Errors : Abs(behind) + Kept + Abs(error) < HardSeek)
        PROVE  ~jumped' /\ (Abs(behind') <= Abs(behind) + Kept)
    <2>1. acts \in Nat /\ acts + 1 # acts
      BY <1>2 DEF DriftInv, CorrectionInv, DriftTypes
    <2>2. PICK error \in Errors : HostTick(error)
      <3>1. ~RequestSeek /\ ~WindowEnds
        BY <1>2 DEF RequestSeek, WindowEnds
      <3>2. ASSUME NEW now, NEW plays, NEW error, HostAction(now, plays, error)
            PROVE  FALSE
        BY <1>2, <2>1, <3>2 DEF HostAction, Acts
      <3>3. QED
        BY <1>2, <3>1, <3>2 DEF DriftNext
    <2>3. PICK now \in Int : now = behind - Gained /\ Abs(now) <= Abs(behind) + 27
      BY <1>2, GainedIsSmall
    <2>4. error \in Int /\ behind \in Int
      BY <1>2, DriftAssumption DEF DriftInv, CorrectionInv, DriftTypes
    <2>5. ~Seeks(now + error, TRUE, allowImmediate)
      <3>1. Abs(behind) + 27 + Abs(error) < 1000
        BY <1>2, KeptIs27 DEF HardSeek
      <3>2. Abs(now + error) < 1000
        BY <2>3, <2>4, <3>1 DEF Abs
      <3>3. QED
        BY <1>2, <2>3, <2>4, <3>2 DEF Seeks, HardSeek, Abs
    <2>6. ~jumped' /\ behind' = now
      <3>1. OnRelayState(now, TRUE, error)
        BY <2>2, <2>3 DEF HostTick
      <3>2. PICK delta \in Int : delta = now + error
        BY <2>4
      <3>3. /\ ApplyState(delta, TRUE, allowImmediate)
            /\ behind' = IF Seeks(delta, TRUE, allowImmediate) THEN now - delta ELSE now
        BY <3>1, <3>2 DEF OnRelayState
      <3>4. QED
        BY <2>5, <3>2, <3>3 DEF ApplyState
    <2>7. QED
      BY <2>3, <2>6, KeptIs27
  <1>3. DriftInv /\ [DriftNext]_driftVars =>
          [hostPlays /\ acts' = acts /\ behind' # behind /\ ~allowImmediate
             /\ (\A error \in Errors : Abs(behind) + Kept + Abs(error) < HardSeek)
           => ~jumped' /\ (Abs(behind') <= Abs(behind) + Kept)]_driftVars
    <2>1. CASE UNCHANGED driftVars
      BY <2>1
    <2>2. CASE DriftInv /\ DriftNext
      BY <1>2, <2>2, Zenon
    <2>3. QED
      BY <2>1, <2>2, Zenon
  <1>4. DriftInv /\ [DriftNext]_driftVars => DriftInv'
    BY DriftStep
  <1>5. QED
    BY <1>1, <1>3, <1>4, PTL DEF DriftSpec, DriftIsWornOff

----------------------------------------------------------------------------
(* Rows of a list.                                                         *)

LEMMA RemoveAtIs ==
    ASSUME NEW S, NEW s \in Seq(S), NEW i \in 1 .. Len(s)
    PROVE  /\ RemoveAt(s, i) \in Seq(S) /\ Len(RemoveAt(s, i)) = Len(s) - 1
           /\ \A j \in 1 .. Len(s) - 1 :
                 RemoveAt(s, i)[j] = IF j < i THEN s[j] ELSE s[j + 1]
  <1>1. /\ SubSeq(s, 1, i - 1) \in Seq(S) /\ Len(SubSeq(s, 1, i - 1)) = i - 1
        /\ \A j \in 1 .. i - 1 : SubSeq(s, 1, i - 1)[j] = s[j]
    BY SubSeqProperties
  <1>2. /\ SubSeq(s, i + 1, Len(s)) \in Seq(S) /\ Len(SubSeq(s, i + 1, Len(s))) = Len(s) - i
        /\ \A j \in 1 .. Len(s) - i : SubSeq(s, i + 1, Len(s))[j] = s[i + j]
    BY SubSeqProperties
  <1>3. PICK a \in Seq(S), b \in Seq(S) :
             a = SubSeq(s, 1, i - 1) /\ b = SubSeq(s, i + 1, Len(s))
    BY <1>1, <1>2
  <1>4. /\ Len(a) = i - 1 /\ Len(b) = Len(s) - i /\ RemoveAt(s, i) = a \o b
        /\ \A j \in 1 .. i - 1 : a[j] = s[j]
        /\ \A j \in 1 .. Len(s) - i : b[j] = s[i + j]
    BY <1>1, <1>2, <1>3 DEF RemoveAt
  <1>5. /\ a \o b \in Seq(S) /\ Len(a \o b) = Len(a) + Len(b)
        /\ \A j \in 1 .. Len(a) + Len(b) :
              (a \o b)[j] = IF j <= Len(a) THEN a[j] ELSE b[j - Len(a)]
    BY ConcatProperties
  <1>6. ASSUME NEW j \in 1 .. Len(s) - 1
        PROVE  (a \o b)[j] = IF j < i THEN s[j] ELSE s[j + 1]
    <2>1. CASE j < i
      BY <1>4, <1>5, <2>1
    <2>2. CASE j >= i
      <3>1. PICK k \in 1 .. Len(s) - i : k = j - (i - 1)
        BY <2>2
      <3>2. (a \o b)[j] = b[k]
        BY <1>4, <1>5, <2>2, <3>1
      <3>3. b[k] = s[i + k] /\ i + k = j + 1
        BY <1>4, <3>1
      <3>4. QED
        BY <2>2, <3>2, <3>3
    <2>3. j < i \/ j >= i
      OBVIOUS
    <2>4. QED
      BY <2>1, <2>2, <2>3
  <1>7. QED
    BY <1>4, <1>5, <1>6

LEMMA InsertAtIs ==
    ASSUME NEW S, NEW s \in Seq(S), NEW i \in 1 .. Len(s) + 1, NEW e \in S
    PROVE  /\ InsertAt(s, i, e) \in Seq(S) /\ Len(InsertAt(s, i, e)) = Len(s) + 1
           /\ \A j \in 1 .. Len(s) + 1 :
                 InsertAt(s, i, e)[j] = IF j < i THEN s[j] ELSE IF j = i THEN e ELSE s[j - 1]
  <1>1. PICK a \in Seq(S), b \in Seq(S) :
             a = SubSeq(s, 1, i - 1) /\ b = SubSeq(s, i, Len(s))
    <2>1. SubSeq(s, 1, i - 1) \in Seq(S)
      BY SubSeqProperties
    <2>2. SubSeq(s, i, Len(s)) \in Seq(S)
      BY SubSeqProperties
    <2>3. QED
      BY <2>1, <2>2
  <1>2. /\ Len(a) = i - 1 /\ \A j \in 1 .. i - 1 : a[j] = s[j]
        /\ Len(b) = Len(s) - i + 1 /\ \A j \in 1 .. Len(s) - i + 1 : b[j] = s[i + j - 1]
    BY <1>1, SubSeqProperties
  <1>3. <<e>> \in Seq(S) /\ Len(<<e>>) = 1 /\ <<e>>[1] = e
    OBVIOUS
  <1>4. PICK before \in Seq(S) : before = a \o <<e>>
    BY <1>3, ConcatProperties
  <1>5. /\ Len(before) = i
        /\ \A j \in 1 .. i : before[j] = IF j < i THEN s[j] ELSE e
    BY <1>2, <1>3, <1>4, ConcatProperties
  <1>6. InsertAt(s, i, e) = before \o b
    BY <1>1, <1>4 DEF InsertAt
  <1>7. /\ before \o b \in Seq(S) /\ Len(before \o b) = Len(before) + Len(b)
        /\ \A j \in 1 .. Len(before) + Len(b) :
              (before \o b)[j] = IF j <= Len(before) THEN before[j] ELSE b[j - Len(before)]
    BY ConcatProperties
  <1>8. ASSUME NEW j \in 1 .. Len(s) + 1
        PROVE  (before \o b)[j] = IF j < i THEN s[j] ELSE IF j = i THEN e ELSE s[j - 1]
    <2>1. CASE j <= i
      BY <1>2, <1>5, <1>7, <2>1
    <2>2. CASE j > i
      <3>1. PICK k \in 1 .. Len(s) - i + 1 : k = j - i
        BY <2>2
      <3>2. (before \o b)[j] = b[k]
        <4>1. j \in 1 .. Len(before) + Len(b) /\ ~(j <= Len(before))
          BY <1>2, <1>5, <2>2
        <4>2. j - Len(before) = k
          BY <1>5, <3>1
        <4>3. QED
          BY <1>7, <4>1, <4>2
      <3>3. b[k] = s[i + k - 1]
        BY <1>2, <3>1
      <3>4. i + k - 1 = j - 1
        BY <3>1
      <3>5. QED
        BY <2>2, <3>2, <3>3, <3>4
    <2>3. j <= i \/ j > i
      OBVIOUS
    <2>4. QED
      BY <2>1, <2>2, <2>3
  <1>9. QED
    BY <1>2, <1>5, <1>6, <1>7, <1>8

\* The j-th row that is not this one.
Past(row, j) == IF j < row THEN j ELSE j + 1

LEMMA PastIs ==
    ASSUME NEW n \in Nat, NEW row \in 1 .. n, NEW j \in 1 .. n - 1
    PROVE  Past(row, j) \in 1 .. n /\ Past(row, j) # row
  BY DEF Past

\* mpv's playlist-move with the index the panel gives it: the row is where it was
\* dropped, the others are in their order.
DropOn(list, from, to) == Moved(list, from, MoveTarget(from, to))

LEMMA MovedIs ==
    ASSUME NEW S, NEW list \in Seq(S), NEW from \in 1 .. Len(list), NEW to \in 1 .. Len(list)
    PROVE  /\ DropOn(list, from, to) \in Seq(S) /\ Len(DropOn(list, from, to)) = Len(list)
           /\ \A k \in 1 .. Len(list) : k = to => DropOn(list, from, to)[k] = list[from]
           /\ \A j \in 1 .. Len(list) - 1 :
                 DropOn(list, from, to)[Past(to, j)] = list[Past(from, j)]
  <1> PICK moved : moved = DropOn(list, from, to)
    OBVIOUS
  <1>1. PICK rest \in Seq(S) : rest = RemoveAt(list, from)
    BY RemoveAtIs
  <1>2. /\ Len(rest) = Len(list) - 1
        /\ \A j \in 1 .. Len(list) - 1 : rest[j] = IF j < from THEN list[j] ELSE list[j + 1]
    BY <1>1, RemoveAtIs
  <1>3. moved = InsertAt(rest, to, list[from])
    BY <1>1 DEF DropOn, Moved, MoveTarget
  <1>4. PICK row \in S : row = list[from]
    OBVIOUS
  <1>5. /\ moved \in Seq(S) /\ Len(moved) = Len(rest) + 1
        /\ \A j \in 1 .. Len(rest) + 1 :
              moved[j] = IF j < to THEN rest[j] ELSE IF j = to THEN list[from] ELSE rest[j - 1]
    <2>1. to \in 1 .. Len(rest) + 1 /\ moved = InsertAt(rest, to, row)
      BY <1>2, <1>3, <1>4
    <2>2. /\ moved \in Seq(S) /\ Len(moved) = Len(rest) + 1
          /\ \A j \in 1 .. Len(rest) + 1 :
                moved[j] = IF j < to THEN rest[j] ELSE IF j = to THEN row ELSE rest[j - 1]
      <3>1. rest \in Seq(S) /\ row \in S /\ to \in 1 .. Len(rest) + 1
        BY <1>4, <2>1
      <3>2. /\ InsertAt(rest, to, row) \in Seq(S) /\ Len(InsertAt(rest, to, row)) = Len(rest) + 1
            /\ \A j \in 1 .. Len(rest) + 1 :
                  InsertAt(rest, to, row)[j] =
                    IF j < to THEN rest[j] ELSE IF j = to THEN row ELSE rest[j - 1]
        BY <3>1, InsertAtIs
      <3>3. QED
        BY <2>1, <3>2
    <2>3. row = list[from]
      BY <1>4
    <2>4. QED
      BY <2>2, <2>3
  <1>6. ASSUME NEW j \in 1 .. Len(list) - 1
        PROVE  moved[Past(to, j)] = list[Past(from, j)]
    <2>1. CASE j < to
      BY <1>2, <1>5, <2>1 DEF Past
    <2>2. CASE ~(j < to)
      <3>1. j + 1 \in 1 .. Len(rest) + 1 /\ j + 1 > to /\ (j + 1) - 1 = j
        BY <1>2, <2>2
      <3>2. moved[j + 1] = rest[j]
        BY <1>5, <3>1
      <3>3. QED
        BY <1>2, <2>2, <3>2 DEF Past
    <2>3. QED
      BY <2>1, <2>2
  <1>7. \A k \in 1 .. Len(list) : k = to => moved[k] = list[from]
    <2>1. to \in 1 .. Len(rest) + 1
      BY <1>2
    <2>2. moved[to] = list[from]
      BY <1>5, <2>1
    <2>3. QED
      BY <2>2
  <1>8. QED
    BY <1>2, <1>5, <1>6, <1>7

----------------------------------------------------------------------------
(* The list "Continue watching".                                           *)

Recent == [path : Media, position : Media \cup {NoMedia}]

\* No file is in the list twice.
NamedOnce(list) == \A i, j \in DOMAIN list : i # j => list[i].path # list[j].path

\* What is left of such a list without f.
Without(list, f) == RemoveFirstMatch(list, LAMBDA r : r.path = f)

LEMMA WithoutOne ==
    ASSUME NEW list \in Seq(Recent), NamedOnce(list), NEW f \in Media,
           NEW others, others = Without(list, f)
    PROVE  /\ others \in Seq(Recent) /\ Len(others) <= Len(list) /\ NamedOnce(others)
           /\ \A i \in DOMAIN others : others[i].path # f
  <1>1. CASE ~\E i \in 1 .. Len(list) : list[i].path = f
    BY <1>1 DEF Without, RemoveFirstMatch
  <1>2. CASE \E i \in 1 .. Len(list) : list[i].path = f
    <2>1. PICK k \in 1 .. Len(list) : list[k].path = f
      BY <1>2
    <2>2. {i \in 1 .. Len(list) : list[i].path = f} = {k}
      BY <2>1 DEF NamedOnce
    <2>3. (CHOOSE x \in {k} : \A y \in {k} : x <= y) = k
      OBVIOUS
    <2>4. others = RemoveAt(list, k)
      BY <1>2, <2>2, <2>3 DEF Without, RemoveFirstMatch, SelectInSeq, Min
    <2>5. /\ others \in Seq(Recent) /\ Len(others) = Len(list) - 1
          /\ \A j \in 1 .. Len(list) - 1 : others[j] = IF j < k THEN list[j] ELSE list[j + 1]
      BY <2>4, RemoveAtIs
    <2>6. DOMAIN others = 1 .. Len(list) - 1 /\ DOMAIN list = 1 .. Len(list)
      BY <2>5
    <2>7. ASSUME NEW i \in DOMAIN others
          PROVE  \E n \in DOMAIN list : /\ others[i] = list[n] /\ n # k
                                       /\ n = IF i < k THEN i ELSE i + 1
      <3>1. CASE i < k
        BY <2>5, <2>6, <3>1
      <3>2. CASE ~(i < k)
        BY <2>5, <2>6, <3>2
      <3>3. QED
        BY <3>1, <3>2
    <2>8. \A i \in DOMAIN others : others[i].path # f
      BY <2>1, <2>7 DEF NamedOnce
    <2>9. NamedOnce(others)
      <3>1. SUFFICES ASSUME NEW i \in DOMAIN others, NEW j \in DOMAIN others, i # j
                     PROVE  others[i].path # others[j].path
        BY DEF NamedOnce
      <3>2. PICK m \in DOMAIN list : others[i] = list[m] /\ m = IF i < k THEN i ELSE i + 1
        BY <2>7
      <3>3. PICK n \in DOMAIN list : others[j] = list[n] /\ n = IF j < k THEN j ELSE j + 1
        BY <2>7
      <3>4. m # n
        BY <2>6, <3>1, <3>2, <3>3
      <3>5. QED
        BY <3>2, <3>3, <3>4 DEF NamedOnce
    <2>10. QED
      BY <2>5, <2>8, <2>9
  <1>3. QED
    BY <1>1, <1>2

LEMMA UpdateRecentMediaKeeps ==
    ASSUME NEW list \in Seq(Recent), Len(list) <= MaxRecent, NamedOnce(list),
           NEW f \in Media, NEW position \in Media \cup {NoMedia},
           NEW new, new = UpdateRecentMedia(list, f, position)
    PROVE  new \in Seq(Recent) /\ Len(new) <= MaxRecent /\ NamedOnce(new)
  <1>1. PICK others \in Seq(Recent) :
             /\ others = Without(list, f)
             /\ NamedOnce(others) /\ \A i \in DOMAIN others : others[i].path # f
    BY WithoutOne
  <1>2. PICK first \in Recent : first = [path |-> f, position |-> position]
    BY DEF Recent
  <1>3. PICK longer \in Seq(Recent) : longer = <<first>> \o others
    <2>1. <<first>> \in Seq(Recent)
      OBVIOUS
    <2>2. <<first>> \o others \in Seq(Recent)
      BY <2>1, ConcatProperties
    <2>3. QED
      BY <2>2
  <1>4. /\ Len(longer) = Len(others) + 1
        /\ \A i \in 1 .. Len(longer) : longer[i] = IF i = 1 THEN first ELSE others[i - 1]
    BY <1>3
  <1>5. NamedOnce(longer)
    <2>1. SUFFICES ASSUME NEW i \in 1 .. Len(longer), NEW j \in 1 .. Len(longer), i < j
                   PROVE  longer[i].path # longer[j].path
      BY DEF NamedOnce
    <2>2. first.path = f
      BY <1>2
    <2>3. j - 1 \in DOMAIN others /\ longer[j] = others[j - 1]
      BY <1>4, <2>1
    <2>4. CASE i = 1
      BY <1>1, <1>4, <2>2, <2>3, <2>4
    <2>5. CASE i # 1
      <3>1. i - 1 \in DOMAIN others /\ longer[i] = others[i - 1] /\ i - 1 # j - 1
        BY <1>4, <2>1, <2>5
      <3>2. QED
        BY <1>1, <2>3, <3>1 DEF NamedOnce
    <2>6. QED
      BY <2>4, <2>5
  <1>6. new = IF Len(longer) > MaxRecent THEN SubSeq(longer, 1, MaxRecent) ELSE longer
    BY <1>1, <1>2, <1>3 DEF UpdateRecentMedia, Without
  <1>7. CASE Len(longer) > MaxRecent
    <2>1. /\ new \in Seq(Recent) /\ Len(new) = MaxRecent
          /\ \A i \in 1 .. MaxRecent : new[i] = longer[i]
      BY <1>6, <1>7, MediaAssumption, SubSeqProperties
    <2>2. DOMAIN new = 1 .. MaxRecent /\ 1 .. MaxRecent \subseteq DOMAIN longer
      BY <1>7, <2>1, MediaAssumption
    <2>3. NamedOnce(new)
      BY <1>5, <2>1, <2>2 DEF NamedOnce
    <2>4. QED
      BY <2>1, <2>3, MediaAssumption
  <1>8. CASE ~(Len(longer) > MaxRecent)
    BY <1>5, <1>6, <1>8, MediaAssumption
  <1>9. QED
    BY <1>7, <1>8

----------------------------------------------------------------------------
(* mpv and the frame loop.                                                 *)

\* The player with nothing else running.
MediaSpec == MediaInit /\ [][MediaNext]_mediaVars

LocalFiles == [path : Media \cup {NoMedia}, valid : BOOLEAN, sent : BOOLEAN, duration : Nat]

\* What mpv keeps: it is at an entry of its playlist, and has a path unless it is idle.
MpvOK ==
    /\ playlist \in Seq(Media) /\ Len(playlist) <= MaxQueue
    /\ at \in 0 .. Len(playlist)
    /\ core \in {"idle", "opening", "open"} /\ path \in Media \cup {NoMedia}
    /\ core = "idle" <=> path = NoMedia
    /\ switch \in BOOLEAN /\ mpvEvents \in Seq({"end", "failed", "loaded"})

\* What the frame loop keeps.
UiOK ==
    /\ localFile \in LocalFiles /\ streamOpening \in BOOLEAN
    /\ recentMedia \in Seq(Recent) /\ Len(recentMedia) <= MaxRecent /\ NamedOnce(recentMedia)
    /\ seen \in [count : Nat, at : Nat, duration : Nat, position : Media \cup {NoMedia}]

\* mpv has something to open, to leave or to report.
Busy == switch \/ core = "opening" \/ mpvEvents # <<>>

MediaInv == MpvOK /\ UiOK /\ (streamOpening => Busy)

LEMMA MediaInvImplies == MediaInv => MediaTypeOK /\ IndicatorHasAReason
  <1> SUFFICES ASSUME MediaInv
               PROVE  MediaTypeOK /\ IndicatorHasAReason
    OBVIOUS
  <1>1. localFile.path \in Media \cup {NoMedia}
    BY DEF MediaInv, UiOK, LocalFiles
  <1>2. QED
    BY <1>1 DEF MediaInv, MpvOK, UiOK, NamedOnce, MediaTypeOK, Busy, IndicatorHasAReason

LEMMA MediaInitInv == MediaInit => MediaInv
  <1> SUFFICES ASSUME MediaInit
               PROVE  MediaInv
    OBVIOUS
  <1>1. MpvOK
    <2>1. playlist = <<>> /\ <<>> \in Seq(Media) /\ Len(<<>>) = 0 /\ at = 0
      BY DEF MediaInit
    <2>2. core = "idle" /\ path = NoMedia /\ switch = FALSE /\ mpvEvents = <<>>
      BY DEF MediaInit
    <2>3. switch \in BOOLEAN /\ mpvEvents \in Seq({"end", "failed", "loaded"})
      <3>1. <<>> \in Seq({"end", "failed", "loaded"})
        BY EmptySeq
      <3>2. QED
        BY <2>2, <3>1
    <2>4. playlist \in Seq(Media) /\ Len(playlist) <= MaxQueue /\ at \in 0 .. Len(playlist)
      BY <2>1, MediaAssumption
    <2>5. QED
      BY <2>2, <2>3, <2>4 DEF MpvOK
  <1>2. localFile \in LocalFiles
    BY DEF MediaInit, NoLocalFile, LocalFiles
  <1>3. recentMedia \in Seq(Recent) /\ Len(recentMedia) <= MaxRecent /\ NamedOnce(recentMedia)
    BY MediaAssumption DEF MediaInit, NamedOnce
  <1>4. seen \in [count : Nat, at : Nat, duration : Nat, position : Media \cup {NoMedia}]
    BY DEF MediaInit
  <1>5. streamOpening = FALSE
    BY DEF MediaInit
  <1>6. QED
    BY <1>1, <1>2, <1>3, <1>4, <1>5 DEF MediaInv, UiOK

LEMMA LocalFileType ==
    ASSUME NEW f \in Media
    PROVE  LocalFile(f) \in LocalFiles
  BY DEF LocalFile, NoLocalFile, LocalFiles

\* Commands leave mpv's playlist in order, and what it is busy with.
LEMMA PlaysKeeps ==
    ASSUME MpvOK, NEW list \in Seq(Media), Len(list) <= MaxQueue, NEW k \in 0 .. Len(list),
           Plays(list, k)
    PROVE  MpvOK' /\ (Busy => Busy') /\ (k # 0 => Busy')
  <1>1. k # 0 => list[k] \in Media
    OBVIOUS
  <1>2. playlist' = list /\ at' = k /\ mpvEvents' = mpvEvents
    BY DEF Plays
  <1>3. CASE core = "idle"
    <2>1. Opens(list, k) /\ switch' = switch
      BY <1>3 DEF Plays
    <2>2. CASE k = 0
      BY <1>2, <1>3, <2>1, <2>2 DEF Opens, MpvOK, Busy
    <2>3. CASE k # 0
      <3>1. core' = "opening" /\ path' \in Media
        BY <1>1, <2>1, <2>3 DEF Opens
      <3>2. QED
        BY <1>2, <2>1, <3>1, MediaAssumption DEF MpvOK, Busy
    <2>4. QED
      BY <2>2, <2>3
  <1>4. CASE core # "idle"
    <2>1. switch' = TRUE /\ core' = core /\ path' = path
      BY <1>4 DEF Plays
    <2>2. QED
      BY <1>2, <2>1 DEF MpvOK, Busy
  <1>5. QED
    BY <1>3, <1>4

LEMMA QueuesKeeps ==
    ASSUME MpvOK, NEW list \in Seq(Media), Len(list) <= MaxQueue, NEW k \in 0 .. Len(list),
           Queues(list, k)
    PROVE  MpvOK' /\ (Busy => Busy')
  BY DEF Queues, MpvOK, Busy

LEMMA MpvStepKeeps ==
    ASSUME MediaInv, MpvStep
    PROVE  MediaInv'
  <1>1. UiOK' /\ streamOpening' = streamOpening
    BY DEF MediaInv, MpvStep, UiOK, fileVars, NamedOnce
  <1>2. \A e \in {"end", "failed", "loaded"} :
           /\ Append(mpvEvents, e) \in Seq({"end", "failed", "loaded"})
           /\ Append(mpvEvents, e) # <<>>
    BY DEF MediaInv, MpvOK
  <1>3. \A k \in 1 .. Len(playlist) : playlist[k] \in Media
    BY DEF MediaInv, MpvOK
  <1>4. ASSUME NEW k \in 0 .. Len(playlist), Opens(playlist, k)
        PROVE  /\ core' \in {"idle", "opening"} /\ path' \in Media \cup {NoMedia}
               /\ core' = "idle" <=> path' = NoMedia
    <2>1. CASE k = 0
      BY <1>4, <2>1 DEF Opens
    <2>2. CASE k # 0
      BY <1>3, <1>4, <2>2, MediaAssumption DEF Opens
    <2>3. QED
      BY <2>1, <2>2
  <1>5. CASE MpvLeaves
    BY <1>1, <1>2, <1>4, <1>5 DEF MpvLeaves, MediaInv, MpvOK, Busy
  <1>6. CASE MpvLoads
    BY <1>1, <1>2, <1>6 DEF MpvLoads, MediaInv, MpvOK, Busy
  <1>7. CASE MpvEnds
    <2>1. /\ mpvEvents' \in Seq({"end", "failed", "loaded"}) /\ mpvEvents' # <<>>
          /\ playlist' = playlist /\ switch' = switch
      BY <1>2, <1>7 DEF MpvEnds
    <2>2. at' \in 0 .. Len(playlist) /\ Opens(playlist, at')
      BY <1>7 DEF MpvEnds, MediaInv, MpvOK
    <2>3. QED
      BY <1>1, <1>4, <2>1, <2>2 DEF MediaInv, MpvOK, Busy
  <1>8. QED
    BY <1>5, <1>6, <1>7 DEF MpvStep

\* What a command does to the frame loop's own variables.
Commanded == localFile' \in LocalFiles /\ UNCHANGED <<streamOpening, recentMedia, seen>>

LEMMA CommandedKeeps ==
    ASSUME MediaInv, MpvOK', Busy => Busy', Commanded
    PROVE  MediaInv'
  BY DEF MediaInv, UiOK, Commanded, NamedOnce

LEMMA BatchesAreLists ==
    ASSUME NEW fs \in Batches
    PROVE  fs \in Seq(Media) /\ Len(fs) \in 1 .. 2 /\ Head(fs) \in Media
  <1>1. PICK n \in 1 .. 2 : fs \in [1 .. n -> Media \ Streams]
    BY DEF Batches
  <1>2. fs \in Seq(Media) /\ Len(fs) = n
    BY <1>1
  <1>3. QED
    BY <1>2

\* A list that takes the place of the one that plays.
LEMMA NewListKeeps ==
    ASSUME MediaInv, NEW list \in Seq(Media), Len(list) \in 1 .. 2, Plays(list, 1),
           UNCHANGED <<seen, recentMedia>>, localFile' \in LocalFiles,
           streamOpening' \in {streamOpening, TRUE}
    PROVE  MediaInv'
  <1>1. Len(list) <= MaxQueue /\ 1 \in 0 .. Len(list)
    <2>1. MaxQueue \in Nat \ {0, 1}
      BY MediaAssumption
    <2>2. MaxQueue \in Int /\ MaxQueue >= 2
      BY <2>1
    <2>3. PICK n \in 1 .. 2 : n = Len(list)
      OBVIOUS
    <2>4. QED
      BY <2>2, <2>3
  <1>2. MpvOK' /\ Busy'
    BY <1>1, PlaysKeeps DEF MediaInv
  <1>3. QED
    BY <1>2 DEF MediaInv, UiOK, NamedOnce

LEMMA OpenKeeps ==
    ASSUME MediaInv,
           \/ OpenArgument
           \/ \E f \in Media : PlayLocalFile(f) \/ OpenNetworkUrl(f)
           \/ \E fs \in Batches : DropFiles(fs)
    PROVE  MediaInv'
  <1>1. ASSUME NEW f \in Media
        PROVE  /\ <<f>> \in Seq(Media) /\ Len(<<f>>) \in 1 .. 2
               /\ LocalFile(f) \in LocalFiles
    BY LocalFileType
  <1>2. ASSUME NEW f \in Media, Plays(<<f>>, 1), localFile' = LocalFile(f),
               UNCHANGED <<seen, recentMedia>>, streamOpening' \in {streamOpening, TRUE}
        PROVE  MediaInv'
    BY <1>1, <1>2, NewListKeeps
  <1>3. CASE OpenArgument
    <2>1. CASE UNCHANGED <<mpvVars, localFile>>
      BY <1>3, <2>1 DEF OpenArgument, mpvVars, MediaInv, MpvOK, UiOK, NamedOnce, Busy
    <2>2. ASSUME NEW f \in Media \ Streams, Plays(<<f>>, 1), localFile' = LocalFile(f)
          PROVE  MediaInv'
      BY <1>2, <1>3, <2>2 DEF OpenArgument
    <2>3. QED
      BY <1>3, <2>1, <2>2 DEF OpenArgument
  <1>4. ASSUME NEW f \in Media, PlayLocalFile(f)
        PROVE  MediaInv'
    BY <1>2, <1>4 DEF PlayLocalFile, Command
  <1>5. ASSUME NEW f \in Media, OpenNetworkUrl(f)
        PROVE  MediaInv'
    BY <1>2, <1>5 DEF OpenNetworkUrl, Command
  <1>6. ASSUME NEW fs \in Batches, DropFiles(fs)
        PROVE  MediaInv'
    <2>1. fs \in Seq(Media) /\ Len(fs) \in 1 .. 2 /\ LocalFile(Head(fs)) \in LocalFiles
      BY BatchesAreLists, LocalFileType
    <2>2. QED
      BY <1>6, <2>1, NewListKeeps DEF DropFiles, Command
  <1>7. QED
    BY <1>3, <1>4, <1>5, <1>6

LEMMA ForwardedFilesKeeps ==
    ASSUME MediaInv, NEW fs \in Batches, ForwardedFiles(fs)
    PROVE  MediaInv'
  <1>1. fs \in Seq(Media) /\ Len(fs) \in 1 .. 2 /\ LocalFile(Head(fs)) \in LocalFiles
    BY BatchesAreLists, LocalFileType
  <1>2. UNCHANGED <<seen, recentMedia, streamOpening>>
    BY DEF ForwardedFiles, Command
  <1>3. CASE seen.count > 0
    <2>1. /\ Queues(playlist \o fs, at) /\ localFile' = localFile
          /\ Len(playlist \o fs) <= MaxQueue
      BY <1>3 DEF ForwardedFiles
    <2>2. PICK list \in Seq(Media) : list = playlist \o fs /\ at \in 0 .. Len(list)
      <3>1. playlist \in Seq(Media) /\ at \in 0 .. Len(playlist) /\ Len(playlist) \in Nat
        BY DEF MediaInv, MpvOK
      <3>2. playlist \o fs \in Seq(Media) /\ Len(playlist \o fs) = Len(playlist) + Len(fs)
        BY <1>1, <3>1, ConcatProperties
      <3>3. at \in 0 .. Len(playlist \o fs)
        BY <1>1, <3>1, <3>2
      <3>4. QED
        BY <3>2, <3>3
    <2>3. MpvOK' /\ (Busy => Busy')
      BY <2>1, <2>2, QueuesKeeps DEF MediaInv
    <2>4. QED
      BY <1>2, <2>1, <2>3, CommandedKeeps DEF Commanded, MediaInv, UiOK
  <1>4. CASE ~(seen.count > 0)
    BY <1>1, <1>2, <1>4, NewListKeeps DEF ForwardedFiles
  <1>5. QED
    BY <1>3, <1>4

LEMMA ControlKeeps ==
    ASSUME MediaInv, StopPlayback \/ PlaylistClear \/ \E d \in {-1, 1} : PlaylistGoes(d)
    PROVE  MediaInv'
  <1>1. UNCHANGED <<seen, recentMedia, streamOpening, localFile>>
    BY DEF StopPlayback, PlaylistClear, PlaylistGoes, Command
  <1>2. localFile \in LocalFiles /\ MpvOK
    BY DEF MediaInv, UiOK
  <1>3. CASE StopPlayback
    <2>1. Plays(<<>>, 0) /\ <<>> \in Seq(Media) /\ Len(<<>>) <= MaxQueue /\ 0 \in 0 .. Len(<<>>)
      BY <1>3, MediaAssumption DEF StopPlayback
    <2>2. MpvOK' /\ (Busy => Busy')
      BY <1>2, <2>1, PlaysKeeps
    <2>3. QED
      BY <1>1, <1>2, <2>2, CommandedKeeps DEF Commanded
  <1>4. CASE PlaylistClear
    <2>1. PICK list \in Seq(Media) :
               Len(list) <= MaxQueue /\ \E k \in 0 .. Len(list) : Queues(list, k)
      <3>1. CASE at = 0
        <4>1. Queues(<<>>, 0) /\ <<>> \in Seq(Media) /\ Len(<<>>) <= MaxQueue
              /\ 0 \in 0 .. Len(<<>>)
          BY <1>4, <3>1, MediaAssumption DEF PlaylistClear
        <4>2. QED
          BY <4>1
      <3>2. CASE at # 0
        <4>1. playlist[at] \in Media
          BY <1>2, <3>2 DEF MpvOK
        <4>2. Queues(<<playlist[at]>>, 1) /\ <<playlist[at]>> \in Seq(Media)
              /\ Len(<<playlist[at]>>) <= MaxQueue /\ 1 \in 0 .. Len(<<playlist[at]>>)
          BY <1>4, <3>2, <4>1, MediaAssumption DEF PlaylistClear
        <4>3. QED
          BY <4>2
      <3>3. QED
        BY <3>1, <3>2
    <2>2. MpvOK' /\ (Busy => Busy')
      BY <1>2, <2>1, QueuesKeeps
    <2>3. QED
      BY <1>1, <1>2, <2>2, CommandedKeeps DEF Commanded
  <1>5. ASSUME NEW d \in {-1, 1}, PlaylistGoes(d)
        PROVE  MediaInv'
    <2>1. CASE at + d \in 1 .. Len(playlist)
      <3>1. Plays(playlist, at + d) /\ at + d \in 0 .. Len(playlist)
        BY <1>2, <1>5, <2>1 DEF PlaylistGoes, MpvOK
      <3>2. playlist \in Seq(Media) /\ Len(playlist) <= MaxQueue
        BY <1>2 DEF MpvOK
      <3>3. MpvOK' /\ (Busy => Busy')
        BY <1>2, <3>1, <3>2, PlaysKeeps
      <3>4. QED
        BY <1>1, <1>2, <3>3, CommandedKeeps DEF Commanded
    <2>2. CASE ~(at + d \in 1 .. Len(playlist))
      <3>1. UNCHANGED mpvVars
        BY <1>5, <2>2 DEF PlaylistGoes
      <3>2. MpvOK' /\ (Busy => Busy')
        BY <1>2, <3>1 DEF mpvVars, MpvOK, Busy
      <3>3. QED
        BY <1>1, <1>2, <3>2, CommandedKeeps DEF Commanded
    <2>3. QED
      BY <2>1, <2>2
  <1>6. QED
    BY <1>3, <1>4, <1>5

LEMMA AddKeeps ==
    ASSUME MediaInv, NEW f \in Media, PlaylistAdd(f)
    PROVE  MediaInv'
  <1>1. UNCHANGED <<seen, recentMedia, streamOpening>>
    BY DEF PlaylistAdd, Command
  <1>2. localFile \in LocalFiles /\ MpvOK /\ LocalFile(f) \in LocalFiles
    BY LocalFileType DEF MediaInv, UiOK
  <1>3. CASE playlist = <<>>
    <2>1. <<f>> \in Seq(Media) /\ Len(<<f>>) \in 1 .. 2
      OBVIOUS
    <2>2. QED
      BY <1>1, <1>2, <1>3, <2>1, NewListKeeps DEF PlaylistAdd
  <1>4. CASE playlist # <<>>
    <2>1. /\ Len(playlist) < MaxQueue /\ Queues(Append(playlist, f), at)
          /\ localFile' = localFile
      BY <1>4 DEF PlaylistAdd
    <2>2. PICK list \in Seq(Media) : /\ list = Append(playlist, f)
                                     /\ Len(list) = Len(playlist) + 1
      <3>1. playlist \in Seq(Media)
        BY <1>2 DEF MpvOK
      <3>2. Append(playlist, f) \in Seq(Media) /\ Len(Append(playlist, f)) = Len(playlist) + 1
        BY <3>1
      <3>3. QED
        BY <3>2
    <2>3. at \in 0 .. Len(list) /\ Len(list) <= MaxQueue
      BY <1>2, <2>1, <2>2, MediaAssumption DEF MpvOK
    <2>4. MpvOK' /\ (Busy => Busy')
      BY <1>2, <2>1, <2>2, <2>3, QueuesKeeps
    <2>5. QED
      BY <1>1, <1>2, <2>1, <2>4, CommandedKeeps DEF Commanded
  <1>5. QED
    BY <1>3, <1>4

\* A click on a row.
LEMMA PlayRowKeeps ==
    ASSUME MediaInv, NEW row, PlaylistPlay(row)
    PROVE  MediaInv'
  <1>1. localFile \in LocalFiles /\ MpvOK
    BY DEF MediaInv, UiOK
  <1>2. /\ playlist \in Seq(Media) /\ Len(playlist) <= MaxQueue
        /\ row \in 0 .. Len(playlist) /\ Plays(playlist, row)
    BY <1>1 DEF MpvOK, PlaylistPlay
  <1>3. MpvOK' /\ (Busy => Busy')
    BY <1>1, <1>2, PlaysKeeps
  <1>4. UNCHANGED <<seen, recentMedia, streamOpening, localFile>>
    BY DEF PlaylistPlay, Command
  <1>5. QED
    BY <1>1, <1>3, <1>4, CommandedKeeps DEF Commanded

LEMMA RemoveRowKeeps ==
    ASSUME MediaInv, NEW row, PlaylistRemove(row)
    PROVE  MediaInv'
  <1>1. localFile \in LocalFiles /\ MpvOK
    BY DEF MediaInv, UiOK
  <1>2. playlist \in Seq(Media) /\ row \in 1 .. Len(playlist) /\ at \in 0 .. Len(playlist)
    BY <1>1 DEF MpvOK, PlaylistRemove
  <1>3. PICK rest \in Seq(Media) :
             rest = RemoveAt(playlist, row) /\ Len(rest) = Len(playlist) - 1
    BY <1>2, RemoveAtIs
  <1>4. Len(rest) <= MaxQueue
    BY <1>1, <1>3, MediaAssumption DEF MpvOK
  <1>5. MpvOK' /\ (Busy => Busy')
    <2>1. CASE row = at
      <3>1. PICK k \in 0 .. Len(rest) : k = IF at > Len(rest) THEN 0 ELSE at
        BY <1>2, <1>3
      <3>2. Plays(rest, k)
        BY <1>3, <2>1, <3>1 DEF PlaylistRemove
      <3>3. QED
        BY <1>1, <1>3, <1>4, <3>1, <3>2, PlaysKeeps
    <2>2. CASE row # at
      <3>1. PICK k \in 0 .. Len(rest) : k = IF row < at THEN at - 1 ELSE at
        BY <1>2, <1>3, <2>2
      <3>2. Queues(rest, k)
        BY <1>3, <2>2, <3>1 DEF PlaylistRemove
      <3>3. QED
        BY <1>1, <1>3, <1>4, <3>1, <3>2, QueuesKeeps
    <2>3. QED
      BY <2>1, <2>2
  <1>6. UNCHANGED <<seen, recentMedia, streamOpening, localFile>>
    BY DEF PlaylistRemove, Command
  <1>7. QED
    BY <1>1, <1>5, <1>6, CommandedKeeps DEF Commanded

\* What a row that is dragged does to the playlist: the moved row and the others,
\* the entry mpv is at among them.
LEMMA MoveRowIs ==
    ASSUME MpvOK, NEW from, NEW to, PlaylistMove(from, to)
    PROVE  /\ from \in 1 .. Len(playlist) /\ to \in 1 .. Len(playlist)
           /\ playlist' \in Seq(Media) /\ Len(playlist') = Len(playlist)
           /\ playlist'[to] = playlist[from]
           /\ \A j \in 1 .. Len(playlist) - 1 :
                 playlist'[Past(to, j)] = playlist[Past(from, j)]
           /\ Queues(playlist', at') /\ at' \in 0 .. Len(playlist)
           /\ at # 0 => at' # 0 /\ playlist'[at'] = playlist[at]
  <1>1. /\ playlist \in Seq(Media) /\ DOMAIN playlist = 1 .. Len(playlist)
        /\ Len(playlist) \in Nat /\ at \in 0 .. Len(playlist)
    BY DEF MpvOK
  <1>2. from \in 1 .. Len(playlist) /\ to \in 1 .. Len(playlist)
    BY <1>1 DEF PlaylistMove
  <1>3. PICK rows \in Seq(1 .. Len(playlist)) :
             /\ rows = [k \in DOMAIN playlist |-> k]
             /\ Len(rows) = Len(playlist) /\ \A k \in 1 .. Len(playlist) : rows[k] = k
    <2>1. PICK n \in Nat : n = Len(playlist)
      BY <1>1
    <2>2. PICK rows : rows = [k \in 1 .. n |-> k]
      OBVIOUS
    <2>3. rows \in [1 .. n -> 1 .. n] /\ \A k \in 1 .. n : rows[k] = k
      BY <2>2
    <2>4. rows \in Seq(1 .. n) /\ Len(rows) = n
      BY <2>1, <2>3
    <2>5. QED
      BY <1>1, <2>1, <2>2, <2>3, <2>4
  <1>4. PICK order \in Seq(1 .. Len(playlist)) :
             /\ order = Moved(rows, from, MoveTarget(from, to))
             /\ Len(order) = Len(rows) /\ order[to] = rows[from]
             /\ \A j \in 1 .. Len(rows) - 1 : order[Past(to, j)] = rows[Past(from, j)]
    <2>1. from \in 1 .. Len(rows) /\ to \in 1 .. Len(rows)
      BY <1>2, <1>3
    <2>2. PICK order : order = DropOn(rows, from, to)
      OBVIOUS
    <2>3. PICK S : S = 1 .. Len(playlist)
      OBVIOUS
    <2>4. rows \in Seq(S)
      BY <1>3, <2>3
    <2>5. order \in Seq(S) /\ Len(order) = Len(rows)
      BY <2>1, <2>2, <2>4, MovedIs
    <2>6. order[to] = rows[from]
      <3>1. DropOn(rows, from, to)[to] = rows[from]
        BY <2>1, <2>4, MovedIs
      <3>2. QED
        BY <2>2, <3>1
    <2>7. ASSUME NEW j \in 1 .. Len(rows) - 1
          PROVE  order[Past(to, j)] = rows[Past(from, j)]
      <3>1. DropOn(rows, from, to)[Past(to, j)] = rows[Past(from, j)]
        BY <2>1, <2>4, MovedIs
      <3>2. QED
        BY <2>2, <3>1
    <2>8. QED
      BY <2>2, <2>3, <2>5, <2>6, <2>7 DEF DropOn
  <1>5. /\ Len(order) = Len(playlist) /\ order[to] = from
        /\ \A j \in 1 .. Len(playlist) - 1 :
              order[Past(to, j)] = Past(from, j)
    <2>1. \A j \in 1 .. Len(playlist) - 1 : Past(from, j) \in 1 .. Len(playlist)
      BY <1>1, <1>2, PastIs
    <2>2. QED
      BY <1>2, <1>3, <1>4, <2>1
  <1>6. /\ playlist' = [k \in DOMAIN order |-> playlist[order[k]]]
        /\ at' = IF at = 0 THEN 0 ELSE CHOOSE k \in DOMAIN order : order[k] = at
    BY <1>3, <1>4 DEF PlaylistMove, Queues
  <1>7. /\ DOMAIN order = 1 .. Len(playlist)
        /\ \A k \in 1 .. Len(playlist) : order[k] \in 1 .. Len(playlist)
    BY <1>4, <1>5
  <1>8. \A k \in 1 .. Len(playlist) : playlist'[k] = playlist[order[k]]
    BY <1>6, <1>7
  <1>9. playlist' \in Seq(Media) /\ Len(playlist') = Len(playlist)
    BY <1>1, <1>6, <1>7
  <1>10. ASSUME at # 0
         PROVE  \E k \in 1 .. Len(playlist) : order[k] = at
    <2>1. CASE at = from
      BY <1>2, <1>5, <2>1
    <2>2. CASE at # from
      <3>1. PICK j \in 1 .. Len(playlist) - 1 : j = IF at < from THEN at ELSE at - 1
        BY <1>1, <1>2, <1>10, <2>2
      <3>2. Past(from, j) = at
        BY <1>1, <1>2, <2>2, <3>1 DEF Past
      <3>3. PICK k \in 1 .. Len(playlist) : k = Past(to, j)
        BY <1>1, <1>2, PastIs
      <3>4. order[k] = at
        BY <1>5, <3>1, <3>2, <3>3
      <3>5. QED
        BY <3>4
    <2>3. QED
      BY <2>1, <2>2
  <1>11. at # 0 => at' \in 1 .. Len(playlist) /\ order[at'] = at
    BY <1>6, <1>7, <1>10
  <1>12. at' \in 0 .. Len(playlist)
    BY <1>1, <1>6, <1>11
  <1>13. Queues(playlist', at')
    BY DEF PlaylistMove, Queues
  <1>14. ASSUME NEW j \in 1 .. Len(playlist) - 1
         PROVE  playlist'[Past(to, j)] = playlist[Past(from, j)]
    <2>1. PICK n \in 1 .. Len(playlist) : n = Past(to, j)
      BY <1>1, <1>2, PastIs
    <2>2. order[n] = Past(from, j)
      BY <1>5, <2>1
    <2>3. QED
      BY <1>8, <2>1, <2>2
  <1>15. playlist'[to] = playlist[from]
    BY <1>2, <1>5, <1>8
  <1>16. at # 0 => at' # 0 /\ playlist'[at'] = playlist[at]
    BY <1>8, <1>11
  <1>17. QED
    BY <1>2, <1>9, <1>12, <1>13, <1>14, <1>15, <1>16

LEMMA MoveRowKeeps ==
    ASSUME MediaInv, NEW from, NEW to, PlaylistMove(from, to)
    PROVE  MediaInv'
  <1>1. MpvOK /\ localFile \in LocalFiles
    BY DEF MediaInv, UiOK
  <1>2. PICK list \in Seq(Media), k \in Nat :
             /\ list = playlist' /\ k = at'
             /\ Len(list) = Len(playlist) /\ k \in 0 .. Len(playlist) /\ Queues(list, k)
    BY <1>1, MoveRowIs
  <1>3. Len(list) <= MaxQueue /\ k \in 0 .. Len(list)
    BY <1>1, <1>2 DEF MpvOK
  <1>4. MpvOK' /\ (Busy => Busy')
    BY <1>1, <1>2, <1>3, QueuesKeeps
  <1>5. UNCHANGED <<seen, recentMedia, streamOpening, localFile>>
    BY DEF PlaylistMove, Command
  <1>6. QED
    BY <1>1, <1>4, <1>5, CommandedKeeps DEF Commanded

\* An event that is handled was the reason of the indicator, if it was the last.
LEMMA HandleEventKeeps ==
    ASSUME MediaInv, HandleEvent
    PROVE  MediaInv'
  <1>1. MpvOK'
    <2>1. Tail(mpvEvents) \in Seq({"end", "failed", "loaded"})
      BY DEF HandleEvent, MediaInv, MpvOK
    <2>2. QED
      BY <2>1 DEF HandleEvent, MediaInv, MpvOK
  <1>2. streamOpening' = FALSE
    BY DEF HandleEvent, FileLoaded, EndOfFile
  <1>3. /\ localFile' \in LocalFiles
        /\ recentMedia' \in Seq(Recent) /\ Len(recentMedia') <= MaxRecent
        /\ NamedOnce(recentMedia')
    <2>1. /\ localFile \in LocalFiles /\ recentMedia \in Seq(Recent)
          /\ Len(recentMedia) <= MaxRecent /\ NamedOnce(recentMedia)
          /\ path \in Media \cup {NoMedia}
      BY DEF MediaInv, UiOK, MpvOK
    <2>2. CASE FileLoaded
      <3>1. localFile' \in LocalFiles
        BY <2>1, <2>2, LocalFileType DEF FileLoaded, UpdateLocalFileFromMpv
      <3>2. CASE path = NoMedia
        BY <2>1, <2>2, <3>1, <3>2 DEF FileLoaded
      <3>3. CASE path # NoMedia
        <4>1. path \in Media
          BY <2>1, <3>3
        <4>2. PICK position \in Media \cup {NoMedia} :
                   recentMedia' = UpdateRecentMedia(recentMedia, path, position)
          BY <2>1, <2>2, <3>3 DEF FileLoaded
        <4>3. QED
          BY <2>1, <3>1, <4>1, <4>2, UpdateRecentMediaKeeps
      <3>4. QED
        BY <3>2, <3>3
    <2>3. CASE EndOfFile
      BY <2>1, <2>3 DEF EndOfFile, NamedOnce
    <2>4. QED
      BY <2>2, <2>3 DEF HandleEvent
  <1>4. seen' = seen
    BY DEF HandleEvent
  <1>5. QED
    BY <1>1, <1>2, <1>3, <1>4 DEF MediaInv, UiOK

LEMMA DurationNowType ==
    ASSUME MpvOK
    PROVE  DurationNow \in Nat
  <1>1. CASE core = "open"
    <2>1. path \in Media
      BY <1>1 DEF MpvOK
    <2>2. QED
      BY <1>1, <2>1, MediaAssumption DEF DurationNow
  <1>2. CASE core # "open"
    BY <1>2 DEF DurationNow
  <1>3. QED
    BY <1>1, <1>2

LEMMA FrameKeeps ==
    ASSUME MediaInv, Frame
    PROVE  MediaInv'
  <1>1. CASE HandleEvent
    BY <1>1, HandleEventKeeps
  <1>2. CASE EventsHandled
    BY <1>2 DEF EventsHandled, MediaInv, MpvOK, UiOK, Busy, NamedOnce, mpvVars, fileVars
  <1>3. MpvOK /\ seen \in [count : Nat, at : Nat, duration : Nat, position : Media \cup {NoMedia}]
    BY DEF MediaInv, UiOK
  <1>4. CASE ReadPosition
    <2>1. PICK d \in Nat, f \in Media \cup {NoMedia} :
               /\ d = DurationNow /\ f = IF core = "open" THEN path ELSE NoMedia
      BY <1>3, DurationNowType DEF MpvOK
    <2>2. seen' = [seen EXCEPT !.duration = d, !.position = f]
      BY <1>4, <2>1 DEF ReadPosition
    <2>3. seen' \in [count : Nat, at : Nat, duration : Nat, position : Media \cup {NoMedia}]
      BY <1>3, <2>2
    <2>4. UNCHANGED <<mpvVars, fileVars>>
      BY <1>4 DEF ReadPosition
    <2>5. QED
      BY <2>3, <2>4 DEF MediaInv, MpvOK, UiOK, Busy, NamedOnce, mpvVars, fileVars
  <1>5. CASE SavePosition
    <2>1. PICK n \in Nat, k \in Nat : n = Len(playlist) /\ k = at
      BY <1>3 DEF MpvOK
    <2>2. seen' = [seen EXCEPT !.count = n, !.at = k, !.position = NoMedia]
      BY <1>5, <2>1 DEF SavePosition
    <2>3. seen' \in [count : Nat, at : Nat, duration : Nat, position : Media \cup {NoMedia}]
      BY <1>3, <2>2
    <2>4. UNCHANGED <<mpvVars, localFile, streamOpening>>
      BY <1>5 DEF SavePosition
    <2>5. recentMedia \in Seq(Recent) /\ Len(recentMedia) <= MaxRecent /\ NamedOnce(recentMedia)
      BY DEF MediaInv, UiOK
    <2>6. /\ recentMedia' \in Seq(Recent) /\ Len(recentMedia') <= MaxRecent
          /\ NamedOnce(recentMedia')
      <3>1. CASE UNCHANGED recentMedia
        BY <2>5, <3>1 DEF NamedOnce
      <3>2. CASE path # NoMedia /\ recentMedia' = UpdateRecentMedia(recentMedia, path, seen.position)
        <4>1. path \in Media
          BY <1>3, <3>2 DEF MpvOK
        <4>2. PICK position \in Media \cup {NoMedia} : position = seen.position
          BY <1>3
        <4>3. QED
          BY <2>5, <3>2, <4>1, <4>2, UpdateRecentMediaKeeps
      <3>3. QED
        BY <1>5, <3>1, <3>2 DEF SavePosition
    <2>7. QED
      BY <2>3, <2>4, <2>6 DEF MediaInv, MpvOK, UiOK, Busy, mpvVars
  <1>6. CASE Announce
    <2>1. localFile \in LocalFiles
      BY DEF MediaInv, UiOK
    <2>2. localFile' \in LocalFiles
      <3>1. PICK d \in Nat : d = seen.duration
        BY <1>3
      <3>2. [localFile EXCEPT !.sent = TRUE, !.duration = d] \in LocalFiles
        BY <2>1 DEF LocalFiles
      <3>3. localFile' \in {localFile, [localFile EXCEPT !.sent = TRUE, !.duration = d]}
        BY <1>6, <3>1 DEF Announce
      <3>4. QED
        BY <2>1, <3>2, <3>3
    <2>3. UNCHANGED <<mpvVars, streamOpening, recentMedia, seen>>
      BY <1>6 DEF Announce
    <2>4. QED
      BY <2>2, <2>3 DEF MediaInv, MpvOK, UiOK, Busy, NamedOnce, mpvVars
  <1>7. QED
    BY <1>1, <1>2, <1>4, <1>5, <1>6 DEF Frame

LEMMA MediaStep == MediaInv /\ [MediaNext]_mediaVars => MediaInv'
  <1> SUFFICES ASSUME MediaInv, [MediaNext]_mediaVars
               PROVE  MediaInv'
    OBVIOUS
  <1>1. CASE MpvStep
    BY <1>1, MpvStepKeeps
  <1>2. CASE Frame
    BY <1>2, FrameKeeps
  <1>3. CASE OpenArgument
    BY <1>3, OpenKeeps
  <1>4. CASE \E fs \in Batches : ForwardedFiles(fs) \/ DropFiles(fs)
    BY <1>4, ForwardedFilesKeeps, OpenKeeps
  <1>5. CASE \E f \in Media : PlayLocalFile(f) \/ OpenNetworkUrl(f) \/ PlaylistAdd(f)
    BY <1>5, OpenKeeps, AddKeeps
  <1>6. CASE StopPlayback \/ PlaylistClear \/ \E d \in {-1, 1} : PlaylistGoes(d)
    BY <1>6, ControlKeeps
  <1>7. CASE \E row \in 1 .. MaxQueue : PlaylistPlay(row) \/ PlaylistRemove(row)
    BY <1>7, PlayRowKeeps, RemoveRowKeeps
  <1>8. CASE \E from, to \in 1 .. MaxQueue : PlaylistMove(from, to)
    BY <1>8, MoveRowKeeps
  <1>9. CASE UNCHANGED mediaVars
    BY <1>9 DEF mediaVars, mpvVars, fileVars, MediaInv, MpvOK, UiOK, Busy, NamedOnce
  <1>10. QED
    BY <1>1, <1>2, <1>3, <1>4, <1>5, <1>6, <1>7, <1>8, <1>9 DEF MediaNext

\* Whatever is opened, queued, moved and removed, and whatever mpv reports of it
\* meanwhile: the loop and mpv point to rows of the playlist, no file is twice among
\* those to continue, and "Connecting stream" is shown only while mpv has to act.
THEOREM MediaTheorem == MediaSpec => [](MediaTypeOK /\ IndicatorHasAReason)
  <1>1. MediaInit => MediaInv
    BY MediaInitInv
  <1>2. MediaInv /\ [MediaNext]_mediaVars => MediaInv'
    BY MediaStep
  <1>3. MediaInv => MediaTypeOK /\ IndicatorHasAReason
    BY MediaInvImplies
  <1>4. QED
    BY <1>1, <1>2, <1>3, PTL DEF MediaSpec

\* One row dragged, in a playlist in order: it is where it was dropped, the others
\* keep their order, and the current entry is the same.
LEMMA MovedRowLands ==
    ASSUME MediaInv, NEW from, NEW to, PlaylistMove(from, to)
    PROVE  /\ playlist'[to] = playlist[from]
           /\ RemoveAt(playlist', to) = RemoveAt(playlist, from)
           /\ at # 0 => playlist'[at'] = playlist[at]
  <1>1. MpvOK
    BY DEF MediaInv
  <1>2. PICK old \in Seq(Media) : old = playlist
    BY <1>1 DEF MpvOK
  <1>3. PICK new \in Seq(Media) : new = playlist'
    BY <1>1, MoveRowIs
  <1>4. /\ Len(new) = Len(old) /\ from \in 1 .. Len(old) /\ to \in 1 .. Len(old)
        /\ \A j \in 1 .. Len(old) - 1 : new[Past(to, j)] = old[Past(from, j)]
    BY <1>1, <1>2, <1>3, MoveRowIs
  <1>5. PICK a \in Seq(Media) :
             /\ a = RemoveAt(old, from) /\ Len(a) = Len(old) - 1
             /\ \A j \in 1 .. Len(old) - 1 : a[j] = IF j < from THEN old[j] ELSE old[j + 1]
    BY <1>4, RemoveAtIs
  <1>6. PICK b \in Seq(Media) :
             /\ b = RemoveAt(new, to) /\ Len(b) = Len(old) - 1
             /\ \A j \in 1 .. Len(old) - 1 : b[j] = IF j < to THEN new[j] ELSE new[j + 1]
    <2>1. to \in 1 .. Len(new)
      BY <1>4
    <2>2. /\ RemoveAt(new, to) \in Seq(Media) /\ Len(RemoveAt(new, to)) = Len(new) - 1
          /\ \A j \in 1 .. Len(new) - 1 :
                RemoveAt(new, to)[j] = IF j < to THEN new[j] ELSE new[j + 1]
      BY <2>1, RemoveAtIs
    <2>3. QED
      BY <1>4, <2>2
  <1>7. ASSUME NEW j \in 1 .. Len(old) - 1
        PROVE  a[j] = b[j]
    BY <1>4, <1>5, <1>6 DEF Past
  <1>8. a = b
    BY <1>4, <1>5, <1>6, <1>7, SeqEqual
  <1>9. playlist'[to] = playlist[from] /\ (at # 0 => playlist'[at'] = playlist[at])
    BY <1>1, MoveRowIs
  <1>10. QED
    BY <1>2, <1>3, <1>5, <1>6, <1>8, <1>9

\* A row of the playlist panel lands where it is dropped, for playlists of any length
\* and whatever mpv did to the playlist before.
THEOREM RowsTheorem == MediaSpec => RowLandsWhereDropped
  <1>1. MediaInit => MediaInv
    BY MediaInitInv
  <1>2. MediaInv /\ [MediaNext]_mediaVars => MediaInv'
    BY MediaStep
  <1>3. MediaInv => \A from, to \in 1 .. MaxQueue : PlaylistMove(from, to) =>
            /\ playlist'[to] = playlist[from]
            /\ RemoveAt(playlist', to) = RemoveAt(playlist, from)
            /\ at # 0 => playlist'[at'] = playlist[at]
    BY MovedRowLands
  <1>4. QED
    BY <1>1, <1>2, <1>3, PTL DEF MediaSpec, RowLandsWhereDropped
=============================================================================
