------------------------------ MODULE Settings -------------------------------
(***************************************************************************)
(* What survives a restart (load_config and save_config of                 *)
(* ui/app_state.cpp, the autosave at the end of a frame of main.cpp).      *)
(*                                                                         *)
(* The settings fall into three kinds: those of the picture and of the     *)
(* subtitles, which are also handed to mpv; those whose widgets only set   *)
(* app.dirty; and those that are written but whose widgets do not set it   *)
(* (the server and the code of the join form, the subtitles of the context *)
(* menu).  Each kind is one field here.  The file is truncated before the  *)
(* text is made, so that a crash, or a text that is no UTF-8, leaves an    *)
(* empty file.  A file that cannot be opened or written goes unnoticed.    *)
(***************************************************************************)
EXTENDS Naturals

CONSTANTS Values, Default,    \* of a setting
          NotUtf8             \* a value json refuses to write

ASSUME SettingsAssumption == Default \in Values /\ NotUtf8 \notin Values

Levels == {0, 50, 100}        \* of the volume

VARIABLES
    lifecycle,      \* "off", "running", "saving" or "leaving": the file is empty
    app,            \* AppState: [style, plain, quiet]
    applied,        \* the style mpv has been given
    dirty,
    rested,         \* two seconds have passed since lastSave
    volume, lastVolume, muted,
    disk,           \* config.json: [whole, data], not whole if absent or cut short
    failed,         \* bookkeeping: the last save failed, or the program did
    heard           \* bookkeeping: the last level that was not silence

settingsVars == <<lifecycle, app, applied, dirty, rested, volume, lastVolume, muted, disk,
                  failed, heard>>

Defaults == [style |-> Default, plain |-> Default, quiet |-> Default, volume |-> 100]

\* load_config: what cannot be parsed, as a text cut short, is as good as absent.
Loaded(file) == IF file.whole THEN file.data ELSE Defaults
Empty == [whole |-> FALSE, data |-> Defaults]
Written(data) == [whole |-> TRUE, data |-> data]

\* A slip to check against: a setting is not written.
SnapshotShort == [style |-> app.style, plain |-> app.plain, quiet |-> Default, volume |-> volume]

\* save_config.
Snapshot == [style |-> app.style, plain |-> app.plain, quiet |-> app.quiet, volume |-> volume]

SettingsInit ==
    /\ lifecycle = "off" /\ disk = Empty /\ failed = FALSE /\ heard = 100
    /\ app = [style |-> Default, plain |-> Default, quiet |-> Default]
    /\ applied = Default
    /\ dirty = FALSE /\ rested = FALSE
    /\ volume = 100 /\ lastVolume = 100 /\ muted = FALSE

\* The settings an instance starts from.
FromDisk == [style |-> Loaded(disk).style, plain |-> Loaded(disk).plain,
             quiet |-> Loaded(disk).quiet]

\* load_config, and what was loaded given to mpv without marking it as changed.
StartApp ==
    /\ lifecycle = "off" /\ lifecycle' = "running"
    /\ app' = FromDisk /\ applied' = FromDisk.style
    /\ volume' = Loaded(disk).volume /\ lastVolume' = 100 /\ muted' = FALSE
    /\ dirty' = FALSE /\ rested' = FALSE /\ failed' = FALSE
    /\ UNCHANGED disk

Running == lifecycle = "running" /\ UNCHANGED <<lifecycle, disk, failed>>

\* applyVideoColor, applyToneMapping, applyVideoShaders and applySubtitleStyle.
ApplyStyle(v) == applied' = v /\ dirty' = TRUE

\* The tab "Video" of the settings and the styles of the subtitles.
ChangeStyle(v) ==
    /\ Running /\ v # app.style
    /\ app' = [app EXCEPT !.style = v] /\ ApplyStyle(v)
    /\ UNCHANGED <<rested, volume, lastVolume, muted>>

ResetStyle ==
    /\ Running
    /\ app' = [app EXCEPT !.style = Default] /\ ApplyStyle(Default)
    /\ UNCHANGED <<rested, volume, lastVolume, muted>>

ChangePlain(v) ==
    /\ Running /\ v # app.plain
    /\ app' = [app EXCEPT !.plain = v] /\ dirty' = TRUE
    /\ UNCHANGED <<applied, rested, volume, lastVolume, muted>>

\* An invite link can bring a server name that is no UTF-8.
ChangeQuiet(v) ==
    /\ Running /\ app' = [app EXCEPT !.quiet = v]
    /\ UNCHANGED <<applied, dirty, rested, volume, lastVolume, muted>>

\* applyVolume.
ApplyVolume(v) ==
    /\ Running /\ volume' = v
    /\ muted' = (muted /\ v = 0)
    /\ UNCHANGED <<app, applied, dirty, rested, lastVolume>>

ToggleMute ==
    /\ Running
    /\ IF ~muted /\ volume > 0
       THEN lastVolume' = volume /\ volume' = 0 /\ muted' = TRUE
       ELSE volume' = lastVolume /\ muted' = FALSE /\ UNCHANGED lastVolume
    /\ UNCHANGED <<app, applied, dirty, rested>>

TwoSecondsPass ==
    /\ Running /\ ~rested /\ rested' = TRUE
    /\ UNCHANGED <<app, applied, dirty, volume, lastVolume, muted>>

\* The end of a frame: the file is opened and so emptied.  If it cannot be
\* opened, the settings are taken for saved all the same.
SaveBegins ==
    /\ lifecycle = "running" /\ dirty /\ rested
    /\ \/ /\ disk' = Empty /\ lifecycle' = "saving"
          /\ UNCHANGED <<dirty, rested, failed>>
       \/ /\ dirty' = FALSE /\ rested' = FALSE /\ failed' = TRUE
          /\ UNCHANGED <<disk, lifecycle>>
    /\ UNCHANGED <<app, applied, volume, lastVolume, muted>>

\* The end of the frame loop, likewise.
LeaveBegins ==
    /\ lifecycle = "running"
    /\ \/ disk' = Empty /\ lifecycle' = "leaving" /\ UNCHANGED failed
       \/ lifecycle' = "off" /\ failed' = TRUE /\ UNCHANGED disk
    /\ UNCHANGED <<app, applied, dirty, rested, volume, lastVolume, muted>>

\* The text is written, or no more than a beginning of it, which nobody notices.
Write ==
    \/ disk' = Written(Snapshot) /\ failed' = FALSE
    \/ failed' = TRUE /\ UNCHANGED disk

SaveEnds ==
    /\ lifecycle = "saving" /\ app.quiet # NotUtf8
    /\ Write /\ lifecycle' = "running" /\ dirty' = FALSE /\ rested' = FALSE
    /\ UNCHANGED <<app, applied, volume, lastVolume, muted>>
LeaveEnds ==
    /\ lifecycle = "leaving" /\ app.quiet # NotUtf8
    /\ Write /\ lifecycle' = "off"
    /\ UNCHANGED <<app, applied, dirty, rested, volume, lastVolume, muted>>

\* dump throws, and nobody catches it.
SaveThrows ==
    /\ lifecycle \in {"saving", "leaving"} /\ app.quiet = NotUtf8
    /\ lifecycle' = "off" /\ failed' = TRUE
    /\ UNCHANGED <<app, applied, dirty, rested, volume, lastVolume, muted, disk>>

Crash ==
    /\ lifecycle # "off" /\ lifecycle' = "off" /\ failed' = TRUE
    /\ UNCHANGED <<app, applied, dirty, rested, volume, lastVolume, muted, disk>>

Saving == SaveBegins \/ SaveEnds \/ SaveThrows \/ LeaveEnds

SettingsStep ==
    \/ StartApp
    \/ \E v \in Values : ChangeStyle(v) \/ ChangePlain(v) \/ ChangeQuiet(v)
    \/ ChangeQuiet(NotUtf8)
    \/ \E v \in Levels : ApplyVolume(v)
    \/ ResetStyle \/ ToggleMute \/ TwoSecondsPass \/ LeaveBegins \/ Saving \/ Crash

Hears == heard' = IF volume' > 0 THEN volume' ELSE heard

SettingsNext == SettingsStep /\ Hears

SettingsFairness ==
    WF_settingsVars(TwoSecondsPass /\ Hears) /\ WF_settingsVars(Saving /\ Hears)

----------------------------------------------------------------------------
(* Properties.                                                             *)

\* What a restart would bring back of the settings that are marked as changed.
OnDisk == Loaded(disk).style = app.style /\ Loaded(disk).plain = app.plain

\* What the user sees, what mpv shows and what a restart would bring back are
\* the same settings, except while the difference is marked as unsaved or the
\* last save since the start failed, whatever crashes, restarts, empty files and
\* failed saves went before; and a clean end that can write loses nothing, not
\* even what a save that failed before it had marked as saved.
SavedUnlessDirty ==
    /\ lifecycle = "running" => applied = app.style
    /\ lifecycle = "running" /\ ~dirty /\ ~failed => OnDisk
    /\ lifecycle = "off" /\ ~failed =>
         Loaded(disk) = [style |-> app.style, plain |-> app.plain, quiet |-> app.quiet,
                         volume |-> volume]

\* A change is on the disk in the end, however often the user goes on changing
\* things, unless the program ends or the disk refuses it.
ChangesAreSaved == dirty ~> (lifecycle = "off" \/ (~dirty /\ (OnDisk \/ failed)))

\* Muting is silent and can be undone: the level the user last heard is kept
\* for as long as the sound is off by the mute, whatever is done to the slider.
MuteIsUndone == muted => volume = 0 /\ lastVolume = heard

\* Together: no setting is lost but by a crash or a failing disk, in a save.
SettingsAreKept == [](SavedUnlessDirty /\ MuteIsUndone) /\ ChangesAreSaved
=============================================================================
