------------------------------ MODULE MCWindow ------------------------------
(* Instances of the modules of the UI thread and of what surrounds it.  In  *)
(* every behaviour one of them runs and the others stay as they start.      *)
EXTENDS MediaPlayer, ChatTimeline, MainWindow, Settings, DriftCorrection,
        WindowFrame, WindowMessages, TLC

CONSTANTS f1, f2, u, bad      \* two films, a live stream, a file that is no film

VARIABLE part    \* the one that runs

MCDuration == [f \in Media |-> CASE f = u -> 0 [] f = f1 -> 1 [] f = f2 -> 2 [] f = bad -> 3]
MCOffsets == {-600, -100, 0, 300, 1400}
MCErrors == {-20, 0, 20}

Init ==
    /\ part \in {"player", "chat", "panels", "prompts", "settings", "drift", "frame", "messages"}
    /\ MediaInit /\ TimelineInit /\ SettingsInit /\ MessagesInit
    /\ WindowInit
    /\ part \notin {"panels", "prompts"} =>
          panels = {} /\ ~shown.voice /\ shown.port = CHOOSE option \in Options : TRUE
    /\ IF part = "drift" THEN DriftInit ELSE DriftOff
    /\ IF part = "frame" THEN FrameInit ELSE FrameOff

Player   == MediaNext /\ UNCHANGED <<timelineVars, windowVars, settingsVars, driftVars, frameVars, messageVars>>
Chat     == TimelineNext /\ UNCHANGED <<mediaVars, windowVars, settingsVars, driftVars, frameVars, messageVars>>
Panel    == WindowNext /\ UNCHANGED <<mediaVars, timelineVars, settingsVars, driftVars, frameVars, messageVars>>
Setting  == SettingsNext /\ UNCHANGED <<mediaVars, timelineVars, windowVars, driftVars, frameVars, messageVars>>
Drift    == DriftNext /\ UNCHANGED <<mediaVars, timelineVars, windowVars, settingsVars, frameVars, messageVars>>
Edge     == FrameNext /\ UNCHANGED <<mediaVars, timelineVars, windowVars, settingsVars, driftVars, messageVars>>
Messages == MessagesNext /\ UNCHANGED <<mediaVars, timelineVars, windowVars, settingsVars, driftVars, frameVars>>

Next ==
    /\ UNCHANGED part
    /\ \/ part = "player" /\ Player
       \/ part = "chat" /\ Chat
       \/ part = "panels" /\ Panel /\ UNCHANGED promptVars
       \/ part = "prompts" /\ Panel /\ UNCHANGED <<panels, shown, given>>
       \/ part = "settings" /\ Setting
       \/ part = "drift" /\ Drift
       \/ part = "frame" /\ Edge
       \/ part = "messages" /\ Messages

vars == <<part, mediaVars, timelineVars, windowVars, settingsVars, driftVars, frameVars, messageVars>>

\* A part that does not run has nothing to be fair about.
Spec == Init /\ [][Next]_vars
             /\ MediaFairness /\ SettingsFairness /\ DriftFairness
             /\ FrameFairness /\ MessagesFairness
=============================================================================
