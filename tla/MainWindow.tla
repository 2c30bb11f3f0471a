----------------------------- MODULE MainWindow ------------------------------
(***************************************************************************)
(* The panels and the prompts of the main window (main.cpp, ui/panels.cpp),*)
(* and the settings of the session they show.  One frame is a tick of the  *)
(* session, which can bring a link, and then at most one thing the user    *)
(* does to what the frame before has drawn.                                *)
(***************************************************************************)
EXTENDS Naturals, FiniteSets

CONSTANTS Urls, NoUrl,
          Options      \* values of a setting of the session

ASSUME WindowAssumption == NoUrl \notin Urls

Panels == {"Session", "Chat", "Call", "Subs", "Settings", "Playlist"}

VARIABLES
    phase,        \* "tick" or "ui"
    panels,       \* those whose show flag is set
    hasMedia,
    live,         \* m_sessionActive
    shown,        \* of AppState: voice, muted, port (host form), password (settings)
    given,        \* the same, as the session has it
    mic,          \* m_inputMuted of the voice device
    dialog,       \* the dialog "Open URL" is shown
    pasted,       \* pendingPasteUrl
    offered,      \* pendingSessionUrl
    drawn,        \* the links on screen
    fresh,        \* bookkeeping: the offer came with the tick of this frame
    opened        \* the link last opened

promptVars == <<dialog, pasted, offered, opened>>
voiceSettings == <<live, shown, given, mic>>
windowVars == <<phase, panels, hasMedia, voiceSettings, promptVars, drawn, fresh>>

WindowInit ==
    /\ phase = "tick"
    /\ panels \in {{}, {"Subs"}, {"Session"}}     \* restored, or opened by a link
    /\ hasMedia = FALSE /\ live = FALSE
    /\ \E voice \in BOOLEAN, choice \in Options :
          shown = [voice |-> voice, muted |-> TRUE, port |-> choice, password |-> choice]
    /\ given = shown /\ mic = TRUE
    /\ dialog = FALSE /\ pasted = NoUrl /\ offered = NoUrl
    /\ drawn = {} /\ fresh = FALSE /\ opened = NoUrl

----------------------------------------------------------------------------
(* The tick, and what is read from the player.                             *)

\* A slip to check against: the host's link is opened at once.
OnOpenUrlAtOnce(u) == opened' = u /\ UNCHANGED offered

\* The open-url callback: only a prompt.
OnOpenUrl(u) == offered' = u /\ UNCHANGED opened

\* An invite link, of the command line or of another instance, joins and shows
\* the Session panel beside whatever is shown.
OpenInviteLink(ps) == live' = TRUE /\ panels' = ps \cup {"Session"}

Tick ==
    /\ phase = "tick" /\ phase' = "ui"
    /\ \/ \E u \in Urls : live /\ OnOpenUrl(u) /\ fresh' = TRUE
       \/ fresh' = FALSE /\ UNCHANGED <<offered, opened>>
    /\ hasMedia' \in BOOLEAN
    /\ LET ps == IF hasMedia' THEN panels ELSE panels \ {"Subs"}
       IN  OpenInviteLink(ps) \/ (panels' = ps /\ UNCHANGED live)
    /\ UNCHANGED <<shown, given, mic, dialog, pasted, drawn>>

----------------------------------------------------------------------------
(* Panels.                                                                 *)

\* What every click has in common.
Clicks == phase = "ui" /\ phase' = "tick" /\ UNCHANGED <<hasMedia, fresh>>

ShowOnly(p) == panels' = {p}

\* The buttons of the bars and the context menu.
TogglePanel(p) ==
    /\ Clicks /\ (p = "Subs" => hasMedia)
    /\ IF p \in panels THEN panels' = panels \ {p} ELSE ShowOnly(p)
    /\ UNCHANGED <<voiceSettings, promptVars>>

ClosePanel(p) ==
    /\ Clicks /\ p \in panels \ {"Chat"} /\ panels' = panels \ {p}
    /\ UNCHANGED <<voiceSettings, promptVars>>

\* "Create session" and "Join session" of the idle screen.
OpenSessionPanel ==
    /\ Clicks /\ ~hasMedia /\ ShowOnly("Session")
    /\ UNCHANGED <<voiceSettings, promptVars>>

\* "Open Session" of the Call panel.
OpenSessionFromCall ==
    /\ Clicks /\ "Call" \in panels /\ ShowOnly("Session")
    /\ UNCHANGED <<voiceSettings, promptVars>>

----------------------------------------------------------------------------
(* The microphone and the settings of the session.                         *)

\* SyncSession::setVoiceMuted and setVoiceEnabled.
Muted(s, muted) == [s EXCEPT !.muted = muted]
Enabled(s, voice) ==
    [s EXCEPT !.voice = voice, !.muted = IF voice = s.voice \/ voice THEN @ ELSE TRUE]
Gives(s) == given' = s /\ mic' = s.muted

\* The button of the bar: without voice it leads to the Call panel.
VoiceMuteButton ==
    /\ Clicks
    /\ IF shown.voice
       THEN /\ shown' = Muted(shown, ~shown.muted) /\ Gives(Muted(given, ~shown.muted))
            /\ UNCHANGED panels
       ELSE ShowOnly("Call") /\ UNCHANGED <<shown, given, mic>>
    /\ UNCHANGED <<live, promptVars>>

\* "Microphone muted" of the Call panel.
MuteCheckbox ==
    /\ Clicks /\ "Call" \in panels /\ shown.voice
    /\ shown' = Muted(shown, ~shown.muted) /\ Gives(Muted(given, ~shown.muted))
    /\ UNCHANGED <<panels, live, promptVars>>

\* A slip to check against: the session mutes itself, the window does not know.
VoiceSwitchedAlone(voice) ==
    /\ shown' = [shown EXCEPT !.voice = voice]
    /\ Gives(Enabled(given, voice))

\* Switching voice off mutes the microphone on both sides.
VoiceSwitched(voice) ==
    /\ shown' = [shown EXCEPT !.voice = voice, !.muted = IF voice THEN @ ELSE TRUE]
    /\ Gives(IF voice THEN Enabled(given, TRUE) ELSE Muted(Enabled(given, FALSE), TRUE))

\* "Enable voice" of the form, and of the Call panel, which ends the call too.
VoiceInForm ==
    /\ Clicks /\ "Session" \in panels /\ ~live /\ VoiceSwitched(~shown.voice)
    /\ UNCHANGED <<panels, live, promptVars>>
VoiceInCall ==
    /\ Clicks /\ "Call" \in panels /\ VoiceSwitched(~shown.voice)
    /\ UNCHANGED <<panels, live, promptVars>>

\* "Connect Voice": startVoiceCall sets up the device as the session has it.
ConnectVoice ==
    /\ Clicks /\ "Call" \in panels /\ shown.voice /\ live /\ mic' = given.muted
    /\ UNCHANGED <<panels, live, shown, given, promptVars>>

\* The port and the guests' rights, in the form of a session to host.
EditHostForm(choice) ==
    /\ Clicks /\ "Session" \in panels /\ ~live
    /\ shown' = [shown EXCEPT !.port = choice] /\ given' = [given EXCEPT !.port = choice]
    /\ UNCHANGED <<panels, live, mic, promptVars>>

\* The tab "Connection": the session is given what the fields hold in every
\* frame that draws them.
EditConnection(choice) ==
    /\ Clicks /\ "Settings" \in panels
    /\ shown' = [shown EXCEPT !.password = choice]
    /\ given' = [given EXCEPT !.password = choice]
    /\ UNCHANGED <<panels, live, mic, promptVars>>

\* "Join Session" and "Create Session", which can fail, and "Disconnect".
JoinFromForm ==
    /\ Clicks /\ "Session" \in panels /\ ~live /\ live' = TRUE
    /\ Gives(Muted(Enabled([given EXCEPT !.port = shown.port], shown.voice), shown.muted))
    /\ UNCHANGED <<panels, shown, promptVars>>
CreateFromForm ==
    /\ Clicks /\ "Session" \in panels /\ ~live /\ live' \in BOOLEAN
    /\ Gives(Muted(Enabled(given, shown.voice), shown.muted))
    /\ UNCHANGED <<panels, shown, promptVars>>
DisconnectFromForm ==
    /\ Clicks /\ "Session" \in panels /\ live /\ live' = FALSE
    /\ UNCHANGED <<panels, shown, given, mic, promptVars>>

----------------------------------------------------------------------------
(* Prompts.                                                                *)

NoChange == UNCHANGED <<panels, voiceSettings>>

IdleFrame == Clicks /\ NoChange /\ UNCHANGED promptVars

\* Ctrl+U, Ctrl+V.
ShowUrlDialog == Clicks /\ dialog' = TRUE /\ NoChange /\ UNCHANGED <<pasted, offered, opened>>
PasteUrl(u) == Clicks /\ pasted' = u /\ NoChange /\ UNCHANGED <<dialog, offered, opened>>

\* Enter in the field of the dialog, or of the idle screen, confirms a pasted
\* link too, which is then the one that plays.
SubmitUrl(u) ==
    /\ Clicks /\ (dialog \/ ~hasMedia)
    /\ dialog' = FALSE
    /\ \/ opened' = u /\ UNCHANGED pasted
       \/ opened' = (IF pasted = NoUrl THEN u ELSE pasted) /\ pasted' = NoUrl
    /\ NoChange /\ UNCHANGED offered

\* "Stream", or Enter wherever it is meant for.
ConfirmPaste ==
    /\ Clicks /\ pasted # NoUrl /\ opened' = pasted /\ pasted' = NoUrl
    /\ NoChange /\ UNCHANGED <<dialog, offered>>

\* Escape takes back both, a button one of them.
CancelPrompts ==
    /\ Clicks
    /\ \/ dialog' = FALSE /\ pasted' = NoUrl
       \/ dialog' = FALSE /\ UNCHANGED pasted
       \/ pasted' = NoUrl /\ UNCHANGED dialog
    /\ NoChange /\ UNCHANGED <<offered, opened>>

\* "Open stream" and "Ignore".
AnswerOffer ==
    /\ Clicks /\ offered # NoUrl /\ offered' = NoUrl
    /\ opened' \in {opened, offered}
    /\ NoChange /\ UNCHANGED <<dialog, pasted>>

Click ==
    \/ IdleFrame
    \/ \E p \in Panels : TogglePanel(p) \/ ClosePanel(p)
    \/ OpenSessionPanel \/ OpenSessionFromCall
    \/ VoiceMuteButton \/ MuteCheckbox \/ VoiceInForm \/ VoiceInCall \/ ConnectVoice
    \/ \E choice \in Options : EditHostForm(choice) \/ EditConnection(choice)
    \/ JoinFromForm \/ CreateFromForm \/ DisconnectFromForm
    \/ ShowUrlDialog \/ ConfirmPaste \/ CancelPrompts \/ AnswerOffer
    \/ \E u \in Urls : PasteUrl(u) \/ SubmitUrl(u)

\* The prompts are drawn after the keys are read, and before their buttons.
Draw == drawn' = {pasted, offered, pasted', offered'} \ {NoUrl}

WindowNext == Tick \/ (Click /\ Draw)

----------------------------------------------------------------------------
(* Properties.                                                             *)

\* However the panels are opened, by two bars, the menu, other panels, the idle
\* screen, a restored setting or a link, one is shown at a time; only a link
\* can put the Session panel beside another, and never a third.
OnePanel ==
    /\ Cardinality(panels) <= 2
    /\ Cardinality(panels) = 2 => "Session" \in panels
    /\ phase = "ui" /\ "Subs" \in panels => hasMedia

\* The microphone is as the window says, and off without voice; the session
\* runs with the settings that are shown.
SessionIsAsShown ==
    /\ given = shown
    /\ mic = shown.muted
    /\ ~shown.voice => shown.muted

\* Together: the controls agree with each other and with the session.
ControlsAreTrue == OnePanel /\ SessionIsAsShown

\* A link is opened only if it was on screen when the user acted, or typed; the
\* one exception is an offer the tick of that very frame has put in its place.
NothingOpensUnasked ==
    [][opened' # opened =>
         \/ opened' \in drawn
         \/ fresh /\ opened' = offered
         \/ \E u \in Urls : SubmitUrl(u) /\ opened' = u]_windowVars
=============================================================================
