---------------------------- MODULE WindowProofs ----------------------------
(***************************************************************************)
(* The UI thread, for any links, settings, sizes and processes: the panels,*)
(* the microphone and the prompts of MainWindow, the window of             *)
(* WindowFrame, the files other processes hand to it in WindowMessages,    *)
(* and what ChatTimeline tells of the session.                             *)
(***************************************************************************)
EXTENDS MainWindow, WindowFrame, WindowMessages, ChatTimeline, FiniteSetTheorems,
        SequenceTheorems, TLAPS

----------------------------------------------------------------------------
(* The panels and the settings of the session.                             *)

\* The main window with nothing else running.
WindowSpec == WindowInit /\ [][WindowNext]_windowVars

\* Of the panels but "Session" one is shown, and the subtitles only over a film;
\* the session and the voice device have what the window shows.
ControlsInv ==
    /\ phase \in {"tick", "ui"} /\ hasMedia \in BOOLEAN /\ live \in BOOLEAN
    /\ \E p \in Panels : panels \subseteq {p, "Session"}
    /\ phase = "ui" /\ "Subs" \in panels => hasMedia
    /\ shown \in [voice : BOOLEAN, muted : BOOLEAN, port : Options, password : Options]
    /\ SessionIsAsShown

LEMMA ControlsInvImplies == ControlsInv => ControlsAreTrue
  <1> SUFFICES ASSUME ControlsInv
               PROVE  ControlsAreTrue
    OBVIOUS
  <1>1. PICK p \in Panels : panels \subseteq {p, "Session"}
    BY DEF ControlsInv
  <1>2. IsFiniteSet({p}) /\ Cardinality({p}) = 1
    BY FS_Singleton
  <1>3. IsFiniteSet({p} \cup {"Session"}) /\ Cardinality({p} \cup {"Session"}) \in {1, 2}
    BY <1>2, FS_AddElement
  <1>4. {p, "Session"} = {p} \cup {"Session"}
    OBVIOUS
  <1>5. IsFiniteSet(panels) /\ Cardinality(panels) <= Cardinality({p, "Session"})
    BY <1>1, <1>3, <1>4, FS_Subset
  <1>6. Cardinality(panels) \in Nat
    BY <1>5, FS_CardinalityType
  <1>7. ASSUME "Session" \notin panels
        PROVE  Cardinality(panels) <= 1
    <2>1. panels \in SUBSET {p}
      BY <1>1, <1>7
    <2>2. QED
      BY <2>1, <1>2, FS_Subset
  <1>8. OnePanel
    BY <1>3, <1>4, <1>5, <1>6, <1>7 DEF OnePanel, ControlsInv
  <1>9. QED
    BY <1>8 DEF ControlsAreTrue, ControlsInv

LEMMA ControlsStart == WindowInit => ControlsInv
  <1> SUFFICES ASSUME WindowInit
               PROVE  ControlsInv
    OBVIOUS
  <1>1. PICK voice \in BOOLEAN, choice \in Options :
           shown = [voice |-> voice, muted |-> TRUE, port |-> choice, password |-> choice]
    BY DEF WindowInit
  <1>2. \E p \in Panels : panels \subseteq {p, "Session"}
    BY DEF WindowInit, Panels
  <1>3. QED
    BY <1>1, <1>2 DEF WindowInit, ControlsInv, SessionIsAsShown

\* A tick takes the subtitles away with the film, and brings "Session" at most.
LEMMA TickKeepsControls == ControlsInv /\ Tick => ControlsInv'
  <1> SUFFICES ASSUME ControlsInv, Tick
               PROVE  ControlsInv'
    OBVIOUS
  <1>1. PICK p \in Panels : panels \subseteq {p, "Session"}
    BY DEF ControlsInv
  <1>2. panels' \subseteq panels \cup {"Session"}
    BY DEF Tick, OpenInviteLink
  <1>3. "Subs" \in panels' => hasMedia'
    BY DEF Tick, OpenInviteLink
  <1>4. panels' \subseteq {p, "Session"}
    BY <1>1, <1>2
  <1>5. live' \in BOOLEAN
    BY DEF Tick, OpenInviteLink, ControlsInv
  <1>6. UNCHANGED <<shown, given, mic>> /\ hasMedia' \in BOOLEAN /\ phase' = "ui"
    BY DEF Tick
  <1>7. QED
    BY <1>1, <1>3, <1>4, <1>5, <1>6 DEF ControlsInv, SessionIsAsShown

\* What a click has to leave true, whatever it is.
LEMMA ClickKeepsControls ==
    ASSUME ControlsInv, Clicks, live' \in BOOLEAN,
           panels' \subseteq panels \/ \E p \in Panels : panels' = {p},
           shown' \in [voice : BOOLEAN, muted : BOOLEAN, port : Options, password : Options],
           SessionIsAsShown'
    PROVE  ControlsInv'
  <1>1. \E p \in Panels : panels' \subseteq {p, "Session"}
    <2>1. CASE panels' \subseteq panels
      BY <2>1 DEF ControlsInv
    <2>2. CASE \E p \in Panels : panels' = {p}
      BY <2>2
    <2>3. QED
      BY <2>1, <2>2
  <1>2. QED
    BY <1>1 DEF ControlsInv, Clicks

\* The buttons that show a panel, or take one away.
LEMMA PanelsKeepControls ==
    ControlsInv /\ (\/ \E p \in Panels : TogglePanel(p) \/ ClosePanel(p)
                    \/ OpenSessionPanel \/ OpenSessionFromCall)
    => ControlsInv'
  <1> SUFFICES ASSUME ControlsInv,
                      \/ \E p \in Panels : TogglePanel(p) \/ ClosePanel(p)
                      \/ OpenSessionPanel \/ OpenSessionFromCall
               PROVE  ControlsInv'
    OBVIOUS
  <1>1. UNCHANGED <<live, shown, given, mic>> /\ Clicks
    BY DEF TogglePanel, ClosePanel, OpenSessionPanel, OpenSessionFromCall, voiceSettings
  <1>2. panels' \subseteq panels \/ \E p \in Panels : panels' = {p}
    BY DEF TogglePanel, ClosePanel, OpenSessionPanel, OpenSessionFromCall, ShowOnly, Panels
  <1>3. QED
    BY <1>1, <1>2, ClickKeepsControls DEF ControlsInv, SessionIsAsShown

\* The settings that the window and the session change together.
LEMMA VoiceKeepsControls ==
    ControlsInv /\ (VoiceMuteButton \/ MuteCheckbox \/ VoiceInForm \/ VoiceInCall
                    \/ ConnectVoice)
    => ControlsInv'
  <1> SUFFICES ASSUME ControlsInv,
                      VoiceMuteButton \/ MuteCheckbox \/ VoiceInForm \/ VoiceInCall
                      \/ ConnectVoice
               PROVE  ControlsInv'
    OBVIOUS
  <1>1. UNCHANGED live /\ Clicks
    BY DEF VoiceMuteButton, MuteCheckbox, VoiceInForm, VoiceInCall, ConnectVoice
  <1>2. panels' \subseteq panels \/ \E p \in Panels : panels' = {p}
    BY DEF VoiceMuteButton, MuteCheckbox, VoiceInForm, VoiceInCall, ConnectVoice,
           ShowOnly, Panels
  <1>3. /\ shown' \in [voice : BOOLEAN, muted : BOOLEAN, port : Options, password : Options]
        /\ SessionIsAsShown'
    <2>1. CASE VoiceMuteButton
      BY <2>1 DEF ControlsInv, SessionIsAsShown, VoiceMuteButton, Muted, Gives
    <2>2. CASE MuteCheckbox
      BY <2>2 DEF ControlsInv, SessionIsAsShown, MuteCheckbox, Muted, Gives
    <2>3. CASE VoiceInForm \/ VoiceInCall
      <3>1. VoiceSwitched(~shown.voice)
        BY <2>3 DEF VoiceInForm, VoiceInCall
      <3>2. QED
        BY <3>1 DEF ControlsInv, SessionIsAsShown, VoiceSwitched, Muted, Enabled, Gives
    <2>4. CASE ConnectVoice
      BY <2>4 DEF ControlsInv, SessionIsAsShown, ConnectVoice
    <2>5. QED
      BY <2>1, <2>2, <2>3, <2>4
  <1>4. QED
    BY <1>1, <1>2, <1>3, ClickKeepsControls DEF ControlsInv

\* The forms, which give the session what they show.
LEMMA FormsKeepControls ==
    ControlsInv /\ (\/ \E choice \in Options : EditHostForm(choice) \/ EditConnection(choice)
                    \/ JoinFromForm \/ CreateFromForm \/ DisconnectFromForm)
    => ControlsInv'
  <1> SUFFICES ASSUME ControlsInv,
                      \/ \E choice \in Options : EditHostForm(choice) \/ EditConnection(choice)
                      \/ JoinFromForm \/ CreateFromForm \/ DisconnectFromForm
               PROVE  ControlsInv'
    OBVIOUS
  <1>1. UNCHANGED panels /\ Clicks /\ live' \in BOOLEAN
    BY DEF EditHostForm, EditConnection, JoinFromForm, CreateFromForm,
           DisconnectFromForm, ControlsInv
  <1>2. /\ shown' \in [voice : BOOLEAN, muted : BOOLEAN, port : Options, password : Options]
        /\ SessionIsAsShown'
    <2>1. CASE \E choice \in Options : EditHostForm(choice) \/ EditConnection(choice)
      BY <2>1 DEF ControlsInv, SessionIsAsShown, EditHostForm, EditConnection
    <2>2. CASE JoinFromForm
      BY <2>2 DEF ControlsInv, SessionIsAsShown, JoinFromForm, Muted, Enabled, Gives
    <2>3. CASE CreateFromForm
      BY <2>3 DEF ControlsInv, SessionIsAsShown, CreateFromForm, Muted, Enabled, Gives
    <2>4. CASE DisconnectFromForm
      BY <2>4 DEF ControlsInv, SessionIsAsShown, DisconnectFromForm
    <2>5. QED
      BY <2>1, <2>2, <2>3, <2>4
  <1>3. QED
    BY <1>1, <1>2, ClickKeepsControls DEF ControlsInv

\* The prompts, which touch neither.
LEMMA PromptsKeepControls ==
    ControlsInv /\ (\/ IdleFrame \/ ShowUrlDialog \/ ConfirmPaste \/ CancelPrompts
                    \/ AnswerOffer \/ \E u \in Urls : PasteUrl(u) \/ SubmitUrl(u))
    => ControlsInv'
  <1> SUFFICES ASSUME ControlsInv,
                      \/ IdleFrame \/ ShowUrlDialog \/ ConfirmPaste \/ CancelPrompts
                      \/ AnswerOffer \/ \E u \in Urls : PasteUrl(u) \/ SubmitUrl(u)
               PROVE  ControlsInv'
    OBVIOUS
  <1>1. Clicks /\ UNCHANGED <<panels, live, shown, given, mic>>
    BY DEF IdleFrame, ShowUrlDialog, ConfirmPaste, CancelPrompts, AnswerOffer, PasteUrl,
           SubmitUrl, NoChange, voiceSettings
  <1>2. QED
    BY <1>1, ClickKeepsControls DEF ControlsInv, SessionIsAsShown

LEMMA ControlsKept == ControlsInv /\ [WindowNext]_windowVars => ControlsInv'
  <1> SUFFICES ASSUME ControlsInv, [WindowNext]_windowVars
               PROVE  ControlsInv'
    OBVIOUS
  <1>1. CASE Tick
    BY <1>1, TickKeepsControls
  <1>2. CASE Click
    BY <1>2, PanelsKeepControls, VoiceKeepsControls, FormsKeepControls,
       PromptsKeepControls DEF Click
  <1>3. CASE UNCHANGED windowVars
    BY <1>3 DEF windowVars, voiceSettings, ControlsInv, SessionIsAsShown
  <1>4. QED
    BY <1>1, <1>2, <1>3 DEF WindowNext

\* In every behaviour of the main window one panel is shown beside "Session" at
\* most, and the microphone and the session are as it shows them
\* (ui/panels.cpp, SyncSession::setVoiceEnabled and setVoiceMuted).
THEOREM ControlsTheorem == WindowSpec => []ControlsAreTrue
  <1>1. WindowInit => ControlsInv
    BY ControlsStart
  <1>2. ControlsInv /\ [WindowNext]_windowVars => ControlsInv'
    BY ControlsKept
  <1>3. ControlsInv => ControlsAreTrue
    BY ControlsInvImplies
  <1>4. QED
    BY <1>1, <1>2, <1>3, PTL DEF WindowSpec

----------------------------------------------------------------------------
(* The prompts.                                                            *)

\* A link that waits for an answer is on screen, except an offer that has come
\* with the tick of this very frame.
PromptsInv ==
    /\ pasted # NoUrl => pasted \in drawn
    /\ offered # NoUrl => offered \in drawn \/ (phase = "ui" /\ fresh)

\* What a step of the window may do to the link that was opened last.
OpensAsAsked ==
    opened' # opened =>
        \/ opened' \in drawn
        \/ fresh /\ opened' = offered
        \/ \E u \in Urls : SubmitUrl(u) /\ opened' = u

LEMMA PromptsKept == PromptsInv /\ [WindowNext]_windowVars => PromptsInv'
  <1> SUFFICES ASSUME PromptsInv, [WindowNext]_windowVars
               PROVE  PromptsInv'
    OBVIOUS
  <1>1. CASE Tick
    <2>1. UNCHANGED <<pasted, drawn>> /\ phase = "tick" /\ phase' = "ui"
      BY <1>1 DEF Tick
    <2>2. UNCHANGED offered \/ fresh'
      BY <1>1 DEF Tick, OnOpenUrl
    <2>3. QED
      BY <2>1, <2>2 DEF PromptsInv
  <1>2. CASE Draw
    BY <1>2 DEF Draw, PromptsInv
  <1>3. CASE UNCHANGED windowVars
    BY <1>3 DEF windowVars, promptVars, PromptsInv
  <1>4. QED
    BY <1>1, <1>2, <1>3 DEF WindowNext

LEMMA PromptsAreAsked == PromptsInv /\ [WindowNext]_windowVars => OpensAsAsked
  <1> SUFFICES ASSUME PromptsInv, [WindowNext]_windowVars, opened' # opened
               PROVE  \/ opened' \in drawn
                      \/ fresh /\ opened' = offered
                      \/ \E u \in Urls : SubmitUrl(u) /\ opened' = u
    BY DEF OpensAsAsked
  <1>1. ~Tick /\ ~UNCHANGED windowVars
    BY DEF Tick, OnOpenUrl, windowVars, promptVars
  <1>2. Click
    BY <1>1 DEF WindowNext
  <1>3. \/ ConfirmPaste \/ AnswerOffer
        \/ \E u \in Urls : SubmitUrl(u)
    <2>1. ~IdleFrame /\ ~ShowUrlDialog /\ ~CancelPrompts /\ ~\E u \in Urls : PasteUrl(u)
      BY DEF IdleFrame, ShowUrlDialog, CancelPrompts, PasteUrl, promptVars
    <2>2. /\ ~\E p \in Panels : TogglePanel(p) \/ ClosePanel(p)
          /\ ~OpenSessionPanel /\ ~OpenSessionFromCall
      BY DEF TogglePanel, ClosePanel, OpenSessionPanel, OpenSessionFromCall, promptVars
    <2>3. /\ ~VoiceMuteButton /\ ~MuteCheckbox /\ ~VoiceInForm /\ ~VoiceInCall
          /\ ~ConnectVoice
      BY DEF VoiceMuteButton, MuteCheckbox, VoiceInForm, VoiceInCall, ConnectVoice,
             promptVars
    <2>4. /\ ~\E choice \in Options : EditHostForm(choice) \/ EditConnection(choice)
          /\ ~JoinFromForm /\ ~CreateFromForm /\ ~DisconnectFromForm
      BY DEF EditHostForm, EditConnection, JoinFromForm, CreateFromForm,
             DisconnectFromForm, promptVars
    <2>5. QED
      BY <1>2, <2>1, <2>2, <2>3, <2>4 DEF Click
  <1>4. CASE ConfirmPaste
    BY <1>4 DEF ConfirmPaste, PromptsInv
  <1>5. CASE AnswerOffer
    BY <1>5 DEF AnswerOffer, PromptsInv
  <1>6. CASE \E u \in Urls : SubmitUrl(u)
    <2>1. PICK u \in Urls : SubmitUrl(u)
      BY <1>6
    <2>2. opened' = u \/ (pasted # NoUrl /\ opened' = pasted)
      BY <2>1 DEF SubmitUrl
    <2>3. QED
      BY <2>1, <2>2 DEF PromptsInv
  <1>7. QED
    BY <1>3, <1>4, <1>5, <1>6

\* In every behaviour of the main window a link is opened only if it was on
\* screen, was typed, or was offered in the place of the one that was on screen
\* (the prompts of wWinMain).
THEOREM PromptsTheorem == WindowSpec => NothingOpensUnasked
  <1>1. WindowInit => PromptsInv
    BY DEF WindowInit, PromptsInv
  <1>2. PromptsInv /\ [WindowNext]_windowVars => PromptsInv'
    BY PromptsKept
  <1>3. PromptsInv /\ [WindowNext]_windowVars => [OpensAsAsked]_windowVars
    BY PromptsAreAsked
  <1>4. WindowSpec => [][OpensAsAsked]_windowVars
    BY <1>1, <1>2, <1>3, PTL DEF WindowSpec
  <1>5. QED
    BY <1>4 DEF NothingOpensUnasked, OpensAsAsked

----------------------------------------------------------------------------
(* Fullscreen, the border and the back buffers.                            *)

FrameSpec == FrameInit /\ [][FrameNext]_frameVars

\* While the border is dragged the size that counts is the one put off, or the
\* back buffers have it; fullscreen keeps the placement to come back to.
SizesInv ==
    /\ inSizing \in BOOLEAN /\ zoomed \in BOOLEAN /\ fullscreen \in BOOLEAN
    /\ normal \in WindowSizes
    /\ inSizing => ~fullscreen
    /\ client = IF fullscreen THEN "screen" ELSE IF zoomed THEN "work" ELSE normal
    /\ pendingResize = "none" => buffers = client
    /\ pendingResize # "none" => inSizing /\ pendingResize = client
    /\ fullscreen => saved = SavedPlacement

LEMMA SizesStart == FrameInit => SizesInv
  BY DEF FrameInit, FrameStart, SizesInv, SavedPlacement

\* A client area that gets a size of its own.
LEMMA SizedKeeps ==
    ASSUME SizesInv, NEW s, s # "none", Sized(s)
    PROVE  /\ client' = s
           /\ pendingResize' = "none" => buffers' = client'
           /\ pendingResize' # "none" => inSizing /\ pendingResize' = client'
  BY DEF SizesInv, Sized

\* The title bar, the border, and Windows' own loop.
LEMMA BorderKeepsSizes ==
    SizesInv /\ (\/ ToggleMaximized \/ EnterSizeMove \/ ExitSizeMove
                 \/ \E s \in WindowSizes : DragBorder(s))
    => SizesInv'
  <1> SUFFICES ASSUME SizesInv,
                      \/ ToggleMaximized \/ EnterSizeMove \/ ExitSizeMove
                      \/ \E s \in WindowSizes : DragBorder(s)
               PROVE  SizesInv'
    OBVIOUS
  <1>1. CASE ToggleMaximized
    <2>1. (IF zoomed THEN normal ELSE "work") # "none"
      BY WindowFrameAssumption DEF SizesInv
    <2>2. /\ Sized(IF zoomed THEN normal ELSE "work") /\ zoomed' = ~zoomed
          /\ UNCHANGED <<inSizing, normal, fullscreen, saved>> /\ ~fullscreen
      BY <1>1 DEF ToggleMaximized, fsVars
    <2>3. QED
      BY <2>1, <2>2, SizedKeeps DEF SizesInv
  <1>2. CASE EnterSizeMove
    BY <1>2 DEF EnterSizeMove, fsVars, SizesInv, SavedPlacement
  <1>3. CASE ExitSizeMove
    BY <1>3 DEF ExitSizeMove, fsVars, SizesInv, SavedPlacement
  <1>4. CASE \E s \in WindowSizes : DragBorder(s)
    <2>1. PICK s \in WindowSizes : DragBorder(s)
      BY <1>4
    <2>2. Sized(s) /\ s # "none"
      BY <2>1, WindowFrameAssumption DEF DragBorder
    <2>3. /\ zoomed' = FALSE /\ normal' = s /\ UNCHANGED <<inSizing, fullscreen>>
          /\ inSizing
      BY <2>1 DEF DragBorder, fsVars
    <2>4. QED
      BY <2>2, <2>3, SizedKeeps DEF SizesInv
  <1>5. QED
    BY <1>1, <1>2, <1>3, <1>4

\* A frame leaves the sizes alone, or takes fullscreen the other way.
LEMMA FadeKeepsSizes ==
    ASSUME SizesInv, ~inSizing, NoToggle \/ ToggleFullscreen
    PROVE  SizesInv'
  <1>1. CASE NoToggle
    BY <1>1 DEF NoToggle, sizeVars, SizesInv, SavedPlacement
  <1>2. CASE ToggleFullscreen /\ fullscreen
    <2>1. saved = [zoomed |-> zoomed, normal |-> normal]
      BY <1>2 DEF SizesInv, SavedPlacement
    <2>2. (IF saved.zoomed THEN "work" ELSE saved.normal) =
          (IF zoomed THEN "work" ELSE normal)
      BY <2>1
    <2>3. (IF zoomed THEN "work" ELSE normal) # "none"
      BY WindowFrameAssumption DEF SizesInv
    <2>4. /\ Sized(IF zoomed THEN "work" ELSE normal)
          /\ fullscreen' = FALSE /\ UNCHANGED <<inSizing, zoomed, normal>>
      BY <1>2, <2>2 DEF ToggleFullscreen
    <2>5. QED
      BY <2>3, <2>4, SizedKeeps DEF SizesInv
  <1>3. CASE ToggleFullscreen /\ ~fullscreen
    <2>1. /\ Sized("screen") /\ saved' = SavedPlacement
          /\ fullscreen' = TRUE /\ UNCHANGED <<inSizing, zoomed, normal>>
      BY <1>3 DEF ToggleFullscreen
    <2>2. saved' = SavedPlacement'
      BY <2>1 DEF SavedPlacement
    <2>3. QED
      BY <2>1, <2>2, SizedKeeps DEF SizesInv
  <1>4. QED
    BY <1>1, <1>2, <1>3

LEMMA SizesKept == SizesInv /\ [FrameNext]_frameVars => SizesInv'
  <1> SUFFICES ASSUME SizesInv, [FrameNext]_frameVars
               PROVE  SizesInv'
    OBVIOUS
  <1>1. CASE \/ ToggleMaximized \/ EnterSizeMove \/ ExitSizeMove
             \/ \E s \in WindowSizes : DragBorder(s)
    BY <1>1, BorderKeepsSizes
  <1>2. CASE DrawFrame
    <2>1. ~inSizing /\ (NoToggle \/ ToggleFullscreen)
      BY <1>2 DEF DrawFrame, Faded
    <2>2. QED
      BY <2>1, FadeKeepsSizes
  <1>3. CASE \/ PressF11 \/ PressEscape \/ TogglePlayback
             \/ TaskbarButtonCreated \/ CloseFrame
    <2>1. UNCHANGED <<sizeVars, fullscreen, saved>>
      BY <1>3 DEF PressF11, PressEscape, TogglePlayback, TaskbarButtonCreated,
                  CloseFrame, fsVars
    <2>2. QED
      BY <2>1 DEF sizeVars, SizesInv, SavedPlacement
  <1>4. CASE UNCHANGED frameVars
    BY <1>4 DEF frameVars, sizeVars, fsVars, SizesInv, SavedPlacement
  <1>5. QED
    BY <1>1, <1>2, <1>3, <1>4 DEF FrameNext

\* In every behaviour of the window the back buffers have its size, except while
\* it is dragged, and it comes back from fullscreen as it was (ToggleFullscreen,
\* WM_SIZE and WM_EXITSIZEMOVE of platform.cpp).
THEOREM WindowTheorem == FrameSpec => []WindowComesBack
  <1>1. FrameInit => SizesInv
    BY SizesStart
  <1>2. SizesInv /\ [FrameNext]_frameVars => SizesInv'
    BY SizesKept
  <1>3. SizesInv => WindowComesBack
    BY DEF SizesInv, WindowComesBack
  <1>4. QED
    BY <1>1, <1>2, <1>3, PTL DEF FrameSpec

\* A request or a transition that came from Escape is pending only in fullscreen.
EscapeInv ==
    /\ fullscreen \in BOOLEAN /\ fsTransition \in BOOLEAN
    /\ fsPhase \in {0, 1} /\ fsFade \in Nat
    /\ pendingToggle /\ asked = "escape" => fullscreen
    /\ fsTransition /\ fsPhase = 0 /\ cause = "escape" => fullscreen

LEMMA EscapeKept ==
    EscapeInv /\ [FrameNext]_frameVars
    => EscapeInv' /\ (fullscreen' /\ ~fullscreen => cause' # "escape")
  <1> SUFFICES ASSUME EscapeInv, [FrameNext]_frameVars
               PROVE  EscapeInv' /\ (fullscreen' /\ ~fullscreen => cause' # "escape")
    OBVIOUS
  <1>1. CASE DrawFrame
    <2> DEFINE starts == pendingToggle /\ ~fsTransition
    <2>1. PICK steps \in {1, 2} : Faded(steps, starts, IF starts THEN 0 ELSE fsPhase)
      BY <1>1 DEF DrawFrame, FirstPhase
    <2>2. /\ cause' = IF starts THEN asked ELSE cause
          /\ pendingToggle' => asked' = "toggle"
      BY <1>1 DEF DrawFrame, RequestTaken
    <2>3. CASE fullscreen' = fullscreen
      <3>1. /\ fsTransition' \in BOOLEAN /\ fsPhase' \in {0, 1} /\ fsFade' \in Nat
            /\ fsTransition' /\ fsPhase' = 0 => starts \/ (fsTransition /\ fsPhase = 0)
        <4>1. CASE ~(fsTransition \/ starts)
          BY <2>1, <4>1 DEF Faded, EscapeInv
        <4>2. CASE (fsTransition \/ starts) /\ (IF starts THEN 0 ELSE fsPhase) = 0
          <5>1. PICK fade \in Nat : fade = IF starts THEN 0 ELSE fsFade
            BY DEF EscapeInv
          <5>2. /\ fsTransition' = TRUE
                /\ fsFade' = IF fade + steps >= 2 THEN 2 ELSE fade + steps
                /\ fsPhase' = IF fade + steps >= 2 THEN 1 ELSE 0
            BY <2>1, <4>2, <5>1 DEF Faded
          <5>3. starts \/ (fsTransition /\ fsPhase = 0)
            BY <4>2
          <5>4. QED
            BY <5>1, <5>2, <5>3
        <4>3. CASE (fsTransition \/ starts) /\ (IF starts THEN 0 ELSE fsPhase) # 0
          <5>1. /\ fsPhase' = 1 /\ ~starts
                /\ fsFade' = (IF fsFade > steps THEN fsFade - steps ELSE 0)
                /\ fsTransition' = (fsFade > steps)
            BY <2>1, <4>3 DEF Faded
          <5>2. QED
            BY <5>1 DEF EscapeInv
        <4>4. QED
          BY <4>1, <4>2, <4>3
      <3>2. QED
        BY <2>2, <2>3, <3>1 DEF EscapeInv
    <2>4. CASE fullscreen' # fullscreen
      <3>1. /\ fullscreen' = ~fullscreen /\ fsPhase' = 1 /\ fsTransition' = TRUE
            /\ fsFade' = 2
            /\ starts \/ (fsTransition /\ fsPhase = 0)
        BY <2>1, <2>4 DEF Faded, EscapeInv, NoToggle, ToggleFullscreen
      <3>2. cause' = "escape" => fullscreen
        BY <2>2, <3>1 DEF EscapeInv
      <3>3. QED
        BY <2>2, <3>1, <3>2 DEF EscapeInv
    <2>5. QED
      BY <2>3, <2>4
  <1>2. CASE PressF11 \/ PressEscape
    BY <1>2 DEF PressF11, PressEscape, EscapeInv
  <1>3. CASE UNCHANGED fsVars
    BY <1>3 DEF fsVars, EscapeInv
  <1>4. UNCHANGED fsVars \/ DrawFrame \/ PressF11 \/ PressEscape
    BY DEF FrameNext, ToggleMaximized, EnterSizeMove, ExitSizeMove, DragBorder,
           TogglePlayback, TaskbarButtonCreated, CloseFrame, frameVars
  <1>5. QED
    BY <1>1, <1>2, <1>3, <1>4

\* In every behaviour of the window Escape only leaves fullscreen: it is asked
\* for there, and by the time the request is taken nothing else has left it
\* (WM_KEYDOWN and the fade of wWinMain).
THEOREM EscapeTheorem == FrameSpec => EscapeOnlyLeaves
  <1>1. FrameInit => EscapeInv
    <2>1. FrameInit => fsFade = 0 /\ fsPhase = 0 /\ ~fsTransition /\ ~pendingToggle
                       /\ fsTransition \in BOOLEAN /\ fullscreen \in BOOLEAN
      BY DEF FrameInit, FrameStart
    <2>2. QED
      BY <2>1 DEF EscapeInv
  <1>2. EscapeInv /\ [FrameNext]_frameVars
        => EscapeInv' /\ [fullscreen' /\ ~fullscreen => cause' # "escape"]_frameVars
    BY EscapeKept
  <1>3. QED
    BY <1>1, <1>2, PTL DEF FrameSpec, EscapeOnlyLeaves

----------------------------------------------------------------------------
(* The files that come from outside.                                       *)

MessagesSpec == MessagesInit /\ [][MessagesNext]_messageVars

\* The file of p is at place k of those that window q has taken.
TakenAt(p, q, k) == k \in DOMAIN ipcPaths[q] /\ ipcPaths[q][k] = p

\* The file of p is on its way to a frame.
Waits(p) == p \in late \/ \E q \in Processes : \E k \in Nat : TakenAt(p, q, k)

MessageTypes ==
    /\ state \in [Processes -> {"off", "starting", "sending", "pump", "frame",
                                "dialog", "exited"}]
    /\ target \in [Processes -> Processes \cup {NoProcess}]
    /\ ipcPaths \in [Processes -> Seq(Processes)]
    /\ timesOpened \in [Processes -> Nat]

\* A file is in one place, if it waits: in a queue or, once, in a window.
OnePlace ==
    /\ \A p, q, r \in Processes : \A k, l \in Nat :
          TakenAt(p, q, k) /\ TakenAt(p, r, l) => q = r /\ k = l
    /\ \A p, q \in Processes : \A k \in Nat : TakenAt(p, q, k) => p \notin late

\* How often the file of p can still be opened is bounded by what its process
\* has done: each has one opening, of its own or by the window that took it,
\* and one more if it gave up on a window.
Budget(p) ==
    timesOpened[p] + (IF state[p] \in {"off", "sending", "starting"} THEN 1 ELSE 0)
                   + (IF Waits(p) THEN 1 ELSE 0)
        <= (IF p \in gaveUp THEN 2 ELSE 1)

MessagesInv ==
    /\ MessageTypes /\ OnePlace
    /\ \A p \in Processes :
          /\ Budget(p)
          /\ state[p] \in {"off", "sending"} => p \notin gaveUp
          /\ state[p] = "sending" \/ p \in late => target[p] \in Processes

LEMMA MessagesInvImplies == MessagesInv => OpenedOnce
  <1> SUFFICES ASSUME MessagesInv, NEW p \in Processes, timesOpened[p] > 1
               PROVE  timesOpened[p] = 2 /\ p \in gaveUp
    BY DEF OpenedOnce
  <1>1. timesOpened[p] \in Nat /\ Budget(p)
    BY DEF MessagesInv, MessageTypes
  <1>2. timesOpened[p] <= (IF p \in gaveUp THEN 2 ELSE 1)
    BY <1>1 DEF Budget
  <1>3. QED
    BY <1>1, <1>2

LEMMA MessagesStart == MessagesInit => MessagesInv
  <1> SUFFICES ASSUME MessagesInit
               PROVE  MessagesInv
    OBVIOUS
  <1>1. \A q \in Processes : ipcPaths[q] = <<>>
    BY DEF MessagesInit
  <1>2. \A p, q \in Processes : \A k \in Nat : ~TakenAt(p, q, k)
    BY <1>1 DEF TakenAt
  <1>3. \A p \in Processes : ~Waits(p)
    BY <1>2 DEF Waits, MessagesInit
  <1>4. OnePlace
    BY <1>2 DEF OnePlace
  <1>5. <<>> \in Seq(Processes)
    OBVIOUS
  <1>6. MessageTypes
    BY <1>5 DEF MessagesInit, MessageTypes
  <1>7. \A p \in Processes : Budget(p)
    BY <1>3 DEF MessagesInit, Budget
  <1>8. QED
    BY <1>4, <1>6, <1>7 DEF MessagesInv, MessagesInit

\* A step that moves no file, and lets its process open no more than it could.
LEMMA PlacesStay ==
    ASSUME MessagesInv, ipcPaths' = ipcPaths, late' = late, MessageTypes'
    PROVE  /\ OnePlace'
           /\ \A p \in Processes : Waits(p)' = Waits(p)
  <1>1. \A p, q, k : TakenAt(p, q, k)' = TakenAt(p, q, k)
    BY DEF TakenAt
  <1>2. OnePlace'
    BY <1>1 DEF OnePlace, MessagesInv
  <1>3. \A p \in Processes : Waits(p)' = Waits(p)
    BY <1>1 DEF Waits
  <1>4. QED
    BY <1>2, <1>3

\* A process that starts, opens its own file, or whose window comes and goes.
LEMMA ProcessKeeps ==
    ASSUME MessagesInv, NEW p \in Processes,
           \/ Launch(p) \/ OpensOwn(p)
           \/ \E d \in Drops : Drop(p, d)
           \/ (Dialog(p) /\ Idle) \/ (FrameEnds(p) /\ Idle)
    PROVE  MessagesInv'
  <1>1. UNCHANGED <<ipcPaths, late, gaveUp>>
    BY DEF Launch, OpensOwn, Drop, Dialog, FrameEnds, Idle
  <1>2. MessageTypes'
    <2>1. CASE Launch(p)
      <3>1. /\ timesOpened' = timesOpened
            /\ \/ state' = [state EXCEPT ![p] = "starting"] /\ target' = target
               \/ /\ state' = [state EXCEPT ![p] = "sending"]
                  /\ \E q \in Processes : target' = [target EXCEPT ![p] = q]
        BY <2>1 DEF Launch, Goes, HasWindow
      <3>2. state' \in [Processes -> {"off", "starting", "sending", "pump", "frame",
                                     "dialog", "exited"}]
        BY <3>1 DEF MessagesInv, MessageTypes
      <3>3. target' \in [Processes -> Processes \cup {NoProcess}]
        BY <3>1 DEF MessagesInv, MessageTypes
      <3>4. QED
        BY <1>1, <3>1, <3>2, <3>3 DEF MessagesInv, MessageTypes
    <2>2. CASE OpensOwn(p)
      BY <1>1, <2>2 DEF MessagesInv, MessageTypes, OpensOwn, Goes
    <2>3. CASE \E d \in Drops : Drop(p, d)
      BY <1>1, <2>3 DEF MessagesInv, MessageTypes, Drop
    <2>4. CASE (Dialog(p) \/ FrameEnds(p)) /\ Idle
      BY <1>1, <2>4 DEF MessagesInv, MessageTypes, Dialog, FrameEnds, Idle, Goes
    <2>5. QED
      BY <2>1, <2>2, <2>3, <2>4
  <1>3. OnePlace' /\ \A f \in Processes : Waits(f)' = Waits(f)
    BY <1>1, <1>2, PlacesStay
  <1>4. ASSUME NEW f \in Processes
        PROVE  /\ Budget(f)'
               /\ state'[f] \in {"off", "sending"} => f \notin gaveUp'
               /\ state'[f] = "sending" \/ f \in late' => target'[f] \in Processes
    <2>1. /\ Budget(f) /\ timesOpened[f] \in Nat /\ Waits(f)' = Waits(f)
          /\ state[f] \in {"off", "sending"} => f \notin gaveUp
          /\ state[f] = "sending" \/ f \in late => target[f] \in Processes
      BY <1>3 DEF MessagesInv, MessageTypes
    <2>2. CASE Launch(p)
      <3>1. /\ state[p] = "off" /\ timesOpened' = timesOpened
            /\ \/ state' = [state EXCEPT ![p] = "starting"] /\ target' = target
               \/ /\ state' = [state EXCEPT ![p] = "sending"]
                  /\ \E q \in Processes : target' = [target EXCEPT ![p] = q]
        BY <2>2 DEF Launch, Goes, HasWindow
      <3>2. QED
        BY <1>1, <2>1, <3>1 DEF Budget, MessagesInv, MessageTypes
    <2>3. CASE OpensOwn(p)
      BY <1>1, <2>1, <2>3 DEF OpensOwn, Goes, Budget, MessagesInv, MessageTypes
    <2>4. CASE \E d \in Drops : Drop(p, d)
      BY <1>1, <2>1, <2>4 DEF Drop, Budget
    <2>5. CASE (Dialog(p) \/ FrameEnds(p)) /\ Idle
      BY <1>1, <2>1, <2>5 DEF Dialog, FrameEnds, Idle, Goes, Budget, MessagesInv,
                              MessageTypes
    <2>6. QED
      BY <2>2, <2>3, <2>4, <2>5
  <1>5. QED
    BY <1>2, <1>3, <1>4 DEF MessagesInv

\* A sender that gives up has two openings, of which one may be in the queue.
LEMMA GiveUpKeeps ==
    ASSUME MessagesInv, NEW p \in Processes, GiveUp(p)
    PROVE  MessagesInv'
  <1>1. /\ state[p] = "sending" /\ state' = [state EXCEPT ![p] = "starting"]
        /\ UNCHANGED <<target, ipcPaths, timesOpened>>
        /\ \/ gaveUp' = gaveUp \cup {p} /\ late' \in {late, late \cup {p}}
           \/ UNCHANGED <<gaveUp, late>>
    BY DEF GiveUp, Goes
  <1>2. MessageTypes'
    BY <1>1 DEF MessagesInv, MessageTypes
  <1>3. /\ Budget(p) /\ timesOpened[p] \in Nat /\ p \notin gaveUp
        /\ target[p] \in Processes
    BY <1>1 DEF MessagesInv, MessageTypes
  <1>4. timesOpened[p] = 0 /\ ~Waits(p)
    BY <1>1, <1>3 DEF Budget
  <1>5. \A f, q, k : TakenAt(f, q, k)' = TakenAt(f, q, k)
    BY <1>1 DEF TakenAt
  <1>6. \A q \in Processes : \A k \in Nat : ~TakenAt(p, q, k)
    BY <1>4 DEF Waits
  <1>7. OnePlace'
    BY <1>1, <1>5, <1>6 DEF OnePlace, MessagesInv
  <1>8. \A f \in Processes \ {p} : Waits(f)' = Waits(f)
    BY <1>1, <1>5 DEF Waits
  <1>9. Waits(p)' => p \in gaveUp'
    BY <1>1, <1>4, <1>5 DEF Waits
  <1>10. ASSUME NEW f \in Processes
         PROVE  /\ Budget(f)'
                /\ state'[f] \in {"off", "sending"} => f \notin gaveUp'
                /\ state'[f] = "sending" \/ f \in late' => target'[f] \in Processes
    <2>1. CASE f = p
      BY <1>1, <1>2, <1>3, <1>4, <1>9, <2>1 DEF Budget, MessageTypes
    <2>2. CASE f # p
      <3>1. /\ state'[f] = state[f] /\ (f \in gaveUp' <=> f \in gaveUp)
            /\ (f \in late' <=> f \in late) /\ UNCHANGED <<timesOpened, target>>
        BY <1>1, <2>2 DEF MessagesInv, MessageTypes
      <3>2. Waits(f)' = Waits(f)
        BY <1>8, <2>2
      <3>3. QED
        BY <3>1, <3>2 DEF Budget, MessagesInv
    <2>3. QED
      BY <2>1, <2>2
  <1>11. QED
    BY <1>2, <1>7, <1>10 DEF MessagesInv

\* The file of p is handed to window t, that had it nowhere.
HandedTo(t, p) ==
    /\ p \in Processes /\ t \in Processes
    /\ ipcPaths' = [ipcPaths EXCEPT ![t] = Append(@, p)]
    /\ \A q \in Processes : \A k \in Nat : ~TakenAt(p, q, k)
    /\ late' = late \ {p}

LEMMA HandedOver ==
    ASSUME NEW p, NEW t, MessagesInv, HandedTo(t, p)
    PROVE  /\ ipcPaths' \in [Processes -> Seq(Processes)]
           /\ OnePlace'
           /\ \A f \in Processes \ {p} : Waits(f)' = Waits(f)
           /\ p \in Processes /\ t \in Processes
  <1>1. /\ ipcPaths \in [Processes -> Seq(Processes)] /\ p \in Processes
        /\ t \in Processes /\ OnePlace
    BY DEF HandedTo, MessagesInv, MessageTypes
  <1>2. ipcPaths' = [ipcPaths EXCEPT ![t] = Append(@, p)]
    BY DEF HandedTo
  <1>3. /\ ipcPaths[t] \in Seq(Processes)
        /\ Append(ipcPaths[t], p) \in Seq(Processes)
    BY <1>1
  <1>4. PICK n \in Nat : n = Len(ipcPaths[t]) + 1
    BY <1>3
  <1>5. ASSUME NEW k
        PROVE  /\ k \in DOMAIN Append(ipcPaths[t], p) <=> k \in DOMAIN ipcPaths[t] \/ k = n
               /\ k \in DOMAIN ipcPaths[t] => Append(ipcPaths[t], p)[k] = ipcPaths[t][k]
                                            /\ k # n
               /\ Append(ipcPaths[t], p)[n] = p
    BY <1>1, <1>3, <1>4
  <1>6. ASSUME NEW f, NEW q \in Processes, NEW k
        PROVE  TakenAt(f, q, k)' <=> TakenAt(f, q, k) \/ (f = p /\ q = t /\ k = n)
    <2>1. CASE q = t
      <3>1. ipcPaths'[q] = Append(ipcPaths[t], p)
        BY <1>1, <1>2, <2>1
      <3>2. QED
        BY <1>5, <2>1, <3>1 DEF TakenAt
    <2>2. CASE q # t
      <3>1. ipcPaths'[q] = ipcPaths[q]
        BY <1>1, <1>2, <2>2
      <3>2. QED
        BY <2>2, <3>1 DEF TakenAt
    <2>3. QED
      BY <2>1, <2>2
  <1>7. ipcPaths' \in [Processes -> Seq(Processes)]
    BY <1>1, <1>2, <1>3
  <1>8. /\ \A q \in Processes : \A k \in Nat : ~TakenAt(p, q, k)
        /\ late' = late \ {p}
    BY DEF HandedTo
  <1>9. OnePlace'
    <2>1. ASSUME NEW f \in Processes, NEW q \in Processes, NEW r \in Processes,
                 NEW k \in Nat, NEW l \in Nat, TakenAt(f, q, k)', TakenAt(f, r, l)'
          PROVE  q = r /\ k = l
      <3>1. CASE f = p
        BY <1>6, <1>8, <2>1, <3>1
      <3>2. CASE f # p
        <4>1. TakenAt(f, q, k) /\ TakenAt(f, r, l)
          BY <1>6, <2>1, <3>2
        <4>2. QED
          BY <1>1, <4>1 DEF OnePlace
      <3>3. QED
        BY <3>1, <3>2
    <2>2. ASSUME NEW f \in Processes, NEW q \in Processes, NEW k \in Nat,
                 TakenAt(f, q, k)'
          PROVE  f \notin late'
      BY <1>1, <1>6, <1>8, <2>2 DEF OnePlace
    <2>3. QED
      BY <2>1, <2>2 DEF OnePlace
  <1>10. \A f \in Processes \ {p} : Waits(f)' = Waits(f)
    <2>1. SUFFICES ASSUME NEW f \in Processes, f # p
                   PROVE  Waits(f)' = Waits(f)
      OBVIOUS
    <2>2. \A q \in Processes : \A k \in Nat : TakenAt(f, q, k)' <=> TakenAt(f, q, k)
      BY <1>6, <2>1
    <2>3. f \in late' <=> f \in late
      BY <1>8, <2>1
    <2>4. QED
      BY <2>2, <2>3 DEF Waits
  <1>11. QED
    BY <1>1, <1>7, <1>9, <1>10

\* WM_COPYDATA: the one opening of its process waits in the window.
LEMMA CopyDataKeeps ==
    ASSUME MessagesInv, NEW p \in Processes, CopyData(p)
    PROVE  MessagesInv'
  <1>1. /\ state[p] = "sending" /\ state' = [state EXCEPT ![p] = "exited"]
        /\ target' = [target EXCEPT ![p] = NoProcess]
        /\ UNCHANGED <<late, timesOpened, gaveUp>>
        /\ ipcPaths' = [ipcPaths EXCEPT ![target[p]] = Append(@, p)]
    BY DEF CopyData, Goes, Taken
  <1>2. /\ Budget(p) /\ timesOpened[p] \in Nat /\ p \notin gaveUp
        /\ target[p] \in Processes
    BY <1>1 DEF MessagesInv, MessageTypes
  <1>3. timesOpened[p] = 0 /\ ~Waits(p)
    BY <1>1, <1>2 DEF Budget
  <1>4. HandedTo(target[p], p)
    BY <1>1, <1>2, <1>3 DEF HandedTo, Waits
  <1>5. /\ ipcPaths' \in [Processes -> Seq(Processes)] /\ OnePlace'
        /\ \A f \in Processes \ {p} : Waits(f)' = Waits(f)
    BY <1>4, HandedOver
  <1>6. MessageTypes'
    BY <1>1, <1>5 DEF MessagesInv, MessageTypes
  <1>7. ASSUME NEW f \in Processes
        PROVE  /\ Budget(f)'
               /\ state'[f] \in {"off", "sending"} => f \notin gaveUp'
               /\ state'[f] = "sending" \/ f \in late' => target'[f] \in Processes
    <2>1. CASE f = p
      <3>1. state'[p] = "exited" /\ timesOpened'[p] = 0 /\ p \notin late'
        BY <1>1, <1>3 DEF Waits, MessagesInv, MessageTypes
      <3>2. QED
        BY <2>1, <3>1 DEF Budget
    <2>2. CASE f # p
      <3>1. /\ state'[f] = state[f] /\ target'[f] = target[f]
            /\ UNCHANGED <<timesOpened, gaveUp, late>>
        BY <1>1, <2>2 DEF MessagesInv, MessageTypes
      <3>2. Waits(f)' = Waits(f)
        BY <1>5, <2>2
      <3>3. QED
        BY <3>1, <3>2 DEF Budget, MessagesInv
    <2>3. QED
      BY <2>1, <2>2
  <1>8. QED
    BY <1>5, <1>6, <1>7 DEF MessagesInv

\* A message dispatched late: what waited in the queue waits in the window, or
\* is gone with it.
LEMMA LateCopyKeeps ==
    ASSUME MessagesInv, NEW p \in Processes, LateCopyData(p)
    PROVE  MessagesInv'
  <1>1. /\ p \in late /\ late' = late \ {p}
        /\ UNCHANGED <<state, target, timesOpened, gaveUp>>
        /\ \/ ipcPaths' = [ipcPaths EXCEPT ![target[p]] = Append(@, p)]
           \/ ipcPaths' = ipcPaths
    BY DEF LateCopyData, Taken
  <1>2. target[p] \in Processes /\ Waits(p)
    BY <1>1 DEF MessagesInv, Waits
  <1>3. \A q \in Processes : \A k \in Nat : ~TakenAt(p, q, k)
    BY <1>1 DEF MessagesInv, OnePlace
  <1>4. /\ ipcPaths' \in [Processes -> Seq(Processes)] /\ OnePlace'
        /\ \A f \in Processes \ {p} : Waits(f)' = Waits(f)
    <2>1. CASE ipcPaths' = [ipcPaths EXCEPT ![target[p]] = Append(@, p)]
      <3>1. HandedTo(target[p], p)
        BY <1>1, <1>2, <1>3, <2>1 DEF HandedTo
      <3>2. QED
        BY <3>1, HandedOver
    <2>2. CASE ipcPaths' = ipcPaths
      <3>1. \A f, q, k : TakenAt(f, q, k)' = TakenAt(f, q, k)
        BY <2>2 DEF TakenAt
      <3>2. OnePlace'
        BY <1>1, <3>1 DEF OnePlace, MessagesInv
      <3>3. \A f \in Processes \ {p} : Waits(f)' = Waits(f)
        BY <1>1, <3>1 DEF Waits
      <3>4. QED
        BY <2>2, <3>2, <3>3 DEF MessagesInv, MessageTypes
    <2>3. QED
      BY <1>1, <2>1, <2>2
  <1>5. MessageTypes'
    BY <1>1, <1>4 DEF MessagesInv, MessageTypes
  <1>6. ASSUME NEW f \in Processes
        PROVE  /\ Budget(f)'
               /\ state'[f] \in {"off", "sending"} => f \notin gaveUp'
               /\ state'[f] = "sending" \/ f \in late' => target'[f] \in Processes
    <2>1. Waits(f)' => Waits(f)
      BY <1>2, <1>4
    <2>2. Budget(f) /\ timesOpened[f] \in Nat
      BY DEF MessagesInv, MessageTypes
    <2>3. Budget(f)'
      BY <1>1, <2>1, <2>2 DEF Budget
    <2>4. QED
      BY <1>1, <2>3 DEF MessagesInv
  <1>7. QED
    BY <1>4, <1>5, <1>6 DEF MessagesInv

\* A window whose list is taken: nothing else moves.
LEMMA Emptied ==
    ASSUME MessagesInv, NEW w \in Processes,
           ipcPaths' = [ipcPaths EXCEPT ![w] = <<>>], late' = late
    PROVE  /\ ipcPaths' \in [Processes -> Seq(Processes)] /\ OnePlace'
           /\ \A f \in Processes : Waits(f)' => Waits(f)
           /\ \A f \in Processes : \A k \in Nat : TakenAt(f, w, k) => Waits(f) /\ ~Waits(f)'
  <1>1. ipcPaths \in [Processes -> Seq(Processes)]
    BY DEF MessagesInv, MessageTypes
  <1>2. <<>> \in Seq(Processes)
    OBVIOUS
  <1>3. ipcPaths' \in [Processes -> Seq(Processes)]
    BY <1>1, <1>2
  <1>4. ASSUME NEW f, NEW q \in Processes, NEW k
        PROVE  TakenAt(f, q, k)' <=> TakenAt(f, q, k) /\ q # w
    <2>1. CASE q = w
      <3>1. ipcPaths'[q] = <<>>
        BY <1>1, <2>1
      <3>2. QED
        BY <2>1, <3>1 DEF TakenAt
    <2>2. CASE q # w
      <3>1. ipcPaths'[q] = ipcPaths[q]
        BY <1>1, <2>2
      <3>2. QED
        BY <2>2, <3>1 DEF TakenAt
    <2>3. QED
      BY <2>1, <2>2
  <1>5. OnePlace'
    BY <1>4 DEF OnePlace, MessagesInv
  <1>6. \A f \in Processes : Waits(f)' => Waits(f)
    BY <1>4 DEF Waits
  <1>7. ASSUME NEW f \in Processes, NEW k \in Nat, TakenAt(f, w, k)
        PROVE  Waits(f) /\ ~Waits(f)'
    <2>1. f \notin late /\ \A q \in Processes : \A l \in Nat : TakenAt(f, q, l) => q = w
      BY <1>7 DEF MessagesInv, OnePlace
    <2>2. QED
      BY <1>4, <1>7, <2>1 DEF Waits
  <1>8. QED
    BY <1>3, <1>5, <1>6, <1>7

\* A window that closes takes what it has with it.
LEMMA ClosesKeeps ==
    ASSUME MessagesInv, NEW p \in Processes, Closes(p)
    PROVE  MessagesInv'
  <1>1. /\ state[p] = "pump" /\ state' = [state EXCEPT ![p] = "exited"]
        /\ ipcPaths' = [ipcPaths EXCEPT ![p] = <<>>]
        /\ UNCHANGED <<target, late, timesOpened, gaveUp>>
    BY DEF Closes, Goes
  <1>2. /\ ipcPaths' \in [Processes -> Seq(Processes)] /\ OnePlace'
        /\ \A f \in Processes : Waits(f)' => Waits(f)
    BY <1>1, Emptied
  <1>3. MessageTypes'
    BY <1>1, <1>2 DEF MessagesInv, MessageTypes
  <1>4. ASSUME NEW f \in Processes
        PROVE  /\ Budget(f)'
               /\ state'[f] \in {"off", "sending"} => f \notin gaveUp'
               /\ state'[f] = "sending" \/ f \in late' => target'[f] \in Processes
    <2>1. Budget(f) /\ timesOpened[f] \in Nat /\ (Waits(f)' => Waits(f))
      BY <1>2 DEF MessagesInv, MessageTypes
    <2>2. /\ state'[f] \in {"off", "sending", "starting"} => state[f] = state'[f]
          /\ state[f] \in {"off", "sending", "starting"} => state[f] = state'[f]
      BY <1>1 DEF MessagesInv, MessageTypes
    <2>3. Budget(f)'
      BY <1>1, <2>1, <2>2 DEF Budget
    <2>4. QED
      BY <1>1, <2>2, <2>3 DEF MessagesInv
  <1>5. QED
    BY <1>2, <1>3, <1>4 DEF MessagesInv

\* A frame opens each file once, the one time it is in the list.
LEMMA RunFrameKeeps ==
    ASSUME MessagesInv, NEW p \in Processes, RunFrame(p)
    PROVE  MessagesInv'
  <1> DEFINE places(f) == {k \in DOMAIN ipcPaths[p] : ipcPaths[p][k] = f}
  <1>1. /\ state[p] = "pump" /\ state' = [state EXCEPT ![p] = "frame"]
        /\ ipcPaths' = [ipcPaths EXCEPT ![p] = <<>>]
        /\ timesOpened' = [f \in Processes |-> timesOpened[f] + Cardinality(places(f))]
        /\ UNCHANGED <<target, late, gaveUp>>
    BY DEF RunFrame, Goes, LeftAfterFrame
  <1>2. /\ ipcPaths' \in [Processes -> Seq(Processes)] /\ OnePlace'
        /\ \A f \in Processes : Waits(f)' => Waits(f)
        /\ \A f \in Processes : \A k \in Nat : TakenAt(f, p, k) => Waits(f) /\ ~Waits(f)'
    BY <1>1, Emptied
  <1>3. DOMAIN ipcPaths[p] \subseteq Nat
    BY DEF MessagesInv, MessageTypes
  <1>4. ASSUME NEW f \in Processes
        PROVE  \/ Cardinality(places(f)) = 0
               \/ Cardinality(places(f)) = 1 /\ Waits(f) /\ ~Waits(f)'
    <2>1. CASE places(f) = {}
      BY <2>1, FS_EmptySet
    <2>2. CASE places(f) # {}
      <3>1. PICK k \in places(f) : TRUE
        BY <2>2
      <3>2. k \in Nat /\ TakenAt(f, p, k)
        BY <1>3, <3>1 DEF TakenAt
      <3>3. \A l \in places(f) : l = k
        BY <1>3, <3>2 DEF TakenAt, MessagesInv, OnePlace
      <3>4. places(f) = {k}
        BY <3>1, <3>3
      <3>5. Cardinality(places(f)) = 1
        BY <3>4, FS_Singleton
      <3>6. QED
        BY <1>2, <3>2, <3>5
    <2>3. QED
      BY <2>1, <2>2
  <1> HIDE DEF places
  <1>5. MessageTypes'
    <2>1. timesOpened' \in [Processes -> Nat]
      <3>1. ASSUME NEW f \in Processes
            PROVE  timesOpened[f] + Cardinality(places(f)) \in Nat
        <4>1. Cardinality(places(f)) = 0 \/ Cardinality(places(f)) = 1
          BY <1>4
        <4>2. timesOpened[f] \in Nat
          BY DEF MessagesInv, MessageTypes
        <4>3. QED
          BY <4>1, <4>2
      <3>2. QED
        BY <1>1, <3>1
    <2>2. QED
      BY <1>1, <1>2, <2>1 DEF MessagesInv, MessageTypes
  <1>6. ASSUME NEW f \in Processes
        PROVE  /\ Budget(f)'
               /\ state'[f] \in {"off", "sending"} => f \notin gaveUp'
               /\ state'[f] = "sending" \/ f \in late' => target'[f] \in Processes
    <2>1. Budget(f) /\ timesOpened[f] \in Nat /\ (Waits(f)' => Waits(f))
      BY <1>2 DEF MessagesInv, MessageTypes
    <2>2. /\ state'[f] \in {"off", "sending", "starting"} => state[f] = state'[f]
          /\ state[f] \in {"off", "sending", "starting"} => state[f] = state'[f]
      BY <1>1 DEF MessagesInv, MessageTypes
    <2>3. \/ timesOpened'[f] = timesOpened[f]
          \/ timesOpened'[f] = timesOpened[f] + 1 /\ Waits(f) /\ ~Waits(f)'
      BY <1>1, <1>4, <2>1
    <2>4. gaveUp' = gaveUp
      BY <1>1
    <2>5. Budget(f)'
      BY <2>1, <2>2, <2>3, <2>4 DEF Budget
    <2>6. QED
      BY <1>1, <2>2, <2>5 DEF MessagesInv
  <1>7. QED
    BY <1>2, <1>5, <1>6 DEF MessagesInv

LEMMA MessagesKept == MessagesInv /\ [MessagesNext]_messageVars => MessagesInv'
  <1> SUFFICES ASSUME MessagesInv, [MessagesNext]_messageVars
               PROVE  MessagesInv'
    OBVIOUS
  <1>1. CASE MessagesNext
    <2>1. PICK p \in Processes :
              \/ Launch(p) \/ Steps(p) \/ LateCopyData(p)
              \/ \E d \in Drops : Drop(p, d)
              \/ Closes(p) \/ RunFrame(p) \/ (Dialog(p) /\ Idle) \/ (FrameEnds(p) /\ Idle)
      BY <1>1 DEF MessagesNext
    <2>2. QED
      BY <2>1, ProcessKeeps, GiveUpKeeps, CopyDataKeeps, LateCopyKeeps, ClosesKeeps,
         RunFrameKeeps DEF Steps
  <1>2. CASE UNCHANGED messageVars
    <2>1. UNCHANGED <<state, target, ipcPaths, late, timesOpened, gaveUp>>
      BY <1>2 DEF messageVars
    <2>2. MessageTypes'
      BY <2>1 DEF MessagesInv, MessageTypes
    <2>3. OnePlace' /\ \A f \in Processes : Waits(f)' = Waits(f)
      BY <2>1, <2>2, PlacesStay
    <2>4. \A f \in Processes : Budget(f)'
      BY <2>1, <2>3 DEF MessagesInv, Budget
    <2>5. QED
      BY <2>1, <2>2, <2>3, <2>4 DEF MessagesInv
  <1>3. QED
    BY <1>1, <1>2

\* What a window has been given by the last drop, and nothing of an earlier one.
DropsInv ==
    /\ dropPaths \in [Processes -> {<<>>} \cup {<<d>> : d \in Drops}]
    /\ DropsAreNotMixed

LEMMA DropsKept == DropsInv /\ [MessagesNext]_messageVars => DropsInv'
  <1> SUFFICES ASSUME DropsInv, [MessagesNext]_messageVars
               PROVE  DropsInv'
    OBVIOUS
  <1>1. ASSUME NEW p \in Processes, NEW d \in Drops, Drop(p, d)
        PROVE  DropsInv'
    <2>1. dropPaths' = [dropPaths EXCEPT ![p] = <<d>>] /\ played' = played
      BY <1>1 DEF Drop, DropTaken
    <2>2. QED
      BY <2>1 DEF DropsInv, DropsAreNotMixed
  <1>2. ASSUME NEW p \in Processes, RunFrame(p)
        PROVE  DropsInv'
    <2>1. /\ dropPaths' = [dropPaths EXCEPT ![p] = <<>>]
          /\ played' = IF dropPaths[p] = <<>> THEN played
                       ELSE played \cup {{dropPaths[p][k] : k \in DOMAIN dropPaths[p]}}
      BY <1>2 DEF RunFrame
    <2>2. CASE dropPaths[p] = <<>>
      BY <2>1, <2>2 DEF DropsInv, DropsAreNotMixed
    <2>3. CASE dropPaths[p] # <<>>
      <3>1. PICK d \in Drops : dropPaths[p] = <<d>>
        BY <2>3 DEF DropsInv
      <3>2. {<<d>>[k] : k \in DOMAIN <<d>>} = {d}
        OBVIOUS
      <3>3. played' = played \cup {{d}}
        BY <2>1, <2>3, <3>1, <3>2
      <3>4. Cardinality({d}) = 1
        BY FS_Singleton
      <3>5. QED
        BY <2>1, <3>3, <3>4 DEF DropsInv, DropsAreNotMixed
    <2>4. QED
      BY <2>2, <2>3
  <1>3. ASSUME NEW p \in Processes, Closes(p)
        PROVE  DropsInv'
    BY <1>3 DEF Closes, DropsInv, DropsAreNotMixed
  <1>4. ASSUME NEW p \in Processes,
               \/ Launch(p) \/ Steps(p) \/ LateCopyData(p)
               \/ (Dialog(p) /\ Idle) \/ (FrameEnds(p) /\ Idle)
        PROVE  DropsInv'
    <2>1. UNCHANGED <<dropPaths, played>>
      BY <1>4 DEF Launch, Steps, CopyData, GiveUp, OpensOwn, LateCopyData, Idle
    <2>2. QED
      BY <2>1 DEF DropsInv, DropsAreNotMixed
  <1>5. CASE UNCHANGED messageVars
    BY <1>5 DEF messageVars, DropsInv, DropsAreNotMixed
  <1>6. QED
    BY <1>1, <1>2, <1>3, <1>4, <1>5 DEF MessagesNext

\* In every behaviour of any number of processes a file is opened once, unless
\* its process gave up on a busy window, and a frame plays the files of one drop
\* (WM_COPYDATA, SendMessageTimeout in wWinMain, IDropTarget::Drop).
THEOREM MessagesTheorem == MessagesSpec => [](OpenedOnce /\ DropsAreNotMixed)
  <1>1. MessagesInit => MessagesInv /\ DropsInv
    <2>1. MessagesInit => DropsInv
      BY DEF MessagesInit, DropsInv, DropsAreNotMixed
    <2>2. QED
      BY <2>1, MessagesStart
  <1>2. MessagesInv /\ DropsInv /\ [MessagesNext]_messageVars => MessagesInv' /\ DropsInv'
    BY MessagesKept, DropsKept
  <1>3. MessagesInv /\ DropsInv => OpenedOnce /\ DropsAreNotMixed
    BY MessagesInvImplies DEF DropsInv
  <1>4. QED
    BY <1>1, <1>2, <1>3, PTL DEF MessagesSpec

----------------------------------------------------------------------------
(* The chat and what its chips say.                                        *)

TimelineSpec == TimelineInit /\ [][TimelineNext]_timelineVars

Texts == {NoText, "text", "file", "Guest joined", "Guest left", "Host joined", "Host left"}
         \cup TransportChips \cup FileChips \cup VoiceChips
Shown == {"None", "Sent", "Failed", "Sending", "Receiving", "Done"}
Line == [text : Texts, id : Nat, status : Shown]
Verdicts == {"Local file not loaded", "Host file ready", "Waiting for peer file info",
             "Files match", "File mismatch"}
Voices == {"Idle", "Connected", "Failed"}
Statuses == {"Idle", "Connecting", "Disconnected", "Joining", "Hosting - Connected",
             "Hosting - Waiting", "Connected", "Waiting", "Host failed"}
Session == [hosting : BOOLEAN, active : BOOLEAN, hostOnline : BOOLEAN, guests : 0 .. 2,
            conn : {"Connecting", "Connected", "Disconnected", "Reconnecting", "Invalid URL"},
            joined : BOOLEAN, voice : Voices, localFile : Files \cup {NoFile},
            remoteFile : Files \cup {NoFile}, verdict : Verdicts, status : Statuses]

\* Lines that show the transfers as they were reported, each once.
Transfers(lines, rep) ==
    /\ \A i \in DOMAIN lines :
          /\ lines[i].id \in 0 .. Len(rep)
          /\ lines[i].id # 0 => lines[i].status = rep[lines[i].id]
    /\ \A i, j \in DOMAIN lines : lines[i].id = lines[j].id /\ lines[i].id # 0 => i = j

Listed(lines, rep) ==
    /\ lines \in Seq(Line) /\ rep \in Seq(Shown) /\ Len(lines) <= MaxLines
    /\ Transfers(lines, rep)

\* A list that has got a line, and may have lost its d oldest for it.
Grown(new, lines, line, d) ==
    /\ new \in Seq(Line) /\ lines \in Seq(Line) /\ line \in Line /\ d \in {0, 1}
    /\ Len(new) = Len(lines) + 1 - d /\ Len(new) >= 1 /\ Len(new) <= MaxLines
    /\ \A i \in 1 .. Len(new) : new[i] = IF i = Len(new) THEN line ELSE lines[i + d]

LEMMA LinesGrow ==
    ASSUME NEW lines \in Seq(Line), Len(lines) <= MaxLines, NEW line \in Line
    PROVE  \E d \in {0, 1} : Grown(Trimmed(Append(lines, line)), lines, line, d)
  <1>1. PICK n \in Nat : n = Len(lines)
    OBVIOUS
  <1>2. PICK longer : longer = Append(lines, line) /\ longer \in Seq(Line)
    <2>1. Append(lines, line) \in Seq(Line)
      OBVIOUS
    <2>2. QED
      BY <2>1
  <1>3. /\ Len(longer) = n + 1
        /\ \A i \in 1 .. n : longer[i] = lines[i]
        /\ longer[n + 1] = line
    BY <1>1, <1>2
  <1>4. CASE n + 1 > MaxLines
    <2>1. Trimmed(Append(lines, line)) = Tail(longer)
      BY <1>2, <1>3, <1>4 DEF Trimmed
    <2>2. longer # <<>> /\ n >= 1 /\ n = MaxLines
      BY <1>1, <1>3, <1>4, TimelineAssumption
    <2>3. /\ Tail(longer) \in Seq(Line) /\ Len(Tail(longer)) = n
          /\ \A i \in 1 .. n : Tail(longer)[i] = longer[i + 1]
      BY <1>2, <1>3, <2>2, HeadTailProperties
    <2>4. \A i \in 1 .. n : Tail(longer)[i] = IF i = n THEN line ELSE lines[i + 1]
      BY <1>3, <2>3
    <2>5. Grown(Tail(longer), lines, line, 1)
      BY <1>1, <2>2, <2>3, <2>4 DEF Grown
    <2>6. QED
      BY <2>1, <2>5
  <1>5. CASE ~(n + 1 > MaxLines)
    <2>1. Trimmed(Append(lines, line)) = longer
      BY <1>2, <1>3, <1>5 DEF Trimmed
    <2>2. \A i \in 1 .. n + 1 : longer[i] = IF i = n + 1 THEN line ELSE lines[i + 0]
      BY <1>1, <1>3
    <2>3. Grown(longer, lines, line, 0)
      BY <1>1, <1>2, <1>3, <1>5, <2>2, TimelineAssumption DEF Grown
    <2>4. QED
      BY <2>1, <2>3
  <1>6. QED
    BY <1>4, <1>5

\* The line that has come is of no transfer, or of one that had no line.
LEMMA GrownLists ==
    ASSUME NEW new, NEW lines, NEW line, NEW d, NEW rep,
           Grown(new, lines, line, d), Listed(lines, rep),
           \/ line.id = 0
           \/ /\ line.id \in 1 .. Len(rep) /\ line.status = rep[line.id]
              /\ \A i \in DOMAIN lines : lines[i].id # line.id
    PROVE  Listed(new, rep)
  <1>1. /\ new \in Seq(Line) /\ lines \in Seq(Line) /\ line \in Line /\ rep \in Seq(Shown)
        /\ Len(new) <= MaxLines
    BY DEF Grown, Listed
  <1>2. PICK n \in Nat : n = Len(new)
    BY <1>1
  <1>3. PICK m \in Nat : m = Len(rep)
    BY <1>1
  <1>4. ASSUME NEW i \in 1 .. n - 1
        PROVE  i + d \in DOMAIN lines /\ new[i] = lines[i + d]
    <2>1. PICK l \in Nat : l = Len(lines) /\ DOMAIN lines = 1 .. l
      BY <1>1
    <2>2. n = l + 1 - d /\ d \in {0, 1}
      BY <1>2, <2>1 DEF Grown
    <2>3. i \in 1 .. n /\ i # n /\ i + d \in 1 .. l
      BY <2>2
    <2>4. QED
      BY <1>2, <2>1, <2>3 DEF Grown
  <1>5. new[n] = line /\ DOMAIN new = 1 .. n /\ d \in Int
    <2>1. n \in 1 .. n /\ d \in {0, 1}
      BY <1>2 DEF Grown
    <2>2. QED
      BY <1>1, <1>2, <2>1 DEF Grown
  <1>6. \A i \in 1 .. n : i = n \/ i \in 1 .. n - 1
    BY <1>2
  <1>7. ASSUME NEW i \in 1 .. n
        PROVE  new[i].id \in 0 .. m /\ (new[i].id # 0 => new[i].status = rep[new[i].id])
    <2>1. CASE i = n
      BY <1>3, <1>5, <2>1
    <2>2. CASE i \in 1 .. n - 1
      BY <1>3, <1>4, <2>2 DEF Listed, Transfers
    <2>3. QED
      BY <1>6, <2>1, <2>2
  <1>8. ASSUME NEW i \in 1 .. n, NEW j \in 1 .. n, new[i].id = new[j].id, new[i].id # 0
        PROVE  i = j
    <2>1. CASE i = n /\ j = n
      BY <2>1
    <2>2. CASE i \in 1 .. n - 1 /\ j \in 1 .. n - 1
      <3>1. i + d = j + d
        BY <1>4, <1>8, <2>2 DEF Listed, Transfers
      <3>2. QED
        BY <1>5, <3>1
    <2>3. CASE i = n /\ j \in 1 .. n - 1
      BY <1>4, <1>5, <1>8, <2>3
    <2>4. CASE i \in 1 .. n - 1 /\ j = n
      BY <1>4, <1>5, <1>8, <2>4
    <2>5. QED
      BY <1>6, <2>1, <2>2, <2>3, <2>4
  <1>9. Transfers(new, rep)
    BY <1>3, <1>5, <1>7, <1>8 DEF Transfers
  <1>10. QED
    BY <1>1, <1>9 DEF Listed

\* What the chips say is what they said, or what the new one says.
LEMMA GrownTells ==
    ASSUME NEW new, NEW lines, NEW line, NEW d, NEW texts, NEW said,
           Grown(new, lines, line, d)
    PROVE  /\ line.text \in texts => Tells(new, texts, line.text)
           /\ line.text \notin texts /\ Tells(lines, texts, said) => Tells(new, texts, said)
  <1>1. new \in Seq(Line) /\ lines \in Seq(Line) /\ line \in Line /\ d \in {0, 1}
    BY DEF Grown
  <1>2. PICK n \in Nat : n = Len(new) /\ n >= 1
    BY <1>1 DEF Grown
  <1>3. PICK m \in Nat : m = Len(lines) /\ n = m + 1 - d
    BY <1>1, <1>2 DEF Grown
  <1>4. /\ DOMAIN new = 1 .. n /\ DOMAIN lines = 1 .. m
        /\ new[n] = line
        /\ \A i \in 1 .. n : i # n => new[i] = lines[i + d]
    BY <1>1, <1>2, <1>3 DEF Grown
  <1>5. ASSUME line.text \in texts
        PROVE  Tells(new, texts, line.text)
    <2>1. SUFFICES ASSUME NEW i \in 1 .. n,
                          \A j \in 1 .. n : j > i => new[j].text \notin texts
                   PROVE  new[i].text = line.text
      BY <1>4 DEF Tells
    <2>2. ~(n > i)
      BY <1>2, <1>4, <1>5, <2>1
    <2>3. i = n
      BY <2>2
    <2>4. QED
      BY <1>4, <2>3
  <1>6. ASSUME line.text \notin texts, Tells(lines, texts, said)
        PROVE  Tells(new, texts, said)
    <2>1. SUFFICES ASSUME NEW i \in 1 .. n, new[i].text \in texts,
                          \A j \in 1 .. n : j > i => new[j].text \notin texts
                   PROVE  new[i].text = said
      BY <1>4 DEF Tells
    <2>2. i # n
      BY <1>4, <1>6, <2>1
    <2>3. i + d \in 1 .. m /\ new[i] = lines[i + d]
      BY <1>1, <1>3, <1>4, <2>2
    <2>4. ASSUME NEW k \in 1 .. m, k > i + d
          PROVE  lines[k].text \notin texts
      <3>1. PICK j \in Int : j = k - d
        BY <1>1
      <3>2. j \in 1 .. n /\ j > i /\ j # n /\ k = j + d
        BY <1>1, <1>3, <2>4, <3>1
      <3>3. new[j] = lines[k]
        BY <1>4, <3>2
      <3>4. QED
        BY <2>1, <3>2, <3>3
    <2>5. QED
      BY <1>4, <1>6, <2>1, <2>3, <2>4 DEF Tells
  <1>7. QED
    BY <1>5, <1>6

\* AppendSystemTimelineChip.
LEMMA ChipsTell ==
    ASSUME NEW lines, NEW rep, NEW text \in Texts, Listed(lines, rep)
    PROVE  /\ Listed(Chips(lines, text), rep)
           /\ \A texts, said :
                 /\ text # NoText /\ text \in texts => Tells(Chips(lines, text), texts, text)
                 /\ (text = NoText \/ text \notin texts) /\ Tells(lines, texts, said)
                    => Tells(Chips(lines, text), texts, said)
  <1>1. lines \in Seq(Line) /\ Len(lines) <= MaxLines
    BY DEF Listed
  <1>2. CASE text = NoText
    BY <1>2 DEF Chips
  <1>3. CASE text # NoText /\ lines # <<>> /\ Last(lines) = Chip(text)
    <2>1. Chips(lines, text) = lines
      BY <1>3 DEF Chips
    <2>2. PICK n \in Nat : n = Len(lines) /\ n >= 1
      BY <1>1, <1>3
    <2>3. lines[n].text = text /\ n \in DOMAIN lines /\ DOMAIN lines = 1 .. n
      BY <1>1, <1>3, <2>2 DEF Last, Chip
    <2>4. ASSUME NEW texts, text \in texts
          PROVE  Tells(lines, texts, text)
      <3>1. SUFFICES ASSUME NEW i \in 1 .. n,
                            \A j \in 1 .. n : j > i => lines[j].text \notin texts
                     PROVE  lines[i].text = text
        BY <2>3 DEF Tells
      <3>2. ~(n > i)
        BY <2>3, <2>4, <3>1
      <3>3. i = n
        BY <3>2
      <3>4. QED
        BY <2>3, <3>3
    <2>5. QED
      BY <1>3, <2>1, <2>4
  <1>4. CASE text # NoText /\ ~(lines # <<>> /\ Last(lines) = Chip(text))
    <2>1. Chip(text).text = text /\ Chip(text).id = 0 /\ Chip(text) \in Line
      <3>1. Chip(text) = [text |-> text, id |-> 0, status |-> "None"]
        BY DEF Chip
      <3>2. "None" \in Shown /\ 0 \in Nat
        BY DEF Shown
      <3>3. QED
        BY <3>1, <3>2 DEF Line
    <2>2. Chips(lines, text) = Trimmed(Append(lines, Chip(text)))
      BY <1>4 DEF Chips
    <2>3. PICK d \in {0, 1} : Grown(Chips(lines, text), lines, Chip(text), d)
      BY <1>1, <2>1, <2>2, LinesGrow
    <2>4. Listed(Chips(lines, text), rep)
      BY <2>1, <2>3, GrownLists
    <2>5. ASSUME NEW texts, NEW said
          PROVE  /\ text \in texts => Tells(Chips(lines, text), texts, text)
                 /\ text \notin texts /\ Tells(lines, texts, said)
                    => Tells(Chips(lines, text), texts, said)
      BY <2>1, <2>3, GrownTells
    <2>6. QED
      BY <1>4, <2>4, <2>5
  <1>5. QED
    BY <1>2, <1>3, <1>4

----------------------------------------------------------------------------
\* What a status callback leaves: a list whose last chips say what was reported.
Told(v, rep) ==
    /\ Listed(v.chat, rep)
    /\ v.transport \in {"Connected", "Waiting"} /\ v.file \in Verdicts /\ v.voice \in Voices
    /\ Tells(v.chat, TransportChips,
             IF v.transport = "Connected" THEN "Connected" ELSE "Disconnected")
    /\ v.file = "Files match" => Tells(v.chat, FileChips, "Files verified")
    /\ Tells(v.chat, VoiceChips, VoiceLabel("Unknown", v.voice))

LEMMA DispatchTells ==
    ASSUME NEW v, NEW rep, NEW s \in Session, Told(v, rep)
    PROVE  /\ Told(DispatchStatus(v, s), rep)
           /\ DispatchStatus(v, s).transport = TransportState(s)
           /\ DispatchStatus(v, s).file = s.verdict
           /\ DispatchStatus(v, s).voice = s.voice
  <1>1. PICK t : t = TransportState(s) /\ t \in {"Connected", "Waiting"}
    BY DEF TransportState
  <1>2. s.verdict \in Verdicts /\ s.voice \in Voices
    BY DEF Session
  <1>3. PICK tl : tl = TransportLabel(v.transport, t)
    OBVIOUS
  <1>4. PICK fl : fl = FileLabel(v.file, s.verdict)
    OBVIOUS
  <1>5. PICK vl : vl = VoiceLabel(v.voice, s.voice)
    OBVIOUS
  <1>6. /\ tl \in Texts /\ tl \notin FileChips /\ tl \notin VoiceChips
        /\ \/ tl # NoText /\ tl \in TransportChips
                       /\ tl = (IF t = "Connected" THEN "Connected" ELSE "Disconnected")
           \/ tl = NoText /\ v.transport = t
    BY <1>1, <1>3 DEF TransportLabel, Texts, NoText, TransportChips, FileChips, VoiceChips
  <1>7. /\ fl \in Texts /\ fl \notin TransportChips /\ fl \notin VoiceChips
        /\ s.verdict = "Files match" =>
              \/ fl = "Files verified" /\ fl # NoText /\ fl \in FileChips
              \/ fl = NoText /\ v.file = "Files match"
    BY <1>4 DEF FileLabel, Texts, NoText, TransportChips, FileChips, VoiceChips
  <1>8. /\ vl \in Texts /\ vl \notin TransportChips /\ vl \notin FileChips
        /\ \/ vl # NoText /\ vl \in VoiceChips /\ vl = VoiceLabel("Unknown", s.voice)
           \/ vl = NoText /\ v.voice = s.voice
    BY <1>2, <1>5 DEF VoiceLabel, Texts, NoText, TransportChips, FileChips, VoiceChips, Voices
  <1>9. PICK a : a = Chips(v.chat, tl)
    OBVIOUS
  <1>10. PICK b : b = Chips(a, fl)
    OBVIOUS
  <1>11. PICK c : c = Chips(b, vl)
    OBVIOUS
  <1>12. /\ Listed(a, rep)
         /\ Tells(a, TransportChips, IF t = "Connected" THEN "Connected" ELSE "Disconnected")
         /\ v.file = "Files match" => Tells(a, FileChips, "Files verified")
         /\ Tells(a, VoiceChips, VoiceLabel("Unknown", v.voice))
    <2>1. Listed(v.chat, rep)
      BY DEF Told
    <2>2. /\ Listed(a, rep)
          /\ \A texts, said :
                /\ tl # NoText /\ tl \in texts => Tells(a, texts, tl)
                /\ (tl = NoText \/ tl \notin texts) /\ Tells(v.chat, texts, said)
                   => Tells(a, texts, said)
      BY <1>6, <1>9, <2>1, ChipsTell
    <2>3. QED
      BY <1>6, <2>2 DEF Told
  <1>13. /\ Listed(b, rep)
         /\ Tells(b, TransportChips, IF t = "Connected" THEN "Connected" ELSE "Disconnected")
         /\ s.verdict = "Files match" => Tells(b, FileChips, "Files verified")
         /\ Tells(b, VoiceChips, VoiceLabel("Unknown", v.voice))
    <2>1. /\ Listed(b, rep)
          /\ \A texts, said :
                /\ fl # NoText /\ fl \in texts => Tells(b, texts, fl)
                /\ (fl = NoText \/ fl \notin texts) /\ Tells(a, texts, said)
                   => Tells(b, texts, said)
      BY <1>7, <1>10, <1>12, ChipsTell
    <2>2. QED
      BY <1>7, <1>12, <2>1
  <1>14. /\ Listed(c, rep)
         /\ Tells(c, TransportChips, IF t = "Connected" THEN "Connected" ELSE "Disconnected")
         /\ s.verdict = "Files match" => Tells(c, FileChips, "Files verified")
         /\ Tells(c, VoiceChips, VoiceLabel("Unknown", s.voice))
    <2>1. /\ Listed(c, rep)
          /\ \A texts, said :
                /\ vl # NoText /\ vl \in texts => Tells(c, texts, vl)
                /\ (vl = NoText \/ vl \notin texts) /\ Tells(b, texts, said)
                   => Tells(c, texts, said)
      BY <1>8, <1>11, <1>13, ChipsTell
    <2>2. QED
      BY <1>8, <1>13, <2>1
  <1>15. DispatchStatus(v, s) =
           [chat |-> c, transport |-> t, file |-> s.verdict, voice |-> s.voice]
    BY <1>1, <1>3, <1>4, <1>5, <1>9, <1>10, <1>11 DEF DispatchStatus
  <1>16. PICK w : w = DispatchStatus(v, s)
    OBVIOUS
  <1>17. w.chat = c /\ w.transport = t /\ w.file = s.verdict /\ w.voice = s.voice
    BY <1>15, <1>16
  <1>18. Told(w, rep)
    BY <1>1, <1>2, <1>14, <1>17 DEF Told
  <1>19. QED
    BY <1>1, <1>16, <1>17, <1>18

\* A call that has lost its peer ends, and says so.
LEMMA StoppedTells ==
    ASSUME NEW v, NEW rep, NEW s \in Session, Told(v, rep)
    PROVE  VoiceStopped(s) \in Session /\ Told(VoiceChecked(v, s), rep)
  <1>1. VoiceStopped(s) \in Session
    BY DEF VoiceStopped, Session, Voices
  <1>2. QED
    BY <1>1, DispatchTells DEF VoiceChecked

\* The chip of a peer that came or went is of none of the three kinds.
LEMMA ActionTells ==
    ASSUME NEW v, NEW rep, Told(v, rep),
           NEW text \in {NoText, "Guest joined", "Guest left", "Host joined", "Host left"},
           NEW ch, NEW tr, NEW fi, NEW vo,
           v = [chat |-> ch, transport |-> tr, file |-> fi, voice |-> vo]
    PROVE  Told(DispatchAction(v, text), rep)
  <1>1. /\ text \in Texts
        /\ text \notin TransportChips /\ text \notin FileChips /\ text \notin VoiceChips
    BY DEF Texts, TransportChips, FileChips, VoiceChips, NoText
  <1>2. Listed(v.chat, rep)
    BY DEF Told
  <1>3. /\ Listed(Chips(v.chat, text), rep)
        /\ \A texts, said : text \notin texts /\ Tells(v.chat, texts, said)
                           => Tells(Chips(v.chat, text), texts, said)
    BY <1>1, <1>2, ChipsTell
  <1>4. PICK a : a = Chips(v.chat, text)
    OBVIOUS
  <1>5. PICK w : w = DispatchAction(v, text)
    OBVIOUS
  <1>6. w = [v EXCEPT !.chat = a]
    BY <1>4, <1>5 DEF DispatchAction
  <1>7. /\ w.chat = a /\ w.transport = v.transport /\ w.file = v.file
        /\ w.voice = v.voice
    BY <1>6
  <1>8. Told(w, rep)
    BY <1>1, <1>3, <1>4, <1>7 DEF Told
  <1>9. QED
    BY <1>5, <1>8

----------------------------------------------------------------------------
\* The status depends on what the session is, not on what it last said.
LEMMA StatusIsKnown ==
    ASSUME NEW s \in Session
    PROVE  StatusText(s) \in Statuses
  BY DEF StatusText, TransportConnected, Statuses, Session

LEMMA StatusOf ==
    ASSUME NEW s \in Session, NEW t \in Session,
           t.active = s.active, t.conn = s.conn, t.joined = s.joined, t.hosting = s.hosting,
           t.guests = s.guests, t.hostOnline = s.hostOnline
    PROVE  StatusText(t) = StatusText(s)
  BY DEF StatusText, TransportConnected

LEMMA VerdictIsKnown ==
    ASSUME NEW s \in Session
    PROVE  FileVerdict(s) \in Verdicts
  BY DEF FileVerdict, Verdicts

LEMMA VerdictOf ==
    ASSUME NEW s \in Session, NEW t \in Session, t.hosting = s.hosting,
           t.localFile = s.localFile, t.remoteFile = s.remoteFile
    PROVE  FileVerdict(t) = FileVerdict(s)
  BY DEF FileVerdict

\* Two sessions that differ in what they say and in the call only.
SameBut(t, s) ==
    /\ t.hosting = s.hosting /\ t.active = s.active /\ t.hostOnline = s.hostOnline
    /\ t.guests = s.guests /\ t.conn = s.conn /\ t.joined = s.joined
    /\ t.localFile = s.localFile /\ t.remoteFile = s.remoteFile

LEMMA StatusSet ==
    ASSUME NEW s \in Session
    PROVE  \E t \in Session : /\ t = WithStatus(s) /\ SameBut(t, s)
                             /\ t.verdict = s.verdict /\ t.status = StatusText(t)
  <1>1. StatusText(s) \in Statuses
    BY StatusIsKnown
  <1>2. PICK st \in Statuses : st = StatusText(s)
    BY <1>1
  <1>3. PICK t : t = [s EXCEPT !.status = st]
    OBVIOUS
  <1>4. t \in Session /\ SameBut(t, s) /\ t.verdict = s.verdict /\ t.status = st
    BY <1>3 DEF Session, SameBut
  <1>5. StatusText(t) = StatusText(s)
    BY <1>4, StatusOf DEF SameBut
  <1>6. QED
    BY <1>2, <1>3, <1>4, <1>5 DEF WithStatus

LEMMA VerdictSet ==
    ASSUME NEW s \in Session
    PROVE  \E t \in Session : /\ t = Verified(s) /\ SameBut(t, s)
                             /\ t.status = s.status /\ t.verdict = FileVerdict(t)
  <1>1. FileVerdict(s) \in Verdicts
    BY VerdictIsKnown
  <1>2. PICK fv \in Verdicts : fv = FileVerdict(s)
    BY <1>1
  <1>3. PICK t : t = [s EXCEPT !.verdict = fv]
    OBVIOUS
  <1>4. t \in Session /\ SameBut(t, s) /\ t.status = s.status /\ t.verdict = fv
    BY <1>3 DEF Session, SameBut
  <1>5. FileVerdict(t) = FileVerdict(s)
    BY <1>4, VerdictOf DEF SameBut
  <1>6. QED
    BY <1>2, <1>3, <1>4, <1>5 DEF Verified

LEMMA VoiceSet ==
    ASSUME NEW s \in Session
    PROVE  \E t \in Session : /\ t = VoiceStopped(s) /\ SameBut(t, s)
                             /\ t.verdict = s.verdict /\ t.status = s.status
  <1>1. PICK vo \in Voices :
            vo = IF s.voice = "Connected" /\ ~VoiceAvailable(s) THEN "Idle" ELSE s.voice
    BY DEF Session, Voices
  <1>2. PICK t : t = [s EXCEPT !.voice = vo]
    OBVIOUS
  <1>3. /\ t \in Session /\ SameBut(t, s)
        /\ t.verdict = s.verdict /\ t.status = s.status
    BY <1>2 DEF Session, SameBut
  <1>4. QED
    BY <1>1, <1>2, <1>3 DEF VoiceStopped

----------------------------------------------------------------------------
(* The invariant.                                                          *)

\* The last status was reported with the session as it is.
Reporting ==
    /\ session \in Session
    /\ previous = [transport |-> TransportState(session), file |-> session.verdict,
                   voice |-> session.voice]
    /\ Told(View, reported)

Current(s, heard) ==
    /\ IF s.joined /\ s.conn = "Connected" /\ "peers" \notin heard
       THEN s.status = "Joining"
       ELSE s.status \in {StatusText(s), "Host failed"}
    /\ "file" \in heard => s.verdict = FileVerdict(s)

TimelineInv == Reporting /\ Current(session, settled)

LEMMA TimelineInvImplies == TimelineInv => TimelineIsTrue /\ TransferHasOneLine
  <1> SUFFICES ASSUME TimelineInv
               PROVE  TimelineIsTrue /\ TransferHasOneLine
    OBVIOUS
  <1>1. /\ View.chat = chat /\ View.transport = TransportState(session)
        /\ View.file = session.verdict /\ View.voice = session.voice
    BY DEF TimelineInv, Reporting, View
  <1>2. /\ session \in Session /\ Listed(chat, reported)
        /\ Tells(chat, TransportChips,
                 IF TransportState(session) = "Connected" THEN "Connected" ELSE "Disconnected")
        /\ session.verdict = "Files match" => Tells(chat, FileChips, "Files verified")
        /\ Tells(chat, VoiceChips, VoiceLabel("Unknown", session.voice))
    BY <1>1 DEF TimelineInv, Reporting, Told
  <1>3. TransferHasOneLine
    BY <1>2 DEF TransferHasOneLine, Listed, Transfers
  <1>4. TimelineTypeOK
    BY <1>2 DEF TimelineTypeOK, Listed, Transfers, Session, Voices
  <1>5. ShownIsCurrent
    BY DEF ShownIsCurrent, TimelineInv, Current
  <1>6. LastChipIsTrue
    <2>1. (TransportState(session) = "Connected") <=> TransportConnected(session)
      BY DEF TransportState
    <2>2. QED
      BY <1>2, <2>1 DEF LastChipIsTrue
  <1>7. QED
    BY <1>3, <1>4, <1>5, <1>6 DEF TimelineIsTrue

LEMMA TimelineStarts == TimelineInit => TimelineInv
  <1> SUFFICES ASSUME TimelineInit
               PROVE  TimelineInv
    OBVIOUS
  <1>1. session \in Session
    <2>1. /\ FALSE \in BOOLEAN /\ 0 \in 0 .. 2 /\ NoFile \in Files \cup {NoFile}
          /\ "Disconnected" \in {"Connecting", "Connected", "Disconnected",
                                 "Reconnecting", "Invalid URL"}
          /\ "Idle" \in Voices /\ "Local file not loaded" \in Verdicts
          /\ "Idle" \in Statuses
      BY DEF Voices, Verdicts, Statuses
    <2>2. session = [hosting |-> FALSE, active |-> FALSE, hostOnline |-> FALSE, guests |-> 0,
                     conn |-> "Disconnected", joined |-> FALSE, voice |-> "Idle",
                     localFile |-> NoFile, remoteFile |-> NoFile,
                     verdict |-> "Local file not loaded", status |-> "Idle"]
      BY DEF TimelineInit
    <2>3. QED
      BY <2>1, <2>2 DEF Session
  <1>2. TransportState(session) = "Waiting"
    BY DEF TimelineInit, TransportState, TransportConnected
  <1>3. previous = [transport |-> TransportState(session), file |-> session.verdict,
                    voice |-> session.voice]
    BY <1>2 DEF TimelineInit
  <1>4. <<>> \in Seq(Line) /\ <<>> \in Seq(Shown) /\ Len(<<>>) = 0
    OBVIOUS
  <1>5. Listed(<<>>, <<>>)
    BY <1>4, TimelineAssumption DEF Listed, Transfers
  <1>6. \A texts, said : Tells(<<>>, texts, said)
    BY DEF Tells
  <1>7. /\ View.chat = <<>> /\ View.transport = "Waiting" /\ View.voice = "Idle"
        /\ View.file = "Local file not loaded"
    BY DEF TimelineInit, View
  <1>8. Told(View, reported)
    <2>1. reported = <<>>
      BY DEF TimelineInit
    <2>2. QED
      BY <1>5, <1>6, <1>7, <2>1 DEF Told, Verdicts, Voices
  <1>9. StatusText(session) = "Idle"
    BY DEF StatusText, TimelineInit
  <1>10. FileVerdict(session) = "Local file not loaded"
    BY DEF FileVerdict, TimelineInit
  <1>11. Current(session, settled)
    BY <1>9, <1>10 DEF Current, TimelineInit
  <1>12. QED
    BY <1>1, <1>3, <1>8, <1>11 DEF TimelineInv, Reporting

LEMMA ShowsReports ==
    ASSUME NEW v, NEW s \in Session, Told(v, reported), Shows(DispatchStatus(v, s)),
           reported' = reported, session' \in Session,
           TransportState(session') = TransportState(s),
           session'.verdict = s.verdict, session'.voice = s.voice
    PROVE  Reporting'
  <1>1. PICK w : w = DispatchStatus(v, s)
    OBVIOUS
  <1>2. /\ Told(w, reported) /\ w.transport = TransportState(s)
        /\ w.file = s.verdict /\ w.voice = s.voice
    BY <1>1, DispatchTells
  <1>3. /\ chat' = w.chat
        /\ previous' = [transport |-> w.transport, file |-> w.file, voice |-> w.voice]
    BY <1>1 DEF Shows
  <1>4. /\ View'.chat = w.chat /\ View'.transport = w.transport
        /\ View'.file = w.file /\ View'.voice = w.voice
    BY <1>3 DEF View
  <1>5. Told(View', reported')
    BY <1>2, <1>4 DEF Told
  <1>6. QED
    BY <1>2, <1>3, <1>5 DEF Reporting

LEMMA BecomesReports ==
    ASSUME NEW v, NEW s \in Session, Told(v, reported), Becomes(v, s), reported' = reported
    PROVE  session' = s /\ Reporting'
  BY ShowsReports DEF Becomes

----------------------------------------------------------------------------
(* The role: what is left of the session before is Fresh of it.            *)

LEMMA ViewIsTold == Reporting => Told(View, reported) /\ session \in Session
  BY DEF Reporting

\* Nothing has been heard of a session that is not joined.
LEMMA NotJoinedIsCurrent ==
    ASSUME NEW s \in Session, ~s.joined \/ s.conn # "Connected",
           s.status \in {StatusText(s), "Host failed"}
    PROVE  Current(s, {})
  BY DEF Current

LEMMA FreshSet ==
    ASSUME NEW s \in Session
    PROVE  \E f \in Session : f = Fresh(s) /\ ~f.joined
  <1>1. PICK n \in 0 .. 2 : n = 0
    OBVIOUS
  <1>2. PICK f : f = [s EXCEPT !.guests = n, !.joined = FALSE]
    OBVIOUS
  <1>3. f \in Session /\ ~f.joined
    BY <1>2 DEF Session
  <1>4. QED
    BY <1>1, <1>2, <1>3 DEF Fresh

LEMMA StartKeeps == TimelineInv /\ StartHostSession => TimelineInv'
  <1> SUFFICES ASSUME TimelineInv, StartHostSession
               PROVE  TimelineInv'
    OBVIOUS
  <1>1. Told(View, reported) /\ session \in Session
    BY ViewIsTold DEF TimelineInv
  <1>2. reported' = reported /\ settled' = {}
    BY DEF StartHostSession, Happens
  <1> PICK f \in Session : f = Fresh(session) /\ ~f.joined
    BY <1>1, FreshSet
  <1>3. PICK s : s = [f EXCEPT !.hosting = TRUE, !.active = TRUE, !.hostOnline = TRUE,
                               !.conn = "Connecting"]
    OBVIOUS
  <1>4. s \in Session /\ ~s.joined
    BY <1>3 DEF Session
  <1>5. PICK t \in Session : /\ t = WithStatus(s) /\ SameBut(t, s)
                            /\ t.verdict = s.verdict /\ t.status = StatusText(t)
    BY <1>4, StatusSet
  <1>6. PICK g : g = [f EXCEPT !.hostOnline = FALSE, !.status = "Host failed"]
    OBVIOUS
  <1>7. g \in Session /\ ~g.joined /\ g.status = "Host failed"
    BY <1>6 DEF Session, Statuses
  <1>8. Becomes(View, t) \/ Becomes(View, g)
    BY <1>3, <1>5, <1>6 DEF StartHostSession
  <1>9. CASE Becomes(View, t)
    <2>1. session' = t /\ Reporting'
      BY <1>1, <1>2, <1>9, BecomesReports
    <2>2. Current(t, {})
      BY <1>4, <1>5, NotJoinedIsCurrent DEF SameBut
    <2>3. QED
      BY <1>2, <2>1, <2>2 DEF TimelineInv
  <1>10. CASE Becomes(View, g)
    <2>1. session' = g /\ Reporting'
      BY <1>1, <1>2, <1>7, <1>10, BecomesReports
    <2>2. Current(g, {})
      BY <1>7, NotJoinedIsCurrent
    <2>3. QED
      BY <1>2, <2>1, <2>2 DEF TimelineInv
  <1>11. QED
    BY <1>8, <1>9, <1>10

\* joinSession, also out of another session.
LEMMA JoinKeeps == TimelineInv /\ JoinSession => TimelineInv'
  <1> SUFFICES ASSUME TimelineInv, JoinSession
               PROVE  TimelineInv'
    OBVIOUS
  <1>1. Told(View, reported) /\ session \in Session
    BY ViewIsTold DEF TimelineInv
  <1>2. reported' = reported /\ settled' = {}
    BY DEF JoinSession, Happens
  <1> PICK f \in Session : f = Fresh(session) /\ ~f.joined
    BY <1>1, FreshSet
  <1>3. PICK conn \in {"Connecting", "Invalid URL"} :
          LET s == [f EXCEPT !.hosting = FALSE, !.active = TRUE, !.hostOnline = FALSE,
                             !.conn = conn,
                             !.joined = conn = "Invalid URL" /\ session.joined]
          IN  Becomes(VoiceChecked(View, s), WithStatus(VoiceStopped(s)))
    BY DEF JoinSession
  <1>4. PICK joined \in BOOLEAN : joined = (conn = "Invalid URL" /\ session.joined)
    OBVIOUS
  <1>5. PICK s : s = [f EXCEPT !.hosting = FALSE, !.active = TRUE, !.hostOnline = FALSE,
                               !.conn = conn, !.joined = joined]
    OBVIOUS
  <1>6. Becomes(VoiceChecked(View, s), WithStatus(VoiceStopped(s)))
    BY <1>3, <1>4, <1>5
  <1>7. s \in Session /\ s.conn # "Connected"
    BY <1>5 DEF Session
  <1>8. PICK u \in Session : /\ u = VoiceStopped(s) /\ SameBut(u, s)
                            /\ u.verdict = s.verdict /\ u.status = s.status
    BY <1>7, VoiceSet
  <1>9. PICK t \in Session : /\ t = WithStatus(u) /\ SameBut(t, u)
                            /\ t.verdict = u.verdict /\ t.status = StatusText(t)
    BY StatusSet
  <1>10. Told(VoiceChecked(View, s), reported)
    BY <1>1, <1>7, StoppedTells
  <1>11. session' = t /\ Reporting'
    BY <1>2, <1>6, <1>8, <1>9, <1>10, BecomesReports
  <1>12. Current(t, {})
    BY <1>7, <1>8, <1>9, NotJoinedIsCurrent DEF SameBut
  <1>13. QED
    BY <1>2, <1>11, <1>12 DEF TimelineInv

\* disconnectSession, which reports twice.
LEMMA DisconnectKeeps == TimelineInv /\ DisconnectSession => TimelineInv'
  <1> SUFFICES ASSUME TimelineInv, DisconnectSession
               PROVE  TimelineInv'
    OBVIOUS
  <1>1. Told(View, reported) /\ session \in Session
    BY ViewIsTold DEF TimelineInv
  <1>2. reported' = reported /\ settled' = {}
    BY DEF DisconnectSession, Happens
  <1>3. PICK s : s = [session EXCEPT !.conn = "Disconnected", !.joined = FALSE,
                                     !.voice = "Idle"]
    OBVIOUS
  <1>4. s \in Session
    BY <1>1, <1>3 DEF Session, Voices
  <1>5. PICK f \in Session : f = Fresh(s) /\ ~f.joined
    BY <1>4, FreshSet
  <1>6. PICK gone : gone = [f EXCEPT !.hosting = FALSE, !.active = FALSE,
                                     !.hostOnline = FALSE, !.remoteFile = NoFile,
                                     !.verdict = "Waiting for peer file info"]
    OBVIOUS
  <1>7. gone \in Session /\ ~gone.joined
    <2>1. "Waiting for peer file info" \in Verdicts /\ NoFile \in Files \cup {NoFile}
      BY DEF Verdicts
    <2>2. QED
      BY <1>5, <1>6, <2>1 DEF Session
  <1>8. PICK t \in Session : /\ t = WithStatus(gone) /\ SameBut(t, gone)
                            /\ t.verdict = gone.verdict /\ t.status = StatusText(t)
    BY <1>7, StatusSet
  <1>9. Becomes(DispatchStatus(View, s), t)
    BY <1>3, <1>5, <1>6, <1>8 DEF DisconnectSession
  <1>10. Told(DispatchStatus(View, s), reported)
    BY <1>1, <1>4, DispatchTells
  <1>11. session' = t /\ Reporting'
    BY <1>2, <1>9, <1>10, BecomesReports
  <1>12. Current(t, {})
    BY <1>7, <1>8, NotJoinedIsCurrent DEF SameBut
  <1>13. QED
    BY <1>2, <1>11, <1>12 DEF TimelineInv

----------------------------------------------------------------------------
(* The connection, the peers, the file and the voice.                      *)

\* What a verdict, or a call, cannot change.
LEMMA CurrentStays ==
    ASSUME NEW s \in Session, NEW t \in Session, NEW heard, NEW now, Current(s, heard),
           t.active = s.active, t.conn = s.conn, t.joined = s.joined, t.hosting = s.hosting,
           t.guests = s.guests, t.hostOnline = s.hostOnline, t.status = s.status,
           "peers" \in now <=> "peers" \in heard,
           "file" \in now => t.verdict = FileVerdict(t)
    PROVE  Current(t, now)
  <1>1. StatusText(t) = StatusText(s)
    BY StatusOf
  <1>2. QED
    BY <1>1 DEF Current

LEMMA ConnectionKeeps ==
    ASSUME TimelineInv, NEW conn \in {"Connecting", "Connected", "Reconnecting"},
           OnConnectionStateChanged(conn)
    PROVE  TimelineInv'
  <1>1. Told(View, reported) /\ session \in Session
    BY ViewIsTold DEF TimelineInv
  <1>2. reported' = reported /\ settled' = settled \ {"peers"} /\ session.active
    BY DEF OnConnectionStateChanged, Happens
  <1>3. PICK s : s = [session EXCEPT !.conn = conn, !.joined = FALSE]
    OBVIOUS
  <1>4. /\ s \in Session /\ ~s.joined /\ s.conn = conn /\ s.verdict = session.verdict
        /\ s.hosting = session.hosting /\ s.active = session.active
        /\ s.localFile = session.localFile /\ s.remoteFile = session.remoteFile
    BY <1>1, <1>3 DEF Session
  <1>5. PICK u \in Session : /\ u = VoiceStopped(s) /\ SameBut(u, s)
                            /\ u.verdict = s.verdict /\ u.status = s.status
    BY <1>4, VoiceSet
  <1>6. PICK now \in Session : /\ now = WithStatus(u) /\ SameBut(now, u)
                              /\ now.verdict = u.verdict /\ now.status = StatusText(now)
    BY StatusSet
  <1>7. PICK joined \in BOOLEAN : joined = (conn = "Connected")
    OBVIOUS
  <1>8. PICK t : t = [now EXCEPT !.joined = joined]
    OBVIOUS
  <1>9. /\ t \in Session /\ t.joined = joined /\ t.verdict = now.verdict
        /\ t.voice = now.voice /\ t.status = now.status /\ t.conn = now.conn
        /\ t.hosting = now.hosting /\ t.guests = now.guests /\ t.active = now.active
        /\ t.hostOnline = now.hostOnline
        /\ t.localFile = now.localFile /\ t.remoteFile = now.remoteFile
    BY <1>8 DEF Session
  <1>10. session' = t /\ Shows(DispatchStatus(VoiceChecked(View, s), now))
    BY <1>3, <1>5, <1>6, <1>7, <1>8 DEF OnConnectionStateChanged
  <1>11. Told(VoiceChecked(View, s), reported)
    BY <1>1, <1>4, StoppedTells
  <1>12. TransportState(t) = TransportState(now)
    BY <1>9 DEF TransportState, TransportConnected
  <1>13. Reporting'
    BY <1>2, <1>9, <1>10, <1>11, <1>12, ShowsReports
  <1>14. ~now.joined /\ now.conn = conn /\ now.active
    BY <1>2, <1>4, <1>5, <1>6 DEF SameBut
  <1>15. Current(t, settled \ {"peers"})
    <2>1. "file" \in settled => t.verdict = FileVerdict(t)
      <3>1. "file" \in settled => session.verdict = FileVerdict(session)
        BY DEF TimelineInv, Current
      <3>2. FileVerdict(t) = FileVerdict(session)
        BY <1>1, <1>4, <1>5, <1>6, <1>9, VerdictOf DEF SameBut
      <3>3. QED
        BY <1>4, <1>5, <1>6, <1>9, <3>1, <3>2
    <2>2. CASE conn = "Connected"
      <3>1. StatusText(now) = "Joining"
        BY <1>14, <2>2 DEF StatusText
      <3>2. t.joined /\ t.conn = "Connected" /\ t.status = "Joining"
        BY <1>6, <1>7, <1>9, <1>14, <2>2, <3>1
      <3>3. "peers" \notin settled \ {"peers"}
        OBVIOUS
      <3>4. QED
        BY <2>1, <3>2, <3>3 DEF Current
    <2>3. CASE conn # "Connected"
      <3>1. joined = FALSE /\ now.joined = FALSE
        BY <1>7, <1>14, <2>3 DEF Session
      <3>2. StatusText(t) = StatusText(now)
        BY <1>9, <3>1, StatusOf
      <3>3. t.status \in {StatusText(t), "Host failed"} /\ ~t.joined
        BY <1>6, <1>9, <3>1, <3>2
      <3>4. QED
        BY <2>1, <3>3 DEF Current
    <2>4. QED
      BY <2>2, <2>3
  <1>16. QED
    BY <1>2, <1>10, <1>13, <1>15 DEF TimelineInv

LEMMA PeersKeep ==
    ASSUME TimelineInv, NEW hostOnline \in BOOLEAN, NEW guests \in 0 .. 2,
           OnRelayPeerUpdate(hostOnline, guests)
    PROVE  TimelineInv'
  <1>1. Told(View, reported) /\ session \in Session
    BY ViewIsTold DEF TimelineInv
  <1>2. reported' = reported /\ settled' = settled \cup {"peers"}
    BY DEF OnRelayPeerUpdate, Happens
  <1>3. PICK s : s = [session EXCEPT !.hostOnline = hostOnline, !.guests = guests]
    OBVIOUS
  <1>4. /\ s \in Session /\ s.verdict = session.verdict /\ s.hosting = session.hosting
        /\ s.localFile = session.localFile /\ s.remoteFile = session.remoteFile
    BY <1>1, <1>3 DEF Session
  <1>5. PICK who :
          who = IF session.hosting
                THEN IF guests > session.guests THEN "Guest joined"
                     ELSE IF guests < session.guests THEN "Guest left" ELSE NoText
                ELSE IF hostOnline /\ ~session.hostOnline THEN "Host joined"
                     ELSE IF ~hostOnline /\ session.hostOnline THEN "Host left" ELSE NoText
    OBVIOUS
  <1>6. who \in {NoText, "Guest joined", "Guest left", "Host joined", "Host left"}
    BY <1>5
  <1>7. Becomes(VoiceChecked(DispatchAction(View, who), s), WithStatus(VoiceStopped(s)))
    BY <1>3, <1>5 DEF OnRelayPeerUpdate
  <1>8. Told(DispatchAction(View, who), reported)
    BY <1>1, <1>6, ActionTells DEF View
  <1>9. Told(VoiceChecked(DispatchAction(View, who), s), reported)
    BY <1>4, <1>8, StoppedTells
  <1>10. PICK u \in Session : /\ u = VoiceStopped(s) /\ SameBut(u, s)
                             /\ u.verdict = s.verdict /\ u.status = s.status
    BY <1>4, VoiceSet
  <1>11. PICK t \in Session : /\ t = WithStatus(u) /\ SameBut(t, u)
                             /\ t.verdict = u.verdict /\ t.status = StatusText(t)
    BY StatusSet
  <1>12. session' = t /\ Reporting'
    BY <1>2, <1>7, <1>9, <1>10, <1>11, BecomesReports
  <1>13. Current(t, settled \cup {"peers"})
    <2>1. "file" \in settled => session.verdict = FileVerdict(session)
      BY DEF TimelineInv, Current
    <2>2. FileVerdict(t) = FileVerdict(session)
      BY <1>1, <1>4, <1>10, <1>11, VerdictOf DEF SameBut
    <2>3. "file" \in settled \cup {"peers"} => t.verdict = FileVerdict(t)
      BY <1>4, <1>10, <1>11, <2>1, <2>2
    <2>4. QED
      BY <1>11, <2>3 DEF Current
  <1>14. QED
    BY <1>2, <1>12, <1>13 DEF TimelineInv

\* The file of the host, or the one that is open here.
LEMMA FilesKeep ==
    ASSUME TimelineInv, NEW f \in Files, OnRelayFileReceived(f) \/ SetLocalFileInfo(f)
    PROVE  TimelineInv'
  <1>1. Told(View, reported) /\ session \in Session /\ Current(session, settled)
    BY ViewIsTold DEF TimelineInv
  <1>2. CASE UNCHANGED <<session, chat, previous, settled, reported>>
    BY <1>2 DEF TimelineInv, Reporting, Current, View, TransportState,
                TransportConnected, StatusText, FileVerdict
  <1>3. CASE ~UNCHANGED <<session, chat, previous, settled, reported>>
    <2>1. reported' = reported /\ settled' = settled \cup {"file"}
      BY <1>3 DEF OnRelayFileReceived, SetLocalFileInfo, Happens
    <2>2. PICK s : /\ Becomes(View, Verified(s))
                   /\ s = [session EXCEPT !.remoteFile = f] \/ s = [session EXCEPT !.localFile = f]
      BY <1>3 DEF OnRelayFileReceived, SetLocalFileInfo, Happens
    <2>3. /\ s \in Session /\ s.active = session.active /\ s.conn = session.conn
          /\ s.joined = session.joined /\ s.hosting = session.hosting
          /\ s.guests = session.guests /\ s.hostOnline = session.hostOnline
          /\ s.status = session.status
      <3>1. CASE s = [session EXCEPT !.remoteFile = f]
        BY <1>1, <3>1 DEF Session
      <3>2. CASE s = [session EXCEPT !.localFile = f]
        BY <1>1, <3>2 DEF Session
      <3>3. QED
        BY <2>2, <3>1, <3>2
    <2>4. PICK t \in Session : /\ t = Verified(s) /\ SameBut(t, s)
                              /\ t.status = s.status /\ t.verdict = FileVerdict(t)
      BY <2>3, VerdictSet
    <2>5. session' = t /\ Reporting'
      BY <1>1, <2>1, <2>2, <2>4, BecomesReports
    <2>6. Current(t, settled \cup {"file"})
      BY <1>1, <2>3, <2>4, CurrentStays DEF SameBut
    <2>7. QED
      BY <2>1, <2>5, <2>6 DEF TimelineInv
  <1>4. QED
    BY <1>2, <1>3

LEMMA VoiceKeeps ==
    ASSUME TimelineInv, NEW voice \in Voices, OnVoiceStateChanged(voice)
    PROVE  TimelineInv'
  <1>1. Told(View, reported) /\ session \in Session /\ Current(session, settled)
    BY ViewIsTold DEF TimelineInv
  <1>2. reported' = reported /\ settled' = settled
    BY DEF OnVoiceStateChanged, Happens
  <1>3. PICK t : t = [session EXCEPT !.voice = voice]
    OBVIOUS
  <1>4. t \in Session /\ SameBut(t, session) /\ t.status = session.status
        /\ t.verdict = session.verdict
    BY <1>1, <1>3 DEF Session, SameBut
  <1>5. session' = t /\ Reporting'
    BY <1>1, <1>2, <1>3, <1>4, BecomesReports DEF OnVoiceStateChanged
  <1>6. FileVerdict(t) = FileVerdict(session)
    BY <1>1, <1>4, VerdictOf DEF SameBut
  <1>7. "file" \in settled => t.verdict = FileVerdict(t)
    BY <1>1, <1>4, <1>6 DEF Current
  <1>8. Current(t, settled)
    BY <1>1, <1>4, <1>7, CurrentStays DEF SameBut
  <1>9. QED
    BY <1>2, <1>5, <1>8 DEF TimelineInv

----------------------------------------------------------------------------
(* The lines of the chat.                                                  *)

\* A step of the chat panel, or of a transfer: the chips stay as they are.
ChipsStay(new) ==
    \A texts \in {TransportChips, FileChips, VoiceChips} :
        \A said : Tells(chat, texts, said) => Tells(new, texts, said)

LEMMA ChatReports ==
    ASSUME TimelineInv, UNCHANGED <<session, previous, settled>>,
           Listed(chat', reported'), ChipsStay(chat')
    PROVE  TimelineInv'
  <1>1. Told(View, reported)
    BY DEF TimelineInv, Reporting
  <1>2. /\ View'.chat = chat' /\ View'.transport = View.transport
        /\ View'.file = View.file /\ View'.voice = View.voice /\ View.chat = chat
    BY DEF View
  <1>3. Told(View', reported')
    BY <1>1, <1>2 DEF Told, ChipsStay
  <1>4. Reporting'
    BY <1>3 DEF TimelineInv, Reporting, TransportState, TransportConnected
  <1>5. Current(session, settled)' = Current(session', settled')
    BY DEF Current, StatusText, TransportConnected, FileVerdict
  <1>6. QED
    BY <1>4, <1>5 DEF TimelineInv

\* A line that is added.
LEMMA LineReports ==
    ASSUME NEW line \in Line, line.text \in {"text", "file"}, NEW rep, Listed(chat, rep),
           \/ line.id = 0
           \/ /\ line.id \in 1 .. Len(rep) /\ line.status = rep[line.id]
              /\ \A i \in DOMAIN chat : chat[i].id # line.id
    PROVE  LET new == Trimmed(Append(chat, line)) IN Listed(new, rep) /\ ChipsStay(new)
  <1>1. PICK new : new = Trimmed(Append(chat, line))
    OBVIOUS
  <1>2. PICK d \in {0, 1} : Grown(new, chat, line, d)
    BY <1>1, LinesGrow DEF Listed
  <1>3. Listed(new, rep)
    BY <1>2, GrownLists
  <1>4. /\ line.text \notin TransportChips /\ line.text \notin FileChips
        /\ line.text \notin VoiceChips
    BY DEF TransportChips, FileChips, VoiceChips
  <1>5. ChipsStay(new)
    BY <1>2, <1>4, GrownTells DEF ChipsStay
  <1>6. QED
    BY <1>1, <1>3, <1>5

\* A transfer that is reported for the first time, of which there is no line.
Started(lines, more, n, st) ==
    /\ Listed(lines, more) /\ n \in Nat \ {0} /\ Len(more) = n /\ more[n] = st
    /\ \A i \in DOMAIN lines : lines[i].id # n

LEMMA MoreReported ==
    ASSUME NEW lines, NEW rep, NEW st \in Shown, Listed(lines, rep)
    PROVE  Started(lines, Append(rep, st), Len(rep) + 1, st)
  <1>1. rep \in Seq(Shown) /\ lines \in Seq(Line)
    BY DEF Listed
  <1>2. PICK n \in Nat : n = Len(rep)
    BY <1>1
  <1>3. PICK more : more = Append(rep, st)
    OBVIOUS
  <1>4. /\ more \in Seq(Shown) /\ Len(more) = n + 1 /\ more[n + 1] = st
        /\ \A i \in 1 .. n : more[i] = rep[i]
    BY <1>1, <1>2, <1>3
  <1>5. \A i \in DOMAIN lines : lines[i].id \in 0 .. n
    BY <1>2 DEF Listed, Transfers
  <1>6. \A i \in DOMAIN lines : lines[i].id # n + 1 /\ lines[i].id \in 0 .. n + 1
                               /\ (lines[i].id # 0 => lines[i].id \in 1 .. n)
    BY <1>5
  <1>7. Transfers(lines, more)
    BY <1>4, <1>6 DEF Transfers, Listed
  <1>8. Listed(lines, more)
    BY <1>4, <1>7 DEF Listed
  <1>9. QED
    BY <1>2, <1>3, <1>4, <1>6, <1>8 DEF Started

\* Sending and sharing: a line of its own.
LEMMA SendingKeeps == TimelineInv /\ (SendChatMessage \/ ShareFile) => TimelineInv'
  <1> SUFFICES ASSUME TimelineInv, SendChatMessage \/ ShareFile
               PROVE  TimelineInv'
    OBVIOUS
  <1>1. UNCHANGED <<session, previous, settled>>
    BY DEF SendChatMessage, ShareFile
  <1>2. Listed(chat, reported)
    BY DEF TimelineInv, Reporting, Told, View
  <1>3. ASSUME NEW text \in {"text", "file"}, NEW status \in {"Sent", "Failed"},
               chat' = Trimmed(Append(chat, [text |-> text, id |-> 0, status |-> status])),
               reported' = reported
        PROVE  TimelineInv'
    <2>1. PICK line : line = [text |-> text, id |-> 0, status |-> status]
      OBVIOUS
    <2>2. text \in Texts /\ 0 \in Nat /\ status \in Shown
      BY DEF Texts, Shown
    <2>3. line \in Line /\ line.text \in {"text", "file"} /\ line.id = 0
      BY <2>1, <2>2 DEF Line
    <2>4. Listed(chat', reported) /\ ChipsStay(chat')
      BY <1>2, <1>3, <2>1, <2>3, LineReports
    <2>5. QED
      BY <1>1, <1>3, <2>4, ChatReports
  <1>4. CASE SendChatMessage
    <2>1. reported' = reported
      BY <1>4 DEF SendChatMessage, Happens
    <2>2. chat' = Trimmed(Append(chat, Says("Sent"))) \/ chat' = Trimmed(Append(chat, Says("Failed")))
      BY <1>4 DEF SendChatMessage
    <2>3. QED
      BY <1>3, <2>1, <2>2 DEF Says
  <1>5. CASE ShareFile /\ reported' = reported
    <2>1. reported \in Seq(Shown)
      BY <1>2 DEF Listed
    <2>2. "Sending" \in Shown
      BY DEF Shown
    <2>3. Len(Append(reported, "Sending")) # Len(reported)
      BY <2>1, <2>2
    <2>4. reported' # Append(reported, "Sending")
      BY <1>5, <2>3
    <2>5. chat' = Trimmed(Append(chat, [text |-> "file", id |-> 0, status |-> "Failed"]))
      BY <1>5, <2>4 DEF ShareFile
    <2>6. QED
      BY <1>3, <1>5, <2>5
  <1>6. CASE ShareFile /\ reported' # reported
    <2>1. /\ reported' = Append(reported, "Sending")
          /\ chat' = Trimmed(Append(chat, [text |-> "file", id |-> Len(reported'),
                                           status |-> "Sending"]))
      BY <1>6 DEF ShareFile
    <2>2. PICK rep : rep = Append(reported, "Sending")
      OBVIOUS
    <2>3. "Sending" \in Shown
      BY DEF Shown
    <2>4. Started(chat, rep, Len(reported) + 1, "Sending")
      BY <1>2, <2>2, <2>3, MoreReported
    <2>5. PICK line : line = [text |-> "file", id |-> Len(rep), status |-> "Sending"]
      OBVIOUS
    <2>6. "file" \in Texts /\ Len(rep) \in Nat /\ "Sending" \in Shown
      <3>1. rep \in Seq(Shown)
        BY <2>4 DEF Started, Listed
      <3>2. QED
        BY <3>1 DEF Texts, Shown
    <2>7. line \in Line /\ line.text \in {"text", "file"}
      BY <2>5, <2>6 DEF Line
    <2>8. /\ line.id \in 1 .. Len(rep) /\ line.status = rep[line.id]
          /\ \A i \in DOMAIN chat : chat[i].id # line.id
      BY <2>5, <2>4 DEF Started
    <2>9. Listed(chat', rep) /\ ChipsStay(chat')
      <3>1. Listed(chat, rep)
        BY <2>4 DEF Started
      <3>2. chat' = Trimmed(Append(chat, line))
        BY <2>1, <2>2, <2>5
      <3>3. QED
        BY <2>7, <2>8, <3>1, <3>2, LineReports
    <2>10. QED
      BY <1>1, <2>1, <2>2, <2>9, ChatReports
  <1>7. QED
    BY <1>4, <1>5, <1>6

\* A line that goes on, with the transfer it is of, and shows how that stands.
Replaced(new, i, line) ==
    /\ chat \in Seq(Line) /\ i \in DOMAIN chat /\ line \in Line
    /\ line.text = chat[i].text /\ new = [chat EXCEPT ![i] = line]

\* The other lines are those of other transfers, each as it stands.
OthersStand(i, id, rep) ==
    \A j \in DOMAIN chat : j # i =>
        /\ chat[j].id \in 0 .. Len(rep) /\ chat[j].id # id
        /\ chat[j].id # 0 => chat[j].status = rep[chat[j].id]
        /\ \A k \in DOMAIN chat : chat[k].id = chat[j].id /\ chat[j].id # 0 => k = j

LEMMA LineReplaced ==
    ASSUME NEW new, NEW i, NEW line, NEW rep, Replaced(new, i, line), Len(chat) <= MaxLines,
           rep \in Seq(Shown), line.id \in 0 .. Len(rep), line.status = rep[line.id],
           OthersStand(i, line.id, rep)
    PROVE  Listed(new, rep) /\ ChipsStay(new)
  <1>1. chat \in Seq(Line) /\ i \in DOMAIN chat /\ new = [chat EXCEPT ![i] = line] /\ line \in Line
    BY DEF Replaced
  <1>2. /\ new \in Seq(Line) /\ Len(new) = Len(chat) /\ DOMAIN new = DOMAIN chat
        /\ new[i] = line /\ \A j \in DOMAIN chat : j # i => new[j] = chat[j]
    BY <1>1
  <1>3. \A j \in DOMAIN chat : new[j].text = chat[j].text
    BY <1>2 DEF Replaced
  <1>4. ChipsStay(new)
    BY <1>2, <1>3 DEF ChipsStay, Tells
  <1>5. \A j \in DOMAIN new : /\ new[j].id \in 0 .. Len(rep)
                              /\ new[j].id # 0 => new[j].status = rep[new[j].id]
    BY <1>2 DEF OthersStand
  <1>6. \A j, k \in DOMAIN new : new[j].id = new[k].id /\ new[j].id # 0 => j = k
    BY <1>2 DEF OthersStand
  <1>7. QED
    BY <1>2, <1>4, <1>5, <1>6 DEF Listed, Transfers

\* Retry.
LEMMA RetryKeeps ==
    ASSUME TimelineInv, NEW i, RetryShare(i)
    PROVE  TimelineInv'
  <1>1. UNCHANGED <<session, previous, settled>>
    BY DEF RetryShare
  <1>2. Listed(chat, reported)
    BY DEF TimelineInv, Reporting, Told, View
  <1>3. "Sending" \in Shown
    BY DEF Shown
  <1>4. PICK rep : rep = Append(reported, "Sending")
    OBVIOUS
  <1>5. Started(chat, rep, Len(reported) + 1, "Sending")
    BY <1>2, <1>3, <1>4, MoreReported
  <1>6. /\ i \in DOMAIN chat /\ reported' = rep
        /\ chat' = [chat EXCEPT ![i] = Retried(@, Len(reported'))]
    BY <1>4 DEF RetryShare
  <1>7. PICK n \in Nat \ {0} : n = Len(rep) /\ Started(chat, rep, n, "Sending")
    BY <1>5 DEF Started
  <1>8. Listed(chat, rep)
    BY <1>7 DEF Started
  <1>9. PICK old \in Line : old = chat[i]
    BY <1>6, <1>8 DEF Listed
  <1>10. PICK line : line = [old EXCEPT !.status = "Sending", !.id = n]
    OBVIOUS
  <1>11. line \in Line /\ line.text = old.text /\ line.id = n /\ line.status = "Sending"
    BY <1>3, <1>7, <1>9, <1>10 DEF Line
  <1>12. chat' = [chat EXCEPT ![i] = line]
    BY <1>6, <1>7, <1>9, <1>10 DEF Retried
  <1>13. Replaced(chat', i, line)
    BY <1>6, <1>9, <1>11, <1>12, <1>8 DEF Replaced, Listed
  <1>14. /\ Len(chat) <= MaxLines /\ rep \in Seq(Shown) /\ line.id \in 0 .. Len(rep)
         /\ line.status = rep[line.id]
    BY <1>7, <1>11, <1>8 DEF Listed, Started
  <1>15. ASSUME NEW j \in DOMAIN chat, j # i
         PROVE  /\ chat[j].id \in 0 .. Len(rep) /\ chat[j].id # line.id
                /\ chat[j].id # 0 => chat[j].status = rep[chat[j].id]
                /\ \A k \in DOMAIN chat : chat[k].id = chat[j].id /\ chat[j].id # 0 => k = j
    BY <1>7, <1>11, <1>8 DEF Listed, Transfers, Started
  <1>16. OthersStand(i, line.id, rep)
    BY <1>15 DEF OthersStand
  <1>17. Listed(chat', rep) /\ ChipsStay(chat')
    BY <1>13, <1>14, <1>16, LineReplaced
  <1>18. QED
    BY <1>1, <1>6, <1>17, ChatReports

\* The share progress callback: rep is what is reported now, of which only the
\* transfer id is new.
LEMMA ProgressLists ==
    ASSUME NEW id \in Nat \ {0}, NEW st \in Shown, NEW rep, rep \in Seq(Shown),
           Listed(chat, reported), id \in 1 .. Len(rep), rep[id] = st,
           Len(reported) <= Len(rep),
           \A k \in 1 .. Len(reported) : k # id => rep[k] = reported[k]
    PROVE  Listed(ShareProgress(id, st), rep) /\ ChipsStay(ShareProgress(id, st))
  <1> DEFINE lines == {i \in DOMAIN chat : chat[i].id = id}
  <1>1. PICK n \in Nat : n = Len(rep)
    OBVIOUS
  <1>2. PICK m \in Nat : m = Len(reported) /\ m <= n
    BY <1>1 DEF Listed
  <1>3. chat \in Seq(Line) /\ Len(chat) <= MaxLines /\ DOMAIN chat \subseteq Nat
    BY DEF Listed
  <1>4. ASSUME NEW j \in DOMAIN chat, chat[j].id # id
        PROVE  /\ chat[j].id \in 0 .. n
               /\ chat[j].id # 0 => chat[j].status = rep[chat[j].id]
               /\ \A k \in DOMAIN chat : chat[k].id = chat[j].id /\ chat[j].id # 0 => k = j
    <2>1. /\ chat[j].id \in 0 .. m
          /\ chat[j].id # 0 => chat[j].status = reported[chat[j].id]
          /\ \A k \in DOMAIN chat : chat[k].id = chat[j].id /\ chat[j].id # 0 => k = j
      BY <1>2 DEF Listed, Transfers
    <2>2. chat[j].id # 0 => chat[j].id \in 1 .. m
      BY <2>1
    <2>3. QED
      BY <1>2, <1>4, <2>1, <2>2
  <1>5. CASE lines = {}
    <2>1. ShareProgress(id, st) =
            Trimmed(Append(chat, [text |-> "file", id |-> id, status |-> st]))
      BY <1>5 DEF ShareProgress
    <2>2. \A j \in DOMAIN chat : chat[j].id # id
      BY <1>5
    <2>3. Transfers(chat, rep)
      BY <1>1, <1>4, <2>2 DEF Transfers
    <2>4. Listed(chat, rep)
      BY <1>3, <2>3 DEF Listed
    <2>5. PICK line : line = [text |-> "file", id |-> id, status |-> st]
      OBVIOUS
    <2>6. "file" \in Texts /\ id \in Nat
      BY DEF Texts
    <2>7. line \in Line /\ line.text \in {"text", "file"} /\ line.id = id /\ line.status = st
      BY <2>5, <2>6 DEF Line
    <2>8. \/ line.id = 0
          \/ /\ line.id \in 1 .. Len(rep) /\ line.status = rep[line.id]
             /\ \A i \in DOMAIN chat : chat[i].id # line.id
      BY <2>2, <2>7
    <2>9. QED
      BY <2>1, <2>4, <2>5, <2>7, <2>8, LineReports
  <1>6. CASE lines # {}
    <2>1. PICK i \in lines : TRUE
      BY <1>6
    <2>2. \A j \in lines : j = i
      BY <2>1 DEF Listed, Transfers
    <2>3. PICK c : c = CHOOSE k \in lines : \A j \in lines : k <= j
      OBVIOUS
    <2>4. c \in lines
      <3>1. i \in Nat /\ i <= i
        BY <1>3, <2>1
      <3>2. \E k \in lines : \A j \in lines : k <= j
        BY <2>1, <2>2, <3>1
      <3>3. QED
        BY <2>3, <3>2
    <2>5. c = i
      BY <2>2, <2>4
    <2>6. PICK old \in Line : old = chat[i]
      BY <1>3, <2>1
    <2>7. PICK line : line = [old EXCEPT !.status = st]
      OBVIOUS
    <2>8. /\ line \in Line /\ line.text = old.text /\ line.id = old.id
          /\ line.status = st /\ old.id = id
      BY <2>1, <2>6, <2>7 DEF Line
    <2>9. ShareProgress(id, st) = [chat EXCEPT ![c].status = st]
      BY <1>6, <2>3 DEF ShareProgress
    <2>10. ShareProgress(id, st) = [chat EXCEPT ![i] = line]
      BY <2>5, <2>6, <2>7, <2>9
    <2>11. Replaced(ShareProgress(id, st), i, line)
      BY <1>3, <2>1, <2>6, <2>8, <2>10 DEF Replaced
    <2>12. line.id \in 0 .. Len(rep) /\ line.status = rep[line.id]
      BY <1>1, <2>8
    <2>13. ASSUME NEW j \in DOMAIN chat, j # i
           PROVE  /\ chat[j].id \in 0 .. Len(rep) /\ chat[j].id # line.id
                  /\ chat[j].id # 0 => chat[j].status = rep[chat[j].id]
                  /\ \A k \in DOMAIN chat : chat[k].id = chat[j].id /\ chat[j].id # 0 => k = j
      <3>1. chat[j].id # id
        BY <2>2, <2>13
      <3>2. QED
        BY <1>1, <1>4, <2>8, <3>1
    <2>14. PICK new : new = ShareProgress(id, st)
      OBVIOUS
    <2>15. Replaced(new, i, line)
      BY <2>11, <2>14
    <2>16. OthersStand(i, line.id, rep)
      BY <2>13 DEF OthersStand
    <2>17. Listed(new, rep) /\ ChipsStay(new)
      BY <1>3, <2>12, <2>15, <2>16, LineReplaced
    <2>18. QED
      BY <2>14, <2>17
  <1>7. QED
    BY <1>5, <1>6

LEMMA ProgressKeeps ==
    ASSUME TimelineInv, NEW id \in 1 .. MaxShares,
           NEW st \in {"Sending", "Receiving", "Failed", "Done"}, OnShareProgress(id, st)
    PROVE  TimelineInv'
  <1>1. /\ UNCHANGED <<session, previous, settled>> /\ chat' = ShareProgress(id, st)
        /\ \/ id \in DOMAIN reported /\ reported' = [reported EXCEPT ![id] = st]
           \/ id = Len(reported) + 1 /\ reported' = Append(reported, st)
    BY DEF OnShareProgress
  <1>2. Listed(chat, reported)
    BY DEF TimelineInv, Reporting, Told, View
  <1>3. st \in Shown /\ id \in Nat \ {0}
    BY TimelineAssumption DEF Shown
  <1>4. reported \in Seq(Shown)
    BY <1>2 DEF Listed
  <1>5. /\ reported' \in Seq(Shown) /\ id \in 1 .. Len(reported') /\ reported'[id] = st
        /\ Len(reported) <= Len(reported')
        /\ \A k \in 1 .. Len(reported) : k # id => reported'[k] = reported[k]
    <2>1. CASE id \in DOMAIN reported /\ reported' = [reported EXCEPT ![id] = st]
      BY <1>3, <1>4, <2>1
    <2>2. CASE id = Len(reported) + 1 /\ reported' = Append(reported, st)
      BY <1>3, <1>4, <2>2
    <2>3. QED
      BY <1>1, <2>1, <2>2
  <1>6. Listed(chat', reported') /\ ChipsStay(chat')
    BY <1>1, <1>2, <1>3, <1>5, ProgressLists
  <1>7. QED
    BY <1>1, <1>6, ChatReports

LEMMA TimelineKept == TimelineInv /\ [TimelineNext]_timelineVars => TimelineInv'
  <1> SUFFICES ASSUME TimelineInv, [TimelineNext]_timelineVars
               PROVE  TimelineInv'
    OBVIOUS
  <1>1. CASE UNCHANGED timelineVars
    <2>1. UNCHANGED <<session, chat, previous, reported, settled>>
      BY <1>1 DEF timelineVars
    <2>2. QED
      BY <2>1 DEF TimelineInv, Reporting, Current, View, TransportState,
                  TransportConnected, StatusText, FileVerdict
  <1>2. CASE StartHostSession \/ JoinSession \/ DisconnectSession
    BY <1>2, StartKeeps, JoinKeeps, DisconnectKeeps
  <1>3. CASE \E conn \in {"Connecting", "Connected", "Reconnecting"} :
                OnConnectionStateChanged(conn)
    BY <1>3, ConnectionKeeps
  <1>4. CASE \E hostOnline \in BOOLEAN, guests \in 0 .. 2 :
                OnRelayPeerUpdate(hostOnline, guests)
    BY <1>4, PeersKeep
  <1>5. CASE \E f \in Files : OnRelayFileReceived(f) \/ SetLocalFileInfo(f)
    BY <1>5, FilesKeep
  <1>6. CASE \E voice \in {"Idle", "Connected", "Failed"} : OnVoiceStateChanged(voice)
    <2>1. PICK voice \in Voices : OnVoiceStateChanged(voice)
      BY <1>6 DEF Voices
    <2>2. QED
      BY <2>1, VoiceKeeps
  <1>7. CASE SendChatMessage \/ ShareFile
    BY <1>7, SendingKeeps
  <1>8. CASE \E i \in 1 .. MaxLines : RetryShare(i)
    BY <1>8, RetryKeeps
  <1>9. CASE \E id \in 1 .. MaxShares, st \in {"Sending", "Receiving", "Failed", "Done"} :
                OnShareProgress(id, st)
    BY <1>9, ProgressKeeps
  <1>10. QED
    BY <1>1, <1>2, <1>3, <1>4, <1>5, <1>6, <1>7, <1>8, <1>9 DEF TimelineNext

\* In every behaviour of the session the status line, the verdict on the file and
\* the last chips tell the same as the session (updateStatus, DispatchStatus,
\* AppendSystemTimelineChip).
THEOREM TimelineTheorem == TimelineSpec => []TimelineIsTrue
  <1>1. TimelineInit => TimelineInv
    BY TimelineStarts
  <1>2. TimelineInv /\ [TimelineNext]_timelineVars => TimelineInv'
    BY TimelineKept
  <1>3. TimelineInv => TimelineIsTrue
    BY TimelineInvImplies
  <1>4. QED
    BY <1>1, <1>2, <1>3, PTL DEF TimelineSpec

\* In every behaviour of the session a transfer has one line of the chat, or none when
\* the chat has forgotten it, and the line shows how it stands (the share progress
\* callback of wWinMain).
THEOREM TransferTheorem == TimelineSpec => []TransferHasOneLine
  <1>1. TimelineInit => TimelineInv
    BY TimelineStarts
  <1>2. TimelineInv /\ [TimelineNext]_timelineVars => TimelineInv'
    BY TimelineKept
  <1>3. TimelineInv => TransferHasOneLine
    BY TimelineInvImplies
  <1>4. QED
    BY <1>1, <1>2, <1>3, PTL DEF TimelineSpec

=============================================================================
