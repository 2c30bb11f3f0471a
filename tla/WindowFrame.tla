----------------------------- MODULE WindowFrame -----------------------------
(***************************************************************************)
(* The frame of the window (platform/platform.cpp): fullscreen and the     *)
(* fade that hides it, the back buffers of the swap chain, the buttons of  *)
(* the taskbar.  The UI thread dispatches messages, runs a frame of        *)
(* wWinMain, and so on; while the user moves or resizes the window,        *)
(* Windows runs a loop of its own and no frame is drawn.                   *)
(***************************************************************************)
EXTENDS Naturals

CONSTANTS WindowSizes,   \* of the window when it is not maximized
          MaxKeys        \* bound: what the user does

ASSUME WindowFrameAssumption ==
    WindowSizes # {} /\ \A word \in {"work", "screen", "none"} : word \notin WindowSizes

VARIABLES
    running,
    inSizing,            \* g_inSizing: Windows' own loop runs
    zoomed, normal,      \* the window is maximized; its size when it is not
    client,              \* size of the client area
    buffers,             \* of the swap chain
    pendingResize,       \* g_pendingResizeW and H, "none" for 0
    fullscreen, saved,   \* g_fullscreen; g_wasMaximized and g_wpPrev
    pendingToggle,       \* g_pendingToggleFullscreen
    fsTransition, fsPhase, fsFade,
    asked, cause,        \* bookkeeping: what the request, the transition came from
    created,             \* a TaskbarButtonCreated message is in the queue
    thumbsAdded, thumbShowsPause,
    thumb,               \* what the middle button shows (external)
    playing,             \* hasMedia and not paused
    keys                 \* bookkeeping: what the user has done

sizeVars == <<inSizing, zoomed, normal, client, buffers, pendingResize>>
fsVars == <<fullscreen, saved, pendingToggle, fsTransition, fsPhase, fsFade, asked, cause>>
thumbVars == <<created, thumbsAdded, thumbShowsPause, thumb>>
frameVars == <<running, sizeVars, fsVars, thumbVars, playing, keys>>

FrameStart(s) ==
    /\ inSizing = FALSE /\ zoomed = FALSE /\ normal = s
    /\ client = s /\ buffers = s /\ pendingResize = "none"
    /\ fullscreen = FALSE /\ saved = [zoomed |-> FALSE, normal |-> s]
    /\ pendingToggle = FALSE /\ fsTransition = FALSE /\ fsPhase = 0 /\ fsFade = 0
    /\ asked = "toggle" /\ cause = "toggle"
    /\ created = TRUE /\ thumbsAdded = FALSE /\ thumbShowsPause = FALSE /\ thumb = "none"
    /\ playing = FALSE /\ keys = 0
FrameInit == running = TRUE /\ \E s \in WindowSizes : FrameStart(s)
FrameOff == running = FALSE /\ FrameStart(CHOOSE s \in WindowSizes : TRUE)

----------------------------------------------------------------------------
(* Sizes.                                                                  *)

\* WM_SIZE of a client area that is now s.
Sized(s) ==
    /\ client' = s
    /\ IF inSizing THEN pendingResize' = s /\ UNCHANGED buffers
       ELSE buffers' = s /\ UNCHANGED pendingResize

User == running /\ keys < MaxKeys /\ keys' = keys + 1 /\ UNCHANGED <<running, playing>>

\* The title bar: only drawn, and only there for Windows, when not fullscreen.
ToggleMaximized ==
    /\ User /\ ~inSizing /\ ~fullscreen
    /\ zoomed' = ~zoomed /\ Sized(IF zoomed THEN normal ELSE "work")
    /\ UNCHANGED <<inSizing, normal, fsVars, thumbVars>>

EnterSizeMove ==
    /\ User /\ ~inSizing /\ ~fullscreen
    /\ inSizing' = TRUE
    /\ UNCHANGED <<zoomed, normal, client, buffers, pendingResize, fsVars, thumbVars>>

\* A maximized window that is dragged is restored.
DragBorder(s) ==
    /\ User /\ inSizing
    /\ zoomed' = FALSE /\ normal' = s /\ Sized(s)
    /\ UNCHANGED <<inSizing, fsVars, thumbVars>>

\* A slip to check against: the size is applied again after a later move.
ExitSizeMoveKeeping ==
    /\ running /\ inSizing /\ inSizing' = FALSE
    /\ buffers' = IF pendingResize = "none" THEN buffers ELSE pendingResize
    /\ UNCHANGED <<running, pendingResize, zoomed, normal, client, fsVars, thumbVars, playing, keys>>

ExitSizeMove ==
    /\ running /\ inSizing /\ inSizing' = FALSE
    /\ buffers' = IF pendingResize = "none" THEN buffers ELSE pendingResize
    /\ pendingResize' = "none"
    /\ UNCHANGED <<running, zoomed, normal, client, fsVars, thumbVars, playing, keys>>

----------------------------------------------------------------------------
(* Keys and buttons.                                                       *)

\* WM_KEYDOWN, also in Windows' own loop.
PressF11 ==
    /\ User /\ pendingToggle' = TRUE /\ asked' = "toggle"
    /\ UNCHANGED <<sizeVars, fullscreen, saved, fsTransition, fsPhase, fsFade, cause, thumbVars>>
PressEscape ==
    /\ User /\ fullscreen
    /\ pendingToggle' = TRUE
    /\ asked' = IF pendingToggle THEN asked ELSE "escape"
    /\ UNCHANGED <<sizeVars, fullscreen, saved, fsTransition, fsPhase, fsFade, cause, thumbVars>>

TogglePlayback ==
    /\ running /\ keys < MaxKeys /\ keys' = keys + 1 /\ playing' = ~playing
    /\ UNCHANGED <<running, sizeVars, fsVars, thumbVars>>

\* EnsureThumbButtons: whenever the shell has made a button for the window.
ThumbsReset == thumb' = "play" /\ thumbShowsPause' = FALSE
TaskbarButtonCreated ==
    /\ running /\ created /\ created' = FALSE
    /\ thumbsAdded' = TRUE /\ ThumbsReset
    /\ UNCHANGED <<running, sizeVars, fsVars, playing, keys>>

\* WM_CLOSE: the loop ends, CleanupTaskbar.
CloseFrame ==
    /\ running /\ ~inSizing /\ running' = FALSE /\ thumbsAdded' = FALSE
    /\ UNCHANGED <<sizeVars, fsVars, created, thumbShowsPause, thumb, playing, keys>>

----------------------------------------------------------------------------
(* A frame.                                                                *)

SavedPlacement == [zoomed |-> zoomed, normal |-> normal]

\* ToggleFullscreen.  Hiding and showing the window makes the shell give it a
\* new button.
ToggleFullscreen ==
    /\ fullscreen' = ~fullscreen
    /\ created' = TRUE
    /\ IF fullscreen
       THEN /\ Sized(IF saved.zoomed THEN "work" ELSE saved.normal)
            /\ UNCHANGED saved
       ELSE saved' = SavedPlacement /\ Sized("screen")
    /\ UNCHANGED <<inSizing, zoomed, normal>>
NoToggle == UNCHANGED <<sizeVars, fullscreen, saved, created>>

\* The request is taken back whether or not it starts a transition; a click or a
\* double click of this frame is left for the next.
RequestTaken(started) == FALSE

\* UpdateTaskbar, four times a second.
UpdateTaskbar ==
    \/ UNCHANGED <<thumbsAdded, thumbShowsPause, thumb>>
    \/ /\ thumbsAdded /\ playing # thumbShowsPause
       /\ thumbShowsPause' = playing /\ thumb' = (IF playing THEN "pause" ELSE "play")
       /\ UNCHANGED thumbsAdded

\* A slip to check against: the phase is that of the last transition.
FirstPhaseAsLeft == fsPhase
FirstPhase == 0

\* The fade goes up, the window changes, the fade goes down.
Faded(steps, starts, phase) ==
    LET fade == IF starts THEN 0 ELSE fsFade
        up   == fade + steps >= 2
    IN  IF ~(fsTransition \/ starts) THEN NoToggle /\ UNCHANGED <<fsTransition, fsPhase, fsFade>>
        ELSE IF phase = 0
             THEN /\ fsTransition' = TRUE
                  /\ fsFade' = IF up THEN 2 ELSE fade + steps
                  /\ fsPhase' = IF up THEN 1 ELSE 0
                  /\ IF up THEN ToggleFullscreen ELSE NoToggle
             ELSE /\ fsFade' = IF fade > steps THEN fade - steps ELSE 0
                  /\ fsTransition' = (fade > steps)
                  /\ fsPhase' = 1 /\ NoToggle

DrawFrame ==
    /\ running /\ ~inSizing
    /\ UpdateTaskbar
    /\ LET starts == pendingToggle /\ ~fsTransition
       IN  /\ \E steps \in {1, 2} : Faded(steps, starts, IF starts THEN FirstPhase ELSE fsPhase)
           /\ cause' = IF starts THEN asked ELSE cause
           /\ \/ /\ keys < MaxKeys /\ keys' = keys + 1
                 /\ pendingToggle' = TRUE
                 /\ asked' = "toggle"
              \/ pendingToggle' = RequestTaken(~fsTransition) /\ UNCHANGED <<keys, asked>>
    /\ UNCHANGED <<running, playing>>

FrameNext ==
    \/ ToggleMaximized \/ EnterSizeMove \/ ExitSizeMove
    \/ \E s \in WindowSizes : DragBorder(s)
    \/ PressF11 \/ PressEscape \/ TogglePlayback
    \/ TaskbarButtonCreated \/ CloseFrame
    \/ DrawFrame

\* The loop goes on, messages are dispatched, the user lets go of the border.
\* A quarter of a second passes between some frames.
FrameFairness ==
    /\ WF_frameVars(DrawFrame)
    /\ SF_frameVars(DrawFrame /\ thumbShowsPause' # thumbShowsPause)
    /\ WF_frameVars(ExitSizeMove) /\ WF_frameVars(TaskbarButtonCreated)

----------------------------------------------------------------------------
(* Properties.                                                             *)

\* The back buffers have the size of the window except while it is being
\* dragged, and leaving fullscreen gives the window back as it was: maximized,
\* or of its own size.
WindowComesBack ==
    /\ ~inSizing => buffers = client
    /\ client = IF fullscreen THEN "screen" ELSE IF zoomed THEN "work" ELSE normal

\* Asking for fullscreen, or for the window, while nothing is changing gives it,
\* whatever is pressed or dragged meanwhile.
RequestIsHonoured ==
    \A m \in BOOLEAN :
        pendingToggle /\ ~fsTransition /\ fullscreen = m ~> fullscreen # m \/ ~running

\* Escape only ever leaves fullscreen, pressed as often as the user likes.
EscapeOnlyLeaves ==
    [][fullscreen' /\ ~fullscreen => cause' # "escape"]_frameVars

\* The taskbar offers the action its button performs, in the end, although every
\* change to and from fullscreen gives the window a new button.
ThumbShowsAction ==
    <>[](running /\ thumbsAdded => thumb = IF playing THEN "pause" ELSE "play")

\* Together: keys, buttons and the shell get what they ask for, and nothing else.
FrameObeys == RequestIsHonoured /\ EscapeOnlyLeaves /\ ThumbShowsAction
=============================================================================
