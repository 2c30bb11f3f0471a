----------------------------- MODULE RenderLoop -----------------------------
(***************************************************************************)
(* How a video frame reaches the window (render/render_sw.cpp, the texture *)
(* functions of platform.cpp and the frame loop of main.cpp).  Three       *)
(* threads share SwRenderState: mpv's threads announce frames, the render  *)
(* thread draws them into the back buffer and swaps, the UI thread uploads *)
(* the front buffer into the video texture and the blurred backdrop.  The  *)
(* flags are atomics that change outside the mutex, so a notify_one may    *)
(* come between a waiter's look at the flags and its sleep.                *)
(*                                                                         *)
(* A picture is drawn, and copied, top half first: <<top, bottom>>, each   *)
(* the number of the frame it shows; 0 is the black of a new buffer.       *)
(***************************************************************************)
EXTENDS Integers

CONSTANTS Sizes,       \* sizes the window may have
          MaxPictures,   \* bound: frames mpv decodes
          MaxResizes   \* bound: changes of the window's size

ASSUME RenderAssumption ==
    Sizes # {} /\ MaxPictures \in Nat /\ MaxResizes \in Nat

VARIABLES
    thread,          \* where the render thread is
    awake,           \* a notify_one reached it asleep
    target,          \* the size it read under the lock
    buffers,         \* buffers, widths and heights: [size, picture]
    frontIndex, targetSize, sizeDirty, hasFrame, threadRunning, frameRequested,
    frameCounter,
    mutex,           \* who holds SwRenderState::mutex
    ctx,             \* the mpv render context, its callback set or not
    decoded,         \* newest frame of mpv
    callback,        \* mpv is in the middle of mpv_render_update
    loop,            \* where the UI thread is in its frame loop
    window, resizes, \* size of the window
    closing,         \* g_requestExit
    texture,         \* g_videoTex: [size, picture]
    backdrop,        \* g_blurTex, when g_blurReady
    glass,           \* app.glassPanels
    frameId, lastUploaded,
    source           \* the buffer update_video_texture took a pointer to

rendering == <<thread, awake, target, buffers, frontIndex>>
requests == <<targetSize, sizeDirty, frameRequested>>
player == <<ctx, decoded, callback>>
uploading == <<texture, backdrop, frameId, lastUploaded, source>>
renderVars == <<rendering, requests, player, uploading, hasFrame, threadRunning,
                frameCounter, mutex, loop, window, resizes, closing, glass>>

NoSize == "none"
NoPicture == <<0, 0>>

\* What SwRenderState and the textures hold at the start.
NothingDrawn ==
    /\ awake = FALSE /\ target = NoSize
    /\ buffers = [i \in {0, 1} |-> [size |-> NoSize, picture |-> NoPicture]]
    /\ frontIndex = 0 /\ targetSize = NoSize /\ sizeDirty = FALSE
    /\ hasFrame = FALSE /\ threadRunning = TRUE /\ frameCounter = 0
    /\ frameRequested = TRUE
    /\ mutex = "free" /\ decoded = 0 /\ callback = FALSE
    /\ window \in Sizes /\ resizes = 0
    /\ texture = [size |-> NoSize, picture |-> NoPicture]
    /\ backdrop = NoPicture /\ glass = TRUE
    /\ frameId = 0 /\ lastUploaded = 0 /\ source = 0

RenderInit ==
    /\ NothingDrawn
    /\ thread = "top" /\ loop = "messages" /\ ctx = "set" /\ closing = FALSE

\* notify_one: it wakes the thread only if the thread already sleeps.
Notify == awake' = (awake \/ thread = "asleep")

\* The picture of frame n as far as it has come over the picture p.
Half(p, n) == <<n, p[2]>>

----------------------------------------------------------------------------
(* mpv.                                                                    *)

\* A frame is decoded; its callback stores the flag, then notifies.
FrameDecoded ==
    /\ decoded < MaxPictures /\ ~callback /\ ctx # "freed"
    /\ decoded' = decoded + 1
    /\ \/ ctx = "set" /\ callback' = TRUE /\ frameRequested' = TRUE
       \/ ctx = "silent" /\ UNCHANGED <<callback, frameRequested>>
    /\ UNCHANGED <<rendering, targetSize, sizeDirty, uploading, ctx, hasFrame,
                   threadRunning, frameCounter, mutex, loop, window, resizes,
                   closing, glass>>

CallbackNotifies ==
    /\ callback /\ callback' = FALSE
    /\ Notify
    /\ UNCHANGED <<thread, target, buffers, frontIndex, requests, uploading,
                   ctx, decoded, hasFrame, threadRunning, frameCounter, mutex, loop,
                   window, resizes, closing, glass>>

----------------------------------------------------------------------------
(* The render thread.                                                      *)

ThreadLeaves(others) == UNCHANGED <<player, uploading, loop, window, resizes,
                                    closing, glass, targetSize, threadRunning, others>>

\* The while condition, then the lock and the first look at the predicate.
ThreadWaits ==
    /\ thread = "top"
    /\ IF ~threadRunning
       THEN thread' = "done" /\ UNCHANGED mutex
       ELSE /\ mutex = "free" /\ mutex' = "thread"
            /\ thread' = IF frameRequested \/ sizeDirty THEN "woken"
                         ELSE "checked"
    /\ ThreadLeaves(<<awake, target, buffers, frontIndex, sizeDirty,
                      frameRequested, hasFrame, frameCounter>>)

\* wait_for releases the mutex and falls asleep.
ThreadSleeps ==
    /\ thread = "checked"
    /\ thread' = "asleep" /\ mutex' = "free" /\ awake' = FALSE
    /\ ThreadLeaves(<<target, buffers, frontIndex, sizeDirty, frameRequested,
                      hasFrame, frameCounter>>)

\* A slip to check against: wait() instead of wait_for().
ThreadWakesNotified ==
    /\ thread = "asleep" /\ mutex = "free" /\ awake
    /\ mutex' = "thread" /\ awake' = FALSE
    /\ thread' = IF ~threadRunning \/ frameRequested \/ sizeDirty
                 THEN "woken" ELSE "checked"
    /\ ThreadLeaves(<<target, buffers, frontIndex, sizeDirty, frameRequested,
                      hasFrame, frameCounter>>)

\* A notification, or 16 ms, ends the sleep: the lock is taken again.  A wake
\* by notification looks at the predicate again; a timeout goes on.
ThreadWakes ==
    /\ thread = "asleep" /\ mutex = "free"
    /\ mutex' = "thread" /\ awake' = FALSE
    /\ \/ /\ awake
          /\ thread' = IF ~threadRunning \/ frameRequested \/ sizeDirty
                       THEN "woken" ELSE "checked"
       \/ thread' = "woken"
    /\ ThreadLeaves(<<target, buffers, frontIndex, sizeDirty, frameRequested,
                      hasFrame, frameCounter>>)

\* Under the lock: the requests are taken and the size is read.
ThreadTakesRequest ==
    /\ thread = "woken"
    /\ mutex' = "free"
    /\ LET resized == buffers[1 - frontIndex].size # targetSize
           doRender == frameRequested \/ sizeDirty \/ resized
       IN IF ~threadRunning
          THEN thread' = "done" /\ UNCHANGED <<frameRequested, sizeDirty, target>>
          ELSE /\ frameRequested' = FALSE /\ sizeDirty' = FALSE
               /\ target' = targetSize
               /\ thread' = IF targetSize # NoSize /\ doRender
                            THEN "drawing" ELSE "top"
    /\ ThreadLeaves(<<awake, buffers, frontIndex, hasFrame, frameCounter>>)

\* Without the lock the back buffer is reallocated if it has another size, and
\* mpv_render_context_render draws the newest frame into it.
ThreadDraws ==
    /\ thread \in {"drawing", "half"}
    /\ LET back == 1 - frontIndex
           old == IF buffers[back].size = target THEN buffers[back].picture
                  ELSE NoPicture
       IN IF thread = "drawing"
          THEN /\ thread' = "half"
               /\ buffers' = [buffers EXCEPT ![back] =
                    [size |-> target, picture |-> Half(old, decoded)]]
          ELSE /\ thread' = "drawn"
               /\ buffers' = [buffers EXCEPT ![back].picture = <<old[1], old[1]>>]
    /\ ThreadLeaves(<<awake, target, frontIndex, sizeDirty, frameRequested,
                      hasFrame, frameCounter, mutex>>)

ThreadSwaps ==
    /\ thread = "drawn" /\ mutex = "free"
    /\ thread' = "top"
    /\ frontIndex' = 1 - frontIndex
    /\ hasFrame' = TRUE /\ frameCounter' = frameCounter + 1
    /\ ThreadLeaves(<<awake, target, buffers, sizeDirty, frameRequested, mutex>>)

----------------------------------------------------------------------------
(* The UI thread, once around its frame loop.                              *)

LoopLeaves(others) == UNCHANGED <<thread, target, buffers, frontIndex, player,
                                  hasFrame, frameCounter, closing, others>>

\* WM_SIZE, the glass toggle of the settings, or nothing; then a new frame.
Messages ==
    /\ loop = "messages" /\ ~closing
    /\ loop' = "sizing"
    /\ \/ UNCHANGED <<window, resizes, glass>>
       \/ /\ resizes < MaxResizes /\ resizes' = resizes + 1
          /\ window' \in Sizes \ {window}
          /\ UNCHANGED glass
       \/ /\ resizes < MaxResizes /\ resizes' = resizes + 1
          /\ glass' = ~glass /\ UNCHANGED window
    /\ LoopLeaves(<<requests, awake, uploading, threadRunning, mutex>>)

\* ensure_sw_buffer and EnsureVideoTexture: both follow the size of the window.
Sizing ==
    /\ loop = "sizing" /\ mutex = "free"
    /\ loop' = "checking"
    /\ IF targetSize = window
       THEN UNCHANGED <<targetSize, sizeDirty, frameRequested, awake>>
       ELSE /\ targetSize' = window /\ sizeDirty' = TRUE
            /\ frameRequested' = TRUE /\ Notify
    /\ texture' = IF texture.size = window THEN texture
                  ELSE [size |-> window, picture |-> NoPicture]
    /\ LoopLeaves(<<backdrop, frameId, lastUploaded, source, threadRunning, mutex,
                    window, resizes, glass>>)

\* A front buffer of the old size, or no frame at all, is asked for again; then
\* the glass toggle is taken over.
Checking ==
    /\ loop = "checking" /\ mutex = "free"
    /\ loop' = "comparing"
    /\ IF ~hasFrame \/ buffers[frontIndex].size # texture.size
       THEN frameRequested' = TRUE /\ Notify
       ELSE UNCHANGED <<frameRequested, awake>>
    /\ backdrop' = IF glass THEN backdrop ELSE NoPicture
    /\ LoopLeaves(<<targetSize, sizeDirty, texture, frameId, lastUploaded,
                    source, threadRunning, mutex, window, resizes, glass>>)

\* A slip to check against: the pointer is taken under the lock, the copy made without it.
ComparingUnlocked ==
    /\ loop = "comparing"
    /\ frameId' = frameCounter
    /\ IF frameCounter = lastUploaded
       THEN loop' = "messages" /\ UNCHANGED <<source, lastUploaded>>
       ELSE /\ mutex = "free"
            /\ IF hasFrame /\ buffers[frontIndex].size = texture.size
               THEN /\ loop' = "copying" /\ source' = frontIndex
                    /\ UNCHANGED lastUploaded
               ELSE /\ loop' = "messages" /\ lastUploaded' = frameId'
                    /\ UNCHANGED source
    /\ LoopLeaves(<<requests, awake, texture, backdrop, threadRunning, window,
                    resizes, glass, mutex>>)

\* The counter is read without the lock; update_video_texture takes the lock
\* and a pointer to the front buffer, unless that has the wrong size.
Comparing ==
    /\ loop = "comparing"
    /\ frameId' = frameCounter
    /\ IF frameCounter = lastUploaded
       THEN loop' = "messages" /\ UNCHANGED <<mutex, source, lastUploaded>>
       ELSE /\ mutex = "free"
            /\ IF hasFrame /\ buffers[frontIndex].size = texture.size
               THEN /\ loop' = "copying" /\ mutex' = "ui" /\ source' = frontIndex
                    /\ UNCHANGED lastUploaded
               ELSE /\ loop' = "messages" /\ lastUploaded' = frameId'
                    /\ UNCHANGED <<mutex, source>>
    /\ LoopLeaves(<<requests, awake, texture, backdrop, threadRunning, window,
                    resizes, glass>>)

\* The upload, half by half; produce_blur reads the same pointer at its end.
Copying ==
    /\ loop \in {"copying", "copied"}
    /\ LET p == buffers[source].picture
       IN IF loop = "copying"
          THEN /\ loop' = "copied"
               /\ texture' = [texture EXCEPT !.picture = <<p[1], texture.picture[2]>>]
               /\ UNCHANGED <<backdrop, mutex, lastUploaded>>
          ELSE /\ loop' = "messages"
               /\ texture' = [texture EXCEPT !.picture[2] = p[2]]
               /\ backdrop' = IF glass THEN p ELSE NoPicture
               /\ mutex' = "free" /\ lastUploaded' = frameId
    /\ LoopLeaves(<<requests, awake, frameId, source, threadRunning, window, resizes,
                    glass>>)

\* WM_CLOSE: the render thread is told, the loop ends.
Closes ==
    /\ loop = "messages" /\ ~closing
    /\ closing' = TRUE /\ threadRunning' = FALSE /\ loop' = "closed"
    /\ Notify
    /\ UNCHANGED <<thread, target, buffers, frontIndex, requests, player,
                   uploading, hasFrame, frameCounter, mutex, window, resizes,
                   glass>>

\* A slip to check against: the context is freed before the thread is joined.
ShutdownUnjoined ==
    /\ \/ /\ loop = "closed" /\ ~callback
          /\ loop' = "joining" /\ ctx' = "freed" /\ Notify
       \/ /\ loop = "joining" /\ thread = "done"
          /\ loop' = "exited" /\ UNCHANGED <<awake, ctx>>
    /\ UNCHANGED <<thread, target, buffers, frontIndex, requests, decoded,
                   callback, uploading, hasFrame, threadRunning, frameCounter, mutex,
                   window, resizes, closing, glass>>

\* Shutdown: the callback is removed (mpv waits for one that runs), the thread
\* is told again and joined, and only then the context is freed.
Shutdown ==
    /\ \/ /\ loop = "closed" /\ ~callback
          /\ loop' = "joining" /\ ctx' = "silent" /\ Notify
       \/ /\ loop = "joining" /\ thread = "done"
          /\ loop' = "exited" /\ ctx' = "freed" /\ UNCHANGED awake
    /\ UNCHANGED <<thread, target, buffers, frontIndex, requests, decoded,
                   callback, uploading, hasFrame, threadRunning, frameCounter, mutex,
                   window, resizes, closing, glass>>

----------------------------------------------------------------------------
RenderThread == ThreadWaits \/ ThreadSleeps \/ ThreadWakes
                \/ ThreadTakesRequest \/ ThreadDraws \/ ThreadSwaps

FrameLoop == Messages \/ Sizing \/ Checking \/ Comparing \/ Copying

RenderNext == FrameDecoded \/ CallbackNotifies \/ RenderThread \/ FrameLoop
              \/ Closes \/ Shutdown

\* Every thread is scheduled again and again, the mutex is handed on, and a
\* sleep of 16 ms ends.  Nobody has to decode a frame or close the window.
RenderFairness ==
    /\ WF_renderVars(CallbackNotifies)
    /\ SF_renderVars(RenderThread)
    /\ SF_renderVars(FrameLoop \/ Shutdown)

----------------------------------------------------------------------------
(* Properties.                                                             *)

RenderTypeOK ==
    /\ thread \in {"top", "checked", "asleep", "woken", "drawing", "half",
                   "drawn", "done"}
    /\ target \in Sizes \cup {NoSize} /\ targetSize \in Sizes \cup {NoSize}
    /\ \A i \in {0, 1} : /\ buffers[i].size \in Sizes \cup {NoSize}
                         /\ buffers[i].picture \in (0..MaxPictures) \X (0..MaxPictures)
    /\ frontIndex \in {0, 1} /\ source \in {0, 1}
    /\ mutex \in {"free", "thread", "ui"} /\ ctx \in {"set", "silent", "freed"}
    /\ loop \in {"messages", "sizing", "checking", "comparing", "copying",
                 "copied", "closed", "joining", "exited"}
    /\ texture.size \in Sizes \cup {NoSize} /\ window \in Sizes
    /\ lastUploaded <= frameId /\ frameId <= frameCounter

\* What the window shows is one frame, never the top of one and the bottom of
\* another, and the buffer it is copied from is neither being drawn into nor of
\* another size than the texture: update_video_texture keeps the lock to the
\* end because the render thread swaps and reallocates (render_sw.cpp:135).
NoTornUpload ==
    /\ loop # "copied" => texture.picture[1] = texture.picture[2]
    /\ backdrop[1] = backdrop[2]
    /\ loop \in {"copying", "copied"} =>
         /\ buffers[source].size = texture.size
         /\ ~(thread = "half" /\ source = 1 - frontIndex)

\* The render thread never draws with a context that was freed: the window
\* closes in whatever state the thread is.
ContextOutlivesTheThread == ctx = "freed" => thread = "done"

\* Together: the buffers and the context are used only while they are what their
\* user takes them for.
RenderingIsSafe == RenderTypeOK /\ NoTornUpload /\ ContextOutlivesTheThread

\* Whatever notification was lost, and however the window was resized, the
\* newest frame is shown in the end at the size of the window, unless the
\* program was closed.
NewestFrameIsShown ==
    <>[](\/ closing \/ decoded = 0
        \/ texture = [size |-> window, picture |-> <<decoded, decoded>>])

\* Closing the window always ends: the thread is joined and the context freed.
ClosingEnds == closing ~> loop = "exited"
=============================================================================
