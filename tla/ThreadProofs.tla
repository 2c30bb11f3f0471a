-------------------------------- MODULE ThreadProofs -------------------------
(***************************************************************************)
(* For any sizes of the window and any number of frames: what the window   *)
(* shows is one frame, and the render thread is gone before its context is *)
(* (render/render_sw.cpp, the texture functions of platform.cpp).          *)
(*                                                                         *)
(* RenderingIsSafe is not inductive.  That a copy is of one frame depends  *)
(* on who holds the mutex where (Holders), on both buffers being whole     *)
(* except for the one the render thread is drawing into (Pictures), and on *)
(* the copy being of the front buffer, which only a swap under the mutex   *)
(* replaces (Upload).                                                      *)
(*                                                                         *)
(* For any number of requests: what the subtitles panel and the update     *)
(* toast show are answers to what was asked last                           *)
(* (media/opensubtitles.cpp, core/update_check.cpp).                       *)
(*                                                                         *)
(* AnswersMatchRequests is not inductive.  It needs what the one thread    *)
(* that may run was started for (OneThread), that the snapshot the panel   *)
(* draws from is still true unless a request was under way when it was     *)
(* taken (SnapshotHolds), and that a file is new to the player as long as  *)
(* its download runs or is not acknowledged (FileIsNew).                   *)
(***************************************************************************)
EXTENDS RenderLoop, BackgroundJobs, FiniteSetTheorems, TLAPS

----------------------------------------------------------------------------
(* The render thread and the window.                                       *)

\* The render loop with nothing else running.
RenderSpec == RenderInit /\ [][RenderNext]_renderVars

SizesSeen == Sizes \cup {NoSize}
Picture == (0 .. MaxPictures) \X (0 .. MaxPictures)
Image == [size : SizesSeen, picture : Picture]

RenderTypes ==
    /\ thread \in {"top", "checked", "asleep", "woken", "drawing", "half",
                   "drawn", "done"}
    /\ target \in SizesSeen /\ targetSize \in SizesSeen /\ window \in Sizes
    /\ buffers \in [{0, 1} -> Image] /\ frontIndex \in {0, 1}
    /\ texture \in Image /\ backdrop \in Picture /\ source \in {0, 1}
    /\ decoded \in 0 .. MaxPictures
    /\ frameCounter \in Nat /\ frameId \in Nat /\ lastUploaded \in Nat
    /\ lastUploaded <= frameId /\ frameId <= frameCounter
    /\ mutex \in {"free", "thread", "ui"} /\ ctx \in {"set", "silent", "freed"}
    /\ loop \in {"messages", "sizing", "checking", "comparing", "copying",
                 "copied", "closed", "joining", "exited"}

\* Who holds SwRenderState::mutex.
Holders ==
    /\ mutex = "thread" <=> thread \in {"checked", "woken"}
    /\ mutex = "ui" <=> loop \in {"copying", "copied"}

Whole(p) == p[1] = p[2]

\* Only the back buffer may be half drawn, and only while it is drawn into.
Pictures ==
    /\ Whole(buffers[frontIndex].picture) /\ Whole(backdrop)
    /\ thread # "half" => Whole(buffers[1 - frontIndex].picture)

\* An upload copies the front buffer, half by half.
Upload ==
    /\ loop \in {"copying", "copied"} =>
          source = frontIndex /\ buffers[source].size = texture.size
    /\ IF loop = "copied" THEN texture.picture[1] = buffers[source].picture[1]
       ELSE Whole(texture.picture)

RenderInv == RenderTypes /\ Holders /\ Pictures /\ Upload /\ ContextOutlivesTheThread

----------------------------------------------------------------------------
LEMMA RenderInvImplies == RenderInv => RenderingIsSafe
  BY DEF RenderInv, RenderingIsSafe, RenderTypes, RenderTypeOK, NoTornUpload, Holders,
         Pictures, Upload, Whole, SizesSeen, Picture, Image

LEMMA RenderStarts == RenderInit => RenderInv
  BY RenderAssumption
     DEF RenderInit, NothingDrawn, RenderInv, RenderTypes, Holders, Pictures, Upload, Whole,
         ContextOutlivesTheThread, SizesSeen, Picture, Image, NoPicture

\* mpv.
LEMMA PlayerKeeps == RenderInv /\ (FrameDecoded \/ CallbackNotifies) => RenderInv'
  <1> SUFFICES ASSUME RenderInv, FrameDecoded \/ CallbackNotifies
               PROVE  RenderInv'
    OBVIOUS
  <1>1. /\ UNCHANGED <<thread, target, buffers, frontIndex, targetSize, uploading, ctx,
                       frameCounter, mutex, loop, window>>
        /\ decoded' \in 0 .. MaxPictures
    BY RenderAssumption
       DEF RenderInv, RenderTypes, FrameDecoded, CallbackNotifies, rendering, requests
  <1>2. QED
    BY <1>1
       DEF RenderInv, RenderTypes, Holders, Pictures, Upload, ContextOutlivesTheThread,
           uploading

\* The steps of the render thread that leave the buffers alone.
LEMMA ThreadKeeps ==
    RenderInv /\ (ThreadWaits \/ ThreadSleeps \/ ThreadWakes \/ ThreadTakesRequest)
    => RenderInv'
  <1> SUFFICES ASSUME RenderInv,
                      ThreadWaits \/ ThreadSleeps \/ ThreadWakes \/ ThreadTakesRequest
               PROVE  RenderInv'
    OBVIOUS
  <1>1. /\ UNCHANGED <<buffers, frontIndex, player, uploading, loop, window,
                       targetSize, frameCounter>>
        /\ thread \notin {"half", "done"} /\ thread' # "half"
    BY DEF RenderInv, RenderTypes, ThreadWaits, ThreadSleeps, ThreadWakes,
           ThreadTakesRequest, ThreadLeaves
  <1>2. /\ thread' \in {"top", "checked", "asleep", "woken", "drawing", "done"}
        /\ target' \in SizesSeen /\ mutex' \in {"free", "thread", "ui"}
    BY DEF RenderInv, RenderTypes, ThreadWaits, ThreadSleeps, ThreadWakes,
           ThreadTakesRequest, ThreadLeaves
  <1>3. Holders'
    BY <1>1 DEF RenderInv, RenderTypes, Holders, ThreadWaits, ThreadSleeps, ThreadWakes,
                ThreadTakesRequest
  <1>4. QED
    BY <1>1, <1>2, <1>3
       DEF RenderInv, RenderTypes, Pictures, Upload, ContextOutlivesTheThread, player,
           uploading

\* Drawing touches the back buffer only, and no buffer while it is copied.
LEMMA DrawingKeeps == RenderInv /\ ThreadDraws => RenderInv'
  <1> SUFFICES ASSUME RenderInv, ThreadDraws
               PROVE  RenderInv'
    OBVIOUS
  <1> DEFINE back == 1 - frontIndex
             old == IF buffers[back].size = target THEN buffers[back].picture
                    ELSE NoPicture
  <1>1. /\ UNCHANGED <<target, frontIndex, targetSize, window, uploading, player,
                       frameCounter, mutex, loop>>
        /\ back \in {0, 1} /\ back # frontIndex
    BY DEF RenderInv, RenderTypes, ThreadDraws, ThreadLeaves
  <1>2. old \in Picture
    BY <1>1, RenderAssumption DEF RenderInv, RenderTypes, Image, Picture, NoPicture
  <1>3. /\ thread' \in {"half", "drawn"} /\ thread \in {"drawing", "half"}
        /\ buffers' \in [{0, 1} -> Image]
        /\ buffers'[frontIndex] = buffers[frontIndex]
        /\ thread' # "half" => Whole(buffers'[back].picture)
    <2>1. CASE thread = "drawing"
      <3>1. /\ thread' = "half"
            /\ buffers' = [buffers EXCEPT ![back] =
                 [size |-> target, picture |-> Half(old, decoded)]]
        BY <2>1 DEF ThreadDraws
      <3>2. [size |-> target, picture |-> Half(old, decoded)] \in Image
        BY <1>2 DEF RenderInv, RenderTypes, Image, Picture, Half
      <3>3. QED
        BY <1>1, <2>1, <3>1, <3>2 DEF RenderInv, RenderTypes
    <2>2. CASE thread = "half"
      <3>1. /\ thread' = "drawn"
            /\ buffers' = [buffers EXCEPT ![back].picture = <<old[1], old[1]>>]
        BY <2>2 DEF ThreadDraws
      <3>2. <<old[1], old[1]>> \in Picture
        BY <1>2 DEF Picture
      <3>3. QED
        BY <1>1, <2>2, <3>1, <3>2 DEF RenderInv, RenderTypes, Image, Whole
    <2>3. QED
      BY <2>1, <2>2 DEF ThreadDraws
  <1>4. RenderTypes' /\ Holders'
    BY <1>1, <1>3 DEF RenderInv, RenderTypes, Holders, uploading, player
  <1>5. Pictures' /\ Upload' /\ ContextOutlivesTheThread'
    BY <1>1, <1>3
       DEF RenderInv, RenderTypes, Pictures, Upload, ContextOutlivesTheThread, uploading, player
  <1>6. QED
    BY <1>4, <1>5 DEF RenderInv

\* A swap needs the mutex, so no copy is going on.
LEMMA SwapKeeps == RenderInv /\ ThreadSwaps => RenderInv'
  <1> SUFFICES ASSUME RenderInv, ThreadSwaps
               PROVE  RenderInv'
    OBVIOUS
  <1>1. /\ frontIndex' = 1 - frontIndex /\ frontIndex' \in {0, 1}
        /\ 1 - frontIndex' = frontIndex
        /\ frameCounter' = frameCounter + 1
        /\ thread = "drawn" /\ thread' = "top" /\ mutex = "free"
        /\ UNCHANGED <<buffers, target, targetSize, window, uploading, player, mutex, loop>>
    BY DEF RenderInv, RenderTypes, ThreadSwaps, ThreadLeaves
  <1>2. QED
    BY <1>1
       DEF RenderInv, RenderTypes, Holders, Pictures, Upload, ContextOutlivesTheThread,
           uploading, player

\* The steps of the frame loop before the upload.
LEMMA LoopKeeps == RenderInv /\ (Messages \/ Sizing \/ Checking) => RenderInv'
  <1> SUFFICES ASSUME RenderInv, Messages \/ Sizing \/ Checking
               PROVE  RenderInv'
    OBVIOUS
  <1>1. /\ UNCHANGED <<thread, target, buffers, frontIndex, player, frameCounter,
                       mutex, source, frameId, lastUploaded>>
        /\ loop \notin {"copying", "copied"} /\ loop' \in {"sizing", "checking", "comparing"}
    BY DEF Messages, Sizing, Checking, LoopLeaves, uploading
  <1>2. window' \in Sizes /\ targetSize' \in SizesSeen
    BY DEF RenderInv, RenderTypes, Messages, Sizing, Checking, LoopLeaves, requests, SizesSeen
  <1>3. /\ texture' \in Image /\ Whole(texture'.picture)
        /\ backdrop' \in Picture /\ Whole(backdrop')
    BY <1>1, RenderAssumption
       DEF RenderInv, RenderTypes, Pictures, Upload, Messages, Sizing, Checking, LoopLeaves,
           uploading, SizesSeen, Image, Picture, NoPicture, Whole
  <1>4. QED
    BY <1>1, <1>2, <1>3
       DEF RenderInv, RenderTypes, Holders, Pictures, Upload, ContextOutlivesTheThread, player

\* The upload: the mutex is held from the look at the front buffer to the end.
LEMMA UploadKeeps == RenderInv /\ (Comparing \/ Copying) => RenderInv'
  <1> SUFFICES ASSUME RenderInv, Comparing \/ Copying
               PROVE  RenderInv'
    OBVIOUS
  <1>1. UNCHANGED <<thread, target, buffers, frontIndex, player, targetSize,
                    frameCounter, window>>
    BY DEF Comparing, Copying, LoopLeaves, requests
  <1>2. CASE Comparing
    BY <1>1, <1>2
       DEF RenderInv, RenderTypes, Holders, Pictures, Upload, ContextOutlivesTheThread,
           Comparing, LoopLeaves, player
  <1>3. CASE Copying
    <2> DEFINE p == buffers[source].picture
    <2>1. /\ p \in Picture /\ Whole(p) /\ source = frontIndex
          /\ UNCHANGED <<frameId, source>>
      BY <1>3 DEF RenderInv, RenderTypes, Pictures, Upload, Image, Copying, LoopLeaves
    <2>2. CASE loop = "copying"
      <3>1. /\ loop' = "copied" /\ UNCHANGED <<backdrop, mutex, lastUploaded>>
            /\ texture' = [texture EXCEPT !.picture = <<p[1], texture.picture[2]>>]
        BY <1>3, <2>2 DEF Copying
      <3>2. texture' \in Image /\ texture'.size = texture.size /\ texture'.picture[1] = p[1]
        BY <2>1, <3>1 DEF RenderInv, RenderTypes, Image, Picture
      <3>3. QED
        BY <1>1, <2>1, <2>2, <3>1, <3>2
           DEF RenderInv, RenderTypes, Holders, Pictures, Upload, ContextOutlivesTheThread, player
    <2>3. CASE loop = "copied"
      <3>1. /\ loop' = "messages" /\ mutex' = "free" /\ lastUploaded' = frameId
            /\ texture' = [texture EXCEPT !.picture[2] = p[2]]
            /\ backdrop' = IF glass THEN p ELSE NoPicture
        BY <1>3, <2>3 DEF Copying
      <3>2. texture' \in Image /\ Whole(texture'.picture)
        BY <2>1, <2>3, <3>1 DEF RenderInv, RenderTypes, Upload, Image, Picture, Whole
      <3>3. backdrop' \in Picture /\ Whole(backdrop')
        BY <2>1, <3>1, RenderAssumption DEF Picture, NoPicture, Whole
      <3>4. QED
        BY <1>1, <2>1, <2>3, <3>1, <3>2, <3>3
           DEF RenderInv, RenderTypes, Holders, Pictures, Upload, ContextOutlivesTheThread, player
    <2>4. QED
      BY <1>3, <2>2, <2>3 DEF Copying
  <1>4. QED
    BY <1>2, <1>3

\* Closing: the context is freed behind the join.
LEMMA ClosingKeeps == RenderInv /\ (Closes \/ Shutdown) => RenderInv'
  <1> SUFFICES ASSUME RenderInv, Closes \/ Shutdown
               PROVE  RenderInv'
    OBVIOUS
  <1>1. /\ UNCHANGED <<thread, target, buffers, frontIndex, requests, uploading,
                       frameCounter, mutex, window, decoded>>
        /\ loop \in {"messages", "closed", "joining"}
        /\ loop' \in {"closed", "joining", "exited"}
        /\ ctx' \in {ctx, "silent", "freed"} /\ (ctx' = "freed" /\ ctx # "freed" => thread = "done")
    BY DEF Closes, Shutdown, player
  <1>2. QED
    BY <1>1
       DEF RenderInv, RenderTypes, Holders, Pictures, Upload, ContextOutlivesTheThread,
           requests, uploading

LEMMA RenderStep == RenderInv /\ [RenderNext]_renderVars => RenderInv'
  <1>1. RenderInv /\ UNCHANGED renderVars => RenderInv'
    BY DEF renderVars, rendering, requests, player, uploading, RenderInv, RenderTypes, Holders,
           Pictures, Upload, ContextOutlivesTheThread
  <1>2. QED
    BY <1>1, PlayerKeeps, ThreadKeeps, DrawingKeeps, SwapKeeps, LoopKeeps, UploadKeeps,
       ClosingKeeps
       DEF RenderNext, RenderThread, FrameLoop

\* What the window shows is one frame, the buffer it is copied from is not
\* written to and not reallocated meanwhile, and the render thread is done when
\* mpv's context is freed (render_sw.cpp, update_video_texture, the shutdown).
THEOREM RenderingSafe == RenderSpec => []RenderingIsSafe
  <1>1. QED
    BY RenderStarts, RenderStep, RenderInvImplies, PTL DEF RenderSpec

----------------------------------------------------------------------------
(* Detached threads and their answers.                                     *)

\* The requests with nothing else running.
JobsSpec == JobsInit /\ [][JobsNext]_jobVars

Phases == {"Idle", "Searching", "Results", "Downloading", "Downloaded", "Error"}
Job == [gen : Nat, kind : {"search", "download"},
        step : {"request", "fetch", "write"}, keep : Nat]

JobTypes ==
    /\ phase \in Phases /\ drawing \in BOOLEAN
    /\ results \in Nat /\ downloadedPath \in Nat /\ osGeneration \in Nat
    /\ searched \in Nat
    /\ os \in [phase : Phases, results : Nat, path : Nat]
    /\ added \subseteq Nat \X Nat
    /\ IsFiniteSet(added)

\* The thread of a request is the only one, and knows what the panel waits for.
Serves(job) ==
    /\ job \in Job /\ job.gen = osGeneration
    /\ \/ job.kind = "search" /\ phase = "Searching"
          /\ results = 0 /\ searched = osGeneration
       \/ job.kind = "download" /\ phase = "Downloading" /\ results = job.keep

OneThread ==
    \/ jobs = {} /\ ~Busy(phase)
    \/ \E job \in Job : jobs = {job} /\ Serves(job)

SnapshotHolds ==
    drawing /\ ~Busy(os.phase) =>
        os = [phase |-> phase, results |-> results, path |-> downloadedPath]

\* Generations are numbers of files: those the player has are older than the
\* download that runs, and the one that waits for the panel is not among them.
FileIsNew ==
    /\ AddedOnce
    /\ phase = "Downloading" => \A a \in added : a[1] < osGeneration
    /\ phase = "Downloaded" => /\ downloadedPath <= osGeneration
                               /\ \A a \in added : a[1] # downloadedPath

\* The update check answers once, and the toast comes behind its answer.
ToastFollows ==
    /\ toasts \in {0, 1} /\ checking \in BOOLEAN /\ checkStarted \in BOOLEAN
    /\ checking => updateVersion = NoVersion /\ checkStarted
    /\ toasts = 1 => updateVersion # NoVersion
    /\ updateVersion # NoVersion => checkStarted

JobsInv ==
    JobTypes /\ OneThread /\ results \in {0, searched} /\ SnapshotHolds /\ FileIsNew
    /\ ToastFollows

----------------------------------------------------------------------------
LEMMA JobsInvImplies == JobsInv => AnswersMatchRequests
  <1> SUFFICES ASSUME JobsInv PROVE AnswersMatchRequests
    OBVIOUS
  <1>1. Cardinality({}) = 0 /\ \A job \in Job : Cardinality({job}) = 1
    BY FS_EmptySet, FS_Singleton
  <1>2. OneRequestAtATime /\ (phase = "Searching" => results = 0)
    BY <1>1 DEF JobsInv, OneThread, Serves, OneRequestAtATime, Busy
  <1>3. AddedOnce /\ ResultsAreOfTheLastSearch /\ UpdateAnnouncedOnce
    <2>1. AddedOnce
      BY DEF JobsInv, FileIsNew
    <2>2. ResultsAreOfTheLastSearch
      BY <1>2 DEF JobsInv, ResultsAreOfTheLastSearch
    <2>3. UpdateAnnouncedOnce
      BY DEF JobsInv, ToastFollows, UpdateAnnouncedOnce
    <2>4. QED
      BY <2>1, <2>2, <2>3
  <1>4. QED
    BY <1>2, <1>3 DEF AnswersMatchRequests

LEMMA JobsStart == JobsInit => JobsInv
  <1> SUFFICES ASSUME JobsInit PROVE JobsInv
    OBVIOUS
  <1>1. JobTypes /\ OneThread
    BY FS_EmptySet DEF JobsInit, JobTypes, Phases, OneThread, Busy
  <1>2. SnapshotHolds /\ FileIsNew
    BY DEF JobsInit, SnapshotHolds, FileIsNew, AddedOnce
  <1>3. ToastFollows
    <2>1. toasts = 0 /\ checking = FALSE /\ checkStarted = FALSE /\ updateVersion = NoVersion
      BY DEF JobsInit
    <2>2. toasts \in {0, 1} /\ toasts # 1
      BY <2>1
    <2>3. QED
      BY <2>1, <2>2, Zenon DEF ToastFollows
  <1>4. QED
    BY <1>1, <1>2, <1>3 DEF JobsInit, JobsInv

LEMMA SnapshotKeeps == JobsInv /\ Snapshot => JobsInv'
  BY DEF JobsInv, Snapshot, JobTypes, OneThread, Serves, SnapshotHolds, FileIsNew,
         AddedOnce, ToastFollows, Busy, updateVars

\* A thread is started only from a snapshot without one, and such a snapshot is
\* still true.
LEMMA LaunchKeeps ==
  ASSUME JobsInv, jobs = {}, ~drawing',
         NEW kind \in {"search", "download"}, NEW keep \in Nat,
         Launch(kind, "request", keep),
         \/ /\ kind = "search" /\ phase' = "Searching" /\ results' = 0
            /\ downloadedPath' = 0 /\ searched' = osGeneration'
         \/ /\ kind = "download" /\ phase' = "Downloading" /\ keep = results
            /\ UNCHANGED <<results, downloadedPath, searched>>,
         AddedOnce', added' \subseteq Nat \X Nat, IsFiniteSet(added'),
         \A a \in added' : a[1] <= osGeneration,
         drawing' \in BOOLEAN, os' = os, UNCHANGED updateVars
  PROVE  JobsInv'
  <1>0. [gen |-> osGeneration + 1, kind |-> kind, step |-> "request", keep |-> keep] \in Job
    BY DEF JobsInv, JobTypes, Job
  <1>1. PICK job \in Job :
           /\ job = [gen |-> osGeneration + 1, kind |-> kind, step |-> "request",
                     keep |-> keep]
           /\ jobs' = {job} /\ osGeneration' = osGeneration + 1 /\ osGeneration' \in Nat
    BY <1>0 DEF Launch, JobsInv, JobTypes
  <1>2. Serves(job)'
    BY <1>1 DEF Serves
  <1>3. JobTypes' /\ results' \in {0, searched'} /\ OneThread'
    BY <1>1, <1>2 DEF JobsInv, JobTypes, OneThread, Phases, Busy
  <1>4. SnapshotHolds' /\ FileIsNew'
    BY <1>1 DEF JobsInv, JobTypes, SnapshotHolds, FileIsNew
  <1>5. ToastFollows'
    BY DEF JobsInv, ToastFollows, updateVars
  <1>6. QED
    BY <1>3, <1>4, <1>5 DEF JobsInv

LEMMA DrawKeeps == JobsInv /\ DrawSection => JobsInv'
  <1> SUFFICES ASSUME JobsInv, DrawSection
               PROVE  JobsInv'
    OBVIOUS
  <1> DEFINE finished == os.phase = "Downloaded" /\ os.path # 0
  <1>1. /\ drawing /\ ~drawing' /\ drawing' \in BOOLEAN
        /\ UNCHANGED <<os, updateVars>>
        /\ added' = IF finished THEN added \cup {<<os.path, Cardinality(added)>>} ELSE added
    BY DEF DrawSection
  <1>2. finished => /\ phase = "Downloaded" /\ downloadedPath = os.path
                    /\ Cardinality(added) \in Nat
    BY <1>1, FS_CardinalityType DEF JobsInv, SnapshotHolds, JobTypes, Busy
  <1>3. /\ added' \subseteq Nat \X Nat /\ IsFiniteSet(added')
        /\ \A a \in added' : a[1] <= osGeneration
        /\ \A x, y \in added' : x[1] = y[1] => x = y
    <2>1. CASE finished
      <3>1. added' = added \cup {<<os.path, Cardinality(added)>>}
        BY <1>1, <2>1
      <3>2. IsFiniteSet(added')
        BY <3>1, FS_AddElement DEF JobsInv, JobTypes
      <3>3. <<os.path, Cardinality(added)>> \in Nat \X Nat
        BY <1>2, <2>1 DEF JobsInv, JobTypes
      <3>4. os.path <= osGeneration /\ \A a \in added : a[1] # os.path
        BY <1>2, <2>1 DEF JobsInv, FileIsNew
      <3>5. QED
        BY <3>1, <3>2, <3>3, <3>4 DEF JobsInv, JobTypes, FileIsNew, AddedOnce
    <2>2. CASE ~finished
      BY <1>1, <2>2 DEF JobsInv, JobTypes, FileIsNew, AddedOnce
    <2>3. QED
      BY <2>1, <2>2
  <1>4. osGeneration' = osGeneration \/ osGeneration' = osGeneration + 1
    BY DEF DrawSection, OsStartSearch, OsStartDownload, Launch
  <1>5. AddedOnce'
    BY <1>3, <1>4 DEF AddedOnce, JobsInv, JobTypes
  <1>6. CASE /\ IF finished THEN OsAcknowledgeDownload
                ELSE UNCHANGED <<phase, downloadedPath>>
             /\ UNCHANGED <<results, osGeneration, jobs, searched>>
    <2>1. CASE finished
      <3>1. phase' = "Results" /\ downloadedPath' = 0
        BY <1>2, <1>6, <2>1 DEF OsAcknowledgeDownload
      <3>2. OneThread' /\ phase = "Downloaded" /\ jobs = {}
        BY <1>2, <1>6, <2>1, <3>1 DEF JobsInv, OneThread, Busy, Serves
      <3>3. QED
        BY <1>1, <1>3, <1>5, <1>6, <3>1, <3>2
           DEF JobsInv, JobTypes, Phases, SnapshotHolds, FileIsNew, ToastFollows, updateVars
    <2>2. CASE ~finished
      <3>1. UNCHANGED <<phase, downloadedPath, added>>
        BY <1>1, <1>6, <2>2
      <3>2. QED
        BY <1>1, <1>5, <1>6, <3>1
           DEF JobsInv, JobTypes, OneThread, Serves, SnapshotHolds, FileIsNew, ToastFollows,
               updateVars
    <2>3. QED
      BY <2>1, <2>2
  <1>7. CASE ~Busy(os.phase) /\ OsStartSearch
    <2>1. jobs = {}
      BY <1>1, <1>7 DEF JobsInv, SnapshotHolds, OneThread, Serves, Busy
    <2>2. QED
      BY <1>1, <1>3, <1>5, <1>7, <2>1, LaunchKeeps DEF OsStartSearch
  <1>8. CASE os.phase = "Results" /\ os.results # 0 /\ OsStartDownload
    <2>1. jobs = {} /\ results \in Nat
      BY <1>1, <1>8 DEF JobsInv, JobTypes, SnapshotHolds, OneThread, Serves, Busy
    <2>2. QED
      BY <1>1, <1>3, <1>5, <1>8, <2>1, LaunchKeeps DEF OsStartDownload
  <1>9. QED
    BY <1>6, <1>7, <1>8 DEF DrawSection

\* The one thread answers, or goes a step on.
LEMMA StepKeeps == JobsInv /\ JobStep => JobsInv'
  <1> SUFFICES ASSUME JobsInv, JobStep
               PROVE  JobsInv'
    OBVIOUS
  <1>1. PICK job \in jobs : SearchAnswered(job) \/ DownloadStep(job)
    BY DEF JobStep
  <1>2. jobs = {job} /\ Serves(job)
    BY <1>1 DEF JobsInv, OneThread
  <1>3. UNCHANGED <<osGeneration, os, drawing, added, searched, updateVars>>
    BY DEF JobStep
  <1>4. Busy(phase) /\ (drawing => Busy(os.phase))
    BY <1>2 DEF JobsInv, Serves, SnapshotHolds, Busy
  <1>5. CASE SearchAnswered(job)
    <2>1. jobs' = {} /\ phase = "Searching" /\ results = 0 /\ searched = osGeneration
      BY <1>2, <1>5 DEF SearchAnswered, Ends, Serves
    <2>2. /\ phase' \in {"Error", "Results"} /\ downloadedPath' = 0
          /\ results' \in {0, searched}
      BY <1>2, <1>5, <2>1 DEF SearchAnswered, SetState, Serves
    <2>3. QED
      BY <1>3, <1>4, <2>1, <2>2
         DEF JobsInv, JobTypes, Phases, OneThread, SnapshotHolds, FileIsNew, AddedOnce,
             ToastFollows, Busy, updateVars
  <1>6. CASE DownloadFails(job) \/ (DownloadAdvances(job) /\ job.step = "write")
    <2>1. jobs' = {} /\ phase = "Downloading" /\ results = job.keep
          /\ job.gen = osGeneration
      BY <1>2, <1>6 DEF DownloadFails, DownloadAdvances, Ends, Serves
    <2>2. /\ results' = results
          /\ \/ phase' = "Error" /\ downloadedPath' = 0
             \/ phase' = "Downloaded" /\ downloadedPath' = osGeneration
      BY <1>6, <2>1 DEF DownloadFails, DownloadAdvances, SetState
    <2>3. QED
      BY <1>3, <1>4, <2>1, <2>2
         DEF JobsInv, JobTypes, Phases, OneThread, SnapshotHolds, FileIsNew, AddedOnce,
             ToastFollows, Busy, updateVars
  <1>7. CASE DownloadAdvances(job) /\ job.step # "write"
    <2> DEFINE next == [job EXCEPT !.step = IF @ = "request" THEN "fetch" ELSE "write"]
    <2>1. jobs' = {next} /\ UNCHANGED <<phase, results, downloadedPath>>
      BY <1>2, <1>7 DEF DownloadAdvances
    <2>2. next \in Job /\ next.gen = job.gen /\ next.kind = job.kind /\ next.keep = job.keep
      BY <1>2 DEF Serves, Job
    <2>3. Serves(next)'
      BY <1>2, <1>3, <2>1, <2>2 DEF Serves
    <2>4. QED
      BY <1>3, <1>4, <2>1, <2>2, <2>3
         DEF JobsInv, JobTypes, OneThread, SnapshotHolds, FileIsNew, AddedOnce, ToastFollows,
             Busy, updateVars
  <1>8. QED
    BY <1>1, <1>5, <1>6, <1>7 DEF DownloadStep, DownloadFails, DownloadAdvances

LEMMA UpdateKeeps == JobsInv /\ (StartUpdateCheck \/ CheckAnswered \/ UpdateToast) => JobsInv'
  <1> SUFFICES ASSUME JobsInv, StartUpdateCheck \/ CheckAnswered \/ UpdateToast
               PROVE  JobsInv'
    OBVIOUS
  <1>1. UNCHANGED subtitleVars
    BY DEF StartUpdateCheck, CheckAnswered, UpdateToast
  <1>2. ToastFollows'
    <2>1. CASE StartUpdateCheck
      BY <2>1 DEF JobsInv, ToastFollows, StartUpdateCheck
    <2>2. CASE CheckAnswered
      BY <2>2 DEF JobsInv, ToastFollows, CheckAnswered
    <2>3. CASE UpdateToast
      BY <2>3 DEF JobsInv, ToastFollows, UpdateToast
    <2>4. QED
      BY <2>1, <2>2, <2>3
  <1>3. QED
    BY <1>1, <1>2
       DEF JobsInv, JobTypes, OneThread, Serves, SnapshotHolds, FileIsNew, AddedOnce,
           Busy, subtitleVars

LEMMA JobsKeep == JobsInv /\ [JobsNext]_jobVars => JobsInv'
  <1>1. JobsInv /\ UNCHANGED jobVars => JobsInv'
    BY DEF jobVars, subtitleVars, updateVars, JobsInv, JobTypes, OneThread, Serves,
           SnapshotHolds, FileIsNew, AddedOnce, ToastFollows, Busy
  <1>2. QED
    BY <1>1, SnapshotKeeps, DrawKeeps, StepKeeps, UpdateKeeps DEF JobsNext

\* A downloaded subtitle is added once, the list offered is of the last search,
\* one request at a time is under way although the panel draws from a snapshot,
\* and an update is announced once (media/opensubtitles.cpp, ui/panels.cpp).
THEOREM AnswersMatch == JobsSpec => []AnswersMatchRequests
  <1>1. QED
    BY JobsStart, JobsKeep, JobsInvImplies, PTL DEF JobsSpec
=============================================================================
