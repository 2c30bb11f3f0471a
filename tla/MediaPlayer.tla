---------------------------- MODULE MediaPlayer -----------------------------
(***************************************************************************)
(* What is open in the player, and who is told of it (main.cpp, the        *)
(* playlist of ui/panels.cpp).  Files are opened by a dialog, a link, a    *)
(* drop, another instance or the playlist; mpv opens them on a thread of   *)
(* its own and reports by events.  The frame loop drains the events, reads *)
(* the properties one by one, saves the position, announces the file to    *)
(* the session, and then lets the user act.                                *)
(*                                                                         *)
(* mpv is external: a command changes its playlist at once and makes it    *)
(* leave what it has open; the rest it does in steps of its own.           *)
(***************************************************************************)
EXTENDS Integers, Sequences, SequencesExt, FiniteSets

CONSTANTS Media,          \* files and links the user opens
          Streams,        \* those that are links
          Unplayable,     \* those mpv always fails to open
          Missing,        \* files that are gone from the disk
          NoMedia,
          Duration,       \* Duration[f]: in seconds, 0 for a live stream
          MaxQueue,       \* bound: length of the playlist
          MaxRecent,      \* 8: length of the "Continue watching" list
          MaxOpens        \* bound: commands of the user

ASSUME MediaAssumption ==
    /\ Streams \subseteq Media /\ Unplayable \subseteq Media
    /\ Missing \subseteq Unplayable /\ NoMedia \notin Media
    /\ Duration \in [Media -> Nat]
    /\ MaxQueue \in Nat \ {0, 1} /\ MaxRecent \in Nat \ {0} /\ MaxOpens \in Nat

VARIABLES
    playlist, at,    \* mpv's playlist and the entry it is at, 0 for none
    core,            \* "idle", "opening" or "open"
    path,            \* what it is opening or has open
    switch,          \* it has been told to leave that for playlist[at]
    mpvEvents,       \* events not waited for yet
    stage,           \* where the frame loop is
    seen,            \* playlistCount, playlistPos, duration, position as last read
    localFile,       \* localFile of wWinMain
    streamOpening,
    recentMedia,     \* app.recentMedia: [path, position]
    told,            \* m_localFile of the session: [file, duration]
    opens            \* bookkeeping: commands given

mpvVars == <<playlist, at, core, path, switch, mpvEvents>>
fileVars == <<localFile, streamOpening, recentMedia, told>>
mediaVars == <<mpvVars, fileVars, stage, seen, opens>>

NoLocalFile == [path |-> NoMedia, valid |-> FALSE, sent |-> FALSE, duration |-> 0]

MediaInit ==
    /\ playlist = <<>> /\ at = 0 /\ core = "idle" /\ path = NoMedia
    /\ switch = FALSE /\ mpvEvents = <<>>
    /\ stage = "argv"
    /\ seen = [count |-> 0, at |-> 0, duration |-> 0, position |-> NoMedia]
    /\ localFile = NoLocalFile /\ streamOpening = FALSE /\ recentMedia = <<>>
    /\ told = [file |-> NoMedia, duration |-> 0] /\ opens = 0

----------------------------------------------------------------------------
(* mpv (external).                                                         *)

\* What mpv does next when it has nothing open any more.
Opens(list, k) ==
    IF k = 0 THEN core' = "idle" /\ path' = NoMedia
    ELSE core' = "opening" /\ path' = list[k]

\* Commands: loadfile, playlist-play-index, stop, and those that leave the
\* current entry alone.
Plays(list, k) ==
    /\ playlist' = list /\ at' = k /\ UNCHANGED mpvEvents
    /\ IF core = "idle" THEN Opens(list, k) /\ UNCHANGED switch
       ELSE switch' = TRUE /\ UNCHANGED <<core, path>>
Queues(list, k) == /\ playlist' = list /\ at' = k
                   /\ UNCHANGED <<core, path, switch, mpvEvents>>

DurationNow == IF core = "open" THEN Duration[path] ELSE 0

MpvLeaves ==
    /\ switch /\ switch' = FALSE
    /\ Opens(playlist, at)
    /\ mpvEvents' = Append(mpvEvents, "end")
    /\ UNCHANGED <<playlist, at>>

MpvLoads ==
    /\ core = "opening" /\ ~switch /\ path \notin Unplayable
    /\ core' = "open" /\ mpvEvents' = Append(mpvEvents, "loaded")
    /\ UNCHANGED <<playlist, at, path, switch>>

\* The end of an entry, by an error or by itself, leads to the next; the last
\* one is kept open (keep-open=yes), unless it failed.
MpvEnds ==
    /\ ~switch
    /\ \/ /\ core = "opening" /\ path \in Unplayable \cup Streams
          /\ mpvEvents' = Append(mpvEvents, "failed")
       \/ /\ core = "open" /\ at < Len(playlist)
          /\ mpvEvents' = Append(mpvEvents, "end")
    /\ at' = IF at < Len(playlist) THEN at + 1 ELSE 0
    /\ Opens(playlist, at')
    /\ UNCHANGED <<playlist, switch>>

MpvStep == /\ Len(mpvEvents) < 2
           /\ MpvLeaves \/ MpvLoads \/ MpvEnds
           /\ UNCHANGED <<fileVars, stage, seen, opens>>

----------------------------------------------------------------------------
(* Opening.                                                                *)

\* setLocalFileWide: a link is its own identity, a file must exist.
LocalFile(f) ==
    IF f \in Missing THEN NoLocalFile
    ELSE [path |-> f, valid |-> TRUE, sent |-> FALSE, duration |-> 0]

Command == /\ stage = "user" /\ opens < MaxOpens /\ opens' = opens + 1
           /\ UNCHANGED <<stage, seen, recentMedia, told>>

\* The command line.  Windows hands a first file to the first instance.
OpenArgument ==
    /\ stage = "argv" /\ stage' = "user"
    /\ \/ \E f \in Media \ Streams : Plays(<<f>>, 1) /\ localFile' = LocalFile(f)
       \/ UNCHANGED <<mpvVars, localFile>>
    /\ UNCHANGED <<streamOpening, recentMedia, told, seen, opens>>

\* playLocalFile, openVideo, and a card of the idle screen.
PlayLocalFile(f) ==
    Command /\ Plays(<<f>>, 1) /\ localFile' = LocalFile(f) /\ UNCHANGED streamOpening

OpenNetworkUrl(f) ==
    /\ Command /\ f \in Streams
    /\ Plays(<<f>>, 1) /\ localFile' = LocalFile(f) /\ streamOpening' = TRUE

\* WM_DROPFILES, taken up by the next frame: the first plays, the rest queue up.
DropFiles(fs) ==
    Command /\ Plays(fs, 1) /\ localFile' = LocalFile(Head(fs)) /\ UNCHANGED streamOpening

\* WM_COPYDATA from other instances.  Whether something is loaded is judged by
\* the count the previous frame read.
ForwardedFiles(fs) ==
    /\ Command
    /\ IF seen.count > 0
       THEN /\ Queues(playlist \o fs, at) /\ UNCHANGED localFile
            /\ Len(playlist \o fs) <= MaxQueue
       ELSE Plays(fs, 1) /\ localFile' = LocalFile(Head(fs))
    /\ UNCHANGED streamOpening

\* Prev and Next, of the bar, the taskbar and the keyboard.
PlaylistGoes(d) ==
    /\ Command /\ d \in {-1, 1}
    /\ seen.count > 0 /\ seen.at + d \in 1 .. seen.count
    /\ IF at + d \in 1 .. Len(playlist) THEN Plays(playlist, at + d) ELSE UNCHANGED mpvVars
    /\ UNCHANGED <<localFile, streamOpening>>

StopPlayback ==
    /\ Command /\ (seen.count > 0 \/ seen.duration > 0) /\ Plays(<<>>, 0)
    /\ UNCHANGED <<localFile, streamOpening>>

----------------------------------------------------------------------------
(* The playlist panel: every frame draws the playlist as it is, and a click *)
(* on a row is a command with the row's index.                              *)

\* Add: the first file plays if the list is empty.
PlaylistAdd(f) ==
    /\ Command
    /\ IF playlist = <<>> THEN Plays(<<f>>, 1) /\ localFile' = LocalFile(f)
       ELSE /\ Len(playlist) < MaxQueue /\ Queues(Append(playlist, f), at)
            /\ UNCHANGED localFile
    /\ UNCHANGED streamOpening

\* playlist-clear keeps the current entry.
PlaylistClear ==
    /\ Command /\ playlist # <<>>
    /\ Queues(IF at = 0 THEN <<>> ELSE <<playlist[at]>>, IF at = 0 THEN 0 ELSE 1)
    /\ UNCHANGED <<localFile, streamOpening>>

PlaylistPlay(row) ==
    /\ Command /\ row \in DOMAIN playlist
    /\ Plays(playlist, row)
    /\ UNCHANGED <<localFile, streamOpening>>

\* playlist-remove of the current entry plays the one that takes its place.
PlaylistRemove(row) ==
    /\ Command /\ row \in DOMAIN playlist
    /\ LET rest == RemoveAt(playlist, row)
       IN  IF row = at THEN Plays(rest, IF at > Len(rest) THEN 0 ELSE at)
           ELSE Queues(rest, IF row < at THEN at - 1 ELSE at)
    /\ UNCHANGED <<localFile, streamOpening>>

\* mpv's playlist-move a b: entry a is put before entry b.
Moved(list, a, b) ==
    LET to == IF a < b THEN b - 1 ELSE b
    IN  InsertAt(RemoveAt(list, a), to, list[a])

\* A slip to check against: the index is not corrected for the removed row.
MoveTargetAsDropped(from, to) == to

\* A row dragged down is put before the row after the one it is dropped on.
MoveTarget(from, to) == IF from < to THEN to + 1 ELSE to

PlaylistMove(from, to) ==
    /\ Command /\ from \in DOMAIN playlist /\ to \in DOMAIN playlist \ {from}
    /\ LET order == Moved([k \in DOMAIN playlist |-> k], from, MoveTarget(from, to))
       IN  Queues([k \in DOMAIN order |-> playlist[order[k]]],
                  IF at = 0 THEN 0 ELSE CHOOSE k \in DOMAIN order : order[k] = at)
    /\ UNCHANGED <<localFile, streamOpening>>

----------------------------------------------------------------------------
(* One frame.                                                              *)

\* updateRecentMedia: to the front, once, and no more than MaxRecent.
UpdateRecentMedia(list, f, position) ==
    LET others == RemoveFirstMatch(list, LAMBDA r : r.path = f)
        longer == <<[path |-> f, position |-> position]>> \o others
    IN  IF Len(longer) > MaxRecent THEN SubSeq(longer, 1, MaxRecent) ELSE longer

EndOfFile == streamOpening' = FALSE /\ UNCHANGED <<localFile, recentMedia>>

\* A slip to check against: the file that was opened is taken for the one playing.
UpdateLocalFileFromMpvNot == localFile

\* updateLocalFileFromMpv, with the path as it is now.
UpdateLocalFileFromMpv ==
    IF path \in {NoMedia, localFile.path} THEN localFile ELSE LocalFile(path)

FileLoaded ==
    /\ streamOpening' = FALSE
    /\ localFile' = UpdateLocalFileFromMpv
    /\ recentMedia' = IF path = NoMedia THEN recentMedia
                      ELSE UpdateRecentMedia(recentMedia, path,
                                             IF core = "open" THEN path ELSE NoMedia)

\* The loop on mpv_wait_event, event by event: mpv goes on meanwhile.
HandleEvent ==
    /\ stage \in {"user", "events"} /\ mpvEvents # <<>> /\ stage' = "events"
    /\ mpvEvents' = Tail(mpvEvents)
    /\ IF Head(mpvEvents) = "loaded" THEN FileLoaded ELSE EndOfFile
    /\ UNCHANGED <<playlist, at, core, path, switch, seen, told, opens>>

EventsHandled ==
    /\ stage \in {"user", "events"} /\ mpvEvents = <<>> /\ stage' = "read"
    /\ UNCHANGED <<mpvVars, fileVars, seen, opens>>

ReadPosition ==
    /\ stage = "read" /\ stage' = "save"
    /\ seen' = [seen EXCEPT !.duration = DurationNow,
                            !.position = IF core = "open" THEN path ELSE NoMedia]
    /\ UNCHANGED <<mpvVars, fileVars, opens>>

\* Every five seconds of playback: the position as read before, the path as it
\* is now.  Then the playlist is read.
SavePosition ==
    /\ stage = "save" /\ stage' = "announce"
    /\ \/ UNCHANGED recentMedia
       \/ /\ seen.duration > 0 /\ seen.position # NoMedia /\ path # NoMedia
          /\ recentMedia' = UpdateRecentMedia(recentMedia, path, seen.position)
    /\ seen' = [seen EXCEPT !.count = Len(playlist), !.at = at, !.position = NoMedia]
    /\ UNCHANGED <<mpvVars, localFile, streamOpening, told, opens>>

\* A duration of a live stream, 0, is announced in every frame.
DurationChanged == localFile.duration <= 0 \/ seen.duration # localFile.duration

\* setLocalFileInfo of the session, at the first sight of a file and whenever
\* mpv has another duration.
Announce ==
    /\ stage = "announce" /\ stage' = "user"
    /\ IF localFile.valid /\ (~localFile.sent \/ DurationChanged)
       THEN /\ localFile' = [localFile EXCEPT !.sent = TRUE, !.duration = seen.duration]
            /\ told' = [file |-> localFile.path, duration |-> seen.duration]
       ELSE UNCHANGED <<localFile, told>>
    /\ UNCHANGED <<mpvVars, streamOpening, recentMedia, seen, opens>>

Frame == HandleEvent \/ EventsHandled \/ ReadPosition \/ SavePosition \/ Announce

\* What is selected in Explorer.
Batches == {fs \in UNION {[1 .. n -> Media \ Streams] : n \in 1 .. 2} : IsInjective(fs)}

MediaNext ==
    \/ MpvStep \/ Frame \/ OpenArgument
    \/ \E fs \in Batches : ForwardedFiles(fs) \/ DropFiles(fs)
    \/ \E f \in Media : PlayLocalFile(f) \/ OpenNetworkUrl(f) \/ PlaylistAdd(f)
    \/ \E d \in {-1, 1} : PlaylistGoes(d)
    \/ StopPlayback \/ PlaylistClear
    \/ \E row \in 1 .. MaxQueue : PlaylistPlay(row) \/ PlaylistRemove(row)
    \/ \E from, to \in 1 .. MaxQueue : PlaylistMove(from, to)

\* The loop goes round for ever and mpv gets on with what it was told; nobody
\* has to open a file, and no film has to end.
MediaFairness ==
    /\ WF_mediaVars(Frame)
    /\ WF_mediaVars(MpvStep /\ ~(core = "open" /\ ~switch))

----------------------------------------------------------------------------
(* Properties.                                                             *)

\* Every entry the frame loop and mpv point to is one of the playlist, and the
\* "Continue watching" list is short and names no file twice.
MediaTypeOK ==
    /\ playlist \in Seq(Media) /\ Len(playlist) <= MaxQueue
    /\ at \in 0 .. Len(playlist)
    /\ core \in {"idle", "opening", "open"} /\ (core = "idle" <=> path = NoMedia)
    /\ localFile.path \in Media \cup {NoMedia}
    /\ Len(recentMedia) <= MaxRecent
    /\ \A i, j \in DOMAIN recentMedia :
          i # j => recentMedia[i].path # recentMedia[j].path

\* The peers verify against what really plays: whichever way a file came to be
\* played, by a command, by the playlist or after another one failed, the
\* session is told of it, with its own duration, in the end.
PeersLearnWhatPlays ==
    <>[](core = "open" /\ ~switch =>
           told = [file |-> path, duration |-> Duration[path]])

\* "Connecting stream" is not shown for ever: it stands for a file mpv still has
\* to open or an event it still has to report.
IndicatorHasAReason ==
    streamOpening => switch \/ core = "opening" \/ mpvEvents # <<>>

\* Together: the frame loop follows mpv, although it learns of every change a frame
\* late and by events about files that may be gone.
MpvIsFollowed == [](MediaTypeOK /\ IndicatorHasAReason) /\ PeersLearnWhatPlays

\* A row dragged in the playlist is then where it was dropped, every other row
\* keeps its order, and the current entry stays current.
RowLandsWhereDropped ==
    [][\A from, to \in 1 .. MaxQueue : PlaylistMove(from, to) =>
          /\ playlist'[to] = playlist[from]
          /\ RemoveAt(playlist', to) = RemoveAt(playlist, from)
          /\ at # 0 => playlist'[at'] = playlist[at]]_mediaVars

\* "first file plays when nothing is loaded, everything else queues up"
\* (main.cpp:2067-2068): files forwarded by other instances are put behind what
\* is being opened or plays.
ForwardedFilesQueueUp ==
    [][core # "idle" /\ (\E fs \in Batches : ForwardedFiles(fs)) =>
          IsPrefix(playlist, playlist')]_mediaVars
=============================================================================
