# SyncPlay: formal models

SyncPlay plays a film on several machines in step. One instance *hosts* a watch
party: it embeds a small relay server and is the authority on the playback state;
the others join as *guests* with a code, follow the host's state, and ask the host
for changes. This directory holds TLA+ models of that system, the TLC
configurations that check them on small instances, and theorems about them checked
by TLAPS. `PROJECT.json` lists the runs, the source lines each definition stands
for, the hazards and the findings.

## Inventory

| Component | State | Operations | Interacts with |
|---|---|---|---|
| Relay server (`network/signaling_server.*`) | `m_sessions` (code or alias -> room), the room's host and guests, `m_peers`, queued callbacks | start, stop, createSession, addAlias, and per callback: connected, disconnected, join, ping, forward | WebSockets to all clients; created and pumped by the sync session of the host |
| Signaling client (`network/signaling_client.*`, `core/task_queue.h`) | socket, `m_generation`, joined, pending join, session, auto-rejoin, backoff, `m_pendingOutgoing`, queued callbacks | connectToServer, joinSession, disconnect, pumpEvents, maintainReconnect, queueOrSend | callbacks into the sync session |
| Sync session (`sync/sync_session.*`) | role, roster, `m_localStateSeq`, `m_lastRemoteSeq`, local and remote file, shared link, shares, voice | startHostSession, joinSession, disconnectSession, tick, notifyLocalAction, requests, the handlers of every relayed message | client, server, drift correction, player, voice, chat |
| Drift correction (`sync/sync_manager.*`) | rate nudge, cooldown, bands | captureState, applyState | player |
| File share (in `sync_session.cpp`) | outgoing queue, incoming `.part` files, progress | sendSharedFile, onShareSendTick, onShareMeta / Chunk / Done | client, disk, chat |
| Voice call (`network/relay_voice.*`, voice messages of `sync_session.cpp`) | capture and playback queues under mutexes, active and muted flags | start, stop, tick, setInputMuted, pushIncomingFrame, audioCallback, start / stop requests of the other end | audio thread, client |
| Playback (`src/main.cpp`, `core/playback_*.h`, the playlist of `ui/panels.cpp`) | open file, mpv's playlist as last read, resume positions, recent files, pending loads | open file, link or argument, drop, forward, playlist edits, next / previous, stop, autosave of the position | session, libmpv |
| Panels, prompts, chat, settings (`src/main.cpp`, `ui/*.cpp`) | which panel is open, forms, link prompts, chat lines and transfers, preferences, `dirty` | clicks, the callbacks of the session, save and load of `config.json` | session, player, disk |
| Window (`platform/platform.cpp`, `WinMain` of `main.cpp`) | size, full screen, fade, pending resize, thumbnail buttons, forwarded and dropped paths | window messages, WM_COPYDATA between processes, keys | frame loop, shell |
| Software renderer (`render/`) | two frame buffers, size, flags under a mutex, condition variable | render thread, update callback, resize, upload, blurred copy, shutdown | libmpv, UI thread |
| Subtitle search (`media/opensubtitles.*`), update check (`core/update_check.*`) | shared result under a mutex, generation | start a worker, poll its answer | WinHTTP |
| mpv helpers, core helpers, packaging, vendored code | none of their own | encoding, logging, wrappers | - |

**How they interact.** Every callback of the WebSocket library is pushed onto a
`TaskQueue` and run on the UI thread, in the server (`m_events` of
`SignalingServer`) and in the client (`m_events` of `SignalingClient`). One
iteration of the frame loop pumps both, looks at the reconnect timer, and runs the
heartbeat of `SyncSession::tick`. So inside one instance there is a single writer
and nothing is preempted; what interleaves is the instances, the network between
them, and the order in which callbacks were queued relative to what happened since.
Beside that thread run the audio callback of a call, the render thread, mpv's own
threads, and one detached thread per subtitle request or update check; and what the
UI thread knows of mpv, of the window and of other processes is what it read in the
frame before.

**What is hard.** A connection can end at any moment and take frames with it, in
each direction a different number; the two ends learn of it at different times; the
client comes back on a new connection while callbacks of the old one are still
queued, and the server may see the new connection before the end of the old one.
State frames are numbered and old ones are dropped by the guest. A paused host says
nothing more, so whatever was lost stays lost until something re-sends it. And
several pushes are triggered by a *change* of the guest count, so a change that goes
unnoticed is a push that never comes. In the threads the locks are fine-grained and
the flags beside them are atomics, so a notification can come between a look and a
sleep, and a frame can be half way when a call stops. In the window, what is on
screen was true one frame ago when the click on it is handled.

**What makes the components correct.** Server: every seat is held by a connection
that is known under that seat, seats are given up, everybody learns the seats,
frames stay in their room and respect the roles. Client: a lost connection is made
again and joins again; nothing of the old connection disturbs the new one for good
(one case aside, see "Runs" on `RosterSettles`).
Session: the guests end up playing what the host plays, verify against what it has
open, and take its next state, whatever was lost. Threads: nothing is torn or of an
earlier call, stopping returns, the newest picture is shown. Window: what is shown is
current, what was asked for happens once, what was changed is kept.

## Modules

| Module | What it is |
|---|---|
| `WebSockets` | the transport (libdatachannel, not in the repository): ordered streams that break, losing a suffix each, and tell both ends once |
| `SignalingServer` | the relay server: one action per queued callback, and start, stop, createSession and addAlias |
| `RelayService` | the server with clients that only connect, send, receive and vanish: several rooms, password aliases, takeover of the host's seat, restart |
| `SessionSync` | the watch party: `SyncSession` and `SignalingClient` of the host and of every guest, over `SignalingServer` |
| `HostLog` | what the watch party promises, abstractly: a log its host writes and every guest reads forward |
| `FileShare` | files sent through the relay: the sender's queue and ticks, the receiver's temporary files, over `SignalingServer` |
| `VoiceCall` | who calls whom: start and stop requests of both ends, over `SignalingServer` |
| `RelayVoice` | the sound device of a call: the UI thread and the audio thread with the locks they take |
| `RenderLoop` | the render thread, mpv's update callback and the UI thread around `SwRenderState` |
| `BackgroundJobs` | subtitle search and download, update check: detached threads and the panel that polls them |
| `DriftCorrection` | `SyncManager::applyState` between a playing host and a guest, in fixed point |
| `MediaPlayer` | what is open, mpv's asynchronous loads and events, the playlist, recents, what the session is told |
| `ChatTimeline` | the status line, the file verdict, the chat with its chips and transfers |
| `MainWindow` | panels, forms of the session and the call, link prompts |
| `Settings` | preferences in memory, in mpv and on disk, with crashes in between; volume and mute |
| `WindowFrame` | full screen and its fade, resizing, swap-chain buffers, taskbar buttons |
| `WindowMessages` | files forwarded by other processes and dropped files |
| `SessionSyncProofs`, `InStepProofs`, `RelayServiceProofs`, `FileShareProofs`, `VoiceProofs`, `ThreadProofs`, `WindowProofs`, `PlayerProofs` | theorems |
| `MCRelayService`, `MCSessionSync`, `MCSyncSettles`, `MCFileShare`, `MCThreads`, `MCWindow`, `MCMediaPlayer` | instances for TLC |

`SignalingServer` extends `WebSockets`; `RelayService`, `SessionSync`, `FileShare` and
`VoiceCall` extend `SignalingServer`, each closing it with a different environment: the
first asks what the server does for any client, the second what the two ends of a
watch party do together, the third what becomes of the files they send each other, the
fourth whether both ends agree that there is a call. `SessionSync` instantiates
`HostLog` with a refinement mapping. The other modules stand on their own: each takes
from the rest of the program only what its component reads of it.

### Correspondence with the code

*Transport.* `up[s]` and `down[s]` hold what each end of connection `s` still has to
handle: the callbacks already in its `TaskQueue` and, behind them, what is in
flight. The two queues of one direction are handled in one order, so they are one
sequence. `wire[s]` is `WebSocket::isOpen` at both ends at the same instant, as if
the two ends learnt of a break together; only the *callbacks* about it are delayed.
`onError` and `onClosed` of one failure are one callback.

*Server.* `peers`, `sessionOf`, `host` and `guests` are `m_peers`, `m_sessions` and
the two members of `Session`. A `Session` object is named by the code that created
it; all its codes are erased together, so the name is free exactly when the object
is gone. The `mode` of a room is always `"relay"` and is left out.

*Client.* The fields of `SignalingClient` by their names; the strings
`m_sessionCode`, `m_role` and the pending join are the flags `inSession` and
`pendingJoin`, as one client is in one session here. The generation test of
`connectToServer` is made when a callback is *queued*, so callbacks of a connection
that was given up split in two: those already queued (`stale[p]`) still run, before
anything of the new connection, and the others are dropped. `ConnectAndJoin` picks
the split. `open()` returns before the handshake is over, but the handshake may be
over when `joinSession` looks at `isConnected()`: that is `early`.

*Session.* `hostOnline` and `guestCount` are the roster, `localStateSeq`,
`lastRemoteSeq`, `remote`, `localSource`, `remoteSource` and `shareUrl` the fields of
similar names. `m_fileVerified` is a function of the local and the remote file and
has no variable. `player[p]` is what libmpv plays: a playing flag and the point last
sought; the film's own progress, the speed and the latency compensation are left
out, and `applyState` is modelled by where it leads, so `InStep` compares what was
commanded, not milliseconds. A property that was set in libmpv is taken to read back
as set.

*Callbacks.* Each handler is one action and contains every call it makes:
`onConnected` runs the state-change callback of the session, *then* sends the join
and flushes the outgoing buffer; `onRelayPeerUpdate` pushes the file info, the link
and the state, in that order; `onRelayIntent` applies the command and broadcasts.

*File share.* `outgoingQueue`, `outgoingShares`, `incomingShares` and
`shareSendActive` are the fields of `SyncSession`; `shown` and `savedAs` are the
status and the path of the transfer's line in the chat, which the progress callback
of `main.cpp` keeps. A file is the sequence of its units, so a hash is the sequence
it was computed of, and what a receiver's file holds can be compared with what was
announced. `downloads` is the Downloads directory: one name space, in which the
paths as sent, the numbered ones of `resolveSharePath` (`Candidate`), the `.part` files
and the files that were there before (`Existing`) may be the same, so "film (1).mkv" is
both the second path of "film.mkv" and a name to send. `SharePath` takes the first number
up to `MaxNumber` (999) that has no file, and the made-up name (`Generated`) if none is
left; that `generateId` makes up a name nobody else uses is the one assumption about
names (`PathsAssumption`). `SendNext` has the outcomes of `onShareSendTick`: the end was reached
before, nothing can be read or too much was, the last chunk, a chunk and back to the
end of the queue. Its tests of conditions the code never meets (a queued share that
is not in the map, a closed file) are left out. The disk is that of
Windows, for which alone the program is built: a temporary file that another transfer
has open can be written and emptied, but neither removed nor renamed. The file on the
sender's disk may grow or shrink (`ChangeFile`). With `DiskMayFail` an open, a write, the
flush at the end or a rename at the receiver may fail. A write the stream accepted counts
as written; `onShareDoneReceived` does not look at whether `close()` could flush the rest
(`sync_session.cpp:831`), so the file that takes the final name may be any beginning of
what was received: then `cutShort` remembers it. The party is complete at the
start, and the client is cut down to losing its connection and coming back; `socket`
and `joined` mean what they mean in `SessionSync`.

*Calls.* In `VoiceCall` a client is its connections, each with one join, and
`view[p]`, the last `peer_update` it handled, which outlives a connection as
`m_relayGuestCount` does. `enabled` is `m_voiceEnabled`, and the device is on, off or
failed. `crossed` records that a request was sent while one of the other end was on its
way: a stop is not told apart from the call it was meant for, so one that crosses a start
ends the call its receiver has begun since and leaves the starter in a call alone.
`CallsAgree` speaks of the runs in which no requests crossed, no device failed and no
connection broke; every other order of joins, presses and deliveries is in it. In `RelayVoice` the three calls that span several locks are split where the
audio thread can come in between (`StartDevice`, `StartClears`, `StartActivates`;
`StopDevice`, `DeviceUninit`, `StopClears`), and so is `audioCallback`, which reads
`m_active` and `m_inputMuted` without a lock and takes the two queue mutexes one after
the other. A frame is a sequence of numbered units, so what is played can be compared
with what arrived.

*Renderer.* One step is what a thread does between two points at which another can
come in: the mutex, the condition variable, the atomics outside the mutex and the
calls of mpv. A picture is drawn and copied in two halves, so a picture made of two
frames is visible in the state. mpv's callback is cleared before the thread is joined
and the context freed after it, as in `main.cpp`.

*Background requests.* `phase`, `results`, `downloadedPath` and `osGeneration` are
`g_osState` and `g_osGeneration`; a job is the record its thread captured. The panel
takes a snapshot under the mutex and draws from it afterwards (`Snapshot`,
`DrawSection`), so a button can be pressed on a state that has passed.

*Player.* mpv's commands change its playlist at once and leave what is open; opening,
failing and ending are steps of its own that leave events. `Frame` is the loop of
`main.cpp` in its order: handle the events one by one, while mpv goes on, read the
properties, save the position, announce the file; what the user does comes after. `localFile` is what the frame loop
has read, `told` what the session was told. Seconds are small numbers; a live stream
has duration 0.

*Chat.* `session` has the members of `SyncSession` that a status or a verdict is made
of; the callbacks compare with `previous` and append chips as the lambdas of
`main.cpp` do, and the chat forgets its oldest lines beyond `MaxLines`.

*Panels and prompts.* A frame is a tick of the session, which may bring a link, then at
most one thing the user does to what was drawn in the frame before. The forms' fields
that the session has a copy of are in `shown` and `given`.

*Settings.* Every setting is of one of three kinds, by what its widget does: hands it
to mpv as well, only sets `dirty`, or forgets to set `dirty`. `save_config` opens the
file, which empties it, makes the text, writes it; a crash or a text that is no UTF-8 in
between leaves it empty, and an empty file loads as the defaults. A file that cannot be
opened stays as it was, a write that fails leaves a cut text, and neither is noticed
(`app_state.cpp:238-241`): `main.cpp:4615` clears `dirty` all the same. So `SaveBegins` and
`Write` have a failing disjunct each, and `failed` remembers that the last save failed.

*Window.* Messages are dispatched, then a frame is drawn; while a border is dragged
Windows runs its own loop and no frame is. `fsFade` counts in steps. A process that
finds another window hands its file over with a timeout; the message stays queued
when the sender has given up, and is handled all the same.

*Drift.* Only the distance of the two positions matters: `behind`, in milliseconds,
with rates in hundredths of a percent. A `HostTick` is one heartbeat interval in which
both clocks run and the guest applies a state whose latency compensation is off by
`error`. The 300 ms of correction between states follow the rate that was set.

Variables marked "bookkeeping" record what the properties speak of (what the host
captured, who gave up, what was heard) and guard nothing except bounds.

Definitions marked "a slip to check against" are what the neighbouring definition
would be with a plausible mistake in the code; each is shown to break a property, so
none of the properties holds for want of a reachable case.

## Runs

| Run | Question | Bounds |
|---|---|---|
| `relay_routing` | Do seats, peers and rosters agree under joins, breaks, takeover, abandoning and restarting, is every seat given up, and does anything leave its room or defy the roles? | two connections of the host, two of guests (each pair interchangeable), two rooms, one type of frame per rule of forwarding, one frame in a queue when the next is sent |
| `relay_alias` (finding) | Does the password lead where the code leads? | a password, two connections of the host, one of a guest |
| `sync_settles` | Is everyone in step, verified and still heard after a break at any point, after leaving and joining again, and after two guests arrive in any order and one leaves; and is the party an implementation of `HostLog`? | two guests, one of whom takes part unless the question is about both; two connections of each, one action, one heartbeat, one link opened; one kind of trouble per behaviour |
| `sync_retries` | Is a guest back and in step in the end, even if the attempt to come back fails? | one guest, three connections of it, one action: the first connection may break, any attempt be refused |
| `sync_resync_state` (finding) | Does a paused host's reconnect resync the guests? | two connections of the host, one action |
| `share_intact` | Is what a receiver keeps the whole file, and nothing else left, when the connection breaks, the sender leaves, a file changes or the disk fails? | "film" and "film (1)" of one guest, one after the other, a "film" at the host before; two connections of the guest, chunks of two units, files of three and two |
| `share_ends` | Does every transfer end for its sender, and does a file arrive if nothing goes wrong? | two files of one guest taking turns, two connections of it, files of three units and one |
| `share_same_name` (finding) | And when two files of one name are on their way at once? | one guest, no breaks, no changes |
| `threads` | Voice: is what is heard of this call, in order, and does stopping return? Renderer: is anything torn or used after it was freed, and is the newest picture shown? Requests: does an answer ever belong to another request? Calls: do both ends agree? | queues of two, frames of one and three units, two calls; two pictures, one resize; four requests; two guests, two presses of buttons by the host and a guest, one break |
| `window` | Player, chat, panels, prompts, settings, drift, window and messages: is what is shown true, kept and done once? | three media and a playlist of two, two commands; six events and a chat of three lines; two values per kind of setting; five distances and three errors; four keys; three processes and two drops |
| `voice_cap` (finding) | Do at most 64 frames wait to be played? | the voice part of `threads`, two frames in place of 64 |
| `forwarded_files` (finding) | Are files of a second instance queued behind the first? | two films and one command |

`MCThreads` and `MCWindow` put several modules into one run: a constant variable
`part` names the one that runs, and the others stay as they start. The state graph is
the disjoint union of those of the parts, which share no state, so nothing is lost.
`MCSyncSettles` likewise chooses one `kind` per behaviour (a guest's connections break, or
the host's, or the guest leaves and joins again, or two guests come and one of them
leaves), with the bounds that kind needs: what two kinds do together is not checked by it. Each of its
named disjuncts is an action of its own in TLC's coverage, so that a heartbeat, leaving,
joining and failing are all seen to happen. `sync_retries` has a next-state relation without what
its bounds exclude (`RetriesNext`): leaving, links, and the heartbeat of a host that is paused.

An "action" is a command of a user, a heartbeat, a newly opened file or a shared
link. Leaving counts as `LeaveCost` actions, so a run whose question is not leaving need
not combine it with everything else. What can go wrong with a connection is a matter of one break: of how much of
either stream arrives, of what was queued, of which end notices first, and of one
user action falling before, between or after; two connections of one instance and
one or two actions have all of these. A break, or a refused handshake, is allowed
only while the instance has a connection left (`MayFail`), and only the first
`MaxBreaks` connections of an instance break once they are made, while any attempt may
be refused; these are bounds, and the theorems below hold for all of their values. Two guests are the fewest for a guest's frames to
reach another guest and for "more guests than before" to differ from "some guests".
`MaxQueue` bounds when `RelayService` clients and `FileShare` senders send, not what
may be queued. A file of three units and chunks of two make a last chunk that is short, and
one of two units makes a last chunk that is full, whose end the sender finds out at
its next tick; with two chunks one can be lost and the other not. `Overlap` is FALSE
where the names of two files clash, except in the run of the finding: a share is then
sent only when nobody has any business left with another whose name clashes with its.
With one number to put behind a name and a film in the directory already, the file sent
as "film" is stored under the name the other is sent by, and the other under a third;
if the other came first, "film" has no number left and gets a made-up name. `Existing` has no file by the name of a
`.part` file: such a file is emptied by the transfer next to it (`sync_session.cpp:762`),
which `ReceivedIntact` excepts.
In the `sync` runs the host starts paused and the guests start playing by themselves, so
that being in step has to be brought about. Queues of two units of sound fill and
overflow within the frames of one call, and two calls are the fewest for a frame of one
to be heard in the other. Two pictures are the fewest to show an old one in place of a
new one; the sizes differ so that an upload of a wrong size shows. Four requests let an
answer be late by a search, a failure and a download. Three processes are the fewest for
two to send to one, and for a file to be handed to a window that has closed. The
distances of `DriftCorrection` have one in each band of `applyState`. Runs end in states
with nothing left to do because connections, actions, frames and keys are bounded, so
deadlock is not checked.

Several properties are named conjunctions (`RenderingIsSafe`, `SettingsAreKept`,
`DriftIsCorrected`, ...); each conjunct is stated and commented where it is defined, and
the name says what they are together.

Where the system settles (`Settled`: every queue empty, no handshake and no
reconnect under way), `RosterSettles`, `SourceSettles` and `InStep` say what must
hold. `InStep` is claimed of a host whose own connection did not break
(`generation[Host] <= 1`) and that has its film open before it hosts: with a host that
loses its connection it is false (see the first finding), and with a file opened *after* the guests arrived the
guests get the file info and no state until the next action or heartbeat; no text in
the repository says otherwise, so it is listed as a hazard.

`RosterSettles` is claimed of guests whose connections drop or who join again by hand,
not of a guest to whom both happen. Then it is false, as TLC finds in 20 seconds when
`MayDrop` and `MayLeave` of `MCSessionSync` are both `{g1}`: the end of the old connection
has queued its `onDisconnected` (the generation is tested then,
`signaling_client.cpp:81`), the user joins by hand before it runs, and a join goes out on
the new connection early. The late callback clears `m_joined` and arms the
reconnect, and `onConnected` of the new connection disarms it
(`signaling_client.cpp:284-288`): the server has the guest in its seat and answers its
join, while the client can be left connected, not joined and with nothing to try again.
`docs/05-signaling-protocol.md:83` says that such callbacks are dropped; the code drops
those that come from the old socket after the new one is made, not those queued before.

`EveryoneComesBack` is checked for guests. The host may lose one connection more
than the wire takes: if the server handles the join of its previous connection after
that of the new one, it takes the old for a newcomer and closes the new
(`signaling_server.cpp:413-414`). The host then simply reconnects once more, which a
bound on the number of connections cannot tell from not reconnecting.
`sync_settles` includes this order for the safety properties.

`FilesArrive` is claimed only where connections hold and files stay as they are. The
receiver has no timeout: a sender whose end-of-file is lost, who leaves, or whose
file grows or ends early on a chunk boundary, leaves its receivers "Receiving" for good.
`SendersAreTold` says that the sender's own side always ends; it is claimed of who
does not leave, since leaving clears the transfers without telling the chat.

**Fairness.** The frame loop pumps the server and the client and looks at the
reconnect timer in every iteration, so a queued callback is eventually run
(`WF` on `HandleEvent` and on `ServerStep`) and a pending reconnect eventually tried
(`WF` on `Reconnect`); the backoff is bounded by 10 s. A handshake with a running
server eventually completes or fails (`WF` on `Open`). Nothing is assumed of users,
of heartbeats or of breaks. `RelayService` needs the
server's half only; `FileShare` adds `WF` on the send tick, which the same loop runs.

- `VoiceFairness`: a thread goes on with what it is in the middle of; nobody has to
  speak, to call or to press a button.
- `RenderFairness`: strong for the render thread and the frame loop, since both wait for
  one mutex that is handed on again and again, and the thread's wait has a timeout; weak
  for mpv finishing a callback. Nobody has to decode a frame or close the window.
- `JobsFairness`: every detached thread ends, since `WinHttpSetTimeouts` bounds each
  phase of a request, and the loop shows the toast.
- `MediaFairness`: the loop goes round, mpv gets on with opening; no film has to end.
- `SettingsFairness`: two seconds pass, and a save that has begun ends, normally or by
  an exception. The program may crash at any step all the same.
- `DriftFairness`: a host that plays goes on sending its heartbeat.
- `FrameFairness`: frames are drawn, messages dispatched, a border is let go of; strong
  for the frame that updates the taskbar button, since a quarter of a second passes
  between some frames.
- `MessagesFairness`: a send ends, by its timeout if need be, windows open, frames go
  round and dialogs are closed.

## Findings

1. **The resync of the host's reconnect does not happen** (`sync_resync_state`).
   `docs/04-sync-algorithm.md:142-145` describes it; `onConnectionStateChanged`
   (`sync_session.cpp:702-712`) is meant to do it, but `onConnected` calls it before
   the join is sent, when `isJoined()` is still false. The `peer_update` of the
   rejoin counts as many guests as before, so it brings the file info only. A host
   whose state was lost with its connection, or that pauses meanwhile, leaves its guests
   playing. The shared link is not sent again either: only a *rising* guest count does.
2. **A password can stop leading to the session** (`relay_alias`). A room that is
   empty while its host reconnects is erased with its aliases; the host's rejoin
   recreates it under the code alone.
3. **Two files of one name spoil each other** (`share_same_name`).
   `resolveSharePath` (`sync_session.cpp:1144`) avoids only finished files, so two
   transfers that overlap write to one `.part` file. The hash is computed of the
   chunks as they come, so it matches, and a mixture of both files is shown as
   received. The names need not be equal: while a "film.mkv" is there, another is stored
   as "film (1).mkv", which is also what a file so named is stored as.

4. **A file forwarded at the start replaces the first** (`forwarded_files`).
   The comment at `main.cpp:2067-2068` says that the first file plays when nothing is
   loaded and everything else queues up. Whether anything is loaded is what the frame
   before read of mpv, so before the first frame a forwarded file is loaded with
   "replace" over the file of the command line (`main.cpp:2071`).
5. **65 frames wait to be played** (`voice_cap`). `docs/05-signaling-protocol.md:94` states
   a cap of 64 frames in both directions. `pushIncomingFrame` refuses a frame only when
   *more* than 64 are queued (`relay_voice.cpp:144`); the other direction keeps to 64
   (`relay_voice.cpp:280`). `AudioIsOfTheCall` bounds the queue by what the code does,
   `IncomingIsCapped` by what the document says.

## Proofs

Every theorem is for all values of the constants: any number of guests, connections,
rooms and codes, any bound on actions and breaks.

**`SessionSyncProofs`.**

- `TypeCorrectness`: `Spec => []TypeOK`.
- `HostIsNeverBehind`: `Spec => []NextStateIsTaken`. `onRelayState` ignores a state
  whose number is not above the last one it took. If the host ever fell behind a
  guest, that guest would silently stop following. It cannot.

Neither is inductive. `NextStateIsTaken` speaks of numbers guests have taken, and
they take them from frames; so the invariant `IInv` says that *every* frame
anywhere, on the wire, in a `TaskQueue`, in `m_pendingOutgoing` or left over from a
connection that was given up, has a number the host has already used, and holds the
state the host captured under it (`Channels(FramesOf(published))`). This has to be
kept by a step that captures another state (the set of allowed frames only grows:
`FramesGrow`) and by each step that moves frames. `startHostSession` sets the number
to zero, which would break it; `NotStarted` says that it is zero already and that the
host has no connection, no callback and no reconnect that could raise it before. Each
action has a lemma; actions of the same shape share one (`ServerFrame` for the
server's and the wire's, `QuietCallback` and `SendingCallback` for the client's,
`PostingStep` for the user's).

`SessionIsALog`: `Spec => ImplementsHostLog`. The log is
`published`, what a guest has read is the state in its `remote` and its
`m_lastRemoteSeq`. With the invariant above, every step of the session is one of four
of `HostLog`: the host captures a state, a guest takes one that is in the log under
the number it carries, a guest forgets what it read (joining and leaving), or none.
So whatever is lost, delayed or queued, a guest never shows a state the host did not
capture, never takes one for another, and never goes back without having left.

**`SessionSyncProofs` and `InStepProofs`: a watch party that has settled.**

- `EveryoneKnowsWhoIsThere`: `Apart /\ Spec => []RosterSettles`.
- `EveryoneKnowsTheSource`: `Spec => []SourceSettles`.
- `GuestsEndInStep`: `NoSource \notin StartSources /\ Spec => []InStep`.

"Settled" is not inductive; what is kept at every step is what is still to come. The
ground for all three is `Links`: on every connection the callback about its arrival is
first, its join next, the callback about its end last; the peer the server has for it,
its seat, and what the client of that connection believes of it agree with what is left
of these (`StreamOK`, `Seats`, `ClientLinks`), whichever of its connections an instance
has given up.

- `Informing`: the last `peer_update` on its way to whoever has a seat, or what it knows
  if there is none, is the server's room as it is. `RosterSettles` also says that the room
  is who is connected: `Comebacks` says that an instance that is in the session and not
  connected has an end, a handshake or a reconnect ahead. `Apart` is the hypothesis that
  nobody's connection both breaks and is left by its user (`MayDrop \cap MayLeave = {}`).
  It is needed: see `RosterSettles` under the runs.
- `Sourcing`: for every guest with a seat the host's file is the last one on its way, above
  the server or below it; or the guest has it and no other is on its way; or the host will
  send it again, since a join or a `peer_update` that tells of guests is ahead of it. The
  server may handle the frames of an older connection of the host after the first of the
  new one, so a file of the past may come in between; then the server still has that
  connection's end ahead, and tells the host of the room when it gets there (`HostBusy`).
- `Stating`: the same of the state captured last (`Top`), with three differences. First, the
  host sends it again only when the count it is told of *rises*, so what is kept is that
  one of the counts ahead of it is above the one before (`Renews`, `Rises`). `HostFresh` is
  why a count rises when the host's own join is what is ahead: a host whose first join is
  not handled yet counts nobody. This is false of a host that lost its connection, which
  is the first finding and the reason for `generation[Host] <= 1` in `InStep`. Secondly, a
  guest that takes the state may go on to play, pause or seek by itself, unless it knows
  that there is a host; so the guest has to know by the time it takes it, and not to be
  told otherwise by what is behind (`CarriesAware`, `Taken`). Thirdly, every change of the
  host's player has to be a state above the last (`FreshState`), which holds only for a
  host with a film (`HasFilm`): the hypothesis `NoSource \notin StartSources` is the film
  that is open before hosting, and a host that opens its first film afterwards announces
  the file without a state (see the hazard at `sync_session.cpp:1022`).

**`RelayServiceProofs`.**

- `RelayTypeCorrectness`: `Spec => []TypeOK`.
- `SeatsAgree`: `Spec => []SeatsAreAccountedFor`.
- `SeatsEnd`: `Spec => []SeatsAreGivenUp`.
- `DeliveryByTheRules`: `Spec => DeliveryRules`.

That a seat agrees with its peer depends on what is still queued. `StreamOK` says for
every connection that the callback about its arrival comes first, its join directly
behind, the callback about its end last, and that a connection that is gone and still
a peer has that callback ahead; this is why a joiner has no seat yet and why
`onSocketDisconnected` always runs for a connection with a seat. `CodesLead` says that a
room is reached under the code that created it for as long as it is reached under any,
so a seat is never in a room nobody can find (`NoSeatsOfNoSession`). The first three
theorems follow from the inductive invariant `IInv`, the fourth needs one more, `Roles`:
a connection carries one join and only its own frames, so who a frame is from and what
the peer may do are what its instance is.

- `RosterReachesAll`: `Spec => []RosterIsKnown`. "Once nothing is in flight" is not
  inductive; what is kept is that for every connected member the last `peer_update` on
  its way, or the one it took if there is none, is the present one
  (`MembersAreInformed`). Every action that changes a seat sends one to everybody who
  stays, and what is forwarded behind it is never a `peer_update`, as clients send none.

**`FileShareProofs`.** Files shared in a party of any size, over any number of
connections that break and come back, for any number and size of files and any size of
chunk; other programs may change a file while it is sent, and a receiver's disk may fail.

- `SharesTyped`: `Spec => []TypeOK`, which includes that no sender gets past the size it
  announced, however the file grows.
- `ReceivedFilesIntact` and `PartFilesSound`: `NamesApart /\ Spec => []ReceivedIntact`
  and `... => []PartFilesAreSound`.
- `SharedFilesArrive`: `NamesApart /\ ~DiskMayFail /\ Spec => []FilesArrive`.

How far a sender is with a share is one number n that everything agrees with (`InOrder`):
the sender's counters are n and a multiple of the chunk size, every chunk on its way
begins before n and is what the file has there, and every receiver has the first n units
or the first whole chunks of them. A sender that leaves, or a transfer that ends early,
keeps its n. The invariant does not say that chunks arrive in order: a receiver takes
only the next one it counts, and `InOrder` says that what it then appends is that piece.
An announcement is on its way to a peer at most once, on the one connection the peer has
(`AnnouncedOnce`, with `Connections`), so a share is received at most once. `Named` ties a
transfer to its path: one of its share's own, next to a temporary file that exists; and a
file has a made-up name only if its share was announced, so whatever `resolveSharePath`
chooses has no file, even when no number is left (`PathIsFree`).

`NamesApart` is a hypothesis on the constants. Two shares *clash* if some number makes one
path of their names. Either no two shares clash, or `Overlap` is FALSE and a file is sent
only when nobody still sends or receives another that clashes with it; and nobody sends a
file by the name of another's temporary file (`PartsApart`). The code does not see to
either, and without the first the two properties fail: `share_same_name` shows how.
What rests on it is collected in `Sound`: no two transfers that clash are in business at a
time (`Exclusive`), so none writes to the temporary file of another (`TransfersApart`), and
the path a transfer will take is free until it takes it (`Unfinished`). The step in which a
transfer ends renames either all that was received or a beginning of it (`Renamed`,
`ContentCut`), and removes nothing of a transfer that goes on (`GiveUpKeeps`,
`FilesStay`). `ReceivedIntact` says accordingly that a file shown as received is what was
announced, or, where its last flush failed unnoticed, a beginning of that.

`FilesArrive` speaks of the moment when nothing is on its way, so its invariant,
`Arriving`, has to say at every moment what is still to come. It numbers the frames of a
share: the announcement, the chunks, the end. As long as connections and files are left
alone (`Untroubled`), a receiver has handled the first n of them, the sender has sent the
first m, and for every k from n + 1 to m the frame number k is on its way, above the
server or below it, the lower numbers below (`Between`); no frame overtakes
another of its share (`Ordered`), though frames of different shares take turns. The server
is shown to forward each to everybody but its sender (`EverybodyElse`), a read of
`onShareSendTick` to be frame m + 1, or the last two (`NextGoesOut`), and what a receiver
handles to be frame n + 1 (`NextHandled`), which its handler then cannot refuse: the
chunk is the next it counts, and the end finds the announced number of chunks, their
lengths and their content. That nobody has the file open at the end is `Exclusive`, hence
`NamesApart`. `~DiskMayFail` is part of what the property claims, as `Untroubled` is.

**`VoiceProofs`.** The audio end and the calls.

- `AudioStaysInTheCall`: `VoiceSpec => []AudioIsOfTheCall`. The invariant ties the state
  of the device to where the UI thread is in `start`, `stop` and `setInputMuted`
  (`Device`), every frame that waits to be sent to the call that goes on (`OfThisCall`),
  and what a muted microphone may still let through to the callback that is in the middle
  of keeping a frame (`Muted`). That playback is in order is a fact about sequences: what
  `audioCallback` takes off the queue and what it leaves, flattened, are what was there
  (`RestFlattens`), for chunks of any sizes and a callback of any length.
- `NoLonelyMicrophone`: `VoiceCallSpec => []CallNeedsOnePeer`, the first half of
  `CallsHaveOnePeer`. It is inductive with the types.
- `CallsReachThePeer`: `HostStays => (VoiceCallSpec => []CallsHaveOnePeer)`. That a start
  finds the instance it reaches in a session of two is a fact about the order of frames.
  `PartyInv` says which frames are on a connection, that who joined was accepted first, and
  that seats and peers agree; over it, `StartsAreTimely` says of every instance that before
  each start on its way the last `peer_update` tells of a pair, or there is none and its
  view is a pair already, and that a member whose connection lives learns the roster in the
  end. `HostStays` is the hypothesis that the connections of the host do not break: the
  host's client connects to the server inside its own process. It is needed. A host that
  came back on a second connection while the first was still a peer would have frames
  forwarded on the strength of a roster that no longer counts it; with two connections of
  the host that may break, TLC finds a start that reaches an instance without a peer.
- `QuietCallsAgree`: `VoiceCallSpec => []CallsAgree`. While nothing breaks, fails or
  crosses (`Smooth`), four things hold (`SmoothRun`): who has not joined has heard and asked
  nothing (`Outsiders`); whoever thinks of a pair, will hear of one or has to do with a call
  is right that there are a host and a guest (`Calling`); with one guest, nobody who heard
  so hears anything else (`PairIsNews`), so no notice ends a call; and the two ends have a
  `Pact` (`EndsAgree`): requests go one way at a time, and their sender is in a call exactly
  if the receiver will be once it has handled all that is on its way. What a notice, a
  request forwarded and a request handled do to a pact are lemmas about streams
  (`PactQuiet`, `PactForwards`, `PactHears`).

The attempt to prove `CallsAgree` as it was first stated failed for a good reason: without
the premise on requests that cross it is false, and the run was too short to show it. The
run has presses by both ends since.

The library's induction theorems take an operator, which no prover here instantiates.
Where induction is needed it is by a set: the numbers for which the fact holds contain
zero and with each the next, and a set that leaves a number out leaves out a least one
(`Least`, `Induction`, from the library's theorem that < is well founded). `FlattenUnique`
and `FlattenExists` are proved so for the community modules' `FlattenSeq`.

**`ThreadProofs`.** The render thread, and the detached threads of `BackgroundJobs`.

- `RenderingSafe`: `RenderSpec => []RenderingIsSafe`, for any window sizes and number of
  frames. That the texture is one frame needs that only the back buffer is ever half
  drawn, and only by the render thread between its two halves (`Pictures`), that a copy in
  progress is of the front buffer at its size (`Upload`), and who holds the mutex at which
  step (`Holders`): a swap in the middle of a copy is excluded because both need it.
- `AnswersMatch`: `JobsSpec => []AnswersMatchRequests`, for any number of requests. At
  most one thread runs, it was started for the present generation, and the phase the panel
  shows is the one it serves (`OneThread`); the panel's copy of the state is old only
  while a request was under way when it was taken (`SnapshotHolds`), so a double click
  cannot start a second one; a downloaded file is new until the panel has added it
  (`FileIsNew`).

**`WindowProofs`.** The UI thread, each part with nothing else running, since none shares a
variable with another; for any links, sizes, keys, processes and lines of chat.

- `ControlsTheorem` (`ControlsAreTrue`) and `PromptsTheorem` (`NothingOpensUnasked`):
  panels exclude each other because every one is opened by way of the same reset, and a
  link that waits for an answer is on screen already, except one that has come with the
  tick of this very frame (`PromptsInv`).
- `WindowTheorem`: `FrameSpec => []WindowComesBack`. Which of the pending size and the back
  buffers' size is the window's depends on whether Windows' sizing loop runs (`SizesInv`).
- `EscapeTheorem`: `FrameSpec => EscapeOnlyLeaves`, a conjunct of `FrameObeys`. Two states
  matter, a toggle that was asked for and a fade in its first half (`EscapeInv`): nothing
  but a frame changes full screen, so what Escape saw still holds when it is taken.
- `MessagesTheorem`: `MessagesSpec => [](OpenedOnce /\ DropsAreNotMixed)`, conjuncts of
  `FilesAreOpenedOnce`. A file waits in one place at a time, in a message queue or once in
  a window's list (`OnePlace`), and every process has a budget of openings that each step
  spends and only giving up on a busy window raises (`Budget`).
- `TimelineTheorem` (`TimelineIsTrue`) and `TransferTheorem` (`TransferHasOneLine`): chips
  are appended only on a change, so the last chip of a kind is true only if the remembered
  state, the session and the last chip agree at every callback (`Told`, `Reporting`); and
  the status and the verdict are up to date but for what was not yet heard since the role
  or the connection changed (`Current`). Trimming takes the oldest line, which may be the
  last chip of its kind or the line of a transfer: the lemmas on `Grown` say what is left.

**`PlayerProofs`.** The player, part by part likewise.

- `SettingsTheorem`: `SettingsSpec => [](SavedUnlessDirty /\ MuteIsUndone)`, for any values,
  any crashes, and files that cannot be opened or written. Without a failed save since the
  start, what is not `dirty` is on disk; a failed one is made up for by the next that
  succeeds. Needed besides: what the file holds at each step of a save, and that an
  unmuted level is the one last heard.
- `CorrectionTheorem`: `DriftSpec => []CorrectionIsGentle`, in the arithmetic of the code
  (rounding toward zero included), for any distances.
- `DriftTheorem`: `DriftSpec => DriftIsWornOff`, provided `EstimatesAreGood`: the latency of
  a state is estimated to within the 50 ms that are let pass. With worse estimates the
  guest rightly follows the estimate away from the host. The invariant bounds a correction
  by the distance it is for and says that one in the wrong direction is at most what the
  smoothing kept, 60% of a full one (`DriftInv`). An attempt at a proof showed that a
  drift within that much below the threshold of a jump can still end in one, which no
  distance of the run is; so `DriftIsWornOff` speaks of drifts below it.
- `MediaTheorem`: `MediaSpec => [](MediaTypeOK /\ IndicatorHasAReason)`, the invariants of
  `MpvIsFollowed`, and `RowsTheorem`: `MediaSpec => RowLandsWhereDropped`. That
  "Connecting stream" has a reason is inductive only with what mpv keeps (`MpvOK`): every
  way out of opening a stream leaves an event, and the event that is handled takes the
  indicator away. That a row lands where it is dropped rests on `MovedIs`: mpv's move with
  the index the panel gives it takes the row out and puts it where it was dropped, and
  `Past` counts the rows without it, before and after.

The assumptions are those named in the modules: finitely many connections, the host
is not a guest, the null values differ from the others, the start sources are sources
and the start players players, the codes of the host and its password are codes,
clients send no frame of a type of the server's own, the sizes of windows, queues and
frames are numbers, a window's sizes are not those of the screen and the work area, a
playlist holds the two files of the largest batch, durations are numbers, every share has an owner and a size above 0, different paths have different `.part` files,
a name that `generateId` made up is no other file's, and the connections of a
party are those its instances may make; and those of the library's theorems on sequences, functions,
finite sets and well-founded orders.

**Only model-checked.** Every liveness property
(`EveryoneComesBack`, `SendersAreTold`, `RequestIsHonoured`, `PeersLearnWhatPlays`,
`GuestGetsInStep`, `ChangesAreSaved`, `ThumbShowsAction`, `EveryFileIsOpened`, ...): liveness
under fairness and `ENABLED` are out of the prover's reach. So named conjunctions that
have a liveness part are proved by their safety parts only.

## Not modelled

- *Several sessions in one client*: the codes and the role a client goes back to after
  joining another session failed, and a hosted session that is ended and hosted again
  while guests of the first come back with an old `m_lastRemoteSeq`. `SessionSync` has
  one session and a host that hosts once; `RelayService` has the server's half of it.
- *Lengths of the backoff, pings, the smoothing of the round-trip time, `onError` and
  `onClosed` of one failure both reporting it.* Time is left out of the model of the
  client: a pending reconnect may be tried at any moment.
- *A host that plays at another speed than 1* in the correction of drift; the film's own
  progress in `SessionSync`. `DriftCorrection` has a clock on either side.
- *A file transfer whose sender comes back after leaving*, the host ending the session
  under a transfer, and the refusal of frames no instance sends.
- *A call's device choice, resampling and samples.* A frame is a sequence of units.
- *Scrubbing, subtitle and audio tracks, the clock of the on-screen display, the panels
  for video and audio*: they hand values to mpv and keep none of their own that another
  part relies on, except through the preferences (`Settings`).
- *Helpers that are functions of their argument* (base64, SHA-1, URL and name clean-up,
  the comparison of versions) and the parsing of answers: no state, no interleaving;
  unit tests are the better instrument.
- *Drawing, file dialogs' contents, the registry, Direct3D, proxies, logging, libmpv,
  libdatachannel, Dear ImGui, the build and the installer.*
