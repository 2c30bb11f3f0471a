----------------------------- MODULE SessionSync -----------------------------
(***************************************************************************)
(* A watch party: the hosting instance with its embedded relay server, and *)
(* the guests.  Every instance runs a SignalingClient                      *)
(* (network/signaling_client.cpp) under a SyncSession                      *)
(* (sync/sync_session.cpp); both run on the UI thread only, so a step is   *)
(* one queued callback run by SignalingClient::pumpEvents, one reconnect   *)
(* attempt, one heartbeat of SyncSession::tick, or one click of the user.  *)
(*                                                                         *)
(* m_events of a client is kept in two pieces.  Callbacks of the current   *)
(* connection are the head of down[socket[p]].  Callbacks of a connection  *)
(* that has been given up are discarded by the generation test, but only   *)
(* those that arrive after the test changed: the ones already queued are   *)
(* stale[p], and they run before anything of the new connection.           *)
(*                                                                         *)
(* Not modelled here: stopping and restarting the hosting instance, other  *)
(* codes than the one of the session (RelayService), pings, chat, voice    *)
(* and file transfers, and the arithmetic of drift correction.  Playback   *)
(* advances by itself; pos stands for the point last sought.               *)
(***************************************************************************)
EXTENDS SignalingServer

CONSTANTS Host, Guests,      \* the instances
          MaxConnections,    \* bound: connections instance p makes in all
          SessionCode,       \* the code of the session
          MayDrop,           \* instances whose connection may break or be refused
          MayLeave,          \* guests whose user may leave or join again
          Positions,         \* points of the film one can seek to
          Sources, NoSource, \* what setLocalFileInfo identifies: files, "url:" sources
          StartSources,      \* what the host may have open when the program starts
          StartPlayers,      \* what the instances may be playing then
          Urls, NoUrl,       \* stream links, m_currentShareUrl
          NoState,           \* m_remotePlayingKnown = false
          AllowGuestControl, \* m_allowGuestControl
          MaxActions,        \* bound: actions of the users and heartbeats
          LeaveCost,         \* bound: how many of them leaving counts for
          MaxBreaks          \* bound: connections of an instance that can break

Peers == Guests \cup {Host}
PlayStates == [playing : BOOLEAN, pos : Positions]

ASSUME PeersAssumption == Host \notin Guests /\ IsFiniteSet(Guests)
ASSUME BoundsAssumption ==
    /\ MaxConnections \in [Peers -> Nat] /\ MaxActions \in Nat
    /\ LeaveCost \in Nat /\ MaxBreaks \in Nat
ASSUME ConnectionsAssumption ==
    Sockets = UNION {{p} \X (1 .. MaxConnections[p]) : p \in Peers}
ASSUME ValuesAssumption ==
    /\ SessionCode \in Codes
    /\ MayDrop \subseteq Peers /\ MayLeave \subseteq Guests
    /\ Positions # {} /\ NoState \notin PlayStates
    /\ NoSource \notin Sources \cup Urls /\ NoUrl \notin Urls
    /\ StartSources \subseteq Sources \cup {NoSource}
    /\ StartPlayers \subseteq [Peers -> PlayStates]
    /\ AllowGuestControl \in BOOLEAN

VARIABLES
    \* SignalingClient of p
    generation,      \* connections made so far (m_generation)
    socket,          \* m_socket
    joined,          \* m_joined
    pendingJoin,     \* m_pendingJoinCode / Role / Mode are set
    inSession,       \* m_sessionCode / m_role are set
    autoRejoin,      \* m_autoRejoin
    reconnectPending,\* m_reconnectPending
    connectionState, \* m_connectionState
    pendingOutgoing, \* m_pendingOutgoing
    stale,           \* callbacks of a connection given up, queued before it was
    \* SyncSession of p
    sessionActive,   \* m_sessionActive
    hostOnline,      \* m_relayHostOnline
    guestCount,      \* m_relayGuestCount
    localStateSeq,   \* m_localStateSeq of the host
    lastRemoteSeq,   \* m_lastRemoteSeq
    remote,          \* m_remotePlaying, m_lastRemoteTime: the last state taken
    localSource,     \* m_localFile of the host
    remoteSource,    \* m_remoteFile
    shareUrl,        \* m_currentShareUrl of the host
    offeredUrl,      \* the link of the last consent prompt
    player,          \* the libmpv player of p
    \* bookkeeping
    actions,         \* actions of the users and heartbeats so far
    published        \* what the host captured, by sequence number

client == <<generation, socket, joined, pendingJoin, inSession, autoRejoin,
            reconnectPending, connectionState, pendingOutgoing, stale>>
hostData == <<localStateSeq, localSource, shareUrl, published>>
guestData == <<lastRemoteSeq, remote, remoteSource, offeredUrl>>
roster == <<hostOnline, guestCount>>
session == <<sessionActive, roster, hostData, guestData, player>>
vars == <<net, server, client, session, actions>>

ConnectionStates == {"Idle", "Connecting", "Connected", "Reconnecting", "Disconnected"}

----------------------------------------------------------------------------
(* Frames.                                                                 *)

JoinFrame(p) ==
    [type |-> "join", code |-> SessionCode, role |-> IF p = Host THEN "host" ELSE "guest"]
StateFrame(st, n)  == [type |-> "state", state |-> st, seq |-> n]
FileFrame(f)       == [type |-> "file", source |-> f]
UrlFrame(u)        == [type |-> "open_url", url |-> u]
IntentFrame(cmd)   == [type |-> "intent", command |-> cmd]

\* Control requests: play, pause and seek; seek_delta and speed are further
\* changes of the same playback state.
Commands == [action : {"play", "pause"}] \cup [action : {"seek"}, pos : Positions]

Applied(cmd, st) ==
    CASE cmd.action = "play"  -> [st EXCEPT !.playing = TRUE]
      [] cmd.action = "pause" -> [st EXCEPT !.playing = FALSE]
      [] cmd.action = "seek"  -> [st EXCEPT !.pos = cmd.pos]

----------------------------------------------------------------------------
(* Queries.                                                                *)

IsConnected(p) == socket[p] # NoSocket /\ Live(socket[p])
CanSend(p)     == IsConnected(p) /\ joined[p]

\* SyncSession::transportConnected
TransportConnected(p) == IF p = Host THEN guestCount[p] > 0 ELSE hostOnline[p]

\* main.cpp requestOnly: the user of p controls the host's player, not his own.
RequestOnly(p) == sessionActive[p] /\ p # Host /\ TransportConnected(p)

\* The callback pumpEvents runs next.
Queue(p) == IF stale[p] # <<>> THEN stale[p]
            ELSE IF socket[p] # NoSocket THEN down[socket[p]] ELSE <<>>
Event(p) == Head(Queue(p))

Dequeue(p) ==
    IF stale[p] # <<>>
    THEN stale' = [stale EXCEPT ![p] = Tail(@)] /\ UNCHANGED down
    ELSE down' = [down EXCEPT ![socket[p]] = Tail(@)] /\ UNCHANGED stale

----------------------------------------------------------------------------
(* Sending.  These say what up and pendingOutgoing become.                 *)

\* Frames sent under an isConnected() && isJoined() guard: nothing otherwise.
Guarded(p, frames) == IF CanSend(p) THEN frames ELSE <<>>

\* queueOrSend, once per frame.
Post(p, frames) ==
    IF CanSend(p)
    THEN /\ up' = [up EXCEPT ![socket[p]] = @ \o frames]
         /\ UNCHANGED pendingOutgoing
    ELSE /\ pendingOutgoing' = [pendingOutgoing EXCEPT ![p] = @ \o frames]
         /\ UNCHANGED up

\* Slips to check against: the source goes to newcomers only; a state carries
\* the number of the one before it.
FileInfoForNewcomers(n) ==
    IF localSource # NoSource /\ n > guestCount[Host] THEN <<FileFrame(localSource)>>
    ELSE <<>>
StateNowUnnumbered(st, n) ==
    IF localSource # NoSource /\ n > 0 THEN <<StateFrame(st, localStateSeq)>> ELSE <<>>

\* What sendFileInfoIfReady and sendStateNow of the host put on the wire when
\* it knows of n guests.  sendStateNow numbers the state it captured whether
\* or not it can send it.
FileInfo(n) ==
    IF localSource # NoSource /\ n > 0 THEN <<FileFrame(localSource)>> ELSE <<>>
StateNow(st, n) ==
    IF localSource # NoSource /\ n > 0 THEN <<StateFrame(st, localStateSeq + 1)>> ELSE <<>>
Capture(st) ==
    /\ localStateSeq' = localStateSeq + 1
    /\ published' = Append(published, st)

----------------------------------------------------------------------------
(* SignalingClient: connecting and joining.                                *)

\* connectToServer followed by joinSession.  The previous connection is closed
\* and the callbacks it had queued stay queued.  open() only starts the
\* handshake, but it may already be over when joinSession looks (early).
ConnectAndJoin(p) ==
    LET new == <<p, generation[p] + 1>>
        old == socket[p]
    IN  /\ generation[p] < MaxConnections[p]
        /\ generation' = [generation EXCEPT ![p] = @ + 1]
        /\ socket' = [socket EXCEPT ![p] = new]
        /\ \E early \in BOOLEAN :
             /\ wire' = [s \in Sockets |->
                   IF s = new THEN (IF early THEN "up" ELSE "connecting")
                   ELSE IF s = old THEN "down" ELSE wire[s]]
             /\ up' = [s \in Sockets |->
                   IF s = new /\ early
                   THEN <<Accepted, JoinFrame(p)>> \o pendingOutgoing[p]
                   ELSE IF s = old /\ Live(s) THEN Append(up[s], Closed)
                   ELSE up[s]]
             /\ down' = [s \in Sockets |->
                   IF s = new /\ early THEN <<Opened>>
                   ELSE IF s = old THEN <<>> ELSE down[s]]
             /\ joined' = [joined EXCEPT ![p] = early]
             /\ pendingJoin' = [pendingJoin EXCEPT ![p] = ~early]
             /\ inSession' = [inSession EXCEPT ![p] = @ \/ early]
             /\ autoRejoin' = [autoRejoin EXCEPT ![p] = @ \/ early]
             /\ pendingOutgoing' = IF early THEN [pendingOutgoing EXCEPT ![p] = <<>>]
                                   ELSE pendingOutgoing
        /\ connectionState' = [connectionState EXCEPT ![p] = "Connecting"]
        /\ IF old = NoSocket THEN UNCHANGED stale
           ELSE \E i \in 0 .. Len(down[old]) :
                  stale' = [stale EXCEPT ![p] = @ \o SubSeq(down[old], 1, i)]

\* A slip to check against: the host starts counting its states again.
ReconnectRenumbers(p) ==
    /\ reconnectPending[p]
    /\ inSession[p]
    /\ ConnectAndJoin(p)
    /\ reconnectPending' = [reconnectPending EXCEPT ![p] = FALSE]
    /\ localStateSeq' = IF p = Host THEN 0 ELSE localStateSeq
    /\ UNCHANGED <<server, sessionActive, roster, localSource, shareUrl, published,
                   guestData, player, actions>>

\* maintainReconnect, once the backoff has run out.
Reconnect(p) ==
    /\ reconnectPending[p]
    /\ inSession[p]
    /\ ConnectAndJoin(p)
    /\ reconnectPending' = [reconnectPending EXCEPT ![p] = FALSE]
    /\ UNCHANGED <<server, session, actions>>

\* onConnected: the state-change callback (SyncSession::onConnectionStateChanged)
\* runs before the pending join is sent.
OnConnected(p) ==
    LET resyncs == p = Host /\ connectionState[p] # "Connected" /\ CanSend(p)
        joins   == IsConnected(p) /\ pendingJoin[p]
        pushed  == IF resyncs
                   THEN FileInfo(guestCount[p]) \o StateNow(player[p], guestCount[p])
                   ELSE <<>>
        flushed == IF joins THEN <<JoinFrame(p)>> \o pendingOutgoing[p] ELSE <<>>
    IN  /\ Event(p).type = "opened"
        /\ connectionState' = [connectionState EXCEPT ![p] = "Connected"]
        /\ reconnectPending' = [reconnectPending EXCEPT ![p] = FALSE]
        /\ IF resyncs THEN Capture(player[p]) ELSE UNCHANGED <<localStateSeq, published>>
        /\ up' = IF IsConnected(p) THEN [up EXCEPT ![socket[p]] = @ \o (pushed \o flushed)]
                 ELSE up
        /\ joined' = [joined EXCEPT ![p] = @ \/ joins]
        /\ inSession' = [inSession EXCEPT ![p] = @ \/ joins]
        /\ autoRejoin' = [autoRejoin EXCEPT ![p] = @ \/ joins]
        /\ pendingJoin' = [pendingJoin EXCEPT ![p] = @ /\ ~joins]
        /\ pendingOutgoing' = IF joins THEN [pendingOutgoing EXCEPT ![p] = <<>>]
                              ELSE pendingOutgoing
        /\ UNCHANGED <<generation, socket, sessionActive, roster, guestData,
                       localSource, shareUrl, player>>

\* A slip to check against: a reconnect that was refused is not tried again.
RejoinsOnce(p) == autoRejoin[p] /\ inSession[p] /\ joined[p]

Rejoins(p) == autoRejoin[p] /\ inSession[p]

\* onDisconnected
OnDisconnected(p) ==
    LET rejoin == Rejoins(p)
    IN  /\ Event(p).type = "closed"
        /\ joined' = [joined EXCEPT ![p] = FALSE]
        /\ reconnectPending' = [reconnectPending EXCEPT ![p] = @ \/ rejoin]
        /\ connectionState' = [connectionState EXCEPT
                                 ![p] = IF rejoin THEN "Reconnecting" ELSE "Disconnected"]
        /\ UNCHANGED <<up, generation, socket, pendingJoin, inSession, autoRejoin,
                       pendingOutgoing, session>>

----------------------------------------------------------------------------
(* SyncSession: what arrives.                                              *)

\* A slip to check against: only the first guest counts as a newcomer.
FirstGuest(p, n) == p = Host /\ n > 0 /\ guestCount[p] = 0

Newcomer(p, n) == p = Host /\ n > 0 /\ n > guestCount[p]

\* onRelayPeerUpdate.  The host pushes the source, and to a newcomer the shared
\* link (queued when the connection is gone) and the state.
OnPeerUpdate(p) ==
    LET n        == Event(p).guests
        newcomer == Newcomer(p, n)
        link    == IF newcomer /\ shareUrl # NoUrl THEN <<UrlFrame(shareUrl)>> ELSE <<>>
        file    == IF p = Host THEN FileInfo(n) ELSE <<>>
        state   == IF newcomer THEN StateNow(player[p], n) ELSE <<>>
    IN  /\ Event(p).type = "peer_update"
        /\ hostOnline' = [hostOnline EXCEPT ![p] = Event(p).host]
        /\ guestCount' = [guestCount EXCEPT ![p] = n]
        /\ Post(p, Guarded(p, file) \o link \o Guarded(p, state))
        /\ IF newcomer THEN Capture(player[p]) ELSE UNCHANGED <<localStateSeq, published>>
        /\ UNCHANGED <<generation, socket, joined, pendingJoin, inSession, autoRejoin,
                       reconnectPending, connectionState, sessionActive, guestData,
                       localSource, shareUrl, player>>

\* onRelayState and SyncManager::applyState on a guest: the player takes the
\* host's playing flag and ends at the host's point, at once or by and by.
OnState(p) ==
    LET new == p # Host /\ Event(p).seq > lastRemoteSeq[p]
    IN  /\ Event(p).type = "state"
        /\ IF new
           THEN /\ lastRemoteSeq' = [lastRemoteSeq EXCEPT ![p] = Event(p).seq]
                /\ remote' = [remote EXCEPT ![p] = Event(p).state]
                /\ player' = [player EXCEPT ![p] = Event(p).state]
           ELSE UNCHANGED <<lastRemoteSeq, remote, player>>
        /\ UNCHANGED <<up, generation, socket, joined, pendingJoin, inSession, autoRejoin,
                       reconnectPending, connectionState, pendingOutgoing, sessionActive,
                       roster, hostData, remoteSource, offeredUrl>>

\* onRelayFileReceived
OnFile(p) ==
    /\ Event(p).type = "file"
    /\ remoteSource' = IF p = Host THEN remoteSource
                       ELSE [remoteSource EXCEPT ![p] = Event(p).source]
    /\ UNCHANGED <<up, generation, socket, joined, pendingJoin, inSession, autoRejoin,
                   reconnectPending, connectionState, pendingOutgoing, sessionActive,
                   roster, hostData, lastRemoteSeq, remote, offeredUrl, player>>

\* The open_url callback: guests prompt their user.
OnOpenUrl(p) ==
    /\ Event(p).type = "open_url"
    /\ offeredUrl' = IF p = Host THEN offeredUrl ELSE [offeredUrl EXCEPT ![p] = Event(p).url]
    /\ UNCHANGED <<up, generation, socket, joined, pendingJoin, inSession, autoRejoin,
                   reconnectPending, connectionState, pendingOutgoing, sessionActive,
                   roster, hostData, lastRemoteSeq, remote, remoteSource, player>>

\* onRelayIntent: applyControlIntent, then sendStateNow.
OnIntent(p) ==
    LET obeyed == p = Host /\ AllowGuestControl /\ localSource # NoSource
        st     == Applied(Event(p).command, player[p])
    IN  /\ Event(p).type = "intent"
        /\ IF obeyed
           THEN /\ player' = [player EXCEPT ![p] = st]
                /\ Capture(st)
                /\ Post(p, Guarded(p, StateNow(st, guestCount[p])))
           ELSE UNCHANGED <<up, pendingOutgoing, player, localStateSeq, published>>
        /\ UNCHANGED <<generation, socket, joined, pendingJoin, inSession, autoRejoin,
                       reconnectPending, connectionState, sessionActive, roster,
                       guestData, localSource, shareUrl>>

\* TaskQueue::drain, one callback at a time.
HandleEvent(p) ==
    /\ Queue(p) # <<>>
    /\ Dequeue(p)
    /\ \/ OnConnected(p) \/ OnDisconnected(p) \/ OnPeerUpdate(p)
       \/ OnState(p) \/ OnFile(p) \/ OnOpenUrl(p) \/ OnIntent(p)
    /\ UNCHANGED <<wire, server, actions>>

----------------------------------------------------------------------------
(* SyncSession: what its user and its clock do.                            *)

\* startHostSession
StartHostSession ==
    /\ ~sessionActive[Host]
    /\ ~running
    /\ running' = TRUE
    /\ sessionOf' = CreateSession(sessionOf, SessionCode)
    /\ ConnectAndJoin(Host)
    /\ sessionActive' = [sessionActive EXCEPT ![Host] = TRUE]
    /\ hostOnline' = [hostOnline EXCEPT ![Host] = TRUE]
    /\ guestCount' = [guestCount EXCEPT ![Host] = 0]
    /\ lastRemoteSeq' = [lastRemoteSeq EXCEPT ![Host] = 0]
    /\ remote' = [remote EXCEPT ![Host] = NoState]
    /\ localStateSeq' = 0
    /\ published' = <<>>
    /\ UNCHANGED <<peers, host, guests, reconnectPending, remoteSource, offeredUrl,
                   localSource, shareUrl, player, actions>>

\* joinSession.  What the previous session left in m_autoRejoin and
\* m_reconnectPending, and the remote file info, is not touched.
JoinSession(g) ==
    /\ running
    /\ sessionActive[g] \/ generation[g] > 0 => g \in MayLeave
    /\ ConnectAndJoin(g)
    /\ sessionActive' = [sessionActive EXCEPT ![g] = TRUE]
    /\ hostOnline' = [hostOnline EXCEPT ![g] = FALSE]
    /\ guestCount' = [guestCount EXCEPT ![g] = 0]
    /\ lastRemoteSeq' = [lastRemoteSeq EXCEPT ![g] = 0]
    /\ remote' = [remote EXCEPT ![g] = NoState]
    /\ UNCHANGED <<server, reconnectPending, hostData, remoteSource, offeredUrl, player,
                   actions>>

\* disconnectSession of a guest.
LeaveSession(g) ==
    LET old == socket[g]
    IN  /\ g \in MayLeave
        /\ actions + LeaveCost <= MaxActions
        /\ actions' = actions + LeaveCost
        /\ sessionActive[g]
        /\ wire' = [s \in Sockets |-> IF s = old THEN "down" ELSE wire[s]]
        /\ up' = [s \in Sockets |-> IF s = old /\ Live(s) THEN Append(up[s], Closed)
                                    ELSE up[s]]
        /\ down' = [s \in Sockets |-> IF s = old THEN <<>> ELSE down[s]]
        /\ IF old = NoSocket THEN UNCHANGED stale
           ELSE \E i \in 0 .. Len(down[old]) :
                  stale' = [stale EXCEPT ![g] = @ \o SubSeq(down[old], 1, i)]
        /\ socket' = [socket EXCEPT ![g] = NoSocket]
        /\ joined' = [joined EXCEPT ![g] = FALSE]
        /\ pendingJoin' = [pendingJoin EXCEPT ![g] = FALSE]
        /\ inSession' = [inSession EXCEPT ![g] = FALSE]
        /\ autoRejoin' = [autoRejoin EXCEPT ![g] = FALSE]
        /\ reconnectPending' = [reconnectPending EXCEPT ![g] = FALSE]
        /\ pendingOutgoing' = [pendingOutgoing EXCEPT ![g] = <<>>]
        /\ connectionState' = [connectionState EXCEPT ![g] = "Disconnected"]
        /\ sessionActive' = [sessionActive EXCEPT ![g] = FALSE]
        /\ hostOnline' = [hostOnline EXCEPT ![g] = FALSE]
        /\ guestCount' = [guestCount EXCEPT ![g] = 0]
        /\ lastRemoteSeq' = [lastRemoteSeq EXCEPT ![g] = 0]
        /\ remote' = [remote EXCEPT ![g] = NoState]
        /\ remoteSource' = [remoteSource EXCEPT ![g] = NoSource]
        /\ UNCHANGED <<server, generation, hostData, offeredUrl, player>>

\* The host captures st, numbers it and broadcasts it if it can.
Broadcast(st) ==
    /\ Capture(st)
    /\ Post(Host, Guarded(Host, StateNow(st, guestCount[Host])))

\* main.cpp togglePlay, seekBy, applySpeed: a guest whose host is online asks
\* for the change, anybody else makes it; the host then tells the others.
UserCommand(p, cmd) ==
    LET st == Applied(cmd, player[p])
    IN  /\ actions < MaxActions
        /\ actions' = actions + 1
        /\ IF RequestOnly(p)
           THEN /\ Post(p, Guarded(p, <<IntentFrame(cmd)>>))
                /\ UNCHANGED <<player, localStateSeq, published>>
           ELSE /\ player' = [player EXCEPT ![p] = st]
                /\ IF p = Host /\ sessionActive[p] THEN Broadcast(st)
                   ELSE UNCHANGED <<up, pendingOutgoing, localStateSeq, published>>
        /\ UNCHANGED <<wire, down, server, generation, socket, joined, pendingJoin,
                       inSession, autoRejoin, reconnectPending, connectionState, stale,
                       sessionActive, roster, guestData, localSource, shareUrl>>

\* tick: while playing, the host repeats its state every m_sendInterval.
Heartbeat ==
    /\ actions < MaxActions
    /\ actions' = actions + 1
    /\ sessionActive[Host] /\ TransportConnected(Host) /\ player[Host].playing
    /\ Broadcast(player[Host])
    /\ UNCHANGED <<wire, down, server, generation, socket, joined, pendingJoin,
                   inSession, autoRejoin, reconnectPending, connectionState, stale,
                   sessionActive, roster, guestData, localSource, shareUrl, player>>

\* setLocalFileInfo on the host: a file of its own ends the sharing of a link.
SetLocalFileInfo(f) ==
    /\ actions < MaxActions
    /\ actions' = actions + 1
    /\ f \in Urls => shareUrl = f
    /\ localSource' = f
    /\ shareUrl' = IF f \in Urls THEN shareUrl ELSE NoUrl
    /\ Post(Host, Guarded(Host, IF sessionActive[Host] /\ guestCount[Host] > 0
                                THEN <<FileFrame(f)>> ELSE <<>>))
    /\ UNCHANGED <<wire, down, server, generation, socket, joined, pendingJoin,
                   inSession, autoRejoin, reconnectPending, connectionState, stale,
                   sessionActive, roster, guestData, localStateSeq, published, player>>

\* shareOpenUrl on the host: told at once to the guests it knows of.
ShareOpenUrl(u) ==
    /\ actions < MaxActions
    /\ actions' = actions + 1
    /\ shareUrl' = u
    /\ Post(Host, Guarded(Host, IF sessionActive[Host] /\ guestCount[Host] > 0
                                THEN <<UrlFrame(u)>> ELSE <<>>))
    /\ UNCHANGED <<wire, down, server, generation, socket, joined, pendingJoin,
                   inSession, autoRejoin, reconnectPending, connectionState, stale,
                   sessionActive, roster, guestData, localSource, localStateSeq,
                   published, player>>

----------------------------------------------------------------------------
(* The connections.  A break or a refusal is possible while the instance   *)
(* has a connection left to come back on; only the first MaxBreaks can     *)
(* break once they are made, any attempt can be refused.                   *)

Open(s) == running /\ WireOpen(s) /\ UNCHANGED <<server, client, session, actions>>

MayFail(s) == s[1] \in MayDrop /\ generation[s[1]] < MaxConnections[s[1]]

Refuse(s) == MayFail(s) /\ WireRefuse(s) /\ UNCHANGED <<server, client, session, actions>>
Drop(s) ==
    /\ MayFail(s) /\ s[2] <= MaxBreaks
    /\ WireDrop(s)
    /\ UNCHANGED <<server, client, session, actions>>

----------------------------------------------------------------------------

\* Everybody has started the program, perhaps opened a film and watched some
\* of it alone.
Init ==
    /\ NetInit
    /\ ServerInit
    /\ generation = [p \in Peers |-> 0]
    /\ socket = [p \in Peers |-> NoSocket]
    /\ joined = [p \in Peers |-> FALSE]
    /\ pendingJoin = [p \in Peers |-> FALSE]
    /\ inSession = [p \in Peers |-> FALSE]
    /\ autoRejoin = [p \in Peers |-> FALSE]
    /\ reconnectPending = [p \in Peers |-> FALSE]
    /\ connectionState = [p \in Peers |-> "Idle"]
    /\ pendingOutgoing = [p \in Peers |-> <<>>]
    /\ stale = [p \in Peers |-> <<>>]
    /\ sessionActive = [p \in Peers |-> FALSE]
    /\ hostOnline = [p \in Peers |-> FALSE]
    /\ guestCount = [p \in Peers |-> 0]
    /\ localStateSeq = 0
    /\ lastRemoteSeq = [p \in Peers |-> 0]
    /\ remote = [p \in Peers |-> NoState]
    /\ localSource \in StartSources
    /\ remoteSource = [p \in Peers |-> NoSource]
    /\ shareUrl = NoUrl
    /\ offeredUrl = [p \in Peers |-> NoUrl]
    /\ player \in StartPlayers
    /\ actions = 0
    /\ published = <<>>

ServerStep(s) == ServerTask(s) /\ UNCHANGED <<client, session, actions>>

Next ==
    \/ StartHostSession
    \/ Heartbeat
    \/ \E f \in Sources \cup Urls : SetLocalFileInfo(f)
    \/ \E u \in Urls : ShareOpenUrl(u)
    \/ \E g \in Guests : JoinSession(g) \/ LeaveSession(g)
    \/ \E p \in Peers :
          \/ HandleEvent(p) \/ Reconnect(p)
          \/ \E cmd \in Commands : UserCommand(p, cmd)
    \/ \E s \in Sockets : ServerStep(s) \/ Open(s) \/ Refuse(s) \/ Drop(s)

Spec == Init /\ [][Next]_vars

\* The UI thread pumps both queues every frame and looks at the reconnect
\* timer; a handshake with a running server completes unless it fails.
FairSpec ==
    /\ Spec
    /\ \A p \in Peers : WF_vars(HandleEvent(p)) /\ WF_vars(Reconnect(p))
    /\ \A s \in Sockets : WF_vars(ServerStep(s)) /\ WF_vars(Open(s))

----------------------------------------------------------------------------
(* Properties.                                                             *)

SourceValues == Sources \cup Urls \cup {NoSource}
UrlValues == Urls \cup {NoUrl}

Frames ==
    [type : {"accepted", "opened", "closed", "pong"}]
      \cup [type : {"join"}, code : Codes, role : {"host", "guest"}]
      \cup [type : {"state"}, state : PlayStates, seq : Nat]
      \cup [type : {"file"}, source : SourceValues]
      \cup [type : {"open_url"}, url : UrlValues]
      \cup [type : {"intent"}, command : Commands]
      \cup [type : {"peer_update"}, host : BOOLEAN, guests : Nat]

TypeOK ==
    /\ ServerTypeOK
    /\ wire \in [Sockets -> WireStates]
    /\ up \in [Sockets -> Seq(Frames)]
    /\ down \in [Sockets -> Seq(Frames)]
    /\ generation \in [Peers -> Nat]
    /\ socket \in [Peers -> Sockets \cup {NoSocket}]
    /\ joined \in [Peers -> BOOLEAN]
    /\ pendingJoin \in [Peers -> BOOLEAN]
    /\ inSession \in [Peers -> BOOLEAN]
    /\ autoRejoin \in [Peers -> BOOLEAN]
    /\ reconnectPending \in [Peers -> BOOLEAN]
    /\ connectionState \in [Peers -> ConnectionStates]
    /\ pendingOutgoing \in [Peers -> Seq(Frames)]
    /\ stale \in [Peers -> Seq(Frames)]
    /\ sessionActive \in [Peers -> BOOLEAN]
    /\ hostOnline \in [Peers -> BOOLEAN]
    /\ guestCount \in [Peers -> Nat]
    /\ localStateSeq \in Nat
    /\ lastRemoteSeq \in [Peers -> Nat]
    /\ remote \in [Peers -> PlayStates \cup {NoState}]
    /\ localSource \in SourceValues
    /\ remoteSource \in [Peers -> SourceValues]
    /\ shareUrl \in UrlValues
    /\ offeredUrl \in [Peers -> UrlValues]
    /\ player \in [Peers -> PlayStates]
    /\ actions \in Nat
    /\ published \in Seq(PlayStates)

\* Nothing is under way: no frame, no callback, no handshake, no reconnect.
Settled ==
    /\ \A s \in Sockets : up[s] = <<>> /\ down[s] = <<>> /\ wire[s] # "connecting"
    /\ \A p \in Peers : stale[p] = <<>> /\ ~reconnectPending[p]

Watching(g) == CanSend(Host) /\ CanSend(g) /\ localSource # NoSource

\* onRelayState drops a state whose number is not above the last one taken, so
\* the host must never be behind a guest: the next state it numbers is taken
\* by every guest, whatever was lost, repeated or queued before.
NextStateIsTaken ==
    \A g \in Guests : lastRemoteSeq[g] <= localStateSeq

\* When everything has arrived, everyone connected knows who is there:
\* the host's guest count is what sendStateNow and the heartbeat go by, the
\* guests' view of the host is what requestOnly goes by.
RosterSettles ==
    Settled =>
       \A p \in Peers : CanSend(p) =>
          /\ guestCount[p] = Cardinality({g \in Guests : CanSend(g)})
          /\ hostOnline[p] = CanSend(Host)

\* When everything has arrived, every guest verifies its file against what the
\* host has open now, also after either lost its connection.
SourceSettles ==
    Settled => \A g \in Guests : Watching(g) => remoteSource[g] = localSource

\* When everything has arrived, every guest plays what the host plays, as long
\* as the host's own connection lasts (ReconnectResyncsState is about the rest).
InStep ==
    Settled /\ generation[Host] <= 1 =>
       \A g \in Guests : Watching(g) => player[g] = player[Host]

\* Everyone who was in the session comes back after losing the connection.
EveryoneComesBack ==
    <>[](\A p \in Peers : inSession[p] => CanSend(p))

\* Whatever the users do, the guests end up playing what the host plays.
GuestsCatchUp ==
    <>[](\A g \in Guests : Watching(g) => player[g] = player[Host])

\* docs/04-sync-algorithm.md:143: when the host's connection comes back it
\* re-pushes "current state, so guests resync automatically after a blip".
\* A paused host sends no heartbeat, so once everything has arrived the guests
\* must have that state.
ReconnectResyncsState ==
    Settled /\ ~player[Host].playing =>
       \A g \in Guests : Watching(g) => player[g] = player[Host]

\* The session implements the log of HostLog: through outages, reconnects and
\* callbacks queued by connections given up, every guest shows a state the host
\* captured, under the number the host gave it, and never an older one.
Log == INSTANCE HostLog WITH
           States  <- PlayStates,
           log     <- published,
           applied <- [g \in Guests |-> lastRemoteSeq[g]],
           view    <- [g \in Guests |-> remote[g]]

ImplementsHostLog == Log!LogSpec
=============================================================================
