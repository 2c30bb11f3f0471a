----------------------------- MODULE FileShare -----------------------------
(***************************************************************************)
(* Files shared in a watch party: sendSharedFile, onShareSendTick and the  *)
(* onShare...Received handlers of sync/sync_session.cpp on every instance, *)
(* over the relay server.  A step is one queued callback, one send tick,   *)
(* one click of the user, or something outside: the network, the disk,     *)
(* another program that writes to a file while it is being sent.           *)
(*                                                                         *)
(* A file is the sequence of its units, <<id, 1>>, <<id, 2>>, ...; a chunk *)
(* is up to ChunkSize of them, and a SHA-1 is the sequence it was computed *)
(* of.  The party is complete at the start.  The client is reduced to what *)
(* the transfers see of it: the session is never stopped by the host, who  *)
(* leaves it does not come back, and a connection that broke is made again *)
(* (SessionSync has the client in full).  isConnected() and isJoined() are *)
(* taken to hold for the whole of a handler that has tested them.          *)
(*                                                                         *)
(* The disk is that of Windows, the only platform built for: any number of *)
(* streams may have a file open for writing, but a file that another       *)
(* stream has open can be neither removed nor renamed.  What a stream was  *)
(* given counts as written, until closing it fails to flush the rest.      *)
(***************************************************************************)
EXTENDS SignalingServer

CONSTANTS Host, Guests,      \* the instances
          MaxConnections,    \* bound: connections instance p makes in all
          SessionCode,       \* the code of the session
          MayDrop,           \* instances whose connection may break
          MayLeave,          \* guests whose user may leave the session
          Shares,            \* share ids: each is sent at most once
          NoShare, NoFile,   \* no entry in a map of shares, no file in a directory
          Owner, Size,       \* of a share: its sender, the file's size
          MaxNumber,         \* 999: the last number resolveSharePath tries
          Candidate,         \* of a share and a number: the path with it, at 0 as sent
          Generated,         \* of a share: the path made up when no number is free
          PartOf,            \* of a path: the one with ".part" behind it
          Existing,          \* files that were in Downloads before
          ChunkSize,         \* m_shareChunkSize
          MayChange,         \* shares whose file may change after it was announced
          DiskMayFail,       \* a write, a flush or a rename may fail at a receiver
          Overlap,           \* bound: whether files may be on their way whose names clash
          MaxQueue           \* bound: frames on their way to the server when more are sent

Peers == Guests \cup {Host}

\* Where a transfer may put its file, and all files there can be in Downloads:
\* one name space, in which "film (1).mkv" and "film.mkv.part" are also names
\* somebody may send.  Paths that Windows takes for one file are equal.
FinalPaths == {Candidate[id][n] : id \in Shares, n \in 0 .. MaxNumber}
                 \cup {Generated[id] : id \in Shares}
TempPaths  == {PartOf[f] : f \in FinalPaths}
Paths == FinalPaths \cup TempPaths \cup Existing

ASSUME PeersAssumption == Host \notin Guests /\ IsFiniteSet(Guests)
ASSUME ConnectionsAssumption ==
    /\ MaxConnections \in [Peers -> Nat \ {0}]
    /\ Sockets = UNION {{p} \X (1 .. MaxConnections[p]) : p \in Peers}
ASSUME SharesAssumption ==
    /\ SessionCode \in Codes
    /\ MayDrop \subseteq Peers /\ MayLeave \subseteq Guests /\ MayChange \subseteq Shares
    /\ IsFiniteSet(Shares)
    /\ Owner \in [Shares -> Peers]
    /\ Size \in [Shares -> Nat \ {0}]     \* sendSharedFile refuses an empty file
    /\ ChunkSize \in Nat \ {0}
    /\ MaxNumber \in Nat
    /\ DiskMayFail \in BOOLEAN /\ Overlap \in BOOLEAN /\ MaxQueue \in Nat

\* Nobody has a path for which generateId made up the name, nor its ".part".
ASSUME PathsAssumption ==
    /\ \A f, g \in FinalPaths : PartOf[f] = PartOf[g] => f = g
    /\ \A id \in Shares :
          LET names == {Candidate[x][n] : x \in Shares, n \in 0 .. MaxNumber} \cup Existing
          IN  /\ Generated[id] \notin names \cup TempPaths
              /\ PartOf[Generated[id]] \notin names
              /\ \A other \in Shares \ {id} : Generated[other] # Generated[id]

VARIABLES
    \* SignalingClient of p
    socket,           \* m_socket
    joined,           \* m_joined
    reconnectPending, \* m_reconnectPending
    \* SyncSession of p
    sessionActive,    \* m_sessionActive
    shareSendActive,  \* m_shareSendActive
    outgoingQueue,    \* m_outgoingQueue
    outgoingShares,   \* m_outgoingShares
    incomingShares,   \* m_incomingShares
    \* outside
    length,           \* the file of a share on its sender's disk: its length now
    downloads,        \* the Downloads directory of p
    shown,            \* ChatLine::status of a share in the chat of p
    savedAs,          \* ChatLine::filePath of a share in the chat of p
    cutShort          \* bookkeeping: <<p, id>> whose last flush failed unnoticed at p

client == <<socket, joined, reconnectPending>>
sending == <<shareSendActive, outgoingQueue, outgoingShares>>
receiving == <<incomingShares, downloads, savedAs, cutShort>>
vars == <<net, server, client, sessionActive, sending, receiving, length, shown>>

----------------------------------------------------------------------------
(* Data.                                                                   *)

Units(id, from, to) == [i \in 1 .. to - from |-> <<id, from + i>>]
Content(id, n)      == Units(id, 0, n)
Zero == <<"zero", 0>>       \* what a write past the end of a file leaves before it
Old  == <<Zero>>            \* a file of something else

TotalChunks(id) == (Size[id] + ChunkSize - 1) \div ChunkSize

JoinFrame(p) ==
    [type |-> "join", code |-> SessionCode, role |-> IF p = Host THEN "host" ELSE "guest"]
ShareMeta(id)           == [type |-> "share_meta", id |-> id]
ShareChunk(id, i, data) == [type |-> "share_chunk", id |-> id, index |-> i, data |-> data]
ShareDone(id, sha1)     == [type |-> "share_done", id |-> id, sha1 |-> sha1]

\* A slip to check against: the name is taken as it comes.
NameAsSent(p, id) == Candidate[id][0]

\* resolveSharePath: the first number whose file does not exist.
SharePath(p, id) ==
    LET free == {n \in 0 .. MaxNumber : downloads[p][Candidate[id][n]] = NoFile}
    IN  IF free = {} THEN Generated[id]
        ELSE Candidate[id][CHOOSE n \in free : \A m \in free : n <= m]

\* Some number makes one path of the names of two shares.
Clash(x, y) == \E i, j \in 0 .. MaxNumber : Candidate[x][i] = Candidate[y][j]

----------------------------------------------------------------------------
(* Queries.                                                                *)

\* isConnected() && isJoined()
CanSend(p) == Live(socket[p]) /\ joined[p]

Incoming(p) == {id \in Shares : incomingShares[p][id] # NoShare}
Outgoing(p) == {id \in Shares : Owner[id] = p /\ outgoingShares[id] # NoShare}

Temp(p, id) == PartOf[incomingShares[p][id].finalPath]

\* Another transfer than that of id has the file open.
Held(p, f, id) == \E other \in Incoming(p) \ {id} : Temp(p, other) = f

Show(p, id, status) == shown' = [shown EXCEPT ![p][id] = status]
Erase(p, id) == incomingShares' = [incomingShares EXCEPT ![p][id] = NoShare]

----------------------------------------------------------------------------
(* The sender.                                                             *)

SendFrames(p, frames) == up' = [up EXCEPT ![socket[p]] = @ \o frames]

\* A slip to check against: the timer is armed before the queue is looked at.
ArmIfQueued(p) ==
    shareSendActive' = [shareSendActive EXCEPT ![p] = @ \/ outgoingQueue[p] # <<>>]

Arm(p) == shareSendActive' = [shareSendActive EXCEPT ![p] = TRUE]

\* Files whose names clash one after the other: nobody is still sending or
\* receiving one, nor is a frame of one on its way.
NameIsFree(id) ==
    \A other \in Shares \ {id} : Clash(other, id) =>
       /\ outgoingShares[other] = NoShare
       /\ \A p \in Peers : other \notin Incoming(p)
       /\ \A s \in Sockets : \A f \in {up[s][i] : i \in DOMAIN up[s]}
                                 \cup {down[s][i] : i \in DOMAIN down[s]} :
             f.type = "share_meta" => f.id # other

\* sendSharedFile
SendSharedFile(id) ==
    LET p == Owner[id]
    IN  /\ shown[p][id] = "none"
        /\ Overlap \/ NameIsFree(id)
        /\ Len(up[socket[p]]) <= MaxQueue
        /\ CanSend(p)
        /\ outgoingShares' = [outgoingShares EXCEPT ![id] = [sent |-> 0, chunkIndex |-> 0]]
        /\ outgoingQueue' = [outgoingQueue EXCEPT ![p] = Append(@, id)]
        /\ SendFrames(p, <<ShareMeta(id)>>)
        /\ Arm(p)
        /\ Show(p, id, "sending")
        /\ UNCHANGED <<wire, down, server, client, sessionActive, receiving, length>>

\* Behind the others, so that they take turns.
QueueAfterChunk(p) == Append(Tail(outgoingQueue[p]), Head(outgoingQueue[p]))

\* The head of the queue is dropped, with the status its user sees in the end.
Finish(p, frames, status) ==
    LET id == Head(outgoingQueue[p])
    IN  /\ outgoingQueue' = [outgoingQueue EXCEPT ![p] = Tail(@)]
        /\ outgoingShares' = [outgoingShares EXCEPT ![id] = NoShare]
        /\ SendFrames(p, frames)
        /\ Show(p, id, status)

\* A slip to check against: more than was announced is sent, if it is there.
GrownUnnoticed(id, nextSent) == FALSE

Grown(id, nextSent) == nextSent > Size[id]

\* onShareSendTick with a share at the head of the queue.  A read shorter than
\* a chunk is the last one.
SendNext(p) ==
    LET id       == Head(outgoingQueue[p])
        share    == outgoingShares[id]
        nextSent == IF length[id] < share.sent + ChunkSize THEN length[id]
                    ELSE share.sent + ChunkSize
        chunk    == ShareChunk(id, share.chunkIndex, Units(id, share.sent, nextSent))
        atEnd    == nextSent < share.sent + ChunkSize
    IN  /\ outgoingQueue[p] # <<>>
        /\ Len(up[socket[p]]) <= MaxQueue
        /\ CanSend(p)
        /\ \/ /\ share.sent >= Size[id]
              /\ Finish(p, <<ShareDone(id, Content(id, share.sent))>>, "sent")
           \/ /\ share.sent < Size[id]
              /\ nextSent <= share.sent \/ Grown(id, nextSent)
              /\ Finish(p, <<>>, "failed")
           \/ /\ share.sent < Size[id] /\ nextSent > share.sent
              /\ ~Grown(id, nextSent) /\ atEnd
              /\ Finish(p, <<chunk, ShareDone(id, Content(id, nextSent))>>, "sent")
           \/ /\ share.sent < Size[id] /\ nextSent > share.sent
              /\ ~Grown(id, nextSent) /\ ~atEnd
              /\ outgoingShares' = [outgoingShares EXCEPT
                    ![id] = [sent |-> nextSent, chunkIndex |-> share.chunkIndex + 1]]
              /\ outgoingQueue' = [outgoingQueue EXCEPT ![p] = QueueAfterChunk(p)]
              /\ SendFrames(p, <<chunk>>)
              /\ UNCHANGED shown
        /\ UNCHANGED shareSendActive

\* tick: onShareSendTick, every m_shareSendInterval while m_shareSendActive.
ShareSendTick(p) ==
    /\ shareSendActive[p]
    /\ \/ /\ outgoingQueue[p] = <<>>
          /\ shareSendActive' = [shareSendActive EXCEPT ![p] = FALSE]
          /\ UNCHANGED <<up, outgoingQueue, outgoingShares, shown>>
       \/ SendNext(p)
    /\ UNCHANGED <<wire, down, server, client, sessionActive, receiving, length>>

----------------------------------------------------------------------------
(* The receiver.                                                           *)

\* onShareMetaReceived: the temporary file is made, or emptied if it exists.
OnShareMeta(p) ==
    LET id == Head(down[socket[p]]).id
        finalPath == SharePath(p, id)
    IN  /\ Head(down[socket[p]]).type = "share_meta"
        /\ \/ /\ id \notin Incoming(p)
              /\ incomingShares' = [incomingShares EXCEPT
                    ![p][id] = [finalPath |-> finalPath, received |-> <<>>, receivedChunks |-> 0]]
              /\ downloads' = [downloads EXCEPT ![p][PartOf[finalPath]] = <<>>]
              /\ savedAs' = [savedAs EXCEPT ![p][id] = finalPath]
              /\ Show(p, id, "receiving")
              /\ UNCHANGED cutShort
           \/ /\ id \in Incoming(p) \/ DiskMayFail
              /\ UNCHANGED <<receiving, shown>>
        /\ UNCHANGED <<up, client>>

\* A write at a position of its own stream into a file others may write to.
Written(file, at, data) ==
    [k \in 1 .. (IF Len(file) > at + Len(data) THEN Len(file) ELSE at + Len(data)) |->
        IF k \in at + 1 .. at + Len(data) THEN data[k - at]
        ELSE IF k <= Len(file) THEN file[k] ELSE Zero]

\* The directory after filesystem::remove of files, when the transfer is over.
Removed(p, files, id) ==
    [f \in Paths |-> IF f \in files /\ ~Held(p, f, id) THEN NoFile ELSE downloads[p][f]]

\* A transfer ends without a file; files is what it removes.
GiveUp(p, id, files) ==
    /\ Erase(p, id)
    /\ downloads' = [downloads EXCEPT ![p] = Removed(p, files, id)]
    /\ Show(p, id, "failed")
    /\ UNCHANGED cutShort

\* failIncomingShare
FailIncomingShare(p, id) == GiveUp(p, id, {Temp(p, id)})

\* Slips to check against: the last chunk is refused; any chunk is taken.
ButTheLast(id, share, index, data) ==
    /\ index = share.receivedChunks
    /\ share.receivedChunks < TotalChunks(id) - 1
    /\ Len(share.received) + Len(data) <= Size[id]
AnyChunk(id, share, index, data) == TRUE

\* The chunk onShareChunkReceived takes: the next, of those that were announced.
Acceptable(id, share, index, data) ==
    /\ index = share.receivedChunks
    /\ share.receivedChunks < TotalChunks(id)
    /\ Len(share.received) + Len(data) <= Size[id]

\* onShareChunkReceived
OnShareChunk(p) ==
    LET id    == Head(down[socket[p]]).id
        data  == Head(down[socket[p]]).data
        share == incomingShares[p][id]
        good  == Acceptable(id, share, Head(down[socket[p]]).index, data)
    IN  /\ Head(down[socket[p]]).type = "share_chunk"
        /\ \/ /\ id \notin Incoming(p)
              /\ UNCHANGED <<incomingShares, downloads, cutShort, shown>>
           \/ /\ id \in Incoming(p)
              /\ ~good \/ DiskMayFail
              /\ FailIncomingShare(p, id)
           \/ /\ id \in Incoming(p)
              /\ good
              /\ incomingShares' = [incomingShares EXCEPT
                    ![p][id].received = @ \o data, ![p][id].receivedChunks = @ + 1]
              /\ downloads' = [downloads EXCEPT
                    ![p][Temp(p, id)] = Written(@, Len(share.received), data)]
              /\ UNCHANGED <<cutShort, shown>>
        /\ UNCHANGED <<up, client, savedAs>>

Complete(id, share, sha1) ==
    /\ Len(share.received) = Size[id]
    /\ share.receivedChunks = TotalChunks(id)
    /\ share.received = sha1

\* onShareDoneReceived: what has the name is removed and the file takes it, unless
\* something has either open.  Nobody asks whether closing the stream succeeded:
\* what it could not flush is missing from then on.
OnShareDone(p) ==
    LET id    == Head(down[socket[p]]).id
        share == incomingShares[p][id]
        temp  == Temp(p, id)
        whole == Complete(id, share, Head(down[socket[p]]).sha1)
        held  == Held(p, temp, id) \/ Held(p, share.finalPath, id)
    IN  /\ Head(down[socket[p]]).type = "share_done"
        /\ \/ /\ id \notin Incoming(p)
              /\ UNCHANGED <<incomingShares, downloads, cutShort, shown>>
           \/ /\ id \in Incoming(p)
              /\ ~whole
              /\ FailIncomingShare(p, id)
           \/ /\ id \in Incoming(p)
              /\ whole
              /\ held \/ DiskMayFail
              /\ GiveUp(p, id, {temp, share.finalPath})
           \/ /\ id \in Incoming(p)
              /\ whole /\ ~held
              /\ Erase(p, id)
              /\ \E n \in 0 .. Len(downloads[p][temp]) :
                    LET cut == n < Len(downloads[p][temp])
                    IN  /\ cut => DiskMayFail
                        /\ downloads' = [downloads EXCEPT
                              ![p][share.finalPath] = SubSeq(downloads[p][temp], 1, n),
                              ![p][temp] = NoFile]
                        /\ cutShort' = IF cut THEN cutShort \cup {<<p, id>>} ELSE cutShort
              /\ Show(p, id, "received")
        /\ UNCHANGED <<up, client, savedAs>>

----------------------------------------------------------------------------
(* The client, as far as the transfers depend on it.                       *)

\* onConnected: the join is sent; nothing is left in m_pendingOutgoing.
OnConnected(p) ==
    /\ Head(down[socket[p]]).type = "opened"
    /\ IF Live(socket[p])
       THEN /\ joined' = [joined EXCEPT ![p] = TRUE]
            /\ SendFrames(p, <<JoinFrame(p)>>)
       ELSE UNCHANGED <<joined, up>>
    /\ UNCHANGED <<socket, reconnectPending, receiving, shown>>

\* onDisconnected: who has not left comes back.
OnDisconnected(p) ==
    /\ Head(down[socket[p]]).type = "closed"
    /\ joined' = [joined EXCEPT ![p] = FALSE]
    /\ reconnectPending' = [reconnectPending EXCEPT ![p] = sessionActive[p]]
    /\ UNCHANGED <<up, socket, receiving, shown>>

\* onRelayPeerUpdate does nothing to the transfers.
OnPeerUpdate(p) ==
    /\ Head(down[socket[p]]).type = "peer_update"
    /\ UNCHANGED <<up, client, receiving, shown>>

HandleEvent(p) ==
    /\ down[socket[p]] # <<>>
    /\ down' = [down EXCEPT ![socket[p]] = Tail(@)]
    /\ \/ OnShareMeta(p) \/ OnShareChunk(p) \/ OnShareDone(p)
       \/ OnConnected(p) \/ OnDisconnected(p) \/ OnPeerUpdate(p)
    /\ UNCHANGED <<wire, server, sessionActive, sending, length>>

\* maintainReconnect
Reconnect(p) ==
    LET new == <<p, socket[p][2] + 1>>
    IN  /\ reconnectPending[p]
        /\ new \in Sockets
        /\ socket' = [socket EXCEPT ![p] = new]
        /\ wire' = [wire EXCEPT ![new] = "connecting"]
        /\ reconnectPending' = [reconnectPending EXCEPT ![p] = FALSE]
        /\ UNCHANGED <<up, down, server, joined, sessionActive, sending, receiving,
                       length, shown>>

\* disconnectSession of a guest: the streams are closed, so what they wrote
\* stays in the temporary files.  Callbacks queued before still run.
LeaveSession(g) ==
    LET s == socket[g]
    IN  /\ g \in MayLeave
        /\ sessionActive[g]
        /\ sessionActive' = [sessionActive EXCEPT ![g] = FALSE]
        /\ joined' = [joined EXCEPT ![g] = FALSE]
        /\ reconnectPending' = [reconnectPending EXCEPT ![g] = FALSE]
        /\ wire' = [wire EXCEPT ![s] = "down"]
        /\ up' = IF Live(s) THEN [up EXCEPT ![s] = Append(@, Closed)] ELSE up
        /\ \E i \in 0 .. Len(down[s]) : down' = [down EXCEPT ![s] = SubSeq(@, 1, i)]
        /\ outgoingQueue' = [outgoingQueue EXCEPT ![g] = <<>>]
        /\ outgoingShares' = [id \in Shares |-> IF Owner[id] = g THEN NoShare
                                                ELSE outgoingShares[id]]
        /\ incomingShares' = [incomingShares EXCEPT ![g] = [id \in Shares |-> NoShare]]
        /\ shareSendActive' = [shareSendActive EXCEPT ![g] = FALSE]
        /\ UNCHANGED <<server, socket, downloads, savedAs, cutShort, length, shown>>

----------------------------------------------------------------------------
(* Outside.                                                                *)

\* Another program shortens the file or adds to it while it is being sent.
ChangeFile(id) ==
    /\ id \in MayChange
    /\ outgoingShares[id] # NoShare
    /\ length[id] = Size[id]
    /\ \E n \in (0 .. Size[id] + 1) \ {Size[id]} : length' = [length EXCEPT ![id] = n]
    /\ UNCHANGED <<net, server, client, sessionActive, sending, receiving, shown>>

Open(s) ==
    /\ WireOpen(s)
    /\ UNCHANGED <<server, client, sessionActive, sending, receiving, length, shown>>

\* A connection may break while the instance has another one left.
Drop(s) ==
    /\ s[1] \in MayDrop
    /\ s[2] < MaxConnections[s[1]]
    /\ WireDrop(s)
    /\ UNCHANGED <<server, client, sessionActive, sending, receiving, length, shown>>

----------------------------------------------------------------------------

First(p) == <<p, 1>>

Init ==
    /\ wire = [s \in Sockets |-> IF s[2] = 1 THEN "up" ELSE "idle"]
    /\ up = [s \in Sockets |-> <<>>]
    /\ down = [s \in Sockets |-> <<>>]
    /\ running = TRUE
    /\ peers = [s \in Sockets |->
          IF s[2] # 1 THEN Absent
          ELSE [code |-> SessionCode, role |-> IF s[1] = Host THEN "host" ELSE "guest"]]
    /\ sessionOf = [c \in Codes |-> IF c = SessionCode THEN c ELSE NoCode]
    /\ host = [c \in Codes |-> IF c = SessionCode THEN First(Host) ELSE NoSocket]
    /\ guests = [c \in Codes |-> IF c = SessionCode THEN {First(g) : g \in Guests} ELSE {}]
    /\ socket = [p \in Peers |-> First(p)]
    /\ joined = [p \in Peers |-> TRUE]
    /\ reconnectPending = [p \in Peers |-> FALSE]
    /\ sessionActive = [p \in Peers |-> TRUE]
    /\ shareSendActive = [p \in Peers |-> FALSE]
    /\ outgoingQueue = [p \in Peers |-> <<>>]
    /\ outgoingShares = [id \in Shares |-> NoShare]
    /\ incomingShares = [p \in Peers |-> [id \in Shares |-> NoShare]]
    /\ length = Size
    /\ downloads = [p \in Peers |-> [f \in Paths |-> IF f \in Existing THEN Old ELSE NoFile]]
    /\ shown = [p \in Peers |-> [id \in Shares |-> "none"]]
    /\ savedAs = [p \in Peers |-> [id \in Shares |-> NoFile]]
    /\ cutShort = {}

ServerStep(s) ==
    /\ ServerTask(s)
    /\ UNCHANGED <<client, sessionActive, sending, receiving, length, shown>>

Next ==
    \/ \E id \in Shares : SendSharedFile(id) \/ ChangeFile(id)
    \/ \E p \in Peers : ShareSendTick(p) \/ HandleEvent(p) \/ Reconnect(p)
    \/ \E g \in Guests : LeaveSession(g)
    \/ \E s \in Sockets : ServerStep(s) \/ Open(s) \/ Drop(s)

Spec == Init /\ [][Next]_vars

\* The frame loop runs the tick, both queues and the reconnect timer; a
\* handshake with the running server completes.
FairSpec ==
    /\ Spec
    /\ \A p \in Peers : WF_vars(ShareSendTick(p)) /\ WF_vars(HandleEvent(p))
                          /\ WF_vars(Reconnect(p))
    /\ \A s \in Sockets : WF_vars(ServerStep(s)) /\ WF_vars(Open(s))

----------------------------------------------------------------------------
(* Properties.                                                             *)

UnitsOf == {Zero} \cup (Shares \X (Nat \ {0}))

OutgoingShare(id) == [sent : 0 .. Size[id], chunkIndex : 0 .. TotalChunks(id)]
IncomingShare(id) ==
    [finalPath : FinalPaths, received : Seq(UnitsOf), receivedChunks : Nat]

\* What is missing is neither a file nor a transfer nor a name.
ASSUME MissingAssumption ==
    /\ NoFile \notin Seq(UnitsOf) /\ NoFile \notin FinalPaths
    /\ \A id \in Shares : NoShare \notin OutgoingShare(id) \cup IncomingShare(id)

\* Every variable has its type, and no sender is past the size it announced.
TypeOK ==
    /\ ServerTypeOK
    /\ wire \in [Sockets -> WireStates]
    /\ socket \in [Peers -> Sockets]
    /\ joined \in [Peers -> BOOLEAN]
    /\ reconnectPending \in [Peers -> BOOLEAN]
    /\ sessionActive \in [Peers -> BOOLEAN]
    /\ shareSendActive \in [Peers -> BOOLEAN]
    /\ outgoingQueue \in [Peers -> Seq(Shares)]
    /\ \A id \in Shares : outgoingShares[id] \in OutgoingShare(id) \cup {NoShare}
    /\ \A p \in Peers, id \in Shares :
          incomingShares[p][id] \in IncomingShare(id) \cup {NoShare}
    /\ length \in [Shares -> Nat]
    /\ downloads \in [Peers -> [Paths -> Seq(UnitsOf) \cup {NoFile}]]
    /\ shown \in [Peers -> [Shares -> {"none", "sending", "sent", "receiving",
                                       "received", "failed"}]]
    /\ savedAs \in [Peers -> [Shares -> FinalPaths \cup {NoFile}]]
    /\ cutShort \subseteq Peers \X Shares

\* The file that the chat gives the name of is the one that was announced, or
\* what was left of it when it was closed.
IsAnnounced(p, id) ==
    \E n \in 0 .. Size[id] :
       /\ n = Size[id] \/ <<p, id>> \in cutShort
       /\ downloads[p][savedAs[p][id]] = Content(id, n)

\* A file that the chat shows as received is, and stays, the file that was
\* announced: under the name the chat gives, all of it, in order, and nothing
\* else, whatever was lost on the way and however the sender's file changed.  Only
\* where closing the file failed (sync_session.cpp:831 does not look) it is a
\* beginning of it.  And it took the place of no file that was there before.
ReceivedIntact ==
    \A p \in Peers :
       /\ \A id \in Shares : shown[p][id] = "received" => IsAnnounced(p, id)
       /\ \A f \in Existing \ TempPaths : downloads[p][f] = Old

\* Who has not left has no temporary file but those of transfers that go on:
\* a transfer that failed or is over leaves none behind.
PartFilesAreInUse ==
    \A p \in Peers : sessionActive[p] =>
       \A f \in TempPaths \ Existing : downloads[p][f] # NoFile =>
          \E id \in Incoming(p) : Temp(p, id) = f

\* While a transfer goes on, what its stream was given is a beginning of the file.
PartIsBeginning ==
    \A p \in Peers : \A id \in Incoming(p) :
       downloads[p][Temp(p, id)] = Content(id, Len(incomingShares[p][id].received))

\* Together: a temporary file is always that of one transfer, which may go on with it.
PartFilesAreSound == PartFilesAreInUse /\ PartIsBeginning

\* Every instance is still on the connection it started with, and no file has
\* another size than was announced.
Untroubled ==
    /\ \A p \in Peers : sessionActive[p] /\ socket[p] = First(p) /\ Live(First(p))
    /\ length = Size

\* If no connection ever broke and no file changed, a file whose transfer has
\* ended at its sender is received everywhere as soon as nothing is on its way,
\* however the transfers took turns.
FilesArrive ==
    Untroubled /\ (\A s \in Sockets : up[s] = <<>> /\ down[s] = <<>>) =>
       \A id \in Shares : shown[Owner[id]][id] \in {"sent", "failed"} =>
          \A p \in Peers \ {Owner[id]} : shown[p][id] = "received"

\* The sender is told how it ended, whatever happens to connections and files.
SendersAreTold ==
    \A id \in Shares : shown[Owner[id]][id] = "sending" ~>
       shown[Owner[id]][id] \in {"sent", "failed"}
=============================================================================
