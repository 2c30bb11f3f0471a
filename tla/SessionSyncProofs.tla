------------------------- MODULE SessionSyncProofs -------------------------
(***************************************************************************)
(* For any set of guests, any number of connections and any number of      *)
(* breaks: the state of a watch party is well typed, and the host's next   *)
(* state is new to every guest (SyncSession::onRelayState takes it).       *)
(*                                                                         *)
(* Neither is inductive by itself.  A guest takes the number of a state    *)
(* frame out of a queue, so what has to be preserved is that no frame      *)
(* anywhere - on its way, queued for a connection, or left over from a     *)
(* connection that was given up - carries a number the host has not given  *)
(* yet, or a state other than the one captured under its number.  And the  *)
(* one place where the host sets its counter back, startHostSession, is    *)
(* harmless only because nothing was numbered before: NotStarted says so.  *)
(* From the same invariant follows that the session implements HostLog.    *)
(*                                                                         *)
(* What holds once the party has settled is proved from what is kept at    *)
(* every step of what is still to come.  Links ties the queues of a        *)
(* connection to what the server and the client make of it.  Over it,      *)
(* Informing: the last peer_update on its way to whoever has a seat, or    *)
(* what it knows if there is none, is the room as it is; and Comebacks:    *)
(* who is in the session and not connected tries again.  From these        *)
(* follows RosterSettles.                                                  *)
(***************************************************************************)
EXTENDS SessionSync, SequenceTheorems, FiniteSetTheorems, TLAPS

\* The frames that may exist while the host has captured the states of log: a
\* state frame carries one of them, under the number the host gave it.
FramesOf(log) ==
    {m \in Frames : m.type = "state" => m.seq \in 1 .. Len(log) /\ m.state = log[m.seq]}

\* The log only grows at its end.
Extends(old, new) ==
    Len(old) <= Len(new) /\ \A k \in 1 .. Len(old) : new[k] = old[k]

Channels(F) ==
    /\ up \in [Sockets -> Seq(F)]
    /\ down \in [Sockets -> Seq(F)]
    /\ pendingOutgoing \in [Peers -> Seq(F)]
    /\ stale \in [Peers -> Seq(F)]

ClientOK ==
    /\ generation \in [Peers -> Nat]
    /\ socket \in [Peers -> Sockets \cup {NoSocket}]
    /\ joined \in [Peers -> BOOLEAN]
    /\ pendingJoin \in [Peers -> BOOLEAN]
    /\ inSession \in [Peers -> BOOLEAN]
    /\ autoRejoin \in [Peers -> BOOLEAN]
    /\ reconnectPending \in [Peers -> BOOLEAN]
    /\ connectionState \in [Peers -> ConnectionStates]

SessionOK ==
    /\ sessionActive \in [Peers -> BOOLEAN]
    /\ hostOnline \in [Peers -> BOOLEAN]
    /\ guestCount \in [Peers -> Nat]
    /\ localStateSeq \in Nat
    /\ lastRemoteSeq \in [Peers -> Nat]
    /\ remote \in [Peers -> PlayStates \cup {NoState}]
    /\ localSource \in SourceValues
    /\ remoteSource \in [Peers -> SourceValues]
    /\ shareUrl \in UrlValues
    /\ offeredUrl \in [Peers -> UrlValues]
    /\ player \in [Peers -> PlayStates]
    /\ actions \in Nat
    /\ published \in Seq(PlayStates)
    /\ localStateSeq = Len(published)

\* Before startHostSession the host has numbered nothing, and there is nothing
\* that could make it.
NotStarted ==
    ~running =>
       /\ localStateSeq = 0
       /\ ~sessionActive[Host]
       /\ socket[Host] = NoSocket
       /\ stale[Host] = <<>>
       /\ ~reconnectPending[Host]

\* The inductive invariant.
IInv ==
    /\ ServerTypeOK
    /\ wire \in [Sockets -> WireStates]
    /\ ClientOK
    /\ SessionOK
    /\ Channels(FramesOf(published))
    /\ NextStateIsTaken
    /\ NotStarted

----------------------------------------------------------------------------
(* Frames.                                                                 *)

\* The frames the code builds.
LEMMA FramesBuilt ==
    ASSUME NEW n \in Seq(PlayStates)
    PROVE  /\ Accepted \in FramesOf(n)
           /\ Opened \in FramesOf(n)
           /\ Closed \in FramesOf(n)
           /\ [type |-> "pong"] \in FramesOf(n)
           /\ \A p \in Peers : JoinFrame(p) \in FramesOf(n)
           /\ \A k \in 1 .. Len(n) : StateFrame(n[k], k) \in FramesOf(n)
           /\ \A f \in SourceValues : FileFrame(f) \in FramesOf(n)
           /\ \A u \in UrlValues : UrlFrame(u) \in FramesOf(n)
           /\ \A cmd \in Commands : IntentFrame(cmd) \in FramesOf(n)
           /\ \A b \in BOOLEAN, k \in Nat : PeerUpdate(b, k) \in FramesOf(n)
  <1> USE DEF FramesOf, Frames
  <1>1. /\ Accepted \in FramesOf(n)
        /\ Opened \in FramesOf(n)
        /\ Closed \in FramesOf(n)
        /\ [type |-> "pong"] \in FramesOf(n)
    BY DEF Accepted, Opened, Closed
  <1>2. \A p \in Peers : JoinFrame(p) \in FramesOf(n)
    BY ValuesAssumption DEF JoinFrame
  <1>3. \A k \in 1 .. Len(n) : StateFrame(n[k], k) \in FramesOf(n)
    BY ElementOfSeq DEF StateFrame
  <1>4. \A f \in SourceValues : FileFrame(f) \in FramesOf(n)
    BY DEF FileFrame
  <1>5. \A u \in UrlValues : UrlFrame(u) \in FramesOf(n)
    BY DEF UrlFrame
  <1>6. \A cmd \in Commands : IntentFrame(cmd) \in FramesOf(n)
    BY DEF IntentFrame
  <1>7. \A b \in BOOLEAN, k \in Nat : PeerUpdate(b, k) \in FramesOf(n)
    BY DEF PeerUpdate
  <1>8. QED
    BY <1>1, <1>2, <1>3, <1>4, <1>5, <1>6, <1>7

\* What the handlers read from a frame of each type.
LEMMA FramesRead ==
    ASSUME NEW n \in Seq(PlayStates), NEW m \in FramesOf(n)
    PROVE  /\ m.type = "join" => m.code \in Codes /\ m.role \in {"host", "guest"}
           /\ m.type = "state" => m.state \in PlayStates /\ m.seq \in 1 .. Len(n) /\ m.state = n[m.seq]
           /\ m.type = "file" => m.source \in SourceValues
           /\ m.type = "open_url" => m.url \in UrlValues
           /\ m.type = "intent" => m.command \in Commands
           /\ m.type = "peer_update" => m.host \in BOOLEAN /\ m.guests \in Nat
  BY DEF FramesOf, Frames

LEMMA FramesGrow ==
    ASSUME NEW n \in Seq(PlayStates), NEW k \in Seq(PlayStates), Extends(n, k)
    PROVE  /\ FramesOf(n) \subseteq FramesOf(k)
           /\ Seq(FramesOf(n)) \subseteq Seq(FramesOf(k))
  <1>1. FramesOf(n) \subseteq FramesOf(k)
    BY LenProperties DEF FramesOf, Extends
  <1>2. QED
    BY <1>1, SeqMonotonic

----------------------------------------------------------------------------
(* Sequences of frames.                                                    *)

LEMMA SameExtends ==
    ASSUME NEW log \in Seq(PlayStates)
    PROVE  Extends(log, log)
  BY LenProperties DEF Extends

LEMMA PrefixOfSeq ==
    ASSUME NEW F, NEW s \in Seq(F), NEW i \in 0 .. Len(s)
    PROVE  SubSeq(s, 1, i) \in Seq(F)
  <1>1. \A j \in 1 .. i : s[j] \in F
    BY ElementOfSeq, LenProperties
  <1>2. QED
    BY <1>1, SubSeqProperties

LEMMA AppendOfSeq ==
    ASSUME NEW F, NEW s \in Seq(F), NEW m \in F
    PROVE  Append(s, m) \in Seq(F)
  BY AppendProperties

LEMMA ChannelsGrow ==
    ASSUME NEW n \in Seq(PlayStates), NEW k \in Seq(PlayStates), Extends(n, k), Channels(FramesOf(n))
    PROVE  Channels(FramesOf(k))
  BY FramesGrow DEF Channels

----------------------------------------------------------------------------
(* The server.                                                             *)

LEMMA CountOfGuests ==
    ASSUME NEW gs \in SUBSET Sockets
    PROVE  Cardinality(gs) \in Nat
  BY SocketsAssumption, FS_Subset, FS_CardinalityType

LEMMA PeerUpdateSentTyped ==
    ASSUME NEW n \in Seq(PlayStates), down \in [Sockets -> Seq(FramesOf(n))],
           NEW h, NEW gs \in SUBSET Sockets
    PROVE  PeerUpdateSent(h, gs) \in [Sockets -> Seq(FramesOf(n))]
  <1>1. /\ PeerUpdate(TRUE, Cardinality(gs)) \in FramesOf(n)
        /\ PeerUpdate(h # NoSocket, Cardinality(gs)) \in FramesOf(n)
    BY CountOfGuests, FramesBuilt
  <1>2. ASSUME NEW s \in Sockets
        PROVE  /\ Append(down[s], PeerUpdate(TRUE, Cardinality(gs))) \in Seq(FramesOf(n))
               /\ Append(down[s], PeerUpdate(h # NoSocket, Cardinality(gs)))
                    \in Seq(FramesOf(n))
    BY <1>1, AppendOfSeq
  <1>3. QED
    BY <1>2 DEF PeerUpdateSent

LEMMA SentToTyped ==
    ASSUME NEW n \in Seq(PlayStates), down \in [Sockets -> Seq(FramesOf(n))],
           NEW targets, NEW m \in FramesOf(n)
    PROVE  SentTo(targets, m) \in [Sockets -> Seq(FramesOf(n))]
  BY AppendOfSeq DEF SentTo

LEMMA ConsumeTyped ==
    ASSUME NEW n \in Seq(PlayStates), up \in [Sockets -> Seq(FramesOf(n))],
           NEW s \in Sockets, up[s] # <<>>
    PROVE  /\ Head(up[s]) \in FramesOf(n)
           /\ Consume(s) \in [Sockets -> Seq(FramesOf(n))]
  BY HeadTailProperties DEF Consume

\* What a step of the server has to be shown to preserve: the rest it leaves
\* alone.
LEMMA ServerFrame ==
    ASSUME IInv, UNCHANGED <<client, session, actions>>,
           running' = running, ServerTypeOK',
           wire' \in [Sockets -> WireStates],
           up' \in [Sockets -> Seq(FramesOf(published))],
           down' \in [Sockets -> Seq(FramesOf(published))]
    PROVE  IInv'
  <1>1. ClientOK' /\ SessionOK'
    BY DEF IInv, ClientOK, SessionOK, client, session, roster, hostData, guestData
  <1>2. Channels(FramesOf(published))'
    BY DEF IInv, Channels, FramesOf, client, session, hostData
  <1>3. NextStateIsTaken' /\ NotStarted'
    BY DEF IInv, NextStateIsTaken, NotStarted, client, session, hostData, guestData
  <1>4. QED
    BY <1>1, <1>2, <1>3 DEF IInv

LEMMA OnSocketDisconnectedTyped ==
    ASSUME IInv, NEW s \in Sockets, OnSocketDisconnected(s),
           UNCHANGED <<client, session, actions>>
    PROVE  IInv'
  <1> DEFINE r == SessionOfPeer(s)
             h == HostSeatAfter(r, s)
             g == GuestSeatsAfter(r, s)
  <1>1. published \in Seq(PlayStates) /\ up[s] # <<>>
    BY DEF IInv, SessionOK, OnSocketDisconnected, HeadIs
  <1>2. up' \in [Sockets -> Seq(FramesOf(published))]
    BY <1>1, ConsumeTyped DEF IInv, Channels, OnSocketDisconnected
  <1>3. r # NoCode => r \in Codes /\ h \in Sockets \cup {NoSocket} /\ g \in SUBSET Sockets
    BY DEF IInv, ServerTypeOK, SessionOfPeer, HostSeatAfter, GuestSeatsAfter, PeerInfo
  <1>4. down' \in [Sockets -> Seq(FramesOf(published))]
    <2>1. down \in [Sockets -> Seq(FramesOf(published))]
      BY DEF IInv, Channels
    <2>2. down' = down \/ (r # NoCode /\ down' = PeerUpdateSent(h, g))
      BY DEF OnSocketDisconnected
    <2>3. r # NoCode => PeerUpdateSent(h, g) \in [Sockets -> Seq(FramesOf(published))]
      <3> HIDE DEF h, g
      <3> QED
        BY <1>1, <1>3, <2>1, PeerUpdateSentTyped
    <2>4. QED
      BY <2>1, <2>2, <2>3
  <1>5. ServerTypeOK'
    <2>1. peers' \in [Sockets -> PeerInfo]
      BY DEF IInv, ServerTypeOK, OnSocketDisconnected, Absent, PeerInfo
    <2>2. sessionOf' \in [Codes -> Codes \cup {NoCode}]
      BY DEF IInv, ServerTypeOK, OnSocketDisconnected
    <2>3. host' \in [Codes -> Sockets \cup {NoSocket}] /\ guests' \in [Codes -> SUBSET Sockets]
      BY <1>3 DEF IInv, ServerTypeOK, OnSocketDisconnected
    <2>4. QED
      BY <2>1, <2>2, <2>3 DEF IInv, ServerTypeOK, OnSocketDisconnected
  <1>6. QED
    BY <1>2, <1>4, <1>5, ServerFrame DEF IInv, OnSocketDisconnected

LEMMA OnJoinTyped ==
    ASSUME IInv, NEW s \in Sockets, OnJoin(s), UNCHANGED <<client, session, actions>>
    PROVE  IInv'
  <1> DEFINE F    == FramesOf(published)
             c    == Head(up[s]).code
             role == Head(up[s]).role
             r    == IF sessionOf[c] = NoCode THEN c ELSE sessionOf[c]
             h    == IF role = "host" THEN s ELSE host[r]
             g    == IF role = "guest" THEN guests[r] \cup {s} ELSE guests[r]
  <1>1. published \in Seq(PlayStates) /\ up[s] # <<>> /\ up \in [Sockets -> Seq(F)]
        /\ down \in [Sockets -> Seq(F)]
    BY DEF IInv, SessionOK, Channels, OnJoin, HeadIs
  <1>2. Head(up[s]) \in F /\ Consume(s) \in [Sockets -> Seq(F)]
    BY <1>1, ConsumeTyped
  <1>3. c \in Codes /\ role \in {"host", "guest"}
    BY <1>1, <1>2, FramesRead DEF OnJoin, HeadIs
  <1>4. r \in Codes /\ h \in Sockets \cup {NoSocket} /\ g \in SUBSET Sockets
    BY <1>3 DEF IInv, ServerTypeOK
  <1>5. ServerTypeOK'
    <2>1. peers' \in [Sockets -> PeerInfo]
      BY <1>3 DEF IInv, ServerTypeOK, OnJoin, PeerInfo
    <2>2. sessionOf' \in [Codes -> Codes \cup {NoCode}]
      BY <1>3, <1>4 DEF IInv, ServerTypeOK, OnJoin
    <2>3. host' \in [Codes -> Sockets \cup {NoSocket}] /\ guests' \in [Codes -> SUBSET Sockets]
      BY <1>4 DEF IInv, ServerTypeOK, OnJoin
    <2>4. QED
      BY <2>1, <2>2, <2>3 DEF IInv, ServerTypeOK, OnJoin
  <1>6. wire' \in [Sockets -> WireStates]
    BY DEF IInv, OnJoin, WireStates
  <1>7. \A x \in Sockets : Append(up[x], Closed) \in Seq(F) /\ Append(down[x], Closed) \in Seq(F)
    BY <1>1, FramesBuilt, AppendOfSeq
  <1>8. up' \in [Sockets -> Seq(F)]
    BY <1>2, <1>7 DEF OnJoin
  <1>9. down' \in [Sockets -> Seq(F)]
    <2>1. PeerUpdateSent(h, g) \in [Sockets -> Seq(F)]
      BY <1>1, <1>4, PeerUpdateSentTyped
    <2>2. QED
      BY <1>7, <2>1 DEF OnJoin
  <1>10. QED
    BY <1>5, <1>6, <1>8, <1>9, ServerFrame DEF OnJoin

LEMMA ServerStepTyped ==
    ASSUME IInv, NEW s \in Sockets, ServerStep(s)
    PROVE  IInv'
  <1> USE DEF ServerStep
  <1>1. published \in Seq(PlayStates) /\ up \in [Sockets -> Seq(FramesOf(published))]
        /\ down \in [Sockets -> Seq(FramesOf(published))]
    BY DEF IInv, SessionOK, Channels
  <1>2. CASE OnClientConnected(s)
    <2>1. up' \in [Sockets -> Seq(FramesOf(published))]
      BY <1>1, <1>2, ConsumeTyped DEF OnClientConnected, HeadIs
    <2>2. ServerTypeOK'
      BY <1>2 DEF IInv, ServerTypeOK, OnClientConnected, PeerInfo
    <2>3. QED
      BY <1>1, <1>2, <2>1, <2>2, ServerFrame DEF IInv, OnClientConnected
  <1>3. CASE OnSocketDisconnected(s)
    BY <1>3, OnSocketDisconnectedTyped
  <1>4. CASE OnJoin(s)
    BY <1>4, OnJoinTyped
  <1>5. CASE OnPing(s)
    <2>1. up' \in [Sockets -> Seq(FramesOf(published))]
      BY <1>1, <1>5, ConsumeTyped DEF OnPing, HeadIs
    <2>2. down' \in [Sockets -> Seq(FramesOf(published))]
      BY <1>1, <1>5, FramesBuilt, SentToTyped DEF OnPing
    <2>3. QED
      BY <1>5, <2>1, <2>2, ServerFrame DEF IInv, OnPing, server, ServerTypeOK
  <1>6. CASE OnRelay(s)
    <2>1. /\ Head(up[s]) \in FramesOf(published)
          /\ up' \in [Sockets -> Seq(FramesOf(published))]
      BY <1>1, <1>6, ConsumeTyped DEF OnRelay
    <2>2. down' \in [Sockets -> Seq(FramesOf(published))]
      BY <1>1, <1>6, <2>1, SentToTyped DEF OnRelay
    <2>3. QED
      BY <1>6, <2>1, <2>2, ServerFrame DEF IInv, OnRelay, server, ServerTypeOK
  <1>7. QED
    BY <1>2, <1>3, <1>4, <1>5, <1>6 DEF ServerTask, OnTextMessage

----------------------------------------------------------------------------
(* What a client sends.                                                    *)

LEMMA CaptureTyped ==
    ASSUME SessionOK, NEW st \in PlayStates, Capture(st)
    PROVE  /\ localStateSeq' \in Nat
           /\ localStateSeq' = localStateSeq + 1
           /\ published' \in Seq(PlayStates)
           /\ published' = Append(published, st)
           /\ localStateSeq' = Len(published')
           /\ Extends(published, published')
  BY AppendProperties DEF SessionOK, Capture, Extends

LEMMA FileInfoTyped ==
    ASSUME NEW n \in Seq(PlayStates), localSource \in SourceValues, NEW k
    PROVE  FileInfo(k) \in Seq(FramesOf(n))
  <1>1. FileFrame(localSource) \in FramesOf(n)
    BY FramesBuilt
  <1>2. QED
    BY <1>1 DEF FileInfo

LEMMA StateNowTyped ==
    ASSUME published \in Seq(PlayStates), localStateSeq = Len(published),
           NEW st \in PlayStates, NEW k
    PROVE  StateNow(st, k) \in Seq(FramesOf(Append(published, st)))
  <1> DEFINE m == StateFrame(st, localStateSeq + 1)
             F == FramesOf(Append(published, st))
  <1>1. m \in F
    <2> DEFINE log == Append(published, st)
    <2>1. log \in Seq(PlayStates) /\ Len(log) = localStateSeq + 1 /\ log[localStateSeq + 1] = st
      BY AppendProperties
    <2>2. localStateSeq + 1 \in 1 .. Len(log)
      BY <2>1, LenProperties
    <2>3. QED
      BY <2>1, <2>2, FramesBuilt
  <1>2. StateNow(st, k) \in {<<m>>, <<>>}
    BY DEF StateNow
  <1> HIDE DEF m, F
  <1>3. <<m>> \in Seq(F) /\ <<>> \in Seq(F)
    BY <1>1
  <1>4. StateNow(st, k) \in Seq(F)
    BY <1>2, <1>3
  <1>5. QED
    BY <1>4 DEF F

LEMMA OneFrame ==
    ASSUME NEW F, NEW m \in F
    PROVE  <<m>> \in Seq(F) /\ <<>> \in Seq(F)
  OBVIOUS

LEMMA GuardedTyped ==
    ASSUME NEW F, NEW p, NEW frames \in Seq(F)
    PROVE  Guarded(p, frames) \in Seq(F)
  BY DEF Guarded

LEMMA PostTyped ==
    ASSUME NEW F, up \in [Sockets -> Seq(F)], pendingOutgoing \in [Peers -> Seq(F)],
           NEW p \in Peers, NEW frames \in Seq(F), Post(p, frames)
    PROVE  up' \in [Sockets -> Seq(F)] /\ pendingOutgoing' \in [Peers -> Seq(F)]
  <1>1. \A s \in Sockets : up[s] \o frames \in Seq(F)
    BY ConcatProperties
  <1>2. pendingOutgoing[p] \o frames \in Seq(F)
    BY ConcatProperties
  <1>3. QED
    BY <1>1, <1>2 DEF Post

LEMMA AppliedTyped ==
    ASSUME NEW cmd \in Commands, NEW st \in PlayStates
    PROVE  Applied(cmd, st) \in PlayStates
  BY DEF Commands, Applied, PlayStates

----------------------------------------------------------------------------
(* The callbacks of a client.                                              *)

\* The callback taken off the queue is a frame with a number already given;
\* before startHostSession the host has none.
LEMMA DequeueTyped ==
    ASSUME IInv, NEW p \in Peers, Queue(p) # <<>>, Dequeue(p)
    PROVE  /\ Event(p) \in FramesOf(published)
           /\ down' \in [Sockets -> Seq(FramesOf(published))]
           /\ stale' \in [Peers -> Seq(FramesOf(published))]
           /\ ~running => p # Host
  <1> DEFINE F == FramesOf(published)
  <1>1. /\ down \in [Sockets -> Seq(F)] /\ stale \in [Peers -> Seq(F)]
        /\ socket[p] \in Sockets \cup {NoSocket}
    BY DEF IInv, Channels, ClientOK
  <1>2. Queue(p) \in Seq(F) /\ (stale[p] = <<>> => socket[p] \in Sockets)
    BY <1>1 DEF Queue
  <1>3. Event(p) \in F
    BY <1>2, HeadTailProperties DEF Event
  <1>4. /\ down' \in [Sockets -> Seq(F)]
        /\ stale' \in [Peers -> Seq(F)]
    <2>1. CASE stale[p] # <<>>
      <3>1. Tail(stale[p]) \in Seq(F)
        BY <1>1, <2>1, HeadTailProperties
      <3>2. QED
        BY <1>1, <2>1, <3>1 DEF Dequeue
    <2>2. CASE stale[p] = <<>>
      <3>1. down[socket[p]] # <<>> /\ Tail(down[socket[p]]) \in Seq(F)
        BY <1>1, <1>2, <2>2, HeadTailProperties DEF Queue
      <3>2. QED
        BY <1>1, <1>2, <2>2, <3>1 DEF Dequeue
    <2>3. QED
      BY <2>1, <2>2
  <1>5. ~running => p # Host
    BY DEF IInv, NotStarted, Queue
  <1>6. QED
    BY <1>3, <1>4, <1>5

LEMMA NotStartedKept ==
    ASSUME IInv, NEW p \in Peers, Queue(p) # <<>>, Dequeue(p),
           UNCHANGED <<running, sessionActive, socket>>,
           ~running => localStateSeq' = localStateSeq,
           \A q \in Peers \ {p} : reconnectPending'[q] = reconnectPending[q]
    PROVE  NotStarted'
  <1>1. ~running => p # Host
    BY DequeueTyped
  <1>2. \A q \in Peers \ {p} : stale'[q] = stale[q]
    BY DEF IInv, Channels, Dequeue
  <1>3. Host \in Peers
    BY DEF Peers
  <1>4. QED
    BY <1>1, <1>2, <1>3 DEF IInv, NotStarted

LEMMA OnConnectedTyped ==
    ASSUME IInv, NEW p \in Peers, Queue(p) # <<>>, Dequeue(p), OnConnected(p),
           UNCHANGED <<wire, server, actions>>
    PROVE  IInv'
  <1> DEFINE n == published
             resyncs == p = Host /\ connectionState[p] # "Connected" /\ CanSend(p)
             joins   == IsConnected(p) /\ pendingJoin[p]
             pushed  == IF resyncs
                        THEN FileInfo(guestCount[p]) \o StateNow(player[p], guestCount[p])
                        ELSE <<>>
             flushed == IF joins THEN <<JoinFrame(p)>> \o pendingOutgoing[p] ELSE <<>>
  <1>1. SessionOK /\ Channels(FramesOf(n)) /\ n \in Seq(PlayStates) /\ player[p] \in PlayStates
    BY DEF IInv, SessionOK
  <1>2. /\ n' \in Seq(PlayStates) /\ Extends(n, n')
        /\ resyncs => n' = Append(n, player[p])
        /\ localStateSeq' \in Nat /\ localStateSeq' = Len(n') /\ localStateSeq <= localStateSeq'
    BY <1>1, CaptureTyped, SameExtends DEF OnConnected, SessionOK
  <1>3. Channels(FramesOf(n'))
    BY <1>1, <1>2, ChannelsGrow
  <1>4. pushed \in Seq(FramesOf(n'))
    <2>1. CASE resyncs
      <3>1. FileInfo(guestCount[p]) \in Seq(FramesOf(n'))
        BY <1>1, <1>2, FileInfoTyped DEF SessionOK
      <3>2. StateNow(player[p], guestCount[p]) \in Seq(FramesOf(n'))
        BY <1>1, <1>2, <2>1, StateNowTyped DEF SessionOK
      <3>3. QED
        BY <2>1, <3>1, <3>2, ConcatProperties
    <2>2. CASE ~resyncs
      BY <2>2
    <2>3. QED
      BY <2>1, <2>2
  <1>5. flushed \in Seq(FramesOf(n'))
    <2>1. <<JoinFrame(p)>> \in Seq(FramesOf(n'))
      BY <1>2, FramesBuilt
    <2>2. pendingOutgoing[p] \in Seq(FramesOf(n'))
      BY <1>3 DEF Channels
    <2>3. QED
      BY <2>1, <2>2, ConcatProperties
  <1>6. Channels(FramesOf(published))'
    <2>1. pushed \o flushed \in Seq(FramesOf(n'))
      BY <1>4, <1>5, ConcatProperties
    <2>2. \A s \in Sockets : up[s] \o (pushed \o flushed) \in Seq(FramesOf(n'))
      BY <1>3, <2>1, ConcatProperties DEF Channels
    <2>3. up' \in [Sockets -> Seq(FramesOf(n'))]
      <3>1. up' = IF IsConnected(p) THEN [up EXCEPT ![socket[p]] = @ \o (pushed \o flushed)]
                  ELSE up
        BY DEF OnConnected
      <3> HIDE DEF pushed, flushed
      <3>2. QED
        BY <1>3, <2>2, <3>1 DEF Channels
    <2>4. pendingOutgoing' \in [Peers -> Seq(FramesOf(n'))]
      BY <1>3 DEF Channels, OnConnected
    <2>5. /\ down' \in [Sockets -> Seq(FramesOf(n'))]
          /\ stale' \in [Peers -> Seq(FramesOf(n'))]
      BY <1>1, <1>2, DequeueTyped, FramesGrow
    <2>6. QED
      BY <2>3, <2>4, <2>5 DEF Channels, FramesOf
  <1>7. ClientOK'
    BY DEF IInv, ClientOK, OnConnected, ConnectionStates
  <1>8. SessionOK'
    BY <1>2 DEF IInv, SessionOK, OnConnected, roster, guestData
  <1>9. NextStateIsTaken'
    BY <1>1, <1>2 DEF IInv, SessionOK, NextStateIsTaken, OnConnected, guestData, Peers
  <1>10. NotStarted'
    <2>1. ~running => localStateSeq' = localStateSeq
      BY DequeueTyped DEF OnConnected
    <2>2. \A q \in Peers \ {p} : reconnectPending'[q] = reconnectPending[q]
      BY DEF IInv, ClientOK, OnConnected
    <2>3. QED
      BY <2>1, <2>2, NotStartedKept DEF OnConnected, server
  <1>11. QED
    BY <1>6, <1>7, <1>8, <1>9, <1>10 DEF IInv, server, ServerTypeOK

\* What a callback has to be shown to preserve when it numbers nothing.
LEMMA QuietCallback ==
    ASSUME IInv, NEW p \in Peers, Queue(p) # <<>>, Dequeue(p),
           UNCHANGED <<wire, server, actions, up, pendingOutgoing, localStateSeq, published,
                       sessionActive, socket>>,
           ClientOK', SessionOK', NextStateIsTaken',
           \A q \in Peers \ {p} : reconnectPending'[q] = reconnectPending[q]
    PROVE  IInv'
  <1>1. Channels(FramesOf(published))'
    BY DequeueTyped DEF IInv, Channels, FramesOf
  <1>2. NotStarted'
    BY NotStartedKept DEF server
  <1>3. QED
    BY <1>1, <1>2 DEF IInv, server, ServerTypeOK

LEMMA OnDisconnectedTyped ==
    ASSUME IInv, NEW p \in Peers, Queue(p) # <<>>, Dequeue(p), OnDisconnected(p),
           UNCHANGED <<wire, server, actions>>
    PROVE  IInv'
  <1>1. ClientOK'
    BY DEF IInv, ClientOK, OnDisconnected, ConnectionStates, Rejoins
  <1>2. SessionOK' /\ NextStateIsTaken'
    BY DEF IInv, SessionOK, NextStateIsTaken, OnDisconnected, session, roster, hostData,
           guestData
  <1>3. QED
    BY <1>1, <1>2, QuietCallback
       DEF IInv, ClientOK, OnDisconnected, session, hostData

LEMMA OnStateTyped ==
    ASSUME IInv, NEW p \in Peers, Queue(p) # <<>>, Dequeue(p), OnState(p),
           UNCHANGED <<wire, server, actions>>
    PROVE  IInv'
  <1>1. Event(p).state \in PlayStates /\ Event(p).seq \in Nat /\ Event(p).seq <= localStateSeq
    BY DequeueTyped, FramesRead, LenProperties DEF IInv, SessionOK, OnState
  <1>2. ClientOK'
    BY DEF IInv, ClientOK, OnState
  <1>3. SessionOK'
    BY <1>1 DEF IInv, SessionOK, OnState, roster, hostData
  <1>4. NextStateIsTaken'
    BY <1>1 DEF IInv, SessionOK, NextStateIsTaken, OnState, hostData, Peers
  <1>5. QED
    BY <1>2, <1>3, <1>4, QuietCallback DEF OnState, hostData

LEMMA OnFileTyped ==
    ASSUME IInv, NEW p \in Peers, Queue(p) # <<>>, Dequeue(p), OnFile(p),
           UNCHANGED <<wire, server, actions>>
    PROVE  IInv'
  <1>1. Event(p).source \in SourceValues
    BY DequeueTyped, FramesRead DEF IInv, SessionOK, OnFile
  <1>2. ClientOK' /\ SessionOK' /\ NextStateIsTaken'
    BY <1>1 DEF IInv, ClientOK, SessionOK, NextStateIsTaken, OnFile, roster, hostData
  <1>3. QED
    BY <1>2, QuietCallback DEF OnFile, hostData

LEMMA OnOpenUrlTyped ==
    ASSUME IInv, NEW p \in Peers, Queue(p) # <<>>, Dequeue(p), OnOpenUrl(p),
           UNCHANGED <<wire, server, actions>>
    PROVE  IInv'
  <1>1. Event(p).url \in UrlValues
    BY DequeueTyped, FramesRead DEF IInv, SessionOK, OnOpenUrl
  <1>2. ClientOK' /\ SessionOK' /\ NextStateIsTaken'
    BY <1>1 DEF IInv, ClientOK, SessionOK, NextStateIsTaken, OnOpenUrl, roster, hostData
  <1>3. QED
    BY <1>2, QuietCallback DEF OnOpenUrl, hostData

\* The same for a callback that posts frames and may number a state.
LEMMA SendingCallback ==
    ASSUME IInv, NEW p \in Peers, Queue(p) # <<>>, Dequeue(p),
           UNCHANGED <<wire, server, actions, generation, socket, joined, pendingJoin,
                       inSession, autoRejoin, reconnectPending, connectionState,
                       sessionActive>>,
           published' \in Seq(PlayStates), Extends(published, published'),
           ~running => localStateSeq' = localStateSeq,
           UNCHANGED lastRemoteSeq, SessionOK',
           NEW frames \in Seq(FramesOf(published')), Post(p, frames)
    PROVE  IInv'
  <1> DEFINE n == published
  <1>1. n \in Seq(PlayStates) /\ Channels(FramesOf(n'))
    BY ChannelsGrow DEF IInv, SessionOK
  <1>2. up' \in [Sockets -> Seq(FramesOf(n'))] /\ pendingOutgoing' \in [Peers -> Seq(FramesOf(n'))]
    BY <1>1, PostTyped DEF Channels
  <1>3. down' \in [Sockets -> Seq(FramesOf(n'))] /\ stale' \in [Peers -> Seq(FramesOf(n'))]
    BY <1>1, DequeueTyped, FramesGrow
  <1>4. Channels(FramesOf(published))'
    BY <1>2, <1>3 DEF Channels, FramesOf
  <1>5. ClientOK' /\ NextStateIsTaken'
    BY <1>1 DEF IInv, ClientOK, SessionOK, NextStateIsTaken, Peers, Extends
  <1>6. NotStarted'
    BY NotStartedKept DEF server
  <1>7. QED
    BY <1>4, <1>5, <1>6 DEF IInv, server, ServerTypeOK

LEMMA OnPeerUpdateTyped ==
    ASSUME IInv, NEW p \in Peers, Queue(p) # <<>>, Dequeue(p), OnPeerUpdate(p),
           UNCHANGED <<wire, server, actions>>
    PROVE  IInv'
  <1> DEFINE k     == Event(p).guests
             new   == Newcomer(p, k)
             link  == IF new /\ shareUrl # NoUrl THEN <<UrlFrame(shareUrl)>> ELSE <<>>
             file  == IF p = Host THEN FileInfo(k) ELSE <<>>
             state == IF new THEN StateNow(player[p], k) ELSE <<>>
             F     == FramesOf(published')
  <1>1. /\ Event(p).host \in BOOLEAN /\ k \in Nat
        /\ SessionOK /\ published \in Seq(PlayStates) /\ localStateSeq = Len(published) /\ player[p] \in PlayStates
    BY DequeueTyped, FramesRead DEF IInv, SessionOK, OnPeerUpdate
  <1>2. /\ published' \in Seq(PlayStates) /\ Extends(published, published')
        /\ new => published' = Append(published, player[p])
        /\ localStateSeq' \in Nat /\ localStateSeq' = Len(published')
        /\ ~new => localStateSeq' = localStateSeq
    BY <1>1, CaptureTyped, SameExtends DEF OnPeerUpdate, SessionOK
  <1>3. link \in Seq(F) /\ file \in Seq(F) /\ state \in Seq(F)
    <2>1. link \in Seq(F)
      <3>1. UrlFrame(shareUrl) \in F
        BY <1>1, <1>2, FramesBuilt DEF SessionOK
      <3>2. QED
        BY <3>1
    <2>2. file \in Seq(F)
      BY <1>1, <1>2, FileInfoTyped DEF SessionOK
    <2>3. state \in Seq(F)
      <3>1. CASE new
        <4>1. StateNow(player[p], k) \in Seq(F)
          BY <1>1, <1>2, <3>1, StateNowTyped
        <4>2. QED
          BY <3>1, <4>1
      <3>2. CASE ~new
        BY <3>2
      <3>3. QED
        BY <3>1, <3>2
    <2>4. QED
      BY <2>1, <2>2, <2>3
  <1>4. Guarded(p, file) \o link \o Guarded(p, state) \in Seq(F)
    BY <1>3, GuardedTyped, ConcatProperties
  <1>5. Post(p, Guarded(p, file) \o link \o Guarded(p, state))
    BY DEF OnPeerUpdate
  <1>6. SessionOK'
    BY <1>1, <1>2 DEF IInv, SessionOK, OnPeerUpdate, guestData
  <1>7. ~running => localStateSeq' = localStateSeq
    BY <1>2, DequeueTyped DEF Newcomer
  <1>8. UNCHANGED <<wire, server, actions, generation, socket, joined, pendingJoin,
                    inSession, autoRejoin, reconnectPending, connectionState,
                    sessionActive, lastRemoteSeq>>
    BY DEF OnPeerUpdate, guestData
  <1> HIDE DEF link, file, state
  <1>9. QED
    BY <1>2, <1>4, <1>5, <1>6, <1>7, <1>8, SendingCallback

LEMMA OnIntentTyped ==
    ASSUME IInv, NEW p \in Peers, Queue(p) # <<>>, Dequeue(p), OnIntent(p),
           UNCHANGED <<wire, server, actions>>
    PROVE  IInv'
  <1> DEFINE obeyed == p = Host /\ AllowGuestControl /\ localSource # NoSource
             st     == Applied(Event(p).command, player[p])
             F      == FramesOf(published')
  <1>1. /\ SessionOK /\ published \in Seq(PlayStates) /\ localStateSeq = Len(published)
        /\ st \in PlayStates
    BY DequeueTyped, FramesRead, AppliedTyped DEF IInv, SessionOK, OnIntent
  <1>2. CASE obeyed
    <2>1. /\ published' = Append(published, st) /\ published' \in Seq(PlayStates)
          /\ Extends(published, published')
          /\ localStateSeq' \in Nat /\ localStateSeq' = Len(published')
      BY <1>1, <1>2, CaptureTyped DEF OnIntent
    <2>2. Guarded(p, StateNow(st, guestCount[p])) \in Seq(F)
      BY <1>1, <2>1, StateNowTyped, GuardedTyped
    <2>3. Post(p, Guarded(p, StateNow(st, guestCount[p])))
      BY <1>2 DEF OnIntent
    <2>4. SessionOK'
      BY <1>1, <1>2, <2>1 DEF SessionOK, OnIntent, roster, guestData
    <2>5. ~running => localStateSeq' = localStateSeq
      BY <1>2, DequeueTyped
    <2>6. QED
      BY <2>1, <2>2, <2>3, <2>4, <2>5, SendingCallback DEF OnIntent, guestData
  <1>3. CASE ~obeyed
    <2>1. ClientOK' /\ SessionOK' /\ NextStateIsTaken'
      BY <1>3 DEF IInv, ClientOK, SessionOK, NextStateIsTaken, OnIntent, roster, guestData
    <2>2. QED
      BY <1>3, <2>1, QuietCallback DEF OnIntent
  <1>4. QED
    BY <1>2, <1>3

LEMMA HandleEventTyped ==
    ASSUME IInv, NEW p \in Peers, HandleEvent(p)
    PROVE  IInv'
  BY OnConnectedTyped, OnDisconnectedTyped, OnPeerUpdateTyped, OnStateTyped, OnFileTyped,
     OnOpenUrlTyped, OnIntentTyped DEF HandleEvent

----------------------------------------------------------------------------
(* Connections made and given up.                                          *)

\* A connection that is given up loses its queue to stale, or to nothing.
LEMMA StaleTyped ==
    ASSUME NEW F, down \in [Sockets -> Seq(F)], stale \in [Peers -> Seq(F)],
           NEW p \in Peers, NEW old \in Sockets, NEW i \in 0 .. Len(down[old])
    PROVE  [stale EXCEPT ![p] = @ \o SubSeq(down[old], 1, i)] \in [Peers -> Seq(F)]
  <1>1. SubSeq(down[old], 1, i) \in Seq(F)
    BY PrefixOfSeq
  <1>2. stale[p] \o SubSeq(down[old], 1, i) \in Seq(F)
    BY <1>1, ConcatProperties
  <1>3. QED
    BY <1>2

LEMMA ConnectAndJoinTyped ==
    ASSUME IInv, NEW p \in Peers, ConnectAndJoin(p), UNCHANGED published
    PROVE  /\ Channels(FramesOf(published))'
           /\ wire' \in [Sockets -> WireStates]
           /\ reconnectPending' \in [Peers -> BOOLEAN] => ClientOK'
           /\ \A q \in Peers \ {p} : socket'[q] = socket[q] /\ stale'[q] = stale[q]
  <1> DEFINE F   == FramesOf(published)
             new == <<p, generation[p] + 1>>
             old == socket[p]
  <1>1. /\ published \in Seq(PlayStates)
        /\ up \in [Sockets -> Seq(F)] /\ down \in [Sockets -> Seq(F)]
        /\ pendingOutgoing \in [Peers -> Seq(F)] /\ stale \in [Peers -> Seq(F)]
        /\ old \in Sockets \cup {NoSocket}
    BY DEF IInv, SessionOK, Channels, ClientOK
  <1>2. new \in Sockets
    <2>1. generation[p] + 1 \in 1 .. MaxConnections[p]
      <3>1. generation[p] \in Nat /\ MaxConnections[p] \in Nat
        BY BoundsAssumption DEF IInv, ClientOK
      <3>2. generation[p] < MaxConnections[p]
        BY DEF ConnectAndJoin
      <3>3. QED
        BY <3>1, <3>2
    <2>2. QED
      BY <2>1, ConnectionsAssumption
  <1>3. PICK early \in BOOLEAN :
             /\ wire' = [s \in Sockets |->
                   IF s = new THEN (IF early THEN "up" ELSE "connecting")
                   ELSE IF s = old THEN "down" ELSE wire[s]]
             /\ up' = [s \in Sockets |->
                   IF s = new /\ early
                   THEN <<Accepted, JoinFrame(p)>> \o pendingOutgoing[p]
                   ELSE IF s = old /\ Live(s) THEN Append(up[s], Closed)
                   ELSE up[s]]
             /\ down' = [s \in Sockets |->
                   IF s = new /\ early THEN <<Opened>>
                   ELSE IF s = old THEN <<>> ELSE down[s]]
             /\ joined' = [joined EXCEPT ![p] = early]
             /\ pendingJoin' = [pendingJoin EXCEPT ![p] = ~early]
             /\ inSession' = [inSession EXCEPT ![p] = @ \/ early]
             /\ autoRejoin' = [autoRejoin EXCEPT ![p] = @ \/ early]
             /\ pendingOutgoing' = IF early THEN [pendingOutgoing EXCEPT ![p] = <<>>]
                                   ELSE pendingOutgoing
    BY DEF ConnectAndJoin
  <1>4. wire' \in [Sockets -> WireStates]
    BY <1>3 DEF IInv, WireStates
  <1>5. up' \in [Sockets -> Seq(F)]
    <2>1. Accepted \in F /\ JoinFrame(p) \in F /\ Closed \in F
      BY <1>1, FramesBuilt
    <2> HIDE DEF F
    <2>2. <<Accepted, JoinFrame(p)>> \in Seq(F)
      BY <2>1
    <2>3. <<Accepted, JoinFrame(p)>> \o pendingOutgoing[p] \in Seq(F)
      BY <1>1, <2>2, ConcatProperties
    <2>4. \A s \in Sockets : Append(up[s], Closed) \in Seq(F)
      BY <1>1, <2>1, AppendOfSeq
    <2>5. QED
      BY <1>1, <1>3, <2>3, <2>4
  <1>6. down' \in [Sockets -> Seq(F)]
    <2>1. Opened \in F
      BY <1>1, FramesBuilt
    <2> HIDE DEF F
    <2>2. <<Opened>> \in Seq(F) /\ <<>> \in Seq(F)
      BY <2>1
    <2>3. QED
      BY <1>1, <1>3, <2>2
  <1>7. pendingOutgoing' \in [Peers -> Seq(F)]
    BY <1>1, <1>3
  <1>8. stale' \in [Peers -> Seq(F)] /\ \A q \in Peers \ {p} : stale'[q] = stale[q]
    <2>1. CASE old = NoSocket
      BY <1>1, <2>1 DEF ConnectAndJoin
    <2>2. CASE old # NoSocket
      <3>1. PICK i \in 0 .. Len(down[old]) :
                stale' = [stale EXCEPT ![p] = @ \o SubSeq(down[old], 1, i)]
        BY <2>2 DEF ConnectAndJoin
      <3>2. QED
        BY <1>1, <2>2, <3>1, StaleTyped
    <2>3. QED
      BY <2>1, <2>2
  <1>9. reconnectPending' \in [Peers -> BOOLEAN] => ClientOK'
    <2>1. generation' \in [Peers -> Nat] /\ socket' \in [Peers -> Sockets \cup {NoSocket}]
      BY <1>2 DEF IInv, ClientOK, ConnectAndJoin
    <2>2. connectionState' \in [Peers -> ConnectionStates]
      BY DEF IInv, ClientOK, ConnectAndJoin, ConnectionStates
    <2>3. /\ joined' \in [Peers -> BOOLEAN] /\ pendingJoin' \in [Peers -> BOOLEAN]
          /\ inSession' \in [Peers -> BOOLEAN] /\ autoRejoin' \in [Peers -> BOOLEAN]
      BY <1>3 DEF IInv, ClientOK
    <2>4. QED
      BY <2>1, <2>2, <2>3 DEF ClientOK
  <1>10. \A q \in Peers \ {p} : socket'[q] = socket[q]
    BY DEF IInv, ClientOK, ConnectAndJoin
  <1>11. QED
    BY <1>4, <1>5, <1>6, <1>7, <1>8, <1>9, <1>10 DEF Channels, FramesOf

LEMMA ReconnectTyped ==
    ASSUME IInv, NEW p \in Peers, Reconnect(p)
    PROVE  IInv'
  <1>1. /\ ConnectAndJoin(p) /\ published' = published
        /\ reconnectPending' \in [Peers -> BOOLEAN]
    BY DEF Reconnect, session, hostData, IInv, ClientOK
  <1>2. Channels(FramesOf(published))' /\ wire' \in [Sockets -> WireStates] /\ ClientOK'
    BY <1>1, ConnectAndJoinTyped
  <1>3. ServerTypeOK' /\ SessionOK' /\ NextStateIsTaken'
    BY DEF IInv, ServerTypeOK, SessionOK, NextStateIsTaken, Reconnect, server, session, roster,
           hostData, guestData
  <1>4. NotStarted'
    <2>1. ~running => p # Host
      BY DEF IInv, NotStarted, Reconnect
    <2>2. \A q \in Peers \ {p} :
              /\ socket'[q] = socket[q] /\ stale'[q] = stale[q]
              /\ reconnectPending'[q] = reconnectPending[q]
      BY <1>1, ConnectAndJoinTyped DEF Reconnect, IInv, ClientOK
    <2>3. QED
      BY <2>1, <2>2 DEF IInv, NotStarted, Reconnect, server, session, hostData, Peers
  <1>5. QED
    BY <1>2, <1>3, <1>4 DEF IInv

LEMMA StartHostSessionTyped ==
    ASSUME IInv, StartHostSession
    PROVE  IInv'
  <1>1. ConnectAndJoin(Host) /\ Host \in Peers
    BY DEF StartHostSession, Peers
  <1>2. localStateSeq = 0 /\ localStateSeq' = 0 /\ running' /\ published' = published
    BY EmptySeq DEF IInv, SessionOK, NotStarted, StartHostSession
  <1>3. Channels(FramesOf(published))' /\ wire' \in [Sockets -> WireStates]
    BY <1>1, <1>2, ConnectAndJoinTyped
  <1>4. ClientOK'
    BY <1>1, <1>2, ConnectAndJoinTyped DEF StartHostSession, IInv, ClientOK
  <1>5. ServerTypeOK'
    BY ValuesAssumption DEF IInv, ServerTypeOK, StartHostSession, CreateSession
  <1>6. SessionOK'
    BY <1>1 DEF IInv, SessionOK, StartHostSession
  <1>7. NextStateIsTaken'
    BY <1>2, PeersAssumption DEF IInv, SessionOK, NextStateIsTaken, StartHostSession, Peers
  <1>8. QED
    BY <1>2, <1>3, <1>4, <1>5, <1>6, <1>7 DEF IInv, NotStarted

LEMMA JoinSessionTyped ==
    ASSUME IInv, NEW g \in Guests, JoinSession(g)
    PROVE  IInv'
  <1>1. /\ ConnectAndJoin(g) /\ g \in Peers /\ UNCHANGED <<published, localStateSeq>>
        /\ running /\ running'
    BY DEF JoinSession, Peers, hostData, server
  <1>2. Channels(FramesOf(published))' /\ wire' \in [Sockets -> WireStates]
    BY <1>1, ConnectAndJoinTyped
  <1>3. ClientOK'
    BY <1>1, ConnectAndJoinTyped DEF JoinSession, IInv, ClientOK
  <1>4. ServerTypeOK' /\ SessionOK'
    BY <1>1 DEF IInv, ServerTypeOK, SessionOK, JoinSession, server, hostData
  <1>5. NextStateIsTaken'
    BY <1>1 DEF IInv, SessionOK, NextStateIsTaken, JoinSession, Peers
  <1>6. QED
    BY <1>1, <1>2, <1>3, <1>4, <1>5 DEF IInv, NotStarted

LEMMA LeaveSessionTyped ==
    ASSUME IInv, NEW g \in Guests, LeaveSession(g)
    PROVE  IInv'
  <1> DEFINE F   == FramesOf(published)
             old == socket[g]
  <1>1. /\ published \in Seq(PlayStates) /\ UNCHANGED <<published, localStateSeq>>
        /\ up \in [Sockets -> Seq(F)] /\ down \in [Sockets -> Seq(F)]
        /\ pendingOutgoing \in [Peers -> Seq(F)] /\ stale \in [Peers -> Seq(F)]
        /\ old \in Sockets \cup {NoSocket} /\ g \in Peers /\ g # Host
    BY PeersAssumption DEF IInv, SessionOK, Channels, ClientOK, LeaveSession, hostData, Peers
  <1>2. up' \in [Sockets -> Seq(F)]
    <2>1. \A s \in Sockets : Append(up[s], Closed) \in Seq(F)
      BY <1>1, FramesBuilt, AppendOfSeq
    <2>2. QED
      BY <1>1, <2>1 DEF LeaveSession
  <1>3. down' \in [Sockets -> Seq(F)] /\ pendingOutgoing' \in [Peers -> Seq(F)]
    BY <1>1 DEF LeaveSession
  <1>4. stale' \in [Peers -> Seq(F)] /\ stale'[Host] = stale[Host]
    <2>1. CASE old = NoSocket
      BY <1>1, <2>1 DEF LeaveSession
    <2>2. CASE old # NoSocket
      <3>1. PICK i \in 0 .. Len(down[old]) :
                stale' = [stale EXCEPT ![g] = @ \o SubSeq(down[old], 1, i)]
        BY <2>2 DEF LeaveSession
      <3>2. QED
        BY <1>1, <2>2, <3>1, StaleTyped DEF Peers
    <2>3. QED
      BY <2>1, <2>2
  <1>5. Channels(FramesOf(published))'
    BY <1>1, <1>2, <1>3, <1>4 DEF Channels, FramesOf
  <1>6. ServerTypeOK' /\ ClientOK' /\ wire' \in [Sockets -> WireStates]
    BY DEF IInv, ServerTypeOK, ClientOK, LeaveSession, server, ConnectionStates, WireStates
  <1>7. SessionOK'
    <2>1. actions' \in Nat
      BY BoundsAssumption DEF IInv, SessionOK, LeaveSession
    <2>2. /\ sessionActive' \in [Peers -> BOOLEAN] /\ hostOnline' \in [Peers -> BOOLEAN]
          /\ guestCount' \in [Peers -> Nat] /\ lastRemoteSeq' \in [Peers -> Nat]
      BY DEF IInv, SessionOK, LeaveSession
    <2>3. /\ remote' \in [Peers -> PlayStates \cup {NoState}]
          /\ remoteSource' \in [Peers -> SourceValues]
          /\ offeredUrl' \in [Peers -> UrlValues]
      BY DEF IInv, SessionOK, LeaveSession, SourceValues
    <2>4. UNCHANGED <<localSource, shareUrl, player, published, localStateSeq>>
      BY DEF LeaveSession, hostData
    <2>5. QED
      BY <2>1, <2>2, <2>3, <2>4 DEF IInv, SessionOK
  <1>8. NextStateIsTaken'
    BY <1>1 DEF IInv, SessionOK, NextStateIsTaken, LeaveSession, Peers
  <1>9. NotStarted'
    BY <1>1, <1>4 DEF IInv, NotStarted, LeaveSession, server, ClientOK, SessionOK, Peers
  <1>10. QED
    BY <1>5, <1>6, <1>7, <1>8, <1>9 DEF IInv

----------------------------------------------------------------------------
(* What the users and the clock do.                                        *)

\* The host posts frames, having numbered a state or not; nothing is dequeued.
LEMMA PostingStep ==
    ASSUME IInv, NEW p \in Peers,
           UNCHANGED <<wire, down, server, generation, socket, joined, pendingJoin,
                       inSession, autoRejoin, reconnectPending, connectionState, stale,
                       sessionActive, lastRemoteSeq>>,
           SessionOK', Extends(published, published'),
           ~running => localStateSeq' = localStateSeq,
           NEW frames \in Seq(FramesOf(published')), Post(p, frames)
    PROVE  IInv'
  <1> DEFINE n == published
  <1>1. n \in Seq(PlayStates) /\ n' \in Seq(PlayStates)
    BY DEF IInv, SessionOK
  <1>2. Channels(FramesOf(n'))
    BY <1>1, ChannelsGrow DEF IInv
  <1>3. up' \in [Sockets -> Seq(FramesOf(n'))] /\ pendingOutgoing' \in [Peers -> Seq(FramesOf(n'))]
    BY <1>2, PostTyped DEF Channels
  <1>4. Channels(FramesOf(published))'
    BY <1>2, <1>3 DEF Channels, FramesOf
  <1>5. ServerTypeOK' /\ ClientOK' /\ NextStateIsTaken' /\ NotStarted'
    BY <1>1 DEF IInv, ServerTypeOK, ClientOK, SessionOK, NextStateIsTaken, NotStarted, Peers,
                server, Extends
  <1>6. QED
    BY <1>4, <1>5 DEF IInv

LEMMA UserCommandTyped ==
    ASSUME IInv, NEW p \in Peers, NEW cmd \in Commands, UserCommand(p, cmd)
    PROVE  IInv'
  <1> DEFINE st == Applied(cmd, player[p])
             n  == published
  <1>1. SessionOK /\ n \in Seq(PlayStates) /\ st \in PlayStates /\ actions' \in Nat
    BY AppliedTyped DEF IInv, SessionOK, UserCommand
  <1> USE DEF UserCommand, roster, guestData
  <1>2. CASE RequestOnly(p)
    <2>1. IntentFrame(cmd) \in FramesOf(n')
      BY <1>1, <1>2, FramesBuilt
    <2>2. Guarded(p, <<IntentFrame(cmd)>>) \in Seq(FramesOf(n'))
      BY <2>1, OneFrame, GuardedTyped
    <2>3. SessionOK'
      BY <1>1, <1>2 DEF SessionOK
    <2>4. QED
      BY <1>1, <1>2, <2>2, <2>3, SameExtends, PostingStep
  <1>3. CASE ~RequestOnly(p) /\ p = Host /\ sessionActive[p]
    <2>1. /\ Capture(st) /\ player' = [player EXCEPT ![p] = st]
          /\ Post(p, Guarded(p, StateNow(st, guestCount[p])))
      BY <1>3 DEF Broadcast
    <2>2. /\ n' = Append(n, st) /\ n' \in Seq(PlayStates) /\ Extends(n, n')
          /\ localStateSeq' \in Nat /\ localStateSeq' = Len(n')
      BY <1>1, <2>1, CaptureTyped
    <2>3. SessionOK'
      BY <1>1, <2>1, <2>2 DEF SessionOK
    <2>4. Guarded(p, StateNow(st, guestCount[p])) \in Seq(FramesOf(n'))
      BY <1>1, <2>2, StateNowTyped, GuardedTyped DEF SessionOK
    <2>5. running
      BY <1>3 DEF IInv, NotStarted
    <2>6. QED
      BY <2>1, <2>2, <2>3, <2>4, <2>5, PostingStep
  <1>4. CASE ~RequestOnly(p) /\ ~(p = Host /\ sessionActive[p])
    <2>1. player' = [player EXCEPT ![p] = st] /\ UNCHANGED <<up, pendingOutgoing, localStateSeq, published>>
      BY <1>4
    <2>2. SessionOK'
      BY <1>1, <2>1 DEF SessionOK
    <2>3. QED
      BY <2>1, <2>2 DEF IInv, ServerTypeOK, ClientOK, Channels, FramesOf, NextStateIsTaken,
                        NotStarted, server
  <1>5. QED
    BY <1>2, <1>3, <1>4

LEMMA HeartbeatTyped ==
    ASSUME IInv, Heartbeat
    PROVE  IInv'
  <1> DEFINE n == published
  <1>1. SessionOK /\ n \in Seq(PlayStates) /\ player[Host] \in PlayStates /\ actions' \in Nat /\ Host \in Peers
    BY DEF IInv, SessionOK, Heartbeat, Peers
  <1>2. Capture(player[Host]) /\ Post(Host, Guarded(Host, StateNow(player[Host], guestCount[Host])))
    BY DEF Heartbeat, Broadcast
  <1>3. /\ n' = Append(n, player[Host]) /\ n' \in Seq(PlayStates) /\ Extends(n, n')
        /\ localStateSeq' \in Nat /\ localStateSeq' = Len(n')
    BY <1>1, <1>2, CaptureTyped
  <1>4. SessionOK'
    BY <1>1, <1>3 DEF SessionOK, Heartbeat, roster, guestData
  <1>5. Guarded(Host, StateNow(player[Host], guestCount[Host])) \in Seq(FramesOf(n'))
    BY <1>1, <1>3, StateNowTyped, GuardedTyped DEF SessionOK
  <1>6. running
    BY DEF IInv, NotStarted, Heartbeat
  <1>7. QED
    BY <1>1, <1>2, <1>3, <1>4, <1>5, <1>6, PostingStep DEF Heartbeat, guestData

LEMMA SetLocalFileInfoTyped ==
    ASSUME IInv, NEW f \in Sources \cup Urls, SetLocalFileInfo(f)
    PROVE  IInv'
  <1> DEFINE n == published
             frames == IF sessionActive[Host] /\ guestCount[Host] > 0 THEN <<FileFrame(f)>>
                       ELSE <<>>
  <1>1. SessionOK /\ n \in Seq(PlayStates) /\ n' = n /\ Host \in Peers
    BY DEF IInv, SessionOK, SetLocalFileInfo, Peers
  <1>2. Guarded(Host, frames) \in Seq(FramesOf(n'))
    <2>1. FileFrame(f) \in FramesOf(n')
      BY <1>1, FramesBuilt DEF SourceValues
    <2>2. frames \in Seq(FramesOf(n'))
      BY <2>1, OneFrame
    <2> HIDE DEF frames
    <2>3. QED
      BY <2>2, GuardedTyped
  <1>3. SessionOK'
    BY <1>1 DEF SessionOK, SetLocalFileInfo, roster, guestData, SourceValues, UrlValues
  <1>4. QED
    BY <1>1, <1>2, <1>3, SameExtends, PostingStep DEF SetLocalFileInfo, guestData

LEMMA ShareOpenUrlTyped ==
    ASSUME IInv, NEW u \in Urls, ShareOpenUrl(u)
    PROVE  IInv'
  <1> DEFINE n == published
             frames == IF sessionActive[Host] /\ guestCount[Host] > 0 THEN <<UrlFrame(u)>>
                       ELSE <<>>
  <1>1. SessionOK /\ n \in Seq(PlayStates) /\ n' = n /\ Host \in Peers
    BY DEF IInv, SessionOK, ShareOpenUrl, Peers
  <1>2. Guarded(Host, frames) \in Seq(FramesOf(n'))
    <2>1. UrlFrame(u) \in FramesOf(n')
      BY <1>1, FramesBuilt DEF UrlValues
    <2>2. frames \in Seq(FramesOf(n'))
      BY <2>1, OneFrame
    <2> HIDE DEF frames
    <2>3. QED
      BY <2>2, GuardedTyped
  <1>3. SessionOK'
    BY <1>1 DEF SessionOK, ShareOpenUrl, roster, guestData, UrlValues
  <1>4. QED
    BY <1>1, <1>2, <1>3, SameExtends, PostingStep DEF ShareOpenUrl, guestData

----------------------------------------------------------------------------
(* The wire.                                                               *)

LEMMA BrokenTyped ==
    ASSUME NEW n \in Seq(PlayStates), NEW stream \in [Sockets -> Seq(FramesOf(n))], NEW s \in Sockets,
           NEW i \in 0 .. Len(stream[s])
    PROVE  Broken(stream, s, i) \in [Sockets -> Seq(FramesOf(n))]
  <1>1. SubSeq(stream[s], 1, i) \in Seq(FramesOf(n))
    BY PrefixOfSeq
  <1>2. Append(SubSeq(stream[s], 1, i), Closed) \in Seq(FramesOf(n))
    BY <1>1, FramesBuilt, AppendOfSeq
  <1>3. QED
    BY <1>2 DEF Broken

LEMMA WireStepTyped ==
    ASSUME IInv, NEW s \in Sockets, Open(s) \/ Refuse(s) \/ Drop(s)
    PROVE  IInv'
  <1> DEFINE F == FramesOf(published)
  <1>1. /\ published \in Seq(PlayStates) /\ up \in [Sockets -> Seq(F)] /\ down \in [Sockets -> Seq(F)]
        /\ UNCHANGED <<server, client, session, actions>>
    BY DEF IInv, SessionOK, Channels, Open, Refuse, Drop
  <1>2. wire' \in [Sockets -> WireStates]
    BY DEF IInv, Open, Refuse, Drop, WireOpen, WireRefuse, WireDrop, WireStates
  <1>3. up' \in [Sockets -> Seq(F)] /\ down' \in [Sockets -> Seq(F)]
    <2>1. CASE Open(s) \/ Refuse(s)
      <3>1. Accepted \in F /\ Opened \in F /\ Closed \in F
        BY <1>1, FramesBuilt
      <3> HIDE DEF F
      <3>2. <<Accepted>> \in Seq(F) /\ <<Opened>> \in Seq(F) /\ <<Closed>> \in Seq(F)
        BY <3>1
      <3>3. QED
        BY <1>1, <2>1, <3>2 DEF Open, Refuse, WireOpen, WireRefuse
    <2>2. CASE Drop(s)
      <3>1. PICK i \in 0 .. Len(up[s]) : up' = Broken(up, s, i)
        BY <2>2 DEF Drop, WireDrop
      <3>2. PICK j \in 0 .. Len(down[s]) : down' = Broken(down, s, j)
        BY <2>2 DEF Drop, WireDrop
      <3>3. QED
        BY <1>1, <3>1, <3>2, BrokenTyped
    <2>3. QED
      BY <2>1, <2>2
  <1>4. QED
    BY <1>1, <1>2, <1>3, ServerFrame DEF IInv, server, ServerTypeOK

----------------------------------------------------------------------------
(* The theorems.                                                           *)

LEMMA InitTyped ==
    ASSUME Init
    PROVE  IInv
  <1>1. ServerTypeOK /\ wire \in [Sockets -> WireStates] /\ NotStarted
    BY DEF Init, NetInit, ServerInit, ServerTypeOK, WireStates, Absent, PeerInfo, NotStarted, Peers
  <1>2. Channels(FramesOf(published))
    BY DEF Init, NetInit, Channels
  <1>3. ClientOK /\ NextStateIsTaken
    BY DEF Init, ClientOK, ConnectionStates, NextStateIsTaken, Peers
  <1>4. SessionOK
    BY ValuesAssumption DEF Init, SessionOK, SourceValues, UrlValues, PlayStates
  <1>5. QED
    BY <1>1, <1>2, <1>3, <1>4 DEF IInv

LEMMA NextTyped ==
    ASSUME IInv, [Next]_vars
    PROVE  IInv'
  <1>1. CASE StartHostSession
    BY <1>1, StartHostSessionTyped
  <1>2. CASE Heartbeat
    BY <1>2, HeartbeatTyped
  <1>3. CASE \E f \in Sources \cup Urls : SetLocalFileInfo(f)
    BY <1>3, SetLocalFileInfoTyped
  <1>4. CASE \E u \in Urls : ShareOpenUrl(u)
    BY <1>4, ShareOpenUrlTyped
  <1>5. CASE \E g \in Guests : JoinSession(g) \/ LeaveSession(g)
    BY <1>5, JoinSessionTyped, LeaveSessionTyped
  <1>6. CASE \E p \in Peers : HandleEvent(p) \/ Reconnect(p)
    BY <1>6, HandleEventTyped, ReconnectTyped
  <1>7. CASE \E p \in Peers : \E cmd \in Commands : UserCommand(p, cmd)
    BY <1>7, UserCommandTyped
  <1>8. CASE \E s \in Sockets : ServerStep(s) \/ Open(s) \/ Refuse(s) \/ Drop(s)
    BY <1>8, ServerStepTyped, WireStepTyped
  <1>9. CASE UNCHANGED vars
    BY <1>9 DEF vars, net, server, client, session, roster, hostData, guestData, IInv,
                ServerTypeOK, ClientOK, SessionOK, Channels, FramesOf, NextStateIsTaken,
                NotStarted
  <1>10. QED
    BY <1>1, <1>2, <1>3, <1>4, <1>5, <1>6, <1>7, <1>8, <1>9 DEF Next

LEMMA Invariance == Spec => []IInv
  <1>1. Init => IInv
    BY InitTyped
  <1>2. IInv /\ [Next]_vars => IInv'
    BY NextTyped
  <1>3. QED
    BY <1>1, <1>2, PTL DEF Spec

\* Every queue holds frames the code builds, and every member has the values
\* the code gives it: type correctness of SyncSession, SignalingClient and
\* SignalingServer together.
THEOREM TypeCorrectness == Spec => []TypeOK
  <1>1. IInv => TypeOK
    <2>1. \A F : F \subseteq Frames => Seq(F) \subseteq Seq(Frames)
      BY SeqMonotonic
    <2>2. FramesOf(published) \subseteq Frames
      BY DEF FramesOf
    <2>3. Seq(FramesOf(published)) \subseteq Seq(Frames)
      BY <2>1, <2>2
    <2>4. IInv => Channels(Frames)
      BY <2>3 DEF IInv, Channels
    <2>5. QED
      BY <2>4 DEF IInv, TypeOK, ClientOK, SessionOK, Channels
  <1>2. QED
    BY <1>1, Invariance, PTL

\* onRelayState compares numbers that only the host gives out, and the host is
\* never behind: whatever is lost, delayed, left over from a connection that
\* was given up, or joined again, the host's next state is taken by every guest.
THEOREM HostIsNeverBehind == Spec => []NextStateIsTaken
  <1>1. IInv => NextStateIsTaken
    BY DEF IInv
  <1>2. QED
    BY <1>1, Invariance, PTL

----------------------------------------------------------------------------
(* SessionSync implements HostLog: for any set of guests and any pattern   *)
(* of breaks, reconnects, departures and returns, the session behaves as a *)
(* log that its host writes and every guest reads forward.  Every step of  *)
(* the session is one of four things to the log: the host captures a state *)
(* (Publishes), a guest takes one (Takes), a guest joins or leaves         *)
(* (Forgets), or nothing.  That a guest takes the state the host captured  *)
(* under that number is the invariant on the frames of all queues.         *)

taken == <<lastRemoteSeq, remote>>

\* The four kinds of step.
Publishes == (\E st \in PlayStates : Capture(st)) /\ UNCHANGED taken
Takes(g) ==
    /\ UNCHANGED published
    /\ \E n \in DOMAIN published :
          /\ n > lastRemoteSeq[g]
          /\ lastRemoteSeq' = [lastRemoteSeq EXCEPT ![g] = n]
          /\ remote' = [remote EXCEPT ![g] = published[n]]
Forgets(p) ==
    /\ UNCHANGED published
    /\ lastRemoteSeq' = [lastRemoteSeq EXCEPT ![p] = 0]
    /\ remote' = [remote EXCEPT ![p] = NoState]
Nothing == UNCHANGED <<published, taken>>

LogStep == \/ Publishes \/ Nothing \/ Forgets(Host)
           \/ \E g \in Guests : Takes(g) \/ Forgets(g)

----------------------------------------------------------------------------
(* What each step of the session is to the log.                            *)

\* A callback takes a state only on a guest, and only one the host captured.
LEMMA OnStateIsALogStep ==
    ASSUME IInv, NEW p \in Peers, Queue(p) # <<>>, Dequeue(p), OnState(p)
    PROVE  LogStep
  <1> DEFINE new == p # Host /\ Event(p).seq > lastRemoteSeq[p]
  <1>1. /\ Event(p).seq \in 1 .. Len(published)
        /\ Event(p).state = published[Event(p).seq]
        /\ DOMAIN published = 1 .. Len(published)
    BY DequeueTyped, FramesRead, LenProperties DEF IInv, SessionOK, OnState
  <1>2. CASE new
    <2>1. p \in Guests
      BY <1>2 DEF Peers
    <2>2. Takes(p)
      BY <1>1, <1>2 DEF OnState, Takes, hostData
    <2>3. QED
      BY <2>1, <2>2 DEF LogStep
  <1>3. CASE ~new
    BY <1>3 DEF OnState, hostData, LogStep, Nothing, taken
  <1>4. QED
    BY <1>2, <1>3

LEMMA CallbackIsALogStep ==
    ASSUME IInv, NEW p \in Peers, HandleEvent(p)
    PROVE  LogStep
  <1>1. player[p] \in PlayStates
    BY DEF IInv, SessionOK
  <1>2. CASE OnConnected(p) \/ OnPeerUpdate(p)
    BY <1>1, <1>2 DEF OnConnected, OnPeerUpdate, guestData, LogStep, Publishes, Nothing, taken
  <1>3. CASE OnDisconnected(p) \/ OnFile(p) \/ OnOpenUrl(p)
    BY <1>3 DEF OnDisconnected, OnFile, OnOpenUrl, session, hostData, guestData, LogStep, Nothing,
                taken
  <1>4. CASE OnState(p)
    BY <1>4, OnStateIsALogStep DEF HandleEvent
  <1>5. CASE OnIntent(p)
    <2>1. Applied(Event(p).command, player[p]) \in PlayStates
      BY <1>1, <1>5, DequeueTyped, FramesRead, AppliedTyped
         DEF IInv, SessionOK, HandleEvent, OnIntent
    <2>2. QED
      BY <1>5, <2>1 DEF OnIntent, guestData, LogStep, Publishes, Nothing, taken
  <1>6. QED
    BY <1>2, <1>3, <1>4, <1>5 DEF HandleEvent

\* What the users and the clock do.
LEMMA UserIsALogStep ==
    ASSUME IInv,
           \/ Heartbeat \/ (\E f \in Sources \cup Urls : SetLocalFileInfo(f))
           \/ (\E u \in Urls : ShareOpenUrl(u))
           \/ (\E p \in Peers : \E cmd \in Commands : UserCommand(p, cmd))
    PROVE  LogStep
  <1>1. CASE Heartbeat
    <2>1. player[Host] \in PlayStates
      BY DEF IInv, SessionOK, Peers
    <2>2. QED
      BY <1>1, <2>1 DEF Heartbeat, Broadcast, guestData, LogStep, Publishes, taken
  <1>2. CASE \/ \E f \in Sources \cup Urls : SetLocalFileInfo(f)
             \/ \E u \in Urls : ShareOpenUrl(u)
    BY <1>2 DEF SetLocalFileInfo, ShareOpenUrl, guestData, LogStep, Nothing, taken
  <1>3. ASSUME NEW p \in Peers, NEW cmd \in Commands, UserCommand(p, cmd)
        PROVE  LogStep
    <2>1. Applied(cmd, player[p]) \in PlayStates
      BY AppliedTyped DEF IInv, SessionOK
    <2>2. QED
      BY <1>3, <2>1 DEF UserCommand, Broadcast, guestData, LogStep, Publishes, Nothing, taken
  <1>4. QED
    BY <1>1, <1>2, <1>3

\* Hosting starts a log that is empty already; joining and leaving forget.
LEMMA MembershipIsALogStep ==
    ASSUME IInv,
           \/ StartHostSession
           \/ (\E g \in Guests : JoinSession(g) \/ LeaveSession(g))
           \/ (\E p \in Peers : Reconnect(p))
    PROVE  LogStep
  <1>1. CASE StartHostSession
    <2>1. published = <<>>
      BY <1>1, EmptySeq DEF IInv, SessionOK, NotStarted, StartHostSession
    <2>2. QED
      BY <1>1, <2>1 DEF StartHostSession, LogStep, Forgets
  <1>2. CASE \E g \in Guests : JoinSession(g) \/ LeaveSession(g)
    BY <1>2 DEF JoinSession, LeaveSession, hostData, LogStep, Forgets
  <1>3. CASE \E p \in Peers : Reconnect(p)
    BY <1>3 DEF Reconnect, session, hostData, guestData, LogStep, Nothing, taken
  <1>4. QED
    BY <1>1, <1>2, <1>3

LEMMA NextIsALogStep ==
    ASSUME IInv, [Next]_vars
    PROVE  LogStep
  <1>1. CASE \E s \in Sockets : ServerStep(s) \/ Open(s) \/ Refuse(s) \/ Drop(s)
    BY <1>1 DEF ServerStep, Open, Refuse, Drop, session, hostData, guestData, LogStep, Nothing,
                taken
  <1>2. CASE \E p \in Peers : HandleEvent(p)
    BY <1>2, CallbackIsALogStep
  <1>3. CASE UNCHANGED vars
    BY <1>3 DEF vars, session, hostData, guestData, LogStep, Nothing, taken
  <1>4. QED
    BY <1>1, <1>2, <1>3, UserIsALogStep, MembershipIsALogStep DEF Next

----------------------------------------------------------------------------
(* The log's view of them.                                                 *)

LEMMA LogStepsAreAllowed ==
    ASSUME IInv, LogStep
    PROVE  [Log!LogNext]_(Log!logVars)
  <1> DEFINE applied == [g \in Guests |-> lastRemoteSeq[g]]
             view    == [g \in Guests |-> remote[g]]
  <1>1. /\ lastRemoteSeq \in [Peers -> Nat] /\ Guests \subseteq Peers /\ Host \notin Guests
        /\ DOMAIN remote = Peers
    BY PeersAssumption DEF IInv, SessionOK, Peers
  <1> USE DEF Log!LogNext, Log!logVars, Log!Publish, Log!Take, Log!Forget
  <1>2. CASE Publishes
    BY <1>2 DEF Publishes, Capture, taken
  <1>3. CASE Nothing
    BY <1>3 DEF Nothing, taken
  <1>4. CASE Forgets(Host)
    <2>1. applied' = applied /\ view' = view /\ published' = published
      BY <1>1, <1>4 DEF Forgets
    <2>2. QED
      BY <2>1
  <1>5. ASSUME NEW g \in Guests, Takes(g)
        PROVE  [Log!LogNext]_(Log!logVars)
    <2>1. PICK n \in DOMAIN published :
              /\ n > lastRemoteSeq[g]
              /\ lastRemoteSeq' = [lastRemoteSeq EXCEPT ![g] = n]
              /\ remote' = [remote EXCEPT ![g] = published[n]]
      BY <1>5 DEF Takes
    <2>2. /\ applied' = [applied EXCEPT ![g] = n]
          /\ view' = [view EXCEPT ![g] = published[n]]
          /\ n > applied[g] /\ published' = published
      BY <1>1, <1>5, <2>1 DEF Takes
    <2>3. Log!Take(g, n)
      BY <2>2
    <2>4. QED
      BY <2>3
  <1>6. ASSUME NEW g \in Guests, Forgets(g)
        PROVE  [Log!LogNext]_(Log!logVars)
    <2>1. /\ applied' = [applied EXCEPT ![g] = 0]
          /\ view' = [view EXCEPT ![g] = NoState]
          /\ published' = published
      BY <1>1, <1>6 DEF Forgets
    <2>2. Log!Forget(g)
      BY <2>1
    <2>3. QED
      BY <2>2
  <1>7. QED
    BY <1>2, <1>3, <1>4, <1>5, <1>6 DEF LogStep

\* The host's states reach the guests as a log that is read forward: through
\* outages, reconnects and callbacks left over from connections given up, a
\* guest shows a state the host captured, under the number it was given, and
\* never goes back to an older one without joining again.
THEOREM SessionIsALog == Spec => ImplementsHostLog
  <1>1. Init => Log!LogInit
    BY DEF Init, Log!LogInit, Peers
  <1>2. IInv /\ [Next]_vars => [Log!LogNext]_(Log!logVars)
    BY NextIsALogStep, LogStepsAreAllowed
  <1>3. QED
    BY <1>1, <1>2, Invariance, PTL DEF Spec, ImplementsHostLog, Log!LogSpec

----------------------------------------------------------------------------
(* What a queue holds.                                                     *)

Has(q, t) == \E i \in 1 .. Len(q) : q[i].type = t

\* m is in q, and nothing of type t comes behind it.
Last(q, t, m) ==
    \E i \in 1 .. Len(q) : q[i] = m /\ \A k \in 1 .. Len(q) : k > i => q[k].type # t

LEMMA TailRead ==
    ASSUME NEW F, NEW q \in Seq(F), q # <<>>
    PROVE  /\ Tail(q) \in Seq(F) /\ Head(q) \in F /\ Head(q) = q[1] /\ Len(q) \in Nat \ {0}
           /\ Len(Tail(q)) = Len(q) - 1
           /\ Tail(q) = <<>> <=> Len(q) = 1
           /\ \A i \in 1 .. Len(Tail(q)) : Tail(q)[i] = q[i + 1]
           /\ \A i \in 1 .. Len(q) : i = 1 \/ (i - 1 \in 1 .. Len(Tail(q)) /\ q[i] = Tail(q)[i - 1])
  <1>1. /\ Tail(q) \in Seq(F) /\ Head(q) = q[1] /\ Head(q) \in F
        /\ Len(q) \in Nat \ {0} /\ Len(Tail(q)) = Len(q) - 1
        /\ \A i \in 1 .. Len(Tail(q)) : Tail(q)[i] = q[i + 1]
    BY HeadTailProperties, LenProperties, EmptySeq
  <1>2. Tail(q) = <<>> <=> Len(Tail(q)) = 0
    BY <1>1, EmptySeq
  <1>3. ASSUME NEW i \in 1 .. Len(q), i # 1
        PROVE  i - 1 \in 1 .. Len(Tail(q)) /\ q[i] = Tail(q)[i - 1]
    <2>1. i - 1 \in 1 .. Len(Tail(q)) /\ (i - 1) + 1 = i
      BY <1>1, <1>3
    <2>2. QED
      BY <1>1, <2>1
  <1>4. QED
    BY <1>1, <1>2, <1>3

LEMMA ConcatRead ==
    ASSUME NEW F, NEW q \in Seq(F), NEW r \in Seq(F)
    PROVE  /\ q \o r \in Seq(F) /\ Len(q) \in Nat /\ Len(r) \in Nat
           /\ Len(q \o r) = Len(q) + Len(r)
           /\ \A i \in 1 .. Len(q) : (q \o r)[i] = q[i]
           /\ \A i \in 1 .. Len(r) : (q \o r)[Len(q) + i] = r[i]
           /\ \A i \in 1 .. Len(q \o r) :
                 \/ i \in 1 .. Len(q)
                 \/ i - Len(q) \in 1 .. Len(r) /\ i = Len(q) + (i - Len(q))
  <1>1. /\ q \o r \in Seq(F) /\ Len(q) \in Nat /\ Len(r) \in Nat
        /\ Len(q \o r) = Len(q) + Len(r)
    BY ConcatProperties, LenProperties
  <1>2. /\ \A i \in 1 .. Len(q) : (q \o r)[i] = q[i]
        /\ \A i \in 1 .. Len(r) : (q \o r)[Len(q) + i] = r[i]
    BY <1>1, ConcatProperties
  <1>3. QED
    BY <1>1, <1>2

LEMMA AppendRead ==
    ASSUME NEW F, NEW q \in Seq(F), NEW m \in F
    PROVE  /\ Append(q, m) \in Seq(F) /\ Len(q) \in Nat /\ Len(Append(q, m)) = Len(q) + 1
           /\ Append(q, m)[Len(q) + 1] = m
           /\ \A i \in 1 .. Len(q) : Append(q, m)[i] = q[i]
           /\ Append(q, m) # <<>>
  <1>1. /\ Append(q, m) \in Seq(F) /\ Len(q) \in Nat /\ Len(Append(q, m)) = Len(q) + 1
        /\ Append(q, m)[Len(q) + 1] = m
        /\ \A i \in 1 .. Len(q) : Append(q, m)[i] = q[i]
    BY AppendProperties, LenProperties
  <1>2. Append(q, m) # <<>>
    BY <1>1, EmptySeq
  <1>3. QED
    BY <1>1, <1>2

LEMMA HasNone ==
    ASSUME NEW t
    PROVE  ~Has(<<>>, t)
  BY DEF Has

LEMMA HasTail ==
    ASSUME NEW F, NEW q \in Seq(F), q # <<>>, NEW t
    PROVE  Has(q, t) <=> Head(q).type = t \/ Has(Tail(q), t)
  <1>1. ASSUME Has(q, t), Head(q).type # t PROVE Has(Tail(q), t)
    <2>1. PICK i \in 1 .. Len(q) : q[i].type = t
      BY <1>1 DEF Has
    <2>2. i - 1 \in 1 .. Len(Tail(q)) /\ Tail(q)[i - 1].type = t
      BY <1>1, <2>1, TailRead
    <2>3. QED
      BY <2>2 DEF Has
  <1>2. ASSUME Has(Tail(q), t) PROVE Has(q, t)
    <2>1. PICK i \in 1 .. Len(Tail(q)) : Tail(q)[i].type = t
      BY <1>2 DEF Has
    <2>2. i + 1 \in 1 .. Len(q) /\ q[i + 1].type = t
      BY <2>1, TailRead
    <2>3. QED
      BY <2>2 DEF Has
  <1>3. ASSUME Head(q).type = t PROVE Has(q, t)
    <2>1. 1 \in 1 .. Len(q) /\ q[1].type = t
      BY <1>3, TailRead
    <2>2. QED
      BY <2>1 DEF Has
  <1>4. QED
    BY <1>1, <1>2, <1>3

LEMMA HasConcat ==
    ASSUME NEW F, NEW q \in Seq(F), NEW r \in Seq(F), NEW t
    PROVE  Has(q \o r, t) <=> Has(q, t) \/ Has(r, t)
  <1>1. ASSUME Has(q \o r, t) PROVE Has(q, t) \/ Has(r, t)
    <2>1. PICK i \in 1 .. Len(q \o r) : (q \o r)[i].type = t
      BY <1>1 DEF Has
    <2>2. CASE i \in 1 .. Len(q)
      BY <2>1, <2>2, ConcatRead DEF Has
    <2>3. CASE i - Len(q) \in 1 .. Len(r) /\ i = Len(q) + (i - Len(q))
      <3>1. r[i - Len(q)].type = t
        BY <2>1, <2>3, ConcatRead
      <3>2. QED
        BY <2>3, <3>1 DEF Has
    <2>4. QED
      BY <2>2, <2>3, ConcatRead
  <1>2. ASSUME Has(q, t) PROVE Has(q \o r, t)
    <2>1. PICK i \in 1 .. Len(q) : q[i].type = t
      BY <1>2 DEF Has
    <2>2. i \in 1 .. Len(q \o r) /\ (q \o r)[i].type = t
      BY <2>1, ConcatRead
    <2>3. QED
      BY <2>2 DEF Has
  <1>3. ASSUME Has(r, t) PROVE Has(q \o r, t)
    <2>1. PICK i \in 1 .. Len(r) : r[i].type = t
      BY <1>3 DEF Has
    <2>2. Len(q) + i \in 1 .. Len(q \o r) /\ (q \o r)[Len(q) + i].type = t
      BY <2>1, ConcatRead
    <2>3. QED
      BY <2>2 DEF Has
  <1>4. QED
    BY <1>1, <1>2, <1>3

LEMMA HasAppend ==
    ASSUME NEW F, NEW q \in Seq(F), NEW m \in F, NEW t
    PROVE  Has(Append(q, m), t) <=> Has(q, t) \/ m.type = t
  <1>1. ASSUME Has(Append(q, m), t) PROVE Has(q, t) \/ m.type = t
    <2>1. PICK i \in 1 .. Len(Append(q, m)) : Append(q, m)[i].type = t
      BY <1>1 DEF Has
    <2>2. i \in 1 .. Len(q) \/ i = Len(q) + 1
      BY <2>1, AppendRead
    <2>3. QED
      BY <2>1, <2>2, AppendRead DEF Has
  <1>2. ASSUME Has(q, t) PROVE Has(Append(q, m), t)
    <2>1. PICK i \in 1 .. Len(q) : q[i].type = t
      BY <1>2 DEF Has
    <2>2. i \in 1 .. Len(Append(q, m)) /\ Append(q, m)[i].type = t
      BY <2>1, AppendRead
    <2>3. QED
      BY <2>2 DEF Has
  <1>3. ASSUME m.type = t PROVE Has(Append(q, m), t)
    <2>1. Len(q) + 1 \in 1 .. Len(Append(q, m)) /\ Append(q, m)[Len(q) + 1].type = t
      BY <1>3, AppendRead
    <2>2. QED
      BY <2>1 DEF Has
  <1>4. QED
    BY <1>1, <1>2, <1>3

LEMMA HasPrefix ==
    ASSUME NEW F, NEW q \in Seq(F), NEW i \in 0 .. Len(q), NEW t, Has(SubSeq(q, 1, i), t)
    PROVE  Has(q, t)
  <1>1. /\ Len(q) \in Nat /\ Len(SubSeq(q, 1, i)) = i
        /\ \A k \in 1 .. i : SubSeq(q, 1, i)[k] = q[k]
    BY LenProperties, SubSeqProperties
  <1>2. PICK k \in 1 .. i : SubSeq(q, 1, i)[k].type = t
    BY <1>1 DEF Has
  <1>3. k \in 1 .. Len(q) /\ q[k].type = t
    BY <1>1, <1>2
  <1>4. QED
    BY <1>3 DEF Has

LEMMA LastAppendOld ==
    ASSUME NEW F, NEW q \in Seq(F), NEW x \in F, NEW t, NEW m, Last(q, t, m), x.type # t
    PROVE  Last(Append(q, x), t, m)
  <1>1. PICK i \in 1 .. Len(q) : q[i] = m /\ \A k \in 1 .. Len(q) : k > i => q[k].type # t
    BY DEF Last
  <1>2. i \in 1 .. Len(Append(q, x)) /\ Append(q, x)[i] = m
    BY <1>1, AppendRead
  <1>3. \A k \in 1 .. Len(Append(q, x)) : k > i => Append(q, x)[k].type # t
    <2>1. \A k \in 1 .. Len(Append(q, x)) : k \in 1 .. Len(q) \/ k = Len(q) + 1
      BY AppendRead
    <2>2. QED
      BY <1>1, <2>1, AppendRead
  <1>4. QED
    BY <1>2, <1>3 DEF Last

LEMMA LastAppendNew ==
    ASSUME NEW F, NEW q \in Seq(F), NEW m \in F, NEW t
    PROVE  Last(Append(q, m), t, m)
  <1>1. /\ Len(q) + 1 \in 1 .. Len(Append(q, m)) /\ Append(q, m)[Len(q) + 1] = m
        /\ \A k \in 1 .. Len(Append(q, m)) : ~(k > Len(q) + 1)
    BY AppendRead
  <1>2. QED
    BY <1>1 DEF Last

LEMMA LastConcatOld ==
    ASSUME NEW F, NEW q \in Seq(F), NEW r \in Seq(F), NEW t, NEW m, Last(q, t, m), ~Has(r, t)
    PROVE  Last(q \o r, t, m)
  <1>1. PICK i \in 1 .. Len(q) : q[i] = m /\ \A k \in 1 .. Len(q) : k > i => q[k].type # t
    BY DEF Last
  <1>2. i \in 1 .. Len(q \o r) /\ (q \o r)[i] = m
    BY <1>1, ConcatRead
  <1>3. ASSUME NEW k \in 1 .. Len(q \o r), k > i PROVE (q \o r)[k].type # t
    <2>1. CASE k \in 1 .. Len(q)
      BY <1>1, <1>3, <2>1, ConcatRead
    <2>2. CASE k - Len(q) \in 1 .. Len(r) /\ k = Len(q) + (k - Len(q))
      <3>1. (q \o r)[k] = r[k - Len(q)]
        BY <2>2, ConcatRead
      <3>2. QED
        BY <2>2, <3>1 DEF Has
    <2>3. QED
      BY <2>1, <2>2, ConcatRead
  <1>4. QED
    BY <1>2, <1>3 DEF Last

LEMMA LastConcatNew ==
    ASSUME NEW F, NEW q \in Seq(F), NEW r \in Seq(F), NEW t, NEW m, Last(r, t, m)
    PROVE  Last(q \o r, t, m)
  <1>1. PICK i \in 1 .. Len(r) : r[i] = m /\ \A k \in 1 .. Len(r) : k > i => r[k].type # t
    BY DEF Last
  <1>2. Len(q) + i \in 1 .. Len(q \o r) /\ (q \o r)[Len(q) + i] = m
    BY <1>1, ConcatRead
  <1>3. ASSUME NEW k \in 1 .. Len(q \o r), k > Len(q) + i PROVE (q \o r)[k].type # t
    <2>1. k - Len(q) \in 1 .. Len(r) /\ k = Len(q) + (k - Len(q)) /\ k - Len(q) > i
      BY <1>3, ConcatRead
    <2>2. (q \o r)[k] = r[k - Len(q)]
      BY <2>1, ConcatRead
    <2>3. QED
      BY <1>1, <2>1, <2>2
  <1>4. QED
    BY <1>2, <1>3 DEF Last

LEMMA LastTail ==
    ASSUME NEW F, NEW q \in Seq(F), q # <<>>, NEW t, NEW m, Last(q, t, m)
    PROVE  Last(Tail(q), t, m) \/ (Head(q) = m /\ ~Has(Tail(q), t))
  <1>1. PICK i \in 1 .. Len(q) : q[i] = m /\ \A k \in 1 .. Len(q) : k > i => q[k].type # t
    BY DEF Last
  <1>2. ASSUME NEW k \in 1 .. Len(Tail(q)), k + 1 > i PROVE Tail(q)[k].type # t
    <2>1. k + 1 \in 1 .. Len(q) /\ Tail(q)[k] = q[k + 1]
      BY TailRead
    <2>2. QED
      BY <1>1, <1>2, <2>1
  <1>3. CASE i = 1
    <2>1. \A k \in 1 .. Len(Tail(q)) : Tail(q)[k].type # t
      BY <1>2, <1>3, TailRead
    <2>2. QED
      BY <1>1, <1>3, <2>1, TailRead DEF Has
  <1>4. CASE i # 1
    <2>1. i - 1 \in 1 .. Len(Tail(q)) /\ Tail(q)[i - 1] = m
      BY <1>1, <1>4, TailRead
    <2>2. \A k \in 1 .. Len(Tail(q)) : k > i - 1 => Tail(q)[k].type # t
      BY <1>2, TailRead
    <2>3. QED
      BY <2>1, <2>2 DEF Last
  <1>5. QED
    BY <1>3, <1>4

LEMMA LastHas ==
    ASSUME NEW q, NEW t, NEW m, Last(q, t, m), m.type = t
    PROVE  Has(q, t)
  BY DEF Last, Has

----------------------------------------------------------------------------
(* What is queued at the server for a connection.                          *)

Room == SessionCode
Roles == {"host", "guest"}
RoleOf(s) == IF s[1] = Host THEN "host" ELSE "guest"

\* In the order of the connection's life: the callback about its arrival, its
\* join, what its instance sent, the callback about its end.  w is how far the
\* connection has got, role what the server knows of it, me its instance's role.
StreamOK(w, q, role, me) ==
    /\ role \in {"absent", "none", me}
    /\ w \in {"idle", "connecting"} => q = <<>> /\ role = "absent"
    /\ w = "up" /\ role = "absent" => q # <<>>
    /\ w = "down" /\ role # "absent" => q # <<>>
    /\ w = "down" /\ q # <<>> => q[Len(q)].type = "closed"
    /\ q # <<>> /\ role = "absent" => q[1].type \in {"accepted", "closed"}
    /\ \A i \in 1 .. Len(q) :
          /\ q[i].type = "accepted" => i = 1 /\ role = "absent"
          /\ q[i].type = "closed" => i = Len(q) /\ w = "down"
          /\ q[i].type = "join" =>
                /\ q[i].code = Room /\ q[i].role = me /\ role # me
                /\ \A k \in 1 .. Len(q) : k < i => q[k].type = "accepted"
          /\ q[i].type \notin {"accepted", "closed", "join"} =>
                role = me \/ \E k \in 1 .. Len(q) : k < i /\ q[k].type = "join"

Special == {"accepted", "closed", "join"}

LEMMA StreamIsOpen ==
    ASSUME NEW w, NEW role, NEW me \in Roles, NEW q \in Seq(Frames), q # <<>>,
           StreamOK(w, q, role, me)
    PROVE  w \notin {"idle", "connecting"}
  BY DEF StreamOK

LEMMA AcceptedIsNext ==
    ASSUME NEW w, NEW role, NEW me \in Roles, NEW q \in Seq(Frames), q # <<>>,
           StreamOK(w, q, role, me), Head(q).type = "accepted"
    PROVE  role = "absent"
  <1>1. 1 \in 1 .. Len(q) /\ Head(q) = q[1]
    BY TailRead
  <1>2. QED
    BY <1>1 DEF StreamOK

LEMMA JoinIsNext ==
    ASSUME NEW w, NEW role, NEW me \in Roles, NEW q \in Seq(Frames), q # <<>>,
           StreamOK(w, q, role, me), Head(q).type = "join"
    PROVE  Head(q).code = Room /\ Head(q).role = me /\ role = "none"
  <1>1. 1 \in 1 .. Len(q) /\ Head(q) = q[1]
    BY TailRead
  <1>2. QED
    BY <1>1 DEF StreamOK

LEMMA FrameIsNext ==
    ASSUME NEW w, NEW role, NEW me \in Roles, NEW q \in Seq(Frames), q # <<>>,
           StreamOK(w, q, role, me), Head(q).type \notin Special
    PROVE  role = me
  <1>1. 1 \in 1 .. Len(q) /\ Head(q) = q[1] /\ Len(q) \in Nat
    BY TailRead
  <1>2. QED
    BY <1>1 DEF StreamOK, Special

LEMMA ClosedIsNext ==
    ASSUME NEW w, NEW role, NEW me \in Roles, NEW q \in Seq(Frames), q # <<>>,
           StreamOK(w, q, role, me), Head(q).type = "closed"
    PROVE  w = "down" /\ Tail(q) = <<>>
  <1>1. 1 \in 1 .. Len(q) /\ Head(q) = q[1]
    BY TailRead
  <1>2. w = "down" /\ 1 = Len(q)
    BY <1>1 DEF StreamOK
  <1>3. QED
    BY <1>2, TailRead

LEMMA ClosedIsLast ==
    ASSUME NEW w, NEW role, NEW me \in Roles, NEW q \in Seq(Frames), q # <<>>,
           StreamOK(w, q, role, me), w = "down", Head(q).type # "closed"
    PROVE  Tail(q) # <<>> /\ Tail(q)[Len(Tail(q))].type = "closed"
  <1>1. /\ 1 \in 1 .. Len(q) /\ Head(q) = q[1] /\ Len(q) \in Nat
    BY TailRead
  <1>2. q[Len(q)].type = "closed"
    BY DEF StreamOK
  <1>3. Len(q) # 1
    BY <1>1, <1>2
  <1>4. Len(q) \in 1 .. Len(q) /\ Len(Tail(q)) = Len(q) - 1
    BY <1>1, TailRead
  <1>5. q[Len(q)] = Tail(q)[Len(Tail(q))]
    BY <1>3, <1>4, TailRead
  <1>6. QED
    BY <1>2, <1>3, <1>5, TailRead

\* The server handles the callback about the arrival, the join, a frame, the
\* callback about the end.
LEMMA StreamIsHandled ==
    ASSUME NEW w, NEW role, NEW me \in Roles, NEW q \in Seq(Frames), q # <<>>,
           StreamOK(w, q, role, me),
           NEW next, next = CASE Head(q).type = "accepted" -> "none"
                              [] Head(q).type = "closed" -> "absent"
                              [] OTHER -> me
    PROVE  StreamOK(w, Tail(q), next, me)
  <1> DEFINE r == Tail(q)
  <1>1. w \notin {"idle", "connecting"}
    BY StreamIsOpen
  <1>2. ASSUME NEW i \in 1 .. Len(r)
        PROVE  /\ i + 1 \in 1 .. Len(q) /\ r[i] = q[i + 1] /\ i + 1 # 1
               /\ 1 \in 1 .. Len(q) /\ 1 < i + 1 /\ Head(q) = q[1]
               /\ Len(r) = Len(q) - 1 /\ Len(q) \in Nat
    BY TailRead
  <1>3. ASSUME NEW i \in 1 .. Len(r)
        PROVE  r[i].type # "accepted"
    BY <1>2, <1>3 DEF StreamOK
  <1>4. ASSUME NEW i \in 1 .. Len(r), r[i].type = "closed"
        PROVE  i = Len(r) /\ w = "down"
    <2>1. i + 1 = Len(q) /\ w = "down"
      BY <1>2, <1>4 DEF StreamOK
    <2>2. QED
      BY <1>2, <1>4, <2>1
  <1>5. ASSUME NEW i \in 1 .. Len(r), r[i].type = "join"
        PROVE  Head(q).type = "accepted" /\ i = 1 /\ r[i].code = Room /\ r[i].role = me
    <2>1. /\ q[i + 1].code = Room /\ q[i + 1].role = me
          /\ \A k \in 1 .. Len(q) : k < i + 1 => q[k].type = "accepted"
      BY <1>2, <1>5 DEF StreamOK
    <2>2. i # 1 => i \in 1 .. Len(q) /\ i < i + 1
      BY <1>2, <1>5
    <2>3. i # 1 => q[i].type # "accepted"
      BY <2>2 DEF StreamOK
    <2>4. i = 1
      BY <2>1, <2>2, <2>3
    <2>5. QED
      BY <1>2, <1>5, <2>1, <2>4
  <1>6. ASSUME NEW i \in 1 .. Len(r), r[i].type \notin Special, Head(q).type = "accepted"
        PROVE  \E k \in 1 .. Len(r) : k < i /\ r[k].type = "join"
    <2>1. role = "absent"
      BY <1>6, AcceptedIsNext
    <2>2. role # me
      BY <2>1 DEF Roles
    <2>3. PICK k \in 1 .. Len(q) : k < i + 1 /\ q[k].type = "join"
      BY <1>2, <1>6, <2>2 DEF StreamOK, Special
    <2>4. k # 1
      BY <1>2, <1>6, <2>3
    <2>5. k - 1 \in 1 .. Len(r) /\ q[k] = r[k - 1] /\ k - 1 < i
      BY <2>3, <2>4, TailRead
    <2>6. QED
      BY <2>3, <2>5
  <1>7. Head(q).type # "closed" /\ w = "down" => r # <<>> /\ r[Len(r)].type = "closed"
    BY ClosedIsLast
  <1> HIDE DEF r
  <1>8. CASE Head(q).type = "accepted"
    <2>1. next = "none" /\ "none" # me
      BY <1>8 DEF Roles
    <2>2. ASSUME NEW i \in 1 .. Len(r), r[i].type = "join"
          PROVE  \A k \in 1 .. Len(r) : k < i => r[k].type = "accepted"
      BY <1>5, <2>2
    <2>3. QED
      BY <1>1, <1>3, <1>4, <1>5, <1>6, <1>7, <1>8, <2>1, <2>2 DEF StreamOK, Special, r
  <1>9. CASE Head(q).type = "closed"
    <2>1. r = <<>> /\ w = "down"
      BY <1>9, ClosedIsNext DEF r
    <2>2. next = "absent"
      BY <1>9
    <2>3. QED
      BY <2>1, <2>2 DEF StreamOK, r
  <1>10. CASE Head(q).type \notin {"accepted", "closed"}
    <2>1. next = me
      BY <1>10
    <2>2. next # "absent"
      BY <2>1 DEF Roles
    <2>3. ASSUME NEW i \in 1 .. Len(r) PROVE r[i].type # "join"
      BY <1>5, <1>10, <2>3
    <2>4. QED
      BY <1>1, <1>3, <1>4, <1>7, <1>10, <2>1, <2>2, <2>3 DEF StreamOK, r
  <1>11. QED
    BY <1>8, <1>9, <1>10

\* The connection breaks after the first i frames arrived.
LEMMA StreamIsCut ==
    ASSUME NEW role, NEW me \in Roles, NEW q \in Seq(Frames),
           StreamOK("up", q, role, me), NEW i \in 0 .. Len(q)
    PROVE  LET cut == Append(SubSeq(q, 1, i), Closed) IN
           /\ cut \in Seq(Frames)
           /\ StreamOK("down", cut, role, me)
           /\ Has(cut, "join") => Has(q, "join")
  <1> DEFINE kept == SubSeq(q, 1, i)
             cut  == Append(kept, Closed)
  <1>1. Len(q) \in Nat
    BY LenProperties
  <1>2. kept \in Seq(Frames) /\ Len(kept) = i /\ \A k \in 1 .. i : kept[k] = q[k]
    BY <1>1, SubSeqProperties
  <1>3. Closed \in Frames /\ Closed.type = "closed"
    BY DEF Closed, Frames
  <1> HIDE DEF kept
  <1>4. /\ cut \in Seq(Frames) /\ Len(cut) = i + 1 /\ cut[i + 1] = Closed /\ cut # <<>>
        /\ \A k \in 1 .. i : cut[k] = q[k]
    BY <1>1, <1>2, <1>3, AppendRead
  <1> HIDE DEF cut
  <1>5. ASSUME NEW k \in 1 .. Len(cut)
        PROVE  /\ cut[k].type = "accepted" => k = 1 /\ role = "absent"
               /\ cut[k].type = "closed" => k = Len(cut)
               /\ cut[k].type = "join" =>
                     /\ cut[k].code = Room /\ cut[k].role = me /\ role # me
                     /\ \A j \in 1 .. Len(cut) : j < k => cut[j].type = "accepted"
               /\ cut[k].type \notin Special =>
                     role = me \/ \E j \in 1 .. Len(cut) : j < k /\ cut[j].type = "join"
    <2>1. CASE k = i + 1
      BY <1>3, <1>4, <2>1 DEF Special
    <2>2. CASE k \in 1 .. i
      <3>1. /\ k \in 1 .. Len(q) /\ cut[k] = q[k]
            /\ \A j \in 1 .. Len(cut) : j < k => j \in 1 .. Len(q) /\ cut[j] = q[j]
            /\ \A j \in 1 .. Len(q) : j < k => j \in 1 .. Len(cut) /\ cut[j] = q[j]
        BY <1>1, <1>4, <2>2
      <3>2. /\ cut[k].type = "accepted" => k = 1 /\ role = "absent"
            /\ cut[k].type # "closed"
        BY <3>1 DEF StreamOK
      <3>3. cut[k].type = "join" =>
                     /\ cut[k].code = Room /\ cut[k].role = me /\ role # me
                     /\ \A j \in 1 .. Len(cut) : j < k => cut[j].type = "accepted"
        BY <3>1 DEF StreamOK
      <3>4. cut[k].type \notin Special =>
                     role = me \/ \E j \in 1 .. Len(cut) : j < k /\ cut[j].type = "join"
        BY <3>1 DEF StreamOK, Special
      <3>5. QED
        BY <3>2, <3>3, <3>4
    <2>3. QED
      BY <1>1, <1>4, <2>1, <2>2
  <1>6. role = "absent" => cut[1].type \in {"accepted", "closed"}
    <2>1. CASE i = 0
      BY <1>3, <1>4, <2>1
    <2>2. CASE i # 0
      <3>1. cut[1] = q[1] /\ q # <<>>
        BY <1>1, <1>4, <2>2
      <3>2. QED
        BY <3>1 DEF StreamOK
    <2>3. QED
      BY <2>1, <2>2
  <1>7. cut[Len(cut)].type = "closed"
    BY <1>3, <1>4
  <1>8. StreamOK("down", cut, role, me)
    BY <1>4, <1>5, <1>6, <1>7 DEF StreamOK, Special
  <1>9. Has(cut, "join") => Has(q, "join")
    <2>1. Has(cut, "join") => Has(kept, "join")
      BY <1>2, <1>3, HasAppend DEF cut
    <2>2. Has(kept, "join") => Has(q, "join")
      BY HasPrefix DEF kept
    <2>3. QED
      BY <2>1, <2>2
  <1>10. QED
    BY <1>4, <1>8, <1>9 DEF cut, kept

\* The connection is closed by one of its ends.
LEMMA StreamEnds ==
    ASSUME NEW role, NEW me \in Roles, NEW q \in Seq(Frames),
           StreamOK("up", q, role, me)
    PROVE  StreamOK("down", Append(q, Closed), role, me)
  <1>1. Len(q) \in 0 .. Len(q) /\ SubSeq(q, 1, Len(q)) = q
    BY LenProperties, SubSeqFull
  <1>2. QED
    BY <1>1, StreamIsCut

\* The instance sends frames, behind its join.
LEMMA StreamGrows ==
    ASSUME NEW role, NEW me \in Roles, NEW q \in Seq(Frames), NEW r \in Seq(Frames),
           StreamOK("up", q, role, me), role = me \/ Has(q, "join"),
           \A i \in 1 .. Len(r) : r[i].type \notin Special
    PROVE  StreamOK("up", q \o r, role, me)
  <1> DEFINE n == q \o r
  <1>1. /\ n \in Seq(Frames) /\ Len(q) \in Nat /\ Len(n) = Len(q) + Len(r) /\ Len(r) \in Nat
        /\ \A i \in 1 .. Len(q) : n[i] = q[i]
    BY ConcatRead
  <1>2. \A k \in 1 .. Len(n) : k \in 1 .. Len(q) \/ (n[k].type \notin Special /\ k > Len(q))
    <2>1. \A k \in 1 .. Len(n) : k \in 1 .. Len(q) \/ (k - Len(q) \in 1 .. Len(r) /\ n[k] = r[k - Len(q)])
      BY ConcatRead
    <2>2. QED
      BY <1>1, <2>1
  <1> HIDE DEF n
  <1>3. ASSUME NEW k \in 1 .. Len(n)
        PROVE  /\ n[k].type = "accepted" => k = 1 /\ role = "absent"
               /\ n[k].type # "closed"
               /\ n[k].type = "join" =>
                     /\ n[k].code = Room /\ n[k].role = me /\ role # me
                     /\ \A j \in 1 .. Len(n) : j < k => n[j].type = "accepted"
               /\ n[k].type \notin Special =>
                     role = me \/ \E j \in 1 .. Len(n) : j < k /\ n[j].type = "join"
    <2>1. CASE k \in 1 .. Len(q)
      <3>1. /\ n[k] = q[k]
            /\ \A j \in 1 .. Len(n) : j < k => j \in 1 .. Len(q) /\ n[j] = q[j]
            /\ \A j \in 1 .. Len(q) : j < k => j \in 1 .. Len(n) /\ n[j] = q[j]
        <4>1. n[k] = q[k]
          BY <1>1, <2>1
        <4>2. ASSUME NEW j \in 1 .. Len(n), j < k PROVE j \in 1 .. Len(q)
          BY <1>1, <2>1, <4>2
        <4>3. ASSUME NEW j \in 1 .. Len(q) PROVE j \in 1 .. Len(n)
          BY <1>1, <4>3
        <4>4. \A j \in 1 .. Len(q) : n[j] = q[j]
          BY <1>1
        <4>5. QED
          BY <4>1, <4>2, <4>3, <4>4
      <3>2. n[k].type = "accepted" => k = 1 /\ role = "absent"
        <4>1. q[k].type = "accepted" => k = 1 /\ role = "absent"
          BY <2>1 DEF StreamOK
        <4>2. QED
          BY <3>1, <4>1
      <3>6. n[k].type # "closed"
        <4>1. q[k].type = "closed" => "up" = "down"
          BY <2>1 DEF StreamOK
        <4>2. QED
          BY <3>1, <4>1
      <3>3. n[k].type = "join" =>
                     /\ n[k].code = Room /\ n[k].role = me /\ role # me
                     /\ \A j \in 1 .. Len(n) : j < k => n[j].type = "accepted"
        BY <2>1, <3>1 DEF StreamOK
      <3>4. n[k].type \notin Special =>
                     role = me \/ \E j \in 1 .. Len(n) : j < k /\ n[j].type = "join"
        BY <2>1, <3>1 DEF StreamOK, Special
      <3>5. QED
        BY <3>2, <3>3, <3>4, <3>6
    <2>2. CASE n[k].type \notin Special /\ k > Len(q)
      <3>1. Has(q, "join") => \E j \in 1 .. Len(n) : j < k /\ n[j].type = "join"
        <4>1. SUFFICES ASSUME Has(q, "join")
                       PROVE  \E j \in 1 .. Len(n) : j < k /\ n[j].type = "join"
          OBVIOUS
        <4>2. PICK j \in 1 .. Len(q) : q[j].type = "join"
          BY <4>1 DEF Has
        <4>3. j \in 1 .. Len(n) /\ j < k /\ n[j].type = "join"
          BY <1>1, <2>2, <4>2
        <4>4. QED
          BY <4>3
      <3>2. QED
        BY <2>2, <3>1 DEF Special
    <2>3. QED
      BY <1>2, <2>1, <2>2
  <1>4. role = "absent" => q # <<>>
    BY DEF StreamOK
  <1>5. q # <<>> => n # <<>> /\ n[1] = q[1]
    BY <1>1, EmptySeq
  <1>6. n # <<>> /\ role = "absent" => n[1].type \in {"accepted", "closed"}
    BY <1>4, <1>5 DEF StreamOK
  <1>7. StreamOK("up", n, role, me)
    BY <1>3, <1>4, <1>5, <1>6 DEF StreamOK, Special
  <1>8. QED
    BY <1>7 DEF n

\* It sends its join, which is the first thing it sends.
LEMMA StreamJoins ==
    ASSUME NEW role, NEW p \in Peers, NEW q \in Seq(Frames),
           StreamOK("up", q, role, JoinFrame(p).role), role # JoinFrame(p).role,
           ~Has(q, "join")
    PROVE  /\ q \o <<JoinFrame(p)>> \in Seq(Frames)
           /\ StreamOK("up", q \o <<JoinFrame(p)>>, role, JoinFrame(p).role)
           /\ Has(q \o <<JoinFrame(p)>>, "join")
  <1> DEFINE m == JoinFrame(p)
             n == q \o <<m>>
             me == m.role
  <1>1. m \in Frames /\ m.type = "join" /\ m.code = Room /\ me \in {"host", "guest"}
    BY ValuesAssumption DEF JoinFrame, Frames, Room
  <1> HIDE DEF m
  <1>2. <<m>> \in Seq(Frames) /\ n = Append(q, m)
    BY <1>1, AppendIsConcat
  <1>3. /\ n \in Seq(Frames) /\ Len(q) \in Nat /\ Len(n) = Len(q) + 1 /\ n[Len(q) + 1] = m
        /\ n # <<>> /\ \A i \in 1 .. Len(q) : n[i] = q[i]
    BY <1>1, <1>2, AppendRead
  <1> HIDE DEF n
  <1>4. ASSUME NEW k \in 1 .. Len(q) PROVE q[k].type = "accepted" /\ k = 1 /\ role = "absent"
    BY <1>1, <1>4 DEF StreamOK, Has
  <1>5. ASSUME NEW k \in 1 .. Len(n)
        PROVE  /\ n[k].type = "accepted" => k = 1 /\ role = "absent"
               /\ n[k].type # "closed"
               /\ n[k].type = "join" =>
                     /\ n[k].code = Room /\ n[k].role = me /\ role # me
                     /\ \A j \in 1 .. Len(n) : j < k => n[j].type = "accepted"
               /\ n[k].type \in Special
    <2>1. CASE k \in 1 .. Len(q)
      BY <1>1, <1>3, <1>4, <2>1 DEF Special
    <2>2. CASE k = Len(q) + 1
      BY <1>1, <1>3, <1>4, <2>2 DEF m, Special
    <2>3. QED
      BY <1>3, <2>1, <2>2
  <1>6. role = "absent" => n[1].type \in {"accepted", "closed"}
    <2>1. SUFFICES ASSUME role = "absent" PROVE n[1].type \in {"accepted", "closed"}
      OBVIOUS
    <2>2. q # <<>>
      BY <2>1 DEF StreamOK
    <2>3. 1 \in 1 .. Len(q)
      BY <1>3, <2>2, EmptySeq
    <2>4. QED
      BY <1>3, <1>4, <2>3
  <1>7. StreamOK("up", n, role, me)
    <2>1. role \in {"absent", "none", me}
      BY DEF StreamOK, m
    <2>2. QED
      BY <1>3, <1>5, <1>6, <2>1 DEF StreamOK, Special
  <1>8. Has(n, "join")
    BY <1>1, <1>3 DEF Has
  <1>9. QED
    BY <1>3, <1>7, <1>8 DEF n, m

\* A connection begins with the callback about its arrival.
LEMMA StreamBegins ==
    ASSUME NEW me \in Roles
    PROVE  /\ <<Accepted>> \in Seq(Frames)
           /\ StreamOK("up", <<Accepted>>, "absent", me)
           /\ ~Has(<<Accepted>>, "join")
  <1> DEFINE q == <<Accepted>>
  <1>1. Accepted \in Frames /\ Accepted.type = "accepted"
    BY DEF Accepted, Frames
  <1>2. q \in Seq(Frames) /\ Len(q) = 1 /\ q[1] = Accepted
    BY <1>1
  <1>3. q # <<>>
    BY <1>2, EmptySeq
  <1> HIDE DEF q
  <1>4. StreamOK("up", q, "absent", me)
    BY <1>1, <1>2, <1>3 DEF StreamOK
  <1>5. ~Has(q, "join")
    BY <1>1, <1>2 DEF Has
  <1>6. QED
    BY <1>2, <1>4, <1>5 DEF q

\* A connection that was never made, or was given up before it was.
LEMMA StreamNever ==
    ASSUME NEW role, NEW me \in Roles, NEW q, NEW w \in {"idle", "connecting"},
           StreamOK(w, q, role, me)
    PROVE  /\ q = <<>> /\ role = "absent"
           /\ StreamOK("connecting", q, role, me)
           /\ StreamOK("down", q, role, me)
  BY DEF StreamOK

----------------------------------------------------------------------------
(* Which frames a queue holds.                                             *)

Only(q, T) == \A i \in 1 .. Len(q) : q[i].type \in T

LEMMA OnlyEmpty ==
    ASSUME NEW T
    PROVE  Only(<<>>, T)
  BY DEF Only

LEMMA OnlyOne ==
    ASSUME NEW F, NEW m \in F, NEW T, m.type \in T
    PROVE  <<m>> \in Seq(F) /\ Only(<<m>>, T)
  BY DEF Only

LEMMA OnlyHead ==
    ASSUME NEW F, NEW q \in Seq(F), q # <<>>, NEW T, Only(q, T)
    PROVE  Head(q).type \in T /\ Only(Tail(q), T)
  <1>1. 1 \in 1 .. Len(q) /\ Head(q) = q[1]
    BY TailRead
  <1>2. \A i \in 1 .. Len(Tail(q)) : i + 1 \in 1 .. Len(q) /\ Tail(q)[i] = q[i + 1]
    BY TailRead
  <1>3. QED
    BY <1>1, <1>2 DEF Only

LEMMA OnlyConcat ==
    ASSUME NEW F, NEW q \in Seq(F), NEW r \in Seq(F), NEW T, Only(q, T), Only(r, T)
    PROVE  q \o r \in Seq(F) /\ Only(q \o r, T)
  <1>1. ASSUME NEW i \in 1 .. Len(q \o r) PROVE (q \o r)[i].type \in T
    <2>1. CASE i \in 1 .. Len(q)
      BY <2>1, ConcatRead DEF Only
    <2>2. CASE i - Len(q) \in 1 .. Len(r) /\ i = Len(q) + (i - Len(q))
      <3>1. (q \o r)[i] = r[i - Len(q)]
        BY <2>2, ConcatRead
      <3>2. QED
        BY <2>2, <3>1 DEF Only
    <2>3. QED
      BY <2>1, <2>2, ConcatRead
  <1>2. QED
    BY <1>1, ConcatRead DEF Only

LEMMA OnlyAppend ==
    ASSUME NEW F, NEW q \in Seq(F), NEW m \in F, NEW T, Only(q, T), m.type \in T
    PROVE  Append(q, m) \in Seq(F) /\ Only(Append(q, m), T)
  <1>1. \A i \in 1 .. Len(Append(q, m)) : i \in 1 .. Len(q) \/ i = Len(q) + 1
    BY AppendRead
  <1>2. QED
    BY <1>1, AppendRead DEF Only

LEMMA OnlyPrefix ==
    ASSUME NEW F, NEW q \in Seq(F), NEW i \in 0 .. Len(q), NEW T, Only(q, T)
    PROVE  SubSeq(q, 1, i) \in Seq(F) /\ Only(SubSeq(q, 1, i), T)
  <1>1. /\ Len(q) \in Nat /\ Len(SubSeq(q, 1, i)) = i
        /\ \A k \in 1 .. i : SubSeq(q, 1, i)[k] = q[k]
    BY LenProperties, SubSeqProperties
  <1>2. \A k \in 1 .. i : k \in 1 .. Len(q)
    BY <1>1
  <1>3. QED
    BY <1>1, <1>2, PrefixOfSeq DEF Only

LEMMA OnlyMore ==
    ASSUME NEW q, NEW T, NEW U, Only(q, T), T \subseteq U
    PROVE  Only(q, U)
  BY DEF Only

LEMMA OnlyHas ==
    ASSUME NEW q, NEW T, NEW t, Only(q, T), t \notin T
    PROVE  ~Has(q, t)
  BY DEF Only, Has

----------------------------------------------------------------------------
(* Who is connected, and what the server makes of it.                      *)

UpTypes(s) ==
    IF s[1] = Host THEN {"accepted", "closed", "join", "state", "file", "open_url"}
                   ELSE {"accepted", "closed", "join", "intent"}

\* The one session and who has a seat in it.
Seats ==
    /\ sessionOf[Room] \in {Room, NoCode}
    /\ host[Room] # NoSocket \/ guests[Room] # {} => sessionOf[Room] = Room
    /\ \A s \in Sockets :
          /\ peers[s].role = "guest" <=> s \in guests[Room]
          /\ s = host[Room] => peers[s].role = "host"
          /\ peers[s].role = "host" /\ Live(s) => host[Room] = s
          /\ peers[s].code = IF peers[s].role \in Roles THEN Room ELSE NoCode

\* A connection, the queue to the server included.
SocketOK(s) ==
    /\ StreamOK(wire[s], up[s], peers[s].role, RoleOf(s))
    /\ Only(up[s], UpTypes(s))
    /\ s[2] > generation[s[1]] => wire[s] = "idle"
    /\ s[2] <= generation[s[1]] /\ s # socket[s[1]] => wire[s] = "down"

\* The join of a connection is at the server, or on its way.
JoinSent(s) == peers[s].role \in Roles \/ Has(up[s], "join")

\* What a client knows of its connection.
ClientLinks(p) ==
    /\ socket[p] # NoSocket => socket[p] = <<p, generation[p]>> /\ sessionActive[p]
    /\ inSession[p] => sessionActive[p]
    /\ joined[p] => /\ socket[p] # NoSocket /\ ~pendingJoin[p]
                    /\ wire[socket[p]] \in {"up", "down"}
                    /\ Live(socket[p]) => JoinSent(socket[p])
    /\ pendingJoin[p] => socket[p] # NoSocket /\ ~JoinSent(socket[p])
    /\ Only(pendingOutgoing[p], {"open_url"})
    /\ p # Host => pendingOutgoing[p] = <<>>

Links ==
    /\ Seats
    /\ \A s \in Sockets : SocketOK(s)
    /\ \A p \in Peers : ClientLinks(p)

LEMMA SocketIs ==
    ASSUME NEW s \in Sockets
    PROVE  /\ s[1] \in Peers /\ s[2] \in Nat \ {0} /\ s = <<s[1], s[2]>>
           /\ RoleOf(s) \in Roles
  <1>1. PICK p \in Peers : s \in {p} \X (1 .. MaxConnections[p])
    BY ConnectionsAssumption
  <1>2. s[1] = p /\ s[2] \in 1 .. MaxConnections[p] /\ s = <<s[1], s[2]>>
    BY <1>1
  <1>3. QED
    BY <1>2 DEF RoleOf, Roles

LEMMA QueuesTyped ==
    ASSUME IInv
    PROVE  /\ up \in [Sockets -> Seq(Frames)] /\ down \in [Sockets -> Seq(Frames)]
           /\ pendingOutgoing \in [Peers -> Seq(Frames)] /\ stale \in [Peers -> Seq(Frames)]
  <1>1. FramesOf(published) \subseteq Frames
    BY DEF FramesOf
  <1>2. Seq(FramesOf(published)) \subseteq Seq(Frames)
    BY <1>1, SeqMonotonic
  <1>3. QED
    BY <1>2 DEF IInv, Channels

----------------------------------------------------------------------------
(* The tasks of the server.                                                *)

LEMMA ArrivalIs ==
    ASSUME IInv, Links, NEW s \in Sockets, OnClientConnected(s)
    PROVE  /\ up[s] # <<>> /\ Head(up[s]).type = "accepted"
           /\ up' = [up EXCEPT ![s] = Tail(up[s])]
           /\ peers[s].role = "absent"
           /\ peers' = [peers EXCEPT ![s] = [code |-> NoCode, role |-> "none"]]
  <1>1. /\ up[s] # <<>> /\ Head(up[s]).type = "accepted"
        /\ up' = [up EXCEPT ![s] = Tail(up[s])]
        /\ peers' = [peers EXCEPT ![s] = [code |-> NoCode, role |-> "none"]]
    BY DEF OnClientConnected, HeadIs, Consume
  <1>2. up[s] \in Seq(Frames) /\ StreamOK(wire[s], up[s], peers[s].role, RoleOf(s))
    BY QueuesTyped DEF Links, SocketOK
  <1>3. QED
    BY <1>1, <1>2, SocketIs, AcceptedIsNext

\* The connections a new host takes the seat from.
Ended(s) == {x \in Sockets : s[1] = Host /\ x = host[Room] /\ Live(x)}

LEMMA JoinIs ==
    ASSUME IInv, Links, NEW s \in Sockets, OnJoin(s)
    PROVE  /\ up[s] # <<>> /\ Head(up[s]).type = "join"
           /\ peers[s].role = "none" /\ s \notin Ended(s)
           /\ sessionOf' = [sessionOf EXCEPT ![Room] = Room]
           /\ host' = [host EXCEPT ![Room] = IF s[1] = Host THEN s ELSE @]
           /\ guests' = [guests EXCEPT ![Room] = IF s[1] = Host THEN @ ELSE @ \cup {s}]
           /\ peers' = [peers EXCEPT ![s] = [code |-> Room, role |-> RoleOf(s)]]
           /\ wire' = [x \in Sockets |-> IF x \in Ended(s) THEN "down" ELSE wire[x]]
           /\ up' = [x \in Sockets |-> IF x \in Ended(s) THEN Append(up[x], Closed)
                                       ELSE IF x = s THEN Tail(up[s]) ELSE up[x]]
           /\ down' = [x \in Sockets |-> IF x \in Ended(s) THEN Append(down[x], Closed)
                                         ELSE PeerUpdateSent(host'[Room], guests'[Room])[x]]
  <1>1. up[s] # <<>> /\ Head(up[s]).type = "join" /\ up \in [Sockets -> Seq(Frames)]
    BY QueuesTyped DEF OnJoin, HeadIs
  <1>2. up[s] \in Seq(Frames) /\ StreamOK(wire[s], up[s], peers[s].role, RoleOf(s))
    BY <1>1 DEF Links, SocketOK
  <1>3. Head(up[s]).code = Room /\ Head(up[s]).role = RoleOf(s) /\ peers[s].role = "none"
    BY <1>1, <1>2, SocketIs, JoinIsNext
  <1>4. /\ Room \in Codes /\ Room # NoCode /\ sessionOf[Room] \in {Room, NoCode}
        /\ (IF sessionOf[Room] = NoCode THEN Room ELSE sessionOf[Room]) = Room
    BY ValuesAssumption, CodesAssumption DEF Room, Links, Seats
  <1>5. /\ host \in [Codes -> Sockets \cup {NoSocket}] /\ guests \in [Codes -> SUBSET Sockets]
        /\ sessionOf \in [Codes -> Codes \cup {NoCode}] /\ peers \in [Sockets -> PeerInfo]
    BY DEF IInv, ServerTypeOK
  <1>6. s # host[Room]
    BY <1>3 DEF Links, Seats
  <1>7. s \notin Ended(s)
    BY <1>6 DEF Ended
  <1> DEFINE role == RoleOf(s)
             h    == IF role = "host" THEN s ELSE host[Room]
             g    == IF role = "guest" THEN guests[Room] \cup {s} ELSE guests[Room]
             old  == IF role = "host" /\ host[Room] # s THEN host[Room] ELSE NoSocket
             ends == {old} \cap {x \in Sockets : Live(x)}
             sent == PeerUpdateSent(h, g)
  <1>8. /\ sessionOf' = [sessionOf EXCEPT ![Room] = Room]
        /\ host' = [host EXCEPT ![Room] = h]
        /\ guests' = [guests EXCEPT ![Room] = g]
        /\ peers' = [peers EXCEPT ![s] = [code |-> Room, role |-> role]]
        /\ wire' = [x \in Sockets |-> IF x \in ends THEN "down" ELSE wire[x]]
        /\ up'   = [x \in Sockets |-> IF x \in ends THEN Append(up[x], Closed)
                                      ELSE Consume(s)[x]]
        /\ down' = [x \in Sockets |-> IF x \in ends THEN Append(down[x], Closed)
                                      ELSE sent[x]]
    BY <1>3, <1>4 DEF OnJoin
  <1>9. h = (IF s[1] = Host THEN s ELSE host[Room])
        /\ g = (IF s[1] = Host THEN guests[Room] ELSE guests[Room] \cup {s})
    BY DEF RoleOf
  <1>10. ends = Ended(s)
    BY <1>6, SocketsAssumption DEF RoleOf, Ended
  <1>11. sent = PeerUpdateSent(host'[Room], guests'[Room])
    BY <1>4, <1>5, <1>8
  <1>12. \A x \in Sockets : Consume(s)[x] = IF x = s THEN Tail(up[s]) ELSE up[x]
    BY <1>1 DEF Consume
  <1> HIDE DEF role, h, g, old, ends, sent
  <1>13. host' = [host EXCEPT ![Room] = IF s[1] = Host THEN s ELSE @]
    BY <1>4, <1>5, <1>8, <1>9
  <1>14. guests' = [guests EXCEPT ![Room] = IF s[1] = Host THEN @ ELSE @ \cup {s}]
    BY <1>4, <1>5, <1>8, <1>9
  <1>15. up' = [x \in Sockets |-> IF x \in Ended(s) THEN Append(up[x], Closed)
                                  ELSE IF x = s THEN Tail(up[s]) ELSE up[x]]
    BY <1>8, <1>10, <1>12
  <1>16. /\ wire' = [x \in Sockets |-> IF x \in Ended(s) THEN "down" ELSE wire[x]]
         /\ down' = [x \in Sockets |-> IF x \in Ended(s) THEN Append(down[x], Closed)
                                       ELSE PeerUpdateSent(host'[Room], guests'[Room])[x]]
    BY <1>8, <1>10, <1>11
  <1>17. QED
    BY <1>1, <1>3, <1>7, <1>8, <1>13, <1>14, <1>15, <1>16 DEF role

\* Who leaves is told to the others, unless nobody is left.
LEMMA EndIs ==
    ASSUME IInv, Links, NEW s \in Sockets, OnSocketDisconnected(s)
    PROVE  /\ up[s] # <<>> /\ Head(up[s]).type = "closed"
           /\ wire[s] = "down" /\ Tail(up[s]) = <<>>
           /\ up' = [up EXCEPT ![s] = <<>>]
           /\ peers' = [peers EXCEPT ![s] = Absent]
           /\ host'[Room] = IF host[Room] = s THEN NoSocket ELSE host[Room]
           /\ guests'[Room] = guests[Room] \ {s}
           /\ sessionOf'[Room] \in {Room, NoCode}
           /\ host'[Room] # NoSocket \/ guests'[Room] # {} => sessionOf'[Room] = Room
           /\ \/ down' = PeerUpdateSent(host'[Room], guests'[Room])
              \/ down' = down /\ host'[Room] = NoSocket /\ guests'[Room] = {}
              \/ down' = down /\ host'[Room] = host[Room] /\ guests'[Room] = guests[Room]
  <1>1. /\ up[s] # <<>> /\ Head(up[s]).type = "closed" /\ up \in [Sockets -> Seq(Frames)]
        /\ peers' = [peers EXCEPT ![s] = Absent]
        /\ up' = [up EXCEPT ![s] = Tail(up[s])]
    BY QueuesTyped DEF OnSocketDisconnected, HeadIs, Consume
  <1>2. up[s] \in Seq(Frames) /\ StreamOK(wire[s], up[s], peers[s].role, RoleOf(s))
    BY <1>1 DEF Links, SocketOK
  <1>3. wire[s] = "down" /\ Tail(up[s]) = <<>>
    BY <1>1, <1>2, SocketIs, ClosedIsNext
  <1>4. /\ Room \in Codes /\ Room # NoCode /\ sessionOf[Room] \in {Room, NoCode}
        /\ host[Room] # NoSocket \/ guests[Room] # {} => sessionOf[Room] = Room
    BY ValuesAssumption, CodesAssumption DEF Room, Links, Seats
  <1>5. /\ host \in [Codes -> Sockets \cup {NoSocket}] /\ guests \in [Codes -> SUBSET Sockets]
        /\ sessionOf \in [Codes -> Codes \cup {NoCode}]
    BY DEF IInv, ServerTypeOK
  <1>6. /\ peers[s].code = (IF peers[s].role \in Roles THEN Room ELSE NoCode)
        /\ peers[s].role = "guest" <=> s \in guests[Room]
        /\ s = host[Room] => peers[s].role = "host"
    BY DEF Links, Seats
  <1>7. CASE SessionOfPeer(s) = NoCode
    <2>1. UNCHANGED <<down, sessionOf, host, guests>>
      BY <1>7 DEF OnSocketDisconnected
    <2>2. s # host[Room] /\ s \notin guests[Room]
      <3>1. CASE peers[s].role \in Roles
        <4>1. sessionOf[Room] = NoCode
          BY <1>4, <1>6, <1>7, <3>1 DEF SessionOfPeer
        <4>2. QED
          BY <1>4, <4>1, SocketsAssumption
      <3>2. CASE peers[s].role \notin Roles
        BY <1>6, <3>2 DEF Roles
      <3>3. QED
        BY <3>1, <3>2
    <2>3. guests[Room] \ {s} = guests[Room]
      BY <2>2
    <2>4. QED
      BY <1>1, <1>3, <1>4, <2>1, <2>2, <2>3
  <1>8. CASE SessionOfPeer(s) # NoCode
    <2> DEFINE h == HostSeatAfter(Room, s)
               g == GuestSeatsAfter(Room, s)
    <2>1. SessionOfPeer(s) = Room /\ sessionOf[Room] = Room
      BY <1>4, <1>6, <1>8 DEF SessionOfPeer
    <2>2. /\ host' = [host EXCEPT ![Room] = h]
          /\ guests' = [guests EXCEPT ![Room] = g]
          /\ \/ /\ h = NoSocket /\ g = {}
                /\ sessionOf' = [c \in Codes |-> IF sessionOf[c] = Room THEN NoCode
                                                 ELSE sessionOf[c]]
                /\ down' = down
             \/ /\ ~(h = NoSocket /\ g = {})
                /\ down' = PeerUpdateSent(h, g)
                /\ sessionOf' = sessionOf
      BY <1>4, <2>1 DEF OnSocketDisconnected
    <2>3. host'[Room] = h /\ guests'[Room] = g
      BY <1>4, <1>5, <2>2
    <2>4. h = (IF host[Room] = s THEN NoSocket ELSE host[Room]) /\ g = guests[Room] \ {s}
      BY DEF HostSeatAfter, GuestSeatsAfter
    <2> HIDE DEF h, g
    <2>5. /\ sessionOf'[Room] \in {Room, NoCode}
          /\ h # NoSocket \/ g # {} => sessionOf'[Room] = Room
      BY <1>4, <2>1, <2>2
    <2>6. \/ down' = PeerUpdateSent(host'[Room], guests'[Room])
          \/ down' = down /\ host'[Room] = NoSocket /\ guests'[Room] = {}
      BY <2>2, <2>3
    <2>7. QED
      BY <1>1, <1>3, <2>3, <2>4, <2>5, <2>6
  <1>9. QED
    BY <1>7, <1>8

LEMMA RelayIs ==
    ASSUME IInv, Links, NEW s \in Sockets, OnRelay(s)
    PROVE  /\ up[s] # <<>> /\ Head(up[s]).type \notin Special
           /\ Head(up[s]).type \in UpTypes(s)
           /\ up' = [up EXCEPT ![s] = Tail(up[s])]
           /\ peers[s].role = RoleOf(s)
  <1>1. /\ up[s] # <<>> /\ Head(up[s]).type \notin Special
        /\ up' = [up EXCEPT ![s] = Tail(up[s])]
    BY DEF OnRelay, Consume, Special
  <1>2. /\ up[s] \in Seq(Frames) /\ StreamOK(wire[s], up[s], peers[s].role, RoleOf(s))
        /\ Only(up[s], UpTypes(s))
    BY QueuesTyped DEF Links, SocketOK
  <1>3. QED
    BY <1>1, <1>2, SocketIs, FrameIsNext, OnlyHead

\* Nobody sends pings here.
LEMMA NoPing ==
    ASSUME IInv, Links, NEW s \in Sockets
    PROVE  ~OnPing(s)
  <1>1. up[s] \in Seq(Frames) /\ Only(up[s], UpTypes(s))
    BY QueuesTyped DEF Links, SocketOK
  <1>2. up[s] # <<>> => Head(up[s]).type \in UpTypes(s)
    BY <1>1, OnlyHead
  <1>3. QED
    BY <1>2 DEF OnPing, HeadIs, UpTypes

----------------------------------------------------------------------------
(* A step of the server, or of a connection, keeps the links.              *)

LEMMA ClientLinksKept ==
    ASSUME IInv, Links, NEW p \in Peers,
           UNCHANGED <<generation, socket, joined, pendingJoin, inSession, pendingOutgoing,
                       sessionActive>>,
           \A x \in Sockets :
              /\ wire[x] \in {"up", "down"} => wire'[x] \in {wire[x], "down"}
              /\ Live(x)' /\ JoinSent(x) => JoinSent(x)'
              /\ JoinSent(x)' => JoinSent(x)
    PROVE  ClientLinks(p)'
  <1>1. ClientLinks(p) /\ socket[p] \in Sockets \cup {NoSocket}
    BY DEF Links, IInv, ClientOK
  <1>2. CASE socket[p] = NoSocket
    BY <1>1, <1>2 DEF ClientLinks, Only
  <1>3. CASE socket[p] # NoSocket
    <2>1. /\ socket[p] \in Sockets /\ socket'[p] = socket[p]
          /\ wire[socket[p]] \in {"up", "down"} => wire'[socket[p]] \in {wire[socket[p]], "down"}
      BY <1>1, <1>3
    <2>2. /\ wire'[socket[p]] = "up" /\ (peers[socket[p]].role \in Roles \/ Has(up[socket[p]], "join"))
             => (peers'[socket[p]].role \in Roles \/ Has(up'[socket[p]], "join"))
          /\ (peers'[socket[p]].role \in Roles \/ Has(up'[socket[p]], "join"))
             => (peers[socket[p]].role \in Roles \/ Has(up[socket[p]], "join"))
      BY <2>1 DEF JoinSent, Live
    <2>3. joined'[p] => /\ socket'[p] # NoSocket /\ ~pendingJoin'[p]
                        /\ wire'[socket'[p]] \in {"up", "down"}
                        /\ wire'[socket'[p]] = "up" =>
                             (peers'[socket'[p]].role \in Roles \/ Has(up'[socket'[p]], "join"))
      BY <1>1, <2>1, <2>2 DEF ClientLinks, JoinSent, Live
    <2>4. pendingJoin'[p] => /\ socket'[p] # NoSocket
                             /\ ~(peers'[socket'[p]].role \in Roles \/ Has(up'[socket'[p]], "join"))
      BY <1>1, <2>1, <2>2 DEF ClientLinks, JoinSent
    <2>5. QED
      BY <1>1, <2>3, <2>4 DEF ClientLinks, JoinSent, Live, Only
  <1>4. QED
    BY <1>2, <1>3

LEMMA SocketKept ==
    ASSUME Links, NEW x \in Sockets, UNCHANGED <<generation, socket>>,
           wire'[x] = wire[x], up'[x] = up[x], peers'[x].role = peers[x].role
    PROVE  SocketOK(x)'
  <1>1. SocketOK(x)
    BY DEF Links
  <1>2. QED
    BY <1>1 DEF SocketOK, UpTypes

LEMMA ArrivalLinks ==
    ASSUME IInv, Links, NEW s \in Sockets, OnClientConnected(s), UNCHANGED <<client, session>>
    PROVE  Links'
  <1>1. /\ up[s] # <<>> /\ Head(up[s]).type = "accepted"
        /\ up' = [up EXCEPT ![s] = Tail(up[s])]
        /\ peers[s].role = "absent"
        /\ peers' = [peers EXCEPT ![s] = [code |-> NoCode, role |-> "none"]]
    BY ArrivalIs
  <1>2. /\ UNCHANGED <<wire, sessionOf, host, guests, generation, socket, joined, pendingJoin,
                       inSession, pendingOutgoing, sessionActive>>
        /\ up \in [Sockets -> Seq(Frames)] /\ peers \in [Sockets -> PeerInfo]
    BY QueuesTyped DEF OnClientConnected, client, session, IInv, ServerTypeOK
  <1>3. /\ peers'[s].role = "none" /\ peers'[s].code = NoCode /\ up'[s] = Tail(up[s])
        /\ \A x \in Sockets : x # s => peers'[x] = peers[x] /\ up'[x] = up[x]
    BY <1>1, <1>2
  <1>4. Seats'
    <2>1. s # host[Room] /\ s \notin guests[Room]
      BY <1>1 DEF Links, Seats
    <2>2. ASSUME NEW x \in Sockets
          PROVE  /\ peers'[x].role = "guest" <=> x \in guests[Room]
                 /\ x = host[Room] => peers'[x].role = "host"
                 /\ peers'[x].role = "host" /\ wire[x] = "up" => host[Room] = x
                 /\ peers'[x].code = IF peers'[x].role \in Roles THEN Room ELSE NoCode
      <3>1. CASE x = s
        BY <1>3, <2>1, <3>1 DEF Roles
      <3>2. CASE x # s
        <4>1. peers'[x] = peers[x]
          BY <1>3, <3>2
        <4>2. QED
          BY <4>1 DEF Links, Seats, Live
      <3>3. QED
        BY <3>1, <3>2
    <2>3. QED
      BY <1>2, <2>2 DEF Links, Seats, Live
  <1>5. ASSUME NEW x \in Sockets PROVE SocketOK(x)'
    <2>1. CASE x # s
      BY <1>2, <1>3, <2>1, SocketKept
    <2>2. CASE x = s
      <3>1. SocketOK(s)
        BY DEF Links
      <3>2. StreamOK(wire[s], Tail(up[s]), "none", RoleOf(s))
        BY <1>1, <1>2, <3>1, SocketIs, StreamIsHandled DEF SocketOK
      <3>3. Only(Tail(up[s]), UpTypes(s))
        BY <1>1, <1>2, <3>1, OnlyHead DEF SocketOK
      <3>4. QED
        BY <1>2, <1>3, <2>2, <3>1, <3>2, <3>3 DEF SocketOK, UpTypes
    <2>3. QED
      BY <2>1, <2>2
  <1>6. ASSUME NEW p \in Peers PROVE ClientLinks(p)'
    <2>1. Has(up[s], "join") <=> Has(Tail(up[s]), "join")
      BY <1>1, <1>2, HasTail
    <2>2. ASSUME NEW x \in Sockets PROVE JoinSent(x)' <=> JoinSent(x)
      BY <1>1, <1>3, <2>1 DEF JoinSent, Roles
    <2>3. QED
      BY <1>2, <2>2, ClientLinksKept
  <1>7. QED
    BY <1>4, <1>5, <1>6 DEF Links

LEMMA EndLinks ==
    ASSUME IInv, Links, NEW s \in Sockets, OnSocketDisconnected(s), UNCHANGED <<client, session>>
    PROVE  Links'
  <1>1. /\ up[s] # <<>> /\ Head(up[s]).type = "closed"
        /\ wire[s] = "down" /\ Tail(up[s]) = <<>>
        /\ up' = [up EXCEPT ![s] = <<>>]
        /\ peers' = [peers EXCEPT ![s] = Absent]
        /\ host'[Room] = IF host[Room] = s THEN NoSocket ELSE host[Room]
        /\ guests'[Room] = guests[Room] \ {s}
        /\ sessionOf'[Room] \in {Room, NoCode}
        /\ host'[Room] # NoSocket \/ guests'[Room] # {} => sessionOf'[Room] = Room
    BY EndIs
  <1>2. /\ UNCHANGED <<wire, generation, socket, joined, pendingJoin,
                       inSession, pendingOutgoing, sessionActive>>
        /\ up \in [Sockets -> Seq(Frames)] /\ peers \in [Sockets -> PeerInfo]
    BY QueuesTyped DEF OnSocketDisconnected, client, session, IInv, ServerTypeOK
  <1>3. /\ peers'[s].role = "absent" /\ peers'[s].code = NoCode /\ up'[s] = <<>>
        /\ \A x \in Sockets : x # s => peers'[x] = peers[x] /\ up'[x] = up[x]
    BY <1>1, <1>2 DEF Absent
  <1>4. Seats'
    <2>1. ASSUME NEW x \in Sockets
          PROVE  /\ peers'[x].role = "guest" <=> x \in guests'[Room]
                 /\ x = host'[Room] => peers'[x].role = "host"
                 /\ peers'[x].role = "host" /\ wire'[x] = "up" => host'[Room] = x
                 /\ peers'[x].code = IF peers'[x].role \in Roles THEN Room ELSE NoCode
      <3>1. CASE x = s
        BY <1>1, <1>3, <3>1, SocketsAssumption DEF Roles
      <3>2. CASE x # s
        <4>1. /\ peers[x].role = "guest" <=> x \in guests[Room]
              /\ x = host[Room] => peers[x].role = "host"
              /\ peers[x].role = "host" /\ wire[x] = "up" => host[Room] = x
              /\ peers[x].code = IF peers[x].role \in Roles THEN Room ELSE NoCode
          BY DEF Links, Seats, Live
        <4>2. QED
          BY <1>1, <1>2, <1>3, <3>2, <4>1, SocketsAssumption
      <3>3. QED
        BY <3>1, <3>2
    <2>2. QED
      BY <1>1, <2>1 DEF Seats, Live
  <1>5. ASSUME NEW x \in Sockets PROVE SocketOK(x)'
    <2>1. CASE x # s
      BY <1>2, <1>3, <2>1, SocketKept
    <2>2. CASE x = s
      <3>1. SocketOK(s)
        BY DEF Links
      <3>2. StreamOK(wire[s], Tail(up[s]), "absent", RoleOf(s))
        BY <1>1, <1>2, <3>1, SocketIs, StreamIsHandled DEF SocketOK
      <3>3. Only(<<>>, UpTypes(s))
        BY OnlyEmpty
      <3>4. QED
        BY <1>1, <1>2, <1>3, <2>2, <3>1, <3>2, <3>3 DEF SocketOK, UpTypes
    <2>3. QED
      BY <2>1, <2>2
  <1>6. ASSUME NEW p \in Peers PROVE ClientLinks(p)'
    <2>1. ~JoinSent(s)'
      BY <1>3, HasNone DEF JoinSent, Roles
    <2>2. ASSUME NEW x \in Sockets
          PROVE  /\ JoinSent(x)' => JoinSent(x)
                 /\ Live(x)' /\ JoinSent(x) => JoinSent(x)'
      <3>1. CASE x = s
        BY <1>1, <1>2, <2>1, <3>1 DEF Live
      <3>2. CASE x # s
        BY <1>3, <3>2 DEF JoinSent
      <3>3. QED
        BY <3>1, <3>2
    <2>3. QED
      BY <1>2, <2>2, ClientLinksKept
  <1>7. QED
    BY <1>4, <1>5, <1>6 DEF Links

LEMMA JoinLinks ==
    ASSUME IInv, Links, NEW s \in Sockets, OnJoin(s), UNCHANGED <<client, session>>
    PROVE  Links'
  <1>1. /\ up[s] # <<>> /\ Head(up[s]).type = "join"
        /\ peers[s].role = "none" /\ s \notin Ended(s)
        /\ sessionOf' = [sessionOf EXCEPT ![Room] = Room]
        /\ host' = [host EXCEPT ![Room] = IF s[1] = Host THEN s ELSE @]
        /\ guests' = [guests EXCEPT ![Room] = IF s[1] = Host THEN @ ELSE @ \cup {s}]
        /\ peers' = [peers EXCEPT ![s] = [code |-> Room, role |-> RoleOf(s)]]
        /\ wire' = [x \in Sockets |-> IF x \in Ended(s) THEN "down" ELSE wire[x]]
        /\ up' = [x \in Sockets |-> IF x \in Ended(s) THEN Append(up[x], Closed)
                                    ELSE IF x = s THEN Tail(up[s]) ELSE up[x]]
    BY JoinIs
  <1>2. /\ UNCHANGED <<generation, socket, joined, pendingJoin, inSession, pendingOutgoing,
                       sessionActive>>
        /\ up \in [Sockets -> Seq(Frames)] /\ peers \in [Sockets -> PeerInfo]
        /\ Room \in Codes /\ host \in [Codes -> Sockets \cup {NoSocket}]
        /\ guests \in [Codes -> SUBSET Sockets] /\ sessionOf \in [Codes -> Codes \cup {NoCode}]
    BY QueuesTyped, ValuesAssumption DEF client, session, IInv, ServerTypeOK, Room
  <1>3. /\ peers'[s].role = RoleOf(s) /\ peers'[s].code = Room
        /\ \A x \in Sockets : x # s => peers'[x] = peers[x]
        /\ sessionOf'[Room] = Room
        /\ host'[Room] = IF s[1] = Host THEN s ELSE host[Room]
        /\ guests'[Room] = IF s[1] = Host THEN guests[Room] ELSE guests[Room] \cup {s}
    BY <1>1, <1>2
  <1>4. ASSUME NEW x \in Sockets
        PROVE  /\ x \in Ended(s) =>
                     /\ x # s /\ x = host[Room] /\ peers[x].role = "host" /\ wire[x] = "up"
                     /\ wire'[x] = "down" /\ up'[x] = Append(up[x], Closed)
               /\ x \notin Ended(s) =>
                     wire'[x] = wire[x] /\ up'[x] = IF x = s THEN Tail(up[s]) ELSE up[x]
    BY <1>1 DEF Ended, Live, Links, Seats
  <1>5. Seats'
    <2>1. ASSUME NEW x \in Sockets
          PROVE  /\ peers'[x].role = "guest" <=> x \in guests'[Room]
                 /\ x = host'[Room] => peers'[x].role = "host"
                 /\ peers'[x].role = "host" /\ wire'[x] = "up" => host'[Room] = x
                 /\ peers'[x].code = IF peers'[x].role \in Roles THEN Room ELSE NoCode
      <3>1. /\ peers[x].role = "guest" <=> x \in guests[Room]
            /\ x = host[Room] => peers[x].role = "host"
            /\ peers[x].role = "host" /\ wire[x] = "up" => host[Room] = x
            /\ peers[x].code = IF peers[x].role \in Roles THEN Room ELSE NoCode
        BY DEF Links, Seats, Live
      <3>2. CASE x = s
        <4>1. x # host[Room] /\ x \notin guests[Room]
          BY <1>1, <3>1, <3>2
        <4>2. QED
          BY <1>3, <3>2, <4>1 DEF RoleOf, Roles
      <3>3. CASE x # s
        <4>1. s[1] = Host /\ peers[x].role = "host" /\ wire'[x] = "up" => FALSE
          <5>1. SUFFICES ASSUME s[1] = Host, peers[x].role = "host", wire'[x] = "up"
                         PROVE  FALSE
            OBVIOUS
          <5>2. wire[x] = "up"
            BY <1>4, <5>1
          <5>3. x \in Ended(s)
            BY <3>1, <5>1, <5>2 DEF Ended, Live
          <5>4. QED
            BY <1>4, <5>1, <5>3
        <4>2. wire'[x] = "up" => wire[x] = "up"
          BY <1>4
        <4>3. QED
          BY <1>3, <3>1, <3>3, <4>1, <4>2
      <3>4. QED
        BY <3>2, <3>3
    <2>2. QED
      BY <1>3, <2>1 DEF Seats, Live
  <1>6. ASSUME NEW x \in Sockets PROVE SocketOK(x)'
    <2>1. SocketOK(x) /\ up[x] \in Seq(Frames)
      BY <1>2 DEF Links
    <2>2. CASE x \in Ended(s)
      <3>1. StreamOK("up", up[x], peers[x].role, RoleOf(x))
        BY <1>4, <2>1, <2>2 DEF SocketOK
      <3>2. StreamOK("down", Append(up[x], Closed), peers[x].role, RoleOf(x))
        BY <2>1, <3>1, SocketIs, StreamEnds
      <3>3. Only(Append(up[x], Closed), UpTypes(x))
        <4>1. Closed \in Frames /\ Closed.type \in UpTypes(x)
          BY DEF Closed, Frames, UpTypes
        <4>2. QED
          BY <2>1, <4>1, OnlyAppend DEF SocketOK
      <3>4. ~(x[2] > generation[x[1]])
        BY <1>4, <2>1, <2>2 DEF SocketOK
      <3>5. QED
        BY <1>2, <1>3, <1>4, <2>2, <3>2, <3>3, <3>4 DEF SocketOK, UpTypes
    <2>3. CASE x = s
      <3>1. StreamOK(wire[s], Tail(up[s]), RoleOf(s), RoleOf(s))
        BY <1>1, <1>2, <2>1, <2>3, SocketIs, StreamIsHandled DEF SocketOK
      <3>2. Only(Tail(up[s]), UpTypes(s))
        BY <1>1, <2>1, <2>3, OnlyHead DEF SocketOK
      <3>3. QED
        BY <1>1, <1>2, <1>3, <1>4, <2>1, <2>3, <3>1, <3>2 DEF SocketOK, UpTypes
    <2>4. CASE x # s /\ x \notin Ended(s)
      BY <1>2, <1>3, <1>4, <2>4, SocketKept
    <2>5. QED
      BY <2>2, <2>3, <2>4
  <1>7. ASSUME NEW p \in Peers PROVE ClientLinks(p)'
    <2>1. JoinSent(s) /\ JoinSent(s)'
      <3>1. Has(up[s], "join")
        BY <1>1, <1>2, HasTail
      <3>2. QED
        BY <1>3, <3>1, SocketIs DEF JoinSent
    <2>2. ASSUME NEW x \in Sockets, x # s PROVE JoinSent(x)' <=> JoinSent(x)
      <3>1. CASE x \in Ended(s)
        BY <1>3, <1>4, <2>2, <3>1 DEF JoinSent, Roles
      <3>2. CASE x \notin Ended(s)
        BY <1>3, <1>4, <2>2, <3>2 DEF JoinSent
      <3>3. QED
        BY <3>1, <3>2
    <2>3. ASSUME NEW x \in Sockets PROVE JoinSent(x)' <=> JoinSent(x)
      BY <2>1, <2>2
    <2>4. \A x \in Sockets : wire'[x] \in {wire[x], "down"}
      BY <1>4
    <2>5. QED
      BY <1>2, <2>3, <2>4, ClientLinksKept
  <1>8. QED
    BY <1>5, <1>6, <1>7 DEF Links

LEMMA RelayLinks ==
    ASSUME IInv, Links, NEW s \in Sockets, OnRelay(s), UNCHANGED <<client, session>>
    PROVE  Links'
  <1>1. /\ up[s] # <<>> /\ Head(up[s]).type \notin Special
        /\ up' = [up EXCEPT ![s] = Tail(up[s])]
        /\ peers[s].role = RoleOf(s)
    BY RelayIs
  <1>2. /\ UNCHANGED <<wire, peers, sessionOf, host, guests, generation, socket, joined,
                       pendingJoin, inSession, pendingOutgoing, sessionActive>>
        /\ up \in [Sockets -> Seq(Frames)]
    BY QueuesTyped DEF OnRelay, client, session, server
  <1>3. up'[s] = Tail(up[s]) /\ \A x \in Sockets : x # s => up'[x] = up[x]
    BY <1>1, <1>2
  <1>4. Seats'
    BY <1>2 DEF Links, Seats, Live
  <1>5. ASSUME NEW x \in Sockets PROVE SocketOK(x)'
    <2>1. CASE x # s
      BY <1>2, <1>3, <2>1, SocketKept
    <2>2. CASE x = s
      <3>1. SocketOK(s)
        BY DEF Links
      <3>2. RoleOf(s) = CASE Head(up[s]).type = "accepted" -> "none"
                          [] Head(up[s]).type = "closed" -> "absent"
                          [] OTHER -> RoleOf(s)
        BY <1>1 DEF Special
      <3>3. StreamOK(wire[s], Tail(up[s]), RoleOf(s), RoleOf(s))
        BY <1>1, <1>2, <3>1, <3>2, SocketIs, StreamIsHandled DEF SocketOK
      <3>4. Only(Tail(up[s]), UpTypes(s))
        BY <1>1, <1>2, <3>1, OnlyHead DEF SocketOK
      <3>5. QED
        BY <1>1, <1>2, <1>3, <2>2, <3>1, <3>3, <3>4 DEF SocketOK, UpTypes
    <2>3. QED
      BY <2>1, <2>2
  <1>6. ASSUME NEW p \in Peers PROVE ClientLinks(p)'
    <2>1. ASSUME NEW x \in Sockets PROVE JoinSent(x)' <=> JoinSent(x)
      <3>1. CASE x = s
        BY <1>1, <1>2, <3>1, SocketIs DEF JoinSent
      <3>2. CASE x # s
        BY <1>2, <1>3, <3>2 DEF JoinSent
      <3>3. QED
        BY <3>1, <3>2
    <2>2. QED
      BY <1>2, <2>1, ClientLinksKept
  <1>7. QED
    BY <1>4, <1>5, <1>6 DEF Links

LEMMA ServerLinks ==
    ASSUME IInv, Links, NEW s \in Sockets, ServerStep(s)
    PROVE  Links'
  BY ArrivalLinks, EndLinks, JoinLinks, RelayLinks, NoPing
     DEF ServerStep, ServerTask, OnTextMessage

----------------------------------------------------------------------------
(* What the clients send.                                                  *)

Plain(p) == IF p = Host THEN {"state", "file", "open_url"} ELSE {"intent"}

LEMMA FileInfoIs ==
    ASSUME localSource \in SourceValues, NEW n
    PROVE  FileInfo(n) \in Seq(Frames) /\ Only(FileInfo(n), {"file"})
  <1>1. FileFrame(localSource) \in Frames /\ FileFrame(localSource).type = "file"
    BY DEF FileFrame, Frames
  <1>2. QED
    BY <1>1 DEF FileInfo, Only

LEMMA StateNowIs ==
    ASSUME localStateSeq \in Nat, NEW st \in PlayStates, NEW n
    PROVE  StateNow(st, n) \in Seq(Frames) /\ Only(StateNow(st, n), {"state"})
  <1>1. /\ StateFrame(st, localStateSeq + 1) \in Frames
        /\ StateFrame(st, localStateSeq + 1).type = "state"
    BY DEF StateFrame, Frames
  <1>2. QED
    BY <1>1 DEF StateNow, Only

LEMMA UrlIs ==
    ASSUME NEW u \in UrlValues
    PROVE  UrlFrame(u) \in Frames /\ UrlFrame(u).type = "open_url"
  BY DEF UrlFrame, Frames

LEMMA GuardedIs ==
    ASSUME NEW p, NEW frames \in Seq(Frames), NEW T, Only(frames, T)
    PROVE  /\ Guarded(p, frames) \in Seq(Frames) /\ Only(Guarded(p, frames), T)
           /\ ~CanSend(p) => Guarded(p, frames) = <<>>
  BY OnlyEmpty DEF Guarded

LEMMA SenderIs ==
    ASSUME IInv, Links, NEW p \in Peers, socket[p] # NoSocket
    PROVE  /\ socket[p] \in Sockets /\ socket[p][1] = p /\ socket[p][2] = generation[p]
           /\ socket[p] = <<p, generation[p]>>
           /\ CanSend(p) => Live(socket[p]) /\ JoinSent(socket[p])
  <1>1. ClientLinks(p) /\ socket[p] \in Sockets
    BY DEF Links, IInv, ClientOK
  <1>2. socket[p] = <<p, generation[p]>>
    BY <1>1 DEF ClientLinks
  <1>3. CanSend(p) => Live(socket[p]) /\ JoinSent(socket[p])
    BY <1>1 DEF ClientLinks, CanSend, IsConnected
  <1>4. QED
    BY <1>1, <1>2, <1>3

LEMMA GrowLinks ==
    ASSUME IInv, Links, NEW p \in Peers, socket[p] # NoSocket, Live(socket[p]), JoinSent(socket[p]),
           NEW frames \in Seq(Frames), Only(frames, Plain(p)),
           up' = [up EXCEPT ![socket[p]] = @ \o frames],
           UNCHANGED <<wire, peers, generation, socket>>,
           NEW x \in Sockets
    PROVE  SocketOK(x)' /\ (JoinSent(x)' <=> JoinSent(x))
  <1> DEFINE s == socket[p]
  <1>1. s \in Sockets /\ s[1] = p /\ up \in [Sockets -> Seq(Frames)] /\ SocketOK(x)
    BY SenderIs, QueuesTyped DEF Links
  <1>2. CASE x # s
    <2>1. up'[x] = up[x]
      BY <1>1, <1>2
    <2>2. QED
      BY <1>2, <2>1, SocketKept DEF JoinSent
  <1>3. CASE x = s
    <2>1. up'[s] = up[s] \o frames /\ up[s] \in Seq(Frames)
      BY <1>1
    <2>2. \A i \in 1 .. Len(frames) : frames[i].type \notin Special
      BY DEF Only, Plain, Special
    <2>3. StreamOK("up", up[s], peers[s].role, RoleOf(s))
      BY <1>1, <1>3 DEF SocketOK, Live
    <2>4. peers[s].role = RoleOf(s) \/ Has(up[s], "join")
      <3>1. peers[s].role \in Roles => peers[s].role = RoleOf(s)
        BY <2>3 DEF StreamOK, Roles
      <3>2. QED
        BY <3>1 DEF JoinSent
    <2>5. StreamOK("up", up[s] \o frames, peers[s].role, RoleOf(s))
      BY <1>1, <2>1, <2>2, <2>3, <2>4, SocketIs, StreamGrows
    <2>6. Only(up[s] \o frames, UpTypes(s))
      <3>1. Plain(p) \subseteq UpTypes(s)
        BY <1>1 DEF Plain, UpTypes
      <3>2. Only(frames, UpTypes(s))
        BY <3>1, OnlyMore
      <3>3. QED
        BY <1>1, <1>3, <2>1, <3>2, OnlyConcat DEF SocketOK
    <2>7. ~Has(frames, "join")
      BY <2>2 DEF Has, Special
    <2>8. Has(up[s] \o frames, "join") <=> Has(up[s], "join")
      BY <2>1, <2>7, HasConcat
    <2>9. SocketOK(x)'
      BY <1>1, <1>3, <2>1, <2>5, <2>6 DEF SocketOK, UpTypes, Live
    <2>10. QED
      BY <1>3, <2>1, <2>8, <2>9 DEF JoinSent
  <1>4. QED
    BY <1>2, <1>3

LEMMA PostLinks ==
    ASSUME IInv, Links, NEW p \in Peers, NEW frames \in Seq(Frames), Post(p, frames),
           Only(frames, Plain(p)),
           ~CanSend(p) => Only(frames, {"open_url"}) /\ (p # Host => frames = <<>>),
           UNCHANGED <<wire, peers, sessionOf, host, guests, generation, socket, joined,
                       pendingJoin, inSession, sessionActive>>
    PROVE  Links'
  <1>1. Seats'
    BY DEF Links, Seats, Live
  <1>2. CASE CanSend(p)
    <2>1. /\ up' = [up EXCEPT ![socket[p]] = @ \o frames] /\ pendingOutgoing' = pendingOutgoing
          /\ socket[p] # NoSocket /\ Live(socket[p]) /\ JoinSent(socket[p])
      BY <1>2, SenderIs DEF Post, CanSend, IsConnected
    <2>2. \A x \in Sockets : SocketOK(x)' /\ (JoinSent(x)' <=> JoinSent(x))
      BY <2>1, GrowLinks
    <2>3. \A q \in Peers : ClientLinks(q)'
      BY <2>1, <2>2, ClientLinksKept
    <2>4. QED
      BY <1>1, <2>2, <2>3 DEF Links
  <1>3. CASE ~CanSend(p)
    <2>1. /\ pendingOutgoing' = [pendingOutgoing EXCEPT ![p] = @ \o frames] /\ up' = up
          /\ pendingOutgoing \in [Peers -> Seq(Frames)]
      BY <1>3, QueuesTyped DEF Post
    <2>2. \A x \in Sockets : SocketOK(x)'
      BY <2>1, SocketKept
    <2>3. ASSUME NEW q \in Peers
          PROVE  Only(pendingOutgoing'[q], {"open_url"}) /\ (q # Host => pendingOutgoing'[q] = <<>>)
      <3>1. ClientLinks(q)
        BY DEF Links
      <3>2. CASE q # p
        BY <2>1, <3>1, <3>2 DEF ClientLinks
      <3>3. CASE q = p
        <4>1. pendingOutgoing'[p] = pendingOutgoing[p] \o frames /\ pendingOutgoing[p] \in Seq(Frames)
          BY <2>1
        <4>2. Only(pendingOutgoing[p] \o frames, {"open_url"})
          BY <1>3, <3>1, <3>3, <4>1, OnlyConcat DEF ClientLinks
        <4>3. p # Host => pendingOutgoing[p] \o frames = <<>>
          BY <1>3, <3>1, <3>3, <4>1, ConcatEmptySeq DEF ClientLinks
        <4>4. QED
          BY <3>3, <4>1, <4>2, <4>3
      <3>4. QED
        BY <3>2, <3>3
    <2>4. ASSUME NEW q \in Peers PROVE ClientLinks(q)'
      <3>1. ClientLinks(q)
        BY DEF Links
      <3>2. QED
        BY <2>1, <2>3, <3>1 DEF ClientLinks, JoinSent, Live
    <2>5. QED
      BY <1>1, <2>2, <2>4 DEF Links
  <1>4. QED
    BY <1>2, <1>3

\* Nothing of it changes.
LEMMA SameLinks ==
    ASSUME Links,
           UNCHANGED <<wire, up, peers, sessionOf, host, guests, generation, socket, joined,
                       pendingJoin, inSession, sessionActive, pendingOutgoing>>
    PROVE  Links'
  <1>1. Seats'
    BY DEF Links, Seats, Live
  <1>2. \A x \in Sockets : SocketOK(x)'
    BY SocketKept
  <1>3. ASSUME NEW p \in Peers PROVE ClientLinks(p)'
    <2>1. ClientLinks(p)
      BY DEF Links
    <2>2. QED
      BY <2>1 DEF ClientLinks, JoinSent, Live, Only
  <1>4. QED
    BY <1>1, <1>2, <1>3 DEF Links

----------------------------------------------------------------------------
(* The callbacks of a client.                                              *)

\* What the host tells about the newcomer it hears of.
LEMMA OnPeerUpdateSends ==
    ASSUME IInv, NEW p \in Peers, OnPeerUpdate(p)
    PROVE  \E frames \in Seq(Frames) :
              /\ Post(p, frames) /\ Only(frames, Plain(p))
              /\ ~CanSend(p) => Only(frames, {"open_url"})
              /\ p # Host => frames = <<>>
  <1> DEFINE n     == Event(p).guests
             new   == Newcomer(p, n)
             link  == IF new /\ shareUrl # NoUrl THEN <<UrlFrame(shareUrl)>> ELSE <<>>
             file  == IF p = Host THEN FileInfo(n) ELSE <<>>
             state == IF new THEN StateNow(player[p], n) ELSE <<>>
             gfile  == Guarded(p, file)
             gstate == Guarded(p, state)
             frames == gfile \o link \o gstate
  <1>1. Post(p, frames)
    BY DEF OnPeerUpdate
  <1>2. /\ localSource \in SourceValues /\ localStateSeq \in Nat /\ player[p] \in PlayStates
        /\ shareUrl \in UrlValues
    BY DEF IInv, SessionOK
  <1>3. link \in Seq(Frames) /\ Only(link, {"open_url"})
    BY <1>2, UrlIs, OnlyOne, OnlyEmpty
  <1>4. file \in Seq(Frames) /\ Only(file, {"file"})
    BY <1>2, FileInfoIs, OnlyEmpty
  <1>5. state \in Seq(Frames) /\ Only(state, {"state"})
    BY <1>2, StateNowIs, OnlyEmpty
  <1>6. p # Host => file = <<>> /\ link = <<>> /\ state = <<>>
    BY DEF Newcomer
  <1> HIDE DEF file, link, state
  <1>7. /\ gfile \in Seq(Frames) /\ Only(gfile, {"file"}) /\ (~CanSend(p) => gfile = <<>>)
        /\ p # Host => gfile = <<>>
    BY <1>4, <1>6, GuardedIs DEF Guarded
  <1>8. /\ gstate \in Seq(Frames) /\ Only(gstate, {"state"}) /\ (~CanSend(p) => gstate = <<>>)
        /\ p # Host => gstate = <<>>
    BY <1>5, <1>6, GuardedIs DEF Guarded
  <1> HIDE DEF gfile, gstate
  <1>9. frames \in Seq(Frames)
    BY <1>3, <1>7, <1>8, ConcatProperties
  <1>10. p # Host => frames = <<>>
    BY <1>6, <1>7, <1>8
  <1>11. ~CanSend(p) => Only(frames, {"open_url"})
    <2>1. SUFFICES ASSUME ~CanSend(p) PROVE Only(frames, {"open_url"})
      OBVIOUS
    <2>2. frames = link
      BY <1>3, <1>7, <1>8, <2>1, ConcatEmptySeq
    <2>3. QED
      BY <1>3, <2>2
  <1>12. Only(frames, Plain(p))
    <2>1. CASE p # Host
      BY <1>10, <2>1, OnlyEmpty
    <2>2. CASE p = Host
      <3>1. Only(gfile, Plain(p)) /\ Only(link, Plain(p)) /\ Only(gstate, Plain(p))
        BY <1>3, <1>7, <1>8, <2>2, OnlyMore DEF Plain
      <3>2. gfile \o link \in Seq(Frames) /\ Only(gfile \o link, Plain(p))
        BY <1>3, <1>7, <3>1, OnlyConcat
      <3>3. QED
        BY <1>8, <3>1, <3>2, OnlyConcat
    <2>3. QED
      BY <2>1, <2>2
  <1> HIDE DEF frames
  <1>13. QED
    BY <1>1, <1>9, <1>10, <1>11, <1>12

\* The join goes out with the first callback of a connection, if it did not go
\* out before.
LEMMA JoinsLinks ==
    ASSUME IInv, Links, NEW p \in Peers, socket[p] # NoSocket, Live(socket[p]), pendingJoin[p],
           up' = [up EXCEPT ![socket[p]] = @ \o (<<JoinFrame(p)>> \o pendingOutgoing[p])],
           pendingOutgoing' = [pendingOutgoing EXCEPT ![p] = <<>>],
           joined' = [joined EXCEPT ![p] = TRUE],
           inSession' = [inSession EXCEPT ![p] = TRUE],
           pendingJoin' = [pendingJoin EXCEPT ![p] = FALSE],
           UNCHANGED <<wire, peers, sessionOf, host, guests, generation, socket, sessionActive>>
    PROVE  Links'
  <1> DEFINE s   == socket[p]
             m   == JoinFrame(p)
             out == pendingOutgoing[p]
             n   == (up[s] \o <<m>>) \o out
  <1>1. /\ s \in Sockets /\ s[1] = p /\ wire[s] = "up" /\ ClientLinks(p) /\ SocketOK(s)
        /\ up \in [Sockets -> Seq(Frames)] /\ pendingOutgoing \in [Peers -> Seq(Frames)]
        /\ joined \in [Peers -> BOOLEAN] /\ inSession \in [Peers -> BOOLEAN]
        /\ pendingJoin \in [Peers -> BOOLEAN]
    BY SenderIs, QueuesTyped DEF Links, IInv, ClientOK, Live
  <1>2. /\ m \in Frames /\ <<m>> \in Seq(Frames) /\ m.role = RoleOf(s) /\ m.type = "join"
    BY <1>1, ValuesAssumption DEF JoinFrame, Frames, RoleOf
  <1>3. /\ up[s] \in Seq(Frames) /\ out \in Seq(Frames) /\ Only(out, {"open_url"})
        /\ p # Host => out = <<>>
    BY <1>1 DEF ClientLinks
  <1>4. ~Has(up[s], "join") /\ peers[s].role \notin Roles
    BY <1>1 DEF ClientLinks, JoinSent
  <1>5. peers[s].role # RoleOf(s)
    BY <1>1, <1>4, SocketIs
  <1>6. StreamOK("up", up[s], peers[s].role, m.role)
    BY <1>1, <1>2 DEF SocketOK
  <1> HIDE DEF m, out
  <1>7. up'[s] = n
    <2>1. up'[s] = up[s] \o (<<m>> \o out)
      BY <1>1 DEF m, out
    <2> DEFINE one == <<m>>
               q   == up[s]
    <2>2. one \in Seq(Frames) /\ q \in Seq(Frames) /\ out \in Seq(Frames)
      BY <1>2, <1>3
    <2> HIDE DEF one, q
    <2>3. (q \o one) \o out = q \o (one \o out)
      BY <2>2, ConcatAssociative
    <2>4. QED
      BY <2>1, <2>3 DEF one, q
  <1>8. /\ up[s] \o <<m>> \in Seq(Frames)
        /\ StreamOK("up", up[s] \o <<m>>, peers[s].role, RoleOf(s))
        /\ Has(up[s] \o <<m>>, "join")
    <2>1. /\ up[s] \o <<JoinFrame(p)>> \in Seq(Frames)
          /\ StreamOK("up", up[s] \o <<JoinFrame(p)>>, peers[s].role, JoinFrame(p).role)
          /\ Has(up[s] \o <<JoinFrame(p)>>, "join")
      BY <1>2, <1>3, <1>4, <1>5, <1>6, StreamJoins DEF m
    <2>2. QED
      BY <1>2, <2>1 DEF m
  <1>9. \A i \in 1 .. Len(out) : out[i].type \notin Special
    BY <1>3 DEF Only, Special
  <1>10. StreamOK("up", n, peers[s].role, RoleOf(s)) /\ n \in Seq(Frames)
    BY <1>1, <1>3, <1>8, <1>9, SocketIs, StreamGrows, ConcatProperties
  <1>11. Only(n, UpTypes(s))
    <2>1. Only(up[s], UpTypes(s))
      BY <1>1 DEF SocketOK
    <2>2. Only(<<m>>, UpTypes(s))
      BY <1>2, OnlyOne DEF UpTypes
    <2>3. Only(out, UpTypes(s))
      <3>1. CASE p = Host
        BY <1>1, <1>3, <3>1, OnlyMore DEF UpTypes
      <3>2. CASE p # Host
        BY <1>3, <3>2, OnlyEmpty
      <3>3. QED
        BY <3>1, <3>2
    <2>4. Only(up[s] \o <<m>>, UpTypes(s))
      BY <1>2, <1>3, <2>1, <2>2, OnlyConcat
    <2>5. QED
      BY <1>3, <1>8, <2>3, <2>4, OnlyConcat
  <1>12. Has(n, "join")
    BY <1>3, <1>8, HasConcat
  <1> HIDE DEF n
  <1>13. Seats'
    BY DEF Links, Seats, Live
  <1>14. ASSUME NEW x \in Sockets PROVE SocketOK(x)'
    <2>1. CASE x # s
      <3>1. up'[x] = up[x]
        BY <1>1, <2>1
      <3>2. QED
        BY <3>1, SocketKept
    <2>2. CASE x = s
      BY <1>1, <1>7, <1>10, <1>11, <2>2 DEF SocketOK, UpTypes
    <2>3. QED
      BY <2>1, <2>2
  <1>15. ASSUME NEW q \in Peers PROVE ClientLinks(q)'
    <2>1. ClientLinks(q)
      BY DEF Links
    <2>2. CASE q = p
      <3>1. /\ joined'[p] /\ inSession'[p] /\ ~pendingJoin'[p] /\ pendingOutgoing'[p] = <<>>
        BY <1>1
      <3>2. QED
        BY <1>1, <1>7, <1>12, <2>1, <2>2, <3>1, OnlyEmpty DEF ClientLinks, JoinSent, Live
    <2>3. CASE q # p
      <3>1. /\ joined'[q] = joined[q] /\ inSession'[q] = inSession[q]
            /\ pendingJoin'[q] = pendingJoin[q] /\ pendingOutgoing'[q] = pendingOutgoing[q]
        BY <1>1, <2>3
      <3>2. socket[q] # NoSocket => socket[q] # s /\ socket[q] \in Sockets
        BY <1>1, <2>3, SenderIs
      <3>3. socket[q] # NoSocket => up'[socket[q]] = up[socket[q]]
        BY <1>1, <3>2
      <3>4. QED
        BY <2>1, <3>1, <3>3 DEF ClientLinks, JoinSent, Live
    <2>4. QED
      BY <2>2, <2>3
  <1>16. QED
    BY <1>13, <1>14, <1>15 DEF Links

LEMMA OnConnectedLinks ==
    ASSUME IInv, Links, NEW p \in Peers, OnConnected(p), UNCHANGED <<wire, server, actions>>
    PROVE  Links'
  <1> DEFINE resyncs == p = Host /\ connectionState[p] # "Connected" /\ CanSend(p)
             joins   == IsConnected(p) /\ pendingJoin[p]
             pushed  == IF resyncs
                        THEN FileInfo(guestCount[p]) \o StateNow(player[p], guestCount[p])
                        ELSE <<>>
             flushed == IF joins THEN <<JoinFrame(p)>> \o pendingOutgoing[p] ELSE <<>>
  <1>1. /\ up' = IF IsConnected(p) THEN [up EXCEPT ![socket[p]] = @ \o (pushed \o flushed)]
                 ELSE up
        /\ joined' = [joined EXCEPT ![p] = @ \/ joins]
        /\ inSession' = [inSession EXCEPT ![p] = @ \/ joins]
        /\ pendingJoin' = [pendingJoin EXCEPT ![p] = @ /\ ~joins]
        /\ pendingOutgoing' = IF joins THEN [pendingOutgoing EXCEPT ![p] = <<>>]
                              ELSE pendingOutgoing
        /\ UNCHANGED <<wire, peers, sessionOf, host, guests, generation, socket, sessionActive>>
    BY DEF OnConnected, server
  <1>2. /\ joined \in [Peers -> BOOLEAN] /\ inSession \in [Peers -> BOOLEAN]
        /\ pendingJoin \in [Peers -> BOOLEAN] /\ up \in [Sockets -> Seq(Frames)]
        /\ pendingOutgoing \in [Peers -> Seq(Frames)]
        /\ localSource \in SourceValues /\ localStateSeq \in Nat /\ player[p] \in PlayStates
    BY QueuesTyped DEF IInv, ClientOK, SessionOK
  <1>3. CASE joins
    <2>1. socket[p] # NoSocket /\ Live(socket[p]) /\ pendingJoin[p]
      BY <1>3 DEF IsConnected
    <2>2. ~joined[p]
      BY <2>1 DEF Links, ClientLinks
    <2>3. pushed = <<>>
      BY <2>2 DEF CanSend
    <2>4. pushed \o flushed = <<JoinFrame(p)>> \o pendingOutgoing[p]
      <3>1. JoinFrame(p) \in Frames
        BY ValuesAssumption DEF JoinFrame, Frames
      <3>2. <<JoinFrame(p)>> \in Seq(Frames)
        BY <3>1
      <3>3. <<JoinFrame(p)>> \o pendingOutgoing[p] \in Seq(Frames)
        BY <1>2, <3>2, ConcatProperties
      <3>4. <<>> \o (<<JoinFrame(p)>> \o pendingOutgoing[p]) = <<JoinFrame(p)>> \o pendingOutgoing[p]
        BY <3>3, ConcatEmptySeq
      <3>5. flushed = <<JoinFrame(p)>> \o pendingOutgoing[p]
        BY <1>3
      <3>6. QED
        BY <2>3, <3>4, <3>5
    <2> HIDE DEF pushed, flushed
    <2>5. up' = [up EXCEPT ![socket[p]] = @ \o (<<JoinFrame(p)>> \o pendingOutgoing[p])]
      BY <1>1, <1>3, <2>4
    <2>6. /\ pendingOutgoing' = [pendingOutgoing EXCEPT ![p] = <<>>]
          /\ joined' = [joined EXCEPT ![p] = TRUE]
          /\ inSession' = [inSession EXCEPT ![p] = TRUE]
          /\ pendingJoin' = [pendingJoin EXCEPT ![p] = FALSE]
      BY <1>1, <1>2, <1>3
    <2>7. QED
      BY <1>1, <2>1, <2>5, <2>6, JoinsLinks
  <1>4. CASE ~joins
    <2>1. /\ joined' = joined /\ inSession' = inSession /\ pendingJoin' = pendingJoin
          /\ pendingOutgoing' = pendingOutgoing
      BY <1>1, <1>2, <1>4
    <2>2. flushed = <<>>
      BY <1>4
    <2>3. pushed \in Seq(Frames) /\ (pushed = <<>> \/ (p = Host /\ CanSend(p) /\ Only(pushed, Plain(p))))
      <3>1. CASE resyncs
        <4>1. /\ FileInfo(guestCount[p]) \in Seq(Frames) /\ Only(FileInfo(guestCount[p]), {"file"})
              /\ StateNow(player[p], guestCount[p]) \in Seq(Frames)
              /\ Only(StateNow(player[p], guestCount[p]), {"state"})
          BY <1>2, FileInfoIs, StateNowIs
        <4>2. /\ Only(FileInfo(guestCount[p]), Plain(p))
              /\ Only(StateNow(player[p], guestCount[p]), Plain(p))
          BY <3>1, <4>1, OnlyMore DEF Plain
        <4>3. pushed = FileInfo(guestCount[p]) \o StateNow(player[p], guestCount[p])
          BY <3>1
        <4>4. QED
          BY <3>1, <4>1, <4>2, <4>3, OnlyConcat
      <3>2. CASE ~resyncs
        BY <3>2
      <3>3. QED
        BY <3>1, <3>2
    <2>4. pushed \o flushed = pushed
      BY <2>2, <2>3, ConcatEmptySeq
    <2> HIDE DEF pushed, flushed
    <2>5. CASE pushed = <<>>
      <3>1. up' = up
        <4>1. \A s \in Sockets : up[s] \o <<>> = up[s]
          BY <1>2, ConcatEmptySeq
        <4>2. IsConnected(p) => socket[p] \in Sockets
          BY DEF IsConnected, IInv, ClientOK
        <4>3. QED
          BY <1>1, <1>2, <2>4, <2>5, <4>1, <4>2
      <3>2. QED
        BY <1>1, <2>1, <3>1, SameLinks
    <2>6. CASE p = Host /\ CanSend(p) /\ Only(pushed, Plain(p))
      <3>1. Post(p, pushed)
        BY <1>1, <2>1, <2>4, <2>6 DEF Post, CanSend
      <3>2. QED
        BY <1>1, <2>1, <2>3, <2>6, <3>1, PostLinks
    <2>7. QED
      BY <2>3, <2>5, <2>6
  <1>5. QED
    BY <1>3, <1>4

LEMMA OnDisconnectedLinks ==
    ASSUME IInv, Links, NEW p \in Peers, OnDisconnected(p), UNCHANGED <<wire, server, actions>>
    PROVE  Links'
  <1>1. /\ joined' = [joined EXCEPT ![p] = FALSE] /\ joined \in [Peers -> BOOLEAN]
        /\ UNCHANGED <<wire, up, peers, sessionOf, host, guests, generation, socket,
                       pendingJoin, inSession, sessionActive, pendingOutgoing>>
    BY DEF OnDisconnected, server, session, IInv, ClientOK
  <1>2. Seats'
    BY <1>1 DEF Links, Seats, Live
  <1>3. \A x \in Sockets : SocketOK(x)'
    BY <1>1, SocketKept
  <1>4. ASSUME NEW q \in Peers PROVE ClientLinks(q)'
    <2>1. ClientLinks(q) /\ (joined'[q] => joined[q])
      BY <1>1 DEF Links
    <2>2. QED
      BY <1>1, <2>1 DEF ClientLinks, JoinSent, Live, Only
  <1>5. QED
    BY <1>2, <1>3, <1>4 DEF Links

\* The state the host sends after a control request.
LEMMA OnIntentSends ==
    ASSUME IInv, NEW p \in Peers, Queue(p) # <<>>, Dequeue(p), OnIntent(p)
    PROVE  \/ UNCHANGED <<up, pendingOutgoing>>
           \/ \E frames \in Seq(Frames) :
                 /\ Post(p, frames) /\ Only(frames, Plain(p)) /\ p = Host
                 /\ ~CanSend(p) => Only(frames, {"open_url"})
  <1> DEFINE st     == Applied(Event(p).command, player[p])
             frames == Guarded(p, StateNow(st, guestCount[p]))
  <1>1. st \in PlayStates /\ localStateSeq \in Nat
    <2>1. Event(p) \in FramesOf(published) /\ published \in Seq(PlayStates) /\ player[p] \in PlayStates
      BY DequeueTyped DEF IInv, SessionOK
    <2>2. Event(p).command \in Commands
      BY <2>1, FramesRead DEF OnIntent
    <2>3. QED
      BY <2>1, <2>2, AppliedTyped DEF IInv, SessionOK
  <1>2. \/ UNCHANGED <<up, pendingOutgoing>>
        \/ Post(p, frames) /\ p = Host
    BY DEF OnIntent
  <1> HIDE DEF st
  <1>3. /\ frames \in Seq(Frames) /\ Only(frames, {"state"}) /\ (~CanSend(p) => frames = <<>>)
    BY <1>1, StateNowIs, GuardedIs
  <1> HIDE DEF frames
  <1>4. p = Host => Only(frames, Plain(p))
    BY <1>3, OnlyMore DEF Plain
  <1>5. ~CanSend(p) => Only(frames, {"open_url"})
    BY <1>3, OnlyEmpty
  <1>6. QED
    BY <1>2, <1>3, <1>4, <1>5

LEMMA EventLinks ==
    ASSUME IInv, Links, NEW p \in Peers, HandleEvent(p)
    PROVE  Links'
  <1>1. Queue(p) # <<>> /\ Dequeue(p) /\ UNCHANGED <<wire, server, actions>>
    BY DEF HandleEvent
  <1>2. CASE OnConnected(p)
    BY <1>1, <1>2, OnConnectedLinks
  <1>3. CASE OnDisconnected(p)
    BY <1>1, <1>3, OnDisconnectedLinks
  <1>4. CASE OnPeerUpdate(p)
    <2>1. PICK frames \in Seq(Frames) :
              /\ Post(p, frames) /\ Only(frames, Plain(p))
              /\ ~CanSend(p) => Only(frames, {"open_url"})
              /\ p # Host => frames = <<>>
      BY <1>4, OnPeerUpdateSends
    <2>2. UNCHANGED <<wire, peers, sessionOf, host, guests, generation, socket, joined,
                      pendingJoin, inSession, sessionActive>>
      BY <1>1, <1>4 DEF OnPeerUpdate, server
    <2>3. QED
      BY <2>1, <2>2, PostLinks
  <1>5. CASE OnState(p) \/ OnFile(p) \/ OnOpenUrl(p)
    <2>1. UNCHANGED <<wire, up, peers, sessionOf, host, guests, generation, socket, joined,
                      pendingJoin, inSession, sessionActive, pendingOutgoing>>
      BY <1>1, <1>5 DEF OnState, OnFile, OnOpenUrl, server
    <2>2. QED
      BY <2>1, SameLinks
  <1>6. CASE OnIntent(p)
    <2>1. UNCHANGED <<wire, peers, sessionOf, host, guests, generation, socket, joined,
                      pendingJoin, inSession, sessionActive>>
      BY <1>1, <1>6 DEF OnIntent, server
    <2>2. CASE UNCHANGED <<up, pendingOutgoing>>
      BY <2>1, <2>2, SameLinks
    <2>3. CASE \E frames \in Seq(Frames) :
                 /\ Post(p, frames) /\ Only(frames, Plain(p)) /\ p = Host
                 /\ ~CanSend(p) => Only(frames, {"open_url"})
      <3>1. PICK frames \in Seq(Frames) :
                 /\ Post(p, frames) /\ Only(frames, Plain(p)) /\ p = Host
                 /\ ~CanSend(p) => Only(frames, {"open_url"})
        BY <2>3
      <3>2. QED
        BY <2>1, <3>1, PostLinks
    <2>4. QED
      BY <1>1, <1>6, <2>2, <2>3, OnIntentSends
  <1>7. QED
    BY <1>2, <1>3, <1>4, <1>5, <1>6 DEF HandleEvent

----------------------------------------------------------------------------
(* The users.                                                              *)

LEMMA UserSends ==
    ASSUME IInv,
           \/ Heartbeat
           \/ \E f \in Sources \cup Urls : SetLocalFileInfo(f)
           \/ \E u \in Urls : ShareOpenUrl(u)
           \/ \E p \in Peers, cmd \in Commands : UserCommand(p, cmd)
    PROVE  \/ UNCHANGED <<up, pendingOutgoing>>
           \/ \E p \in Peers, frames \in Seq(Frames) :
                 /\ Post(p, frames) /\ Only(frames, Plain(p))
                 /\ ~CanSend(p) => frames = <<>>
  <1>1. /\ localStateSeq \in Nat /\ \A p \in Peers : player[p] \in PlayStates
        /\ Host \in Peers
    BY DEF IInv, SessionOK, Peers
  <1>2. ASSUME NEW st \in PlayStates, Broadcast(st)
        PROVE  \E p \in Peers, frames \in Seq(Frames) :
                 /\ Post(p, frames) /\ Only(frames, Plain(p))
                 /\ ~CanSend(p) => frames = <<>>
    <2> DEFINE frames == Guarded(Host, StateNow(st, guestCount[Host]))
    <2>1. Post(Host, frames)
      BY <1>2 DEF Broadcast
    <2>2. frames \in Seq(Frames) /\ Only(frames, {"state"}) /\ (~CanSend(Host) => frames = <<>>)
      BY <1>1, StateNowIs, GuardedIs
    <2> HIDE DEF frames
    <2>3. Only(frames, Plain(Host))
      BY <2>2, OnlyMore DEF Plain
    <2>4. QED
      BY <1>1, <2>1, <2>2, <2>3
  <1>3. CASE Heartbeat
    BY <1>1, <1>2, <1>3 DEF Heartbeat
  <1>4. ASSUME NEW m \in Frames, m.type \in Plain(Host), NEW b \in BOOLEAN,
               Post(Host, Guarded(Host, IF b THEN <<m>> ELSE <<>>))
        PROVE  \E p \in Peers, frames \in Seq(Frames) :
                 /\ Post(p, frames) /\ Only(frames, Plain(p))
                 /\ ~CanSend(p) => frames = <<>>
    <2> DEFINE sent   == IF b THEN <<m>> ELSE <<>>
               frames == Guarded(Host, sent)
    <2>1. sent \in Seq(Frames) /\ Only(sent, Plain(Host))
      BY <1>4, OnlyOne, OnlyEmpty
    <2> HIDE DEF sent
    <2>2. /\ frames \in Seq(Frames) /\ Only(frames, Plain(Host))
          /\ ~CanSend(Host) => frames = <<>>
      BY <2>1, GuardedIs
    <2>3. Post(Host, frames)
      BY <1>4 DEF sent
    <2> HIDE DEF frames
    <2>4. QED
      BY <1>1, <2>2, <2>3
  <1>5. CASE \E f \in Sources \cup Urls : SetLocalFileInfo(f)
    <2>1. PICK f \in Sources \cup Urls : SetLocalFileInfo(f)
      BY <1>5
    <2>2. FileFrame(f) \in Frames /\ FileFrame(f).type \in Plain(Host)
      BY DEF FileFrame, Frames, SourceValues, Plain
    <2> DEFINE b == sessionActive[Host] /\ guestCount[Host] > 0
    <2>3. Post(Host, Guarded(Host, IF b THEN <<FileFrame(f)>> ELSE <<>>)) /\ b \in BOOLEAN
      BY <2>1 DEF SetLocalFileInfo
    <2> HIDE DEF b
    <2>4. QED
      BY <1>4, <2>2, <2>3
  <1>6. CASE \E u \in Urls : ShareOpenUrl(u)
    <2>1. PICK u \in Urls : ShareOpenUrl(u)
      BY <1>6
    <2>2. UrlFrame(u) \in Frames /\ UrlFrame(u).type \in Plain(Host)
      BY UrlIs DEF UrlValues, Plain
    <2> DEFINE b == sessionActive[Host] /\ guestCount[Host] > 0
    <2>3. Post(Host, Guarded(Host, IF b THEN <<UrlFrame(u)>> ELSE <<>>)) /\ b \in BOOLEAN
      BY <2>1 DEF ShareOpenUrl
    <2> HIDE DEF b
    <2>4. QED
      BY <1>4, <2>2, <2>3
  <1>7. CASE \E p \in Peers, cmd \in Commands : UserCommand(p, cmd)
    <2>1. PICK p \in Peers, cmd \in Commands : UserCommand(p, cmd)
      BY <1>7
    <2> DEFINE st == Applied(cmd, player[p])
    <2>2. st \in PlayStates
      BY <1>1, AppliedTyped
    <2>3. CASE RequestOnly(p)
      <3> DEFINE frames == Guarded(p, <<IntentFrame(cmd)>>)
      <3>1. Post(p, frames) /\ p # Host
        BY <2>1, <2>3 DEF UserCommand, RequestOnly
      <3>2. IntentFrame(cmd) \in Frames /\ IntentFrame(cmd).type \in Plain(p)
        BY <3>1 DEF IntentFrame, Frames, Plain
      <3>3. /\ frames \in Seq(Frames) /\ Only(frames, Plain(p))
            /\ ~CanSend(p) => frames = <<>>
        BY <3>2, OnlyOne, GuardedIs
      <3> HIDE DEF frames
      <3>4. QED
        BY <3>1, <3>3
    <2>4. CASE ~RequestOnly(p)
      BY <1>2, <2>1, <2>2, <2>4 DEF UserCommand
    <2>5. QED
      BY <2>3, <2>4
  <1>8. QED
    BY <1>3, <1>5, <1>6, <1>7

LEMMA UserLinks ==
    ASSUME IInv, Links,
           \/ Heartbeat
           \/ \E f \in Sources \cup Urls : SetLocalFileInfo(f)
           \/ \E u \in Urls : ShareOpenUrl(u)
           \/ \E p \in Peers, cmd \in Commands : UserCommand(p, cmd)
    PROVE  Links'
  <1>1. UNCHANGED <<wire, peers, sessionOf, host, guests, generation, socket, joined,
                    pendingJoin, inSession, sessionActive>>
    BY DEF Heartbeat, SetLocalFileInfo, ShareOpenUrl, UserCommand, server
  <1>2. CASE UNCHANGED <<up, pendingOutgoing>>
    BY <1>1, <1>2, SameLinks
  <1>3. CASE \E p \in Peers, frames \in Seq(Frames) :
                 /\ Post(p, frames) /\ Only(frames, Plain(p))
                 /\ ~CanSend(p) => frames = <<>>
    <2>1. PICK p \in Peers, frames \in Seq(Frames) :
                 /\ Post(p, frames) /\ Only(frames, Plain(p))
                 /\ ~CanSend(p) => frames = <<>>
      BY <1>3
    <2>2. ~CanSend(p) => Only(frames, {"open_url"})
      BY <2>1, OnlyEmpty
    <2>3. QED
      BY <1>1, <2>1, <2>2, PostLinks
  <1>4. QED
    BY <1>2, <1>3, UserSends

----------------------------------------------------------------------------
(* Connections made, given up, and broken.                                 *)

New(p) == <<p, generation[p] + 1>>

LEMMA NewIs ==
    ASSUME IInv, Links, NEW p \in Peers, ConnectAndJoin(p)
    PROVE  /\ New(p) \in Sockets /\ New(p)[1] = p /\ New(p)[2] = generation[p] + 1
           /\ wire[New(p)] = "idle" /\ up[New(p)] = <<>> /\ peers[New(p)].role = "absent"
           /\ New(p) # socket[p] /\ New(p) # host[Room] /\ New(p) \notin guests[Room]
           /\ generation' = [generation EXCEPT ![p] = @ + 1]
           /\ socket' = [socket EXCEPT ![p] = New(p)]
           /\ socket'[p] = New(p) /\ generation'[p] = generation[p] + 1
  <1>1. generation[p] \in Nat /\ MaxConnections[p] \in Nat /\ generation[p] < MaxConnections[p]
    BY BoundsAssumption DEF IInv, ClientOK, ConnectAndJoin
  <1>2. generation[p] + 1 \in 1 .. MaxConnections[p]
    BY <1>1
  <1>3. New(p) \in Sockets
    BY <1>2, ConnectionsAssumption DEF New
  <1>4. New(p)[1] = p /\ New(p)[2] = generation[p] + 1
    BY DEF New
  <1>5. SocketOK(New(p))
    BY <1>3 DEF Links
  <1>6. wire[New(p)] = "idle"
    BY <1>1, <1>4, <1>5 DEF SocketOK
  <1>7. up[New(p)] = <<>> /\ peers[New(p)].role = "absent"
    <2>1. StreamOK("idle", up[New(p)], peers[New(p)].role, RoleOf(New(p)))
      BY <1>5, <1>6 DEF SocketOK
    <2>2. QED
      BY <2>1 DEF StreamOK
  <1>8. New(p) # socket[p]
    <2>1. socket[p] # NoSocket => socket[p][2] = generation[p]
      BY SenderIs
    <2>2. QED
      BY <1>1, <1>3, <1>4, <2>1, SocketsAssumption
  <1>9. New(p) # host[Room] /\ New(p) \notin guests[Room]
    BY <1>3, <1>7 DEF Links, Seats
  <1>10. /\ generation' = [generation EXCEPT ![p] = @ + 1]
         /\ socket' = [socket EXCEPT ![p] = New(p)]
    BY DEF ConnectAndJoin, New
  <1>11. socket'[p] = New(p) /\ generation'[p] = generation[p] + 1
    BY <1>10 DEF IInv, ClientOK
  <1>12. QED
    BY <1>3, <1>4, <1>6, <1>7, <1>8, <1>9, <1>10, <1>11

\* Another instance's connection is neither the new one nor the old one.
LEMMA OthersAre ==
    ASSUME IInv, Links, NEW p \in Peers, NEW q \in Peers \ {p}, socket[q] # NoSocket
    PROVE  socket[q] \in Sockets /\ socket[q] # socket[p] /\ socket[q] # New(p)
  <1>1. socket[q] \in Sockets /\ socket[q][1] = q
    BY SenderIs
  <1>2. socket[p] # NoSocket => socket[p][1] = p
    BY SenderIs
  <1>3. QED
    BY <1>1, <1>2 DEF New

LEMMA GivenUpIs ==
    ASSUME IInv, Links, NEW s \in Sockets,
           NEW q, q = IF Live(s) THEN Append(up[s], Closed) ELSE up[s]
    PROVE  StreamOK("down", q, peers[s].role, RoleOf(s)) /\ Only(q, UpTypes(s))
  <1>1. SocketOK(s) /\ up[s] \in Seq(Frames) /\ wire[s] \in {"idle", "connecting", "up", "down"}
    BY QueuesTyped DEF Links, IInv, WireStates
  <1>2. CASE Live(s)
    <2>1. StreamOK("up", up[s], peers[s].role, RoleOf(s))
      BY <1>1, <1>2 DEF SocketOK, Live
    <2>2. StreamOK("down", Append(up[s], Closed), peers[s].role, RoleOf(s))
      BY <1>1, <2>1, SocketIs, StreamEnds
    <2>3. Closed \in Frames /\ Closed.type \in UpTypes(s)
      BY DEF Closed, Frames, UpTypes
    <2>4. QED
      BY <1>1, <1>2, <2>2, <2>3, OnlyAppend DEF SocketOK
  <1>3. CASE wire[s] \in {"idle", "connecting"}
    <2>1. StreamOK("down", up[s], peers[s].role, RoleOf(s))
      BY <1>1, <1>3, SocketIs, StreamNever DEF SocketOK
    <2>2. QED
      BY <1>1, <1>3, <2>1 DEF SocketOK, Live
  <1>4. CASE wire[s] = "down"
    BY <1>1, <1>4 DEF SocketOK, Live
  <1>5. QED
    BY <1>1, <1>2, <1>3, <1>4 DEF Live

LEMMA PairIs ==
    ASSUME NEW F, NEW a \in F, NEW b \in F
    PROVE  <<a>> \o <<b>> = <<a, b>>
  <1>1. ASSUME NEW q \in Seq(F), NEW r \in Seq(F), NEW t \in Seq(F),
               Len(q) = 1, Len(r) = 1, Len(t) = 2, t[1] = q[1], t[2] = r[1]
        PROVE  q \o r = t
    <2>1. /\ q \o r \in Seq(F) /\ Len(q \o r) = Len(q) + Len(r)
          /\ \A i \in 1 .. Len(q) : (q \o r)[i] = q[i]
          /\ \A i \in 1 .. Len(r) : (q \o r)[Len(q) + i] = r[i]
      BY ConcatRead
    <2>2. (q \o r)[1] = q[1] /\ (q \o r)[2] = r[1]
      BY <1>1, <2>1
    <2>3. \A i \in 1 .. Len(q \o r) : (q \o r)[i] = t[i]
      BY <1>1, <2>1, <2>2
    <2>4. QED
      BY <1>1, <2>1, <2>3, SeqEqual
  <1>2. /\ <<a>> \in Seq(F) /\ <<b>> \in Seq(F) /\ <<a, b>> \in Seq(F)
        /\ Len(<<a>>) = 1 /\ Len(<<b>>) = 1 /\ Len(<<a, b>>) = 2
        /\ <<a, b>>[1] = <<a>>[1] /\ <<a, b>>[2] = <<b>>[1]
    OBVIOUS
  <1>3. QED
    BY <1>1, <1>2

\* A connection whose handshake is over when joinSession looks.
LEMMA EarlyIs ==
    ASSUME NEW p \in Peers, NEW s \in Sockets, s[1] = p, NEW out \in Seq(Frames),
           Only(out, {"open_url"}), p # Host => out = <<>>
    PROVE  /\ StreamOK("up", <<Accepted, JoinFrame(p)>> \o out, "absent", RoleOf(s))
           /\ Only(<<Accepted, JoinFrame(p)>> \o out, UpTypes(s))
           /\ Has(<<Accepted, JoinFrame(p)>> \o out, "join")
  <1> DEFINE first == <<Accepted>>
             two   == <<Accepted>> \o <<JoinFrame(p)>>
  <1>1. JoinFrame(p).role = RoleOf(s) /\ JoinFrame(p).type = "join"
    BY DEF JoinFrame, RoleOf
  <1>2. RoleOf(s) \in Roles
    BY SocketIs
  <1>3. /\ first \in Seq(Frames) /\ StreamOK("up", first, "absent", RoleOf(s))
        /\ ~Has(first, "join")
    BY <1>2, StreamBegins
  <1>4. "absent" # RoleOf(s)
    BY <1>2 DEF Roles
  <1>5. two \in Seq(Frames) /\ StreamOK("up", two, "absent", RoleOf(s)) /\ Has(two, "join")
    <2> HIDE DEF first
    <2>1. /\ first \o <<JoinFrame(p)>> \in Seq(Frames)
          /\ StreamOK("up", first \o <<JoinFrame(p)>>, "absent", JoinFrame(p).role)
          /\ Has(first \o <<JoinFrame(p)>>, "join")
      BY <1>1, <1>3, <1>4, StreamJoins
    <2>2. QED
      BY <1>1, <2>1 DEF first
  <1>6. two = <<Accepted, JoinFrame(p)>>
    <2>1. Accepted \in Frames /\ JoinFrame(p) \in Frames
      BY ValuesAssumption DEF Accepted, JoinFrame, Frames
    <2>2. QED
      BY <2>1, PairIs
  <1>7. \A i \in 1 .. Len(two) : two[i].type \in UpTypes(s)
    BY <1>1, <1>6 DEF Accepted, UpTypes
  <1> HIDE DEF two
  <1>8. \A i \in 1 .. Len(out) : out[i].type \notin Special
    BY DEF Only, Special
  <1>9. StreamOK("up", two \o out, "absent", RoleOf(s))
    BY <1>2, <1>5, <1>8, StreamGrows
  <1>10. Only(out, UpTypes(s))
    <2>1. CASE p = Host
      BY <2>1, OnlyMore DEF UpTypes
    <2>2. CASE p # Host
      BY <2>2, OnlyEmpty
    <2>3. QED
      BY <2>1, <2>2
  <1>11. Only(two, UpTypes(s))
    BY <1>7 DEF Only
  <1>12. Only(two \o out, UpTypes(s)) /\ Has(two \o out, "join")
    BY <1>5, <1>10, <1>11, OnlyConcat, HasConcat
  <1>13. QED
    BY <1>6, <1>9, <1>12

LEMMA ConnectLinks ==
    ASSUME IInv, Links, NEW p \in Peers, ConnectAndJoin(p),
           UNCHANGED <<peers, host, guests>>, sessionOf'[Room] \in {Room, sessionOf[Room]},
           sessionActive'[p], \A q \in Peers \ {p} : sessionActive'[q] = sessionActive[q]
    PROVE  Links'
  <1> DEFINE new == New(p)
             old == socket[p]
  <1>1. PICK early \in BOOLEAN :
             /\ wire' = [s \in Sockets |->
                   IF s = new THEN (IF early THEN "up" ELSE "connecting")
                   ELSE IF s = old THEN "down" ELSE wire[s]]
             /\ up' = [s \in Sockets |->
                   IF s = new /\ early
                   THEN <<Accepted, JoinFrame(p)>> \o pendingOutgoing[p]
                   ELSE IF s = old /\ Live(s) THEN Append(up[s], Closed)
                   ELSE up[s]]
             /\ down' = [s \in Sockets |->
                   IF s = new /\ early THEN <<Opened>>
                   ELSE IF s = old THEN <<>> ELSE down[s]]
             /\ joined' = [joined EXCEPT ![p] = early]
             /\ pendingJoin' = [pendingJoin EXCEPT ![p] = ~early]
             /\ inSession' = [inSession EXCEPT ![p] = @ \/ early]
             /\ autoRejoin' = [autoRejoin EXCEPT ![p] = @ \/ early]
             /\ pendingOutgoing' = IF early THEN [pendingOutgoing EXCEPT ![p] = <<>>]
                                   ELSE pendingOutgoing
    BY DEF ConnectAndJoin, New
  <1>2. /\ new \in Sockets /\ new[1] = p /\ new[2] = generation[p] + 1
        /\ wire[new] = "idle" /\ up[new] = <<>> /\ peers[new].role = "absent"
        /\ new # old /\ new # host[Room] /\ new \notin guests[Room]
        /\ generation' = [generation EXCEPT ![p] = @ + 1]
        /\ socket' = [socket EXCEPT ![p] = new]
        /\ socket'[p] = new /\ generation'[p] = generation[p] + 1
    BY NewIs
  <1>3. /\ joined \in [Peers -> BOOLEAN] /\ pendingJoin \in [Peers -> BOOLEAN]
        /\ inSession \in [Peers -> BOOLEAN] /\ pendingOutgoing \in [Peers -> Seq(Frames)]
        /\ generation \in [Peers -> Nat] /\ socket \in [Peers -> Sockets \cup {NoSocket}]
        /\ up \in [Sockets -> Seq(Frames)]
    BY QueuesTyped DEF IInv, ClientOK
  <1>4. new = <<p, generation[p] + 1>>
    BY DEF New
  <1> HIDE DEF new
  <1>5. /\ wire'[new] = (IF early THEN "up" ELSE "connecting")
        /\ up'[new] = (IF early THEN <<Accepted, JoinFrame(p)>> \o pendingOutgoing[p] ELSE <<>>)
        /\ peers'[new].role = "absent"
    BY <1>1, <1>2
  <1>6. ASSUME NEW s \in Sockets, s # new
        PROVE  /\ s = old => /\ wire'[s] = "down"
                             /\ up'[s] = IF Live(s) THEN Append(up[s], Closed) ELSE up[s]
               /\ s # old => wire'[s] = wire[s] /\ up'[s] = up[s]
               /\ peers'[s] = peers[s]
    BY <1>1, <1>6
  <1>7. /\ joined'[p] = early /\ pendingJoin'[p] = ~early
        /\ pendingOutgoing'[p] = IF early THEN <<>> ELSE pendingOutgoing[p]
        /\ \A q \in Peers \ {p} :
              /\ joined'[q] = joined[q] /\ pendingJoin'[q] = pendingJoin[q]
              /\ inSession'[q] = inSession[q] /\ pendingOutgoing'[q] = pendingOutgoing[q]
              /\ socket'[q] = socket[q] /\ generation'[q] = generation[q]
    BY <1>1, <1>2, <1>3
  <1>8. ClientLinks(p)
    BY DEF Links
  <1>9. early => /\ StreamOK("up", up'[new], "absent", RoleOf(new))
                 /\ Only(up'[new], UpTypes(new)) /\ Has(up'[new], "join")
    BY <1>2, <1>3, <1>5, <1>8, EarlyIs DEF ClientLinks
  <1>10. Seats'
    <2>1. ASSUME NEW s \in Sockets PROVE wire'[s] = "up" /\ peers[s].role = "host" => host[Room] = s
      <3>1. CASE s = new
        BY <1>2, <3>1
      <3>2. CASE s # new
        BY <1>6, <3>2 DEF Links, Seats, Live
      <3>3. QED
        BY <3>1, <3>2
    <2>2. QED
      BY <2>1 DEF Links, Seats, Live
  <1>11. ASSUME NEW s \in Sockets PROVE SocketOK(s)'
    <2>1. SocketOK(s)
      BY DEF Links
    <2>2. CASE s = new
      <3>1. StreamOK(wire'[new], up'[new], "absent", RoleOf(new)) /\ Only(up'[new], UpTypes(new))
        <4>1. CASE early
          BY <1>5, <1>9, <4>1
        <4>2. CASE ~early
          <5>1. StreamOK("idle", <<>>, "absent", RoleOf(new))
            BY <1>2, <2>1, <2>2 DEF SocketOK
          <5>2. StreamOK("connecting", <<>>, "absent", RoleOf(new))
            BY <1>2, <5>1, SocketIs, StreamNever
          <5>3. QED
            BY <1>5, <4>2, <5>2, OnlyEmpty
        <4>3. QED
          BY <4>1, <4>2
      <3>2. ~(new[2] > generation'[new[1]]) /\ new = socket'[new[1]]
        BY <1>2, <1>3
      <3>3. QED
        BY <1>5, <2>2, <3>1, <3>2 DEF SocketOK, UpTypes
    <2>3. CASE s = old /\ s # new
      <3>1. /\ wire'[s] = "down" /\ peers'[s] = peers[s]
            /\ up'[s] = IF Live(s) THEN Append(up[s], Closed) ELSE up[s]
        BY <1>6, <2>3
      <3>2. StreamOK("down", up'[s], peers[s].role, RoleOf(s)) /\ Only(up'[s], UpTypes(s))
        BY <3>1, GivenUpIs
      <3>3. s[1] = p /\ s[2] = generation[p]
        BY <2>3, SenderIs, SocketsAssumption
      <3>4. ~(s[2] > generation'[s[1]])
        BY <1>2, <1>3, <3>3
      <3>5. QED
        BY <3>1, <3>2, <3>4 DEF SocketOK, UpTypes
    <2>4. CASE s # old /\ s # new
      <3>1. wire'[s] = wire[s] /\ up'[s] = up[s] /\ peers'[s] = peers[s]
        BY <1>6, <2>4
      <3>2. s[2] > generation'[s[1]] => wire[s] = "idle"
        <4>1. generation'[s[1]] >= generation[s[1]]
          BY <1>2, <1>3, <1>7, SocketIs
        <4>2. s[2] > generation'[s[1]] => s[2] > generation[s[1]]
          BY <1>2, <1>3, <1>7, <4>1, SocketIs
        <4>3. QED
          BY <2>1, <4>2 DEF SocketOK
      <3>3. s[2] <= generation'[s[1]] /\ s # socket'[s[1]] => wire[s] = "down"
        <4>1. CASE s[1] = p
          <5>1. s[2] # generation[p] + 1
            BY <1>4, <2>4, <4>1, SocketIs
          <5>2. s[2] <= generation'[s[1]] => s[2] <= generation[s[1]]
            BY <1>2, <1>3, <4>1, <5>1, SocketIs
          <5>3. QED
            BY <2>1, <2>4, <4>1, <5>2 DEF SocketOK
        <4>2. CASE s[1] # p
          <5>1. s[1] \in Peers \ {p}
            BY <4>2, SocketIs
          <5>2. generation'[s[1]] = generation[s[1]] /\ socket'[s[1]] = socket[s[1]]
            BY <1>7, <5>1
          <5>3. QED
            BY <2>1, <5>2 DEF SocketOK
        <4>3. QED
          BY <4>1, <4>2
      <3>4. QED
        BY <2>1, <3>1, <3>2, <3>3 DEF SocketOK, UpTypes
    <2>5. QED
      BY <2>2, <2>3, <2>4
  <1>12. ASSUME NEW q \in Peers PROVE ClientLinks(q)'
    <2>1. CASE q = p
      <3>1. socket'[p] = <<p, generation'[p]>>
        BY <1>2, <1>4
      <3>2. joined'[p] => /\ ~pendingJoin'[p] /\ wire'[socket'[p]] = "up"
                          /\ Has(up'[socket'[p]], "join")
        BY <1>2, <1>5, <1>7, <1>9
      <3>3. pendingJoin'[p] => /\ peers'[socket'[p]].role \notin Roles
                               /\ ~Has(up'[socket'[p]], "join")
        <4>1. pendingJoin'[p] => ~early
          BY <1>3, <1>7
        <4>2. pendingJoin'[p] => ~Has(up'[new], "join")
          BY <1>5, <4>1, HasNone
        <4>3. peers'[new].role \notin Roles
          BY <1>5 DEF Roles
        <4>4. socket'[p] = new
          BY <1>2
        <4>5. QED
          BY <4>2, <4>3, <4>4
      <3>4. Only(pendingOutgoing'[p], {"open_url"}) /\ (p # Host => pendingOutgoing'[p] = <<>>)
        BY <1>7, <1>8, OnlyEmpty DEF ClientLinks
      <3>5. socket'[p] # NoSocket
        BY <1>2, SocketsAssumption
      <3>6. QED
        BY <2>1, <3>1, <3>2, <3>3, <3>4, <3>5 DEF ClientLinks, JoinSent, Live
    <2>2. CASE q # p
      <3>1. /\ joined'[q] = joined[q] /\ pendingJoin'[q] = pendingJoin[q]
            /\ inSession'[q] = inSession[q] /\ pendingOutgoing'[q] = pendingOutgoing[q]
            /\ socket'[q] = socket[q] /\ generation'[q] = generation[q]
            /\ sessionActive'[q] = sessionActive[q]
        BY <1>7, <2>2
      <3>2. socket[q] # NoSocket =>
               socket[q] \in Sockets /\ socket[q] # old /\ socket[q] # new
        BY <2>2, OthersAre DEF new
      <3>3. socket[q] # NoSocket =>
               /\ wire'[socket[q]] = wire[socket[q]] /\ up'[socket[q]] = up[socket[q]]
               /\ peers'[socket[q]] = peers[socket[q]]
        BY <1>6, <3>2
      <3>4. ClientLinks(q)
        BY DEF Links
      <3>5. QED
        BY <3>1, <3>3, <3>4 DEF ClientLinks, JoinSent, Live
    <2>3. QED
      BY <2>1, <2>2
  <1>13. QED
    BY <1>10, <1>11, <1>12 DEF Links

LEMMA StartLinks ==
    ASSUME IInv, Links, StartHostSession
    PROVE  Links'
  <1>1. Host \in Peers /\ sessionActive \in [Peers -> BOOLEAN] /\ Room \in Codes
        /\ sessionOf \in [Codes -> Codes \cup {NoCode}]
    BY ValuesAssumption DEF Peers, IInv, SessionOK, ServerTypeOK, Room
  <1>2. /\ ConnectAndJoin(Host) /\ UNCHANGED <<peers, host, guests>>
        /\ sessionOf' = [sessionOf EXCEPT ![Room] = Room]
        /\ sessionActive' = [sessionActive EXCEPT ![Host] = TRUE]
    BY DEF StartHostSession, CreateSession, Room
  <1>3. /\ sessionOf'[Room] \in {Room, sessionOf[Room]} /\ sessionActive'[Host]
        /\ \A q \in Peers \ {Host} : sessionActive'[q] = sessionActive[q]
    BY <1>1, <1>2
  <1>4. QED
    BY <1>1, <1>2, <1>3, ConnectLinks

LEMMA JoinSessionLinks ==
    ASSUME IInv, Links, NEW g \in Guests, JoinSession(g)
    PROVE  Links'
  <1>1. g \in Peers /\ sessionActive \in [Peers -> BOOLEAN]
    BY DEF Peers, IInv, SessionOK
  <1>2. /\ ConnectAndJoin(g) /\ UNCHANGED <<peers, host, guests, sessionOf>>
        /\ sessionActive' = [sessionActive EXCEPT ![g] = TRUE]
    BY DEF JoinSession, server
  <1>3. /\ sessionOf'[Room] \in {Room, sessionOf[Room]} /\ sessionActive'[g]
        /\ \A q \in Peers \ {g} : sessionActive'[q] = sessionActive[q]
    BY <1>1, <1>2
  <1>4. QED
    BY <1>1, <1>2, <1>3, ConnectLinks

LEMMA ReconnectLinks ==
    ASSUME IInv, Links, NEW p \in Peers, Reconnect(p)
    PROVE  Links'
  <1>1. /\ ConnectAndJoin(p) /\ UNCHANGED <<peers, host, guests, sessionOf, sessionActive>>
        /\ inSession[p]
    BY DEF Reconnect, server, session
  <1>2. sessionActive[p]
    BY <1>1 DEF Links, ClientLinks
  <1>3. QED
    BY <1>1, <1>2, ConnectLinks

LEMMA LeaveLinks ==
    ASSUME IInv, Links, NEW g \in Guests, LeaveSession(g)
    PROVE  Links'
  <1> DEFINE old == socket[g]
  <1>1. g \in Peers
    BY DEF Peers
  <1>2. /\ wire' = [s \in Sockets |-> IF s = old THEN "down" ELSE wire[s]]
        /\ up' = [s \in Sockets |-> IF s = old /\ Live(s) THEN Append(up[s], Closed)
                                    ELSE up[s]]
        /\ socket' = [socket EXCEPT ![g] = NoSocket]
        /\ joined' = [joined EXCEPT ![g] = FALSE]
        /\ pendingJoin' = [pendingJoin EXCEPT ![g] = FALSE]
        /\ inSession' = [inSession EXCEPT ![g] = FALSE]
        /\ pendingOutgoing' = [pendingOutgoing EXCEPT ![g] = <<>>]
        /\ sessionActive' = [sessionActive EXCEPT ![g] = FALSE]
        /\ UNCHANGED <<peers, sessionOf, host, guests, generation>>
    BY DEF LeaveSession, server
  <1>3. /\ joined \in [Peers -> BOOLEAN] /\ pendingJoin \in [Peers -> BOOLEAN]
        /\ inSession \in [Peers -> BOOLEAN] /\ pendingOutgoing \in [Peers -> Seq(Frames)]
        /\ generation \in [Peers -> Nat] /\ socket \in [Peers -> Sockets \cup {NoSocket}]
        /\ sessionActive \in [Peers -> BOOLEAN]
    BY QueuesTyped DEF IInv, ClientOK, SessionOK
  <1>4. ASSUME NEW s \in Sockets
        PROVE  /\ s = old => /\ wire'[s] = "down"
                             /\ up'[s] = IF Live(s) THEN Append(up[s], Closed) ELSE up[s]
               /\ s # old => wire'[s] = wire[s] /\ up'[s] = up[s]
    BY <1>2
  <1>5. Seats'
    <2>1. \A s \in Sockets : wire'[s] = "up" => wire[s] = "up"
      BY <1>4
    <2>2. QED
      BY <1>2, <2>1 DEF Links, Seats, Live
  <1>6. ASSUME NEW s \in Sockets PROVE SocketOK(s)'
    <2>1. SocketOK(s)
      BY DEF Links
    <2>2. CASE s = old
      <3>1. wire'[s] = "down" /\ up'[s] = IF Live(s) THEN Append(up[s], Closed) ELSE up[s]
        BY <1>4, <2>2
      <3>2. StreamOK("down", up'[s], peers[s].role, RoleOf(s)) /\ Only(up'[s], UpTypes(s))
        BY <3>1, GivenUpIs
      <3>3. s[1] = g /\ s[2] = generation[g]
        BY <1>1, <2>2, SenderIs, SocketsAssumption
      <3>4. ~(s[2] > generation[s[1]])
        BY <1>1, <1>3, <3>3
      <3>5. QED
        BY <1>2, <3>1, <3>2, <3>4 DEF SocketOK, UpTypes
    <2>3. CASE s # old
      <3>1. wire'[s] = wire[s] /\ up'[s] = up[s]
        BY <1>4, <2>3
      <3>2. s # socket'[s[1]] => s # socket[s[1]]
        BY <1>1, <1>2, <1>3, <2>3, SocketIs
      <3>3. QED
        BY <1>2, <2>1, <3>1, <3>2 DEF SocketOK, UpTypes
    <2>4. QED
      BY <2>2, <2>3
  <1>7. ASSUME NEW q \in Peers PROVE ClientLinks(q)'
    <2>1. CASE q = g
      <3>1. /\ socket'[g] = NoSocket /\ ~joined'[g] /\ ~pendingJoin'[g] /\ ~inSession'[g]
            /\ pendingOutgoing'[g] = <<>>
        BY <1>1, <1>2, <1>3
      <3>2. QED
        BY <2>1, <3>1, OnlyEmpty DEF ClientLinks
    <2>2. CASE q # g
      <3>1. /\ joined'[q] = joined[q] /\ pendingJoin'[q] = pendingJoin[q]
            /\ inSession'[q] = inSession[q] /\ pendingOutgoing'[q] = pendingOutgoing[q]
            /\ socket'[q] = socket[q] /\ sessionActive'[q] = sessionActive[q]
        BY <1>1, <1>2, <1>3, <2>2
      <3>2. socket[q] # NoSocket => socket[q] \in Sockets /\ socket[q] # old
        BY <1>1, <2>2, OthersAre
      <3>3. socket[q] # NoSocket =>
               wire'[socket[q]] = wire[socket[q]] /\ up'[socket[q]] = up[socket[q]]
        BY <1>4, <3>2
      <3>4. ClientLinks(q)
        BY DEF Links
      <3>5. QED
        BY <1>2, <3>1, <3>3, <3>4 DEF ClientLinks, JoinSent, Live
    <2>3. QED
      BY <2>1, <2>2
  <1>8. QED
    BY <1>5, <1>6, <1>7 DEF Links

----------------------------------------------------------------------------
(* Connections.                                                            *)

LEMMA WireLinks ==
    ASSUME IInv, Links, NEW s \in Sockets,
           UNCHANGED <<peers, sessionOf, host, guests, generation, socket, joined, pendingJoin,
                       inSession, pendingOutgoing, sessionActive>>,
           \A x \in Sockets \ {s} : wire'[x] = wire[x] /\ up'[x] = up[x],
           wire[s] = "connecting" \/ wire'[s] = "down",
           wire[s] \in {"connecting", "up"},
           wire'[s] = "up" => peers[s].role = "absent",
           StreamOK(wire'[s], up'[s], peers[s].role, RoleOf(s)), Only(up'[s], UpTypes(s)),
           Has(up'[s], "join") => Has(up[s], "join")
    PROVE  Links'
  <1>1. SocketOK(s)
    BY DEF Links
  <1>2. Seats'
    <2>1. ASSUME NEW x \in Sockets PROVE peers[x].role = "host" /\ wire'[x] = "up" => host[Room] = x
      <3>1. CASE x = s
        BY <3>1
      <3>2. CASE x # s
        BY <3>2 DEF Links, Seats, Live
      <3>3. QED
        BY <3>1, <3>2
    <2>2. QED
      BY <2>1 DEF Links, Seats, Live
  <1>3. ASSUME NEW x \in Sockets PROVE SocketOK(x)'
    <2>1. CASE x # s
      BY <2>1, SocketKept
    <2>2. CASE x = s
      <3>1. ~(s[2] > generation[s[1]])
        BY <1>1 DEF SocketOK
      <3>2. s[2] <= generation[s[1]] /\ s # socket[s[1]] => wire[s] = "down"
        BY <1>1 DEF SocketOK
      <3>3. QED
        BY <2>2, <3>1, <3>2 DEF SocketOK, UpTypes
    <2>3. QED
      BY <2>1, <2>2
  <1>4. ASSUME NEW p \in Peers PROVE ClientLinks(p)'
    <2>1. ASSUME NEW x \in Sockets
          PROVE  /\ wire[x] \in {"up", "down"} => wire'[x] \in {wire[x], "down"}
                 /\ Live(x)' /\ JoinSent(x) => JoinSent(x)'
                 /\ JoinSent(x)' => JoinSent(x)
      <3>1. CASE x # s
        BY <3>1 DEF JoinSent
      <3>2. CASE x = s
        <4>1. JoinSent(x)' => JoinSent(x)
          BY <3>2 DEF JoinSent
        <4>2. wire[s] = "connecting" => ~JoinSent(s)
          <5>1. wire[s] = "connecting" => up[s] = <<>> /\ peers[s].role = "absent"
            BY <1>1 DEF SocketOK, StreamOK
          <5>2. QED
            BY <5>1, HasNone DEF JoinSent, Roles
        <4>3. QED
          BY <3>2, <4>1, <4>2 DEF Live
      <3>3. QED
        BY <3>1, <3>2
    <2>2. QED
      BY <2>1, ClientLinksKept
  <1>5. QED
    BY <1>2, <1>3, <1>4 DEF Links

LEMMA OpenLinks ==
    ASSUME IInv, Links, NEW s \in Sockets, Open(s)
    PROVE  Links'
  <1>1. /\ wire[s] = "connecting"
        /\ wire' = [wire EXCEPT ![s] = "up"]
        /\ up' = [up EXCEPT ![s] = <<Accepted>>]
        /\ UNCHANGED <<peers, sessionOf, host, guests, generation, socket, joined, pendingJoin,
                       inSession, pendingOutgoing, sessionActive>>
        /\ wire \in [Sockets -> WireStates] /\ up \in [Sockets -> Seq(Frames)]
    BY QueuesTyped DEF Open, WireOpen, server, client, session, IInv
  <1>2. /\ wire'[s] = "up" /\ up'[s] = <<Accepted>>
        /\ \A x \in Sockets \ {s} : wire'[x] = wire[x] /\ up'[x] = up[x]
    BY <1>1
  <1>3. peers[s].role = "absent"
    <2>1. SocketOK(s)
      BY DEF Links
    <2>2. QED
      BY <1>1, <2>1 DEF SocketOK, StreamOK
  <1>4. /\ StreamOK("up", <<Accepted>>, "absent", RoleOf(s)) /\ ~Has(<<Accepted>>, "join")
    BY SocketIs, StreamBegins
  <1>5. Only(<<Accepted>>, UpTypes(s))
    <2>1. Accepted \in Frames /\ Accepted.type \in UpTypes(s)
      BY DEF Accepted, Frames, UpTypes
    <2>2. QED
      BY <2>1, OnlyOne
  <1>6. QED
    BY <1>1, <1>2, <1>3, <1>4, <1>5, WireLinks

LEMMA RefuseLinks ==
    ASSUME IInv, Links, NEW s \in Sockets, Refuse(s)
    PROVE  Links'
  <1>1. /\ wire[s] = "connecting"
        /\ wire' = [wire EXCEPT ![s] = "down"]
        /\ UNCHANGED <<up, peers, sessionOf, host, guests, generation, socket, joined,
                       pendingJoin, inSession, pendingOutgoing, sessionActive>>
        /\ wire \in [Sockets -> WireStates] /\ SocketOK(s)
    BY DEF Refuse, WireRefuse, server, client, session, IInv, Links
  <1>2. /\ wire'[s] = "down" /\ up'[s] = up[s]
        /\ \A x \in Sockets \ {s} : wire'[x] = wire[x] /\ up'[x] = up[x]
    BY <1>1
  <1>3. StreamOK("down", up[s], peers[s].role, RoleOf(s)) /\ Only(up[s], UpTypes(s))
    BY <1>1, SocketIs, StreamNever DEF SocketOK
  <1>4. QED
    BY <1>1, <1>2, <1>3, WireLinks

LEMMA DropLinks ==
    ASSUME IInv, Links, NEW s \in Sockets, Drop(s)
    PROVE  Links'
  <1>1. /\ wire[s] = "up"
        /\ wire' = [wire EXCEPT ![s] = "down"]
        /\ \E i \in 0 .. Len(up[s]) :
              up' = [up EXCEPT ![s] = Append(SubSeq(up[s], 1, i), Closed)]
        /\ UNCHANGED <<peers, sessionOf, host, guests, generation, socket, joined,
                       pendingJoin, inSession, pendingOutgoing, sessionActive>>
        /\ wire \in [Sockets -> WireStates] /\ up \in [Sockets -> Seq(Frames)]
        /\ SocketOK(s)
    BY QueuesTyped DEF Drop, WireDrop, Broken, Live, server, client, session, IInv, Links
  <1>2. PICK i \in 0 .. Len(up[s]) :
              up' = [up EXCEPT ![s] = Append(SubSeq(up[s], 1, i), Closed)]
    BY <1>1
  <1>3. up[s] \in Seq(Frames) /\ StreamOK("up", up[s], peers[s].role, RoleOf(s))
        /\ Only(up[s], UpTypes(s))
    BY <1>1 DEF SocketOK
  <1>4. /\ wire'[s] = "down" /\ up'[s] = Append(SubSeq(up[s], 1, i), Closed)
        /\ \A x \in Sockets \ {s} : wire'[x] = wire[x] /\ up'[x] = up[x]
    BY <1>1, <1>2
  <1>5. /\ StreamOK("down", up'[s], peers[s].role, RoleOf(s))
        /\ Has(up'[s], "join") => Has(up[s], "join")
    <2> DEFINE q == up[s]
    <2>1. RoleOf(s) \in Roles /\ q \in Seq(Frames) /\ i \in 0 .. Len(q)
          /\ StreamOK("up", q, peers[s].role, RoleOf(s))
      BY <1>3, SocketIs
    <2> HIDE DEF q
    <2>2. /\ StreamOK("down", Append(SubSeq(q, 1, i), Closed), peers[s].role, RoleOf(s))
          /\ Has(Append(SubSeq(q, 1, i), Closed), "join") => Has(q, "join")
      BY <2>1, StreamIsCut
    <2>3. QED
      BY <1>4, <2>2 DEF q
  <1>6. Only(up'[s], UpTypes(s))
    <2>1. SubSeq(up[s], 1, i) \in Seq(Frames) /\ Only(SubSeq(up[s], 1, i), UpTypes(s))
      BY <1>3, OnlyPrefix
    <2>2. Closed \in Frames /\ Closed.type \in UpTypes(s)
      BY DEF Closed, Frames, UpTypes
    <2>3. QED
      BY <1>4, <2>1, <2>2, OnlyAppend
  <1>7. QED
    BY <1>1, <1>4, <1>5, <1>6, WireLinks

----------------------------------------------------------------------------

LEMMA InitLinks ==
    ASSUME Init
    PROVE  Links
  <1>1. /\ \A s \in Sockets : wire[s] = "idle" /\ up[s] = <<>> /\ peers[s] = Absent
        /\ \A p \in Peers : /\ generation[p] = 0 /\ socket[p] = NoSocket /\ ~joined[p]
                            /\ ~pendingJoin[p] /\ ~inSession[p] /\ pendingOutgoing[p] = <<>>
        /\ sessionOf[Room] = NoCode /\ host[Room] = NoSocket /\ guests[Room] = {}
    BY ValuesAssumption DEF Init, NetInit, ServerInit, Room
  <1>2. Seats
    BY <1>1, SocketsAssumption DEF Seats, Absent, Roles, Live
  <1>3. ASSUME NEW s \in Sockets PROVE SocketOK(s)
    <2>1. StreamOK("idle", <<>>, "absent", RoleOf(s))
      BY DEF StreamOK
    <2>2. s[2] \in Nat \ {0} /\ generation[s[1]] = 0
      BY <1>1, SocketIs
    <2>3. QED
      BY <1>1, <2>1, <2>2, OnlyEmpty DEF SocketOK, Absent
  <1>4. \A p \in Peers : ClientLinks(p)
    BY <1>1, OnlyEmpty DEF ClientLinks
  <1>5. QED
    BY <1>2, <1>3, <1>4 DEF Links

LEMMA NextLinks ==
    ASSUME IInv, Links, [Next]_vars
    PROVE  Links'
  <1>1. CASE StartHostSession
    BY <1>1, StartLinks
  <1>2. CASE \/ Heartbeat
             \/ \E f \in Sources \cup Urls : SetLocalFileInfo(f)
             \/ \E u \in Urls : ShareOpenUrl(u)
             \/ \E p \in Peers, cmd \in Commands : UserCommand(p, cmd)
    BY <1>2, UserLinks
  <1>3. CASE \E g \in Guests : JoinSession(g) \/ LeaveSession(g)
    BY <1>3, JoinSessionLinks, LeaveLinks
  <1>4. CASE \E p \in Peers : HandleEvent(p) \/ Reconnect(p)
    BY <1>4, EventLinks, ReconnectLinks
  <1>5. CASE \E s \in Sockets : ServerStep(s) \/ Open(s) \/ Refuse(s) \/ Drop(s)
    BY <1>5, ServerLinks, OpenLinks, RefuseLinks, DropLinks
  <1>6. CASE UNCHANGED vars
    <2>1. UNCHANGED <<wire, up, peers, sessionOf, host, guests, generation, socket, joined,
                      pendingJoin, inSession, sessionActive, pendingOutgoing>>
      BY <1>6 DEF vars, net, server, client, session
    <2>2. QED
      BY <2>1, SameLinks
  <1>7. QED
    BY <1>1, <1>2, <1>3, <1>4, <1>5, <1>6 DEF Next

LEMMA LinksHold == Spec => []Links
  <1>1. Init => Links
    BY InitLinks
  <1>2. IInv /\ Links /\ [Next]_vars => Links'
    BY NextLinks
  <1>3. QED
    BY <1>1, <1>2, Invariance, PTL DEF Spec

----------------------------------------------------------------------------
(* Who is told of whom.                                                    *)

Seated(s) == s = host[Room] \/ s \in guests[Room]
Online(p) == socket[p] # NoSocket /\ Live(socket[p]) /\ Seated(socket[p])

\* What the server last told p, or would.
Roster(p) == PeerUpdate(p = Host \/ host[Room] # NoSocket, Cardinality(guests[Room]))

Knows(p) ==
    stale[p] = <<>> /\ hostOnline[p] = Roster(p).host /\ guestCount[p] = Roster(p).guests

\* Whoever has a seat knows who else has one, or is about to be told.
Informed(p) ==
    Online(p) => \/ Last(down[socket[p]], "peer_update", Roster(p))
                 \/ ~Has(down[socket[p]], "peer_update") /\ Knows(p)

Informing == \A p \in Peers : Informed(p)

LEMMA SeatRole ==
    ASSUME Links, NEW s \in Sockets, Seated(s)
    PROVE  peers[s].role = RoleOf(s)
  <1>1. peers[s].role \in Roles
    BY DEF Links, Seats, Seated, Roles
  <1>2. SocketOK(s)
    BY DEF Links
  <1>3. peers[s].role \in {"absent", "none", RoleOf(s)}
    BY <1>2 DEF SocketOK, StreamOK
  <1>4. QED
    BY <1>1, <1>3 DEF Roles

LEMMA HostSeat ==
    ASSUME Links, NEW s \in Sockets, Seated(s), s[1] = Host
    PROVE  s = host[Room] /\ s \notin guests[Room]
  <1>1. peers[s].role = "host"
    BY SeatRole DEF RoleOf
  <1>2. QED
    BY <1>1 DEF Links, Seats, Seated

LEMMA GuestSeat ==
    ASSUME Links, NEW s \in Sockets, Seated(s), s[1] # Host
    PROVE  s # host[Room] /\ s \in guests[Room]
  <1>1. peers[s].role = "guest"
    BY SeatRole DEF RoleOf
  <1>2. QED
    BY <1>1 DEF Links, Seats, Seated

LEMMA RoleSeat ==
    ASSUME Links, NEW s \in Sockets, Live(s), peers[s].role \in Roles
    PROVE  Seated(s)
  BY DEF Links, Seats, Seated, Roles

----------------------------------------------------------------------------
(* Steps that do not concern an instance.                                  *)

Untouched(q) ==
    /\ socket'[q] = socket[q] /\ stale'[q] = stale[q] /\ joined'[q] = joined[q]
    /\ pendingJoin'[q] = pendingJoin[q] /\ generation'[q] = generation[q]
    /\ socket[q] # NoSocket => /\ wire'[socket[q]] = wire[socket[q]]
                               /\ up'[socket[q]] = up[socket[q]]
                               /\ down'[socket[q]] = down[socket[q]]

LEMMA ConnectOthers ==
    ASSUME IInv, Links, NEW p \in Peers, ConnectAndJoin(p), NEW q \in Peers \ {p}
    PROVE  Untouched(q)
  <1> DEFINE new == New(p)
             old == socket[p]
  <1>1. PICK early \in BOOLEAN :
             /\ wire' = [s \in Sockets |->
                   IF s = new THEN (IF early THEN "up" ELSE "connecting")
                   ELSE IF s = old THEN "down" ELSE wire[s]]
             /\ up' = [s \in Sockets |->
                   IF s = new /\ early
                   THEN <<Accepted, JoinFrame(p)>> \o pendingOutgoing[p]
                   ELSE IF s = old /\ Live(s) THEN Append(up[s], Closed)
                   ELSE up[s]]
             /\ down' = [s \in Sockets |->
                   IF s = new /\ early THEN <<Opened>>
                   ELSE IF s = old THEN <<>> ELSE down[s]]
             /\ joined' = [joined EXCEPT ![p] = early]
             /\ pendingJoin' = [pendingJoin EXCEPT ![p] = ~early]
             /\ inSession' = [inSession EXCEPT ![p] = @ \/ early]
             /\ autoRejoin' = [autoRejoin EXCEPT ![p] = @ \/ early]
             /\ pendingOutgoing' = IF early THEN [pendingOutgoing EXCEPT ![p] = <<>>]
                                   ELSE pendingOutgoing
    BY DEF ConnectAndJoin, New
  <1>2. /\ joined \in [Peers -> BOOLEAN] /\ pendingJoin \in [Peers -> BOOLEAN]
        /\ generation \in [Peers -> Nat] /\ socket \in [Peers -> Sockets \cup {NoSocket}]
        /\ stale \in [Peers -> Seq(Frames)]
    BY QueuesTyped DEF IInv, ClientOK
  <1>3. /\ socket' = [socket EXCEPT ![p] = new]
        /\ generation' = [generation EXCEPT ![p] = @ + 1]
    BY NewIs
  <1>4. stale'[q] = stale[q]
    BY <1>2 DEF ConnectAndJoin
  <1>5. /\ socket'[q] = socket[q] /\ generation'[q] = generation[q]
        /\ joined'[q] = joined[q] /\ pendingJoin'[q] = pendingJoin[q]
    BY <1>1, <1>2, <1>3
  <1>6. socket[q] # NoSocket => socket[q] \in Sockets /\ socket[q] # old /\ socket[q] # new
    BY OthersAre
  <1> HIDE DEF new, old
  <1>7. socket[q] # NoSocket =>
           /\ wire'[socket[q]] = wire[socket[q]] /\ up'[socket[q]] = up[socket[q]]
           /\ down'[socket[q]] = down[socket[q]]
    BY <1>1, <1>6
  <1>8. QED
    BY <1>4, <1>5, <1>7 DEF Untouched

LEMMA LeaveOthers ==
    ASSUME IInv, Links, NEW g \in Guests, LeaveSession(g), NEW q \in Peers \ {g}
    PROVE  /\ Untouched(q) /\ hostOnline'[q] = hostOnline[q] /\ guestCount'[q] = guestCount[q]
           /\ sessionActive'[q] = sessionActive[q] /\ reconnectPending'[q] = reconnectPending[q]
           /\ lastRemoteSeq'[q] = lastRemoteSeq[q] /\ remoteSource'[q] = remoteSource[q]
  <1>1. g \in Peers
    BY DEF Peers
  <1>2. /\ joined \in [Peers -> BOOLEAN] /\ pendingJoin \in [Peers -> BOOLEAN]
        /\ generation \in [Peers -> Nat] /\ socket \in [Peers -> Sockets \cup {NoSocket}]
        /\ stale \in [Peers -> Seq(Frames)] /\ hostOnline \in [Peers -> BOOLEAN]
        /\ guestCount \in [Peers -> Nat] /\ sessionActive \in [Peers -> BOOLEAN]
        /\ reconnectPending \in [Peers -> BOOLEAN] /\ lastRemoteSeq \in [Peers -> Nat]
        /\ remoteSource \in [Peers -> SourceValues]
    BY QueuesTyped DEF IInv, ClientOK, SessionOK
  <1>3. /\ socket'[q] = socket[q] /\ generation'[q] = generation[q]
        /\ joined'[q] = joined[q] /\ pendingJoin'[q] = pendingJoin[q]
        /\ hostOnline'[q] = hostOnline[q] /\ guestCount'[q] = guestCount[q]
        /\ sessionActive'[q] = sessionActive[q] /\ reconnectPending'[q] = reconnectPending[q]
        /\ lastRemoteSeq'[q] = lastRemoteSeq[q] /\ remoteSource'[q] = remoteSource[q]
    BY <1>2 DEF LeaveSession
  <1>4. stale'[q] = stale[q]
    BY <1>2 DEF LeaveSession
  <1>5. socket[q] # NoSocket => socket[q] \in Sockets /\ socket[q] # socket[g]
    BY <1>1, OthersAre
  <1>6. socket[q] # NoSocket =>
           /\ wire'[socket[q]] = wire[socket[q]] /\ up'[socket[q]] = up[socket[q]]
           /\ down'[socket[q]] = down[socket[q]]
    BY <1>5 DEF LeaveSession
  <1>7. QED
    BY <1>3, <1>4, <1>6 DEF Untouched

\* Another instance's callback takes nothing from q's queues.
LEMMA DequeueOthers ==
    ASSUME IInv, Links, NEW p \in Peers, Queue(p) # <<>>, Dequeue(p), NEW q \in Peers \ {p},
           socket[q] # NoSocket
    PROVE  /\ socket[q] \in Sockets /\ down'[socket[q]] = down[socket[q]]
           /\ stale'[q] = stale[q]
  <1>1. /\ down \in [Sockets -> Seq(Frames)] /\ stale \in [Peers -> Seq(Frames)]
    BY QueuesTyped
  <1>2. socket[q] \in Sockets /\ socket[q] # socket[p]
    BY OthersAre
  <1>3. QED
    BY <1>1, <1>2 DEF Dequeue

----------------------------------------------------------------------------

LEMMA SameInformed ==
    ASSUME NEW p, Informed(p), UNCHANGED <<host, guests>>, socket'[p] = socket[p],
           stale'[p] = stale[p], hostOnline'[p] = hostOnline[p], guestCount'[p] = guestCount[p],
           socket[p] # NoSocket => /\ Live(socket[p])' => Live(socket[p])
                                   /\ Live(socket[p])' => down'[socket[p]] = down[socket[p]]
    PROVE  Informed(p)'
  <1>1. Roster(p)' = Roster(p)
    BY DEF Roster, PeerUpdate
  <1>2. Online(p)' => Online(p) /\ down'[socket[p]] = down[socket[p]]
    BY DEF Online, Seated, Live
  <1>3. Knows(p)' <=> Knows(p)
    BY <1>1 DEF Knows
  <1>4. Online(p)' => \/ Last(down'[socket[p]], "peer_update", Roster(p)')
                      \/ ~Has(down'[socket[p]], "peer_update") /\ Knows(p)'
    BY <1>1, <1>2, <1>3 DEF Informed
  <1>5. QED
    BY <1>4 DEF Informed

\* Everyone who has a seat is told of the seats.
LEMMA ToldInformed ==
    ASSUME IInv, Links, Links', NEW p \in Peers, socket'[p] = socket[p],
           down' = PeerUpdateSent(host'[Room], guests'[Room])
             \/ \E E \in SUBSET Sockets :
                  /\ down' = [x \in Sockets |-> IF x \in E THEN Append(down[x], Closed)
                                 ELSE PeerUpdateSent(host'[Room], guests'[Room])[x]]
                  /\ \A x \in E : ~Live(x)',
           guests'[Room] \in SUBSET Sockets,
           \A x \in Sockets : Live(x)' => Live(x)
    PROVE  Informed(p)'
  <1>1. SUFFICES ASSUME Online(p)' PROVE Last(down'[socket[p]], "peer_update", Roster(p)')
    BY DEF Informed
  <1> DEFINE s == socket[p]
  <1>2. s \in Sockets /\ Live(s)' /\ Live(s) /\ Seated(s)' /\ s[1] = p
    BY <1>1, SenderIs DEF Online
  <1>3. s = host'[Room] \/ s \in guests'[Room]
    BY <1>2 DEF Seated
  <1>4. /\ p = Host => s = host'[Room]
        /\ p # Host => s # host'[Room]
    <2>1. peers'[s].role = RoleOf(s)
      <3>1. (peers'[s].role) \in Roles
        BY <1>2, <1>3 DEF Links, Seats, Roles
      <3>2. SocketOK(s)'
        BY <1>2 DEF Links
      <3>3. peers'[s].role \in {"absent", "none", RoleOf(s)}
        BY <3>2 DEF SocketOK, StreamOK, RoleOf
      <3>4. QED
        BY <3>1, <3>3 DEF Roles
    <2>2. /\ peers'[s].role = "guest" <=> s \in guests'[Room]
          /\ s = host'[Room] => peers'[s].role = "host"
      BY <1>2 DEF Links, Seats
    <2>3. QED
      BY <1>2, <1>3, <2>1, <2>2 DEF RoleOf
  <1>5. PeerUpdateSent(host'[Room], guests'[Room])[s] = Append(down[s], Roster(p)')
    BY <1>2, <1>3, <1>4 DEF PeerUpdateSent, Roster, Room, PeerUpdate
  <1>6. down'[s] = Append(down[s], Roster(p)')
    BY <1>2, <1>5
  <1>7. down[s] \in Seq(Frames) /\ Roster(p)' \in Frames
    <2>1. Cardinality(guests'[Room]) \in Nat
      BY CountOfGuests
    <2>2. PeerUpdate(p = Host \/ host'[Room] # NoSocket, Cardinality(guests'[Room])) \in Frames
      BY <2>1 DEF PeerUpdate, Frames
    <2>3. QED
      BY <1>2, <2>2, QueuesTyped DEF Roster
  <1>8. QED
    BY <1>6, <1>7, LastAppendNew

LEMMA JoinInformed ==
    ASSUME IInv, Links, Links', Informing, NEW s \in Sockets, OnJoin(s),
           UNCHANGED <<client, session>>
    PROVE  Informing'
  <1>1. /\ host' = [host EXCEPT ![Room] = IF s[1] = Host THEN s ELSE @]
        /\ guests' = [guests EXCEPT ![Room] = IF s[1] = Host THEN @ ELSE @ \cup {s}]
        /\ wire' = [x \in Sockets |-> IF x \in Ended(s) THEN "down" ELSE wire[x]]
        /\ down' = [x \in Sockets |-> IF x \in Ended(s) THEN Append(down[x], Closed)
                                      ELSE PeerUpdateSent(host'[Room], guests'[Room])[x]]
    BY JoinIs
  <1>2. /\ Room \in Codes /\ guests \in [Codes -> SUBSET Sockets]
    BY ValuesAssumption DEF IInv, ServerTypeOK, Room
  <1>3. guests'[Room] \in SUBSET Sockets
    BY <1>1, <1>2
  <1>4. Ended(s) \in SUBSET Sockets /\ \A x \in Ended(s) : ~Live(x)'
    BY <1>1 DEF Ended, Live
  <1>5. \A x \in Sockets : Live(x)' => Live(x)
    BY <1>1 DEF Live
  <1>6. \A p \in Peers : socket'[p] = socket[p]
    BY DEF client
  <1>7. QED
    BY <1>1, <1>3, <1>4, <1>5, <1>6, ToldInformed DEF Informing

LEMMA EndInformed ==
    ASSUME IInv, Links, Links', Informing, NEW s \in Sockets, OnSocketDisconnected(s),
           UNCHANGED <<client, session>>
    PROVE  Informing'
  <1>1. /\ host'[Room] = IF host[Room] = s THEN NoSocket ELSE host[Room]
        /\ guests'[Room] = guests[Room] \ {s}
        /\ \/ down' = PeerUpdateSent(host'[Room], guests'[Room])
           \/ down' = down /\ host'[Room] = NoSocket /\ guests'[Room] = {}
           \/ down' = down /\ host'[Room] = host[Room] /\ guests'[Room] = guests[Room]
    BY EndIs
  <1>2. guests'[Room] \in SUBSET Sockets
    BY <1>1, ValuesAssumption DEF IInv, ServerTypeOK, Room
  <1>3. UNCHANGED <<wire, socket, stale, hostOnline, guestCount>>
    BY DEF OnSocketDisconnected, client, session, roster
  <1>4. ASSUME NEW p \in Peers PROVE Informed(p)'
    <2>1. CASE down' = PeerUpdateSent(host'[Room], guests'[Room])
      <3>1. \A x \in Sockets : Live(x)' => Live(x)
        BY <1>3 DEF Live
      <3>2. QED
        BY <1>2, <1>3, <2>1, <3>1, ToldInformed
    <2>2. CASE down' = down /\ host'[Room] = NoSocket /\ guests'[Room] = {}
      BY <2>2 DEF Informed, Online, Seated
    <2>3. CASE down' = down /\ host'[Room] = host[Room] /\ guests'[Room] = guests[Room]
      <3>1. /\ Roster(p)' = Roster(p) /\ (Online(p)' <=> Online(p)) /\ (Knows(p)' <=> Knows(p))
        BY <1>3, <2>3 DEF Roster, PeerUpdate, Online, Seated, Live, Knows
      <3>2. Online(p) => \/ Last(down[socket[p]], "peer_update", Roster(p))
                         \/ ~Has(down[socket[p]], "peer_update") /\ Knows(p)
        BY DEF Informing, Informed
      <3>3. down'[socket'[p]] = down[socket[p]]
        BY <1>3, <2>3
      <3>4. QED
        BY <3>1, <3>2, <3>3 DEF Informed
    <2>4. QED
      BY <1>1, <2>1, <2>2, <2>3
  <1>5. QED
    BY <1>4 DEF Informing

LEMMA RelayInformed ==
    ASSUME IInv, Links, Informing, NEW s \in Sockets, OnRelay(s), UNCHANGED <<client, session>>
    PROVE  Informing'
  <1>1. /\ UNCHANGED <<wire, host, guests, socket, stale, hostOnline, guestCount>>
        /\ down \in [Sockets -> Seq(Frames)] /\ up \in [Sockets -> Seq(Frames)]
        /\ down' = SentTo(Recipients(s, Head(up[s]).type), Head(up[s]))
    BY QueuesTyped DEF OnRelay, client, session, roster, server
  <1>2. up[s] # <<>> /\ Head(up[s]).type \in UpTypes(s) /\ Head(up[s]) \in Frames
    BY <1>1, RelayIs, TailRead
  <1>3. Head(up[s]).type # "peer_update"
    BY <1>2 DEF UpTypes
  <1> DEFINE m == Head(up[s])
  <1>4. \A x \in Sockets : down'[x] \in {down[x], Append(down[x], m)}
    BY <1>1 DEF SentTo
  <1> HIDE DEF m
  <1>5. ASSUME NEW p \in Peers PROVE Informed(p)'
    <2>1. /\ Roster(p)' = Roster(p) /\ (Online(p)' <=> Online(p)) /\ (Knows(p)' <=> Knows(p))
      BY <1>1 DEF Roster, PeerUpdate, Online, Seated, Live, Knows
    <2>2. SUFFICES ASSUME Online(p)
                   PROVE  \/ Last(down'[socket[p]], "peer_update", Roster(p))
                          \/ ~Has(down'[socket[p]], "peer_update") /\ Knows(p)
      BY <1>1, <2>1 DEF Informed
    <2> DEFINE q == down[socket[p]]
               n == down'[socket[p]]
    <2>3. socket[p] \in Sockets
      BY <2>2, SenderIs DEF Online
    <2>4. q \in Seq(Frames) /\ n \in {q, Append(q, m)} /\ m \in Frames /\ m.type # "peer_update"
      BY <1>1, <1>2, <1>3, <1>4, <2>3 DEF m
    <2>5. \/ Last(q, "peer_update", Roster(p))
          \/ ~Has(q, "peer_update") /\ Knows(p)
      BY <2>2 DEF Informing, Informed
    <2> HIDE DEF q, n
    <2>6. Last(q, "peer_update", Roster(p)) => Last(n, "peer_update", Roster(p))
      BY <2>4, LastAppendOld
    <2>7. ~Has(q, "peer_update") => ~Has(n, "peer_update")
      BY <2>4, HasAppend
    <2>8. QED
      BY <2>5, <2>6, <2>7 DEF n
  <1>6. QED
    BY <1>5 DEF Informing

LEMMA ServerInformed ==
    ASSUME IInv, Links, Links', Informing, NEW s \in Sockets, ServerStep(s)
    PROVE  Informing'
  <1>1. UNCHANGED <<client, session>>
    BY DEF ServerStep
  <1>2. CASE OnClientConnected(s)
    <2>1. UNCHANGED <<wire, down, host, guests, socket, stale, hostOnline, guestCount>>
      BY <1>1, <1>2 DEF OnClientConnected, client, session, roster
    <2>2. QED
      BY <2>1, SameInformed DEF Informing, Live
  <1>3. QED
    BY <1>1, <1>2, JoinInformed, EndInformed, RelayInformed, NoPing
       DEF ServerStep, ServerTask, OnTextMessage

\* A callback other than a peer update leaves what an instance knows.
LEMMA RosterIsKept ==
    ASSUME NEW p \in Peers, HandleEvent(p), Event(p).type # "peer_update"
    PROVE  UNCHANGED <<hostOnline, guestCount>>
  BY DEF HandleEvent, OnConnected, OnDisconnected, OnPeerUpdate, OnState, OnFile, OnOpenUrl,
         OnIntent, session, roster

LEMMA RosterIsTaken ==
    ASSUME IInv, NEW p \in Peers, HandleEvent(p), Event(p).type = "peer_update"
    PROVE  hostOnline'[p] = Event(p).host /\ guestCount'[p] = Event(p).guests
  <1>1. OnPeerUpdate(p)
    BY DEF HandleEvent, OnConnected, OnDisconnected, OnPeerUpdate, OnState, OnFile, OnOpenUrl,
           OnIntent
  <1>2. hostOnline \in [Peers -> BOOLEAN] /\ guestCount \in [Peers -> Nat]
    BY DEF IInv, SessionOK
  <1>3. QED
    BY <1>1, <1>2 DEF OnPeerUpdate

LEMMA RosterOfOthers ==
    ASSUME IInv, NEW p \in Peers, HandleEvent(p), NEW q \in Peers \ {p}
    PROVE  hostOnline'[q] = hostOnline[q] /\ guestCount'[q] = guestCount[q]
  <1>1. hostOnline \in [Peers -> BOOLEAN] /\ guestCount \in [Peers -> Nat]
    BY DEF IInv, SessionOK
  <1>2. CASE OnPeerUpdate(p)
    BY <1>1, <1>2 DEF OnPeerUpdate
  <1>3. CASE ~OnPeerUpdate(p)
    BY <1>3 DEF HandleEvent, OnConnected, OnDisconnected, OnState, OnFile, OnOpenUrl,
                OnIntent, session, roster
  <1>4. QED
    BY <1>2, <1>3

LEMMA EventKeeps ==
    ASSUME NEW p \in Peers, HandleEvent(p)
    PROVE  UNCHANGED <<wire, server, generation, socket, sessionActive>>
  BY DEF HandleEvent, OnConnected, OnDisconnected, OnPeerUpdate, OnState, OnFile, OnOpenUrl,
         OnIntent, session

LEMMA EventInformed ==
    ASSUME IInv, Links, Informing, NEW p \in Peers, HandleEvent(p)
    PROVE  Informing'
  <1>1. /\ Queue(p) # <<>> /\ Dequeue(p)
        /\ UNCHANGED <<wire, host, guests, generation, socket, sessionActive>>
    BY EventKeeps DEF HandleEvent, server
  <1>2. ASSUME NEW q \in Peers, q # p PROVE Informed(q)'
    <2>1. /\ socket[q] # NoSocket => down'[socket[q]] = down[socket[q]]
          /\ hostOnline'[q] = hostOnline[q] /\ guestCount'[q] = guestCount[q]
      BY <1>1, <1>2, DequeueOthers, RosterOfOthers
    <2>2. stale'[q] = stale[q]
      BY <1>1, <1>2, QueuesTyped DEF Dequeue
    <2>3. QED
      BY <1>1, <2>1, <2>2, SameInformed DEF Informing, Live
  <1>3. Informed(p)'
    <2>1. /\ Roster(p)' = Roster(p) /\ (Online(p)' <=> Online(p))
      BY <1>1 DEF Roster, PeerUpdate, Online, Seated, Live
    <2>2. SUFFICES ASSUME Online(p)
                   PROVE  \/ Last(down'[socket[p]], "peer_update", Roster(p))
                          \/ ~Has(down'[socket[p]], "peer_update") /\ Knows(p)'
      BY <1>1, <2>1 DEF Informed
    <2> DEFINE q == down[socket[p]]
               n == down'[socket[p]]
    <2>3. socket[p] \in Sockets /\ socket[p] # NoSocket
      BY <2>2, SenderIs DEF Online
    <2>4. q \in Seq(Frames) /\ down \in [Sockets -> Seq(Frames)] /\ stale \in [Peers -> Seq(Frames)]
      BY <2>3, QueuesTyped
    <2>5. \/ Last(q, "peer_update", Roster(p))
          \/ ~Has(q, "peer_update") /\ Knows(p)
      BY <2>2 DEF Informing, Informed
    <2>6. CASE stale[p] # <<>>
      <3>1. n = q
        BY <2>6, <1>1 DEF Dequeue
      <3>2. ~Knows(p)
        BY <2>6 DEF Knows
      <3>3. QED
        BY <2>5, <3>1, <3>2
    <2>7. CASE stale[p] = <<>>
      <3>1. q # <<>> /\ Event(p) = Head(q) /\ stale' = stale /\ down' = [down EXCEPT ![socket[p]] = Tail(@)]
        BY <1>1, <2>3, <2>7 DEF Dequeue, Queue, Event
      <3>2. n = Tail(q)
        BY <2>3, <2>4, <3>1
      <3> HIDE DEF q, n
      <3>3. CASE Last(q, "peer_update", Roster(p))
        <4>1. CASE Last(Tail(q), "peer_update", Roster(p))
          BY <3>2, <4>1 DEF n
        <4>2. CASE Head(q) = Roster(p) /\ ~Has(Tail(q), "peer_update")
          <5>1. Event(p).type = "peer_update"
            BY <3>1, <4>2 DEF Roster, PeerUpdate
          <5>2. hostOnline'[p] = Roster(p).host /\ guestCount'[p] = Roster(p).guests
            BY <3>1, <4>2, <5>1, RosterIsTaken
          <5>3. Knows(p)'
            BY <2>1, <2>7, <3>1, <5>2 DEF Knows
          <5>4. QED
            BY <3>2, <4>2, <5>3 DEF n
        <4>3. QED
          BY <2>4, <3>1, <3>3, <4>1, <4>2, LastTail DEF q
      <3>4. CASE ~Has(q, "peer_update") /\ Knows(p)
        <4>1. Head(q).type # "peer_update" /\ ~Has(Tail(q), "peer_update")
          <5>1. q \in Seq(Frames)
            BY <2>4 DEF q
          <5>2. QED
            BY <3>1, <3>4, <5>1, HasTail
        <4>2. UNCHANGED <<hostOnline, guestCount>>
          BY <3>1, <4>1, RosterIsKept
        <4>3. Knows(p)'
          BY <2>1, <3>1, <3>4, <4>2 DEF Knows
        <4>4. QED
          BY <3>2, <4>1, <4>3 DEF n
      <3>5. QED
        BY <2>5, <3>3, <3>4 DEF q
    <2>8. QED
      BY <2>6, <2>7
  <1>4. QED
    BY <1>2, <1>3 DEF Informing

LEMMA ConnectInformed ==
    ASSUME IInv, Links, Informing, NEW p \in Peers, ConnectAndJoin(p), UNCHANGED <<host, guests>>,
           \A q \in Peers \ {p} : hostOnline'[q] = hostOnline[q] /\ guestCount'[q] = guestCount[q]
    PROVE  Informing'
  <1>1. Informed(p)'
    <2>1. socket'[p] = New(p) /\ New(p) # host[Room] /\ New(p) \notin guests[Room]
      BY NewIs
    <2>2. ~Online(p)'
      BY <2>1 DEF Online, Seated
    <2>3. QED
      BY <2>2 DEF Informed
  <1>2. ASSUME NEW q \in Peers, q # p PROVE Informed(q)'
    <2>1. Untouched(q) /\ hostOnline'[q] = hostOnline[q] /\ guestCount'[q] = guestCount[q]
      BY <1>2, ConnectOthers
    <2>2. QED
      BY <2>1, SameInformed DEF Informing, Untouched, Live
  <1>3. QED
    BY <1>1, <1>2 DEF Informing

LEMMA StartInformed ==
    ASSUME IInv, Links, Informing, StartHostSession
    PROVE  Informing'
  <1>1. Host \in Peers /\ hostOnline \in [Peers -> BOOLEAN] /\ guestCount \in [Peers -> Nat]
    BY DEF Peers, IInv, SessionOK
  <1>2. /\ ConnectAndJoin(Host) /\ UNCHANGED <<host, guests>>
        /\ hostOnline' = [hostOnline EXCEPT ![Host] = TRUE]
        /\ guestCount' = [guestCount EXCEPT ![Host] = 0]
    BY DEF StartHostSession
  <1>3. \A q \in Peers \ {Host} : hostOnline'[q] = hostOnline[q] /\ guestCount'[q] = guestCount[q]
    BY <1>1, <1>2
  <1>4. QED
    BY <1>1, <1>2, <1>3, ConnectInformed

LEMMA JoinSessionInformed ==
    ASSUME IInv, Links, Informing, NEW g \in Guests, JoinSession(g)
    PROVE  Informing'
  <1>1. g \in Peers /\ hostOnline \in [Peers -> BOOLEAN] /\ guestCount \in [Peers -> Nat]
    BY DEF Peers, IInv, SessionOK
  <1>2. /\ ConnectAndJoin(g) /\ UNCHANGED <<host, guests>>
        /\ hostOnline' = [hostOnline EXCEPT ![g] = FALSE]
        /\ guestCount' = [guestCount EXCEPT ![g] = 0]
    BY DEF JoinSession, server
  <1>3. \A q \in Peers \ {g} : hostOnline'[q] = hostOnline[q] /\ guestCount'[q] = guestCount[q]
    BY <1>1, <1>2
  <1>4. QED
    BY <1>1, <1>2, <1>3, ConnectInformed

LEMMA LeaveInformed ==
    ASSUME IInv, Links, Informing, NEW g \in Guests, LeaveSession(g)
    PROVE  Informing'
  <1>1. g \in Peers
    BY DEF Peers
  <1>2. UNCHANGED <<host, guests>> /\ socket'[g] = NoSocket
    BY <1>1 DEF LeaveSession, server, IInv, ClientOK
  <1>3. Informed(g)'
    BY <1>2 DEF Informed, Online
  <1>4. ASSUME NEW q \in Peers, q # g PROVE Informed(q)'
    <2>1. Untouched(q) /\ hostOnline'[q] = hostOnline[q] /\ guestCount'[q] = guestCount[q]
      BY <1>4, LeaveOthers
    <2>2. QED
      BY <1>2, <2>1, SameInformed DEF Informing, Untouched, Live
  <1>5. QED
    BY <1>3, <1>4 DEF Informing

\* What a user or the clock does tells nobody who is there.
LEMMA UserKeeps ==
    ASSUME \/ Heartbeat
           \/ \E f \in Sources \cup Urls : SetLocalFileInfo(f)
           \/ \E u \in Urls : ShareOpenUrl(u)
           \/ \E p \in Peers, cmd \in Commands : UserCommand(p, cmd)
    PROVE  UNCHANGED <<wire, down, host, guests, peers, generation, socket, joined, pendingJoin,
                       stale, hostOnline, guestCount, reconnectPending, inSession,
                       sessionActive, lastRemoteSeq, remoteSource>>
  BY DEF Heartbeat, SetLocalFileInfo, ShareOpenUrl, UserCommand, server, roster, guestData

LEMMA WireInformed ==
    ASSUME IInv, Links, Informing, NEW s \in Sockets, Open(s) \/ Refuse(s) \/ Drop(s)
    PROVE  Informing'
  <1>1. /\ UNCHANGED <<host, guests, peers, socket, stale, hostOnline, guestCount>>
        /\ wire \in [Sockets -> WireStates] /\ down \in [Sockets -> Seq(Frames)]
    BY QueuesTyped DEF Open, Refuse, Drop, server, client, session, roster, IInv
  <1>2. /\ \A x \in Sockets \ {s} : wire'[x] = wire[x] /\ down'[x] = down[x]
        /\ wire'[s] = "up" => wire[s] = "connecting"
    BY <1>1 DEF Open, Refuse, Drop, WireOpen, WireRefuse, WireDrop, Broken
  <1>3. wire[s] = "connecting" => ~Seated(s)
    <2>1. SocketOK(s)
      BY DEF Links
    <2>2. wire[s] = "connecting" => peers[s].role = "absent"
      BY <2>1 DEF SocketOK, StreamOK
    <2>3. QED
      BY <2>2, SeatRole, SocketIs DEF Roles
  <1>4. ASSUME NEW p \in Peers PROVE Informed(p)'
    <2>1. CASE socket[p] = s
      <3>1. ~Online(p)'
        BY <1>1, <1>2, <1>3, <2>1 DEF Online, Seated, Live
      <3>2. QED
        BY <3>1 DEF Informed
    <2>2. CASE socket[p] # s
      <3>1. socket[p] # NoSocket => socket[p] \in Sockets \ {s}
        BY <2>2, SenderIs
      <3>2. QED
        BY <1>1, <1>2, <3>1, SameInformed DEF Informing, Live
    <2>3. QED
      BY <2>1, <2>2
  <1>5. QED
    BY <1>4 DEF Informing

LEMMA NextInformed ==
    ASSUME IInv, Links, Links', Informing, [Next]_vars
    PROVE  Informing'
  <1>1. CASE StartHostSession
    BY <1>1, StartInformed
  <1>2. CASE \/ Heartbeat
             \/ \E f \in Sources \cup Urls : SetLocalFileInfo(f)
             \/ \E u \in Urls : ShareOpenUrl(u)
             \/ \E p \in Peers, cmd \in Commands : UserCommand(p, cmd)
    <2>1. UNCHANGED <<wire, down, host, guests, socket, stale, hostOnline, guestCount>>
      BY <1>2, UserKeeps
    <2>2. QED
      BY <2>1, SameInformed DEF Informing, Live
  <1>3. CASE \E g \in Guests : JoinSession(g) \/ LeaveSession(g)
    BY <1>3, JoinSessionInformed, LeaveInformed
  <1>4. CASE \E p \in Peers : HandleEvent(p) \/ Reconnect(p)
    <2>1. PICK p \in Peers : HandleEvent(p) \/ Reconnect(p)
      BY <1>4
    <2>2. CASE HandleEvent(p)
      BY <2>2, EventInformed
    <2>3. CASE Reconnect(p)
      <3>1. /\ ConnectAndJoin(p) /\ UNCHANGED <<host, guests, hostOnline, guestCount>>
        BY <2>3 DEF Reconnect, server, session, roster
      <3>2. QED
        BY <3>1, ConnectInformed
    <2>4. QED
      BY <2>1, <2>2, <2>3
  <1>5. CASE \E s \in Sockets : ServerStep(s) \/ Open(s) \/ Refuse(s) \/ Drop(s)
    BY <1>5, ServerInformed, WireInformed
  <1>6. CASE UNCHANGED vars
    <2>1. UNCHANGED <<wire, down, host, guests, socket, stale, hostOnline, guestCount>>
      BY <1>6 DEF vars, net, server, client, session, roster
    <2>2. QED
      BY <2>1, SameInformed DEF Informing, Live
  <1>7. QED
    BY <1>1, <1>2, <1>3, <1>4, <1>5, <1>6 DEF Next

LEMMA InformingHolds == Spec => []Informing
  <1>1. Init => Informing
    BY DEF Init, Informing, Informed, Online
  <1>2. IInv /\ Links /\ Links' /\ Informing /\ [Next]_vars => Informing'
    BY NextInformed
  <1>3. QED
    BY <1>1, <1>2, Invariance, LinksHold, PTL DEF Spec

----------------------------------------------------------------------------
(* Who comes back.                                                         *)

\* Nobody both loses connections and leaves: a callback about the end of a
\* connection given up would otherwise be taken for the end of the next one.
Apart == MayDrop \cap MayLeave = {}

ClosedLast(q) == \A i \in 1 .. Len(q) : q[i].type = "closed" => i = Len(q)

\* The callback about the end of a connection comes last, and after the end.
Arrivals(s) ==
    /\ ClosedLast(down[s])
    /\ wire[s] # "down" \/ s[1] \in MayLeave => ~Has(down[s], "closed")

Rejoining(p) ==
    /\ socket[p] # NoSocket /\ wire[socket[p]] # "down" /\ ~pendingJoin[p] => joined[p]
    /\ p \in MayLeave => ~Has(stale[p], "closed")
    /\ p \notin MayLeave =>
          /\ stale[p] = <<>>
          /\ socket[p] = NoSocket => generation[p] = 0
          /\ reconnectPending[p] => /\ socket[p] # NoSocket /\ wire[socket[p]] = "down"
                                    /\ down[socket[p]] = <<>>

Comebacks == (\A s \in Sockets : Arrivals(s)) /\ (\A p \in Peers : Rejoining(p))

LEMMA ClosedLastTail ==
    ASSUME NEW F, NEW q \in Seq(F), q # <<>>, ClosedLast(q)
    PROVE  ClosedLast(Tail(q)) /\ (Head(q).type = "closed" => Tail(q) = <<>>)
  <1>1. ASSUME NEW i \in 1 .. Len(Tail(q)), Tail(q)[i].type = "closed" PROVE i = Len(Tail(q))
    <2>1. i + 1 \in 1 .. Len(q) /\ q[i + 1].type = "closed" /\ Len(Tail(q)) = Len(q) - 1
          /\ Len(q) \in Nat
      BY <1>1, TailRead
    <2>2. i + 1 = Len(q)
      BY <2>1 DEF ClosedLast
    <2>3. i \in Int /\ Len(Tail(q)) \in Int
      BY <2>1
    <2>4. Len(Tail(q)) + 1 = Len(q)
      BY <2>1
    <2>5. QED
      BY <2>2, <2>3, <2>4
  <1>2. Head(q).type = "closed" => Tail(q) = <<>>
    <2>1. 1 \in 1 .. Len(q) /\ q[1] = Head(q) /\ (Tail(q) = <<>> <=> Len(q) = 1)
      BY TailRead
    <2>2. QED
      BY <2>1 DEF ClosedLast
  <1>3. QED
    BY <1>1, <1>2 DEF ClosedLast

LEMMA ClosedLastAppend ==
    ASSUME NEW F, NEW q \in Seq(F), NEW m \in F, ~Has(q, "closed")
    PROVE  ClosedLast(Append(q, m))
  <1>1. \A i \in 1 .. Len(Append(q, m)) : i \in 1 .. Len(q) \/ i = Len(Append(q, m))
    BY AppendRead
  <1>2. \A i \in 1 .. Len(q) : Append(q, m)[i].type # "closed"
    BY AppendRead DEF Has
  <1>3. QED
    BY <1>1, <1>2 DEF ClosedLast

LEMMA ClosedLastNone ==
    ASSUME NEW q, ~Has(q, "closed")
    PROVE  ClosedLast(q)
  BY DEF ClosedLast, Has

----------------------------------------------------------------------------
(* What becomes of the queue to a client.                                  *)

LEMMA JoinDown ==
    ASSUME IInv, Links, NEW s \in Sockets, OnJoin(s), NEW x \in Sockets
    PROVE  \/ wire'[x] = wire[x] /\ down'[x] = down[x]
           \/ /\ wire'[x] = wire[x] /\ wire[x] = "up"
              /\ \E m \in Frames : m.type = "peer_update" /\ down'[x] = Append(down[x], m)
           \/ /\ x[1] = Host /\ wire[x] = "up" /\ wire'[x] = "down" /\ s[1] = Host
              /\ down'[x] = Append(down[x], Closed)
  <1>1. /\ host' = [host EXCEPT ![Room] = IF s[1] = Host THEN s ELSE @]
        /\ guests' = [guests EXCEPT ![Room] = IF s[1] = Host THEN @ ELSE @ \cup {s}]
        /\ wire' = [y \in Sockets |-> IF y \in Ended(s) THEN "down" ELSE wire[y]]
        /\ down' = [y \in Sockets |-> IF y \in Ended(s) THEN Append(down[y], Closed)
                                      ELSE PeerUpdateSent(host'[Room], guests'[Room])[y]]
    BY JoinIs
  <1>2. guests'[Room] \in SUBSET Sockets
    BY <1>1, ValuesAssumption DEF IInv, ServerTypeOK, Room
  <1>3. CASE x \in Ended(s)
    <2>1. x = host[Room] /\ wire[x] = "up" /\ s[1] = Host
      BY <1>3 DEF Ended, Live
    <2>2. RoleOf(x) = "host"
      <3>1. Seated(x) /\ peers[x].role = "host"
        BY <2>1 DEF Seated, Links, Seats
      <3>2. QED
        BY <3>1, SeatRole
    <2>3. x[1] = Host
      BY <2>2 DEF RoleOf
    <2>4. QED
      BY <1>1, <1>3, <2>1, <2>3
  <1>4. CASE x \notin Ended(s)
    <2>1. wire'[x] = wire[x] /\ down'[x] = PeerUpdateSent(host'[Room], guests'[Room])[x]
      BY <1>1, <1>4
    <2>2. \A b \in BOOLEAN : /\ PeerUpdate(b, Cardinality(guests'[Room])) \in Frames
                             /\ PeerUpdate(b, Cardinality(guests'[Room])).type = "peer_update"
      BY <1>2, CountOfGuests DEF PeerUpdate, Frames
    <2>3. QED
      BY <2>1, <2>2 DEF PeerUpdateSent, Live
  <1>5. QED
    BY <1>3, <1>4

LEMMA EndDown ==
    ASSUME IInv, Links, NEW s \in Sockets, OnSocketDisconnected(s), NEW x \in Sockets
    PROVE  /\ wire'[x] = wire[x]
           /\ \/ down'[x] = down[x]
              \/ /\ wire[x] = "up"
                 /\ \E m \in Frames : m.type = "peer_update" /\ down'[x] = Append(down[x], m)
  <1>1. /\ guests'[Room] = guests[Room] \ {s}
        /\ down' = PeerUpdateSent(host'[Room], guests'[Room]) \/ down' = down
    BY EndIs
  <1>2. guests'[Room] \in SUBSET Sockets /\ wire' = wire
    BY <1>1, ValuesAssumption DEF IInv, ServerTypeOK, Room, OnSocketDisconnected
  <1>3. \A b \in BOOLEAN : /\ PeerUpdate(b, Cardinality(guests'[Room])) \in Frames
                           /\ PeerUpdate(b, Cardinality(guests'[Room])).type = "peer_update"
    BY <1>2, CountOfGuests DEF PeerUpdate, Frames
  <1>4. QED
    BY <1>1, <1>2, <1>3 DEF PeerUpdateSent, Live

LEMMA RelayDown ==
    ASSUME IInv, Links, NEW s \in Sockets, OnRelay(s), NEW x \in Sockets
    PROVE  /\ wire'[x] = wire[x]
           /\ \/ down'[x] = down[x]
              \/ /\ wire[x] = "up" /\ Head(up[s]) \in Frames
                 /\ down'[x] = Append(down[x], Head(up[s]))
  <1>1. /\ wire' = wire /\ down' = SentTo(Recipients(s, Head(up[s]).type), Head(up[s]))
        /\ up \in [Sockets -> Seq(Frames)]
    BY QueuesTyped DEF OnRelay
  <1>2. up[s] # <<>> /\ Head(up[s]) \in Frames
    BY <1>1, RelayIs, TailRead
  <1>3. QED
    BY <1>1, <1>2 DEF SentTo, Live

LEMMA ServerDown ==
    ASSUME IInv, Links, NEW s \in Sockets, ServerStep(s), NEW x \in Sockets
    PROVE  \/ wire'[x] = wire[x] /\ down'[x] = down[x]
           \/ /\ wire'[x] = wire[x] /\ wire[x] = "up"
              /\ \E m \in Frames : m.type # "closed" /\ down'[x] = Append(down[x], m)
           \/ /\ x[1] = Host /\ wire[x] = "up" /\ wire'[x] = "down"
              /\ down'[x] = Append(down[x], Closed)
  <1>1. CASE OnClientConnected(s)
    BY <1>1 DEF OnClientConnected
  <1>2. CASE OnJoin(s)
    BY <1>2, JoinDown
  <1>3. CASE OnSocketDisconnected(s)
    BY <1>3, EndDown
  <1>4. CASE OnRelay(s)
    <2>1. Head(up[s]).type \in UpTypes(s) /\ Head(up[s]).type \notin Special
      BY <1>4, RelayIs
    <2>2. Head(up[s]).type # "closed"
      BY <2>1 DEF Special
    <2>3. QED
      BY <1>4, <2>2, RelayDown
  <1>5. QED
    BY <1>1, <1>2, <1>3, <1>4, NoPing DEF ServerStep, ServerTask, OnTextMessage

\* Nothing arrives any more once a connection is down, and what does arrive is
\* in order.
LEMMA ServerArrivals ==
    ASSUME IInv, Links, NEW s \in Sockets, ServerStep(s), NEW x \in Sockets, Arrivals(x)
    PROVE  /\ Arrivals(x)'
           /\ wire[x] = "down" => wire'[x] = "down" /\ down'[x] = down[x]
           /\ wire'[x] # "down" => wire[x] # "down"
  <1>1. down[x] \in Seq(Frames) /\ Host \notin MayLeave
    BY QueuesTyped, ValuesAssumption, PeersAssumption
  <1>2. \/ wire'[x] = wire[x] /\ down'[x] = down[x]
        \/ /\ wire'[x] = wire[x] /\ wire[x] = "up"
           /\ \E m \in Frames : m.type # "closed" /\ down'[x] = Append(down[x], m)
        \/ /\ x[1] = Host /\ wire[x] = "up" /\ wire'[x] = "down"
           /\ down'[x] = Append(down[x], Closed)
    BY ServerDown
  <1>3. CASE wire'[x] = wire[x] /\ down'[x] = down[x]
    BY <1>3 DEF Arrivals, ClosedLast, Has
  <1>4. CASE /\ wire'[x] = wire[x] /\ wire[x] = "up"
             /\ \E m \in Frames : m.type # "closed" /\ down'[x] = Append(down[x], m)
    <2>1. PICK m \in Frames : m.type # "closed" /\ down'[x] = Append(down[x], m)
      BY <1>4
    <2>2. ~Has(down[x], "closed")
      BY <1>4 DEF Arrivals
    <2>3. ClosedLast(down'[x]) /\ ~Has(down'[x], "closed")
      BY <1>1, <2>1, <2>2, ClosedLastAppend, HasAppend
    <2>4. QED
      BY <1>4, <2>3 DEF Arrivals
  <1>5. CASE /\ x[1] = Host /\ wire[x] = "up" /\ wire'[x] = "down"
             /\ down'[x] = Append(down[x], Closed)
    <2>1. ~Has(down[x], "closed") /\ Closed \in Frames
      BY <1>5 DEF Arrivals, Closed, Frames
    <2>2. ClosedLast(down'[x])
      BY <1>1, <1>5, <2>1, ClosedLastAppend
    <2>3. QED
      BY <1>1, <1>5, <2>2 DEF Arrivals
  <1>6. QED
    BY <1>2, <1>3, <1>4, <1>5

LEMMA SameArrivals ==
    ASSUME NEW x, Arrivals(x), down'[x] = down[x], wire'[x] # "down" => wire[x] # "down"
    PROVE  Arrivals(x)'
  BY DEF Arrivals, ClosedLast, Has

LEMMA OpenedArrivals ==
    ASSUME NEW x, down'[x] = <<>> \/ down'[x] = <<Opened>>
    PROVE  Arrivals(x)'
  <1>1. CASE down'[x] = <<>>
    BY <1>1 DEF Arrivals, ClosedLast, Has
  <1>2. CASE down'[x] = <<Opened>>
    <2>1. Opened.type # "closed" /\ Opened \in Frames
      BY DEF Opened, Frames
    <2>2. ~Has(<<Opened>>, "closed")
      BY <2>1 DEF Has
    <2>3. QED
      BY <1>2, <2>2, ClosedLastNone DEF Arrivals
  <1>3. QED
    BY <1>1, <1>2

LEMMA SameRejoining ==
    ASSUME NEW p, Rejoining(p), socket'[p] = socket[p], generation'[p] = generation[p],
           pendingJoin'[p] = pendingJoin[p], joined'[p] = joined[p], stale'[p] = stale[p],
           reconnectPending'[p] = reconnectPending[p],
           socket[p] # NoSocket =>
              /\ wire'[socket[p]] # "down" => wire[socket[p]] # "down"
              /\ wire[socket[p]] = "down" =>
                    wire'[socket[p]] = "down" /\ down'[socket[p]] = down[socket[p]]
    PROVE  Rejoining(p)'
  BY DEF Rejoining

LEMMA ServerComebacks ==
    ASSUME IInv, Links, Comebacks, NEW s \in Sockets, ServerStep(s)
    PROVE  Comebacks'
  <1>1. ASSUME NEW x \in Sockets
        PROVE  /\ Arrivals(x)'
               /\ wire[x] = "down" => wire'[x] = "down" /\ down'[x] = down[x]
               /\ wire'[x] # "down" => wire[x] # "down"
    BY ServerArrivals DEF Comebacks
  <1>2. UNCHANGED client
    BY DEF ServerStep
  <1>3. ASSUME NEW p \in Peers PROVE Rejoining(p)'
    <2>1. socket[p] # NoSocket => socket[p] \in Sockets
      BY DEF IInv, ClientOK
    <2>2. QED
      BY <1>1, <1>2, <2>1, SameRejoining DEF Comebacks, client
  <1>4. QED
    BY <1>1, <1>3 DEF Comebacks

\* The connection of whoever has lost it is not joined any more.
LEMMA EventComebacks ==
    ASSUME IInv, Links, Comebacks, NEW p \in Peers, HandleEvent(p)
    PROVE  Comebacks'
  <1>1. /\ Queue(p) # <<>> /\ Dequeue(p) /\ UNCHANGED <<wire, generation, socket>>
        /\ down \in [Sockets -> Seq(Frames)] /\ stale \in [Peers -> Seq(Frames)]
        /\ joined \in [Peers -> BOOLEAN] /\ pendingJoin \in [Peers -> BOOLEAN]
        /\ reconnectPending \in [Peers -> BOOLEAN] /\ socket \in [Peers -> Sockets \cup {NoSocket}]
    BY EventKeeps, QueuesTyped DEF HandleEvent, IInv, ClientOK
  <1>2. ASSUME NEW x \in Sockets
        PROVE  /\ Arrivals(x)'
               /\ down[x] = <<>> => down'[x] = <<>>
    <2>1. CASE down'[x] = down[x]
      BY <1>1, <2>1, SameArrivals DEF Comebacks
    <2>2. CASE down'[x] # down[x]
      <3>1. x = socket[p] /\ stale[p] = <<>> /\ down'[x] = Tail(down[x])
        BY <1>1, <2>2 DEF Dequeue
      <3>2. down[x] # <<>> /\ down[x] \in Seq(Frames)
        BY <1>1, <3>1, SocketsAssumption DEF Queue
      <3>3. ClosedLast(down'[x])
        BY <3>1, <3>2, ClosedLastTail DEF Comebacks, Arrivals
      <3>4. Has(down'[x], "closed") => Has(down[x], "closed")
        BY <3>1, <3>2, HasTail
      <3>5. QED
        BY <1>1, <3>2, <3>3, <3>4 DEF Comebacks, Arrivals
    <2>3. QED
      BY <2>1, <2>2
  <1>3. ASSUME NEW q \in Peers, q # p PROVE Rejoining(q)'
    <2>1. /\ joined'[q] = joined[q] /\ pendingJoin'[q] = pendingJoin[q]
          /\ reconnectPending'[q] = reconnectPending[q]
      BY <1>1, <1>3 DEF HandleEvent, OnConnected, OnDisconnected, OnPeerUpdate, OnState, OnFile,
                       OnOpenUrl, OnIntent
    <2>2. stale'[q] = stale[q] /\ (socket[q] # NoSocket => down'[socket[q]] = down[socket[q]])
      BY <1>1, <1>3, DequeueOthers DEF Dequeue
    <2>3. QED
      BY <1>1, <2>1, <2>2, SameRejoining DEF Comebacks
  <1>4. Rejoining(p)'
    <2> DEFINE s == socket[p]
    <2>1. Rejoining(p) /\ s \in Sockets \cup {NoSocket}
      BY <1>1 DEF Comebacks
    <2>2. CASE OnDisconnected(p)
      <3>1. /\ pendingJoin' = pendingJoin /\ Event(p).type = "closed"
            /\ joined' = [joined EXCEPT ![p] = FALSE]
        BY <2>2 DEF OnDisconnected
      <3>2. stale[p] # <<>> => Has(stale[p], "closed")
        <4>1. stale[p] # <<>> => Event(p) = Head(stale[p])
          BY DEF Event, Queue
        <4>2. stale[p] \in Seq(Frames)
          BY <1>1
        <4>3. QED
          BY <3>1, <4>1, <4>2, HasTail
      <3>3. stale[p] = <<>>
        BY <2>1, <3>2 DEF Rejoining
      <3>4. /\ s \in Sockets /\ down[s] # <<>> /\ Event(p) = Head(down[s])
            /\ stale' = stale /\ down' = [down EXCEPT ![s] = Tail(@)]
        BY <1>1, <3>3 DEF Event, Queue, Dequeue
      <3>5. down[s] \in Seq(Frames) /\ Arrivals(s) /\ down'[s] = Tail(down[s])
        BY <1>1, <3>4 DEF Comebacks
      <3>6. Has(down[s], "closed")
        BY <3>1, <3>4, <3>5, HasTail
      <3>7. wire[s] = "down" /\ p \notin MayLeave
        <4>1. s[1] = p
          BY <3>4, SenderIs, SocketsAssumption
        <4>2. QED
          BY <3>5, <3>6, <4>1 DEF Arrivals
      <3>8. down'[s] = <<>>
        BY <3>1, <3>4, <3>5, ClosedLastTail DEF Arrivals
      <3>9. QED
        BY <1>1, <2>1, <3>3, <3>4, <3>7, <3>8, SocketsAssumption DEF Rejoining
    <2>3. CASE ~OnDisconnected(p)
      <3>1. /\ joined[p] => joined'[p]
            /\ pendingJoin[p] /\ ~pendingJoin'[p] => joined'[p]
            /\ reconnectPending'[p] => reconnectPending[p]
        BY <1>1, <2>3 DEF HandleEvent, OnConnected, OnPeerUpdate, OnState, OnFile,
                         OnOpenUrl, OnIntent
      <3>2. stale'[p] \in {stale[p], Tail(stale[p])} /\ (stale[p] = <<>> => stale'[p] = <<>>)
        BY <1>1 DEF Dequeue
      <3>3. Has(stale'[p], "closed") => Has(stale[p], "closed")
        <4>1. CASE stale[p] = <<>>
          BY <3>2, <4>1
        <4>2. CASE stale[p] # <<>>
          <5>1. stale[p] \in Seq(Frames)
            BY <1>1
          <5>2. Has(Tail(stale[p]), "closed") => Has(stale[p], "closed")
            BY <4>2, <5>1, HasTail
          <5>3. QED
            BY <3>2, <5>2
        <4>3. QED
          BY <4>1, <4>2
      <3>4. s # NoSocket /\ down[s] = <<>> => down'[s] = <<>>
        BY <1>2, <2>1
      <3>5. QED
        BY <1>1, <2>1, <3>1, <3>2, <3>3, <3>4 DEF Rejoining
    <2>4. QED
      BY <2>2, <2>3
  <1>5. QED
    BY <1>2, <1>3, <1>4 DEF Comebacks

\* What is left over from a connection given up: nothing, when it was down and
\* all its callbacks had run.
LEMMA ConnectComebacks ==
    ASSUME IInv, Links, Comebacks, NEW p \in Peers, ConnectAndJoin(p),
           \A q \in Peers \ {p} : reconnectPending'[q] = reconnectPending[q],
           \/ p \in MayLeave
           \/ socket[p] = NoSocket /\ (reconnectPending'[p] => reconnectPending[p])
           \/ reconnectPending[p] /\ ~reconnectPending'[p]
    PROVE  Comebacks'
  <1> DEFINE new == New(p)
             old == socket[p]
  <1>1. PICK early \in BOOLEAN :
             /\ wire' = [s \in Sockets |->
                   IF s = new THEN (IF early THEN "up" ELSE "connecting")
                   ELSE IF s = old THEN "down" ELSE wire[s]]
             /\ up' = [s \in Sockets |->
                   IF s = new /\ early
                   THEN <<Accepted, JoinFrame(p)>> \o pendingOutgoing[p]
                   ELSE IF s = old /\ Live(s) THEN Append(up[s], Closed)
                   ELSE up[s]]
             /\ down' = [s \in Sockets |->
                   IF s = new /\ early THEN <<Opened>>
                   ELSE IF s = old THEN <<>> ELSE down[s]]
             /\ joined' = [joined EXCEPT ![p] = early]
             /\ pendingJoin' = [pendingJoin EXCEPT ![p] = ~early]
             /\ inSession' = [inSession EXCEPT ![p] = @ \/ early]
             /\ autoRejoin' = [autoRejoin EXCEPT ![p] = @ \/ early]
             /\ pendingOutgoing' = IF early THEN [pendingOutgoing EXCEPT ![p] = <<>>]
                                   ELSE pendingOutgoing
    BY DEF ConnectAndJoin, New
  <1>2. /\ joined \in [Peers -> BOOLEAN] /\ pendingJoin \in [Peers -> BOOLEAN]
        /\ down \in [Sockets -> Seq(Frames)] /\ stale \in [Peers -> Seq(Frames)]
        /\ reconnectPending \in [Peers -> BOOLEAN] /\ old \in Sockets \cup {NoSocket}
    BY QueuesTyped DEF IInv, ClientOK
  <1>3. /\ new \in Sockets /\ new # NoSocket /\ socket'[p] = new /\ new # old
        /\ wire[new] = "idle" /\ generation'[p] = generation[p] + 1
    BY NewIs, SocketsAssumption
  <1> HIDE DEF new
  <1>4. ASSUME NEW x \in Sockets PROVE Arrivals(x)'
    <2>1. CASE x # new /\ x # old
      <3>1. wire'[x] = wire[x] /\ down'[x] = down[x]
        BY <1>1, <2>1
      <3>2. QED
        BY <3>1, SameArrivals DEF Comebacks
    <2>2. CASE x = old /\ x # new
      <3>1. down'[x] = <<>>
        BY <1>1, <2>2
      <3>2. QED
        BY <3>1, OpenedArrivals
    <2>3. CASE x = new
      <3>1. down'[x] = <<Opened>> \/ (down'[x] = down[x] /\ wire[x] # "down")
        BY <1>1, <1>3, <2>3
      <3>2. QED
        BY <3>1, OpenedArrivals, SameArrivals DEF Comebacks
    <2>4. QED
      BY <2>1, <2>2, <2>3
  <1>5. ASSUME NEW q \in Peers, q # p PROVE Rejoining(q)'
    <2>1. Untouched(q) /\ reconnectPending'[q] = reconnectPending[q] /\ Rejoining(q)
      BY <1>5, ConnectOthers DEF Comebacks
    <2>2. QED
      BY <2>1, SameRejoining DEF Untouched
  <1>6. Rejoining(p)'
    <2>1. Rejoining(p)
      BY DEF Comebacks
    <2>2. ~pendingJoin'[p] => joined'[p]
      BY <1>1, <1>2
    <2>3. old = NoSocket => stale'[p] = stale[p]
      BY DEF ConnectAndJoin
    <2>4. old # NoSocket => \E i \in 0 .. Len(down[old]) :
                               stale'[p] = stale[p] \o SubSeq(down[old], 1, i)
      <3>1. SUFFICES ASSUME old # NoSocket
                     PROVE  \E i \in 0 .. Len(down[old]) :
                               stale'[p] = stale[p] \o SubSeq(down[old], 1, i)
        OBVIOUS
      <3>2. PICK i \in 0 .. Len(down[old]) :
                    stale' = [stale EXCEPT ![p] = @ \o SubSeq(down[old], 1, i)]
        BY <3>1 DEF ConnectAndJoin
      <3>3. stale'[p] = stale[p] \o SubSeq(down[old], 1, i)
        BY <1>2, <3>2
      <3>4. QED
        BY <3>3
    <2>5. CASE p \in MayLeave
      <3>1. ~Has(stale'[p], "closed")
        <4>1. CASE old = NoSocket
          BY <2>1, <2>3, <2>5, <4>1 DEF Rejoining
        <4>2. CASE old # NoSocket
          <5>1. PICK i \in 0 .. Len(down[old]) : stale'[p] = stale[p] \o SubSeq(down[old], 1, i)
            BY <2>4, <4>2
          <5>2. old \in Sockets /\ old[1] = p /\ down[old] \in Seq(Frames) /\ stale[p] \in Seq(Frames)
            BY <1>2, <4>2, SenderIs
          <5>3. ~Has(down[old], "closed")
            BY <2>5, <5>2 DEF Comebacks, Arrivals
          <5>4. SubSeq(down[old], 1, i) \in Seq(Frames) /\ ~Has(SubSeq(down[old], 1, i), "closed")
            BY <5>2, <5>3, HasPrefix, PrefixOfSeq
          <5>5. ~Has(stale[p], "closed")
            BY <2>1, <2>5 DEF Rejoining
          <5> DEFINE r == SubSeq(down[old], 1, i)
          <5>6. r \in Seq(Frames) /\ ~Has(r, "closed") /\ stale'[p] = stale[p] \o r
            BY <5>1, <5>4
          <5> HIDE DEF r
          <5>7. QED
            BY <5>2, <5>5, <5>6, HasConcat
        <4>3. QED
          BY <4>1, <4>2
      <3>2. QED
        BY <2>2, <2>5, <3>1 DEF Rejoining
    <2>6. CASE p \notin MayLeave
      <3>1. stale[p] = <<>>
        BY <2>1, <2>6 DEF Rejoining
      <3>2. stale'[p] = <<>>
        <4>1. CASE old = NoSocket
          BY <2>3, <3>1, <4>1
        <4>2. CASE old # NoSocket
          <5>1. down[old] = <<>>
            BY <2>1, <2>6, <4>2 DEF Rejoining
          <5>2. PICK i \in 0 .. Len(down[old]) : stale'[p] = stale[p] \o SubSeq(down[old], 1, i)
            BY <2>4, <4>2
          <5>3. down[old] \in Seq(Frames)
            BY <1>2, <4>2
          <5>4. SubSeq(down[old], 1, i) = <<>>
            <6>1. i = 0
              BY <5>1, <5>2
            <6>2. SubSeq(down[old], 1, i) \in Seq(Frames) /\ Len(SubSeq(down[old], 1, i)) = 0
              BY <5>3, <6>1, PrefixOfSeq, SubSeqProperties
            <6>3. QED
              BY <6>2, EmptySeq
          <5>5. QED
            BY <3>1, <5>2, <5>4
        <4>3. QED
          BY <4>1, <4>2
      <3>3. ~reconnectPending'[p]
        BY <2>1, <2>6 DEF Rejoining
      <3>4. QED
        BY <1>3, <2>2, <2>6, <3>2, <3>3 DEF Rejoining
    <2>7. QED
      BY <2>5, <2>6
  <1>7. QED
    BY <1>4, <1>5, <1>6 DEF Comebacks

LEMMA StartComebacks ==
    ASSUME IInv, Links, Comebacks, StartHostSession
    PROVE  Comebacks'
  <1>1. /\ ConnectAndJoin(Host) /\ UNCHANGED reconnectPending /\ ~running
    BY DEF StartHostSession
  <1>2. socket[Host] = NoSocket /\ Host \in Peers
    BY <1>1 DEF IInv, NotStarted, Peers
  <1>3. QED
    BY <1>1, <1>2, ConnectComebacks

LEMMA JoinSessionComebacks ==
    ASSUME IInv, Links, Comebacks, NEW g \in Guests, JoinSession(g)
    PROVE  Comebacks'
  <1>1. g \in Peers /\ generation[g] \in Nat
    BY DEF Peers, IInv, ClientOK
  <1>2. /\ ConnectAndJoin(g) /\ UNCHANGED reconnectPending
        /\ g \in MayLeave \/ ~(generation[g] > 0)
    BY DEF JoinSession
  <1>3. g \notin MayLeave => socket[g] = NoSocket
    <2>1. SUFFICES ASSUME g \notin MayLeave, socket[g] # NoSocket PROVE FALSE
      OBVIOUS
    <2>2. generation[g] \in Nat \ {0}
      BY <1>1, <2>1, SenderIs, SocketIs
    <2>3. QED
      BY <1>2, <2>1, <2>2
  <1>4. QED
    BY <1>1, <1>2, <1>3, ConnectComebacks

LEMMA ReconnectComebacks ==
    ASSUME IInv, Links, Comebacks, NEW p \in Peers, Reconnect(p)
    PROVE  Comebacks'
  <1>1. /\ ConnectAndJoin(p) /\ reconnectPending[p]
        /\ reconnectPending' = [reconnectPending EXCEPT ![p] = FALSE]
    BY DEF Reconnect
  <1>2. reconnectPending \in [Peers -> BOOLEAN]
    BY DEF IInv, ClientOK
  <1>3. ~reconnectPending'[p] /\ \A q \in Peers \ {p} : reconnectPending'[q] = reconnectPending[q]
    BY <1>1, <1>2
  <1>4. QED
    BY <1>1, <1>3, ConnectComebacks

LEMMA LeaveComebacks ==
    ASSUME IInv, Links, Comebacks, NEW g \in Guests, LeaveSession(g)
    PROVE  Comebacks'
  <1> DEFINE old == socket[g]
  <1>1. /\ g \in Peers /\ g \in MayLeave
        /\ stale \in [Peers -> Seq(Frames)] /\ down \in [Sockets -> Seq(Frames)]
        /\ socket \in [Peers -> Sockets \cup {NoSocket}]
    BY QueuesTyped DEF Peers, LeaveSession, IInv, ClientOK
  <1>2. /\ wire' = [s \in Sockets |-> IF s = old THEN "down" ELSE wire[s]]
        /\ down' = [s \in Sockets |-> IF s = old THEN <<>> ELSE down[s]]
        /\ socket'[g] = NoSocket
        /\ old = NoSocket => stale' = stale
    BY <1>1 DEF LeaveSession
  <1>3. ASSUME NEW x \in Sockets PROVE Arrivals(x)'
    <2>1. CASE x = old
      <3>1. down'[x] = <<>>
        BY <1>2, <2>1
      <3>2. QED
        BY <3>1, OpenedArrivals
    <2>2. CASE x # old
      <3>1. wire'[x] = wire[x] /\ down'[x] = down[x]
        BY <1>2, <2>2
      <3>2. QED
        BY <3>1, SameArrivals DEF Comebacks
    <2>3. QED
      BY <2>1, <2>2
  <1>4. ASSUME NEW q \in Peers, q # g PROVE Rejoining(q)'
    <2>1. Untouched(q) /\ reconnectPending'[q] = reconnectPending[q] /\ Rejoining(q)
      BY <1>4, LeaveOthers DEF Comebacks
    <2>2. QED
      BY <2>1, SameRejoining DEF Untouched
  <1>5. Rejoining(g)'
    <2>1. ~Has(stale[g], "closed")
      BY <1>1 DEF Comebacks, Rejoining
    <2>2. CASE old = NoSocket
      <3>1. ~Has(stale'[g], "closed")
        BY <1>2, <2>1, <2>2
      <3>2. QED
        BY <1>1, <1>2, <3>1 DEF Rejoining
    <2>3. CASE old # NoSocket
      <3>1. PICK i \in 0 .. Len(down[old]) :
                   stale' = [stale EXCEPT ![g] = @ \o SubSeq(down[old], 1, i)]
        BY <2>3 DEF LeaveSession
      <3>2. old \in Sockets /\ old[1] = g /\ down[old] \in Seq(Frames) /\ stale[g] \in Seq(Frames)
        BY <1>1, <2>3, SenderIs
      <3>3. ~Has(down[old], "closed")
        BY <1>1, <3>2 DEF Comebacks, Arrivals
      <3> DEFINE r == SubSeq(down[old], 1, i)
      <3>4. r \in Seq(Frames) /\ ~Has(r, "closed")
        BY <3>2, <3>3, HasPrefix, PrefixOfSeq
      <3>5. stale'[g] = stale[g] \o r
        BY <1>1, <3>1
      <3> HIDE DEF r
      <3>6. ~Has(stale'[g], "closed")
        BY <2>1, <3>2, <3>4, <3>5, HasConcat
      <3>7. QED
        BY <1>1, <1>2, <3>6 DEF Rejoining
    <2>4. QED
      BY <2>2, <2>3
  <1>6. QED
    BY <1>3, <1>4, <1>5 DEF Comebacks

\* What the network does to connection s.
LEMMA WireArrives ==
    ASSUME IInv, Comebacks, NEW s \in Sockets, Open(s) \/ Refuse(s) \/ Drop(s)
    PROVE  /\ \A x \in Sockets \ {s} : wire'[x] = wire[x] /\ down'[x] = down[x]
           /\ wire[s] # "down"
           /\ wire'[s] # "down" => down'[s] = <<Opened>>
           /\ wire'[s] = "down" => s[1] \in MayDrop /\ ClosedLast(down'[s])
  <1>1. wire \in [Sockets -> WireStates] /\ down \in [Sockets -> Seq(Frames)]
    BY QueuesTyped DEF IInv
  <1>2. CASE Open(s)
    <2>1. /\ wire[s] = "connecting" /\ wire' = [wire EXCEPT ![s] = "up"]
          /\ down' = [down EXCEPT ![s] = <<Opened>>]
      BY <1>2 DEF Open, WireOpen
    <2>2. QED
      BY <1>1, <2>1
  <1>3. CASE Refuse(s)
    <2>1. /\ wire[s] = "connecting" /\ wire' = [wire EXCEPT ![s] = "down"]
          /\ down' = [down EXCEPT ![s] = <<Closed>>] /\ s[1] \in MayDrop
      BY <1>3 DEF Refuse, WireRefuse, MayFail
    <2>2. ClosedLast(<<Closed>>)
      BY DEF ClosedLast
    <2>3. QED
      BY <1>1, <2>1, <2>2
  <1>4. CASE Drop(s)
    <2>1. /\ wire[s] = "up" /\ wire' = [wire EXCEPT ![s] = "down"] /\ s[1] \in MayDrop
      BY <1>4 DEF Drop, WireDrop, Live, MayFail
    <2>2. PICK j \in 0 .. Len(down[s]) :
                 down' = [down EXCEPT ![s] = Append(SubSeq(down[s], 1, j), Closed)]
      BY <1>4 DEF Drop, WireDrop, Broken
    <2> DEFINE r == SubSeq(down[s], 1, j)
    <2>3. down[s] \in Seq(Frames) /\ ~Has(down[s], "closed") /\ Closed \in Frames
      BY <1>1, <2>1 DEF Comebacks, Arrivals, Closed, Frames
    <2>4. r \in Seq(Frames) /\ ~Has(r, "closed")
      BY <2>3, HasPrefix, PrefixOfSeq
    <2>5. down' = [down EXCEPT ![s] = Append(r, Closed)]
      BY <2>2
    <2> HIDE DEF r
    <2>6. ClosedLast(Append(r, Closed))
      BY <2>3, <2>4, ClosedLastAppend
    <2>7. QED
      BY <1>1, <2>1, <2>5, <2>6
  <1>5. QED
    BY <1>2, <1>3, <1>4

LEMMA WireComebacks ==
    ASSUME Apart, IInv, Links, Comebacks, NEW s \in Sockets, Open(s) \/ Refuse(s) \/ Drop(s)
    PROVE  Comebacks'
  <1>1. /\ \A x \in Sockets \ {s} : wire'[x] = wire[x] /\ down'[x] = down[x]
        /\ wire[s] # "down"
        /\ wire'[s] # "down" => down'[s] = <<Opened>>
        /\ wire'[s] = "down" => s[1] \in MayDrop /\ ClosedLast(down'[s])
    BY WireArrives
  <1>2. ASSUME NEW x \in Sockets PROVE Arrivals(x)'
    <2>1. CASE x # s
      BY <1>1, <2>1, SameArrivals DEF Comebacks
    <2>2. CASE x = s /\ wire'[s] # "down"
      BY <1>1, <2>2, OpenedArrivals
    <2>3. CASE x = s /\ wire'[s] = "down"
      BY <1>1, <2>3 DEF Arrivals, Apart
    <2>4. QED
      BY <2>1, <2>2, <2>3
  <1>3. ASSUME NEW p \in Peers PROVE Rejoining(p)'
    <2>1. UNCHANGED <<generation, socket, pendingJoin, joined, stale, reconnectPending>>
      BY DEF Open, Refuse, Drop, client
    <2>2. socket[p] # NoSocket => socket[p] \in Sockets
      BY SenderIs
    <2>3. QED
      BY <1>1, <2>1, <2>2, SameRejoining DEF Comebacks
  <1>4. QED
    BY <1>2, <1>3 DEF Comebacks

LEMMA NextComebacks ==
    ASSUME Apart, IInv, Links, Comebacks, [Next]_vars
    PROVE  Comebacks'
  <1>1. CASE StartHostSession
    BY <1>1, StartComebacks
  <1>2. CASE \/ Heartbeat
             \/ \E f \in Sources \cup Urls : SetLocalFileInfo(f)
             \/ \E u \in Urls : ShareOpenUrl(u)
             \/ \E p \in Peers, cmd \in Commands : UserCommand(p, cmd)
    <2>1. UNCHANGED <<wire, down, generation, socket, pendingJoin, joined, stale,
                      reconnectPending>>
      BY <1>2, UserKeeps
    <2>2. \A s \in Sockets : Arrivals(s)'
      BY <2>1, SameArrivals DEF Comebacks
    <2>3. \A p \in Peers : Rejoining(p)'
      BY <2>1, SameRejoining DEF Comebacks
    <2>4. QED
      BY <2>2, <2>3 DEF Comebacks
  <1>3. CASE \E g \in Guests : JoinSession(g) \/ LeaveSession(g)
    BY <1>3, JoinSessionComebacks, LeaveComebacks
  <1>4. CASE \E p \in Peers : HandleEvent(p) \/ Reconnect(p)
    BY <1>4, EventComebacks, ReconnectComebacks
  <1>5. CASE \E s \in Sockets : ServerStep(s) \/ Open(s) \/ Refuse(s) \/ Drop(s)
    BY <1>5, ServerComebacks, WireComebacks
  <1>6. CASE UNCHANGED vars
    <2>1. UNCHANGED <<wire, down, generation, socket, pendingJoin, joined, stale,
                      reconnectPending>>
      BY <1>6 DEF vars, net, client
    <2>2. \A s \in Sockets : Arrivals(s)'
      BY <2>1, SameArrivals DEF Comebacks
    <2>3. \A p \in Peers : Rejoining(p)'
      BY <2>1, SameRejoining DEF Comebacks
    <2>4. QED
      BY <2>2, <2>3 DEF Comebacks
  <1>7. QED
    BY <1>1, <1>2, <1>3, <1>4, <1>5, <1>6 DEF Next

LEMMA InitComebacks ==
    ASSUME Init
    PROVE  Comebacks
  <1>1. /\ \A s \in Sockets : down[s] = <<>>
        /\ \A p \in Peers : /\ socket[p] = NoSocket /\ stale[p] = <<>> /\ generation[p] = 0
                            /\ ~reconnectPending[p]
    BY DEF Init, NetInit
  <1>2. ~Has(<<>>, "closed") /\ ClosedLast(<<>>)
    BY HasNone, ClosedLastNone
  <1>3. QED
    BY <1>1, <1>2 DEF Comebacks, Arrivals, Rejoining

LEMMA ComebacksHold == Apart /\ Spec => []Comebacks
  <1>1. Init => Comebacks
    BY InitComebacks
  <1>2. Apart /\ IInv /\ Links /\ Comebacks /\ [Next]_vars => Comebacks'
    BY NextComebacks
  <1>3. Apart => []Apart
    <2>1. Apart => Apart'
      BY DEF Apart
    <2>2. QED
      BY <2>1, PTL
  <1>4. QED
    BY <1>1, <1>2, <1>3, Invariance, LinksHold, PTL DEF Spec

\* The settled room: who can send, who has a seat, and who is counted.
LEMMA SettledQueues ==
    ASSUME Settled
    PROVE  /\ \A s \in Sockets : up[s] = <<>> /\ down[s] = <<>>
           /\ \A s \in Sockets, t \in {"join", "peer_update", "file", "state"} :
                 ~Has(up[s], t) /\ ~Has(down[s], t)
           /\ \A p \in Peers : stale[p] = <<>>
  BY HasNone DEF Settled

LEMMA SenderIsOnline ==
    ASSUME IInv, Links, Settled, NEW p \in Peers, CanSend(p)
    PROVE  Online(p)
  <1>1. socket[p] # NoSocket
    BY DEF CanSend, IsConnected
  <1>2. socket[p] \in Sockets /\ Live(socket[p]) /\ JoinSent(socket[p])
    BY <1>1, SenderIs
  <1>3. peers[socket[p]].role \in Roles
    BY <1>2, SettledQueues DEF JoinSent
  <1>4. QED
    BY <1>1, <1>2, <1>3, RoleSeat DEF Online

LEMMA OnlineCanSend ==
    ASSUME IInv, Links, Comebacks, NEW p \in Peers, Online(p)
    PROVE  CanSend(p)
  <1>1. socket[p] # NoSocket /\ Live(socket[p]) /\ Seated(socket[p])
    BY DEF Online
  <1>2. socket[p] \in Sockets
    BY <1>1, SenderIs
  <1>3. JoinSent(socket[p])
    BY <1>1, <1>2, SeatRole, SocketIs DEF JoinSent
  <1>4. ~pendingJoin[p]
    BY <1>3 DEF Links, ClientLinks
  <1>5. joined[p]
    BY <1>1, <1>4 DEF Comebacks, Rejoining, Live
  <1>6. QED
    BY <1>1, <1>5 DEF CanSend, IsConnected

\* A seat is that of a connection that lasts, and of the instance's own.
LEMMA SettledSeat ==
    ASSUME IInv, Links, Settled, NEW s \in Sockets, Seated(s)
    PROVE  s[1] \in Peers /\ s = socket[s[1]] /\ Online(s[1])
  <1>1. SocketOK(s) /\ s[1] \in Peers /\ s[2] \in Nat /\ RoleOf(s) \in Roles
    BY SocketIs DEF Links
  <1>2. peers[s].role = RoleOf(s)
    BY SeatRole
  <1>3. up[s] = <<>>
    BY SettledQueues
  <1>4. wire[s] \in {"idle", "connecting", "up", "down"}
    BY DEF IInv, WireStates
  <1>5. wire[s] = "up"
    BY <1>1, <1>2, <1>3, <1>4 DEF SocketOK, StreamOK, Roles
  <1>6. s = socket[s[1]]
    <2>1. generation[s[1]] \in Nat
      BY <1>1 DEF IInv, ClientOK
    <2>2. QED
      BY <1>1, <1>5, <2>1 DEF SocketOK
  <1>7. QED
    BY <1>1, <1>5, <1>6, SocketsAssumption DEF Online, Live

LEMMA SettledHost ==
    ASSUME IInv, Links, Comebacks, Settled
    PROVE  host[Room] # NoSocket <=> CanSend(Host)
  <1>1. Host \in Peers /\ Room \in Codes
    BY ValuesAssumption DEF Peers, Room
  <1>2. ASSUME host[Room] # NoSocket PROVE CanSend(Host)
    <2>1. host[Room] \in Sockets /\ Seated(host[Room])
      BY <1>1, <1>2 DEF IInv, ServerTypeOK, Seated
    <2>2. peers[host[Room]].role = "host"
      BY <2>1 DEF Links, Seats
    <2>3. host[Room][1] = Host
      BY <2>1, <2>2, SeatRole DEF RoleOf
    <2>4. QED
      BY <1>1, <2>1, <2>3, SettledSeat, OnlineCanSend
  <1>3. ASSUME CanSend(Host) PROVE host[Room] # NoSocket
    <2>1. Online(Host) /\ socket[Host] # NoSocket
      BY <1>1, <1>3, SenderIsOnline DEF CanSend, IsConnected
    <2>2. socket[Host] \in Sockets /\ socket[Host][1] = Host /\ Seated(socket[Host])
      BY <1>1, <2>1, SenderIs DEF Online
    <2>3. socket[Host] = host[Room]
      BY <2>2, HostSeat
    <2>4. QED
      BY <2>1, <2>3
  <1>4. QED
    BY <1>2, <1>3

LEMMA SettledCount ==
    ASSUME IInv, Links, Comebacks, Settled
    PROVE  Cardinality(guests[Room]) = Cardinality({g \in Guests : CanSend(g)})
  <1> DEFINE Here == {g \in Guests : CanSend(g)}
             f == [g \in Here |-> socket[g]]
  <1>1. Room \in Codes /\ guests[Room] \subseteq Sockets
    BY ValuesAssumption DEF Room, IInv, ServerTypeOK
  <1>2. IsFiniteSet(Here)
    BY PeersAssumption, FS_Subset
  <1>3. ASSUME NEW g \in Here PROVE f[g] \in guests[Room] /\ f[g][1] = g
    <2>1. g \in Peers /\ CanSend(g) /\ g # Host
      BY <1>3, PeersAssumption DEF Peers
    <2>2. socket[g] # NoSocket /\ Seated(socket[g])
      BY <2>1, SenderIsOnline DEF Online
    <2>3. socket[g] \in Sockets /\ socket[g][1] = g
      BY <2>1, <2>2, SenderIs
    <2>4. QED
      BY <1>3, <2>1, <2>2, <2>3, GuestSeat
  <1>4. ASSUME NEW s \in guests[Room] PROVE s[1] \in Here /\ f[s[1]] = s
    <2>1. s \in Sockets /\ Seated(s)
      BY <1>1, <1>4 DEF Seated
    <2>2. s[1] \in Peers /\ s = socket[s[1]] /\ Online(s[1])
      BY <2>1, SettledSeat
    <2>3. peers[s].role = "guest"
      BY <1>4, <2>1 DEF Links, Seats
    <2>4. s[1] # Host
      BY <2>1, <2>3, SeatRole DEF RoleOf
    <2>5. s[1] \in Guests /\ CanSend(s[1])
      BY <2>2, <2>4, OnlineCanSend DEF Peers
    <2>6. QED
      BY <2>2, <2>5
  <1>5. f \in [Here -> guests[Room]]
    BY <1>3
  <1>6. \A a, b \in Here : f[a] = f[b] => a = b
    BY <1>3
  <1>7. \A s \in guests[Room] : \E g \in Here : f[g] = s
    BY <1>4
  <1> HIDE DEF f, Here
  <1>8. f \in Bijection(Here, guests[Room])
    BY <1>5, <1>6, <1>7 DEF Bijection, Injection, Surjection, IsInjective
  <1>9. QED
    BY <1>2, <1>8, FS_Bijection DEF ExistsBijection, Here

LEMMA RosterOfSettled ==
    ASSUME IInv, Links, Informing, Comebacks
    PROVE  RosterSettles
  <1>1. SUFFICES ASSUME Settled, NEW p \in Peers, CanSend(p)
                 PROVE  /\ guestCount[p] = Cardinality({g \in Guests : CanSend(g)})
                        /\ hostOnline[p] = CanSend(Host)
    BY DEF RosterSettles
  <1>2. Online(p) /\ socket[p] \in Sockets
    BY <1>1, SenderIsOnline, SenderIs DEF Online
  <1>3. Informed(p) /\ down[socket[p]] = <<>>
    BY <1>1, <1>2, SettledQueues DEF Informing
  <1>4. ~Last(<<>>, "peer_update", Roster(p))
    BY DEF Last
  <1>5. Knows(p)
    BY <1>2, <1>3, <1>4 DEF Informed
  <1>6. /\ hostOnline[p] = (p = Host \/ host[Room] # NoSocket)
        /\ guestCount[p] = Cardinality(guests[Room])
    BY <1>5 DEF Knows, Roster, PeerUpdate
  <1>7. hostOnline[p] = CanSend(Host)
    <2>1. host[Room] # NoSocket <=> CanSend(Host)
      BY <1>1, SettledHost
    <2>2. CanSend(Host) \in BOOLEAN
      BY DEF CanSend, IsConnected, IInv, ClientOK, Peers
    <2>3. QED
      BY <1>1, <1>6, <2>1, <2>2
  <1>8. QED
    BY <1>1, <1>6, <1>7, SettledCount

\* Once everything has arrived, everyone connected knows who is there: who has
\* lost the connection has left the server's room, and who is back is in it.
\* No instance both breaks and is left by its user: see Apart.
THEOREM EveryoneKnowsWhoIsThere == Apart /\ Spec => []RosterSettles
  <1>1. IInv /\ Links /\ Informing /\ Comebacks => RosterSettles
    BY RosterOfSettled
  <1>2. QED
    BY <1>1, Invariance, LinksHold, InformingHolds, ComebacksHold, PTL
=============================================================================
