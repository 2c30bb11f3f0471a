-------------------------------- MODULE InStepProofs -------------------------
(***************************************************************************)
(* For any set of guests, any number of connections and any number of      *)
(* breaks: once everything has arrived, the guests verify their files      *)
(* against the one the host has open (SourceSettles) and play what it      *)
(* plays (InStep).                                                         *)
(*                                                                         *)
(* Over Links and Informing of SessionSyncProofs, Sourcing: for every      *)
(* guest, the host's file is on its way, known, or will be sent again,     *)
(* because the host is about to hear of a newcomer.  Stating: the same of  *)
(* the host's last state. There a guest may not have acted by itself after *)
(* it took the state, so Stating also says that it knows of the host by    *)
(* then; and what is sent again is sent when the count of guests rises, so *)
(* HostFresh says that a host whose first join is not handled yet counts   *)
(* nobody.                                                                 *)
(***************************************************************************)
EXTENDS SessionSyncProofs

----------------------------------------------------------------------------
(* Who is told what the host has open.                                     *)

\* A connection the host has given up still is, or will be, a peer.
Lingers(x) == /\ x[1] = Host /\ x # socket[Host]
              /\ peers[x].role = "host" \/ Has(up[x], "join")
HostBusy == \E x \in Sockets : Lingers(x)

\* The host will hear of a guest, and then send what it has open.
Asks(q) == \E i \in 1 .. Len(q) : q[i].type = "peer_update" /\ q[i].guests > 0
Asked == Has(up[socket[Host]], "join") \/ Asks(down[socket[Host]])

\* Guest g verifies against what the host has open, or will: the host sends it
\* again, or it is on its way with nothing older behind it.
FileComes(g) ==
    \/ HostBusy \/ Asked
    \/ Last(up[socket[Host]], "file", FileFrame(localSource))
    \/ /\ ~Has(up[socket[Host]], "file")
       /\ \/ Last(down[socket[g]], "file", FileFrame(localSource))
          \/ /\ ~Has(down[socket[g]], "file")
             /\ stale[g] = <<>> /\ remoteSource[g] = localSource

Attended(g) == CanSend(Host) /\ Online(g) /\ localSource # NoSource
Sourcing == \A g \in Guests : Attended(g) => FileComes(g)

LEMMA AsksTail ==
    ASSUME NEW F, NEW q \in Seq(F), q # <<>>, Asks(q)
    PROVE  Asks(Tail(q)) \/ (Head(q).type = "peer_update" /\ Head(q).guests > 0)
  <1>1. PICK i \in 1 .. Len(q) : q[i].type = "peer_update" /\ q[i].guests > 0
    BY DEF Asks
  <1>2. i = 1 \/ (i - 1 \in 1 .. Len(Tail(q)) /\ q[i] = Tail(q)[i - 1])
    BY TailRead
  <1>3. Head(q) = q[1]
    BY TailRead
  <1>4. QED
    BY <1>1, <1>2, <1>3 DEF Asks

LEMMA AsksAppend ==
    ASSUME NEW F, NEW q \in Seq(F), NEW m \in F
    PROVE  /\ Asks(q) => Asks(Append(q, m))
           /\ m.type = "peer_update" /\ m.guests > 0 => Asks(Append(q, m))
  <1>1. /\ Len(q) \in Nat /\ Len(Append(q, m)) = Len(q) + 1
        /\ Append(q, m)[Len(q) + 1] = m
        /\ \A i \in 1 .. Len(q) : Append(q, m)[i] = q[i]
    BY AppendRead
  <1>2. Len(q) + 1 \in 1 .. Len(Append(q, m)) /\ 1 .. Len(q) \subseteq 1 .. Len(Append(q, m))
    BY <1>1
  <1>3. QED
    BY <1>1, <1>2 DEF Asks

\* A connected host whose join was handled has the seat.
LEMMA SenderHasSeat ==
    ASSUME IInv, Links, CanSend(Host)
    PROVE  /\ socket[Host] \in Sockets /\ socket[Host] # NoSocket /\ Live(socket[Host])
           /\ socket[Host][1] = Host
           /\ \/ Has(up[socket[Host]], "join")
              \/ socket[Host] = host[Room] /\ peers[socket[Host]].role = "host" /\ Online(Host)
  <1>1. Host \in Peers /\ socket[Host] # NoSocket
    BY DEF Peers, CanSend, IsConnected
  <1>2. /\ socket[Host] \in Sockets /\ Live(socket[Host]) /\ JoinSent(socket[Host])
        /\ socket[Host][1] = Host
    BY <1>1, SenderIs
  <1>3. CASE Has(up[socket[Host]], "join")
    BY <1>1, <1>2, <1>3
  <1>4. CASE peers[socket[Host]].role \in Roles
    <2>1. Seated(socket[Host])
      BY <1>2, <1>4, RoleSeat
    <2>2. socket[Host] = host[Room]
      BY <1>2, <2>1, HostSeat
    <2>3. peers[socket[Host]].role = "host"
      BY <1>2, <2>1, SeatRole DEF RoleOf
    <2>4. QED
      BY <1>1, <1>2, <2>1, <2>2, <2>3 DEF Online
  <1>5. QED
    BY <1>2, <1>3, <1>4 DEF JoinSent

\* A guest with a seat is counted.
LEMMA OnlineGuest ==
    ASSUME IInv, Links, NEW g \in Guests, Online(g)
    PROVE  /\ socket[g] \in Sockets /\ socket[g] # NoSocket /\ socket[g][1] = g /\ g # Host
           /\ Live(socket[g]) /\ socket[g] \in guests[Room] /\ socket[g] # host[Room]
           /\ Cardinality(guests[Room]) \in Nat \ {0} /\ sessionOf[Room] = Room
  <1>1. /\ g \in Peers /\ g # Host /\ Room \in Codes /\ socket[g] # NoSocket /\ Live(socket[g])
        /\ Seated(socket[g])
    BY PeersAssumption, ValuesAssumption DEF Peers, Online, Room
  <1>2. socket[g] \in Sockets /\ socket[g][1] = g
    BY <1>1, SenderIs
  <1>3. socket[g] # host[Room] /\ socket[g] \in guests[Room]
    BY <1>1, <1>2, GuestSeat
  <1>4. guests[Room] \in SUBSET Sockets
    BY <1>1 DEF IInv, ServerTypeOK
  <1>5. IsFiniteSet(guests[Room])
    BY <1>4, SocketsAssumption, FS_Subset
  <1>6. Cardinality(guests[Room]) \in Nat /\ Cardinality(guests[Room]) # 0
    BY <1>3, <1>5, FS_CardinalityType, FS_EmptySet
  <1>7. sessionOf[Room] = Room
    BY <1>3 DEF Links, Seats
  <1>8. QED
    BY <1>1, <1>2, <1>3, <1>6, <1>7

\* While a guest has a seat, a host that can send counts somebody or will hear
\* of it.
LEMMA HostCounts ==
    ASSUME IInv, Links, Informing, NEW g \in Guests, CanSend(Host), Online(g)
    PROVE  Asked \/ (guestCount[Host] > 0 /\ stale[Host] = <<>>)
  <1>1. SUFFICES ASSUME ~Asked PROVE guestCount[Host] > 0 /\ stale[Host] = <<>>
    OBVIOUS
  <1>2. Host \in Peers
    BY DEF Peers
  <1>3. Online(Host)
    BY <1>1, SenderHasSeat DEF Asked
  <1>4. Cardinality(guests[Room]) \in Nat \ {0}
    BY OnlineGuest
  <1>5. Roster(Host).type = "peer_update" /\ Roster(Host).guests > 0
    BY <1>4 DEF Roster, PeerUpdate
  <1>6. ~Last(down[socket[Host]], "peer_update", Roster(Host))
    BY <1>1, <1>5 DEF Last, Asked, Asks
  <1>7. Knows(Host)
    BY <1>2, <1>3, <1>6 DEF Informing, Informed
  <1>8. QED
    BY <1>5, <1>7 DEF Knows

\* Nothing changes that a guest's view of the source rests on.
LEMMA FileKept ==
    ASSUME NEW g \in Guests, FileComes(g), localSource' = localSource,
           socket'[Host] = socket[Host], socket'[g] = socket[g],
           HostBusy => HostBusy', Asked => Asked',
           Last(up[socket[Host]], "file", FileFrame(localSource)) =>
              Last(up'[socket[Host]], "file", FileFrame(localSource)),
           Has(up'[socket[Host]], "file") => Has(up[socket[Host]], "file"),
           Last(down[socket[g]], "file", FileFrame(localSource)) =>
              Last(down'[socket[g]], "file", FileFrame(localSource)),
           Has(down'[socket[g]], "file") => Has(down[socket[g]], "file"),
           stale'[g] = stale[g], remoteSource'[g] = remoteSource[g]
    PROVE  FileComes(g)'
  <1>1. FileFrame(localSource)' = FileFrame(localSource)
    BY DEF FileFrame
  <1>2. QED
    BY <1>1 DEF FileComes

\* A connection given up by the host is done with only when the callback about
\* its end has run.
LEMMA BusyKept ==
    ASSUME socket'[Host] = socket[Host],
           \A x \in Sockets : Lingers(x) =>
              peers'[x].role = "host" \/ Has(up'[x], "join")
    PROVE  HostBusy => HostBusy'
  BY DEF HostBusy, Lingers

\* What has settled is known.
LEMMA SourceOfSettled ==
    ASSUME IInv, Links, Sourcing
    PROVE  SourceSettles
  <1>1. SUFFICES ASSUME Settled, NEW g \in Guests, Watching(g)
                 PROVE  remoteSource[g] = localSource
    BY DEF SourceSettles
  <1>2. g \in Peers /\ Host \in Peers /\ CanSend(Host) /\ CanSend(g) /\ localSource # NoSource
    BY <1>1 DEF Peers, Watching
  <1>3. Online(g) /\ Online(Host)
    BY <1>1, <1>2, SenderIsOnline
  <1>4. FileComes(g)
    BY <1>2, <1>3 DEF Sourcing, Attended
  <1>5. socket[Host] \in Sockets /\ socket[g] \in Sockets
    BY <1>2, <1>3, SenderIs DEF Online
  <1>6. ~HostBusy
    <2>1. SUFFICES ASSUME NEW x \in Sockets, Lingers(x) PROVE FALSE
      BY DEF HostBusy
    <2>2. up[x] = <<>> /\ ~Has(up[x], "join")
      BY <1>1, SettledQueues
    <2>3. peers[x].role = "host" /\ SocketOK(x) /\ x[1] \in Peers /\ x[2] \in Nat
      BY <2>1, <2>2, SocketIs DEF Lingers, Links
    <2>4. wire[x] \in {"idle", "connecting", "up", "down"} /\ generation[x[1]] \in Nat
      BY <2>3 DEF IInv, WireStates, ClientOK
    <2>5. wire[x] = "up"
      BY <2>2, <2>3, <2>4 DEF SocketOK, StreamOK
    <2>6. QED
      BY <2>1, <2>3, <2>4, <2>5 DEF SocketOK, Lingers
  <1>7. ~Asked
    BY <1>1, <1>5, SettledQueues DEF Asked, Asks
  <1>8. ~Last(<<>>, "file", FileFrame(localSource))
    BY DEF Last
  <1>9. QED
    BY <1>1, <1>4, <1>5, <1>6, <1>7, <1>8, SettledQueues DEF FileComes

\* The server tells the host of a guest.
LEMMA HostIsTold ==
    ASSUME NEW h \in Sockets, Live(h), down[h] \in Seq(Frames), NEW gs,
           Cardinality(gs) \in Nat \ {0}, down'[h] = PeerUpdateSent(h, gs)[h]
    PROVE  Asks(down'[h])
  <1> DEFINE m == PeerUpdate(TRUE, Cardinality(gs))
  <1>1. m \in Frames /\ m.type = "peer_update" /\ m.guests > 0
    BY DEF PeerUpdate, Frames
  <1>2. down'[h] = Append(down[h], m)
    BY DEF PeerUpdateSent
  <1> HIDE DEF m
  <1>3. QED
    BY <1>1, <1>2, AsksAppend

LEMMA TailKeeps ==
    ASSUME NEW F, NEW q \in Seq(F), q # <<>>, NEW t, NEW m, m.type = t, Head(q).type # t
    PROVE  /\ Last(q, t, m) => Last(Tail(q), t, m)
           /\ Has(Tail(q), t) <=> Has(q, t)
  BY LastTail, HasTail

LEMMA SenderBefore ==
    ASSUME NEW p, CanSend(p)', socket'[p] = socket[p], joined'[p] = joined[p],
           Live(socket[p])' => Live(socket[p])
    PROVE  CanSend(p)
  BY DEF CanSend, IsConnected, Live

\* Frames forwarded from the host reach every guest with a seat.
LEMMA RelayReaches ==
    ASSUME IInv, Links, NEW x \in Sockets, OnRelay(x), peers[x].role = "host",
           Head(up[x]).type \in {"file", "state", "open_url"}, sessionOf[Room] = Room,
           NEW y \in guests[Room], y \in Sockets, Live(y)
    PROVE  down'[y] = Append(down[y], Head(up[x]))
  <1>1. peers[x].code = Room
    BY DEF Links, Seats, Roles
  <1>2. SessionOfPeer(x) = Room /\ Room # NoCode
    BY <1>1, CodesAssumption, ValuesAssumption DEF SessionOfPeer, Room
  <1>3. Recipients(x, Head(up[x]).type) = guests[Room]
    <2> DEFINE t == Head(up[x]).type
    <2>1. \/ t \in HostOnlyFrames /\ t \notin PublicFrames
          \/ t \notin HostOnlyFrames /\ t \in PublicFrames
      BY DEF HostOnlyFrames, PublicFrames
    <2>2. t # "intent" /\ t \notin VoiceFrames
      BY DEF VoiceFrames
    <2> HIDE DEF t
    <2>3. Recipients(x, t) = guests[Room]
      BY <1>2, <2>1, <2>2 DEF Recipients
    <2>4. QED
      BY <2>3 DEF t
  <1>4. down' = SentTo(guests[Room], Head(up[x]))
    BY <1>3 DEF OnRelay
  <1>5. QED
    BY <1>4 DEF SentTo

\* When a connection of the host ends that was a peer, those who stay are told.
LEMMA EndTells ==
    ASSUME IInv, Links, NEW x \in Sockets, OnSocketDisconnected(x), peers[x].role = "host",
           sessionOf[Room] = Room, guests'[Room] # {}
    PROVE  down' = PeerUpdateSent(host'[Room], guests'[Room])
  <1>1. peers[x].code = Room /\ Room \in Codes
    BY ValuesAssumption DEF Links, Seats, Roles, Room
  <1>2. SessionOfPeer(x) = Room /\ Room # NoCode
    BY <1>1, CodesAssumption DEF SessionOfPeer
  <1>3. host \in [Codes -> Sockets \cup {NoSocket}] /\ guests \in [Codes -> SUBSET Sockets]
    BY DEF IInv, ServerTypeOK
  <1>4. /\ host' = [host EXCEPT ![Room] = HostSeatAfter(Room, x)]
        /\ guests' = [guests EXCEPT ![Room] = GuestSeatsAfter(Room, x)]
    BY <1>2 DEF OnSocketDisconnected
  <1>5. host'[Room] = HostSeatAfter(Room, x) /\ guests'[Room] = GuestSeatsAfter(Room, x)
    BY <1>1, <1>3, <1>4
  <1>6. down' = PeerUpdateSent(HostSeatAfter(Room, x), GuestSeatsAfter(Room, x))
    BY <1>2, <1>5 DEF OnSocketDisconnected
  <1>7. QED
    BY <1>5, <1>6

\* A join is told to the host, whoever joined.
LEMMA JoinAsks ==
    ASSUME IInv, Links, Links', IInv', NEW x \in Sockets, OnJoin(x), UNCHANGED <<client, session>>,
           NEW g \in Guests, CanSend(Host)', Online(g)'
    PROVE  Asked'
  <1> DEFINE h == socket[Host]
  <1>1. /\ host' = [host EXCEPT ![Room] = IF x[1] = Host THEN x ELSE @]
        /\ wire' = [y \in Sockets |-> IF y \in Ended(x) THEN "down" ELSE wire[y]]
        /\ up' = [y \in Sockets |-> IF y \in Ended(x) THEN Append(up[y], Closed)
                                    ELSE IF y = x THEN Tail(up[x]) ELSE up[y]]
        /\ down' = [y \in Sockets |-> IF y \in Ended(x) THEN Append(down[y], Closed)
                                      ELSE PeerUpdateSent(host'[Room], guests'[Room])[y]]
        /\ x \notin Ended(x)
    BY JoinIs
  <1>2. /\ socket' = socket /\ joined' = joined /\ Host \in Peers /\ Room \in Codes
        /\ host \in [Codes -> Sockets \cup {NoSocket}] /\ down \in [Sockets -> Seq(Frames)]
    BY ValuesAssumption, QueuesTyped DEF client, Peers, Room, IInv, ServerTypeOK
  <1>3. Cardinality(guests'[Room]) \in Nat \ {0}
    <2>1. (Cardinality(guests[Room]) \in Nat \ {0})'
      BY OnlineGuest, PTL
    <2>2. QED
      BY <2>1
  <1>4. h \in Sockets /\ Live(h)'
    <2>1. socket[Host] # NoSocket /\ Live(socket[Host])'
      BY <1>2 DEF CanSend, IsConnected, Live
    <2>2. QED
      BY <1>2, <2>1, SenderIs
  <1>5. h \notin Ended(x) /\ Live(h)
    BY <1>1, <1>2, <1>4 DEF Live
  <1>6. CanSend(Host)
    <2>1. joined'[Host]
      BY DEF CanSend
    <2>2. QED
      BY <1>2, <1>4, <1>5, <2>1, SocketsAssumption DEF CanSend, IsConnected
  <1>7. CASE x = h
    <2>1. host'[Room] = h
      BY <1>1, <1>2, <1>6, <1>7, SenderHasSeat
    <2>2. down'[h] = PeerUpdateSent(h, guests'[Room])[h]
      BY <1>1, <1>4, <1>5, <2>1
    <2>3. Asks(down'[h])
      BY <1>2, <1>3, <1>4, <1>5, <2>2, HostIsTold
    <2>4. QED
      BY <1>2, <2>3 DEF Asked
  <1>8. CASE x # h
    <2>1. CASE Has(up[h], "join")
      BY <1>1, <1>2, <1>4, <1>5, <1>8, <2>1 DEF Asked
    <2>2. CASE h = host[Room]
      <3>1. x[1] # Host
        BY <1>4, <1>5, <2>2 DEF Ended
      <3>2. host'[Room] = h
        BY <1>1, <1>2, <2>2, <3>1
      <3>3. down'[h] = PeerUpdateSent(h, guests'[Room])[h]
        BY <1>1, <1>4, <1>5, <3>2
      <3>4. Asks(down'[h])
        BY <1>2, <1>3, <1>4, <1>5, <3>3, HostIsTold
      <3>5. QED
        BY <1>2, <3>4 DEF Asked
    <2>3. QED
      BY <1>6, <2>1, <2>2, SenderHasSeat
  <1>9. QED
    BY <1>7, <1>8

LEMMA FileIs ==
    ASSUME IInv
    PROVE  FileFrame(localSource) \in Frames /\ FileFrame(localSource).type = "file"
  BY DEF FileFrame, Frames, IInv, SessionOK

\* A step of the server that leaves the seats alone leaves those who can send,
\* or have a seat, among those who did.
LEMMA AttendedBefore ==
    ASSUME IInv, Links, NEW g \in Guests, Attended(g)', UNCHANGED <<client, session>>,
           UNCHANGED <<host, guests>>, \A y \in Sockets : Live(y)' => Live(y)
    PROVE  Attended(g)
  <1>1. socket' = socket /\ joined' = joined /\ localSource' = localSource
    BY DEF client, session, hostData
  <1>2. g \in Peers /\ Host \in Peers
    BY DEF Peers
  <1>3. /\ socket'[Host] # NoSocket /\ wire'[socket'[Host]] = "up" /\ joined'[Host]
        /\ socket'[g] # NoSocket /\ wire'[socket'[g]] = "up" /\ localSource' # NoSource
        /\ socket'[g] = host'[Room] \/ socket'[g] \in guests'[Room]
    BY DEF Attended, CanSend, IsConnected, Online, Seated, Live, Room
  <1>4. socket[Host] \in Sockets /\ socket[g] \in Sockets
    BY <1>1, <1>2, <1>3, SenderIs
  <1>5. wire[socket[Host]] = "up" /\ wire[socket[g]] = "up"
    BY <1>1, <1>3, <1>4 DEF Live
  <1>6. QED
    BY <1>1, <1>3, <1>5 DEF Attended, CanSend, IsConnected, Online, Seated, Live

LEMMA ArrivalSourced ==
    ASSUME IInv, Links, Sourcing, NEW x \in Sockets, OnClientConnected(x),
           UNCHANGED <<client, session>>
    PROVE  Sourcing'
  <1> DEFINE h == socket[Host]
             F == FileFrame(localSource)
  <1>1. /\ up[x] # <<>> /\ Head(up[x]).type = "accepted"
        /\ up' = [up EXCEPT ![x] = Tail(up[x])]
        /\ peers[x].role = "absent"
        /\ peers' = [peers EXCEPT ![x] = [code |-> NoCode, role |-> "none"]]
    BY ArrivalIs
  <1>2. /\ UNCHANGED <<wire, down, host, guests, socket, joined, localSource, stale, remoteSource>>
        /\ up \in [Sockets -> Seq(Frames)] /\ peers \in [Sockets -> PeerInfo]
    BY QueuesTyped DEF OnClientConnected, client, session, hostData, guestData, IInv, ServerTypeOK
  <1>3. SUFFICES ASSUME NEW g \in Guests, Attended(g)' PROVE FileComes(g)'
    BY DEF Sourcing
  <1>4. Attended(g)
    BY <1>2, <1>3, AttendedBefore DEF Live
  <1>5. FileComes(g) /\ h \in Sockets
    BY <1>4, SenderHasSeat DEF Sourcing, Attended
  <1>6. F \in Frames /\ F.type = "file"
    BY FileIs
  <1> HIDE DEF F
  <1>7. \A y \in Sockets : /\ Has(up'[y], "join") <=> Has(up[y], "join")
                           /\ Has(up'[y], "file") <=> Has(up[y], "file")
                           /\ Last(up[y], "file", F) => Last(up'[y], "file", F)
    <2>1. SUFFICES ASSUME NEW y \in Sockets
                   PROVE  /\ Has(up'[y], "join") <=> Has(up[y], "join")
                          /\ Has(up'[y], "file") <=> Has(up[y], "file")
                          /\ Last(up[y], "file", F) => Last(up'[y], "file", F)
      OBVIOUS
    <2>2. CASE y # x
      BY <1>1, <1>2, <2>2
    <2>3. CASE y = x
      <3>1. up'[y] = Tail(up[x]) /\ up[x] \in Seq(Frames)
        BY <1>1, <1>2, <2>3
      <3>2. Has(Tail(up[x]), "join") <=> Has(up[x], "join")
        BY <1>1, <3>1, HasTail
      <3>3. /\ Has(Tail(up[x]), "file") <=> Has(up[x], "file")
            /\ Last(up[x], "file", F) => Last(Tail(up[x]), "file", F)
        BY <1>1, <1>6, <3>1, TailKeeps
      <3>4. QED
        BY <2>3, <3>1, <3>2, <3>3
    <2>4. QED
      BY <2>2, <2>3
  <1>8. \A y \in Sockets : peers[y].role = "host" => peers'[y].role = "host"
    BY <1>1, <1>2
  <1>9. HostBusy => HostBusy'
    BY <1>2, <1>7, <1>8, BusyKept DEF Lingers
  <1>10. Asked => Asked'
    BY <1>2, <1>5, <1>7 DEF Asked
  <1>11. QED
    BY <1>2, <1>5, <1>7, <1>9, <1>10, FileKept DEF F

LEMMA JoinSourced ==
    ASSUME IInv, IInv', Links, Links', NEW x \in Sockets, OnJoin(x), UNCHANGED <<client, session>>
    PROVE  Sourcing'
  <1>1. SUFFICES ASSUME NEW g \in Guests, Attended(g)' PROVE FileComes(g)'
    BY DEF Sourcing
  <1>2. CanSend(Host)' /\ Online(g)'
    BY <1>1 DEF Attended
  <1>3. Asked'
    BY <1>2, JoinAsks
  <1>4. QED
    BY <1>3 DEF FileComes

LEMMA EndSourced ==
    ASSUME IInv, IInv', Links, Links', Sourcing, NEW x \in Sockets, OnSocketDisconnected(x),
           UNCHANGED <<client, session>>
    PROVE  Sourcing'
  <1> DEFINE h == socket[Host]
             F == FileFrame(localSource)
  <1>1. /\ up[x] # <<>> /\ Head(up[x]).type = "closed" /\ wire[x] = "down" /\ Tail(up[x]) = <<>>
        /\ up' = [up EXCEPT ![x] = <<>>]
        /\ peers' = [peers EXCEPT ![x] = Absent]
        /\ host'[Room] = IF host[Room] = x THEN NoSocket ELSE host[Room]
        /\ guests'[Room] = guests[Room] \ {x}
        /\ \/ down' = PeerUpdateSent(host'[Room], guests'[Room])
           \/ down' = down /\ host'[Room] = NoSocket /\ guests'[Room] = {}
           \/ down' = down /\ host'[Room] = host[Room] /\ guests'[Room] = guests[Room]
    BY EndIs
  <1>2. /\ UNCHANGED <<wire, socket, joined, localSource, stale, remoteSource>>
        /\ up \in [Sockets -> Seq(Frames)] /\ peers \in [Sockets -> PeerInfo]
        /\ down \in [Sockets -> Seq(Frames)]
    BY QueuesTyped DEF OnSocketDisconnected, client, session, hostData, guestData, IInv,
                       ServerTypeOK
  <1>3. SUFFICES ASSUME NEW g \in Guests, Attended(g)' PROVE FileComes(g)'
    BY DEF Sourcing
  <1>4. /\ socket[Host] # NoSocket /\ wire[socket[Host]] = "up" /\ joined[Host]
        /\ localSource # NoSource
        /\ socket[g] # NoSocket /\ wire[socket[g]] = "up"
        /\ socket[g] = host'[Room] \/ socket[g] \in guests'[Room]
    <2>1. /\ socket'[Host] # NoSocket /\ wire'[socket'[Host]] = "up" /\ joined'[Host]
          /\ localSource' # NoSource
          /\ socket'[g] # NoSocket /\ wire'[socket'[g]] = "up"
          /\ socket'[g] = host'[Room] \/ socket'[g] \in guests'[Room]
      BY <1>3 DEF Attended, CanSend, IsConnected, Online, Seated, Live, Room
    <2>2. QED
      BY <1>2, <2>1
  <1>5. CanSend(Host)
    BY <1>4 DEF CanSend, IsConnected, Live
  <1>6. Online(g)
    BY <1>1, <1>4 DEF Online, Seated, Live
  <1>7. FileComes(g) /\ h \in Sockets /\ h # x /\ Live(h)
    BY <1>1, <1>4, <1>5, <1>6, SenderHasSeat DEF Sourcing, Attended
  <1>8. Cardinality(guests'[Room]) \in Nat \ {0} /\ guests'[Room] # {} /\ sessionOf[Room] = Room
    <2>1. Online(g)'
      BY <1>3 DEF Attended
    <2>2. (Online(g) => Cardinality(guests[Room]) \in Nat \ {0} /\ socket[g] \in guests[Room])'
      BY OnlineGuest, PTL
    <2>3. QED
      BY <1>6, <2>1, <2>2, OnlineGuest
  <1>9. CASE down' = PeerUpdateSent(host'[Room], guests'[Room])
    <2>1. CASE Has(up[h], "join")
      <3>1. up'[h] = up[h]
        BY <1>1, <1>2, <1>7
      <3>2. QED
        BY <1>2, <2>1, <3>1 DEF Asked, FileComes
    <2>2. CASE h = host[Room]
      <3>1. down'[h] = PeerUpdateSent(h, guests'[Room])[h]
        BY <1>1, <1>7, <1>9, <2>2
      <3>2. Asks(down'[h])
        BY <1>2, <1>7, <1>8, <3>1, HostIsTold
      <3>3. QED
        BY <1>2, <3>2 DEF Asked, FileComes
    <2>3. QED
      BY <1>5, <2>1, <2>2, SenderHasSeat
  <1>10. CASE down' # PeerUpdateSent(host'[Room], guests'[Room])
    <2>1. peers[x].role # "host"
      BY <1>8, <1>10, EndTells
    <2>2. ~Has(up[x], "join")
      BY <1>1, <1>2, HasTail, HasNone
    <2>3. ~Lingers(x)
      BY <2>1, <2>2 DEF Lingers
    <2>4. \A y \in Sockets \ {x} : up'[y] = up[y] /\ peers'[y] = peers[y]
      BY <1>1, <1>2
    <2>5. HostBusy => HostBusy'
      BY <1>2, <2>3, <2>4, BusyKept DEF Lingers
    <2>6. down' = down
      BY <1>1, <1>10
    <2>7. Asked => Asked'
      BY <1>2, <1>7, <2>4, <2>6 DEF Asked
    <2>8. up'[h] = up[h]
      BY <1>7, <2>4
    <2>9. QED
      BY <1>2, <1>7, <2>5, <2>6, <2>7, <2>8, FileKept
  <1>11. QED
    BY <1>9, <1>10

LEMMA RelaySourced ==
    ASSUME IInv, Links, Sourcing, NEW x \in Sockets, OnRelay(x), UNCHANGED <<client, session>>
    PROVE  Sourcing'
  <1> DEFINE h == socket[Host]
             F == FileFrame(localSource)
             m == Head(up[x])
  <1>1. /\ up[x] # <<>> /\ m.type \notin Special /\ m.type \in UpTypes(x)
        /\ up' = [up EXCEPT ![x] = Tail(up[x])] /\ peers[x].role = RoleOf(x)
    BY RelayIs
  <1>2. /\ UNCHANGED <<wire, peers, host, guests, sessionOf, socket, joined, localSource, stale,
                       remoteSource>>
        /\ up \in [Sockets -> Seq(Frames)] /\ down \in [Sockets -> Seq(Frames)]
        /\ up[x] \in Seq(Frames) /\ m \in Frames
    BY <1>1, QueuesTyped, TailRead DEF OnRelay, server, client, session, hostData, guestData, IInv
  <1>3. SUFFICES ASSUME NEW g \in Guests, Attended(g)' PROVE FileComes(g)'
    BY DEF Sourcing
  <1> DEFINE s == socket[g]
  <1>4. Attended(g)
    BY <1>2, <1>3, AttendedBefore DEF Live
  <1>5. FileComes(g) /\ h \in Sockets /\ h[1] = Host
    BY <1>4, SenderHasSeat DEF Sourcing, Attended
  <1>6. /\ s \in Sockets /\ s[1] = g /\ g # Host /\ Live(s) /\ s \in guests[Room]
        /\ sessionOf[Room] = Room
    BY <1>4, OnlineGuest DEF Attended
  <1>7. F \in Frames /\ F.type = "file"
    BY FileIs
  <1>8. \A y \in Sockets : down'[y] = down[y] \/ down'[y] = Append(down[y], m)
    BY RelayDown
  <1>9. \A y \in Sockets \ {x} : up'[y] = up[y]
    BY <1>1, <1>2
  <1>10. up'[x] = Tail(up[x]) /\ (Has(Tail(up[x]), "join") <=> Has(up[x], "join"))
    BY <1>1, <1>2, HasTail DEF Special
  <1>11. HostBusy => HostBusy'
    BY <1>2, <1>9, <1>10, BusyKept DEF Lingers
  <1>12. Asked => Asked'
    <2>1. Has(up[h], "join") => Has(up'[h], "join")
      BY <1>5, <1>9, <1>10
    <2>2. Asks(down[h]) => Asks(down'[h])
      <3>1. down[h] \in Seq(Frames) /\ m \in Frames
        BY <1>2, <1>5
      <3>2. down'[h] = down[h] \/ down'[h] = Append(down[h], m)
        BY <1>5, <1>8
      <3> HIDE DEF h, m
      <3>3. QED
        BY <3>1, <3>2, AsksAppend
    <2>3. QED
      BY <1>2, <2>1, <2>2 DEF Asked
  <1>13. CASE x[1] = Host /\ x # h
    <2>1. Lingers(x)'
      BY <1>1, <1>2, <1>13 DEF Lingers, RoleOf
    <2>2. QED
      BY <2>1 DEF HostBusy, FileComes
  <1> HIDE DEF F, m
  <1>14. m.type # "file" =>
            /\ Last(down[s], "file", F) => Last(down'[s], "file", F)
            /\ Has(down'[s], "file") => Has(down[s], "file")
    <2>1. down[s] \in Seq(Frames) /\ m \in Frames
      BY <1>2, <1>6
    <2>2. down'[s] = down[s] \/ down'[s] = Append(down[s], m)
      BY <1>6, <1>8
    <2>3. CASE down'[s] = down[s]
      BY <2>3
    <2>4. CASE down'[s] = Append(down[s], m)
      <3> HIDE DEF s
      <3>1. m.type # "file" /\ Last(down[s], "file", F) => Last(Append(down[s], m), "file", F)
        BY <2>1, LastAppendOld
      <3>2. m.type # "file" /\ Has(Append(down[s], m), "file") => Has(down[s], "file")
        BY <2>1, HasAppend
      <3>3. QED
        BY <2>4, <3>1, <3>2
    <2>5. QED
      BY <2>2, <2>3, <2>4
  <1>15. CASE x = h
    <2>1. CASE m.type # "file"
      <3>1. /\ Has(up'[h], "file") <=> Has(up[h], "file")
            /\ Last(up[h], "file", F) => Last(up'[h], "file", F)
        BY <1>1, <1>2, <1>7, <1>10, <1>15, <2>1, TailKeeps DEF m
      <3>2. QED
        BY <1>2, <1>5, <1>11, <1>12, <1>14, <2>1, <3>1, FileKept DEF F
    <2>2. CASE m.type = "file"
      <3>1. Has(up[h], "file")
        BY <1>1, <1>2, <1>15, <2>2, HasTail DEF m
      <3>2. CASE HostBusy \/ Asked
        BY <1>11, <1>12, <3>2 DEF FileComes
      <3>3. CASE Last(up[h], "file", F)
        <4>1. Last(Tail(up[x]), "file", F) \/ (m = F /\ ~Has(Tail(up[x]), "file"))
          BY <1>1, <1>2, <1>15, <3>3, LastTail DEF m
        <4>2. CASE Last(Tail(up[x]), "file", F)
          <5>1. Last(up'[socket'[Host]], "file", FileFrame(localSource'))
            BY <1>2, <1>10, <1>15, <4>2 DEF F
          <5>2. FileFrame(localSource)' = FileFrame(localSource')
            BY DEF FileFrame
          <5>3. QED
            BY <5>1, <5>2 DEF FileComes
        <4>3. CASE m = F /\ ~Has(Tail(up[x]), "file")
          <5>1. peers[x].role = "host"
            BY <1>1, <1>5, <1>15 DEF RoleOf
          <5>2. down'[s] = Append(down[s], m)
            BY <1>6, <2>2, <5>1, RelayReaches DEF m
          <5>3. Last(down'[s], "file", F)
            BY <1>2, <1>6, <1>7, <4>3, <5>2, LastAppendNew
          <5>4. FileFrame(localSource)' = F
            BY <1>2 DEF FileFrame, F
          <5>5. ~Has(up'[h], "file")
            BY <1>10, <1>15, <4>3
          <5>6. QED
            BY <1>2, <5>3, <5>4, <5>5 DEF FileComes
        <4>4. QED
          BY <4>1, <4>2, <4>3
      <3>4. QED
        BY <1>5, <3>1, <3>2, <3>3 DEF FileComes, F
    <2>3. QED
      BY <2>1, <2>2
  <1>16. CASE x[1] # Host
    <2>1. m.type # "file"
      BY <1>1, <1>16 DEF UpTypes, m
    <2>2. up'[h] = up[h]
      BY <1>5, <1>9, <1>16
    <2>3. QED
      BY <1>2, <1>5, <1>11, <1>12, <1>14, <2>1, <2>2, FileKept DEF F
  <1>17. QED
    BY <1>13, <1>15, <1>16

LEMMA ServerSourced ==
    ASSUME IInv, IInv', Links, Links', Sourcing, NEW x \in Sockets, ServerStep(x)
    PROVE  Sourcing'
  BY ArrivalSourced, JoinSourced, EndSourced, RelaySourced, NoPing
     DEF ServerStep, ServerTask, OnTextMessage

\* A step that touches neither the host nor guest g.
LEMMA UntouchedSourced ==
    ASSUME IInv, Links, Sourcing, NEW g \in Guests, Untouched(g), Untouched(Host), Attended(g)',
           UNCHANGED <<host, guests, peers, localSource>>, remoteSource'[g] = remoteSource[g],
           \A x \in Sockets : x[1] = Host => up'[x] = up[x]
    PROVE  FileComes(g)'
  <1>1. /\ socket'[Host] = socket[Host] /\ joined'[Host] = joined[Host]
        /\ socket'[g] = socket[g] /\ stale'[g] = stale[g]
    BY DEF Untouched
  <1>2. /\ socket'[Host] # NoSocket /\ wire'[socket'[Host]] = "up" /\ joined'[Host]
        /\ socket'[g] # NoSocket /\ wire'[socket'[g]] = "up" /\ localSource' # NoSource
        /\ socket'[g] = host'[Room] \/ socket'[g] \in guests'[Room]
    BY DEF Attended, CanSend, IsConnected, Online, Seated, Live, Room
  <1>3. /\ wire[socket[Host]] = "up" /\ wire[socket[g]] = "up"
        /\ up'[socket[Host]] = up[socket[Host]] /\ down'[socket[Host]] = down[socket[Host]]
        /\ down'[socket[g]] = down[socket[g]]
    BY <1>1, <1>2 DEF Untouched
  <1>4. Attended(g)
    BY <1>1, <1>2, <1>3 DEF Attended, CanSend, IsConnected, Online, Seated, Live
  <1>5. FileComes(g)
    BY <1>4 DEF Sourcing
  <1>6. HostBusy => HostBusy'
    BY <1>1, BusyKept DEF Lingers
  <1>7. Asked => Asked'
    BY <1>1, <1>3 DEF Asked
  <1>8. QED
    BY <1>1, <1>3, <1>5, <1>6, <1>7, FileKept

\* A new connection has no seat yet, and that of the host still has its join
\* before it.
LEMMA ConnectSourced ==
    ASSUME IInv, IInv', Links, Links', Sourcing, NEW p \in Peers, ConnectAndJoin(p),
           UNCHANGED <<peers, host, guests, localSource, remoteSource>>
    PROVE  Sourcing'
  <1>1. SUFFICES ASSUME NEW g \in Guests, Attended(g)' PROVE FileComes(g)'
    BY DEF Sourcing
  <1>2. /\ socket'[p] = New(p) /\ New(p) \in Sockets /\ New(p)[1] = p
        /\ New(p) # host[Room] /\ New(p) \notin guests[Room]
    BY NewIs
  <1>3. ~Online(p)'
    BY <1>2 DEF Online, Seated
  <1>4. Host \in Peers /\ g \in Peers /\ g # Host
    BY PeersAssumption DEF Peers
  <1>5. CASE p = Host
    <2>1. CanSend(Host)'
      BY <1>1 DEF Attended
    <2>2. (Has(up[socket[Host]], "join") \/ Online(Host))'
      BY <2>1, SenderHasSeat, PTL
    <2>3. Asked'
      BY <1>3, <1>5, <2>2 DEF Asked
    <2>4. QED
      BY <2>3 DEF FileComes
  <1>6. CASE p # Host
    <2>1. g # p
      BY <1>1, <1>3 DEF Attended
    <2>2. Untouched(g) /\ Untouched(Host)
      BY <1>4, <1>6, <2>1, ConnectOthers
    <2>3. ASSUME NEW x \in Sockets, x[1] = Host PROVE up'[x] = up[x]
      <3>1. x # New(p)
        BY <1>2, <1>6, <2>3
      <3>2. x # socket[p]
        <4>1. CASE socket[p] = NoSocket
          BY <4>1, SocketsAssumption
        <4>2. CASE socket[p] # NoSocket
          BY <1>6, <2>3, <4>2, SenderIs
        <4>3. QED
          BY <4>1, <4>2
      <3>3. QED
        BY <3>1, <3>2 DEF ConnectAndJoin, New
    <2>4. QED
      BY <1>1, <2>2, <2>3, UntouchedSourced
  <1>7. QED
    BY <1>5, <1>6

LEMMA LeaveSourced ==
    ASSUME IInv, Links, Sourcing, NEW q \in Guests, LeaveSession(q)
    PROVE  Sourcing'
  <1>1. SUFFICES ASSUME NEW g \in Guests, Attended(g)' PROVE FileComes(g)'
    BY DEF Sourcing
  <1>2. Host \in Peers /\ g \in Peers /\ q \in Peers /\ q # Host
    BY PeersAssumption DEF Peers
  <1>3. /\ socket' = [socket EXCEPT ![q] = NoSocket] /\ socket \in [Peers -> Sockets \cup {NoSocket}]
        /\ UNCHANGED <<host, guests, peers, localSource>>
    BY DEF LeaveSession, server, hostData, IInv, ClientOK
  <1>4. g # q
    BY <1>1, <1>2, <1>3 DEF Attended, Online
  <1>5. Untouched(g) /\ Untouched(Host) /\ remoteSource'[g] = remoteSource[g]
    BY <1>2, <1>4, LeaveOthers
  <1>6. ASSUME NEW x \in Sockets, x[1] = Host PROVE up'[x] = up[x]
    <2>1. x # socket[q]
      <3>1. CASE socket[q] = NoSocket
        BY <3>1, SocketsAssumption
      <3>2. CASE socket[q] # NoSocket
        BY <1>2, <1>6, <3>2, SenderIs
      <3>3. QED
        BY <3>1, <3>2
    <2>2. QED
      BY <2>1 DEF LeaveSession
  <1>7. QED
    BY <1>1, <1>3, <1>5, <1>6, UntouchedSourced

\* Only the connection an instance has now can be made or break.
LEMMA WireIsOwn ==
    ASSUME IInv, Links, NEW s \in Sockets, wire[s] \in {"connecting", "up"}
    PROVE  s = socket[s[1]]
  <1>1. SocketOK(s) /\ s[1] \in Peers /\ s[2] \in Nat /\ generation[s[1]] \in Nat
    BY SocketIs DEF Links, IInv, ClientOK
  <1>2. QED
    BY <1>1 DEF SocketOK

\* A connection that is made or breaks is not one of those that last.
LEMMA WireAside ==
    ASSUME IInv, Links, NEW s \in Sockets, Open(s) \/ Refuse(s) \/ Drop(s),
           NEW g \in Guests, Attended(g)'
    PROVE  /\ Untouched(g) /\ Untouched(Host)
           /\ \A x \in Sockets : x[1] = Host => up'[x] = up[x]
  <1>2. Host \in Peers /\ g \in Peers /\ g # Host
    BY PeersAssumption DEF Peers
  <1>3. /\ UNCHANGED <<host, guests, peers, localSource, remoteSource, socket, joined, pendingJoin,
                       generation, stale>>
        /\ wire \in [Sockets -> WireStates] /\ up \in [Sockets -> Seq(Frames)]
        /\ down \in [Sockets -> Seq(Frames)]
    BY QueuesTyped DEF Open, Refuse, Drop, server, client, session, hostData, guestData, IInv
  <1>4. /\ wire[s] \in {"connecting", "up"}
        /\ \A x \in Sockets \ {s} : wire'[x] = wire[x] /\ up'[x] = up[x] /\ down'[x] = down[x]
        /\ wire'[s] = "down" \/ wire[s] = "connecting"
    BY <1>3 DEF Open, Refuse, Drop, WireOpen, WireRefuse, WireDrop, Broken, Live
  <1>5. s = socket[s[1]]
    BY <1>4, WireIsOwn
  <1>6. /\ socket[Host] # NoSocket /\ wire'[socket[Host]] = "up" /\ joined[Host]
        /\ socket[g] # NoSocket /\ wire'[socket[g]] = "up" /\ Seated(socket[g])
    BY <1>3 DEF Attended, CanSend, IsConnected, Online, Seated, Live, Room
  <1>7. socket[Host] \in Sockets /\ socket[g] \in Sockets /\ socket[Host][1] = Host
    BY <1>2, <1>6, SenderIs
  <1>8. s # socket[Host]
    <2>1. wire[socket[Host]] \in {"up", "down"}
      BY <1>2, <1>6 DEF Links, ClientLinks
    <2>2. QED
      BY <1>4, <1>6, <2>1
  <1>9. s # socket[g]
    <2>1. peers[socket[g]].role \in Roles
      BY <1>6, <1>7, SeatRole, SocketIs
    <2>2. SocketOK(socket[g])
      BY <1>7 DEF Links
    <2>3. wire[socket[g]] # "connecting"
      BY <2>1, <2>2 DEF SocketOK, StreamOK, Roles
    <2>4. QED
      BY <1>4, <1>6, <2>3
  <1>10. Untouched(g) /\ Untouched(Host)
    BY <1>3, <1>4, <1>7, <1>8, <1>9 DEF Untouched
  <1>11. \A x \in Sockets : x[1] = Host => up'[x] = up[x]
    BY <1>4, <1>5, <1>8
  <1>12. QED
    BY <1>10, <1>11

LEMMA WireSourced ==
    ASSUME IInv, Links, Sourcing, NEW s \in Sockets, Open(s) \/ Refuse(s) \/ Drop(s)
    PROVE  Sourcing'
  <1>1. SUFFICES ASSUME NEW g \in Guests, Attended(g)' PROVE FileComes(g)'
    BY DEF Sourcing
  <1>2. UNCHANGED <<host, guests, peers, localSource, remoteSource>>
    BY DEF Open, Refuse, Drop, server, session, hostData, guestData
  <1>3. /\ Untouched(g) /\ Untouched(Host)
        /\ \A x \in Sockets : x[1] = Host => up'[x] = up[x]
    BY <1>1, WireAside
  <1>4. QED
    BY <1>1, <1>2, <1>3, UntouchedSourced

\* What the instances send besides the source.
Talk == {"state", "open_url", "intent", "join"}

\* Frames are sent behind those that were.
LEMMA UpGrows ==
    ASSUME IInv, Links, NEW p \in Peers, NEW frames \in Seq(Frames), NEW T, Only(frames, T),
           Post(p, frames), NEW x \in Sockets
    PROVE  \E r \in Seq(Frames) : Only(r, T) /\ up'[x] = up[x] \o r
  <1>1. up \in [Sockets -> Seq(Frames)] /\ up[x] \in Seq(Frames)
    BY QueuesTyped
  <1>2. CASE up'[x] = up[x]
    <2>1. up'[x] = up[x] \o <<>> /\ <<>> \in Seq(Frames)
      BY <1>1, <1>2, ConcatEmptySeq
    <2>2. QED
      BY <2>1, OnlyEmpty
  <1>3. CASE up'[x] # up[x]
    <2>1. up'[x] = up[x] \o frames
      BY <1>1, <1>3 DEF Post
    <2>2. QED
      BY <2>1
  <1>4. QED
    BY <1>2, <1>3

LEMMA GrownSourced ==
    ASSUME IInv, Links, NEW g \in Guests, FileComes(g), socket[Host] \in Sockets,
           UNCHANGED <<socket, peers, localSource>>, remoteSource'[g] = remoteSource[g],
           stale'[g] = stale[g], down'[socket[g]] = down[socket[g]],
           Asks(down[socket[Host]]) => Asks(down'[socket[Host]]),
           NEW T, "file" \notin T,
           \A x \in Sockets : \E r \in Seq(Frames) : Only(r, T) /\ up'[x] = up[x] \o r
    PROVE  FileComes(g)'
  <1> DEFINE F == FileFrame(localSource)
  <1>1. \A x \in Sockets : /\ Has(up[x], "join") => Has(up'[x], "join")
                           /\ Last(up[x], "file", F) => Last(up'[x], "file", F)
                           /\ Has(up'[x], "file") => Has(up[x], "file")
    <2>1. SUFFICES ASSUME NEW x \in Sockets
                   PROVE  /\ Has(up[x], "join") => Has(up'[x], "join")
                          /\ Last(up[x], "file", F) => Last(up'[x], "file", F)
                          /\ Has(up'[x], "file") => Has(up[x], "file")
      OBVIOUS
    <2>2. PICK r \in Seq(Frames) : Only(r, T) /\ up'[x] = up[x] \o r
      OBVIOUS
    <2>3. up[x] \in Seq(Frames) /\ ~Has(r, "file")
      BY <2>2, QueuesTyped, OnlyHas
    <2> HIDE DEF F
    <2>4. Has(up[x], "join") => Has(up[x] \o r, "join")
      BY <2>3, HasConcat
    <2>5. Has(up[x] \o r, "file") => Has(up[x], "file")
      BY <2>3, HasConcat
    <2>6. Last(up[x], "file", F) => Last(up[x] \o r, "file", F)
      BY <2>3, LastConcatOld
    <2>7. QED
      BY <2>2, <2>4, <2>5, <2>6
  <1>2. HostBusy => HostBusy'
    BY <1>1, BusyKept DEF Lingers
  <1>3. Asked => Asked'
    BY <1>1 DEF Asked
  <1>4. QED
    BY <1>1, <1>2, <1>3, FileKept

LEMMA BroadcastTalks ==
    ASSUME IInv, NEW st \in PlayStates, Broadcast(st)
    PROVE  \E p \in Peers, frames \in Seq(Frames) : Post(p, frames) /\ Only(frames, Talk)
  <1> DEFINE frames == Guarded(Host, StateNow(st, guestCount[Host]))
  <1>1. Post(Host, frames) /\ Host \in Peers
    BY DEF Broadcast, Peers
  <1>2. frames \in Seq(Frames) /\ Only(frames, {"state"})
    BY StateNowIs, GuardedIs DEF IInv, SessionOK
  <1> HIDE DEF frames
  <1>3. Only(frames, Talk)
    BY <1>2, OnlyMore DEF Talk
  <1>4. QED
    BY <1>1, <1>2, <1>3

\* Users and the clock send the source only when it is opened.
LEMMA UserTalks ==
    ASSUME IInv, Links,
           \/ Heartbeat
           \/ \E u \in Urls : ShareOpenUrl(u)
           \/ \E p \in Peers, cmd \in Commands : UserCommand(p, cmd)
    PROVE  /\ localSource' = localSource
           /\ \A x \in Sockets : \E r \in Seq(Frames) : Only(r, Talk) /\ up'[x] = up[x] \o r
  <1>1. /\ \A p \in Peers : player[p] \in PlayStates
        /\ Host \in Peers
    BY DEF IInv, SessionOK, Peers
  <1>2. localSource' = localSource
    BY DEF Heartbeat, ShareOpenUrl, UserCommand
  <1>3. \/ up' = up
        \/ \E p \in Peers, frames \in Seq(Frames) : Post(p, frames) /\ Only(frames, Talk)
    <2>1. CASE Heartbeat
      BY <1>1, <2>1, BroadcastTalks DEF Heartbeat
    <2>2. CASE \E u \in Urls : ShareOpenUrl(u)
      <3>1. PICK u \in Urls : ShareOpenUrl(u)
        BY <2>2
      <3> DEFINE b == sessionActive[Host] /\ guestCount[Host] > 0
                 sent == IF b THEN <<UrlFrame(u)>> ELSE <<>>
                 frames == Guarded(Host, sent)
      <3>2. Post(Host, frames)
        BY <3>1 DEF ShareOpenUrl
      <3>3. UrlFrame(u) \in Frames /\ UrlFrame(u).type \in Talk
        BY UrlIs DEF UrlValues, Talk
      <3>4. sent \in Seq(Frames) /\ Only(sent, Talk)
        BY <3>3, OnlyOne, OnlyEmpty
      <3> HIDE DEF sent
      <3>5. frames \in Seq(Frames) /\ Only(frames, Talk)
        BY <3>4, GuardedIs
      <3> HIDE DEF frames
      <3>6. QED
        BY <1>1, <3>2, <3>5
    <2>3. CASE \E p \in Peers, cmd \in Commands : UserCommand(p, cmd)
      <3>1. PICK p \in Peers, cmd \in Commands : UserCommand(p, cmd)
        BY <2>3
      <3> DEFINE st == Applied(cmd, player[p])
      <3>2. st \in PlayStates
        BY <1>1, AppliedTyped
      <3>3. CASE RequestOnly(p)
        <4> DEFINE frames == Guarded(p, <<IntentFrame(cmd)>>)
        <4>1. Post(p, frames)
          BY <3>1, <3>3 DEF UserCommand
        <4>2. IntentFrame(cmd) \in Frames /\ IntentFrame(cmd).type \in Talk
          BY DEF IntentFrame, Frames, Talk
        <4>3. frames \in Seq(Frames) /\ Only(frames, Talk)
          BY <4>2, OnlyOne, GuardedIs
        <4> HIDE DEF frames
        <4>4. QED
          BY <4>1, <4>3
      <3>4. CASE ~RequestOnly(p)
        BY <3>1, <3>2, <3>4, BroadcastTalks DEF UserCommand
      <3>5. QED
        BY <3>3, <3>4
    <2>4. QED
      BY <2>1, <2>2, <2>3
  <1>4. CASE up' = up
    <2>1. \A x \in Sockets : up[x] \in Seq(Frames)
      BY QueuesTyped
    <2>2. \A x \in Sockets : up'[x] = up[x] \o <<>> /\ <<>> \in Seq(Frames) /\ Only(<<>>, Talk)
      BY <1>4, <2>1, ConcatEmptySeq, OnlyEmpty
    <2>3. QED
      BY <1>2, <2>2
  <1>5. CASE \E p \in Peers, frames \in Seq(Frames) : Post(p, frames) /\ Only(frames, Talk)
    <2>1. PICK p \in Peers, frames \in Seq(Frames) : Post(p, frames) /\ Only(frames, Talk)
      BY <1>5
    <2>2. QED
      BY <1>2, <2>1, UpGrows
  <1>6. QED
    BY <1>3, <1>4, <1>5

LEMMA UserStepSourced ==
    ASSUME IInv, Links, Sourcing,
           \/ Heartbeat
           \/ \E u \in Urls : ShareOpenUrl(u)
           \/ \E p \in Peers, cmd \in Commands : UserCommand(p, cmd)
    PROVE  Sourcing'
  <1>1. UNCHANGED <<wire, down, host, guests, peers, socket, joined, stale, remoteSource>>
    BY UserKeeps
  <1>2. SUFFICES ASSUME NEW g \in Guests, Attended(g)' PROVE FileComes(g)'
    BY DEF Sourcing
  <1>3. localSource' = localSource
    BY UserTalks
  <1>4. Attended(g)
    BY <1>1, <1>2, <1>3 DEF Attended, CanSend, IsConnected, Online, Seated, Live
  <1>5. FileComes(g) /\ socket[Host] \in Sockets
    BY <1>4, SenderHasSeat DEF Sourcing, Attended
  <1>6. \A x \in Sockets : \E r \in Seq(Frames) : Only(r, Talk) /\ up'[x] = up[x] \o r
    BY UserTalks
  <1>7. "file" \notin Talk
    BY DEF Talk
  <1>8. QED
    BY <1>1, <1>3, <1>5, <1>6, <1>7, GrownSourced

\* A source opened while somebody is there is announced.
LEMMA OpenedSourced ==
    ASSUME IInv, Links, Informing, NEW f \in Sources \cup Urls, SetLocalFileInfo(f)
    PROVE  Sourcing'
  <1> DEFINE h == socket[Host]
             m == FileFrame(f)
             sent == IF sessionActive[Host] /\ guestCount[Host] > 0 THEN <<m>> ELSE <<>>
  <1>1. /\ UNCHANGED <<wire, down, host, guests, peers, socket, joined, stale, remoteSource>>
        /\ localSource' = f /\ Post(Host, Guarded(Host, sent))
    BY UserKeeps DEF SetLocalFileInfo
  <1>2. SUFFICES ASSUME NEW g \in Guests, Attended(g)' PROVE FileComes(g)'
    BY DEF Sourcing
  <1>3. CanSend(Host) /\ Online(g) /\ Host \in Peers
    BY <1>1, <1>2 DEF Attended, CanSend, IsConnected, Online, Seated, Live, Peers
  <1>4. h \in Sockets /\ h # NoSocket /\ up[h] \in Seq(Frames) /\ up \in [Sockets -> Seq(Frames)]
    BY <1>3, SenderHasSeat, QueuesTyped
  <1>5. sessionActive[Host]
    BY <1>3, <1>4 DEF Links, ClientLinks
  <1>6. m \in Frames /\ m.type = "file"
    BY DEF FileFrame, Frames, SourceValues
  <1> HIDE DEF m
  <1>7. sent \in Seq(Frames)
    BY <1>6
  <1> HIDE DEF sent
  <1>8. up'[h] = up[h] \o sent
    BY <1>1, <1>3, <1>4 DEF Post, Guarded
  <1>9. CASE Asked
    <2>1. Has(up[h], "join") => Has(up'[h], "join")
      BY <1>4, <1>7, <1>8, HasConcat
    <2>2. QED
      BY <1>1, <1>9, <2>1 DEF Asked, FileComes
  <1>10. CASE ~Asked
    <2>1. guestCount[Host] > 0
      BY <1>3, <1>10, HostCounts
    <2>2. sent = <<m>>
      BY <1>5, <2>1 DEF sent
    <2>3. Last(<<m>>, "file", m)
      BY DEF Last
    <2>4. Last(up'[h], "file", m)
      BY <1>4, <1>6, <1>7, <1>8, <2>2, <2>3, LastConcatNew
    <2>5. FileFrame(localSource)' = m
      BY <1>1 DEF FileFrame, m
    <2>6. QED
      BY <1>1, <2>4, <2>5 DEF FileComes
  <1>11. QED
    BY <1>9, <1>10

\* A callback of p concerns p alone, but for what p sends.
LEMMA EventOthers ==
    ASSUME IInv, Links, NEW p \in Peers, HandleEvent(p)
    PROVE  /\ UNCHANGED <<wire, server, socket, generation, localSource>>
           /\ \A x \in Sockets : x # socket[p] => up'[x] = up[x]
           /\ \A q \in Peers \ {p} : Untouched(q) /\ remoteSource'[q] = remoteSource[q]
  <1>1. UNCHANGED <<wire, server, socket, generation>>
    BY EventKeeps
  <1>2. localSource' = localSource
    BY DEF HandleEvent, OnConnected, OnDisconnected, OnPeerUpdate, OnState, OnFile, OnOpenUrl,
           OnIntent, session, hostData
  <1>3. up \in [Sockets -> Seq(Frames)]
    BY QueuesTyped
  <1>4. \A x \in Sockets : x # socket[p] => up'[x] = up[x]
    BY <1>3 DEF HandleEvent, OnConnected, OnDisconnected, OnPeerUpdate, OnState, OnFile, OnOpenUrl,
                OnIntent, Post
  <1>5. ASSUME NEW q \in Peers, q # p
        PROVE  Untouched(q) /\ remoteSource'[q] = remoteSource[q]
    <2>1. /\ joined \in [Peers -> BOOLEAN] /\ pendingJoin \in [Peers -> BOOLEAN]
          /\ remoteSource \in [Peers -> SourceValues] /\ stale \in [Peers -> Seq(Frames)]
      BY QueuesTyped DEF IInv, ClientOK, SessionOK
    <2>2. joined'[q] = joined[q] /\ pendingJoin'[q] = pendingJoin[q]
      BY <1>5, <2>1 DEF HandleEvent, OnConnected, OnDisconnected, OnPeerUpdate, OnState, OnFile,
                        OnOpenUrl, OnIntent
    <2>3. remoteSource'[q] = remoteSource[q]
      BY <1>5, <2>1 DEF HandleEvent, OnConnected, OnDisconnected, OnPeerUpdate, OnState, OnFile,
                        OnOpenUrl, OnIntent, session, guestData
    <2>4. stale'[q] = stale[q]
      BY <1>5, <2>1 DEF HandleEvent, Dequeue
    <2>5. CASE socket[q] = NoSocket
      BY <1>1, <2>2, <2>3, <2>4, <2>5 DEF Untouched
    <2>6. CASE socket[q] # NoSocket
      <3>1. socket[q] \in Sockets /\ socket[q] # socket[p]
        BY <1>5, <2>6, OthersAre
      <3>2. down'[socket[q]] = down[socket[q]]
        BY <1>5, <2>6, DequeueOthers DEF HandleEvent
      <3>3. QED
        BY <1>1, <1>4, <2>2, <2>3, <2>4, <3>1, <3>2 DEF Untouched
    <2>7. QED
      BY <2>5, <2>6
  <1>6. QED
    BY <1>1, <1>2, <1>4, <1>5

\* What guest g takes from its queues.
LEMMA GuestEventSourced ==
    ASSUME IInv, Links, Sourcing, NEW g \in Guests, HandleEvent(g), Attended(g)'
    PROVE  FileComes(g)'
  <1> DEFINE h == socket[Host]
             s == socket[g]
             F == FileFrame(localSource)
  <1>1. g \in Peers /\ Host \in Peers /\ g # Host
    BY PeersAssumption DEF Peers
  <1>2. /\ UNCHANGED <<wire, server, socket, generation, localSource>>
        /\ \A x \in Sockets : x # s => up'[x] = up[x]
        /\ Untouched(Host)
    BY <1>1, EventOthers
  <1>3. Attended(g)
    <2>1. UNCHANGED <<host, guests>> /\ joined'[Host] = joined[Host]
      BY <1>2 DEF server, Untouched
    <2>2. QED
      BY <1>2, <2>1 DEF Attended, CanSend, IsConnected, Online, Seated, Live, Untouched
  <1>4. FileComes(g) /\ h \in Sockets /\ h[1] = Host /\ down'[h] = down[h]
    BY <1>2, <1>3, SenderHasSeat DEF Sourcing, Attended, Untouched
  <1>5. s \in Sockets /\ s[1] = g /\ s # NoSocket
    BY <1>3, OnlineGuest DEF Attended
  <1>6. \A x \in Sockets : x[1] = Host => up'[x] = up[x]
    BY <1>1, <1>2, <1>5
  <1>7. peers' = peers /\ up'[h] = up[h]
    BY <1>2, <1>4, <1>6 DEF server
  <1>8. HostBusy => HostBusy'
    BY <1>2, <1>6, <1>7, BusyKept DEF Lingers
  <1>9. Asked => Asked'
    BY <1>2, <1>4, <1>7 DEF Asked
  <1>10. FileFrame(localSource)' = F /\ F \in Frames /\ F.type = "file"
    BY <1>2, FileIs DEF FileFrame
  <1>11. /\ down \in [Sockets -> Seq(Frames)] /\ stale \in [Peers -> Seq(Frames)]
         /\ remoteSource \in [Peers -> SourceValues] /\ down[s] \in Seq(Frames)
    BY <1>5, QueuesTyped DEF IInv, SessionOK
  <1>12. Queue(g) # <<>> /\ Dequeue(g)
    BY DEF HandleEvent
  <1>13. CASE HostBusy \/ Asked \/ Last(up[h], "file", F)
    <2>1. Last(up[h], "file", F) => Last(up'[socket'[Host]], "file", F)
      BY <1>2, <1>7
    <2>2. QED
      BY <1>8, <1>9, <1>10, <1>13, <2>1 DEF FileComes
  <1>14. CASE ~Has(up[h], "file") /\ Last(down[s], "file", F)
    <2>1. CASE stale[g] # <<>>
      <3>1. down' = down
        BY <1>12, <2>1 DEF Dequeue
      <3>2. QED
        BY <1>2, <1>7, <1>10, <1>14, <3>1 DEF FileComes
    <2>2. CASE stale[g] = <<>>
      <3>1. /\ Queue(g) = down[s] /\ Event(g) = Head(down[s]) /\ down[s] # <<>>
            /\ down'[s] = Tail(down[s]) /\ stale' = stale
        BY <1>5, <1>11, <1>12, <2>2 DEF Queue, Event, Dequeue
      <3> HIDE DEF F, s
      <3>2. Last(Tail(down[s]), "file", F) \/ (Head(down[s]) = F /\ ~Has(Tail(down[s]), "file"))
        BY <1>11, <1>14, <3>1, LastTail
      <3>3. CASE Last(Tail(down[s]), "file", F)
        BY <1>2, <1>7, <1>10, <1>14, <3>1, <3>3 DEF FileComes, s
      <3>4. CASE Head(down[s]) = F /\ ~Has(Tail(down[s]), "file")
        <4>1. Event(g).type = "file" /\ Event(g).source = localSource
          BY <3>1, <3>4 DEF F, FileFrame
        <4>2. OnFile(g)
          BY <4>1 DEF HandleEvent, OnConnected, OnDisconnected, OnPeerUpdate, OnState, OnOpenUrl,
                      OnIntent
        <4>3. remoteSource'[g] = localSource
          BY <1>1, <1>11, <4>1, <4>2 DEF OnFile
        <4>4. QED
          BY <1>2, <1>7, <1>14, <2>2, <3>1, <3>4, <4>3 DEF FileComes, s
      <3>5. QED
        BY <3>2, <3>3, <3>4
    <2>3. QED
      BY <2>1, <2>2
  <1>15. CASE /\ ~Has(up[h], "file") /\ ~Has(down[s], "file")
              /\ stale[g] = <<>> /\ remoteSource[g] = localSource
    <2>1. /\ Queue(g) = down[s] /\ Event(g) = Head(down[s]) /\ down[s] # <<>>
          /\ down'[s] = Tail(down[s]) /\ stale' = stale
      BY <1>5, <1>11, <1>12, <1>15 DEF Queue, Event, Dequeue
    <2>2. Event(g).type # "file" /\ ~Has(Tail(down[s]), "file")
      BY <1>11, <1>15, <2>1, HasTail
    <2>3. remoteSource' = remoteSource
      BY <2>2 DEF HandleEvent, OnConnected, OnDisconnected, OnPeerUpdate, OnState, OnFile, OnOpenUrl,
                  OnIntent, session, guestData
    <2>4. QED
      BY <1>2, <1>7, <1>15, <2>1, <2>2, <2>3 DEF FileComes
  <1>16. QED
    BY <1>4, <1>13, <1>14, <1>15 DEF FileComes

\* r tells the source, or tells nothing of it.
Tells(r) == Only(r, Talk) \/ Last(r, "file", FileFrame(localSource))

\* The source, when somebody is there, and then the rest.
LEMMA FileInfoTells ==
    ASSUME IInv, localSource # NoSource, NEW n, NEW r \in Seq(Frames), Only(r, Talk)
    PROVE  /\ FileInfo(n) \o r \in Seq(Frames) /\ Tells(FileInfo(n) \o r)
           /\ n > 0 => Last(FileInfo(n) \o r, "file", FileFrame(localSource))
  <1> DEFINE F == FileFrame(localSource)
  <1>1. F \in Frames /\ F.type = "file"
    BY FileIs
  <1>2. ~Has(r, "file")
    BY OnlyHas DEF Talk
  <1>3. CASE n > 0
    <2>1. FileInfo(n) = <<F>>
      BY <1>3 DEF FileInfo
    <2> HIDE DEF F
    <2>2. <<F>> \in Seq(Frames) /\ Last(<<F>>, "file", F)
      BY <1>1 DEF Last
    <2>3. Last(<<F>> \o r, "file", F) /\ <<F>> \o r \in Seq(Frames)
      BY <1>2, <2>2, LastConcatOld, ConcatProperties
    <2>4. QED
      BY <2>1, <2>3 DEF Tells, F
  <1>4. CASE ~(n > 0)
    <2>1. FileInfo(n) = <<>>
      BY <1>4 DEF FileInfo
    <2>2. <<>> \o r = r
      BY ConcatEmptySeq
    <2>3. QED
      BY <1>4, <2>1, <2>2 DEF Tells
  <1>5. QED
    BY <1>3, <1>4

\* What a host that is connected and has joined sends with a callback.
LEMMA HostSends ==
    ASSUME IInv, Links, HandleEvent(Host), CanSend(Host), localSource # NoSource
    PROVE  \E r \in Seq(Frames) :
              /\ up'[socket[Host]] = up[socket[Host]] \o r
              /\ Tells(r)
              /\ Event(Host).type = "peer_update" /\ Event(Host).guests > 0 =>
                    Last(r, "file", FileFrame(localSource))
  <1> DEFINE h == socket[Host]
             gc == guestCount[Host]
             F == FileFrame(localSource)
  <1>1. /\ h \in Sockets /\ h # NoSocket /\ Host \in Peers /\ up \in [Sockets -> Seq(Frames)]
        /\ up[h] \in Seq(Frames) /\ player[Host] \in PlayStates /\ localStateSeq \in Nat
        /\ shareUrl \in UrlValues
    BY SenderHasSeat, QueuesTyped DEF Peers, IInv, SessionOK
  <1>2. \A n : StateNow(player[Host], n) \in Seq(Frames) /\ Only(StateNow(player[Host], n), Talk)
    BY <1>1, StateNowIs, OnlyMore DEF Talk
  <1>3. <<>> \in Seq(Frames) /\ Only(<<>>, Talk) /\ Tells(<<>>) /\ up[h] \o <<>> = up[h]
    BY <1>1, OnlyEmpty, ConcatEmptySeq DEF Tells
  <1>4. CASE OnConnected(Host)
    <2> DEFINE pushed == IF connectionState[Host] # "Connected"
                         THEN FileInfo(gc) \o StateNow(player[Host], gc) ELSE <<>>
    <2>1. Event(Host).type # "peer_update"
      BY <1>4 DEF OnConnected
    <2>2. ~pendingJoin[Host]
      BY <1>1 DEF CanSend, Links, ClientLinks
    <2>3. up' = [up EXCEPT ![h] = @ \o (pushed \o <<>>)]
      BY <1>4, <2>2 DEF OnConnected, CanSend
    <2>4. pushed \in Seq(Frames) /\ Tells(pushed)
      BY <1>2, <1>3, FileInfoTells
    <2> HIDE DEF pushed
    <2>5. pushed \o <<>> = pushed
      BY <2>4, ConcatEmptySeq
    <2>6. up'[h] = up[h] \o pushed
      BY <1>1, <2>3, <2>5
    <2>7. QED
      BY <2>1, <2>4, <2>6
  <1>5. CASE OnDisconnected(Host) \/ OnState(Host) \/ OnFile(Host) \/ OnOpenUrl(Host)
    <2>1. up' = up /\ Event(Host).type # "peer_update"
      BY <1>5 DEF OnDisconnected, OnState, OnFile, OnOpenUrl
    <2>2. QED
      BY <1>3, <2>1
  <1>6. CASE OnPeerUpdate(Host)
    <2> DEFINE n     == Event(Host).guests
               new   == Newcomer(Host, n)
               link  == IF new /\ shareUrl # NoUrl THEN <<UrlFrame(shareUrl)>> ELSE <<>>
               state == IF new THEN StateNow(player[Host], n) ELSE <<>>
    <2>1. Post(Host, FileInfo(n) \o link \o state)
      BY <1>6 DEF OnPeerUpdate, Guarded
    <2>2. link \in Seq(Frames) /\ Only(link, Talk)
      BY <1>1, <1>3, UrlIs, OnlyOne DEF Talk
    <2>3. state \in Seq(Frames) /\ Only(state, Talk)
      BY <1>2, <1>3
    <2> HIDE DEF link, state, n
    <2>4. link \o state \in Seq(Frames) /\ Only(link \o state, Talk)
      BY <2>2, <2>3, OnlyConcat
    <2>5. FileInfo(n) \o link \o state = FileInfo(n) \o (link \o state)
      <3>1. FileInfo(n) \in Seq(Frames)
        BY FileInfoIs DEF IInv, SessionOK
      <3>2. QED
        BY <2>2, <2>3, <3>1, ConcatAssociative
    <2> DEFINE r == FileInfo(n) \o (link \o state)
    <2>6. r \in Seq(Frames) /\ Tells(r) /\ (n > 0 => Last(r, "file", F))
      BY <2>4, FileInfoTells
    <2>7. Post(Host, r)
      BY <2>1, <2>5
    <2> HIDE DEF r
    <2>8. up'[h] = up[h] \o r
      BY <1>1, <2>7 DEF Post
    <2>9. QED
      BY <2>6, <2>8 DEF n
  <1>7. CASE OnIntent(Host)
    <2> DEFINE st == Applied(Event(Host).command, player[Host])
    <2>1. Event(Host).type # "peer_update"
      BY <1>7 DEF OnIntent
    <2>2. up' = up \/ Post(Host, StateNow(st, gc))
      BY <1>7 DEF OnIntent, Guarded
    <2>3. CASE up' = up
      BY <1>3, <2>1, <2>3
    <2>4. CASE Post(Host, StateNow(st, gc))
      <3>1. st \in PlayStates
        <4>1. Event(Host) \in FramesOf(published) /\ published \in Seq(PlayStates)
          BY <1>1, DequeueTyped DEF IInv, SessionOK, HandleEvent
        <4>2. Event(Host).command \in Commands
          BY <1>7, <4>1, FramesRead DEF OnIntent
        <4>3. QED
          BY <1>1, <4>2, AppliedTyped
      <3> DEFINE r == StateNow(st, gc)
      <3>2. r \in Seq(Frames) /\ Only(r, {"state"})
        BY <1>1, <3>1, StateNowIs
      <3> HIDE DEF r
      <3>3. Only(r, Talk)
        BY <3>2, OnlyMore DEF Talk
      <3>4. Tells(r)
        BY <3>3 DEF Tells
      <3>5. up'[h] = up[h] \o r
        BY <1>1, <2>4 DEF Post, r
      <3>6. QED
        BY <2>1, <3>2, <3>4, <3>5
    <2>5. QED
      BY <2>2, <2>3, <2>4
  <1>8. QED
    BY <1>4, <1>5, <1>6, <1>7 DEF HandleEvent

\* The first callback of a connection sends the join, if it was not sent.
LEMMA HostJoins ==
    ASSUME IInv, Links, HandleEvent(Host), socket[Host] # NoSocket, Live(socket[Host]),
           ~joined[Host], joined'[Host]
    PROVE  Has(up'[socket[Host]], "join")
  <1> DEFINE h == socket[Host]
  <1>1. /\ Host \in Peers /\ h \in Sockets /\ h # NoSocket /\ Live(h)
        /\ up \in [Sockets -> Seq(Frames)] /\ up[h] \in Seq(Frames)
        /\ joined \in [Peers -> BOOLEAN] /\ pendingOutgoing[Host] \in Seq(Frames)
    BY SenderIs, QueuesTyped DEF Peers, IInv, ClientOK
  <1>2. OnConnected(Host)
    BY <1>1 DEF HandleEvent, OnDisconnected, OnPeerUpdate, OnState, OnFile,
                                 OnOpenUrl, OnIntent
  <1>3. IsConnected(Host) /\ pendingJoin[Host] /\ ~CanSend(Host)
    BY <1>1, <1>2 DEF OnConnected, IsConnected, CanSend
  <1> DEFINE r == <<JoinFrame(Host)>> \o pendingOutgoing[Host]
  <1>4. up' = [up EXCEPT ![h] = @ \o (<<>> \o r)]
    BY <1>2, <1>3 DEF OnConnected
  <1>5. JoinFrame(Host) \in Frames /\ JoinFrame(Host).type = "join"
    BY ValuesAssumption DEF JoinFrame, Frames
  <1>6. <<JoinFrame(Host)>> \in Seq(Frames) /\ Has(<<JoinFrame(Host)>>, "join")
    BY <1>5 DEF Has
  <1>7. r \in Seq(Frames) /\ Has(r, "join")
    BY <1>1, <1>6, HasConcat, ConcatProperties
  <1> HIDE DEF r
  <1>8. <<>> \o r = r
    BY <1>7, ConcatEmptySeq
  <1>9. up'[h] = up[h] \o r
    BY <1>1, <1>4, <1>8
  <1>10. QED
    BY <1>1, <1>7, <1>9, HasConcat

\* A callback of the host: it announces the source, or what was announced is
\* still on its way.
LEMMA HostEventSourced ==
    ASSUME IInv, Links, Sourcing, NEW g \in Guests, HandleEvent(Host), Attended(g)'
    PROVE  FileComes(g)'
  <1> DEFINE h == socket[Host]
             s == socket[g]
             F == FileFrame(localSource)
  <1>1. g \in Peers /\ Host \in Peers /\ g # Host
    BY PeersAssumption DEF Peers
  <1>2. /\ UNCHANGED <<wire, server, socket, generation, localSource>>
        /\ \A x \in Sockets : x # h => up'[x] = up[x]
        /\ Untouched(g) /\ remoteSource'[g] = remoteSource[g]
    BY <1>1, EventOthers
  <1>3. UNCHANGED <<host, guests, peers>>
    BY <1>2 DEF server
  <1>4. /\ h # NoSocket /\ Live(h) /\ joined'[Host] /\ localSource # NoSource /\ Online(g)
    BY <1>2, <1>3 DEF Attended, CanSend, IsConnected, Online, Seated, Live
  <1>5. h \in Sockets /\ s \in Sockets /\ s # h
    BY <1>1, <1>4, SenderIs, OnlineGuest
  <1>6. /\ up \in [Sockets -> Seq(Frames)] /\ down \in [Sockets -> Seq(Frames)] /\ up[h] \in Seq(Frames)
        /\ joined \in [Peers -> BOOLEAN] /\ stale \in [Peers -> Seq(Frames)]
        /\ pendingOutgoing[Host] \in Seq(Frames) /\ down[h] \in Seq(Frames)
    BY <1>1, <1>5, QueuesTyped DEF IInv, ClientOK
  <1>7. CASE ~joined[Host]
    <2>1. Has(up'[h], "join")
      BY <1>4, <1>7, HostJoins
    <2>2. QED
      BY <1>2, <2>1 DEF Asked, FileComes
  <1>8. CASE joined[Host]
    <2>1. CanSend(Host) /\ Attended(g)
      BY <1>4, <1>8 DEF CanSend, IsConnected, Attended
    <2>2. FileComes(g)
      BY <2>1 DEF Sourcing
    <2>3. PICK r \in Seq(Frames) :
              /\ up'[socket[Host]] = up[socket[Host]] \o r
              /\ Tells(r)
              /\ Event(Host).type = "peer_update" /\ Event(Host).guests > 0 =>
                    Last(r, "file", FileFrame(localSource))
      BY <1>4, <2>1, HostSends
    <2>4. CASE Last(r, "file", F)
      <3> HIDE DEF F
      <3>1. Last(up[h] \o r, "file", F)
        BY <1>6, <2>4, LastConcatNew
      <3>2. Last(up'[h], "file", F)
        BY <2>3, <3>1
      <3>3. FileFrame(localSource)' = F
        BY <1>2 DEF FileFrame, F
      <3>4. QED
        BY <1>2, <3>2, <3>3 DEF FileComes
    <2>5. CASE ~Last(r, "file", F)
      <3>1. Only(r, Talk) /\ ~(Event(Host).type = "peer_update" /\ Event(Host).guests > 0)
        BY <2>3, <2>5 DEF Tells
      <3>2. ASSUME NEW x \in Sockets
            PROVE  \E q \in Seq(Frames) : Only(q, Talk) /\ up'[x] = up[x] \o q
        <4>1. CASE x = h
          BY <2>3, <3>1, <4>1
        <4>2. CASE x # h
          <5>1. up'[x] = up[x] \o <<>>
            BY <1>2, <1>6, <4>2, ConcatEmptySeq
          <5>2. <<>> \in Seq(Frames) /\ Only(<<>>, Talk)
            BY OnlyEmpty
          <5>3. QED
            BY <5>1, <5>2
        <4>3. QED
          BY <4>1, <4>2
      <3>3. Asks(down[h]) => Asks(down'[h])
        <4>1. Queue(Host) # <<>> /\ Dequeue(Host)
          BY DEF HandleEvent
        <4>2. CASE stale[Host] # <<>>
          BY <4>1, <4>2 DEF Dequeue
        <4>3. CASE stale[Host] = <<>>
          <5>1. down[h] # <<>> /\ Event(Host) = Head(down[h]) /\ down'[h] = Tail(down[h])
            BY <1>4, <1>5, <1>6, <4>1, <4>3 DEF Queue, Event, Dequeue
          <5> HIDE DEF h
          <5>2. QED
            BY <1>6, <3>1, <5>1, AsksTail
        <4>4. QED
          BY <4>2, <4>3
      <3>4. stale'[g] = stale[g] /\ down'[s] = down[s] /\ "file" \notin Talk
        BY <1>2, <1>5, SocketsAssumption DEF Untouched, Talk
      <3>5. QED
        BY <1>2, <1>3, <1>5, <2>2, <3>2, <3>3, <3>4, GrownSourced
    <2>6. QED
      BY <2>4, <2>5
  <1>9. QED
    BY <1>7, <1>8

LEMMA EventSourced ==
    ASSUME IInv, Links, Sourcing, NEW p \in Peers, HandleEvent(p)
    PROVE  Sourcing'
  <1>1. SUFFICES ASSUME NEW g \in Guests, Attended(g)' PROVE FileComes(g)'
    BY DEF Sourcing
  <1>2. Host \in Peers /\ g \in Peers
    BY DEF Peers
  <1>3. CASE p = Host
    BY <1>1, <1>3, HostEventSourced
  <1>4. CASE p = g
    BY <1>1, <1>4, GuestEventSourced
  <1>5. CASE p # Host /\ p # g
    <2>1. /\ Untouched(g) /\ Untouched(Host) /\ remoteSource'[g] = remoteSource[g]
          /\ UNCHANGED <<server, localSource>>
          /\ \A x \in Sockets : x # socket[p] => up'[x] = up[x]
      BY <1>2, <1>5, EventOthers
    <2>2. ASSUME NEW x \in Sockets, x[1] = Host PROVE x # socket[p]
      <3>1. CASE socket[p] = NoSocket
        BY <3>1, SocketsAssumption
      <3>2. CASE socket[p] # NoSocket
        BY <1>5, <2>2, <3>2, SenderIs
      <3>3. QED
        BY <3>1, <3>2
    <2>3. QED
      BY <1>1, <2>1, <2>2, UntouchedSourced DEF server
  <1>6. QED
    BY <1>3, <1>4, <1>5

LEMMA NextSourced ==
    ASSUME IInv, IInv', Links, Links', Informing, Sourcing, [Next]_vars
    PROVE  Sourcing'
  <1>1. CASE UNCHANGED vars
    BY <1>1 DEF vars, net, server, client, session, hostData, guestData, Sourcing, Attended, CanSend,
                IsConnected, Online, Seated, Live, FileComes, HostBusy, Lingers, Asked, Asks,
                Last, Has, FileFrame
  <1>2. CASE StartHostSession
    <2>1. /\ ConnectAndJoin(Host) /\ Host \in Peers
          /\ UNCHANGED <<peers, host, guests, localSource, remoteSource>>
      BY <1>2 DEF StartHostSession, Peers
    <2>2. QED
      BY <2>1, ConnectSourced
  <1>3. ASSUME NEW g \in Guests, JoinSession(g) PROVE Sourcing'
    <2>1. /\ ConnectAndJoin(g) /\ g \in Peers
          /\ UNCHANGED <<peers, host, guests, localSource, remoteSource>>
      BY <1>3 DEF JoinSession, Peers, server, hostData
    <2>2. QED
      BY <2>1, ConnectSourced
  <1>4. ASSUME NEW p \in Peers, Reconnect(p) PROVE Sourcing'
    <2>1. /\ ConnectAndJoin(p)
          /\ UNCHANGED <<peers, host, guests, localSource, remoteSource>>
      BY <1>4 DEF Reconnect, server, session, hostData, guestData
    <2>2. QED
      BY <2>1, ConnectSourced
  <1>5. CASE \/ Heartbeat
             \/ \E u \in Urls : ShareOpenUrl(u)
             \/ \E p \in Peers, cmd \in Commands : UserCommand(p, cmd)
    BY <1>5, UserStepSourced
  <1>6. ASSUME NEW f \in Sources \cup Urls, SetLocalFileInfo(f) PROVE Sourcing'
    BY <1>6, OpenedSourced
  <1>7. ASSUME NEW g \in Guests, LeaveSession(g) PROVE Sourcing'
    BY <1>7, LeaveSourced
  <1>8. ASSUME NEW p \in Peers, HandleEvent(p) PROVE Sourcing'
    BY <1>8, EventSourced
  <1>9. ASSUME NEW s \in Sockets, ServerStep(s) PROVE Sourcing'
    BY <1>9, ServerSourced
  <1>10. ASSUME NEW s \in Sockets, Open(s) \/ Refuse(s) \/ Drop(s) PROVE Sourcing'
    BY <1>10, WireSourced
  <1>11. QED
    BY <1>1, <1>2, <1>3, <1>4, <1>5, <1>6, <1>7, <1>8, <1>9, <1>10 DEF Next

LEMMA SourcingHolds == Spec => []Sourcing
  <1>1. Init => Sourcing
    BY DEF Init, Sourcing, Attended, CanSend, IsConnected, Peers
  <1>2. IInv /\ IInv' /\ Links /\ Links' /\ Informing /\ Sourcing /\ [Next]_vars => Sourcing'
    BY NextSourced
  <1>3. QED
    BY <1>1, <1>2, Invariance, LinksHold, InformingHolds, PTL DEF Spec

\* Once everything has arrived, every guest verifies its file against what the
\* host has open now, whoever lost a connection, left or came back meanwhile.
THEOREM EveryoneKnowsTheSource == Spec => []SourceSettles
  <1>1. IInv /\ Links /\ Sourcing => SourceSettles
    BY SourceOfSettled
  <1>2. QED
    BY <1>1, Invariance, LinksHold, SourcingHolds, PTL

----------------------------------------------------------------------------
(* Which states a queue holds.                                             *)

\* All states in q are older than number n.
Lacks(q, n) == \A k \in 1 .. Len(q) : q[k].type = "state" => q[k].seq < n

\* State m is in q, once, and the others in q are older.
Carries(q, m) ==
    \E i \in 1 .. Len(q) :
       /\ q[i] = m
       /\ \A k \in 1 .. Len(q) : k # i /\ q[k].type = "state" => q[k].seq < m.seq

\* From place i on, whoever reads q is told that there is a host.
OnlineFrom(q, i) ==
    \A k \in 1 .. Len(q) : k >= i /\ q[k].type = "peer_update" => q[k].host

\* Likewise; and when m is read the reader knows that there is a host, and has
\* no reason to doubt it later.
CarriesAware(q, m, aware) ==
    \E j \in 1 .. Len(q) :
       /\ q[j] = m
       /\ \A k \in 1 .. Len(q) : k # j /\ q[k].type = "state" => q[k].seq < m.seq
       /\ \/ aware /\ OnlineFrom(q, 1)
          \/ \E i \in 1 .. Len(q) : i < j /\ q[i].type = "peer_update" /\ OnlineFrom(q, i)

\* Whoever counts c guests will, reading q, once be told of more than before.
Rises(c, q) ==
    \E j \in 1 .. Len(q) :
       /\ q[j].type = "peer_update"
       /\ \/ c < q[j].guests
          \/ \E i \in 1 .. Len(q) : i < j /\ q[i].type = "peer_update" /\ q[i].guests < q[j].guests

LEMMA LacksTail ==
    ASSUME NEW F, NEW q \in Seq(F), q # <<>>, NEW n, Lacks(q, n)
    PROVE  Lacks(Tail(q), n) /\ (Head(q).type = "state" => Head(q).seq < n)
  <1>1. /\ Head(q) = q[1] /\ 1 \in 1 .. Len(q)
        /\ \A i \in 1 .. Len(Tail(q)) : Tail(q)[i] = q[i + 1] /\ i + 1 \in 1 .. Len(q)
    BY TailRead
  <1>2. QED
    BY <1>1 DEF Lacks

LEMMA LacksAppend ==
    ASSUME NEW F, NEW q \in Seq(F), NEW n, Lacks(q, n), NEW m \in F,
           m.type = "state" => m.seq < n
    PROVE  Lacks(Append(q, m), n)
  <1>1. \A i \in 1 .. Len(Append(q, m)) :
           (i \in 1 .. Len(q) /\ Append(q, m)[i] = q[i]) \/ Append(q, m)[i] = m
    BY AppendRead
  <1>2. QED
    BY <1>1 DEF Lacks

LEMMA LacksMore ==
    ASSUME NEW F, NEW q \in Seq(F), NEW r \in Seq(F), NEW n, Lacks(q, n), ~Has(r, "state")
    PROVE  Lacks(q \o r, n)
  <1>1. \A i \in 1 .. Len(q \o r) :
           \/ i \in 1 .. Len(q) /\ (q \o r)[i] = q[i]
           \/ i - Len(q) \in 1 .. Len(r) /\ (q \o r)[i] = r[i - Len(q)]
    BY ConcatRead
  <1>2. QED
    BY <1>1 DEF Lacks, Has

LEMMA LacksBelow ==
    ASSUME NEW log, NEW q \in Seq(FramesOf(log)), NEW n \in Nat, Len(log) \in Nat, Len(log) < n
    PROVE  Lacks(q, n)
  <1>1. ASSUME NEW k \in 1 .. Len(q), q[k].type = "state" PROVE q[k].seq < n
    <2>1. q[k] \in FramesOf(log)
      OBVIOUS
    <2>2. q[k].seq \in 1 .. Len(log)
      BY <1>1, <2>1 DEF FramesOf
    <2>3. QED
      BY <2>2
  <1>2. QED
    BY <1>1 DEF Lacks

LEMMA CarriesNew ==
    ASSUME NEW F, NEW q \in Seq(F), NEW m \in F, Lacks(q, m.seq)
    PROVE  Carries(Append(q, m), m)
  <1>1. /\ Len(Append(q, m)) = Len(q) + 1 /\ Len(q) \in Nat
        /\ Append(q, m)[Len(q) + 1] = m
        /\ \A i \in 1 .. Len(q) : Append(q, m)[i] = q[i]
    BY AppendRead
  <1>2. \A k \in 1 .. Len(Append(q, m)) : k # Len(q) + 1 => k \in 1 .. Len(q)
    BY <1>1
  <1>3. QED
    BY <1>1, <1>2 DEF Carries, Lacks

LEMMA CarriesMore ==
    ASSUME NEW F, NEW q \in Seq(F), NEW r \in Seq(F), NEW m, Carries(q, m), ~Has(r, "state")
    PROVE  Carries(q \o r, m)
  <1>1. PICK i \in 1 .. Len(q) :
           /\ q[i] = m
           /\ \A k \in 1 .. Len(q) : k # i /\ q[k].type = "state" => q[k].seq < m.seq
    BY DEF Carries
  <1>2. /\ i \in 1 .. Len(q \o r) /\ (q \o r)[i] = m
        /\ \A k \in 1 .. Len(q \o r) :
              \/ k \in 1 .. Len(q) /\ (q \o r)[k] = q[k]
              \/ k - Len(q) \in 1 .. Len(r) /\ (q \o r)[k] = r[k - Len(q)]
    BY <1>1, ConcatRead
  <1>3. QED
    BY <1>1, <1>2 DEF Carries, Has

LEMMA CarriesTail ==
    ASSUME NEW F, NEW q \in Seq(F), q # <<>>, NEW m, Carries(q, m)
    PROVE  \/ Carries(Tail(q), m) /\ (Head(q).type = "state" => Head(q).seq < m.seq)
           \/ Head(q) = m /\ Lacks(Tail(q), m.seq)
  <1>1. PICK i \in 1 .. Len(q) :
           /\ q[i] = m
           /\ \A k \in 1 .. Len(q) : k # i /\ q[k].type = "state" => q[k].seq < m.seq
    BY DEF Carries
  <1>2. /\ Head(q) = q[1] /\ 1 \in 1 .. Len(q) /\ Len(q) \in Nat /\ Len(Tail(q)) = Len(q) - 1
        /\ \A k \in 1 .. Len(Tail(q)) : Tail(q)[k] = q[k + 1] /\ k + 1 \in 1 .. Len(q)
    BY TailRead
  <1>3. CASE i = 1
    BY <1>1, <1>2, <1>3 DEF Lacks
  <1>4. CASE i # 1
    <2>1. i - 1 \in 1 .. Len(Tail(q)) /\ Tail(q)[i - 1] = m
      BY <1>1, <1>2, <1>4
    <2>2. \A k \in 1 .. Len(Tail(q)) :
             k # i - 1 /\ Tail(q)[k].type = "state" => Tail(q)[k].seq < m.seq
      BY <1>1, <1>2
    <2>3. QED
      BY <1>1, <1>2, <1>4, <2>1, <2>2 DEF Carries
  <1>5. QED
    BY <1>3, <1>4

LEMMA OnlineTail ==
    ASSUME NEW F, NEW q \in Seq(F), q # <<>>, NEW i \in Nat, OnlineFrom(q, i)
    PROVE  /\ i <= 1 => OnlineFrom(Tail(q), 1)
           /\ i <= 1 /\ Head(q).type = "peer_update" => Head(q).host
           /\ i > 1 => OnlineFrom(Tail(q), i - 1)
  <1>1. /\ Head(q) = q[1] /\ 1 \in 1 .. Len(q) /\ Len(q) \in Nat /\ Len(Tail(q)) = Len(q) - 1
        /\ \A k \in 1 .. Len(Tail(q)) : Tail(q)[k] = q[k + 1] /\ k + 1 \in 1 .. Len(q)
    BY TailRead
  <1>2. \A k \in 1 .. Len(Tail(q)) : k + 1 >= i /\ Tail(q)[k].type = "peer_update" => Tail(q)[k].host
    BY <1>1 DEF OnlineFrom
  <1>3. QED
    BY <1>1, <1>2 DEF OnlineFrom

LEMMA OnlineAppend ==
    ASSUME NEW F, NEW q \in Seq(F), NEW i, OnlineFrom(q, i), NEW m \in F,
           m.type = "peer_update" => m.host
    PROVE  OnlineFrom(Append(q, m), i)
  <1>1. \A k \in 1 .. Len(Append(q, m)) :
           (k \in 1 .. Len(q) /\ Append(q, m)[k] = q[k]) \/ Append(q, m)[k] = m
    BY AppendRead
  <1>2. QED
    BY <1>1 DEF OnlineFrom

LEMMA OnlineNone ==
    ASSUME NEW q, ~Has(q, "peer_update"), NEW i
    PROVE  OnlineFrom(q, i)
  BY DEF OnlineFrom, Has

LEMMA AwareMore ==
    ASSUME NEW q, NEW m, NEW a, NEW b, CarriesAware(q, m, a), a => b
    PROVE  CarriesAware(q, m, b)
  BY DEF CarriesAware

LEMMA AwareAppend ==
    ASSUME NEW F, NEW q \in Seq(F), NEW m, NEW a, CarriesAware(q, m, a), NEW x \in F,
           x.type = "state" => x.seq < m.seq, x.type = "peer_update" => x.host
    PROVE  CarriesAware(Append(q, x), m, a)
  <1>1. PICK j \in 1 .. Len(q) :
           /\ q[j] = m
           /\ \A k \in 1 .. Len(q) : k # j /\ q[k].type = "state" => q[k].seq < m.seq
           /\ \/ a /\ OnlineFrom(q, 1)
              \/ \E i \in 1 .. Len(q) : i < j /\ q[i].type = "peer_update" /\ OnlineFrom(q, i)
    BY DEF CarriesAware
  <1> DEFINE r == Append(q, x)
  <1>2. /\ 1 .. Len(q) \subseteq 1 .. Len(r)
        /\ \A k \in 1 .. Len(q) : r[k] = q[k]
        /\ \A k \in 1 .. Len(r) : (k \in 1 .. Len(q) /\ r[k] = q[k]) \/ r[k] = x
    BY AppendRead
  <1>3. \A i : OnlineFrom(q, i) => OnlineFrom(r, i)
    BY OnlineAppend
  <1> HIDE DEF r
  <1>4. /\ j \in 1 .. Len(r) /\ r[j] = m
        /\ \A k \in 1 .. Len(r) : k # j /\ r[k].type = "state" => r[k].seq < m.seq
    BY <1>1, <1>2
  <1>5. \/ a /\ OnlineFrom(r, 1)
        \/ \E i \in 1 .. Len(r) : i < j /\ r[i].type = "peer_update" /\ OnlineFrom(r, i)
    BY <1>1, <1>2, <1>3
  <1>6. CarriesAware(r, m, a)
    BY <1>4, <1>5 DEF CarriesAware
  <1>7. QED
    BY <1>6 DEF r

LEMMA AwareNew ==
    ASSUME NEW F, NEW q \in Seq(F), NEW m \in F, m.type = "state", Lacks(q, m.seq), NEW a,
           \/ a /\ ~Has(q, "peer_update")
           \/ \E i \in 1 .. Len(q) : q[i].type = "peer_update" /\ OnlineFrom(q, i)
    PROVE  CarriesAware(Append(q, m), m, a)
  <1> DEFINE r == Append(q, m)
             j == Len(q) + 1
  <1>1. /\ 1 .. Len(q) \subseteq 1 .. Len(r) /\ j \in 1 .. Len(r) /\ r[j] = m /\ Len(q) \in Nat
        /\ \A k \in 1 .. Len(q) : r[k] = q[k]
        /\ \A k \in 1 .. Len(r) : (k \in 1 .. Len(q) /\ r[k] = q[k]) \/ k = j
    BY AppendRead
  <1>2. \A i : OnlineFrom(q, i) => OnlineFrom(r, i)
    BY OnlineAppend
  <1> HIDE DEF r
  <1>3. \A k \in 1 .. Len(r) : k # j /\ r[k].type = "state" => r[k].seq < m.seq
    BY <1>1 DEF Lacks
  <1>4. \/ a /\ OnlineFrom(r, 1)
        \/ \E i \in 1 .. Len(r) : i < j /\ r[i].type = "peer_update" /\ OnlineFrom(r, i)
    <2>1. CASE a /\ ~Has(q, "peer_update")
      BY <1>2, <2>1, OnlineNone
    <2>2. CASE \E i \in 1 .. Len(q) : q[i].type = "peer_update" /\ OnlineFrom(q, i)
      BY <1>1, <1>2, <2>2
    <2>3. QED
      BY <2>1, <2>2
  <1>5. CarriesAware(r, m, a)
    BY <1>1, <1>3, <1>4 DEF CarriesAware
  <1>6. QED
    BY <1>5 DEF r

\* b is what the reader knows once it has read the first frame.
LEMMA AwareTail ==
    ASSUME NEW F, NEW q \in Seq(F), q # <<>>, NEW m, NEW a, CarriesAware(q, m, a), NEW b,
           Head(q).type = "peer_update" /\ Head(q).host => b,
           Head(q).type # "peer_update" /\ a => b
    PROVE  \/ CarriesAware(Tail(q), m, b) /\ (Head(q).type = "state" => Head(q).seq < m.seq)
           \/ Head(q) = m /\ a /\ OnlineFrom(Tail(q), 1)
  <1>1. PICK j \in 1 .. Len(q) :
           /\ q[j] = m
           /\ \A k \in 1 .. Len(q) : k # j /\ q[k].type = "state" => q[k].seq < m.seq
           /\ \/ a /\ OnlineFrom(q, 1)
              \/ \E i \in 1 .. Len(q) : i < j /\ q[i].type = "peer_update" /\ OnlineFrom(q, i)
    BY DEF CarriesAware
  <1> DEFINE r == Tail(q)
  <1>2. /\ Head(q) = q[1] /\ 1 \in 1 .. Len(q) /\ Len(q) \in Nat /\ Len(r) = Len(q) - 1
        /\ \A k \in 1 .. Len(r) : r[k] = q[k + 1] /\ k + 1 \in 1 .. Len(q)
    BY TailRead
  <1>3. OnlineFrom(q, 1) => OnlineFrom(r, 1) /\ (Head(q).type = "peer_update" => Head(q).host)
    BY OnlineTail
  <1>4. \A i \in 1 .. Len(q) : i > 1 /\ OnlineFrom(q, i) => OnlineFrom(r, i - 1)
    BY <1>2, OnlineTail
  <1> HIDE DEF r
  <1>5. CASE j = 1
    <2>1. a /\ OnlineFrom(q, 1)
      BY <1>1, <1>5
    <2>2. QED
      BY <1>1, <1>2, <1>3, <1>5, <2>1 DEF r
  <1>6. CASE j # 1
    <2> DEFINE l == j - 1
    <2>1. /\ l \in 1 .. Len(r) /\ r[l] = m
          /\ \A k \in 1 .. Len(r) : k # l /\ r[k].type = "state" => r[k].seq < m.seq
          /\ Head(q).type = "state" => Head(q).seq < m.seq
      <3>1. l \in 1 .. Len(r) /\ r[l] = m
        BY <1>1, <1>2, <1>6
      <3>2. ASSUME NEW k \in 1 .. Len(r), k # l, r[k].type = "state" PROVE r[k].seq < m.seq
        <4>1. k + 1 \in 1 .. Len(q) /\ q[k + 1] = r[k] /\ k + 1 # j
          BY <1>2, <3>2
        <4>2. QED
          BY <1>1, <3>2, <4>1
      <3>3. Head(q).type = "state" => Head(q).seq < m.seq
        BY <1>1, <1>2, <1>6
      <3>4. QED
        BY <3>1, <3>2, <3>3
    <2>2. \/ b /\ OnlineFrom(r, 1)
          \/ \E i \in 1 .. Len(r) : i < l /\ r[i].type = "peer_update" /\ OnlineFrom(r, i)
      <3>1. CASE a /\ OnlineFrom(q, 1)
        BY <1>3, <3>1
      <3>2. CASE \E i \in 1 .. Len(q) : i < j /\ q[i].type = "peer_update" /\ OnlineFrom(q, i)
        <4>1. PICK i \in 1 .. Len(q) : i < j /\ q[i].type = "peer_update" /\ OnlineFrom(q, i)
          BY <3>2
        <4>2. CASE i = 1
          BY <1>2, <1>3, <4>1, <4>2
        <4>3. CASE i # 1
          <5>1. i - 1 \in 1 .. Len(r) /\ r[i - 1] = q[i] /\ OnlineFrom(r, i - 1) /\ i - 1 < l
            BY <1>2, <1>4, <4>1, <4>3
          <5>2. QED
            BY <4>1, <5>1
        <4>4. QED
          BY <4>2, <4>3
      <3>3. QED
        BY <1>1, <3>1, <3>2
    <2> HIDE DEF l
    <2>3. CarriesAware(r, m, b)
      BY <2>1, <2>2 DEF CarriesAware
    <2>4. QED
      BY <2>1, <2>3 DEF r
  <1>7. QED
    BY <1>5, <1>6

LEMMA RisesAppend ==
    ASSUME NEW F, NEW q \in Seq(F), NEW m \in F, NEW c, Rises(c, q)
    PROVE  Rises(c, Append(q, m))
  <1>1. /\ 1 .. Len(q) \subseteq 1 .. Len(Append(q, m))
        /\ \A k \in 1 .. Len(q) : Append(q, m)[k] = q[k]
    BY AppendRead
  <1>2. PICK j \in 1 .. Len(q) :
           /\ q[j].type = "peer_update"
           /\ \/ c < q[j].guests
              \/ \E i \in 1 .. Len(q) :
                    i < j /\ q[i].type = "peer_update" /\ q[i].guests < q[j].guests
    BY DEF Rises
  <1>3. QED
    BY <1>1, <1>2 DEF Rises

LEMMA RisesNew ==
    ASSUME NEW F, NEW q \in Seq(F), NEW m \in F, NEW c, m.type = "peer_update",
           \/ c < m.guests
           \/ \E r : Last(q, "peer_update", r) /\ r.type = "peer_update" /\ r.guests < m.guests
    PROVE  Rises(c, Append(q, m))
  <1> DEFINE j == Len(q) + 1
             w == Append(q, m)
  <1>1. /\ 1 .. Len(q) \subseteq 1 .. Len(w) /\ j \in 1 .. Len(w) /\ w[j] = m /\ Len(q) \in Nat
        /\ \A k \in 1 .. Len(q) : w[k] = q[k] /\ k < j
    BY AppendRead
  <1> HIDE DEF w, j
  <1>2. CASE c < m.guests
    BY <1>1, <1>2 DEF Rises, w
  <1>3. CASE \E r : Last(q, "peer_update", r) /\ r.type = "peer_update" /\ r.guests < m.guests
    <2>1. PICK i \in 1 .. Len(q) : q[i].type = "peer_update" /\ q[i].guests < m.guests
      BY <1>3 DEF Last
    <2>2. i \in 1 .. Len(w) /\ i < j /\ w[i].type = "peer_update" /\ w[i].guests < w[j].guests
      BY <1>1, <2>1
    <2>3. QED
      BY <1>1, <2>2 DEF Rises, w
  <1>4. QED
    BY <1>2, <1>3

LEMMA RisesAt ==
    ASSUME NEW q, NEW r, NEW c, Last(q, "peer_update", r), r.type = "peer_update", c < r.guests
    PROVE  Rises(c, q)
  BY DEF Last, Rises

LEMMA RisesTail ==
    ASSUME NEW q \in Seq(Frames), q # <<>>, NEW c \in Nat, Rises(c, q)
    PROVE  /\ Head(q).type # "peer_update" => Rises(c, Tail(q))
           /\ Head(q).type = "peer_update" /\ ~(Head(q).guests > c) => Rises(Head(q).guests, Tail(q))
  <1> DEFINE r == Tail(q)
  <1>1. /\ Head(q) = q[1] /\ 1 \in 1 .. Len(q) /\ Len(q) \in Nat /\ Len(r) = Len(q) - 1
        /\ \A k \in 1 .. Len(r) : r[k] = q[k + 1] /\ k + 1 \in 1 .. Len(q)
    BY TailRead
  <1>2. \A k \in 1 .. Len(q) : q[k].type = "peer_update" => q[k].guests \in Nat
    <2>1. \A k \in 1 .. Len(q) : q[k] \in Frames
      OBVIOUS
    <2>2. QED
      BY <2>1 DEF Frames
  <1>3. PICK j \in 1 .. Len(q) :
           /\ q[j].type = "peer_update"
           /\ \/ c < q[j].guests
              \/ \E i \in 1 .. Len(q) :
                    i < j /\ q[i].type = "peer_update" /\ q[i].guests < q[j].guests
    BY DEF Rises
  <1> HIDE DEF r
  <1>4. \A k \in 1 .. Len(q) : k # 1 => k - 1 \in 1 .. Len(r) /\ r[k - 1] = q[k]
    BY <1>1
  <1>5. CASE Head(q).type # "peer_update"
    <2>1. j # 1 /\ j - 1 \in 1 .. Len(r) /\ r[j - 1] = q[j]
      BY <1>1, <1>3, <1>4, <1>5
    <2>2. CASE c < q[j].guests
      BY <1>3, <1>5, <2>1, <2>2 DEF Rises, r
    <2>3. CASE \E i \in 1 .. Len(q) :
                  i < j /\ q[i].type = "peer_update" /\ q[i].guests < q[j].guests
      <3>1. PICK i \in 1 .. Len(q) :
                  i < j /\ q[i].type = "peer_update" /\ q[i].guests < q[j].guests
        BY <2>3
      <3>2. i - 1 \in 1 .. Len(r) /\ r[i - 1] = q[i] /\ i - 1 < j - 1
        BY <1>1, <1>4, <1>5, <3>1
      <3>3. QED
        BY <1>3, <1>5, <2>1, <3>1, <3>2 DEF Rises, r
    <2>4. QED
      BY <1>3, <2>2, <2>3
  <1>6. CASE Head(q).type = "peer_update" /\ ~(Head(q).guests > c)
    <2>1. Head(q).guests \in Nat /\ Head(q).guests <= c
      BY <1>1, <1>2, <1>6
    <2>2. CASE c < q[j].guests
      <3>1. j # 1 /\ Head(q).guests < q[j].guests
        BY <1>1, <1>2, <1>3, <2>1, <2>2
      <3>2. j - 1 \in 1 .. Len(r) /\ r[j - 1] = q[j]
        BY <1>4, <3>1
      <3>3. QED
        BY <1>3, <1>6, <3>1, <3>2 DEF Rises, r
    <2>3. CASE \E i \in 1 .. Len(q) :
                  i < j /\ q[i].type = "peer_update" /\ q[i].guests < q[j].guests
      <3>1. PICK i \in 1 .. Len(q) :
                  i < j /\ q[i].type = "peer_update" /\ q[i].guests < q[j].guests
        BY <2>3
      <3>2. j # 1 /\ j - 1 \in 1 .. Len(r) /\ r[j - 1] = q[j]
        BY <1>4, <3>1
      <3>3. CASE i = 1
        BY <1>1, <1>3, <1>6, <3>1, <3>2, <3>3 DEF Rises, r
      <3>4. CASE i # 1
        <4>1. i - 1 \in 1 .. Len(r) /\ r[i - 1] = q[i] /\ i - 1 < j - 1
          BY <1>4, <3>1, <3>4
        <4>2. QED
          BY <1>3, <1>6, <3>1, <3>2, <4>1 DEF Rises, r
      <3>5. QED
        BY <3>3, <3>4
    <2>4. QED
      BY <1>3, <2>2, <2>3
  <1>7. QED
    BY <1>5, <1>6

----------------------------------------------------------------------------
(* Who is told what the host plays, as long as its connection lasts.       *)

\* The state the host captured last.
Top == StateFrame(player[Host], localStateSeq)

\* Guest g knows that there is a host, so its user asks instead of acting.
Aware(g) == stale[g] = <<>> /\ hostOnline[g]

\* The host will hear of a newcomer, and then send its state to everybody.
Renews == Has(up[socket[Host]], "join") \/ Rises(guestCount[Host], down[socket[Host]])

OnItsWay(g) ==
    /\ Lacks(stale[g], localStateSeq) /\ lastRemoteSeq[g] < localStateSeq
    /\ \/ Carries(up[socket[Host]], Top) /\ Lacks(down[socket[g]], localStateSeq)
       \/ /\ Lacks(up[socket[Host]], localStateSeq)
          /\ CarriesAware(down[socket[g]], Top, Aware(g))

Taken(g) ==
    /\ lastRemoteSeq[g] = localStateSeq /\ player[g] = player[Host]
    /\ Aware(g) /\ OnlineFrom(down[socket[g]], 1)

StateComes(g) == Renews \/ OnItsWay(g) \/ Taken(g)

\* Before its join is handled, the host counts nobody.
Early == \/ socket[Host] = NoSocket
         \/ wire[socket[Host]] # "down" /\ peers[socket[Host]].role # "host"
HostFresh ==
    /\ \A s \in Sockets : wire[s] = "idle" => ~Has(down[s], "peer_update")
    /\ generation[Host] <= 1 =>
          /\ stale[Host] = <<>>
          /\ Early => /\ guestCount[Host] = 0
                      /\ socket[Host] # NoSocket => ~Has(down[socket[Host]], "peer_update")
HasFilm == localSource # NoSource
Stating == \A g \in Guests : generation[Host] <= 1 /\ Attended(g) => StateComes(g)

LEMMA TopIs ==
    ASSUME IInv
    PROVE  /\ Top \in Frames /\ Top.type = "state" /\ Top.seq = localStateSeq
           /\ Top.state = player[Host]
  <1>1. player[Host] \in PlayStates /\ localStateSeq \in Nat
    BY DEF IInv, SessionOK, Peers
  <1>2. QED
    BY <1>1 DEF Top, StateFrame, Frames

\* No number above the host's last is anywhere.
LEMMA NothingAbove ==
    ASSUME IInv, NEW n \in Nat, localStateSeq < n
    PROVE  /\ \A x \in Sockets : Lacks(up[x], n) /\ Lacks(down[x], n)
           /\ \A p \in Peers : Lacks(stale[p], n)
           /\ \A g \in Guests : lastRemoteSeq[g] < n
  <1>1. /\ up \in [Sockets -> Seq(FramesOf(published))] /\ down \in [Sockets -> Seq(FramesOf(published))]
        /\ stale \in [Peers -> Seq(FramesOf(published))]
        /\ Len(published) \in Nat /\ localStateSeq = Len(published)
        /\ \A g \in Guests : lastRemoteSeq[g] <= localStateSeq
        /\ \A g \in Guests : lastRemoteSeq[g] \in Nat
    BY DEF IInv, Channels, SessionOK, NextStateIsTaken, Peers
  <1>2. \A q \in Seq(FramesOf(published)) : Lacks(q, n)
    BY <1>1, LacksBelow
  <1>3. QED
    BY <1>1, <1>2

\* A state sent after everything else.
LEMMA FreshState ==
    ASSUME IInv, NEW g \in Guests, socket[Host] \in Sockets, socket[g] \in Sockets,
           UNCHANGED socket, localStateSeq' = localStateSeq + 1,
           NEW r \in Seq(Frames), ~Has(r, "state"), Top' \in Frames, player'[Host] \in PlayStates,
           up'[socket[Host]] = up[socket[Host]] \o (r \o <<Top'>>),
           lastRemoteSeq'[g] = lastRemoteSeq[g], stale'[g] = stale[g],
           down'[socket[g]] = down[socket[g]]
    PROVE  StateComes(g)'
  <1> DEFINE h == socket[Host]
             n == localStateSeq + 1
             m == StateFrame(player'[Host], n)
  <1>1. n \in Nat /\ localStateSeq < n /\ g \in Peers /\ up[h] \in Seq(Frames)
    BY QueuesTyped DEF IInv, SessionOK, Peers
  <1>2. /\ Lacks(up[h], n) /\ Lacks(down[socket[g]], n) /\ Lacks(stale[g], n)
        /\ lastRemoteSeq[g] < n
    BY <1>1, NothingAbove
  <1>3. m.seq = n /\ Top' = m
    BY DEF StateFrame, Top
  <1>4. m \in Frames
    BY <1>3
  <1> DEFINE q == up[h] \o r
  <1> HIDE DEF n, m, h
  <1>5. q \in Seq(Frames) /\ Lacks(q, n)
    BY <1>1, <1>2, LacksMore, ConcatProperties
  <1>6. <<m>> \in Seq(Frames) /\ (up[h] \o r) \o <<m>> = up[h] \o (r \o <<m>>)
    <2> DEFINE one == <<m>>
               u == up[h]
    <2>1. one \in Seq(Frames) /\ u \in Seq(Frames)
      BY <1>1, <1>4
    <2> HIDE DEF one, u
    <2>2. (u \o r) \o one = u \o (r \o one)
      BY <2>1, ConcatAssociative
    <2>3. QED
      BY <2>1, <2>2 DEF one, u
  <1> HIDE DEF q
  <1>7. q \o <<m>> = Append(q, m)
    BY <1>4, <1>5
  <1>8. Carries(Append(q, m), m)
    BY <1>3, <1>4, <1>5, CarriesNew
  <1>9. up'[h] = Append(q, m)
    BY <1>3, <1>6, <1>7 DEF q, h
  <1>10. Carries(up'[socket'[Host]], Top')
    BY <1>3, <1>8, <1>9 DEF h
  <1>11. localStateSeq' = n
    BY DEF n
  <1>12. OnItsWay(g)'
    BY <1>2, <1>10, <1>11 DEF OnItsWay
  <1>13. QED
    BY <1>12 DEF StateComes

LEMMA TakenKept ==
    ASSUME NEW g, Taken(g), socket'[g] = socket[g], localStateSeq' = localStateSeq,
           player'[Host] = player[Host], lastRemoteSeq'[g] = lastRemoteSeq[g], stale'[g] = stale[g],
           hostOnline'[g] = hostOnline[g], Aware(g) => player'[g] = player[g],
           down[socket[g]] \in Seq(Frames),
           \/ down'[socket[g]] = down[socket[g]]
           \/ \E m \in Frames : /\ down'[socket[g]] = Append(down[socket[g]], m)
                                /\ m.type = "peer_update" => m.host
    PROVE  Taken(g)'
  <1>1. Aware(g) /\ Aware(g)' /\ player'[g] = player[g]
    BY DEF Taken, Aware
  <1>2. OnlineFrom(down[socket[g]], 1)
    BY DEF Taken
  <1>3. OnlineFrom(down'[socket[g]], 1)
    BY <1>2, OnlineAppend
  <1>4. QED
    BY <1>1, <1>3 DEF Taken

LEMMA OnWayKept ==
    ASSUME IInv, NEW g, OnItsWay(g), socket'[g] = socket[g], socket'[Host] = socket[Host],
           localStateSeq' = localStateSeq, player'[Host] = player[Host],
           lastRemoteSeq'[g] = lastRemoteSeq[g], stale'[g] = stale[g],
           hostOnline'[g] = hostOnline[g], down[socket[g]] \in Seq(Frames),
           Carries(up[socket[Host]], Top) => Carries(up'[socket[Host]], Top),
           Lacks(up[socket[Host]], localStateSeq) => Lacks(up'[socket[Host]], localStateSeq),
           \/ down'[socket[g]] = down[socket[g]]
           \/ \E m \in Frames : /\ down'[socket[g]] = Append(down[socket[g]], m)
                                /\ m.type = "peer_update" => m.host
                                /\ m.type = "state" => m.seq < localStateSeq
    PROVE  OnItsWay(g)'
  <1> DEFINE q == down[socket[g]]
  <1>1. Top' = Top /\ Aware(g)' = Aware(g) /\ Top.seq = localStateSeq
    BY TopIs DEF Top, StateFrame, Aware
  <1>2. CASE Carries(up[socket[Host]], Top) /\ Lacks(q, localStateSeq)
    <2>1. Lacks(down'[socket[g]], localStateSeq)
      BY <1>2, LacksAppend
    <2>2. QED
      BY <1>1, <1>2, <2>1 DEF OnItsWay
  <1>3. CASE Lacks(up[socket[Host]], localStateSeq) /\ CarriesAware(q, Top, Aware(g))
    <2> DEFINE a == Aware(g)
               T == Top
    <2>1. CarriesAware(q, T, a) /\ T.seq = localStateSeq /\ q \in Seq(Frames)
      BY <1>1, <1>3
    <2> HIDE DEF a, T, q
    <2>2. CarriesAware(down'[socket[g]], T, a)
      <3>1. CASE down'[socket[g]] = q
        BY <2>1, <3>1
      <3>2. CASE down'[socket[g]] # q
        <4>1. PICK m \in Frames : /\ down'[socket[g]] = Append(q, m)
                                  /\ m.type = "peer_update" => m.host
                                  /\ m.type = "state" => m.seq < localStateSeq
          BY <3>2 DEF q
        <4>2. m.type = "state" => m.seq < T.seq
          BY <2>1, <4>1
        <4>3. CarriesAware(Append(q, m), T, a)
          BY <2>1, <4>1, <4>2, AwareAppend
        <4>4. QED
          BY <4>1, <4>3
      <3>3. QED
        BY <3>1, <3>2
    <2>3. QED
      BY <1>1, <1>3, <2>2 DEF OnItsWay, a, T
  <1>4. QED
    BY <1>2, <1>3 DEF OnItsWay

\* A connection of the host that has not joined has no seat.
LEMMA NoSeatYet ==
    ASSUME Links, NEW x \in Sockets, x[1] = Host, peers[x].role # "host"
    PROVE  x # host[Room] /\ x \notin guests[Room]
  <1>1. SocketOK(x) /\ RoleOf(x) = "host"
    BY DEF Links, RoleOf
  <1>2. peers[x].role # "guest"
    BY <1>1 DEF SocketOK, StreamOK
  <1>3. QED
    BY <1>2 DEF Links, Seats

\* Nothing that concerns the host's first connection changes.
LEMMA FreshKept ==
    ASSUME HostFresh, \A x \in Sockets : wire'[x] = "idle" => ~Has(down'[x], "peer_update"),
           generation'[Host] = generation[Host], socket'[Host] = socket[Host],
           generation[Host] <= 1 =>
              /\ stale'[Host] = <<>>
              /\ Early' => /\ Early /\ guestCount'[Host] = guestCount[Host]
                           /\ socket[Host] # NoSocket => ~Has(down'[socket[Host]], "peer_update")
    PROVE  HostFresh'
  BY DEF HostFresh

LEMMA UntouchedFresh ==
    ASSUME HostFresh, \A x \in Sockets : wire'[x] = "idle" => ~Has(down'[x], "peer_update"),
           Untouched(Host), peers' = peers, guestCount'[Host] = guestCount[Host]
    PROVE  HostFresh'
  <1>1. /\ generation'[Host] = generation[Host] /\ socket'[Host] = socket[Host]
        /\ stale'[Host] = stale[Host]
        /\ socket[Host] # NoSocket => /\ wire'[socket[Host]] = wire[socket[Host]]
                                      /\ down'[socket[Host]] = down[socket[Host]]
    BY DEF Untouched
  <1>2. Early' => Early
    BY <1>1 DEF Early
  <1>3. QED
    BY <1>1, <1>2, FreshKept DEF HostFresh

LEMMA ConnectFresh ==
    ASSUME IInv, Links, HostFresh, NEW p \in Peers, ConnectAndJoin(p), peers' = peers,
           guestCount'[Host] \in {0, guestCount[Host]},
           p # Host => guestCount'[Host] = guestCount[Host]
    PROVE  HostFresh'
  <1>1. /\ New(p) \in Sockets /\ wire[New(p)] = "idle"
        /\ socket'[p] = New(p) /\ generation'[p] = generation[p] + 1
    BY NewIs
  <1>2. ~Has(<<Opened>>, "peer_update") /\ ~Has(<<>>, "peer_update")
    BY HasNone DEF Has, Opened
  <1>3. \A x \in Sockets : down'[x] \in {<<Opened>>, <<>>, down[x]}
    BY DEF ConnectAndJoin
  <1>4. \A x \in Sockets : wire'[x] = "idle" => wire[x] = "idle"
    BY DEF ConnectAndJoin
  <1>5. \A x \in Sockets : wire'[x] = "idle" => ~Has(down'[x], "peer_update")
    BY <1>2, <1>3, <1>4 DEF HostFresh
  <1>6. CASE p = Host
    <2>1. SUFFICES ASSUME generation'[Host] <= 1
                   PROVE  /\ stale'[Host] = <<>> /\ guestCount'[Host] = 0
                          /\ ~Has(down'[socket'[Host]], "peer_update")
      BY <1>5 DEF HostFresh
    <2>2. generation[Host] = 0
      BY <1>1, <1>6, <2>1 DEF IInv, ClientOK
    <2>3. socket[Host] = NoSocket
      <3>1. socket[Host] \in Sockets => socket[Host][2] # 0
        BY SocketIs
      <3>2. QED
        BY <1>6, <2>2, <3>1, SenderIs
    <2>4. stale[Host] = <<>> /\ guestCount[Host] = 0
      BY <2>2, <2>3 DEF HostFresh, Early
    <2>5. stale' = stale
      BY <1>6, <2>3 DEF ConnectAndJoin
    <2>6. ~Has(down'[New(p)], "peer_update")
      BY <1>1, <1>2, <1>3 DEF HostFresh
    <2>7. QED
      BY <1>1, <1>6, <2>4, <2>5, <2>6
  <1>7. CASE p # Host
    <2>1. Untouched(Host)
      BY <1>7, ConnectOthers DEF Peers
    <2>2. QED
      BY <1>5, <1>7, <2>1, UntouchedFresh
  <1>8. QED
    BY <1>6, <1>7

LEMMA LeaveFresh ==
    ASSUME IInv, Links, HostFresh, NEW g \in Guests, LeaveSession(g)
    PROVE  HostFresh'
  <1>1. g \in Peers /\ Host \in Peers \ {g}
    BY PeersAssumption DEF Peers
  <1>2. Untouched(Host) /\ guestCount'[Host] = guestCount[Host]
    BY <1>1, LeaveOthers
  <1>3. /\ peers' = peers
        /\ \A x \in Sockets : /\ wire'[x] = "idle" => wire[x] = "idle"
                              /\ down'[x] \in {<<>>, down[x]}
    BY DEF LeaveSession, server
  <1>4. \A x \in Sockets : wire'[x] = "idle" => ~Has(down'[x], "peer_update")
    BY <1>3, HasNone DEF HostFresh
  <1>5. QED
    BY <1>2, <1>3, <1>4, UntouchedFresh

\* The server tells nothing to a connection that has not joined.
LEMMA ServerFresh ==
    ASSUME IInv, Links, HostFresh, NEW s \in Sockets, ServerStep(s)
    PROVE  HostFresh'
  <1> DEFINE h == socket[Host]
  <1>1. UNCHANGED <<generation, socket, stale, guestCount>>
    BY DEF ServerStep, client, session, roster
  <1>2. ASSUME NEW x \in Sockets, wire'[x] = "idle" PROVE ~Has(down'[x], "peer_update")
    <2>1. wire'[x] = wire[x] /\ down'[x] = down[x]
      BY <1>2, ServerDown
    <2>2. QED
      BY <1>2, <2>1 DEF HostFresh
  <1>3. ASSUME generation[Host] <= 1, Early', h # NoSocket
        PROVE  Early /\ ~Has(down'[h], "peer_update")
    <2>1. h \in Sockets /\ h[1] = Host /\ wire'[h] # "down" /\ peers'[h].role # "host"
      BY <1>1, <1>3, SenderIs DEF Early, Peers
    <2>2. down[h] \in Seq(Frames) /\ peers \in [Sockets -> PeerInfo] /\ RoleOf(h) = "host"
      BY <2>1, QueuesTyped DEF IInv, ServerTypeOK, RoleOf
    <2> DEFINE Silent == \/ down'[h] = down[h]
                         \/ \E m \in Frames : /\ m.type # "peer_update"
                                              /\ down'[h] = Append(down[h], m)
    <2>4. wire[h] # "down"
      BY <2>1, ServerDown
    <2>5. ASSUME OnClientConnected(s) PROVE Silent /\ peers[h].role # "host"
      <3>1. peers[s].role = "absent" /\ peers' = [peers EXCEPT ![s] = [code |-> NoCode, role |-> "none"]]
        BY <2>5, ArrivalIs
      <3>2. down' = down
        BY <2>5 DEF OnClientConnected
      <3>3. peers[h].role # "host"
        BY <2>1, <2>2, <3>1
      <3>4. QED
        BY <3>2, <3>3
    <2>6. ASSUME OnSocketDisconnected(s) PROVE Silent /\ peers[h].role # "host"
      <3>1. s # h /\ peers' = [peers EXCEPT ![s] = Absent]
        BY <2>4, <2>6, EndIs
      <3>2. peers[h].role # "host"
        BY <2>1, <2>2, <3>1
      <3>3. h # host[Room] /\ h \notin guests[Room]
        BY <2>1, <3>2, NoSeatYet
      <3>4. h # host'[Room] /\ h \notin guests'[Room]
        BY <1>3, <2>6, <3>3, EndIs
      <3>5. down'[h] = down[h]
        <4>1. down' = PeerUpdateSent(host'[Room], guests'[Room]) \/ down' = down
          BY <2>6, EndIs
        <4>2. QED
          BY <2>1, <3>4, <4>1 DEF PeerUpdateSent
      <3>6. QED
        BY <3>2, <3>5
    <2>7. ASSUME OnJoin(s) PROVE Silent /\ peers[h].role # "host"
      <3>1. /\ host' = [host EXCEPT ![Room] = IF s[1] = Host THEN s ELSE @]
            /\ guests' = [guests EXCEPT ![Room] = IF s[1] = Host THEN @ ELSE @ \cup {s}]
            /\ peers' = [peers EXCEPT ![s] = [code |-> Room, role |-> RoleOf(s)]]
            /\ wire' = [x \in Sockets |-> IF x \in Ended(s) THEN "down" ELSE wire[x]]
            /\ down' = [x \in Sockets |-> IF x \in Ended(s) THEN Append(down[x], Closed)
                                         ELSE PeerUpdateSent(host'[Room], guests'[Room])[x]]
        BY <2>7, JoinIs
      <3>2. s # h /\ h \notin Ended(s)
        BY <2>1, <2>2, <3>1
      <3>3. peers[h].role # "host"
        BY <2>1, <2>2, <3>1, <3>2
      <3>4. h # host[Room] /\ h \notin guests[Room]
        BY <2>1, <3>3, NoSeatYet
      <3>5. /\ host \in [Codes -> Sockets \cup {NoSocket}] /\ guests \in [Codes -> SUBSET Sockets]
            /\ Room \in Codes
        BY ValuesAssumption DEF IInv, ServerTypeOK, Room
      <3>6. h # host'[Room] /\ h \notin guests'[Room]
        BY <3>1, <3>2, <3>4, <3>5
      <3>7. down'[h] = down[h]
        BY <2>1, <3>1, <3>2, <3>6 DEF PeerUpdateSent
      <3>8. QED
        BY <3>3, <3>7
    <2>8. ASSUME OnRelay(s) PROVE Silent /\ peers[h].role # "host"
      <3>1. peers' = peers
        BY <2>8 DEF OnRelay, server
      <3>2. Head(up[s]).type # "peer_update"
        BY <2>8, RelayIs DEF UpTypes
      <3>3. peers[h].role # "host" /\ (down'[h] = down[h] \/ down'[h] = Append(down[h], Head(up[s])))
        BY <2>1, <2>8, <3>1, RelayDown
      <3>4. Head(up[s]) \in Frames \/ down'[h] = down[h]
        BY <2>1, <2>8, RelayDown
      <3>5. QED
        BY <3>2, <3>3, <3>4
    <2>9. Silent /\ peers[h].role # "host"
      BY <2>5, <2>6, <2>7, <2>8, NoPing DEF ServerStep, ServerTask, OnTextMessage
    <2>10. Early /\ ~Has(down[h], "peer_update")
      BY <1>3, <2>4, <2>9 DEF HostFresh, Early
    <2> HIDE DEF h
    <2>11. ~Has(down'[h], "peer_update")
      BY <2>2, <2>9, <2>10, HasAppend
    <2>12. QED
      BY <2>10, <2>11
  <1>4. Early' /\ h = NoSocket => Early
    BY DEF Early
  <1>5. QED
    BY <1>1, <1>2, <1>3, <1>4, FreshKept DEF HostFresh

LEMMA EventFresh ==
    ASSUME IInv, Links, HostFresh, NEW p \in Peers, HandleEvent(p)
    PROVE  HostFresh'
  <1> DEFINE h == socket[p]
  <1>1. UNCHANGED <<wire, server, generation, socket>> /\ peers' = peers
    BY EventKeeps DEF server
  <1>2. /\ down \in [Sockets -> Seq(Frames)] /\ stale \in [Peers -> Seq(Frames)]
        /\ Queue(p) # <<>> /\ Dequeue(p)
    BY QueuesTyped DEF HandleEvent
  <1>3. \/ down' = down
        \/ /\ h \in Sockets /\ stale[p] = <<>> /\ down[h] # <<>> /\ Event(p) = Head(down[h])
           /\ down' = [down EXCEPT ![h] = Tail(@)] /\ stale' = stale
    <2>1. CASE stale[p] # <<>>
      BY <1>2, <2>1 DEF Dequeue
    <2>2. CASE stale[p] = <<>>
      <3>1. h # NoSocket
        BY <1>2, <2>2 DEF Queue
      <3>2. QED
        BY <1>2, <2>2, <3>1, SenderIs DEF Queue, Event, Dequeue
    <2>3. QED
      BY <2>1, <2>2
  <1>4. \A x \in Sockets, t \in {"peer_update"} : Has(down'[x], t) => Has(down[x], t)
    <2> HIDE DEF h
    <2>1. CASE down' = down
      BY <2>1
    <2>2. CASE h \in Sockets /\ down[h] # <<>> /\ down' = [down EXCEPT ![h] = Tail(@)]
      <3>1. \A t \in {"peer_update"} : Has(Tail(down[h]), t) => Has(down[h], t)
        BY <1>2, <2>2, HasTail
      <3>2. QED
        BY <1>2, <2>2, <3>1
    <2>3. QED
      BY <1>3, <2>1, <2>2
  <1>5. \A x \in Sockets : wire'[x] = "idle" => ~Has(down'[x], "peer_update")
    BY <1>1, <1>4 DEF HostFresh
  <1>6. CASE p = Host
    <2>1. ASSUME generation[Host] <= 1 PROVE stale'[Host] = <<>>
      <3>1. stale[Host] = <<>>
        BY <2>1 DEF HostFresh
      <3>2. QED
        BY <1>2, <1>6, <3>1 DEF Dequeue
    <2>2. ASSUME generation[Host] <= 1, Early'
          PROVE  /\ Early /\ guestCount'[Host] = guestCount[Host]
                 /\ socket[Host] # NoSocket => ~Has(down'[socket[Host]], "peer_update")
      <3>1. Early
        BY <1>1, <2>2 DEF Early
      <3>2. stale[Host] = <<>> /\ h # NoSocket /\ ~Has(down[h], "peer_update")
        BY <1>2, <1>6, <2>2, <3>1 DEF HostFresh, Queue
      <3>3. h \in Sockets /\ down[h] # <<>> /\ Event(p) = Head(down[h])
        BY <1>2, <1>6, <3>2, SenderIs DEF Queue, Event
      <3> HIDE DEF h
      <3>4. Event(p).type # "peer_update"
        BY <1>2, <3>2, <3>3, HasTail
      <3>5. guestCount' = guestCount
        BY <3>4, RosterIsKept
      <3>6. ~Has(down'[h], "peer_update")
        BY <1>4, <3>2, <3>3
      <3>7. QED
        BY <1>6, <3>1, <3>5, <3>6 DEF h
    <2>3. QED
      BY <1>1, <1>5, <2>1, <2>2, FreshKept
  <1>7. CASE p # Host
    <2>1. Host \in Peers \ {p}
      BY <1>7 DEF Peers
    <2>2. Untouched(Host) /\ guestCount'[Host] = guestCount[Host]
      BY <2>1, EventOthers, RosterOfOthers
    <2>3. QED
      BY <1>1, <1>5, <2>2, UntouchedFresh
  <1>8. QED
    BY <1>6, <1>7

LEMMA WireFresh ==
    ASSUME IInv, Links, HostFresh, NEW s \in Sockets, Open(s) \/ Refuse(s) \/ Drop(s)
    PROVE  HostFresh'
  <1> DEFINE h == socket[Host]
  <1>1. /\ UNCHANGED <<peers, socket, generation, stale, guestCount>>
        /\ wire \in [Sockets -> WireStates] /\ down \in [Sockets -> Seq(Frames)]
    BY QueuesTyped DEF Open, Refuse, Drop, server, client, session, roster, IInv
  <1>2. /\ wire'[s] = "down" \/ (wire'[s] = "up" /\ wire[s] = "connecting" /\ down'[s] = <<Opened>>)
        /\ \A x \in Sockets \ {s} : wire'[x] = wire[x] /\ down'[x] = down[x]
    BY <1>1 DEF Open, Refuse, Drop, WireOpen, WireRefuse, WireDrop, Broken
  <1>3. \A x \in Sockets : wire'[x] = "idle" => ~Has(down'[x], "peer_update")
    BY <1>2 DEF HostFresh
  <1>4. ~Has(<<Opened>>, "peer_update")
    BY DEF Has, Opened
  <1>5. ASSUME Early', h # NoSocket
        PROVE  Early /\ (~Has(down'[h], "peer_update") \/ down'[h] = down[h])
    <2>1. h \in Sockets /\ wire'[h] # "down" /\ peers[h].role # "host"
      BY <1>1, <1>5, SenderIs DEF Early, Peers
    <2>2. wire[h] # "down"
      BY <1>2, <2>1
    <2>3. QED
      BY <1>2, <1>4, <2>1, <2>2 DEF Early
  <1>6. Early' /\ h = NoSocket => Early
    BY DEF Early
  <1>7. QED
    BY <1>1, <1>3, <1>5, <1>6, FreshKept DEF HostFresh

LEMMA InitFresh ==
    ASSUME Init
    PROVE  HostFresh
  <1>1. /\ \A x \in Sockets : down[x] = <<>>
        /\ Host \in Peers /\ stale[Host] = <<>> /\ guestCount[Host] = 0 /\ socket[Host] = NoSocket
    BY DEF Init, NetInit, Peers
  <1>2. QED
    BY <1>1, HasNone DEF HostFresh

LEMMA NextFresh ==
    ASSUME IInv, Links, HostFresh, [Next]_vars
    PROVE  HostFresh'
  <1>1. CASE UNCHANGED vars
    BY <1>1 DEF vars, net, server, client, session, roster, HostFresh, Early, Has
  <1>2. CASE StartHostSession
    <2>1. /\ ConnectAndJoin(Host) /\ Host \in Peers /\ peers' = peers
          /\ guestCount'[Host] = 0
      BY <1>2 DEF StartHostSession, Peers, IInv, SessionOK
    <2>2. QED
      BY <2>1, ConnectFresh
  <1>3. ASSUME NEW g \in Guests, JoinSession(g) PROVE HostFresh'
    <2>1. ConnectAndJoin(g) /\ g \in Peers /\ g # Host /\ peers' = peers
      BY <1>3, PeersAssumption DEF JoinSession, Peers, server
    <2>2. guestCount'[Host] = guestCount[Host]
      BY <1>3, <2>1 DEF JoinSession, IInv, SessionOK, Peers
    <2>3. QED
      BY <2>1, <2>2, ConnectFresh
  <1>4. ASSUME NEW p \in Peers, Reconnect(p) PROVE HostFresh'
    <2>1. ConnectAndJoin(p) /\ peers' = peers /\ guestCount' = guestCount
      BY <1>4 DEF Reconnect, server, session, roster
    <2>2. QED
      BY <2>1, ConnectFresh
  <1>5. CASE \/ Heartbeat
             \/ \E f \in Sources \cup Urls : SetLocalFileInfo(f)
             \/ \E u \in Urls : ShareOpenUrl(u)
             \/ \E p \in Peers, cmd \in Commands : UserCommand(p, cmd)
    <2>1. UNCHANGED <<wire, down, peers, generation, socket, stale, guestCount>>
      BY <1>5, UserKeeps
    <2>2. QED
      BY <2>1, FreshKept DEF HostFresh, Early, Has
  <1>6. ASSUME NEW g \in Guests, LeaveSession(g) PROVE HostFresh'
    BY <1>6, LeaveFresh
  <1>7. ASSUME NEW p \in Peers, HandleEvent(p) PROVE HostFresh'
    BY <1>7, EventFresh
  <1>8. ASSUME NEW s \in Sockets, ServerStep(s) PROVE HostFresh'
    BY <1>8, ServerFresh
  <1>9. ASSUME NEW s \in Sockets, Open(s) \/ Refuse(s) \/ Drop(s) PROVE HostFresh'
    BY <1>9, WireFresh
  <1>10. QED
    BY <1>1, <1>2, <1>3, <1>4, <1>5, <1>6, <1>7, <1>8, <1>9 DEF Next

LEMMA FreshHolds == Spec => []HostFresh
  <1>1. IInv /\ Links /\ HostFresh /\ [Next]_vars => HostFresh'
    BY NextFresh
  <1>2. Init => HostFresh
    BY InitFresh
  <1>3. QED
    BY <1>1, <1>2, Invariance, LinksHold, PTL DEF Spec

\* A host that has opened a film has one open from then on.
LEMMA FilmHolds == NoSource \notin StartSources /\ Spec => []HasFilm
  <1>1. NoSource \notin StartSources /\ Init => HasFilm
    BY DEF Init, HasFilm
  <1>2. HasFilm /\ [Next]_vars => HasFilm'
    <2>1. SUFFICES ASSUME HasFilm, [Next]_vars PROVE HasFilm'
      OBVIOUS
    <2>2. ASSUME NEW f \in Sources \cup Urls, SetLocalFileInfo(f) PROVE HasFilm'
      BY <2>2, ValuesAssumption DEF SetLocalFileInfo, HasFilm
    <2>3. CASE ~\E f \in Sources \cup Urls : SetLocalFileInfo(f)
      <3>1. localSource' = localSource
        <4>1. \A p \in Peers : HandleEvent(p) => localSource' = localSource
          BY DEF HandleEvent, OnConnected, OnDisconnected, OnPeerUpdate, OnState, OnFile, OnOpenUrl,
                 OnIntent, session, hostData
        <4>2. /\ Heartbeat \/ StartHostSession => localSource' = localSource
              /\ \A u \in Urls : ShareOpenUrl(u) => localSource' = localSource
              /\ \A p \in Peers, cmd \in Commands : UserCommand(p, cmd) => localSource' = localSource
          BY DEF Heartbeat, StartHostSession, ShareOpenUrl, UserCommand
        <4>3. /\ \A g \in Guests : JoinSession(g) \/ LeaveSession(g) => localSource' = localSource
              /\ \A p \in Peers : Reconnect(p) => localSource' = localSource
              /\ UNCHANGED vars => localSource' = localSource
          BY DEF JoinSession, LeaveSession, Reconnect, vars, session, hostData
        <4>4. \A s \in Sockets : ServerStep(s) \/ Open(s) \/ Refuse(s) \/ Drop(s) =>
                                  localSource' = localSource
          BY DEF ServerStep, Open, Refuse, Drop, session, hostData
        <4>5. QED
          BY <2>1, <2>3, <4>1, <4>2, <4>3, <4>4 DEF Next
      <3>2. QED
        BY <2>1, <3>1 DEF HasFilm
    <2>4. QED
      BY <2>2, <2>3
  <1>3. QED
    BY <1>1, <1>2, PTL DEF Spec

\* What has settled is shown.
LEMMA StateOfSettled ==
    ASSUME IInv, Links, Stating
    PROVE  InStep
  <1>1. SUFFICES ASSUME Settled, generation[Host] <= 1, NEW g \in Guests, Watching(g)
                 PROVE  player[g] = player[Host]
    BY DEF InStep
  <1>2. g \in Peers
    BY DEF Peers
  <1>3. Attended(g)
    BY <1>1, <1>2, SenderIsOnline DEF Watching, Attended
  <1>4. StateComes(g)
    BY <1>1, <1>3 DEF Stating
  <1>5. socket[Host] \in Sockets /\ socket[g] \in Sockets
    BY <1>3, SenderHasSeat, OnlineGuest DEF Attended
  <1>6. /\ up[socket[Host]] = <<>> /\ down[socket[Host]] = <<>> /\ down[socket[g]] = <<>>
    BY <1>1, <1>5 DEF Settled
  <1>7. ~Renews /\ ~OnItsWay(g)
    BY <1>6 DEF Renews, OnItsWay, Has, Rises, Carries, CarriesAware
  <1>8. Taken(g)
    BY <1>4, <1>7 DEF StateComes
  <1>9. QED
    BY <1>8 DEF Taken

\* Nothing changes that a guest's view of the state rests on.
LEMMA ComesKept ==
    ASSUME IInv, NEW g \in Guests, StateComes(g), Renews => Renews', socket'[g] = socket[g],
           socket'[Host] = socket[Host], localStateSeq' = localStateSeq, player'[Host] = player[Host],
           lastRemoteSeq'[g] = lastRemoteSeq[g], stale'[g] = stale[g],
           hostOnline'[g] = hostOnline[g], Aware(g) => player'[g] = player[g],
           down[socket[g]] \in Seq(Frames),
           Carries(up[socket[Host]], Top) => Carries(up'[socket[Host]], Top),
           Lacks(up[socket[Host]], localStateSeq) => Lacks(up'[socket[Host]], localStateSeq),
           \/ down'[socket[g]] = down[socket[g]]
           \/ \E m \in Frames : /\ down'[socket[g]] = Append(down[socket[g]], m)
                                /\ m.type = "peer_update" => m.host
                                /\ m.type = "state" => m.seq < localStateSeq
    PROVE  StateComes(g)'
  <1>1. OnItsWay(g) => OnItsWay(g)'
    BY OnWayKept
  <1>2. Taken(g) => Taken(g)'
    BY TakenKept
  <1>3. QED
    BY <1>1, <1>2 DEF StateComes

\* A step that touches neither the host nor guest g.
LEMMA UntouchedStating ==
    ASSUME IInv, Links, Stating, NEW g \in Guests, Untouched(g), Untouched(Host), Attended(g)',
           generation'[Host] <= 1, UNCHANGED <<host, guests, localSource, localStateSeq>>,
           hostOnline'[g] = hostOnline[g], guestCount'[Host] = guestCount[Host],
           lastRemoteSeq'[g] = lastRemoteSeq[g], player'[Host] = player[Host], player'[g] = player[g]
    PROVE  StateComes(g)'
  <1>1. /\ socket'[Host] = socket[Host] /\ joined'[Host] = joined[Host]
        /\ socket'[g] = socket[g] /\ stale'[g] = stale[g] /\ generation'[Host] = generation[Host]
    BY DEF Untouched
  <1>2. /\ socket'[Host] # NoSocket /\ wire'[socket'[Host]] = "up" /\ joined'[Host]
        /\ socket'[g] # NoSocket /\ wire'[socket'[g]] = "up" /\ localSource' # NoSource
        /\ socket'[g] = host'[Room] \/ socket'[g] \in guests'[Room]
    BY DEF Attended, CanSend, IsConnected, Online, Seated, Live, Room
  <1>3. /\ wire[socket[Host]] = "up" /\ wire[socket[g]] = "up"
        /\ up'[socket[Host]] = up[socket[Host]] /\ down'[socket[Host]] = down[socket[Host]]
        /\ down'[socket[g]] = down[socket[g]]
    BY <1>1, <1>2 DEF Untouched
  <1>4. Attended(g)
    BY <1>1, <1>2, <1>3 DEF Attended, CanSend, IsConnected, Online, Seated, Live
  <1>5. StateComes(g)
    BY <1>1, <1>4 DEF Stating
  <1>6. Renews => Renews'
    BY <1>1, <1>3 DEF Renews
  <1>7. down[socket[g]] \in Seq(Frames)
    BY <1>4, OnlineGuest, QueuesTyped DEF Attended
  <1>8. QED
    BY <1>1, <1>3, <1>5, <1>6, <1>7, ComesKept

LEMMA ConnectStating ==
    ASSUME IInv, IInv', Links, Links', Stating, NEW p \in Peers, ConnectAndJoin(p),
           UNCHANGED <<peers, host, guests, localSource, player>>,
           p # Host => /\ localStateSeq' = localStateSeq
                       /\ \A q \in Peers \ {p} : /\ hostOnline'[q] = hostOnline[q]
                                                 /\ guestCount'[q] = guestCount[q]
                                                 /\ lastRemoteSeq'[q] = lastRemoteSeq[q]
    PROVE  Stating'
  <1>1. SUFFICES ASSUME NEW g \in Guests, generation'[Host] <= 1, Attended(g)'
                 PROVE  StateComes(g)'
    BY DEF Stating
  <1>2. /\ socket'[p] = New(p) /\ New(p) \in Sockets /\ New(p)[1] = p
        /\ New(p) # host[Room] /\ New(p) \notin guests[Room]
    BY NewIs
  <1>3. ~Online(p)'
    BY <1>2 DEF Online, Seated
  <1>4. Host \in Peers /\ g \in Peers /\ g # Host
    BY PeersAssumption DEF Peers
  <1>5. CASE p = Host
    <2>1. CanSend(Host)'
      BY <1>1 DEF Attended
    <2>2. (Has(up[socket[Host]], "join") \/ Online(Host))'
      BY <2>1, SenderHasSeat, PTL
    <2>3. Renews'
      BY <1>3, <1>5, <2>2 DEF Renews
    <2>4. QED
      BY <2>3 DEF StateComes
  <1>6. CASE p # Host
    <2>1. g # p
      BY <1>1, <1>3 DEF Attended
    <2>2. Untouched(g) /\ Untouched(Host)
      BY <1>4, <1>6, <2>1, ConnectOthers
    <2>3. g \in Peers \ {p} /\ Host \in Peers \ {p}
      BY <1>4, <1>6, <2>1
    <2>4. QED
      BY <1>1, <1>6, <2>2, <2>3, UntouchedStating
  <1>7. QED
    BY <1>5, <1>6

LEMMA LeaveStating ==
    ASSUME IInv, Links, Stating, NEW q \in Guests, LeaveSession(q)
    PROVE  Stating'
  <1>1. SUFFICES ASSUME NEW g \in Guests, generation'[Host] <= 1, Attended(g)'
                 PROVE  StateComes(g)'
    BY DEF Stating
  <1>2. Host \in Peers /\ g \in Peers /\ q \in Peers /\ q # Host
    BY PeersAssumption DEF Peers
  <1>3. /\ socket' = [socket EXCEPT ![q] = NoSocket] /\ socket \in [Peers -> Sockets \cup {NoSocket}]
        /\ UNCHANGED <<host, guests, localSource, localStateSeq, player>>
    BY DEF LeaveSession, server, hostData, IInv, ClientOK
  <1>4. g # q
    BY <1>1, <1>2, <1>3 DEF Attended, Online
  <1>5. /\ Untouched(g) /\ Untouched(Host) /\ hostOnline'[g] = hostOnline[g]
        /\ guestCount'[Host] = guestCount[Host] /\ lastRemoteSeq'[g] = lastRemoteSeq[g]
    BY <1>2, <1>4, LeaveOthers
  <1>6. QED
    BY <1>1, <1>3, <1>5, UntouchedStating

LEMMA WireStating ==
    ASSUME IInv, Links, Stating, NEW s \in Sockets, Open(s) \/ Refuse(s) \/ Drop(s)
    PROVE  Stating'
  <1>1. SUFFICES ASSUME NEW g \in Guests, generation'[Host] <= 1, Attended(g)'
                 PROVE  StateComes(g)'
    BY DEF Stating
  <1>2. /\ UNCHANGED <<host, guests, localSource, localStateSeq, player>>
        /\ UNCHANGED <<hostOnline, guestCount, lastRemoteSeq>>
    BY DEF Open, Refuse, Drop, server, session, roster, hostData, guestData
  <1>3. Untouched(g) /\ Untouched(Host)
    BY <1>1, WireAside
  <1>4. QED
    BY <1>1, <1>2, <1>3, UntouchedStating

----------------------------------------------------------------------------
(* What the host says of its state, with what it sends before it.          *)

Quiet(r) ==
    /\ up'[socket[Host]] = up[socket[Host]] \o r
    /\ localStateSeq' = localStateSeq /\ player'[Host] = player[Host]

Speaks(r) ==
    /\ up'[socket[Host]] = up[socket[Host]] \o (r \o <<StateFrame(player'[Host], localStateSeq + 1)>>)
    /\ localStateSeq' = localStateSeq + 1 /\ player'[Host] \in PlayStates

\* The host thinks that nobody is there.
Unheard(r) ==
    /\ up'[socket[Host]] = up[socket[Host]] \o r
    /\ ~(guestCount[Host] > 0)

Says(r) == ~Has(r, "state") /\ (Quiet(r) \/ Speaks(r) \/ Unheard(r))

\* A host that counts nobody while somebody is there will hear of it.
LEMMA CountsOrRenews ==
    ASSUME IInv, Links, Informing, NEW g \in Guests, Attended(g)
    PROVE  Renews \/ guestCount[Host] > 0
  <1>1. Asked \/ guestCount[Host] > 0
    BY HostCounts DEF Attended
  <1>2. guestCount[Host] \in Nat
    BY DEF IInv, SessionOK, Peers
  <1>3. socket[Host] \in Sockets /\ down \in [Sockets -> Seq(Frames)]
    BY SenderHasSeat, QueuesTyped DEF Attended
  <1>4. ASSUME Asks(down[socket[Host]]), ~(guestCount[Host] > 0)
        PROVE  Rises(guestCount[Host], down[socket[Host]])
    <2>1. PICK j \in 1 .. Len(down[socket[Host]]) :
             down[socket[Host]][j].type = "peer_update" /\ down[socket[Host]][j].guests > 0
      BY <1>4 DEF Asks
    <2>2. guestCount[Host] = 0
      BY <1>2, <1>4
    <2>3. guestCount[Host] < down[socket[Host]][j].guests
      BY <2>1, <2>2
    <2>4. QED
      BY <2>1, <2>3 DEF Rises
  <1>5. QED
    BY <1>1, <1>4 DEF Asked, Renews

LEMMA RenewsOn ==
    ASSUME IInv, socket[Host] \in Sockets, socket'[Host] = socket[Host], NEW r \in Seq(Frames),
           up'[socket[Host]] = up[socket[Host]] \o r,
           Rises(guestCount[Host], down[socket[Host]]) =>
              Rises(guestCount'[Host], down'[socket[Host]])
    PROVE  Renews => Renews'
  <1>1. up[socket[Host]] \in Seq(Frames)
    BY QueuesTyped
  <1>2. Has(up[socket[Host]], "join") => Has(up'[socket[Host]], "join")
    BY <1>1, HasConcat
  <1>3. QED
    BY <1>2 DEF Renews

LEMMA SaysIt ==
    ASSUME IInv, Links, Informing, NEW g \in Guests, Attended(g), StateComes(g), UNCHANGED socket,
           lastRemoteSeq'[g] = lastRemoteSeq[g], stale'[g] = stale[g], hostOnline'[g] = hostOnline[g],
           down'[socket[g]] = down[socket[g]], Aware(g) => player'[g] = player[g],
           NEW r \in Seq(Frames), Says(r),
           Speaks(r) \/ (Rises(guestCount[Host], down[socket[Host]]) =>
                            Rises(guestCount'[Host], down'[socket[Host]]))
    PROVE  StateComes(g)'
  <1> DEFINE h == socket[Host]
             m == StateFrame(player'[Host], localStateSeq + 1)
  <1>1. /\ h \in Sockets /\ socket[g] \in Sockets /\ up[h] \in Seq(Frames)
        /\ down[socket[g]] \in Seq(Frames) /\ localStateSeq \in Nat
    BY SenderHasSeat, OnlineGuest, QueuesTyped DEF Attended, IInv, SessionOK
  <1>2. CASE Quiet(r) /\ ~Speaks(r)
    <2>1. up'[h] = up[h] \o r /\ localStateSeq' = localStateSeq /\ player'[Host] = player[Host]
      BY <1>2 DEF Quiet
    <2>2. Renews => Renews'
      BY <1>1, <1>2, <2>1, RenewsOn
    <2> HIDE DEF h
    <2>3. /\ Carries(up[h], Top) => Carries(up'[h], Top)
          /\ Lacks(up[h], localStateSeq) => Lacks(up'[h], localStateSeq)
      BY <1>1, <2>1, CarriesMore, LacksMore DEF Says
    <2>4. QED
      BY <1>1, <2>1, <2>2, <2>3, ComesKept DEF h
  <1>3. CASE Speaks(r)
    <2>1. /\ up'[h] = up[h] \o (r \o <<m>>)
          /\ localStateSeq' = localStateSeq + 1 /\ player'[Host] \in PlayStates
      BY <1>3 DEF Speaks
    <2>2. Top' = m /\ m \in Frames
      BY <1>1, <2>1 DEF Top, StateFrame, Frames
    <2> HIDE DEF m
    <2>3. up'[h] = up[h] \o (r \o <<Top'>>)
      BY <2>1, <2>2
    <2>4. ~Has(r, "state") /\ Top' \in Frames
      BY <2>2 DEF Says
    <2>5. QED
      BY <1>1, <2>1, <2>3, <2>4, FreshState
  <1>4. CASE Unheard(r) /\ ~Speaks(r)
    <2>1. Renews
      BY <1>4, CountsOrRenews DEF Unheard
    <2>2. Renews'
      BY <1>1, <1>4, <2>1, RenewsOn DEF Unheard
    <2>3. QED
      BY <2>2 DEF StateComes
  <1>5. QED
    BY <1>2, <1>3, <1>4 DEF Says

\* The state, when the host counts n guests, and what it sends before it.
LEMMA NowSays ==
    ASSUME IInv, Links, CanSend(Host), HasFilm, NEW st \in PlayStates, player'[Host] = st,
           localStateSeq' = localStateSeq + 1, NEW n, n > 0 \/ ~(guestCount[Host] > 0),
           NEW r \in Seq(Frames), ~Has(r, "state"),
           up'[socket[Host]] = up[socket[Host]] \o (r \o StateNow(st, n))
    PROVE  Says(r) /\ (n > 0 => Speaks(r))
  <1>1. CASE n > 0
    <2>1. StateNow(st, n) = <<StateFrame(st, localStateSeq + 1)>>
      BY <1>1 DEF StateNow, HasFilm
    <2>2. Speaks(r)
      BY <2>1 DEF Speaks
    <2>3. QED
      BY <1>1, <2>2 DEF Says
  <1>2. CASE ~(n > 0)
    <2>1. StateNow(st, n) = <<>> /\ r \o <<>> = r
      BY <1>2, ConcatEmptySeq DEF StateNow
    <2>2. Unheard(r)
      BY <1>2, <2>1 DEF Unheard
    <2>3. QED
      BY <1>2, <2>2 DEF Says
  <1>3. QED
    BY <1>1, <1>2

LEMMA PostNowSays ==
    ASSUME IInv, Links, CanSend(Host), HasFilm, NEW st \in PlayStates, player'[Host] = st,
           localStateSeq' = localStateSeq + 1, Post(Host, Guarded(Host, StateNow(st, guestCount[Host])))
    PROVE  Says(<<>>) /\ <<>> \in Seq(Frames)
  <1> DEFINE now == StateNow(st, guestCount[Host])
  <1>1. socket[Host] \in Sockets /\ up \in [Sockets -> Seq(Frames)]
    BY SenderHasSeat, QueuesTyped
  <1>2. up'[socket[Host]] = up[socket[Host]] \o now
    BY <1>1 DEF Post, Guarded
  <1>3. now \in Seq(Frames)
    BY StateNowIs DEF IInv, SessionOK
  <1> HIDE DEF now
  <1>4. <<>> \o now = now /\ <<>> \in Seq(Frames) /\ ~Has(<<>>, "state")
    BY <1>3, ConcatEmptySeq, HasNone
  <1>5. up'[socket[Host]] = up[socket[Host]] \o (<<>> \o now)
    BY <1>2, <1>4
  <1>6. QED
    BY <1>4, <1>5, NowSays DEF now

LEMMA NothingSaid ==
    ASSUME IInv, socket[Host] \in Sockets, up'[socket[Host]] = up[socket[Host]],
           localStateSeq' = localStateSeq, player'[Host] = player[Host]
    PROVE  <<>> \in Seq(Frames) /\ Says(<<>>)
  <1>1. up[socket[Host]] \in Seq(Frames)
    BY QueuesTyped
  <1>2. up'[socket[Host]] = up[socket[Host]] \o <<>> /\ <<>> \in Seq(Frames)
    BY <1>1, ConcatEmptySeq
  <1>3. QED
    BY <1>2, HasNone DEF Says, Quiet

\* Frames other than a state that the host sends say nothing of its state.
LEMMA OtherFrame ==
    ASSUME IInv, Links, CanSend(Host), NEW b \in BOOLEAN, NEW m \in Frames, m.type # "state",
           Post(Host, Guarded(Host, IF b THEN <<m>> ELSE <<>>)),
           localStateSeq' = localStateSeq, player'[Host] = player[Host]
    PROVE  \E r \in Seq(Frames) : Says(r)
  <1> DEFINE r == IF b THEN <<m>> ELSE <<>>
  <1>1. socket[Host] \in Sockets /\ up \in [Sockets -> Seq(Frames)]
    BY SenderHasSeat, QueuesTyped
  <1>2. up'[socket[Host]] = up[socket[Host]] \o r
    BY <1>1 DEF Post, Guarded
  <1>3. <<m>> \in Seq(Frames) /\ ~Has(<<m>>, "state")
    BY DEF Has
  <1>4. r \in Seq(Frames) /\ ~Has(r, "state")
    BY <1>3, HasNone
  <1> HIDE DEF r
  <1>5. Says(r)
    BY <1>2, <1>4 DEF Says, Quiet
  <1>6. QED
    BY <1>4, <1>5

\* A guest that knows of the host asks it, so its own player is left alone.
LEMMA UserSays ==
    ASSUME IInv, Links, HasFilm, NEW g \in Guests, Attended(g),
           \/ Heartbeat
           \/ \E f \in Sources \cup Urls : SetLocalFileInfo(f)
           \/ \E u \in Urls : ShareOpenUrl(u)
           \/ \E p \in Peers, cmd \in Commands : UserCommand(p, cmd)
    PROVE  /\ \E r \in Seq(Frames) : Says(r)
           /\ Aware(g) => player'[g] = player[g]
  <1>1. /\ CanSend(Host) /\ socket[Host] \in Sockets /\ socket[g] \in Sockets /\ socket[g] # NoSocket
        /\ g \in Peers /\ Host \in Peers /\ g # Host /\ socket[Host] # NoSocket
        /\ up \in [Sockets -> Seq(Frames)]
    BY SenderHasSeat, OnlineGuest, QueuesTyped, PeersAssumption DEF Attended, Peers
  <1>2. /\ player \in [Peers -> PlayStates] /\ sessionActive[Host] /\ sessionActive[g]
        /\ localStateSeq \in Nat
    BY <1>1 DEF IInv, SessionOK, Links, ClientLinks
  <1>3. CASE Heartbeat
    <2>1. Broadcast(player[Host]) /\ player' = player
      BY <1>3 DEF Heartbeat
    <2>2. Says(<<>>) /\ <<>> \in Seq(Frames)
      BY <1>1, <1>2, <2>1, PostNowSays DEF Broadcast, Capture
    <2>3. QED
      BY <2>1, <2>2
  <1>4. ASSUME NEW f \in Sources \cup Urls, SetLocalFileInfo(f)
        PROVE  player' = player /\ \E r \in Seq(Frames) : Says(r)
    <2>1. FileFrame(f) \in Frames /\ FileFrame(f).type # "state"
      BY DEF FileFrame, Frames, SourceValues
    <2> DEFINE b == sessionActive[Host] /\ guestCount[Host] > 0
    <2>2. b \in BOOLEAN /\ Post(Host, Guarded(Host, IF b THEN <<FileFrame(f)>> ELSE <<>>))
          /\ localStateSeq' = localStateSeq /\ player' = player
      BY <1>2, <1>4 DEF SetLocalFileInfo
    <2> HIDE DEF b
    <2>3. QED
      BY <1>1, <2>1, <2>2, OtherFrame
  <1>5. ASSUME NEW u \in Urls, ShareOpenUrl(u)
        PROVE  player' = player /\ \E r \in Seq(Frames) : Says(r)
    <2>1. UrlFrame(u) \in Frames /\ UrlFrame(u).type # "state"
      BY DEF UrlFrame, Frames, UrlValues
    <2> DEFINE b == sessionActive[Host] /\ guestCount[Host] > 0
    <2>2. b \in BOOLEAN /\ Post(Host, Guarded(Host, IF b THEN <<UrlFrame(u)>> ELSE <<>>))
          /\ localStateSeq' = localStateSeq /\ player' = player
      BY <1>2, <1>5 DEF ShareOpenUrl
    <2> HIDE DEF b
    <2>3. QED
      BY <1>1, <2>1, <2>2, OtherFrame
  <1>6. ASSUME NEW p \in Peers, NEW cmd \in Commands, UserCommand(p, cmd)
        PROVE  /\ Aware(g) => player'[g] = player[g]
               /\ \E r \in Seq(Frames) : Says(r)
    <2> DEFINE st == Applied(cmd, player[p])
    <2>1. st \in PlayStates
      BY <1>2, AppliedTyped
    <2>2. CASE RequestOnly(p)
      <3>1. p # Host /\ player' = player /\ localStateSeq' = localStateSeq
        BY <1>6, <2>2 DEF UserCommand, RequestOnly
      <3>2. up'[socket[Host]] = up[socket[Host]]
        <4>1. socket[p] # socket[Host]
          BY <1>1, <3>1, OthersAre
        <4>2. QED
          BY <1>1, <1>6, <2>2, <4>1 DEF UserCommand, Post
      <3>3. QED
        BY <1>1, <3>1, <3>2, NothingSaid
    <2>3. CASE ~RequestOnly(p) /\ p = Host
      <3>1. player' = [player EXCEPT ![Host] = st] /\ Broadcast(st)
        BY <1>2, <1>6, <2>3 DEF UserCommand
      <3> HIDE DEF st
      <3>2. player'[Host] = st /\ player'[g] = player[g]
        BY <1>1, <1>2, <3>1
      <3>3. Says(<<>>) /\ <<>> \in Seq(Frames)
        BY <1>1, <1>2, <2>1, <3>1, <3>2, PostNowSays DEF Broadcast, Capture
      <3>4. QED
        BY <3>2, <3>3
    <2>4. CASE ~RequestOnly(p) /\ p # Host
      <3>1. /\ player' = [player EXCEPT ![p] = st] /\ UNCHANGED <<up, localStateSeq>>
        BY <1>6, <2>4 DEF UserCommand
      <3>2. p = g => ~hostOnline[g]
        BY <1>2, <2>4 DEF RequestOnly, TransportConnected
      <3>3. player'[Host] = player[Host] /\ (Aware(g) => player'[g] = player[g])
        BY <1>1, <1>2, <2>4, <3>1, <3>2 DEF Aware
      <3>4. QED
        BY <1>1, <3>1, <3>3, NothingSaid
    <2>5. QED
      BY <2>2, <2>3, <2>4
  <1>7. QED
    BY <1>3, <1>4, <1>5, <1>6

LEMMA UserStating ==
    ASSUME IInv, Links, Informing, Stating, HasFilm,
           \/ Heartbeat
           \/ \E f \in Sources \cup Urls : SetLocalFileInfo(f)
           \/ \E u \in Urls : ShareOpenUrl(u)
           \/ \E p \in Peers, cmd \in Commands : UserCommand(p, cmd)
    PROVE  Stating'
  <1>1. UNCHANGED <<wire, down, host, guests, generation, socket, joined, stale, hostOnline,
                    guestCount, lastRemoteSeq>>
    BY UserKeeps
  <1>2. SUFFICES ASSUME NEW g \in Guests, generation'[Host] <= 1, Attended(g)'
                 PROVE  StateComes(g)'
    BY DEF Stating
  <1>3. Attended(g)
    BY <1>1, <1>2 DEF Attended, CanSend, IsConnected, Online, Seated, Live, HasFilm
  <1>4. StateComes(g)
    BY <1>1, <1>2, <1>3 DEF Stating
  <1>5. (\E r \in Seq(Frames) : Says(r)) /\ (Aware(g) => player'[g] = player[g])
    BY <1>3, UserSays
  <1>6. PICK r \in Seq(Frames) : Says(r)
    BY <1>5
  <1>7. QED
    BY <1>1, <1>3, <1>4, <1>5, <1>6, SaysIt

\* What a callback of instance p does to what is played, and to the numbers.
LEMMA EventPlays ==
    ASSUME IInv, NEW p \in Peers, HandleEvent(p)
    PROVE  /\ p # Host => localStateSeq' = localStateSeq
           /\ \A q \in Peers \ {p} : /\ player'[q] = player[q]
                                     /\ lastRemoteSeq'[q] = lastRemoteSeq[q]
           /\ p # Host =>
                 IF Event(p).type = "state" /\ Event(p).seq > lastRemoteSeq[p]
                 THEN lastRemoteSeq'[p] = Event(p).seq /\ player'[p] = Event(p).state
                 ELSE lastRemoteSeq'[p] = lastRemoteSeq[p] /\ player'[p] = player[p]
  <1>1. player \in [Peers -> PlayStates] /\ lastRemoteSeq \in [Peers -> Nat]
    BY DEF IInv, SessionOK
  <1>2. CASE OnState(p)
    BY <1>1, <1>2 DEF OnState, hostData
  <1>3. CASE OnConnected(p)
    BY <1>1, <1>3 DEF OnConnected, guestData
  <1>4. CASE OnPeerUpdate(p)
    BY <1>1, <1>4 DEF OnPeerUpdate, guestData, Newcomer
  <1>5. CASE OnDisconnected(p)
    BY <1>5 DEF OnDisconnected, session, guestData, hostData
  <1>6. CASE OnFile(p)
    BY <1>6 DEF OnFile, hostData
  <1>7. CASE OnOpenUrl(p)
    BY <1>7 DEF OnOpenUrl, hostData
  <1>8. CASE OnIntent(p)
    BY <1>1, <1>8 DEF OnIntent, guestData
  <1>9. QED
    BY <1>2, <1>3, <1>4, <1>5, <1>6, <1>7, <1>8 DEF HandleEvent

\* What guest g takes from its queues.
LEMMA GuestEventStating ==
    ASSUME IInv, Links, Stating, NEW g \in Guests, HandleEvent(g), Attended(g)',
           generation'[Host] <= 1
    PROVE  StateComes(g)'
  <1> DEFINE h == socket[Host]
             s == socket[g]
             n == localStateSeq
             a == Aware(g)
             T == Top
  <1>1. g \in Peers /\ Host \in Peers /\ g # Host
    BY PeersAssumption DEF Peers
  <1>2. /\ UNCHANGED <<wire, server, socket, generation, localSource>>
        /\ \A x \in Sockets : x # s => up'[x] = up[x]
        /\ Untouched(Host)
    BY <1>1, EventOthers
  <1>3. Attended(g)
    <2>1. UNCHANGED <<host, guests>> /\ joined'[Host] = joined[Host]
      BY <1>2 DEF server, Untouched
    <2>2. QED
      BY <1>2, <2>1 DEF Attended, CanSend, IsConnected, Online, Seated, Live, Untouched
  <1>4. /\ StateComes(g) /\ h \in Sockets /\ h[1] = Host /\ h # NoSocket /\ down'[h] = down[h]
        /\ up'[h] = up[h]
    BY <1>2, <1>3, SenderHasSeat DEF Stating, Attended, Untouched
  <1>5. s \in Sockets /\ s[1] = g /\ s # NoSocket
    BY <1>3, OnlineGuest DEF Attended
  <1>6. guestCount'[Host] = guestCount[Host]
    BY <1>1, RosterOfOthers
  <1>7. Renews => Renews'
    BY <1>2, <1>4, <1>6 DEF Renews
  <1>8. localStateSeq' = n /\ player'[Host] = player[Host] /\ Top' = T
    BY <1>1, EventPlays DEF Top
  <1>9. T.type = "state" /\ T.seq = n /\ T.state = player[Host] /\ T \in Frames /\ n \in Nat
    BY TopIs DEF IInv, SessionOK
  <1>10. /\ down \in [Sockets -> Seq(Frames)] /\ stale \in [Peers -> Seq(Frames)]
         /\ lastRemoteSeq[g] \in Nat /\ hostOnline[g] \in BOOLEAN
         /\ down[s] \in Seq(Frames) /\ stale[g] \in Seq(Frames)
    BY <1>1, <1>5, QueuesTyped DEF IInv, SessionOK
  <1>11. Queue(g) # <<>> /\ Dequeue(g)
    BY DEF HandleEvent
  <1>12. Event(g).type = "state" => Event(g).seq \in Nat /\ Event(g).seq <= n
    <2>1. Event(g) \in FramesOf(published) /\ published \in Seq(PlayStates) /\ n = Len(published)
      BY <1>1, <1>11, DequeueTyped DEF IInv, SessionOK
    <2>2. Event(g).type = "state" => Event(g).seq \in 1 .. n
      BY <2>1, FramesRead
    <2>3. QED
      BY <1>9, <2>2
  <1>13. IF Event(g).type = "state" /\ Event(g).seq > lastRemoteSeq[g]
         THEN lastRemoteSeq'[g] = Event(g).seq /\ player'[g] = Event(g).state
         ELSE lastRemoteSeq'[g] = lastRemoteSeq[g] /\ player'[g] = player[g]
    BY <1>1, EventPlays
  <1>14. hostOnline'[g] = IF Event(g).type = "peer_update" THEN Event(g).host ELSE hostOnline[g]
    BY <1>1, RosterIsKept, RosterIsTaken
  <1>15. CASE Renews
    BY <1>7, <1>15 DEF StateComes
  <1>16. CASE OnItsWay(g) /\ stale[g] # <<>>
    <2>1. /\ Event(g) = Head(stale[g]) /\ stale'[g] = Tail(stale[g]) /\ down' = down
      BY <1>1, <1>10, <1>11, <1>16 DEF Queue, Event, Dequeue
    <2>2. Lacks(stale[g], n) /\ lastRemoteSeq[g] < n /\ ~a
      BY <1>16 DEF OnItsWay, Aware
    <2>3. Lacks(stale'[g], n) /\ (Event(g).type = "state" => Event(g).seq < n)
      BY <1>10, <1>16, <2>1, <2>2, LacksTail
    <2>4. lastRemoteSeq'[g] < n
      BY <1>13, <2>2, <2>3
    <2>5. CarriesAware(down[s], T, a) => CarriesAware(down[s], T, Aware(g)')
      BY <2>2, AwareMore
    <2>6. OnItsWay(g)'
      BY <1>2, <1>4, <1>8, <1>16, <2>1, <2>3, <2>4, <2>5 DEF OnItsWay
    <2>7. QED
      BY <2>6 DEF StateComes
  <1>17. CASE stale[g] = <<>> /\ ~Renews
    <2>1. /\ Event(g) = Head(down[s]) /\ down[s] # <<>> /\ down'[s] = Tail(down[s])
          /\ stale'[g] = <<>>
      BY <1>5, <1>10, <1>11, <1>17 DEF Queue, Event, Dequeue
    <2>2. Aware(g)' <=> hostOnline'[g]
      BY <2>1 DEF Aware
    <2>3. a <=> hostOnline[g]
      BY <1>17 DEF Aware
    <2>4. Lacks(stale'[g], n)
      BY <2>1 DEF Lacks
    <2>5. CASE OnItsWay(g) /\ Carries(up[h], T) /\ Lacks(down[s], n)
      <3>1. lastRemoteSeq[g] < n
        BY <2>5 DEF OnItsWay
      <3> HIDE DEF s, T, n, h
      <3>2. Lacks(down'[s], n) /\ (Event(g).type = "state" => Event(g).seq < n)
        BY <1>10, <2>1, <2>5, LacksTail
      <3>3. lastRemoteSeq'[g] < n
        BY <1>13, <3>1, <3>2
      <3>4. OnItsWay(g)'
        BY <1>2, <1>4, <1>8, <2>4, <2>5, <3>2, <3>3 DEF OnItsWay, s, h
      <3>5. QED
        BY <3>4 DEF StateComes
    <2>6. CASE OnItsWay(g) /\ Lacks(up[h], n) /\ CarriesAware(down[s], T, a)
      <3>1. lastRemoteSeq[g] < n
        BY <2>6 DEF OnItsWay
      <3> DEFINE b == hostOnline'[g]
      <3>2. /\ Head(down[s]).type = "peer_update" /\ Head(down[s]).host => b
            /\ Head(down[s]).type # "peer_update" /\ a => b
        BY <1>14, <2>1, <2>3
      <3> HIDE DEF s, T, a, n, b, h
      <3>3. \/ CarriesAware(Tail(down[s]), T, b) /\ (Head(down[s]).type = "state" =>
                                                       Head(down[s]).seq < T.seq)
            \/ Head(down[s]) = T /\ a /\ OnlineFrom(Tail(down[s]), 1)
        <4> DEFINE q == down[s]
        <4>1. q \in Seq(Frames) /\ q # <<>> /\ CarriesAware(q, T, a)
          BY <1>10, <2>1, <2>6
        <4>2. /\ Head(q).type = "peer_update" /\ Head(q).host => b
              /\ Head(q).type # "peer_update" /\ a => b
          BY <3>2
        <4> HIDE DEF q
        <4>3. \/ CarriesAware(Tail(q), T, b) /\ (Head(q).type = "state" => Head(q).seq < T.seq)
              \/ Head(q) = T /\ a /\ OnlineFrom(Tail(q), 1)
          BY <4>1, <4>2, AwareTail
        <4>4. QED
          BY <4>3 DEF q
      <3>4. CASE CarriesAware(Tail(down[s]), T, b) /\ (Head(down[s]).type = "state" =>
                                                         Head(down[s]).seq < T.seq)
        <4>1. lastRemoteSeq'[g] < n
          BY <1>9, <1>13, <2>1, <3>1, <3>4
        <4>2. CarriesAware(down'[s], T, Aware(g)')
          BY <2>1, <2>2, <3>4, AwareMore DEF b
        <4>3. OnItsWay(g)'
          BY <1>2, <1>4, <1>8, <2>4, <2>6, <4>1, <4>2 DEF OnItsWay, s, h
        <4>4. QED
          BY <4>3 DEF StateComes
      <3>5. CASE Head(down[s]) = T /\ a /\ OnlineFrom(Tail(down[s]), 1)
        <4>1. Event(g).type = "state" /\ Event(g).seq = n /\ Event(g).state = player[Host]
          BY <1>9, <2>1, <3>5
        <4>2. lastRemoteSeq'[g] = n /\ player'[g] = player[Host]
          BY <1>13, <3>1, <4>1 DEF n
        <4>3. Aware(g)'
          BY <1>14, <2>2, <2>3, <3>5, <4>1
        <4>4. Taken(g)'
          BY <1>2, <1>8, <2>1, <3>5, <4>2, <4>3 DEF Taken, s
        <4>5. QED
          BY <4>4 DEF StateComes
      <3>6. QED
        BY <3>3, <3>4, <3>5
    <2>7. CASE Taken(g)
      <3>1. lastRemoteSeq[g] = n /\ player[g] = player[Host] /\ a /\ OnlineFrom(down[s], 1)
        BY <2>7 DEF Taken
      <3> HIDE DEF s, T, a, n, h
      <3>2. /\ OnlineFrom(Tail(down[s]), 1)
            /\ Head(down[s]).type = "peer_update" => Head(down[s]).host
        <4> DEFINE q == down[s]
        <4>1. q \in Seq(Frames) /\ q # <<>> /\ OnlineFrom(q, 1) /\ 1 \in Nat /\ 1 <= 1
          BY <1>10, <2>1, <3>1
        <4> HIDE DEF q
        <4>2. OnlineFrom(Tail(q), 1) /\ (Head(q).type = "peer_update" => Head(q).host)
          BY <4>1, OnlineTail
        <4>3. QED
          BY <4>2 DEF q
      <3>3. lastRemoteSeq'[g] = n /\ player'[g] = player[Host]
        BY <1>9, <1>12, <1>13, <3>1
      <3>4. Aware(g)'
        BY <1>14, <2>1, <2>2, <2>3, <3>1, <3>2
      <3>5. Taken(g)'
        BY <1>2, <1>8, <2>1, <3>2, <3>3, <3>4 DEF Taken, s
      <3>6. QED
        BY <3>5 DEF StateComes
    <2>8. QED
      BY <1>4, <1>17, <2>5, <2>6, <2>7 DEF StateComes, OnItsWay
  <1>18. Taken(g) => stale[g] = <<>>
    BY DEF Taken, Aware
  <1>19. QED
    BY <1>4, <1>15, <1>16, <1>17, <1>18 DEF StateComes

\* What a host that is connected and has joined says with a callback; of a
\* newcomer it hears only once, and then it speaks.
LEMMA HostEventSays ==
    ASSUME IInv, Links, HasFilm, HandleEvent(Host), CanSend(Host), stale[Host] = <<>>,
           joined'[Host]
    PROVE  \E r \in Seq(Frames) :
              /\ Says(r)
              /\ Speaks(r) \/ (Rises(guestCount[Host], down[socket[Host]]) =>
                                 Rises(guestCount'[Host], down'[socket[Host]]))
  <1> DEFINE h == socket[Host]
             gc == guestCount[Host]
             Kept == Rises(guestCount[Host], down[socket[Host]]) =>
                        Rises(guestCount'[Host], down'[socket[Host]])
  <1>1. /\ h \in Sockets /\ h # NoSocket /\ Host \in Peers /\ up \in [Sockets -> Seq(Frames)]
        /\ up[h] \in Seq(Frames) /\ player \in [Peers -> PlayStates] /\ localStateSeq \in Nat
        /\ shareUrl \in UrlValues /\ player[Host] \in PlayStates /\ gc \in Nat
        /\ down \in [Sockets -> Seq(Frames)] /\ down[h] \in Seq(Frames)
        /\ joined \in [Peers -> BOOLEAN]
    BY SenderHasSeat, QueuesTyped DEF Peers, IInv, SessionOK, ClientOK
  <1>2. /\ Event(Host) = Head(down[h]) /\ down[h] # <<>> /\ down'[h] = Tail(down[h])
    BY <1>1 DEF HandleEvent, Queue, Event, Dequeue
  <1>3. Event(Host).type # "peer_update" => Kept
    <2>1. SUFFICES ASSUME Event(Host).type # "peer_update", Rises(gc, down[h])
                   PROVE  Rises(guestCount'[Host], down'[h])
      OBVIOUS
    <2>2. guestCount' = guestCount
      BY <1>1, <2>1, RosterIsKept
    <2> DEFINE q == down[h]
    <2>3. q \in Seq(Frames) /\ q # <<>> /\ Head(q).type # "peer_update" /\ Rises(gc, q)
      BY <1>1, <1>2, <2>1
    <2> HIDE DEF q, gc
    <2>4. Rises(gc, Tail(q))
      BY <1>1, <2>3, RisesTail
    <2>5. QED
      BY <1>2, <2>2, <2>4 DEF q, gc
  <1>4. CASE OnConnected(Host)
    <2>1. Event(Host).type # "peer_update" /\ player' = player
      BY <1>4 DEF OnConnected
    <2>2. ~pendingJoin[Host]
      BY <1>1 DEF CanSend, Links, ClientLinks
    <2>3. CASE connectionState[Host] # "Connected"
      <3> DEFINE now == StateNow(player[Host], gc)
                 file == FileInfo(gc)
      <3>1. up' = [up EXCEPT ![h] = @ \o ((file \o now) \o <<>>)] /\ localStateSeq' = localStateSeq + 1
        BY <1>4, <2>2, <2>3 DEF OnConnected, CanSend, Capture
      <3>2. now \in Seq(Frames) /\ file \in Seq(Frames) /\ Only(file, {"file"})
        BY <1>1, StateNowIs, FileInfoIs DEF IInv, SessionOK
      <3> HIDE DEF now, file
      <3>3. file \o now \in Seq(Frames) /\ (file \o now) \o <<>> = file \o now /\ ~Has(file, "state")
        BY <3>2, ConcatProperties, ConcatEmptySeq, OnlyHas
      <3>4. up'[h] = up[h] \o (file \o now)
        BY <1>1, <3>1, <3>3
      <3>5. Says(file)
        BY <1>1, <2>1, <3>1, <3>2, <3>3, <3>4, NowSays DEF now
      <3>6. QED
        BY <1>3, <2>1, <3>2, <3>5
    <2>4. CASE connectionState[Host] = "Connected"
      <3>1. up' = [up EXCEPT ![h] = @ \o (<<>> \o <<>>)] /\ localStateSeq' = localStateSeq
        BY <1>4, <2>2, <2>4 DEF OnConnected, CanSend
      <3>2. up'[h] = up[h]
        BY <1>1, <3>1, ConcatEmptySeq
      <3>3. QED
        BY <1>1, <1>3, <2>1, <3>1, <3>2, NothingSaid
    <2>5. QED
      BY <2>3, <2>4
  <1>5. CASE OnDisconnected(Host) \/ OnState(Host) \/ OnFile(Host) \/ OnOpenUrl(Host)
    <2>1. ~OnDisconnected(Host)
      BY <1>1 DEF OnDisconnected
    <2>2. /\ up' = up /\ Event(Host).type # "peer_update" /\ localStateSeq' = localStateSeq
          /\ player'[Host] = player[Host]
      BY <1>5, <2>1 DEF OnState, OnFile, OnOpenUrl, hostData
    <2>3. QED
      BY <1>1, <1>3, <2>2, NothingSaid
  <1>6. CASE OnPeerUpdate(Host)
    <2> DEFINE n     == Event(Host).guests
               new   == Newcomer(Host, n)
               link  == IF new /\ shareUrl # NoUrl THEN <<UrlFrame(shareUrl)>> ELSE <<>>
               state == IF new THEN StateNow(player[Host], n) ELSE <<>>
               file  == FileInfo(n)
    <2>1. Post(Host, file \o link \o state) /\ player' = player
      BY <1>6 DEF OnPeerUpdate, Guarded
    <2>2. link \in Seq(Frames) /\ Only(link, {"file", "open_url"})
      <3>1. <<>> \in Seq(Frames)
        OBVIOUS
      <3>2. QED
        BY <1>1, <3>1, UrlIs, OnlyOne, OnlyEmpty
    <2>3. file \in Seq(Frames) /\ Only(file, {"file", "open_url"})
      BY FileInfoIs, OnlyMore DEF IInv, SessionOK
    <2> HIDE DEF link, file
    <2> DEFINE r == file \o link
    <2>4. r \in Seq(Frames) /\ Only(r, {"file", "open_url"})
      BY <2>2, <2>3, OnlyConcat
    <2>5. Post(Host, r \o state)
      BY <2>1
    <2> HIDE DEF r
    <2>6. ~Has(r, "state")
      BY <2>4, OnlyHas
    <2>7. up'[h] = up[h] \o (r \o state)
      BY <1>1, <2>5 DEF Post
    <2>8. n \in Nat
      <3>1. Event(Host) \in FramesOf(published) /\ published \in Seq(PlayStates)
        BY <1>1, DequeueTyped DEF IInv, SessionOK, HandleEvent
      <3>2. QED
        BY <1>6, <3>1, FramesRead DEF OnPeerUpdate
    <2>9. CASE new
      <3>1. n > 0 /\ localStateSeq' = localStateSeq + 1
        BY <1>6, <2>9 DEF Newcomer, OnPeerUpdate, Capture
      <3>2. up'[h] = up[h] \o (r \o StateNow(player[Host], n))
        BY <2>7, <2>9
      <3> HIDE DEF n, state, new
      <3>3. Says(r) /\ Speaks(r)
        BY <1>1, <2>1, <2>4, <2>6, <3>1, <3>2, NowSays
      <3>4. QED
        BY <2>4, <3>3
    <2>10. CASE ~new
      <3>1. localStateSeq' = localStateSeq
        BY <1>6, <2>10 DEF OnPeerUpdate
      <3>2. up'[h] = up[h] \o r
        BY <2>4, <2>7, <2>10, ConcatEmptySeq
      <3>3. Says(r)
        BY <2>1, <2>6, <3>1, <3>2 DEF Says, Quiet
      <3>4. Kept
        <4>1. ~(n > gc)
          BY <1>1, <2>8, <2>10 DEF Newcomer
        <4>2. guestCount'[Host] = n /\ Head(down[h]).type = "peer_update" /\ n = Head(down[h]).guests
          BY <1>1, <1>2, <1>6, RosterIsTaken DEF OnPeerUpdate
        <4> DEFINE q == down[h]
        <4>3. q \in Seq(Frames) /\ q # <<>> /\ Head(q).type = "peer_update"
              /\ ~(Head(q).guests > gc) /\ n = Head(q).guests
          BY <1>1, <1>2, <4>1, <4>2
        <4> HIDE DEF q, gc, n
        <4>4. Rises(gc, q) => Rises(n, Tail(q))
          BY <1>1, <4>3, RisesTail
        <4>5. QED
          BY <1>2, <4>2, <4>4 DEF q, gc
      <3>5. QED
        BY <2>4, <3>3, <3>4
    <2>11. QED
      BY <2>9, <2>10
  <1>7. CASE OnIntent(Host)
    <2> DEFINE st == Applied(Event(Host).command, player[Host])
    <2>1. Event(Host).type # "peer_update"
      BY <1>7 DEF OnIntent
    <2>2. CASE AllowGuestControl /\ localSource # NoSource
      <3>1. st \in PlayStates
        <4>1. Event(Host) \in FramesOf(published) /\ published \in Seq(PlayStates)
          BY <1>1, DequeueTyped DEF IInv, SessionOK, HandleEvent
        <4>2. Event(Host).command \in Commands
          BY <1>7, <4>1, FramesRead DEF OnIntent
        <4>3. QED
          BY <1>1, <4>2, AppliedTyped
      <3>2. /\ player' = [player EXCEPT ![Host] = st] /\ localStateSeq' = localStateSeq + 1
            /\ Post(Host, Guarded(Host, StateNow(st, gc)))
        BY <1>7, <2>2 DEF OnIntent, Capture
      <3> HIDE DEF st
      <3>3. player'[Host] = st
        BY <1>1, <3>2
      <3>4. Says(<<>>) /\ <<>> \in Seq(Frames)
        BY <3>1, <3>2, <3>3, PostNowSays
      <3>5. QED
        BY <1>3, <2>1, <3>4
    <2>3. CASE ~(AllowGuestControl /\ localSource # NoSource)
      <3>1. up' = up /\ localStateSeq' = localStateSeq /\ player' = player
        BY <1>7, <2>3 DEF OnIntent
      <3>2. QED
        BY <1>1, <1>3, <2>1, <3>1, NothingSaid
    <2>4. QED
      BY <2>2, <2>3
  <1>8. QED
    BY <1>4, <1>5, <1>6, <1>7 DEF HandleEvent

LEMMA HostEventStating ==
    ASSUME IInv, Links, Informing, HostFresh, Stating, HasFilm, NEW g \in Guests,
           HandleEvent(Host), Attended(g)', generation'[Host] <= 1
    PROVE  StateComes(g)'
  <1>1. g \in Peers \ {Host} /\ g \in Peers /\ Host \in Peers /\ g # Host
    BY PeersAssumption DEF Peers
  <1>2. /\ UNCHANGED <<wire, server, socket, generation, localSource>>
        /\ Untouched(g)
    BY <1>1, EventOthers
  <1>3. UNCHANGED <<host, guests>>
    BY <1>2 DEF server
  <1>4. /\ socket[Host] # NoSocket /\ Live(socket[Host]) /\ joined'[Host] /\ Online(g)
    BY <1>2, <1>3 DEF Attended, CanSend, IsConnected, Online, Seated, Live
  <1>5. CASE ~joined[Host]
    <2>1. Has(up'[socket[Host]], "join")
      BY <1>4, <1>5, HostJoins
    <2>2. QED
      BY <1>2, <2>1 DEF Renews, StateComes
  <1>6. CASE joined[Host]
    <2>1. CanSend(Host) /\ Attended(g)
      BY <1>4, <1>6 DEF CanSend, IsConnected, Attended, HasFilm
    <2>2. generation[Host] <= 1
      BY <1>2
    <2>3. StateComes(g) /\ stale[Host] = <<>>
      BY <2>1, <2>2 DEF Stating, HostFresh
    <2>4. PICK r \in Seq(Frames) :
              /\ Says(r)
              /\ Speaks(r) \/ (Rises(guestCount[Host], down[socket[Host]]) =>
                                 Rises(guestCount'[Host], down'[socket[Host]]))
      BY <1>4, <2>1, <2>3, HostEventSays
    <2>5. player'[g] = player[g] /\ lastRemoteSeq'[g] = lastRemoteSeq[g]
      BY <1>1, EventPlays
    <2>6. hostOnline'[g] = hostOnline[g]
      BY <1>1, RosterOfOthers
    <2>7. stale'[g] = stale[g] /\ down'[socket[g]] = down[socket[g]]
      BY <1>2, <1>4 DEF Untouched, Online
    <2>8. QED
      BY <1>2, <2>1, <2>3, <2>4, <2>5, <2>6, <2>7, SaysIt
  <1>7. QED
    BY <1>5, <1>6

LEMMA EventStating ==
    ASSUME IInv, Links, Informing, HostFresh, Stating, HasFilm, NEW p \in Peers, HandleEvent(p)
    PROVE  Stating'
  <1>1. SUFFICES ASSUME NEW g \in Guests, generation'[Host] <= 1, Attended(g)'
                 PROVE  StateComes(g)'
    BY DEF Stating
  <1>2. CASE p = Host
    BY <1>1, <1>2, HostEventStating
  <1>3. CASE p = g
    BY <1>1, <1>3, GuestEventStating
  <1>4. CASE p # Host /\ p # g
    <2>1. Host \in Peers \ {p} /\ g \in Peers \ {p}
      BY <1>4 DEF Peers
    <2>2. Untouched(g) /\ Untouched(Host) /\ UNCHANGED <<server, localSource>>
      BY <2>1, EventOthers
    <2>3. /\ localStateSeq' = localStateSeq /\ lastRemoteSeq'[g] = lastRemoteSeq[g]
          /\ player'[g] = player[g] /\ player'[Host] = player[Host]
      BY <1>4, <2>1, EventPlays
    <2>4. hostOnline'[g] = hostOnline[g] /\ guestCount'[Host] = guestCount[Host]
      BY <2>1, RosterOfOthers
    <2>5. QED
      BY <1>1, <2>2, <2>3, <2>4, UntouchedStating DEF server
  <1>5. QED
    BY <1>2, <1>3, <1>4

LEMMA TailRetains ==
    ASSUME NEW q \in Seq(Frames), q # <<>>, Head(q).type \notin {"join", "state"},
           NEW m, m.type = "state", NEW n
    PROVE  /\ Has(q, "join") => Has(Tail(q), "join")
           /\ Carries(q, m) => Carries(Tail(q), m)
           /\ Lacks(q, n) => Lacks(Tail(q), n)
  BY HasTail, CarriesTail, LacksTail

LEMMA FirstHost ==
    ASSUME IInv, Links, socket[Host] \in Sockets, generation[Host] <= 1, NEW x \in Sockets,
           x[1] = Host, up[x] # <<>>
    PROVE  x = socket[Host]
  <1>1. Host \in Peers /\ generation[Host] \in Nat
    BY DEF Peers, IInv, ClientOK
  <1>2. socket[Host] = <<Host, generation[Host]>> /\ socket[Host] # NoSocket
    BY <1>1, SenderIs, SocketsAssumption
  <1>3. x \in {Host} \X (1 .. MaxConnections[Host])
    BY ConnectionsAssumption
  <1>4. wire[x] # "idle"
    BY DEF Links, SocketOK, StreamOK
  <1>5. x[2] <= generation[Host]
    BY <1>1, <1>3, <1>4 DEF Links, SocketOK
  <1>6. QED
    BY <1>1, <1>2, <1>3, <1>5

LEMMA ArrivalStating ==
    ASSUME IInv, Links, Stating, NEW x \in Sockets, OnClientConnected(x),
           UNCHANGED <<client, session>>
    PROVE  Stating'
  <1> DEFINE h == socket[Host]
             T == Top
             n == localStateSeq
  <1>1. /\ up[x] # <<>> /\ Head(up[x]).type = "accepted"
        /\ up' = [up EXCEPT ![x] = Tail(up[x])]
    BY ArrivalIs
  <1>2. /\ UNCHANGED <<wire, down, host, guests, socket, joined, localSource, stale, generation>>
        /\ UNCHANGED <<localStateSeq, lastRemoteSeq, player, hostOnline, guestCount>>
        /\ up \in [Sockets -> Seq(Frames)] /\ down \in [Sockets -> Seq(Frames)]
    BY QueuesTyped DEF OnClientConnected, client, session, roster, hostData, guestData
  <1>3. SUFFICES ASSUME NEW g \in Guests, generation'[Host] <= 1, Attended(g)'
                 PROVE  StateComes(g)'
    BY DEF Stating
  <1>4. Attended(g)
    BY <1>2, <1>3, AttendedBefore DEF Live
  <1>5. StateComes(g) /\ h \in Sockets /\ down[socket[g]] \in Seq(Frames)
    BY <1>2, <1>3, <1>4, SenderHasSeat, OnlineGuest DEF Stating, Attended
  <1>6. T.type = "state"
    BY TopIs
  <1> HIDE DEF T, n
  <1>7. /\ Has(up[h], "join") => Has(up'[h], "join")
        /\ Carries(up[h], T) => Carries(up'[h], T)
        /\ Lacks(up[h], n) => Lacks(up'[h], n)
    <2>1. CASE x = h
      <3>1. up[x] \in Seq(Frames) /\ up'[h] = Tail(up[x])
        BY <1>1, <1>2, <2>1
      <3>2. QED
        BY <1>1, <1>6, <2>1, <3>1, TailRetains
    <2>2. CASE x # h
      BY <1>1, <1>2, <1>5, <2>2
    <2>3. QED
      BY <2>1, <2>2
  <1>8. Renews => Renews'
    BY <1>2, <1>7 DEF Renews
  <1>9. QED
    BY <1>2, <1>5, <1>7, <1>8, ComesKept DEF T, n

\* A newcomer is told to the host: it counts one more than it did.
LEMMA JoinStating ==
    ASSUME IInv, IInv', Links, Links', Informing, HostFresh, NEW x \in Sockets, OnJoin(x),
           UNCHANGED <<client, session>>
    PROVE  Stating'
  <1> DEFINE h == socket[Host]
             m == PeerUpdate(TRUE, Cardinality(guests'[Room]))
  <1>1. /\ peers[x].role = "none" /\ x \notin Ended(x)
        /\ host' = [host EXCEPT ![Room] = IF x[1] = Host THEN x ELSE @]
        /\ guests' = [guests EXCEPT ![Room] = IF x[1] = Host THEN @ ELSE @ \cup {x}]
        /\ wire' = [y \in Sockets |-> IF y \in Ended(x) THEN "down" ELSE wire[y]]
        /\ up' = [y \in Sockets |-> IF y \in Ended(x) THEN Append(up[y], Closed)
                                    ELSE IF y = x THEN Tail(up[x]) ELSE up[y]]
        /\ down' = [y \in Sockets |-> IF y \in Ended(x) THEN Append(down[y], Closed)
                                      ELSE PeerUpdateSent(host'[Room], guests'[Room])[y]]
    BY JoinIs
  <1>2. /\ socket' = socket /\ joined' = joined /\ generation' = generation
        /\ guestCount' = guestCount /\ Host \in Peers /\ Room \in Codes
        /\ host \in [Codes -> Sockets \cup {NoSocket}] /\ down \in [Sockets -> Seq(Frames)]
        /\ guests \in [Codes -> SUBSET Sockets]
    BY ValuesAssumption, QueuesTyped DEF client, session, roster, Peers, Room, IInv, ServerTypeOK
  <1>3. SUFFICES ASSUME NEW g \in Guests, generation'[Host] <= 1, Attended(g)'
                 PROVE  StateComes(g)'
    BY DEF Stating
  <1>4. SUFFICES Renews'
    BY DEF StateComes
  <1>5. Cardinality(guests'[Room]) \in Nat \ {0}
    <2>1. Online(g)'
      BY <1>3 DEF Attended
    <2>2. (Online(g) => Cardinality(guests[Room]) \in Nat \ {0})'
      BY OnlineGuest, PTL
    <2>3. QED
      BY <2>1, <2>2
  <1>6. CanSend(Host)'
    BY <1>3 DEF Attended
  <1>7. h \in Sockets /\ Live(h)'
    <2>1. socket[Host] # NoSocket /\ Live(socket[Host])'
      BY <1>2, <1>6 DEF CanSend, IsConnected, Live
    <2>2. QED
      BY <1>2, <2>1, SenderIs
  <1>8. h \notin Ended(x) /\ Live(h)
    BY <1>1, <1>2, <1>7 DEF Live
  <1>9. CanSend(Host)
    <2>1. joined'[Host]
      BY <1>6 DEF CanSend
    <2>2. QED
      BY <1>2, <1>7, <1>8, <2>1, SocketsAssumption DEF CanSend, IsConnected
  <1>10. /\ m \in Frames /\ m.type = "peer_update" /\ m.guests = Cardinality(guests'[Room])
         /\ down[h] \in Seq(Frames)
    BY <1>2, <1>5, <1>7 DEF PeerUpdate, Frames
  <1>11. host'[Room] = h => down'[h] = Append(down[h], m)
    BY <1>1, <1>7, <1>8 DEF PeerUpdateSent
  <1> HIDE DEF m
  <1>12. CASE x = h
    <2>1. host'[Room] = h
      BY <1>1, <1>2, <1>9, <1>12, SenderHasSeat
    <2>2. guestCount[Host] = 0
      BY <1>1, <1>2, <1>3, <1>8, <1>12 DEF HostFresh, Early, Live
    <2>3. guestCount[Host] < m.guests
      BY <1>5, <1>10, <2>2
    <2>4. Rises(guestCount[Host], down'[h])
      BY <1>10, <1>11, <2>1, <2>3, RisesNew
    <2>5. QED
      BY <1>2, <2>4 DEF Renews
  <1>13. CASE x # h
    <2>1. CASE Has(up[h], "join")
      BY <1>1, <1>2, <1>7, <1>8, <1>13, <2>1 DEF Renews
    <2>2. CASE h = host[Room] /\ Online(Host)
      <3>1. x[1] # Host
        BY <1>7, <1>8, <2>2 DEF Ended
      <3>2. host'[Room] = h
        BY <1>1, <1>2, <2>2, <3>1
      <3>3. guests'[Room] = guests[Room] \cup {x} /\ x \notin guests[Room]
        BY <1>1, <1>2, <3>1 DEF Links, Seats
      <3>4. IsFiniteSet(guests[Room])
        BY <1>2, SocketsAssumption, FS_Subset
      <3>5. /\ Cardinality(guests[Room]) \in Nat
            /\ Cardinality(guests'[Room]) = Cardinality(guests[Room]) + 1
        BY <3>3, <3>4, FS_CardinalityType, FS_AddElement
      <3>6. /\ Roster(Host).type = "peer_update"
            /\ Roster(Host).guests = Cardinality(guests[Room])
        BY DEF Roster, PeerUpdate
      <3>7. Roster(Host).guests < m.guests
        BY <1>10, <3>5, <3>6
      <3>8. \/ guestCount[Host] < m.guests
            \/ Last(down[h], "peer_update", Roster(Host))
        BY <1>2, <2>2, <3>7 DEF Informing, Informed, Knows
      <3>9. Rises(guestCount[Host], Append(down[h], m))
        BY <1>10, <3>6, <3>7, <3>8, RisesNew
      <3>10. QED
        BY <1>2, <1>11, <3>2, <3>9 DEF Renews
    <2>3. QED
      BY <1>9, <2>1, <2>2, SenderHasSeat
  <1>14. QED
    BY <1>12, <1>13

\* Whoever leaves, the guests who stay are told that the host is still there.
LEMMA EndStating ==
    ASSUME IInv, IInv', Links, Links', Stating, NEW x \in Sockets, OnSocketDisconnected(x),
           UNCHANGED <<client, session>>
    PROVE  Stating'
  <1> DEFINE h == socket[Host]
  <1>1. /\ up' = [up EXCEPT ![x] = <<>>]
        /\ host'[Room] = IF host[Room] = x THEN NoSocket ELSE host[Room]
        /\ guests'[Room] = guests[Room] \ {x}
        /\ \/ down' = PeerUpdateSent(host'[Room], guests'[Room])
           \/ down' = down
    BY EndIs
  <1>2. /\ UNCHANGED <<wire, socket, joined, localSource, stale, generation>>
        /\ UNCHANGED <<localStateSeq, lastRemoteSeq, player, hostOnline, guestCount>>
        /\ up \in [Sockets -> Seq(Frames)] /\ down \in [Sockets -> Seq(Frames)]
    BY QueuesTyped DEF OnSocketDisconnected, client, session, roster, hostData, guestData
  <1>3. SUFFICES ASSUME NEW g \in Guests, generation'[Host] <= 1, Attended(g)'
                 PROVE  StateComes(g)'
    BY DEF Stating
  <1> DEFINE s == socket[g]
  <1>4. /\ socket[Host] # NoSocket /\ wire[socket[Host]] = "up" /\ joined[Host]
        /\ localSource # NoSource
        /\ socket[g] # NoSocket /\ wire[socket[g]] = "up"
        /\ socket[g] = host'[Room] \/ socket[g] \in guests'[Room]
    <2>1. /\ socket'[Host] # NoSocket /\ wire'[socket'[Host]] = "up" /\ joined'[Host]
          /\ localSource' # NoSource
          /\ socket'[g] # NoSocket /\ wire'[socket'[g]] = "up"
          /\ socket'[g] = host'[Room] \/ socket'[g] \in guests'[Room]
      BY <1>3 DEF Attended, CanSend, IsConnected, Online, Seated, Live, Room
    <2>2. QED
      BY <1>2, <2>1
  <1>5. CanSend(Host)
    BY <1>4 DEF CanSend, IsConnected, Live
  <1>6. Online(g)
    BY <1>1, <1>4 DEF Online, Seated, Live
  <1>7. StateComes(g) /\ h \in Sockets /\ s \in Sockets /\ g # Host
    BY <1>2, <1>3, <1>4, <1>5, <1>6, SenderHasSeat, OnlineGuest DEF Stating, Attended
  <1>8. h # x /\ s # x
    <2>1. wire[x] = "down"
      BY EndIs
    <2>2. QED
      BY <1>4, <2>1
  <1>9. up'[h] = up[h]
    BY <1>1, <1>2, <1>7, <1>8
  <1>10. Cardinality(guests'[Room]) \in Nat
    <2>1. Online(g)'
      BY <1>3 DEF Attended
    <2>2. (Online(g) => Cardinality(guests[Room]) \in Nat \ {0})'
      BY OnlineGuest, PTL
    <2>3. QED
      BY <2>1, <2>2
  <1>11. ASSUME NEW b \in BOOLEAN
         PROVE  /\ PeerUpdate(b, Cardinality(guests'[Room])) \in Frames
                /\ PeerUpdate(b, Cardinality(guests'[Room])).type = "peer_update"
                /\ PeerUpdate(b, Cardinality(guests'[Room])).host = b
    BY <1>10 DEF PeerUpdate, Frames
  <1>12. down'[h] = down[h] \/ \E m \in Frames : down'[h] = Append(down[h], m)
    BY <1>1, <1>7, <1>11 DEF PeerUpdateSent
  <1>13. Renews => Renews'
    <2>1. down[h] \in Seq(Frames)
      BY <1>2, <1>7
    <2>2. Rises(guestCount[Host], down[h]) => Rises(guestCount[Host], down'[h])
      BY <1>12, <2>1, RisesAppend
    <2>3. QED
      BY <1>2, <1>9, <2>2 DEF Renews
  <1>14. CASE Has(up[h], "join")
    BY <1>13, <1>14 DEF Renews, StateComes
  <1>15. CASE h = host[Room]
    <2>1. host'[Room] = h /\ h # NoSocket
      BY <1>1, <1>4, <1>8, <1>15
    <2>2. s # h
      BY <1>6, <1>7, <1>15, OnlineGuest
    <2>3. \/ down'[s] = down[s]
          \/ \E m \in Frames : /\ down'[s] = Append(down[s], m)
                               /\ m.type = "peer_update" /\ m.host
      <3>1. CASE down' = down
        BY <3>1
      <3>2. CASE down' = PeerUpdateSent(host'[Room], guests'[Room])
        <4>1. \/ down'[s] = down[s]
              \/ down'[s] = Append(down[s], PeerUpdate(TRUE, Cardinality(guests'[Room])))
          BY <1>7, <2>1, <2>2, <3>2 DEF PeerUpdateSent
        <4>2. QED
          BY <1>11, <4>1
      <3>3. QED
        BY <1>1, <3>1, <3>2
    <2>4. down[socket[g]] \in Seq(Frames)
      BY <1>2, <1>7
    <2>5. \/ down'[socket[g]] = down[socket[g]]
          \/ \E m \in Frames : /\ down'[socket[g]] = Append(down[socket[g]], m)
                               /\ m.type = "peer_update" => m.host
                               /\ m.type = "state" => m.seq < localStateSeq
      BY <2>3
    <2>6. QED
      BY <1>2, <1>7, <1>9, <1>13, <2>4, <2>5, ComesKept
  <1>16. QED
    BY <1>5, <1>14, <1>15, SenderHasSeat

\* Guest g knows, or is told before anything that comes after, that there is a host.
LEMMA AwareOfHost ==
    ASSUME Informing, NEW g \in Guests, Online(g), host[Room] # NoSocket
    PROVE  \/ Aware(g) /\ ~Has(down[socket[g]], "peer_update")
           \/ \E i \in 1 .. Len(down[socket[g]]) :
                 /\ down[socket[g]][i].type = "peer_update"
                 /\ OnlineFrom(down[socket[g]], i)
  <1> DEFINE q == down[socket[g]]
             r == Roster(g)
  <1>1. r.type = "peer_update" /\ r.host = TRUE
    BY DEF Roster, PeerUpdate
  <1>2. Last(q, "peer_update", r) \/ (~Has(q, "peer_update") /\ Knows(g))
    BY DEF Informing, Informed, Peers
  <1>3. CASE ~Has(q, "peer_update") /\ Knows(g)
    BY <1>1, <1>3 DEF Knows, Aware
  <1>4. CASE Last(q, "peer_update", r)
    <2> HIDE DEF q, r
    <2>1. PICK i \in 1 .. Len(q) :
               q[i] = r /\ \A k \in 1 .. Len(q) : k > i => q[k].type # "peer_update"
      BY <1>4 DEF Last
    <2>2. OnlineFrom(q, i)
      BY <1>1, <2>1 DEF OnlineFrom
    <2>3. QED
      BY <1>1, <2>1, <2>2 DEF q
  <1>5. QED
    BY <1>2, <1>3, <1>4

LEMMA RelayStating ==
    ASSUME IInv, Links, Informing, Stating, NEW x \in Sockets, OnRelay(x),
           UNCHANGED <<client, session>>
    PROVE  Stating'
  <1> DEFINE h == socket[Host]
             T == Top
             m == Head(up[x])
             n == localStateSeq
  <1>1. /\ up[x] # <<>> /\ m.type \notin Special /\ m.type \in UpTypes(x)
        /\ up' = [up EXCEPT ![x] = Tail(up[x])] /\ peers[x].role = RoleOf(x)
    BY RelayIs
  <1>2. /\ UNCHANGED <<wire, peers, host, guests, sessionOf, socket, joined, localSource, stale>>
        /\ UNCHANGED <<generation, localStateSeq, lastRemoteSeq, player, hostOnline, guestCount>>
        /\ up \in [Sockets -> Seq(Frames)] /\ down \in [Sockets -> Seq(Frames)]
        /\ up[x] \in Seq(Frames) /\ m \in Frames
    BY <1>1, QueuesTyped, TailRead DEF OnRelay, server, client, session, roster, hostData, guestData
  <1>3. SUFFICES ASSUME NEW g \in Guests, generation'[Host] <= 1, Attended(g)'
                 PROVE  StateComes(g)'
    BY DEF Stating
  <1> DEFINE s == socket[g]
  <1>4. Attended(g)
    BY <1>2, <1>3, AttendedBefore DEF Live
  <1>5. StateComes(g) /\ h \in Sockets /\ h # NoSocket /\ Live(h) /\ h[1] = Host
    BY <1>2, <1>3, <1>4, SenderHasSeat DEF Stating, Attended
  <1>6. /\ s \in Sockets /\ s[1] = g /\ g # Host /\ Live(s) /\ s \in guests[Room]
        /\ sessionOf[Room] = Room /\ down[s] \in Seq(Frames)
    BY <1>2, <1>4, OnlineGuest DEF Attended
  <1>7. T \in Frames /\ T.type = "state" /\ T.seq = n
    BY TopIs
  <1>8. \A y \in Sockets : down'[y] = down[y] \/ down'[y] = Append(down[y], m)
    BY RelayDown
  <1> HIDE DEF T, m, n
  <1>9. \A y \in Sockets : Has(up[y], "join") => Has(up'[y], "join")
    <2>1. Has(Tail(up[x]), "join") <=> Has(up[x], "join")
      BY <1>1, <1>2, HasTail DEF Special, m
    <2>2. QED
      BY <1>1, <1>2, <2>1
  <1>10. Renews => Renews'
    <2>1. down[h] \in Seq(Frames) /\ m \in Frames /\ (down'[h] = down[h] \/ down'[h] = Append(down[h], m))
      BY <1>2, <1>5, <1>8
    <2>2. Rises(guestCount[Host], down[h]) => Rises(guestCount[Host], down'[h])
      BY <2>1, RisesAppend
    <2>3. QED
      BY <1>2, <1>5, <1>9, <2>2 DEF Renews
  <1>11. m.type # "peer_update"
    BY <1>1 DEF UpTypes, Special
  <1>12. CASE x[1] # Host
    <2>1. m.type = "intent"
      BY <1>1, <1>12 DEF UpTypes, Special
    <2>2. up'[h] = up[h]
      BY <1>1, <1>2, <1>5, <1>12
    <2>3. \/ down'[socket[g]] = down[socket[g]]
          \/ \E k \in Frames : /\ down'[socket[g]] = Append(down[socket[g]], k)
                               /\ k.type = "peer_update" => k.host
                               /\ k.type = "state" => k.seq < localStateSeq
      BY <1>2, <1>6, <1>8, <2>1
    <2>4. QED
      BY <1>2, <1>5, <1>6, <1>10, <2>2, <2>3, ComesKept
  <1>13. CASE x[1] = Host
    <2>1. x = h
      BY <1>1, <1>2, <1>3, <1>5, <1>13, FirstHost
    <2>2. m.type \in {"state", "file", "open_url"} /\ peers[x].role = "host"
      BY <1>1, <1>13 DEF UpTypes, Special, RoleOf
    <2>3. down'[s] = Append(down[s], m)
      BY <1>6, <2>2, RelayReaches DEF m
    <2>4. host[Room] # NoSocket
      BY <1>5, <2>1, <2>2 DEF Links, Seats
    <2>5. up'[h] = Tail(up[h]) /\ up[h] \in Seq(Frames) /\ up[h] # <<>> /\ m = Head(up[h])
      BY <1>1, <1>2, <2>1 DEF m
    <2> DEFINE q == down[s]
               u == up[h]
               a == Aware(g)
    <2>6. q \in Seq(Frames) /\ u \in Seq(Frames) /\ u # <<>> /\ m = Head(u) /\ m \in Frames
      BY <1>2, <1>6, <2>5
    <2>7. \/ a /\ ~Has(q, "peer_update")
          \/ \E i \in 1 .. Len(q) : q[i].type = "peer_update" /\ OnlineFrom(q, i)
      BY <1>4, <2>4, AwareOfHost DEF Attended
    <2> HIDE DEF q, u, a
    <2>8. CASE Renews
      BY <1>10, <2>8 DEF StateComes
    <2>9. CASE OnItsWay(g)
      <3>1. \/ Carries(u, T) /\ Lacks(q, n)
            \/ Lacks(u, n) /\ CarriesAware(q, T, a)
        BY <2>9 DEF OnItsWay, q, u, a, T, n
      <3>2. \/ Carries(Tail(u), T) /\ Lacks(Append(q, m), n)
            \/ Lacks(Tail(u), n) /\ CarriesAware(Append(q, m), T, a)
        <4>1. CASE Carries(u, T) /\ Lacks(q, n)
          <5>1. \/ Carries(Tail(u), T) /\ (m.type = "state" => m.seq < n)
                \/ m = T /\ Lacks(Tail(u), n)
            BY <1>7, <2>6, <4>1, CarriesTail
          <5>2. CASE Carries(Tail(u), T) /\ (m.type = "state" => m.seq < n)
            BY <2>6, <4>1, <5>2, LacksAppend
          <5>3. CASE m = T /\ Lacks(Tail(u), n)
            <6>1. CarriesAware(Append(q, m), m, a)
              BY <1>7, <2>6, <2>7, <4>1, <5>3, AwareNew
            <6>2. QED
              BY <5>3, <6>1
          <5>4. QED
            BY <5>1, <5>2, <5>3
        <4>2. CASE Lacks(u, n) /\ CarriesAware(q, T, a)
          <5>1. Lacks(Tail(u), n) /\ (m.type = "state" => m.seq < n)
            BY <2>6, <4>2, LacksTail
          <5>2. CarriesAware(Append(q, m), T, a)
            BY <1>7, <1>11, <2>6, <4>2, <5>1, AwareAppend
          <5>3. QED
            BY <5>1, <5>2
        <4>3. QED
          BY <3>1, <4>1, <4>2
      <3>3. Top' = T /\ Aware(g)' = a
        BY <1>2 DEF Top, StateFrame, Aware, T, a
      <3>4. up'[h] = Tail(u) /\ down'[s] = Append(q, m)
        BY <2>3, <2>5 DEF u, q
      <3>5. OnItsWay(g)'
        BY <1>2, <2>9, <3>2, <3>3, <3>4 DEF OnItsWay, n
      <3>6. QED
        BY <3>5 DEF StateComes
    <2>10. CASE Taken(g)
      <3>1. \E k \in Frames : /\ down'[socket[g]] = Append(down[socket[g]], k)
                              /\ k.type = "peer_update" => k.host
        BY <1>2, <1>11, <2>3
      <3>2. Taken(g)'
        BY <1>2, <1>6, <2>10, <3>1, TakenKept
      <3>3. QED
        BY <3>2 DEF StateComes
    <2>11. QED
      BY <1>5, <2>8, <2>9, <2>10 DEF StateComes
  <1>14. QED
    BY <1>12, <1>13

LEMMA ServerStating ==
    ASSUME IInv, IInv', Links, Links', Informing, HostFresh, Stating,
           NEW x \in Sockets, ServerStep(x)
    PROVE  Stating'
  BY ArrivalStating, JoinStating, EndStating, RelayStating, NoPing
     DEF ServerStep, ServerTask, OnTextMessage

LEMMA NextStating ==
    ASSUME IInv, IInv', Links, Links', Informing, HostFresh, HasFilm, Stating, [Next]_vars
    PROVE  Stating'
  <1>1. CASE UNCHANGED vars
    <2>1. SUFFICES ASSUME NEW g \in Guests, generation'[Host] <= 1, Attended(g)'
                   PROVE  StateComes(g)'
      BY DEF Stating
    <2>2. /\ UNCHANGED <<net, client>>
          /\ UNCHANGED <<host, guests, localSource, localStateSeq, player>>
          /\ UNCHANGED <<hostOnline, guestCount, lastRemoteSeq>>
      BY <1>1 DEF vars, server, session, roster, hostData, guestData
    <2>3. Untouched(g) /\ Untouched(Host)
      BY <2>2 DEF Untouched, net, client
    <2>4. QED
      BY <2>1, <2>2, <2>3, UntouchedStating
  <1>2. CASE StartHostSession
    <2>1. /\ ConnectAndJoin(Host) /\ Host \in Peers
          /\ UNCHANGED <<peers, host, guests, localSource, player>>
      BY <1>2 DEF StartHostSession, Peers
    <2>2. QED
      BY <2>1, ConnectStating
  <1>3. ASSUME NEW g \in Guests, JoinSession(g) PROVE Stating'
    <2>1. /\ ConnectAndJoin(g) /\ g \in Peers /\ localStateSeq' = localStateSeq
          /\ UNCHANGED <<peers, host, guests, localSource, player>>
      BY <1>3 DEF JoinSession, Peers, server, hostData
    <2>2. \A q \in Peers \ {g} : /\ hostOnline'[q] = hostOnline[q]
                                 /\ guestCount'[q] = guestCount[q]
                                 /\ lastRemoteSeq'[q] = lastRemoteSeq[q]
      BY <1>3 DEF JoinSession, IInv, SessionOK
    <2>3. QED
      BY <2>1, <2>2, ConnectStating
  <1>4. ASSUME NEW p \in Peers, Reconnect(p) PROVE Stating'
    <2>1. /\ ConnectAndJoin(p) /\ localStateSeq' = localStateSeq
          /\ UNCHANGED <<peers, host, guests, localSource, player>>
          /\ hostOnline' = hostOnline /\ guestCount' = guestCount /\ lastRemoteSeq' = lastRemoteSeq
      BY <1>4 DEF Reconnect, server, session, roster, hostData, guestData
    <2>2. QED
      BY <2>1, ConnectStating
  <1>5. CASE \/ Heartbeat
             \/ \E f \in Sources \cup Urls : SetLocalFileInfo(f)
             \/ \E u \in Urls : ShareOpenUrl(u)
             \/ \E p \in Peers, cmd \in Commands : UserCommand(p, cmd)
    BY <1>5, UserStating
  <1>6. ASSUME NEW g \in Guests, LeaveSession(g) PROVE Stating'
    BY <1>6, LeaveStating
  <1>7. ASSUME NEW p \in Peers, HandleEvent(p) PROVE Stating'
    BY <1>7, EventStating
  <1>8. ASSUME NEW s \in Sockets, ServerStep(s) PROVE Stating'
    BY <1>8, ServerStating
  <1>9. ASSUME NEW s \in Sockets, Open(s) \/ Refuse(s) \/ Drop(s) PROVE Stating'
    BY <1>9, WireStating
  <1>10. QED
    BY <1>1, <1>2, <1>3, <1>4, <1>5, <1>6, <1>7, <1>8, <1>9 DEF Next

LEMMA StatingHolds == NoSource \notin StartSources /\ Spec => []Stating
  <1>1. Init => Stating
    BY DEF Init, Stating, Attended, CanSend, IsConnected, Peers
  <1>2. IInv /\ IInv' /\ Links /\ Links' /\ Informing /\ HostFresh /\ HasFilm /\ Stating
           /\ [Next]_vars => Stating'
    BY NextStating
  <1>3. QED
    BY <1>1, <1>2, Invariance, LinksHold, InformingHolds, FreshHolds, FilmHolds, PTL DEF Spec

\* Once everything has arrived, every guest that watches plays what the host
\* plays, whoever joined, left or came back meanwhile, as long as the host kept
\* its first connection and had a film open when it began: a host that opens its
\* first film later announces the film, and its state only with the next report.
THEOREM GuestsEndInStep == NoSource \notin StartSources /\ Spec => []InStep
  <1>1. IInv /\ Links /\ Stating => InStep
    BY StateOfSettled
  <1>2. QED
    BY <1>1, Invariance, LinksHold, StatingHolds, PTL
=============================================================================
