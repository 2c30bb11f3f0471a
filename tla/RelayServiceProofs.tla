------------------------- MODULE RelayServiceProofs -------------------------
(***************************************************************************)
(* For any connections, codes, password and types of frames: the seats of  *)
(* the relay server and its peers agree, a connection that ended gives its *)
(* seat up, and frames are forwarded by the rules of the roles             *)
(* (network/signaling_server.cpp).                                         *)
(*                                                                         *)
(* None is inductive.  That a connection leaves its seat depends on the    *)
(* order of the callbacks that are still queued for it: the one about its  *)
(* arrival comes first, its join directly behind, the one about its end    *)
(* last, and a connection that is gone has one as long as it is a peer     *)
(* (StreamOK).  That the seat is found again depends on the codes: a       *)
(* session is reached under the name of the code that created it for as    *)
(* long as it is reached under any (CodesLead).  And that a frame comes    *)
(* from where it says depends on what else is on a connection (Roles).     *)
(***************************************************************************)
EXTENDS RelayService, SequenceTheorems, FiniteSetTheorems, TLAPS

UpFrames ==
    [type : {"accepted", "closed"}]
      \cup [type : {"join"}, code : Codes, role : {"host", "guest"}]
      \cup [type : FrameTypes, from : Sockets]

PeerUpdates == [type : {"peer_update"}, host : BOOLEAN, guests : 0 .. Cardinality(Sockets)]

DownFrames ==
    [type : {"closed", "pong"}] \cup PeerUpdates \cup [type : FrameTypes, from : Sockets]

Channels ==
    /\ up \in [Sockets -> Seq(UpFrames)]
    /\ down \in [Sockets -> Seq(DownFrames)]
    /\ told \in [Sockets -> PeerUpdates]

\* What may be queued for a connection in state w whose peer has the given role.
StreamOK(w, q, role) ==
    /\ w = "idle" => q = <<>> /\ role = "absent"
    /\ w = "down" /\ role # "absent" => q # <<>>
    /\ w = "down" /\ q # <<>> => q[Len(q)].type = "closed"
    /\ \A i \in 1 .. Len(q) :
          /\ q[i].type = "accepted" => i = 1 /\ role = "absent"
          /\ q[i].type = "join" => \/ i = 1 /\ role = "none"
                                   \/ i = 2 /\ q[1].type = "accepted"
          /\ q[i].type = "closed" => i = Len(q) /\ w = "down"

Streams == \A s \in Sockets : StreamOK(wire[s], up[s], peers[s].role)

CodesLead ==
    \A c \in Codes : sessionOf[c] # NoCode => sessionOf[sessionOf[c]] = sessionOf[c]

IInv == TypeOK /\ Channels /\ Streams /\ CodesLead /\ SeatsAreAccountedFor

----------------------------------------------------------------------------
(* Frames and the queues they are in.                                      *)

LEMMA FramesBuilt ==
    /\ Accepted \in UpFrames /\ Closed \in UpFrames /\ Closed \in DownFrames
    /\ [type |-> "pong"] \in DownFrames
    /\ \A c \in Codes, role \in {"host", "guest"} :
          [type |-> "join", code |-> c, role |-> role] \in UpFrames
    /\ \A t \in FrameTypes, s \in Sockets :
          [type |-> t, from |-> s] \in UpFrames \cap DownFrames
  BY DEF UpFrames, DownFrames, Accepted, Closed

LEMMA UpFramesRead ==
    ASSUME NEW m \in UpFrames
    PROVE  /\ m.type = "join" => m.code \in Codes /\ m.role \in {"host", "guest"}
           /\ m.type \notin {"accepted", "closed", "join"} => m \in DownFrames
  BY RelayAssumption DEF UpFrames, DownFrames

LEMMA DownFramesRead ==
    ASSUME NEW m \in DownFrames, m.type = "peer_update"
    PROVE  m \in PeerUpdates
  BY RelayAssumption DEF DownFrames, PeerUpdates

\* Every roster the server sends is a number of connections there are.
LEMMA PeerUpdateTyped ==
    ASSUME NEW online \in BOOLEAN, NEW g \in SUBSET Sockets
    PROVE  PeerUpdate(online, Cardinality(g)) \in PeerUpdates \cap DownFrames
  <1>1. Cardinality(g) \in Nat /\ Cardinality(Sockets) \in Nat
        /\ Cardinality(g) <= Cardinality(Sockets)
    BY SocketsAssumption, FS_Subset, FS_CardinalityType
  <1>2. QED
    BY <1>1 DEF PeerUpdate, PeerUpdates, DownFrames

LEMMA PeerUpdateSentTyped ==
    ASSUME Channels, NEW h, NEW g \in SUBSET Sockets
    PROVE  PeerUpdateSent(h, g) \in [Sockets -> Seq(DownFrames)]
  <1>1. \A s \in Sockets, online \in BOOLEAN :
           Append(down[s], PeerUpdate(online, Cardinality(g))) \in Seq(DownFrames)
    BY PeerUpdateTyped, AppendProperties DEF Channels
  <1>2. QED
    BY <1>1 DEF PeerUpdateSent, Channels

LEMMA SentToTyped ==
    ASSUME Channels, NEW targets, NEW m \in DownFrames
    PROVE  SentTo(targets, m) \in [Sockets -> Seq(DownFrames)]
  <1>1. \A s \in Sockets : Append(down[s], m) \in Seq(DownFrames)
    BY AppendProperties DEF Channels
  <1>2. QED
    BY <1>1 DEF SentTo, Channels

\* A stream with the callback about the end of the connection behind it.
LEMMA EndedTyped ==
    ASSUME Channels, NEW s \in Sockets
    PROVE  /\ Append(up[s], Closed) \in Seq(UpFrames)
           /\ Append(down[s], Closed) \in Seq(DownFrames)
  BY FramesBuilt, AppendProperties DEF Channels

----------------------------------------------------------------------------
(* What becomes of the order in a queue.                                   *)

LEMMA EmptyRead ==
    ASSUME NEW q \in Seq(UpFrames)
    PROVE  q = <<>> <=> Len(q) = 0
  BY EmptySeq

LEMMA TailRead ==
    ASSUME NEW q \in Seq(UpFrames), q # <<>>
    PROVE  /\ Tail(q) \in Seq(UpFrames) /\ Head(q) = q[1] /\ Len(q) \in Nat \ {0}
           /\ Len(Tail(q)) = Len(q) - 1
           /\ Tail(q) = <<>> <=> Len(q) = 1
           /\ \A i \in 1 .. Len(Tail(q)) : Tail(q)[i] = q[i + 1]
  <1>1. /\ Tail(q) \in Seq(UpFrames) /\ Head(q) = q[1]
        /\ Len(q) \in Nat \ {0} /\ Len(Tail(q)) = Len(q) - 1
        /\ \A i \in 1 .. Len(Tail(q)) : Tail(q)[i] = q[i + 1]
    BY HeadTailProperties, LenProperties, EmptySeq
  <1>2. Tail(q) = <<>> <=> Len(Tail(q)) = 0
    BY <1>1, EmptyRead
  <1>3. QED
    BY <1>1, <1>2

\* A task is run that is neither about the arrival nor about the end.
LEMMA TextIsRun ==
    ASSUME NEW w, NEW role, NEW newRole, NEW q \in Seq(UpFrames), q # <<>>,
           StreamOK(w, q, role), Head(q).type \notin {"accepted", "closed"}
    PROVE  StreamOK(w, Tail(q), newRole)
  <1>1. w # "idle"
    BY DEF StreamOK
  <1>2. w = "down" => Len(q) > 1 /\ Tail(q) # <<>> /\ Tail(q)[Len(Tail(q))].type = "closed"
    <2>1. SUFFICES ASSUME w = "down" PROVE Len(q) > 1 /\ Tail(q) # <<>>
                                           /\ Tail(q)[Len(Tail(q))].type = "closed"
      OBVIOUS
    <2>2. q[Len(q)].type = "closed"
      BY <2>1 DEF StreamOK
    <2>3. Len(q) > 1 /\ Len(q) # 1
      BY <2>2, TailRead
    <2>4. Len(Tail(q)) \in 1 .. Len(Tail(q)) /\ Len(Tail(q)) + 1 = Len(q)
      BY <2>3, TailRead
    <2>5. Tail(q)[Len(Tail(q))] = q[Len(q)]
      BY <2>4, TailRead
    <2>6. Tail(q) # <<>>
      BY <2>3, TailRead, Zenon
    <2>7. QED
      BY <2>2, <2>3, <2>5, <2>6
  <1>3. ASSUME NEW i \in 1 .. Len(Tail(q))
        PROVE  /\ Tail(q)[i].type \notin {"accepted", "join"}
               /\ Tail(q)[i].type = "closed" => i = Len(Tail(q)) /\ w = "down"
    <2>1. i + 1 \in 1 .. Len(q) /\ i + 1 # 1 /\ Tail(q)[i] = q[i + 1] /\ q[1].type # "accepted"
      BY TailRead
    <2>2. QED
      BY <2>1, TailRead DEF StreamOK
  <1>4. QED
    BY <1>1, <1>2, <1>3 DEF StreamOK

LEMMA ArrivalIsRun ==
    ASSUME NEW w, NEW role, NEW q \in Seq(UpFrames), q # <<>>,
           StreamOK(w, q, role), Head(q).type = "accepted"
    PROVE  StreamOK(w, Tail(q), "none")
  <1>1. w # "idle"
    BY DEF StreamOK
  <1>2. w = "down" => Tail(q) # <<>> /\ Tail(q)[Len(Tail(q))].type = "closed"
    <2>1. SUFFICES ASSUME w = "down"
                   PROVE  Tail(q) # <<>> /\ Tail(q)[Len(Tail(q))].type = "closed"
      OBVIOUS
    <2>2. q[Len(q)].type = "closed"
      BY <2>1 DEF StreamOK
    <2>3. Len(q) > 1 /\ Len(q) # 1
      BY <2>2, TailRead
    <2>4. Len(Tail(q)) \in 1 .. Len(Tail(q)) /\ Len(Tail(q)) + 1 = Len(q)
      BY <2>3, TailRead
    <2>5. Tail(q)[Len(Tail(q))] = q[Len(q)]
      BY <2>4, TailRead
    <2>6. Tail(q) # <<>>
      BY <2>3, TailRead, Zenon
    <2>7. QED
      BY <2>2, <2>5, <2>6
  <1>3. ASSUME NEW i \in 1 .. Len(Tail(q))
        PROVE  /\ Tail(q)[i].type # "accepted"
               /\ Tail(q)[i].type = "join" => i = 1
               /\ Tail(q)[i].type = "closed" => i = Len(Tail(q)) /\ w = "down"
    <2>1. i + 1 \in 1 .. Len(q) /\ i + 1 # 1 /\ Tail(q)[i] = q[i + 1]
      BY TailRead
    <2>2. QED
      BY <2>1, TailRead DEF StreamOK
  <1>4. QED
    BY <1>1, <1>2, <1>3 DEF StreamOK

LEMMA EndIsRun ==
    ASSUME NEW w, NEW role, NEW q \in Seq(UpFrames), q # <<>>,
           StreamOK(w, q, role), Head(q).type = "closed"
    PROVE  w = "down" /\ StreamOK(w, Tail(q), "absent")
  <1>1. w = "down" /\ Len(q) = 1
    <2>1. 1 \in 1 .. Len(q) /\ q[1].type = "closed"
      BY TailRead
    <2>2. QED
      BY <2>1 DEF StreamOK
  <1>2. Len(Tail(q)) = 0 /\ Tail(q) = <<>>
    BY <1>1, TailRead
  <1>3. QED
    BY <1>1, <1>2 DEF StreamOK

\* The connection breaks, or is closed, after the first i frames arrived.
LEMMA StreamIsCut ==
    ASSUME NEW role, NEW q \in Seq(UpFrames), StreamOK("up", q, role), NEW i \in 0 .. Len(q)
    PROVE  /\ Append(SubSeq(q, 1, i), Closed) \in Seq(UpFrames)
           /\ StreamOK("down", Append(SubSeq(q, 1, i), Closed), role)
  <1> DEFINE kept == SubSeq(q, 1, i)
             cut  == Append(kept, Closed)
  <1>1. Len(q) \in Nat
    BY LenProperties
  <1>2. kept \in Seq(UpFrames) /\ Len(kept) = i /\ \A k \in 1 .. i : kept[k] = q[k]
    BY <1>1, SubSeqProperties
  <1>3. /\ cut \in Seq(UpFrames) /\ Len(cut) = i + 1 /\ cut[i + 1] = Closed
        /\ \A k \in 1 .. i : cut[k] = q[k]
    BY <1>1, <1>2, FramesBuilt, AppendProperties
  <1>4. cut # <<>>
    BY <1>1, <1>3, EmptyRead
  <1>5. ASSUME NEW k \in 1 .. Len(cut)
        PROVE  /\ cut[k].type = "accepted" => k = 1 /\ role = "absent"
               /\ cut[k].type = "join" => \/ k = 1 /\ role = "none"
                                          \/ k = 2 /\ cut[1].type = "accepted"
               /\ cut[k].type = "closed" => k = Len(cut)
    <2>1. CASE k = i + 1
      BY <1>3, <2>1 DEF Closed
    <2>2. CASE k \in 1 .. i
      <3>1. k \in 1 .. Len(q) /\ cut[k] = q[k] /\ 1 \in 1 .. i /\ cut[1] = q[1]
        BY <1>1, <1>3, <2>2
      <3>2. QED
        BY <3>1 DEF StreamOK
    <2>3. QED
      BY <1>1, <1>3, <2>1, <2>2
  <1>6. cut[Len(cut)].type = "closed"
    BY <1>3 DEF Closed
  <1> HIDE DEF cut, kept
  <1>7. StreamOK("down", cut, role)
    BY <1>4, <1>5, <1>6 DEF StreamOK
  <1>8. QED
    BY <1>3, <1>7 DEF cut, kept

LEMMA StreamEnds ==
    ASSUME NEW role, NEW q \in Seq(UpFrames), StreamOK("up", q, role)
    PROVE  StreamOK("down", Append(q, Closed), role)
  <1>1. Len(q) \in 0 .. Len(q) /\ SubSeq(q, 1, Len(q)) = q
    BY LenProperties, SubSeqFull
  <1>2. QED
    BY <1>1, StreamIsCut

\* The client sends a frame.
LEMMA StreamGrows ==
    ASSUME NEW role, NEW q \in Seq(UpFrames), StreamOK("up", q, role),
           NEW m \in UpFrames, m.type \notin {"accepted", "closed", "join"}
    PROVE  Append(q, m) \in Seq(UpFrames) /\ StreamOK("up", Append(q, m), role)
  <1>1. /\ Append(q, m) \in Seq(UpFrames) /\ Len(Append(q, m)) = Len(q) + 1
        /\ Append(q, m)[Len(q) + 1] = m /\ \A k \in 1 .. Len(q) : Append(q, m)[k] = q[k]
        /\ Len(q) \in Nat
    BY AppendProperties, LenProperties
  <1>2. ASSUME NEW k \in 1 .. Len(Append(q, m))
        PROVE  /\ Append(q, m)[k].type = "accepted" => k = 1 /\ role = "absent"
               /\ Append(q, m)[k].type = "join" => \/ k = 1 /\ role = "none"
                                                   \/ k = 2 /\ Append(q, m)[1].type = "accepted"
               /\ Append(q, m)[k].type # "closed"
    <2>1. CASE k = Len(q) + 1
      BY <1>1, <2>1
    <2>2. CASE k \in 1 .. Len(q)
      <3>1. Append(q, m)[k] = q[k] /\ 1 \in 1 .. Len(q) /\ Append(q, m)[1] = q[1]
        BY <1>1, <2>2
      <3>2. QED
        BY <2>2, <3>1 DEF StreamOK
    <2>3. QED
      BY <1>1, <2>1, <2>2
  <1>3. QED
    BY <1>1, <1>2 DEF StreamOK

\* The two frames a connection begins with.
LEMMA StreamBegins ==
    ASSUME NEW c \in Codes, NEW role \in {"host", "guest"}
    PROVE  LET q == <<Accepted, [type |-> "join", code |-> c, role |-> role]>>
           IN  q \in Seq(UpFrames) /\ StreamOK("up", q, "absent")
  <1> DEFINE q == <<Accepted, [type |-> "join", code |-> c, role |-> role]>>
  <1>1. q \in Seq(UpFrames)
    <2>1. \A a, b \in UpFrames : <<a, b>> \in Seq(UpFrames)
      OBVIOUS
    <2>2. QED
      BY <2>1, FramesBuilt
  <1>2. Len(q) = 2 /\ q[1] = Accepted /\ q[2].type = "join"
    OBVIOUS
  <1> HIDE DEF q
  <1>3. StreamOK("up", q, "absent")
    BY <1>2 DEF StreamOK, Accepted
  <1>4. QED
    BY <1>1, <1>3 DEF q

----------------------------------------------------------------------------
(* Seats.                                                                  *)

LEMMA InitIsOK == Init => IInv
  <1> SUFFICES ASSUME Init PROVE IInv
    OBVIOUS
  <1>1. Cardinality(Sockets) \in Nat
    BY SocketsAssumption, FS_CardinalityType
  <1>2. Channels
    BY <1>1, EmptySeq DEF Init, NetInit, Channels, NotTold, PeerUpdates
  <1>3. TypeOK
    <2>1. ServerTypeOK
      BY DEF Init, ServerInit, ServerTypeOK, PeerInfo, Absent
    <2>2. wire \in [Sockets -> WireStates] /\ hosting \in HostCodes \cup {NoCode}
      BY DEF Init, NetInit, WireStates
    <2>3. \A s \in Sockets :
             told[s].host \in BOOLEAN /\ told[s].guests \in 0 .. Cardinality(Sockets)
      BY <1>2 DEF Channels, PeerUpdates
    <2>4. QED
      BY <2>1, <2>2, <2>3 DEF TypeOK
  <1>4. Streams
    BY EmptySeq DEF Init, NetInit, ServerInit, Streams, StreamOK, Absent
  <1>5. CodesLead /\ SeatsAreAccountedFor
    BY DEF Init, NetInit, ServerInit, CodesLead, SeatsAreAccountedFor, Live
  <1>6. QED
    BY <1>2, <1>3, <1>4, <1>5 DEF IInv

\* Nobody sits in a session that cannot be found under its name.
LEMMA NoSeatsOfNoSession ==
    ASSUME IInv, NEW r \in Codes, sessionOf[r] # r
    PROVE  host[r] = NoSocket /\ guests[r] = {}
  <1>1. ASSUME NEW s \in Sockets, SessionOfPeer(s) = r PROVE FALSE
    <2>1. peers[s].code \in Codes /\ sessionOf[peers[s].code] = r
      BY <1>1, CodesAssumption DEF IInv, TypeOK, ServerTypeOK, PeerInfo, SessionOfPeer
    <2>2. QED
      BY <2>1, CodesAssumption DEF IInv, CodesLead
  <1>2. host[r] \in Sockets \cup {NoSocket} /\ guests[r] \subseteq Sockets
    BY DEF IInv, TypeOK, ServerTypeOK
  <1>3. QED
    BY <1>1, <1>2 DEF IInv, SeatsAreAccountedFor

\* The server does nothing, and who comes to live has no seat yet.
LEMMA SeatsStay ==
    ASSUME IInv, UNCHANGED server,
           \A s \in Sockets : Live(s)' => Live(s) \/ peers[s].role = "absent"
    PROVE  ServerTypeOK' /\ CodesLead' /\ SeatsAreAccountedFor'
  <1>1. \A s \in Sockets : SessionOfPeer(s)' = SessionOfPeer(s)
    BY DEF SessionOfPeer, server
  <1>2. \A r \in Codes : Members(r)' = Members(r)
    BY DEF Members, server
  <1>3. SeatsAreAccountedFor'
    <2>1. \A r \in Codes :
             /\ host'[r] # NoSocket =>
                   peers'[host'[r]].role = "host" /\ SessionOfPeer(host[r])' = r
             /\ \A s \in guests'[r] : peers'[s].role = "guest" /\ SessionOfPeer(s)' = r
      BY DEF IInv, SeatsAreAccountedFor, server, SessionOfPeer
    <2>2. \A s \in Sockets :
             Live(s)' /\ peers'[s].role \in {"host", "guest"} =>
                SessionOfPeer(s)' # NoCode /\ s \in Members(SessionOfPeer(s))'
      BY <1>1, <1>2 DEF IInv, SeatsAreAccountedFor, server, Members, SessionOfPeer
    <2>3. QED
      BY <2>1, <2>2 DEF SeatsAreAccountedFor, server
  <1>4. QED
    BY <1>3 DEF IInv, TypeOK, ServerTypeOK, CodesLead, server

----------------------------------------------------------------------------
(* The clients and the network.                                            *)

LEMMA ConnectKeeps ==
    ASSUME IInv, NEW s \in Sockets, NEW c \in Codes, Connect(s, c)
    PROVE  IInv'
  <1> DEFINE q == <<Accepted, [type |-> "join", code |-> c, role |-> Role(s)]>>
  <1>1. Role(s) \in {"host", "guest"}
    BY DEF Role
  <1>2. q \in Seq(UpFrames) /\ StreamOK("up", q, "absent")
    BY <1>1, StreamBegins
  <1>3. wire[s] = "idle" /\ peers[s].role = "absent"
    BY DEF IInv, Streams, StreamOK, Connect
  <1>4. /\ wire' = [wire EXCEPT ![s] = "up"] /\ up' = [up EXCEPT ![s] = q]
        /\ UNCHANGED <<down, server, hosting, told>>
    BY DEF Connect, clients
  <1> HIDE DEF q
  <1>5. TypeOK' /\ Channels'
    BY <1>2, <1>4 DEF IInv, TypeOK, ServerTypeOK, Channels, server, WireStates
  <1>6. Streams'
    BY <1>2, <1>3, <1>4 DEF IInv, TypeOK, Channels, Streams, server
  <1>7. \A x \in Sockets : Live(x)' => Live(x) \/ peers[x].role = "absent"
    BY <1>3, <1>4 DEF IInv, TypeOK, Live
  <1>8. QED
    BY <1>4, <1>5, <1>6, <1>7, SeatsStay DEF IInv

LEMMA SendFrameKeeps ==
    ASSUME IInv, NEW s \in Sockets, NEW type \in FrameTypes, SendFrame(s, type)
    PROVE  IInv'
  <1> DEFINE m == [type |-> type, from |-> s]
  <1>1. m \in UpFrames /\ m.type \notin {"accepted", "closed", "join"}
    BY FramesBuilt, RelayAssumption
  <1>2. up' = [up EXCEPT ![s] = Append(up[s], m)] /\ UNCHANGED <<wire, down, server, clients>>
    BY DEF SendFrame
  <1> HIDE DEF m
  <1>3. Append(up[s], m) \in Seq(UpFrames) /\ StreamOK("up", Append(up[s], m), peers[s].role)
    <2>1. up[s] \in Seq(UpFrames) /\ StreamOK("up", up[s], peers[s].role)
      BY DEF IInv, Channels, Streams, SendFrame, Live
    <2>2. QED
      BY <1>1, <2>1, StreamGrows
  <1>4. TypeOK' /\ Channels'
    BY <1>2, <1>3 DEF IInv, TypeOK, ServerTypeOK, Channels, server, clients
  <1>5. Streams'
    BY <1>2, <1>3 DEF IInv, Channels, Streams, SendFrame, Live, server
  <1>6. \A x \in Sockets : Live(x)' => Live(x)
    BY <1>2 DEF Live
  <1>7. QED
    BY <1>2, <1>4, <1>5, <1>6, SeatsStay DEF IInv

LEMMA ReceiveKeeps ==
    ASSUME IInv, NEW s \in Sockets, Receive(s)
    PROVE  IInv'
  <1>1. Tail(down[s]) \in Seq(DownFrames) /\ Head(down[s]) \in DownFrames
    BY HeadTailProperties DEF IInv, Channels, Receive
  <1>2. down' \in [Sockets -> Seq(DownFrames)] /\ told' \in [Sockets -> PeerUpdates]
    BY <1>1, DownFramesRead DEF IInv, Channels, Receive
  <1>3. TypeOK' /\ Channels'
    BY <1>2 DEF IInv, TypeOK, ServerTypeOK, Channels, Receive, server, PeerUpdates
  <1>4. Streams' /\ \A x \in Sockets : Live(x)' => Live(x)
    BY DEF IInv, Streams, Receive, server, Live
  <1>5. QED
    BY <1>3, <1>4, SeatsStay DEF IInv, Receive

LEMMA DropKeeps ==
    ASSUME IInv, NEW s \in Sockets, Drop(s)
    PROVE  IInv'
  <1>1. PICK i \in 0 .. Len(up[s]) : up' = Broken(up, s, i)
    BY DEF Drop
  <1> DEFINE cut == Append(SubSeq(up[s], 1, i), Closed)
  <1>2. cut \in Seq(UpFrames) /\ StreamOK("down", cut, peers[s].role)
    <2>1. up[s] \in Seq(UpFrames) /\ StreamOK("up", up[s], peers[s].role)
      BY DEF IInv, Channels, Streams, Drop, Live
    <2>2. QED
      BY <1>1, <2>1, StreamIsCut
  <1>3. up' = [up EXCEPT ![s] = cut] /\ wire' = [wire EXCEPT ![s] = "down"]
    BY <1>1 DEF Broken, Drop
  <1> HIDE DEF cut
  <1>4. NotTold \in PeerUpdates /\ <<>> \in Seq(DownFrames)
    BY SocketsAssumption, FS_CardinalityType DEF NotTold, PeerUpdates
  <1>5. down' \in [Sockets -> Seq(DownFrames)] /\ told' \in [Sockets -> PeerUpdates]
        /\ UNCHANGED <<server, hosting>>
    BY <1>4 DEF IInv, Channels, Drop
  <1>6. Channels'
    BY <1>2, <1>3, <1>5 DEF IInv, Channels
  <1>7. TypeOK'
    BY <1>3, <1>5 DEF IInv, TypeOK, ServerTypeOK, WireStates, server, PeerUpdates
  <1>8. Streams'
    BY <1>2, <1>3, <1>5 DEF IInv, TypeOK, Channels, Streams, server
  <1>9. \A x \in Sockets : Live(x)' => Live(x)
    BY <1>3 DEF IInv, TypeOK, Live
  <1>10. QED
    BY <1>5, <1>6, <1>7, <1>8, <1>9, SeatsStay DEF IInv

LEMMA AbandonKeeps ==
    ASSUME IInv, AbandonHostSession
    PROVE  IInv'
  <1> DEFINE left == {s \in HostSockets : Live(s)}
  <1>1. /\ wire' = [s \in Sockets |-> IF s \in left THEN "down" ELSE wire[s]]
        /\ up' = [s \in Sockets |-> IF s \in left THEN Append(up[s], Closed) ELSE up[s]]
        /\ down' = [s \in Sockets |-> IF s \in left THEN <<>> ELSE down[s]]
        /\ told' = [s \in Sockets |-> IF s \in left THEN NotTold ELSE told[s]]
        /\ hosting' = NoCode /\ UNCHANGED server
    BY DEF AbandonHostSession
  <1>2. \A s \in left : wire[s] = "up"
    BY DEF Live
  <1> HIDE DEF left
  <1>3. NotTold \in PeerUpdates /\ <<>> \in Seq(DownFrames)
    BY SocketsAssumption, FS_CardinalityType DEF NotTold, PeerUpdates
  <1>4. Channels'
    BY <1>1, <1>3, EndedTyped DEF IInv, Channels
  <1>5. TypeOK'
    BY <1>1, <1>4 DEF IInv, TypeOK, ServerTypeOK, WireStates, server, Channels, PeerUpdates
  <1>6. Streams'
    <2>1. ASSUME NEW s \in Sockets PROVE StreamOK(wire[s], up[s], peers[s].role)'
      <3>1. CASE s \in left
        BY <1>1, <1>2, <3>1, StreamEnds DEF IInv, Channels, Streams, server
      <3>2. CASE s \notin left
        BY <1>1, <3>2 DEF IInv, Streams, server
      <3>3. QED
        BY <3>1, <3>2
    <2>2. QED
      BY <2>1 DEF Streams
  <1>7. \A x \in Sockets : Live(x)' => Live(x)
    BY <1>1 DEF Live
  <1>8. QED
    BY <1>1, <1>4, <1>5, <1>6, <1>7, SeatsStay DEF IInv

----------------------------------------------------------------------------
(* The server.                                                             *)

LEMMA ArrivalKeeps ==
    ASSUME IInv, NEW s \in Sockets, OnClientConnected(s), UNCHANGED clients
    PROVE  IInv'
  <1> DEFINE none == [code |-> NoCode, role |-> "none"]
  <1>1. /\ up' = [up EXCEPT ![s] = Tail(up[s])] /\ peers' = [peers EXCEPT ![s] = none]
        /\ UNCHANGED <<wire, down, running, sessionOf, host, guests, hosting, told>>
        /\ up[s] # <<>> /\ Head(up[s]).type = "accepted"
    BY DEF OnClientConnected, Consume, HeadIs, clients
  <1>2. up[s] \in Seq(UpFrames) /\ StreamOK(wire[s], up[s], peers[s].role)
    BY DEF IInv, Channels, Streams
  <1>3. Tail(up[s]) \in Seq(UpFrames) /\ StreamOK(wire[s], Tail(up[s]), "none")
    BY <1>1, <1>2, ArrivalIsRun, TailRead
  <1>4. peers[s].role = "absent"
    <2>1. 1 \in 1 .. Len(up[s]) /\ up[s][1].type = "accepted"
      BY <1>1, <1>2, TailRead
    <2>2. QED
      BY <1>2, <2>1 DEF StreamOK
  <1>5. none \in PeerInfo /\ none.role = "none"
    BY DEF PeerInfo
  <1> HIDE DEF none
  <1>6. TypeOK' /\ Channels'
    BY <1>1, <1>3, <1>5 DEF IInv, TypeOK, ServerTypeOK, Channels
  <1>7. Streams'
    BY <1>1, <1>3, <1>5 DEF IInv, TypeOK, ServerTypeOK, Channels, Streams
  <1>8. CodesLead'
    BY <1>1 DEF IInv, CodesLead
  <1>9. SeatsAreAccountedFor'
    <2>1. \A x \in Sockets : x # s => peers'[x] = peers[x] /\ SessionOfPeer(x)' = SessionOfPeer(x)
      BY <1>1 DEF IInv, TypeOK, ServerTypeOK, SessionOfPeer
    <2>2. \A r \in Codes : s # host[r] /\ s \notin guests[r] /\ Members(r)' = Members(r)
      BY <1>1, <1>4, SocketsAssumption DEF IInv, SeatsAreAccountedFor, Members
    <2>3. peers'[s].role = "none"
      BY <1>1, <1>5 DEF IInv, TypeOK, ServerTypeOK
    <2>4. \A x \in Sockets : Live(x)' = Live(x)
      BY <1>1 DEF Live
    <2>5. \A r \in Codes : host[r] \in Sockets \cup {NoSocket} /\ guests[r] \subseteq Sockets
      BY DEF IInv, TypeOK, ServerTypeOK
    <2>6. \A r \in Codes :
             /\ host'[r] # NoSocket =>
                   peers'[host'[r]].role = "host" /\ SessionOfPeer(host[r])' = r
             /\ \A x \in guests'[r] : peers'[x].role = "guest" /\ SessionOfPeer(x)' = r
      BY <1>1, <2>1, <2>2, <2>5 DEF IInv, SeatsAreAccountedFor, SessionOfPeer
    <2>7. \A x \in Sockets :
             Live(x)' /\ peers'[x].role \in {"host", "guest"} =>
                SessionOfPeer(x)' # NoCode /\ x \in Members(SessionOfPeer(x))'
      BY <1>1, <2>1, <2>3, <2>4 DEF IInv, SeatsAreAccountedFor, Members, SessionOfPeer
    <2>8. QED
      BY <2>6, <2>7 DEF SeatsAreAccountedFor
  <1>10. QED
    BY <1>6, <1>7, <1>8, <1>9 DEF IInv

\* A ping is echoed, or a frame is forwarded.
LEMMA TextKeeps ==
    ASSUME IInv, NEW s \in Sockets, OnPing(s) \/ OnRelay(s), UNCHANGED clients
    PROVE  IInv'
  <1>1. /\ up' = [up EXCEPT ![s] = Tail(up[s])]
        /\ UNCHANGED <<wire, server, hosting, told>>
        /\ up[s] # <<>> /\ Head(up[s]).type \notin {"accepted", "closed", "join"}
    BY DEF OnPing, OnRelay, Consume, HeadIs, clients
  <1>2. up[s] \in Seq(UpFrames) /\ StreamOK(wire[s], up[s], peers[s].role)
    BY DEF IInv, Channels, Streams
  <1>3. Tail(up[s]) \in Seq(UpFrames) /\ StreamOK(wire[s], Tail(up[s]), peers[s].role)
    BY <1>1, <1>2, TextIsRun, TailRead
  <1>4. Head(up[s]) \in DownFrames
    BY <1>1, <1>2, HeadTailProperties, UpFramesRead
  <1>5. down' \in [Sockets -> Seq(DownFrames)]
    BY <1>4, SentToTyped, FramesBuilt DEF OnPing, OnRelay, IInv
  <1>6. TypeOK' /\ Channels'
    BY <1>1, <1>3, <1>5 DEF IInv, TypeOK, ServerTypeOK, Channels, server
  <1>7. Streams' /\ \A x \in Sockets : Live(x)' => Live(x)
    BY <1>1, <1>3 DEF IInv, Channels, Streams, server, Live
  <1>8. QED
    BY <1>1, <1>6, <1>7, SeatsStay DEF IInv

\* The end of a connection: whoever else has a seat keeps it, and a session is
\* erased only when nobody is left in it.
LEMMA EndKeeps ==
    ASSUME IInv, NEW s \in Sockets, OnSocketDisconnected(s), UNCHANGED clients
    PROVE  IInv'
  <1> DEFINE r == SessionOfPeer(s)
             h == HostSeatAfter(r, s)
             g == GuestSeatsAfter(r, s)
  <1>1. /\ up' = [up EXCEPT ![s] = Tail(up[s])] /\ peers' = [peers EXCEPT ![s] = Absent]
        /\ UNCHANGED <<wire, running, hosting, told>>
        /\ up[s] # <<>> /\ Head(up[s]).type = "closed"
    BY DEF OnSocketDisconnected, Consume, HeadIs, clients
  <1>2. /\ up[s] \in Seq(UpFrames)
        /\ Tail(up[s]) \in Seq(UpFrames) /\ StreamOK(wire[s], Tail(up[s]), "absent")
        /\ ~Live(s)
    BY <1>1, EndIsRun, TailRead DEF IInv, Channels, Streams, Live
  <1>3. Absent \in PeerInfo /\ Absent.role = "absent"
    BY DEF PeerInfo, Absent
  <1>4. r \in Codes \cup {NoCode}
    BY DEF IInv, TypeOK, ServerTypeOK, PeerInfo, SessionOfPeer
  <1>5. \A q \in Codes :
           /\ host[q] \in Sockets \cup {NoSocket} /\ guests[q] \subseteq Sockets
           /\ q # r => s # host[q] /\ s \notin guests[q]
    BY SocketsAssumption DEF IInv, TypeOK, ServerTypeOK, SeatsAreAccountedFor
  <1>6. /\ host' \in [Codes -> Sockets \cup {NoSocket}] /\ guests' \in [Codes -> SUBSET Sockets]
        /\ \A q \in Codes :
              host'[q] = HostSeatAfter(q, s) /\ guests'[q] = GuestSeatsAfter(q, s)
    BY <1>4, <1>5, CodesAssumption
       DEF OnSocketDisconnected, IInv, TypeOK, ServerTypeOK, HostSeatAfter, GuestSeatsAfter
  <1>7. \/ UNCHANGED sessionOf
        \/ /\ r \in Codes /\ host'[r] = NoSocket /\ guests'[r] = {}
           /\ sessionOf' = [c \in Codes |-> IF sessionOf[c] = r THEN NoCode ELSE sessionOf[c]]
    BY <1>4, <1>6 DEF OnSocketDisconnected
  <1>8. down' \in [Sockets -> Seq(DownFrames)]
    <2>1. r # NoCode => g \in SUBSET Sockets
      BY <1>4, <1>5 DEF GuestSeatsAfter
    <2>2. UNCHANGED down \/ (r # NoCode /\ down' = PeerUpdateSent(h, g))
      BY DEF OnSocketDisconnected
    <2>3. QED
      BY <2>1, <2>2, PeerUpdateSentTyped DEF IInv, Channels
  <1>9. sessionOf' \in [Codes -> Codes \cup {NoCode}] /\ CodesLead'
    BY <1>7, CodesAssumption DEF IInv, TypeOK, ServerTypeOK, CodesLead
  <1> HIDE DEF r, h, g
  <1>10. TypeOK' /\ Channels'
    BY <1>1, <1>2, <1>3, <1>6, <1>8, <1>9 DEF IInv, TypeOK, ServerTypeOK, Channels
  <1>11. Streams'
    BY <1>1, <1>2, <1>3 DEF IInv, TypeOK, ServerTypeOK, Channels, Streams
  <1>12. \A x \in Sockets : /\ x # s => peers'[x] = peers[x]
                            /\ peers'[s].role = "absent"
                            /\ Live(x)' = Live(x)
    BY <1>1, <1>3 DEF IInv, TypeOK, ServerTypeOK, Live
  <1>13. \A x \in Sockets : x # s /\ SessionOfPeer(x) # r => SessionOfPeer(x)' = SessionOfPeer(x)
    BY <1>7, <1>12, CodesAssumption DEF SessionOfPeer, IInv, TypeOK, ServerTypeOK, PeerInfo
  <1>14. ASSUME NEW q \in Codes, host'[q] # NoSocket \/ guests'[q] # {}, NEW x \in Sockets,
                x # s, SessionOfPeer(x) = q
         PROVE  SessionOfPeer(x)' = q
    <2>1. CASE q # r
      BY <1>13, <1>14, <2>1
    <2>2. CASE q = r
      BY <1>7, <1>12, <1>14, <2>2 DEF SessionOfPeer
    <2>3. QED
      BY <2>1, <2>2
  <1>15. SeatsAreAccountedFor'
    <2>1. ASSUME NEW q \in Codes, host'[q] # NoSocket
          PROVE  peers'[host'[q]].role = "host" /\ SessionOfPeer(host[q])' = q
      <3>1. host'[q] = host[q] /\ host[q] # s /\ host[q] \in Sockets
        BY <1>5, <1>6, <2>1, SocketsAssumption DEF HostSeatAfter
      <3>2. peers[host[q]].role = "host" /\ SessionOfPeer(host[q]) = q
        BY <2>1, <3>1 DEF IInv, SeatsAreAccountedFor
      <3>3. PICK x \in Sockets : x = host[q]
        BY <3>1
      <3>4. SessionOfPeer(x)' = q /\ peers'[x].role = "host"
        BY <1>12, <1>14, <2>1, <3>1, <3>2, <3>3
      <3>5. QED
        BY <3>1, <3>3, <3>4 DEF SessionOfPeer
    <2>2. ASSUME NEW q \in Codes, NEW x \in guests'[q]
          PROVE  peers'[x].role = "guest" /\ SessionOfPeer(x)' = q
      <3>1. x \in guests[q] /\ x # s /\ x \in Sockets /\ guests'[q] # {}
        BY <1>5, <1>6, <2>2 DEF GuestSeatsAfter
      <3>2. peers[x].role = "guest" /\ SessionOfPeer(x) = q
        BY <3>1 DEF IInv, SeatsAreAccountedFor
      <3>3. QED
        BY <1>12, <1>14, <3>1, <3>2
    <2>3. ASSUME NEW x \in Sockets, Live(x)', peers'[x].role \in {"host", "guest"}
          PROVE  SessionOfPeer(x)' # NoCode /\ x \in Members(SessionOfPeer(x))'
      <3> DEFINE q == SessionOfPeer(x)
      <3>1. x # s /\ Live(x) /\ peers[x].role \in {"host", "guest"}
        BY <1>12, <2>3
      <3>2. q \in Codes /\ x \in Members(q)
        BY <3>1, CodesAssumption
           DEF IInv, SeatsAreAccountedFor, TypeOK, ServerTypeOK, PeerInfo, SessionOfPeer
      <3> HIDE DEF q
      <3>3. x \in guests'[q] \/ (x = host'[q] /\ host'[q] # NoSocket)
        BY <1>6, <3>1, <3>2 DEF Members, HostSeatAfter, GuestSeatsAfter
      <3>4. SessionOfPeer(x)' = q
        BY <1>14, <3>1, <3>2, <3>3 DEF q
      <3>5. QED
        BY <3>2, <3>3, <3>4, CodesAssumption DEF Members
    <2>4. QED
      BY <2>1, <2>2, <2>3 DEF SeatsAreAccountedFor
  <1>16. QED
    BY <1>9, <1>10, <1>11, <1>15 DEF IInv

\* A join: the peer had no seat, a host that is replaced is closed, and a session
\* that did not exist is empty.
LEMMA JoinKeeps ==
    ASSUME IInv, NEW s \in Sockets, OnJoin(s), UNCHANGED clients
    PROVE  IInv'
  <1> DEFINE c    == Head(up[s]).code
             role == Head(up[s]).role
             r    == IF sessionOf[c] = NoCode THEN c ELSE sessionOf[c]
             h    == IF role = "host" THEN s ELSE host[r]
             g    == IF role = "guest" THEN guests[r] \cup {s} ELSE guests[r]
             old  == IF role = "host" /\ host[r] # s THEN host[r] ELSE NoSocket
             ends == {old} \cap {x \in Sockets : Live(x)}
             sent == PeerUpdateSent(h, g)
  <1>1. /\ up[s] # <<>> /\ Head(up[s]).type = "join"
        /\ up[s] \in Seq(UpFrames) /\ StreamOK(wire[s], up[s], peers[s].role)
    BY DEF OnJoin, HeadIs, IInv, Channels, Streams
  <1>2. c \in Codes /\ role \in {"host", "guest"}
    BY <1>1, HeadTailProperties, UpFramesRead
  <1>3. peers[s].role = "none"
    <2>1. 1 \in 1 .. Len(up[s]) /\ up[s][1].type = "join"
      BY <1>1, TailRead
    <2>2. QED
      BY <1>1, <2>1 DEF StreamOK
  <1>4. /\ sessionOf' = [sessionOf EXCEPT ![c] = r]
        /\ host' = [host EXCEPT ![r] = h] /\ guests' = [guests EXCEPT ![r] = g]
        /\ peers' = [peers EXCEPT ![s] = [code |-> c, role |-> role]]
        /\ wire' = [x \in Sockets |-> IF x \in ends THEN "down" ELSE wire[x]]
        /\ up' = [x \in Sockets |-> IF x \in ends THEN Append(up[x], Closed)
                                    ELSE IF x = s THEN Tail(up[s]) ELSE up[x]]
        /\ down' = [x \in Sockets |-> IF x \in ends THEN Append(down[x], Closed)
                                      ELSE sent[x]]
        /\ UNCHANGED <<running, hosting, told>>
    BY DEF OnJoin, Consume, clients, IInv, Channels
  <1>5. /\ r \in Codes /\ r # NoCode /\ sessionOf'[c] = r /\ sessionOf'[r] = r
        /\ \A d \in Codes : sessionOf[d] # NoCode => sessionOf'[d] = sessionOf[d]
    BY <1>2, <1>4, CodesAssumption DEF IInv, TypeOK, ServerTypeOK, CodesLead
  <1>6. \A q \in Codes : /\ host[q] \in Sockets \cup {NoSocket} /\ guests[q] \subseteq Sockets
                         /\ s # host[q] /\ s \notin guests[q]
    BY <1>3, SocketsAssumption DEF IInv, TypeOK, ServerTypeOK, SeatsAreAccountedFor
  <1>7. /\ h \in Sockets \cup {NoSocket} /\ g \in SUBSET Sockets
        /\ s \notin ends /\ old \in Sockets \cup {NoSocket}
        /\ \A x \in ends : x = old /\ x = host[r] /\ wire[x] = "up" /\ x \in Sockets
    BY <1>2, <1>5, <1>6, SocketsAssumption DEF Live
  <1>8. sent \in [Sockets -> Seq(DownFrames)]
    BY <1>7, PeerUpdateSentTyped DEF IInv
  <1> HIDE DEF sent, ends
  <1>9. StreamOK(wire[s], Tail(up[s]), role) /\ Tail(up[s]) \in Seq(UpFrames)
    BY <1>1, TextIsRun, TailRead
  <1>10. Channels'
    BY <1>4, <1>8, <1>9, EndedTyped DEF IInv, Channels
  <1>11. sessionOf' \in [Codes -> Codes \cup {NoCode}] /\ CodesLead'
    <2>1. sessionOf \in [Codes -> Codes \cup {NoCode}] /\ CodesLead
      BY DEF IInv, TypeOK, ServerTypeOK
    <2>2. sessionOf' \in [Codes -> Codes \cup {NoCode}]
      BY <1>2, <1>4, <1>5, <2>1
    <2>3. ASSUME NEW d \in Codes, sessionOf'[d] # NoCode
          PROVE  sessionOf'[sessionOf'[d]] = sessionOf'[d]
      <3>1. CASE d = c
        BY <1>5, <3>1
      <3>2. CASE d # c
        <4>1. sessionOf'[d] = sessionOf[d]
          BY <1>4, <2>1, <3>2
        <4>2. sessionOf[d] \in Codes /\ sessionOf[sessionOf[d]] = sessionOf[d]
          BY <2>1, <2>3, <4>1 DEF CodesLead
        <4>3. QED
          BY <1>5, <2>3, <4>1, <4>2
      <3>3. QED
        BY <3>1, <3>2
    <2>4. QED
      BY <2>2, <2>3 DEF CodesLead
  <1>12. [code |-> c, role |-> role] \in PeerInfo
    BY <1>2 DEF PeerInfo
  <1>13. TypeOK'
    BY <1>4, <1>5, <1>7, <1>11, <1>12 DEF IInv, TypeOK, ServerTypeOK, WireStates
  <1>14. \A x \in Sockets : peers'[x] = IF x = s THEN [code |-> c, role |-> role] ELSE peers[x]
    BY <1>4 DEF IInv, TypeOK, ServerTypeOK
  <1>15. Streams'
    <2>1. ASSUME NEW x \in Sockets PROVE StreamOK(wire[x], up[x], peers[x].role)'
      <3>1. StreamOK(wire[x], up[x], peers[x].role) /\ up[x] \in Seq(UpFrames)
        BY DEF IInv, Streams, Channels
      <3>2. CASE x \in ends
        BY <1>4, <1>7, <1>14, <3>1, <3>2, StreamEnds
      <3>3. CASE x = s
        <4>1. wire'[s] = wire[s] /\ up'[s] = Tail(up[s])
          BY <1>4, <1>7
        <4>2. QED
          BY <1>9, <1>14, <3>3, <4>1
      <3>4. CASE x # s /\ x \notin ends
        BY <1>4, <1>14, <3>1, <3>4
      <3>5. QED
        BY <3>2, <3>3, <3>4
    <2>2. QED
      BY <2>1 DEF Streams
  <1> HIDE DEF r, h, g, old
  <1>16. \A x \in Sockets : x # s /\ SessionOfPeer(x) # NoCode =>
            SessionOfPeer(x)' = SessionOfPeer(x)
    BY <1>5, <1>14 DEF SessionOfPeer, IInv, TypeOK, ServerTypeOK, PeerInfo
  <1>17. SessionOfPeer(s)' = r /\ peers'[s].role = role
    BY <1>2, <1>5, <1>14, CodesAssumption DEF SessionOfPeer
  <1> HIDE DEF c, role
  <1>18. SeatsAreAccountedFor'
    <2>1. ASSUME NEW q \in Codes, host'[q] # NoSocket
          PROVE  peers'[host'[q]].role = "host" /\ SessionOfPeer(host[q])' = q
      <3>1. CASE q = r /\ role = "host"
        <4>1. host'[q] = s
          BY <1>4, <1>5, <3>1 DEF h, IInv, TypeOK, ServerTypeOK
        <4>2. QED
          BY <1>17, <3>1, <4>1 DEF SessionOfPeer
      <3>2. CASE ~(q = r /\ role = "host")
        <4>1. host'[q] = host[q] /\ host[q] \in Sockets /\ host[q] # s
          BY <1>4, <1>5, <1>6, <2>1, <3>2 DEF h, IInv, TypeOK, ServerTypeOK
        <4>2. peers[host[q]].role = "host" /\ SessionOfPeer(host[q]) = q
          BY <2>1, <4>1 DEF IInv, SeatsAreAccountedFor
        <4>3. PICK x \in Sockets : x = host[q]
          BY <4>1
        <4>4. SessionOfPeer(x)' = q /\ peers'[x].role = "host"
          BY <1>14, <1>16, <4>1, <4>2, <4>3, CodesAssumption
        <4>5. QED
          BY <4>1, <4>3, <4>4 DEF SessionOfPeer
      <3>3. QED
        BY <3>1, <3>2
    <2>2. ASSUME NEW q \in Codes, NEW x \in guests'[q]
          PROVE  peers'[x].role = "guest" /\ SessionOfPeer(x)' = q
      <3>1. x \in guests[q] \/ (x = s /\ q = r /\ role = "guest")
        BY <1>4, <1>5, <2>2 DEF g, IInv, TypeOK, ServerTypeOK
      <3>2. CASE x \in guests[q]
        <4>1. x \in Sockets /\ x # s
          BY <1>6, <3>2
        <4>2. peers[x].role = "guest" /\ SessionOfPeer(x) = q
          BY <3>2 DEF IInv, SeatsAreAccountedFor
        <4>3. QED
          BY <1>14, <1>16, <4>1, <4>2, CodesAssumption
      <3>3. CASE x = s /\ q = r /\ role = "guest"
        BY <1>17, <3>3
      <3>4. QED
        BY <3>1, <3>2, <3>3
    <2>3. ASSUME NEW x \in Sockets, Live(x)', peers'[x].role \in {"host", "guest"}
          PROVE  SessionOfPeer(x)' # NoCode /\ x \in Members(SessionOfPeer(x))'
      <3>1. CASE x = s
        <4>1. x \in guests'[r] \/ x = host'[r]
          BY <1>2, <1>4, <1>5, <3>1 DEF h, g, role, IInv, TypeOK, ServerTypeOK
        <4>2. QED
          BY <1>5, <1>17, <3>1, <4>1, SocketsAssumption DEF Members
      <3>2. CASE x # s
        <4>1. Live(x) /\ x \notin ends /\ peers[x].role \in {"host", "guest"}
          BY <1>4, <1>14, <2>3, <3>2 DEF Live
        <4>2. PICK q \in Codes : q = SessionOfPeer(x) /\ x \in Members(q)
          BY <4>1, CodesAssumption
             DEF IInv, SeatsAreAccountedFor, TypeOK, ServerTypeOK, PeerInfo, SessionOfPeer
        <4>3. SessionOfPeer(x)' = q /\ q # NoCode
          BY <1>16, <3>2, <4>2, CodesAssumption
        <4>4. x \in guests[q] => x \in guests'[q]
          BY <1>4, <1>5 DEF g, IInv, TypeOK, ServerTypeOK
        <4>5. x = host[q] => x = host'[q]
          <5>1. CASE q = r /\ role = "host"
            BY <1>6, <4>1, <5>1 DEF ends, old
          <5>2. CASE ~(q = r /\ role = "host")
            BY <1>4, <1>5, <5>2 DEF h, IInv, TypeOK, ServerTypeOK
          <5>3. QED
            BY <5>1, <5>2
        <4>6. QED
          BY <4>2, <4>3, <4>4, <4>5, SocketsAssumption DEF Members
      <3>3. QED
        BY <3>1, <3>2
    <2>4. QED
      BY <2>1, <2>2, <2>3 DEF SeatsAreAccountedFor
  <1>19. QED
    BY <1>10, <1>11, <1>13, <1>15, <1>18 DEF IInv

\* A session is created under a code that leads nowhere, so nobody is in it; an
\* alias is added only where there was no code.
LEMMA StartKeeps ==
    ASSUME IInv, NEW c \in HostCodes, StartHostSession(c)
    PROVE  IInv'
  <1>1. c \in Codes /\ sessionOf[c] = NoCode /\ c # NoCode
    BY RelayAssumption, CodesAssumption DEF StartHostSession, StartHosting
  <1>2. UNCHANGED <<wire, up, down, peers, host, guests, told>> /\ hosting' = c /\ running' = TRUE
    BY DEF StartHostSession, StartHosting, net
  <1>3. /\ sessionOf' \in [Codes -> Codes \cup {NoCode}] /\ sessionOf'[c] = c
        /\ \A d \in Codes : \/ sessionOf'[d] = sessionOf[d]
                            \/ sessionOf[d] = NoCode /\ sessionOf'[d] = c
    BY <1>1, RelayAssumption
       DEF StartHostSession, StartHosting, CreateSession, AddAlias, IInv, TypeOK, ServerTypeOK
  <1>4. CodesLead'
    BY <1>1, <1>3 DEF IInv, CodesLead, TypeOK, ServerTypeOK
  <1>5. TypeOK' /\ Channels' /\ Streams'
    BY <1>2, <1>3 DEF IInv, TypeOK, ServerTypeOK, Channels, Streams
  <1>6. \A x \in Sockets : SessionOfPeer(x) # NoCode => SessionOfPeer(x)' = SessionOfPeer(x)
    BY <1>2, <1>3 DEF SessionOfPeer, IInv, TypeOK, ServerTypeOK, PeerInfo
  <1>7. SeatsAreAccountedFor'
    <2>1. ASSUME NEW q \in Codes, host'[q] # NoSocket
          PROVE  peers'[host'[q]].role = "host" /\ SessionOfPeer(host[q])' = q
      <3>1. PICK x \in Sockets : x = host[q]
        BY <1>2, <2>1 DEF IInv, TypeOK, ServerTypeOK
      <3>2. peers[x].role = "host" /\ SessionOfPeer(x) = q
        BY <1>2, <2>1, <3>1 DEF IInv, SeatsAreAccountedFor
      <3>3. SessionOfPeer(x)' = q
        BY <1>6, <3>2, CodesAssumption
      <3>4. QED
        BY <1>2, <3>1, <3>2, <3>3 DEF SessionOfPeer
    <2>2. ASSUME NEW q \in Codes, NEW x \in guests'[q]
          PROVE  peers'[x].role = "guest" /\ SessionOfPeer(x)' = q
      <3>1. x \in Sockets /\ x \in guests[q]
        BY <1>2, <2>2 DEF IInv, TypeOK, ServerTypeOK
      <3>2. peers[x].role = "guest" /\ SessionOfPeer(x) = q
        BY <3>1 DEF IInv, SeatsAreAccountedFor
      <3>3. QED
        BY <1>2, <1>6, <3>1, <3>2, CodesAssumption
    <2>3. ASSUME NEW x \in Sockets, Live(x)', peers'[x].role \in {"host", "guest"}
          PROVE  SessionOfPeer(x)' # NoCode /\ x \in Members(SessionOfPeer(x))'
      <3>1. SessionOfPeer(x) # NoCode /\ x \in Members(SessionOfPeer(x))
        BY <1>2, <2>3 DEF IInv, SeatsAreAccountedFor, Live
      <3>2. SessionOfPeer(x)' = SessionOfPeer(x)
        BY <1>6, <3>1
      <3>3. QED
        BY <1>2, <3>1, <3>2 DEF Members
    <2>4. QED
      BY <2>1, <2>2, <2>3 DEF SeatsAreAccountedFor
  <1>8. QED
    BY <1>4, <1>5, <1>7 DEF IInv

\* stop() forgets everything, what is queued included.
LEMMA StopKeeps ==
    ASSUME IInv, StopHostSession
    PROVE  IInv'
  <1>1. /\ running' = FALSE /\ hosting' = NoCode
        /\ peers' = [s \in Sockets |-> Absent]
        /\ sessionOf' = [c \in Codes |-> NoCode]
        /\ host' = [c \in Codes |-> NoSocket] /\ guests' = [c \in Codes |-> {}]
        /\ wire' = [s \in Sockets |-> IF wire[s] = "up" THEN "down" ELSE wire[s]]
        /\ up' = [s \in Sockets |-> <<>>]
        /\ down' = [s \in Sockets |-> IF wire[s] = "up" THEN Append(down[s], Closed)
                                      ELSE down[s]]
        /\ told' = [s \in Sockets |-> NotTold]
    BY DEF StopHostSession, Stop, Live
  <1>2. NotTold \in PeerUpdates /\ <<>> \in Seq(UpFrames)
    BY SocketsAssumption, FS_CardinalityType DEF NotTold, PeerUpdates
  <1>3. Channels'
    BY <1>1, <1>2, EndedTyped DEF IInv, Channels
  <1>4. ServerTypeOK'
    BY <1>1 DEF ServerTypeOK, PeerInfo, Absent
  <1>5. TypeOK'
    BY <1>1, <1>3, <1>4 DEF IInv, TypeOK, WireStates, Channels, PeerUpdates
  <1>6. Streams'
    <2>1. \A w : StreamOK(w, <<>>, "absent")
      BY DEF StreamOK
    <2>2. \A s \in Sockets : up'[s] = <<>> /\ peers'[s].role = "absent"
      BY <1>1 DEF Absent
    <2>3. QED
      BY <2>1, <2>2 DEF Streams
  <1>7. CodesLead'
    BY <1>1 DEF CodesLead
  <1>8. SeatsAreAccountedFor'
    BY <1>1 DEF SeatsAreAccountedFor, Absent, Live
  <1>9. QED
    BY <1>3, <1>5, <1>6, <1>7, <1>8 DEF IInv

----------------------------------------------------------------------------
(* Together.                                                               *)

LEMMA StepKeeps == IInv /\ [Next]_vars => IInv'
  <1> SUFFICES ASSUME IInv, [Next]_vars PROVE IInv'
    OBVIOUS
  <1>1. CASE \E c \in HostCodes : StartHostSession(c)
    BY <1>1, StartKeeps
  <1>2. CASE StopHostSession
    BY <1>2, StopKeeps
  <1>3. CASE AbandonHostSession
    BY <1>3, AbandonKeeps
  <1>4. CASE \E s \in Sockets : Drop(s) \/ Receive(s)
    BY <1>4, DropKeeps, ReceiveKeeps
  <1>5. CASE \E s \in Sockets, c \in Codes : Connect(s, c)
    BY <1>5, ConnectKeeps
  <1>6. CASE \E s \in Sockets, type \in FrameTypes : SendFrame(s, type)
    BY <1>6, SendFrameKeeps
  <1>7. CASE \E s \in Sockets : ServerTask(s) /\ UNCHANGED clients
    BY <1>7, ArrivalKeeps, EndKeeps, JoinKeeps, TextKeeps DEF ServerTask, OnTextMessage
  <1>8. CASE UNCHANGED vars
    <2>1. UNCHANGED <<wire, up, down, running, peers, sessionOf, host, guests, hosting, told>>
      BY <1>8 DEF vars, net, server, clients
    <2>2. TypeOK' /\ Channels' /\ Streams'
      BY <2>1 DEF IInv, TypeOK, ServerTypeOK, Channels, Streams
    <2>3. \A x \in Sockets : Live(x)' => Live(x)
      BY <2>1 DEF Live
    <2>4. QED
      BY <2>1, <2>2, <2>3, SeatsStay DEF IInv, server
  <1>9. QED
    BY <1>1, <1>2, <1>3, <1>4, <1>5, <1>6, <1>7, <1>8 DEF Next

LEMMA Invariance == Spec => []IInv
  BY InitIsOK, StepKeeps, PTL DEF Spec

\* The server's maps and every client's view of its room are well typed; no roster
\* counts more guests than there are connections (sendPeerUpdate).
THEOREM RelayTypeCorrectness == Spec => []TypeOK
  BY Invariance, PTL DEF IInv

\* Seats and peers agree, both ways, whatever hosts take over from each other,
\* whatever passwords are used and whatever is abandoned or restarted.
THEOREM SeatsAgree == Spec => []SeatsAreAccountedFor
  BY Invariance, PTL DEF IInv

\* When the server has run what it queued, no connection that ended has a seat:
\* a peer that is gone has the callback of its end still ahead.
THEOREM SeatsEnd == Spec => []SeatsAreGivenUp
  <1>1. IInv => SeatsAreGivenUp
    <2> SUFFICES ASSUME IInv, \A s \in Sockets : up[s] = <<>>,
                        NEW s \in Sockets, wire[s] = "down", NEW r \in Codes
                 PROVE  s \notin Members(r)
      BY DEF SeatsAreGivenUp
    <2>1. peers[s].role = "absent"
      BY DEF IInv, Streams, StreamOK
    <2>2. QED
      BY <2>1, SocketsAssumption DEF IInv, SeatsAreAccountedFor, Members
  <1>2. QED
    BY <1>1, Invariance, PTL

----------------------------------------------------------------------------
(* Who is sent what.  A frame says who it is from, and a peer has the role *)
(* of its instance, because a connection carries one join and its own      *)
(* frames only.                                                            *)

OwnFrames(s) ==
    [type : {"accepted", "closed"}]
      \cup [type : {"join"}, code : Codes, role : {Role(s)}]
      \cup [type : FrameTypes, from : {s}]

Roles ==
    \A s \in Sockets :
       /\ up[s] \in Seq(OwnFrames(s))
       /\ peers[s].role \in {"absent", "none", Role(s)}
       /\ peers[s].role # Role(s) => peers[s].code = NoCode

LEMMA OwnFramesBuilt ==
    ASSUME NEW s \in Sockets
    PROVE  /\ Accepted \in OwnFrames(s) /\ Closed \in OwnFrames(s)
           /\ \A c \in Codes : [type |-> "join", code |-> c, role |-> Role(s)] \in OwnFrames(s)
           /\ \A t \in FrameTypes : [type |-> t, from |-> s] \in OwnFrames(s)
  BY DEF OwnFrames, Accepted, Closed

\* A queue only loses its head, or its tail, or gets something of its own.
LEMMA OwnQueues ==
    ASSUME NEW s \in Sockets, NEW q \in Seq(OwnFrames(s))
    PROVE  /\ q # <<>> => Tail(q) \in Seq(OwnFrames(s)) /\ Head(q) \in OwnFrames(s)
           /\ \A m \in OwnFrames(s) : Append(q, m) \in Seq(OwnFrames(s))
           /\ \A i \in 0 .. Len(q) : Append(SubSeq(q, 1, i), Closed) \in Seq(OwnFrames(s))
  <1>1. q # <<>> => Tail(q) \in Seq(OwnFrames(s)) /\ Head(q) \in OwnFrames(s)
    BY HeadTailProperties
  <1>2. ASSUME NEW i \in 0 .. Len(q) PROVE Append(SubSeq(q, 1, i), Closed) \in Seq(OwnFrames(s))
    <2>1. SubSeq(q, 1, i) \in Seq(OwnFrames(s))
      BY LenProperties, SubSeqProperties
    <2>2. QED
      BY <2>1, AppendProperties, OwnFramesBuilt
  <1>3. QED
    BY <1>1, <1>2, AppendProperties

LEMMA RolesStart == Init => Roles
  BY EmptySeq DEF Init, NetInit, ServerInit, Roles, Absent, Role

OwnPeer(s, p) ==
    p.role \in {"absent", "none", Role(s)} /\ (p.role # Role(s) => p.code = NoCode)

LEMMA RolesKeep == IInv /\ Roles /\ [Next]_vars => Roles'
  <1> SUFFICES ASSUME IInv, Roles, [Next]_vars, NEW s \in Sockets
               PROVE  up'[s] \in Seq(OwnFrames(s)) /\ OwnPeer(s, peers'[s])
    BY DEF Roles, OwnPeer
  <1>1. /\ up[s] \in Seq(OwnFrames(s)) /\ OwnPeer(s, peers[s])
        /\ DOMAIN up = Sockets /\ DOMAIN peers = Sockets
    BY DEF Roles, OwnPeer, IInv, TypeOK, ServerTypeOK, Channels
  <1>2. CASE \E c \in HostCodes : StartHostSession(c)
    BY <1>1, <1>2 DEF StartHostSession, StartHosting, net
  <1>3. CASE StopHostSession
    BY <1>1, <1>3, EmptySeq DEF StopHostSession, Stop, Absent, OwnPeer
  <1>4. CASE AbandonHostSession
    BY <1>1, <1>4, OwnQueues, OwnFramesBuilt DEF AbandonHostSession, server
  <1>5. ASSUME NEW x \in Sockets, Drop(x)
        PROVE  up'[s] \in Seq(OwnFrames(s)) /\ UNCHANGED peers
    <2>1. PICK i \in 0 .. Len(up[x]) :
             up' = [up EXCEPT ![x] = Append(SubSeq(up[x], 1, i), Closed)]
      BY <1>5 DEF Drop, Broken
    <2>2. up'[s] = IF s = x THEN Append(SubSeq(up[s], 1, i), Closed) ELSE up[s]
      BY <1>1, <2>1
    <2>3. s = x => Append(SubSeq(up[s], 1, i), Closed) \in Seq(OwnFrames(s))
      BY <1>1, <2>1, OwnQueues
    <2>4. QED
      BY <1>1, <1>5, <2>2, <2>3 DEF Drop, server
  <1>6. ASSUME NEW x \in Sockets, NEW c \in Codes, Connect(x, c)
        PROVE  up'[s] \in Seq(OwnFrames(s)) /\ UNCHANGED peers
    <2>1. \A a, b \in OwnFrames(s) : <<a, b>> \in Seq(OwnFrames(s))
      OBVIOUS
    <2>2. <<Accepted, [type |-> "join", code |-> c, role |-> Role(s)]>> \in Seq(OwnFrames(s))
      BY <2>1, OwnFramesBuilt
    <2>3. QED
      BY <1>1, <1>6, <2>2 DEF Connect, server
  <1>7. ASSUME NEW x \in Sockets, NEW type \in FrameTypes, SendFrame(x, type)
        PROVE  up'[s] \in Seq(OwnFrames(s)) /\ UNCHANGED peers
    BY <1>1, <1>7, OwnQueues, OwnFramesBuilt DEF SendFrame, server
  <1>8. ASSUME NEW x \in Sockets, ServerTask(x)
        PROVE  up'[s] \in Seq(OwnFrames(s)) /\ OwnPeer(s, peers'[s])
    <2>1. CASE OnClientConnected(x)
      BY <1>1, <2>1, OwnQueues DEF OnClientConnected, HeadIs, Consume, OwnPeer, Role
    <2>2. CASE OnSocketDisconnected(x)
      BY <1>1, <2>2, OwnQueues DEF OnSocketDisconnected, HeadIs, Consume, Absent, OwnPeer, Role
    <2>3. CASE OnJoin(x)
      <3>1. PICK ends :
               /\ up' = [y \in Sockets |-> IF y \in ends THEN Append(up[y], Closed)
                                           ELSE Consume(x)[y]]
               /\ peers' = [peers EXCEPT ![x] = [code |-> Head(up[x]).code,
                                                 role |-> Head(up[x]).role]]
               /\ up[x] # <<>> /\ Head(up[x]).type = "join"
        BY <2>3 DEF OnJoin, HeadIs
      <3>2. /\ up'[s] \in {up[s], Append(up[s], Closed)} \cup (IF x = s THEN {Tail(up[s])} ELSE {})
            /\ peers'[s] = IF x = s THEN [code |-> Head(up[s]).code, role |-> Head(up[s]).role]
                           ELSE peers[s]
        BY <1>1, <3>1 DEF Consume
      <3>3. x = s => Head(up[s]) \in OwnFrames(s)
        BY <1>1, <3>1, OwnQueues
      <3>4. x = s => Head(up[s]).role = Role(s)
        BY <3>1, <3>3, RelayAssumption DEF OwnFrames
      <3>5. OwnPeer(s, peers'[s])
        BY <1>1, <3>2, <3>4 DEF OwnPeer
      <3>6. QED
        BY <1>1, <3>1, <3>2, <3>5, OwnQueues, OwnFramesBuilt
    <2>4. CASE OnPing(x) \/ OnRelay(x)
      BY <1>1, <2>4, OwnQueues DEF OnPing, OnRelay, HeadIs, Consume, server
    <2>5. QED
      BY <1>8, <2>1, <2>2, <2>3, <2>4 DEF ServerTask, OnTextMessage
  <1>9. ASSUME NEW x \in Sockets, Receive(x)
        PROVE  up'[s] \in Seq(OwnFrames(s)) /\ UNCHANGED peers
    BY <1>1, <1>9 DEF Receive, server
  <1>10. CASE UNCHANGED vars
    BY <1>1, <1>10 DEF vars, net, server
  <1>11. QED
    BY <1>1, <1>2, <1>3, <1>4, <1>5, <1>6, <1>7, <1>8, <1>9, <1>10 DEF Next

LEMMA RolesHold == Spec => []Roles
  <1>1. Init => Roles
    BY RolesStart
  <1>2. IInv /\ Roles /\ [Next]_vars => Roles'
    BY RolesKeep
  <1>3. QED
    BY <1>1, <1>2, Invariance, PTL DEF Spec

\* Who gets a frame: members of the session of its sender, never the sender.
LEMMA RecipientsRead ==
    ASSUME IInv, Roles, NEW x \in Sockets, NEW s \in Sockets, NEW t \in FrameTypes,
           s \in Recipients(x, t)
    PROVE  /\ x # s /\ SessionOfPeer(s) # NoCode /\ SessionOfPeer(s) = SessionOfPeer(x)
           /\ t \in HostOnlyFrames => Role(x) = "host" /\ Role(s) = "guest"
           /\ t = "intent" => Role(x) = "guest" /\ Role(s) = "host"
  <1> DEFINE r == SessionOfPeer(x)
             toGuests == s \in guests[r]
             toHost   == s = host[r] /\ host[r] # NoSocket
             isHost   == peers[x].role = "host"
  <1>1. r # NoCode /\ (toGuests \/ toHost)
    BY SocketsAssumption DEF Recipients, Others
  <1>2. x # s \/ (isHost /\ toGuests) \/ (~isHost /\ toHost)
    BY DEF Recipients, Others
  <1>3. /\ t \in HostOnlyFrames => isHost /\ toGuests
        /\ t = "intent" => ~isHost /\ toHost
    <2>1. ASSUME t \in HostOnlyFrames PROVE isHost /\ toGuests
      <3>1. t \notin PublicFrames /\ t # "intent" /\ t \notin VoiceFrames
        BY <2>1 DEF HostOnlyFrames, PublicFrames, VoiceFrames
      <3>2. s \in IF isHost THEN guests[r] ELSE {}
        BY <1>1, <2>1, <3>1, Zenon DEF Recipients
      <3>3. QED
        BY <3>2
    <2>2. ASSUME t = "intent" PROVE ~isHost /\ toHost
      <3>1. t \notin HostOnlyFrames /\ t \notin PublicFrames /\ t \notin VoiceFrames
        BY <2>2 DEF HostOnlyFrames, PublicFrames, VoiceFrames
      <3>2. s \in IF isHost THEN {} ELSE {host[r]} \ {NoSocket}
        BY <1>1, <2>2, <3>1, Zenon DEF Recipients
      <3>3. QED
        BY <3>2
    <2>3. QED
      BY <2>1, <2>2
  <1>4. r \in Codes
    BY <1>1 DEF IInv, TypeOK, ServerTypeOK, PeerInfo, SessionOfPeer
  <1>5. /\ toGuests => peers[s].role = "guest" /\ SessionOfPeer(s) = r
        /\ toHost   => peers[s].role = "host" /\ SessionOfPeer(s) = r
    BY <1>4 DEF IInv, SeatsAreAccountedFor
  <1>6. peers[s].code # NoCode /\ peers[x].code # NoCode
    BY <1>1, <1>5 DEF SessionOfPeer
  <1>7. peers[s].role = Role(s) /\ peers[x].role = Role(x)
    BY <1>6 DEF Roles
  <1>8. QED
    BY <1>1, <1>2, <1>3, <1>5, <1>7 DEF Role

\* What is put into a queue last, by action.
LEMMA LastSent ==
    ASSUME IInv, Roles, [Next]_vars, NEW s \in Sockets, Len(down'[s]) > Len(down[s])
    PROVE  LET m == down'[s][Len(down'[s])]
           IN  \/ "from" \notin DOMAIN m
               \/ \E x \in Sockets : \E t \in FrameTypes :
                     m = [type |-> t, from |-> x] /\ s \in Recipients(x, t)
  <1> DEFINE m == down'[s][Len(down'[s])]
             Plain(f) == "from" \notin DOMAIN f
             Sent(f) == down'[s] = Append(down[s], f)
  <1>1. /\ down[s] \in Seq(DownFrames) /\ DOMAIN down = Sockets
        /\ up \in [Sockets -> Seq(UpFrames)]
    BY DEF IInv, Channels
  <1>2. ASSUME NEW f, Sent(f) PROVE m = f
    BY <1>1, <1>2, LenProperties
  <1>3. Plain(Closed) /\ Plain([type |-> "pong"])
        /\ \A online, count : Plain(PeerUpdate(online, count))
    BY DEF Closed, PeerUpdate
  <1>4. \A h, gs : LET q == PeerUpdateSent(h, gs)[s]
                   IN  \/ q = down[s]
                       \/ \E online, count : q = Append(down[s], PeerUpdate(online, count))
    BY DEF PeerUpdateSent
  <1>5. CASE \E c \in HostCodes : StartHostSession(c)
    BY <1>1, <1>5, LenProperties DEF StartHostSession, StartHosting, net
  <1>6. CASE StopHostSession
    <2>1. Sent(Closed) \/ down'[s] = down[s]
      BY <1>6 DEF StopHostSession, Stop
    <2>2. QED
      BY <1>1, <2>1, <1>2, <1>3, LenProperties
  <1>7. CASE AbandonHostSession
    <2>1. down'[s] = <<>> \/ down'[s] = down[s]
      BY <1>7 DEF AbandonHostSession
    <2>2. QED
      BY <1>1, <2>1, EmptySeq, LenProperties
  <1>8. ASSUME NEW x \in Sockets, Drop(x) PROVE FALSE
    <2>1. down'[s] = <<>> \/ down'[s] = down[s]
      BY <1>1, <1>8 DEF Drop
    <2>2. QED
      BY <1>1, <2>1, EmptySeq, LenProperties
  <1>9. ASSUME NEW x \in Sockets, Receive(x) PROVE FALSE
    <2>1. down'[s] = down[s] \/ (down[s] # <<>> /\ down'[s] = Tail(down[s]))
      BY <1>1, <1>9 DEF Receive
    <2>2. QED
      BY <1>1, <2>1, HeadTailProperties, LenProperties, EmptySeq
  <1>10. ASSUME NEW x \in Sockets,
                (\E c \in Codes : Connect(x, c)) \/ (\E type \in FrameTypes : SendFrame(x, type))
         PROVE FALSE
    <2>1. UNCHANGED down
      BY <1>10 DEF Connect, SendFrame
    <2>2. QED
      BY <1>1, <2>1, LenProperties
  <1>11. ASSUME NEW x \in Sockets, ServerTask(x)
         PROVE  \/ Plain(m)
                \/ \E t \in FrameTypes :
                      m = [type |-> t, from |-> x] /\ s \in Recipients(x, t)
    <2>1. CASE OnClientConnected(x)
      BY <1>1, <2>1, LenProperties DEF OnClientConnected
    <2>2. CASE OnSocketDisconnected(x)
      <3>1. down'[s] = down[s] \/ \E h, gs : down'[s] = PeerUpdateSent(h, gs)[s]
        BY <2>2 DEF OnSocketDisconnected
      <3>2. down'[s] = down[s] \/ \E online, count : Sent(PeerUpdate(online, count))
        BY <3>1, <1>4
      <3>3. QED
        BY <1>1, <3>2, <1>2, <1>3, LenProperties
    <2>3. CASE OnJoin(x)
      <3>1. Sent(Closed) \/ \E h, gs : down'[s] = PeerUpdateSent(h, gs)[s]
        BY <2>3 DEF OnJoin
      <3>2. Sent(Closed) \/ down'[s] = down[s] \/ \E online, count : Sent(PeerUpdate(online, count))
        BY <3>1, <1>4
      <3>3. QED
        BY <1>1, <3>2, <1>2, <1>3, LenProperties
    <2>4. CASE OnPing(x)
      <3>1. down'[s] = down[s] \/ Sent([type |-> "pong"])
        BY <2>4 DEF OnPing, SentTo
      <3>2. QED
        BY <1>1, <3>1, <1>2, <1>3, LenProperties
    <2>5. CASE OnRelay(x)
      <3>1. /\ up[x] # <<>> /\ Head(up[x]).type \notin {"accepted", "closed", "join"}
            /\ down'[s] = down[s] \/ /\ Sent(Head(up[x]))
                                     /\ s \in Recipients(x, Head(up[x]).type)
        BY <2>5 DEF OnRelay, SentTo
      <3>2. Head(up[x]) \in OwnFrames(x)
        BY <1>1, <3>1, OwnQueues DEF Roles
      <3>3. PICK t \in FrameTypes : Head(up[x]) = [type |-> t, from |-> x]
        BY <3>1, <3>2 DEF OwnFrames
      <3>4. m = Head(up[x]) /\ s \in Recipients(x, Head(up[x]).type)
        BY <1>1, <3>1, <1>2, LenProperties
      <3>5. QED
        BY <3>3, <3>4
    <2>6. QED
      BY <1>11, <2>1, <2>2, <2>3, <2>4, <2>5 DEF ServerTask, OnTextMessage
  <1>12. CASE UNCHANGED vars
    BY <1>1, <1>12, LenProperties DEF vars, net
  <1>13. QED
    BY <1>5, <1>6, <1>7, <1>8, <1>9, <1>10, <1>11, <1>12 DEF Next

\* Whatever is forwarded stays in the room of its sender, is not echoed to it
\* and respects the roles (the forwarding branches of onTextMessage).
THEOREM DeliveryByTheRules == Spec => DeliveryRules
  <1> DEFINE Rule(s) ==
         Len(down'[s]) > Len(down[s]) =>
            LET m == down'[s][Len(down'[s])]
            IN  "from" \in DOMAIN m =>
                   /\ m.from # s
                   /\ SessionOfPeer(s) # NoCode
                   /\ SessionOfPeer(s) = SessionOfPeer(m.from)
                   /\ m.type \in HostOnlyFrames => Role(m.from) = "host" /\ Role(s) = "guest"
                   /\ m.type = "intent" => Role(m.from) = "guest" /\ Role(s) = "host"
  <1>1. IInv /\ Roles /\ [Next]_vars => [\A s \in Sockets : Rule(s)]_vars
    <2> SUFFICES ASSUME IInv, Roles, [Next]_vars, NEW s \in Sockets,
                        Len(down'[s]) > Len(down[s]),
                        "from" \in DOMAIN down'[s][Len(down'[s])]
                 PROVE  Rule(s)
      OBVIOUS
    <2>1. PICK x \in Sockets, t \in FrameTypes :
             down'[s][Len(down'[s])] = [type |-> t, from |-> x] /\ s \in Recipients(x, t)
      BY LastSent
    <2>2. QED
      BY <2>1, RecipientsRead
  <1>2. QED
    BY <1>1, Invariance, RolesHold, PTL DEF Spec, DeliveryRules
----------------------------------------------------------------------------
(* What the members are told.  The newest roster on the way to a member, or *)
(* the one it handled last when none is, is the roster as it is.           *)

IsRoster(m) == m.type = "peer_update"

Roster(r) == PeerUpdate(host[r] # NoSocket, Cardinality(guests[r]))

Heard(q, t, v) ==
    \/ t = v /\ \A i \in 1 .. Len(q) : ~IsRoster(q[i])
    \/ \E i \in 1 .. Len(q) : q[i] = v /\ \A j \in (i + 1) .. Len(q) : ~IsRoster(q[j])

Informed(s, r) == Heard(down[s], told[s], Roster(r))

MembersAreInformed ==
    \A r \in Codes, s \in Sockets : s \in Members(r) /\ Live(s) => Informed(s, r)

LEMMA HeardReceived ==
    ASSUME NEW q \in Seq(DownFrames), q # <<>>, NEW t, NEW v, IsRoster(v), Heard(q, t, v)
    PROVE  Heard(Tail(q), IF IsRoster(Head(q)) THEN Head(q) ELSE t, v)
  <1> DEFINE rest == Tail(q)
             t2   == IF IsRoster(q[1]) THEN q[1] ELSE t
  <1>1. /\ Len(q) \in Nat \ {0} /\ Head(q) = q[1] /\ Len(rest) = Len(q) - 1
        /\ \A i \in 1 .. Len(rest) : rest[i] = q[i + 1]
    BY HeadTailProperties, LenProperties, EmptySeq
  <1> HIDE DEF rest
  <1>2. CASE t = v /\ \A i \in 1 .. Len(q) : ~IsRoster(q[i])
    <2>1. ~IsRoster(q[1]) /\ \A i \in 1 .. Len(rest) : i + 1 \in 1 .. Len(q)
      BY <1>1, <1>2
    <2>2. Heard(rest, t2, v)
      BY <1>1, <1>2, <2>1 DEF Heard
    <2>3. QED
      BY <1>1, <2>2 DEF rest
  <1>3. ASSUME NEW i \in 1 .. Len(q), q[i] = v,
               \A j \in (i + 1) .. Len(q) : ~IsRoster(q[j])
        PROVE  Heard(Tail(q), IF IsRoster(Head(q)) THEN Head(q) ELSE t, v)
    <2>1. CASE i > 1
      <3>1. i - 1 \in 1 .. Len(rest) /\ rest[i - 1] = v
        BY <1>1, <1>3, <2>1
      <3>2. \A j \in (i - 1) + 1 .. Len(rest) : j + 1 \in (i + 1) .. Len(q) /\ rest[j] = q[j + 1]
        BY <1>1, <2>1
      <3>3. Heard(rest, t2, v)
        BY <1>3, <3>1, <3>2 DEF Heard
      <3>4. QED
        BY <1>1, <3>3 DEF rest
    <2>2. CASE i = 1 /\ IsRoster(q[1])
      <3>1. \A j \in 1 .. Len(rest) : j + 1 \in (i + 1) .. Len(q) /\ rest[j] = q[j + 1]
        BY <1>1, <2>2
      <3>2. Heard(rest, t2, v)
        BY <1>3, <2>2, <3>1 DEF Heard
      <3>3. QED
        BY <1>1, <3>2 DEF rest
    <2>3. QED
      BY <1>3, <2>1, <2>2
  <1>4. QED
    BY <1>2, <1>3 DEF Heard

\* A frame behind the others: a roster is news, anything else is not.
LEMMA HeardAppended ==
    ASSUME NEW q \in Seq(DownFrames), NEW t, NEW v, NEW m \in DownFrames
    PROVE  /\ m = v => Heard(Append(q, m), t, v)
           /\ Heard(q, t, v) /\ ~IsRoster(m) => Heard(Append(q, m), t, v)
  <1> DEFINE longer == Append(q, m)
  <1>1. /\ Len(q) \in Nat /\ Len(longer) = Len(q) + 1 /\ longer[Len(q) + 1] = m
        /\ \A i \in 1 .. Len(q) : longer[i] = q[i]
    BY AppendProperties, LenProperties
  <1> HIDE DEF longer
  <1>2. ASSUME m = v PROVE Heard(longer, t, v)
    <2>1. Len(longer) \in 1 .. Len(longer) /\ (Len(longer) + 1) .. Len(longer) = {}
      BY <1>1
    <2>2. QED
      BY <1>1, <1>2, <2>1 DEF Heard
  <1>3. ASSUME Heard(q, t, v), ~IsRoster(m) PROVE Heard(longer, t, v)
    <2>1. CASE t = v /\ \A i \in 1 .. Len(q) : ~IsRoster(q[i])
      <3>1. ASSUME NEW i \in 1 .. Len(longer) PROVE ~IsRoster(longer[i])
        BY <1>1, <1>3, <2>1
      <3>2. QED
        BY <2>1, <3>1 DEF Heard
    <2>2. ASSUME NEW i \in 1 .. Len(q), q[i] = v,
                 \A j \in (i + 1) .. Len(q) : ~IsRoster(q[j])
          PROVE  Heard(longer, t, v)
      <3>1. i \in 1 .. Len(longer) /\ longer[i] = v
        BY <1>1, <2>2
      <3>2. ASSUME NEW j \in (i + 1) .. Len(longer) PROVE ~IsRoster(longer[j])
        BY <1>1, <1>3, <2>2
      <3>3. QED
        BY <3>1, <3>2 DEF Heard
    <2>3. QED
      BY <1>3, <2>1, <2>2 DEF Heard
  <1>4. QED
    BY <1>2, <1>3 DEF longer

LEMMA RosterTyped ==
    ASSUME IInv, NEW r \in Codes
    PROVE  Roster(r) \in DownFrames /\ IsRoster(Roster(r))
  <1>1. guests[r] \in SUBSET Sockets /\ (host[r] # NoSocket) \in BOOLEAN
    BY DEF IInv, TypeOK, ServerTypeOK
  <1>2. QED
    BY <1>1, PeerUpdateTyped DEF Roster, IsRoster, PeerUpdate

\* No connection is a member of two sessions, and none that has not joined is.
LEMMA OneSession ==
    ASSUME IInv, NEW r \in Codes, NEW s \in Sockets, s \in Members(r)
    PROVE  SessionOfPeer(s) = r /\ peers[s].role \in {"host", "guest"} /\ wire[s] # "idle"
  <1>1. SessionOfPeer(s) = r /\ peers[s].role \in {"host", "guest"}
    BY DEF IInv, SeatsAreAccountedFor, Members
  <1>2. QED
    BY <1>1 DEF IInv, Streams, StreamOK

\* The clients: nobody joins or leaves, and who stays connected hears in order.
LEMMA ClientsStayInformed ==
    ASSUME IInv, MembersAreInformed, UNCHANGED <<host, guests>>,
           \A s \in Sockets :
              Live(s)' /\ peers[s].role # "absent" => Live(s) /\ UNCHANGED <<down[s], told[s]>>
    PROVE  MembersAreInformed'
  <1> SUFFICES ASSUME NEW r \in Codes, NEW s \in Sockets, (s \in Members(r))', Live(s)'
               PROVE  Informed(s, r)'
    BY DEF MembersAreInformed
  <1>1. s \in Members(r) /\ Roster(r)' = Roster(r)
    BY DEF Members, Roster
  <1>2. Live(s) /\ down'[s] = down[s] /\ told'[s] = told[s]
    BY <1>1, OneSession
  <1>3. Informed(s, r)
    BY <1>1, <1>2 DEF MembersAreInformed
  <1>4. QED
    BY <1>1, <1>2, <1>3 DEF Informed

LEMMA ReceiveInforms ==
    ASSUME IInv, MembersAreInformed, NEW x \in Sockets, Receive(x)
    PROVE  MembersAreInformed'
  <1> SUFFICES ASSUME NEW r \in Codes, NEW s \in Sockets, (s \in Members(r))', Live(s)'
               PROVE  Informed(s, r)'
    BY DEF MembersAreInformed
  <1>1. /\ s \in Members(r) /\ Roster(r)' = Roster(r) /\ Live(s)
        /\ down[s] \in Seq(DownFrames)
    BY DEF Members, Roster, Receive, server, Live, IInv, Channels
  <1>2. Heard(down[s], told[s], Roster(r)) /\ IsRoster(Roster(r))
    BY <1>1, RosterTyped DEF MembersAreInformed, Informed
  <1>3. CASE s = x
    <2>1. /\ down[s] # <<>> /\ down'[s] = Tail(down[s])
          /\ told'[s] = IF IsRoster(Head(down[s])) THEN Head(down[s]) ELSE told[s]
      BY <1>3 DEF Receive, IInv, Channels, IsRoster
    <2>2. Heard(down'[s], told'[s], Roster(r))
      BY <1>1, <1>2, <2>1, HeardReceived
    <2>3. QED
      BY <1>1, <2>2 DEF Informed
  <1>4. CASE s # x
    <2>1. down'[s] = down[s] /\ told'[s] = told[s]
      BY <1>4 DEF Receive, IInv, Channels
    <2>2. QED
      BY <1>1, <1>2, <2>1 DEF Informed
  <1>5. QED
    BY <1>3, <1>4

\* A ping is echoed, or a frame is forwarded: neither is a roster.
LEMMA TextInforms ==
    ASSUME IInv, MembersAreInformed, NEW x \in Sockets, OnPing(x) \/ OnRelay(x),
           UNCHANGED clients
    PROVE  MembersAreInformed'
  <1>1. PICK m \in DownFrames :
           ~IsRoster(m) /\ \E targets : down' = SentTo(targets, m)
    <2>1. CASE OnPing(x)
      BY <2>1, FramesBuilt DEF OnPing, IsRoster
    <2>2. CASE OnRelay(x)
      <3>1. up[x] \in Seq(UpFrames) /\ up[x] # <<>>
        BY <2>2 DEF OnRelay, IInv, Channels
      <3>2. Head(up[x]) \in UpFrames /\ Head(up[x]).type \notin {"accepted", "closed", "join"}
        BY <2>2, <3>1, HeadTailProperties DEF OnRelay
      <3>3. Head(up[x]) \in DownFrames /\ Head(up[x]).type # "peer_update"
        BY <3>2, RelayAssumption DEF UpFrames, DownFrames
      <3>4. QED
        BY <2>2, <3>3 DEF OnRelay, IsRoster
    <2>3. QED
      BY <2>1, <2>2
  <1>2. UNCHANGED <<wire, host, guests, told>>
    BY DEF OnPing, OnRelay, server, clients
  <1> SUFFICES ASSUME NEW r \in Codes, NEW s \in Sockets, (s \in Members(r))', Live(s)'
               PROVE  Informed(s, r)'
    BY DEF MembersAreInformed
  <1>3. s \in Members(r) /\ Roster(r)' = Roster(r) /\ Live(s) /\ down[s] \in Seq(DownFrames)
    BY <1>2 DEF Members, Roster, Live, IInv, Channels
  <1>4. Heard(down[s], told[s], Roster(r))
    BY <1>3 DEF MembersAreInformed, Informed
  <1>5. down'[s] = down[s] \/ down'[s] = Append(down[s], m)
    BY <1>1 DEF SentTo
  <1>6. Heard(down'[s], told[s], Roster(r))
    BY <1>1, <1>3, <1>4, <1>5, HeardAppended
  <1>7. QED
    BY <1>2, <1>3, <1>6 DEF Informed

\* The members of a session whose seats change are told so, the others are not:
\* h and g are the seats of session r afterwards, and sent is what is sent.
LEMMA SeatsInform ==
    ASSUME IInv, MembersAreInformed, IInv', NEW r \in Codes,
           NEW h \in Sockets \cup {NoSocket}, NEW g \in SUBSET Sockets,
           host' = [host EXCEPT ![r] = h], guests' = [guests EXCEPT ![r] = g],
           UNCHANGED told,
           \A s \in Sockets : Live(s)' => Live(s) /\ down'[s] = PeerUpdateSent(h, g)[s],
           \A s \in Sockets : s \in g \cup {h} =>
              \A q \in Codes : s \in Members(q) => q = r
    PROVE  MembersAreInformed'
  <1> SUFFICES ASSUME NEW q \in Codes, NEW s \in Sockets, (s \in Members(q))', Live(s)'
               PROVE  Informed(s, q)'
    BY DEF MembersAreInformed
  <1>1. /\ Live(s) /\ down'[s] = PeerUpdateSent(h, g)[s] /\ down[s] \in Seq(DownFrames)
        /\ s # NoSocket
    BY SocketsAssumption DEF IInv, Channels
  <1>2. CASE q = r
    <2>1. host'[q] = h /\ guests'[q] = g /\ s \in g \cup {h}
      BY <1>1, <1>2 DEF Members, IInv, TypeOK, ServerTypeOK
    <2>2. Roster(q)' = PeerUpdate(h # NoSocket, Cardinality(g))
      BY <2>1 DEF Roster
    <2>3. PeerUpdate(h # NoSocket, Cardinality(g)) \in DownFrames
      BY PeerUpdateTyped
    <2>4. s = h => (h # NoSocket) = TRUE
      BY <1>1
    <2>5. down'[s] = Append(down[s], PeerUpdate(h # NoSocket, Cardinality(g)))
      BY <1>1, <2>1, <2>4 DEF PeerUpdateSent
    <2>6. Heard(down'[s], told[s], PeerUpdate(h # NoSocket, Cardinality(g)))
      BY <1>1, <2>3, <2>5, HeardAppended
    <2>7. QED
      BY <2>2, <2>6 DEF Informed
  <1>3. CASE q # r
    <2>1. host'[q] = host[q] /\ guests'[q] = guests[q]
      BY <1>3 DEF IInv, TypeOK, ServerTypeOK
    <2>2. s \in Members(q) /\ Roster(q)' = Roster(q)
      BY <2>1 DEF Members, Roster
    <2>3. s \notin g /\ s # h
      BY <1>3, <2>2
    <2>4. down'[s] = down[s]
      BY <1>1, <2>3 DEF PeerUpdateSent
    <2>5. Informed(s, q)
      BY <1>1, <2>2 DEF MembersAreInformed
    <2>6. QED
      BY <2>2, <2>4, <2>5 DEF Informed
  <1>4. QED
    BY <1>2, <1>3

LEMMA EndInforms ==
    ASSUME IInv, IInv', MembersAreInformed, NEW s \in Sockets, OnSocketDisconnected(s),
           UNCHANGED clients
    PROVE  MembersAreInformed'
  <1> DEFINE r == SessionOfPeer(s)
             h == HostSeatAfter(r, s)
             g == GuestSeatsAfter(r, s)
  <1>1. UNCHANGED <<wire, told>> /\ r \in Codes \cup {NoCode}
    BY DEF OnSocketDisconnected, clients, IInv, TypeOK, ServerTypeOK, PeerInfo, SessionOfPeer
  <1>2. CASE r = NoCode
    <2>1. UNCHANGED <<down, host, guests>>
      BY <1>2 DEF OnSocketDisconnected
    <2>2. QED
      BY <1>1, <2>1, ClientsStayInformed DEF Live
  <1>3. CASE r # NoCode
    <2>1. /\ r \in Codes /\ h \in Sockets \cup {NoSocket} /\ g \in SUBSET Sockets
          /\ g \subseteq guests[r] /\ h \in {host[r], NoSocket}
      BY <1>1, <1>3
         DEF HostSeatAfter, GuestSeatsAfter, IInv, TypeOK, ServerTypeOK
    <2>2. host' = [host EXCEPT ![r] = h] /\ guests' = [guests EXCEPT ![r] = g]
      BY <1>3 DEF OnSocketDisconnected
    <2>3. \A x \in Sockets : x \in g \cup {h} => x \in Members(r)
      BY <2>1, SocketsAssumption DEF Members
    <2>4. \A x \in Sockets : x \in g \cup {h} => \A q \in Codes : x \in Members(q) => q = r
      BY <2>1, <2>3, OneSession
    <2>5. \A x \in Sockets : Live(x)' => Live(x)
      BY <1>1 DEF Live
    <2>6. CASE h = NoSocket /\ g = {}
      <3>1. UNCHANGED down
        BY <1>3, <2>6 DEF OnSocketDisconnected
      <3>2. ASSUME NEW x \in Sockets PROVE down'[x] = PeerUpdateSent(h, g)[x]
        BY <2>6, <3>1, SocketsAssumption DEF PeerUpdateSent
      <3>3. QED
        BY <1>1, <2>1, <2>2, <2>4, <2>5, <3>2, SeatsInform
    <2>7. CASE ~(h = NoSocket /\ g = {})
      <3>1. down' = PeerUpdateSent(h, g)
        BY <1>3, <2>7 DEF OnSocketDisconnected
      <3>2. QED
        BY <1>1, <2>1, <2>2, <2>4, <2>5, <3>1, SeatsInform
    <2>8. QED
      BY <2>6, <2>7
  <1>4. QED
    BY <1>2, <1>3

LEMMA JoinInforms ==
    ASSUME IInv, IInv', MembersAreInformed, NEW s \in Sockets, OnJoin(s), UNCHANGED clients
    PROVE  MembersAreInformed'
  <1> DEFINE c    == Head(up[s]).code
             role == Head(up[s]).role
             r    == IF sessionOf[c] = NoCode THEN c ELSE sessionOf[c]
             h    == IF role = "host" THEN s ELSE host[r]
             g    == IF role = "guest" THEN guests[r] \cup {s} ELSE guests[r]
             old  == IF role = "host" /\ host[r] # s THEN host[r] ELSE NoSocket
             ends == {old} \cap {x \in Sockets : Live(x)}
  <1>1. /\ up[s] # <<>> /\ Head(up[s]).type = "join"
        /\ up[s] \in Seq(UpFrames) /\ StreamOK(wire[s], up[s], peers[s].role)
    BY DEF OnJoin, HeadIs, IInv, Channels, Streams
  <1>2. c \in Codes /\ role \in {"host", "guest"}
    BY <1>1, HeadTailProperties, UpFramesRead
  <1>3. peers[s].role = "none"
    <2>1. 1 \in 1 .. Len(up[s]) /\ up[s][1].type = "join"
      BY <1>1, TailRead
    <2>2. QED
      BY <1>1, <2>1 DEF StreamOK
  <1>4. /\ host' = [host EXCEPT ![r] = h] /\ guests' = [guests EXCEPT ![r] = g]
        /\ wire' = [x \in Sockets |-> IF x \in ends THEN "down" ELSE wire[x]]
        /\ down' = [x \in Sockets |-> IF x \in ends THEN Append(down[x], Closed)
                                      ELSE PeerUpdateSent(h, g)[x]]
        /\ UNCHANGED told
    BY DEF OnJoin, clients
  <1>5. r \in Codes
    BY <1>2, CodesAssumption DEF IInv, TypeOK, ServerTypeOK
  <1>6. h \in Sockets \cup {NoSocket} /\ g \in SUBSET Sockets
    BY <1>2, <1>5 DEF IInv, TypeOK, ServerTypeOK
  <1>7. \A x \in Sockets : Live(x)' => Live(x) /\ down'[x] = PeerUpdateSent(h, g)[x]
    BY <1>4 DEF Live
  <1>8. ASSUME NEW x \in Sockets, x \in g \cup {h}, NEW q \in Codes, x \in Members(q)
        PROVE  q = r
    <2>1. x # s
      BY <1>3, <1>8, OneSession
    <2>2. x \in Members(r)
      BY <1>8, <2>1, SocketsAssumption DEF Members
    <2>3. QED
      BY <1>5, <1>8, <2>2, OneSession
  <1> HIDE DEF c, role, r, h, g, old, ends
  <1>9. QED
    BY <1>4, <1>5, <1>6, <1>7, <1>8, SeatsInform

LEMMA InformedKeep == IInv /\ MembersAreInformed /\ [Next]_vars => MembersAreInformed'
  <1> SUFFICES ASSUME IInv, MembersAreInformed, [Next]_vars PROVE MembersAreInformed'
    OBVIOUS
  <1>1. IInv'
    BY StepKeeps
  <1>2. CASE \E c \in HostCodes : StartHostSession(c)
    BY <1>2, ClientsStayInformed DEF StartHostSession, StartHosting, net, Live
  <1>3. CASE StopHostSession
    <2>1. \A s \in Sockets : wire'[s] # "up"
      BY <1>3 DEF StopHostSession, Stop, Live
    <2>2. QED
      BY <2>1 DEF MembersAreInformed, Live
  <1>4. CASE AbandonHostSession
    <2>1. UNCHANGED <<host, guests>>
      BY <1>4 DEF AbandonHostSession, server
    <2>2. \A s \in Sockets : Live(s)' => Live(s) /\ UNCHANGED <<down[s], told[s]>>
      BY <1>4 DEF AbandonHostSession, Live
    <2>3. QED
      BY <2>1, <2>2, ClientsStayInformed
  <1>5. ASSUME NEW x \in Sockets, Drop(x) PROVE MembersAreInformed'
    <2>1. UNCHANGED <<host, guests>>
      BY <1>5 DEF Drop, server
    <2>2. \A s \in Sockets : Live(s)' => Live(s) /\ UNCHANGED <<down[s], told[s]>>
      BY <1>5 DEF Drop, Live, IInv, TypeOK, Channels
    <2>3. QED
      BY <2>1, <2>2, ClientsStayInformed
  <1>6. ASSUME NEW x \in Sockets, NEW c \in Codes, Connect(x, c) PROVE MembersAreInformed'
    <2>1. UNCHANGED <<down, host, guests, told>> /\ peers[x].role = "absent"
      BY <1>6 DEF Connect, server, clients, IInv, Streams, StreamOK
    <2>2. \A s \in Sockets : Live(s)' /\ peers[s].role # "absent" => Live(s)
      BY <1>6, <2>1 DEF Connect, Live, IInv, TypeOK
    <2>3. QED
      BY <2>1, <2>2, ClientsStayInformed
  <1>7. ASSUME NEW x \in Sockets, NEW type \in FrameTypes, SendFrame(x, type)
        PROVE  MembersAreInformed'
    BY <1>7, ClientsStayInformed DEF SendFrame, server, clients, Live
  <1>8. ASSUME NEW x \in Sockets, Receive(x) PROVE MembersAreInformed'
    BY <1>8, ReceiveInforms
  <1>9. ASSUME NEW x \in Sockets, ServerTask(x), UNCHANGED clients PROVE MembersAreInformed'
    <2>1. CASE OnClientConnected(x)
      BY <1>9, <2>1, ClientsStayInformed DEF OnClientConnected, clients, Live
    <2>2. CASE OnSocketDisconnected(x)
      BY <1>1, <1>9, <2>2, EndInforms
    <2>3. CASE OnJoin(x)
      BY <1>1, <1>9, <2>3, JoinInforms
    <2>4. CASE OnPing(x) \/ OnRelay(x)
      BY <1>9, <2>4, TextInforms
    <2>5. QED
      BY <1>9, <2>1, <2>2, <2>3, <2>4 DEF ServerTask, OnTextMessage
  <1>10. CASE UNCHANGED vars
    BY <1>10, ClientsStayInformed DEF vars, net, server, clients, Live
  <1>11. QED
    BY <1>2, <1>3, <1>4, <1>5, <1>6, <1>7, <1>8, <1>9, <1>10 DEF Next

\* Once nothing is in flight, every connected member of a session knows whether
\* there is a host and how many guests there are (sendPeerUpdate).
THEOREM RosterReachesAll == Spec => []RosterIsKnown
  <1>1. Init => MembersAreInformed
    BY DEF Init, NetInit, MembersAreInformed, Live
  <1>2. IInv /\ MembersAreInformed => RosterIsKnown
    <2> SUFFICES ASSUME IInv, MembersAreInformed,
                        \A s \in Sockets : up[s] = <<>> /\ down[s] = <<>>,
                        NEW r \in Codes, NEW s \in Members(r), Live(s)
                 PROVE  /\ told[s].guests = Cardinality(guests[r])
                        /\ told[s].host = (host[r] # NoSocket)
      BY DEF RosterIsKnown
    <2>1. s \in Sockets
      BY DEF Members, IInv, TypeOK, ServerTypeOK
    <2>2. Heard(<<>>, told[s], Roster(r))
      BY <2>1 DEF MembersAreInformed, Informed
    <2>3. told[s] = Roster(r)
      BY <2>2 DEF Heard
    <2>4. QED
      BY <2>3 DEF Roster, PeerUpdate
  <1>3. QED
    BY <1>1, <1>2, Invariance, InformedKeep, PTL DEF Spec
=============================================================================
