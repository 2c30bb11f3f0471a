--------------------------- MODULE SignalingServer ---------------------------
(***************************************************************************)
(* The relay server that the hosting instance embeds                       *)
(* (network/signaling_server.cpp).  Every callback of the WebSocket        *)
(* library is pushed onto m_events and run by pumpEvents() on the UI       *)
(* thread, so the state below has one writer and a step is one queued      *)
(* task: the arrival of a connection, the end of one, or one text frame.   *)
(*                                                                         *)
(* A Session object is named by the code that created it.  All its codes   *)
(* are erased together, so that name is free again exactly when the        *)
(* session is gone; sessionOf is m_sessions, with aliases mapped to the    *)
(* name of the session whose shared_ptr they hold.                         *)
(***************************************************************************)
EXTENDS WebSockets

CONSTANTS Codes,      \* session codes and password aliases
          NoCode      \* the empty string

ASSUME CodesAssumption == NoCode \notin Codes

VARIABLES running,    \* m_server is set
          peers,      \* m_peers
          sessionOf,  \* m_sessions
          host,       \* Session::host, by session
          guests      \* Session::guests, by session

server == <<running, peers, sessionOf, host, guests>>

\* PeerInfo; "absent" stands for a socket that is not a key of m_peers.
PeerInfo == [code : Codes \cup {NoCode}, role : {"absent", "none", "host", "guest"}]
Absent   == [code |-> NoCode, role |-> "absent"]

ServerTypeOK ==
    /\ running \in BOOLEAN
    /\ peers \in [Sockets -> PeerInfo]
    /\ sessionOf \in [Codes -> Codes \cup {NoCode}]
    /\ host \in [Codes -> Sockets \cup {NoSocket}]
    /\ guests \in [Codes -> SUBSET Sockets]

ServerInit ==
    /\ running = FALSE
    /\ peers = [s \in Sockets |-> Absent]
    /\ sessionOf = [c \in Codes |-> NoCode]
    /\ host = [c \in Codes |-> NoSocket]
    /\ guests = [c \in Codes |-> {}]

\* The session a connection has joined, NoCode when there is none (any more).
SessionOfPeer(s) ==
    IF peers[s].code = NoCode THEN NoCode ELSE sessionOf[peers[s].code]

----------------------------------------------------------------------------
(* What the server sends.                                                  *)

\* A slip to check against: the host is left out of a count it is not in.
PeerUpdateLessHost(online, count) ==
    [type |-> "peer_update", host |-> online, guests |-> count - 1]

PeerUpdate(online, count) ==
    [type |-> "peer_update", host |-> online, guests |-> count]

\* A slip to check against: only the host is told.
PeerUpdateSentToHost(h, gs) ==
    [s \in Sockets |->
        IF Live(s) /\ s = h THEN Append(down[s], PeerUpdate(TRUE, Cardinality(gs)))
        ELSE down[s]]

\* sendPeerUpdate: the host is always told host = true, the guests whether
\* there is a host; everybody is told the number of guests.
PeerUpdateSent(h, gs) ==
    [s \in Sockets |->
        IF ~Live(s) THEN down[s]
        ELSE IF s = h THEN Append(down[s], PeerUpdate(TRUE, Cardinality(gs)))
        ELSE IF s \in gs THEN Append(down[s], PeerUpdate(h # NoSocket, Cardinality(gs)))
        ELSE down[s]]

HostOnlyFrames == {"file", "open_url"}
PublicFrames   == {"state", "chat", "reaction", "share_meta", "share_chunk", "share_done"}
VoiceFrames    == {"relay_voice_start", "relay_voice_stop", "relay_voice_frame"}

\* A slip to check against: the sender gets its own frame back.
OthersAndSender(s, r) == (guests[r] \cup {host[r]}) \ {NoSocket}

Others(s, r) == (guests[r] \cup {host[r]}) \ {s, NoSocket}

\* Who a frame of the given type from connection s is forwarded to.
Recipients(s, type) ==
    LET r      == SessionOfPeer(s)
        isHost == peers[s].role = "host"
    IN  IF r = NoCode THEN {}
        ELSE CASE type \in HostOnlyFrames -> IF isHost THEN guests[r] ELSE {}
               [] type \in PublicFrames   -> IF isHost THEN guests[r] ELSE Others(s, r)
               [] type = "intent"         -> IF isHost THEN {} ELSE {host[r]} \ {NoSocket}
               [] type \in VoiceFrames    -> IF Cardinality(guests[r]) > 1 THEN {}
                                             ELSE IF isHost THEN guests[r]
                                             ELSE {host[r]} \ {NoSocket}
               [] OTHER                   -> {}

----------------------------------------------------------------------------
(* The tasks pumpEvents() runs.                                            *)

HeadIs(s, type) == up[s] # <<>> /\ Head(up[s]).type = type
Consume(s)     == [up EXCEPT ![s] = Tail(up[s])]

OnClientConnected(s) ==
    /\ HeadIs(s, "accepted")
    /\ up' = Consume(s)
    /\ peers' = [peers EXCEPT ![s] = [code |-> NoCode, role |-> "none"]]
    /\ UNCHANGED <<wire, down, running, sessionOf, host, guests>>

\* Slips to check against: whoever joined as the host empties the host's seat,
\* also after a later connection took it; guests without a host are not released.
HostSeatAfterRole(r, s) == IF peers[s].role = "host" THEN NoSocket ELSE host[r]
GuestSeatsAfterHost(r, s) == IF host[r] = NoSocket THEN guests[r] ELSE guests[r] \ {s}

\* The seats of session r once connection s is gone.
HostSeatAfter(r, s)   == IF host[r] = s THEN NoSocket ELSE host[r]
GuestSeatsAfter(r, s) == guests[r] \ {s}

\* onSocketDisconnected: the peer is forgotten, it leaves its session, and an
\* empty session is erased with all its codes.
OnSocketDisconnected(s) ==
    LET r == SessionOfPeer(s)
        h == HostSeatAfter(r, s)
        g == GuestSeatsAfter(r, s)
    IN  /\ HeadIs(s, "closed")
        /\ up' = Consume(s)
        /\ peers' = [peers EXCEPT ![s] = Absent]
        /\ IF r = NoCode
           THEN UNCHANGED <<down, sessionOf, host, guests>>
           ELSE /\ host' = [host EXCEPT ![r] = h]
                /\ guests' = [guests EXCEPT ![r] = g]
                /\ IF h = NoSocket /\ g = {}
                   THEN /\ sessionOf' = [c \in Codes |-> IF sessionOf[c] = r THEN NoCode
                                                         ELSE sessionOf[c]]
                        /\ UNCHANGED down
                   ELSE /\ down' = PeerUpdateSent(h, g)
                        /\ UNCHANGED sessionOf
        /\ UNCHANGED <<wire, running>>

\* onTextMessage, "join": find or create the session, take the seat (a new
\* host closes the connection of the old one), record the peer, tell everyone.
OnJoin(s) ==
    LET c    == Head(up[s]).code
        role == Head(up[s]).role
        r    == IF sessionOf[c] = NoCode THEN c ELSE sessionOf[c]
        h    == IF role = "host" THEN s ELSE host[r]
        g    == IF role = "guest" THEN guests[r] \cup {s} ELSE guests[r]
        old  == IF role = "host" /\ host[r] # s THEN host[r] ELSE NoSocket
        ends == {old} \cap {x \in Sockets : Live(x)}
        sent == PeerUpdateSent(h, g)
    IN  /\ HeadIs(s, "join")
        /\ peers[s].role # "absent"
        /\ sessionOf' = [sessionOf EXCEPT ![c] = r]
        /\ host' = [host EXCEPT ![r] = h]
        /\ guests' = [guests EXCEPT ![r] = g]
        /\ peers' = [peers EXCEPT ![s] = [code |-> c, role |-> role]]
        /\ wire' = [x \in Sockets |-> IF x \in ends THEN "down" ELSE wire[x]]
        /\ up'   = [x \in Sockets |-> IF x \in ends THEN Append(up[x], Closed)
                                      ELSE Consume(s)[x]]
        /\ down' = [x \in Sockets |-> IF x \in ends THEN Append(down[x], Closed)
                                      ELSE sent[x]]
        /\ UNCHANGED running

\* onTextMessage, "ping": echoed to its sender, joined or not.
OnPing(s) ==
    /\ HeadIs(s, "ping")
    /\ up' = Consume(s)
    /\ down' = SentTo({x \in {s} : peers[x].role # "absent"}, [type |-> "pong"])
    /\ UNCHANGED <<wire, server>>

\* onTextMessage, everything else: forwarded according to type and role.
OnRelay(s) ==
    /\ up[s] # <<>>
    /\ Head(up[s]).type \notin {"accepted", "closed", "join", "ping"}
    /\ up' = Consume(s)
    /\ down' = SentTo(Recipients(s, Head(up[s]).type), Head(up[s]))
    /\ UNCHANGED <<wire, server>>

OnTextMessage(s) == OnJoin(s) \/ OnPing(s) \/ OnRelay(s)

ServerTask(s) == OnClientConnected(s) \/ OnSocketDisconnected(s) \/ OnTextMessage(s)

----------------------------------------------------------------------------
(* The calls SyncSession makes on its embedded server.                     *)

\* stop(): the maps and the queued tasks are discarded, every client is closed.
Stop ==
    /\ running
    /\ running' = FALSE
    /\ peers' = [s \in Sockets |-> Absent]
    /\ sessionOf' = [c \in Codes |-> NoCode]
    /\ host' = [c \in Codes |-> NoSocket]
    /\ guests' = [c \in Codes |-> {}]
    /\ wire' = [s \in Sockets |-> IF Live(s) THEN "down" ELSE wire[s]]
    /\ up'   = [s \in Sockets |-> <<>>]
    /\ down' = [s \in Sockets |-> IF Live(s) THEN Append(down[s], Closed) ELSE down[s]]

\* createSession: the new code is not in use.
CreateSession(map, c) == [map EXCEPT ![c] = c]

\* addAlias: refused (returns false) when the alias is already a code; the
\* caller ignores the result.
AddAlias(map, alias, c) ==
    IF map[alias] # NoCode THEN map ELSE [map EXCEPT ![alias] = map[c]]

\* startHostSession's part: start the server unless it is running, create the
\* session and, when there is a password, its alias.
StartHosting(c, password) ==
    /\ sessionOf[c] = NoCode
    /\ running' = TRUE
    /\ sessionOf' = IF password = NoCode THEN CreateSession(sessionOf, c)
                    ELSE AddAlias(CreateSession(sessionOf, c), password, c)
    /\ UNCHANGED <<net, peers, host, guests>>
=============================================================================
