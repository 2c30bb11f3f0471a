---------------------------- MODULE RelayService ----------------------------
(***************************************************************************)
(* The relay server together with its clients, the clients reduced to what *)
(* they may put on a connection: they connect with one join, send frames,  *)
(* hang up or lose the connection (network/signaling_client.cpp sends at   *)
(* most one join per connection).  One instance hosts; its successive      *)
(* connections are HostSockets, and it never has two open at once, though  *)
(* the server may not yet know that the previous one is gone.              *)
(***************************************************************************)
EXTENDS SignalingServer

CONSTANTS HostSockets,   \* connections of the hosting instance's own client
          HostCodes,     \* the codes generateCode() yields for its sessions
          Password,      \* m_sessionPassword, NoCode when there is none
          FrameTypes,    \* the types of frames clients send
          MaxQueue       \* bound: a client sends while no queue is longer

ASSUME RelayAssumption ==
    /\ HostSockets \subseteq Sockets /\ HostCodes \subseteq Codes
    /\ Password \in Codes \cup {NoCode} /\ MaxQueue \in Nat
    /\ FrameTypes \cap {"accepted", "closed", "join", "peer_update"} = {}

VARIABLES hosting, \* the code the hosting instance hosts under, or NoCode
          told     \* told[s]: the last peer_update handled by the client of s

clients == <<hosting, told>>
vars == <<net, server, clients>>

Role(s) == IF s \in HostSockets THEN "host" ELSE "guest"

NotTold == [type |-> "peer_update", host |-> FALSE, guests |-> 0]

Members(r) == guests[r] \cup ({host[r]} \ {NoSocket})

TypeOK ==
    /\ ServerTypeOK
    /\ wire \in [Sockets -> WireStates]
    /\ hosting \in HostCodes \cup {NoCode}
    /\ \A s \in Sockets : told[s].host \in BOOLEAN /\ told[s].guests \in 0 .. Cardinality(Sockets)

Init == NetInit /\ ServerInit /\ hosting = NoCode /\ told = [s \in Sockets |-> NotTold]

StartHostSession(c) ==
    /\ hosting = NoCode
    /\ StartHosting(c, Password)
    /\ hosting' = c
    /\ UNCHANGED told

\* disconnectSession of the hosting instance.
StopHostSession ==
    /\ hosting # NoCode
    /\ Stop
    /\ hosting' = NoCode
    /\ told' = [s \in Sockets |-> NotTold]

\* joinSession on the hosting instance (an invite link opened while hosting):
\* its client leaves, its server keeps running.
AbandonHostSession ==
    /\ hosting # NoCode
    /\ hosting' = NoCode
    /\ LET left == {s \in HostSockets : Live(s)}
       IN  /\ wire' = [s \in Sockets |-> IF s \in left THEN "down" ELSE wire[s]]
           /\ up' = [s \in Sockets |-> IF s \in left THEN Append(up[s], Closed) ELSE up[s]]
           /\ down' = [s \in Sockets |-> IF s \in left THEN <<>> ELSE down[s]]
           /\ told' = [s \in Sockets |-> IF s \in left THEN NotTold ELSE told[s]]
    /\ UNCHANGED server

\* sendJoinIfReady: the join is the first frame of a connection, and the only
\* join; the client never asks for another code or role on it.
Connect(s, c) ==
    /\ running
    /\ wire[s] = "idle"
    /\ s \in HostSockets => c = hosting /\ \A x \in HostSockets : ~Live(x)
    /\ wire' = [wire EXCEPT ![s] = "up"]
    /\ up' = [up EXCEPT ![s] = <<Accepted, [type |-> "join", code |-> c, role |-> Role(s)]>>]
    /\ UNCHANGED <<down, server, clients>>

SendFrame(s, type) ==
    /\ Live(s)
    /\ \A x \in Sockets : Len(up[x]) < MaxQueue /\ Len(down[x]) < MaxQueue
    /\ up' = [up EXCEPT ![s] = Append(@, [type |-> type, from |-> s])]
    /\ UNCHANGED <<wire, down, server, clients>>

Receive(s) ==
    /\ down[s] # <<>>
    /\ down' = [down EXCEPT ![s] = Tail(@)]
    /\ told' = IF Head(down[s]).type = "peer_update" THEN [told EXCEPT ![s] = Head(down[s])]
               ELSE told
    /\ UNCHANGED <<wire, up, server, hosting>>

\* A connection breaks, or its client hangs up, which looks to the server like
\* a break that loses nothing.  What the client still had to hear is of no
\* consequence here.
Drop(s) ==
    /\ Live(s)
    /\ wire' = [wire EXCEPT ![s] = "down"]
    /\ \E i \in 0 .. Len(up[s]) : up' = Broken(up, s, i)
    /\ down' = [down EXCEPT ![s] = <<>>]
    /\ told' = [told EXCEPT ![s] = NotTold]
    /\ UNCHANGED <<server, hosting>>

Next ==
    \/ \E c \in HostCodes : StartHostSession(c)
    \/ StopHostSession
    \/ AbandonHostSession
    \/ \E s \in Sockets :
          \/ Drop(s) \/ Receive(s)
          \/ \E c \in Codes : Connect(s, c)
          \/ \E type \in FrameTypes : SendFrame(s, type)
          \/ ServerTask(s) /\ UNCHANGED clients

Spec == Init /\ [][Next]_vars

----------------------------------------------------------------------------
(* Properties.                                                             *)

\* The seats and the peers agree, both ways.  Every seat is held by a connection
\* the server still knows, under the role and in the session that
\* onSocketDisconnected will look up, so no takeover, alias or erased session
\* leaves a seat nobody will release; and a connection that joined keeps its
\* seat as long as it lives, whatever becomes of the connections before it.
SeatsAreAccountedFor ==
    /\ \A r \in Codes :
          /\ host[r] # NoSocket =>
                peers[host[r]].role = "host" /\ SessionOfPeer(host[r]) = r
          /\ \A s \in guests[r] : peers[s].role = "guest" /\ SessionOfPeer(s) = r
    /\ \A s \in Sockets :
          Live(s) /\ peers[s].role \in {"host", "guest"} =>
             SessionOfPeer(s) # NoCode /\ s \in Members(SessionOfPeer(s))

\* Once nothing is in flight, every connected member knows the seats as they
\* are: whether there is a host, and the number of guests (sendPeerUpdate).
RosterIsKnown ==
    (\A s \in Sockets : up[s] = <<>> /\ down[s] = <<>>) =>
       \A r \in Codes : \A s \in Members(r) : Live(s) =>
          /\ told[s].guests = Cardinality(guests[r])
          /\ told[s].host = (host[r] # NoSocket)

\* What is forwarded stays in the room of its sender and respects the roles:
\* only a host's file and open_url reach guests, only a host sees intents,
\* and nothing is echoed to its sender.
DeliveryRules ==
    [][ \A s \in Sockets :
          Len(down'[s]) > Len(down[s]) =>
             LET m == down'[s][Len(down'[s])]
             IN  "from" \in DOMAIN m =>
                    /\ m.from # s
                    /\ SessionOfPeer(s) # NoCode
                    /\ SessionOfPeer(s) = SessionOfPeer(m.from)
                    /\ m.type \in HostOnlyFrames => Role(m.from) = "host" /\ Role(s) = "guest"
                    /\ m.type = "intent" => Role(m.from) = "guest" /\ Role(s) = "host"
      ]_vars

\* A connection that ended does not keep its seat: once the server has run what
\* it queued, onSocketDisconnected has been reached, also for a host that was
\* replaced in the meantime and whatever became of its session.
SeatsAreGivenUp ==
    (\A s \in Sockets : up[s] = <<>>) =>
       \A s \in Sockets : wire[s] = "down" => \A r \in Codes : s \notin Members(r)

\* docs/05-signaling-protocol.md:18: "aliases share one Session".  While an
\* instance hosts under a code, the password leads where the code leads.
AliasSharesSession ==
    hosting # NoCode /\ sessionOf[hosting] # NoCode =>
       sessionOf[Password] = sessionOf[hosting]
=============================================================================
