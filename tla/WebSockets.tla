----------------------------- MODULE WebSockets -----------------------------
(***************************************************************************)
(* The transport under the relay protocol: rtc::WebSocket and              *)
(* rtc::WebSocketServer of libdatachannel, which are not part of this      *)
(* repository.  The module models what network/signaling_client.cpp and    *)
(* network/signaling_server.cpp rely on: every connection is an ordered,   *)
(* reliable pair of streams that may break at any moment, losing whatever  *)
(* has not arrived, and each end learns of the end of the connection once, *)
(* after everything that did arrive.                                       *)
(*                                                                         *)
(* up[s] holds what the server has still to handle on connection s: frames *)
(* in flight followed from the head by the callbacks already pushed onto   *)
(* its TaskQueue.  down[s] is the same for the client end.  The order of   *)
(* the two queues of one direction is one order, so they are one sequence. *)
(***************************************************************************)
EXTENDS Naturals, Sequences, FiniteSets

CONSTANTS Sockets,    \* every connection that is ever attempted
          NoSocket    \* the null std::shared_ptr<rtc::WebSocket>

ASSUME SocketsAssumption == IsFiniteSet(Sockets) /\ NoSocket \notin Sockets

VARIABLES wire,       \* wire[s]: how far connection s has got
          up,         \* up[s]: what is on its way from the client to the server
          down        \* down[s]: what is on its way from the server to the client

net == <<wire, up, down>>

WireStates == {"idle", "connecting", "up", "down"}

Accepted == [type |-> "accepted"]   \* WebSocketServer::onClient
Opened   == [type |-> "opened"]     \* WebSocket::onOpen
Closed   == [type |-> "closed"]     \* WebSocket::onClosed / onError

NetInit ==
    /\ wire = [s \in Sockets |-> "idle"]
    /\ up   = [s \in Sockets |-> <<>>]
    /\ down = [s \in Sockets |-> <<>>]

Live(s) == wire[s] = "up"

\* The handshake completes: both ends get their callback.
WireOpen(s) ==
    /\ wire[s] = "connecting"
    /\ wire' = [wire EXCEPT ![s] = "up"]
    /\ up'   = [up EXCEPT ![s] = <<Accepted>>]
    /\ down' = [down EXCEPT ![s] = <<Opened>>]

\* The server cannot be reached: only the client hears of it.
WireRefuse(s) ==
    /\ wire[s] = "connecting"
    /\ wire' = [wire EXCEPT ![s] = "down"]
    /\ down' = [down EXCEPT ![s] = <<Closed>>]
    /\ UNCHANGED up

\* The connection breaks: a suffix of each stream is lost, and each end
\* learns of the break after the prefix that arrived.
Broken(stream, s, i) == [stream EXCEPT ![s] = Append(SubSeq(stream[s], 1, i), Closed)]

WireDrop(s) ==
    /\ Live(s)
    /\ wire' = [wire EXCEPT ![s] = "down"]
    /\ \E i \in 0 .. Len(up[s]) : up' = Broken(up, s, i)
    /\ \E j \in 0 .. Len(down[s]) : down' = Broken(down, s, j)

\* WebSocket::send by the server: a frame for a connection that is gone is lost.
SentTo(targets, frame) ==
    [s \in Sockets |-> IF s \in targets /\ Live(s) THEN Append(down[s], frame)
                                                   ELSE down[s]]
=============================================================================
