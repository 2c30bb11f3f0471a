----------------------------- MODULE VoiceCall ------------------------------
(***************************************************************************)
(* A voice call between the host and its one guest: the calls SyncSession  *)
(* makes on RelayVoice (sync/sync_session.cpp), the buttons of the call    *)
(* panel (ui/panels.cpp) and the frames through the relay server.  There   *)
(* is no handshake: relay_voice_start asks the other end to start too,     *)
(* relay_voice_stop to stop, and neither is answered.  RelayVoice, whose   *)
(* threads are in module RelayVoice, is here on, off or failed.            *)
(*                                                                         *)
(* The relay is SignalingServer; a client is reduced to its connections,   *)
(* each with one join, and to the last peer_update it handled, which       *)
(* outlives a connection as m_relayGuestCount does.                        *)
(***************************************************************************)
EXTENDS SignalingServer

CONSTANTS Host, Guests,    \* the instances
          SocketsOf,       \* SocketsOf[p]: the connections p may make
          SessionCode,     \* the code the host's session runs under
          Callers,         \* the instances whose users press the call button
          MaxPresses,      \* bound: presses of buttons of the call panel
          MayDrop          \* sockets that may break

Instances == Guests \cup {Host}

ASSUME VoiceCallAssumption ==
    /\ Host \notin Guests /\ Callers \subseteq Instances /\ SessionCode \in Codes
    /\ MaxPresses \in Nat
    /\ SocketsOf \in [Instances -> SUBSET Sockets]
    /\ \A p, q \in Instances : p # q => SocketsOf[p] \cap SocketsOf[q] = {}

VARIABLES
    current,    \* m_ws of each instance
    view,       \* m_relayHostOnline, m_relayGuestCount
    enabled,    \* m_voiceEnabled
    call,       \* RelayVoice: "Idle", "Connected" or "Failed"
    presses,    \* bookkeeping: buttons pressed
    refused,    \* bookkeeping: a start or a restart led to nothing
    crossed     \* bookkeeping: a request was sent while one of the other end was
                \* on its way

callVars == <<current, view, enabled, call, presses, refused, crossed>>
voiceCallVars == <<net, server, callVars>>

VoiceCallInit ==
    /\ wire = [s \in Sockets |-> "idle"]
    /\ up = [s \in Sockets |-> <<>>] /\ down = [s \in Sockets |-> <<>>]
    /\ running = TRUE
    /\ peers = [s \in Sockets |-> Absent]
    /\ sessionOf = [c \in Codes |-> IF c = SessionCode THEN c ELSE NoCode]
    /\ host = [c \in Codes |-> NoSocket] /\ guests = [c \in Codes |-> {}]
    /\ current = [p \in Instances |-> NoSocket]
    /\ view = [p \in Instances |-> [host |-> p = Host, guests |-> 0]]
    /\ enabled = [p \in Instances |-> TRUE]
    /\ call = [p \in Instances |-> "Idle"]
    /\ presses = 0 /\ refused = FALSE /\ crossed = FALSE

Active(p) == call[p] = "Connected"
Connected(p) == current[p] # NoSocket

\* voiceAvailable, for a given view of the session.
AvailableWith(p, v) == enabled[p] /\ Connected(p) /\ v.host /\ v.guests = 1
VoiceAvailable(p) == AvailableWith(p, view[p])

VoiceFrame(type) == [type |-> type]
Sent(p, type) ==
    IF Connected(p) /\ Live(current[p])
    THEN [up EXCEPT ![current[p]] = Append(@, VoiceFrame(type))]
    ELSE up

\* A request of somebody else is on its way to the server, or from there to p.
Carries(stream) == \E k \in DOMAIN stream : stream[k].type \in VoiceFrames
OthersRequest(p) ==
    \E s \in Sockets : IF s \in SocketsOf[p] THEN Carries(down[s]) ELSE Carries(up[s])

Requests(p, type) ==
    /\ up' = Sent(p, type)
    /\ crossed' = (crossed \/ OthersRequest(p))

----------------------------------------------------------------------------
(* The buttons.                                                            *)

\* startVoiceCall: the peer is asked only if the device started.
StartVoiceCall(p) ==
    /\ p \in Callers /\ presses < MaxPresses
    /\ ~Active(p) /\ VoiceAvailable(p)
    /\ presses' = presses + 1
    /\ \/ /\ call' = [call EXCEPT ![p] = "Connected"]
          /\ Requests(p, "relay_voice_start")
       \/ /\ call' = [call EXCEPT ![p] = "Failed"]
          /\ UNCHANGED <<up, crossed>>
    /\ UNCHANGED <<wire, down, server, current, view, enabled, refused>>

\* A slip to check against: the peer is not told.
StopVoiceCallSilently(p) ==
    /\ call' = [call EXCEPT ![p] = "Idle"]
    /\ UNCHANGED <<up, crossed>>

\* stopVoiceCall: the peer is told if there is a connection.
StopVoiceCall(p) ==
    /\ call' = [call EXCEPT ![p] = "Idle"]
    /\ IF call[p] = "Idle" THEN UNCHANGED <<up, crossed>>
       ELSE Requests(p, "relay_voice_stop")

EndCall(p) ==
    /\ p \in Callers /\ presses < MaxPresses
    /\ Active(p)
    /\ presses' = presses + 1
    /\ StopVoiceCall(p)
    /\ UNCHANGED <<wire, down, server, current, view, enabled, refused>>

\* The checkbox of the call panel: setVoiceEnabled, then stopVoiceCall.
SetVoiceEnabled(p) ==
    /\ presses < MaxPresses /\ presses' = presses + 1
    /\ enabled' = [enabled EXCEPT ![p] = ~@]
    /\ IF enabled[p] THEN StopVoiceCall(p) ELSE UNCHANGED <<call, up, crossed>>
    /\ UNCHANGED <<wire, down, server, current, view, refused>>

\* setCaptureDeviceIndex in a call: the device is stopped and started again,
\* and the peer hears nothing when it does not start.
SetCaptureDevice(p) ==
    /\ p \in Callers /\ presses < MaxPresses /\ Active(p)
    /\ presses' = presses + 1
    /\ call' = [call EXCEPT ![p] = "Failed"] /\ refused' = TRUE
    /\ UNCHANGED <<net, server, current, view, enabled, crossed>>

----------------------------------------------------------------------------
(* The connection.                                                         *)

\* The client connects, again after a break, and joins.
Connect(p, s) ==
    /\ ~Connected(p) /\ s \in SocketsOf[p] /\ wire[s] = "idle"
    /\ current' = [current EXCEPT ![p] = s]
    /\ wire' = [wire EXCEPT ![s] = "up"]
    /\ up' = [up EXCEPT ![s] =
         <<Accepted, [type |-> "join", code |-> SessionCode,
                      role |-> IF p = Host THEN "host" ELSE "guest"]>>]
    /\ UNCHANGED <<down, server, view, enabled, call, presses, refused, crossed>>

Drop(s) ==
    /\ s \in MayDrop /\ WireDrop(s)
    /\ UNCHANGED <<server, callVars>>

Event(p) == Head(down[current[p]])
Hears(p, types) ==
    /\ Connected(p) /\ down[current[p]] # <<>> /\ Event(p).type \in types
    /\ down' = [down EXCEPT ![current[p]] = Tail(@)]

\* onConnectionStateChanged: without a connection voice is not available.
OnDisconnected(p) ==
    /\ Hears(p, {"closed"})
    /\ current' = [current EXCEPT ![p] = NoSocket]
    /\ call' = [call EXCEPT ![p] = IF @ = "Connected" THEN "Idle" ELSE @]
    /\ UNCHANGED <<wire, up, server, view, enabled, presses, refused, crossed>>

\* A slip to check against: a call goes on whoever comes or goes.
OnRelayPeerUpdateKeeping(p) ==
    /\ Hears(p, {"peer_update"})
    /\ view' = [view EXCEPT ![p] = [host |-> Event(p).host, guests |-> Event(p).guests]]
    /\ UNCHANGED <<wire, up, server, current, call, enabled, presses, refused, crossed>>

\* onRelayPeerUpdate: a call ends when there is not exactly one peer.
OnRelayPeerUpdate(p) ==
    /\ Hears(p, {"peer_update"})
    /\ view' = [view EXCEPT ![p] = [host |-> Event(p).host, guests |-> Event(p).guests]]
    /\ call' = [call EXCEPT ![p] =
         IF @ = "Connected" /\ ~AvailableWith(p, view'[p]) THEN "Idle" ELSE @]
    /\ UNCHANGED <<wire, up, server, current, enabled, presses, refused, crossed>>

\* onRelayVoiceStartReceived: ignored unless voice is available; the device may
\* not start.  The caller hears of neither.
OnRelayVoiceStart(p) ==
    /\ Hears(p, {"relay_voice_start"})
    /\ \/ /\ VoiceAvailable(p)
          /\ call' = [call EXCEPT ![p] = "Connected"]
          /\ UNCHANGED refused
       \/ /\ VoiceAvailable(p) /\ ~Active(p)
          /\ call' = [call EXCEPT ![p] = "Failed"]
          /\ refused' = TRUE
       \/ /\ ~VoiceAvailable(p)
          /\ refused' = TRUE
          /\ UNCHANGED call
    /\ UNCHANGED <<wire, up, server, current, view, enabled, presses, crossed>>

\* onRelayVoiceStopReceived.
OnRelayVoiceStop(p) ==
    /\ Hears(p, {"relay_voice_stop"})
    /\ call' = [call EXCEPT ![p] = "Idle"]
    /\ UNCHANGED <<wire, up, server, current, view, enabled, presses, refused, crossed>>

ClientTask(p) ==
    \/ OnDisconnected(p) \/ OnRelayPeerUpdate(p)
    \/ OnRelayVoiceStart(p) \/ OnRelayVoiceStop(p)

VoiceCallNext ==
    \/ \E p \in Instances :
          \/ StartVoiceCall(p) \/ EndCall(p) \/ SetVoiceEnabled(p)
          \/ SetCaptureDevice(p) \/ ClientTask(p)
          \/ \E s \in Sockets : Connect(p, s)
    \/ \E s \in Sockets : Drop(s) \/ (ServerTask(s) /\ UNCHANGED callVars)

----------------------------------------------------------------------------
(* Properties.                                                             *)

\* The microphone is only open while the instance believes in exactly one peer
\* and voice is enabled: each of the events that can end that (a peer, the
\* connection, the checkbox) ends the call by itself.
CallNeedsOnePeer == \A p \in Instances : Active(p) => VoiceAvailable(p)

\* A request to start always finds the other end available, unless its user
\* disabled voice: the server sends peer_update before it forwards the start.
StartFindsThePeer ==
    \A p \in Instances :
       Connected(p) /\ down[current[p]] # <<>> /\ enabled[p] =>
          (Event(p).type = "relay_voice_start" => VoiceAvailable(p))

\* Together: no start, however late, opens a microphone that nobody can hear.
CallsHaveOnePeer == CallNeedsOnePeer /\ StartFindsThePeer

\* As long as no connection breaks, no device fails and no requests cross: once
\* nothing is in flight, either nobody is in a call or the host and the only guest
\* both are, whoever joined in between.  (Requests that cross may leave the ends in
\* different states: a stop ends also the call that its receiver has begun since.)
CallsAgree ==
    (\A s \in Sockets : up[s] = <<>> /\ down[s] = <<>> /\ wire[s] # "down")
    /\ ~refused /\ ~crossed =>
       LET talking == {p \in Instances : Active(p)}
       IN talking = {} \/ \E g \in Guests : talking = {Host, g}
=============================================================================
