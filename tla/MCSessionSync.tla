--------------------------- MODULE MCSessionSync ---------------------------
(* Instances of SessionSync for TLC: a host and one or two guests.         *)
EXTENDS SessionSync, TLC

CONSTANTS p0, g1, g2,                           \* the instances
          HostConnections, GuestConnections     \* bounds: connections per instance

MCMaxConnections == [p \in Peers |-> IF p = Host THEN HostConnections
                                     ELSE GuestConnections]
MCSockets == UNION {{p} \X (1 .. MCMaxConnections[p]) : p \in Peers}
\* The host is paused; the guests have started without it.
MCStartPlayers == {[p \in Peers |-> [playing |-> p # Host, pos |-> x]] : x \in Positions}
MCGuestSymmetry == Permutations(Guests)

\* Next as far as the bounds of sync_retries let it happen: nobody leaves, no link is
\* shared, and a host that is paused and has one action has none for a heartbeat.
RetriesNext ==
    \/ StartHostSession
    \/ \E f \in Sources : SetLocalFileInfo(f)
    \/ \E g \in Guests : JoinSession(g)
    \/ \E p \in Peers :
          \/ HandleEvent(p) \/ Reconnect(p)
          \/ \E cmd \in Commands : UserCommand(p, cmd)
    \/ \E s \in Sockets : ServerStep(s) \/ Open(s) \/ Refuse(s) \/ Drop(s)

\* The fairness of FairSpec.
RetriesSpec ==
    /\ Init /\ [][RetriesNext]_vars
    /\ \A p \in Peers : WF_vars(HandleEvent(p)) /\ WF_vars(Reconnect(p))
    /\ \A s \in Sockets : WF_vars(ServerStep(s)) /\ WF_vars(Open(s))
=============================================================================
