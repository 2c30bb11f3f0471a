--------------------------- MODULE MCSyncSettles ---------------------------
(* Instances of SessionSync that come to rest, of one kind in every         *)
(* behaviour: the connections of one guest break, or the host's, or the     *)
(* guest leaves and joins again; or nothing breaks and two guests come and  *)
(* one leaves.                                                              *)
EXTENDS MCSessionSync

CONSTANTS f1, f2, u1    \* files and a link that the host opens

VARIABLES kind, party   \* the kind, and the guests that take part

MCInit ==
    /\ Init /\ kind \in {"guest", "host", "leave", "pair"}
    /\ party \in IF kind = "pair" THEN {Guests} ELSE {{g} : g \in Guests}

Go == UNCHANGED <<kind, party>>

\* Bound: a host that has begun to play says so once more.
Beat == kind = "guest" /\ Heartbeat /\ Go

\* Bound: one action, and the link that was shared becomes what the host plays.
Act ==
    /\ Go
    /\ \/ /\ actions = 0
          /\ \/ kind = "host" /\ SetLocalFileInfo(f2)
             \/ kind = "pair" /\ ShareOpenUrl(u1)
             \/ \E p \in party \cup {Host}, cmd \in Commands : UserCommand(p, cmd)
       \/ SetLocalFileInfo(u1)

Leave == Go /\ kind \in {"leave", "pair"} /\ \E g \in party : LeaveSession(g)

\* Only who leaves alone joins again.
Join ==
    /\ Go
    /\ \E g \in party : /\ kind # "leave" => ~sessionActive[g] /\ generation[g] = 0
                        /\ JoinSession(g)

Fail ==
    /\ Go
    /\ \E s \in Sockets : /\ kind = IF s[1] = Host THEN "host" ELSE "guest"
                          /\ Refuse(s) \/ Drop(s)

Rest ==
    /\ Go
    /\ \/ StartHostSession
       \/ \E p \in Peers : HandleEvent(p) \/ Reconnect(p)
       \/ \E s \in Sockets : ServerStep(s) \/ Open(s)

MCNext == Rest \/ Beat \/ Act \/ Join \/ Leave \/ Fail

MCSpec == MCInit /\ [][MCNext]_<<vars, kind, party>>
=============================================================================
