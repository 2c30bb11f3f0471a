------------------------------- MODULE HostLog -------------------------------
(***************************************************************************)
(* What the synchronisation of a watch party promises, without server,     *)
(* connections or queues: the host writes a log of playback states, and    *)
(* every guest reads forward in it.  A guest may skip states and may       *)
(* start over by joining again, but it never reads a state the host has    *)
(* not written, never takes one for another, and never goes back.          *)
(***************************************************************************)
EXTENDS Naturals, Sequences

CONSTANTS Guests, States, NoState

VARIABLES
    log,        \* the states of the host
    applied,    \* how far guest g has read
    view        \* what guest g has read last

logVars == <<log, applied, view>>

LogInit ==
    /\ log = <<>>
    /\ applied = [g \in Guests |-> 0]
    /\ view = [g \in Guests |-> NoState]

\* The host captures a state.
Publish(st) == log' = Append(log, st) /\ UNCHANGED <<applied, view>>

\* A guest takes one it has not had.
Take(g, n) ==
    /\ n > applied[g]
    /\ applied' = [applied EXCEPT ![g] = n]
    /\ view' = [view EXCEPT ![g] = log[n]]
    /\ UNCHANGED log

\* A guest joins, joins again or leaves: it forgets what it has read.
Forget(g) ==
    /\ applied' = [applied EXCEPT ![g] = 0]
    /\ view' = [view EXCEPT ![g] = NoState]
    /\ UNCHANGED log

LogNext ==
    \/ \E st \in States : Publish(st)
    \/ \E g \in Guests : Forget(g) \/ \E n \in DOMAIN log : Take(g, n)

LogSpec == LogInit /\ [][LogNext]_logVars
=============================================================================
