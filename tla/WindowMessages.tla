--------------------------- MODULE WindowMessages ----------------------------
(***************************************************************************)
(* Files that come from outside: Explorer starts one process for every     *)
(* selected file, and a process that finds another one hands its file over *)
(* by WM_COPYDATA and exits (wWinMain); files are dropped on a window      *)
(* (platform/platform.cpp).  A window collects them while it dispatches    *)
(* messages, and the frame that follows opens them.                        *)
(***************************************************************************)
EXTENDS Naturals, Sequences, FiniteSets

CONSTANTS Processes, NoProcess,
          Drops,              \* drops of files, each dropped once
          MaxArrivals         \* bound: processes started and drops

ASSUME MessagesAssumption == NoProcess \notin Processes /\ MaxArrivals \in Nat

VARIABLES
    state,       \* "off", "starting", "sending", "pump", "frame", "dialog", "exited"
    target,      \* the window a process sends to
    ipcPaths,    \* g_ipcOpenPaths: the processes whose files they are
    late,        \* messages still in a window's queue after their sender gave up
    dropPaths,   \* g_dropPaths, of the drops they came with
    timesOpened, \* bookkeeping: how often each file was opened
    dropped,     \* drops that have happened
    played,      \* drops whose files a frame opened together
    gaveUp,      \* bookkeeping: senders whose message timed out
    lost         \* bookkeeping: files taken by a window that closed

messageVars == <<state, target, ipcPaths, late, dropPaths, timesOpened, dropped, played, gaveUp, lost>>

MessagesInit ==
    /\ state = [p \in Processes |-> "off"] /\ target = [p \in Processes |-> NoProcess]
    /\ ipcPaths = [p \in Processes |-> <<>>] /\ late = {}
    /\ dropPaths = [p \in Processes |-> <<>>]
    /\ timesOpened = [p \in Processes |-> 0] /\ dropped = {} /\ played = {} /\ gaveUp = {} /\ lost = {}

Goes(p, s) == state' = [state EXCEPT ![p] = s]

HasWindow == {p \in Processes : state[p] \in {"pump", "frame", "dialog"}}
Arrives ==
    Cardinality({p \in Processes : state[p] # "off"}) + Cardinality(dropped) < MaxArrivals
HasMutex == {p \in Processes : state[p] \notin {"off", "exited"}}

----------------------------------------------------------------------------
(* A process that is started with a file.                                  *)

\* The mutex tells whether another instance exists, not that it has a window yet.
Launch(p) ==
    /\ state[p] = "off" /\ Arrives
    /\ IF HasMutex # {} /\ HasWindow # {}
       THEN /\ Goes(p, "sending") /\ \E q \in HasWindow : target' = [target EXCEPT ![p] = q]
       ELSE Goes(p, "starting") /\ UNCHANGED target
    /\ UNCHANGED <<ipcPaths, late, dropPaths, timesOpened, dropped, played, gaveUp, lost>>

\* A slip to check against: one path is remembered.
TakenOnlyLast(paths, p) == <<p>>

\* WM_COPYDATA: dispatched whenever the window's thread looks for messages, in
\* the loop or in a dialog.
Taken(paths, p) == Append(paths, p)
CopyData(p) ==
    /\ state[p] = "sending" /\ state[target[p]] \in {"pump", "dialog"}
    /\ ipcPaths' = [ipcPaths EXCEPT ![target[p]] = Taken(@, p)]
    /\ Goes(p, "exited")
    /\ target' = [target EXCEPT ![p] = NoProcess]
    /\ UNCHANGED <<late, dropPaths, timesOpened, dropped, played, gaveUp, lost>>

\* Three seconds pass, or the window is gone: the process opens its own.  A
\* message that timed out may be dispatched all the same.
GiveUp(p) ==
    /\ state[p] = "sending"
    /\ \/ /\ state[target[p]] = "frame" /\ gaveUp' = gaveUp \cup {p}
          /\ late' \in {late, late \cup {p}}
       \/ target[p] \notin HasWindow /\ UNCHANGED <<gaveUp, late>>
    /\ Goes(p, "starting")
    /\ UNCHANGED <<target, ipcPaths, dropPaths, timesOpened, dropped, played, lost>>

LateCopyData(p) ==
    /\ p \in late /\ late' = late \ {p}
    /\ IF state[target[p]] \in {"pump", "dialog"}
       THEN ipcPaths' = [ipcPaths EXCEPT ![target[p]] = Taken(@, p)]
       ELSE target[p] \notin HasWindow /\ UNCHANGED ipcPaths
    /\ UNCHANGED <<state, target, dropPaths, timesOpened, dropped, played, gaveUp, lost>>

\* The window is there, and the command line is opened.
OpensOwn(p) ==
    /\ state[p] = "starting" /\ Goes(p, "pump")
    /\ timesOpened' = [timesOpened EXCEPT ![p] = @ + 1]
    /\ UNCHANGED <<target, ipcPaths, late, dropPaths, dropped, played, gaveUp, lost>>

----------------------------------------------------------------------------
(* A window.                                                               *)

\* IDropTarget::Drop, WM_DROPFILES; a dialog disables the window.
DropTaken(paths, d) == <<d>>
Drop(p, d) ==
    /\ state[p] = "pump" /\ d \notin dropped /\ Arrives
    /\ dropped' = dropped \cup {d}
    /\ dropPaths' = [dropPaths EXCEPT ![p] = DropTaken(@, d)]
    /\ UNCHANGED <<state, target, ipcPaths, late, timesOpened, played, gaveUp, lost>>

\* WM_CLOSE ends the loop before the next frame.
Closes(p) ==
    /\ state[p] = "pump" /\ Goes(p, "exited")
    /\ dropPaths' = [dropPaths EXCEPT ![p] = <<>>]
    /\ ipcPaths' = [ipcPaths EXCEPT ![p] = <<>>]
    /\ lost' = lost \cup {ipcPaths[p][k] : k \in DOMAIN ipcPaths[p]}
    /\ UNCHANGED <<target, late, timesOpened, dropped, played, gaveUp>>

LeftAfterFrame(paths) == <<>>

\* The frame: what was dropped plays, what was forwarded plays or queues up.
RunFrame(p) ==
    /\ state[p] = "pump" /\ Goes(p, "frame")
    /\ played' = IF dropPaths[p] = <<>> THEN played
                 ELSE played \cup {{dropPaths[p][k] : k \in DOMAIN dropPaths[p]}}
    /\ dropPaths' = [dropPaths EXCEPT ![p] = <<>>]
    /\ timesOpened' = [f \in Processes |->
          timesOpened[f] + Cardinality({k \in DOMAIN ipcPaths[p] : ipcPaths[p][k] = f})]
    /\ ipcPaths' = [ipcPaths EXCEPT ![p] = LeftAfterFrame(@)]
    /\ UNCHANGED <<target, late, dropped, gaveUp, lost>>

\* The rest of the frame, in which a file dialog may be open.
Dialog(p) == state[p] = "frame" /\ Goes(p, "dialog")
FrameEnds(p) == state[p] \in {"frame", "dialog"} /\ Goes(p, "pump")
Idle == UNCHANGED <<target, ipcPaths, late, dropPaths, timesOpened, dropped, played, gaveUp, lost>>

Steps(p) == CopyData(p) \/ GiveUp(p) \/ OpensOwn(p)

MessagesNext ==
    \E p \in Processes :
        \/ Launch(p) \/ Steps(p) \/ LateCopyData(p)
        \/ \E d \in Drops : Drop(p, d)
        \/ Closes(p) \/ RunFrame(p) \/ (Dialog(p) /\ Idle) \/ (FrameEnds(p) /\ Idle)

\* A send ends, if only by its timeout, windows open, frames go round and dialogs
\* are closed; nobody has to start a process or to close a window.
MessagesFairness ==
    \A p \in Processes :
        /\ SF_messageVars(CopyData(p)) /\ WF_messageVars(GiveUp(p) \/ OpensOwn(p))
        /\ WF_messageVars(RunFrame(p)) /\ WF_messageVars(FrameEnds(p) /\ Idle)

----------------------------------------------------------------------------
(* Properties.                                                             *)

\* Every file Explorer was asked to open is opened, in some window, unless the
\* one that took it was closed before its next frame.
EveryFileIsOpened ==
    <>[](\A p \in Processes : state[p] # "off" => p \in lost \/ timesOpened[p] > 0)

\* It is opened once, unless its process gave up on a window that was busy.
OpenedOnce == \A p \in Processes : timesOpened[p] > 1 => timesOpened[p] = 2 /\ p \in gaveUp

\* The files a frame takes from the drop target are those of one drop: what a
\* frame has not opened is not mixed with the next.
DropsAreNotMixed == \A group \in played : Cardinality(group) = 1

\* Together: of several instances and drops, each file is opened by one of them.
FilesAreOpenedOnce == [](OpenedOnce /\ DropsAreNotMixed) /\ EveryFileIsOpened
=============================================================================
