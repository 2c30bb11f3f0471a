---------------------------- MODULE ChatTimeline ----------------------------
(***************************************************************************)
(* What an instance tells its user about the session: the status line and  *)
(* the verdict on the file (sync_session.cpp), and the chat panel with its *)
(* timeline of chips and transfers (main.cpp, ui/panels.cpp).  Everything  *)
(* shown is pushed by callbacks when something changed, and only then.     *)
(***************************************************************************)
EXTENDS Integers, Sequences, SequencesExt, FiniteSets

CONSTANTS Files,        \* what a file is known by: size, duration and hash
          NoFile,
          MaxLines,     \* 200: lines the chat keeps
          MaxShares,    \* bound: transfers
          MaxEvents     \* bound: things that happen to the session

ASSUME TimelineAssumption ==
    NoFile \notin Files /\ MaxLines \in Nat \ {0} /\ MaxShares \in Nat /\ MaxEvents \in Nat

VARIABLES
    session,    \* the members of SyncSession a status is made of
    chat,       \* app.chat: [text, id, status], the oldest first
    previous,   \* timelineTransportState, timelineFileStatus, timelineVoiceState
    reported,   \* bookkeeping: the last status reported of each transfer
    settled,    \* bookkeeping: what was heard of since the role ("file") or the
                \* connection ("peers") changed
    events      \* bookkeeping: things that happened

timelineVars == <<session, chat, previous, reported, settled, events>>

----------------------------------------------------------------------------
(* The session.                                                            *)

TransportConnected(s) == IF s.hosting THEN s.guests > 0 ELSE s.hostOnline

TransportState(s) == IF TransportConnected(s) THEN "Connected" ELSE "Waiting"

VoiceAvailable(s) == /\ s.conn = "Connected" /\ s.joined /\ TransportConnected(s)
                     /\ s.hostOnline /\ s.guests = 1

\* updateStatus.
StatusText(s) ==
    CASE ~s.active \/ s.conn = "Invalid URL" -> "Idle"
      [] s.active /\ s.conn = "Connecting"   -> "Connecting"
      [] s.active /\ s.conn = "Disconnected" -> "Disconnected"
      [] s.active /\ s.conn \in {"Connected", "Reconnecting"} ->
            IF ~s.joined THEN "Joining"
            ELSE IF s.hosting
                 THEN IF s.guests > 0 THEN "Hosting - Connected" ELSE "Hosting - Waiting"
                 ELSE IF TransportConnected(s) THEN "Connected" ELSE "Waiting"

\* updateFileVerification.
FileVerdict(s) ==
    IF s.localFile = NoFile THEN "Local file not loaded"
    ELSE IF s.hosting THEN "Host file ready"
    ELSE IF s.remoteFile = NoFile THEN "Waiting for peer file info"
    ELSE IF s.localFile = s.remoteFile THEN "Files match" ELSE "File mismatch"

WithStatus(s) == [s EXCEPT !.status = StatusText(s)]
Verified(s)   == [s EXCEPT !.verdict = FileVerdict(s)]

----------------------------------------------------------------------------
(* The chat.                                                               *)

NoText == "none"   \* the empty text

TransportLabel(before, now) ==
    IF now = before THEN NoText ELSE IF now = "Connected" THEN "Connected" ELSE "Disconnected"

FileLabel(before, now) ==
    IF now = before THEN NoText
    ELSE IF now = "Files match" THEN "Files verified"
    ELSE IF now \in {"File mismatch", "Host file ready"} THEN now ELSE NoText

VoiceLabel(before, now) ==
    IF now = before THEN NoText
    ELSE IF now = "Connected" THEN "Voice started"
    ELSE IF now = "Failed" THEN "Voice failed" ELSE "Voice ended"

Trimmed(lines) == IF Len(lines) > MaxLines THEN Tail(lines) ELSE lines

Chip(text) == [text |-> text, id |-> 0, status |-> "None"]

\* AppendSystemTimelineChip: nothing empty, and nothing twice in a row.
Chips(lines, text) ==
    IF text = NoText \/ (lines # <<>> /\ Last(lines) = Chip(text)) THEN lines
    ELSE Trimmed(Append(lines, Chip(text)))

\* The status callback, called with the session as it is at that moment.
DispatchStatus(v, s) ==
    [chat |-> Chips(Chips(Chips(v.chat,
                TransportLabel(v.transport, TransportState(s))),
                FileLabel(v.file, s.verdict)),
                VoiceLabel(v.voice, s.voice)),
     transport |-> TransportState(s), file |-> s.verdict, voice |-> s.voice]

DispatchAction(v, text) == [v EXCEPT !.chat = Chips(@, text)]

View == [chat |-> chat, transport |-> previous.transport, file |-> previous.file,
         voice |-> previous.voice]

Shows(v) == /\ chat' = v.chat
            /\ previous' = [transport |-> v.transport, file |-> v.file, voice |-> v.voice]

----------------------------------------------------------------------------
(* What happens to the session.                                            *)

Fresh(s) == [s EXCEPT !.guests = 0, !.joined = FALSE]

TimelineInit ==
    /\ session = [hosting |-> FALSE, active |-> FALSE, hostOnline |-> FALSE, guests |-> 0,
                  conn |-> "Disconnected", joined |-> FALSE, voice |-> "Idle",
                  localFile |-> NoFile, remoteFile |-> NoFile,
                  verdict |-> "Local file not loaded", status |-> "Idle"]
    /\ chat = <<>>
    /\ previous = [transport |-> "Waiting", file |-> "Local file not loaded", voice |-> "Idle"]
    /\ reported = <<>> /\ settled = {"file"} /\ events = 0

Happens == events < MaxEvents /\ events' = events + 1 /\ UNCHANGED reported

\* The session becomes s and pushes its status.
Becomes(v, s) == session' = s /\ Shows(DispatchStatus(v, s))

\* A voice call that has lost its peer is stopped, with a status of its own.
VoiceStopped(s) ==
    [s EXCEPT !.voice = IF @ = "Connected" /\ ~VoiceAvailable(s) THEN "Idle" ELSE @]
VoiceChecked(v, s) ==
    IF VoiceStopped(s) = s THEN v ELSE DispatchStatus(v, VoiceStopped(s))

StartHostSession ==
    /\ Happens /\ ~session.active
    /\ \/ Becomes(View, WithStatus([Fresh(session) EXCEPT
                     !.hosting = TRUE, !.active = TRUE, !.hostOnline = TRUE,
                     !.conn = "Connecting"]))
       \/ Becomes(View, [Fresh(session) EXCEPT !.hostOnline = FALSE, !.status = "Host failed"])
    /\ settled' = {}

\* joinSession, from the panel or from a link opened in the middle of another
\* session; the verdict on the file stays that of the session before.
JoinSession ==
    /\ Happens
    /\ \E conn \in {"Connecting", "Invalid URL"} :
          LET s == [Fresh(session) EXCEPT !.hosting = FALSE, !.active = TRUE,
                       !.hostOnline = FALSE, !.conn = conn,
                       !.joined = conn = "Invalid URL" /\ session.joined]
          IN Becomes(VoiceChecked(View, s), WithStatus(VoiceStopped(s)))
    /\ settled' = {}

\* disconnectSession: the call ends before the counts are cleared.
DisconnectSession ==
    /\ Happens /\ session.active
    /\ LET s == [session EXCEPT !.conn = "Disconnected", !.joined = FALSE, !.voice = "Idle"]
           gone == [Fresh(s) EXCEPT !.hosting = FALSE, !.active = FALSE, !.hostOnline = FALSE,
                       !.remoteFile = NoFile, !.verdict = "Waiting for peer file info"]
       IN Becomes(DispatchStatus(View, s), WithStatus(gone))
    /\ settled' = {}

\* onConnectionStateChanged.  The join is sent after the callback for
\* "Connected", so the status shown then is that of a client not joined yet.
OnConnectionStateChanged(conn) ==
    /\ Happens /\ session.active /\ session.conn # conn
    /\ conn = "Connected" => session.conn = "Connecting"
    /\ conn = "Reconnecting" => session.conn = "Connected"
    /\ conn = "Connecting" => session.conn = "Reconnecting"
    /\ LET s == [session EXCEPT !.conn = conn, !.joined = FALSE]
           now == WithStatus(VoiceStopped(s))
       IN /\ session' = [now EXCEPT !.joined = conn = "Connected"]
          /\ Shows(DispatchStatus(VoiceChecked(View, s), now))
    /\ settled' = settled \ {"peers"}

\* A slip to check against: the status is left as it was.
OnRelayPeerUpdateQuietly(hostOnline, guests) ==
    /\ Happens /\ session.joined /\ session.conn = "Connected"
    /\ hostOnline \/ ~session.hosting
    /\ guests > 0 \/ session.hosting
    /\ LET s == [session EXCEPT !.hostOnline = hostOnline, !.guests = guests]
       IN Becomes(VoiceChecked(View, s), VoiceStopped(s))
    /\ settled' = settled \cup {"peers"}

\* onRelayPeerUpdate: the chip of who came or went, then the call, then the status.
OnRelayPeerUpdate(hostOnline, guests) ==
    /\ Happens /\ session.joined /\ session.conn = "Connected"
    /\ hostOnline \/ ~session.hosting
    /\ guests > 0 \/ session.hosting
    /\ LET s == [session EXCEPT !.hostOnline = hostOnline, !.guests = guests]
           who == IF session.hosting
                  THEN IF guests > session.guests THEN "Guest joined"
                       ELSE IF guests < session.guests THEN "Guest left" ELSE NoText
                  ELSE IF hostOnline /\ ~session.hostOnline THEN "Host joined"
                       ELSE IF ~hostOnline /\ session.hostOnline THEN "Host left" ELSE NoText
       IN Becomes(VoiceChecked(DispatchAction(View, who), s), WithStatus(VoiceStopped(s)))
    /\ settled' = settled \cup {"peers"}

OnRelayFileReceived(f) ==
    /\ Happens /\ session.joined /\ session.conn = "Connected"
    /\ IF session.hosting THEN UNCHANGED <<session, chat, previous, settled>>
       ELSE /\ Becomes(View, Verified([session EXCEPT !.remoteFile = f]))
            /\ settled' = settled \cup {"file"}

SetLocalFileInfo(f) ==
    /\ Happens
    /\ Becomes(View, Verified([session EXCEPT !.localFile = f]))
    /\ settled' = settled \cup {"file"}

\* The device of a call: start() succeeds or fails, stop().
OnVoiceStateChanged(voice) ==
    /\ Happens /\ session.voice # voice
    /\ voice \in {"Connected", "Failed"} => VoiceAvailable(session)
    /\ Becomes(View, [session EXCEPT !.voice = voice])
    /\ UNCHANGED settled

----------------------------------------------------------------------------
(* The chat panel and the transfers.                                       *)

Says(status) == [text |-> "text", id |-> 0, status |-> status]

\* A message is sent only by who is connected and joined, and listed anyway.
SendChatMessage ==
    /\ Happens
    /\ chat' = Trimmed(Append(chat, Says(IF session.conn = "Connected" /\ session.joined
                                         THEN "Sent" ELSE "Failed")))
    /\ UNCHANGED <<session, previous, settled>>

\* Sharing a file lists it, under its transfer if that could be started.
ShareFile ==
    /\ events < MaxEvents /\ events' = events + 1 /\ Len(reported) < MaxShares
    /\ IF session.conn = "Connected" /\ session.joined
       THEN /\ reported' = Append(reported, "Sending")
            /\ chat' = Trimmed(Append(chat,
                 [text |-> "file", id |-> Len(reported'), status |-> "Sending"]))
       ELSE /\ chat' = Trimmed(Append(chat, [text |-> "file", id |-> 0, status |-> "Failed"]))
            /\ UNCHANGED reported
    /\ UNCHANGED <<session, previous, settled>>

\* A slip to check against: the line keeps the transfer that failed.
RetriedAsBefore(line, id) == [line EXCEPT !.status = "Sending"]

Retried(line, id) == [line EXCEPT !.status = "Sending", !.id = id]

\* Retry: the line goes on under the new transfer.
RetryShare(i) ==
    /\ events < MaxEvents /\ events' = events + 1 /\ Len(reported) < MaxShares
    /\ i \in DOMAIN chat /\ chat[i].text = "file" /\ chat[i].status = "Failed"
    /\ session.conn = "Connected" /\ session.joined
    /\ reported' = Append(reported, "Sending")
    /\ chat' = [chat EXCEPT ![i] = Retried(@, Len(reported'))]
    /\ UNCHANGED <<session, previous, settled>>

\* The share progress callback: the line of the transfer, or a new one.
ShareProgress(id, status) ==
    LET lines == {i \in DOMAIN chat : chat[i].id = id}
    IN IF lines = {}
       THEN Trimmed(Append(chat, [text |-> "file", id |-> id, status |-> status]))
       ELSE [chat EXCEPT ![CHOOSE i \in lines : \A j \in lines : i <= j].status = status]

OnShareProgress(id, status) ==
    /\ events < MaxEvents /\ events' = events + 1
    /\ \/ id \in DOMAIN reported /\ reported[id] \in {"Sending", "Receiving"}
          /\ status \in {reported[id], "Failed", "Done"}
          /\ reported' = [reported EXCEPT ![id] = status]
       \/ /\ id = Len(reported) + 1 /\ id <= MaxShares
          /\ session.joined /\ status = "Receiving"
          /\ reported' = Append(reported, status)
    /\ chat' = ShareProgress(id, status)
    /\ UNCHANGED <<session, previous, settled>>

TimelineNext ==
    \/ StartHostSession \/ JoinSession \/ DisconnectSession
    \/ \E conn \in {"Connecting", "Connected", "Reconnecting"} :
          OnConnectionStateChanged(conn)
    \/ \E hostOnline \in BOOLEAN, guests \in 0 .. 2 : OnRelayPeerUpdate(hostOnline, guests)
    \/ \E f \in Files : OnRelayFileReceived(f) \/ SetLocalFileInfo(f)
    \/ \E voice \in {"Idle", "Connected", "Failed"} : OnVoiceStateChanged(voice)
    \/ SendChatMessage \/ ShareFile
    \/ \E i \in 1 .. MaxLines : RetryShare(i)
    \/ \E id \in 1 .. MaxShares, status \in {"Sending", "Receiving", "Failed", "Done"} :
          OnShareProgress(id, status)

----------------------------------------------------------------------------
(* Properties.                                                             *)

TimelineTypeOK ==
    /\ Len(chat) <= MaxLines
    /\ session.guests \in 0 .. 2
    /\ session.voice \in {"Idle", "Connected", "Failed"}
    /\ \A i \in DOMAIN chat : chat[i].id \in 0 .. Len(reported)

\* The status line and the verdict on the file are those of the session as it
\* is, although they are pushed by whoever remembers to: except that "Joining"
\* stays until the first peer_update, a host that failed to start says so, and
\* a new role keeps the verdict of the old one until a file is announced.
ShownIsCurrent ==
    /\ IF session.joined /\ session.conn = "Connected" /\ "peers" \notin settled
       THEN session.status = "Joining"
       ELSE session.status \in {StatusText(session), "Host failed"}
    /\ "file" \in settled => session.verdict = FileVerdict(session)

TransportChips == {"Connected", "Disconnected"}
FileChips == {"Files verified", "File mismatch", "Host file ready"}
VoiceChips == {"Voice started", "Voice failed", "Voice ended"}

\* The last of these lines that is still listed says so.
Tells(lines, texts, said) ==
    \A i \in DOMAIN lines :
        lines[i].text \in texts /\ (\A j \in DOMAIN lines : j > i => lines[j].text \notin texts)
        => lines[i].text = said

\* Whoever reads the timeline is told the truth by its last chip of each kind:
\* no path through a break, a peer that leaves, a takeover of the session or a
\* device that fails changes the transport, the file or the voice silently.
LastChipIsTrue ==
    /\ Tells(chat, TransportChips,
             IF TransportConnected(session) THEN "Connected" ELSE "Disconnected")
    /\ session.verdict = "Files match" => Tells(chat, FileChips, "Files verified")
    /\ Tells(chat, VoiceChips, VoiceLabel("Unknown", session.voice))

\* Together: the status line and the timeline, built from callbacks that each push
\* a part, tell the same as the session.
TimelineIsTrue == TimelineTypeOK /\ ShownIsCurrent /\ LastChipIsTrue

\* A transfer has one line in the chat, which shows how it stands: progress
\* finds the line of a retried transfer, and a line that was trimmed away comes
\* back as one line.
TransferHasOneLine ==
    /\ \A i, j \in DOMAIN chat : chat[i].id = chat[j].id /\ chat[i].id # 0 => i = j
    /\ \A i \in DOMAIN chat : chat[i].id # 0 => chat[i].status = reported[chat[i].id]
=============================================================================
