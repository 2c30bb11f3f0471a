----------------------------- MODULE RelayVoice -----------------------------
(***************************************************************************)
(* The audio end of a voice call (network/relay_voice.cpp): the UI thread  *)
(* starts, stops, mutes, sends and receives; the real-time thread of the   *)
(* sound device runs audioCallback, which takes the two queue mutexes but  *)
(* reads m_active and m_inputMuted without them.  A step is what one       *)
(* thread does between two points the other can notice.                    *)
(*                                                                         *)
(* A frame is a sequence of units of sound, each the number of the frame   *)
(* and its place in it; a buffer of the sound device holds Period units.   *)
(* Gain, threshold and level meter only say how loud a frame is.           *)
(***************************************************************************)
EXTENDS Integers, Sequences, SequencesExt

CONSTANTS QueueCap,     \* 64: the size both queues are compared with
          Period,       \* units one buffer of the sound device holds
          FrameSizes,   \* units a frame of the other end may hold
          MaxFrames,    \* bound: frames that arrive in one call
          MaxCaptured,  \* bound: frames captured in one call
          MaxCalls      \* bound: starts of the device

ASSUME VoiceAssumption ==
    /\ QueueCap \in Nat \ {0} /\ Period \in Nat \ {0}
    /\ FrameSizes \subseteq Nat \ {0}
    /\ MaxFrames \in Nat /\ MaxCaptured \in Nat /\ MaxCalls \in Nat

VARIABLES
    ui,          \* what the UI thread is in the middle of
    audio,       \* what the audio thread is doing; "off" without a device
    active,      \* m_active
    inputMuted,  \* m_inputMuted
    state,       \* m_connectionState
    incoming,    \* m_incoming, each chunk the units not played yet
    outgoing,    \* m_outgoing: the call each frame was captured in
    \* bookkeeping
    calls,       \* times the device was started
    arrived,     \* frames taken by pushIncomingFrame in this call
    accepted,    \* their units, in order
    played,      \* units played in this call, in order
    captured,    \* frames captured in this call
    leaked       \* frames sent since the microphone was muted

voice == <<ui, audio, active, inputMuted, state, incoming, outgoing>>
history == <<calls, arrived, accepted, played, captured, leaked>>
voiceVars == <<voice, history>>

VoiceInit ==
    /\ ui = "idle" /\ audio = "off"
    /\ active = FALSE /\ inputMuted = TRUE /\ state = "Idle"
    /\ incoming = <<>> /\ outgoing = <<>>
    /\ calls = 0 /\ arrived = 0 /\ accepted = <<>> /\ played = <<>>
    /\ captured = 0 /\ leaked = 0

----------------------------------------------------------------------------
(* The UI thread.                                                          *)

\* start(): ma_device_init and ma_device_start, either of which may fail.
StartDevice ==
    /\ ui = "idle" /\ audio = "off" /\ calls < MaxCalls
    /\ \/ /\ ui' = "opened" /\ audio' = "idle" /\ calls' = calls + 1
          /\ UNCHANGED state
       \/ /\ state' = "Failed"
          /\ UNCHANGED <<ui, audio, calls>>
    /\ UNCHANGED <<active, inputMuted, incoming, outgoing, arrived, accepted, played,
                   captured, leaked>>

\* start(), while callbacks already run: each queue is emptied under its mutex.
StartClears ==
    /\ ui = "opened"
    /\ ui' = "cleared"
    /\ incoming' = <<>> /\ outgoing' = <<>>
    /\ arrived' = 0 /\ accepted' = <<>> /\ played' = <<>> /\ captured' = 0
    /\ UNCHANGED <<audio, active, inputMuted, state, calls, leaked>>

StartActivates ==
    /\ ui = "cleared"
    /\ ui' = "idle"
    /\ active' = TRUE /\ state' = "Connected"
    /\ UNCHANGED <<audio, inputMuted, incoming, outgoing, history>>

\* stop(), also the first half of setCaptureDeviceIndex and what the destructor
\* does: ma_device_uninit asks the audio thread to end.
StopDevice ==
    /\ ui = "idle" /\ audio # "off"
    /\ ui' = "stopping"
    /\ UNCHANGED <<audio, active, inputMuted, state, incoming, outgoing, history>>

\* A slip to check against: the queues are emptied while the device still runs.
DeviceUninitLate ==
    /\ ui = "stopping"
    /\ ui' = "closed" /\ audio' = IF audio = "idle" THEN "off" ELSE audio
    /\ UNCHANGED <<active, inputMuted, state, incoming, outgoing, history>>

\* ma_device_uninit returns once no callback is running.
DeviceUninit ==
    /\ ui = "stopping" /\ audio = "idle"
    /\ ui' = "closed" /\ audio' = "off"
    /\ UNCHANGED <<active, inputMuted, state, incoming, outgoing, history>>

StopClears ==
    /\ ui = "closed"
    /\ ui' = "idle"
    /\ incoming' = <<>> /\ outgoing' = <<>>
    /\ active' = FALSE /\ state' = "Idle"
    /\ accepted' = <<>> /\ played' = <<>> /\ arrived' = 0 /\ captured' = 0
    /\ UNCHANGED <<audio, inputMuted, calls, leaked>>

\* setInputMuted: the flag first, then the frames captured but not yet sent.
SetInputMuted(muted) ==
    /\ ui = "idle"
    /\ inputMuted # muted
    /\ inputMuted' = muted
    /\ leaked' = 0
    /\ ui' = IF muted THEN "muting" ELSE "idle"
    /\ UNCHANGED <<audio, active, state, incoming, outgoing, calls, arrived, accepted,
                   played, captured>>

MutingClears ==
    /\ ui = "muting"
    /\ ui' = "idle"
    /\ outgoing' = <<>>
    /\ UNCHANGED <<audio, active, inputMuted, state, incoming, history>>

\* tick(), every m_sendInterval: the queue is swapped out and sent.
Tick ==
    /\ ui = "idle" /\ active /\ outgoing # <<>>
    /\ outgoing' = <<>>
    /\ leaked' = IF inputMuted THEN leaked + Len(outgoing) ELSE leaked
    /\ UNCHANGED <<ui, audio, active, inputMuted, state, incoming, calls, arrived,
                   accepted, played, captured>>

Units(n, size) == [i \in 1 .. size |-> <<n, i>>]

\* pushIncomingFrame: refused when more than QueueCap are waiting.
PushIncomingFrame(size) ==
    /\ ui = "idle" /\ active /\ arrived < MaxFrames
    /\ Len(incoming) <= QueueCap
    /\ arrived' = arrived + 1
    /\ incoming' = Append(incoming, Units(arrived + 1, size))
    /\ accepted' = accepted \o Units(arrived + 1, size)
    /\ UNCHANGED <<ui, audio, active, inputMuted, state, outgoing, calls, played,
                   captured, leaked>>

----------------------------------------------------------------------------
(* The audio thread.                                                       *)

\* The unguarded test of m_active and m_inputMuted, and the threshold.  The
\* device starts no callback once it has been told to stop.
Capture ==
    /\ audio = "idle" /\ ui # "stopping" /\ captured < MaxCaptured
    /\ \E loud \in BOOLEAN :
          audio' = IF active /\ ~inputMuted /\ loud THEN "keeping" ELSE "playing"
    /\ UNCHANGED <<ui, active, inputMuted, state, incoming, outgoing, history>>

\* A slip to check against: stop() holds m_outgoingMutex while it waits.
KeepLockedOut ==
    /\ audio = "keeping" /\ ui # "stopping"
    /\ audio' = "playing"
    /\ captured' = captured + 1
    /\ outgoing' = IF Len(outgoing) < QueueCap THEN Append(outgoing, calls) ELSE outgoing
    /\ UNCHANGED <<ui, active, inputMuted, state, incoming, calls, arrived, accepted,
                   played, leaked>>

\* Under m_outgoingMutex: dropped when QueueCap frames wait.
Keep ==
    /\ audio = "keeping"
    /\ audio' = "playing"
    /\ captured' = captured + 1
    /\ outgoing' = IF Len(outgoing) < QueueCap THEN Append(outgoing, calls) ELSE outgoing
    /\ UNCHANGED <<ui, active, inputMuted, state, incoming, calls, arrived, accepted,
                   played, leaked>>

\* What is left of the chunks once n units are taken from the front: the first
\* chunk that is not used up loses its beginning.
Rest(chunks, n) ==
    LET upTo(k) == Len(FlattenSeq(SubSeq(chunks, 1, k)))
        front   == CHOOSE k \in 1 .. Len(chunks) : upTo(k - 1) <= n /\ n < upTo(k)
    IN  IF n = Len(FlattenSeq(chunks)) THEN <<>>
        ELSE <<SubSeq(chunks[front], n - upTo(front - 1) + 1, Len(chunks[front]))>>
                \o SubSeq(chunks, front + 1, Len(chunks))

\* Under m_incomingMutex: as much of the queue as the buffer holds, silence after.
Play ==
    LET waiting == FlattenSeq(incoming)
        n       == IF Len(waiting) < Period THEN Len(waiting) ELSE Period
    IN  /\ audio = "playing"
        /\ audio' = "idle"
        /\ played' = played \o SubSeq(waiting, 1, n)
        /\ incoming' = Rest(incoming, n)
        /\ UNCHANGED <<ui, active, inputMuted, state, outgoing, calls, arrived, accepted,
                       captured, leaked>>

VoiceNext ==
    \/ StartDevice \/ StartClears \/ StartActivates
    \/ StopDevice \/ DeviceUninit \/ StopClears
    \/ \E muted \in BOOLEAN : SetInputMuted(muted)
    \/ MutingClears \/ Tick
    \/ \E size \in FrameSizes : PushIncomingFrame(size)
    \/ Capture \/ Keep \/ Play

\* A thread goes on with what it is in the middle of.
VoiceFairness ==
    /\ WF_voiceVars(StartClears) /\ WF_voiceVars(StartActivates)
    /\ WF_voiceVars(DeviceUninit) /\ WF_voiceVars(StopClears) /\ WF_voiceVars(MutingClears)
    /\ WF_voiceVars(Keep) /\ WF_voiceVars(Play)

----------------------------------------------------------------------------
(* Properties.                                                             *)

\* docs/05-signaling-protocol.md:94: "No jitter buffer beyond a 64-frame hard cap in
\* both directions (overflow silently drops frames)".  pushIncomingFrame drops only
\* when more than QueueCap wait, and so lets one more of them in.
IncomingIsCapped == Len(incoming) <= QueueCap

\* The queues are bounded all the same, by what the code compares them with.
VoiceTypeOK ==
    /\ ui \in {"idle", "opened", "cleared", "stopping", "closed", "muting"}
    /\ audio \in {"off", "idle", "keeping", "playing"}
    /\ active \in BOOLEAN /\ inputMuted \in BOOLEAN
    /\ state \in {"Idle", "Connected", "Failed"}
    /\ Len(incoming) <= QueueCap + 1 /\ Len(outgoing) <= QueueCap

\* Between calls nothing is kept: a frame of one call is neither sent nor played
\* in a later one, however the last callback of the device was timed.
NothingOutlivesTheCall ==
    /\ ui = "idle" /\ ~active => incoming = <<>> /\ outgoing = <<>>
    /\ \A i \in 1 .. Len(outgoing) : outgoing[i] = calls

\* Muting the microphone lets at most the one frame through that a callback had
\* already decided to keep.
MuteLetsOneFrameThrough ==
    inputMuted /\ ui = "idle" =>
       leaked + Len(outgoing) + (IF audio = "keeping" THEN 1 ELSE 0) <= 1

\* What is heard is what arrived: in order, without gaps, nothing twice.
PlayedInOrder == accepted = played \o FlattenSeq(incoming)

\* Together: the queues belong to the call that goes on and hold what they should,
\* wherever the UI thread starts, mutes and stops it between two steps of a callback.
AudioIsOfTheCall ==
    VoiceTypeOK /\ NothingOutlivesTheCall /\ MuteLetsOneFrameThrough /\ PlayedInOrder

\* Ending the call waits for the audio thread, and that wait ends.
StopReturns == (ui = "stopping") ~> (ui = "idle" /\ audio = "off")
=============================================================================
