----------------------------- MODULE MCThreads -----------------------------
(* Instances of the modules whose threads or processes share little with    *)
(* the rest: in every behaviour one part runs and the others stay as they   *)
(* were created.                                                            *)
EXTENDS RelayVoice, RenderLoop, BackgroundJobs, VoiceCall, TLC

CONSTANTS p0, a, b, h1, a1, a2, b1      \* instances and their connections

VARIABLE part    \* the part that runs

MCSocketsOf == (p0 :> {h1}) @@ (a :> {a1, a2}) @@ (b :> {b1})

Init ==
    /\ part \in {"voice", "render", "jobs", "call"}
    /\ VoiceInit /\ JobsInit /\ VoiceCallInit
    /\ IF part = "render" THEN RenderInit
       ELSE /\ NothingDrawn /\ window = CHOOSE s \in Sizes : TRUE
            /\ thread = "done" /\ loop = "exited" /\ ctx = "freed" /\ closing = TRUE

Next ==
    /\ UNCHANGED part
    /\ \/ part = "voice" /\ VoiceNext /\ UNCHANGED <<renderVars, jobVars, voiceCallVars>>
       \/ part = "render" /\ RenderNext /\ UNCHANGED <<voiceVars, jobVars, voiceCallVars>>
       \/ part = "jobs" /\ JobsNext /\ UNCHANGED <<voiceVars, renderVars, voiceCallVars>>
       \/ part = "call" /\ VoiceCallNext /\ UNCHANGED <<voiceVars, renderVars, jobVars>>

vars == <<part, voiceVars, renderVars, jobVars, voiceCallVars>>

\* A part that does not run has nothing to be fair about.
Spec == Init /\ [][Next]_vars /\ VoiceFairness /\ RenderFairness /\ JobsFairness
=============================================================================
