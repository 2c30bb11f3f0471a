--------------------------- MODULE MCMediaPlayer ----------------------------
(* An instance that has been given a file on its command line while others  *)
(* forward theirs, as Explorer starts them for a selection of files.        *)
EXTENDS MediaPlayer, TLC

CONSTANTS f1, f2      \* two films

MCDuration == (f1 :> 1) @@ (f2 :> 2)

Spec == MediaInit /\ [][MediaNext]_mediaVars /\ MediaFairness
=============================================================================
