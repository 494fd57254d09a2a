------------------------ MODULE MCRecorderManager ------------------------
(* Model-checking instances of RecorderManager: recorders, segments and    *)
(* cronRestart chains are interchangeable.                                 *)
EXTENDS RecorderManager, TLC

Symmetry == Permutations(Recorder) \cup Permutations(Segment) \cup Permutations(Cron)
=============================================================================
