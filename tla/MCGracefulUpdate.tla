------------------------ MODULE MCGracefulUpdate ------------------------
(* Model-checking instances of GracefulUpdate: recorders and cronRestart   *)
(* chains are interchangeable.                                             *)
EXTENDS GracefulUpdate, TLC

Symmetry == Permutations(Recorder) \cup Permutations(Cron)
=============================================================================
