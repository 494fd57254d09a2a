------------------------ MODULE MCRecordingLedger ------------------------
(* Model-checking instance of RecordingLedger: the sets are given by the   *)
(* .cfg file.                                                              *)
EXTENDS RecordingLedger

CONSTANTS r1, s1, s2, p1, p2, t1, t2

(* Sessions, producers and tasks are interchangeable: the first name of    *)
(* each is used before the second.  A permutation would do the same, but   *)
(* not for a property under fairness.                                      *)
FirstNames ==
  /\ room[s2] # None => room[s1] # None
  /\ home[p2] # None => home[p1] # None
  /\ owner[t2] # None => owner[t1] # None

\* The bound: two tasks only while there is one session under one run id.
SecondTaskOrSession == owner[t2] # None => room[s2] = None /\ runId[r1] <= 1

Bound == FirstNames /\ SecondTaskOrSession
=============================================================================
