--------------------------- MODULE MCSessionMedia ---------------------------
(***************************************************************************)
(* Small instances of SessionMedia: one task of two files and one of one.  *)
(***************************************************************************)
EXTENDS SessionMedia, TLC

CONSTANTS t1, t2, i1, i2, i3

TwoTasks == t1 :> <<i1, i2>> @@ t2 :> <<i3>>

=============================================================================
