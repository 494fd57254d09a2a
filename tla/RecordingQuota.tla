--------------------------- MODULE RecordingQuota ---------------------------
(***************************************************************************)
(* What a recording run promises its user, without sessions, producers or  *)
(* crashes: a grant (arm) to record a room, which in "once" mode is spent  *)
(* by the first broadcast that leaves playable media, and which only the   *)
(* user renews.  RecordingLedger implements it.                            *)
(***************************************************************************)
EXTENDS Naturals

CONSTANT Room

VARIABLES
  mode,   \* "once" or "continuous", whatever the configuration says now
  phase,  \* the state of the run
  arm,    \* how often the user has armed the room
  kept    \* the current broadcast has left playable media

quotaVars == <<mode, phase, arm, kept>>

Busy == {"recording", "finalizing"}

Init ==
  /\ mode = [r \in Room |-> "continuous"]
  /\ phase = [r \in Room |-> "absent"]
  /\ arm = [r \in Room |-> 0]
  /\ kept = [r \in Room |-> FALSE]

\* The room becomes known, armed once.
Arm(r, m) ==
  /\ phase[r] = "absent"
  /\ phase' = [phase EXCEPT ![r] = "waiting"]
  /\ mode' = [mode EXCEPT ![r] = m]
  /\ arm' = [arm EXCEPT ![r] = 1]
  /\ UNCHANGED kept

\* A change of mode grants nothing by itself.
SetMode(r, m) ==
  /\ phase[r] # "absent"
  /\ mode' = [mode EXCEPT ![r] = m]
  /\ UNCHANGED <<phase, arm, kept>>

\* A broadcast starts; only a waiting run may record it.
Begin(r) ==
  /\ phase[r] = "waiting"
  /\ phase' = [phase EXCEPT ![r] = "recording"]
  /\ kept' = [kept EXCEPT ![r] = FALSE]
  /\ UNCHANGED <<mode, arm>>

\* Playable media is found while the broadcast is captured, or after a stop.
Keep(r) ==
  /\ phase[r] \in Busy \cup {"stopped"}
  /\ kept' = [kept EXCEPT ![r] = TRUE]
  /\ UNCHANGED <<mode, phase, arm>>

\* The broadcast is over, its recorders are not.
Finalize(r) ==
  /\ phase[r] = "recording"
  /\ phase' = [phase EXCEPT ![r] = "finalizing"]
  /\ UNCHANGED <<mode, arm, kept>>

\* The broadcast is judged: playable media spends a once grant.
Settle(r) ==
  /\ phase[r] \in Busy
  /\ \/ mode[r] = "continuous" /\ phase' = [phase EXCEPT ![r] = "waiting"]
     \/ mode[r] = "once" /\ kept[r] /\ phase' = [phase EXCEPT ![r] = "completed"]
     \/ /\ mode[r] = "once" /\ ~kept[r]
        /\ \E after \in {"waiting", "paused"} : phase' = [phase EXCEPT ![r] = after]
  /\ UNCHANGED <<mode, arm, kept>>

\* The verdict was lost: a once grant waits for the user, never for a broadcast.
Lose(r, m) ==
  /\ phase[r] \in Busy
  /\ mode' = [mode EXCEPT ![r] = m]
  /\ phase' = [phase EXCEPT ![r] = IF m = "once" THEN "paused" ELSE "waiting"]
  /\ UNCHANGED <<arm, kept>>

Stop(r) ==
  /\ phase[r] # "absent"
  /\ phase' = [phase EXCEPT ![r] = "stopped"]
  /\ UNCHANGED <<mode, arm, kept>>

\* Only the user arms a room again, and never under a running capture.
Rearm(r) ==
  /\ phase[r] \notin {"absent"} \cup Busy
  /\ phase' = [phase EXCEPT ![r] = "waiting"]
  /\ arm' = [arm EXCEPT ![r] = @ + 1]
  /\ kept' = [kept EXCEPT ![r] = FALSE]
  /\ UNCHANGED mode

Next ==
  \E r \in Room :
    \/ \E m \in {"once", "continuous"} : Arm(r, m) \/ SetMode(r, m) \/ Lose(r, m)
    \/ Begin(r) \/ Keep(r) \/ Finalize(r) \/ Settle(r) \/ Stop(r) \/ Rearm(r)

Spec == Init /\ [][Next]_quotaVars

=============================================================================
