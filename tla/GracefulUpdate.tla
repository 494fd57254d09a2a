--------------------------- MODULE GracefulUpdate ---------------------------
(***************************************************************************)
(* The update that waits for the last recording: the handlers of           *)
(* servers/update_handler.go beside the recorder manager.  Each time a     *)
(* recording ends the manager starts a goroutine that checks whether an    *)
(* update is waiting and whether anything still records; the check reads   *)
(* the flag, the count and the update's state one after the other, each    *)
(* under a lock of its own, and applyUpdate reads them in another order.   *)
(* Goroutines that run the same code are counted per stage.                *)
(***************************************************************************)
EXTENDS RecorderManager

CONSTANT MaxRequests  \* bound: POST /api/update/apply with graceful_wait

ASSUME RequestsAreCounted == MaxRequests \in Nat

VARIABLES
  pending,   \* gracefulUpdatePending
  state,     \* the state of pkg/update's Manager: "ready", "applying" or "other"
  at,        \* how many goroutines are at each stage
  requests,  \* apply requests so far
  late,      \* history: pending was set when nothing was recording any more
  unready    \* history: a check found nothing recording, and no update ready

updateVars == <<pending, state, at, requests, late, unready>>
allVars == <<vars, updateVars>>

(* CheckGracefulUpdate: "check", "count", "state".  applyUpdate: "asked",  *)
(* "promise".  doApplyUpdate: "clear", "verify", "mark", "install".        *)
Stage == {"check", "count", "state", "asked", "promise",
          "clear", "verify", "mark", "install"}

InitUpdate ==
  /\ Init
  /\ pending = FALSE
  /\ state = "ready"
  /\ at = [s \in Stage |-> 0]
  /\ requests = 0
  /\ late = FALSE /\ unready = FALSE

\* One of the goroutines at a stage goes on to another, or ends.
Move(s, to) ==
  /\ at[s] > 0
  /\ at' = [at EXCEPT ![s] = @ - 1, ![to] = @ + 1]

Leave(s) ==
  /\ at[s] > 0
  /\ at' = [at EXCEPT ![s] = @ - 1]

-----------------------------------------------------------------------------
(* The recorder manager, and what it calls when a recording ends.          *)

\* Mutant: a restart does not check again when the old recorder is closed.
RemovalChecks ==
  \E c \in Room \cup Cron \cup {Main} :
    /\ pc[c] = "removing" /\ pc'[c] # "removing"

\* Both a removal and the end of a restart start a check, after they have counted down.
StartsCheck ==
  \E c \in Room \cup Cron \cup {Main} :
    pc[c] \in {"removing", "handed"} /\ pc'[c] # pc[c]

ManagerStep ==
  \/ /\ RecordingEnds
     /\ at' = IF StartsCheck THEN [at EXCEPT !["check"] = @ + 1] ELSE at
     /\ UNCHANGED <<pending, state, requests, late, unready>>
  \/ OtherSteps /\ UNCHANGED updateVars

-----------------------------------------------------------------------------
(* CheckGracefulUpdate.                                                    *)

ReadPending ==
  /\ IF pending THEN Move("check", "count") ELSE Leave("check")
  /\ UNCHANGED <<vars, pending, state, requests, late, unready>>

ReadCount ==
  /\ IF ActiveRecordings > 0 THEN Leave("count") ELSE Move("count", "state")
  /\ UNCHANGED <<vars, pending, state, requests, late, unready>>

ReadState ==
  /\ IF state = "ready"
       THEN Move("state", "clear") /\ UNCHANGED unready
       ELSE Leave("state") /\ unready' = TRUE
  /\ UNCHANGED <<vars, pending, state, requests, late>>

-----------------------------------------------------------------------------
(* The HTTP handlers.                                                      *)

\* applyUpdate: the update must be ready.
Ask ==
  /\ requests < MaxRequests
  /\ state = "ready"
  /\ at' = [at EXCEPT !["asked"] = @ + 1]
  /\ requests' = requests + 1
  /\ UNCHANGED <<vars, pending, state, late, unready>>

(* With graceful_wait the handler goes on to set the flag when something   *)
(* records; without it, it refuses or (force_now) applies at once.         *)
AskCounts ==
  /\ \/ ActiveRecordings > 0 /\ (Move("asked", "promise") \/ Leave("asked"))
     \/ Move("asked", "clear")
  /\ UNCHANGED <<vars, pending, state, requests, late, unready>>

\* Set the flag, and answer that the update follows when all recordings have ended.
Promise ==
  /\ Leave("promise")
  /\ pending' = TRUE
  /\ late' = (ActiveRecordings = 0)
  /\ unready' = FALSE
  /\ UNCHANGED <<vars, state, requests>>

CancelUpdate ==
  /\ pending
  /\ pending' = FALSE
  /\ UNCHANGED <<vars, state, at, requests, late, unready>>

-----------------------------------------------------------------------------
(* doApplyUpdate, and the update manager.                                  *)

\* doApplyUpdate takes the flag back first.
ClearPending ==
  /\ Move("clear", "verify")
  /\ pending' = FALSE
  /\ UNCHANGED <<vars, state, requests, late, unready>>

(* ApplyUpdateSelfHosted reads the state under one lock and sets it under  *)
(* another.  Where it finds no information, path or data directory in a    *)
(* ready state it returns at once; that has the outcome of an Install that *)
(* fails and leaves the update ready.                                      *)
Verify ==
  /\ IF state = "ready" THEN Move("verify", "mark") ELSE Leave("verify")
  /\ UNCHANGED <<vars, pending, state, requests, late, unready>>

MarkApplying ==
  /\ Move("mark", "install")
  /\ state' = "applying"
  /\ UNCHANGED <<vars, pending, requests, late, unready>>

\* The installation fails, or it is ready for the restart (CloseManager).
Install ==
  /\ Leave("install")
  /\ state' \in {"other", "ready"}
  /\ UNCHANGED <<vars, pending, requests, late, unready>>

\* CheckForUpdate and DownloadUpdate set the state whatever it was.
StateMoves ==
  /\ state' \in {"ready", "other"} \ {state}
  /\ UNCHANGED <<vars, pending, at, requests, late, unready>>

-----------------------------------------------------------------------------

CheckStep == ReadPending \/ ReadCount \/ ReadState
ApplyStep == ClearPending \/ Verify \/ MarkApplying \/ Install

NextUpdate ==
  \/ ManagerStep
  \/ CheckStep
  \/ Ask \/ AskCounts \/ Promise \/ CancelUpdate
  \/ ApplyStep
  \/ StateMoves

SpecUpdate == InitUpdate /\ [][NextUpdate]_allVars

\* The goroutines of this module run on.
FairUpdate ==
  /\ SpecUpdate
  /\ WF_allVars(CheckStep) /\ WF_allVars(ApplyStep)
  /\ WF_allVars(AskCounts) /\ WF_allVars(Promise)

PendingTypeOK ==
  /\ pending \in BOOLEAN
  /\ state \in {"ready", "applying", "other"}
  /\ at \in [Stage -> Nat]
  /\ requests \in 0..MaxRequests
  /\ late \in BOOLEAN /\ unready \in BOOLEAN

(* The state of the recorder manager and of the update have their types:   *)
(* no recording is taken off the count twice, and no goroutine leaves a    *)
(* stage where there is none.                                              *)
UpdateTypeOK == TypeOK /\ PendingTypeOK

(* The last recording to end is noticed: a waiting update that nobody is   *)
(* going to look at again still has a recording to wait for, also when a   *)
(* split and a removal overlap.  The two ways to wait for ever that remain *)
(* are a flag that was set too late and an update that was not ready.      *)
EndIsNoticed ==
  (pending /\ ActiveRecordings = 0 /\ \A s \in {"check", "count", "state", "clear"} : at[s] = 0)
    => late \/ unready

(* What applyUpdate answers: the update is applied once all recordings     *)
(* have ended (here: an update that no check has found unready).           *)
PromiseIsKept ==
  (pending /\ state = "ready") ~>
    (~pending \/ state # "ready" \/ unready \/ ActiveRecordings > 0)

=============================================================================
