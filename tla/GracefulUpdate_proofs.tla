------------------------ MODULE GracefulUpdate_proofs ------------------------
(***************************************************************************)
(* Proofs about GracefulUpdate, for any number of rooms, recorders, chains *)
(* and requests.  They use what is proved of the recorder manager.         *)
(***************************************************************************)
EXTENDS GracefulUpdate, RecorderManager_proofs

\* The stages of a goroutine that will still look at the flag or clear it.
Looking == {"check", "count", "state", "clear"}

(* A waiting update with nothing left to wait for is being looked at,      *)
(* unless the flag was set too late or a check found the update not ready. *)
Noticed ==
  pending /\ ActiveRecordings = 0 =>
    late \/ unready \/ \E s \in Looking : at[s] > 0

UpdateInv == MemoryInv /\ PendingTypeOK /\ Noticed

-----------------------------------------------------------------------------
(* Goroutines at their stages.                                             *)

LEMMA MoveFacts ==
  ASSUME at \in [Stage -> Nat], NEW s \in Stage, NEW t \in Stage, s # t, Move(s, t)
  PROVE  /\ at' \in [Stage -> Nat]
         /\ at'[t] > 0
         /\ \A u \in Stage \ {s} : at'[u] >= at[u]
<1>1. at[s] \in Nat /\ at[s] > 0 /\ at[t] \in Nat
  BY DEF Move
<1>2. /\ at'[s] = at[s] - 1 /\ at'[t] = at[t] + 1
      /\ \A u \in Stage \ {s, t} : at'[u] = at[u]
  BY DEF Move
<1>3. at' \in [Stage -> Nat]
  BY <1>1 DEF Move
<1> QED  BY <1>1, <1>2, <1>3

LEMMA LeaveFacts ==
  ASSUME at \in [Stage -> Nat], NEW s \in Stage, Leave(s)
  PROVE  /\ at' \in [Stage -> Nat]
         /\ \A u \in Stage \ {s} : at'[u] = at[u]
<1>1. at[s] \in Nat /\ at[s] > 0
  BY DEF Leave
<1> QED  BY <1>1 DEF Leave

-----------------------------------------------------------------------------
(* The count of active recordings.                                         *)

\* Only a recording that ends can bring the count down to zero.
LEMMA OthersKeepCounting ==
  ASSUME MemoryInv, MemoryInv', OtherSteps, ActiveRecordings' = 0
  PROVE  ActiveRecordings = 0
<1> DEFINE Busy == {r \in Room : savers[r] # None}
<1>1. Busy \subseteq Busy' /\ (restarting' = restarting \/ restarting' = restarting + 1)
  <2> USE DEF managerVars, recorderVars
  <2>1. CASE \E r \in Room, x \in Recorder : AddRecorder(r, x)
    BY <2>1, NamesDiffer DEF AddRecorder, Accepts
  <2>2. CASE \E c \in Room \cup Cron, r \in Room, x \in Recorder : Replace(c, r, x)
    BY <2>2, NamesDiffer DEF Replace, CountOld, MemoryInv, ManagerTypeOK
  <2>3. CASE \/ \E r \in Room : AddFails(r) \/ NothingToRemove(r)
             \/ \E k \in Cron : CronDue(k) \/ ChainEnds(k)
             \/ CloseManager \/ ManagerClosed
    BY <2>3 DEF AddFails, NothingToRemove, CronDue, ChainEnds, CloseManager, ManagerClosed
  <2>4. CASE \E c \in Room \cup Cron :
               \/ CloseForRestart(c) \/ Collect(c) \/ Compare(c) \/ HandOver(c)
               \/ \E r \in Room : ReplaceFails(c, r)
    BY <2>4 DEF CloseForRestart, Collect, Compare, HandOver, ReplaceFails
  <2>5. CASE \E c \in Room \cup {Main}, r \in Room : RemoveRecorder(c, r) \/ JoinRemoval(c, r)
    BY <2>5 DEF RemoveRecorder, JoinRemoval
  <2>6. CASE \E r \in Room : RemoveReturns(r, FALSE)
    BY <2>6 DEF RemoveReturns
  <2>7. CASE \E x \in Recorder : RecorderStep(x)
    BY <2>7 DEF RecorderStep, Accumulate, RunEnds, RunDies, SendAccumulatedSummary
  <2> QED  BY <2>1, <2>2, <2>3, <2>4, <2>5, <2>6, <2>7 DEF OtherSteps
<1>2. IsFiniteSet(Busy) /\ IsFiniteSet(Busy')
  BY CountsAreFinite, FS_Subset
<1>3. /\ Cardinality(Busy) \in Nat /\ Cardinality(Busy') \in Nat
      /\ Cardinality(Busy) <= Cardinality(Busy')
  BY <1>1, <1>2, FS_Subset, FS_CardinalityType
<1>4. restarting \in Nat
  BY RestartingIsFinite, FS_CardinalityType DEF MemoryInv, CountIsExact
<1>5. /\ ActiveRecordings = Cardinality(Busy) + restarting
      /\ ActiveRecordings' = Cardinality(Busy') + restarting'
  BY DEF ActiveRecordings
<1> HIDE DEF Busy
<1> QED  BY <1>1, <1>3, <1>4, <1>5

\* Every recording that ends starts a check.
LEMMA EndStartsCheck ==
  ASSUME MemoryInv, RecordingEnds
  PROVE  StartsCheck
<1>1. ASSUME NEW c \in Room \cup Cron, RestartReturns(c)
      PROVE  StartsCheck
  <2>1. pc[c] = "handed" /\ pc'[c] = "idle"
    BY <1>1, CallerNames DEF RestartReturns, MemoryInv, CallTypeOK
  <2> QED  BY <2>1 DEF StartsCheck
<1>2. ASSUME NEW c \in Room \cup {Main}, RemoveReturns(c, TRUE)
      PROVE  StartsCheck
  <2>1. c \in Caller /\ c \in Woken(c)
    BY DEF Caller, Woken
  <2>2. pc[c] = "removing" /\ pc'[c] \in {"closing", "idle"}
    BY <1>2, <2>1 DEF RemoveReturns, After
  <2> QED  BY <2>2 DEF StartsCheck
<1> QED  BY <1>1, <1>2 DEF RecordingEnds

-----------------------------------------------------------------------------
(* The invariant.                                                          *)

LEMMA UpdateInit == InitUpdate => UpdateInv
<1> SUFFICES ASSUME InitUpdate
             PROVE  UpdateInv
  OBVIOUS
<1>1. MemoryInv
  BY MemoryInit DEF InitUpdate
<1>2. PendingTypeOK
  <2>1. at \in [Stage -> Nat] /\ requests \in 0..MaxRequests
    BY RequestsAreCounted DEF InitUpdate
  <2>2. pending \in BOOLEAN /\ late \in BOOLEAN /\ unready \in BOOLEAN
    BY DEF InitUpdate
  <2> QED  BY <2>1, <2>2 DEF InitUpdate, PendingTypeOK
<1>3. Noticed
  BY DEF InitUpdate, Noticed
<1> QED  BY <1>1, <1>2, <1>3 DEF UpdateInv

\* The steps of an update leave the recorder manager alone.
LEMMA RestKept ==
  ASSUME MemoryInv, UNCHANGED vars
  PROVE  MemoryInv' /\ ActiveRecordings' = ActiveRecordings
<1>1. MemoryInv'
  BY MemoryStep
<1> QED  BY <1>1 DEF vars, managerVars, ActiveRecordings

LEMMA ManagerStepInv ==
  ASSUME UpdateInv, ManagerStep
  PROVE  UpdateInv'
<1>1. MemoryInv'
  BY MemoryStep DEF ManagerStep, Next, UpdateInv
<1>2. CASE /\ RecordingEnds
           /\ at' = IF StartsCheck THEN [at EXCEPT !["check"] = @ + 1] ELSE at
           /\ UNCHANGED <<pending, state, requests, late, unready>>
  <2>1. at' = [at EXCEPT !["check"] = @ + 1]
    BY <1>2, EndStartsCheck DEF UpdateInv
  <2>2. at' \in [Stage -> Nat] /\ at'["check"] > 0
    BY <2>1 DEF UpdateInv, PendingTypeOK, Stage
  <2>3. UNCHANGED <<pending, state, requests, late, unready>>
    BY <1>2
  <2>4. PendingTypeOK'
    BY <2>2, <2>3 DEF UpdateInv, PendingTypeOK
  <2>5. \E s \in Looking : at'[s] > 0
    BY <2>2 DEF Looking
  <2>6. Noticed'
    BY <2>5 DEF Noticed
  <2> QED  BY <1>1, <2>4, <2>6 DEF UpdateInv
<1>3. CASE OtherSteps /\ UNCHANGED updateVars
  <2>1. ActiveRecordings' = 0 => ActiveRecordings = 0
    BY <1>1, <1>3, OthersKeepCounting DEF UpdateInv
  <2>2. UNCHANGED updateVars
    BY <1>3
  <2>3. PendingTypeOK'
    BY <2>2 DEF UpdateInv, PendingTypeOK, updateVars
  <2>4. Noticed'
    BY <2>1, <2>2 DEF UpdateInv, Noticed, updateVars
  <2> QED  BY <1>1, <2>3, <2>4 DEF UpdateInv
<1> QED  BY <1>2, <1>3 DEF ManagerStep

LEMMA CheckStepInv ==
  ASSUME UpdateInv, CheckStep
  PROVE  UpdateInv'
<1>1. MemoryInv' /\ ActiveRecordings' = ActiveRecordings
  BY RestKept DEF UpdateInv, CheckStep, ReadPending, ReadCount, ReadState
<1>2. at \in [Stage -> Nat] /\ PendingTypeOK /\ Noticed
  BY DEF UpdateInv, PendingTypeOK
<1>3. {"check", "count", "state", "clear"} \subseteq Stage
  BY DEF Stage
<1>4. CASE ReadPending
  <2>1. CASE pending
    <3>1. Move("check", "count") /\ UNCHANGED <<pending, state, requests, late, unready>>
      BY <1>4, <2>1 DEF ReadPending
    <3>2. at' \in [Stage -> Nat] /\ at'["count"] > 0
      BY <1>2, <1>3, <3>1, MoveFacts
    <3> QED  BY <1>1, <1>2, <3>1, <3>2 DEF UpdateInv, PendingTypeOK, Noticed, Looking
  <2>2. CASE ~pending
    <3>1. Leave("check") /\ UNCHANGED <<pending, state, requests, late, unready>>
      BY <1>4, <2>2 DEF ReadPending
    <3>2. at' \in [Stage -> Nat]
      BY <1>2, <1>3, <3>1, LeaveFacts
    <3> QED  BY <1>1, <1>2, <2>2, <3>1, <3>2 DEF UpdateInv, PendingTypeOK, Noticed
  <2> QED  BY <2>1, <2>2
<1>5. CASE ReadCount
  <2>1. CASE ActiveRecordings > 0
    <3>1. Leave("count") /\ UNCHANGED <<pending, state, requests, late, unready>>
      BY <1>5, <2>1 DEF ReadCount
    <3>2. at' \in [Stage -> Nat] /\ ActiveRecordings' # 0
      BY <1>1, <1>2, <1>3, <2>1, <3>1, LeaveFacts
    <3> QED  BY <1>1, <1>2, <3>1, <3>2 DEF UpdateInv, PendingTypeOK, Noticed
  <2>2. CASE ~(ActiveRecordings > 0)
    <3>1. Move("count", "state") /\ UNCHANGED <<pending, state, requests, late, unready>>
      BY <1>5, <2>2 DEF ReadCount
    <3>2. at' \in [Stage -> Nat] /\ at'["state"] > 0
      BY <1>2, <1>3, <3>1, MoveFacts
    <3> QED  BY <1>1, <1>2, <3>1, <3>2 DEF UpdateInv, PendingTypeOK, Noticed, Looking
  <2> QED  BY <2>1, <2>2
<1>6. CASE ReadState
  <2>1. CASE state = "ready"
    <3>1. Move("state", "clear") /\ UNCHANGED <<pending, state, requests, late, unready>>
      BY <1>6, <2>1 DEF ReadState
    <3>2. at' \in [Stage -> Nat] /\ at'["clear"] > 0
      BY <1>2, <1>3, <3>1, MoveFacts
    <3> QED  BY <1>1, <1>2, <3>1, <3>2 DEF UpdateInv, PendingTypeOK, Noticed, Looking
  <2>2. CASE state # "ready"
    <3>1. Leave("state") /\ unready' /\ UNCHANGED <<pending, state, requests, late>>
      BY <1>6, <2>2 DEF ReadState
    <3>2. unready' = TRUE
      BY <1>6, <2>2 DEF ReadState
    <3>3. at' \in [Stage -> Nat]
      BY <1>2, <1>3, <3>1, LeaveFacts
    <3> QED  BY <1>1, <1>2, <3>1, <3>2, <3>3 DEF UpdateInv, PendingTypeOK, Noticed
  <2> QED  BY <2>1, <2>2
<1> QED  BY <1>4, <1>5, <1>6 DEF CheckStep

LEMMA HandlerStepInv ==
  ASSUME UpdateInv, Ask \/ AskCounts \/ Promise \/ CancelUpdate
  PROVE  UpdateInv'
<1>1. MemoryInv' /\ ActiveRecordings' = ActiveRecordings
  BY RestKept DEF UpdateInv, Ask, AskCounts, Promise, CancelUpdate
<1>2. at \in [Stage -> Nat] /\ PendingTypeOK /\ Noticed
  BY DEF UpdateInv, PendingTypeOK
<1>3. /\ {"asked", "promise", "clear"} \subseteq Stage
      /\ Looking \subseteq Stage \ {"asked", "promise"}
  BY DEF Stage, Looking
<1>4. CASE Ask
  <2>1. /\ at' \in [Stage -> Nat] /\ \A s \in Looking : at'[s] = at[s]
        /\ requests' \in 0..MaxRequests
    BY <1>2, <1>3, <1>4, RequestsAreCounted DEF Ask, PendingTypeOK
  <2> QED  BY <1>1, <1>2, <1>4, <2>1 DEF Ask, UpdateInv, PendingTypeOK, Noticed
<1>5. CASE AskCounts
  <2>1. Move("asked", "promise") \/ Leave("asked") \/ Move("asked", "clear")
    BY <1>5 DEF AskCounts
  <2>2. at' \in [Stage -> Nat] /\ \A s \in Stage \ {"asked"} : at'[s] >= at[s]
    BY <1>2, <1>3, <2>1, MoveFacts, LeaveFacts
  <2>3. \A s \in Looking : at[s] > 0 => at'[s] > 0
    BY <1>2, <1>3, <2>2
  <2> QED  BY <1>1, <1>2, <1>5, <2>2, <2>3 DEF AskCounts, UpdateInv, PendingTypeOK, Noticed
<1>6. CASE Promise
  <2>1. at' \in [Stage -> Nat]
    BY <1>2, <1>3, <1>6, LeaveFacts DEF Promise
  <2>2. pending' = TRUE /\ unready' = FALSE /\ late' \in BOOLEAN
    BY <1>6 DEF Promise
  <2>3. ActiveRecordings' = 0 => late'
    BY <1>1, <1>6 DEF Promise
  <2> QED  BY <1>1, <1>2, <1>6, <2>1, <2>2, <2>3 DEF Promise, UpdateInv, PendingTypeOK, Noticed
<1>7. CASE CancelUpdate
  BY <1>1, <1>2, <1>7 DEF CancelUpdate, UpdateInv, PendingTypeOK, Noticed
<1> QED  BY <1>4, <1>5, <1>6, <1>7

LEMMA ApplyStepInv ==
  ASSUME UpdateInv, ApplyStep \/ StateMoves
  PROVE  UpdateInv'
<1>1. MemoryInv' /\ ActiveRecordings' = ActiveRecordings
  BY RestKept DEF UpdateInv, ApplyStep, StateMoves, ClearPending, Verify, MarkApplying, Install
<1>2. at \in [Stage -> Nat] /\ PendingTypeOK /\ Noticed
  BY DEF UpdateInv, PendingTypeOK
<1>3. /\ {"clear", "verify", "mark", "install"} \subseteq Stage
      /\ Looking \subseteq Stage \ {"verify", "mark", "install"}
  BY DEF Stage, Looking
<1>4. CASE ClearPending
  <2>1. at' \in [Stage -> Nat] /\ pending' = FALSE
    BY <1>2, <1>3, <1>4, MoveFacts DEF ClearPending
  <2> QED  BY <1>1, <1>2, <1>4, <2>1 DEF ClearPending, UpdateInv, PendingTypeOK, Noticed
<1>5. CASE Verify \/ MarkApplying \/ Install
  <2>1. PICK s \in {"verify", "mark", "install"} :
          \/ Leave(s)
          \/ \E t \in {"mark", "install"} \ {s} : Move(s, t)
    BY <1>5 DEF Verify, MarkApplying, Install
  <2>2. at' \in [Stage -> Nat] /\ \A u \in Stage \ {s} : at'[u] >= at[u]
    BY <1>2, <1>3, <2>1, MoveFacts, LeaveFacts
  <2>3. \A u \in Looking : at[u] > 0 => at'[u] > 0
    BY <1>2, <1>3, <2>2
  <2>4. state' \in {"ready", "applying", "other"} /\ UNCHANGED <<pending, requests, late, unready>>
    BY <1>2, <1>5 DEF Verify, MarkApplying, Install, PendingTypeOK
  <2> QED  BY <1>1, <1>2, <2>2, <2>3, <2>4 DEF UpdateInv, PendingTypeOK, Noticed
<1>6. CASE StateMoves
  BY <1>1, <1>2, <1>6 DEF StateMoves, UpdateInv, PendingTypeOK, Noticed
<1> QED  BY <1>4, <1>5, <1>6 DEF ApplyStep

LEMMA UpdateStep == UpdateInv /\ [NextUpdate]_allVars => UpdateInv'
<1> SUFFICES ASSUME UpdateInv, [NextUpdate]_allVars
             PROVE  UpdateInv'
  OBVIOUS
<1>1. CASE UNCHANGED allVars
  <2>1. MemoryInv' /\ ActiveRecordings' = ActiveRecordings
    BY <1>1, RestKept DEF UpdateInv, allVars
  <2> QED  BY <1>1, <2>1 DEF allVars, updateVars, UpdateInv, PendingTypeOK, Noticed
<1> QED
  BY <1>1, ManagerStepInv, CheckStepInv, HandlerStepInv, ApplyStepInv DEF NextUpdate

-----------------------------------------------------------------------------
(* The theorems.                                                           *)

(* The manager's invariant and the bookkeeping of an update hold together, *)
(* in whatever order the checks, the handlers and the recorders run.       *)
THEOREM UpdateInductive == SpecUpdate => []UpdateInv
<1> QED  BY UpdateInit, UpdateStep, PTL DEF SpecUpdate

(* The manager, the flag, the state and the goroutine counts have their    *)
(* types: no recording is taken off the count twice, and no goroutine      *)
(* leaves a stage where there is none.                                     *)
THEOREM UpdateTypeCorrect == SpecUpdate => []UpdateTypeOK
<1>1. UpdateInv => UpdateTypeOK
  BY MemoryTypes DEF UpdateInv, UpdateTypeOK
<1> QED  BY <1>1, UpdateInductive, PTL

(* For any number of rooms and overlapping splits and removals: an update  *)
(* that waits with nothing left to wait for is being looked at, unless its *)
(* flag was set too late or a check found the update not ready.            *)
THEOREM EndNoticed == SpecUpdate => []EndIsNoticed
<1>1. UpdateInv => EndIsNoticed
  BY DEF UpdateInv, Noticed, EndIsNoticed, Looking
<1> QED  BY <1>1, UpdateInductive, PTL

=============================================================================
