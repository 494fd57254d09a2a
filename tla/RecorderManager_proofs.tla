----------------------- MODULE RecorderManager_proofs -----------------------
(***************************************************************************)
(* Proofs about RecorderManager, for any number of rooms, recorders and    *)
(* timer chains.                                                           *)
(***************************************************************************)
EXTENDS RecorderManager, FiniteSetTheorems, TLAPS

-----------------------------------------------------------------------------
(* The inductive invariant.                                                *)

InRestart == {"replaced", "draining", "collected", "handing", "handed"}
Restarting == {c \in Caller : pc[c] \in InRestart}

\* restartingCount is the number of restarts between their two locked sections.
CountIsExact == restarting = Cardinality(Restarting)

\* Whoever closes a recorder or waits for one names a recorder that was made.
Targets ==
  \A c \in Caller :
    /\ pc[c] \in InRestart \cup {"removing", "joined"} => target[c] \in Made
    /\ pc[c] \in {"collected", "handing", "handed"} => target[c] \in done

\* The entry of a room is a recorder of that room.
Owned == \A r \in Room : savers[r] # None => savers[r] \in Made /\ roomOf[savers[r]] = r

(* A room that is marked as stopping keeps its recorder, which has been    *)
(* told to stop, and each removal has the mark of its room for itself.     *)
Removals ==
  /\ \A r \in Room : stopping[r] # None => stopping[r] = savers[r] /\ savers[r] \in stopped
  /\ \A c \in Caller : pc[c] = "removing" => stopping[roomOf[target[c]]] = target[c]
  /\ \A c, d \in Caller : pc[c] = "removing" /\ pc[d] = "removing" /\ c # d
                            => roomOf[target[c]] # roomOf[target[d]]

\* A recorder that still runs is in the map, or a restart is waiting for it.
LiveIsHeld ==
  \A x \in Live : savers[roomOf[x]] = x \/ \E c \in Restarting : target[c] = x

\* A chain that has ended is not inside the manager.
Chains == \A k \in Cron : chain[k] = None => pc[k] = "idle"

MemoryInv ==
  /\ ManagerTypeOK /\ RecorderTypeOK /\ CallTypeOK /\ OtherTypeOK
  /\ CountIsExact /\ Targets /\ Owned /\ Removals /\ LiveIsHeld
  /\ NoZombieRecorder /\ Chains /\ SplitIsScheduled

-----------------------------------------------------------------------------
(* What a step leaves alone, it preserves.                                 *)

LEMMA PartsKept ==
  /\ ManagerTypeOK /\ UNCHANGED <<savers, stopping, closed>> => ManagerTypeOK'
  /\ RecorderTypeOK /\ UNCHANGED recorderVars => RecorderTypeOK'
  /\ CallTypeOK /\ UNCHANGED callVars => CallTypeOK'
  /\ OtherTypeOK /\ UNCHANGED <<chain, todo, recorded, reported>> => OtherTypeOK'
<1>1. ManagerTypeOK /\ UNCHANGED <<savers, stopping, closed>> => ManagerTypeOK'
  BY DEF ManagerTypeOK
<1>2. RecorderTypeOK /\ UNCHANGED recorderVars => RecorderTypeOK'
  BY DEF RecorderTypeOK, recorderVars
<1>3. CallTypeOK /\ UNCHANGED callVars => CallTypeOK'
  BY DEF CallTypeOK, callVars
<1>4. OtherTypeOK /\ UNCHANGED <<chain, todo, recorded, reported>> => OtherTypeOK'
  BY DEF OtherTypeOK
<1> QED  BY <1>1, <1>2, <1>3, <1>4

\* The same for the parts that say how the manager's memory hangs together.
LEMMA MemoryKept ==
  /\ CountIsExact /\ UNCHANGED <<restarting, pc>> => CountIsExact'
  /\ Targets /\ UNCHANGED <<pc, target, roomOf, done>> => Targets'
  /\ Owned /\ UNCHANGED <<savers, roomOf>> => Owned'
  /\ Removals /\ UNCHANGED <<savers, stopping, stopped, pc, target, roomOf>> => Removals'
  /\ LiveIsHeld /\ UNCHANGED <<savers, roomOf, done, pc, target>> => LiveIsHeld'
  /\ NoZombieRecorder /\ UNCHANGED <<savers, roomOf, done, stopped, pc, target>>
       => NoZombieRecorder'
  /\ Chains /\ UNCHANGED <<chain, pc>> => Chains'
  /\ SplitIsScheduled
       /\ UNCHANGED <<savers, stopping, closed, roomOf, done, stopped, chain, pc>>
       => SplitIsScheduled'
<1>1. CountIsExact /\ UNCHANGED <<restarting, pc>> => CountIsExact'
  BY DEF CountIsExact, Restarting
<1>2. Targets /\ UNCHANGED <<pc, target, roomOf, done>> => Targets'
  BY DEF Targets, Made
<1>3. Owned /\ UNCHANGED <<savers, roomOf>> => Owned'
  BY DEF Owned, Made
<1>4. Removals /\ UNCHANGED <<savers, stopping, stopped, pc, target, roomOf>> => Removals'
  BY DEF Removals
<1>5. LiveIsHeld /\ UNCHANGED <<savers, roomOf, done, pc, target>> => LiveIsHeld'
  BY DEF LiveIsHeld, Live, Made, Restarting
<1>6. NoZombieRecorder /\ UNCHANGED <<savers, roomOf, done, stopped, pc, target>>
        => NoZombieRecorder'
  BY DEF NoZombieRecorder, Live, Made
<1>7. Chains /\ UNCHANGED <<chain, pc>> => Chains'
  BY DEF Chains
<1>8. SplitIsScheduled
        /\ UNCHANGED <<savers, stopping, closed, roomOf, done, stopped, chain, pc>>
        => SplitIsScheduled'
  BY DEF SplitIsScheduled, Live, Made
<1> QED  BY <1>1, <1>2, <1>3, <1>4, <1>5, <1>6, <1>7, <1>8

LEMMA MemoryInit == Init => MemoryInv
<1> SUFFICES ASSUME Init
             PROVE  MemoryInv
  OBVIOUS
<1>1. ManagerTypeOK /\ RecorderTypeOK /\ CallTypeOK /\ OtherTypeOK
  BY DEF Init, ManagerTypeOK, RecorderTypeOK, CallTypeOK, OtherTypeOK
<1>2. Made = {} /\ Restarting = {}
  BY DEF Init, Made, Restarting, InRestart
<1>3. CountIsExact
  BY <1>2, FS_EmptySet DEF Init, CountIsExact
<1>4. Targets /\ Owned /\ Removals
  BY DEF Init, Targets, Owned, Removals, InRestart
<1>5. LiveIsHeld /\ NoZombieRecorder
  BY <1>2 DEF LiveIsHeld, NoZombieRecorder, Live
<1>6. Chains /\ SplitIsScheduled
  BY <1>2 DEF Init, Chains, SplitIsScheduled, Caller, Live
<1> QED  BY <1>1, <1>3, <1>4, <1>5, <1>6 DEF MemoryInv

-----------------------------------------------------------------------------
(* Starting and splitting.                                                 *)

\* The chain that is spawned was free, and only the one that ends is lost.
LEMMA SpawnFacts ==
  ASSUME MemoryInv, NEW r \in Room, NEW e, SpawnChain(r, e)
  PROVE  /\ OtherTypeOK /\ UNCHANGED <<todo, recorded, reported>> => OtherTypeOK'
         /\ \A k \in Cron : chain[k] # None /\ k # e => chain'[k] = chain[k]
         /\ Cron # {} => \E k \in Cron : chain[k] = None /\ chain'[k] = r /\ pc[k] = "idle"
         /\ \A k \in Cron : chain'[k] = None => chain[k] = None \/ k = e
<1>1. CASE Cron = {}
  BY <1>1 DEF SpawnChain, OtherTypeOK
<1>2. CASE Cron # {}
  <2>1. PICK k \in Cron :
          /\ chain[k] = None
          /\ chain' = [c \in Cron |->
               IF c = k THEN r ELSE IF c = e THEN None ELSE chain[c]]
    BY <1>2 DEF SpawnChain
  <2>2. pc[k] = "idle" /\ r # None
    BY <2>1, NamesDiffer DEF MemoryInv, Chains
  <2>3. OtherTypeOK /\ UNCHANGED <<todo, recorded, reported>> => OtherTypeOK'
    BY <2>1 DEF OtherTypeOK
  <2> QED  BY <2>1, <2>2, <2>3
<1> QED  BY <1>1, <1>2

\* A room that starts to record has a chain from then on.
LEMMA AddRecorderInv ==
  ASSUME MemoryInv, NEW r \in Room, NEW x \in Recorder, AddRecorder(r, x)
  PROVE  MemoryInv'
<1>1. savers[r] = None /\ roomOf[x] = None
  BY DEF AddRecorder, Accepts, Made
<1>2. /\ savers'[r] = x /\ \A s \in Room \ {r} : savers'[s] = savers[s]
      /\ roomOf'[x] = r /\ \A y \in Recorder \ {x} : roomOf'[y] = roomOf[y]
      /\ Made' = Made \cup {x} /\ x \notin Made
  BY NamesDiffer DEF AddRecorder, MemoryInv, ManagerTypeOK, RecorderTypeOK, Made
<1>3. ManagerTypeOK' /\ RecorderTypeOK'
  BY DEF AddRecorder, MemoryInv, ManagerTypeOK, RecorderTypeOK
<1>4. Targets'
  BY <1>2 DEF AddRecorder, MemoryInv, Targets, callVars
<1>5. Owned'
  BY <1>2 DEF MemoryInv, Owned, Made
<1>6. Removals'
  <2>1. stopping[r] = None
    BY <1>1, NamesDiffer DEF MemoryInv, Removals, ManagerTypeOK
  <2>2. \A c \in Caller : pc[c] = "removing" => roomOf'[target[c]] = roomOf[target[c]]
    BY <1>2 DEF MemoryInv, Targets, Made
  <2> QED  BY <1>2, <2>1, <2>2 DEF AddRecorder, MemoryInv, Removals, callVars
<1>7. LiveIsHeld' /\ NoZombieRecorder'
  <2>1. \A y \in Made : roomOf'[y] = roomOf[y] /\ roomOf[y] \in Room
    BY <1>2 DEF MemoryInv, RecorderTypeOK, Made
  <2>2. \A y \in Live : savers'[roomOf'[y]] = savers[roomOf[y]] \/ savers[roomOf[y]] = None
    BY <1>1, <1>2, <2>1 DEF Live
  <2>3. \A y \in Live : y # None
    BY NamesDiffer DEF Live, Made
  <2>4. Live' \subseteq Live \cup {x} /\ Restarting' = Restarting
    BY <1>2 DEF AddRecorder, Live, Restarting, callVars
  <2> QED  BY <1>2, <2>2, <2>3, <2>4
           DEF AddRecorder, MemoryInv, LiveIsHeld, NoZombieRecorder, callVars
<1>8. Chains'
  BY SpawnFacts, NamesDiffer DEF AddRecorder, MemoryInv, Chains, callVars
<1>9. SplitIsScheduled'
  <2>1. \A k \in Cron : chain[k] # None => chain'[k] = chain[k]
    BY SpawnFacts, NamesDiffer DEF AddRecorder
  <2>2. Cron # {} => \E k \in Cron : chain'[k] = r /\ pc'[k] = "idle"
    BY SpawnFacts DEF AddRecorder, callVars
  <2>3. ASSUME NEW s \in Room, s # r, savers'[s] \in Live' \ stopped'
        PROVE  savers[s] \in Live \ stopped
    BY <1>1, <1>2, <2>3, NamesDiffer DEF AddRecorder, Live, Made, MemoryInv, Owned
  <2> QED  BY <2>1, <2>2, <2>3, NamesDiffer DEF AddRecorder, MemoryInv, SplitIsScheduled, callVars
<1>10. OtherTypeOK'
  BY SpawnFacts DEF AddRecorder, MemoryInv
<1> QED  BY <1>3, <1>4, <1>5, <1>6, <1>7, <1>8, <1>9, <1>10, PartsKept, MemoryKept
         DEF AddRecorder, MemoryInv, callVars

\* Names of callers do not mix.
LEMMA CallerNames ==
  /\ \A c \in Room \cup Cron : c \in Caller /\ c # Main
  /\ Main \in Caller
  /\ \A c \in Room \cup {Main} : c \in Caller /\ c \notin Cron
  /\ \A k \in Cron : k # None
BY NamesDiffer DEF Caller

\* There are finitely many callers.
LEMMA CallersAreFinite == IsFiniteSet(Caller)
<1>1. IsFiniteSet(Room \cup Cron)
  BY CountsAreFinite, FS_Union
<1> QED  BY <1>1, FS_AddElement DEF Caller

LEMMA RestartingIsFinite == IsFiniteSet(Restarting)
BY CallersAreFinite, FS_Subset DEF Restarting

(* A caller that closes nothing moves: whatever it did under the lock did  *)
(* not touch the map.                                                      *)
LEMMA IdleMove ==
  ASSUME MemoryInv, NEW c \in Caller, NEW p \in {"idle", "due", "closing", "closed"},
         pc[c] \notin InRestart, pc' = [pc EXCEPT ![c] = p],
         UNCHANGED <<savers, stopping, restarting, recorderVars, target>>
  PROVE  CountIsExact' /\ Targets' /\ Owned' /\ Removals' /\ LiveIsHeld' /\ NoZombieRecorder'
<1>1. pc'[c] = p /\ \A d \in Caller \ {c} : pc'[d] = pc[d]
  BY DEF MemoryInv, CallTypeOK
<1>2. Restarting' = Restarting
  BY <1>1 DEF Restarting, InRestart
<1>3. CountIsExact'
  BY <1>2 DEF MemoryInv, CountIsExact
<1>4. Targets' /\ Owned' /\ Removals'
  BY <1>1 DEF MemoryInv, Targets, Owned, Removals, Made, InRestart, recorderVars
<1>5. LiveIsHeld'
  BY <1>2 DEF MemoryInv, LiveIsHeld, Live, Made, recorderVars
<1>6. NoZombieRecorder'
  BY <1>1 DEF MemoryInv, NoZombieRecorder, Live, Made, InRestart, recorderVars
<1> QED  BY <1>3, <1>4, <1>5, <1>6

\* A failed start leaves one chain more.
LEMMA AddFailsInv ==
  ASSUME MemoryInv, NEW r \in Room, AddFails(r)
  PROVE  MemoryInv'
<1> USE DEF AddFails, SpawnOnFailure
<1>1. OtherTypeOK'
  BY SpawnFacts DEF MemoryInv
<1>2. \A k \in Cron : chain[k] # None => chain'[k] = chain[k]
  BY SpawnFacts, CallerNames
<1>3. Chains'
  BY SpawnFacts, CallerNames DEF MemoryInv, Chains, callVars
<1>4. SplitIsScheduled'
  BY <1>2, NamesDiffer
  DEF MemoryInv, SplitIsScheduled, Live, Made, managerVars, recorderVars, callVars
<1> QED  BY <1>1, <1>3, <1>4, PartsKept, MemoryKept
         DEF MemoryInv, managerVars, recorderVars, callVars

\* A chain that is due has still to ask for the split.
LEMMA CronDueInv ==
  ASSUME MemoryInv, NEW k \in Cron, CronDue(k)
  PROVE  MemoryInv'
<1>1. k \in Caller /\ pc[k] = "idle" /\ pc' = [pc EXCEPT ![k] = "due"]
  BY CallerNames DEF CronDue
<1>2. CountIsExact' /\ Targets' /\ Owned' /\ Removals' /\ LiveIsHeld' /\ NoZombieRecorder'
  BY <1>1, IdleMove DEF CronDue, managerVars, InRestart
<1>3. CallTypeOK'
  BY <1>1 DEF CronDue, MemoryInv, CallTypeOK
<1>4. Chains' /\ SplitIsScheduled'
  BY <1>1 DEF CronDue, MemoryInv, CallTypeOK, Chains, SplitIsScheduled, Live, Made,
              managerVars, recorderVars
<1> QED  BY <1>2, <1>3, <1>4, PartsKept DEF CronDue, MemoryInv, managerVars

\* A restart that fails puts the old recorder back, with a chain of its own.
LEMMA ReplaceFailsInv ==
  ASSUME MemoryInv, NEW c \in Room \cup Cron, NEW r \in Room, ReplaceFails(c, r)
  PROVE  MemoryInv'
<1> USE DEF SpawnOnFailure
<1>1. /\ c \in Caller /\ pc[c] \in {"idle", "due"} /\ pc' = [pc EXCEPT ![c] = "idle"]
      /\ c \in Cron => chain[c] = r
  BY CallerNames, NamesDiffer DEF ReplaceFails, Restarts
<1>2. CountIsExact' /\ Targets' /\ Owned' /\ Removals' /\ LiveIsHeld' /\ NoZombieRecorder'
  BY <1>1, IdleMove DEF ReplaceFails, managerVars, InRestart
<1>3. CallTypeOK' /\ OtherTypeOK'
  BY <1>1, SpawnFacts DEF ReplaceFails, MemoryInv, CallTypeOK
<1>4. Chains'
  BY <1>1, SpawnFacts DEF ReplaceFails, MemoryInv, CallTypeOK, Chains
<1>5. SplitIsScheduled'
  <2>1. \A k \in Cron : chain[k] # None /\ k # c => chain'[k] = chain[k] /\ pc'[k] = pc[k]
    BY <1>1, SpawnFacts, CallerNames DEF ReplaceFails, MemoryInv, CallTypeOK
  <2>2. Cron # {} => \E k \in Cron : chain'[k] = r /\ pc'[k] = "idle"
    BY <1>1, SpawnFacts, CallerNames DEF ReplaceFails, MemoryInv, CallTypeOK
  <2> QED  BY <1>1, <2>1, <2>2, NamesDiffer
           DEF ReplaceFails, MemoryInv, SplitIsScheduled, Live, Made, managerVars, recorderVars
<1> QED  BY <1>2, <1>3, <1>4, <1>5, PartsKept DEF ReplaceFails, MemoryInv, managerVars

\* A chain ends only when its room has nothing to split.
LEMMA ChainEndsInv ==
  ASSUME MemoryInv, NEW k \in Cron, ChainEnds(k)
  PROVE  MemoryInv'
<1>1. /\ k \in Caller /\ pc[k] \in {"idle", "due"} /\ pc' = [pc EXCEPT ![k] = "idle"]
      /\ chain' = [chain EXCEPT ![k] = None]
  BY CallerNames DEF ChainEnds
<1>2. CountIsExact' /\ Targets' /\ Owned' /\ Removals' /\ LiveIsHeld' /\ NoZombieRecorder'
  BY <1>1, IdleMove DEF ChainEnds, managerVars, InRestart
<1>3. CallTypeOK' /\ OtherTypeOK' /\ Chains'
  BY <1>1 DEF ChainEnds, MemoryInv, CallTypeOK, OtherTypeOK, Chains
<1>4. SplitIsScheduled'
  <2>1. ASSUME NEW r \in Room, ~closed, stopping[r] = None, savers[r] \in Live
        PROVE  chain[k] # r
    BY <2>1, NamesDiffer DEF ChainEnds, CanReplace, Live, Made
  <2> QED  BY <1>1, <2>1
           DEF ChainEnds, MemoryInv, CallTypeOK, OtherTypeOK, SplitIsScheduled, Live, Made,
               managerVars, recorderVars
<1> QED  BY <1>2, <1>3, <1>4, PartsKept DEF ChainEnds, MemoryInv, managerVars

(* The old recorder leaves the map and is counted; the new one has a chain *)
(* of its own.                                                             *)
LEMMA ReplaceInv ==
  ASSUME MemoryInv, NEW c \in Room \cup Cron, NEW r \in Room, NEW x \in Recorder,
         Replace(c, r, x)
  PROVE  MemoryInv'
<1>1. /\ c \in Caller /\ pc[c] \in {"idle", "due"}
      /\ c \in Cron => chain[c] = r
  BY CallerNames, NamesDiffer DEF Replace, Restarts
<1>2. savers[r] # None /\ stopping[r] = None /\ x \notin Made /\ roomOf[x] = None
  BY DEF Replace, CanReplace, Made
<1>3. /\ savers'[r] = x /\ \A s \in Room \ {r} : savers'[s] = savers[s]
      /\ roomOf'[x] = r /\ \A y \in Recorder \ {x} : roomOf'[y] = roomOf[y]
      /\ Made' = Made \cup {x}
  BY NamesDiffer DEF Replace, MemoryInv, ManagerTypeOK, RecorderTypeOK, Made
<1>4. /\ pc'[c] = "replaced" /\ target'[c] = savers[r]
      /\ \A d \in Caller \ {c} : pc'[d] = pc[d] /\ target'[d] = target[d]
  BY <1>1 DEF Replace, MemoryInv, CallTypeOK
<1>5. savers[r] \in Made /\ roomOf[savers[r]] = r
  BY <1>2 DEF MemoryInv, Owned
<1>6. ManagerTypeOK' /\ RecorderTypeOK' /\ CallTypeOK' /\ OtherTypeOK'
  BY SpawnFacts DEF Replace, MemoryInv, ManagerTypeOK, RecorderTypeOK, CallTypeOK
<1>7. CountIsExact'
  <2>1. Restarting' = Restarting \cup {c} /\ c \notin Restarting
    BY <1>1, <1>4 DEF Restarting, InRestart
  <2> QED  BY <2>1, RestartingIsFinite, FS_AddElement DEF Replace, CountOld, MemoryInv, CountIsExact
<1>8. Targets'
  BY <1>3, <1>4, <1>5 DEF Replace, MemoryInv, Targets
<1>9. Owned'
  <2>1. \A s \in Room \ {r} : savers[s] # None =>
          savers[s] \in Made \ {x} /\ savers[s] \in Recorder \ {x} /\ roomOf[savers[s]] = s
    BY <1>2 DEF MemoryInv, Owned, Made
  <2>2. \A s \in Room \ {r} : savers'[s] # None => savers'[s] \in Made' /\ roomOf'[savers'[s]] = s
    BY <1>3, <2>1
  <2>3. savers'[r] \in Made' /\ roomOf'[savers'[r]] = r
    BY <1>3
  <2> QED  BY <2>2, <2>3 DEF Owned
<1>10. Removals'
  <2>1. \A d \in Caller : pc[d] = "removing" => d # c /\ roomOf'[target[d]] = roomOf[target[d]]
    BY <1>1, <1>2, <1>3 DEF MemoryInv, Targets, Made
  <2> QED  BY <1>2, <1>3, <1>4, <2>1 DEF Replace, MemoryInv, Removals
<1>11. LiveIsHeld' /\ NoZombieRecorder'
  <2>1. \A y \in Made : roomOf'[y] = roomOf[y] /\ roomOf[y] \in Room
    BY <1>2, <1>3 DEF MemoryInv, RecorderTypeOK, Made
  <2>2. \A y \in Live : savers'[roomOf'[y]] = savers[roomOf[y]] \/ savers[roomOf[y]] = savers[r]
    BY <1>3, <2>1 DEF Live
  <2>3. Live' \subseteq Live \cup {x}
    BY <1>3 DEF Replace, Live
  <2>4. c \in Restarting' /\ \A d \in Restarting : d \in Restarting' /\ target'[d] = target[d]
    BY <1>1, <1>4 DEF Restarting, InRestart
  <2>5. \A d \in Caller : pc[d] = "replaced" => d # c
    BY <1>1
  <2>6. LiveIsHeld'
    BY <1>3, <1>4, <2>2, <2>3, <2>4 DEF MemoryInv, LiveIsHeld
  <2>7. NoZombieRecorder'
    BY <1>1, <1>3, <1>4, <2>2, <2>3, <2>5 DEF Replace, MemoryInv, NoZombieRecorder
  <2> QED  BY <2>6, <2>7
<1>12. Chains'
  BY <1>1, <1>4, SpawnFacts, CallerNames, NamesDiffer DEF Replace, MemoryInv, Chains, Caller
<1>13. SplitIsScheduled'
  <2>1. \A k \in Cron : chain[k] # None => chain'[k] = chain[k]
    BY SpawnFacts, CallerNames DEF Replace
  <2>2. Cron # {} => \E k \in Cron : chain'[k] = r /\ pc'[k] = "idle"
    BY <1>1, <1>4, SpawnFacts, NamesDiffer DEF Replace, Caller
  <2>3. ASSUME NEW s \in Room, s # r, savers'[s] \in Live' \ stopped'
        PROVE  savers[s] \in Live \ stopped
    BY <1>3, <1>2, <2>3, NamesDiffer DEF Replace, Live, Made, MemoryInv, Owned
  <2>4. \A k \in Cron : chain[k] # r => pc'[k] = pc[k]
    BY <1>1, <1>4 DEF Caller
  <2> QED  BY <2>1, <2>2, <2>3, <2>4, NamesDiffer DEF Replace, MemoryInv, SplitIsScheduled
<1> QED  BY <1>6, <1>7, <1>8, <1>9, <1>10, <1>11, <1>12, <1>13 DEF MemoryInv

-----------------------------------------------------------------------------
(* The rest of RestartRecorder.                                            *)

\* A restart that goes on keeps its recorder counted.
LEMMA RestartMove ==
  ASSUME MemoryInv, NEW c \in Caller, NEW p \in InRestart,
         pc[c] \in InRestart, pc' = [pc EXCEPT ![c] = p],
         pc[c] = "replaced" => target[c] \in stopped',
         p \in {"collected", "handing", "handed"} => target[c] \in done,
         stopped \subseteq stopped',
         UNCHANGED <<managerVars, roomOf, done, target, chain>>
  PROVE  /\ CountIsExact' /\ Targets' /\ Owned' /\ Removals' /\ LiveIsHeld'
         /\ NoZombieRecorder' /\ Chains' /\ SplitIsScheduled'
<1> USE DEF managerVars
<1>1. pc'[c] = p /\ \A d \in Caller \ {c} : pc'[d] = pc[d]
  BY DEF MemoryInv, CallTypeOK
<1>2. Restarting' = Restarting
  BY <1>1 DEF Restarting
<1>3. CountIsExact'
  BY <1>2 DEF MemoryInv, CountIsExact
<1>4. Targets' /\ Owned' /\ Removals'
  BY <1>1 DEF MemoryInv, Targets, Owned, Removals, Made, InRestart
<1>5. LiveIsHeld'
  BY <1>2 DEF MemoryInv, LiveIsHeld, Live, Made
<1>6. NoZombieRecorder'
  BY <1>1 DEF MemoryInv, NoZombieRecorder, Live, Made
<1>7. Chains' /\ SplitIsScheduled'
  BY <1>1 DEF MemoryInv, Chains, SplitIsScheduled, InRestart, Live, Made, Caller
<1> QED  BY <1>3, <1>4, <1>5, <1>6, <1>7

LEMMA CloseForRestartInv ==
  ASSUME MemoryInv, NEW c \in Caller, CloseForRestart(c)
  PROVE  MemoryInv'
<1>1. target[c] \in Made
  BY DEF CloseForRestart, MemoryInv, Targets, InRestart
<1>2. RecorderTypeOK' /\ CallTypeOK'
  BY <1>1 DEF CloseForRestart, MemoryInv, RecorderTypeOK, CallTypeOK, Made
<1> QED  BY <1>2, RestartMove, PartsKept
         DEF CloseForRestart, MemoryInv, InRestart, managerVars

\* Nothing but the place of the restart and the files it carries change.
LEMMA HandingInv ==
  ASSUME MemoryInv, NEW c \in Caller, Collect(c) \/ Compare(c) \/ HandOver(c)
  PROVE  MemoryInv'
<1>1. /\ pc[c] \in {"draining", "collected", "handing"} /\ target[c] \in Made
      /\ target[c] \in done
  BY DEF MemoryInv, Targets, Collect, Compare, HandOver, InRestart
<1>2. PICK p \in {"collected", "handing", "handed"} : pc' = [pc EXCEPT ![c] = p]
  BY DEF Collect, Compare, HandOver
<1>3. RecorderTypeOK' /\ CallTypeOK'
  <2>1. CASE Collect(c)
    BY <1>1, <2>1 DEF Collect, MemoryInv, RecorderTypeOK, CallTypeOK, recorderVars, Made
  <2>2. CASE Compare(c)
    BY <2>2 DEF Compare, MemoryInv, RecorderTypeOK, CallTypeOK, recorderVars
  <2>3. CASE HandOver(c)
    BY <2>3 DEF HandOver, MemoryInv, RecorderTypeOK, CallTypeOK
  <2> QED  BY <2>1, <2>2, <2>3
<1>4. /\ UNCHANGED <<managerVars, roomOf, stopped, done, target, chain>>
      /\ UNCHANGED <<todo, recorded, reported>>
  BY DEF Collect, Compare, HandOver, recorderVars
<1> QED  BY <1>1, <1>2, <1>3, <1>4, RestartMove, PartsKept DEF MemoryInv, InRestart, managerVars

\* The old recorder is done when it is no longer counted.
LEMMA RestartReturnsInv ==
  ASSUME MemoryInv, NEW c \in Room \cup Cron, RestartReturns(c)
  PROVE  MemoryInv'
<1>1. c \in Caller /\ pc[c] = "handed" /\ target[c] \in done
  BY CallerNames DEF RestartReturns, MemoryInv, Targets
<1>2. /\ pc'[c] = "idle" /\ target'[c] = None
      /\ \A d \in Caller \ {c} : pc'[d] = pc[d] /\ target'[d] = target[d]
  BY <1>1 DEF RestartReturns, MemoryInv, CallTypeOK
<1>3. CallTypeOK' /\ OtherTypeOK'
  BY DEF RestartReturns, MemoryInv, CallTypeOK, OtherTypeOK
<1>4. Restarting' = Restarting \ {c} /\ c \in Restarting
  BY <1>1, <1>2 DEF Restarting, InRestart
<1>5. CountIsExact'
  BY <1>4, RestartingIsFinite, FS_RemoveElement DEF RestartReturns, MemoryInv, CountIsExact
<1>6. Targets' /\ Owned' /\ Removals'
  BY <1>1, <1>2 DEF RestartReturns, MemoryInv, Targets, Owned, Removals, Made, InRestart,
                    recorderVars
<1>7. LiveIsHeld'
  BY <1>1, <1>2, <1>4 DEF RestartReturns, MemoryInv, LiveIsHeld, Live, Made, Restarting,
                          recorderVars
<1>8. NoZombieRecorder'
  BY <1>1, <1>2 DEF RestartReturns, MemoryInv, NoZombieRecorder, Live, Made, recorderVars
<1>9. Chains' /\ SplitIsScheduled'
  BY <1>1, <1>2, NamesDiffer
  DEF RestartReturns, MemoryInv, Chains, SplitIsScheduled, Live, Made, Caller, recorderVars
<1> QED  BY <1>3, <1>5, <1>6, <1>7, <1>8, <1>9, PartsKept DEF RestartReturns, MemoryInv

-----------------------------------------------------------------------------
(* Removal.                                                                *)

\* The room is marked, for this caller alone.
LEMMA RemoveRecorderInv ==
  ASSUME MemoryInv, NEW c \in Room \cup {Main}, NEW r \in Room, RemoveRecorder(c, r)
  PROVE  MemoryInv'
<1>1. /\ c \in Caller /\ c \notin Cron /\ pc[c] \in {"idle", "closing"}
      /\ stopping[r] = None /\ savers[r] # None
  BY CallerNames DEF RemoveRecorder, Removes
<1>2. savers[r] \in Made /\ roomOf[savers[r]] = r
  BY <1>1 DEF MemoryInv, Owned
<1>3. /\ pc'[c] = "removing" /\ target'[c] = savers[r] /\ stopping'[r] = savers[r]
      /\ \A d \in Caller \ {c} : pc'[d] = pc[d] /\ target'[d] = target[d]
      /\ \A s \in Room \ {r} : stopping'[s] = stopping[s]
      /\ stopped' = stopped \cup {savers[r]}
  BY <1>1 DEF RemoveRecorder, MemoryInv, CallTypeOK, ManagerTypeOK
<1>4. ManagerTypeOK' /\ RecorderTypeOK' /\ CallTypeOK' /\ OtherTypeOK'
  BY <1>2 DEF RemoveRecorder, MemoryInv, ManagerTypeOK, RecorderTypeOK, CallTypeOK,
              OtherTypeOK, Made
<1>5. Restarting' = Restarting /\ c \notin Restarting
  BY <1>1, <1>3 DEF Restarting, InRestart
<1>6. CountIsExact'
  BY <1>5 DEF RemoveRecorder, MemoryInv, CountIsExact
<1>7. Targets' /\ Owned'
  BY <1>2, <1>3 DEF RemoveRecorder, MemoryInv, Targets, Owned, Made
<1>8. Removals'
  <2>1. \A d \in Caller : pc[d] = "removing" =>
          roomOf[target[d]] # r /\ roomOf[target[d]] \in Room /\ target[d] # None
    BY <1>1, NamesDiffer DEF MemoryInv, Removals, Targets, RecorderTypeOK, Made
  <2> QED  BY <1>1, <1>2, <1>3, <2>1 DEF RemoveRecorder, MemoryInv, Removals
<1>9. LiveIsHeld'
  BY <1>3, <1>5 DEF RemoveRecorder, MemoryInv, LiveIsHeld, Live, Made, Restarting
<1>10. NoZombieRecorder'
  BY <1>1, <1>3 DEF RemoveRecorder, MemoryInv, NoZombieRecorder, Live, Made
<1>11. Chains' /\ SplitIsScheduled'
  BY <1>1, <1>2, <1>3, NamesDiffer
  DEF RemoveRecorder, MemoryInv, Chains, SplitIsScheduled, Live, Made, Caller
<1> QED  BY <1>4, <1>6, <1>7, <1>8, <1>9, <1>10, <1>11 DEF MemoryInv

\* Who waits for a removal waits for a recorder that was made.
LEMMA JoinRemovalInv ==
  ASSUME MemoryInv, NEW c \in Room \cup {Main}, NEW r \in Room, JoinRemoval(c, r)
  PROVE  MemoryInv'
<1>1. /\ c \in Caller /\ c \notin Cron /\ pc[c] \in {"idle", "closing"}
      /\ stopping[r] \in Made
  BY CallerNames DEF JoinRemoval, Removes, MemoryInv, Removals, Owned
<1>2. /\ pc'[c] = "joined" /\ target'[c] = stopping[r]
      /\ \A d \in Caller \ {c} : pc'[d] = pc[d] /\ target'[d] = target[d]
  BY <1>1 DEF JoinRemoval, MemoryInv, CallTypeOK
<1>3. CallTypeOK' /\ OtherTypeOK'
  BY <1>1 DEF JoinRemoval, MemoryInv, CallTypeOK, OtherTypeOK, Made
<1>4. Restarting' = Restarting /\ c \notin Restarting
  BY <1>1, <1>2 DEF Restarting, InRestart
<1>5. CountIsExact'
  BY <1>4 DEF JoinRemoval, MemoryInv, CountIsExact, managerVars
<1>6. Targets' /\ Owned' /\ Removals'
  BY <1>1, <1>2 DEF JoinRemoval, MemoryInv, Targets, Owned, Removals, Made, InRestart,
                    managerVars, recorderVars
<1>7. LiveIsHeld'
  BY <1>2, <1>4 DEF JoinRemoval, MemoryInv, LiveIsHeld, Live, Made, Restarting,
                    managerVars, recorderVars
<1>8. NoZombieRecorder'
  BY <1>1, <1>2 DEF JoinRemoval, MemoryInv, NoZombieRecorder, Live, Made,
                    managerVars, recorderVars
<1>9. Chains' /\ SplitIsScheduled'
  BY <1>1, <1>2 DEF JoinRemoval, MemoryInv, Chains, SplitIsScheduled, Live, Made, Caller,
                    managerVars, recorderVars
<1> QED  BY <1>3, <1>5, <1>6, <1>7, <1>8, <1>9, PartsKept
         DEF JoinRemoval, MemoryInv, managerVars

LEMMA NothingToRemoveInv ==
  ASSUME MemoryInv, NEW r \in Room, NothingToRemove(r)
  PROVE  MemoryInv'
<1>1. OtherTypeOK'
  BY DEF NothingToRemove, MemoryInv, OtherTypeOK
<1> QED  BY <1>1, PartsKept, MemoryKept
         DEF NothingToRemove, MemoryInv, managerVars, recorderVars, callVars

(* The mark goes with the entry, or without it when Close has panicked; in *)
(* both cases the recorder has been told to stop.                          *)
LEMMA RemoveReturnsInv ==
  ASSUME MemoryInv, NEW c \in Caller, NEW finished \in BOOLEAN, RemoveReturns(c, finished)
  PROVE  MemoryInv'
<1>1. PICK r \in Room :
        /\ r = roomOf[target[c]]
        /\ savers' = IF finished THEN [savers EXCEPT ![r] = None] ELSE savers
        /\ stopping' = [stopping EXCEPT ![r] = None]
  BY DEF RemoveReturns, Release
<1>2. /\ pc[c] = "removing" /\ target[c] \in Made /\ savers[r] = target[c]
      /\ target[c] \in stopped /\ stopping[r] = target[c]
      /\ finished => target[c] \in done
  BY <1>1, NamesDiffer DEF RemoveReturns, MemoryInv, Targets, Removals, Made
<1>3. /\ savers'[r] \in {None, savers[r]} /\ stopping'[r] = None
      /\ finished => savers'[r] = None
      /\ ~finished => savers'[r] = savers[r]
      /\ \A s \in Room \ {r} : savers'[s] = savers[s] /\ stopping'[s] = stopping[s]
  BY <1>1 DEF MemoryInv, ManagerTypeOK
<1>4. /\ \A d \in Woken(c) : /\ pc[d] \in {"removing", "joined"}
                             /\ pc'[d] \in {"idle", "closing"} /\ target'[d] = None
      /\ \A d \in Caller \ Woken(c) : pc'[d] = pc[d] /\ target'[d] = target[d]
      /\ \A d \in Woken(c) : pc[d] = "removing" => d = c
      /\ c \in Woken(c) /\ Woken(c) \subseteq Caller
  BY <1>2 DEF RemoveReturns, Woken, After
<1>5. ManagerTypeOK' /\ CallTypeOK'
  BY <1>1, <1>4 DEF RemoveReturns, MemoryInv, ManagerTypeOK, CallTypeOK, After
<1>6. Restarting' = Restarting /\ \A d \in Restarting : d \notin Woken(c)
  BY <1>4 DEF Restarting, InRestart
<1>7. CountIsExact'
  BY <1>6 DEF RemoveReturns, MemoryInv, CountIsExact
<1>8. Targets' /\ Owned'
  BY <1>3, <1>4 DEF RemoveReturns, MemoryInv, Targets, Owned, Made, InRestart, recorderVars
<1>9. Removals'
  <2>1. \A d \in Caller : pc'[d] = "removing" =>
          /\ pc[d] = "removing" /\ target'[d] = target[d] /\ d # c
          /\ roomOf[target[d]] # r /\ roomOf[target[d]] \in Room
    BY <1>1, <1>2, <1>4 DEF MemoryInv, Removals, Targets, RecorderTypeOK, Made
  <2> QED  BY <1>3, <2>1 DEF RemoveReturns, MemoryInv, Removals, recorderVars
<1>10. \A y \in Live : /\ roomOf'[y] = roomOf[y] /\ roomOf[y] \in Room
                       /\ savers[roomOf[y]] = y => savers'[roomOf[y]] = y
  BY <1>2, <1>3 DEF RemoveReturns, MemoryInv, RecorderTypeOK, Live, Made, recorderVars
<1>11. Live' = Live /\ stopped' = stopped
  BY DEF RemoveReturns, Live, Made, recorderVars
<1>12. LiveIsHeld'
  BY <1>4, <1>6, <1>10, <1>11 DEF MemoryInv, LiveIsHeld, Restarting
<1>13. NoZombieRecorder'
  BY <1>4, <1>10, <1>11 DEF MemoryInv, NoZombieRecorder
<1>14. Chains'
  BY <1>4 DEF RemoveReturns, MemoryInv, Chains, Caller
<1>15. SplitIsScheduled'
  <2>1. \A s \in Room : stopping'[s] = None /\ savers'[s] \in Live' \ stopped' => s # r
    BY <1>2, <1>3, <1>11, NamesDiffer DEF Live, Made
  <2> QED  BY <1>3, <1>4, <1>11, <2>1 DEF RemoveReturns, MemoryInv, SplitIsScheduled, Caller
<1> QED  BY <1>5, <1>7, <1>8, <1>9, <1>12, <1>13, <1>14, <1>15, PartsKept
         DEF RemoveReturns, MemoryInv

\* Shutting down moves main alone.
LEMMA CloseManagerInv ==
  ASSUME MemoryInv, CloseManager \/ ManagerClosed
  PROVE  MemoryInv'
<1>1. PICK p \in {"closing", "closed"} : pc' = [pc EXCEPT ![Main] = p]
  BY DEF CloseManager, ManagerClosed
<1>2. /\ pc[Main] \in {"idle", "closing"} /\ Main \in Caller /\ Main \notin Cron
      /\ UNCHANGED <<savers, stopping, restarting, recorderVars, target, fresh, carry>>
      /\ UNCHANGED <<chain, recorded, reported>>
  BY CallerNames DEF CloseManager, ManagerClosed, managerVars
<1>3. CountIsExact' /\ Targets' /\ Owned' /\ Removals' /\ LiveIsHeld' /\ NoZombieRecorder'
  BY <1>1, <1>2, IdleMove DEF InRestart
<1>4. ManagerTypeOK' /\ CallTypeOK' /\ OtherTypeOK'
  BY <1>1, <1>2 DEF CloseManager, ManagerClosed, MemoryInv, ManagerTypeOK, CallTypeOK,
                    OtherTypeOK, managerVars
<1>5. closed => closed'
  BY DEF CloseManager, ManagerClosed, managerVars
<1>6. Chains' /\ SplitIsScheduled'
  BY <1>1, <1>2, <1>5 DEF MemoryInv, CallTypeOK, Chains, SplitIsScheduled, Live, Made, Caller,
                          ManagerTypeOK, recorderVars
<1> QED  BY <1>2, <1>3, <1>4, <1>6, PartsKept DEF MemoryInv

-----------------------------------------------------------------------------
(* The goroutine of a recorder.                                            *)

LEMMA RecorderStepInv ==
  ASSUME MemoryInv, NEW x \in Recorder, RecorderStep(x)
  PROVE  MemoryInv'
<1> USE DEF managerVars, callVars
<1>1. ASSUME NEW g \in Segment, Accumulate(x, g)
      PROVE  MemoryInv'
  <2>1. RecorderTypeOK' /\ OtherTypeOK'
    BY <1>1 DEF Accumulate, MemoryInv, RecorderTypeOK, OtherTypeOK
  <2> QED  BY <1>1, <2>1, PartsKept, MemoryKept DEF Accumulate, MemoryInv
<1>2. CASE RunEnds(x) \/ RunDies(x)
  <2>1. RecorderTypeOK' /\ Made' = Made /\ Live' \subseteq Live /\ done \subseteq done'
    BY <1>2 DEF RunEnds, RunDies, MemoryInv, RecorderTypeOK, Live, Made
  <2>2. UNCHANGED <<managerVars, roomOf, stopped, callVars, chain, todo, recorded, reported>>
    BY <1>2 DEF RunEnds, RunDies
  <2>3. Targets'
    BY <2>1, <2>2 DEF MemoryInv, Targets
  <2>4. LiveIsHeld' /\ NoZombieRecorder'
    BY <2>1, <2>2 DEF MemoryInv, LiveIsHeld, NoZombieRecorder, Restarting
  <2>5. SplitIsScheduled'
    BY <2>1, <2>2 DEF MemoryInv, SplitIsScheduled
  <2> QED  BY <2>1, <2>2, <2>3, <2>4, <2>5, PartsKept, MemoryKept DEF MemoryInv
<1>3. CASE SendAccumulatedSummary(x)
  <2>1. RecorderTypeOK' /\ OtherTypeOK'
    BY <1>3 DEF SendAccumulatedSummary, MemoryInv, RecorderTypeOK, OtherTypeOK
  <2> QED  BY <1>3, <2>1, PartsKept, MemoryKept DEF SendAccumulatedSummary, MemoryInv
<1> QED  BY <1>1, <1>2, <1>3 DEF RecorderStep

-----------------------------------------------------------------------------
(* The theorems.                                                           *)

LEMMA MemoryStep == MemoryInv /\ [Next]_vars => MemoryInv'
<1> SUFFICES ASSUME MemoryInv, [Next]_vars
             PROVE  MemoryInv'
  OBVIOUS
<1>1. Main \in Caller /\ Room \subseteq Caller /\ Cron \subseteq Caller
  BY DEF Caller
<1>2. CASE RecordingEnds
  BY <1>1, <1>2, RestartReturnsInv, RemoveReturnsInv DEF RecordingEnds
<1>3. CASE OtherSteps
  <2>1. CASE \E r \in Room, x \in Recorder : AddRecorder(r, x)
    BY <2>1, AddRecorderInv
  <2>2. CASE \E r \in Room : AddFails(r)
    BY <2>2, AddFailsInv
  <2>3. CASE \E k \in Cron : CronDue(k) \/ ChainEnds(k)
    BY <2>3, CronDueInv, ChainEndsInv
  <2>4. CASE \E c \in Room \cup Cron, r \in Room :
               \/ \E x \in Recorder : Replace(c, r, x)
               \/ ReplaceFails(c, r)
    BY <2>4, ReplaceInv, ReplaceFailsInv
  <2>5. CASE \E c \in Room \cup Cron :
               CloseForRestart(c) \/ Collect(c) \/ Compare(c) \/ HandOver(c)
    BY <1>1, <2>5, CloseForRestartInv, HandingInv
  <2>6. CASE \E c \in Room \cup {Main}, r \in Room : RemoveRecorder(c, r) \/ JoinRemoval(c, r)
    BY <1>1, <2>6, RemoveRecorderInv, JoinRemovalInv
  <2>7. CASE \E r \in Room : NothingToRemove(r) \/ RemoveReturns(r, FALSE)
    BY <1>1, <2>7, NothingToRemoveInv, RemoveReturnsInv
  <2>8. CASE CloseManager \/ ManagerClosed
    BY <2>8, CloseManagerInv
  <2>9. CASE \E x \in Recorder : RecorderStep(x)
    BY <2>9, RecorderStepInv
  <2> QED
    BY <1>3, <2>1, <2>2, <2>3, <2>4, <2>5, <2>6, <2>7, <2>8, <2>9 DEF OtherSteps
<1>4. CASE UNCHANGED vars
  BY <1>4, PartsKept, MemoryKept DEF vars, managerVars, recorderVars, callVars, MemoryInv
<1> QED  BY <1>2, <1>3, <1>4 DEF Next

(* The invariant the theorems rest on: how the map, the marks, the callers *)
(* in the manager and the recorders hang together.                         *)
THEOREM MemoryInductive == Spec => []MemoryInv
<1> QED  BY MemoryInit, MemoryStep, PTL DEF Spec

LEMMA MemoryTypes == MemoryInv => TypeOK
<1> SUFFICES ASSUME MemoryInv
             PROVE  TypeOK
  OBVIOUS
<1>1. IsFiniteSet(Restarting) /\ IsFiniteSet(Caller) /\ Restarting \subseteq Caller
  BY RestartingIsFinite, CallersAreFinite DEF Restarting
<1>2. /\ Cardinality(Restarting) \in Nat /\ Cardinality(Caller) \in Nat
      /\ Cardinality(Restarting) <= Cardinality(Caller)
  BY <1>1, FS_Subset, FS_CardinalityType
<1> QED  BY <1>2 DEF TypeOK, MemoryInv, CountIsExact

(* For any number of rooms, recorders and chains, the state of the manager *)
(* and of the recorders has its type, and the count of old recorders is    *)
(* never negative nor more than there are callers.                         *)
THEOREM TypeCorrect == Spec => []TypeOK
<1> QED  BY MemoryInductive, MemoryTypes, PTL

\* A set that a function covers with a finite set is no larger than that set.
LEMMA CoveredIsNoLarger ==
  ASSUME NEW S, NEW T, IsFiniteSet(S), NEW f \in [S -> T], T \subseteq {f[s] : s \in S}
  PROVE  IsFiniteSet(T) /\ Cardinality(T) <= Cardinality(S)
<1>1. f \in Surjection(S, T)
  BY DEF Surjection
<1> QED  BY <1>1, FS_Surjection

\* Every room with a recorder, and every restart, stands for one live recorder.
LEMMA LiveIsCounted == MemoryInv => ActiveIsCounted
<1> SUFFICES ASSUME MemoryInv
             PROVE  ActiveIsCounted
  OBVIOUS
<1> DEFINE Busy == {r \in Room : savers[r] # None}
           Current == {savers[r] : r \in Busy}
           Old == {target[c] : c \in Restarting}
           current == [r \in Busy |-> savers[r]]
           old == [c \in Restarting |-> target[c]]
<1>1. IsFiniteSet(Busy) /\ IsFiniteSet(Restarting)
  BY CountsAreFinite, RestartingIsFinite, FS_Subset
<1>2. IsFiniteSet(Current) /\ Cardinality(Current) <= Cardinality(Busy)
  <2>1. current \in [Busy -> Current] /\ Current \subseteq {current[r] : r \in Busy}
    OBVIOUS
  <2> HIDE DEF Busy, Current, current
  <2> QED  BY <1>1, <2>1, CoveredIsNoLarger
<1>3. IsFiniteSet(Old) /\ Cardinality(Old) <= Cardinality(Restarting)
  <2>1. old \in [Restarting -> Old] /\ Old \subseteq {old[c] : c \in Restarting}
    OBVIOUS
  <2> HIDE DEF Old, old
  <2> QED  BY <1>1, <2>1, CoveredIsNoLarger
<1>4. Live \subseteq Current \cup Old
  <2> SUFFICES ASSUME NEW x \in Live
               PROVE  x \in Current \cup Old
    OBVIOUS
  <2>1. CASE savers[roomOf[x]] = x
    <3>1. x \in Recorder /\ roomOf[x] \in Room /\ x # None
      BY NamesDiffer DEF MemoryInv, RecorderTypeOK, Live, Made
    <3> QED  BY <2>1, <3>1
  <2>2. CASE \E c \in Restarting : target[c] = x
    BY <2>2
  <2> QED  BY <2>1, <2>2 DEF MemoryInv, LiveIsHeld
<1> HIDE DEF Busy, Current, Old
<1>5. /\ IsFiniteSet(Current \cup Old)
      /\ Cardinality(Current \cup Old)
           = Cardinality(Current) + Cardinality(Old) - Cardinality(Current \cap Old)
  BY <1>2, <1>3, FS_Union
<1>6. /\ Cardinality(Current) \in Nat /\ Cardinality(Old) \in Nat
      /\ Cardinality(Current \cap Old) \in Nat
  BY <1>2, <1>3, FS_CardinalityType, FS_Intersection
<1>7. Cardinality(Live) <= Cardinality(Current \cup Old) /\ Cardinality(Live) \in Nat
  BY <1>4, <1>5, FS_Subset, FS_CardinalityType
<1>8. Cardinality(Busy) \in Nat /\ Cardinality(Restarting) \in Nat
  BY <1>1, FS_CardinalityType
<1>9. Cardinality(Live) <= Cardinality(Busy) + Cardinality(Restarting)
  BY <1>2, <1>3, <1>5, <1>6, <1>7, <1>8
<1> QED  BY <1>9 DEF ActiveIsCounted, ActiveRecordings, MemoryInv, CountIsExact, Busy

(* For any number of rooms and splits in flight, the number that decides   *)
(* whether an update may be applied never falls short of the recorders     *)
(* that still run.                                                         *)
THEOREM ActiveCounted == Spec => []ActiveIsCounted
<1> QED  BY MemoryInductive, LiveIsCounted, PTL

(* A recorder that still runs and has not been told to stop is always the  *)
(* recorder of its room or about to be closed by a restart: none is lost   *)
(* by a failed start, a panic in Close or a split that meets a removal.    *)
THEOREM NoZombie == Spec => []NoZombieRecorder
<1>1. MemoryInv => NoZombieRecorder
  BY DEF MemoryInv
<1> QED  BY <1>1, MemoryInductive, PTL

(* A room that records under max_duration always has a chain that will     *)
(* split it.                                                               *)
THEOREM SplitScheduled == Spec => []SplitIsScheduled
<1>1. MemoryInv => SplitIsScheduled
  BY DEF MemoryInv
<1> QED  BY <1>1, MemoryInductive, PTL

(* Whoever calls it and however late, a closed manager makes no recorder. *)
THEOREM ClosedIsForGood == Spec => ClosedForGood
<1>1. ASSUME [Next]_vars, closed
      PROVE  roomOf' = roomOf
  <2> USE <1>1 DEF recorderVars, callVars
  <2>1. CASE RecordingEnds
    BY <2>1 DEF RecordingEnds, RestartReturns, RemoveReturns
  <2>2. CASE OtherSteps
    <3>1. CASE \E r \in Room, x \in Recorder : AddRecorder(r, x)
      BY <3>1 DEF AddRecorder, Accepts
    <3>2. CASE \E c \in Room \cup Cron, r \in Room, x \in Recorder : Replace(c, r, x)
      BY <3>2 DEF Replace, CanReplace
    <3>3. CASE \/ \E r \in Room : AddFails(r) \/ NothingToRemove(r) \/ RemoveReturns(r, FALSE)
               \/ \E k \in Cron : CronDue(k) \/ ChainEnds(k)
               \/ CloseManager \/ ManagerClosed
      BY <3>3 DEF AddFails, NothingToRemove, RemoveReturns, CronDue, ChainEnds,
                  CloseManager, ManagerClosed
    <3>4. CASE \E c \in Room \cup Cron :
                 \/ CloseForRestart(c) \/ Collect(c) \/ Compare(c) \/ HandOver(c)
                 \/ \E r \in Room : ReplaceFails(c, r)
      BY <3>4 DEF CloseForRestart, Collect, Compare, HandOver, ReplaceFails
    <3>5. CASE \E c \in Room \cup {Main}, r \in Room : RemoveRecorder(c, r) \/ JoinRemoval(c, r)
      BY <3>5 DEF RemoveRecorder, JoinRemoval
    <3>6. CASE \E x \in Recorder : RecorderStep(x)
      BY <3>6 DEF RecorderStep, Accumulate, RunEnds, RunDies, SendAccumulatedSummary
    <3> QED  BY <2>2, <3>1, <3>2, <3>3, <3>4, <3>5, <3>6 DEF OtherSteps
  <2>3. CASE UNCHANGED vars
    BY <2>3 DEF vars
  <2> QED  BY <2>1, <2>2, <2>3 DEF Next
<1> QED  BY <1>1, PTL DEF Spec, ClosedForGood

-----------------------------------------------------------------------------
(* Nobody waits in vain.                                                   *)

\* Steps that neither begin nor end a removal, nor wait for one.
LEMMA WaitMove ==
  ASSUME NobodyWaitsInVain, UNCHANGED stopping, stopped \subseteq stopped',
         \A d \in Caller :
           \/ pc'[d] = pc[d] /\ target'[d] = target[d]
           \/ /\ pc[d] # "removing" /\ pc'[d] \notin {"removing", "joined"}
              /\ pc'[d] = "draining" => target'[d] \in stopped'
  PROVE  NobodyWaitsInVain'
<1>1. \A d \in Caller : pc'[d] \in {"removing", "joined"} =>
        pc[d] = pc'[d] /\ target[d] = target'[d]
  OBVIOUS
<1>2. \A d \in Caller : pc[d] = "removing" => pc'[d] = "removing" /\ target'[d] = target[d]
  OBVIOUS
<1>3. \A d \in Caller : pc'[d] \in {"draining", "removing"} => target'[d] \in stopped'
  BY DEF NobodyWaitsInVain
<1> QED  BY <1>1, <1>2, <1>3 DEF NobodyWaitsInVain

\* The mark is set by the caller that removes.
LEMMA WaitRemoves ==
  ASSUME MemoryInv, NobodyWaitsInVain,
         NEW c \in Room \cup {Main}, NEW r \in Room, RemoveRecorder(c, r)
  PROVE  NobodyWaitsInVain'
<1>1. c \in Caller /\ pc[c] \in {"idle", "closing"} /\ stopping[r] = None
  BY CallerNames DEF RemoveRecorder, Removes
<1>2. /\ pc'[c] = "removing" /\ target'[c] = savers[r] /\ stopping'[r] = savers[r]
      /\ \A d \in Caller \ {c} : pc'[d] = pc[d] /\ target'[d] = target[d]
      /\ \A s \in Room \ {r} : stopping'[s] = stopping[s]
      /\ stopped' = stopped \cup {savers[r]}
  BY <1>1 DEF RemoveRecorder, MemoryInv, CallTypeOK, ManagerTypeOK
<1>3. \A d \in Caller : pc[d] = "removing" => d # c
  BY <1>1
<1> QED  BY <1>1, <1>2, <1>3 DEF NobodyWaitsInVain

\* Who finds a mark waits for the removal that has set it.
LEMMA WaitJoins ==
  ASSUME MemoryInv, NobodyWaitsInVain,
         NEW c \in Room \cup {Main}, NEW r \in Room, JoinRemoval(c, r)
  PROVE  NobodyWaitsInVain'
<1>1. c \in Caller /\ pc[c] \in {"idle", "closing"} /\ stopping[r] # None
  BY CallerNames DEF JoinRemoval, Removes
<1>2. /\ pc'[c] = "joined" /\ target'[c] = stopping[r]
      /\ \A d \in Caller \ {c} : pc'[d] = pc[d] /\ target'[d] = target[d]
      /\ UNCHANGED <<stopping, stopped>>
  BY <1>1 DEF JoinRemoval, MemoryInv, CallTypeOK, managerVars, recorderVars
<1>3. \A d \in Caller : pc[d] = "removing" => d # c
  BY <1>1
<1> QED  BY <1>1, <1>2, <1>3 DEF NobodyWaitsInVain

\* The removal that ends takes its mark away and wakes all who wait for it.
LEMMA WaitEnds ==
  ASSUME MemoryInv, NobodyWaitsInVain,
         NEW c \in Caller, NEW finished \in BOOLEAN, RemoveReturns(c, finished)
  PROVE  NobodyWaitsInVain'
<1>1. PICK r \in Room : r = roomOf[target[c]] /\ stopping' = [stopping EXCEPT ![r] = None]
  BY DEF RemoveReturns, Release
<1>2. pc[c] = "removing" /\ stopping[r] = target[c] /\ UNCHANGED stopped
  BY <1>1 DEF RemoveReturns, MemoryInv, Removals, recorderVars
<1>3. /\ stopping'[r] = None
      /\ \A s \in Room \ {r} : stopping'[s] = stopping[s]
  BY <1>1 DEF MemoryInv, ManagerTypeOK
<1>4. \A s \in Room \ {r} : stopping[s] # None => stopping[s] # target[c]
  BY <1>1 DEF MemoryInv, Removals, Owned
<1>5. /\ \A d \in Woken(c) : pc'[d] \in {"idle", "closing"}
      /\ \A d \in Caller \ Woken(c) : pc'[d] = pc[d] /\ target'[d] = target[d]
      /\ \A d \in Caller : pc[d] = "joined" /\ target[d] = target[c] => d \in Woken(c)
      /\ \A d \in Caller : pc[d] = "removing" /\ d # c => d \notin Woken(c)
      /\ c \in Woken(c) /\ Woken(c) \subseteq Caller
  BY <1>2 DEF RemoveReturns, Woken, After
<1>6. \A d \in Caller : pc'[d] \in {"draining", "removing", "joined"} =>
        d \notin Woken(c) /\ pc[d] = pc'[d] /\ target[d] = target'[d]
  BY <1>5
<1>7. \A s \in Room : stopping'[s] # None =>
        \E d \in Caller : pc'[d] = "removing" /\ target'[d] = stopping'[s]
  <2> SUFFICES ASSUME NEW s \in Room, stopping'[s] # None
               PROVE  \E d \in Caller : pc'[d] = "removing" /\ target'[d] = stopping'[s]
    OBVIOUS
  <2>1. s # r /\ stopping[s] = stopping'[s] /\ stopping[s] # target[c]
    BY <1>3, <1>4
  <2>2. PICK d \in Caller : pc[d] = "removing" /\ target[d] = stopping[s]
    BY <2>1 DEF NobodyWaitsInVain
  <2> QED  BY <1>5, <2>1, <2>2
<1>8. \A e \in Caller : pc'[e] = "joined" =>
        \E d \in Caller : pc'[d] = "removing" /\ target'[d] = target'[e]
  <2> SUFFICES ASSUME NEW e \in Caller, pc'[e] = "joined"
               PROVE  \E d \in Caller : pc'[d] = "removing" /\ target'[d] = target'[e]
    OBVIOUS
  <2>1. pc[e] = "joined" /\ target[e] = target'[e] /\ target[e] # target[c]
    BY <1>5, <1>6
  <2>2. PICK d \in Caller : pc[d] = "removing" /\ target[d] = target[e]
    BY <2>1 DEF NobodyWaitsInVain
  <2> QED  BY <1>5, <2>1, <2>2
<1> QED  BY <1>2, <1>6, <1>7, <1>8 DEF NobodyWaitsInVain

LEMMA WaitStep == MemoryInv /\ NobodyWaitsInVain /\ [Next]_vars => NobodyWaitsInVain'
<1> SUFFICES ASSUME MemoryInv, NobodyWaitsInVain, [Next]_vars
             PROVE  NobodyWaitsInVain'
  OBVIOUS
<1> USE DEF managerVars, recorderVars, callVars
<1>1. Main \in Caller /\ Room \subseteq Caller /\ Cron \subseteq Caller /\ CallTypeOK
  BY DEF Caller, MemoryInv
<1>2. CASE RecordingEnds
  <2>1. CASE \E c \in Room \cup Cron : RestartReturns(c)
    <3>1. PICK c \in Room \cup Cron : RestartReturns(c)
      BY <2>1
    <3> QED  BY <1>1, <3>1, WaitMove DEF RestartReturns, CallTypeOK
  <2> QED  BY <1>1, <1>2, <2>1, WaitEnds DEF RecordingEnds
<1>3. CASE OtherSteps
  <2>1. CASE \/ \E r \in Room, x \in Recorder : AddRecorder(r, x)
             \/ \E r \in Room : AddFails(r) \/ NothingToRemove(r)
    BY <2>1, WaitMove DEF AddRecorder, AddFails, NothingToRemove
  <2>2. CASE \E k \in Cron : CronDue(k) \/ ChainEnds(k)
    BY <1>1, <2>2, WaitMove DEF CronDue, ChainEnds, CallTypeOK
  <2>3. CASE \E c \in Room \cup Cron, r \in Room, x \in Recorder : Replace(c, r, x)
    BY <1>1, <2>3, WaitMove DEF Replace, Restarts, CallTypeOK
  <2>4. CASE \E c \in Room \cup Cron, r \in Room : ReplaceFails(c, r)
    BY <1>1, <2>4, WaitMove DEF ReplaceFails, Restarts, CallTypeOK
  <2>5. CASE \E c \in Room \cup Cron :
               CloseForRestart(c) \/ Collect(c) \/ Compare(c) \/ HandOver(c)
    <3>1. PICK c \in Room \cup Cron :
            CloseForRestart(c) \/ Collect(c) \/ Compare(c) \/ HandOver(c)
      BY <2>5
    <3>2. CASE CloseForRestart(c)
      BY <1>1, <3>2, WaitMove DEF CloseForRestart, CallTypeOK
    <3>3. CASE Collect(c)
      BY <1>1, <3>3, WaitMove DEF Collect, CallTypeOK
    <3>4. CASE Compare(c)
      <4>1. UNCHANGED <<stopping, stopped, target>> /\ pc[c] = "collected"
        BY <3>4 DEF Compare
      <4>2. pc' = [pc EXCEPT ![c] = "handing"] \/ pc' = [pc EXCEPT ![c] = "handed"]
        BY <3>4 DEF Compare
      <4> QED  BY <1>1, <4>1, <4>2, WaitMove DEF CallTypeOK
    <3>5. CASE HandOver(c)
      BY <1>1, <3>5, WaitMove DEF HandOver, CallTypeOK
    <3> QED  BY <3>1, <3>2, <3>3, <3>4, <3>5
  <2>6. CASE \E c \in Room \cup {Main}, r \in Room : RemoveRecorder(c, r) \/ JoinRemoval(c, r)
    BY <2>6, WaitRemoves, WaitJoins
  <2>7. CASE \E r \in Room : RemoveReturns(r, FALSE)
    BY <1>1, <2>7, WaitEnds
  <2>8. CASE CloseManager \/ ManagerClosed
    BY <1>1, <2>8, WaitMove DEF CloseManager, ManagerClosed, CallTypeOK
  <2>9. CASE \E x \in Recorder : RecorderStep(x)
    BY <2>9, WaitMove DEF RecorderStep, Accumulate, RunEnds, RunDies, SendAccumulatedSummary
  <2> QED
    BY <1>3, <2>1, <2>2, <2>3, <2>4, <2>5, <2>6, <2>7, <2>8, <2>9 DEF OtherSteps
<1>4. CASE UNCHANGED vars
  BY <1>4, WaitMove DEF vars
<1> QED  BY <1>2, <1>3, <1>4 DEF Next

(* Whatever meets on a room, a caller that waits for a recorder has told   *)
(* it to stop, and one that waits for a removal is woken by it.            *)
THEOREM NobodyIsLeftWaiting == Spec => []NobodyWaitsInVain
<1>1. Init => NobodyWaitsInVain
  BY DEF Init, NobodyWaitsInVain
<1> QED  BY <1>1, MemoryInductive, WaitStep, PTL DEF Spec

=============================================================================
