-------------------------- MODULE RecorderManager --------------------------
(***************************************************************************)
(* The recorder manager of src/src/recorders: which recorder a room has,   *)
(* how recorders are replaced at a split and removed at the end of a       *)
(* broadcast, and what becomes of the files each one has collected for the *)
(* summary notification.                                                   *)
(*                                                                         *)
(* The goroutines that call the manager: the event lane of each room (the  *)
(* dispatcher runs the ordered events of a room one after the other), the  *)
(* cronRestart chains, and main, which closes the manager.  A caller is    *)
(* the room, the chain or Main itself.  What a caller does under m.lock is *)
(* one action; RestartRecorder and RemoveRecorder release the lock while   *)
(* they close a recorder, so they take several.  Each recorder runs in a   *)
(* goroutine of its own.                                                   *)
(***************************************************************************)
EXTENDS Naturals, FiniteSets

CONSTANTS Room,
          Recorder,  \* the recorders that newRecorder can make
          Mortal,    \* bound: the recorders whose goroutine may die by itself
          Segment,   \* the files that can be recorded
          Cron,      \* cronRestart chains (none: max_duration is 0)
          Main,      \* the goroutine that runs the shutdown
          None

ASSUME NamesDiffer ==
  /\ None \notin Room \cup Recorder \cup Cron /\ Main \notin Room \cup Cron
  /\ Room \cap Cron = {}

\* Rooms, timers and recorders are countable, as len() and an int counter need.
ASSUME CountsAreFinite ==
  IsFiniteSet(Room) /\ IsFiniteSet(Cron) /\ IsFiniteSet(Recorder)

Caller == Room \cup Cron \cup {Main}

VARIABLES
  savers,      \* m.savers: the recorder of a room
  stopping,    \* m.stopping: the recorder of a room that is being removed
  closed,      \* m.closed
  restarting,  \* m.restartingCount
  roomOf,      \* the room a recorder was made for; None: not made yet
  stopped,     \* recorders told to stop (r.stop is closed)
  done,        \* recorders whose run() has closed r.done
  owing,       \* recorders whose deferred summary has not run yet
  suppress,    \* r.suppressSummary
  files,       \* r.recordedFiles
  pc,          \* where a caller is in the manager
  target,      \* the recorder it closes or waits for
  fresh,       \* the recorder it has put in its place
  carry,       \* the files it carries from one to the other
  chain,       \* the room a cronRestart chain polls; None: it has ended
  todo,        \* the rooms Close still has to remove
  recorded,    \* history: segments recorded so far
  reported     \* history: segments that were part of a summary

managerVars  == <<savers, stopping, closed, restarting>>
recorderVars == <<roomOf, stopped, done, owing, suppress, files>>
callVars     == <<pc, target, fresh, carry>>
vars == <<managerVars, recorderVars, callVars, chain, todo, recorded, reported>>

Made == {x \in Recorder : roomOf[x] # None}
Live == Made \ done

\* Mutant: only the map is counted.
ActiveInMap == Cardinality({r \in Room : savers[r] # None})

\* GetActiveRecordingsCount: the map, and the old recorders still being closed.
ActiveRecordings == Cardinality({r \in Room : savers[r] # None}) + restarting

Init ==
  /\ savers = [r \in Room |-> None]
  /\ stopping = [r \in Room |-> None]
  /\ closed = FALSE
  /\ restarting = 0
  /\ roomOf = [x \in Recorder |-> None]
  /\ stopped = {} /\ done = {} /\ owing = {} /\ suppress = {}
  /\ files = [x \in Recorder |-> {}]
  /\ pc = [c \in Caller |-> "idle"]
  /\ target = [c \in Caller |-> None]
  /\ fresh = [c \in Caller |-> None]
  /\ carry = [c \in Caller |-> {}]
  /\ chain = [k \in Cron |-> None]
  /\ todo = {}
  /\ recorded = {} /\ reported = {}

-----------------------------------------------------------------------------
(* What the locked sections share.                                         *)

(* addRecorderLocked starts a cronRestart goroutine before it starts the   *)
(* recorder.  ended is the chain that ends with this call, or None.        *)
SpawnChain(r, ended) ==
  IF Cron = {} THEN UNCHANGED chain
  ELSE \E k \in Cron :
         /\ chain[k] = None
         /\ chain' = [c \in Cron |->
              IF c = k THEN r ELSE IF c = ended THEN None ELSE chain[c]]

\* Mutant: the chain is started after the recorder, so a failed start has none.
SpawnIfStarted(r, ended) ==
  chain' = [c \in Cron |-> IF c = ended THEN None ELSE chain[c]]

\* A start that fails leaves its chain behind.
SpawnOnFailure(r, ended) == SpawnChain(r, ended)

\* Mutant: a closed manager still takes recorders.
AcceptsAlways(r) == savers[r] = None

\* The early returns of addRecorderLocked.
Accepts(r) == ~closed /\ savers[r] = None

\* Mutant: a recorder that is being removed is replaced.
ReplacesStopping(r) == ~closed /\ savers[r] # None

\* The early returns of RestartRecorder.
CanReplace(r) == ~closed /\ stopping[r] = None /\ savers[r] # None

-----------------------------------------------------------------------------
(* The event lane of a room, and the cronRestart chains.                   *)

\* LiveStart: AddRecorder makes, registers and starts a recorder.
AddRecorder(r, x) ==
  /\ pc[r] = "idle"
  /\ Accepts(r)
  /\ x \notin Made
  /\ savers' = [savers EXCEPT ![r] = x]
  /\ roomOf' = [roomOf EXCEPT ![x] = r]
  /\ owing' = owing \cup {x}
  /\ SpawnChain(r, None)
  /\ UNCHANGED <<stopping, closed, restarting, stopped, done, suppress, files>>
  /\ UNCHANGED <<callVars, todo, recorded, reported>>

\* The recorder could not be started: it is dropped from the map again.
AddFails(r) ==
  /\ pc[r] = "idle"
  /\ Accepts(r)
  /\ SpawnOnFailure(r, None)
  /\ UNCHANGED <<managerVars, recorderVars, callVars, todo, recorded, reported>>

\* cronRestart found a recorder whose time is up and calls RestartRecorder.
CronDue(k) ==
  /\ chain[k] # None
  /\ pc[k] = "idle"
  /\ savers[chain[k]] # None
  /\ pc' = [pc EXCEPT ![k] = "due"]
  /\ UNCHANGED <<managerVars, recorderVars, target, fresh, carry, chain, todo>>
  /\ UNCHANGED <<recorded, reported>>

\* The caller is about to run RestartRecorder for the room.
Restarts(c, r) == \/ c = r /\ pc[r] = "idle"
                  \/ c \in Cron /\ chain[c] = r /\ pc[c] = "due"

\* Mutant: the count is left alone.
CountNothing == restarting

\* m.restartingCount.Add(1), still under the lock.
CountOld == restarting + 1

(* RestartRecorder, locked section: the old recorder is taken out of the   *)
(* map and the new one is put in, and the old one is counted from here on. *)
Replace(c, r, x) ==
  /\ Restarts(c, r)
  /\ CanReplace(r)
  /\ x \notin Made
  /\ savers' = [savers EXCEPT ![r] = x]
  /\ roomOf' = [roomOf EXCEPT ![x] = r]
  /\ owing' = owing \cup {x}
  /\ restarting' = CountOld
  /\ pc' = [pc EXCEPT ![c] = "replaced"]
  /\ target' = [target EXCEPT ![c] = savers[r]]
  /\ fresh' = [fresh EXCEPT ![c] = x]
  /\ SpawnChain(r, None)
  /\ UNCHANGED <<stopping, closed, stopped, done, suppress, files, carry, todo>>
  /\ UNCHANGED <<recorded, reported>>

\* The new recorder could not be started: the old one is put back.
ReplaceFails(c, r) ==
  /\ Restarts(c, r)
  /\ CanReplace(r)
  /\ pc' = [pc EXCEPT ![c] = "idle"]
  /\ SpawnOnFailure(r, c)
  /\ UNCHANGED <<managerVars, recorderVars, target, fresh, carry, todo>>
  /\ UNCHANGED <<recorded, reported>>

\* A chain ends when its room has no recorder or RestartRecorder refuses.
ChainEnds(k) ==
  /\ chain[k] # None
  /\ \/ pc[k] = "idle" /\ savers[chain[k]] = None
     \/ pc[k] = "due" /\ ~CanReplace(chain[k])
  /\ chain' = [chain EXCEPT ![k] = None]
  /\ pc' = [pc EXCEPT ![k] = "idle"]
  /\ UNCHANGED <<managerVars, recorderVars, target, fresh, carry, todo>>
  /\ UNCHANGED <<recorded, reported>>

\* CloseForRestart: no summary from the old recorder, then recorder.Close.
CloseForRestart(c) ==
  /\ pc[c] = "replaced"
  /\ suppress' = suppress \cup {target[c]}
  /\ stopped' = stopped \cup {target[c]}
  /\ pc' = [pc EXCEPT ![c] = "draining"]
  /\ UNCHANGED <<managerVars, roomOf, done, owing, files, target, fresh, carry>>
  /\ UNCHANGED <<chain, todo, recorded, reported>>

\* CloseForRestart waits for r.done and returns the files of the old recorder.
Collect(c) ==
  /\ pc[c] = "draining"
  /\ target[c] \in done
  /\ carry' = [carry EXCEPT ![c] = files[target[c]]]
  /\ pc' = [pc EXCEPT ![c] = "collected"]
  /\ UNCHANGED <<managerVars, recorderVars, target, fresh, chain, todo>>
  /\ UNCHANGED <<recorded, reported>>

\* Under m.lock: is the new recorder still the one in the map?
Compare(c) ==
  /\ pc[c] = "collected"
  /\ \E r \in Room :
       /\ r = roomOf[target[c]]
       /\ IF carry[c] # {} /\ savers[r] = fresh[c]
            THEN pc' = [pc EXCEPT ![c] = "handing"] /\ UNCHANGED carry
            ELSE pc' = [pc EXCEPT ![c] = "handed"] /\ carry' = [carry EXCEPT ![c] = {}]
  /\ UNCHANGED <<managerVars, recorderVars, target, fresh, chain, todo>>
  /\ UNCHANGED <<recorded, reported>>

\* SetInitialRecordedFiles, after the lock has been released.
HandOver(c) ==
  /\ pc[c] = "handing"
  /\ files' = [files EXCEPT ![fresh[c]] = @ \cup carry[c]]
  /\ carry' = [carry EXCEPT ![c] = {}]
  /\ pc' = [pc EXCEPT ![c] = "handed"]
  /\ UNCHANGED <<managerVars, roomOf, stopped, done, owing, suppress, target, fresh>>
  /\ UNCHANGED <<chain, todo, recorded, reported>>

\* The deferred end of RestartRecorder; a chain that called it ends with it.
RestartReturns(c) ==
  /\ pc[c] = "handed"
  /\ restarting' = restarting - 1
  /\ pc' = [pc EXCEPT ![c] = "idle"]
  /\ target' = [target EXCEPT ![c] = None]
  /\ fresh' = [fresh EXCEPT ![c] = None]
  /\ chain' = [k \in Cron |-> IF k = c THEN None ELSE chain[k]]
  /\ UNCHANGED <<savers, stopping, closed, recorderVars, carry, todo>>
  /\ UNCHANGED <<recorded, reported>>

-----------------------------------------------------------------------------
(* Removal, by the lane of the room (LiveEnd, ListenStop) or by main.      *)

\* The caller is about to run RemoveRecorder for the room.
Removes(c, r) == \/ c = r /\ pc[r] = "idle" /\ savers[r] # None
                 \/ c = Main /\ pc[Main] = "closing" /\ r \in todo

\* RemoveRecorder: mark the room, release the lock and close the recorder.
RemoveRecorder(c, r) ==
  /\ Removes(c, r)
  /\ stopping[r] = None
  /\ savers[r] # None
  /\ stopping' = [stopping EXCEPT ![r] = savers[r]]
  /\ stopped' = stopped \cup {savers[r]}
  /\ target' = [target EXCEPT ![c] = savers[r]]
  /\ pc' = [pc EXCEPT ![c] = "removing"]
  /\ todo' = IF c = Main THEN todo \ {r} ELSE todo
  /\ UNCHANGED <<savers, closed, restarting, roomOf, done, owing, suppress, files>>
  /\ UNCHANGED <<fresh, carry, chain, recorded, reported>>

\* Somebody else removes the recorder: wait for it on the channel of stopping.
JoinRemoval(c, r) ==
  /\ Removes(c, r)
  /\ stopping[r] # None
  /\ target' = [target EXCEPT ![c] = stopping[r]]
  /\ pc' = [pc EXCEPT ![c] = "joined"]
  /\ todo' = IF c = Main THEN todo \ {r} ELSE todo
  /\ UNCHANGED <<managerVars, recorderVars, fresh, carry, chain, recorded, reported>>

\* Main finds that the room has lost its recorder in the meantime.
NothingToRemove(r) ==
  /\ Removes(Main, r)
  /\ stopping[r] = None /\ savers[r] = None
  /\ todo' = todo \ {r}
  /\ UNCHANGED <<managerVars, recorderVars, callVars, chain, recorded, reported>>

\* Where a caller goes on after a removal.
After(c) == IF c = Main THEN "closing" ELSE "idle"

\* Mutant: the mark of the room is left behind.
ReleaseNothing(r) == UNCHANGED stopping

\* The deferred section takes the mark away and wakes who waits on it.
Release(r) == stopping' = [stopping EXCEPT ![r] = None]

\* Those who wait for the removal c has ended: close(done) wakes them all.
Woken(c) == {d \in Caller : d = c \/ (pc[d] = "joined" /\ target[d] = target[c])}

(* The recorder is closed: its entry goes and its channel is closed.  When *)
(* Close panics instead, only the mark goes and the entry stays; the event *)
(* lane survives the panic.                                                *)
RemoveReturns(c, finished) ==
  /\ pc[c] = "removing"
  /\ finished => target[c] \in done
  /\ \E r \in Room :
       /\ r = roomOf[target[c]]
       /\ savers' = IF finished THEN [savers EXCEPT ![r] = None] ELSE savers
       /\ Release(r)
  /\ target' = [d \in Caller |-> IF d \in Woken(c) THEN None ELSE target[d]]
  /\ pc' = [d \in Caller |-> IF d \in Woken(c) THEN After(d) ELSE pc[d]]
  /\ UNCHANGED <<closed, restarting, recorderVars, fresh, carry, chain, todo>>
  /\ UNCHANGED <<recorded, reported>>

\* manager.Close: from now on no recorder is added; those in the map are removed.
CloseManager ==
  /\ pc[Main] = "idle" /\ ~closed
  /\ closed' = TRUE
  /\ todo' = {r \in Room : savers[r] # None}
  /\ pc' = [pc EXCEPT ![Main] = "closing"]
  /\ UNCHANGED <<savers, stopping, restarting, recorderVars, target, fresh, carry>>
  /\ UNCHANGED <<chain, recorded, reported>>

ManagerClosed ==
  /\ pc[Main] = "closing" /\ todo = {}
  /\ pc' = [pc EXCEPT ![Main] = "closed"]
  /\ UNCHANGED <<managerVars, recorderVars, target, fresh, carry, chain, todo>>
  /\ UNCHANGED <<recorded, reported>>

-----------------------------------------------------------------------------
(* The goroutine of a recorder.                                            *)

\* accumulateRecordedFiles, also for the last file after a stop.
Accumulate(x, g) ==
  /\ x \in Live
  /\ g \notin recorded
  /\ recorded' = recorded \cup {g}
  /\ files' = [files EXCEPT ![x] = @ \cup {g}]
  /\ UNCHANGED <<managerVars, roomOf, stopped, done, owing, suppress, callVars>>
  /\ UNCHANGED <<chain, todo, reported>>

\* run() has seen r.stop and returns: its deferred calls close r.done ...
RunEnds(x) ==
  /\ x \in Live /\ x \in stopped
  /\ done' = done \cup {x}
  /\ UNCHANGED <<managerVars, roomOf, stopped, owing, suppress, files, callVars>>
  /\ UNCHANGED <<chain, todo, recorded, reported>>

\* ... as they do when tryRecord panics or the root context is cancelled ...
RunDies(x) ==
  /\ x \in (Live \cap Mortal) \ stopped
  /\ done' = done \cup {x}
  /\ UNCHANGED <<managerVars, roomOf, stopped, owing, suppress, files, callVars>>
  /\ UNCHANGED <<chain, todo, recorded, reported>>

(* ... and then send the summary, unless a restart has suppressed it.  The *)
(* room's entry in the cache, without which nothing is sent, was made by   *)
(* the answer that found the room live and is never removed.               *)
SendAccumulatedSummary(x) ==
  /\ x \in done \cap owing
  /\ owing' = owing \ {x}
  /\ reported' = IF x \in suppress THEN reported ELSE reported \cup files[x]
  /\ UNCHANGED <<managerVars, roomOf, stopped, done, suppress, files, callVars>>
  /\ UNCHANGED <<chain, todo, recorded>>

-----------------------------------------------------------------------------

RestartStep(c) ==
  \/ CloseForRestart(c) \/ Collect(c) \/ Compare(c) \/ HandOver(c) \/ RestartReturns(c)

RecorderStep(x) ==
  \/ \E g \in Segment : Accumulate(x, g)
  \/ RunEnds(x) \/ RunDies(x) \/ SendAccumulatedSummary(x)

\* The steps after which onRecordingEndFunc is called.
RecordingEnds ==
  \/ \E c \in Room \cup Cron : RestartReturns(c)
  \/ \E c \in Room \cup {Main} : RemoveReturns(c, TRUE)

OtherSteps ==
  \/ \E r \in Room, x \in Recorder : AddRecorder(r, x)
  \/ \E r \in Room : AddFails(r)
  \/ \E k \in Cron : CronDue(k) \/ ChainEnds(k)
  \/ \E c \in Room \cup Cron, r \in Room :
       \/ \E x \in Recorder : Replace(c, r, x)
       \/ ReplaceFails(c, r)
  \/ \E c \in Room \cup Cron :
       CloseForRestart(c) \/ Collect(c) \/ Compare(c) \/ HandOver(c)
  \/ \E c \in Room \cup {Main}, r \in Room : RemoveRecorder(c, r) \/ JoinRemoval(c, r)
  \/ \E r \in Room : NothingToRemove(r) \/ RemoveReturns(r, FALSE)
  \/ CloseManager \/ ManagerClosed
  \/ \E x \in Recorder : RecorderStep(x)

Next == RecordingEnds \/ OtherSteps

Spec == Init /\ [][Next]_vars

-----------------------------------------------------------------------------
(* What the manager promises.                                              *)

ManagerTypeOK ==
  /\ savers \in [Room -> Recorder \cup {None}]
  /\ stopping \in [Room -> Recorder \cup {None}]
  /\ closed \in BOOLEAN

RecorderTypeOK ==
  /\ roomOf \in [Recorder -> Room \cup {None}]
  /\ done \in SUBSET Recorder /\ stopped \in SUBSET Recorder
  /\ owing \in SUBSET Recorder /\ suppress \in SUBSET Recorder
  /\ files \in [Recorder -> SUBSET Segment]

CallTypeOK ==
  /\ pc \in [Caller -> {"idle", "due", "replaced", "draining", "collected", "handing",
                        "handed", "removing", "joined", "closing", "closed"}]
  /\ target \in [Caller -> Recorder \cup {None}]
  /\ fresh \in [Caller -> Recorder \cup {None}]
  /\ carry \in [Caller -> SUBSET Segment]

OtherTypeOK ==
  /\ chain \in [Cron -> Room \cup {None}]
  /\ todo \in SUBSET Room
  /\ recorded \in SUBSET Segment /\ reported \in SUBSET Segment

(* Every piece of the manager's and the recorders' state has its type, and *)
(* the count of old recorders is between zero and the number of callers.   *)
TypeOK ==
  /\ ManagerTypeOK /\ RecorderTypeOK /\ CallTypeOK /\ OtherTypeOK
  /\ restarting \in 0..Cardinality(Caller)

(* A recorder that is still running is counted: neither a split nor a      *)
(* removal that overlaps one lets the count reach zero while an old        *)
(* recorder is still being closed, which would let an update cut it off.   *)
ActiveIsCounted == Cardinality(Live) <= ActiveRecordings

(* No zombie: a recorder nobody has told to stop is the recorder of its    *)
(* room, or a RestartRecorder in progress is about to close it.            *)
NoZombieRecorder ==
  \A x \in Live \ stopped :
    \/ savers[roomOf[x]] = x
    \/ \E c \in Caller : pc[c] = "replaced" /\ target[c] = x

(* While splitting is on, a room that records has a chain that will split  *)
(* it, whichever restarts failed, overlapped or were refused before.       *)
SplitIsScheduled ==
  \A r \in Room :
    (Cron # {} /\ ~closed /\ stopping[r] = None /\ savers[r] \in Live \ stopped) =>
      \E k \in Cron : chain[k] = r /\ pc[k] \in {"idle", "due"}

(* Once the manager is closed no recorder is made, by a late LiveStart, a  *)
(* room name change or a chain that was already on its way.                *)
ClosedForGood == [][closed => roomOf' = roomOf]_vars

(* Every recorded segment is part of a summary, or is still on its way to  *)
(* one: held by a recorder that owes a summary, or by a restart.           *)
NoSegmentLost ==
  \A g \in recorded :
    \/ g \in reported
    \/ \E x \in owing \ suppress : g \in files[x]
    \/ \E c \in Caller : \/ g \in carry[c]
                         \/ pc[c] = "draining" /\ g \in files[target[c]]

(* Nobody waits in vain: who waits for a recorder to end has told it to    *)
(* stop, and a mark on a room, or a caller that waits on its channel, has  *)
(* a removal under way that will take the mark away and close the channel, *)
(* however restarts, removals, panics and the shutdown meet on one room.   *)
NobodyWaitsInVain ==
  /\ \A c \in Caller : pc[c] \in {"draining", "removing"} => target[c] \in stopped
  /\ \A r \in Room :
       stopping[r] # None => \E c \in Caller : pc[c] = "removing" /\ target[c] = stopping[r]
  /\ \A d \in Caller :
       pc[d] = "joined" => \E c \in Caller : pc[c] = "removing" /\ target[c] = target[d]

=============================================================================
