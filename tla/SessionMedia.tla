---------------------------- MODULE SessionMedia ----------------------------
(***************************************************************************)
(* The media of one broadcast, from its recordings to one episode in the   *)
(* library: the subtitle stage of every task (subtitle_generate.go, with   *)
(* the checkpoints of recording_checkpoint.go), the publication of the     *)
(* episode (session_publication.go, live_session_media.go) and the removal *)
(* of the original recordings (subtitle/recording_sources.go), beside a    *)
(* worker that may answer late or never, crashes, and files of others.     *)
(*                                                                         *)
(* A session made by this version (PublicationVersion 1).  Files are facts *)
(* about the disk; a link or a rename is one step, a file that is written  *)
(* in place may be torn by a crash.                                        *)
(***************************************************************************)
EXTENDS Naturals, Sequences

CONSTANTS Task, Input,
          InputsOf,     \* the recordings of a task, in the order of its files
          Cleaner,      \* the retention and the DELETE handler
          None,
          MaxFaults     \* bound: crashes, failing calls and files of others

ASSUME MediaConstants ==
  /\ Cleaner \notin Task /\ None \notin Task \cup Input \cup {Cleaner}
  /\ InputsOf \in [Task -> Seq(Input) \ {<<>>}]
  /\ MaxFaults \in Nat

\* A recording is enqueued once: it is one of one task.
ASSUME OneTaskPerInput ==
  \A t, u \in Task : \A m \in DOMAIN InputsOf[t], n \in DOMAIN InputsOf[u] :
    InputsOf[t][m] = InputsOf[u][n] => t = u

VARIABLES
  ckpt,      \* the status in the checkpoint of a recording
  job,       \* what the worker does in the directory of the attempt it names
  confirm,   \* the metadata file in that directory
  placed,    \* how many of srt, ass and mp4 are linked to their final place
  alien,     \* somebody else's file lies there instead of the mp4
  linked,    \* SourcePublicationPath of the checkpoint is set
  original,  \* the original recording exists
  burns,     \* history: how often the worker began on a recording, up to 2
  row,       \* the status of a task: "pending", "failed" or "done"
  pc,        \* where Execute is
  pos,       \* the recording it is at
  ended,     \* the session has ended and its tasks are registered
  media,     \* tasks whose media the ledger holds to be complete
  pub,       \* the files of the episode: "none", "ours", "foreign", "torn"
  keep,      \* KeepSource of the episode
  gone,      \* SourceExists is FALSE and SourceDeletedAt set
  posted,    \* PostedContentHash of the manifest
  mutex,     \* who holds knowledgeSessionManifestMu
  lock,      \* who holds LockLibraryPublication
  applied,   \* how many files the running publication has put in place
  undo,      \* the files a failed one has still to take away
  sweep,     \* where the removal of the originals is
  todo,      \* the recordings it has still to visit
  marks,     \* the checkpoints still to be marked with the knowledge status
  copy,      \* the checkpoint that is being marked: its recording and link
  broken,    \* history: a publication was cut off, or could not be undone
  spoiled,   \* history: recordings that lost the link to the episode
  faults

workVars   == <<ckpt, job, confirm, placed, alien, linked, original, burns>>
taskVars   == <<row, pc, pos>>
ledgerVars == <<ended, media>>
pubVars    == <<pub, keep, gone, posted>>
lockVars   == <<mutex, lock>>
stageVars  == <<applied, undo>>
sweepVars  == <<sweep, todo>>
markVars   == <<marks, copy>>
histVars   == <<broken, spoiled, faults>>
vars == <<workVars, taskVars, ledgerVars, pubVars, lockVars, stageVars, sweepVars,
          markVars, histVars>>

\* The order of publication; "show" stands for tvshow.nfo and poster.jpg.
Order == <<"srt", "ass", "nfo", "jpg", "show", "mp4", "json">>
File == {Order[n] : n \in DOMAIN Order}

Init ==
  /\ ckpt = [i \in Input |-> "none"]
  /\ job = [i \in Input |-> "none"]
  /\ confirm = [i \in Input |-> "none"]
  /\ placed = [i \in Input |-> 0]
  /\ alien = [i \in Input |-> FALSE]
  /\ linked = [i \in Input |-> FALSE]
  /\ original = [i \in Input |-> TRUE]
  /\ burns = [i \in Input |-> 0]
  /\ row = [t \in Task |-> "pending"]
  /\ pc = [t \in Task |-> "idle"]
  /\ pos = [t \in Task |-> 1]
  /\ ended = FALSE /\ media = {}
  /\ pub = [f \in File |-> "none"]
  /\ keep = FALSE /\ gone = FALSE /\ posted = FALSE
  /\ mutex = None /\ lock = None
  /\ applied = 0 /\ undo = {}
  /\ sweep = "none" /\ todo = {}
  /\ marks = {} /\ copy = None
  /\ broken = FALSE /\ spoiled = {} /\ faults = 0

Ready == ended /\ media = Task
Current(t) == InputsOf[t][pos[t]]

At(t, p) == pc[t] = p
Goto(t, p) == pc' = [pc EXCEPT ![t] = p] /\ UNCHANGED <<row, pos>>

\* Execute returns; the deferred calls give the locks back.
Return(t, status) ==
  /\ pc' = [pc EXCEPT ![t] = "idle"]
  /\ row' = [row EXCEPT ![t] = status]
  /\ pos' = [pos EXCEPT ![t] = 1]
  /\ mutex' = (IF mutex = t THEN None ELSE mutex)
  /\ lock' = (IF lock = t THEN None ELSE lock)

Fault == faults < MaxFaults /\ faults' = faults + 1

-----------------------------------------------------------------------------
(* The recordings of a task: checkpoints and worker.                       *)

\* A task whose media are complete is held back until the session is ready.
Start(t) ==
  /\ At(t, "idle") /\ row[t] = "pending"
  /\ t \in media => Ready
  /\ Goto(t, "load")
  /\ UNCHANGED <<workVars, ledgerVars, pubVars, lockVars, stageVars, sweepVars>>
  /\ UNCHANGED <<markVars, histVars>>

\* A video of a recording exists: the final one, or one in the attempt.
VideoThere(i) == placed[i] = 3 \/ alien[i] \/ job[i] \in {"done", "left"}

Untouched(i) == placed[i] = 0 /\ ~alien[i]
Unfinished(i) == ckpt[i] \in {"running", "queued", "failed"}

(* loadRecordingCheckpoint lets a recording go to the worker only when     *)
(* there is no trace of an earlier attempt, or that one did not run.       *)
MayAsk(i) ==
  \/ ckpt[i] = "none" /\ Untouched(i)
  \/ ckpt[i] \in {"queued", "failed"} /\ confirm[i] = "none" /\ ~VideoThere(i)

\* The attempt has been confirmed; the checkpoint follows if it does not yet.
LoadFinished(t) ==
  /\ At(t, "load")
  /\ LET i == Current(t)
     IN  /\ ckpt[i] = "completed" \/ (Unfinished(i) /\ confirm[i] = "ok")
         /\ ckpt' = [ckpt EXCEPT ![i] = "completed"]
  /\ Goto(t, "promote")
  /\ UNCHANGED <<job, confirm, placed, alien, linked, original, burns>>
  /\ UNCHANGED <<ledgerVars, pubVars, lockVars, stageVars, sweepVars, markVars, histVars>>

\* A new attempt: its directory, then the checkpoint that names it.
BeginAttempt(t) ==
  /\ At(t, "load")
  /\ LET i == Current(t)
     IN  /\ MayAsk(i)
         /\ ckpt' = [ckpt EXCEPT ![i] = "running"]
         /\ job' = [job EXCEPT ![i] = "none"]
         /\ confirm' = [confirm EXCEPT ![i] = "none"]
  /\ Goto(t, "ask")
  /\ UNCHANGED <<placed, alien, linked, original, burns>>
  /\ UNCHANGED <<ledgerVars, pubVars, lockVars, stageVars, sweepVars, markVars, histVars>>

\* "checkpoint recovery required": only a person can tell what happened.
LoadRefused(t) ==
  /\ At(t, "load")
  /\ LET i == Current(t)
     IN  /\ ~(ckpt[i] = "completed" \/ (Unfinished(i) /\ confirm[i] = "ok"))
         /\ ~MayAsk(i)
  /\ Return(t, "failed")
  /\ UNCHANGED <<workVars, ledgerVars, pubVars, stageVars, sweepVars, markVars, histVars>>

Ask(t) ==
  /\ At(t, "ask")
  /\ job' = [job EXCEPT ![Current(t)] = "asked"]
  /\ Goto(t, "answer")
  /\ UNCHANGED <<ckpt, confirm, placed, alien, linked, original, burns>>
  /\ UNCHANGED <<ledgerVars, pubVars, lockVars, stageVars, sweepVars, markVars, histVars>>

(* The worker, outside of the program: it refuses, or begins; it finishes, *)
(* or breaks off with or without a video.  It does not mind whether its    *)
(* caller still listens.                                                   *)
WorkerStep(i) ==
  /\ \/ /\ job[i] = "asked"
        /\ job' = [job EXCEPT ![i] = "refused"] /\ UNCHANGED burns
     \/ /\ job[i] = "asked"
        /\ job' = [job EXCEPT ![i] = "working"]
        /\ burns' = [burns EXCEPT ![i] = IF @ < 2 THEN @ + 1 ELSE @]
     \/ /\ job[i] = "working"
        /\ job' \in {[job EXCEPT ![i] = s] : s \in {"done", "left", "broken"}}
        /\ UNCHANGED burns
  /\ UNCHANGED <<ckpt, confirm, placed, alien, linked, original>>
  /\ UNCHANGED <<taskVars, ledgerVars, pubVars, lockVars, stageVars, sweepVars>>
  /\ UNCHANGED <<markVars, histVars>>

AnswerDone(t) ==
  /\ At(t, "answer") /\ job[Current(t)] = "done"
  /\ Goto(t, "confirm")
  /\ UNCHANGED <<workVars, ledgerVars, pubVars, lockVars, stageVars, sweepVars>>
  /\ UNCHANGED <<markVars, histVars>>

\* RetryLater: the Mac transcriber was not there, nothing has been burned.
AnswerRefused(t) ==
  /\ At(t, "answer") /\ job[Current(t)] = "refused"
  /\ ckpt' = [ckpt EXCEPT ![Current(t)] = "queued"]
  /\ Return(t, "pending")
  /\ UNCHANGED <<job, confirm, placed, alien, linked, original, burns>>
  /\ UNCHANGED <<ledgerVars, pubVars, stageVars, sweepVars, markVars, histVars>>

\* Mutant: any error counts as a failure of the worker.
FailedAfterError == "failed"

\* An ordinary failure may come after the worker has finished.
AfterError == "running"

\* A time-out, a lost connection or an answer that is an error.
AnswerLost(t) ==
  /\ At(t, "answer")
  /\ ckpt' = [ckpt EXCEPT ![Current(t)] = AfterError]
  /\ Return(t, "failed")
  /\ UNCHANGED <<job, confirm, placed, alien, linked, original, burns>>
  /\ UNCHANGED <<ledgerVars, pubVars, stageVars, sweepVars, markVars, histVars>>

\* The answer is kept beside the video before the checkpoint says so.
Confirm(t) ==
  /\ At(t, "confirm")
  /\ confirm' = [confirm EXCEPT ![Current(t)] = "ok"]
  /\ Goto(t, "complete")
  /\ UNCHANGED <<ckpt, job, placed, alien, linked, original, burns>>
  /\ UNCHANGED <<ledgerVars, pubVars, lockVars, stageVars, sweepVars, markVars, histVars>>

Complete(t) ==
  /\ At(t, "complete")
  /\ ckpt' = [ckpt EXCEPT ![Current(t)] = "completed"]
  /\ Goto(t, "promote")
  /\ UNCHANGED <<job, confirm, placed, alien, linked, original, burns>>
  /\ UNCHANGED <<ledgerVars, pubVars, lockVars, stageVars, sweepVars, markVars, histVars>>

\* promoteRecordingAttempt links one file; a link of its own is passed over.
LinkOutput(t) ==
  /\ At(t, "promote")
  /\ LET i == Current(t)
     IN  /\ placed[i] < 3 /\ ~(placed[i] = 2 /\ alien[i])
         /\ placed' = [placed EXCEPT ![i] = @ + 1]
  /\ UNCHANGED <<ckpt, job, confirm, alien, linked, original, burns>>
  /\ UNCHANGED <<taskVars, ledgerVars, pubVars, lockVars, stageVars, sweepVars>>
  /\ UNCHANGED <<markVars, histVars>>

OutputConflict(t) ==
  /\ At(t, "promote")
  /\ placed[Current(t)] = 2 /\ alien[Current(t)]
  /\ Return(t, "failed")
  /\ UNCHANGED <<workVars, ledgerVars, pubVars, stageVars, sweepVars, markVars, histVars>>

\* The next recording, or the media of the task are complete.
Placed(t) ==
  /\ At(t, "promote") /\ placed[Current(t)] = 3
  /\ \/ /\ pos[t] < Len(InputsOf[t])
        /\ pos' = [pos EXCEPT ![t] = @ + 1]
        /\ pc' = [pc EXCEPT ![t] = "load"] /\ UNCHANGED row
     \/ pos[t] = Len(InputsOf[t]) /\ Goto(t, "media")
  /\ UNCHANGED <<workVars, ledgerVars, pubVars, lockVars, stageVars, sweepVars>>
  /\ UNCHANGED <<markVars, histVars>>

\* SessionMediaReady, and the return of a task that is not the last one.
CompleteMedia(t) ==
  /\ At(t, "media")
  /\ media' = media \cup {t} /\ UNCHANGED ended
  /\ IF Ready' THEN Goto(t, "manifest") /\ UNCHANGED lockVars ELSE Return(t, "pending")
  /\ UNCHANGED <<workVars, pubVars, stageVars, sweepVars, markVars, histVars>>

-----------------------------------------------------------------------------
(* The publication of the episode.                                         *)

WorkIsWhole(i) == ckpt[i] = "completed" /\ placed[i] = 3

(* The manifest lists the media of all tasks, each verified, and is saved  *)
(* before the episode gets its name.                                       *)
SaveManifest(t) ==
  /\ At(t, "manifest") /\ mutex = None
  /\ IF \A i \in Input : WorkIsWhole(i)
       THEN Goto(t, "lookup") /\ mutex' = t /\ UNCHANGED lock
       ELSE Return(t, "failed")
  /\ UNCHANGED <<workVars, ledgerVars, pubVars, stageVars, sweepVars, markVars, histVars>>

\* loadCompletedSubtitleMetadata and validateCompletedCheckpoint of the episode.
Ours(files) == \A f \in files : pub[f] = "ours"
Found == Ours({"json", "mp4", "srt", "ass"})

\* ValidatePublishedLibraryEpisode: the NFO carries the episode's number.
Valid == Found /\ Ours({"nfo"})

\* Mutant: the metadata alone tells that there is an episode.
MetadataTells == Ours({"json"})

Reuses == Found

\* An episode that is there is used as it is.
Reuse(t) ==
  /\ At(t, "lookup") /\ lock = None
  /\ Reuses /\ Ours({"nfo"})
  /\ Goto(t, "post")
  /\ UNCHANGED <<workVars, ledgerVars, pubVars, lockVars, stageVars, sweepVars>>
  /\ UNCHANGED <<markVars, histVars>>

\* "unverified target already exists", or an episode without its NFO.
Unverified(t) ==
  /\ At(t, "lookup") /\ lock = None
  /\ IF Reuses THEN ~Ours({"nfo"}) ELSE pub["mp4"] # "none"
  /\ Return(t, "failed")
  /\ UNCHANGED <<workVars, ledgerVars, pubVars, stageVars, sweepVars, markVars, histVars>>

\* The video and its sidecars are made in a hidden directory.
Build(t) ==
  /\ At(t, "lookup") /\ lock = None
  /\ ~Reuses /\ pub["mp4"] = "none"
  /\ lock' = t
  /\ Goto(t, "link")
  /\ applied' = 0
  /\ UNCHANGED <<mutex, undo>>
  /\ UNCHANGED <<workVars, ledgerVars, pubVars, sweepVars, markVars, histVars>>

\* Mutant: a rename replaces what is there.
MayReplace(f) == TRUE

\* os.Link fails when there is a file; only the show's files are replaced.
MayPlace(f) == f = "show" \/ pub[f] = "none"

PublishFile(t) ==
  /\ At(t, "link") /\ applied < Len(Order)
  /\ LET f == Order[applied + 1]
     IN  MayPlace(f) /\ pub' = [pub EXCEPT ![f] = "ours"]
  /\ applied' = applied + 1
  /\ UNCHANGED <<keep, gone, posted, undo>>
  /\ UNCHANGED <<workVars, taskVars, ledgerVars, lockVars, sweepVars, markVars, histVars>>

\* Mutant: a video that was published stays where it is.
SidecarsOnly == {Order[n] : n \in 1..applied} \ {"mp4"}

\* What a failure has to take away: what has been put in place.
Recovery == {Order[n] : n \in 1..applied}

Undo(t) == undo' = Recovery /\ Goto(t, "undo") /\ UNCHANGED applied

\* The video goes first, then the other files back to front.
GoesNext(f) ==
  /\ f \in undo
  /\ IF "mp4" \in undo THEN f = "mp4"
     ELSE \A m, n \in DOMAIN Order : Order[n] = f /\ Order[m] \in undo => m <= n

\* A file of somebody else, a call that fails, or the manifest is not saved.
PublishFails(t) ==
  /\ At(t, "link")
  /\ \/ applied < Len(Order) /\ ~MayPlace(Order[applied + 1]) /\ UNCHANGED faults
     \/ Fault
  /\ Undo(t)
  /\ UNCHANGED <<broken, spoiled>>
  /\ UNCHANGED <<workVars, ledgerVars, pubVars, lockVars, sweepVars, markVars>>

\* The episode is there; the lock of the library is given back.
Commit(t) ==
  /\ At(t, "link") /\ applied = Len(Order)
  /\ lock' = None
  /\ applied' = 0
  /\ Goto(t, "post")
  /\ UNCHANGED <<mutex, undo>>
  /\ UNCHANGED <<workVars, ledgerVars, pubVars, sweepVars, markVars, histVars>>

\* The show's files get back what they had before.
UndoFile(t) ==
  /\ At(t, "undo")
  /\ \E f \in undo :
       /\ GoesNext(f)
       /\ pub' = [pub EXCEPT ![f] = "none"]
       /\ undo' = undo \ {f}
  /\ UNCHANGED <<keep, gone, posted, applied>>
  /\ UNCHANGED <<workVars, taskVars, ledgerVars, lockVars, sweepVars, markVars, histVars>>

(* Nothing is taken away when a file can no longer be verified or the      *)
(* video, the first, cannot be removed.  A later file that cannot stays.   *)
UndoFails(t) ==
  /\ At(t, "undo") /\ undo # {}
  /\ Fault
  /\ \/ undo = Recovery /\ undo' = {}
     \/ "mp4" \notin undo /\ \E f \in undo : GoesNext(f) /\ undo' = undo \ {f}
  /\ broken' = TRUE
  /\ UNCHANGED <<applied, spoiled>>
  /\ UNCHANGED <<workVars, taskVars, ledgerVars, pubVars, lockVars, sweepVars, markVars>>

Undone(t) ==
  /\ At(t, "undo") /\ undo = {}
  /\ applied' = 0
  /\ Return(t, "failed")
  /\ UNCHANGED <<undo, workVars, ledgerVars, pubVars, sweepVars, markVars, histVars>>

\* A call fails in a step that has changed nothing yet.
StageFails(t) ==
  /\ pc[t] \in {"load", "ask", "answer", "confirm", "complete", "promote", "media",
                "manifest", "lookup", "post"}
  /\ Fault
  /\ Return(t, "failed")
  /\ UNCHANGED <<broken, spoiled>>
  /\ UNCHANGED <<workVars, ledgerVars, pubVars, stageVars, sweepVars, markVars>>

-----------------------------------------------------------------------------
(* After the publication.                                                  *)

(* The post to the knowledge base, which is off, has been made, succeeds   *)
(* or fails; then every checkpoint is marked with its status, without the  *)
(* lock of the library.                                                    *)
Post(t) ==
  /\ At(t, "post")
  /\ \/ UNCHANGED <<posted, marks>>
     \/ ~posted /\ posted' \in BOOLEAN /\ marks' = Input
  /\ Goto(t, "mark")
  /\ UNCHANGED <<pub, keep, gone, copy>>
  /\ UNCHANGED <<workVars, ledgerVars, lockVars, stageVars, sweepVars, histVars>>

ReadMark(t) ==
  /\ At(t, "mark") /\ copy = None
  /\ \E i \in marks :
       /\ marks' = marks \ {i}
       /\ copy' = <<i, linked[i]>>
  /\ UNCHANGED <<workVars, taskVars, ledgerVars, pubVars, lockVars, stageVars>>
  /\ UNCHANGED <<sweepVars, histVars>>

\* The whole copy is written back.
WriteMark(t) ==
  /\ At(t, "mark") /\ copy # None
  /\ linked' = [linked EXCEPT ![copy[1]] = copy[2]]
  /\ spoiled' = IF linked[copy[1]] /\ ~copy[2] THEN spoiled \cup {copy[1]} ELSE spoiled
  /\ copy' = None
  /\ UNCHANGED <<broken, faults, marks>>
  /\ UNCHANGED <<ckpt, job, confirm, placed, alien, original, burns>>
  /\ UNCHANGED <<taskVars, ledgerVars, pubVars, lockVars, stageVars, sweepVars>>

Marked(t) ==
  /\ At(t, "mark") /\ copy = None /\ marks = {}
  /\ Goto(t, "clean")
  /\ UNCHANGED <<workVars, ledgerVars, pubVars, lockVars, stageVars, sweepVars>>
  /\ UNCHANGED <<markVars, histVars>>

\* DeleteSourceOnCompletion is off, or the removal is over or was refused.
Finish(t) ==
  /\ At(t, "clean") \/ At(t, "leave")
  /\ lock # t
  /\ Return(t, "done")
  /\ UNCHANGED <<workVars, ledgerVars, pubVars, stageVars, sweepVars, markVars, histVars>>

-----------------------------------------------------------------------------
(* DeletePublishedRecordingSources, by a task, the retention or a user.    *)

Sweeper(p) == IF p = Cleaner THEN TRUE ELSE At(p, "clean")

\* The episode and the work of every recording are verified first.
Covered == Valid /\ \A i \in Input : WorkIsWhole(i)

\* Mutant: the links are saved when the originals are gone.
RemoveFirst == <<"remove", "link", "note">>

\* Links to the episode first, then the originals, then the metadata.
Sweep == <<"link", "remove", "note">>

BeginSweep(p) ==
  /\ Sweeper(p) /\ lock = None
  /\ Covered /\ ~keep /\ ~gone
  /\ lock' = p
  /\ sweep' = Sweep[1] /\ todo' = Input
  /\ UNCHANGED <<mutex, workVars, taskVars, ledgerVars, pubVars, stageVars>>
  /\ UNCHANGED <<markVars, histVars>>

LinkSource ==
  /\ sweep = "link"
  /\ \E i \in todo :
       /\ linked' = [linked EXCEPT ![i] = TRUE]
       /\ todo' = todo \ {i}
  /\ UNCHANGED <<ckpt, job, confirm, placed, alien, original, burns, sweep>>
  /\ UNCHANGED <<taskVars, ledgerVars, pubVars, lockVars, stageVars, markVars, histVars>>

RemoveSource ==
  /\ sweep = "remove"
  /\ \E i \in todo :
       /\ original' = [original EXCEPT ![i] = FALSE]
       /\ todo' = todo \ {i}
  /\ UNCHANGED <<ckpt, job, confirm, placed, alien, linked, burns, sweep>>
  /\ UNCHANGED <<taskVars, ledgerVars, pubVars, lockVars, stageVars, markVars, histVars>>

NextPart ==
  /\ sweep \in {Sweep[1], Sweep[2]} /\ todo = {}
  /\ sweep' = IF sweep = Sweep[1] THEN Sweep[2] ELSE Sweep[3]
  /\ todo' = Input
  /\ UNCHANGED <<workVars, taskVars, ledgerVars, pubVars, lockVars, stageVars>>
  /\ UNCHANGED <<markVars, histVars>>

EndSweep(removed) ==
  /\ sweep' = "none" /\ todo' = {}
  /\ gone' = removed
  /\ lock' = None
  /\ IF lock = Cleaner THEN UNCHANGED taskVars ELSE Goto(lock, "leave")
  /\ UNCHANGED <<pub, keep, posted, mutex>>
  /\ UNCHANGED <<workVars, ledgerVars, stageVars, markVars>>

\* The task that swept is through; a failure is only logged.
SweepDone ==
  /\ sweep = "note"
  /\ EndSweep(TRUE)
  /\ UNCHANGED histVars

SweepFails ==
  /\ sweep # "none" /\ Fault
  /\ EndSweep(FALSE)
  /\ UNCHANGED <<broken, spoiled>>

\* Mutant: the mark is set beside a removal.
KeepUnlocked == TRUE

LibraryIsFree == lock = None

\* The user's mark on the episode.
SetKeepSource(k) ==
  /\ LibraryIsFree
  /\ pub["json"] = "ours"
  /\ keep' = k
  /\ UNCHANGED <<pub, gone, posted>>
  /\ UNCHANGED <<workVars, taskVars, ledgerVars, lockVars, stageVars, sweepVars>>
  /\ UNCHANGED <<markVars, histVars>>

-----------------------------------------------------------------------------
(* The rest of the world.                                                  *)

EndSession ==
  /\ ~ended /\ ended' = TRUE
  /\ UNCHANGED <<media, workVars, taskVars, pubVars, lockVars, stageVars, sweepVars>>
  /\ UNCHANGED <<markVars, histVars>>

\* Somebody else puts a file where one of ours is going to be.  A file that has been
\* placed stays ours: the replaced one that liveSessionFileUnchanged finds is left out.
ForeignFile ==
  /\ Fault
  /\ \/ \E f \in File \ {"show"} :
          /\ pub[f] = "none"
          /\ pub' = [pub EXCEPT ![f] = "foreign"]
          /\ UNCHANGED alien
     \/ \E i \in Input :
          /\ placed[i] < 3
          /\ alien' = [alien EXCEPT ![i] = TRUE]
          /\ UNCHANGED pub
  /\ UNCHANGED <<ckpt, job, confirm, placed, linked, original, burns>>
  /\ UNCHANGED <<keep, gone, posted, broken, spoiled>>
  /\ UNCHANGED <<taskVars, ledgerVars, lockVars, stageVars, sweepVars, markVars>>

(* ResumeTask takes a failed task up again when each of its originals      *)
(* exists, or went after it was published: hasPublishedRecordingInput.     *)
HasInput(i) == original[i] \/ (Ready /\ WorkIsWhole(i) /\ linked[i] /\ Valid)

ResumeTask(t) ==
  /\ row[t] = "failed"
  /\ \A n \in DOMAIN InputsOf[t] : HasInput(InputsOf[t][n])
  /\ row' = [row EXCEPT ![t] = "pending"]
  /\ UNCHANGED <<pc, pos, workVars, ledgerVars, pubVars, lockVars, stageVars, sweepVars>>
  /\ UNCHANGED <<markVars, histVars>>

(* The process ends and is started again; its running tasks are pending.   *)
(* Files that are written in place may be torn: the confirmation of an     *)
(* attempt, a checkpoint that is being marked, and the episode's metadata  *)
(* by SetKeepSource.                                                       *)
Crash ==
  /\ Fault
  /\ pc' = [t \in Task |-> "idle"] /\ pos' = [t \in Task |-> 1] /\ UNCHANGED row
  /\ mutex' = None /\ lock' = None
  /\ applied' = 0 /\ undo' = {}
  /\ sweep' = "none" /\ todo' = {} /\ marks' = {} /\ copy' = None
  /\ confirm' \in {confirm} \cup
       {[confirm EXCEPT ![Current(t)] = "torn"] : t \in {t \in Task : At(t, "confirm")}}
  /\ \/ UNCHANGED <<ckpt, pub, spoiled>>
     \/ /\ copy # None
        /\ ckpt' = [ckpt EXCEPT ![copy[1]] = "torn"]
        /\ spoiled' = spoiled \cup {copy[1]}
        /\ UNCHANGED pub
     \/ /\ lock = None /\ pub["json"] = "ours"
        /\ pub' = [pub EXCEPT !["json"] = "torn"]
        /\ spoiled' = Input
        /\ UNCHANGED ckpt
  /\ broken' = (broken \/ \E t \in Task : pc[t] \in {"link", "undo"})
  /\ UNCHANGED <<job, placed, alien, linked, original, burns>>
  /\ UNCHANGED <<ledgerVars, keep, gone, posted>>

TaskStep(t) ==
  \/ Start(t) \/ LoadFinished(t) \/ BeginAttempt(t) \/ LoadRefused(t)
  \/ Ask(t) \/ AnswerDone(t) \/ AnswerRefused(t) \/ AnswerLost(t)
  \/ Confirm(t) \/ Complete(t) \/ LinkOutput(t) \/ OutputConflict(t) \/ Placed(t)
  \/ CompleteMedia(t) \/ SaveManifest(t)
  \/ Reuse(t) \/ Unverified(t) \/ Build(t) \/ PublishFile(t) \/ PublishFails(t)
  \/ Commit(t) \/ UndoFile(t) \/ UndoFails(t) \/ Undone(t) \/ StageFails(t)
  \/ Post(t) \/ ReadMark(t) \/ WriteMark(t) \/ Marked(t) \/ Finish(t)
  \/ ResumeTask(t)

Next ==
  \/ \E t \in Task : TaskStep(t)
  \/ \E i \in Input : WorkerStep(i)
  \/ \E p \in Task \cup {Cleaner} : BeginSweep(p)
  \/ LinkSource \/ RemoveSource \/ NextPart \/ SweepDone \/ SweepFails
  \/ \E k \in BOOLEAN : SetKeepSource(k)
  \/ EndSession \/ ForeignFile \/ Crash

Spec == Init /\ [][Next]_vars

-----------------------------------------------------------------------------

TypeOK ==
  /\ ckpt \in [Input -> {"none", "running", "queued", "completed", "torn"}]
  /\ job \in [Input -> {"none", "asked", "refused", "working", "done", "left", "broken"}]
  /\ confirm \in [Input -> {"none", "ok", "torn"}]
  /\ placed \in [Input -> 0..3]
  /\ alien \in [Input -> BOOLEAN] /\ linked \in [Input -> BOOLEAN]
  /\ original \in [Input -> BOOLEAN]
  /\ burns \in [Input -> 0..2]
  /\ row \in [Task -> {"pending", "failed", "done"}]
  /\ pc \in [Task -> {"idle", "load", "ask", "answer", "confirm", "complete", "promote",
                      "media", "manifest", "lookup", "link", "undo", "post", "mark",
                      "clean", "leave"}]
  /\ pos \in [Task -> Nat] /\ \A t \in Task : pos[t] \in DOMAIN InputsOf[t]
  /\ ended \in BOOLEAN /\ media \subseteq Task
  /\ pub \in [File -> {"none", "ours", "foreign", "torn"}]
  /\ keep \in BOOLEAN /\ gone \in BOOLEAN /\ posted \in BOOLEAN
  /\ mutex \in Task \cup {None} /\ lock \in Task \cup {Cleaner, None}
  /\ applied \in 0..Len(Order) /\ undo \subseteq File
  /\ sweep \in {"none", "link", "remove", "note"} /\ todo \subseteq Input
  /\ marks \subseteq Input /\ copy \in (Input \X BOOLEAN) \cup {None}
  /\ broken \in BOOLEAN /\ spoiled \subseteq Input
  /\ faults \in 0..MaxFaults

(* The worker begins on a recording once, whatever became of its answer:   *)
(* only an attempt that the worker has refused is followed by another one. *)
BurnedOnce == \A i \in Input : burns[i] <= 1

Whole == \A f \in File : pub[f] \in {"ours", "torn"}

(* Once a task is done, or an original has been removed, the episode is    *)
(* there with all its files and stays, and so does the work behind it.     *)
EpisodeStays ==
  (\E t \in Task : row[t] = "done") \/ (\E i \in Input : ~original[i]) =>
    /\ Whole
    /\ \A i \in Input : placed[i] = 3

(* A publication that fails takes away all it had put in place: outside of *)
(* a publication there is the whole episode or nothing of it.  Exempt are  *)
(* a crash in the middle, and a file that could not be removed.            *)
NoHalfEpisode ==
  \/ broken \/ \E t \in Task : pc[t] \in {"link", "undo"}
  \/ Whole
  \/ \A f \in File : pub[f] \notin {"ours", "torn"}

(* A removed original is no obstacle to the other tasks of the session:    *)
(* one that has failed can still be resumed, also when the removal was cut *)
(* off.  Exempt are a checkpoint that is marked while the originals are    *)
(* removed, and metadata torn by a crash.                                  *)
ResumeStaysPossible ==
  \A i \in Input : i \in spoiled \/ HasInput(i)

\* No original is removed while the user's mark to keep it is set.
KeptIsKept ==
  [][\A i \in Input : original[i] /\ ~original'[i] => ~keep]_vars

\* No file of somebody else is replaced or removed.
NeverOverwrites ==
  [][\A f \in File : pub[f] = "foreign" => pub'[f] = "foreign"]_vars

=============================================================================
