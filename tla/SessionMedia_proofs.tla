-------------------------- MODULE SessionMedia_proofs --------------------------
(***************************************************************************)
(* Proofs about SessionMedia, for any number of tasks, recordings and      *)
(* faults.                                                                 *)
(***************************************************************************)
EXTENDS SessionMedia, TLAPS

-----------------------------------------------------------------------------
(* The inductive invariant.                                                *)

\* A file of the episode is in place, whether or not it can be read.
InPlace(f) == pub[f] \in {"ours", "torn"}

Publishing(t) == pc[t] \in {"link", "undo"}

(* The lock of the library: a publication holds it, and so does a removal, *)
(* which no user's mark contradicts.                                       *)
Locks ==
  /\ \A t \in Task : Publishing(t) => lock = t
  /\ sweep # "none" =>
       lock # None /\ ~keep /\ (lock \in Task => pc[lock] = "clean")

\* What a task has found out about the session stays true.
Progress ==
  /\ \A t \in Task :
       pc[t] \in {"manifest", "lookup", "link", "undo", "post", "mark", "clean", "leave"}
         => Ready
  /\ \A t \in Task :
       pc[t] \in {"lookup", "link", "undo", "post", "mark", "clean", "leave"}
         => \A i \in Input : placed[i] = 3
  /\ \A f \in File : InPlace(f) => Ready

(* A checkpoint that lets a recording go to the worker is one of a         *)
(* recording the worker has not begun on.                                  *)
Begun ==
  \A i \in Input :
    /\ ckpt[i] = "none" => job[i] = "none"
    /\ ckpt[i] = "queued" => job[i] = "refused"
    /\ job[i] \in {"none", "asked", "refused"} => burns[i] = 0
    /\ burns[i] <= 1

Asked ==
  \A t \in Task :
    /\ pc[t] \in {"ask", "answer", "confirm", "complete"} => ckpt[Current(t)] = "running"
    /\ pc[t] = "ask" => job[Current(t)] = "none"

Attempts == Begun /\ Asked

(* What a publication has put in place, and what it will take away again.  *)
Publication ==
  /\ pub["show"] # "foreign"
  /\ \A f \in File \ {"json"} : pub[f] # "torn"
  /\ InPlace("json") /\ InPlace("mp4") => Whole
  /\ \A t \in Task :
       /\ pc[t] = "link" =>
            /\ \A f \in Recovery : InPlace(f)
            /\ "mp4" \notin Recovery => ~InPlace("mp4")
       /\ pc[t] = "undo" =>
            /\ \A f \in undo : InPlace(f)
            /\ undo # {} /\ "mp4" \notin undo => ~InPlace("mp4")

\* Nothing else is in place, unless a publication could not be undone.
NothingElse ==
  broken \/
    /\ (\A t \in Task : ~Publishing(t)) => Whole \/ \A f \in File : ~InPlace(f)
    /\ \A t \in Task :
         /\ pc[t] = "link" => \A f \in File : InPlace(f) => f \in Recovery
         /\ pc[t] = "undo" => \A f \in File : InPlace(f) => f \in undo

\* The episode has been published, as far as anybody relies on it.
Relied ==
  \/ \E t \in Task : row[t] = "done" \/ pc[t] \in {"post", "mark", "clean", "leave"}
  \/ \E i \in Input : ~original[i]
  \/ sweep # "none"

Stays ==
  Relied => /\ Whole
            /\ \A i \in Input : placed[i] = 3
            /\ \A t \in Task : ~Publishing(t)

\* Each original that has gone, or is going to, has its link to the episode.
Links ==
  /\ pub["json"] = "torn" => spoiled = Input
  /\ \A i \in Input \ spoiled :
       /\ ~original[i] => linked[i] /\ ckpt[i] = "completed"
       /\ sweep # "none" => ckpt[i] = "completed"
       /\ sweep = "link" => linked[i] \/ i \in todo
       /\ sweep \in {"remove", "note"} => linked[i]

MediaInv ==
  /\ TypeOK
  /\ Locks /\ Progress /\ Attempts /\ Publication /\ NothingElse /\ Stays /\ Links

-----------------------------------------------------------------------------
(* The files of the episode, and the recordings of the tasks.              *)

LEMMA OrderIs ==
  /\ Len(Order) = 7 /\ DOMAIN Order = 1..7
  /\ Order[1] = "srt" /\ Order[2] = "ass" /\ Order[3] = "nfo" /\ Order[4] = "jpg"
  /\ Order[5] = "show" /\ Order[6] = "mp4" /\ Order[7] = "json"
BY DEF Order

LEMMA Files == File = {"srt", "ass", "nfo", "jpg", "show", "mp4", "json"}
BY OrderIs DEF File

\* What is in place grows by one file with each step of a publication.
LEMMA RecoveryIs ==
  ASSUME applied \in 0..7
  PROVE  /\ applied = 0 => Recovery = {}
         /\ applied = 7 => Recovery = File
         /\ Recovery \subseteq File
         /\ "mp4" \in Recovery <=> applied >= 6
BY OrderIs DEF Recovery, File

LEMMA RecoveryGrows ==
  ASSUME applied \in 0..7, applied < 7, applied' = applied + 1
  PROVE  Recovery' = Recovery \cup {Order[applied + 1]} /\ Order[applied + 1] \in File
<1>1. 1..applied' = (1..applied) \cup {applied + 1} /\ applied + 1 \in 1..7
  OBVIOUS
<1> QED  BY <1>1, OrderIs DEF Recovery, File

LEMMA CurrentIsInput ==
  ASSUME NEW t \in Task, pos[t] \in DOMAIN InputsOf[t]
  PROVE  Current(t) \in Input
<1>1. InputsOf[t] \in Seq(Input)
  BY MediaConstants
<1> QED  BY <1>1 DEF Current

LEMMA FirstIsThere ==
  ASSUME NEW t \in Task
  PROVE  1 \in DOMAIN InputsOf[t]
<1>1. InputsOf[t] \in Seq(Input) /\ InputsOf[t] # <<>>
  BY MediaConstants
<1> QED  BY <1>1

-----------------------------------------------------------------------------
(* Types.                                                                  *)

WorkOK ==
  /\ ckpt \in [Input -> {"none", "running", "queued", "completed", "torn"}]
  /\ job \in [Input -> {"none", "asked", "refused", "working", "done", "left", "broken"}]
  /\ confirm \in [Input -> {"none", "ok", "torn"}]
  /\ placed \in [Input -> 0..3]
  /\ alien \in [Input -> BOOLEAN] /\ linked \in [Input -> BOOLEAN]
  /\ original \in [Input -> BOOLEAN]
  /\ burns \in [Input -> 0..2]

Place == {"idle", "load", "ask", "answer", "confirm", "complete", "promote", "media",
          "manifest", "lookup", "link", "undo", "post", "mark", "clean", "leave"}

TaskOK ==
  /\ row \in [Task -> {"pending", "failed", "done"}]
  /\ pc \in [Task -> Place]
  /\ pos \in [Task -> Nat] /\ \A t \in Task : pos[t] \in DOMAIN InputsOf[t]
LedgerOK == ended \in BOOLEAN /\ media \subseteq Task
PubOK ==
  /\ pub \in [File -> {"none", "ours", "foreign", "torn"}]
  /\ keep \in BOOLEAN /\ gone \in BOOLEAN /\ posted \in BOOLEAN
LockOK == mutex \in Task \cup {None} /\ lock \in Task \cup {Cleaner, None}
StageOK == applied \in 0..7 /\ undo \subseteq File
SweepOK == sweep \in {"none", "link", "remove", "note"} /\ todo \subseteq Input
MarkOK == marks \subseteq Input /\ copy \in (Input \X BOOLEAN) \cup {None}
HistOK == broken \in BOOLEAN /\ spoiled \subseteq Input /\ faults \in 0..MaxFaults

LEMMA TypeParts ==
  /\ TypeOK => /\ WorkOK /\ TaskOK /\ LedgerOK /\ PubOK /\ LockOK /\ StageOK
               /\ SweepOK /\ MarkOK /\ HistOK
  /\ /\ WorkOK' /\ TaskOK' /\ LedgerOK' /\ PubOK' /\ LockOK' /\ StageOK'
     /\ SweepOK' /\ MarkOK' /\ HistOK'
     => TypeOK'
BY OrderIs
DEF TypeOK, WorkOK, TaskOK, Place, LedgerOK, PubOK, LockOK, StageOK, SweepOK, MarkOK, HistOK

\* What a step leaves alone keeps its type.
LEMMA TypesKept ==
  /\ WorkOK /\ UNCHANGED workVars => WorkOK'
  /\ TaskOK /\ UNCHANGED taskVars => TaskOK'
  /\ LedgerOK /\ UNCHANGED ledgerVars => LedgerOK'
  /\ PubOK /\ UNCHANGED pubVars => PubOK'
  /\ LockOK /\ UNCHANGED lockVars => LockOK'
  /\ StageOK /\ UNCHANGED stageVars => StageOK'
  /\ SweepOK /\ UNCHANGED sweepVars => SweepOK'
  /\ MarkOK /\ UNCHANGED markVars => MarkOK'
  /\ HistOK /\ UNCHANGED histVars => HistOK'
<1>1. WorkOK /\ UNCHANGED workVars => WorkOK'
  BY DEF WorkOK, workVars
<1>2. TaskOK /\ UNCHANGED taskVars => TaskOK'
  BY DEF TaskOK, taskVars
<1>3. LedgerOK /\ UNCHANGED ledgerVars => LedgerOK'
  BY DEF LedgerOK, ledgerVars
<1>4. PubOK /\ UNCHANGED pubVars => PubOK'
  BY DEF PubOK, pubVars
<1>5. LockOK /\ UNCHANGED lockVars => LockOK'
  BY DEF LockOK, lockVars
<1>6. StageOK /\ UNCHANGED stageVars => StageOK'
  BY DEF StageOK, stageVars
<1>7. SweepOK /\ UNCHANGED sweepVars => SweepOK'
  BY DEF SweepOK, sweepVars
<1>8. MarkOK /\ UNCHANGED markVars => MarkOK'
  BY DEF MarkOK, markVars
<1>9. HistOK /\ UNCHANGED histVars => HistOK'
  BY DEF HistOK, histVars
<1> QED  BY <1>1, <1>2, <1>3, <1>4, <1>5, <1>6, <1>7, <1>8, <1>9

LEMMA GotoTyped ==
  ASSUME TaskOK, NEW t \in Task, NEW p \in Place, Goto(t, p)
  PROVE  TaskOK'
BY DEF TaskOK, Goto

LEMMA ReturnTyped ==
  ASSUME TaskOK, LockOK, NEW t \in Task, NEW s \in {"pending", "failed", "done"},
         Return(t, s)
  PROVE  TaskOK' /\ LockOK'
<1>1. TaskOK'
  BY FirstIsThere DEF TaskOK, Return, Place
<1>2. LockOK'
  BY DEF LockOK, Return
<1> QED  BY <1>1, <1>2

LEMMA FaultTyped == HistOK /\ Fault /\ UNCHANGED <<broken, spoiled>> => HistOK'
BY MediaConstants DEF HistOK, Fault

LEMMA TypeInit == Init => TypeOK
<1> SUFFICES ASSUME Init
             PROVE  TypeOK
  OBVIOUS
<1> USE DEF Init
<1>1. WorkOK
  BY DEF WorkOK
<1>2. TaskOK
  BY FirstIsThere DEF TaskOK, Place
<1>3. PubOK
  BY DEF PubOK
<1>4. HistOK /\ StageOK
  <2>1. faults \in 0..MaxFaults
    BY MediaConstants
  <2>2. broken \in BOOLEAN /\ spoiled \subseteq Input
    OBVIOUS
  <2>3. applied \in 0..7 /\ undo \subseteq File
    OBVIOUS
  <2> QED  BY <2>1, <2>2, <2>3 DEF HistOK, StageOK
<1>5. LedgerOK /\ LockOK /\ SweepOK /\ MarkOK
  BY DEF LedgerOK, LockOK, SweepOK, MarkOK
<1> QED
  BY <1>1, <1>2, <1>3, <1>4, <1>5, OrderIs
  DEF TypeOK, WorkOK, TaskOK, Place, LedgerOK, PubOK, LockOK, StageOK, SweepOK, MarkOK,
      HistOK

-----------------------------------------------------------------------------

\* The steps of a task before the publication.
WorkStep(t) ==
  \/ Start(t) \/ LoadFinished(t) \/ BeginAttempt(t) \/ LoadRefused(t)
  \/ Ask(t) \/ AnswerDone(t) \/ AnswerRefused(t) \/ AnswerLost(t)
  \/ Confirm(t) \/ Complete(t) \/ LinkOutput(t) \/ OutputConflict(t) \/ Placed(t)
  \/ CompleteMedia(t)

LEMMA WorkTypes ==
  ASSUME TypeOK, NEW t \in Task, WorkStep(t)
  PROVE  TypeOK'
<1> USE TypeParts
<1>0. pos[t] \in DOMAIN InputsOf[t] /\ pos[t] \in Nat
  BY DEF TaskOK
<1> DEFINE i == Current(t)
<1>1. i \in Input
  BY <1>0, CurrentIsInput
<1>2. CASE Start(t) \/ AnswerDone(t)
  <2>1. TaskOK'
    BY <1>2, GotoTyped DEF Start, AnswerDone, Place
  <2> QED  BY <1>2, <2>1, TypesKept DEF Start, AnswerDone
<1>3. CASE LoadFinished(t) \/ BeginAttempt(t) \/ Ask(t) \/ Confirm(t) \/ Complete(t)
  <2>1. TaskOK'
    BY <1>3, GotoTyped DEF LoadFinished, BeginAttempt, Ask, Confirm, Complete, Place
  <2>2. WorkOK'
    <3> HIDE DEF i
    <3>1. CASE LoadFinished(t)
      BY <3>1, <1>1 DEF LoadFinished, WorkOK, i
    <3>2. CASE BeginAttempt(t)
      BY <3>2, <1>1 DEF BeginAttempt, WorkOK, i
    <3>3. CASE Ask(t) \/ Confirm(t) \/ Complete(t)
      BY <3>3, <1>1 DEF Ask, Confirm, Complete, WorkOK, i
    <3> QED  BY <1>3, <3>1, <3>2, <3>3
  <2> QED  BY <1>3, <2>1, <2>2, TypesKept DEF LoadFinished, BeginAttempt, Ask, Confirm, Complete
<1>4. CASE LoadRefused(t) \/ OutputConflict(t)
  <2>1. TaskOK' /\ LockOK'
    BY <1>4, ReturnTyped DEF LoadRefused, OutputConflict
  <2> QED  BY <1>4, <2>1, TypesKept DEF LoadRefused, OutputConflict
<1>5. CASE AnswerRefused(t) \/ AnswerLost(t)
  <2>1. TaskOK' /\ LockOK'
    BY <1>5, ReturnTyped DEF AnswerRefused, AnswerLost
  <2>2. WorkOK'
    BY <1>5, <1>1 DEF AnswerRefused, AnswerLost, AfterError, WorkOK
  <2> QED  BY <1>5, <2>1, <2>2, TypesKept DEF AnswerRefused, AnswerLost
<1>6. CASE LinkOutput(t)
  <2>1. WorkOK'
    BY <1>6, <1>1 DEF LinkOutput, WorkOK
  <2> QED  BY <1>6, <2>1, TypesKept DEF LinkOutput
<1>7. CASE Placed(t)
  <2>1. TaskOK'
    <3>1. CASE Goto(t, "media")
      BY <3>1, GotoTyped DEF Place
    <3>2. CASE /\ pos[t] < Len(InputsOf[t])
               /\ pos' = [pos EXCEPT ![t] = @ + 1]
               /\ pc' = [pc EXCEPT ![t] = "load"] /\ UNCHANGED row
      <4>1. InputsOf[t] \in Seq(Input)
        BY MediaConstants
      <4>2. pos[t] + 1 \in DOMAIN InputsOf[t] /\ pos[t] + 1 \in Nat
        BY <1>0, <3>2, <4>1
      <4> QED  BY <3>2, <4>2 DEF TaskOK, Place
    <3> QED  BY <1>7, <3>1, <3>2 DEF Placed
  <2> QED  BY <1>7, <2>1, TypesKept DEF Placed
<1>8. CASE CompleteMedia(t)
  <2>1. LedgerOK'
    BY <1>8 DEF CompleteMedia, LedgerOK
  <2>2. TaskOK' /\ LockOK'
    BY <1>8, GotoTyped, ReturnTyped, TypesKept DEF CompleteMedia, Place
  <2> QED  BY <1>8, <2>1, <2>2, TypesKept DEF CompleteMedia
<1> QED  BY <1>2, <1>3, <1>4, <1>5, <1>6, <1>7, <1>8 DEF WorkStep

\* The publication of the episode.
PublicationStep(t) ==
  \/ SaveManifest(t) \/ Reuse(t) \/ Unverified(t) \/ Build(t) \/ PublishFile(t)
  \/ PublishFails(t) \/ Commit(t) \/ UndoFile(t) \/ UndoFails(t) \/ Undone(t)
  \/ StageFails(t)

LEMMA PublicationTypes ==
  ASSUME TypeOK, NEW t \in Task, PublicationStep(t)
  PROVE  TypeOK'
<1> USE TypeParts
<1>1. CASE SaveManifest(t)
  <2>1. TaskOK' /\ LockOK'
    <3>1. CASE Goto(t, "lookup") /\ mutex' = t /\ UNCHANGED lock
      BY <3>1, GotoTyped DEF Place, LockOK
    <3>2. CASE Return(t, "failed")
      BY <3>2, ReturnTyped
    <3> QED  BY <1>1, <3>1, <3>2 DEF SaveManifest
  <2> QED  BY <1>1, <2>1, TypesKept DEF SaveManifest
<1>2. CASE Reuse(t)
  <2>1. TaskOK'
    BY <1>2, GotoTyped DEF Reuse, Place
  <2> QED  BY <1>2, <2>1, TypesKept DEF Reuse
<1>3. CASE Unverified(t)
  <2>1. TaskOK' /\ LockOK'
    BY <1>3, ReturnTyped DEF Unverified
  <2> QED  BY <1>3, <2>1, TypesKept DEF Unverified
<1>4. CASE Build(t) \/ Commit(t)
  <2>1. TaskOK'
    BY <1>4, GotoTyped DEF Build, Commit, Place
  <2>2. LockOK' /\ StageOK'
    BY <1>4 DEF Build, Commit, LockOK, StageOK
  <2> QED  BY <1>4, <2>1, <2>2, TypesKept DEF Build, Commit
<1>5. CASE PublishFile(t)
  <2>1. applied < 7 /\ applied' = applied + 1 /\ UNCHANGED undo
    BY <1>5, OrderIs DEF PublishFile
  <2>2. StageOK'
    BY <2>1 DEF StageOK
  <2>3. pub' = [pub EXCEPT ![Order[applied + 1]] = "ours"] /\ UNCHANGED <<keep, gone, posted>>
    BY <1>5 DEF PublishFile
  <2>4. PubOK'
    BY <2>3 DEF PubOK
  <2> QED  BY <1>5, <2>2, <2>4, TypesKept DEF PublishFile
<1>6. CASE PublishFails(t)
  <2>1. TaskOK'
    BY <1>6, GotoTyped DEF PublishFails, Undo, Place
  <2>2. StageOK'
    BY <1>6, RecoveryIs DEF PublishFails, Undo, StageOK
  <2>3. HistOK'
    BY <1>6, FaultTyped DEF PublishFails, HistOK
  <2> QED  BY <1>6, <2>1, <2>2, <2>3, TypesKept DEF PublishFails
<1>7. CASE UndoFile(t)
  <2>1. PubOK'
    BY <1>7 DEF UndoFile, PubOK
  <2>2. StageOK'
    BY <1>7 DEF UndoFile, StageOK
  <2> QED  BY <1>7, <2>1, <2>2, TypesKept DEF UndoFile
<1>8. CASE UndoFails(t)
  <2>1. HistOK'
    BY <1>8, MediaConstants DEF UndoFails, Fault, HistOK
  <2>2. StageOK'
    BY <1>8 DEF UndoFails, StageOK
  <2> QED  BY <1>8, <2>1, <2>2, TypesKept DEF UndoFails
<1>9. CASE Undone(t)
  <2>1. TaskOK' /\ LockOK'
    BY <1>9, ReturnTyped DEF Undone
  <2>2. StageOK'
    BY <1>9 DEF Undone, StageOK
  <2> QED  BY <1>9, <2>1, <2>2, TypesKept DEF Undone
<1>10. CASE StageFails(t)
  <2>1. TaskOK' /\ LockOK'
    BY <1>10, ReturnTyped DEF StageFails
  <2>2. HistOK'
    BY <1>10, FaultTyped DEF StageFails
  <2> QED  BY <1>10, <2>1, <2>2, TypesKept DEF StageFails
<1> QED
  BY <1>1, <1>2, <1>3, <1>4, <1>5, <1>6, <1>7, <1>8, <1>9, <1>10 DEF PublicationStep

\* What a task does after the publication, and when it is taken up again.
LaterStep(t) ==
  Post(t) \/ ReadMark(t) \/ WriteMark(t) \/ Marked(t) \/ Finish(t) \/ ResumeTask(t)

LEMMA LaterTypes ==
  ASSUME TypeOK, NEW t \in Task, LaterStep(t)
  PROVE  TypeOK'
<1> USE TypeParts
<1>1. CASE Post(t)
  <2>1. TaskOK'
    BY <1>1, GotoTyped DEF Post, Place
  <2>2. PubOK' /\ MarkOK'
    BY <1>1 DEF Post, PubOK, MarkOK
  <2> QED  BY <1>1, <2>1, <2>2, TypesKept DEF Post
<1>2. CASE ReadMark(t)
  <2>1. MarkOK'
    BY <1>2 DEF ReadMark, MarkOK, WorkOK
  <2> QED  BY <1>2, <2>1, TypesKept DEF ReadMark
<1>3. CASE WriteMark(t)
  <2>1. copy \in Input \X BOOLEAN
    BY <1>3 DEF WriteMark, MarkOK
  <2>2. WorkOK'
    BY <1>3, <2>1 DEF WriteMark, WorkOK
  <2>3. MarkOK'
    BY <1>3 DEF WriteMark, MarkOK
  <2>4. HistOK'
    BY <1>3, <2>1 DEF WriteMark, HistOK
  <2> QED  BY <1>3, <2>2, <2>3, <2>4, TypesKept DEF WriteMark
<1>4. CASE Marked(t)
  <2>1. TaskOK'
    BY <1>4, GotoTyped DEF Marked, Place
  <2> QED  BY <1>4, <2>1, TypesKept DEF Marked
<1>5. CASE Finish(t)
  <2>1. TaskOK' /\ LockOK'
    BY <1>5, ReturnTyped DEF Finish
  <2> QED  BY <1>5, <2>1, TypesKept DEF Finish
<1>6. CASE ResumeTask(t)
  <2>1. TaskOK'
    BY <1>6 DEF ResumeTask, TaskOK
  <2> QED  BY <1>6, <2>1, TypesKept DEF ResumeTask
<1> QED  BY <1>1, <1>2, <1>3, <1>4, <1>5, <1>6 DEF LaterStep

\* The removal of the originals, and the user's mark.
SweepStep ==
  \/ \E p \in Task \cup {Cleaner} : BeginSweep(p)
  \/ LinkSource \/ RemoveSource \/ NextPart \/ SweepDone \/ SweepFails
  \/ \E k \in BOOLEAN : SetKeepSource(k)

LEMMA EndSweepTypes ==
  ASSUME TypeOK, NEW b \in BOOLEAN, EndSweep(b), lock # None
  PROVE  TaskOK' /\ PubOK' /\ LockOK' /\ SweepOK'
<1> USE TypeParts
<1>1. TaskOK'
  <2>1. lock \in Task \cup {Cleaner}
    BY DEF LockOK
  <2> QED  BY <2>1, GotoTyped, TypesKept DEF EndSweep, Place
<1>2. PubOK' /\ LockOK' /\ SweepOK'
  BY DEF EndSweep, PubOK, LockOK, SweepOK
<1> QED  BY <1>1, <1>2

LEMMA SweepTypes ==
  ASSUME TypeOK, Locks, SweepStep
  PROVE  TypeOK'
<1> USE TypeParts
<1>1. CASE \E p \in Task \cup {Cleaner} : BeginSweep(p)
  <2>1. LockOK' /\ SweepOK'
    BY <1>1 DEF BeginSweep, Sweep, LockOK, SweepOK
  <2> QED  BY <1>1, <2>1, TypesKept DEF BeginSweep
<1>2. CASE LinkSource \/ RemoveSource
  <2>1. WorkOK' /\ SweepOK'
    BY <1>2 DEF LinkSource, RemoveSource, WorkOK, SweepOK
  <2> QED  BY <1>2, <2>1, TypesKept DEF LinkSource, RemoveSource
<1>3. CASE NextPart
  <2>1. SweepOK'
    BY <1>3 DEF NextPart, Sweep, SweepOK
  <2> QED  BY <1>3, <2>1, TypesKept DEF NextPart
<1>4. CASE SweepDone
  <2>1. lock # None
    BY <1>4 DEF SweepDone, Locks
  <2>2. TaskOK' /\ PubOK' /\ LockOK' /\ SweepOK'
    BY <1>4, <2>1, EndSweepTypes DEF SweepDone
  <2> QED  BY <1>4, <2>2, TypesKept DEF SweepDone, EndSweep
<1>5. CASE SweepFails
  <2>1. lock # None
    BY <1>5 DEF SweepFails, Locks
  <2>2. TaskOK' /\ PubOK' /\ LockOK' /\ SweepOK'
    BY <1>5, <2>1, EndSweepTypes DEF SweepFails
  <2>3. HistOK'
    BY <1>5, FaultTyped DEF SweepFails
  <2> QED  BY <1>5, <2>2, <2>3, TypesKept DEF SweepFails, EndSweep
<1>6. CASE \E k \in BOOLEAN : SetKeepSource(k)
  <2>1. PubOK'
    BY <1>6 DEF SetKeepSource, PubOK
  <2> QED  BY <1>6, <2>1, TypesKept DEF SetKeepSource
<1> QED  BY <1>1, <1>2, <1>3, <1>4, <1>5, <1>6 DEF SweepStep

\* The worker, other programs, the end of the broadcast and of the process.
WorldStep ==
  (\E i \in Input : WorkerStep(i)) \/ EndSession \/ ForeignFile \/ Crash

LEMMA WorldTypes ==
  ASSUME TypeOK, WorldStep
  PROVE  TypeOK'
<1> USE TypeParts
<1>1. CASE \E i \in Input : WorkerStep(i)
  <2>1. WorkOK'
    BY <1>1 DEF WorkerStep, WorkOK
  <2> QED  BY <1>1, <2>1, TypesKept DEF WorkerStep
<1>2. CASE EndSession
  <2>1. LedgerOK'
    BY <1>2 DEF EndSession, LedgerOK
  <2> QED  BY <1>2, <2>1, TypesKept DEF EndSession
<1>3. CASE ForeignFile
  <2>1. WorkOK' /\ PubOK'
    BY <1>3 DEF ForeignFile, WorkOK, PubOK
  <2>2. HistOK'
    BY <1>3, FaultTyped DEF ForeignFile
  <2> QED  BY <1>3, <2>1, <2>2, TypesKept DEF ForeignFile
<1>4. CASE Crash
  <2>1. \A t \in Task : Current(t) \in Input
    BY CurrentIsInput DEF TaskOK
  <2>2. copy # None => copy[1] \in Input
    BY DEF MarkOK
  <2>3. WorkOK'
    BY <1>4, <2>1, <2>2 DEF Crash, WorkOK
  <2>4. TaskOK'
    BY <1>4, FirstIsThere DEF Crash, TaskOK, Place
  <2>5. PubOK' /\ LedgerOK'
    BY <1>4, Files DEF Crash, PubOK, LedgerOK, ledgerVars
  <2>6. HistOK'
    BY <1>4, <2>2, MediaConstants DEF Crash, Fault, HistOK
  <2>7. LockOK' /\ StageOK' /\ SweepOK' /\ MarkOK'
    BY <1>4 DEF Crash, LockOK, StageOK, SweepOK, MarkOK
  <2> QED  BY <2>3, <2>4, <2>5, <2>6, <2>7
<1> QED  BY <1>1, <1>2, <1>3, <1>4 DEF WorldStep

\* The steps of the specification, in these groups.
LEMMA Groups ==
  ASSUME [Next]_vars
  PROVE  \/ \E t \in Task : WorkStep(t) \/ PublicationStep(t) \/ LaterStep(t)
         \/ SweepStep \/ WorldStep \/ UNCHANGED vars
BY DEF Next, TaskStep, WorkStep, PublicationStep, LaterStep, SweepStep, WorldStep

LEMMA TypeStep == TypeOK /\ Locks /\ [Next]_vars => TypeOK'
<1> SUFFICES ASSUME TypeOK, Locks, [Next]_vars
             PROVE  TypeOK'
  OBVIOUS
<1>1. CASE UNCHANGED vars
  BY <1>1, TypeParts, TypesKept DEF vars
<1> QED
  BY <1>1, Groups, WorkTypes, PublicationTypes, LaterTypes, SweepTypes, WorldTypes

-----------------------------------------------------------------------------
(* What the groups of steps do, as far as the invariant is concerned.      *)

LEMMA Alone ==
  ASSUME Locks, NEW t \in Task, NEW u \in Task, Publishing(t), Publishing(u)
  PROVE  t = u
BY DEF Locks

LEMMA NoneIsNobody == None \notin Task /\ Cleaner \notin Task /\ None # Cleaner
BY MediaConstants

\* A recording belongs to one task.
LEMMA OwnRecording ==
  ASSUME TypeOK, NEW t \in Task, NEW u \in Task, Current(t) = Current(u)
  PROVE  t = u
<1>1. pos[t] \in DOMAIN InputsOf[t] /\ pos[u] \in DOMAIN InputsOf[u]
  BY DEF TypeOK
<1> QED  BY <1>1, OneTaskPerInput DEF Current

\* The steps of Execute before the last task gets to the manifest.
Early == {"idle", "load", "ask", "answer", "confirm", "complete", "promote", "media"}

LEMMA ReturnEffect ==
  ASSUME TypeOK, NEW t \in Task, NEW s \in {"pending", "failed"}, Return(t, s)
  PROVE  /\ pc'[t] = "idle" /\ \A u \in Task \ {t} : pc'[u] = pc[u]
         /\ \A u \in Task : row'[u] = "done" => row[u] = "done"
         /\ lock' = lock \/ (lock = t /\ lock' = None)
BY DEF TypeOK, Return

LEMMA GotoEffect ==
  ASSUME TypeOK, NEW t \in Task, NEW p, Goto(t, p)
  PROVE  /\ pc'[t] = p /\ \A u \in Task \ {t} : pc'[u] = pc[u]
         /\ UNCHANGED <<row, pos>>
BY DEF TypeOK, Goto

LEMMA WorkEffect ==
  ASSUME TypeOK, NEW t \in Task, WorkStep(t)
  PROVE  /\ UNCHANGED <<pub, keep, applied, undo, sweep, todo, copy, broken, spoiled,
                        linked, original>>
         /\ pc[t] \in Early /\ pc'[t] \in Early \cup {"manifest"}
         /\ \A u \in Task \ {t} : pc'[u] = pc[u]
         /\ \A u \in Task : row'[u] = "done" => row[u] = "done"
         /\ lock' = lock \/ (lock = t /\ lock' = None)
         /\ Ready \/ pc'[t] = "manifest" => Ready'
         /\ \A i \in Input : placed[i] = 3 => placed'[i] = 3
<1> USE DEF At, Early
<1>1. CASE Start(t) \/ AnswerDone(t)
  <2>1. Goto(t, "load") \/ Goto(t, "confirm")
    BY <1>1 DEF Start, AnswerDone
  <2> QED
    BY <1>1, <2>1, GotoEffect
    DEF Start, AnswerDone, Ready, workVars, ledgerVars, pubVars, lockVars, stageVars,
        sweepVars, markVars, histVars
<1>2. CASE LoadFinished(t) \/ BeginAttempt(t) \/ Ask(t) \/ Confirm(t) \/ Complete(t)
  <2>1. Goto(t, "promote") \/ Goto(t, "ask") \/ Goto(t, "answer") \/ Goto(t, "complete")
    BY <1>2 DEF LoadFinished, BeginAttempt, Ask, Confirm, Complete
  <2> QED
    BY <1>2, <2>1, GotoEffect
    DEF LoadFinished, BeginAttempt, Ask, Confirm, Complete, Ready, ledgerVars, pubVars,
        lockVars, stageVars, sweepVars, markVars, histVars
<1>3. CASE LoadRefused(t) \/ OutputConflict(t) \/ AnswerRefused(t) \/ AnswerLost(t)
  <2>1. Return(t, "failed") \/ Return(t, "pending")
    BY <1>3 DEF LoadRefused, OutputConflict, AnswerRefused, AnswerLost
  <2> QED
    BY <1>3, <2>1, ReturnEffect
    DEF LoadRefused, OutputConflict, AnswerRefused, AnswerLost, Ready, workVars, ledgerVars,
        pubVars, stageVars, sweepVars, markVars, histVars
<1>4. CASE LinkOutput(t)
  <2>1. \A i \in Input : placed[i] = 3 => placed'[i] = 3
    BY <1>4 DEF LinkOutput, TypeOK
  <2>2. UNCHANGED <<pc, row, lock, ended, media>>
    BY <1>4 DEF LinkOutput, taskVars, lockVars, ledgerVars
  <2> QED
    BY <1>4, <2>1, <2>2
    DEF LinkOutput, Ready, pubVars, stageVars, sweepVars, markVars, histVars
<1>5. CASE Placed(t)
  <2>1. /\ pc'[t] \in {"load", "media"} /\ \A u \in Task \ {t} : pc'[u] = pc[u]
        /\ UNCHANGED row
    BY <1>5 DEF Placed, Goto, TypeOK
  <2> QED
    BY <1>5, <2>1
    DEF Placed, Ready, workVars, ledgerVars, pubVars, lockVars, stageVars, sweepVars,
        markVars, histVars
<1>6. CASE CompleteMedia(t)
  <2>1. Ready => Ready'
    BY <1>6 DEF CompleteMedia, Ready, TypeOK
  <2>2. /\ pc'[t] = "idle" \/ (pc'[t] = "manifest" /\ Ready')
        /\ \A u \in Task \ {t} : pc'[u] = pc[u]
        /\ \A u \in Task : row'[u] = "done" => row[u] = "done"
        /\ lock' = lock \/ (lock = t /\ lock' = None)
    BY <1>6, GotoEffect, ReturnEffect DEF CompleteMedia, lockVars
  <2> QED
    BY <1>6, <2>1, <2>2
    DEF CompleteMedia, workVars, pubVars, stageVars, sweepVars, markVars, histVars
<1> QED  BY <1>1, <1>2, <1>3, <1>4, <1>5, <1>6 DEF WorkStep

LEMMA PublicationEffect ==
  ASSUME TypeOK, Locks, NEW t \in Task, PublicationStep(t)
  PROVE  /\ UNCHANGED <<workVars, ledgerVars, sweepVars, markVars, keep>>
         /\ pc[t] \in Early \cup {"manifest", "lookup", "link", "undo", "post"}
         /\ pc'[t] \in {"idle", "lookup", "link", "undo", "post"}
         /\ \A u \in Task \ {t} : pc'[u] = pc[u]
         /\ \A u \in Task : row'[u] = "done" => row[u] = "done"
         /\ Publishing(t)' => lock' = t
         /\ \/ lock' = lock
            \/ lock = None /\ lock' = t
            \/ lock = t /\ lock' = None
<1> USE DEF At, Early, Publishing
<1>1. CASE SaveManifest(t)
  BY <1>1, GotoEffect, ReturnEffect DEF SaveManifest, pubVars
<1>2. CASE Reuse(t)
  BY <1>2, GotoEffect DEF Reuse, pubVars, lockVars
<1>3. CASE Unverified(t) \/ StageFails(t)
  BY <1>3, ReturnEffect DEF Unverified, StageFails, pubVars
<1>4. CASE Build(t) \/ Commit(t)
  BY <1>4, GotoEffect DEF Build, Commit, Locks, pubVars
<1>5. CASE PublishFile(t) \/ UndoFile(t) \/ UndoFails(t)
  BY <1>5 DEF PublishFile, UndoFile, UndoFails, Locks, taskVars, lockVars, pubVars
<1>6. CASE PublishFails(t)
  <2>1. Goto(t, "undo")
    BY <1>6 DEF PublishFails, Undo
  <2> QED  BY <1>6, <2>1, GotoEffect DEF PublishFails, Locks, lockVars, pubVars
<1>7. CASE Undone(t)
  BY <1>7, ReturnEffect DEF Undone, pubVars
<1> QED  BY <1>1, <1>2, <1>3, <1>4, <1>5, <1>6, <1>7 DEF PublicationStep

After == {"post", "mark", "clean", "leave"}

LEMMA LaterEffect ==
  ASSUME TypeOK, NEW t \in Task, LaterStep(t)
  PROVE  /\ UNCHANGED <<ckpt, job, placed, original, burns, ledgerVars, pub, keep, lock,
                        stageVars, sweepVars, broken>>
         /\ \A u \in Task \ {t} : pc'[u] = pc[u] /\ row'[u] = row[u] /\ pos'[u] = pos[u]
         /\ \/ UNCHANGED <<pc, pos>>
            \/ pc[t] \in After /\ pc'[t] \in After \cup {"idle"}
         /\ row'[t] = "done" => row[t] = "done" \/ pc[t] \in After
         /\ pc[t] = "clean" => pc'[t] = "clean" \/ lock # t
<1> USE DEF At, After
<1>1. CASE Post(t) \/ Marked(t)
  <2>1. (Goto(t, "mark") /\ pc[t] = "post") \/ (Goto(t, "clean") /\ pc[t] = "mark")
    BY <1>1 DEF Post, Marked
  <2> QED
    BY <1>1, <2>1, GotoEffect DEF Post, Marked, workVars, lockVars, pubVars, histVars
<1>2. CASE ReadMark(t) \/ WriteMark(t)
  BY <1>2 DEF ReadMark, WriteMark, workVars, taskVars, lockVars, pubVars, histVars
<1>3. CASE Finish(t)
  <2>1. /\ pc'[t] = "idle" /\ UNCHANGED lock /\ pc[t] \in {"clean", "leave"} /\ lock # t
        /\ \A u \in Task \ {t} : pc'[u] = pc[u] /\ row'[u] = row[u] /\ pos'[u] = pos[u]
    BY <1>3 DEF Finish, Return, TypeOK
  <2> QED  BY <1>3, <2>1 DEF Finish, workVars, pubVars, histVars
<1>4. CASE ResumeTask(t)
  <2>1. \A u \in Task : row'[u] = IF u = t THEN "pending" ELSE row[u]
    BY <1>4 DEF ResumeTask, TypeOK
  <2> QED  BY <1>4, <2>1 DEF ResumeTask, workVars, lockVars, pubVars, histVars
<1> QED  BY <1>1, <1>2, <1>3, <1>4 DEF LaterStep

-----------------------------------------------------------------------------
(* The lock of the library.                                                *)

LEMMA LocksStep == TypeOK /\ Locks /\ [Next]_vars => Locks'
<1> SUFFICES ASSUME TypeOK, Locks, [Next]_vars
             PROVE  Locks'
  OBVIOUS
<1> USE NoneIsNobody DEF Locks, Publishing
<1>1. CASE UNCHANGED vars
  BY <1>1 DEF vars, taskVars, lockVars, pubVars, sweepVars
<1>2. ASSUME NEW t \in Task, WorkStep(t) PROVE Locks'
  <2>1. /\ pc[t] \in Early /\ pc'[t] \in Early \cup {"manifest"}
        /\ \A u \in Task \ {t} : pc'[u] = pc[u]
        /\ lock' = lock \/ (lock = t /\ lock' = None)
        /\ UNCHANGED <<sweep, keep>>
    BY <1>2, WorkEffect
  <2> QED  BY <2>1 DEF Early
<1>3. ASSUME NEW t \in Task, PublicationStep(t) PROVE Locks'
  <2>1. /\ pc[t] # "clean" /\ UNCHANGED <<sweep, keep>>
        /\ \A u \in Task \ {t} : pc'[u] = pc[u]
        /\ Publishing(t)' => lock' = t
        /\ \/ lock' = lock
           \/ lock = None /\ lock' = t
           \/ lock = t /\ lock' = None
    BY <1>3, PublicationEffect DEF Early, sweepVars
  <2> QED  BY <2>1
<1>4. ASSUME NEW t \in Task, LaterStep(t) PROVE Locks'
  <2>1. /\ UNCHANGED <<sweep, keep, lock>>
        /\ \A u \in Task \ {t} : pc'[u] = pc[u]
        /\ UNCHANGED pc \/ pc'[t] \in After \cup {"idle"}
        /\ pc[t] = "clean" => pc'[t] = "clean" \/ lock # t
    BY <1>4, LaterEffect DEF sweepVars
  <2> QED  BY <2>1 DEF After
<1>5. CASE SweepStep
  <2>1. CASE \E p \in Task \cup {Cleaner} : BeginSweep(p)
    BY <2>1 DEF BeginSweep, Sweeper, At, Sweep, taskVars, pubVars
  <2>2. CASE LinkSource \/ RemoveSource \/ NextPart
    BY <2>2 DEF LinkSource, RemoveSource, NextPart, Sweep, taskVars, lockVars, pubVars
  <2>3. CASE SweepDone \/ SweepFails
    <3>1. /\ sweep # "none" /\ sweep' = "none" /\ UNCHANGED keep
          /\ IF lock = Cleaner THEN UNCHANGED pc ELSE Goto(lock, "leave")
      BY <2>3 DEF SweepDone, SweepFails, EndSweep, taskVars
    <3>2. lock \in Task \cup {Cleaner}
      BY <3>1 DEF TypeOK
    <3>3. \A t \in Task : Publishing(t)' => Publishing(t)
      BY <3>1, <3>2, GotoEffect
    <3>4. \A t \in Task : ~Publishing(t)
      BY <3>1, <3>2
    <3> QED  BY <3>1, <3>3, <3>4
  <2>4. CASE \E k \in BOOLEAN : SetKeepSource(k)
    BY <2>4 DEF SetKeepSource, LibraryIsFree, taskVars, lockVars, sweepVars
  <2> QED  BY <1>5, <2>1, <2>2, <2>3, <2>4 DEF SweepStep
<1>6. CASE WorldStep
  <2>1. CASE Crash
    BY <2>1 DEF Crash
  <2>2. CASE (\E i \in Input : WorkerStep(i)) \/ EndSession \/ ForeignFile
    BY <2>2 DEF WorkerStep, EndSession, ForeignFile, taskVars, lockVars, pubVars, sweepVars
  <2> QED  BY <1>6, <2>1, <2>2 DEF WorldStep
<1> QED  BY <1>1, <1>2, <1>3, <1>4, <1>5, <1>6, Groups

-----------------------------------------------------------------------------
(* What a task has found out.                                              *)

Published == {"manifest", "lookup", "link", "undo"} \cup After

LEMMA ProgressStep == TypeOK /\ Locks /\ Progress /\ [Next]_vars => Progress'
<1> SUFFICES ASSUME TypeOK, Locks, Progress, [Next]_vars
             PROVE  Progress'
  OBVIOUS
<1>0. /\ \A t \in Task : pc[t] \in Published => Ready
      /\ \A t \in Task : pc[t] \in Published \ {"manifest"} => \A i \in Input : placed[i] = 3
      /\ \A f \in File : InPlace(f) => Ready
  BY DEF Progress, Published, After
<1>p. ASSUME /\ \A t \in Task : pc'[t] \in Published => Ready'
             /\ \A t \in Task : pc'[t] \in Published \ {"manifest"}
                                  => \A i \in Input : placed'[i] = 3
             /\ \A f \in File : InPlace(f)' => Ready'
      PROVE  Progress'
  BY <1>p DEF Progress, Published, After
<1>1. CASE UNCHANGED vars
  BY <1>1, <1>0, <1>p DEF vars, workVars, taskVars, ledgerVars, pubVars, Ready, InPlace
<1>2. ASSUME NEW t \in Task, WorkStep(t) PROVE Progress'
  <2>1. /\ UNCHANGED pub
        /\ pc'[t] \in Early \cup {"manifest"}
        /\ \A u \in Task \ {t} : pc'[u] = pc[u]
        /\ Ready \/ pc'[t] = "manifest" => Ready'
        /\ \A i \in Input : placed[i] = 3 => placed'[i] = 3
    BY <1>2, WorkEffect
  <2> QED  BY <1>0, <1>p, <2>1 DEF Early, Published, After, InPlace
<1>3. ASSUME NEW t \in Task, PublicationStep(t) PROVE Progress'
  <2>1. /\ UNCHANGED placed /\ Ready' = Ready
        /\ \A u \in Task \ {t} : pc'[u] = pc[u]
    BY <1>3, PublicationEffect DEF workVars, ledgerVars, Ready
  <2>2. CASE SaveManifest(t)
    <3>1. /\ UNCHANGED pub /\ pc[t] = "manifest"
          /\ pc'[t] # "idle" => \A i \in Input : placed[i] = 3
      BY <2>2, ReturnEffect DEF SaveManifest, At, WorkIsWhole, pubVars
    <3> QED  BY <1>0, <1>p, <2>1, <3>1 DEF Published, InPlace, After
  <2>3. CASE \/ Reuse(t) \/ Unverified(t) \/ Build(t) \/ PublishFails(t) \/ Commit(t)
             \/ UndoFails(t) \/ Undone(t) \/ StageFails(t)
    <3>1. UNCHANGED pub
      BY <2>3 DEF Reuse, Unverified, Build, PublishFails, Commit, UndoFails, Undone, StageFails,
                  pubVars
    <3>2. pc'[t] = "idle" \/ pc[t] \in Published \ {"manifest"}
      BY <2>3, ReturnEffect
      DEF Reuse, Unverified, Build, PublishFails, Commit, UndoFails, Undone, StageFails, At,
          Published
    <3>3. pc'[t] \notin {"manifest"}
      BY <1>3, PublicationEffect
    <3> QED  BY <1>0, <1>p, <2>1, <3>1, <3>2, <3>3 DEF Published, InPlace, After
  <2>4. CASE PublishFile(t)
    <3>1. UNCHANGED pc /\ Ready
      BY <2>4, <1>0 DEF PublishFile, taskVars, At, Published
    <3> QED  BY <1>0, <1>p, <2>1, <3>1
  <2>5. CASE UndoFile(t)
    <3>1. UNCHANGED pc /\ Ready
      BY <2>5, <1>0 DEF UndoFile, taskVars, At, Published
    <3> QED  BY <1>0, <1>p, <2>1, <3>1
  <2> QED  BY <1>3, <2>2, <2>3, <2>4, <2>5 DEF PublicationStep
<1>4. ASSUME NEW t \in Task, LaterStep(t) PROVE Progress'
  <2>1. /\ UNCHANGED <<placed, pub>> /\ Ready' = Ready
        /\ \A u \in Task \ {t} : pc'[u] = pc[u]
        /\ UNCHANGED pc \/ (pc[t] \in After /\ pc'[t] \in After \cup {"idle"})
    BY <1>4, LaterEffect DEF ledgerVars, Ready
  <2> QED  BY <1>0, <1>p, <2>1 DEF Published, After, InPlace
<1>5. CASE SweepStep
  <2>1. /\ UNCHANGED <<placed, pub, ended, media>>
        /\ UNCHANGED pc \/ (lock \in Task /\ pc[lock] = "clean" /\ Goto(lock, "leave"))
    <3>1. CASE SweepDone \/ SweepFails
      <4>1. lock \in Task \cup {Cleaner} /\ (lock \in Task => pc[lock] = "clean")
        BY <3>1 DEF SweepDone, SweepFails, Locks, TypeOK
      <4> QED
        BY <3>1, <4>1 DEF SweepDone, SweepFails, EndSweep, workVars, taskVars, ledgerVars
    <3>2. CASE SweepStep /\ ~SweepDone /\ ~SweepFails
      BY <3>2
      DEF SweepStep, BeginSweep, LinkSource, RemoveSource, NextPart, SetKeepSource, workVars,
          taskVars, ledgerVars, pubVars
    <3> QED  BY <1>5, <3>1, <3>2
  <2>2. Ready' = Ready
    BY <2>1 DEF Ready
  <2>3. \A u \in Task : pc'[u] = pc[u] \/ (pc[u] = "clean" /\ pc'[u] = "leave")
    BY <2>1, GotoEffect
  <2> QED  BY <1>0, <1>p, <2>1, <2>2, <2>3 DEF Published, After, InPlace
<1>6. CASE WorldStep
  <2>1. CASE Crash
    <3>1. /\ UNCHANGED <<placed, ended, media>> /\ \A u \in Task : pc'[u] = "idle"
          /\ \A f \in File : InPlace(f)' => InPlace(f)
      BY <2>1, Files DEF Crash, InPlace, TypeOK, ledgerVars
    <3> QED  BY <1>0, <1>p, <3>1 DEF Published, After, Ready
  <2>2. CASE (\E i \in Input : WorkerStep(i)) \/ EndSession \/ ForeignFile
    <3>1. UNCHANGED <<placed, pc, media>> /\ (ended => ended')
      BY <2>2 DEF WorkerStep, EndSession, ForeignFile, taskVars, ledgerVars, workVars
    <3>2. \A f \in File : InPlace(f)' => InPlace(f)
      BY <2>2 DEF WorkerStep, EndSession, ForeignFile, InPlace, pubVars, TypeOK
    <3> QED  BY <1>0, <1>p, <3>1, <3>2 DEF Ready
  <2> QED  BY <1>6, <2>1, <2>2 DEF WorldStep
<1> QED  BY <1>1, <1>2, <1>3, <1>4, <1>5, <1>6, Groups

-----------------------------------------------------------------------------
(* The attempts of the worker.                                             *)

Asking == {"ask", "answer", "confirm", "complete"}

LEMMA AttemptsKept ==
  ASSUME Attempts, UNCHANGED <<ckpt, job, burns>>,
         \A t \in Task : pc'[t] \in Asking => pc'[t] = pc[t] /\ pos'[t] = pos[t]
  PROVE  Attempts'
BY DEF Attempts, Begun, Asked, Asking, Current

LEMMA AttemptsStep == TypeOK /\ Locks /\ Attempts /\ [Next]_vars => Attempts'
<1> SUFFICES ASSUME TypeOK, Locks, Attempts, [Next]_vars
             PROVE  Attempts'
  OBVIOUS
<1>1. CASE UNCHANGED vars
  BY <1>1, AttemptsKept DEF vars, workVars, taskVars
<1>2. ASSUME NEW t \in Task, WorkStep(t) PROVE Attempts'
  <2> DEFINE i == Current(t)
  <2>1. i \in Input /\ ckpt \in [Input -> {"none", "running", "queued", "completed", "torn"}]
    BY CurrentIsInput DEF TypeOK
  <2>2. /\ \A u \in Task \ {t} : pc'[u] = pc[u]
        /\ \A u \in Task \ {t} : pos'[u] = pos[u]
    <3>1. \A u \in Task \ {t} : pos'[u] = pos[u]
      BY <1>2 DEF WorkStep, Start, LoadFinished, BeginAttempt, LoadRefused, Ask, AnswerDone,
                  AnswerRefused, AnswerLost, Confirm, Complete, LinkOutput, OutputConflict,
                  Placed, CompleteMedia, Goto, Return, TypeOK, taskVars
    <3> QED  BY <1>2, <3>1, WorkEffect
  <2>3. \A u \in Task \ {t} : Current(u) # i /\ Current(u)' = Current(u)
    BY <2>2, OwnRecording DEF Current
  <2>4. /\ job \in [Input -> {"none", "asked", "refused", "working", "done", "left", "broken"}]
        /\ pc \in [Task -> Place] /\ \A u \in Task : Current(u) \in Input
        /\ burns \in [Input -> 0..2]
    BY CurrentIsInput DEF TypeOK, Place
  <2>5. ASSUME NEW c \in {"running", "completed", "queued"}, ckpt' = [ckpt EXCEPT ![i] = c],
               UNCHANGED <<job, burns>>, c = "queued" => job[i] = "refused",
               pc'[t] \notin Asking
        PROVE  Attempts'
    BY <2>1, <2>2, <2>3, <2>4, <2>5 DEF Attempts, Begun, Asked, Asking
  <2>6. CASE UNCHANGED <<ckpt, job, burns>> /\ pc'[t] \notin Asking
    BY <2>2, <2>6, AttemptsKept
  <2>7. CASE LoadFinished(t) \/ Complete(t)
    <3>1. pc'[t] = "promote" /\ ckpt' = [ckpt EXCEPT ![i] = "completed"]
          /\ UNCHANGED <<job, burns>>
      BY <2>7, GotoEffect DEF LoadFinished, Complete
    <3> HIDE DEF i
    <3> QED  BY <2>5, <3>1 DEF Asking
  <2>8. CASE AnswerRefused(t)
    <3>1. pc'[t] = "idle" /\ ckpt' = [ckpt EXCEPT ![i] = "queued"] /\ job[i] = "refused"
          /\ UNCHANGED <<job, burns>>
      BY <2>8, ReturnEffect DEF AnswerRefused
    <3> HIDE DEF i
    <3> QED  BY <2>5, <3>1 DEF Asking
  <2>9. CASE AnswerLost(t)
    <3>1. pc'[t] = "idle" /\ ckpt' = [ckpt EXCEPT ![i] = "running"]
          /\ UNCHANGED <<job, burns>>
      BY <2>9, ReturnEffect DEF AnswerLost, AfterError
    <3> HIDE DEF i
    <3> QED  BY <2>5, <3>1 DEF Asking
  <2>10. CASE BeginAttempt(t)
    <3>1. /\ ckpt' = [ckpt EXCEPT ![i] = "running"] /\ job' = [job EXCEPT ![i] = "none"]
          /\ UNCHANGED burns /\ pc'[t] = "ask" /\ UNCHANGED pos
          /\ ckpt[i] \in {"none", "queued", "failed"}
      BY <2>10, GotoEffect DEF BeginAttempt, MayAsk
    <3>2. burns[i] = 0
      BY <2>1, <3>1 DEF Attempts, Begun, Asked
    <3>3. Current(t)' = i
      BY <3>1 DEF Current
    <3> HIDE DEF i
    <3>4. /\ ckpt'[i] = "running" /\ job'[i] = "none"
          /\ \A j \in Input \ {i} : ckpt'[j] = ckpt[j] /\ job'[j] = job[j]
      BY <2>1, <2>4, <3>1
    <3> QED  BY <2>1, <2>2, <2>3, <2>4, <3>1, <3>2, <3>3, <3>4 DEF Attempts, Begun, Asked
  <2>11. CASE Ask(t)
    <3>1. /\ job' = [job EXCEPT ![i] = "asked"] /\ UNCHANGED <<burns, ckpt, pos>>
          /\ pc[t] = "ask" /\ pc'[t] = "answer"
      BY <2>11, GotoEffect DEF Ask, At
    <3>2. burns[i] = 0 /\ ckpt[i] = "running"
      BY <2>1, <3>1 DEF Attempts, Begun, Asked
    <3>3. Current(t)' = i
      BY <3>1 DEF Current
    <3> HIDE DEF i
    <3>4. job'[i] = "asked" /\ \A j \in Input \ {i} : job'[j] = job[j]
      BY <2>1, <2>4, <3>1
    <3> QED  BY <2>1, <2>2, <2>3, <2>4, <3>1, <3>2, <3>3, <3>4 DEF Attempts, Begun, Asked
  <2>12. CASE AnswerDone(t) \/ Confirm(t)
    <3>1. /\ UNCHANGED <<burns, job, ckpt, pos>> /\ pc[t] \in Asking \ {"ask"}
          /\ pc'[t] \in Asking \ {"ask"}
      BY <2>12, GotoEffect DEF AnswerDone, Confirm, At, workVars, Asking
    <3>2. Current(t)' = i
      BY <3>1 DEF Current
    <3>3. ckpt[i] = "running"
      BY <3>1 DEF Attempts, Begun, Asked, Asking
    <3> HIDE DEF i
    <3> QED  BY <2>2, <2>3, <3>1, <3>2, <3>3 DEF Attempts, Begun, Asked, Asking
  <2>13. CASE Start(t)
    BY <2>6, <2>13, GotoEffect DEF Start, Asking, workVars
  <2>14. CASE LoadRefused(t) \/ OutputConflict(t)
    BY <2>6, <2>14, ReturnEffect DEF LoadRefused, OutputConflict, Asking, workVars
  <2>15. CASE LinkOutput(t)
    BY <2>6, <2>15 DEF LinkOutput, At, Asking, taskVars
  <2>16. CASE Placed(t)
    BY <2>4, <2>6, <2>16 DEF Placed, Goto, Asking, workVars
  <2>17. CASE CompleteMedia(t)
    BY <2>6, <2>17, GotoEffect, ReturnEffect DEF CompleteMedia, Asking, workVars
  <2> QED
    BY <1>2, <2>7, <2>8, <2>9, <2>10, <2>11, <2>12, <2>13, <2>14, <2>15, <2>16, <2>17
    DEF WorkStep
<1>3. ASSUME NEW t \in Task, PublicationStep(t) PROVE Attempts'
  <2>1. /\ UNCHANGED workVars /\ pc'[t] \in {"idle", "lookup", "link", "undo", "post"}
        /\ \A u \in Task \ {t} : pc'[u] = pc[u]
    BY <1>3, PublicationEffect
  <2>2. \A u \in Task \ {t} : pos'[u] = pos[u]
    BY <1>3
    DEF PublicationStep, SaveManifest, Reuse, Unverified, Build, PublishFile, PublishFails,
        Commit, UndoFile, UndoFails, Undone, StageFails, Undo, Goto, Return, TypeOK, taskVars
  <2> QED  BY <2>1, <2>2, AttemptsKept DEF Asking, workVars
<1>4. ASSUME NEW t \in Task, LaterStep(t) PROVE Attempts'
  BY <1>4, LaterEffect, AttemptsKept DEF Asking, After
<1>5. CASE SweepStep
  <2>1. CASE SweepDone \/ SweepFails
    <3>1. lock \in Task \cup {Cleaner}
      BY <2>1 DEF SweepDone, SweepFails, Locks, TypeOK
    <3>2. \A u \in Task : pc'[u] \in {pc[u], "leave"} /\ pos'[u] = pos[u]
      BY <2>1, <3>1, GotoEffect DEF SweepDone, SweepFails, EndSweep, taskVars
    <3>3. UNCHANGED <<ckpt, job, burns>>
      BY <2>1 DEF SweepDone, SweepFails, EndSweep, workVars
    <3> QED  BY <3>2, <3>3, AttemptsKept DEF Asking
  <2>2. CASE SweepStep /\ ~SweepDone /\ ~SweepFails
    <3>1. UNCHANGED <<ckpt, job, burns, pc, pos>>
      BY <2>2
      DEF SweepStep, BeginSweep, LinkSource, RemoveSource, NextPart, SetKeepSource, workVars,
          taskVars
    <3> QED  BY <3>1, AttemptsKept
  <2> QED  BY <1>5, <2>1, <2>2
<1>6. CASE WorldStep
  <2>1. CASE Crash
    <3>1. copy # None => copy[1] \in Input
      BY DEF TypeOK
    <3>2. /\ \A i \in Input : ckpt'[i] \in {ckpt[i], "torn"}
          /\ UNCHANGED <<job, burns>> /\ \A t \in Task : pc'[t] = "idle"
      BY <2>1, <3>1 DEF Crash, TypeOK
    <3> QED  BY <3>2 DEF Attempts, Begun, Asked
  <2>2. ASSUME NEW i \in Input, WorkerStep(i) PROVE Attempts'
    <3>1. UNCHANGED <<ckpt, pc, pos>> /\ job[i] \in {"asked", "working"}
      BY <2>2 DEF WorkerStep, taskVars
    <3>2. \A t \in Task : Current(t)' = Current(t)
      BY <3>1 DEF Current
    <3>3. /\ job'[i] \notin {"none", "asked"} /\ \A j \in Input \ {i} : job'[j] = job[j]
      BY <2>2 DEF WorkerStep, TypeOK
    <3>4. burns[i] = 0 \/ job[i] # "asked"
      BY DEF Attempts, Begun, Asked
    <3>5. /\ \A j \in Input \ {i} : burns'[j] = burns[j]
          /\ burns'[i] <= 1
          /\ job'[i] \in {"none", "asked", "refused"} => burns'[i] = 0
      BY <2>2, <3>4 DEF WorkerStep, TypeOK, Attempts, Begun, Asked
    <3>6. ckpt[i] \notin {"none", "queued"}
      BY <3>1 DEF Attempts, Begun, Asked
    <3>7. \A t \in Task : pc[t] = "ask" => Current(t) # i /\ Current(t) \in Input
      BY <3>1, CurrentIsInput DEF Attempts, Begun, Asked, TypeOK
    <3>8. Begun'
      BY <3>1, <3>3, <3>5, <3>6 DEF Attempts, Begun
    <3>9. Asked'
      BY <3>1, <3>2, <3>3, <3>7 DEF Attempts, Asked
    <3> QED  BY <3>8, <3>9 DEF Attempts
  <2>3. CASE EndSession \/ ForeignFile
    BY <2>3, AttemptsKept DEF EndSession, ForeignFile, workVars, taskVars
  <2> QED  BY <1>6, <2>1, <2>2, <2>3 DEF WorldStep
<1> QED  BY <1>1, <1>2, <1>3, <1>4, <1>5, <1>6, Groups

-----------------------------------------------------------------------------
(* The files of a publication.                                             *)

\* Nothing of a publication is changed, neither what it is nor what it has done.
LEMMA FilesKept ==
  ASSUME Publication, NothingElse, UNCHANGED <<pub, applied, undo, broken>>,
         \A t \in Task : (pc'[t] \in {"link", "undo"} \/ pc[t] \in {"link", "undo"})
                           => pc'[t] = pc[t]
  PROVE  Publication' /\ NothingElse'
<1>1. Recovery' = Recovery /\ Whole' = Whole /\ \A f : InPlace(f)' = InPlace(f)
  BY DEF Recovery, Whole, InPlace
<1>2. Publication'
  BY <1>1 DEF Publication
<1>3. NothingElse'
  BY <1>1 DEF NothingElse, Publishing
<1> QED  BY <1>2, <1>3

\* A file is published, and some files are taken away from nothing.
LEMMA PublishFileKeeps ==
  ASSUME TypeOK, Locks, Publication, NothingElse, NEW t \in Task, PublishFile(t)
  PROVE  Publication' /\ NothingElse'
<1> DEFINE f == Order[applied + 1]
<1>1. /\ pc[t] = "link" /\ UNCHANGED <<pc, undo, broken>> /\ applied < 7
      /\ applied' = applied + 1 /\ MayPlace(f) /\ pub' = [pub EXCEPT ![f] = "ours"]
  BY OrderIs DEF PublishFile, At, taskVars, histVars
<1>2. applied \in 0..7
  BY OrderIs DEF TypeOK
<1>3. Recovery' = Recovery \cup {f} /\ f \in File /\ Recovery \subseteq File
  BY <1>1, <1>2, RecoveryGrows, RecoveryIs
<1>4. \A u \in Task : pc[u] \in {"link", "undo"} => u = t
  BY <1>1, Alone DEF Publishing
<1>5. (f = "mp4" <=> applied = 5) /\ (f = "json" <=> applied = 6)
  BY <1>1, <1>2, OrderIs
<1>6. /\ pub \in [File -> {"none", "ours", "foreign", "torn"}]
      /\ "json" \in File /\ "mp4" \in File /\ "show" \in File
  BY Files DEF TypeOK
<1> HIDE DEF f
<1>7. /\ \A g \in File : InPlace(g)' <=> InPlace(g) \/ g = f
      /\ \A g \in File \ {f} : pub'[g] = pub[g]
      /\ pub'[f] = "ours"
  BY <1>1, <1>3, <1>6 DEF InPlace
<1>8. "mp4" \in Recovery' <=> "mp4" \in Recovery \/ applied = 5
  BY <1>3, <1>5
<1>9. InPlace("json")' /\ InPlace("mp4")' => Whole'
  <2>1. CASE Whole
    BY <2>1, <1>7 DEF Whole, InPlace
  <2>2. CASE ~Whole /\ f \in {"mp4", "json"}
    <3>1. \A g \in File \ {"mp4", "json"} : g \in Recovery
      BY <2>2, <1>2, <1>5, OrderIs, Files DEF Recovery
    <3>2. \A g \in File \ {"mp4", "json"} : InPlace(g)'
      BY <3>1, <1>1, <1>7 DEF Publication
    <3> QED  BY <3>2 DEF Whole, InPlace
  <2>3. CASE ~Whole /\ f \notin {"mp4", "json"}
    BY <2>3, <1>6, <1>7 DEF Publication
  <2> QED  BY <2>1, <2>2, <2>3
<1>10. Publication'
  <2>1. pub'["show"] # "foreign" /\ \A g \in File \ {"json"} : pub'[g] # "torn"
    BY <1>6, <1>7 DEF Publication
  <2>2. \A g \in Recovery' : InPlace(g)'
    BY <1>1, <1>3, <1>7 DEF Publication
  <2>3. "mp4" \notin Recovery' => ~InPlace("mp4")'
    BY <1>1, <1>3, <1>6, <1>7 DEF Publication
  <2>4. \A u \in Task : pc'[u] \in {"link", "undo"} => u = t /\ pc'[u] = "link"
    BY <1>1, <1>4
  <2> QED  BY <1>9, <2>1, <2>2, <2>3, <2>4 DEF Publication
<1>11. NothingElse'
  <2>1. broken \/ \A g \in File : InPlace(g) => g \in Recovery
    BY <1>1 DEF NothingElse
  <2>2. broken \/ \A g \in File : InPlace(g)' => g \in Recovery'
    BY <2>1, <1>3, <1>7
  <2>3. \A u \in Task : pc'[u] \in {"link", "undo"} => u = t /\ pc'[u] = "link"
    BY <1>1, <1>4
  <2>4. Publishing(t)'
    BY <1>1 DEF Publishing
  <2> QED  BY <1>1, <2>2, <2>3, <2>4 DEF NothingElse
<1> QED  BY <1>10, <1>11

LEMMA UndoFileKeeps ==
  ASSUME TypeOK, Locks, Publication, NothingElse, NEW t \in Task, UndoFile(t)
  PROVE  Publication' /\ NothingElse'
<1>1. PICK f \in undo : /\ GoesNext(f) /\ pub' = [pub EXCEPT ![f] = "none"]
                        /\ undo' = undo \ {f}
  BY DEF UndoFile
<1>2. pc[t] = "undo" /\ UNCHANGED <<pc, applied, broken>>
  BY DEF UndoFile, At, taskVars, histVars
<1>3. \A u \in Task : pc[u] \in {"link", "undo"} => u = t
  BY <1>2, Alone DEF Publishing
<1>4. /\ pub \in [File -> {"none", "ours", "foreign", "torn"}] /\ undo \subseteq File
      /\ "json" \in File /\ "mp4" \in File /\ "show" \in File
  BY Files DEF TypeOK
<1>5. /\ \A g \in File : InPlace(g)' <=> InPlace(g) /\ g # f
      /\ \A g \in File \ {f} : pub'[g] = pub[g]
      /\ pub'[f] = "none"
  BY <1>1, <1>4 DEF InPlace
<1>6. ~InPlace("mp4")'
  <2>1. CASE f = "mp4"
    BY <2>1, <1>4, <1>5
  <2>2. CASE f # "mp4"
    <3>1. "mp4" \notin undo
      BY <1>1, <2>2 DEF GoesNext
    <3>2. ~InPlace("mp4")
      BY <1>1, <1>2, <3>1 DEF Publication
    <3> QED  BY <3>2, <1>4, <1>5
  <2> QED  BY <2>1, <2>2
<1>7. \A u \in Task : pc'[u] \in {"link", "undo"} => u = t /\ pc'[u] = "undo"
  BY <1>2, <1>3
<1>8. Publication'
  <2>1. pub'["show"] # "foreign" /\ \A g \in File \ {"json"} : pub'[g] # "torn"
    BY <1>4, <1>5 DEF Publication
  <2>2. \A g \in undo' : InPlace(g)'
    BY <1>1, <1>2, <1>4, <1>5 DEF Publication
  <2> QED  BY <1>6, <1>7, <2>1, <2>2 DEF Publication
<1>9. NothingElse'
  <2>1. broken \/ \A g \in File : InPlace(g) => g \in undo
    BY <1>2 DEF NothingElse
  <2>2. broken \/ \A g \in File : InPlace(g)' => g \in undo'
    BY <2>1, <1>1, <1>5
  <2>3. Publishing(t)'
    BY <1>2 DEF Publishing
  <2> QED  BY <1>2, <1>7, <2>2, <2>3 DEF NothingElse
<1> QED  BY <1>8, <1>9

\* A publication begins, ends, or turns round.
LEMMA PublicationTurns ==
  ASSUME TypeOK, Locks, Publication, NothingElse, NEW t \in Task,
         Build(t) \/ Commit(t) \/ PublishFails(t) \/ UndoFails(t) \/ Undone(t)
  PROVE  Publication' /\ NothingElse'
<1> USE DEF Publishing, At
<1>1. \A u \in Task \ {t} : pc'[u] = pc[u]
  BY PublicationEffect DEF PublicationStep
<1>2. UNCHANGED pub
  BY DEF Build, Commit, PublishFails, UndoFails, Undone, pubVars
<1>3. Whole' = Whole /\ \A f : InPlace(f)' = InPlace(f)
  BY <1>2 DEF Whole, InPlace
<1>4. applied \in 0..7 /\ undo \subseteq File
  BY OrderIs DEF TypeOK
<1>5. \A u \in Task : pc[u] \notin {"link", "undo"} \/ u = t
  BY NoneIsNobody, Alone DEF Build, Commit, PublishFails, UndoFails, Undone, Locks
<1>6. \A u \in Task : pc'[u] \notin {"link", "undo"} \/ u = t
  BY <1>1, <1>5
<1>7. /\ pub["show"] # "foreign" /\ \A f \in File \ {"json"} : pub[f] # "torn"
      /\ InPlace("json") /\ InPlace("mp4") => Whole
  BY DEF Publication
<1>8. CASE Build(t)
  <2>1. /\ pc'[t] = "link" /\ applied' = 0 /\ pub["mp4"] = "none" /\ UNCHANGED broken
        /\ \A u \in Task : ~Publishing(u)
    BY <1>8, GotoEffect, NoneIsNobody DEF Build, Locks, histVars
  <2>2. Recovery' = {}
    BY <2>1 DEF Recovery
  <2>3. "mp4" \in File /\ ~InPlace("mp4") /\ ~Whole
    BY <2>1, Files DEF InPlace, Whole
  <2>4. broken \/ \A f \in File : ~InPlace(f)
    BY <2>1, <2>3 DEF NothingElse
  <2>5. Publication'
    BY <1>2, <1>3, <1>6, <1>7, <2>1, <2>2, <2>3 DEF Publication
  <2>6. NothingElse'
    BY <1>3, <1>6, <2>1, <2>4 DEF NothingElse
  <2> QED  BY <2>5, <2>6
<1>9. CASE Commit(t)
  <2>1. /\ pc'[t] = "post" /\ pc[t] = "link" /\ applied = 7
    BY <1>9, GotoEffect, OrderIs DEF Commit
  <2>2. \A f \in File : InPlace(f)
    BY <1>4, <2>1, RecoveryIs DEF Publication
  <2>3. Whole
    BY <2>2 DEF Whole, InPlace
  <2>4. \A u \in Task : pc'[u] \notin {"link", "undo"}
    BY <1>6, <2>1
  <2>5. Publication'
    BY <1>2, <1>3, <1>7, <2>4 DEF Publication
  <2>6. NothingElse'
    BY <1>3, <2>3, <2>4 DEF NothingElse
  <2> QED  BY <2>5, <2>6
<1>10. CASE PublishFails(t)
  <2>1. /\ pc[t] = "link" /\ pc'[t] = "undo" /\ undo' = Recovery /\ UNCHANGED broken
    BY <1>10, GotoEffect DEF PublishFails, Undo
  <2>2. Publication'
    BY <1>2, <1>3, <1>6, <1>7, <2>1, RecoveryIs, <1>4 DEF Publication
  <2>3. NothingElse'
    BY <1>3, <1>6, <2>1 DEF NothingElse
  <2> QED  BY <2>2, <2>3
<1>11. CASE UndoFails(t)
  <2>1. /\ UNCHANGED pc /\ pc[t] = "undo" /\ broken'
        /\ \/ undo' = {}
           \/ "mp4" \notin undo /\ \E f \in undo : undo' = undo \ {f}
    BY <1>11 DEF UndoFails, taskVars
  <2>2. /\ \A f \in undo' : InPlace(f)
        /\ undo' # {} => ~InPlace("mp4")
    BY <2>1 DEF Publication, GoesNext
  <2>3. Publication'
    BY <1>2, <1>3, <1>6, <1>7, <2>1, <2>2 DEF Publication
  <2>4. NothingElse'
    BY <2>1 DEF NothingElse
  <2> QED  BY <2>3, <2>4
<1>12. CASE Undone(t)
  <2>1. /\ pc[t] = "undo" /\ undo = {} /\ pc'[t] = "idle" /\ UNCHANGED broken
    BY <1>12, ReturnEffect DEF Undone, histVars
  <2>2. \A u \in Task : pc'[u] \notin {"link", "undo"}
    BY <1>6, <2>1
  <2>3. Publication'
    BY <1>2, <1>3, <1>7, <2>2 DEF Publication
  <2>4. broken \/ \A f \in File : ~InPlace(f)
    BY <2>1 DEF NothingElse
  <2>5. NothingElse'
    BY <1>3, <2>1, <2>2, <2>4 DEF NothingElse
  <2> QED  BY <2>3, <2>5
<1> QED  BY <1>8, <1>9, <1>10, <1>11, <1>12

LEMMA FilesStep ==
  TypeOK /\ Locks /\ Publication /\ NothingElse /\ [Next]_vars => Publication' /\ NothingElse'
<1> SUFFICES ASSUME TypeOK, Locks, Publication, NothingElse, [Next]_vars
             PROVE  Publication' /\ NothingElse'
  OBVIOUS
<1>1. CASE UNCHANGED vars
  BY <1>1, FilesKept DEF vars, taskVars, pubVars, stageVars, histVars
<1>2. ASSUME NEW t \in Task, WorkStep(t) PROVE Publication' /\ NothingElse'
  BY <1>2, WorkEffect, FilesKept DEF Early
<1>3. ASSUME NEW t \in Task, PublicationStep(t) PROVE Publication' /\ NothingElse'
  <2>1. CASE SaveManifest(t) \/ Reuse(t) \/ Unverified(t) \/ StageFails(t)
    <3>1. \A u \in Task \ {t} : pc'[u] = pc[u]
      BY <1>3, PublicationEffect
    <3>2. pc[t] \notin {"link", "undo"} /\ pc'[t] \notin {"link", "undo"}
      BY <2>1, GotoEffect, ReturnEffect DEF SaveManifest, Reuse, Unverified, StageFails, At
    <3>3. UNCHANGED <<pub, applied, undo, broken>>
      BY <2>1 DEF SaveManifest, Reuse, Unverified, StageFails, pubVars, stageVars, histVars
    <3> QED  BY <3>1, <3>2, <3>3, FilesKept
  <2> QED
    BY <1>3, <2>1, PublishFileKeeps, UndoFileKeeps, PublicationTurns DEF PublicationStep
<1>4. ASSUME NEW t \in Task, LaterStep(t) PROVE Publication' /\ NothingElse'
  BY <1>4, LaterEffect, FilesKept DEF After, stageVars
<1>5. CASE SweepStep
  <2>1. CASE SweepDone \/ SweepFails
    <3>1. lock \in Task \cup {Cleaner} /\ (lock \in Task => pc[lock] = "clean")
      BY <2>1 DEF SweepDone, SweepFails, Locks, TypeOK
    <3>2. \A u \in Task : pc'[u] = pc[u] \/ (pc[u] = "clean" /\ pc'[u] = "leave")
      BY <2>1, <3>1, GotoEffect DEF SweepDone, SweepFails, EndSweep, taskVars
    <3>3. UNCHANGED <<pub, applied, undo, broken>>
      BY <2>1 DEF SweepDone, SweepFails, EndSweep, stageVars, histVars
    <3> QED  BY <3>2, <3>3, FilesKept
  <2>2. CASE SweepStep /\ ~SweepDone /\ ~SweepFails
    <3>1. UNCHANGED <<pub, applied, undo, broken, pc>>
      BY <2>2
      DEF SweepStep, BeginSweep, LinkSource, RemoveSource, NextPart, SetKeepSource, taskVars,
          pubVars, stageVars, histVars
    <3> QED  BY <3>1, FilesKept
  <2> QED  BY <1>5, <2>1, <2>2
<1>6. CASE (\E i \in Input : WorkerStep(i)) \/ EndSession
  BY <1>6, FilesKept DEF WorkerStep, EndSession, taskVars, pubVars, stageVars, histVars
<1>7. CASE ForeignFile
  <2>1. /\ UNCHANGED <<pc, applied, undo, broken>>
        /\ pub' = pub \/ \E f \in File \ {"show"} :
                            pub[f] = "none" /\ pub' = [pub EXCEPT ![f] = "foreign"]
    BY <1>7 DEF ForeignFile, taskVars, stageVars
  <2>2. /\ \A f \in File : InPlace(f)' <=> InPlace(f)
        /\ pub'["show"] # "foreign"
        /\ \A f \in File \ {"json"} : pub'[f] # "torn"
    BY <2>1, Files DEF TypeOK, InPlace, Publication
  <2>3. (Whole' <=> Whole) /\ Recovery' = Recovery /\ Recovery \subseteq File
        /\ undo \subseteq File /\ "mp4" \in File /\ "json" \in File
    BY <2>1, <2>2, RecoveryIs, Files, OrderIs DEF Whole, InPlace, Recovery, TypeOK
  <2>4. Publication'
    BY <2>1, <2>2, <2>3 DEF Publication
  <2>5. NothingElse'
    BY <2>1, <2>2, <2>3 DEF NothingElse, Publishing
  <2> QED  BY <2>4, <2>5
<1>8. CASE Crash
  <2>1. /\ \A u \in Task : pc'[u] = "idle"
        /\ pub' = pub \/ (pub["json"] = "ours" /\ pub' = [pub EXCEPT !["json"] = "torn"])
        /\ broken' = (broken \/ \E t \in Task : Publishing(t))
    BY <1>8 DEF Crash, Publishing
  <2>2. /\ \A f \in File : InPlace(f)' <=> InPlace(f)
        /\ pub'["show"] # "foreign"
        /\ \A f \in File \ {"json"} : pub'[f] # "torn"
    BY <2>1, Files DEF TypeOK, InPlace, Publication
  <2>3. (Whole' <=> Whole) /\ "mp4" \in File /\ "json" \in File
    BY <2>2, Files DEF Whole, InPlace
  <2>4. Publication'
    BY <2>1, <2>2, <2>3 DEF Publication
  <2>5. NothingElse'
    BY <2>1, <2>2, <2>3 DEF NothingElse, Publishing
  <2> QED  BY <2>4, <2>5
<1> QED  BY <1>1, <1>2, <1>3, <1>4, <1>5, <1>6, <1>7, <1>8, Groups DEF WorldStep

-----------------------------------------------------------------------------
(* The episode stays as soon as anybody relies on it.                      *)

LEMMA WholeIs == Whole <=> \A f \in File : InPlace(f)
BY DEF Whole, InPlace

\* Who relied on the episode, and still does, keeps it.
LEMMA StaysKept ==
  ASSUME Stays, Relied' => Relied, Whole => Whole',
         \A i \in Input : placed[i] = 3 => placed'[i] = 3,
         (\A t \in Task : ~Publishing(t)) /\ Whole => (\A t \in Task : ~Publishing(t)')
  PROVE  Stays'
BY DEF Stays

\* The episode is found, or has just been published, and is verified.
LEMMA StaysBegins ==
  ASSUME Whole', \A i \in Input : placed'[i] = 3, \A t \in Task : ~Publishing(t)'
  PROVE  Stays'
BY DEF Stays

LEMMA StaysStep == MediaInv /\ [Next]_vars => Stays'
<1> SUFFICES ASSUME MediaInv, [Next]_vars
             PROVE  Stays'
  OBVIOUS
<1> USE DEF MediaInv
<1>1. CASE UNCHANGED vars
  <2>1. Relied' = Relied /\ Whole' = Whole /\ UNCHANGED placed
        /\ \A t \in Task : Publishing(t)' = Publishing(t)
    BY <1>1 DEF vars, workVars, taskVars, pubVars, sweepVars, Relied, Whole, Publishing
  <2> QED  BY <2>1, StaysKept
<1>2. ASSUME NEW t \in Task, WorkStep(t) PROVE Stays'
  <2>1. /\ UNCHANGED <<pub, original, sweep>>
        /\ pc'[t] \in Early \cup {"manifest"}
        /\ \A u \in Task \ {t} : pc'[u] = pc[u]
        /\ \A u \in Task : row'[u] = "done" => row[u] = "done"
        /\ \A i \in Input : placed[i] = 3 => placed'[i] = 3
    BY <1>2, WorkEffect
  <2>2. Relied' => Relied
    BY <2>1 DEF Relied, Early
  <2>3. Whole => Whole'
    BY <2>1 DEF Whole
  <2>4. \A u \in Task : Publishing(u)' => Publishing(u)
    BY <2>1 DEF Publishing, Early
  <2> QED  BY <2>1, <2>2, <2>3, <2>4, StaysKept
<1>3. ASSUME NEW t \in Task, PublicationStep(t) PROVE Stays'
  <2>1. /\ UNCHANGED <<workVars, sweep>>
        /\ \A u \in Task \ {t} : pc'[u] = pc[u]
        /\ \A u \in Task : row'[u] = "done" => row[u] = "done"
    BY <1>3, PublicationEffect DEF sweepVars
  <2>2. pc'[t] \notin After => (Relied' => Relied)
    BY <2>1 DEF Relied, After, workVars
  <2>3. CASE SaveManifest(t) \/ Unverified(t) \/ StageFails(t)
    <3>1. UNCHANGED pub /\ pc'[t] \in {"idle", "lookup"}
      BY <2>3, GotoEffect, ReturnEffect DEF SaveManifest, Unverified, StageFails, pubVars
    <3>2. Whole' = Whole /\ \A u \in Task : Publishing(u)' => Publishing(u)
      BY <2>1, <3>1 DEF Whole, Publishing
    <3> QED  BY <2>1, <2>2, <3>1, <3>2, StaysKept DEF After, workVars
  <2>4. CASE Reuse(t)
    <3>1. /\ UNCHANGED pub /\ pc[t] = "lookup" /\ lock = None /\ Found /\ pc'[t] = "post"
      BY <2>4, GotoEffect DEF Reuse, Reuses, At, pubVars
    <3>2. Whole
      BY <3>1 DEF Found, Ours, InPlace, Publication
    <3>3. Whole'
      BY <3>1, <3>2 DEF Whole
    <3>4. \A u \in Task : ~Publishing(u)'
      BY <2>1, <3>1, NoneIsNobody DEF Locks, Publishing
    <3>5. \A i \in Input : placed'[i] = 3
      BY <2>1, <3>1 DEF Progress, workVars
    <3> QED  BY <3>3, <3>4, <3>5, StaysBegins
  <2>5. CASE Build(t)
    <3>1. pub["mp4"] = "none" /\ "mp4" \in File /\ pc'[t] = "link"
      BY <2>5, Files, GotoEffect DEF Build
    <3>2. ~Relied
      BY <3>1 DEF Stays, Whole
    <3> QED  BY <2>2, <3>1, <3>2 DEF Stays, After
  <2>6. CASE Commit(t)
    <3>1. /\ UNCHANGED pub /\ pc[t] = "link" /\ pc'[t] = "post" /\ applied = 7
      BY <2>6, GotoEffect, OrderIs DEF Commit, At, pubVars
    <3>2. Whole'
      <4>1. \A f \in File : InPlace(f)
        BY <3>1, RecoveryIs DEF Publication
      <4>2. Whole
        BY <4>1, WholeIs
      <4> QED  BY <3>1, <4>2 DEF Whole
    <3>3. \A u \in Task : ~Publishing(u)'
      BY <2>1, <3>1, Alone DEF Publishing
    <3>4. \A i \in Input : placed'[i] = 3
      BY <2>1, <3>1 DEF Progress, workVars
    <3> QED  BY <3>2, <3>3, <3>4, StaysBegins
  <2>7. CASE PublishFile(t) \/ PublishFails(t) \/ UndoFile(t) \/ UndoFails(t) \/ Undone(t)
    <3>1. Publishing(t)
      BY <2>7 DEF PublishFile, PublishFails, UndoFile, UndoFails, Undone, At, Publishing
    <3>2. ~Relied
      BY <3>1 DEF Stays
    <3>3. pc'[t] \in {"link", "undo", "idle"}
      BY <2>7, GotoEffect, ReturnEffect
      DEF PublishFile, PublishFails, UndoFile, UndoFails, Undone, Undo, At, taskVars
    <3> QED  BY <2>2, <3>2, <3>3 DEF Stays, After
  <2> QED  BY <1>3, <2>3, <2>4, <2>5, <2>6, <2>7 DEF PublicationStep
<1>4. ASSUME NEW t \in Task, LaterStep(t) PROVE Stays'
  <2>1. /\ UNCHANGED <<placed, original, pub, sweep>>
        /\ \A u \in Task \ {t} : pc'[u] = pc[u] /\ row'[u] = row[u]
        /\ UNCHANGED pc \/ (pc[t] \in After /\ pc'[t] \in After \cup {"idle"})
        /\ row'[t] = "done" => row[t] = "done" \/ pc[t] \in After
    BY <1>4, LaterEffect DEF sweepVars
  <2>2. Relied' => Relied
    BY <2>1 DEF Relied, After
  <2>3. Whole' = Whole /\ \A u \in Task : Publishing(u)' => Publishing(u)
    BY <2>1 DEF Whole, Publishing, After
  <2> QED  BY <2>1, <2>2, <2>3, StaysKept
<1>5. CASE SweepStep
  <2>1. UNCHANGED <<placed, pub, row>>
    BY <1>5
    DEF SweepStep, BeginSweep, LinkSource, RemoveSource, NextPart, SweepDone, SweepFails,
        EndSweep, SetKeepSource, Goto, workVars, taskVars, pubVars
  <2>2. \A u \in Task : pc'[u] = pc[u] \/ (pc[u] = "clean" /\ pc'[u] = "leave")
    <3>1. CASE SweepDone \/ SweepFails
      <4>1. lock \in Task \cup {Cleaner} /\ (lock \in Task => pc[lock] = "clean")
        BY <3>1 DEF SweepDone, SweepFails, Locks, TypeOK
      <4> QED  BY <3>1, <4>1, GotoEffect DEF SweepDone, SweepFails, EndSweep, taskVars
    <3>2. CASE SweepStep /\ ~SweepDone /\ ~SweepFails
      BY <3>2
      DEF SweepStep, BeginSweep, LinkSource, RemoveSource, NextPart, SetKeepSource, taskVars
    <3> QED  BY <1>5, <3>1, <3>2
  <2>3. Whole' = Whole /\ \A u \in Task : Publishing(u)' => Publishing(u)
    BY <2>1, <2>2 DEF Whole, Publishing
  <2>4. CASE \E p \in Task \cup {Cleaner} : BeginSweep(p)
    <3>1. lock = None /\ Covered
      BY <2>4 DEF BeginSweep
    <3>2. Whole
      BY <3>1 DEF Covered, Valid, Found, Ours, InPlace, Publication
    <3>3. \A u \in Task : ~Publishing(u)
      BY <3>1, NoneIsNobody DEF Locks, Publishing
    <3>4. \A i \in Input : placed'[i] = 3
      BY <2>1, <3>1 DEF Covered, WorkIsWhole
    <3> QED  BY <2>3, <3>2, <3>3, <3>4, StaysBegins
  <2>5. CASE SweepStep /\ ~\E p \in Task \cup {Cleaner} : BeginSweep(p)
    <3>1. sweep = "none" => UNCHANGED <<sweep, original>>
      BY <2>5
      DEF SweepStep, LinkSource, RemoveSource, NextPart, SweepDone, SweepFails, SetKeepSource,
          Sweep, sweepVars, workVars
    <3>2. Relied' => Relied
      BY <2>1, <2>2, <3>1 DEF Relied
    <3> QED  BY <2>1, <2>3, <3>2, StaysKept
  <2> QED  BY <1>5, <2>4, <2>5
<1>6. CASE (\E i \in Input : WorkerStep(i)) \/ EndSession
  <2>1. UNCHANGED <<placed, original, pc, row, pub, sweep>>
    BY <1>6 DEF WorkerStep, EndSession, workVars, taskVars, pubVars, sweepVars
  <2>2. Relied' = Relied /\ Whole' = Whole /\ \A t \in Task : Publishing(t)' = Publishing(t)
    BY <2>1 DEF Relied, Whole, Publishing
  <2> QED  BY <2>1, <2>2, StaysKept
<1>7. CASE ForeignFile
  <2>1. /\ UNCHANGED <<placed, original, pc, row, sweep>>
        /\ pub' = pub \/ \E f \in File \ {"show"} :
                            pub[f] = "none" /\ pub' = [pub EXCEPT ![f] = "foreign"]
    BY <1>7 DEF ForeignFile, taskVars, sweepVars
  <2>2. Relied' = Relied /\ \A t \in Task : Publishing(t)' = Publishing(t)
    BY <2>1 DEF Relied, Publishing
  <2>3. Whole => Whole'
    BY <2>1 DEF Whole
  <2> QED  BY <2>1, <2>2, <2>3, StaysKept
<1>8. CASE Crash
  <2>1. /\ UNCHANGED <<placed, original, row>> /\ sweep' = "none"
        /\ \A t \in Task : pc'[t] = "idle"
        /\ pub' = pub \/ (pub["json"] = "ours" /\ pub' = [pub EXCEPT !["json"] = "torn"])
    BY <1>8 DEF Crash
  <2>2. Relied' => Relied
    BY <2>1 DEF Relied
  <2>3. Whole => Whole'
    BY <2>1, Files DEF Whole, TypeOK
  <2>4. \A t \in Task : ~Publishing(t)'
    BY <2>1 DEF Publishing
  <2> QED  BY <2>1, <2>2, <2>3, <2>4, StaysKept
<1> QED  BY <1>1, <1>2, <1>3, <1>4, <1>5, <1>6, <1>7, <1>8, Groups DEF WorldStep

-----------------------------------------------------------------------------
(* The links of the recordings to the episode.                             *)

\* The links survive a step that takes none of them away.
LEMMA LinksKept ==
  ASSUME Links, UNCHANGED <<original, linked, spoiled, sweep, todo>>,
         pub'["json"] = "torn" => pub["json"] = "torn",
         \A i \in Input : ckpt[i] = "completed" => ckpt'[i] = "completed"
  PROVE  Links'
BY DEF Links

\* The worker is not asked again for a recording that is completed.
LEMMA CompletedStays ==
  ASSUME TypeOK, Attempts, NEW t \in Task, WorkStep(t)
  PROVE  \A i \in Input : ckpt[i] = "completed" => ckpt'[i] = "completed"
<1> DEFINE i == Current(t)
<1>1. i \in Input /\ ckpt \in [Input -> {"none", "running", "queued", "completed", "torn"}]
  BY CurrentIsInput DEF TypeOK
<1>2. \/ UNCHANGED ckpt
      \/ ckpt' = [ckpt EXCEPT ![i] = "completed"]
      \/ ckpt[i] # "completed" /\ \E c : ckpt' = [ckpt EXCEPT ![i] = c]
  <2>1. CASE LoadFinished(t) \/ Complete(t)
    BY <2>1 DEF LoadFinished, Complete
  <2>2. CASE BeginAttempt(t)
    BY <2>2 DEF BeginAttempt, MayAsk
  <2>3. CASE AnswerRefused(t) \/ AnswerLost(t)
    BY <2>3 DEF AnswerRefused, AnswerLost, At, Attempts, Asked
  <2>4. CASE \/ Start(t) \/ LoadRefused(t) \/ Ask(t) \/ AnswerDone(t) \/ Confirm(t)
             \/ LinkOutput(t) \/ OutputConflict(t) \/ Placed(t) \/ CompleteMedia(t)
    BY <2>4
    DEF Start, LoadRefused, Ask, AnswerDone, Confirm, LinkOutput, OutputConflict, Placed,
        CompleteMedia, workVars
  <2> QED  BY <2>1, <2>2, <2>3, <2>4 DEF WorkStep
<1> HIDE DEF i
<1> QED  BY <1>1, <1>2

LEMMA LinksStep == TypeOK /\ Locks /\ Attempts /\ Links /\ [Next]_vars => Links'
<1> SUFFICES ASSUME TypeOK, Locks, Attempts, Links, [Next]_vars
             PROVE  Links'
  OBVIOUS
<1>1. CASE UNCHANGED vars
  BY <1>1, LinksKept DEF vars, workVars, pubVars, sweepVars, histVars
<1>2. ASSUME NEW t \in Task, WorkStep(t) PROVE Links'
  BY <1>2, WorkEffect, CompletedStays, LinksKept
<1>3. ASSUME NEW t \in Task, PublicationStep(t) PROVE Links'
  <2>1. UNCHANGED <<original, linked, ckpt, sweep, todo>>
    BY <1>3, PublicationEffect DEF workVars, sweepVars
  <2>2. UNCHANGED spoiled
    BY <1>3
    DEF PublicationStep, SaveManifest, Reuse, Unverified, Build, PublishFile, PublishFails,
        Commit, UndoFile, UndoFails, Undone, StageFails, histVars
  <2>3. pub'["json"] = "torn" => pub["json"] = "torn"
    <3>1. CASE PublishFile(t) \/ UndoFile(t)
      <4>1. pub \in [File -> {"none", "ours", "foreign", "torn"}] /\ "json" \in File
        BY Files DEF TypeOK
      <4>2. \E f : pub' = [pub EXCEPT ![f] = "ours"] \/ pub' = [pub EXCEPT ![f] = "none"]
        BY <3>1 DEF PublishFile, UndoFile
      <4> QED  BY <4>1, <4>2
    <3>2. CASE PublicationStep(t) /\ ~PublishFile(t) /\ ~UndoFile(t)
      BY <3>2
      DEF PublicationStep, SaveManifest, Reuse, Unverified, Build, PublishFails, Commit,
          UndoFails, Undone, StageFails, pubVars
    <3> QED  BY <1>3, <3>1, <3>2
  <2> QED  BY <2>1, <2>2, <2>3, LinksKept
<1>4. ASSUME NEW t \in Task, LaterStep(t) PROVE Links'
  <2>1. UNCHANGED <<ckpt, original, pub, sweep, todo>>
    BY <1>4, LaterEffect DEF sweepVars
  <2>2. CASE WriteMark(t)
    <3>1. copy \in Input \X BOOLEAN /\ linked \in [Input -> BOOLEAN]
      BY <2>2 DEF WriteMark, TypeOK
    <3>2. /\ linked' = [linked EXCEPT ![copy[1]] = copy[2]]
          /\ spoiled' = IF linked[copy[1]] /\ ~copy[2] THEN spoiled \cup {copy[1]}
                                                       ELSE spoiled
      BY <2>2 DEF WriteMark
    <3>3. /\ spoiled \subseteq spoiled'
          /\ \A i \in Input \ spoiled' : linked[i] => linked'[i]
      BY <3>1, <3>2
    <3>4. spoiled' \subseteq Input
      BY <3>1, <3>2 DEF TypeOK
    <3> QED  BY <2>1, <3>3, <3>4 DEF Links
  <2>3. CASE LaterStep(t) /\ ~WriteMark(t)
    <3>1. UNCHANGED <<linked, spoiled>>
      BY <2>3 DEF LaterStep, Post, ReadMark, Marked, Finish, ResumeTask, workVars, histVars
    <3> QED  BY <2>1, <3>1, LinksKept
  <2> QED  BY <1>4, <2>2, <2>3
<1>5. CASE SweepStep
  <2>1. CASE \E p \in Task \cup {Cleaner} : BeginSweep(p)
    <3>1. /\ Covered /\ sweep' = "link" /\ todo' = Input /\ lock = None
          /\ UNCHANGED <<ckpt, original, linked, pub, spoiled>>
      BY <2>1 DEF BeginSweep, Sweep, workVars, pubVars, histVars
    <3>2. \A i \in Input : ckpt[i] = "completed"
      BY <3>1 DEF Covered, WorkIsWhole
    <3> QED  BY <3>1, <3>2 DEF Links
  <2>2. CASE LinkSource
    <3>1. PICK i \in todo : linked' = [linked EXCEPT ![i] = TRUE] /\ todo' = todo \ {i}
      BY <2>2 DEF LinkSource
    <3>2. sweep = "link" /\ UNCHANGED <<ckpt, original, pub, spoiled, sweep>>
      BY <2>2 DEF LinkSource, pubVars, histVars
    <3>3. i \in Input /\ linked \in [Input -> BOOLEAN]
      BY DEF TypeOK
    <3>4. linked'[i] /\ \A j \in Input \ {i} : linked'[j] = linked[j]
      BY <3>1, <3>3
    <3> QED  BY <3>1, <3>2, <3>4 DEF Links
  <2>3. CASE RemoveSource
    <3>1. PICK i \in todo : original' = [original EXCEPT ![i] = FALSE] /\ todo' = todo \ {i}
      BY <2>3 DEF RemoveSource
    <3>2. sweep = "remove" /\ UNCHANGED <<ckpt, linked, pub, spoiled, sweep>>
      BY <2>3 DEF RemoveSource, pubVars, histVars
    <3>3. \A j \in Input : original'[j] => original[j]
      BY <3>1 DEF TypeOK
    <3> QED  BY <3>2 DEF Links
  <2>4. CASE NextPart
    <3>1. /\ sweep \in {"link", "remove"} /\ todo = {}
          /\ sweep' = IF sweep = "link" THEN "remove" ELSE "note"
          /\ UNCHANGED <<ckpt, linked, original, pub, spoiled>>
      BY <2>4 DEF NextPart, Sweep, workVars, pubVars, histVars
    <3> QED  BY <3>1 DEF Links
  <2>5. CASE SweepDone \/ SweepFails
    <3>1. sweep' = "none" /\ UNCHANGED <<ckpt, linked, original, pub, spoiled>>
      BY <2>5 DEF SweepDone, SweepFails, EndSweep, workVars, histVars
    <3> QED  BY <3>1 DEF Links
  <2>6. CASE \E k \in BOOLEAN : SetKeepSource(k)
    BY <2>6, LinksKept DEF SetKeepSource, workVars, sweepVars, histVars
  <2> QED  BY <1>5, <2>1, <2>2, <2>3, <2>4, <2>5, <2>6 DEF SweepStep
<1>6. CASE (\E i \in Input : WorkerStep(i)) \/ EndSession
  BY <1>6, LinksKept DEF WorkerStep, EndSession, workVars, pubVars, sweepVars, histVars
<1>7. CASE ForeignFile
  <2>1. /\ UNCHANGED <<ckpt, linked, original, spoiled, sweep, todo>>
        /\ pub' = pub \/ \E f \in File : pub' = [pub EXCEPT ![f] = "foreign"]
    BY <1>7 DEF ForeignFile, sweepVars
  <2>2. pub'["json"] = "torn" => pub["json"] = "torn"
    BY <2>1, Files DEF TypeOK
  <2> QED  BY <2>1, <2>2, LinksKept
<1>8. CASE Crash
  <2>1. /\ UNCHANGED <<linked, original>> /\ sweep' = "none"
        /\ \/ UNCHANGED <<ckpt, pub, spoiled>>
           \/ /\ copy # None
              /\ ckpt' = [ckpt EXCEPT ![copy[1]] = "torn"]
              /\ spoiled' = spoiled \cup {copy[1]}
              /\ UNCHANGED pub
           \/ spoiled' = Input
    BY <1>8 DEF Crash
  <2>2. copy # None => copy[1] \in Input
    BY DEF TypeOK
  <2>3. CASE UNCHANGED <<ckpt, pub, spoiled>>
    BY <2>1, <2>3 DEF Links
  <2>4. CASE /\ copy # None
             /\ ckpt' = [ckpt EXCEPT ![copy[1]] = "torn"]
             /\ spoiled' = spoiled \cup {copy[1]}
             /\ UNCHANGED pub
    <3>1. \A i \in Input \ spoiled' : ckpt'[i] = ckpt[i] /\ i \notin spoiled
      BY <2>2, <2>4 DEF TypeOK
    <3>2. spoiled = Input => spoiled' = Input
      BY <2>2, <2>4
    <3> QED  BY <2>1, <2>4, <3>1, <3>2 DEF Links
  <2>5. CASE spoiled' = Input
    BY <2>5 DEF Links
  <2> QED  BY <2>1, <2>3, <2>4, <2>5
<1> QED  BY <1>1, <1>2, <1>3, <1>4, <1>5, <1>6, <1>7, <1>8, Groups DEF WorldStep

-----------------------------------------------------------------------------
(* The theorems.                                                           *)

LEMMA MediaInit == Init => MediaInv
<1> SUFFICES ASSUME Init
             PROVE  MediaInv
  OBVIOUS
<1>1. TypeOK
  BY TypeInit
<1>2. /\ \A t \in Task : pc[t] = "idle" /\ row[t] = "pending"
      /\ \A f \in File : pub[f] = "none"
      /\ \A i \in Input : ckpt[i] = "none" /\ job[i] = "none" /\ burns[i] = 0 /\ original[i]
      /\ sweep = "none"
  BY DEF Init
<1>3. \A f \in File : ~InPlace(f)
  BY <1>2 DEF InPlace
<1>4. "json" \in File /\ "mp4" \in File /\ "show" \in File
  BY Files
<1>5. Locks /\ Progress
  BY <1>2, <1>3 DEF Locks, Progress, Publishing
<1>6. Attempts
  BY <1>2 DEF Attempts, Begun, Asked
<1>7. Publication /\ NothingElse
  BY <1>2, <1>3, <1>4 DEF Publication, NothingElse
<1>8. Stays /\ Links
  BY <1>2, <1>4 DEF Stays, Links, Relied
<1> QED  BY <1>1, <1>5, <1>6, <1>7, <1>8 DEF MediaInv

LEMMA MediaStep == MediaInv /\ [Next]_vars => MediaInv'
BY TypeStep, LocksStep, ProgressStep, AttemptsStep, FilesStep, StaysStep, LinksStep
DEF MediaInv

(* Type correctness, and with it the inductive invariant: the locks of the *)
(* library, the attempts of the worker, the files of a publication, the    *)
(* links of the recordings.                                                *)
THEOREM MediaInductive == Spec => []MediaInv
BY MediaInit, MediaStep, PTL DEF Spec

\* The variables keep their types, for any tasks, recordings and faults.
THEOREM TypeCorrect == Spec => []TypeOK
<1>1. MediaInv => TypeOK
  BY DEF MediaInv
<1> QED  BY <1>1, MediaInductive, PTL

(* The worker begins on a recording once, however many tasks, crashes, lost*)
(* answers and failures there are: a checkpoint that lets it go to the     *)
(* worker again is one of an attempt the worker has refused.               *)
THEOREM WorkerBeginsOnce == Spec => []BurnedOnce
<1>1. MediaInv => BurnedOnce
  BY DEF MediaInv, Attempts, Begun, BurnedOnce
<1> QED  BY <1>1, MediaInductive, PTL

\* A task that is done, or an original that has gone, has its whole episode.
THEOREM EpisodeIsKept == Spec => []EpisodeStays
<1>1. MediaInv => EpisodeStays
  BY DEF MediaInv, Stays, Relied, EpisodeStays
<1> QED  BY <1>1, MediaInductive, PTL

(* The whole episode or nothing of it, unless a crash or a file that could *)
(* not be removed has cut a publication off.                               *)
THEOREM EpisodeIsWholeOrNot == Spec => []NoHalfEpisode
<1>1. MediaInv => NoHalfEpisode
  BY DEF MediaInv, NothingElse, Publishing, InPlace, NoHalfEpisode
<1> QED  BY <1>1, MediaInductive, PTL

\* A removed original is found published by the task that is resumed.
THEOREM TasksCanBeResumed == Spec => []ResumeStaysPossible
<1>1. MediaInv => ResumeStaysPossible
  <2> SUFFICES ASSUME MediaInv, NEW i \in Input, i \notin spoiled, ~original[i]
               PROVE  HasInput(i)
    BY DEF ResumeStaysPossible, HasInput
  <2>1. Whole /\ placed[i] = 3
    BY DEF MediaInv, Stays, Relied
  <2>2. linked[i] /\ ckpt[i] = "completed" /\ pub["json"] # "torn"
    BY DEF MediaInv, Links
  <2>3. Ready
    <3>1. "show" \in File /\ InPlace("show")
      BY <2>1, Files, WholeIs
    <3> QED  BY <3>1 DEF MediaInv, Progress
  <2>4. Valid
    <3>1. \A f \in {"json", "mp4", "srt", "ass", "nfo"} : f \in File
      BY Files
    <3>2. \A f \in {"json", "mp4", "srt", "ass", "nfo"} : pub[f] = "ours"
      BY <2>1, <2>2, <3>1 DEF Whole, MediaInv, Publication
    <3> QED  BY <3>2 DEF Valid, Found, Ours
  <2> QED  BY <2>1, <2>2, <2>3, <2>4 DEF HasInput, WorkIsWhole
<1> QED  BY <1>1, MediaInductive, PTL

(* The mark is set and the originals are removed under one lock: no step   *)
(* removes an original that is to be kept.                                 *)
THEOREM MarkIsRespected == Spec => KeptIsKept
<1>1. MediaInv /\ [Next]_vars => [\A i \in Input : original[i] /\ ~original'[i] => ~keep]_vars
  <2> SUFFICES ASSUME MediaInv, [Next]_vars, NEW i \in Input, original[i], ~original'[i]
               PROVE  ~keep
    OBVIOUS
  <2>1. RemoveSource \/ UNCHANGED original
    <3>1. ASSUME NEW t \in Task, WorkStep(t) PROVE UNCHANGED original
      BY <3>1, WorkEffect DEF MediaInv
    <3>2. ASSUME NEW t \in Task, PublicationStep(t) PROVE UNCHANGED original
      BY <3>2, PublicationEffect DEF MediaInv, workVars
    <3>3. ASSUME NEW t \in Task, LaterStep(t) PROVE UNCHANGED original
      BY <3>3, LaterEffect DEF MediaInv
    <3>4. CASE SweepStep
      BY <3>4
      DEF SweepStep, BeginSweep, LinkSource, NextPart, SweepDone, SweepFails, EndSweep,
          SetKeepSource, workVars
    <3>5. CASE WorldStep
      BY <3>5 DEF WorldStep, WorkerStep, EndSession, ForeignFile, Crash, workVars
    <3>6. CASE UNCHANGED vars
      BY <3>6 DEF vars, workVars
    <3> QED  BY <3>1, <3>2, <3>3, <3>4, <3>5, <3>6, Groups
  <2>2. sweep = "remove"
    BY <2>1 DEF RemoveSource
  <2> QED  BY <2>2 DEF MediaInv, Locks
<1> QED  BY <1>1, MediaInductive, PTL DEF Spec, KeptIsKept

(* A publication places its files where nothing is, and takes away nothing *)
(* but what it has placed.                                                 *)
THEOREM OthersAreSafe == Spec => NeverOverwrites
<1>1. MediaInv /\ [Next]_vars
        => [\A f \in File : pub[f] = "foreign" => pub'[f] = "foreign"]_vars
  <2> SUFFICES ASSUME MediaInv, [Next]_vars, NEW f \in File, pub[f] = "foreign"
               PROVE  pub'[f] = "foreign"
    OBVIOUS
  <2>0. pub \in [File -> {"none", "ours", "foreign", "torn"}] /\ f # "show"
    BY DEF MediaInv, TypeOK, Publication
  <2>1. ASSUME NEW t \in Task, WorkStep(t) PROVE UNCHANGED pub
    BY <2>1, WorkEffect DEF MediaInv
  <2>2. ASSUME NEW t \in Task, LaterStep(t) PROVE UNCHANGED pub
    BY <2>2, LaterEffect DEF MediaInv
  <2>3. ASSUME NEW t \in Task, PublicationStep(t) PROVE pub'[f] = "foreign"
    <3>1. CASE PublishFile(t)
      <4>1. PICK g \in {Order[applied + 1]} :
              MayPlace(g) /\ pub' = [pub EXCEPT ![g] = "ours"]
        BY <3>1 DEF PublishFile
      <4>2. f # g
        BY <2>0, <4>1 DEF MayPlace
      <4> QED  BY <2>0, <4>1, <4>2
    <3>2. CASE UndoFile(t)
      <4>1. PICK g \in undo : pub' = [pub EXCEPT ![g] = "none"]
        BY <3>2 DEF UndoFile
      <4>2. InPlace(g)
        BY <3>2 DEF UndoFile, At, MediaInv, Publication
      <4> QED  BY <2>0, <4>1, <4>2 DEF InPlace
    <3>3. CASE PublicationStep(t) /\ ~PublishFile(t) /\ ~UndoFile(t)
      BY <3>3
      DEF PublicationStep, SaveManifest, Reuse, Unverified, Build, PublishFails, Commit,
          UndoFails, Undone, StageFails, pubVars
    <3> QED  BY <2>3, <3>1, <3>2, <3>3
  <2>4. CASE SweepStep
    BY <2>4
    DEF SweepStep, BeginSweep, LinkSource, RemoveSource, NextPart, SweepDone, SweepFails,
        EndSweep, SetKeepSource, pubVars
  <2>5. CASE WorldStep
    BY <2>0, <2>5 DEF WorldStep, WorkerStep, EndSession, ForeignFile, Crash, pubVars
  <2>6. CASE UNCHANGED vars
    BY <2>6 DEF vars, pubVars
  <2> QED  BY <2>1, <2>2, <2>3, <2>4, <2>5, <2>6, Groups
<1> QED  BY <1>1, MediaInductive, PTL DEF Spec, NeverOverwrites

=============================================================================
