--------------------------- MODULE Launcher_proofs ---------------------------
(***************************************************************************)
(* Proofs about Launcher, for any number of versions, children, tries,     *)
(* updates and faults.                                                     *)
(***************************************************************************)
EXTENDS Launcher, TLAPS

-----------------------------------------------------------------------------
(* Types.                                                                  *)

Reference == [name : Version, path : Version]

LEMMA StateFields ==
  State = [active : Reference, backup : Reference, failures : 0..Most]
BY DEF State, Reference

\* The counters stay below their bounds.
LEMMA Numbers ==
  /\ MaxRetries \in Nat /\ MaxRetries > 0 /\ MaxFaults \in Nat /\ MaxUpdates \in Nat
  /\ Most \in Nat /\ 0 \in 0..Most /\ 0 \in 0..MaxFaults /\ 0 \in 0..MaxUpdates
  /\ Most > MaxRetries /\ \A n \in 0..Most : n < Most => n + 1 \in 0..Most
  /\ \A n \in 0..MaxFaults : n < MaxFaults => n + 1 \in 0..MaxFaults
  /\ \A n \in 0..MaxUpdates : n < MaxUpdates => n + 1 \in 0..MaxUpdates
BY LauncherConstants DEF Most

\* Going back to a version, or learning that one works, clears the failures.
LEMMA Cleared ==
  ASSUME NEW s \in State, NEW r \in Reference
  PROVE  [s EXCEPT !.active = r, !.failures = 0] \in State
<1>1. [s EXCEPT !.active = r, !.failures = 0] = [[s EXCEPT !.active = r] EXCEPT !.failures = 0]
  BY StateFields
<1>2. [s EXCEPT !.active = r] \in State
  BY StateFields
<1>3. \A u \in State : [u EXCEPT !.failures = 0] \in State
  BY StateFields, Numbers
<1> QED  BY <1>1, <1>2, <1>3

\* What the actions make of a state is a state.
LEMMA NoStateIsState == NoState \in State
BY StateFields, Numbers, LauncherConstants DEF NoState, Ref, Reference

LEMMA Parts ==
  ASSUME NEW s \in State
  PROVE  /\ s.active \in Reference /\ s.backup \in Reference
         /\ s.active.path \in Version /\ s.backup.path \in Version
         /\ s.failures \in Nat /\ s.failures <= Most
<1>1. s.active \in Reference /\ s.backup \in Reference /\ s.failures \in 0..Most
  BY StateFields
<1>2. s.active.path \in Version /\ s.backup.path \in Version
  BY <1>1 DEF Reference
<1> QED  BY <1>1, <1>2, Numbers

LEMMA Updated ==
  ASSUME NEW v \in Version, NEW w \in Version
  PROVE  [active |-> Ref(v), backup |-> Ref(w), failures |-> 0] \in State
BY StateFields, Numbers DEF Ref, Reference

LEMMA Swapped ==
  ASSUME NEW s \in State
  PROVE  [active |-> s.backup, backup |-> s.active, failures |-> 0] \in State
BY StateFields, Numbers, Parts

LEMMA RolledBack ==
  ASSUME NEW s \in State
  PROVE  [s EXCEPT !.active = s.backup, !.failures = 0] \in State
BY Cleared, Parts

LEMMA Reset ==
  ASSUME NEW s \in State
  PROVE  [s EXCEPT !.failures = 0] \in State
BY StateFields, Numbers

LEMMA Failed ==
  ASSUME NEW s \in State
  PROVE  [s EXCEPT !.failures = More(@)] \in State
BY StateFields, Numbers DEF More

LEMMA Named ==
  ASSUME NEW s \in State, NEW v \in Version
  PROVE  [s EXCEPT !.active.name = v, !.failures = 0] \in State
<1>1. [s.active EXCEPT !.name = v] \in Reference
  BY StateFields DEF Reference
<1>2. [s EXCEPT !.active = [s.active EXCEPT !.name = v], !.failures = 0] \in State
  BY <1>1, Cleared
<1> QED  BY <1>2

LEMMA TypeInit == Init => TypeOK
<1> SUFFICES ASSUME Init
             PROVE  TypeOK
  OBVIOUS
<1>1. file \in State /\ st \in State
  BY NoStateIsState DEF Init
<1>2. faults \in 0..MaxFaults /\ updates \in 0..MaxUpdates /\ tries \in 0..Most
  BY Numbers DEF Init
<1> QED  BY <1>1, <1>2, LauncherConstants DEF Init, TypeOK

\* The parts of TypeOK.
NumbersOK == faults \in 0..MaxFaults /\ updates \in 0..MaxUpdates /\ tries \in 0..Most
StateOK == stored \in {"none", "torn", "ok"} /\ file \in State
RunnerOK ==
  /\ st \in State /\ target \in Version
  /\ ok \in BOOLEAN /\ exited \in BOOLEAN
  /\ startup \in {"none", "open", "closed"} /\ main \in Child \cup {None}
ChildrenOK ==
  /\ cstate \in [Child -> {"none", "boot", "up", "leaving", "dead"}]
  /\ ver \in [Child -> Version]
  /\ sent \in [Child -> {"no", "sent", "heard"}]
OtherOK ==
  /\ lost \in SUBSET Version /\ bad \in SUBSET Version
  /\ proc \in {"off", "plain", "switching", "top", "start", "arm", "await", "timedout",
               "stopping", "failed", "deciding", "confirmed", "waiting", "leaving"}
  /\ term \in BOOLEAN /\ misled \in BOOLEAN

LEMMA TypeParts ==
  /\ TypeOK => NumbersOK /\ StateOK /\ RunnerOK /\ ChildrenOK /\ OtherOK
  /\ NumbersOK' /\ StateOK' /\ RunnerOK' /\ ChildrenOK' /\ OtherOK' => TypeOK'
BY DEF TypeOK, NumbersOK, StateOK, RunnerOK, ChildrenOK, OtherOK

\* What a step leaves alone keeps its type.
LEMMA TypesKept ==
  /\ NumbersOK /\ UNCHANGED <<faults, updates, tries>> => NumbersOK'
  /\ StateOK /\ UNCHANGED stateVars => StateOK'
  /\ RunnerOK /\ UNCHANGED runnerVars => RunnerOK'
  /\ ChildrenOK /\ UNCHANGED childVars => ChildrenOK'
<1>1. NumbersOK /\ UNCHANGED <<faults, updates, tries>> => NumbersOK'
  BY DEF NumbersOK
<1>2. StateOK /\ UNCHANGED stateVars => StateOK'
  BY DEF StateOK, stateVars
<1>3. RunnerOK /\ UNCHANGED runnerVars => RunnerOK'
  BY DEF RunnerOK, runnerVars
<1>4. ChildrenOK /\ UNCHANGED childVars => ChildrenOK'
  BY DEF ChildrenOK, childVars
<1> QED  BY <1>1, <1>2, <1>3, <1>4

LEMMA BecomesTyped == StateOK /\ RunnerOK /\ BecomeLauncher => RunnerOK'
BY Parts DEF StateOK, RunnerOK, BecomeLauncher

LEMMA EndsTyped ==
  ProcessEnds /\ OtherOK /\ UNCHANGED <<lost, bad>> => RunnerOK' /\ ChildrenOK' /\ OtherOK'
<1> SUFFICES ASSUME ProcessEnds, OtherOK, UNCHANGED <<lost, bad>>
             PROVE  RunnerOK' /\ ChildrenOK' /\ OtherOK'
  OBVIOUS
<1>1. RunnerOK'
  BY NoStateIsState, LauncherConstants DEF ProcessEnds, RunnerOK
<1>2. ChildrenOK'
  BY LauncherConstants DEF ProcessEnds, ChildrenOK
<1>3. OtherOK'
  BY DEF ProcessEnds, OtherOK
<1> QED  BY <1>1, <1>2, <1>3

\* An update or a rollback that the program writes.
LEMMA WritesTyped ==
  ASSUME StateOK, NumbersOK, NEW v \in Version, Writes(v), UNCHANGED faults
  PROVE  StateOK' /\ NumbersOK' /\ tries' = 0
<1>1. tries' = 0 /\ stored' = "ok"
  BY DEF Writes, SwapVersions, WriteUpdate, WriteFile
<1>2. NumbersOK'
  BY <1>1, Numbers DEF NumbersOK, Writes
<1>3. CASE SwapVersions
  BY <1>1, <1>2, <1>3, Swapped DEF SwapVersions, WriteFile, StateOK
<1>4. CASE \E w \in Version : WriteUpdate(v, w)
  BY <1>1, <1>2, <1>4, Updated DEF WriteUpdate, WriteFile, StateOK
<1> QED  BY <1>3, <1>4 DEF Writes

LEMMA RollsBackTyped ==
  ASSUME RunnerOK, RollBack
  PROVE  StateOK' /\ st' \in State /\ target' \in Version /\ tries' = 0
BY RolledBack, Parts DEF RunnerOK, RollBack, Save, WriteFile, StateOK

-----------------------------------------------------------------------------

\* The steps of the entry process before and after a launch.
LEMMA ProcessTypes ==
  ASSUME TypeOK,
         Boot \/ PowerLoss \/ (\E v \in Version : Remove(v)) \/ PlainApplies \/ Switch
         \/ PlainEnds \/ Leave
  PROVE  TypeOK'
<1> USE TypeParts
<1>1. CASE Boot
  <2>1. RunnerOK' /\ OtherOK'
    BY <1>1, BecomesTyped, TypesKept DEF Boot, BecomeLauncher, OtherOK
  <2> QED  BY <1>1, <2>1, TypesKept DEF Boot
<1>2. CASE PowerLoss
  <2>1. RunnerOK' /\ ChildrenOK' /\ OtherOK'
    BY <1>2, EndsTyped DEF PowerLoss
  <2>2. StateOK'
    BY <1>2 DEF PowerLoss, StateOK
  <2>3. NumbersOK'
    BY <1>2, Numbers DEF PowerLoss, NumbersOK
  <2> QED  BY <2>1, <2>2, <2>3
<1>3. CASE \E v \in Version : Remove(v)
  <2>1. OtherOK'
    BY <1>3 DEF Remove, OtherOK
  <2>2. NumbersOK'
    BY <1>3, Numbers DEF Remove, NumbersOK
  <2> QED  BY <1>3, <2>1, <2>2, TypesKept DEF Remove
<1>4. CASE PlainApplies
  <2>1. StateOK' /\ NumbersOK'
    BY <1>4, WritesTyped, LauncherConstants DEF PlainApplies
  <2>2. OtherOK'
    BY <1>4 DEF PlainApplies, OtherOK
  <2> QED  BY <1>4, <2>1, <2>2, TypesKept DEF PlainApplies
<1>5. CASE Switch
  <2>1. NumbersOK' /\ StateOK'
    BY <1>5, TypesKept DEF Switch
  <2>2. CASE ShouldBeLauncher
    <3>1. RunnerOK' /\ OtherOK'
      BY <1>5, <2>2, BecomesTyped DEF Switch, BecomeLauncher, OtherOK
    <3> QED  BY <1>5, <2>1, <2>2, <3>1, TypesKept DEF Switch
  <2>3. CASE ~ShouldBeLauncher
    BY <1>5, <2>1, <2>3, EndsTyped DEF Switch
  <2> QED  BY <2>2, <2>3
<1>6. CASE PlainEnds \/ Leave
  <2>1. RunnerOK' /\ ChildrenOK' /\ OtherOK'
    BY <1>6, EndsTyped DEF PlainEnds, Leave
  <2> QED  BY <1>6, <2>1, TypesKept DEF PlainEnds, Leave
<1> QED  BY <1>1, <1>2, <1>3, <1>4, <1>5, <1>6

\* The steps of the children, and of the goroutines that watch them.
LEMMA ChildTypes ==
  ASSUME TypeOK, NEW c \in Child,
         ComesUp(c) \/ ChildApplies(c) \/ ChildEnds(c) \/ Reap(c) \/ Hear(c) \/ Record(c)
  PROVE  TypeOK'
<1> USE TypeParts
<1>1. CASE ComesUp(c)
  <2>1. ChildrenOK' /\ OtherOK'
    BY <1>1 DEF ComesUp, ChildrenOK, OtherOK
  <2> QED  BY <1>1, <2>1, TypesKept DEF ComesUp
<1>2. CASE ChildApplies(c)
  <2>1. ver[c] \in Version
    BY DEF ChildrenOK
  <2>2. StateOK' /\ NumbersOK'
    BY <1>2, <2>1, WritesTyped DEF ChildApplies
  <2>3. ChildrenOK' /\ OtherOK'
    BY <1>2 DEF ChildApplies, ChildrenOK, OtherOK
  <2> QED  BY <1>2, <2>2, <2>3, TypesKept DEF ChildApplies
<1>3. CASE ChildEnds(c)
  <2>1. ChildrenOK' /\ OtherOK'
    BY <1>3 DEF ChildEnds, ChildrenOK, OtherOK
  <2> QED  BY <1>3, <2>1, TypesKept DEF ChildEnds
<1>4. CASE Reap(c)
  <2>1. ChildrenOK' /\ OtherOK' /\ RunnerOK'
    BY <1>4 DEF Reap, ChildrenOK, OtherOK, RunnerOK
  <2> QED  BY <1>4, <2>1, TypesKept DEF Reap
<1>5. CASE Hear(c)
  <2>1. ChildrenOK' /\ OtherOK' /\ RunnerOK'
    BY <1>5 DEF Hear, ChildrenOK, OtherOK, RunnerOK
  <2>2. NumbersOK'
    BY <1>5, Numbers DEF Hear, NumbersOK
  <2> QED  BY <1>5, <2>1, <2>2, TypesKept DEF Hear
<1>6. CASE Record(c)
  <2>1. st' \in State
    BY <1>6, Named DEF Record, RunnerOK, ChildrenOK
  <2>2. StateOK' /\ RunnerOK'
    BY <1>6, <2>1 DEF Record, Save, WriteFile, StateOK, RunnerOK
  <2>3. ChildrenOK' /\ OtherOK'
    BY <1>6 DEF Record, ChildrenOK, OtherOK
  <2>4. NumbersOK'
    BY <1>6, Numbers DEF Record, NumbersOK
  <2> QED  BY <2>2, <2>3, <2>4
<1> QED  BY <1>1, <1>2, <1>3, <1>4, <1>5, <1>6

\* The steps of Run, and the signal.
LEMMA RunTypes ==
  ASSUME TypeOK, Terminate \/ RunStep
  PROVE  TypeOK'
<1> USE TypeParts
<1>1. CASE Terminate
  <2>1. ChildrenOK' /\ OtherOK'
    BY <1>1 DEF Terminate, ChildrenOK, OtherOK
  <2>2. NumbersOK'
    BY <1>1, Numbers DEF Terminate, NumbersOK
  <2> QED  BY <1>1, <2>1, <2>2, TypesKept DEF Terminate
<1>2. CASE Top \/ Await \/ TimerFires \/ Stopped
  <2>1. ChildrenOK' /\ OtherOK'
    BY <1>2, TypesKept DEF Top, Await, TimerFires, Stopped, After, Goto, OtherOK
  <2> QED  BY <1>2, <2>1, TypesKept DEF Top, Await, TimerFires, Stopped
<1>3. CASE Arm
  <2>1. RunnerOK' /\ ChildrenOK' /\ OtherOK'
    BY <1>3, TypesKept DEF Arm, Goto, RunnerOK, OtherOK
  <2> QED  BY <1>3, <2>1, TypesKept DEF Arm
<1>4. CASE StartFails \/ Decide
  <2>1. ChildrenOK' /\ OtherOK'
    BY <1>4, TypesKept DEF StartFails, Decide, Goto, OtherOK
  <2>2. CASE RollBack
    <3>1. StateOK' /\ st' \in State /\ target' \in Version /\ tries' = 0
      BY <2>2, RollsBackTyped
    <3>2. RunnerOK'
      BY <1>4, <3>1 DEF StartFails, Decide, RunnerOK
    <3>3. NumbersOK'
      BY <1>4, <3>1, Numbers DEF StartFails, Decide, NumbersOK
    <3> QED  BY <2>1, <3>1, <3>2, <3>3
  <2>3. CASE ~RollBack
    <3>1. UNCHANGED <<stateVars, st, target, tries, faults, updates>>
      BY <1>4, <2>3 DEF StartFails, Decide, CannotRollBack
    <3>2. UNCHANGED runnerVars
      BY <1>4, <3>1 DEF StartFails, Decide, runnerVars
    <3> QED  BY <2>1, <3>1, <3>2, TypesKept
  <2> QED  BY <2>2, <2>3
<1>5. CASE StartMainProgram
  <2> DEFINE k == CHOOSE c \in Child : Free(c)
  <2>1. k \in Child
    BY <1>5 DEF StartMainProgram
  <2>2. /\ main' = k /\ cstate' = [cstate EXCEPT ![k] = "boot"]
        /\ ver' = [ver EXCEPT ![k] = target]
        /\ ok' = FALSE /\ exited' = FALSE /\ proc' = "arm"
        /\ tries' = More(tries) /\ misled' = FALSE
        /\ UNCHANGED <<stateVars, lost, bad, st, target, startup, sent, term, faults, updates>>
    BY <1>5 DEF StartMainProgram
  <2> HIDE DEF k
  <2>3. ChildrenOK' /\ OtherOK'
    BY <2>1, <2>2 DEF ChildrenOK, OtherOK, RunnerOK
  <2>4. RunnerOK'
    BY <2>1, <2>2 DEF RunnerOK
  <2>5. NumbersOK'
    BY <2>2, Numbers DEF NumbersOK, More
  <2> QED  BY <2>2, <2>3, <2>4, <2>5, TypesKept
<1>6. CASE Kill
  <2>1. ChildrenOK' /\ OtherOK'
    BY <1>6 DEF Kill, After, ChildrenOK, OtherOK
  <2> QED  BY <1>6, <2>1, TypesKept DEF Kill
<1>7. CASE CountFailure \/ Confirmed
  <2>1. ChildrenOK' /\ OtherOK'
    BY <1>7, TypesKept DEF CountFailure, Confirmed, Goto, OtherOK
  <2>2. st' \in State /\ StateOK'
    BY <1>7, Failed, Reset, TypesKept
    DEF CountFailure, Confirmed, Save, WriteFile, RunnerOK, StateOK
  <2>3. RunnerOK'
    BY <1>7, <2>2 DEF CountFailure, Confirmed, RunnerOK
  <2> QED  BY <1>7, <2>1, <2>2, <2>3, TypesKept DEF CountFailure, Confirmed
<1>8. CASE Reload
  <2>1. ChildrenOK' /\ OtherOK'
    BY <1>8, TypesKept DEF Reload, Goto, OtherOK
  <2>2. RunnerOK'
    BY <1>8, Parts DEF Reload, StateOK, RunnerOK, runnerVars
  <2> QED  BY <1>8, <2>1, <2>2, TypesKept DEF Reload
<1>9. CASE Leave
  BY <1>9, ProcessTypes
<1> QED  BY <1>1, <1>2, <1>3, <1>4, <1>5, <1>6, <1>7, <1>8, <1>9 DEF RunStep

LEMMA TypeStep == TypeOK /\ [Next]_vars => TypeOK'
<1> SUFFICES ASSUME TypeOK, [Next]_vars
             PROVE  TypeOK'
  OBVIOUS
<1>1. CASE UNCHANGED vars
  BY <1>1, TypeParts, TypesKept DEF vars, OtherOK
<1>2. CASE Next
  BY <1>2, ProcessTypes, ChildTypes, RunTypes DEF Next
<1> QED  BY <1>1, <1>2

(* Type correctness: the launcher's state, its file and its children stay  *)
(* what the code takes them for.                                           *)
THEOREM TypeCorrect == Spec => []TypeOK
BY TypeInit, TypeStep, PTL DEF Spec

-----------------------------------------------------------------------------
(* How often a version is tried.                                           *)

(* The failures that count against a state that is going to be tried: one  *)
(* that has used up its tries has one left when the launcher was cut off   *)
(* before it decided.                                                      *)
Past(s) == IF s.failures < MaxRetries THEN s.failures ELSE MaxRetries - 1

\* The same between the count of a failure and the decision.
Counted(s) == IF s.failures < MaxRetries THEN s.failures ELSE MaxRetries

\* A try whose outcome has not been counted, and has cost no fault either.
Trying ==
  IF proc \in {"arm", "await", "timedout", "failed"} /\ ~term THEN 1 ELSE 0

Within(s, n) == tries <= n + faults \/ s.backup.path \in lost

\* After a word of a child nothing counts.
HeardIsZero ==
  /\ ok => tries = 0
  /\ proc = "await" /\ startup = "closed" => ok
  /\ proc \in {"confirmed", "waiting"} => ok

(* The failures in memory cover the tries, and so do those in the file,    *)
(* which a child may have written in between.                              *)
Covered ==
  IF proc = "deciding"
    THEN Within(st, Counted(st)) /\ (tries = 0 \/ file = st)
    ELSE /\ Launching => Within(st, Past(st) + Trying)
         /\ Within(file, Past(file) + Trying)

TriesInv == TypeOK /\ HeardIsZero /\ Covered

\* The counters and what is derived from them are numbers.
LEMMA CountFacts ==
  ASSUME TypeOK
  PROVE  /\ tries \in Nat /\ faults \in Nat /\ Trying \in {0, 1}
         /\ \A s \in State : /\ Past(s) \in Nat /\ Past(s) < MaxRetries
                             /\ Counted(s) \in Nat /\ Counted(s) <= MaxRetries
                             /\ Counted(s) <= Past(s) + 1
<1>1. tries \in Nat /\ faults \in Nat /\ Trying \in {0, 1}
  BY Numbers DEF TypeOK, Trying
<1>2. ASSUME NEW s \in State
      PROVE  /\ Past(s) \in Nat /\ Past(s) < MaxRetries
             /\ Counted(s) \in Nat /\ Counted(s) <= MaxRetries
             /\ Counted(s) <= Past(s) + 1
  BY Numbers, Parts DEF Past, Counted
<1> QED  BY <1>1, <1>2

LEMMA TriesInit == Init => TriesInv
<1> SUFFICES ASSUME Init
             PROVE  TriesInv
  OBVIOUS
<1>1. TypeOK /\ tries = 0 /\ proc = "off" /\ ~ok
  BY TypeInit DEF Init
<1>2. Covered
  BY <1>1, CountFacts DEF Covered, Within, Launching, TypeOK
<1> QED  BY <1>1, <1>2 DEF TriesInv, HeardIsZero

\* No tries, no question.
LEMMA NothingTried ==
  ASSUME TypeOK', tries' = 0, HeardIsZero'
  PROVE  TriesInv'
<1>1. /\ faults' \in Nat /\ Trying' \in Nat
      /\ Past(file)' \in Nat /\ Past(st)' \in Nat /\ Counted(st)' \in Nat
  BY Numbers, Parts DEF TypeOK, Trying, Past, Counted
<1> QED  BY <1>1 DEF TriesInv, Covered, Within

(* A step that does not count: the tries, the file and the lost backups    *)
(* stay, a try that is no longer going on has cost a fault, and who is the *)
(* launcher now was it before or has just read the file.                   *)
LEMMA NothingCounted ==
  ASSUME TriesInv, TypeOK', UNCHANGED <<tries, file>>, lost \subseteq lost',
         \/ faults' = faults /\ Trying' = Trying
         \/ faults' = faults + 1 /\ Trying' \in {0, Trying},
         HeardIsZero',
         proc # "deciding", proc' # "deciding",
         Launching' => st' = file \/ (Launching /\ st' = st)
  PROVE  TriesInv'
<1>1. /\ tries \in Nat /\ faults \in Nat /\ Trying \in {0, 1}
      /\ Past(st) \in Nat /\ Past(file) \in Nat
  BY CountFacts DEF TriesInv, TypeOK
<1>2. /\ Past(file)' = Past(file)
      /\ st' = st => Past(st)' = Past(st)
      /\ st' = file => Past(st)' = Past(file)
  BY DEF Past
<1>3. ASSUME NEW a \in Nat, tries <= a + Trying + faults
      PROVE  tries' <= a + Trying' + faults'
  <2>1. Trying' = 0 \/ Trying' = Trying
    OBVIOUS
  <2> QED  BY <1>1, <1>3, <2>1
<1>4. Within(file, Past(file) + Trying)
  BY DEF TriesInv, Covered
<1>5. Within(file, Past(file) + Trying)'
  <2>1. CASE tries <= Past(file) + Trying + faults
    BY <2>1, <1>1, <1>2, <1>3 DEF Within
  <2> QED  BY <1>4, <2>1 DEF Within
<1>6. ASSUME Launching' PROVE Within(st, Past(st) + Trying)'
  <2>1. CASE st' = file
    BY <2>1, <1>2, <1>5 DEF Within
  <2>2. CASE Launching /\ st' = st
    <3>1. Within(st, Past(st) + Trying)
      BY <2>2 DEF TriesInv, Covered
    <3>2. CASE tries <= Past(st) + Trying + faults
      BY <3>2, <2>2, <1>1, <1>2, <1>3 DEF Within
    <3> QED  BY <2>2, <3>1, <3>2 DEF Within
  <2> QED  BY <1>6, <2>1, <2>2
<1> QED  BY <1>5, <1>6 DEF TriesInv, Covered

\* The same between the count of a failure and the decision.
LEMMA StillDeciding ==
  ASSUME TriesInv, TypeOK', UNCHANGED <<tries, st, file>>, lost \subseteq lost',
         faults' = faults \/ faults' = faults + 1,
         HeardIsZero', proc = "deciding", proc' = "deciding"
  PROVE  TriesInv'
<1>1. tries \in Nat /\ faults \in Nat /\ Counted(st) \in Nat /\ Counted(st)' = Counted(st)
  BY CountFacts DEF TriesInv, TypeOK, Counted
<1>2. Within(st, Counted(st)) /\ (tries = 0 \/ file = st)
  BY DEF TriesInv, Covered
<1>3. Within(st, Counted(st))'
  BY <1>1, <1>2 DEF Within
<1> QED  BY <1>2, <1>3 DEF TriesInv, Covered

\* What was counted last is known by all: HeardIsZero.
LEMMA HeardStep == TriesInv /\ [Next]_vars => HeardIsZero'
<1> SUFFICES ASSUME TriesInv, [Next]_vars
             PROVE  HeardIsZero'
  OBVIOUS
<1> USE DEF TriesInv, HeardIsZero
<1>1. CASE UNCHANGED vars
  BY <1>1 DEF vars, runnerVars
<1>2. CASE Boot \/ Switch
  BY <1>2 DEF Boot, Switch, BecomeLauncher, ProcessEnds, runnerVars
<1>3. CASE PowerLoss \/ PlainEnds \/ Leave
  BY <1>3 DEF PowerLoss, PlainEnds, Leave, ProcessEnds
<1>4. CASE Terminate \/ \E v \in Version : Remove(v)
  BY <1>4 DEF Terminate, Remove, runnerVars
<1>5. CASE PlainApplies
  BY <1>5 DEF PlainApplies, Writes, SwapVersions, WriteUpdate, runnerVars
<1>6. ASSUME NEW c \in Child, ComesUp(c) \/ ChildApplies(c) \/ ChildEnds(c) \/ Reap(c)
      PROVE  HeardIsZero'
  <2>1. CASE ChildApplies(c)
    BY <2>1 DEF ChildApplies, Writes, SwapVersions, WriteUpdate, runnerVars
  <2>2. CASE ComesUp(c)
    <3>1. UNCHANGED <<proc, ok, startup, tries>>
      BY <2>2 DEF ComesUp, runnerVars
    <3> QED  BY <3>1
  <2>3. CASE ChildEnds(c) \/ Reap(c)
    BY <2>3 DEF ChildEnds, Reap, runnerVars
  <2> QED  BY <1>6, <2>1, <2>2, <2>3
<1>7. ASSUME NEW c \in Child, Hear(c) \/ Record(c)
      PROVE  HeardIsZero'
  BY <1>7 DEF Hear, Record
<1>8. CASE Top \/ Await \/ TimerFires \/ Stopped \/ Kill
  BY <1>8 DEF Top, Await, TimerFires, Stopped, Kill, After, Goto, runnerVars
<1>9. CASE Arm \/ StartMainProgram
  BY <1>9 DEF Arm, StartMainProgram, Goto
<1>10. CASE StartFails \/ Decide
  BY <1>10 DEF StartFails, Decide, RollBack, CannotRollBack, Goto
<1>11. CASE CountFailure \/ Confirmed \/ Reload
  BY <1>11 DEF CountFailure, Confirmed, Reload, Goto, runnerVars
<1> QED
  BY <1>1, <1>2, <1>3, <1>4, <1>5, <1>6, <1>7, <1>8, <1>9, <1>10, <1>11 DEF Next, RunStep

\* The steps that leave the tries and all that covers them alone.
LEMMA QuietSteps ==
  ASSUME TriesInv, TypeOK', HeardIsZero',
         \/ UNCHANGED vars \/ (\E v \in Version : Remove(v)) \/ Terminate
         \/ \E c \in Child : ComesUp(c) \/ ChildEnds(c) \/ Reap(c)
         \/ Top \/ Arm \/ Await \/ TimerFires \/ Stopped \/ Kill
  PROVE  TriesInv'
<1>1. UNCHANGED <<tries, st, file>> /\ lost \subseteq lost'
  <2>1. CASE UNCHANGED vars \/ Terminate \/ \E v \in Version : Remove(v)
    BY <2>1 DEF vars, Terminate, Remove, stateVars, runnerVars
  <2>2. CASE \E c \in Child : ComesUp(c) \/ ChildEnds(c) \/ Reap(c)
    BY <2>2 DEF ComesUp, ChildEnds, Reap, stateVars, runnerVars
  <2>3. CASE Top \/ Arm \/ Await \/ TimerFires \/ Stopped \/ Kill
    BY <2>3 DEF Top, Arm, Await, TimerFires, Stopped, Kill, stateVars, runnerVars
  <2> QED  BY <2>1, <2>2, <2>3
<1>2. CASE Terminate
  <2>1. faults' = faults + 1 /\ proc' = proc /\ Launching /\ term'
    BY <1>2 DEF Terminate
  <2>2. Trying' = 0
    BY <2>1 DEF Trying
  <2>3. CASE proc = "deciding"
    BY <1>1, <2>1, <2>3, StillDeciding
  <2>4. CASE proc # "deciding"
    BY <1>1, <2>1, <2>2, <2>4, NothingCounted
  <2> QED  BY <2>3, <2>4
<1>3. CASE \E v \in Version : Remove(v)
  <2>1. faults' = faults + 1 /\ proc' = proc /\ term' = term
    BY <1>3 DEF Remove
  <2>2. Trying' = Trying /\ Launching' = Launching
    BY <2>1 DEF Trying, Launching
  <2>3. CASE proc = "deciding"
    BY <1>1, <2>1, <2>3, StillDeciding
  <2>4. CASE proc # "deciding"
    BY <1>1, <2>1, <2>2, <2>4, NothingCounted
  <2> QED  BY <2>3, <2>4
<1>4. CASE UNCHANGED vars \/ \E c \in Child : ComesUp(c) \/ ChildEnds(c) \/ Reap(c)
  <2>1. faults' = faults /\ proc' = proc /\ term' = term
    BY <1>4 DEF vars, ComesUp, ChildEnds, Reap
  <2>2. Trying' = Trying /\ Launching' = Launching
    BY <2>1 DEF Trying, Launching
  <2>3. CASE proc = "deciding"
    BY <1>1, <2>1, <2>3, StillDeciding
  <2>4. CASE proc # "deciding"
    BY <1>1, <2>1, <2>2, <2>4, NothingCounted
  <2> QED  BY <2>3, <2>4
<1>5. CASE Top \/ Arm \/ Await \/ TimerFires \/ Stopped \/ Kill
  <2>1. faults' = faults /\ term' = term /\ Launching /\ proc # "deciding" /\ proc' # "deciding"
    BY <1>5 DEF Top, Arm, Await, TimerFires, Stopped, Kill, After, Goto, Launching
  <2>2. CASE proc' \in {"confirmed", "waiting"}
    <3>1. tries' = 0
      BY <2>2 DEF HeardIsZero
    <3> QED  BY <3>1, NothingTried
  <2>3. CASE proc' \notin {"confirmed", "waiting"}
    <3>1. Trying' = Trying
      BY <1>5, <2>3 DEF Top, Arm, Await, TimerFires, Stopped, Kill, After, Goto, Trying
    <3> QED  BY <1>1, <2>1, <3>1, NothingCounted
  <2> QED  BY <2>2, <2>3
<1> QED  BY <1>2, <1>3, <1>4, <1>5

\* The steps at which the entry process begins or ends.
LEMMA BeginsAndEnds ==
  ASSUME TriesInv, TypeOK', HeardIsZero', Boot \/ PowerLoss \/ PlainEnds \/ Switch \/ Leave
  PROVE  TriesInv'
<1>1. UNCHANGED <<tries, file, lost>>
  BY DEF Boot, PowerLoss, PlainEnds, Switch, Leave, stateVars
<1>2. CASE Boot \/ PlainEnds \/ Switch \/ Leave
  <2>1. /\ faults' = faults /\ proc # "deciding" /\ proc' # "deciding"
        /\ Trying = 0 /\ Trying' = 0
    BY <1>2 DEF Boot, PlainEnds, Switch, Leave, BecomeLauncher, ProcessEnds, Trying
  <2>2. Launching' => st' = file
    BY <1>2 DEF Boot, PlainEnds, Switch, Leave, BecomeLauncher, ProcessEnds, Launching
  <2> QED  BY <1>1, <2>1, <2>2, NothingCounted
<1>3. CASE PowerLoss
  <2>1. faults' = faults + 1 /\ proc' = "off"
    BY <1>3 DEF PowerLoss, ProcessEnds
  <2>2. Trying' = 0 /\ ~Launching'
    BY <2>1 DEF Trying, Launching
  <2>3. CASE proc # "deciding"
    BY <1>1, <2>1, <2>2, <2>3, NothingCounted
  <2>4. CASE proc = "deciding" /\ tries = 0
    BY <1>1, <2>4, NothingTried
  <2>5. CASE proc = "deciding" /\ file = st
    <3>1. Within(file, Counted(file))
      BY <2>5 DEF TriesInv, Covered
    <3>2. /\ tries \in Nat /\ faults \in Nat /\ Counted(file) \in Nat
          /\ Past(file) \in Nat /\ Counted(file) <= Past(file) + 1
      BY CountFacts DEF TriesInv, TypeOK
    <3>3. Past(file)' = Past(file)
      BY <1>1 DEF Past
    <3>4. CASE tries <= Counted(file) + faults
      <4>1. tries <= Past(file) + 0 + (faults + 1)
        BY <3>2, <3>4
      <4> QED  BY <4>1, <1>1, <2>1, <2>2, <3>3 DEF TriesInv, Covered, Within
    <3>5. CASE file.backup.path \in lost
      BY <3>5, <1>1, <2>1, <2>2 DEF TriesInv, Covered, Within
    <3> QED  BY <3>1, <3>4, <3>5 DEF Within
  <2>6. proc = "deciding" => tries = 0 \/ file = st
    BY DEF TriesInv, Covered
  <2> QED  BY <2>3, <2>4, <2>5, <2>6
<1> QED  BY <1>2, <1>3

\* One more try.
LEMMA TryIsCounted ==
  ASSUME TriesInv, TypeOK', HeardIsZero', StartMainProgram
  PROVE  TriesInv'
<1>1. /\ proc = "start" /\ ~term /\ proc' = "arm" /\ UNCHANGED <<st, file, lost, faults, term>>
      /\ tries' <= tries + 1 /\ tries' \in Nat
  BY CountFacts, Numbers DEF StartMainProgram, stateVars, More, TriesInv, TypeOK
<1>2. Trying = 0 /\ Trying' = 1 /\ Launching
  BY <1>1 DEF Trying, Launching
<1>3. /\ tries \in Nat /\ faults \in Nat /\ Past(st) \in Nat /\ Past(file) \in Nat
  BY CountFacts DEF TriesInv, TypeOK
<1>4. Past(st)' = Past(st) /\ Past(file)' = Past(file)
  BY <1>1 DEF Past
<1>5. ASSUME NEW a \in Nat, tries <= a + 0 + faults
      PROVE  tries' <= a + 1 + faults'
  BY <1>1, <1>3, <1>5
<1>6. Within(st, Past(st) + 0) /\ Within(file, Past(file) + 0)
  BY <1>1, <1>2 DEF TriesInv, Covered
<1>7. Within(st, Past(st) + Trying)'
  <2>1. CASE tries <= Past(st) + 0 + faults
    <3>1. tries' <= Past(st) + 1 + faults'
      BY <2>1, <1>3, <1>5
    <3> QED  BY <3>1, <1>1, <1>2, <1>4 DEF Within
  <2> QED  BY <1>1, <1>6, <2>1 DEF Within
<1>8. Within(file, Past(file) + Trying)'
  <2>1. CASE tries <= Past(file) + 0 + faults
    <3>1. tries' <= Past(file) + 1 + faults'
      BY <2>1, <1>3, <1>5
    <3> QED  BY <3>1, <1>1, <1>2, <1>4 DEF Within
  <2> QED  BY <1>1, <1>6, <2>1 DEF Within
<1> QED  BY <1>1, <1>7, <1>8 DEF TriesInv, Covered

\* A failure is counted, in memory and in the file.
LEMMA FailureIsCounted ==
  ASSUME TriesInv, TypeOK', HeardIsZero', CountFailure
  PROVE  TriesInv'
<1>1. /\ proc = "failed" /\ proc' = "deciding" /\ file' = st'
      /\ st' = [st EXCEPT !.failures = More(@)]
      /\ UNCHANGED <<tries, lost, faults, term>>
  BY DEF CountFailure, Save, WriteFile, Goto
<1>2. st \in State /\ tries \in Nat /\ faults \in Nat /\ Trying \in {0, 1}
  BY CountFacts DEF TriesInv, TypeOK
<1>3. st'.failures = More(st.failures) /\ st'.backup = st.backup
  BY <1>1, <1>2, StateFields
<1>4. /\ Past(st) \in Nat /\ Counted(st)' \in Nat
      /\ Counted(st)' = Past(st) + 1
  BY <1>2, <1>3, CountFacts, Parts, Numbers DEF TriesInv, Past, Counted, More
<1>5. Within(st, Past(st) + Trying)
  BY <1>1 DEF TriesInv, Covered, Launching
<1>6. CASE tries <= Past(st) + Trying + faults
  <2>1. tries <= (Past(st) + 1) + faults
    BY <1>2, <1>4, <1>6
  <2>2. tries' <= Counted(st)' + faults'
    BY <2>1, <1>1, <1>4
  <2> QED  BY <2>2, <1>1 DEF TriesInv, Covered, Within
<1>7. CASE st.backup.path \in lost
  BY <1>1, <1>3, <1>7 DEF TriesInv, Covered, Within
<1> QED  BY <1>5, <1>6, <1>7 DEF Within

\* The launcher decides what to do about a failure, or cannot start at all.
LEMMA DecisionIsSound ==
  ASSUME TriesInv, TypeOK', HeardIsZero', StartFails \/ Decide
  PROVE  TriesInv'
<1>1. CASE RollBack
  <2>1. tries' = 0
    BY <1>1 DEF RollBack
  <2> QED  BY <2>1, NothingTried
<1>2. CASE ~RollBack
  <2>1. /\ UNCHANGED <<tries, st, file, lost, faults, term>>
        /\ proc' \in {"top", "leaving"}
        /\ proc = "deciding" => ~GivesUp(st.failures) \/ st.backup.path \in lost
        /\ proc \in {"start", "deciding"}
    BY <1>2 DEF StartFails, Decide, CannotRollBack, Goto, stateVars
  <2>2. Trying' = 0 /\ Trying = 0
    BY <2>1 DEF Trying
  <2>3. CASE proc = "start"
    BY <2>1, <2>2, <2>3, NothingCounted DEF Launching
  <2>4. CASE proc = "deciding" /\ tries = 0
    BY <2>1, <2>4, NothingTried
  <2>5. CASE proc = "deciding" /\ tries # 0
    <3>1. file = st /\ Within(st, Counted(st))
      BY <2>5 DEF TriesInv, Covered
    <3>2. Within(st, Past(st) + 0)
      <4>1. CASE st.backup.path \in lost
        BY <4>1 DEF Within
      <4>2. CASE ~GivesUp(st.failures)
        <5>1. Counted(st) \in Nat /\ Past(st) = Counted(st)
          BY <4>2, Parts, Numbers DEF TriesInv, TypeOK, GivesUp, Past, Counted
        <5> QED  BY <3>1, <5>1 DEF Within
      <4> QED  BY <2>1, <2>5, <4>1, <4>2
    <3>3. Past(st)' = Past(st) /\ Past(file)' = Past(st)
      BY <2>1, <3>1 DEF Past
    <3>4. Within(st, Past(st) + Trying)' /\ Within(file, Past(file) + Trying)'
      BY <2>1, <2>2, <3>1, <3>2, <3>3 DEF Within
    <3> QED  BY <2>1, <3>4 DEF TriesInv, Covered
  <2> QED  BY <2>1, <2>3, <2>4, <2>5
<1> QED  BY <1>1, <1>2

LEMMA TriesStep == TriesInv /\ [Next]_vars => TriesInv'
<1> SUFFICES ASSUME TriesInv, [Next]_vars
             PROVE  TriesInv'
  OBVIOUS
<1>1. TypeOK' /\ HeardIsZero'
  BY TypeStep, HeardStep DEF TriesInv
<1>2. CASE Boot \/ PowerLoss \/ PlainEnds \/ Switch \/ Leave
  BY <1>1, <1>2, BeginsAndEnds
<1>3. CASE \/ UNCHANGED vars \/ (\E v \in Version : Remove(v)) \/ Terminate
           \/ \E c \in Child : ComesUp(c) \/ ChildEnds(c) \/ Reap(c)
           \/ Top \/ Arm \/ Await \/ TimerFires \/ Stopped \/ Kill
  BY <1>1, <1>3, QuietSteps
<1>4. CASE PlainApplies \/ \E c \in Child : ChildApplies(c) \/ Hear(c) \/ Record(c)
  <2>1. tries' = 0
    BY <1>4 DEF PlainApplies, ChildApplies, Hear, Record, Writes, SwapVersions, WriteUpdate
  <2> QED  BY <1>1, <2>1, NothingTried
<1>5. CASE Confirmed \/ Reload
  <2>1. tries' = 0
    BY <1>5 DEF Confirmed, Reload, TriesInv, HeardIsZero
  <2> QED  BY <1>1, <2>1, NothingTried
<1>6. CASE StartFails \/ Decide
  BY <1>1, <1>6, DecisionIsSound
<1>7. CASE StartMainProgram
  BY <1>1, <1>7, TryIsCounted
<1>8. CASE CountFailure
  BY <1>1, <1>8, FailureIsCounted
<1> QED  BY <1>2, <1>3, <1>4, <1>5, <1>6, <1>7, <1>8 DEF Next, RunStep

THEOREM TriesInductive == Spec => []TriesInv
BY TriesInit, TriesStep, PTL DEF Spec

(* The file, which outlives the launcher, covers all tries but the one that*)
(* is going on: a version is not tried more often than the state allows,   *)
(* and each interruption costs one try.                                    *)
THEOREM TriesAreBounded == Spec => []TriesBounded
<1>1. TriesInv => TriesBounded
  <2> SUFFICES ASSUME TriesInv
               PROVE  TriesBounded
    OBVIOUS
  <2>1. /\ file \in State /\ st \in State
        /\ tries \in Nat /\ faults \in Nat /\ Trying \in {0, 1} /\ MaxRetries \in Nat
        /\ Past(file) \in Nat /\ Past(file) < MaxRetries
        /\ Counted(st) \in Nat /\ Counted(st) <= MaxRetries
    BY CountFacts, Numbers DEF TriesInv, TypeOK
  <2>2. CASE proc # "deciding"
    BY <2>1, <2>2 DEF TriesInv, Covered, Within, TriesBounded
  <2>3. CASE proc = "deciding"
    BY <2>1, <2>3 DEF TriesInv, Covered, Within, TriesBounded
  <2> QED  BY <2>2, <2>3
<1> QED  BY <1>1, TriesInductive, PTL

-----------------------------------------------------------------------------
(* The safety half of SignalEnds: the launcher that was told to end has    *)
(* something to wait for, and only a few steps to go.                      *)

\* Run has started a child.
Following ==
  {"arm", "await", "timedout", "stopping", "failed", "deciding", "confirmed", "waiting"}

\* Only a launcher is told to end, and it starts nothing any more.
Killed == term => Launching /\ Alive = {}

\* Until some reaper has closed processDone the child is still to be reaped.
Reapable ==
  /\ proc \in Following => main # None
  /\ main # None /\ ~exited => cstate[main] # "none"

LEMMA KilledStep ==
  ASSUME TypeOK, Killed, [Next]_vars
  PROVE  Killed'
<1>0. cstate \in [Child -> {"none", "boot", "up", "leaving", "dead"}] /\ term \in BOOLEAN
  BY DEF TypeOK
<1> USE <1>0 DEF Killed, Launching, Alive
<1>1. CASE UNCHANGED vars
  BY <1>1 DEF vars, childVars
<1>2. CASE Boot
  BY <1>2 DEF Boot, BecomeLauncher, childVars
<1>3. CASE PowerLoss \/ PlainEnds \/ Leave
  BY <1>3 DEF PowerLoss, PlainEnds, Leave, ProcessEnds
<1>4. CASE \E v \in Version : Remove(v)
  BY <1>4 DEF Remove, childVars
<1>5. CASE PlainApplies
  BY <1>5 DEF PlainApplies, childVars
<1>6. CASE Switch
  BY <1>6 DEF Switch, BecomeLauncher, ProcessEnds, childVars
<1>7. CASE Terminate
  BY <1>7 DEF Terminate, Launching
<1>8. ASSUME NEW c \in Child,
             ComesUp(c) \/ ChildApplies(c) \/ ChildEnds(c) \/ Reap(c) \/ Hear(c) \/ Record(c)
      PROVE  Killed'
  BY <1>8 DEF ComesUp, ChildApplies, ChildEnds, Reap, Hear, Record
<1>9. CASE StartMainProgram
  BY <1>9 DEF StartMainProgram
<1>10. CASE Kill
  BY <1>10 DEF Kill, After
<1>11. CASE Top \/ StartFails \/ Arm \/ Await \/ TimerFires \/ Stopped
            \/ CountFailure \/ Decide \/ Confirmed \/ Reload
  <2>1. UNCHANGED childVars /\ term' = term
        /\ proc' \in {"top", "start"} \cup Following \cup {"leaving"}
    BY <1>11
    DEF Top, StartFails, Arm, Await, TimerFires, Stopped, After, CountFailure, Decide,
        Confirmed, Reload, Goto, Following
  <2> QED  BY <2>1 DEF childVars, Following
<1> QED  BY <1>1, <1>2, <1>3, <1>4, <1>5, <1>6, <1>7, <1>8, <1>9, <1>10, <1>11 DEF Next, RunStep

LEMMA ReapableStep ==
  ASSUME TypeOK, Reapable, [Next]_vars
  PROVE  Reapable'
<1>0. /\ cstate \in [Child -> {"none", "boot", "up", "leaving", "dead"}]
      /\ main \in Child \cup {None} /\ exited \in BOOLEAN
  BY DEF TypeOK
<1> USE <1>0 DEF Reapable, Following
<1>1. CASE UNCHANGED vars
  BY <1>1 DEF vars, childVars, runnerVars
<1>2. CASE Boot
  BY <1>2 DEF Boot, BecomeLauncher, childVars, runnerVars
<1>3. CASE PowerLoss \/ PlainEnds \/ Leave
  BY <1>3 DEF PowerLoss, PlainEnds, Leave, ProcessEnds
<1>4. CASE \E v \in Version : Remove(v)
  BY <1>4 DEF Remove, childVars, runnerVars
<1>5. CASE PlainApplies
  BY <1>5 DEF PlainApplies, childVars, runnerVars
<1>6. CASE Switch
  BY <1>6 DEF Switch, BecomeLauncher, ProcessEnds, childVars
<1>7. CASE Terminate
  BY <1>7 DEF Terminate, Alive, runnerVars
<1>8. ASSUME NEW c \in Child,
             ComesUp(c) \/ ChildApplies(c) \/ ChildEnds(c) \/ Reap(c) \/ Hear(c) \/ Record(c)
      PROVE  Reapable'
  BY <1>8 DEF ComesUp, ChildApplies, ChildEnds, Reap, Hear, Record, Alive, runnerVars
<1>9. CASE StartMainProgram
  <2> DEFINE k == CHOOSE c \in Child : Free(c)
  <2>1. k \in Child /\ main' = k /\ cstate' = [cstate EXCEPT ![k] = "boot"]
    BY <1>9 DEF StartMainProgram
  <2> HIDE DEF k
  <2> QED  BY <2>1, LauncherConstants
<1>10. CASE Kill
  BY <1>10 DEF Kill, After, Alive, runnerVars
<1>11. CASE Top \/ StartFails \/ Arm \/ Await \/ TimerFires \/ Stopped
            \/ CountFailure \/ Decide \/ Confirmed \/ Reload
  <2>1. UNCHANGED <<childVars, main, exited>>
    BY <1>11
    DEF Top, StartFails, Arm, Await, TimerFires, Stopped, CountFailure, Decide,
        Confirmed, Reload, Goto, runnerVars
  <2>2. proc' \in Following => main # None
    BY <1>11
    DEF Top, StartFails, Arm, Await, TimerFires, Stopped, After, CountFailure, Decide,
        Confirmed, Reload, Goto
  <2> QED  BY <2>1, <2>2 DEF childVars
<1> QED  BY <1>1, <1>2, <1>3, <1>4, <1>5, <1>6, <1>7, <1>8, <1>9, <1>10, <1>11 DEF Next, RunStep

THEOREM ChildrenFollowed == Spec => [](TypeOK /\ Killed /\ Reapable)
<1>1. Init => Killed /\ Reapable
  BY DEF Init, Killed, Reapable, Following
<1>2. TypeOK /\ Killed /\ Reapable /\ [Next]_vars => (Killed /\ Reapable)'
  BY KilledStep, ReapableStep
<1> QED  BY <1>1, <1>2, TypeCorrect, PTL DEF Spec

(* A signal leaves no child alive, and none is started after it: a launcher*)
(* that still waits for its program waits for the reaper, which is at work.*)
SignalIsOwed ==
  term =>
    /\ Alive = {}
    /\ proc = "waiting" => exited \/ \E c \in Child : cstate[c] = "dead"

THEOREM SignalOwed == Spec => []SignalIsOwed
<1>1. TypeOK /\ Killed /\ Reapable => SignalIsOwed
  <2> SUFFICES ASSUME TypeOK, Killed, Reapable, term
               PROVE  /\ Alive = {}
                      /\ proc = "waiting" => exited \/ \E c \in Child : cstate[c] = "dead"
    BY DEF SignalIsOwed
  <2>1. Alive = {}
    BY DEF Killed
  <2>2. ASSUME proc = "waiting", ~exited
        PROVE  \E c \in Child : cstate[c] = "dead"
    <3>1. main \in Child /\ cstate[main] # "none"
      BY <2>2 DEF Reapable, Following, TypeOK
    <3> QED  BY <2>1, <3>1 DEF Alive, TypeOK
  <2> QED  BY <2>1, <2>2
<1> QED  BY <1>1, ChildrenFollowed, PTL

\* How many steps of Run a launcher that was told to end has left at most.
StepsLeft(pc) ==
  CASE pc = "leaving"                          -> 1
    [] pc = "stopping"                         -> 2
    [] pc = "top"                              -> 3
    [] pc \in {"start", "deciding", "waiting"} -> 4
    [] pc \in {"failed", "confirmed"}          -> 5
    [] pc = "timedout"                         -> 6
    [] pc = "await"                            -> 7
    [] pc = "arm"                              -> 8
    [] OTHER                                   -> 0

(* Once it was told to end the launcher never turns back: every step that  *)
(* Run still makes brings it nearer to its end, whatever has failed and    *)
(* whatever version it would have gone on with.                            *)
SignalShortens ==
  [][term /\ proc' # proc => StepsLeft(proc') < StepsLeft(proc)]_vars

LEMMA StepsCounted ==
  /\ StepsLeft("off") = 0 /\ StepsLeft("leaving") = 1 /\ StepsLeft("stopping") = 2
  /\ StepsLeft("top") = 3 /\ StepsLeft("start") = 4 /\ StepsLeft("deciding") = 4
  /\ StepsLeft("waiting") = 4 /\ StepsLeft("failed") = 5 /\ StepsLeft("confirmed") = 5
  /\ StepsLeft("timedout") = 6 /\ StepsLeft("await") = 7 /\ StepsLeft("arm") = 8
BY DEF StepsLeft

THEOREM SignalAdvances == Spec => SignalShortens
<1>1. ASSUME TypeOK, Killed, [Next]_vars, term, proc' # proc
      PROVE  StepsLeft(proc') < StepsLeft(proc)
  <2> USE <1>1, StepsCounted
  <2>0. Launching
    BY DEF Killed
  <2>1. CASE PowerLoss
    <3>1. proc' = "off"
      BY <2>1 DEF PowerLoss, ProcessEnds
    <3>2. StepsLeft(proc) \in 1..8
      BY <2>0 DEF Launching, TypeOK
    <3> QED  BY <3>1, <3>2
  <2>2. CASE RunStep
    <3>1. CASE Top \/ StartFails \/ StartMainProgram \/ Arm
      <4>1. \/ proc = "top" /\ proc' \in {"leaving", "stopping"}
            \/ proc = "start" /\ proc' \in {"top", "leaving"}
            \/ proc = "arm" /\ proc' = "await"
        BY <3>1 DEF Top, StartFails, StartMainProgram, Arm, Goto
      <4> QED  BY <4>1
    <3>2. CASE Await \/ TimerFires \/ Stopped \/ Kill
      <4>1. \/ proc = "await" /\ proc' \in {"stopping", "confirmed", "failed", "timedout"}
            \/ proc = "timedout" /\ proc' = "failed"
            \/ proc = "stopping" /\ proc' = "leaving"
        BY <3>2 DEF Await, TimerFires, Stopped, Kill, After, Goto
      <4> QED  BY <4>1
    <3>3. CASE CountFailure \/ Decide \/ Confirmed \/ Reload \/ Leave
      <4>1. \/ proc = "failed" /\ proc' = "deciding"
            \/ proc = "deciding" /\ proc' = "top"
            \/ proc = "confirmed" /\ proc' = "waiting"
            \/ proc = "waiting" /\ proc' \in {"top", "leaving"}
            \/ proc = "leaving" /\ proc' = "off"
        BY <3>3 DEF CountFailure, Decide, Confirmed, Reload, Leave, ProcessEnds, Goto
      <4> QED  BY <4>1
    <3> QED  BY <2>2, <3>1, <3>2, <3>3 DEF RunStep
  <2>3. CASE Boot \/ PlainApplies \/ Switch \/ PlainEnds
    BY <2>0, <2>3 DEF Boot, PlainApplies, Switch, PlainEnds, Launching
  <2>4. CASE Terminate \/ \E v \in Version : Remove(v)
    BY <2>4 DEF Terminate, Remove
  <2>5. ASSUME NEW c \in Child,
               ComesUp(c) \/ ChildApplies(c) \/ ChildEnds(c) \/ Reap(c) \/ Hear(c) \/ Record(c)
        PROVE  FALSE
    BY <2>5 DEF ComesUp, ChildApplies, ChildEnds, Reap, Hear, Record
  <2>6. ~UNCHANGED vars
    BY DEF vars
  <2> QED  BY <2>1, <2>2, <2>3, <2>4, <2>5, <2>6 DEF Next
<1>2. TypeOK /\ Killed /\ [Next]_vars
        => [term /\ proc' # proc => StepsLeft(proc') < StepsLeft(proc)]_vars
  BY <1>1
<1> QED  BY <1>2, ChildrenFollowed, PTL DEF Spec, SignalShortens

-----------------------------------------------------------------------------
(* The safety half of ServiceReturns: the launcher does not wait for a     *)
(* program that has never come up, unless it was misled.                   *)

\* The child that the launcher follows has come up or ended, or so it seems.
Working == exited \/ cstate[main] \in {"up", "leaving", "dead"}

(* Who says that it has started, has.  Only after Arm the word that closes *)
(* the channel is one of this start, and it is the word of the child that  *)
(* the launcher follows unless that of another one came, too.              *)
WordIsTrue ==
  /\ \A c \in Child : sent[c] # "no" => cstate[c] # "boot"
  /\ proc \in {"arm", "await"} /\ ok => Working \/ misled
  /\ proc = "await" /\ startup = "closed" => Working \/ misled
  /\ proc \in {"confirmed", "waiting"} => Working \/ misled

LEMMA WordIsTrueStep ==
  ASSUME TypeOK, Reapable, WordIsTrue, [Next]_vars
  PROVE  WordIsTrue'
<1>0. /\ cstate \in [Child -> {"none", "boot", "up", "leaving", "dead"}]
      /\ sent \in [Child -> {"no", "sent", "heard"}]
      /\ ok \in BOOLEAN /\ exited \in BOOLEAN /\ misled \in BOOLEAN
      /\ main \in Child \cup {None}
      /\ proc \in Following => main \in Child
  BY DEF TypeOK, Reapable
<1> USE <1>0 DEF WordIsTrue, Working, Following
<1>1. CASE UNCHANGED vars
  BY <1>1 DEF vars, childVars, runnerVars
<1>2. CASE Boot
  BY <1>2 DEF Boot, BecomeLauncher, childVars
<1>3. CASE PowerLoss \/ PlainEnds \/ Leave
  BY <1>3 DEF PowerLoss, PlainEnds, Leave, ProcessEnds
<1>4. CASE \E v \in Version : Remove(v)
  BY <1>4 DEF Remove, childVars, runnerVars
<1>5. CASE PlainApplies
  BY <1>5 DEF PlainApplies, childVars
<1>6. CASE Switch
  BY <1>6 DEF Switch, BecomeLauncher, ProcessEnds, childVars
<1>7. CASE Terminate
  BY <1>7 DEF Terminate, Alive, runnerVars
<1>8. ASSUME NEW c \in Child, ComesUp(c) \/ ChildApplies(c) \/ ChildEnds(c)
      PROVE  WordIsTrue'
  <2>1. UNCHANGED <<proc, ok, startup, exited, main, misled>>
    BY <1>8 DEF ComesUp, ChildApplies, ChildEnds, runnerVars
  <2>2. cstate'[c] \in {"up", "leaving", "dead"}
    BY <1>8 DEF ComesUp, ChildApplies, ChildEnds
  <2>3. \A x \in Child \ {c} : cstate'[x] = cstate[x] /\ sent'[x] = sent[x]
    BY <1>8 DEF ComesUp, ChildApplies, ChildEnds
  <2> QED  BY <2>1, <2>2, <2>3
<1>9. ASSUME NEW c \in Child, Reap(c)
      PROVE  WordIsTrue'
  BY <1>9 DEF Reap
<1>10. ASSUME NEW c \in Child, Hear(c)
       PROVE  WordIsTrue'
  <2>1. sent[c] # "no" /\ UNCHANGED <<proc, cstate, exited, main>>
        /\ misled' = (misled \/ c # main)
    BY <1>10 DEF Hear
  <2>2. \A x \in Child : sent'[x] # "no" => sent[x] # "no"
    BY <1>10 DEF Hear
  <2>3. Working' \/ misled'
    <3>1. CASE c # main
      BY <2>1, <3>1
    <3>2. CASE c = main
      <4>1. cstate[main] # "boot" /\ (exited \/ cstate[main] # "none")
        BY <2>1, <3>2, LauncherConstants DEF Reapable
      <4> QED  BY <2>1, <3>2, <4>1
    <3> QED  BY <3>1, <3>2
  <2> QED  BY <2>1, <2>2, <2>3
<1>11. ASSUME NEW c \in Child, Record(c)
       PROVE  WordIsTrue'
  <2>1. sent[c] # "no"
        /\ UNCHANGED <<proc, cstate, exited, main, ok, startup, misled>>
    BY <1>11 DEF Record
  <2>2. \A x \in Child : sent'[x] # "no" => sent[x] # "no"
    BY <1>11 DEF Record
  <2> QED  BY <2>1, <2>2
<1>12. CASE StartMainProgram
  <2> DEFINE k == CHOOSE c \in Child : Free(c)
  <2>1. /\ k \in Child /\ Free(k) /\ cstate' = [cstate EXCEPT ![k] = "boot"]
        /\ proc' = "arm" /\ ok' = FALSE /\ sent' = sent
    BY <1>12 DEF StartMainProgram
  <2> HIDE DEF k
  <2> QED  BY <2>1 DEF Free
<1>13. CASE Kill
  BY <1>13 DEF Kill, After, Alive, runnerVars
<1>14. CASE Arm
  BY <1>14 DEF Arm, Goto, childVars
<1>15. CASE Await \/ TimerFires
  BY <1>15 DEF Await, TimerFires, Goto, childVars, runnerVars
<1>16. CASE Confirmed
  BY <1>16 DEF Confirmed, Goto, childVars
<1>17. CASE Top \/ StartFails \/ Stopped \/ CountFailure \/ Decide \/ Reload
  <2>1. UNCHANGED childVars
        /\ proc' \notin {"arm", "await", "confirmed", "waiting"}
    BY <1>17 DEF Top, StartFails, Stopped, After, CountFailure, Decide, Reload, Goto
  <2> QED  BY <2>1 DEF childVars
<1> QED  BY <1>1, <1>2, <1>3, <1>4, <1>5, <1>6, <1>7, <1>8, <1>9, <1>10, <1>11, <1>12, <1>13,
            <1>14, <1>15, <1>16, <1>17
         DEF Next, RunStep

(* What misled exempts is all there is: the launcher goes on to wait for a *)
(* child that has not confirmed its start only if it has had the word of   *)
(* another child since it started this one.  handleMessage lets that happen*)
(* (the run launcher_start); nothing else in the launcher does.            *)
THEOREM OnlyLateWordsMislead == Spec => [](StartIsConfirmed \/ misled)
<1>1. Init => WordIsTrue
  BY DEF Init, WordIsTrue, Working
<1>2. WordIsTrue => StartIsConfirmed \/ misled
  BY DEF WordIsTrue, Working, StartIsConfirmed
<1> QED  BY <1>1, <1>2, WordIsTrueStep, ChildrenFollowed, PTL DEF Spec

=============================================================================
