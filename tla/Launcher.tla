------------------------------ MODULE Launcher ------------------------------
(***************************************************************************)
(* How the program runs a newer version of itself: pkg/launcher beside     *)
(* cmd/bililive and the update handlers of servers.  The process that was  *)
(* started (the entry binary) either runs the program itself ("plain") or  *)
(* is the launcher, runs another version as its child and goes back to the *)
(* backup version when that one does not come up.  What both know of each  *)
(* other is launcher-state.json and the message startup_success.           *)
(*                                                                         *)
(* A version is its binary.  An entry of the state file is the name of a   *)
(* version and the path of its binary; the message of a process that was   *)
(* killed can make the two differ.  The entry process is the first process *)
(* of its container: when it ends, its children end.                       *)
(***************************************************************************)
EXTENDS Naturals

CONSTANTS Version,
          Entry,       \* the version that was deployed, of the entry binary
          Child,       \* bound: child processes that are not reaped yet
          MaxRetries,  \* state.MaxRetries
          MaxFaults,   \* bound: signals, losses of power and lost binaries
          MaxUpdates,  \* bound: updates and rollbacks that somebody asks for
          None

ASSUME LauncherConstants ==
  /\ Entry \in Version
  /\ None \notin Child
  /\ MaxRetries \in Nat \ {0} /\ MaxFaults \in Nat /\ MaxUpdates \in Nat

VARIABLES
  stored,   \* launcher-state.json: "none", "torn" (cannot be parsed), "ok"
  file,     \* its content
  lost,     \* versions whose binary is gone
  bad,      \* versions that never come up
  proc,     \* where the entry process is
  st,       \* Runner.state
  target,   \* Runner.targetPath
  ok,       \* Runner.startupOK
  startup,  \* Runner.startupCh: "none", "open", "closed"
  exited,   \* Runner.processDone is closed
  main,     \* Runner.mainProcess
  cstate,   \* a child: "none", "boot", "up", "leaving", "dead" (not reaped yet)
  ver,      \* the version it runs
  sent,     \* its startup_success: "no", "sent", "heard" (half handled)
  term,     \* the launcher was told to end
  faults,   \* signals, losses of power and lost binaries so far
  updates,  \* updates and rollbacks so far
  tries,    \* history: starts since the launcher last had a word of a child
  misled    \* history: since its last start it has had the word of another child

stateVars  == <<stored, file>>
runnerVars == <<st, target, ok, startup, exited, main>>
childVars  == <<cstate, ver, sent>>
vars == <<stateVars, lost, bad, proc, runnerVars, childVars, term, faults, tries, updates,
          misled>>

Ref(v) == [name |-> v, path |-> v]
NoState == [active |-> Ref(Entry), backup |-> Ref(Entry), failures |-> 0]

\* A bound: FailureCount and the history counter are cut off there.
Most == MaxRetries + MaxFaults + 1

State == [active : [name : Version, path : Version],
          backup : [name : Version, path : Version], failures : 0..Most]

Alive == {c \in Child : cstate[c] \in {"boot", "up", "leaving"}}
Launching == proc \notin {"off", "plain", "switching"}

\* FailureCount++: it grows past MaxRetries when there is nothing to go back to.
More(n) == IF n < Most THEN n + 1 ELSE n

Init ==
  /\ stored = "none" /\ file = NoState
  /\ lost = {} /\ bad \in SUBSET (Version \ {Entry})
  /\ proc = "off"
  /\ st = NoState /\ target = Entry
  /\ ok = FALSE /\ startup = "none" /\ exited = FALSE /\ main = None
  /\ cstate = [c \in Child |-> "none"]
  /\ ver = [c \in Child |-> Entry]
  /\ sent = [c \in Child |-> "no"]
  /\ term = FALSE /\ faults = 0 /\ tries = 0 /\ updates = 0 /\ misled = FALSE

WriteFile(s) == stored' = "ok" /\ file' = s

\* Mutant: what the launcher learns stays in memory.
SaveNothing(s) == UNCHANGED stateVars

\* The launcher does not look whether it has worked.
Save(s) == WriteFile(s)

-----------------------------------------------------------------------------
(* Check, and the end of the entry process.                                *)

ShouldBeLauncher ==
  /\ stored = "ok"
  /\ file.active.name # Entry /\ file.active.path # Entry
  /\ file.active.path \notin lost

BecomeLauncher ==
  /\ proc' = "top"
  /\ st' = file /\ target' = file.active.path
  /\ UNCHANGED <<ok, startup, exited, main>>

Boot ==
  /\ proc = "off"
  /\ IF ShouldBeLauncher THEN BecomeLauncher
                         ELSE proc' = "plain" /\ UNCHANGED runnerVars
  /\ UNCHANGED <<stateVars, lost, bad, childVars, term, faults, tries, updates, misled>>

ProcessEnds ==
  /\ proc' = "off"
  /\ st' = NoState /\ target' = Entry
  /\ ok' = FALSE /\ startup' = "none" /\ exited' = FALSE /\ main' = None
  /\ cstate' = [c \in Child |-> "none"]
  /\ ver' = [c \in Child |-> Entry]
  /\ sent' = [c \in Child |-> "no"]
  /\ term' = FALSE /\ misled' = FALSE

\* The file is written in place: a loss of power in a write leaves a torn one.
Writing ==
  \/ proc \in {"plain", "switching", "failed", "deciding", "confirmed"}
  \/ \E c \in Child : sent[c] = "heard" \/ cstate[c] \in {"up", "leaving"}

PowerLoss ==
  /\ proc # "off" /\ faults < MaxFaults
  /\ ProcessEnds
  /\ stored' \in {stored} \cup (IF Writing THEN {"torn"} ELSE {})
  /\ faults' = faults + 1
  /\ UNCHANGED <<file, lost, bad, tries, updates>>

\* Somebody clears away the binary of another version.
Remove(v) ==
  /\ v \notin lost \cup {Entry} /\ faults < MaxFaults
  /\ lost' = lost \cup {v}
  /\ faults' = faults + 1
  /\ UNCHANGED <<stateVars, bad, proc, runnerVars, childVars, term, tries, updates, misled>>

-----------------------------------------------------------------------------
(* The program itself, in the entry process or in a child.                 *)

\* ApplyUpdateSelfHosted: the version that runs becomes the backup.
WriteUpdate(current, v) ==
  /\ v \notin lost \cup {current}
  /\ WriteFile([active |-> Ref(v), backup |-> Ref(current), failures |-> 0])
  /\ tries' = 0

\* doRollback: active and backup change places.
SwapVersions ==
  /\ stored = "ok" /\ file.backup.path \notin lost
  /\ WriteFile([active |-> file.backup, backup |-> file.active, failures |-> 0])
  /\ tries' = 0

Writes(current) ==
  /\ updates < MaxUpdates /\ updates' = updates + 1
  /\ (SwapVersions \/ \E v \in Version : WriteUpdate(current, v))

\* The handlers of the plain program; the process goes on for a while.
PlainApplies ==
  /\ proc \in {"plain", "switching"}
  /\ Writes(Entry)
  /\ proc' = "switching"
  /\ UNCHANGED <<lost, bad, runnerVars, childVars, term, faults, misled>>

\* All services are closed; main asks again whether it is the launcher.
Switch ==
  /\ proc = "switching"
  /\ IF ShouldBeLauncher
       THEN BecomeLauncher /\ UNCHANGED <<childVars, term, misled>>
       ELSE ProcessEnds
  /\ UNCHANGED <<stateVars, lost, bad, faults, tries, updates>>

PlainEnds ==
  /\ proc = "plain"
  /\ ProcessEnds
  /\ UNCHANGED <<stateVars, lost, bad, faults, tries, updates>>

(* A child is up.  It tells the launcher, unless it is not connected.  One *)
(* that was asked to shut down before goes on all the same.                *)
ComesUp(c) ==
  /\ cstate[c] = "boot" /\ ver[c] \notin bad
  /\ cstate' = [cstate EXCEPT ![c] = "up"]
  /\ sent' \in {sent, [sent EXCEPT ![c] = "sent"]}
  /\ UNCHANGED <<stateVars, lost, bad, proc, runnerVars, ver>>
  /\ UNCHANGED <<term, faults, tries, updates, misled>>

ChildApplies(c) ==
  /\ cstate[c] \in {"up", "leaving"}
  /\ Writes(ver[c])
  /\ cstate' = [cstate EXCEPT ![c] = "leaving"]
  /\ UNCHANGED <<lost, bad, proc, runnerVars, ver, sent>>
  /\ UNCHANGED <<term, faults, misled>>

\* It ends: after an update, by itself, or because it has failed.
ChildEnds(c) ==
  /\ c \in Alive
  /\ cstate' = [cstate EXCEPT ![c] = "dead"]
  /\ UNCHANGED <<stateVars, lost, bad, proc, runnerVars, ver, sent>>
  /\ UNCHANGED <<term, faults, tries, updates, misled>>

-----------------------------------------------------------------------------
(* The goroutines beside Run.                                              *)

\* The reaper closes the channel that the Runner holds now.
Reap(c) ==
  /\ cstate[c] = "dead"
  /\ cstate' = [cstate EXCEPT ![c] = "none"]
  /\ exited' = TRUE
  /\ UNCHANGED <<stateVars, lost, bad, proc, st, target, ok, startup, main>>
  /\ UNCHANGED <<ver, sent, term, faults, tries, updates, misled>>

(* handleMessage: who sent it is not compared with the process that runs.  *)
(* Closing startupCh a second time panics, and the rest is not done.       *)
Hear(c) ==
  /\ Launching /\ sent[c] = "sent"
  /\ ok' = TRUE
  /\ startup' = IF startup = "open" THEN "closed" ELSE startup
  /\ sent' = [sent EXCEPT ![c] = IF startup = "closed" THEN "no" ELSE "heard"]
  /\ tries' = 0
  /\ misled' = (misled \/ c # main)
  /\ UNCHANGED <<stateVars, lost, bad, proc, st, target, exited, main>>
  /\ UNCHANGED <<cstate, ver, term, faults, updates>>

Record(c) ==
  /\ Launching /\ sent[c] = "heard"
  /\ st' = [st EXCEPT !.active.name = ver[c], !.failures = 0]
  /\ Save(st')
  /\ tries' = 0
  /\ sent' = [sent EXCEPT ![c] = "no"]
  /\ UNCHANGED <<lost, bad, proc, target, ok, startup, exited, main>>
  /\ UNCHANGED <<cstate, ver, term, faults, updates, misled>>

\* A signal cancels runCtx, and exec.CommandContext kills the children at once.
Terminate ==
  /\ Launching /\ ~term /\ faults < MaxFaults
  /\ term' = TRUE /\ faults' = faults + 1
  /\ cstate' = [c \in Child |-> IF c \in Alive THEN "dead" ELSE cstate[c]]
  /\ UNCHANGED <<stateVars, lost, bad, proc, runnerVars, ver, sent>>
  /\ UNCHANGED <<tries, updates, misled>>

-----------------------------------------------------------------------------
(* Runner.Run.                                                             *)

Goto(pc) == proc' = pc /\ UNCHANGED <<childVars, term, misled>>

Top ==
  /\ proc = "top"
  /\ IF ~term THEN Goto("start")
     ELSE IF main = None THEN Goto("leaving") ELSE Goto("stopping")
  /\ UNCHANGED <<stateVars, lost, bad, runnerVars, faults, tries, updates>>

GivesUp(n) == n >= MaxRetries

\* Mutants: the target stays what it was; the backup has been used up.
RollBackInName ==
  /\ st.backup.path \notin lost
  /\ st' = [st EXCEPT !.active = st.backup, !.failures = 0]
  /\ Save(st')
  /\ tries' = 0 /\ UNCHANGED target
RollBackOnce ==
  /\ st.backup.path \notin lost
  /\ st' = [st EXCEPT !.active = st.backup, !.failures = 0, !.backup.path = None]
  /\ Save(st')
  /\ target' = st.backup.path
  /\ tries' = 0

\* rollback: the backup becomes the active version, and stays the backup.
RollBack ==
  /\ st.backup.path \notin lost
  /\ st' = [st EXCEPT !.active = st.backup, !.failures = 0]
  /\ Save(st')
  /\ target' = st.backup.path
  /\ tries' = 0

CannotRollBack == st.backup.path \in lost /\ UNCHANGED <<stateVars, st, target, tries>>

\* The binary is gone or cannot be run, or the context has been cancelled just now.
StartFails ==
  /\ proc = "start" /\ (target \in lost \cup bad \/ term)
  /\ \/ RollBack /\ Goto("top")
     \/ CannotRollBack /\ Goto("leaving")
  /\ UNCHANGED <<ok, startup, exited, main, lost, bad, faults, updates>>

\* A name that no process and no message has.
Free(c) == cstate[c] = "none" /\ sent[c] = "no"

StartMainProgram ==
  /\ proc = "start" /\ target \notin lost /\ ~term
  /\ \E c \in Child : Free(c)
  /\ LET c == CHOOSE c \in Child : Free(c)
     IN  /\ main' = c
         /\ cstate' = [cstate EXCEPT ![c] = "boot"]
         /\ ver' = [ver EXCEPT ![c] = target]
  /\ ok' = FALSE /\ exited' = FALSE
  /\ tries' = More(tries) /\ misled' = FALSE
  /\ proc' = "arm"
  /\ UNCHANGED <<stateVars, lost, bad, st, target, startup, sent, term, faults, updates>>

\* startupCh is made after the process has been started.
Arm ==
  /\ proc = "arm"
  /\ startup' = "open"
  /\ Goto("await")
  /\ UNCHANGED <<stateVars, lost, bad, st, target, ok, exited, main, faults, tries, updates>>

\* The select: of several channels that are ready it takes any.
Await ==
  /\ proc = "await"
  /\ \/ term /\ Goto("stopping")
     \/ startup = "closed" /\ Goto("confirmed")
     \/ exited /\ Goto(IF ok THEN "confirmed" ELSE "failed")
  /\ UNCHANGED <<stateVars, lost, bad, runnerVars, faults, tries, updates>>

TimerFires ==
  /\ proc = "await"
  /\ IF ok THEN Goto("confirmed") ELSE Goto("timedout")
  /\ UNCHANGED <<stateVars, lost, bad, runnerVars, faults, tries, updates>>

\* Mutant: a child that was stopped counts as one that has failed.
AfterAnyStop(pc) == "failed"

After(pc) == IF pc = "timedout" THEN "failed" ELSE "leaving"

(* stopMainProgram.  A child confirms the request to shut down and cancels *)
(* its root context, but nobody closes its services: it goes on.  The      *)
(* process is gone meanwhile ...                                           *)
Stopped ==
  /\ proc \in {"timedout", "stopping"}
  /\ exited
  /\ Goto(After(proc))
  /\ UNCHANGED <<stateVars, lost, bad, runnerVars, faults, tries, updates>>

\* ... or is killed after 35 seconds; nobody waits until it has been reaped.
Kill ==
  /\ proc \in {"timedout", "stopping"}
  /\ ~exited
  /\ proc' = After(proc)
  /\ cstate' = [c \in Child |-> IF c \in Alive \cap {main} THEN "dead" ELSE cstate[c]]
  /\ UNCHANGED <<stateVars, lost, bad, runnerVars, ver, sent>>
  /\ UNCHANGED <<term, faults, tries, updates, misled>>

CountFailure ==
  /\ proc = "failed"
  /\ st' = [st EXCEPT !.failures = More(@)]
  /\ Save(st')
  /\ Goto("deciding")
  /\ UNCHANGED <<lost, bad, target, ok, startup, exited, main, faults, tries, updates>>

Decide ==
  /\ proc = "deciding"
  /\ \/ GivesUp(st.failures) /\ (RollBack \/ CannotRollBack)
     \/ ~GivesUp(st.failures) /\ UNCHANGED <<stateVars, st, target, tries>>
  /\ Goto("top")
  /\ UNCHANGED <<lost, bad, ok, startup, exited, main, faults, updates>>

Confirmed ==
  /\ proc = "confirmed"
  /\ \/ /\ ok /\ st.failures > 0
        /\ st' = [st EXCEPT !.failures = 0]
        /\ Save(st')
     \/ ~(ok /\ st.failures > 0) /\ UNCHANGED <<stateVars, st>>
  /\ Goto("waiting")
  /\ UNCHANGED <<lost, bad, target, ok, startup, exited, main, faults, tries, updates>>

\* waitForMainProgram, and the file that the child may have written.
Reload ==
  /\ proc = "waiting" /\ exited
  /\ IF stored = "ok" /\ file.active # st.active
       THEN /\ st' = file /\ target' = file.active.path
            /\ ok' = FALSE
            /\ Goto("top")
            /\ UNCHANGED <<startup, exited, main>>
       ELSE Goto("leaving") /\ UNCHANGED runnerVars
  /\ UNCHANGED <<stateVars, lost, bad, faults, tries, updates>>

Leave ==
  /\ proc = "leaving"
  /\ ProcessEnds
  /\ UNCHANGED <<stateVars, lost, bad, faults, tries, updates>>

-----------------------------------------------------------------------------

RunStep ==
  \/ Top \/ StartFails \/ StartMainProgram \/ Arm \/ Await \/ TimerFires
  \/ Stopped \/ Kill \/ CountFailure \/ Decide \/ Confirmed \/ Reload \/ Leave

Next ==
  \/ Boot \/ PowerLoss \/ Terminate
  \/ \E v \in Version : Remove(v)
  \/ PlainApplies \/ Switch \/ PlainEnds
  \/ \E c \in Child :
       ComesUp(c) \/ ChildApplies(c) \/ ChildEnds(c) \/ Reap(c) \/ Hear(c) \/ Record(c)
  \/ RunStep

Spec == Init /\ [][Next]_vars

(* The entry process is started again when it has ended, its goroutines    *)
(* run on, a child that leaves after an update does end, and a version     *)
(* that works comes up in time again and again.                            *)
Fairness ==
  /\ WF_vars(Boot) /\ WF_vars(Switch)
  /\ WF_vars(RunStep)
  /\ \A c \in Child : WF_vars(cstate[c] = "leaving" /\ ChildEnds(c))
  /\ \A c \in Child : WF_vars(Reap(c)) /\ WF_vars(Hear(c)) /\ WF_vars(Record(c))
  /\ SF_vars(\E c \in Child : ComesUp(c))

FairSpec == Spec /\ Fairness

-----------------------------------------------------------------------------

TypeOK ==
  /\ stored \in {"none", "torn", "ok"} /\ file \in State
  /\ lost \in SUBSET Version /\ bad \in SUBSET Version
  /\ proc \in {"off", "plain", "switching", "top", "start", "arm", "await", "timedout",
               "stopping", "failed", "deciding", "confirmed", "waiting", "leaving"}
  /\ st \in State /\ target \in Version
  /\ ok \in BOOLEAN /\ exited \in BOOLEAN
  /\ startup \in {"none", "open", "closed"}
  /\ main \in Child \cup {None}
  /\ cstate \in [Child -> {"none", "boot", "up", "leaving", "dead"}]
  /\ ver \in [Child -> Version]
  /\ sent \in [Child -> {"no", "sent", "heard"}]
  /\ term \in BOOLEAN /\ misled \in BOOLEAN
  /\ faults \in 0..MaxFaults /\ updates \in 0..MaxUpdates /\ tries \in 0..Most

(* The launcher starts a version at most MaxRetries times in a row without *)
(* a word of a child: what it has counted outlives it (CountFailure, Save),*)
(* and an interruption costs one more try at most.  It has no choice but   *)
(* to go on when the version to go back to is gone.                        *)
TriesBounded == tries <= MaxRetries + faults \/ file.backup.path \in lost

Serving == proc = "plain" \/ \E c \in Child : cstate[c] = "up"

\* A version that never comes up, and no version to go back to.
Stranded ==
  /\ stored = "ok"
  /\ file.active.path \in bad
  /\ file.backup.path \in bad \cup lost

(* The program is never away for good: whichever update is bad, wherever   *)
(* the launcher is interrupted and whatever is left of its file, as long   *)
(* as it has not taken the word of another child for that of the one it    *)
(* follows (StartIsConfirmed).                                             *)
ServiceReturns == []<>(Serving \/ Stranded \/ misled)

(* The launcher leaves a child to itself, and waits until it ends, only    *)
(* after that child has confirmed its start: it has come up, or has ended. *)
(* handleMessage does not ask whose word it has.                           *)
StartIsConfirmed ==
  proc = "waiting" => exited \/ cstate[main] \in {"up", "leaving", "dead"}

\* A launcher that is told to end does so.
SignalEnds == term ~> proc = "off"

=============================================================================
