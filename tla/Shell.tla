-------------------------------- MODULE Shell --------------------------------
(***************************************************************************)
(* The main process of the desktop app: apps/desktop-shell/src/main.ts with *)
(* connection-store.ts.  It owns the sidecar, the connection the windows    *)
(* use and the choice of a backend, which it saves.                         *)
(*                                                                         *)
(* A sidecar is what Sidecar models, reduced to what its caller sees.  The  *)
(* main process has one thread: every action is one turn of it, and what    *)
(* it awaits in between is a control point of the handler in `change`.      *)
(***************************************************************************)
EXTENDS Integers, Sequences, FiniteSets

CONSTANTS
  Remotes,      \* URLs of remote backends
  MaxSidecars,  \* bound: calls of startSidecar
  MaxRestarts,  \* bound: restarts of one sidecar
  MaxUpsets     \* bound: crashes, closed windows, quits and sleeps

ASSUME RemotesAssumption == "local" \notin Remotes
ASSUME MaxRestartsAssumption == MaxRestarts \in Nat

VARIABLES
  saved,         \* on disk: the mode and, if remote, the URL
  app,           \* how far the process is
  sidecars,      \* every sidecar started so far
  sidecar,       \* the one this process has, or NoSidecar
  active,        \* activeConnection, or Nothing
  window,        \* the connection of mainWindow, or Nothing
  change,        \* the change of connection in flight
  shuttingDown,
  quitting,      \* the sidecar a quit waits for, or NoSidecar
  sleeping,      \* the system is about to sleep, or asleep
  resumeTimer,   \* systemResumeTimer
  upsets

backends == <<sidecars, sidecar>>
power    == <<sleeping, resumeTimer>>
ending   == <<shuttingDown, quitting>>
vars == <<saved, app, backends, active, window, change, ending, power, upsets>>

-----------------------------------------------------------------------------

NoSidecar == 0
Nothing == [mode |-> "none", at |-> 0, port |-> 0]

local(s, port) == [mode |-> "local", at |-> s, port |-> port]
remote(url)    == [mode |-> "remote", at |-> url, port |-> 0]

(* orphaned: its parent is gone, and it closes for want of one.             *)
Phases == {"booting", "failed", "up", "restarting", "gaveUp", "stopping", "stopped",
           "orphaned"}
SidecarState == [phase : Phases, port : 0 .. MaxRestarts, asleep : BOOLEAN]

Connections ==
  {Nothing} \cup {local(s, p) : s \in 1 .. Len(sidecars), p \in 0 .. MaxRestarts}
            \cup {remote(r) : r \in Remotes}

(* Where the handler of a change waits: for the probe of the remote, for    *)
(* the turn that activates it, for the old sidecar to stop; for the new     *)
(* sidecar, for the turn that shows it, or for it to stop again.            *)
Changes == [at : {"none", "probe", "activate", "stopOld", "boot", "show", "undo"},
            next : Connections, old : 0 .. Len(sidecars)]
NoChange == [at |-> "none", next |-> Nothing, old |-> NoSidecar]

connectionChangeInFlight == change.at # "none"

TypeOK ==
  /\ saved \in {"local"} \cup Remotes
  /\ app \in {"down", "starting", "running"}
  /\ sidecars \in Seq(SidecarState)
  /\ sidecar \in 0 .. Len(sidecars)
  /\ active \in Connections
  /\ window \in Connections
  /\ change \in Changes
  /\ shuttingDown \in BOOLEAN
  /\ quitting \in 0 .. Len(sidecars)
  /\ sleeping \in BOOLEAN
  /\ resumeTimer \in BOOLEAN
  /\ upsets \in Nat

Init ==
  /\ saved \in {"local"} \cup Remotes
  /\ app = "down"
  /\ sidecars = <<>>
  /\ sidecar = NoSidecar
  /\ active = Nothing
  /\ window = Nothing
  /\ change = NoChange
  /\ shuttingDown = FALSE
  /\ quitting = NoSidecar
  /\ sleeping = FALSE
  /\ resumeTimer = FALSE
  /\ upsets = 0

upset == upsets < MaxUpsets /\ upsets' = upsets + 1

newest == Len(sidecars)
running == app = "running"

startSidecar ==
  /\ newest < MaxSidecars
  /\ sidecars' = Append(sidecars, [phase |-> "booting", port |-> 0, asleep |-> FALSE])

inPhase(s, phase) == [sidecars EXCEPT ![s].phase = phase]

(* Sidecar.stop: what gave up has nothing to stop.                          *)
stopped(s) == sidecars[s].phase \in {"stopped", "gaveUp"}
MutStop(s) ==                        \* a restart under way goes on
  IF sidecars[s].phase = "up" THEN inPhase(s, "stopping") ELSE sidecars

stop(s) ==
  IF stopped(s) THEN sidecars ELSE inPhase(s, "stopping")

(* A window is made for the connection, in place of the one there is.       *)
replaceWindowForConnection(connection) ==
  window' = IF shuttingDown THEN window ELSE connection

-----------------------------------------------------------------------------
(* main. *)

initialConnection ==
  /\ app = "down"
  /\ \/ /\ saved = "local"
        /\ app' = "starting"
        /\ startSidecar
        /\ UNCHANGED <<active, window>>
     \/ /\ saved # "local"
        /\ app' = "running"
        /\ active' = remote(saved)
        /\ window' = remote(saved)
        /\ UNCHANGED sidecars
  /\ UNCHANGED <<saved, sidecar, change, ending, power, upsets>>

MainBooted ==
  /\ app = "starting"
  /\ app' = "running"
  /\ sidecars' = inPhase(newest, "up")
  /\ sidecar' = newest
  /\ active' = local(newest, 0)
  /\ window' = local(newest, 0)
  /\ UNCHANGED <<saved, change, ending, power, upsets>>

(* The process is gone; what it had started notices and closes.             *)
gone ==
  /\ app' = "down"
  /\ sidecars' = [s \in DOMAIN sidecars |->
                    IF sidecars[s].phase \in {"booting", "up", "restarting", "stopping"}
                    THEN [sidecars[s] EXCEPT !.phase = "orphaned", !.asleep = FALSE]
                    ELSE [sidecars[s] EXCEPT !.asleep = FALSE]]
  /\ sidecar' = NoSidecar
  /\ active' = Nothing
  /\ window' = Nothing
  /\ change' = NoChange
  /\ shuttingDown' = FALSE
  /\ quitting' = NoSidecar
  /\ resumeTimer' = FALSE
  /\ UNCHANGED <<saved, sleeping>>

MainBootFailed ==
  /\ app = "starting"
  /\ upset
  /\ gone

Crash ==
  /\ app # "down"
  /\ upset
  /\ gone

OrphanCloses(s) ==
  /\ sidecars[s].phase = "orphaned"
  /\ sidecars' = inPhase(s, "stopped")
  /\ UNCHANGED <<saved, app, sidecar, active, window, change, ending, power, upsets>>

-----------------------------------------------------------------------------
(* Quitting. *)

(* left is the window that stays until the process is gone.                 *)
beforeQuit(left) ==
  IF shuttingDown \/ sidecar = NoSidecar THEN gone
  ELSE /\ shuttingDown' = TRUE
       /\ quitting' = sidecar
       /\ sidecars' = stop(sidecar)
       /\ window' = left
       /\ resumeTimer' = FALSE
       /\ UNCHANGED <<saved, app, sidecar, active, change, sleeping>>

Quit ==
  /\ app # "down"
  /\ upset
  /\ beforeQuit(window)

MutQuitProceeds ==                   \* does not wait
  /\ shuttingDown
  /\ gone
  /\ UNCHANGED upsets

QuitProceeds ==
  /\ shuttingDown
  /\ stopped(quitting)
  /\ gone
  /\ UNCHANGED upsets

(* On a Mac the app stays without a window, elsewhere it quits.             *)
CloseWindow ==
  /\ window # Nothing
  /\ upset
  /\ \/ beforeQuit(Nothing)
     \/ /\ window' = Nothing
        /\ UNCHANGED <<saved, app, backends, active, change, ending, power>>

(* The dock icon, or a click on a notification. *)
Reopen ==
  /\ running
  /\ window = Nothing
  /\ active # Nothing
  /\ window' = active
  /\ UNCHANGED <<saved, app, backends, active, change, ending, power, upsets>>

-----------------------------------------------------------------------------
(* A change of the connection. *)

mayChange == window # Nothing /\ ~connectionChangeInFlight

waits(at, next, old) == change' = [at |-> at, next |-> next, old |-> old]

UseRemote(url) ==
  /\ mayChange
  /\ waits("probe", remote(url), NoSidecar)
  /\ UNCHANGED <<saved, app, backends, active, window, ending, power, upsets>>

(* The remote does not answer as it should, or the token cannot be saved.   *)
ProbeFails ==
  /\ change.at = "probe"
  /\ change' = NoChange
  /\ UNCHANGED <<saved, app, backends, active, window, ending, power, upsets>>

MutProbeSucceeds ==                  \* the choice is saved once it is active
  /\ change.at = "probe"
  /\ active' = change.next
  /\ waits("activate", change.next, NoSidecar)
  /\ UNCHANGED <<saved, app, backends, window, ending, power, upsets>>

ProbeSucceeds ==
  /\ change.at = "probe"
  /\ saved' = change.next.at
  /\ active' = change.next
  /\ waits("activate", change.next, NoSidecar)
  /\ UNCHANGED <<app, backends, window, ending, power, upsets>>

MutActivate ==                       \* does not wait for the old sidecar
  /\ change.at = "activate"
  /\ change' = NoChange
  /\ IF shuttingDown \/ active # change.next THEN UNCHANGED <<window, backends>>
     ELSE /\ replaceWindowForConnection(change.next)
          /\ sidecar' = NoSidecar
          /\ sidecars' = IF sidecar = NoSidecar THEN sidecars ELSE stop(sidecar)
  /\ UNCHANGED <<saved, app, active, ending, power, upsets>>

activateRemoteConnection ==
  /\ change.at = "activate"
  /\ IF shuttingDown \/ active # change.next
     THEN change' = NoChange /\ UNCHANGED <<window, backends>>
     ELSE /\ replaceWindowForConnection(change.next)
          /\ sidecar' = NoSidecar
          /\ IF sidecar = NoSidecar THEN change' = NoChange /\ UNCHANGED sidecars
             ELSE /\ sidecars' = stop(sidecar)
                  /\ waits("stopOld", change.next, sidecar)
  /\ UNCHANGED <<saved, app, active, ending, power, upsets>>

OldStopped ==
  /\ change.at \in {"stopOld", "undo"}
  /\ stopped(change.old)
  /\ change' = NoChange
  /\ UNCHANGED <<saved, app, backends, active, window, ending, power, upsets>>

UseLocal ==
  /\ mayChange
  /\ ~(active.mode = "local" /\ sidecar # NoSidecar)
  /\ startSidecar
  /\ waits("boot", Nothing, newest + 1)
  /\ UNCHANGED <<saved, app, sidecar, active, window, ending, power, upsets>>

LocalBootFails ==
  /\ change.at = "boot"
  /\ sidecars' = inPhase(change.old, "failed")
  /\ change' = NoChange
  /\ UNCHANGED <<saved, app, sidecar, active, window, ending, power, upsets>>

(* The choice cannot be saved: the new sidecar is stopped again.            *)
LocalNotSaved ==
  /\ change.at = "boot"
  /\ sidecars' = inPhase(change.old, "stopping")
  /\ waits("undo", Nothing, change.old)
  /\ UNCHANGED <<saved, app, sidecar, active, window, ending, power, upsets>>

LocalBooted ==
  /\ change.at = "boot"
  /\ sidecars' = inPhase(change.old, "up")
  /\ saved' = "local"
  /\ sidecar' = change.old
  /\ active' = local(change.old, 0)
  /\ waits("show", local(change.old, 0), NoSidecar)
  /\ UNCHANGED <<app, window, ending, power, upsets>>

MutShowLocal ==                      \* whatever has become of the connection
  /\ change.at = "show"
  /\ replaceWindowForConnection(change.next)
  /\ change' = NoChange
  /\ UNCHANGED <<saved, app, backends, active, ending, power, upsets>>

ShowLocal ==
  /\ change.at = "show"
  /\ IF active = change.next THEN replaceWindowForConnection(change.next)
     ELSE UNCHANGED window
  /\ change' = NoChange
  /\ UNCHANGED <<saved, app, backends, active, ending, power, upsets>>

-----------------------------------------------------------------------------
(* The sidecar meanwhile. *)

ChildDies(s) ==
  /\ sidecars[s].phase = "up"
  /\ sidecars[s].port < MaxRestarts
  /\ sidecars' = inPhase(s, "restarting")
  /\ UNCHANGED <<saved, app, sidecar, active, window, change, ending, power, upsets>>

MutEndpointChanged(connection) ==    \* whatever the mode
  active' = connection /\ replaceWindowForConnection(connection)

onEndpointChanged(connection) ==
  IF active.mode # "local" THEN UNCHANGED <<active, window>>
  ELSE active' = connection /\ replaceWindowForConnection(connection)

(* The new child listens on another port, and knows of no sleep.            *)
ChildRestarts(s) ==
  /\ sidecars[s].phase = "restarting"
  /\ LET port == sidecars[s].port + 1
     IN  /\ sidecars' = [sidecars EXCEPT ![s] = [phase |-> "up", port |-> port,
                                                 asleep |-> FALSE]]
         /\ onEndpointChanged(local(s, port))
  /\ UNCHANGED <<saved, app, sidecar, change, ending, power, upsets>>

GivesUp(s) ==
  /\ sidecars[s].phase = "restarting"
  /\ sidecars' = [sidecars EXCEPT ![s].phase = "gaveUp", ![s].asleep = FALSE]
  /\ UNCHANGED <<saved, app, sidecar, active, window, change, ending, power, upsets>>

StopEnds(s) ==
  /\ sidecars[s].phase = "stopping"
  /\ sidecars' = [sidecars EXCEPT ![s].phase = "stopped", ![s].asleep = FALSE]
  /\ UNCHANGED <<saved, app, sidecar, active, window, change, ending, power, upsets>>

-----------------------------------------------------------------------------
(* The system sleeps and wakes up. *)

Suspend ==
  /\ app # "down"
  /\ ~sleeping
  /\ upset
  /\ sleeping' = TRUE
  /\ resumeTimer' = FALSE
  /\ \/ /\ sidecar # NoSidecar
        /\ sidecars[sidecar].phase = "up"
        /\ sidecars' = [sidecars EXCEPT ![sidecar].asleep = TRUE]
     \/ UNCHANGED sidecars
  /\ UNCHANGED <<saved, app, sidecar, active, window, change, ending>>

MutWake ==                           \* not while the connection changes
  /\ sleeping
  /\ sleeping' = FALSE
  /\ resumeTimer' = (app # "down" /\ ~connectionChangeInFlight)
  /\ UNCHANGED <<saved, app, backends, active, window, change, ending, upsets>>

Wake ==
  /\ sleeping
  /\ sleeping' = FALSE
  /\ resumeTimer' = (app # "down")
  /\ UNCHANGED <<saved, app, backends, active, window, change, ending, upsets>>

(* A sidecar that does not answer is killed, and restarts.                  *)
ResumeTimer ==
  /\ resumeTimer
  /\ resumeTimer' = FALSE
  /\ IF sidecar = NoSidecar \/ active.mode # "local" \/ sidecars[sidecar].phase # "up"
     THEN UNCHANGED sidecars
     ELSE \/ sidecars' = [sidecars EXCEPT ![sidecar].asleep = FALSE]
          \/ /\ sidecars[sidecar].port < MaxRestarts
             /\ sidecars' = inPhase(sidecar, "restarting")
  /\ UNCHANGED <<saved, app, sidecar, active, window, change, ending, sleeping, upsets>>

-----------------------------------------------------------------------------

Next ==
  \/ initialConnection \/ MainBooted \/ MainBootFailed \/ Crash
  \/ Quit \/ QuitProceeds \/ CloseWindow \/ Reopen
  \/ \E url \in Remotes : UseRemote(url)
  \/ ProbeFails \/ ProbeSucceeds \/ activateRemoteConnection \/ OldStopped
  \/ UseLocal \/ LocalBootFails \/ LocalNotSaved \/ LocalBooted \/ ShowLocal
  \/ \E s \in 1 .. Len(sidecars) :
       \/ OrphanCloses(s)
       \/ ChildDies(s) \/ ChildRestarts(s) \/ GivesUp(s) \/ StopEnds(s)
  \/ Suspend \/ Wake \/ ResumeTimer

(* The turns of the event loop come, probes and boots are answered, what is *)
(* told to stop stops, and the system wakes up.                             *)
Fairness ==
  /\ WF_vars(MainBooted) /\ WF_vars(QuitProceeds)
  /\ WF_vars(ProbeFails \/ ProbeSucceeds) /\ WF_vars(activateRemoteConnection)
  /\ WF_vars(OldStopped)
  /\ WF_vars(LocalBootFails \/ LocalNotSaved \/ LocalBooted) /\ WF_vars(ShowLocal)
  /\ WF_vars(Wake) /\ WF_vars(ResumeTimer)
  /\ \A s \in 1 .. MaxSidecars :
       WF_vars(s <= Len(sidecars)
               /\ (OrphanCloses(s) \/ ChildRestarts(s) \/ GivesUp(s) \/ StopEnds(s)))

Spec == Init /\ [][Next]_vars /\ Fairness

-----------------------------------------------------------------------------
(* Safety. *)

Own == {s \in 1 .. Len(sidecars) :
          sidecars[s].phase \in {"booting", "up", "restarting", "stopping"}}

(* Two servers never work on one data root: a change of the connection      *)
(* waits for the old sidecar before the next change may start a new one.    *)
OneServer == ~shuttingDown => Cardinality(Own) <= 1

(* The state is well formed; with no change in flight the window shows the  *)
(* active backend, at the port its sidecar has now, and a sidecar is kept   *)
(* just for the local backend.                                              *)
WindowShowsBackend ==
  /\ TypeOK
  /\ running /\ ~connectionChangeInFlight /\ ~shuttingDown =>
       /\ window \in {Nothing, active}
       /\ sidecar # NoSidecar <=> active.mode = "local"
       /\ active.mode = "local"
            => active.at = sidecar /\ active.port = sidecars[sidecar].port

(* What the app uses is what it would use after a crash.                    *)
SavedIsActive ==
  running => saved = IF active.mode = "local" THEN "local" ELSE active.at

(* The window, the main process and the disk name the same backend.         *)
BackendsAgree == WindowShowsBackend /\ SavedIsActive

(* An app that is asked to quit once, and is not changing its connection,   *)
(* has stopped its sidecars when it leaves, up to the one it had when it    *)
(* was asked.                                                               *)
QuitStopsSidecar ==
  [][/\ QuitProceeds \/ ((Quit \/ CloseWindow) /\ ~shuttingDown)
     /\ running /\ ~connectionChangeInFlight /\ app' = "down"
     => \A s \in Own : shuttingDown /\ s > quitting]_vars

-----------------------------------------------------------------------------
(* Liveness. *)

asleep(s) == s <= Len(sidecars) /\ sidecars[s].asleep

(* A change of the connection ends, one way or the other, and so does a     *)
(* quit; a sidecar that was put to sleep is woken up, replaced or stopped.  *)
ShellMovesOn ==
  /\ connectionChangeInFlight ~> ~connectionChangeInFlight
  /\ shuttingDown ~> app = "down"
  /\ \A s \in 1 .. MaxSidecars : asleep(s) ~> ~asleep(s)

=============================================================================
