----------------------------- MODULE ShellProofs -----------------------------
(***************************************************************************)
(* Proofs about Shell, for every set of remote backends and every number   *)
(* of sidecars, restarts and upsets.                                       *)
(***************************************************************************)
EXTENDS Shell, TLAPS, SequenceTheorems, FiniteSetTheorems

AtWork == {"booting", "up", "restarting", "stopping"}

-----------------------------------------------------------------------------
(* The inductive invariant. *)

(* A sidecar begins with its first port, and restarts within its bound.     *)
PortInv ==
  \A s \in 1 .. Len(sidecars) : /\ sidecars[s].phase = "booting" => sidecars[s].port = 0
                                /\ sidecars[s].phase = "restarting" => sidecars[s].port < MaxRestarts

(* Without a running app there is no window, no change and no quit; one     *)
(* that starts has the sidecar it boots, one that is gone has none.         *)
AppInv ==
  /\ app # "running" => /\ change = NoChange /\ ~shuttingDown /\ sidecar = NoSidecar
                        /\ active = Nothing /\ window = Nothing
  /\ app = "down" => Own = {}
  /\ app = "starting" => saved = "local" /\ newest # 0 /\ sidecars[newest].phase = "booting" /\ Own = {newest}

SavedInv ==
  running => \/ active.mode = "local" /\ saved = "local"
             \/ active.mode = "remote" /\ active.at = saved

(* What a change of the connection knows at each of its awaits.             *)
ChangeInv ==
  /\ change.at = "none" => change = NoChange
  /\ change.at \in {"probe", "activate", "stopOld"} => change.next.mode = "remote"
  /\ change.at \in {"stopOld", "boot", "undo"} => change.old \in 1 .. Len(sidecars)

(* Until the app quits: whose the sidecars at work are, and what a change   *)
(* has done so far with the sidecar, the connection and the window.         *)
BackendInv ==
  running /\ ~shuttingDown =>
    /\ change.at \in {"none", "probe", "show"} =>
         /\ sidecar # NoSidecar <=> active.mode = "local"
         /\ Own \subseteq {sidecar}
    /\ change.at = "activate" => active = change.next /\ Own \subseteq {sidecar}
    /\ change.at \in {"stopOld", "boot", "undo"} =>
         /\ active.mode = "remote" /\ sidecar = NoSidecar
         /\ Own \subseteq {change.old}
         /\ sidecars[change.old].phase \notin {"up", "restarting"}
    /\ change.at = "boot" => sidecars[change.old].phase = "booting"
    /\ active.mode = "local" => /\ active.at = sidecar
                                /\ active.port = sidecars[sidecar].port
    /\ change.at # "activate" => \/ window \in {Nothing, active}
                                 \/ change.at = "show" /\ active = change.next

ShellInv == TypeOK /\ PortInv /\ AppInv /\ SavedInv /\ ChangeInv /\ BackendInv

-----------------------------------------------------------------------------
(* What the actions do to the sidecars, and what a connection may be.       *)

LEMMA SidecarFacts ==
  ASSUME TypeOK
  PROVE  /\ Len(sidecars) \in Nat
         /\ DOMAIN sidecars = 1 .. Len(sidecars)
         /\ \A s \in 1 .. Len(sidecars) : sidecars[s] \in SidecarState
BY LenProperties, ElementOfSeq DEF TypeOK

(* One sidecar changes, and the others stay. *)
LEMMA UpdateFacts ==
  ASSUME TypeOK, NEW s \in 1 .. Len(sidecars), NEW r \in SidecarState,
         sidecars' = [sidecars EXCEPT ![s] = r]
  PROVE  /\ sidecars' \in Seq(SidecarState)
         /\ Len(sidecars') = Len(sidecars)
         /\ sidecars'[s] = r
         /\ \A q \in 1 .. Len(sidecars) : q # s => sidecars'[q] = sidecars[q]
         /\ Own' = IF r.phase \in AtWork THEN Own \cup {s} ELSE Own \ {s}
<1>1. /\ sidecars' \in Seq(SidecarState)
      /\ Len(sidecars') = Len(sidecars)
      /\ sidecars'[s] = r
      /\ \A q \in 1 .. Len(sidecars) : q # s => sidecars'[q] = sidecars[q]
  BY ExceptSeq, SidecarFacts DEF TypeOK
<1> QED BY <1>1 DEF Own, AtWork

(* A new sidecar is the last one. *)
LEMMA StartFacts ==
  ASSUME TypeOK, startSidecar
  PROVE  /\ sidecars' \in Seq(SidecarState)
         /\ Len(sidecars') = Len(sidecars) + 1
         /\ \A s \in 1 .. Len(sidecars) : sidecars'[s] = sidecars[s]
         /\ sidecars'[Len(sidecars) + 1].phase = "booting"
         /\ sidecars'[Len(sidecars) + 1].port = 0
         /\ Own' = Own \cup {Len(sidecars) + 1}
<1> DEFINE r == [phase |-> "booting", port |-> 0, asleep |-> FALSE]
<1>1. r \in SidecarState
  BY MaxRestartsAssumption DEF SidecarState, Phases
<1>2. sidecars' = Append(sidecars, r)
  BY DEF startSidecar
<1>3. r.phase = "booting" /\ r.port = 0
  OBVIOUS
<1> HIDE DEF r
<1>4. /\ sidecars' \in Seq(SidecarState)
      /\ Len(sidecars') = Len(sidecars) + 1
      /\ \A s \in 1 .. Len(sidecars) : sidecars'[s] = sidecars[s]
      /\ sidecars'[Len(sidecars) + 1] = r
  BY <1>1, <1>2, AppendProperties, SidecarFacts DEF TypeOK
<1> QED BY <1>3, <1>4, SidecarFacts DEF Own

LEMMA ConnectionFacts ==
  /\ Nothing \in Connections
  /\ \A r \in Remotes : remote(r) \in Connections /\ remote(r).mode = "remote" /\ remote(r).at = r
  /\ \A s \in 1 .. Len(sidecars), p \in 0 .. MaxRestarts :
       /\ local(s, p) \in Connections
       /\ local(s, p).mode = "local" /\ local(s, p).at = s /\ local(s, p).port = p
  /\ Nothing.mode = "none"
  /\ \A c \in Connections :
       /\ c.mode = "none" => c = Nothing
       /\ c.mode = "remote" => c.at \in Remotes
<1>1. /\ Nothing.mode = "none"
      /\ \A r : remote(r).mode = "remote" /\ remote(r).at = r
      /\ \A s, p : local(s, p).mode = "local" /\ local(s, p).at = s /\ local(s, p).port = p
  BY DEF Nothing, remote, local
<1>2. \A c \in Connections : \/ c = Nothing \/ \E r \in Remotes : c = remote(r)
                            \/ \E s \in 1 .. Len(sidecars), p \in 0 .. MaxRestarts : c = local(s, p)
  <2> SUFFICES ASSUME NEW c \in Connections, c # Nothing, ~\E r \in Remotes : c = remote(r)
               PROVE  \E s \in 1 .. Len(sidecars), p \in 0 .. MaxRestarts : c = local(s, p)
    OBVIOUS
  <2> DEFINE Locals  == {local(s, p) : s \in 1 .. Len(sidecars), p \in 0 .. MaxRestarts}
             Distant == {remote(r) : r \in Remotes}
  <2>1. Connections = {Nothing} \cup Locals \cup Distant
    BY DEF Connections
  <2>2. c \notin Distant
    OBVIOUS
  <2>3. c \in Locals
    <3> HIDE DEF Locals, Distant
    <3> QED BY <2>1, <2>2
  <2> QED BY <2>3
<1>3. /\ Nothing \in Connections
      /\ \A r \in Remotes : remote(r) \in Connections
      /\ \A s \in 1 .. Len(sidecars), p \in 0 .. MaxRestarts : local(s, p) \in Connections
  BY DEF Connections
<1> QED BY <1>1, <1>2, <1>3

LEMMA MoreConnections ==
  ASSUME Len(sidecars) \in Nat, Len(sidecars') \in Nat, Len(sidecars') >= Len(sidecars)
  PROVE  Connections \subseteq Connections' /\ Changes \subseteq Changes'
<1>1. Connections \subseteq Connections'
  BY DEF Connections, local, remote, Nothing
<1> QED BY <1>1 DEF Changes

(* A change waits for something. *)
LEMMA WaitFacts ==
  ASSUME NEW at \in {"none", "probe", "activate", "stopOld", "boot", "show", "undo"},
         NEW next \in Connections', NEW old \in 0 .. Len(sidecars'), waits(at, next, old)
  PROVE  /\ change' \in Changes'
         /\ change'.at = at /\ change'.next = next /\ change'.old = old
BY DEF waits, Changes

LEMMA NoChangeFacts ==
  /\ NoChange.at = "none" /\ NoChange.next = Nothing
  /\ Len(sidecars) \in Nat => NoChange \in Changes
  /\ Len(sidecars') \in Nat => NoChange \in Changes'
BY DEF NoChange, Changes, Connections, NoSidecar

(* A sidecar enters another phase. *)
LEMMA PhaseFacts ==
  ASSUME ShellInv, NEW s \in 1 .. Len(sidecars), NEW phase \in Phases \ {"booting"},
         phase = "restarting" => sidecars[s].port < MaxRestarts,
         sidecars' = inPhase(s, phase)
  PROVE  /\ sidecars' \in Seq(SidecarState) /\ Len(sidecars') = Len(sidecars)
         /\ sidecars'[s].phase = phase /\ sidecars'[s].port = sidecars[s].port
         /\ \A q \in 1 .. Len(sidecars) : q # s => sidecars'[q] = sidecars[q]
         /\ Own' = IF phase \in AtWork THEN Own \cup {s} ELSE Own \ {s}
         /\ PortInv' /\ Connections' = Connections /\ Changes' = Changes
<1> DEFINE r == [sidecars[s] EXCEPT !.phase = phase]
<1>1. sidecars[s] \in SidecarState
  BY SidecarFacts DEF ShellInv
<1>2. r \in SidecarState /\ r.phase = phase /\ r.port = sidecars[s].port
  BY <1>1 DEF SidecarState
<1>3. sidecars' = [sidecars EXCEPT ![s] = r]
  BY DEF inPhase
<1> HIDE DEF r
<1>4. /\ sidecars' \in Seq(SidecarState) /\ Len(sidecars') = Len(sidecars)
      /\ sidecars'[s] = r
      /\ \A q \in 1 .. Len(sidecars) : q # s => sidecars'[q] = sidecars[q]
      /\ Own' = IF phase \in AtWork THEN Own \cup {s} ELSE Own \ {s}
  BY <1>2, <1>3, UpdateFacts DEF ShellInv
<1>5. PortInv'
  BY <1>2, <1>4 DEF ShellInv, PortInv
<1>6. Connections' = Connections
  BY <1>4 DEF Connections, local, remote, Nothing
<1>7. Changes' = Changes
  BY <1>4, <1>6 DEF Changes
<1> QED BY <1>2, <1>4, <1>5, <1>6, <1>7

(* A sidecar falls asleep, or wakes up in another phase. *)
LEMMA SleepFacts ==
  ASSUME ShellInv, NEW s \in 1 .. Len(sidecars), NEW asleepNow \in BOOLEAN,
         NEW phase \in Phases \ {"booting", "restarting"},
         sidecars' = [sidecars EXCEPT ![s].phase = phase, ![s].asleep = asleepNow]
  PROVE  /\ sidecars' \in Seq(SidecarState) /\ Len(sidecars') = Len(sidecars)
         /\ sidecars'[s].phase = phase /\ sidecars'[s].port = sidecars[s].port
         /\ \A q \in 1 .. Len(sidecars) : q # s => sidecars'[q] = sidecars[q]
         /\ Own' = IF phase \in AtWork THEN Own \cup {s} ELSE Own \ {s}
         /\ PortInv' /\ Connections' = Connections /\ Changes' = Changes
<1> DEFINE r == [sidecars[s] EXCEPT !.phase = phase, !.asleep = asleepNow]
<1>1. sidecars[s] \in SidecarState
  BY SidecarFacts DEF ShellInv
<1>2. r \in SidecarState /\ r.phase = phase /\ r.port = sidecars[s].port
  BY <1>1 DEF SidecarState
<1>3. sidecars' = [sidecars EXCEPT ![s] = r]
  BY <1>1, SidecarFacts DEF ShellInv
<1> HIDE DEF r
<1>4. /\ sidecars' \in Seq(SidecarState) /\ Len(sidecars') = Len(sidecars)
      /\ sidecars'[s] = r
      /\ \A q \in 1 .. Len(sidecars) : q # s => sidecars'[q] = sidecars[q]
      /\ Own' = IF phase \in AtWork THEN Own \cup {s} ELSE Own \ {s}
  BY <1>2, <1>3, UpdateFacts DEF ShellInv
<1>5. PortInv'
  BY <1>2, <1>4 DEF ShellInv, PortInv
<1>6. Connections' = Connections
  BY <1>4 DEF Connections, local, remote, Nothing
<1>7. Changes' = Changes
  BY <1>4, <1>6 DEF Changes
<1> QED BY <1>2, <1>4, <1>5, <1>6, <1>7

LEMMA SameSidecars ==
  ASSUME ShellInv, UNCHANGED sidecars
  PROVE  PortInv' /\ Own' = Own /\ Connections' = Connections /\ Changes' = Changes
BY DEF ShellInv, PortInv, Own, Connections, Changes

(* sidecar.stop() takes a sidecar out of the service of its users.          *)
LEMMA StopFacts ==
  ASSUME ShellInv, NEW s \in 1 .. Len(sidecars), sidecars' = stop(s)
  PROVE  /\ sidecars' \in Seq(SidecarState) /\ Len(sidecars') = Len(sidecars)
         /\ sidecars'[s].phase \notin {"up", "restarting"} /\ sidecars'[s].port = sidecars[s].port
         /\ \A q \in 1 .. Len(sidecars) : q # s => sidecars'[q] = sidecars[q]
         /\ Own \subseteq Own' /\ Own' \subseteq Own \cup {s}
         /\ PortInv' /\ Connections' = Connections /\ Changes' = Changes
<1>1. CASE stopped(s)
  <2>1. UNCHANGED sidecars
    BY <1>1 DEF stop
  <2>2. sidecars[s].phase \notin {"up", "restarting"}
    BY <1>1 DEF stopped
  <2> QED BY <2>1, <2>2, SameSidecars DEF ShellInv, TypeOK
<1>2. CASE ~stopped(s)
  <2>1. sidecars' = inPhase(s, "stopping")
    BY <1>2 DEF stop
  <2> QED BY <2>1, PhaseFacts DEF Phases, AtWork
<1> QED BY <1>1, <1>2

-----------------------------------------------------------------------------
(* The invariant is inductive. *)

LEMMA InitInv == Init => ShellInv
<1> SUFFICES ASSUME Init PROVE ShellInv
  OBVIOUS
<1>1. sidecars \in Seq(SidecarState) /\ Len(sidecars) = 0
  BY EmptySeq DEF Init
<1>2. NoChange \in Changes /\ Nothing \in Connections
  BY <1>1 DEF NoChange, Changes, Connections, NoSidecar
<1>3. TypeOK
  <2>1. sidecar \in 0 .. Len(sidecars) /\ quitting \in 0 .. Len(sidecars)
    BY <1>1 DEF Init, NoSidecar
  <2>2. active \in Connections /\ window \in Connections /\ change \in Changes
    BY <1>2 DEF Init
  <2> QED BY <1>1, <2>1, <2>2 DEF Init, TypeOK
<1>4. Own = {}
  BY <1>1 DEF Own
<1> QED BY <1>1, <1>3, <1>4
        DEF Init, ShellInv, PortInv, AppInv, SavedInv, ChangeInv, BackendInv, running, NoChange

LEMMA StutterStep == ASSUME ShellInv, UNCHANGED vars PROVE ShellInv'
BY DEF ShellInv, vars, backends, power, ending, TypeOK, PortInv, AppInv, SavedInv, ChangeInv,
       BackendInv, Own, running, newest, Connections, Changes

(* The main process starts, with or without a sidecar.                      *)
LEMMA InitialConnectionStep == ASSUME ShellInv, initialConnection PROVE ShellInv'
<1> USE DEF ShellInv, initialConnection, power, ending
<1>1. CASE saved = "local"
  <2>1. startSidecar /\ app' = "starting" /\ UNCHANGED <<active, window>>
    BY <1>1
  <2>2. TypeOK'
    BY <2>1, StartFacts, SidecarFacts, MoreConnections DEF TypeOK
  <2>3. Own = {} /\ Own' = {newest'}
    BY <2>1, StartFacts, SidecarFacts DEF AppInv, newest
  <2>4. PortInv'
    BY <2>1, StartFacts, SidecarFacts DEF PortInv
  <2>5. AppInv'
    BY <2>1, <2>3, StartFacts, SidecarFacts DEF AppInv, newest
  <2> QED BY <2>1, <2>2, <2>4, <2>5, StartFacts, NoChangeFacts
          DEF AppInv, SavedInv, ChangeInv, BackendInv, running
<1>2. CASE saved # "local"
  <2>1. /\ app' = "running" /\ saved \in Remotes
        /\ active' = remote(saved) /\ window' = remote(saved) /\ UNCHANGED sidecars
    BY <1>2 DEF TypeOK
  <2>2. remote(saved).mode = "remote" /\ remote(saved).at = saved /\ remote(saved) \in Connections
    BY <2>1, ConnectionFacts
  <2>3. TypeOK'
    BY <2>1, <2>2, SidecarFacts, MoreConnections DEF TypeOK
  <2>4. Own = {} /\ Own' = {} /\ change = NoChange /\ sidecar = NoSidecar
    BY <2>1 DEF AppInv, Own
  <2> QED BY <2>1, <2>2, <2>3, <2>4, NoChangeFacts, SidecarFacts
          DEF PortInv, AppInv, SavedInv, ChangeInv, BackendInv, running
<1> QED BY <1>1, <1>2

(* When the process is gone, what it had started is on its own.              *)
LEMMA GoneStep == ASSUME ShellInv, gone, upsets' \in Nat PROVE ShellInv'
<1> DEFINE after(s) == IF sidecars[s].phase \in {"booting", "up", "restarting", "stopping"}
                       THEN [sidecars[s] EXCEPT !.phase = "orphaned", !.asleep = FALSE]
                       ELSE [sidecars[s] EXCEPT !.asleep = FALSE]
<1>1. sidecars' = [s \in 1 .. Len(sidecars) |-> after(s)]
  BY SidecarFacts DEF ShellInv, gone
<1>2. \A s \in 1 .. Len(sidecars) : /\ after(s) \in SidecarState
                                    /\ after(s).phase \notin AtWork
  BY SidecarFacts DEF ShellInv, SidecarState, Phases, AtWork
<1> HIDE DEF after
<1>3. Len(sidecars) \in Nat
  BY SidecarFacts DEF ShellInv
<1>4. sidecars' \in Seq(SidecarState) /\ Len(sidecars') = Len(sidecars)
  BY <1>1, <1>2, <1>3
<1>5. Own' = {}
  BY <1>1, <1>2, <1>4 DEF Own, AtWork
<1>6. PortInv'
  BY <1>1, <1>2, <1>4 DEF PortInv, AtWork
<1>7. NoChange \in Changes' /\ Nothing \in Connections'
  BY <1>3, <1>4, NoChangeFacts, ConnectionFacts, MoreConnections DEF ShellInv
<1>8. TypeOK'
  <2>1. /\ app' = "down" /\ sidecar' = 0 /\ active' = Nothing /\ window' = Nothing
        /\ change' = NoChange /\ shuttingDown' = FALSE /\ quitting' = 0 /\ resumeTimer' = FALSE
        /\ UNCHANGED <<saved, sleeping>>
    BY DEF gone, NoSidecar
  <2>2. 0 \in 0 .. Len(sidecars')
    BY <1>3, <1>4
  <2> QED BY <1>4, <1>7, <2>1, <2>2 DEF ShellInv, TypeOK
<1>9. ChangeInv'
  BY DEF gone, ChangeInv, NoChange
<1> QED BY <1>5, <1>6, <1>8, <1>9 DEF gone, ShellInv, AppInv, SavedInv, BackendInv, running

LEMMA CrashStep == ASSUME ShellInv, MainBootFailed \/ Crash PROVE ShellInv'
BY GoneStep DEF MainBootFailed, Crash, upset, ShellInv, TypeOK

LEMMA QuitProceedsStep == ASSUME ShellInv, QuitProceeds PROVE ShellInv'
BY GoneStep DEF QuitProceeds, ShellInv, TypeOK

LEMMA BeforeQuitStep ==
  ASSUME ShellInv, NEW left \in {window, Nothing}, beforeQuit(left), upsets' \in Nat
  PROVE  ShellInv'
<1>1. CASE shuttingDown \/ sidecar = NoSidecar
  BY <1>1, GoneStep DEF beforeQuit
<1>2. CASE ~(shuttingDown \/ sidecar = NoSidecar)
  <2>1. /\ shuttingDown' /\ quitting' = sidecar /\ sidecars' = stop(sidecar) /\ window' = left
        /\ resumeTimer' = FALSE
        /\ UNCHANGED <<saved, app, sidecar, active, change, sleeping>>
    BY <1>2 DEF beforeQuit
  <2>2. sidecar \in 1 .. Len(sidecars)
    BY <1>2, SidecarFacts DEF ShellInv, TypeOK, NoSidecar
  <2>3. running /\ running'
    BY <1>2, <2>1 DEF ShellInv, AppInv, TypeOK, running
  <2>4. TypeOK'
    <3>1. /\ sidecars' \in Seq(SidecarState) /\ Len(sidecars') = Len(sidecars)
          /\ Connections' = Connections /\ Changes' = Changes
      BY <2>1, <2>2, StopFacts
    <3>2. window' \in Connections
      BY <2>1, ConnectionFacts DEF ShellInv, TypeOK
    <3> QED BY <2>1, <2>2, <3>1, <3>2, SidecarFacts DEF ShellInv, TypeOK
  <2> QED BY <2>1, <2>2, <2>3, <2>4, StopFacts
          DEF ShellInv, AppInv, SavedInv, ChangeInv, BackendInv, running
<1> QED BY <1>1, <1>2

LEMMA QuitStep == ASSUME ShellInv, Quit PROVE ShellInv'
BY BeforeQuitStep DEF Quit, upset, ShellInv, TypeOK

LEMMA CloseWindowStep == ASSUME ShellInv, CloseWindow PROVE ShellInv'
<1>1. upsets' \in Nat
  BY DEF CloseWindow, upset, ShellInv, TypeOK
<1>2. CASE beforeQuit(Nothing)
  BY <1>1, <1>2, BeforeQuitStep
<1>3. CASE /\ window' = Nothing
           /\ UNCHANGED <<saved, app, backends, active, change, ending, power>>
  <2>1. TypeOK'
    BY <1>1, <1>3, SameSidecars, ConnectionFacts
    DEF ShellInv, TypeOK, backends, ending, power
  <2> QED BY <1>3, <2>1, SameSidecars
          DEF ShellInv, AppInv, SavedInv, ChangeInv, BackendInv, running, newest,
              backends, ending, power
<1> QED BY <1>2, <1>3 DEF CloseWindow

LEMMA MainBootedStep == ASSUME ShellInv, MainBooted PROVE ShellInv'
<1> USE DEF MainBooted, ShellInv, ending, power
<1>1. newest \in 1 .. Len(sidecars) /\ Own = {newest}
  BY SidecarFacts DEF AppInv, newest
<1>2. sidecars' = inPhase(newest, "up")
  OBVIOUS
<1>4. /\ sidecars' \in Seq(SidecarState) /\ Len(sidecars') = Len(sidecars)
      /\ sidecars'[newest].port = 0 /\ Own' = {newest}
      /\ PortInv' /\ Connections' = Connections /\ Changes' = Changes
  BY <1>1, <1>2, PhaseFacts DEF Phases, AtWork, AppInv, PortInv
<1>5. /\ local(newest, 0) \in Connections /\ local(newest, 0).mode = "local"
      /\ local(newest, 0).at = newest /\ local(newest, 0).port = 0
  BY <1>1, ConnectionFacts, MaxRestartsAssumption
<1>6. TypeOK'
  BY <1>1, <1>4, <1>5, SidecarFacts DEF TypeOK
<1>7. change = NoChange /\ NoChange.at = "none" /\ ~shuttingDown /\ saved = "local"
  BY NoChangeFacts DEF AppInv, SavedInv
<1> QED BY <1>1, <1>4, <1>5, <1>6, <1>7
        DEF AppInv, SavedInv, ChangeInv, BackendInv, running, NoSidecar

LEMMA ReopenStep == ASSUME ShellInv, Reopen PROVE ShellInv'
BY SameSidecars
DEF Reopen, ShellInv, TypeOK, AppInv, SavedInv, ChangeInv, BackendInv, running, newest,
    backends, ending, power

LEMMA WakeStep == ASSUME ShellInv, Wake PROVE ShellInv'
<1>1. TypeOK'
  BY SameSidecars DEF Wake, ShellInv, TypeOK, backends, ending, power
<1> QED BY <1>1, SameSidecars
        DEF Wake, ShellInv, AppInv, SavedInv, ChangeInv, BackendInv, running, newest,
            backends, ending

-----------------------------------------------------------------------------
(* The steps of a change. *)

LEMMA UseRemoteStep ==
  ASSUME ShellInv, NEW url \in Remotes, UseRemote(url)
  PROVE  ShellInv'
<1> USE DEF UseRemote, ShellInv, backends, ending, power
<1>1. /\ change' \in Changes' /\ change'.at = "probe" /\ change'.next.mode = "remote"
      /\ change.at = "none"
  BY WaitFacts, SameSidecars, ConnectionFacts, SidecarFacts
  DEF NoSidecar, mayChange, connectionChangeInFlight
<1>2. running
  BY DEF mayChange, AppInv, running
<1>3. TypeOK'
  BY <1>1, SameSidecars DEF TypeOK
<1> QED BY <1>1, <1>2, <1>3, SameSidecars
        DEF AppInv, SavedInv, ChangeInv, BackendInv, running

LEMMA ProbeFailsStep == ASSUME ShellInv, ProbeFails PROVE ShellInv'
<1> USE DEF ProbeFails, ShellInv, backends, ending, power
<1>1. NoChange \in Changes' /\ NoChange.at = "none" /\ running
  BY NoChangeFacts, SidecarFacts DEF AppInv, running
<1>2. TypeOK'
  BY <1>1, SameSidecars DEF TypeOK
<1> QED BY <1>1, <1>2, SameSidecars DEF AppInv, SavedInv, ChangeInv, BackendInv, running

LEMMA ProbeSucceedsStep == ASSUME ShellInv, ProbeSucceeds PROVE ShellInv'
<1> USE DEF ProbeSucceeds, ShellInv, backends, ending, power
<1>1. /\ change.next \in Connections /\ change.next.mode = "remote"
      /\ change.next.at \in Remotes
  BY ConnectionFacts DEF TypeOK, Changes, ChangeInv
<1>2. /\ change' \in Changes' /\ change'.at = "activate" /\ change'.next = change.next
  BY <1>1, WaitFacts, SameSidecars, SidecarFacts DEF NoSidecar
<1>3. running
  BY NoChangeFacts, SidecarFacts DEF AppInv, running
<1>4. TypeOK'
  BY <1>1, <1>2, SameSidecars DEF TypeOK
<1> QED BY <1>1, <1>2, <1>3, <1>4, SameSidecars
        DEF AppInv, SavedInv, ChangeInv, BackendInv, running

LEMMA ActivateStep == ASSUME ShellInv, activateRemoteConnection PROVE ShellInv'
<1> USE DEF activateRemoteConnection, ShellInv, ending, power
<1>1. running /\ change.next.mode = "remote" /\ NoChange \in Changes /\ NoChange.at = "none"
  BY NoChangeFacts, SidecarFacts DEF AppInv, ChangeInv, running
<1>2. CASE shuttingDown \/ active # change.next
  <2>1. change' = NoChange /\ UNCHANGED <<window, backends>>
    BY <1>2
  <2>2. shuttingDown
    BY <1>1, <1>2 DEF BackendInv
  <2>3. TypeOK'
    BY <1>1, <2>1, SameSidecars DEF TypeOK, backends
  <2> QED BY <1>1, <2>1, <2>2, <2>3, SameSidecars
          DEF AppInv, SavedInv, ChangeInv, BackendInv, running, backends
<1>3. CASE ~shuttingDown /\ active = change.next
  <2>1. window' = active /\ sidecar' = NoSidecar /\ Own \subseteq {sidecar}
    BY <1>1, <1>3 DEF replaceWindowForConnection, BackendInv
  <2>2. CASE sidecar = NoSidecar
    <3>1. change' = NoChange /\ UNCHANGED sidecars
      BY <1>3, <2>2
    <3>2. TypeOK'
      BY <1>1, <2>1, <2>2, <3>1, SameSidecars DEF TypeOK
    <3> QED BY <1>1, <1>3, <2>1, <2>2, <3>1, <3>2, SameSidecars
            DEF AppInv, SavedInv, ChangeInv, BackendInv, running
  <2>3. CASE sidecar # NoSidecar
    <3>1. sidecars' = stop(sidecar) /\ waits("stopOld", change.next, sidecar)
      BY <1>3, <2>3
    <3>2. sidecar \in 1 .. Len(sidecars)
      BY <2>3, SidecarFacts DEF TypeOK, NoSidecar
    <3>3. /\ sidecars' \in Seq(SidecarState) /\ Len(sidecars') = Len(sidecars)
          /\ sidecars'[sidecar].phase \notin {"up", "restarting"}
          /\ Own' \subseteq {sidecar}
          /\ PortInv' /\ Connections' = Connections /\ Changes' = Changes
      BY <2>1, <3>1, <3>2, StopFacts
    <3>4. change.next \in Connections' /\ sidecar \in 0 .. Len(sidecars')
      BY <3>2, <3>3 DEF TypeOK, Changes
    <3>5. /\ change' \in Changes /\ change'.at = "stopOld" /\ change'.next = change.next
          /\ change'.old = sidecar
      BY <3>1, <3>3, <3>4, WaitFacts
    <3>6. TypeOK'
      BY <1>3, <2>1, <3>3, <3>4, <3>5, SidecarFacts DEF TypeOK, NoSidecar
    <3> QED BY <1>1, <1>3, <2>1, <3>2, <3>3, <3>5, <3>6
            DEF AppInv, SavedInv, ChangeInv, BackendInv, running
  <2> QED BY <2>2, <2>3
<1> QED BY <1>2, <1>3

LEMMA OldStoppedStep == ASSUME ShellInv, OldStopped PROVE ShellInv'
<1> USE DEF OldStopped, ShellInv, backends, ending, power
<1>1. running /\ NoChange \in Changes /\ NoChange.at = "none"
  BY NoChangeFacts, SidecarFacts DEF AppInv, running
<1>2. change.old \notin Own
  BY DEF Own, stopped
<1>3. TypeOK'
  BY <1>1, SameSidecars DEF TypeOK
<1> QED BY <1>1, <1>2, <1>3, SameSidecars
        DEF AppInv, SavedInv, ChangeInv, BackendInv, running

LEMMA UseLocalStep == ASSUME ShellInv, UseLocal PROVE ShellInv'
<1> USE DEF UseLocal, ShellInv, ending, power
<1>1. running /\ change.at = "none"
  BY DEF mayChange, connectionChangeInFlight, AppInv, running
<1>2. /\ sidecars' \in Seq(SidecarState) /\ Len(sidecars') = Len(sidecars) + 1
      /\ \A s \in 1 .. Len(sidecars) : sidecars'[s] = sidecars[s]
      /\ sidecars'[Len(sidecars) + 1].phase = "booting"
      /\ sidecars'[Len(sidecars) + 1].port = 0
      /\ Own' = Own \cup {Len(sidecars) + 1}
  BY StartFacts
<1>3. Len(sidecars) \in Nat /\ Connections \subseteq Connections' /\ Changes \subseteq Changes'
  BY <1>2, SidecarFacts, MoreConnections
<1>4. Nothing \in Connections' /\ newest + 1 \in 0 .. Len(sidecars')
  BY <1>2, <1>3, ConnectionFacts DEF newest
<1>5. /\ change' \in Changes' /\ change'.at = "boot" /\ change'.old = newest + 1
  BY <1>4, WaitFacts
<1>6. TypeOK'
  BY <1>2, <1>3, <1>5 DEF TypeOK
<1>7. PortInv'
  BY <1>2, <1>3 DEF PortInv
<1>8. ~shuttingDown => /\ active.mode = "remote" /\ sidecar = NoSidecar /\ Own = {}
                       /\ window \in {Nothing, active}
  <2>1. CASE ~shuttingDown
    <3>1. active.mode = "remote" /\ sidecar = NoSidecar /\ window \in {Nothing, active}
      BY <1>1, <2>1 DEF BackendInv, SavedInv
    <3>2. Own \subseteq {0} /\ 0 \notin Own
      BY <1>1, <1>3, <2>1, <3>1 DEF BackendInv, NoSidecar, Own
    <3> QED BY <3>1, <3>2
  <2> QED BY <2>1
<1> QED BY <1>1, <1>2, <1>3, <1>5, <1>6, <1>7, <1>8
        DEF AppInv, SavedInv, ChangeInv, BackendInv, running, newest

(* A change ends with a sidecar that never came up, or one not to be used.  *)
LEMMA LocalBootFailsStep == ASSUME ShellInv, LocalBootFails PROVE ShellInv'
<1> USE DEF LocalBootFails, ShellInv, ending, power
<1>1. running /\ NoChange \in Changes /\ NoChange.at = "none"
  BY NoChangeFacts, SidecarFacts DEF AppInv, running
<1>2. change.old \in 1 .. Len(sidecars)
  BY DEF ChangeInv
<1>3. /\ sidecars' \in Seq(SidecarState) /\ Len(sidecars') = Len(sidecars)
      /\ \A s \in 1 .. Len(sidecars) : s # change.old => sidecars'[s] = sidecars[s]
      /\ Own' = Own \ {change.old}
      /\ PortInv' /\ Connections' = Connections /\ Changes' = Changes
  BY <1>2, PhaseFacts DEF Phases, AtWork
<1>4. TypeOK'
  BY <1>1, <1>3 DEF TypeOK
<1> QED BY <1>1, <1>2, <1>3, <1>4 DEF AppInv, SavedInv, ChangeInv, BackendInv, running

LEMMA LocalNotSavedStep == ASSUME ShellInv, LocalNotSaved PROVE ShellInv'
<1> USE DEF LocalNotSaved, ShellInv, ending, power
<1>1. running
  BY NoChangeFacts, SidecarFacts DEF AppInv, running
<1>2. change.old \in 1 .. Len(sidecars)
  BY DEF ChangeInv
<1>3. /\ sidecars' \in Seq(SidecarState) /\ Len(sidecars') = Len(sidecars)
      /\ sidecars'[change.old].phase = "stopping"
      /\ \A s \in 1 .. Len(sidecars) : s # change.old => sidecars'[s] = sidecars[s]
      /\ Own' = Own \cup {change.old}
      /\ PortInv' /\ Connections' = Connections /\ Changes' = Changes
  BY <1>2, PhaseFacts DEF Phases, AtWork
<1>4. change' \in Changes' /\ change'.at = "undo" /\ change'.old = change.old
  BY <1>2, <1>3, WaitFacts, ConnectionFacts, SidecarFacts
<1>5. TypeOK'
  BY <1>3, <1>4 DEF TypeOK
<1> QED BY <1>1, <1>2, <1>3, <1>4, <1>5 DEF AppInv, SavedInv, ChangeInv, BackendInv, running

LEMMA LocalBootedStep == ASSUME ShellInv, LocalBooted PROVE ShellInv'
<1> USE DEF LocalBooted, ShellInv, ending, power
<1>1. running /\ change.old \in 1 .. Len(sidecars)
  BY NoChangeFacts, SidecarFacts DEF AppInv, running, ChangeInv
<1> DEFINE next == local(change.old, 0)
<1>2. /\ next \in Connections /\ next.mode = "local" /\ next.at = change.old /\ next.port = 0
  BY <1>1, ConnectionFacts, MaxRestartsAssumption
<1>3. active' = next /\ waits("show", next, NoSidecar)
  OBVIOUS
<1> HIDE DEF next
<1>4. /\ sidecars' \in Seq(SidecarState) /\ Len(sidecars') = Len(sidecars)
      /\ sidecars'[change.old].port = sidecars[change.old].port
      /\ Own' = Own \cup {change.old}
      /\ PortInv' /\ Connections' = Connections /\ Changes' = Changes
  BY <1>1, PhaseFacts DEF Phases, AtWork
<1>5. change' \in Changes' /\ change'.at = "show" /\ change'.next = next
  BY <1>2, <1>3, <1>4, WaitFacts, SidecarFacts DEF NoSidecar
<1>6. TypeOK'
  BY <1>1, <1>2, <1>3, <1>4, <1>5, SidecarFacts DEF TypeOK
<1>7. ~shuttingDown => sidecars[change.old].port = 0
  BY <1>1 DEF BackendInv, PortInv
<1> QED BY <1>1, <1>2, <1>3, <1>4, <1>5, <1>6, <1>7
        DEF AppInv, SavedInv, ChangeInv, BackendInv, running, NoSidecar

LEMMA ShowLocalStep == ASSUME ShellInv, ShowLocal PROVE ShellInv'
<1> USE DEF ShowLocal, ShellInv, backends, ending, power
<1>1. running /\ NoChange \in Changes /\ NoChange.at = "none"
  BY NoChangeFacts, SidecarFacts DEF AppInv, running
<1>2. window' \in {window, active} /\ (~shuttingDown => window' \in {Nothing, active})
  BY <1>1 DEF replaceWindowForConnection, BackendInv
<1>3. TypeOK'
  BY <1>1, <1>2, SameSidecars DEF TypeOK
<1> QED BY <1>1, <1>2, <1>3, SameSidecars
        DEF AppInv, SavedInv, ChangeInv, BackendInv, running

-----------------------------------------------------------------------------
(* The steps of a sidecar. *)

(* One that is let go of, or goes by itself, changes nothing else.          *)
LEMMA PhaseStep ==
  ASSUME ShellInv, NEW s \in 1 .. Len(sidecars), NEW phase \in Phases,
         /\ sidecars' \in Seq(SidecarState) /\ Len(sidecars') = Len(sidecars)
         /\ sidecars'[s].phase = phase /\ sidecars'[s].port = sidecars[s].port
         /\ \A q \in 1 .. Len(sidecars) : q # s => sidecars'[q] = sidecars[q]
         /\ Own' \subseteq Own
         /\ PortInv' /\ Connections' = Connections /\ Changes' = Changes,
         sidecars[s].phase # "booting",
         phase \in {"up", "restarting"} => sidecars[s].phase \in {"up", "restarting"},
         upsets' \in Nat, sleeping' \in BOOLEAN, resumeTimer' \in BOOLEAN,
         UNCHANGED <<saved, app, sidecar, active, window, change, ending>>
  PROVE  ShellInv'
<1>1. TypeOK'
  BY DEF ShellInv, TypeOK, ending
<1>2. /\ app = "down" => Own' = {}
      /\ app = "starting" => Own' = {newest} /\ sidecars'[newest].phase = "booting"
  <2>1. app = "starting" => s # newest /\ newest \in 1 .. Len(sidecars)
    BY SidecarFacts DEF ShellInv, AppInv, newest
  <2>2. app = "starting" => newest \in Own'
    BY <2>1 DEF ShellInv, AppInv, Own
  <2> QED BY <2>1, <2>2 DEF ShellInv, AppInv
<1>3. AppInv'
  BY <1>2 DEF ShellInv, AppInv, newest, ending
<1>4. BackendInv'
  <2>1. active.mode = "local" /\ running /\ ~shuttingDown => sidecars'[sidecar].port = sidecars[sidecar].port
    BY NoChangeFacts DEF ShellInv, BackendInv, ChangeInv, TypeOK, Changes, NoSidecar
  <2>2. change.at = "boot" /\ running /\ ~shuttingDown
          => s # change.old /\ sidecars'[change.old] = sidecars[change.old]
    BY DEF ShellInv, BackendInv, ChangeInv
  <2>3. running /\ ~shuttingDown /\ change.at \in {"stopOld", "boot", "undo"}
          => sidecars'[change.old].phase \notin {"up", "restarting"}
    BY DEF ShellInv, BackendInv, ChangeInv
  <2> QED BY <2>1, <2>2, <2>3 DEF ShellInv, BackendInv, running, ending
<1> QED BY <1>1, <1>3, <1>4 DEF ShellInv, SavedInv, ChangeInv, running

LEMMA SidecarStep ==
  ASSUME ShellInv, NEW s \in 1 .. Len(sidecars),
         OrphanCloses(s) \/ ChildDies(s) \/ GivesUp(s) \/ StopEnds(s)
  PROVE  ShellInv'
<1>1. CASE OrphanCloses(s)
  <2>1. Own' \subseteq Own
    BY <1>1, PhaseFacts DEF OrphanCloses, Phases, AtWork
  <2> QED BY <1>1, <2>1, PhaseFacts, PhaseStep
          DEF OrphanCloses, Phases, power, ShellInv, TypeOK
<1>2. CASE ChildDies(s)
  <2>1. Own' \subseteq Own
    BY <1>2, PhaseFacts DEF ChildDies, Phases, Own
  <2> QED BY <1>2, <2>1, PhaseFacts, PhaseStep DEF ChildDies, Phases, power, ShellInv, TypeOK
<1>3. CASE GivesUp(s)
  <2>1. sidecars' = [sidecars EXCEPT ![s].phase = "gaveUp", ![s].asleep = FALSE]
    BY <1>3 DEF GivesUp
  <2>2. "gaveUp" \in Phases \ {"booting", "restarting"} /\ FALSE \in BOOLEAN
    BY DEF Phases
  <2>3. /\ sidecars' \in Seq(SidecarState) /\ Len(sidecars') = Len(sidecars)
        /\ sidecars'[s].phase = "gaveUp" /\ sidecars'[s].port = sidecars[s].port
        /\ \A q \in 1 .. Len(sidecars) : q # s => sidecars'[q] = sidecars[q]
        /\ Own' = IF "gaveUp" \in AtWork THEN Own \cup {s} ELSE Own \ {s}
        /\ PortInv' /\ Connections' = Connections /\ Changes' = Changes
    BY <2>1, <2>2, SleepFacts, Zenon
  <2>4. Own' \subseteq Own
    BY <2>3 DEF AtWork
  <2> QED BY <1>3, <2>2, <2>3, <2>4, PhaseStep DEF GivesUp, power, ShellInv, TypeOK
<1>4. CASE StopEnds(s)
  <2>1. sidecars' = [sidecars EXCEPT ![s].phase = "stopped", ![s].asleep = FALSE]
    BY <1>4 DEF StopEnds
  <2>2. "stopped" \in Phases \ {"booting", "restarting"} /\ FALSE \in BOOLEAN
    BY DEF Phases
  <2>3. /\ sidecars' \in Seq(SidecarState) /\ Len(sidecars') = Len(sidecars)
        /\ sidecars'[s].phase = "stopped" /\ sidecars'[s].port = sidecars[s].port
        /\ \A q \in 1 .. Len(sidecars) : q # s => sidecars'[q] = sidecars[q]
        /\ Own' = IF "stopped" \in AtWork THEN Own \cup {s} ELSE Own \ {s}
        /\ PortInv' /\ Connections' = Connections /\ Changes' = Changes
    BY <2>1, <2>2, SleepFacts, Zenon
  <2>4. Own' \subseteq Own
    BY <2>3 DEF AtWork
  <2> QED BY <1>4, <2>2, <2>3, <2>4, PhaseStep DEF StopEnds, power, ShellInv, TypeOK
<1> QED BY <1>1, <1>2, <1>3, <1>4

(* The new address of a sidecar reaches the connection and the window.      *)
LEMMA ChildRestartsStep ==
  ASSUME ShellInv, NEW s \in 1 .. Len(sidecars), ChildRestarts(s)
  PROVE  ShellInv'
<1> USE DEF ShellInv
<1> DEFINE port == sidecars[s].port + 1
           r == [phase |-> "up", port |-> port, asleep |-> FALSE]
<1>1. /\ sidecars[s].phase = "restarting" /\ sidecars' = [sidecars EXCEPT ![s] = r]
      /\ onEndpointChanged(local(s, port))
      /\ UNCHANGED <<saved, app, sidecar, change, ending, power, upsets>>
  BY DEF ChildRestarts
<1>2. port \in 0 .. MaxRestarts
  BY <1>1, SidecarFacts, MaxRestartsAssumption DEF PortInv, SidecarState
<1>3. r \in SidecarState /\ r.phase = "up" /\ r.port = port
  BY <1>2 DEF SidecarState, Phases
<1> HIDE DEF port, r
<1>4. /\ sidecars' \in Seq(SidecarState) /\ Len(sidecars') = Len(sidecars) /\ sidecars'[s] = r
      /\ \A q \in 1 .. Len(sidecars) : q # s => sidecars'[q] = sidecars[q]
      /\ Own' = Own \cup {s} /\ s \in Own
  BY <1>1, <1>3, UpdateFacts DEF AtWork, Own
<1>5. Connections' = Connections
  BY <1>4 DEF Connections, local, remote, Nothing
<1>6. Changes' = Changes
  BY <1>4, <1>5 DEF Changes
<1>7. /\ local(s, port) \in Connections /\ local(s, port).mode = "local"
      /\ local(s, port).at = s /\ local(s, port).port = port
  BY <1>2, ConnectionFacts
<1>8. /\ active' \in {active, local(s, port)} /\ active'.mode = active.mode
      /\ active.mode # "local" => UNCHANGED <<active, window>>
      /\ active.mode = "local" => active' = local(s, port)
      /\ window' \in {window, active'} /\ window' \in Connections
      /\ active.mode = "local" /\ ~shuttingDown => window' = active'
  BY <1>1, <1>7 DEF onEndpointChanged, replaceWindowForConnection, TypeOK
<1>9. TypeOK'
  BY <1>1, <1>4, <1>5, <1>6, <1>7, <1>8 DEF TypeOK, ending, power
<1>10. PortInv'
  BY <1>3, <1>4 DEF PortInv
<1>11. running
  <2>1. app # "down"
    BY <1>4 DEF AppInv
  <2>2. app # "starting"
    BY <1>1, <1>4 DEF AppInv
  <2> QED BY <2>1, <2>2 DEF TypeOK, running
<1>12. SavedInv' /\ AppInv' /\ ChangeInv'
  BY <1>1, <1>4, <1>8, <1>11 DEF SavedInv, AppInv, ChangeInv, running
<1>13. ~shuttingDown => /\ s = sidecar
                        /\ change.at \in {"none", "probe", "activate", "show"}
  BY <1>1, <1>4, <1>11 DEF BackendInv, TypeOK, Changes
<1>14. change.at = "activate" => change.next.mode = "remote"
  BY DEF ChangeInv
<1>15. BackendInv'
  <2> SUFFICES ASSUME running', ~shuttingDown'
               PROVE  BackendInv'
    BY DEF BackendInv
  <2>1. running /\ ~shuttingDown
    BY <1>1 DEF running, ending
  <2>2. CASE active.mode = "local"
    BY <1>1, <1>3, <1>4, <1>7, <1>8, <1>13, <1>14, <2>1, <2>2 DEF BackendInv, ending
  <2>3. CASE active.mode # "local"
    BY <1>1, <1>3, <1>4, <1>8, <1>13, <1>14, <2>1, <2>3 DEF BackendInv, ending
  <2> QED BY <2>2, <2>3
<1> QED BY <1>9, <1>10, <1>12, <1>15

(* A sidecar is put to sleep. *)
LEMMA SuspendStep == ASSUME ShellInv, Suspend PROVE ShellInv'
<1> USE DEF Suspend, ShellInv, ending
<1>1. upsets' \in Nat /\ sleeping' \in BOOLEAN /\ resumeTimer' \in BOOLEAN
  <2>1. upsets' \in Nat
    BY DEF upset, TypeOK
  <2>2. sleeping' = TRUE /\ resumeTimer' = FALSE
    OBVIOUS
  <2> QED BY <2>1, <2>2
<1>2. CASE UNCHANGED sidecars
  <2>1. TypeOK'
    BY <1>1, <1>2, SameSidecars DEF TypeOK
  <2> QED BY <1>2, <2>1, SameSidecars
          DEF AppInv, SavedInv, ChangeInv, BackendInv, running, newest
<1>3. CASE /\ sidecar # NoSidecar /\ sidecars[sidecar].phase = "up"
           /\ sidecars' = [sidecars EXCEPT ![sidecar].asleep = TRUE]
  <2>1. sidecar \in 1 .. Len(sidecars)
    BY <1>3, SidecarFacts DEF TypeOK, NoSidecar
  <2>2. sidecars[sidecar] \in SidecarState
    BY <2>1, SidecarFacts
  <2>3. [sidecars[sidecar] EXCEPT !.asleep = TRUE]
          = [sidecars[sidecar] EXCEPT !.phase = "up", !.asleep = TRUE]
    BY <1>3, <2>2 DEF SidecarState
  <2>4. sidecars' = [sidecars EXCEPT ![sidecar].phase = "up", ![sidecar].asleep = TRUE]
    BY <1>3, <2>1, <2>2, <2>3, SidecarFacts
  <2>5. Own' \subseteq Own
    BY <1>3, <2>1, <2>4, SleepFacts DEF Phases, Own
  <2> QED BY <1>1, <1>3, <2>1, <2>4, <2>5, SleepFacts, PhaseStep DEF Phases
<1> QED BY <1>2, <1>3

(* A sidecar is woken up, or killed because it does not answer.             *)
LEMMA ResumeTimerStep == ASSUME ShellInv, ResumeTimer PROVE ShellInv'
<1> USE DEF ResumeTimer, ShellInv, ending
<1>1. upsets' \in Nat /\ sleeping' \in BOOLEAN /\ resumeTimer' \in BOOLEAN
  BY DEF TypeOK
<1>2. CASE UNCHANGED sidecars
  <2>1. TypeOK'
    BY <1>1, <1>2, SameSidecars DEF TypeOK
  <2> QED BY <1>2, <2>1, SameSidecars
          DEF AppInv, SavedInv, ChangeInv, BackendInv, running, newest
<1>3. CASE ~UNCHANGED sidecars
  <2>1. sidecar \in 1 .. Len(sidecars) /\ sidecars[sidecar].phase = "up"
    BY <1>3, SidecarFacts DEF TypeOK, NoSidecar
  <2>2. sidecars[sidecar] \in SidecarState
    BY <2>1, SidecarFacts
  <2>3. CASE sidecars' = [sidecars EXCEPT ![sidecar].asleep = FALSE]
    <3>1. [sidecars[sidecar] EXCEPT !.asleep = FALSE]
            = [sidecars[sidecar] EXCEPT !.phase = "up", !.asleep = FALSE]
      BY <2>1, <2>2 DEF SidecarState
    <3>2. sidecars' = [sidecars EXCEPT ![sidecar].phase = "up", ![sidecar].asleep = FALSE]
      BY <2>1, <2>2, <2>3, <3>1, SidecarFacts
    <3>3. Own' \subseteq Own
      BY <2>1, <3>2, SleepFacts DEF Phases, Own
    <3> QED BY <1>1, <2>1, <3>2, <3>3, SleepFacts, PhaseStep DEF Phases
  <2>4. CASE /\ sidecars[sidecar].port < MaxRestarts
             /\ sidecars' = inPhase(sidecar, "restarting")
    <3>1. Own' \subseteq Own
      BY <2>1, <2>4, PhaseFacts DEF Phases, Own
    <3> QED BY <1>1, <2>1, <2>4, <3>1, PhaseFacts, PhaseStep DEF Phases
  <2> QED BY <1>3, <2>3, <2>4
<1> QED BY <1>2, <1>3

LEMMA NextStep == ASSUME ShellInv, [Next]_vars PROVE ShellInv'
BY StutterStep, InitialConnectionStep, MainBootedStep, CrashStep, QuitStep, QuitProceedsStep,
   CloseWindowStep, ReopenStep, UseRemoteStep, ProbeFailsStep, ProbeSucceedsStep, ActivateStep,
   OldStoppedStep, UseLocalStep, LocalBootFailsStep, LocalNotSavedStep, LocalBootedStep,
   ShowLocalStep, SidecarStep, ChildRestartsStep, SuspendStep, WakeStep, ResumeTimerStep
DEF Next

-----------------------------------------------------------------------------
(* Theorems. *)

(* What the main process, a change of the connection and the sidecars know  *)
(* of each other holds in every state of main.ts, whatever is changed,      *)
(* closed, crashes or sleeps.                                               *)
THEOREM ShellInvariant == Spec => []ShellInv
BY InitInv, NextStep, PTL DEF Spec

(* The API servers of a running shell never overlap on the data root: the   *)
(* old sidecar has stopped when the next one is started.                    *)
THEOREM OneServerHolds == Spec => []OneServer
<1>1. ASSUME ShellInv PROVE OneServer
  <2> SUFFICES ASSUME ~shuttingDown PROVE Cardinality(Own) <= 1
    BY DEF OneServer
  <2>1. \E s : Own \subseteq {s}
    BY <1>1, SidecarFacts DEF ShellInv, AppInv, BackendInv, TypeOK, Changes, running
  <2>2. PICK s : Own \subseteq {s}
    BY <2>1
  <2>3. Cardinality({s}) = 1 /\ IsFiniteSet({s})
    BY FS_Singleton
  <2> QED BY <2>2, <2>3, FS_Subset
<1> QED BY <1>1, ShellInvariant, PTL

(* The window, the main process and the disk name the same backend.         *)
THEOREM BackendsAgreeHolds == Spec => []BackendsAgree
<1>1. ASSUME ShellInv PROVE BackendsAgree
  BY <1>1, RemotesAssumption
  DEF ShellInv, BackendsAgree, WindowShowsBackend, SavedIsActive, AppInv, SavedInv, ChangeInv,
      BackendInv, connectionChangeInFlight
<1> QED BY <1>1, ShellInvariant, PTL

-----------------------------------------------------------------------------
(* Quitting. *)

(* While the app quits, what is at work is the sidecar it waits for, or came *)
(* later.                                                                   *)
QuitInv ==
  shuttingDown => /\ quitting \in 1 .. Len(sidecars)
                  /\ \A s \in Own : s >= quitting
                  /\ change.at = "boot" => change.old >= quitting

LEMMA QuitInvStep == ASSUME ShellInv, QuitInv, [Next]_vars PROVE QuitInv'
<1> SUFFICES ASSUME shuttingDown' PROVE QuitInv'
  BY DEF QuitInv
<1> USE DEF ShellInv
<1>1. CASE shuttingDown /\ UNCHANGED ending /\ UNCHANGED sidecars /\ change'.at # "boot"
  BY <1>1, SameSidecars DEF QuitInv, ending
<1>2. CASE shuttingDown /\ UNCHANGED ending /\ UNCHANGED change
           /\ Own' \subseteq Own /\ Len(sidecars') = Len(sidecars)
  BY <1>2 DEF QuitInv, ending
<1>3. CASE UNCHANGED vars
  BY <1>2, <1>3, SameSidecars DEF vars, backends, ending, QuitInv
<1>4. ASSUME NEW left \in {window, Nothing}, beforeQuit(left), app # "down"
      PROVE  QuitInv'
  <2>1. ~shuttingDown /\ sidecar # NoSidecar
    BY <1>4 DEF beforeQuit, gone
  <2>2. quitting' = sidecar /\ sidecars' = stop(sidecar) /\ UNCHANGED change
    BY <1>4, <2>1 DEF beforeQuit
  <2>3. sidecar \in 1 .. Len(sidecars)
    BY <2>1, SidecarFacts DEF TypeOK, NoSidecar
  <2>4. Own \subseteq {sidecar} /\ change.at # "boot"
    BY <2>1 DEF BackendInv, AppInv, TypeOK, Changes, running
  <2>5. Own' \subseteq {sidecar} /\ Len(sidecars') = Len(sidecars) /\ sidecar \in Nat
    <3>1. Own' \subseteq Own \cup {sidecar} /\ Len(sidecars') = Len(sidecars)
      BY <2>2, <2>3, StopFacts
    <3> QED BY <2>3, <2>4, <3>1, SidecarFacts
  <2> QED BY <2>2, <2>3, <2>4, <2>5 DEF QuitInv
<1>5. CASE \/ initialConnection \/ MainBooted \/ MainBootFailed \/ Crash \/ QuitProceeds
  BY <1>5 DEF initialConnection, MainBooted, MainBootFailed, Crash, QuitProceeds, gone, AppInv,
              ending
<1>6. CASE Quit \/ CloseWindow
  <2>1. CASE \E left \in {window, Nothing} : beforeQuit(left) /\ app # "down"
    BY <1>4, <2>1
  <2>2. CASE UNCHANGED <<app, backends, active, change, ending>>
    BY <1>2, <2>2, SameSidecars DEF backends, ending
  <2>3. window # Nothing => app # "down"
    BY DEF AppInv
  <2> QED BY <1>6, <2>1, <2>2, <2>3 DEF Quit, CloseWindow
<1>7. CASE Reopen \/ Wake \/ \E url \in Remotes : UseRemote(url)
  <2>1. shuttingDown /\ UNCHANGED ending /\ UNCHANGED sidecars
    BY <1>7 DEF Reopen, Wake, UseRemote, backends, ending
  <2>2. UNCHANGED change \/ change'.at # "boot"
    BY <1>7 DEF Reopen, Wake, UseRemote, waits
  <2> QED BY <1>1, <1>2, <2>1, <2>2, SameSidecars
<1>8. CASE ProbeFails \/ ProbeSucceeds \/ OldStopped \/ ShowLocal
  <2>1. shuttingDown /\ UNCHANGED ending /\ UNCHANGED sidecars
    BY <1>8 DEF ProbeFails, ProbeSucceeds, OldStopped, ShowLocal, backends, ending
  <2>2. change'.at # "boot"
    BY <1>8, NoChangeFacts DEF ProbeFails, ProbeSucceeds, OldStopped, ShowLocal, waits
  <2> QED BY <1>1, <2>1, <2>2
<1>9. CASE activateRemoteConnection
  BY <1>9, <1>1, NoChangeFacts DEF activateRemoteConnection, backends, ending
<1>10. CASE UseLocal
  <2>1. shuttingDown /\ UNCHANGED ending
    BY <1>10 DEF UseLocal, ending
  <2>2. Own' = Own \cup {Len(sidecars) + 1} /\ Len(sidecars') = Len(sidecars) + 1
    BY <1>10, StartFacts DEF UseLocal
  <2>3. change'.old = Len(sidecars) + 1
    BY <1>10 DEF UseLocal, waits, newest
  <2> QED BY <2>1, <2>2, <2>3, SidecarFacts DEF QuitInv, ending
<1>11. CASE LocalBootFails \/ LocalNotSaved \/ LocalBooted
  <2>1. /\ shuttingDown /\ UNCHANGED ending
        /\ change.at = "boot" /\ change.old \in 1 .. Len(sidecars)
        /\ change'.at # "boot"
    <3>1. shuttingDown /\ UNCHANGED ending /\ change.at = "boot"
      BY <1>11 DEF LocalBootFails, LocalNotSaved, LocalBooted, ending
    <3>2. change'.at # "boot"
      BY <1>11, NoChangeFacts DEF LocalBootFails, LocalNotSaved, LocalBooted, waits
    <3> QED BY <3>1, <3>2 DEF ChangeInv
  <2>2. \E phase \in {"failed", "stopping", "up"} : sidecars' = inPhase(change.old, phase)
    BY <1>11 DEF LocalBootFails, LocalNotSaved, LocalBooted
  <2>3. Own' \subseteq Own \cup {change.old} /\ Len(sidecars') = Len(sidecars)
    BY <2>1, <2>2, PhaseFacts DEF Phases
  <2> QED BY <2>1, <2>3 DEF QuitInv, ending
<1>12. ASSUME NEW s \in 1 .. Len(sidecars),
              OrphanCloses(s) \/ ChildDies(s) \/ ChildRestarts(s) \/ GivesUp(s) \/ StopEnds(s)
       PROVE  QuitInv'
  <2>1. shuttingDown /\ UNCHANGED ending /\ UNCHANGED change
    BY <1>12 DEF OrphanCloses, ChildDies, ChildRestarts, GivesUp, StopEnds, ending
  <2>2. CASE sidecars[s].phase = "orphaned" /\ sidecars' = inPhase(s, "stopped")
    BY <1>2, <2>1, <2>2, PhaseFacts DEF Phases, AtWork
  <2>3. CASE sidecars[s].phase # "orphaned"
    <3>1. s \in Own
      BY <1>12, <2>3 DEF OrphanCloses, ChildDies, ChildRestarts, GivesUp, StopEnds, Own
    <3>2. Len(sidecars') = Len(sidecars) /\ DOMAIN sidecars' = DOMAIN sidecars
          /\ \A q \in 1 .. Len(sidecars) : q # s => sidecars'[q] = sidecars[q]
      BY <1>12, SidecarFacts
      DEF OrphanCloses, ChildDies, ChildRestarts, GivesUp, StopEnds, inPhase
    <3>3. Own' \subseteq Own
      BY <3>1, <3>2 DEF Own
    <3> QED BY <1>2, <2>1, <3>2, <3>3
  <2>4. sidecars[s].phase = "orphaned" => sidecars' = inPhase(s, "stopped")
    BY <1>12 DEF OrphanCloses, ChildDies, ChildRestarts, GivesUp, StopEnds
  <2> QED BY <2>2, <2>3, <2>4
<1>13. CASE Suspend \/ ResumeTimer
  <2>1. shuttingDown /\ UNCHANGED ending /\ UNCHANGED change
    BY <1>13 DEF Suspend, ResumeTimer, ending
  <2>2. CASE UNCHANGED sidecars
    BY <1>2, <2>1, <2>2, SameSidecars
  <2>3. CASE ~UNCHANGED sidecars
    <3>1. sidecar \in Own
      BY <1>13, <2>3, SidecarFacts DEF Suspend, ResumeTimer, TypeOK, NoSidecar, Own
    <3>2. Len(sidecars') = Len(sidecars) /\ DOMAIN sidecars' = DOMAIN sidecars
          /\ \A q \in 1 .. Len(sidecars) : q # sidecar => sidecars'[q] = sidecars[q]
      BY <1>13, <2>3, SidecarFacts DEF Suspend, ResumeTimer, inPhase
    <3>3. Own' \subseteq Own
      BY <3>1, <3>2 DEF Own
    <3> QED BY <1>2, <2>1, <3>2, <3>3
  <2> QED BY <2>2, <2>3
<1> QED BY <1>3, <1>5, <1>6, <1>7, <1>8, <1>9, <1>10, <1>11, <1>12, <1>13 DEF Next

(* An app that quits in peace leaves no server of its own at work that it   *)
(* had when it was asked: before-quit waits for sidecar.stop().             *)
THEOREM QuitStopsSidecarHolds == Spec => QuitStopsSidecar
<1> DEFINE Leaves == /\ QuitProceeds \/ ((Quit \/ CloseWindow) /\ ~shuttingDown)
                     /\ running /\ ~connectionChangeInFlight /\ app' = "down"
                     => \A s \in Own : shuttingDown /\ s > quitting
<1>1. Init => QuitInv
  BY DEF Init, QuitInv
<1>2. ShellInv /\ QuitInv /\ [Next]_vars => QuitInv'
  BY QuitInvStep
<1>3. ASSUME ShellInv, QuitInv PROVE [Leaves]_vars
  <2>1. SUFFICES ASSUME QuitProceeds \/ ((Quit \/ CloseWindow) /\ ~shuttingDown), running,
                        ~connectionChangeInFlight, app' = "down", NEW s \in Own
                 PROVE  shuttingDown /\ s > quitting
    OBVIOUS
  <2>2. CASE QuitProceeds
    <3>1. quitting \notin Own /\ s >= quitting /\ shuttingDown
      BY <1>3, <2>2 DEF QuitProceeds, stopped, Own, QuitInv
    <3>2. s \in Nat /\ quitting \in Nat
      BY <1>3, SidecarFacts DEF ShellInv, Own, TypeOK
    <3> QED BY <3>1, <3>2
  <2>3. CASE (Quit \/ CloseWindow) /\ ~shuttingDown
    <3>1. sidecar = NoSidecar
      BY <2>1, <2>3 DEF Quit, CloseWindow, beforeQuit, running
    <3>2. Own \subseteq {0}
      BY <1>3, <2>1, <2>3, <3>1
      DEF ShellInv, BackendInv, connectionChangeInFlight, NoSidecar
    <3>3. 0 \notin Own
      BY <1>3, SidecarFacts DEF ShellInv, Own
    <3> QED BY <3>2, <3>3
  <2> QED BY <2>1, <2>2, <2>3
<1> QED BY <1>1, <1>2, <1>3, ShellInvariant, PTL DEF Spec, QuitStopsSidecar

=============================================================================
