------------------------------ MODULE Sidecar ------------------------------
(***************************************************************************)
(* The supervisor of the API server in the desktop shell:                  *)
(* apps/desktop-shell/src/sidecar.ts and sidecar-health.ts.                *)
(*                                                                         *)
(* Children are numbered in the order in which they are forked.  The       *)
(* clock is abstracted: the startup grace of a child ends and a healthy    *)
(* streak becomes long at some time.                                       *)
(***************************************************************************)
EXTENDS Integers, Sequences, FiniteSets

CONSTANTS
  MaxRestarts,       \* opts.maxRestarts
  FailureThreshold,  \* healthPolicy.failureThreshold
  MaxChildren,       \* bound: forks
  MaxUpsets,         \* bound: children that exit of themselves
  MaxSecrets         \* bound: changes of a secret

ASSUME MaxRestartsAssumption == MaxRestarts \in Nat
ASSUME FailureThresholdAssumption == FailureThreshold \in Nat \ {0}
ASSUME BoundsAssumption == MaxChildren \in Nat \ {0} /\ MaxSecrets \in Nat

VARIABLES
  children,  \* every child forked so far
  child,     \* the current one; baseUrl is its address
  attached,  \* onExit listens to it
  stopped,
  stop,      \* how far the call of stop() is
  attempts,  \* restartAttempts
  loop,      \* how far startSidecar or restartLoop is, restartInFlight
  timer,     \* healthTimer, or what the probe it sent comes back with
  health,    \* HealthState of the current child
  grace,     \* less than startupGraceMs since its handshake
  resume,    \* what the ping of resume() comes back with
  stored,    \* version of the secret in the shell's store
  mail,      \* updates of the secret on their way to a child
  upsets,    \* children that exited of themselves
  earned     \* children when the budget was last earned back, or one to come

process == <<children, child, attached>>
life    == <<stopped, stop>>
probing == <<timer, health, grace>>
secrets == <<stored, mail>>
ghosts  == <<upsets, earned>>
vars == <<process, life, attempts, loop, probing, resume, secrets, ghosts>>

-----------------------------------------------------------------------------

Outcomes == {"healthy", "warming", "unhealthy", "unreachable"}

(* env is the version of the secret in its environment.                     *)
Child == [life : {"starting", "up", "dead"}, signal : {"none", "TERM", "KILL"},
          env : 0 .. MaxSecrets]

TypeOK ==
  /\ children \in Seq(Child)
  /\ child \in 0 .. Len(children)
  /\ attached \in BOOLEAN
  /\ stopped \in BOOLEAN
  /\ stop \in {"none", "child", "loop", "done"}
  /\ attempts \in 0 .. MaxRestarts + 1
  /\ loop \in {"boot", "failed", "none", "sleeping", "spawning", "stopping"}
  /\ timer \in Outcomes \cup {"off", "armed"}
  /\ health \in [failures : 0 .. FailureThreshold - 1, healthy : {"no", "since", "long"}]
  /\ grace \in BOOLEAN
  /\ resume \in {"none", "ok", "failed"}
  /\ stored \in 0 .. MaxSecrets
  /\ mail \subseteq [to : 1 .. Len(children), version : 0 .. MaxSecrets]
  /\ upsets \in Nat
  /\ earned \in 1 .. MaxChildren + 1

newest == Len(children)
alive(c) == c # 0 /\ children[c].life # "dead"
initialHealthState == [failures |-> 0, healthy |-> "no"]

(* A child is forked with the options startSidecar was called with, among   *)
(* them the secrets as they were then.                                      *)
fork == [life |-> "starting", signal |-> "none", env |-> 0]

Init ==
  /\ children = <<fork>>
  /\ child = 0
  /\ attached = FALSE
  /\ stopped = FALSE
  /\ stop = "none"
  /\ attempts = 0
  /\ loop = "boot"
  /\ timer = "off"
  /\ health = initialHealthState
  /\ grace = TRUE
  /\ resume = "none"
  /\ stored = 0
  /\ mail = {}
  /\ upsets = 0
  /\ earned = 1

send(c, signal) == [children EXCEPT ![c].signal = signal]

-----------------------------------------------------------------------------
(* Restarting. *)

(* The head of the loop in restartLoop: another attempt, or the breaker.    *)
attempt(kids) ==
  /\ children' = kids
  /\ attempts' = attempts + 1
  /\ IF attempts + 1 > MaxRestarts
     THEN stopped' = TRUE /\ loop' = "none"
     ELSE loop' = "sleeping" /\ UNCHANGED stopped

MutRestart(kids) ==                  \* a second loop takes over from the first
  IF stopped
  THEN children' = kids /\ UNCHANGED <<attempts, stopped, loop>>
  ELSE attempt(kids)

restart(kids) ==
  IF stopped \/ loop # "none"
  THEN children' = kids /\ UNCHANGED <<attempts, stopped, loop>>
  ELSE attempt(kids)

(* After the backoff a replacement is forked; a failed fork counts as one   *)
(* that exits before its handshake.                                         *)
BackoffElapses ==
  /\ loop = "sleeping"
  /\ IF stopped
     THEN loop' = "none" /\ UNCHANGED <<children, attached>>
     ELSE /\ newest < MaxChildren
          /\ children' = Append(children, fork)
          /\ attached' = FALSE
          /\ loop' = "spawning"
  /\ UNCHANGED <<child, life, attempts, probing, resume, secrets, ghosts>>

MutInstall ==                        \* restartInFlight is not cleared
  /\ child' = newest
  /\ attached' = TRUE
  /\ health' = initialHealthState
  /\ grace' = TRUE
  /\ UNCHANGED loop

install ==
  /\ child' = newest
  /\ attached' = TRUE
  /\ health' = initialHealthState
  /\ grace' = TRUE
  /\ loop' = "none"

(* spawnOnce resolves; a stop that came meanwhile turns on the newcomer.    *)
Handshake ==
  /\ loop \in {"boot", "spawning"}
  /\ children[newest].life = "starting"
  /\ IF stopped
     THEN /\ children' = [children EXCEPT ![newest].life = "up", ![newest].signal = "TERM"]
          /\ loop' = "stopping"
          /\ UNCHANGED <<child, attached, health, grace, timer>>
     ELSE /\ children' = [children EXCEPT ![newest].life = "up"]
          /\ install
          /\ timer' = IF loop = "boot" THEN "armed" ELSE timer
  /\ UNCHANGED <<life, attempts, resume, secrets, ghosts>>

(* spawnOnce rejects; kids are the children after what made it reject.      *)
reject(kids) ==
  CASE loop = "boot"                -> /\ children' = kids
                                       /\ loop' = "failed"
                                       /\ UNCHANGED <<stopped, attempts>>
    [] loop = "spawning" /\ stopped -> /\ children' = kids
                                       /\ loop' = "none"
                                       /\ UNCHANGED <<stopped, attempts>>
    [] OTHER                        -> attempt(kids)

(* No handshake in time, or one of another version.                         *)
HandshakeFails ==
  /\ loop \in {"boot", "spawning"}
  /\ alive(newest)
  /\ reject(send(newest, "KILL"))
  /\ UNCHANGED <<child, attached, stop, probing, resume, secrets, ghosts>>

buried(c) == [children EXCEPT ![c].life = "dead"]

(* A child exits, because of a signal or of itself.                         *)
ChildExits(c) ==
  /\ alive(c)
  /\ IF children[c].signal = "none" THEN upsets < MaxUpsets /\ upsets' = upsets + 1
     ELSE UNCHANGED upsets
  /\ CASE c = child /\ attached -> restart(buried(c))
       [] c = newest /\ loop \in {"boot", "spawning"} -> reject(buried(c))
       [] c = newest /\ loop = "stopping" -> /\ children' = buried(c)
                                             /\ loop' = "none"
                                             /\ UNCHANGED <<stopped, attempts>>
       [] OTHER -> children' = buried(c) /\ UNCHANGED <<stopped, attempts, loop>>
  /\ UNCHANGED <<child, attached, stop, probing, resume, secrets, earned>>

-----------------------------------------------------------------------------
(* Health. *)

(* What a request to the current address may come back with.                *)
answers == IF alive(child) THEN Outcomes ELSE {"unreachable"}

ProbeSent ==
  /\ timer = "armed"
  /\ IF stopped THEN timer' = "off"
     ELSE timer' \in answers
  /\ UNCHANGED <<process, life, attempts, loop, health, grace, resume, secrets, ghosts>>

withinGrace(outcome) == outcome = "unreachable" /\ grace
kills(outcome) ==
  /\ outcome \in {"unhealthy", "unreachable"}
  /\ ~withinGrace(outcome)
  /\ health.failures + 1 >= FailureThreshold

MutClearsRestartBudget(outcome) ==   \* any healthy answer will do
  outcome = "healthy"

clearsRestartBudget(outcome) ==
  outcome = "healthy" /\ health.healthy = "long"

(* The counter is capped at the threshold: during the grace it only has to  *)
(* remember that it is high enough.                                         *)
applyProbe(outcome) ==
  CASE outcome = "healthy" ->
         [failures |-> 0,
          healthy  |-> IF health.healthy = "no" THEN "since" ELSE health.healthy]
    [] outcome = "warming" -> initialHealthState
    [] OTHER ->
         [failures |-> IF kills(outcome) THEN 0
                       ELSE IF health.failures + 1 < FailureThreshold
                            THEN health.failures + 1 ELSE FailureThreshold - 1,
          healthy  |-> "no"]

(* What the answer is worth is decided for the child there is now.          *)
ProbeAnswered ==
  /\ timer \in Outcomes
  /\ IF stopped
     THEN /\ timer' = "off"
          /\ UNCHANGED <<children, stopped, attempts, loop, health, earned>>
     ELSE LET outcome == timer
          IN  /\ health' = applyProbe(outcome)
              /\ earned' = IF outcome # "healthy" \/ health.healthy # "long" THEN earned
                           ELSE IF loop = "none" THEN newest ELSE newest + 1
              /\ IF kills(outcome)
                 THEN IF alive(child)
                      THEN children' = send(child, "KILL") /\ UNCHANGED <<attempts, stopped, loop>>
                      ELSE restart(children)
                 ELSE /\ attempts' = IF clearsRestartBudget(outcome) THEN 0 ELSE attempts
                      /\ UNCHANGED <<children, stopped, loop>>
              /\ timer' = IF stopped' THEN "off" ELSE "armed"
  /\ UNCHANGED <<child, attached, stop, grace, resume, secrets, upsets>>

GraceEnds ==
  /\ grace
  /\ grace' = FALSE
  /\ UNCHANGED <<process, life, attempts, loop, timer, health, resume, secrets, ghosts>>

StabilityElapses ==
  /\ health.healthy = "since"
  /\ health' = [health EXCEPT !.healthy = "long"]
  /\ UNCHANGED <<process, life, attempts, loop, timer, grace, resume, secrets, ghosts>>

(* resume() pings the child there is when the system wakes up, and kills    *)
(* the child there is when the ping has failed.                             *)
Resume ==
  /\ child # 0 /\ stop # "done"
  /\ resume = "none"
  /\ resume' \in IF alive(child) THEN {"ok", "failed"} ELSE {"failed"}
  /\ UNCHANGED <<process, life, attempts, loop, probing, secrets, ghosts>>

ResumeAnswered ==
  /\ resume # "none"
  /\ children' = IF resume = "failed" /\ alive(child)
                 THEN send(child, "KILL") ELSE children
  /\ resume' = "none"
  /\ UNCHANGED <<child, attached, life, attempts, loop, probing, secrets, ghosts>>

-----------------------------------------------------------------------------
(* Stopping. *)

Stop ==
  /\ child # 0
  /\ stop = "none"
  /\ IF stopped
     THEN stop' = "loop" /\ UNCHANGED <<children, attached, stopped, timer>>
     ELSE /\ stopped' = TRUE
          /\ timer' = IF timer = "armed" THEN "off" ELSE timer
          /\ attached' = FALSE
          /\ IF alive(child)
             THEN /\ stop' = "child"
                  /\ children' = IF children[child].signal = "none"
                                 THEN send(child, "TERM") ELSE children
             ELSE stop' = "loop" /\ UNCHANGED children
  /\ UNCHANGED <<child, attempts, loop, health, grace, resume, secrets, ghosts>>

MutHardKill ==                       \* only for the current child
  /\ stop = "child"
  /\ alive(child)
  /\ children[child].signal = "TERM"
  /\ children' = send(child, "KILL")
  /\ UNCHANGED <<child, attached, life, attempts, loop, probing, resume, secrets, ghosts>>

(* stopProcess gives a child stopTimeoutMs.                                 *)
HardKill ==
  \E c \in 1 .. newest :
    /\ \/ c = child /\ stop = "child"
       \/ c = newest /\ loop = "stopping"
    /\ alive(c)
    /\ children[c].signal = "TERM"
    /\ children' = send(c, "KILL")
    /\ UNCHANGED <<child, attached, life, attempts, loop, probing, resume, secrets, ghosts>>

MutStopReturns ==                    \* does not wait for a restart in flight
  /\ stop \in {"child", "loop"}
  /\ ~alive(child)
  /\ stop' = "done"
  /\ UNCHANGED <<process, stopped, attempts, loop, probing, resume, secrets, ghosts>>

StopReturns ==
  /\ stop \in {"child", "loop"}
  /\ ~alive(child)
  /\ loop = "none"
  /\ stop' = "done"
  /\ UNCHANGED <<process, stopped, attempts, loop, probing, resume, secrets, ghosts>>

-----------------------------------------------------------------------------
(* Secrets. *)

(* The shell stores a secret and sends it to the child, if there is one.    *)
updateSecrets ==
  /\ child # 0 /\ stop # "done"
  /\ stored < MaxSecrets
  /\ stored' = stored + 1
  /\ mail' = IF ~stopped /\ alive(child) THEN mail \cup {[to |-> child, version |-> stored']}
             ELSE mail
  /\ UNCHANGED <<process, life, attempts, loop, probing, resume, ghosts>>

(* Messages arrive in order, or are lost with their addressee.              *)
SecretArrives ==
  \E m \in mail :
    /\ \A n \in mail : m.to = n.to => m.version <= n.version
    /\ mail' = mail \ {m}
    /\ children' = IF alive(m.to) THEN [children EXCEPT ![m.to].env = m.version] ELSE children
    /\ UNCHANGED <<child, attached, life, attempts, loop, probing, resume, stored, ghosts>>

-----------------------------------------------------------------------------

Next ==
  \/ BackoffElapses \/ Handshake \/ HandshakeFails
  \/ \E c \in 1 .. newest : ChildExits(c)
  \/ ProbeSent \/ ProbeAnswered \/ GraceEnds \/ StabilityElapses
  \/ Resume \/ ResumeAnswered
  \/ Stop \/ HardKill \/ StopReturns
  \/ updateSecrets \/ SecretArrives

(* Timers fire, a request is answered or times out, a signalled child exits *)
(* (after SIGKILL at the latest).                                           *)
Fairness ==
  /\ WF_vars(BackoffElapses) /\ WF_vars(Handshake \/ HandshakeFails)
  /\ \A c \in 1 .. MaxChildren :
       WF_vars(c <= newest /\ children[c].signal = "KILL" /\ ChildExits(c))
  /\ WF_vars(HardKill) /\ WF_vars(StopReturns)
  /\ WF_vars(ProbeSent) /\ WF_vars(ProbeAnswered) /\ WF_vars(ResumeAnswered)
  /\ WF_vars(GraceEnds)

Spec == Init /\ [][Next]_vars /\ Fairness

-----------------------------------------------------------------------------
(* Properties. *)

condemned(c) == ~alive(c) \/ children[c].signal = "KILL"

(* Two servers never share the data root: a replacement is forked when its  *)
(* predecessor is gone, or beyond recall.                                   *)
OneChild ==
  \A c, d \in 1 .. newest : ~condemned(c) /\ ~condemned(d) => c = d

(* A stop that arrives in the middle of a restart leaves no child behind,   *)
(* nor does a breaker that trips.                                           *)
NoneAfterStop ==
  stop = "done" \/ (stopped /\ stop = "none") => \A c \in 1 .. newest : condemned(c)

(* A server is told of every change of a secret, in their order.  Until the *)
(* first one a replacement has the secrets of the start of the shell.       *)
SecretsArrive ==
  alive(child) /\ ~stopped /\ (\A m \in mail : m.to # child)
  => children[child].env = stored \/ (child > 1 /\ children[child].env = 0)

(* The data root has the one server that is supervised, or none, and that   *)
(* one is told of the secrets.                                              *)
ServersAreSupervised == TypeOK /\ OneChild /\ NoneAfterStop /\ SecretsArrive

(* The breaker trips: until a child has been stable, at most MaxRestarts    *)
(* are forked after the one that was.  A stable child's last answer, come   *)
(* late, forgives the restart under way as well.                            *)
BreakerTrips ==
  newest <= earned + MaxRestarts

(* Liveness: a server that died is replaced, unless the supervision ends.   *)
DeadIsReplaced ==
  child # 0 /\ ~alive(child) ~> stopped \/ alive(child) \/ newest = MaxChildren

(* Liveness: a stop comes to an end. *)
StopEnds ==
  stop = "child" \/ stop = "loop" ~> stop = "done"

(* The supervision goes on until it has come to its end.                    *)
SupervisionGoesOn == DeadIsReplaced /\ StopEnds

=============================================================================
