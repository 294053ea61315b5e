---------------------------- MODULE SidecarProofs ----------------------------
(***************************************************************************)
(* Proofs about Sidecar, for every restart budget and failure threshold,   *)
(* however many children are forked and exit and secrets change.           *)
(***************************************************************************)
EXTENDS Sidecar, TLAPS, SequenceTheorems

(* The children that may go on to work on the data root.                    *)
Free == {c \in 1 .. newest : ~condemned(c)}

-----------------------------------------------------------------------------
(* The inductive invariant. *)

(* Who may be free at each point of the restart loop, and what a stop knows *)
(* of the loop.                                                             *)
LoopInv ==
  /\ child = 0 <=> loop \in {"boot", "failed"}
  /\ child = 0 => newest = 1 /\ ~stopped /\ ~attached /\ timer = "off" /\ resume = "none"
  /\ stop # "none" => stopped
  /\ loop \in {"failed", "sleeping"} => Free = {}
  /\ loop \in {"spawning", "stopping"} => Free \subseteq {newest} /\ child # newest
  /\ loop \in {"sleeping", "spawning", "stopping"} => ~alive(child) /\ stop \notin {"child", "done"}
  /\ loop = "stopping" => stopped
  /\ loop = "none" => Free \subseteq {child}
  /\ loop = "none" /\ stop \in {"loop", "done"} => Free = {}
  /\ stopped /\ stop = "none" => loop = "none" /\ Free = {}

(* The budget counts the forks since it was last earned back, and the one a *)
(* sleeping loop is about to make.                                          *)
BudgetInv ==
  /\ newest \in 1 .. MaxChildren
  /\ attempts = MaxRestarts + 1 => stopped
  /\ newest <= earned + MaxRestarts
  /\ newest <= earned + attempts
  /\ loop = "sleeping" => newest < earned + attempts

(* The current child has the latest secret, or it is on its way.            *)
SecretInv ==
  /\ child = 0 => stored = 0 /\ mail = {}
  /\ \A m \in mail : m.to <= child /\ m.version <= stored
  /\ \A c \in 1 .. newest : c > child => children[c].env = 0
  /\ alive(child) /\ ~stopped =>
       \/ \E m \in mail : m.to = child /\ m.version = stored
       \/ /\ \A m \in mail : m.to # child
          /\ children[child].env = stored \/ (child > 1 /\ children[child].env = 0)

SidecarInv == TypeOK /\ LoopInv /\ BudgetInv /\ SecretInv

-----------------------------------------------------------------------------
(* What the actions do to the children. *)

LEMMA ChildrenFacts ==
  ASSUME TypeOK
  PROVE  /\ Len(children) \in Nat /\ newest = Len(children)
         /\ DOMAIN children = 1 .. newest
         /\ \A c \in 1 .. newest : children[c] \in Child
         /\ child \in 0 .. newest
BY LenProperties, ElementOfSeq DEF TypeOK, newest

(* One child changes, and the others stay. *)
LEMMA UpdateFacts ==
  ASSUME TypeOK, NEW c \in 1 .. newest, NEW r \in Child, children' = [children EXCEPT ![c] = r]
  PROVE  /\ children' \in Seq(Child) /\ Len(children') = Len(children) /\ newest' = newest
         /\ children'[c] = r
         /\ \A q \in 1 .. newest : q # c => children'[q] = children[q]
         /\ Free' \subseteq Free \cup {c}
         /\ r.life = "dead" \/ r.signal = "KILL" => Free' = Free \ {c}
<1>1. /\ children' \in Seq(Child) /\ Len(children') = Len(children)
      /\ children'[c] = r
      /\ \A q \in 1 .. newest : q # c => children'[q] = children[q]
  BY ExceptSeq, ChildrenFacts DEF TypeOK
<1>2. \A q \in 1 .. newest : q # 0 /\ q' = q
  BY ChildrenFacts
<1> QED BY <1>1, <1>2, ChildrenFacts DEF Free, condemned, alive, newest

LEMMA SendFacts ==
  ASSUME TypeOK, NEW c \in 1 .. newest, NEW signal \in {"TERM", "KILL"},
         children' = send(c, signal)
  PROVE  /\ children' \in Seq(Child) /\ Len(children') = Len(children) /\ newest' = newest
         /\ children'[c] = [children[c] EXCEPT !.signal = signal]
         /\ \A q \in 1 .. newest : q # c => children'[q] = children[q]
         /\ \A q \in 1 .. newest : /\ children'[q].life = children[q].life
                                   /\ children'[q].env = children[q].env
         /\ Free' \subseteq Free \cup {c}
         /\ signal = "KILL" => Free' = Free \ {c}
<1> DEFINE r == [children[c] EXCEPT !.signal = signal]
<1>1. r \in Child /\ r.signal = signal /\ r.life = children[c].life /\ r.env = children[c].env
  BY ChildrenFacts DEF Child
<1>2. children' = [children EXCEPT ![c] = r]
  BY DEF send
<1> HIDE DEF r
<1>3. /\ children' \in Seq(Child) /\ Len(children') = Len(children) /\ newest' = newest
      /\ children'[c] = r
      /\ \A q \in 1 .. newest : q # c => children'[q] = children[q]
      /\ Free' \subseteq Free \cup {c}
      /\ r.life = "dead" \/ r.signal = "KILL" => Free' = Free \ {c}
  BY <1>1, <1>2, UpdateFacts
<1>4. children'[c] = [children[c] EXCEPT !.signal = signal]
  BY <1>3 DEF r
<1> QED BY <1>1, <1>3, <1>4

LEMMA BuriedFacts ==
  ASSUME TypeOK, NEW c \in 1 .. newest, children' = buried(c)
  PROVE  /\ children' \in Seq(Child) /\ Len(children') = Len(children) /\ newest' = newest
         /\ children'[c].life = "dead"
         /\ \A q \in 1 .. newest : q # c => children'[q] = children[q]
         /\ \A q \in 1 .. newest : children'[q].env = children[q].env
         /\ Free' = Free \ {c}
<1> DEFINE r == [children[c] EXCEPT !.life = "dead"]
<1>1. r \in Child /\ r.life = "dead" /\ r.env = children[c].env
  BY ChildrenFacts DEF Child
<1>2. children' = [children EXCEPT ![c] = r]
  BY DEF buried
<1> HIDE DEF r
<1>3. /\ children' \in Seq(Child) /\ Len(children') = Len(children) /\ newest' = newest
      /\ children'[c] = r
      /\ \A q \in 1 .. newest : q # c => children'[q] = children[q]
      /\ r.life = "dead" \/ r.signal = "KILL" => Free' = Free \ {c}
  BY <1>1, <1>2, UpdateFacts
<1> QED BY <1>1, <1>3

(* The secrets do not mind signals and exits. *)
LEMMA SecretsKeep ==
  ASSUME SidecarInv, newest' = newest, UNCHANGED <<child, stored, mail>>, stopped => stopped',
         \A q \in 1 .. newest : /\ children'[q].env = children[q].env
                                /\ children'[q].life = "dead" \/ children'[q].life = children[q].life
  PROVE  SecretInv'
<1>1. alive(child)' => alive(child)
  BY ChildrenFacts DEF SidecarInv, alive
<1>2. child # 0 => children'[child].env = children[child].env
  BY ChildrenFacts DEF SidecarInv
<1> QED BY <1>1, <1>2 DEF SidecarInv, SecretInv, alive

LEMMA SameChildren ==
  ASSUME UNCHANGED process
  PROVE  Free' = Free /\ newest' = newest /\ alive(child)' = alive(child)
BY DEF process, Free, newest, condemned, alive

-----------------------------------------------------------------------------
(* The invariant is inductive. *)

LEMMA InitInv == Init => SidecarInv
<1> SUFFICES ASSUME Init PROVE SidecarInv
  OBVIOUS
<1>1. fork \in Child /\ fork.env = 0
  BY BoundsAssumption DEF fork, Child
<1>2. children \in Seq(Child) /\ Len(children) = 1 /\ children[1] = fork
  <2>1. children = <<fork>>
    BY DEF Init
  <2> HIDE DEF fork
  <2> QED BY <1>1, <2>1
<1>3. TypeOK
  <2>1. health \in [failures : 0 .. FailureThreshold - 1, healthy : {"no", "since", "long"}]
    BY FailureThresholdAssumption DEF Init, initialHealthState
  <2>2. /\ child \in 0 .. Len(children) /\ attempts \in 0 .. MaxRestarts + 1
        /\ stored \in 0 .. MaxSecrets /\ upsets \in Nat /\ earned \in 1 .. MaxChildren + 1
    BY <1>2, MaxRestartsAssumption, BoundsAssumption DEF Init
  <2>3. mail \subseteq [to : 1 .. Len(children), version : 0 .. MaxSecrets]
    BY DEF Init
  <2> QED BY <1>2, <2>1, <2>2, <2>3 DEF Init, TypeOK
<1>4. newest = 1
  BY <1>2 DEF newest
<1>5. LoopInv
  BY <1>4 DEF Init, LoopInv
<1>6. BudgetInv
  BY <1>4, MaxRestartsAssumption, BoundsAssumption DEF Init, BudgetInv
<1>7. SecretInv
  BY <1>1, <1>2, <1>4 DEF Init, SecretInv, alive
<1> QED BY <1>3, <1>5, <1>6, <1>7 DEF SidecarInv

LEMMA StutterStep == ASSUME SidecarInv, UNCHANGED vars PROVE SidecarInv'
BY DEF SidecarInv, vars, process, life, probing, secrets, ghosts, TypeOK, LoopInv, BudgetInv,
       SecretInv, Free, newest, condemned, alive

(* Another attempt, or the breaker trips: no child is free then.            *)
LEMMA AttemptFacts ==
  ASSUME SidecarInv, NEW kids, attempt(kids), ~stopped, child # 0, newest' = newest,
         Free' = {}, ~alive(child)', UNCHANGED <<child, attached, stop>>,
         earned' = earned
  PROVE  /\ attempts' \in 0 .. MaxRestarts + 1 /\ stopped' \in BOOLEAN
         /\ loop' \in {"none", "sleeping"} /\ LoopInv' /\ BudgetInv'
<1>1. attempts' = attempts + 1 /\ attempts \in 0 .. MaxRestarts
  BY MaxRestartsAssumption DEF attempt, SidecarInv, TypeOK, BudgetInv
<1>2. stop = "none"
  BY DEF SidecarInv, LoopInv
<1>3. CASE attempts + 1 > MaxRestarts
  <2>1. stopped' = TRUE /\ loop' = "none"
    BY <1>3 DEF attempt
  <2>2. LoopInv'
    BY <1>2, <2>1 DEF LoopInv
  <2>3. BudgetInv'
    BY <1>1, <2>1, MaxRestartsAssumption, BoundsAssumption DEF SidecarInv, TypeOK, BudgetInv
  <2> QED BY <1>1, <2>1, <2>2, <2>3, MaxRestartsAssumption
<1>4. CASE ~(attempts + 1 > MaxRestarts)
  <2>1. loop' = "sleeping" /\ stopped' = stopped
    BY <1>4 DEF attempt
  <2>2. LoopInv'
    BY <1>2, <2>1 DEF LoopInv
  <2>3. BudgetInv'
    BY <1>1, <1>4, <2>1, MaxRestartsAssumption, BoundsAssumption
    DEF SidecarInv, TypeOK, BudgetInv
  <2> QED BY <1>1, <2>1, <2>2, <2>3, MaxRestartsAssumption DEF SidecarInv, TypeOK
<1> QED BY <1>3, <1>4

LEMMA BackoffElapsesStep == ASSUME SidecarInv, BackoffElapses PROVE SidecarInv'
<1> USE DEF SidecarInv, BackoffElapses, life, probing, secrets, ghosts
<1>1. newest \in Nat /\ child \in 0 .. newest /\ child # 0
  BY ChildrenFacts DEF LoopInv
<1>2. CASE stopped
  <2>1. UNCHANGED process /\ loop' = "none"
    BY <1>2 DEF process
  <2>2. TypeOK'
    BY <2>1 DEF TypeOK, process
  <2>3. LoopInv'
    BY <1>2, <2>1, SameChildren DEF LoopInv, process
  <2>4. BudgetInv' /\ SecretInv'
    BY <2>1, SameChildren DEF BudgetInv, SecretInv, process
  <2> QED BY <2>2, <2>3, <2>4
<1>3. CASE ~stopped
  <2>1. fork \in Child /\ fork.env = 0
    BY BoundsAssumption DEF fork, Child
  <2>2. /\ newest < MaxChildren /\ children' = Append(children, fork)
        /\ attached' = FALSE /\ loop' = "spawning"
    BY <1>3
  <2>3. /\ children' \in Seq(Child) /\ Len(children') = newest + 1 /\ newest' = newest + 1
        /\ \A c \in 1 .. newest : children'[c] = children[c]
        /\ children'[newest + 1] = fork
    <3> HIDE DEF fork
    <3> QED BY <2>1, <2>2, AppendProperties, ChildrenFacts DEF TypeOK, newest
  <2>4. Free' \subseteq {newest'} /\ ~alive(child)'
    BY <1>1, <2>3 DEF Free, condemned, alive, LoopInv
  <2>5. TypeOK'
    <3>1. [to : 1 .. Len(children), version : 0 .. MaxSecrets]
            \subseteq [to : 1 .. Len(children'), version : 0 .. MaxSecrets]
      BY <1>1, <2>3 DEF newest
    <3>2. child' \in 0 .. Len(children')
      BY <1>1, <2>3 DEF newest
    <3> QED BY <2>2, <2>3, <3>1, <3>2 DEF TypeOK
  <2>6. LoopInv'
    BY <1>1, <1>3, <2>2, <2>3, <2>4 DEF LoopInv
  <2>7. BudgetInv'
    <3>1. attempts \in 0 .. MaxRestarts
      BY <1>3, MaxRestartsAssumption DEF BudgetInv, TypeOK
    <3> QED BY <1>1, <1>3, <2>2, <2>3, <3>1, BoundsAssumption, MaxRestartsAssumption
            DEF BudgetInv, TypeOK
  <2>8. SecretInv'
    BY <1>1, <2>1, <2>3, <2>4 DEF SecretInv, LoopInv
  <2> QED BY <2>5, <2>6, <2>7, <2>8
<1> QED BY <1>2, <1>3

(* The child that shakes hands is the current one, or told to stop.         *)
LEMMA HandshakeStep == ASSUME SidecarInv, Handshake PROVE SidecarInv'
<1> USE DEF SidecarInv, Handshake, life, secrets, ghosts
<1>1. newest \in 1 .. newest /\ child \in 0 .. newest /\ newest \in Nat
  BY ChildrenFacts DEF BudgetInv
<1> DEFINE r == IF stopped THEN [children[newest] EXCEPT !.life = "up", !.signal = "TERM"]
                ELSE [children[newest] EXCEPT !.life = "up"]
<1>2. r \in Child /\ r.env = children[newest].env /\ r.life = "up"
  BY <1>1, ChildrenFacts DEF Child
<1>3. children' = [children EXCEPT ![newest] = r]
  BY <1>1, ChildrenFacts
<1> HIDE DEF r
<1>4. /\ children' \in Seq(Child) /\ Len(children') = Len(children) /\ newest' = newest
      /\ children'[newest] = r
      /\ \A q \in 1 .. newest : q # newest => children'[q] = children[q]
      /\ Free' \subseteq Free \cup {newest}
  BY <1>1, <1>2, <1>3, UpdateFacts
<1>5. CASE stopped
  <2>1. loop' = "stopping" /\ UNCHANGED <<child, attached, health, grace, timer>>
    BY <1>5
  <2>2. loop = "spawning"
    BY <1>5 DEF LoopInv
  <2>3. ~alive(child)' /\ child # newest /\ child # 0
    BY <1>1, <1>4, <2>1, <2>2 DEF LoopInv, alive
  <2>4. TypeOK'
    BY <1>4, <2>1 DEF TypeOK
  <2>5. LoopInv'
    BY <1>4, <1>5, <2>1, <2>2, <2>3 DEF LoopInv
  <2>6. BudgetInv' /\ SecretInv'
    BY <1>2, <1>4, <2>1, <2>3 DEF BudgetInv, SecretInv
  <2> QED BY <2>4, <2>5, <2>6
<1>6. CASE ~stopped
  <2>1. /\ child' = newest /\ attached' = TRUE /\ health' = initialHealthState /\ grace' = TRUE
        /\ loop' = "none" /\ timer' = IF loop = "boot" THEN "armed" ELSE timer
    BY <1>6 DEF install
  <2>2. initialHealthState
          \in [failures : 0 .. FailureThreshold - 1, healthy : {"no", "since", "long"}]
    BY FailureThresholdAssumption DEF initialHealthState
  <2>3. TypeOK'
    <3>1. timer' \in Outcomes \cup {"off", "armed"}
      BY <2>1 DEF TypeOK
    <3>2. child' \in 0 .. Len(children') /\ Len(children') = Len(children)
      BY <1>1, <1>4, <2>1 DEF newest
    <3> QED BY <1>4, <2>1, <2>2, <3>1, <3>2 DEF TypeOK
  <2>4. Free' \subseteq {newest} /\ stop = "none" /\ newest # 0
    BY <1>1, <1>4, <1>6 DEF LoopInv, Free
  <2>5. LoopInv'
    BY <1>4, <1>6, <2>1, <2>4 DEF LoopInv
  <2>6. BudgetInv'
    BY <1>4, <2>1 DEF BudgetInv
  <2>7. children'[newest].env = 0 /\ (\A m \in mail : m.to # newest) /\ (newest > 1 \/ stored = 0)
    BY <1>1, <1>2, <1>4 DEF SecretInv, LoopInv, TypeOK
  <2>8. \A m \in mail : m.to \in Nat /\ m.to <= newest /\ m.version <= stored
    BY <1>1 DEF SecretInv, TypeOK
  <2>9. SecretInv'
    BY <1>1, <1>4, <2>1, <2>7, <2>8 DEF SecretInv
  <2> QED BY <2>3, <2>5, <2>6, <2>9
<1> QED BY <1>5, <1>6

(* spawnOnce rejects: the newest child is condemned by then.                *)
LEMMA RejectFacts ==
  ASSUME SidecarInv, NEW kids, reject(kids), loop \in {"boot", "spawning"}, newest' = newest,
         Free' = Free \ {newest},
         \A q \in 1 .. newest : q # newest => children'[q] = children[q],
         UNCHANGED <<child, attached, stop, timer, resume>>, earned' = earned
  PROVE  /\ attempts' \in 0 .. MaxRestarts + 1 /\ stopped' \in BOOLEAN /\ (stopped => stopped')
         /\ loop' \in {"failed", "none", "sleeping"} /\ LoopInv' /\ BudgetInv'
<1> USE DEF SidecarInv
<1>1. newest \in 1 .. newest /\ child \in 0 .. newest /\ newest \in Nat
  BY ChildrenFacts DEF BudgetInv
<1>2. CASE loop = "boot"
  <2>1. loop' = "failed" /\ UNCHANGED <<stopped, attempts>>
    BY <1>2 DEF reject
  <2>2. Free' = {} /\ child = 0
    BY <1>1, <1>2 DEF LoopInv, Free
  <2>3. LoopInv' /\ BudgetInv'
    BY <1>2, <2>1, <2>2 DEF LoopInv, BudgetInv
  <2> QED BY <2>1, <2>3 DEF TypeOK
<1>3. CASE loop = "spawning"
  <2>1. Free' = {} /\ child # 0 /\ ~alive(child)'
    BY <1>1, <1>3 DEF LoopInv, alive
  <2>2. CASE stopped
    <3>1. loop' = "none" /\ UNCHANGED <<stopped, attempts>>
      BY <1>3, <2>2 DEF reject
    <3>2. LoopInv' /\ BudgetInv'
      BY <1>3, <2>1, <2>2, <3>1 DEF LoopInv, BudgetInv
    <3> QED BY <3>1, <3>2 DEF TypeOK
  <2>3. CASE ~stopped
    <3>1. attempt(kids)
      BY <1>3, <2>3 DEF reject
    <3>2. /\ attempts' \in 0 .. MaxRestarts + 1 /\ stopped' \in BOOLEAN
          /\ loop' \in {"none", "sleeping"} /\ LoopInv' /\ BudgetInv'
      BY <2>1, <2>3, <3>1, AttemptFacts
    <3> QED BY <2>3, <3>2
  <2> QED BY <2>2, <2>3
<1> QED BY <1>2, <1>3

LEMMA HandshakeFailsStep == ASSUME SidecarInv, HandshakeFails PROVE SidecarInv'
<1> USE DEF SidecarInv, HandshakeFails, probing, secrets, ghosts
<1>1. newest \in 1 .. newest /\ children' = send(newest, "KILL")
  BY ChildrenFacts DEF BudgetInv, reject, attempt
<1>2. /\ children' \in Seq(Child) /\ Len(children') = Len(children) /\ newest' = newest
      /\ \A q \in 1 .. newest : q # newest => children'[q] = children[q]
      /\ \A q \in 1 .. newest : /\ children'[q].life = children[q].life
                                /\ children'[q].env = children[q].env
      /\ Free' = Free \ {newest}
  BY <1>1, SendFacts
<1>3. /\ attempts' \in 0 .. MaxRestarts + 1 /\ stopped' \in BOOLEAN /\ (stopped => stopped')
      /\ loop' \in {"failed", "none", "sleeping"} /\ LoopInv' /\ BudgetInv'
  BY <1>2, RejectFacts
<1>4. TypeOK'
  BY <1>2, <1>3 DEF TypeOK
<1>5. SecretInv'
  BY <1>2, <1>3, SecretsKeep
<1> QED BY <1>3, <1>4, <1>5

LEMMA ChildExitsStep ==
  ASSUME SidecarInv, NEW c \in 1 .. newest, ChildExits(c)
  PROVE  SidecarInv'
<1> USE DEF SidecarInv, probing, secrets
<1>1. newest \in 1 .. newest /\ child \in 0 .. newest /\ alive(c)
  BY ChildrenFacts DEF BudgetInv, ChildExits
<1>2. children' = buried(c)
  BY DEF ChildExits, restart, reject, attempt
<1>3. upsets' \in Nat
  BY DEF ChildExits, TypeOK
<1>4. UNCHANGED <<child, attached, stop, timer, health, grace, resume, stored, mail, earned>>
  BY DEF ChildExits
<1>5. /\ children' \in Seq(Child) /\ Len(children') = Len(children) /\ newest' = newest
      /\ children'[c].life = "dead"
      /\ \A q \in 1 .. newest : q # c => children'[q] = children[q]
      /\ \A q \in 1 .. newest : children'[q].env = children[q].env
      /\ Free' = Free \ {c}
  BY <1>2, BuriedFacts
<1>6. child # 0 /\ ~alive(child) => ~alive(child)'
  BY <1>1, <1>4, <1>5 DEF alive
<1>7. /\ attempts' \in 0 .. MaxRestarts + 1 /\ stopped' \in BOOLEAN /\ (stopped => stopped')
      /\ loop' \in {"boot", "failed", "none", "sleeping", "spawning", "stopping"}
      /\ LoopInv' /\ BudgetInv'
  <2>1. CASE UNCHANGED <<stopped, attempts, loop>>
    <3>1. LoopInv' /\ BudgetInv'
      BY <1>4, <1>5, <1>6, <2>1 DEF LoopInv, BudgetInv
    <3> QED BY <2>1, <3>1 DEF TypeOK
  <2>2. CASE c = child /\ loop = "none" /\ ~stopped /\ attempt(buried(c))
    <3>1. Free' = {} /\ ~alive(child)' /\ child # 0
      BY <1>1, <1>4, <1>5, <2>2 DEF LoopInv, alive
    <3> QED BY <1>4, <1>5, <2>2, <3>1, AttemptFacts
  <2>3. CASE c = newest /\ loop \in {"boot", "spawning"} /\ reject(buried(c))
    BY <1>4, <1>5, <2>3, RejectFacts
  <2>4. CASE c = newest /\ loop = "stopping" /\ loop' = "none" /\ UNCHANGED <<stopped, attempts>>
    <3>1. Free' = {} /\ child # 0
      BY <1>5, <2>4 DEF LoopInv
    <3>2. LoopInv' /\ BudgetInv'
      BY <1>4, <1>5, <2>4, <3>1 DEF LoopInv, BudgetInv
    <3> QED BY <2>4, <3>2 DEF TypeOK
  <2> QED BY <2>1, <2>2, <2>3, <2>4 DEF ChildExits, restart
<1>8. TypeOK'
  BY <1>3, <1>4, <1>5, <1>7 DEF TypeOK
<1>9. SecretInv'
  BY <1>4, <1>5, <1>7, SecretsKeep
<1> QED BY <1>7, <1>8, <1>9

(* What only watches: probes on their way, the clock, and a ping.           *)
LEMMA WatchStep ==
  ASSUME SidecarInv, ProbeSent \/ GraceEnds \/ StabilityElapses \/ Resume
  PROVE  SidecarInv'
<1> USE DEF SidecarInv, process, life, probing, secrets, ghosts
<1>1. /\ UNCHANGED <<process, life, attempts, loop, secrets, ghosts>>
      /\ timer' = timer \/ (timer = "armed" /\ timer' \in Outcomes \cup {"off"})
      /\ resume' = resume \/ (child # 0 /\ resume' \in {"ok", "failed"})
      /\ grace' \in BOOLEAN
  <2>1. ProbeSent => UNCHANGED <<grace, resume>> /\ timer = "armed"
                     /\ timer' \in Outcomes \cup {"off"}
    BY DEF ProbeSent, answers, Outcomes
  <2>2. GraceEnds \/ StabilityElapses => UNCHANGED <<timer, resume>> /\ grace' \in {grace, FALSE}
    BY DEF GraceEnds, StabilityElapses
  <2>3. Resume => UNCHANGED <<timer, grace>> /\ child # 0 /\ resume' \in {"ok", "failed"}
    BY DEF Resume
  <2>4. UNCHANGED <<process, life, attempts, loop, secrets, ghosts>>
    BY DEF ProbeSent, GraceEnds, StabilityElapses, Resume
  <2>5. grace' \in {grace, FALSE}
    BY <2>1, <2>2, <2>3
  <2>6. grace' \in BOOLEAN
    BY <2>5 DEF TypeOK
  <2>7. timer' = timer \/ (timer = "armed" /\ timer' \in Outcomes \cup {"off"})
    BY <2>1, <2>2, <2>3, Zenon
  <2>8. resume' = resume \/ (child # 0 /\ resume' \in {"ok", "failed"})
    BY <2>1, <2>2, <2>3, Zenon
  <2> QED BY <2>4, <2>6, <2>7, <2>8
<1>2. health' \in [failures : 0 .. FailureThreshold - 1, healthy : {"no", "since", "long"}]
  BY DEF ProbeSent, GraceEnds, StabilityElapses, Resume, TypeOK
<1>3. TypeOK'
  BY <1>1, <1>2 DEF TypeOK
<1>4. LoopInv'
  BY <1>1, SameChildren DEF LoopInv
<1>5. BudgetInv' /\ SecretInv'
  BY <1>1, SameChildren DEF BudgetInv, SecretInv
<1> QED BY <1>3, <1>4, <1>5

LEMMA HealthFacts ==
  ASSUME TypeOK, NEW outcome \in Outcomes
  PROVE  applyProbe(outcome) \in [failures : 0 .. FailureThreshold - 1,
                                  healthy : {"no", "since", "long"}]
BY FailureThresholdAssumption DEF applyProbe, initialHealthState, TypeOK

LEMMA ProbeAnsweredStep == ASSUME SidecarInv, ProbeAnswered PROVE SidecarInv'
<1> USE DEF SidecarInv, ghosts
<1>1. /\ newest \in 1 .. newest /\ newest \in Nat /\ child \in 0 .. newest
      /\ child # 0 /\ timer \in Outcomes
      /\ UNCHANGED <<child, attached, stop, grace, resume, stored, mail, upsets>>
  BY ChildrenFacts DEF BudgetInv, ProbeAnswered, LoopInv, Outcomes, secrets
<1>2. CASE stopped
  <2>1. timer' = "off" /\ UNCHANGED <<process, stopped, attempts, loop, health, earned>>
    BY <1>1, <1>2 DEF ProbeAnswered, process
  <2>2. TypeOK'
    BY <1>1, <2>1 DEF TypeOK, process
  <2>3. LoopInv'
    BY <1>1, <2>1, SameChildren DEF LoopInv, process
  <2>4. BudgetInv' /\ SecretInv'
    BY <1>1, <2>1, SameChildren DEF BudgetInv, SecretInv, process
  <2> QED BY <2>2, <2>3, <2>4
<1>3. CASE ~stopped
  <2>1. /\ health' = applyProbe(timer)
        /\ earned' = IF timer # "healthy" \/ health.healthy # "long" THEN earned
                     ELSE IF loop = "none" THEN newest ELSE newest + 1
        /\ IF kills(timer)
           THEN IF alive(child)
                THEN children' = send(child, "KILL") /\ UNCHANGED <<attempts, stopped, loop>>
                ELSE restart(children)
           ELSE /\ attempts' = IF clearsRestartBudget(timer) THEN 0 ELSE attempts
                /\ UNCHANGED <<children, stopped, loop>>
        /\ timer' = IF stopped' THEN "off" ELSE "armed"
    BY <1>3 DEF ProbeAnswered
  <2>2. /\ health' \in [failures : 0 .. FailureThreshold - 1, healthy : {"no", "since", "long"}]
        /\ timer' \in {"off", "armed"}
    BY <1>1, <2>1, HealthFacts
  <2>3. kills(timer) => earned' = earned
    BY <2>1 DEF kills
  <2>4. CASE kills(timer) /\ alive(child)
    <3>1. /\ children' = send(child, "KILL") /\ UNCHANGED <<attempts, stopped, loop, earned>>
      BY <2>1, <2>3, <2>4
    <3>2. child \in 1 .. newest
      BY <1>1
    <3>3. /\ children' \in Seq(Child) /\ Len(children') = Len(children) /\ newest' = newest
          /\ \A q \in 1 .. newest : /\ children'[q].life = children[q].life
                                    /\ children'[q].env = children[q].env
          /\ Free' = Free \ {child}
      BY <3>1, <3>2, SendFacts
    <3>4. alive(child)' = alive(child)
      BY <1>1, <3>2, <3>3 DEF alive
    <3>5. TypeOK'
      BY <1>1, <2>2, <3>1, <3>3 DEF TypeOK
    <3>6. LoopInv' /\ BudgetInv'
      BY <1>1, <3>1, <3>3, <3>4 DEF LoopInv, BudgetInv
    <3>7. SecretInv'
      BY <1>1, <3>1, <3>3, SecretsKeep
    <3> QED BY <3>5, <3>6, <3>7
  <2>5. CASE kills(timer) /\ ~alive(child)
    <3>1. restart(children) /\ earned' = earned
      BY <2>1, <2>3, <2>5
    <3>2. UNCHANGED children
      BY <3>1 DEF restart, attempt
    <3>3. UNCHANGED process
      BY <1>1, <3>2 DEF process
    <3>4. /\ attempts' \in 0 .. MaxRestarts + 1 /\ stopped' \in BOOLEAN
          /\ loop' \in {"boot", "failed", "none", "sleeping", "spawning", "stopping"}
          /\ LoopInv' /\ BudgetInv'
      <4>1. CASE loop # "none"
        <5>1. UNCHANGED <<attempts, stopped, loop>>
          BY <3>1, <4>1 DEF restart
        <5> QED BY <1>1, <2>2, <3>1, <3>3, <5>1, SameChildren DEF LoopInv, BudgetInv, TypeOK
      <4>2. CASE loop = "none"
        <5>1. attempt(children)
          BY <1>3, <3>1, <4>2 DEF restart
        <5>2. Free = {}
          BY <2>5, <4>2 DEF LoopInv, Free, condemned
        <5> QED BY <1>1, <1>3, <2>5, <3>1, <3>3, <5>1, <5>2, SameChildren, AttemptFacts
      <4> QED BY <4>1, <4>2
    <3>5. TypeOK'
      BY <1>1, <2>2, <3>1, <3>2, <3>4 DEF TypeOK
    <3>6. SecretInv'
      BY <1>1, <1>3, <3>2, <3>3, SameChildren DEF SecretInv, process
    <3> QED BY <3>4, <3>5, <3>6
  <2>6. CASE ~kills(timer)
    <3>1. UNCHANGED <<process, stopped, loop>>
      BY <1>1, <2>1, <2>6 DEF process
    <3>2. \/ attempts' = attempts /\ earned' = earned
          \/ attempts' = 0 /\ earned' = IF loop = "none" THEN newest ELSE newest + 1
      BY <2>1, <2>6 DEF clearsRestartBudget
    <3>3. BudgetInv'
      BY <1>1, <1>3, <3>1, <3>2, SameChildren, MaxRestartsAssumption DEF BudgetInv, TypeOK
    <3>4. attempts' \in 0 .. MaxRestarts + 1 /\ earned' \in 1 .. MaxChildren + 1
      BY <1>1, <3>2, MaxRestartsAssumption, BoundsAssumption DEF BudgetInv, TypeOK
    <3>5. TypeOK'
      BY <1>1, <2>2, <3>1, <3>4 DEF TypeOK, process
    <3>6. LoopInv' /\ SecretInv'
      BY <1>1, <3>1, SameChildren DEF LoopInv, SecretInv, process
    <3> QED BY <3>3, <3>5, <3>6
  <2> QED BY <2>4, <2>5, <2>6
<1> QED BY <1>2, <1>3

(* Signals only condemn. *)
LEMMA ResumeAnsweredStep == ASSUME SidecarInv, ResumeAnswered PROVE SidecarInv'
<1> USE DEF SidecarInv, life, probing, secrets, ghosts
<1>1. /\ child \in 1 .. newest /\ resume' = "none"
      /\ UNCHANGED <<child, attached, stopped, stop, attempts, loop, timer, health, grace, stored,
                     mail, upsets, earned>>
  BY ChildrenFacts DEF ResumeAnswered, LoopInv
<1>2. CASE UNCHANGED children
  <2>1. TypeOK'
    BY <1>1, <1>2 DEF TypeOK
  <2> QED BY <1>1, <1>2, <2>1, SameChildren DEF process, LoopInv, BudgetInv, SecretInv
<1>3. CASE children' = send(child, "KILL")
  <2>1. /\ children' \in Seq(Child) /\ Len(children') = Len(children) /\ newest' = newest
        /\ \A q \in 1 .. newest : /\ children'[q].life = children[q].life
                                  /\ children'[q].env = children[q].env
        /\ Free' = Free \ {child}
    BY <1>1, <1>3, SendFacts
  <2>2. alive(child)' = alive(child)
    BY <1>1, <2>1 DEF alive
  <2>3. TypeOK'
    BY <1>1, <2>1 DEF TypeOK
  <2>4. LoopInv' /\ BudgetInv'
    BY <1>1, <2>1, <2>2 DEF LoopInv, BudgetInv
  <2> QED BY <1>1, <2>1, <2>3, <2>4, SecretsKeep
<1> QED BY <1>2, <1>3 DEF ResumeAnswered

LEMMA StopStep == ASSUME SidecarInv, Stop PROVE SidecarInv'
<1> USE DEF SidecarInv, secrets, ghosts
<1>1. /\ child \in 1 .. newest /\ stop = "none"
      /\ UNCHANGED <<child, attempts, loop, health, grace, resume, stored, mail, upsets, earned>>
  BY ChildrenFacts DEF Stop
<1>2. CASE stopped
  <2>1. stop' = "loop" /\ UNCHANGED <<process, stopped, timer>>
    BY <1>1, <1>2 DEF Stop, process
  <2>2. TypeOK'
    BY <1>1, <2>1 DEF TypeOK, process
  <2> QED BY <1>1, <1>2, <2>1, <2>2, SameChildren DEF process, LoopInv, BudgetInv, SecretInv
<1>3. CASE ~stopped
  <2>1. /\ stopped' = TRUE /\ timer' \in {timer, "off"} /\ attached' = FALSE
        /\ \/ ~alive(child) /\ stop' = "loop" /\ UNCHANGED children
           \/ /\ alive(child) /\ stop' = "child"
              /\ \/ UNCHANGED children
                 \/ children' = send(child, "TERM")
    BY <1>1, <1>3 DEF Stop
  <2>2. /\ children' \in Seq(Child) /\ Len(children') = Len(children) /\ newest' = newest
        /\ \A q \in 1 .. newest : /\ children'[q].life = children[q].life
                                  /\ children'[q].env = children[q].env
        /\ Free' \subseteq Free \cup {child}
        /\ ~alive(child) => Free' = Free
    <3>1. CASE UNCHANGED children
      BY <1>1, <3>1, SameChildren DEF TypeOK, Free, condemned, alive, newest
    <3>2. CASE alive(child) /\ children' = send(child, "TERM")
      BY <1>1, <3>2, SendFacts
    <3> QED BY <2>1, <3>1, <3>2
  <2>3. alive(child)' = alive(child)
    BY <1>1, <2>2 DEF alive
  <2>4. loop = "none" /\ ~alive(child) => Free = {}
    BY DEF LoopInv, Free, condemned
  <2>5. TypeOK'
    BY <1>1, <2>1, <2>2 DEF TypeOK
  <2>6. LoopInv'
    BY <1>1, <1>3, <2>1, <2>2, <2>3, <2>4 DEF LoopInv
  <2>7. BudgetInv'
    BY <1>1, <2>1, <2>2 DEF BudgetInv
  <2> QED BY <1>1, <2>1, <2>2, <2>5, <2>6, <2>7, SecretsKeep
<1> QED BY <1>2, <1>3

LEMMA HardKillStep == ASSUME SidecarInv, HardKill PROVE SidecarInv'
<1> USE DEF SidecarInv, life, probing, secrets, ghosts
<1>1. PICK c \in 1 .. newest : children' = send(c, "KILL")
  BY DEF HardKill
<1>2. UNCHANGED <<child, attached, life, attempts, loop, probing, resume, secrets, ghosts>>
  BY DEF HardKill
<1>3. /\ children' \in Seq(Child) /\ Len(children') = Len(children) /\ newest' = newest
      /\ \A q \in 1 .. newest : /\ children'[q].life = children[q].life
                                /\ children'[q].env = children[q].env
      /\ Free' = Free \ {c}
  BY <1>1, SendFacts
<1>4. alive(child)' = alive(child)
  BY <1>2, <1>3, ChildrenFacts DEF alive
<1>5. TypeOK'
  BY <1>2, <1>3 DEF TypeOK
<1>6. LoopInv' /\ BudgetInv'
  BY <1>2, <1>3, <1>4 DEF LoopInv, BudgetInv
<1> QED BY <1>2, <1>3, <1>5, <1>6, SecretsKeep

LEMMA StopReturnsStep == ASSUME SidecarInv, StopReturns PROVE SidecarInv'
<1> USE DEF SidecarInv, StopReturns, probing, secrets, ghosts
<1>1. TypeOK'
  BY DEF TypeOK, process
<1>2. Free = {}
  BY DEF LoopInv, Free, condemned
<1> QED BY <1>1, <1>2, SameChildren DEF process, LoopInv, BudgetInv, SecretInv

LEMMA UpdateSecretsStep == ASSUME SidecarInv, updateSecrets PROVE SidecarInv'
<1> USE DEF SidecarInv, updateSecrets, process, life, probing, ghosts
<1>1. /\ child \in 1 .. newest /\ stored' = stored + 1 /\ stored \in Nat
      /\ stored' \in 0 .. MaxSecrets /\ newest = Len(children)
  BY ChildrenFacts, BoundsAssumption DEF TypeOK
<1> DEFINE m == [to |-> child, version |-> stored']
<1>2. m \in [to : 1 .. Len(children), version : 0 .. MaxSecrets]
      /\ m.to = child /\ m.version = stored'
  BY <1>1
<1>3. mail' = IF ~stopped /\ alive(child) THEN mail \cup {m} ELSE mail
  OBVIOUS
<1> HIDE DEF m
<1>4. mail' \subseteq [to : 1 .. Len(children), version : 0 .. MaxSecrets]
  BY <1>2, <1>3 DEF TypeOK
<1>5. TypeOK'
  BY <1>1, <1>4 DEF TypeOK
<1>6. LoopInv' /\ BudgetInv'
  BY SameChildren DEF LoopInv, BudgetInv
<1>7. SecretInv'
  <2>1. \A n \in mail' : n.to <= child /\ n.version <= stored'
    <3>1. \A n \in mail : n.version \in Nat
      BY DEF TypeOK
    <3> QED BY <1>1, <1>2, <1>3, <3>1 DEF SecretInv
  <2>2. alive(child) /\ ~stopped => m \in mail'
    BY <1>3
  <2> QED BY <1>1, <1>2, <2>1, <2>2, SameChildren DEF SecretInv
<1> QED BY <1>5, <1>6, <1>7

LEMMA SecretArrivesStep == ASSUME SidecarInv, SecretArrives PROVE SidecarInv'
<1> USE DEF SidecarInv, life, probing, ghosts
<1>1. PICK m \in mail :
        /\ \A n \in mail : m.to = n.to => m.version <= n.version
        /\ mail' = mail \ {m}
        /\ children' = IF alive(m.to) THEN [children EXCEPT ![m.to].env = m.version] ELSE children
  BY DEF SecretArrives
<1>2. UNCHANGED <<child, attached, life, attempts, loop, probing, resume, stored, ghosts>>
  BY DEF SecretArrives
<1>3. /\ m.to \in 1 .. newest /\ m.version \in 0 .. MaxSecrets /\ m.to <= child /\ newest \in Nat
      /\ \A n \in mail : /\ n.version \in Nat /\ n.version <= stored /\ n.to <= child
                         /\ n = [to |-> n.to, version |-> n.version]
  BY ChildrenFacts DEF TypeOK, SecretInv
<1> DEFINE r == IF alive(m.to) THEN [children[m.to] EXCEPT !.env = m.version] ELSE children[m.to]
<1>4. /\ r \in Child /\ r.life = children[m.to].life /\ r.signal = children[m.to].signal
      /\ alive(m.to) => r.env = m.version
  BY <1>3, ChildrenFacts DEF Child
<1>5. children' = [children EXCEPT ![m.to] = r]
  <2>1. CASE alive(m.to)
    BY <1>1, <2>1
  <2>2. CASE ~alive(m.to)
    <3>1. children = [children EXCEPT ![m.to] = children[m.to]]
      BY <1>3, ChildrenFacts DEF TypeOK
    <3> QED BY <1>1, <2>2, <3>1
  <2> QED BY <2>1, <2>2
<1> HIDE DEF r
<1>6. /\ children' \in Seq(Child) /\ Len(children') = Len(children) /\ newest' = newest
      /\ children'[m.to] = r
      /\ \A q \in 1 .. newest : q # m.to => children'[q] = children[q]
  BY <1>3, <1>4, <1>5, UpdateFacts
<1>7. Free' = Free /\ alive(child)' = alive(child)
  BY <1>2, <1>3, <1>4, <1>6, ChildrenFacts DEF Free, condemned, alive
<1>8. TypeOK'
  BY <1>1, <1>2, <1>6 DEF TypeOK
<1>9. LoopInv' /\ BudgetInv'
  <2>1. mail = {} => FALSE
    BY <1>1
  <2> QED BY <1>2, <1>6, <1>7 DEF LoopInv, BudgetInv
<1>10. SecretInv'
  <2>1. /\ child # 0 /\ \A n \in mail' : n.to <= child /\ n.version <= stored
        /\ \A c \in 1 .. newest : c > child => children'[c].env = 0
    BY <1>1, <1>3, <1>6, ChildrenFacts DEF SecretInv
  <2>2. ASSUME alive(child), ~stopped, NEW k \in mail, k.to = child, k.version = stored
        PROVE  \/ \E n \in mail' : n.to = child /\ n.version = stored
               \/ (\A n \in mail' : n.to # child) /\ children'[child].env = stored
    <3>1. CASE k # m
      BY <1>1, <2>2, <3>1
    <3>2. CASE k = m
      <4>1. \A n \in mail : n.to = child => n = m
        BY <1>1, <1>3, <2>2, <3>2
      <4> QED BY <1>1, <1>4, <1>6, <2>2, <3>2, <4>1
    <3> QED BY <3>1, <3>2
  <2>3. ASSUME \A n \in mail : n.to # child
        PROVE  (\A n \in mail' : n.to # child) /\ (child # 0 => children'[child] = children[child])
    BY <1>1, <1>6, <2>3, ChildrenFacts
  <2> QED BY <1>2, <1>6, <1>7, <2>1, <2>2, <2>3 DEF SecretInv
<1> QED BY <1>8, <1>9, <1>10

LEMMA NextStep == ASSUME SidecarInv, [Next]_vars PROVE SidecarInv'
BY StutterStep, BackoffElapsesStep, HandshakeStep, HandshakeFailsStep, ChildExitsStep, WatchStep,
   ProbeAnsweredStep, ResumeAnsweredStep, StopStep, HardKillStep, StopReturnsStep,
   UpdateSecretsStep, SecretArrivesStep
DEF Next

-----------------------------------------------------------------------------
(* Theorems. *)

(* The restart loop, stop(), the restart budget and the secrets under way   *)
(* agree in every state of sidecar.ts.                                      *)
THEOREM SidecarInvariant == Spec => []SidecarInv
BY InitInv, NextStep, PTL DEF Spec

(* The data root has at most one server that is not gone or condemned, none *)
(* after a stop or when the breaker has tripped, and the server there is    *)
(* gets every secret that was stored.                                       *)
THEOREM ServersAreSupervisedHolds == Spec => []ServersAreSupervised
<1>1. ASSUME SidecarInv PROVE ServersAreSupervised
  <2>1. TypeOK
    BY <1>1 DEF SidecarInv
  <2>2. OneChild
    <3>1. \E s : Free \subseteq {s}
      <4>1. loop = "boot" => Free \subseteq {1}
        BY <1>1 DEF SidecarInv, LoopInv, Free
      <4>2. loop \in {"failed", "sleeping"} => Free \subseteq {1}
        BY <1>1 DEF SidecarInv, LoopInv
      <4> QED BY <1>1, <4>1, <4>2 DEF SidecarInv, LoopInv, TypeOK
    <3> QED BY <3>1 DEF OneChild, Free
  <2>3. NoneAfterStop
    <3>1. stop = "done" \/ (stopped /\ stop = "none") => Free = {}
      BY <1>1 DEF SidecarInv, LoopInv, TypeOK
    <3> QED BY <3>1 DEF NoneAfterStop, Free
  <2>4. SecretsArrive
    BY <1>1 DEF SidecarInv, SecretInv, SecretsArrive
  <2> QED BY <2>1, <2>2, <2>3, <2>4 DEF ServersAreSupervised
<1> QED BY <1>1, SidecarInvariant, PTL

(* The breaker: no more than maxRestarts children follow the one that last  *)
(* earned the budget back.                                                  *)
THEOREM BreakerTripsHolds == Spec => []BreakerTrips
<1>1. SidecarInv => BreakerTrips
  BY DEF SidecarInv, BudgetInv, BreakerTrips
<1> QED BY <1>1, SidecarInvariant, PTL

=============================================================================
