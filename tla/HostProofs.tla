----------------------------- MODULE HostProofs -----------------------------
(***************************************************************************)
(* Proofs about the two parts that one AgentHost serializes with chains of *)
(* promises.  GraphManager: for every set of models and of turns and       *)
(* however many changes.  Plugins: for every set of requests, every choice *)
(* of when the materializer runs and any number of snapshots and upsets.   *)
(***************************************************************************)
EXTENDS GraphManager, Plugins, SequenceTheorems, TLAPS

(* GraphManager. *)

Queued == 1 .. Len(updates)

-----------------------------------------------------------------------------
(* The inductive invariant. *)

(* What is applied has been announced, and the default model has its agent. *)
AppliedInv ==
  /\ dependencies <= replaced
  /\ applied <= settings
  /\ agentImpl.capabilities = dependencies /\ agentImpl.settings = applied

(* Replacements are queued in the order in which they were announced, and   *)
(* what the update at work compiles is no older than what is applied.       *)
QueueInv ==
  /\ \A i \in Queued : /\ i # 1 => updates[i].at = "waiting"
                       /\ updates[i].kind = "default" => updates[i].at # "building"
                       /\ updates[i].kind = "replace" =>
                            dependencies < updates[i].capabilities
                            /\ updates[i].capabilities <= replaced
                       /\ updates[i].kind # "replace" /\ updates[i].at # "waiting" =>
                            updates[i].capabilities = dependencies
                       /\ updates[i].at = "compiling" =>
                            applied <= updates[i].settings /\ updates[i].settings <= settings
  /\ \A i, j \in Queued : updates[i].kind = "replace" /\ updates[j].kind = "replace" /\ i < j
                            => updates[i].capabilities < updates[j].capabilities

(* A turn waits for one update, which reads the settings after it asked.    *)
WaiterInv ==
  /\ \A i \in Queued : updates[i].waiter # NoTurn =>
       /\ turn[updates[i].waiter].at = "reloading"
       /\ updates[i].at = "compiling" => turn[updates[i].waiter].since <= updates[i].settings
  /\ \A i, j \in Queued : updates[i].waiter = updates[j].waiter /\ updates[i].waiter # NoTurn
                            => i = j

(* The cache holds what is applied; a turn waits for one build, which is    *)
(* compiled from what was applied after it asked.                           *)
BuildInv ==
  /\ \A b \in builds :
       /\ b.at # "rejected"
       /\ b.at = "done" => b.cached /\ b.waiting = {}
       /\ b.cached /\ b.at # "resolving" =>
            b.agent.capabilities = dependencies /\ applied <= b.agent.settings
       /\ b.at # "resolving" => b.agent.settings <= settings
       /\ \A t \in b.waiting : turn[t].at = "building"
       /\ b.at = "compiling" =>
            \A t \in b.waiting : /\ turn[t].floor <= b.agent.capabilities
                                 /\ turn[t].since <= b.agent.settings
  /\ \A b, c \in builds : b.waiting \cap c.waiting # {} => b = c

(* A turn asked for what was applied then, or waits for it to be.           *)
TurnInv ==
  \A t \in Turns : turn[t].at # "idle" =>
    /\ turn[t].floor <= dependencies
    /\ turn[t].since <= settings
    /\ turn[t].at \in {"settled", "building"} => turn[t].since <= applied
    /\ Models \ works \subseteq turn[t].shaky
    /\ turn[t].at = "served" => /\ turn[t].floor <= turn[t].agent.capabilities
                                /\ turn[t].since <= turn[t].agent.settings
    /\ turn[t].at = "failed" => turn[t].culprit \in turn[t].shaky

(* The host's default is the one queued last, or else the manager's.        *)
changesDefault(i) == updates[i].kind = "default" /\ updates[i].at = "waiting"
DefaultInv ==
  ~setBack =>
    \/ hostModel = modelId /\ \A i \in Queued : ~changesDefault(i)
    \/ \E i \in Queued : /\ changesDefault(i) /\ updates[i].model = hostModel
                         /\ \A j \in Queued : j > i => ~changesDefault(j)

GraphInv == TypeOK /\ AppliedInv /\ QueueInv /\ WaiterInv /\ BuildInv /\ TurnInv /\ DefaultInv

-----------------------------------------------------------------------------
(* What the actions do to the queue. *)

LEMMA QueueFacts ==
  ASSUME TypeOK
  PROVE  /\ Len(updates) \in Nat
         /\ \A i \in Queued : updates[i] \in Update
BY LenProperties, ElementOfSeq DEF TypeOK, Queued

LEMMA EnqueueFacts ==
  ASSUME TypeOK, NEW u \in Update, enqueueUpdate(u)
  PROVE  /\ updates' \in Seq(Update) /\ Len(updates') = Len(updates) + 1
         /\ \A i \in Queued : updates'[i] = updates[i]
         /\ updates'[Len(updates) + 1] = u
         /\ Queued' = Queued \cup {Len(updates) + 1} /\ Len(updates) + 1 \notin Queued
BY AppendProperties, QueueFacts DEF TypeOK, enqueueUpdate, Queued

LEMMA HeadFacts ==
  ASSUME TypeOK, updates # <<>>
  PROVE  /\ head = updates[1] /\ 1 \in Queued /\ head \in Update
BY HeadTailProperties, QueueFacts, EmptySeq DEF TypeOK, head, Queued

LEMMA AdvanceFacts ==
  ASSUME TypeOK, updates # <<>>, NEW u \in Update, advance(u)
  PROVE  /\ updates' \in Seq(Update) /\ Queued' = Queued
         /\ updates'[1] = u
         /\ \A i \in Queued : i # 1 => updates'[i] = updates[i]
<1>1. 1 \in 1 .. Len(updates)
  BY HeadFacts DEF Queued
<1> QED BY <1>1, ExceptSeq DEF TypeOK, advance, Queued

LEMMA TailFacts ==
  ASSUME TypeOK, updates # <<>>, updates' = Tail(updates)
  PROVE  /\ updates' \in Seq(Update)
         /\ \A i \in Queued' : i + 1 \in Queued /\ i + 1 # 1 /\ updates'[i] = updates[i + 1]
         /\ \A i \in Queued : i # 1 => i - 1 \in Queued' /\ updates'[i - 1] = updates[i]
         /\ Queued' \subseteq Nat /\ Queued \subseteq Nat
<1>1. Len(updates) \in Nat /\ Len(updates) # 0
  BY HeadFacts, QueueFacts DEF Queued
<1>2. /\ updates' \in Seq(Update) /\ Len(updates') = Len(updates) - 1
      /\ \A i \in 1 .. Len(updates) - 1 : updates'[i] = updates[i + 1]
  BY HeadTailProperties DEF TypeOK
<1> QED BY <1>1, <1>2 DEF Queued

(* What does not touch the queue or only lets go of its first.              *)
LEMMA QueueKeeps ==
  ASSUME TypeOK, QueueInv, UNCHANGED <<updates, dependencies, applied>>,
         replaced' >= replaced, settings' >= settings,
         replaced \in Nat, replaced' \in Nat, settings \in Nat, settings' \in Nat
  PROVE  QueueInv'
<1>1. \A i \in Queued : updates[i].capabilities \in Nat /\ updates[i].settings \in Nat
  BY QueueFacts DEF Update
<1>2. Queued' = Queued
  BY DEF Queued
<1> QED BY <1>1, <1>2 DEF QueueInv

-----------------------------------------------------------------------------
(* The invariant is inductive. *)

LEMMA InitInv == Init => GraphInv
<1> SUFFICES ASSUME Init PROVE GraphInv
  OBVIOUS
<1>1. PICK m \in Models :
        /\ modelId = m /\ hostModel = m /\ dependencies = 0 /\ applied = 0
        /\ agentImpl = agentOf(m, 0, 0) /\ builds = {entry(agentOf(m, 0, 0))}
        /\ updates = <<>> /\ choosing = {} /\ setBack = FALSE /\ patched = 0
        /\ turn = [t \in Turns |-> idleTurn(m)]
        /\ settings = 0 /\ replaced = 0 /\ works = Models /\ changes = 0
  BY DEF Init
<1>2. agentOf(m, 0, 0) \in Agent /\ agentOf(m, 0, 0).capabilities = 0
      /\ agentOf(m, 0, 0).settings = 0
  BY DEF agentOf, Agent
<1>3. /\ entry(agentOf(m, 0, 0)) \in Build /\ entry(agentOf(m, 0, 0)).at = "done"
      /\ entry(agentOf(m, 0, 0)).waiting = {} /\ entry(agentOf(m, 0, 0)).cached
      /\ entry(agentOf(m, 0, 0)).agent = agentOf(m, 0, 0)
  BY <1>2 DEF entry, Build
<1>4. idleTurn(m) \in Turn /\ idleTurn(m).at = "idle"
  BY <1>2 DEF idleTurn, Turn
<1>5. updates \in Seq(Update) /\ Queued = {}
  BY <1>1, EmptySeq DEF Queued
<1>6. TypeOK
  BY <1>1, <1>2, <1>3, <1>4, <1>5 DEF TypeOK
<1>7. AppliedInv /\ QueueInv /\ WaiterInv /\ DefaultInv
  BY <1>1, <1>2, <1>5 DEF AppliedInv, QueueInv, WaiterInv, DefaultInv
<1>8. BuildInv
  BY <1>1, <1>2, <1>3 DEF BuildInv
<1>9. TurnInv
  BY <1>1, <1>4 DEF TurnInv
<1> QED BY <1>6, <1>7, <1>8, <1>9 DEF GraphInv

LEMMA StutterStep == ASSUME GraphInv, UNCHANGED vars PROVE GraphInv'
<1> USE DEF vars, manager, selection, world
<1>1. TypeOK'
  BY DEF GraphInv, TypeOK
<1>2. AppliedInv' /\ QueueInv' /\ WaiterInv'
  BY DEF GraphInv, AppliedInv, QueueInv, WaiterInv, Queued
<1>3. BuildInv' /\ TurnInv' /\ DefaultInv'
  BY DEF GraphInv, BuildInv, TurnInv, DefaultInv, Queued, changesDefault
<1> QED BY <1>1, <1>2, <1>3 DEF GraphInv

LEMMA BeginUpdateStep == ASSUME GraphInv, BeginUpdate PROVE GraphInv'
<1> USE DEF GraphInv, selection, world
<1>1. /\ updates # <<>> /\ head = updates[1] /\ 1 \in Queued /\ head \in Update
      /\ head.at = "waiting"
      /\ UNCHANGED <<dependencies, applied, agentImpl, builds, selection, patched, turn, world>>
  BY HeadFacts DEF BeginUpdate
<1>2. /\ dependencies \in Nat /\ applied \in Nat /\ settings \in Nat /\ replaced \in Nat
      /\ modelId \in Models
  BY DEF TypeOK
<1>3. PICK u \in Update :
        /\ advance(u) /\ u.kind = head.kind /\ u.waiter = head.waiter
        /\ head.kind = "default" => /\ u.at = "compiling" /\ u.settings = settings
                                    /\ u.capabilities = dependencies /\ modelId' = head.model
        /\ head.kind # "default" => /\ u.at = "building" /\ UNCHANGED modelId
                                    /\ u.capabilities = IF head.kind = "replace"
                                                        THEN head.capabilities ELSE dependencies
  <2>1. CASE head.kind = "default"
    <3> DEFINE v == [head EXCEPT !.at = "compiling", !.settings = settings,
                                 !.capabilities = dependencies]
    <3>1. v \in Update /\ v.kind = head.kind /\ v.waiter = head.waiter /\ v.at = "compiling"
          /\ v.settings = settings /\ v.capabilities = dependencies
      BY <1>1, <1>2 DEF Update
    <3>2. advance(v) /\ modelId' = head.model
      BY <2>1 DEF BeginUpdate
    <3> HIDE DEF v
    <3> QED BY <2>1, <3>1, <3>2
  <2>2. CASE head.kind # "default"
    <3> DEFINE c == IF head.kind = "replace" THEN head.capabilities ELSE dependencies
               v == [head EXCEPT !.at = "building", !.model = modelId, !.capabilities = c]
    <3>1. c \in Nat
      BY <1>1, <1>2 DEF Update
    <3>2. v \in Update /\ v.kind = head.kind /\ v.waiter = head.waiter /\ v.at = "building"
          /\ v.capabilities = c
      <4> HIDE DEF c
      <4> QED BY <1>1, <1>2, <3>1 DEF Update
    <3>3. advance(v) /\ UNCHANGED modelId
      BY <2>2 DEF BeginUpdate
    <3> HIDE DEF v
    <3> QED BY <2>2, <3>2, <3>3
  <2> QED BY <2>1, <2>2
<1>4. /\ updates' \in Seq(Update) /\ Queued' = Queued /\ updates'[1] = u
      /\ \A i \in Queued : i # 1 => updates'[i] = updates[i]
  BY <1>1, <1>3, AdvanceFacts
<1>5. \A i \in Queued : updates[i].capabilities \in Nat /\ updates[i].settings \in Nat /\ i \in Nat
  BY QueueFacts DEF Update, Queued
<1>6. TypeOK'
  <2>1. modelId' \in Models
    BY <1>1, <1>2, <1>3 DEF Update
  <2> QED BY <1>1, <1>4, <2>1 DEF TypeOK
<1>7. QueueInv'
  <2>1. \A i \in Queued : /\ i # 1 => updates'[i].at = "waiting"
                          /\ updates'[i].kind = updates[i].kind
                          /\ updates[i].kind = "replace" =>
                               updates'[i].capabilities = updates[i].capabilities
    BY <1>1, <1>3, <1>4 DEF QueueInv
  <2>2. /\ u.kind = "default" => u.at # "building"
        /\ u.kind # "replace" => u.capabilities = dependencies
        /\ u.at = "compiling" => applied <= u.settings /\ u.settings <= settings
    BY <1>1, <1>2, <1>3 DEF AppliedInv
  <2> QED BY <1>1, <1>4, <2>1, <2>2 DEF QueueInv
<1>8. WaiterInv'
  <2>1. \A i \in Queued : updates'[i].waiter = updates[i].waiter
    BY <1>1, <1>3, <1>4
  <2>2. u.at = "compiling" /\ u.waiter # NoTurn => turn[u.waiter].since <= u.settings
    <3>1. u.at = "compiling" /\ u.waiter # NoTurn
            => /\ u.settings = settings /\ u.waiter \in Turns /\ turn[u.waiter].at = "reloading"
      BY <1>1, <1>3 DEF WaiterInv, Update
    <3> QED BY <3>1 DEF TurnInv
  <2> QED BY <1>1, <1>4, <2>1, <2>2 DEF WaiterInv
<1>9. AppliedInv' /\ BuildInv' /\ TurnInv'
  BY <1>1 DEF AppliedInv, BuildInv, TurnInv
<1>10. DefaultInv'
  <2>1. ~changesDefault(1)'
    BY <1>3, <1>4 DEF changesDefault
  <2>2. \A i \in Queued : i # 1 => changesDefault(i)' = changesDefault(i)
    BY <1>4 DEF changesDefault
  <2>3. head.kind = "default" => changesDefault(1) /\ modelId' = updates[1].model
    BY <1>1, <1>3 DEF changesDefault
  <2>4. head.kind # "default" => ~changesDefault(1) /\ modelId' = modelId
    BY <1>1, <1>3 DEF changesDefault
  <2> SUFFICES ASSUME ~setBack' PROVE DefaultInv'
    BY DEF DefaultInv
  <2>5. CASE hostModel = modelId /\ \A i \in Queued : ~changesDefault(i)
    BY <1>1, <1>4, <2>1, <2>2, <2>3, <2>4, <2>5 DEF DefaultInv
  <2>6. ASSUME NEW i \in Queued, changesDefault(i), updates[i].model = hostModel,
               \A j \in Queued : j > i => ~changesDefault(j)
        PROVE  DefaultInv'
    <3>1. CASE i = 1
      <4>1. \A j \in Queued : j # 1 => j > 1
        BY DEF Queued
      <4>2. hostModel' = modelId' /\ \A j \in Queued' : ~changesDefault(j)'
        BY <1>1, <1>4, <2>1, <2>2, <2>3, <2>4, <2>6, <3>1, <4>1
      <4> QED BY <4>2 DEF DefaultInv
    <3>2. CASE i # 1
      <4>1. /\ i \in Queued' /\ changesDefault(i)' /\ updates'[i].model = hostModel'
            /\ \A j \in Queued' : j > i => ~changesDefault(j)'
        BY <1>1, <1>4, <2>1, <2>2, <2>6, <3>2
      <4> QED BY <4>1 DEF DefaultInv
    <3> QED BY <3>1, <3>2
  <2>7. ~setBack
    BY <1>1
  <2> QED BY <2>5, <2>6, <2>7 DEF GraphInv, DefaultInv
<1> QED BY <1>6, <1>7, <1>8, <1>9, <1>10

LEMMA ModelBuiltStep == ASSUME GraphInv, ModelBuilt PROVE GraphInv'
<1> USE DEF GraphInv, manager, selection, world
<1> DEFINE u == [head EXCEPT !.at = "compiling", !.settings = settings]
<1>1. /\ updates # <<>> /\ head = updates[1] /\ 1 \in Queued /\ head \in Update
      /\ head.at = "building" /\ advance(u)
      /\ UNCHANGED <<manager, builds, selection, patched, turn, world>>
  BY HeadFacts DEF ModelBuilt
<1>2. /\ u \in Update /\ u.kind = head.kind /\ u.waiter = head.waiter /\ u.at = "compiling"
      /\ u.settings = settings /\ u.capabilities = head.capabilities
  BY <1>1 DEF Update, TypeOK
<1> HIDE DEF u
<1>3. /\ updates' \in Seq(Update) /\ Queued' = Queued /\ updates'[1] = u
      /\ \A i \in Queued : i # 1 => updates'[i] = updates[i]
  BY <1>1, <1>2, AdvanceFacts
<1>4. TypeOK'
  BY <1>1, <1>3 DEF TypeOK
<1>5. QueueInv'
  <2>1. \A i \in Queued : /\ i # 1 => updates'[i].at = "waiting"
                          /\ updates'[i].kind = updates[i].kind
                          /\ updates'[i].capabilities = updates[i].capabilities
    BY <1>1, <1>2, <1>3 DEF QueueInv
  <2>2. applied <= u.settings /\ u.settings <= settings
    BY <1>1, <1>2 DEF AppliedInv, TypeOK
  <2> QED BY <1>1, <1>2, <1>3, <2>1, <2>2 DEF QueueInv
<1>6. WaiterInv'
  <2>1. \A i \in Queued : updates'[i].waiter = updates[i].waiter
    BY <1>1, <1>2, <1>3
  <2>2. u.waiter # NoTurn => turn[u.waiter].since <= u.settings
    <3>1. u.waiter # NoTurn => u.waiter \in Turns /\ turn[u.waiter].at = "reloading"
      BY <1>1, <1>2 DEF WaiterInv, Update
    <3> QED BY <1>2, <3>1 DEF TurnInv
  <2> QED BY <1>1, <1>3, <2>1, <2>2 DEF WaiterInv
<1>7. AppliedInv' /\ BuildInv' /\ TurnInv'
  BY <1>1 DEF AppliedInv, BuildInv, TurnInv
<1>8. DefaultInv'
  <2>1. \A i \in Queued : /\ changesDefault(i)' = changesDefault(i)
                          /\ changesDefault(i) => updates'[i] = updates[i]
    BY <1>1, <1>2, <1>3 DEF changesDefault
  <2> QED BY <1>1, <1>3, <2>1 DEF DefaultInv
<1> QED BY <1>4, <1>5, <1>6, <1>7, <1>8

(* An update that is over leaves the queue, and its waiter is answered.     *)
LEMMA AnswerFacts ==
  ASSUME TypeOK, NEW t \in Turns \cup {NoTurn}, NEW outcome \in {"failed", "settled"},
         NEW m \in Models, answer(t, outcome, m)
  PROVE  /\ turn' \in [Turns -> Turn]
         /\ \A s \in Turns : /\ s # t => turn'[s] = turn[s]
                             /\ turn'[s].floor = turn[s].floor /\ turn'[s].since = turn[s].since
                             /\ turn'[s].shaky = turn[s].shaky
         /\ t # NoTurn => turn'[t].at = outcome /\ turn'[t].culprit = m
<1>1. CASE t = NoTurn
  BY <1>1, NoTurnAssumption DEF answer, TypeOK
<1>2. CASE t # NoTurn
  <2>1. t \in Turns /\ turn[t] \in Turn
    BY <1>2 DEF TypeOK
  <2> DEFINE r == [turn[t] EXCEPT !.at = outcome, !.culprit = m]
  <2>2. /\ r \in Turn /\ r.at = outcome /\ r.culprit = m
        /\ r.floor = turn[t].floor /\ r.since = turn[t].since /\ r.shaky = turn[t].shaky
    BY <2>1 DEF Turn
  <2>3. turn' = [turn EXCEPT ![t] = r]
    BY <1>2, <2>1 DEF answer, TypeOK
  <2> HIDE DEF r
  <2> QED BY <2>1, <2>2, <2>3 DEF TypeOK
<1> QED BY <1>1, <1>2

LEMMA DefaultKeeps ==
  ASSUME GraphInv, updates # <<>>, updates' = Tail(updates), head.at # "waiting",
         UNCHANGED <<hostModel, modelId, setBack>>
  PROVE  DefaultInv'
<1> USE DEF GraphInv
<1> SUFFICES ASSUME ~setBack' PROVE DefaultInv'
  BY DEF DefaultInv
<1>1. /\ \A i \in Queued' : i + 1 \in Queued /\ i + 1 # 1 /\ updates'[i] = updates[i + 1]
      /\ \A i \in Queued : i # 1 => i - 1 \in Queued' /\ updates'[i - 1] = updates[i]
      /\ Queued' \subseteq Nat /\ Queued \subseteq Nat
  BY TailFacts
<1>2. ~changesDefault(1)
  BY HeadFacts DEF changesDefault
<1>3. /\ \A i \in Queued' : changesDefault(i)' => changesDefault(i + 1)
      /\ \A i \in Queued : i # 1 /\ changesDefault(i) => changesDefault(i - 1)'
  BY <1>1 DEF changesDefault
<1>4. CASE hostModel = modelId /\ \A i \in Queued : ~changesDefault(i)
  BY <1>1, <1>3, <1>4 DEF DefaultInv
<1>5. ASSUME NEW i \in Queued, changesDefault(i), updates[i].model = hostModel,
             \A j \in Queued : j > i => ~changesDefault(j)
      PROVE  DefaultInv'
  <2>1. /\ i - 1 \in Queued' /\ changesDefault(i - 1)' /\ updates'[i - 1].model = hostModel
    BY <1>1, <1>2, <1>3, <1>5
  <2>2. \A j \in Queued' : j > i - 1 => ~changesDefault(j)'
    BY <1>1, <1>3, <1>5
  <2> QED BY <2>1, <2>2 DEF DefaultInv
<1> QED BY <1>4, <1>5 DEF DefaultInv

(* What is left of the queue waits, in order, for turns of its own.         *)
LEMMA RestFacts ==
  ASSUME GraphInv, updates # <<>>, updates' = Tail(updates)
  PROVE  /\ \A i \in Queued' :
              /\ updates'[i].at = "waiting"
              /\ updates'[i].kind = "replace" => /\ dependencies < updates'[i].capabilities
                                                 /\ updates'[i].capabilities <= replaced
                                                 /\ updates[1].kind = "replace" =>
                                                      updates[1].capabilities < updates'[i].capabilities
              /\ updates'[i].waiter # NoTurn =>
                   /\ updates'[i].waiter \in Turns /\ updates'[i].waiter # updates[1].waiter
                   /\ turn[updates'[i].waiter].at = "reloading"
         /\ \A i, j \in Queued' :
              /\ updates'[i].kind = "replace" /\ updates'[j].kind = "replace" /\ i < j
                   => updates'[i].capabilities < updates'[j].capabilities
              /\ updates'[i].waiter = updates'[j].waiter /\ updates'[i].waiter # NoTurn => i = j
<1> USE DEF GraphInv
<1>1. /\ \A i \in Queued' : i + 1 \in Queued /\ i + 1 # 1 /\ updates'[i] = updates[i + 1]
      /\ Queued' \subseteq Nat /\ 1 \in Queued
  BY TailFacts, HeadFacts
<1>2. ASSUME NEW i \in Queued'
      PROVE  /\ updates'[i].at = "waiting"
             /\ updates'[i].kind = "replace" => /\ dependencies < updates'[i].capabilities
                                                /\ updates'[i].capabilities <= replaced
                                                /\ updates[1].kind = "replace" =>
                                                     updates[1].capabilities < updates'[i].capabilities
             /\ updates'[i].waiter # NoTurn =>
                  /\ updates'[i].waiter \in Turns /\ updates'[i].waiter # updates[1].waiter
                  /\ turn[updates'[i].waiter].at = "reloading"
  <2> DEFINE k == i + 1
  <2>1. k \in Queued /\ k # 1 /\ 1 < k /\ updates'[i] = updates[k] /\ updates[k] \in Update
    BY <1>1, QueueFacts DEF Queued
  <2> HIDE DEF k
  <2>2. updates[k].waiter \in Turns \cup {NoTurn}
    BY <2>1 DEF Update
  <2>3. updates[k].waiter # NoTurn => updates[k].waiter # updates[1].waiter
    BY <1>1, <2>1 DEF WaiterInv
  <2> QED BY <1>1, <2>1, <2>2, <2>3 DEF QueueInv, WaiterInv
<1>3. ASSUME NEW i \in Queued', NEW j \in Queued'
      PROVE  /\ updates'[i].kind = "replace" /\ updates'[j].kind = "replace" /\ i < j
                  => updates'[i].capabilities < updates'[j].capabilities
             /\ updates'[i].waiter = updates'[j].waiter /\ updates'[i].waiter # NoTurn => i = j
  <2> DEFINE k == i + 1
             l == j + 1
  <2>1. i \in Nat /\ j \in Nat
    BY <1>1
  <2>2. /\ k \in Queued /\ updates'[i] = updates[k] /\ l \in Queued /\ updates'[j] = updates[l]
    BY <1>1
  <2>3. (i < j => k < l) /\ (k = l => i = j)
    BY <2>1
  <2> HIDE DEF k, l
  <2> QED BY <2>2, <2>3 DEF QueueInv, WaiterInv
<1> QED BY <1>2, <1>3

LEMMA UpdateFailsStep == ASSUME GraphInv, UpdateFails PROVE GraphInv'
<1> USE DEF GraphInv, manager, selection, world
<1>1. /\ updates # <<>> /\ head = updates[1] /\ 1 \in Queued /\ head \in Update
      /\ head.at = "building" /\ head.model \notin works /\ updates' = Tail(updates)
      /\ answer(head.waiter, "failed", head.model)
      /\ UNCHANGED <<manager, builds, selection, patched, world>>
  BY HeadFacts DEF UpdateFails
<1>2. head.model \in Models /\ head.waiter \in Turns \cup {NoTurn}
  BY <1>1 DEF Update
<1>3. /\ updates' \in Seq(Update)
      /\ \A i \in Queued' : i + 1 \in Queued /\ i + 1 # 1 /\ updates'[i] = updates[i + 1]
      /\ Queued' \subseteq Nat
  BY <1>1, TailFacts
<1>4. /\ turn' \in [Turns -> Turn]
      /\ \A s \in Turns : /\ s # head.waiter => turn'[s] = turn[s]
                          /\ turn'[s].floor = turn[s].floor /\ turn'[s].since = turn[s].since
                          /\ turn'[s].shaky = turn[s].shaky
      /\ head.waiter # NoTurn => turn'[head.waiter].at = "failed"
                                 /\ turn'[head.waiter].culprit = head.model
  BY <1>1, <1>2, AnswerFacts
<1>5. head.waiter # NoTurn => head.waiter \in Turns /\ turn[head.waiter].at = "reloading"
  BY <1>1, <1>2 DEF WaiterInv
<1>6. TypeOK'
  BY <1>1, <1>3, <1>4 DEF TypeOK
<1>7. QueueInv'
  BY <1>1, RestFacts DEF QueueInv
<1>8. WaiterInv'
  <2>1. \A i \in Queued' : /\ updates'[i].at = "waiting"
                           /\ updates'[i].waiter # NoTurn =>
                                turn'[updates'[i].waiter].at = "reloading"
    <3> SUFFICES ASSUME NEW i \in Queued'
                 PROVE  /\ updates'[i].at = "waiting"
                        /\ updates'[i].waiter # NoTurn =>
                             turn'[updates'[i].waiter].at = "reloading"
      OBVIOUS
    <3> DEFINE w == updates'[i].waiter
    <3>1. /\ updates'[i].at = "waiting"
          /\ w # NoTurn => w \in Turns /\ w # head.waiter /\ turn[w].at = "reloading"
      BY <1>1, RestFacts
    <3> HIDE DEF w
    <3>2. w # NoTurn => turn'[w].at = "reloading"
      BY <1>4, <3>1
    <3> QED BY <3>1, <3>2 DEF w
  <2> QED BY <1>1, <2>1, RestFacts DEF WaiterInv
<1>9. AppliedInv'
  BY <1>1 DEF AppliedInv
<1>10. BuildInv'
  <2>1. \A b \in builds : \A t \in b.waiting : t \in Turns /\ turn'[t] = turn[t]
    BY <1>4, <1>5, NoTurnAssumption DEF BuildInv, TypeOK, Build
  <2> QED BY <1>1, <2>1 DEF BuildInv
<1>11. TurnInv'
  BY <1>1, <1>2, <1>4, <1>5, NoTurnAssumption DEF TurnInv
<1>12. DefaultInv'
  BY <1>1, DefaultKeeps
<1> QED BY <1>6, <1>7, <1>8, <1>9, <1>10, <1>11, <1>12

LEMMA ApplyStep == ASSUME GraphInv, Apply PROVE GraphInv'
<1> USE DEF GraphInv, manager, selection, world
<1> DEFINE agent == agentOf(head.model, head.capabilities, head.settings)
<1>1. /\ updates # <<>> /\ head = updates[1] /\ 1 \in Queued /\ head \in Update
      /\ head.at = "compiling" /\ updates' = Tail(updates)
      /\ dependencies' = head.capabilities /\ agentImpl' = agent /\ applied' = head.settings
      /\ builds' = clear \cup {entry(agent)}
      /\ answer(head.waiter, "settled", head.model)
      /\ UNCHANGED <<modelId, selection, patched, world>>
  BY HeadFacts DEF Apply
<1>2. /\ head.model \in Models /\ head.waiter \in Turns \cup {NoTurn}
      /\ head.capabilities \in Nat /\ head.settings \in Nat
      /\ dependencies \in Nat /\ applied \in Nat /\ settings \in Nat /\ replaced \in Nat
  BY <1>1 DEF Update, TypeOK
<1>3. /\ agent \in Agent /\ agent.capabilities = head.capabilities
      /\ agent.settings = head.settings
  BY <1>2 DEF agentOf, Agent
<1> HIDE DEF agent
<1>4. /\ dependencies <= dependencies' /\ applied <= applied' /\ applied' <= settings
      /\ dependencies' <= replaced
  BY <1>1, <1>2 DEF QueueInv, AppliedInv
<1>5. /\ updates' \in Seq(Update)
      /\ \A i \in Queued' : i + 1 \in Queued /\ i + 1 # 1 /\ updates'[i] = updates[i + 1]
      /\ Queued' \subseteq Nat
  BY <1>1, TailFacts
<1>6. /\ turn' \in [Turns -> Turn]
      /\ \A s \in Turns : /\ s # head.waiter => turn'[s] = turn[s]
                          /\ turn'[s].floor = turn[s].floor /\ turn'[s].since = turn[s].since
                          /\ turn'[s].shaky = turn[s].shaky
      /\ head.waiter # NoTurn => turn'[head.waiter].at = "settled"
  BY <1>1, <1>2, AnswerFacts
<1>7. head.waiter # NoTurn => /\ head.waiter \in Turns /\ turn[head.waiter].at = "reloading"
                              /\ turn[head.waiter].since <= applied'
  BY <1>1, <1>2 DEF WaiterInv
<1>8. /\ entry(agent) \in Build /\ entry(agent).at = "done" /\ entry(agent).cached
      /\ entry(agent).waiting = {} /\ entry(agent).agent = agent
  BY <1>3 DEF entry, Build
<1>9. \A b \in clear : \E c \in builds :
        /\ b = [c EXCEPT !.cached = FALSE] /\ c \in Build /\ c.waiting # {} /\ b \in Build
        /\ b.at = c.at /\ b.at # "done" /\ ~b.cached /\ b.waiting = c.waiting /\ b.agent = c.agent
  <2> TAKE b \in clear
  <2>1. PICK c \in builds : c.waiting # {} /\ b = [c EXCEPT !.cached = FALSE]
    BY DEF clear
  <2>2. c \in Build /\ c.at # "done"
    BY <2>1 DEF TypeOK, BuildInv
  <2>3. /\ b \in Build /\ b.at = c.at /\ ~b.cached /\ b.waiting = c.waiting /\ b.agent = c.agent
    BY <2>1, <2>2 DEF Build
  <2> QED BY <2>1, <2>2, <2>3
<1>10. TypeOK'
  <2>1. builds' \subseteq Build
    BY <1>1, <1>8, <1>9
  <2> QED BY <1>1, <1>2, <1>3, <1>5, <1>6, <2>1 DEF TypeOK
<1>11. AppliedInv'
  BY <1>1, <1>3, <1>4 DEF AppliedInv
<1>12. QueueInv'
  <2>1. head.kind # "replace" => dependencies' = dependencies
    BY <1>1 DEF QueueInv
  <2>2. \A i \in Queued' : /\ updates'[i].at = "waiting"
                           /\ updates'[i].kind = "replace" =>
                                /\ dependencies' < updates'[i].capabilities
                                /\ updates'[i].capabilities <= replaced
    BY <1>1, <2>1, RestFacts
  <2> QED BY <1>1, <2>2, RestFacts DEF QueueInv
<1>13. WaiterInv'
  <2>1. \A i \in Queued' : /\ updates'[i].at = "waiting"
                           /\ updates'[i].waiter # NoTurn =>
                                turn'[updates'[i].waiter].at = "reloading"
    <3> SUFFICES ASSUME NEW i \in Queued'
                 PROVE  /\ updates'[i].at = "waiting"
                        /\ updates'[i].waiter # NoTurn =>
                             turn'[updates'[i].waiter].at = "reloading"
      OBVIOUS
    <3> DEFINE w == updates'[i].waiter
    <3>1. /\ updates'[i].at = "waiting"
          /\ w # NoTurn => w \in Turns /\ w # head.waiter /\ turn[w].at = "reloading"
      BY <1>1, RestFacts
    <3> HIDE DEF w
    <3>2. w # NoTurn => turn'[w].at = "reloading"
      BY <1>6, <3>1
    <3> QED BY <3>1, <3>2 DEF w
  <2> QED BY <1>1, <2>1, RestFacts DEF WaiterInv
<1>14. BuildInv'
  <2>1. \A b \in builds : \A t \in b.waiting : t \in Turns /\ turn'[t] = turn[t]
    BY <1>6, <1>7, NoTurnAssumption DEF BuildInv, TypeOK, Build
  <2>2. \A b \in builds' : \/ b = entry(agent)
                           \/ \E c \in builds : /\ b = [c EXCEPT !.cached = FALSE]
                                                /\ b.at = c.at /\ b.at # "done" /\ ~b.cached
                                                /\ b.waiting = c.waiting /\ b.agent = c.agent
    BY <1>1, <1>9
  <2>3. \A b \in builds' :
          /\ b.at # "rejected"
          /\ b.at = "done" => b.cached /\ b.waiting = {}
          /\ b.cached /\ b.at # "resolving" =>
               b.agent.capabilities = dependencies' /\ applied' <= b.agent.settings
          /\ b.at # "resolving" => b.agent.settings <= settings
          /\ \A t \in b.waiting : turn'[t].at = "building"
          /\ b.at = "compiling" =>
               \A t \in b.waiting : /\ turn'[t].floor <= b.agent.capabilities
                                    /\ turn'[t].since <= b.agent.settings
    BY <1>1, <1>2, <1>3, <1>4, <1>8, <2>1, <2>2 DEF BuildInv
  <2>4. \A b, c \in builds' : b.waiting \cap c.waiting # {} => b = c
    <3> SUFFICES ASSUME NEW b \in builds', NEW c \in builds', b.waiting \cap c.waiting # {}
                 PROVE  b = c
      OBVIOUS
    <3>1. b # entry(agent) /\ c # entry(agent)
      BY <1>8
    <3>2. PICK d \in builds : b = [d EXCEPT !.cached = FALSE] /\ b.waiting = d.waiting
      BY <2>2, <3>1
    <3>3. PICK e \in builds : c = [e EXCEPT !.cached = FALSE] /\ c.waiting = e.waiting
      BY <2>2, <3>1
    <3>4. d = e
      BY <3>2, <3>3 DEF BuildInv
    <3> QED BY <3>2, <3>3, <3>4
  <2> QED BY <1>1, <2>3, <2>4 DEF BuildInv
<1>15. TurnInv'
  <2> SUFFICES ASSUME NEW t \in Turns, turn'[t].at # "idle"
               PROVE  /\ turn'[t].floor <= dependencies'
                      /\ turn'[t].since <= settings
                      /\ turn'[t].at \in {"settled", "building"} => turn'[t].since <= applied'
                      /\ Models \ works \subseteq turn'[t].shaky
                      /\ turn'[t].at = "served" => /\ turn'[t].floor <= turn'[t].agent.capabilities
                                                   /\ turn'[t].since <= turn'[t].agent.settings
                      /\ turn'[t].at = "failed" => turn'[t].culprit \in turn'[t].shaky
    BY <1>1 DEF TurnInv
  <2>1. /\ turn[t].at # "idle" /\ turn[t].floor \in Nat /\ turn[t].since \in Nat
        /\ turn'[t].floor = turn[t].floor /\ turn'[t].since = turn[t].since
        /\ turn'[t].shaky = turn[t].shaky
    BY <1>6, <1>7, NoTurnAssumption DEF TypeOK, Turn
  <2>2. /\ turn[t].floor <= dependencies /\ turn[t].since <= settings
        /\ Models \ works \subseteq turn[t].shaky
    BY <2>1 DEF TurnInv
  <2>3. turn'[t].floor <= dependencies'
    BY <1>1, <1>2, <1>4, <2>1, <2>2
  <2>4. CASE t = head.waiter
    <3>1. t # NoTurn
      BY NoTurnAssumption
    <3> QED BY <1>6, <1>7, <2>1, <2>2, <2>3, <2>4, <3>1
  <2>5. CASE t # head.waiter
    <3>1. turn'[t] = turn[t]
      BY <1>6, <2>5
    <3> QED BY <1>1, <1>2, <1>4, <2>1, <2>2, <2>3, <3>1 DEF TurnInv
  <2> QED BY <2>4, <2>5
<1>16. DefaultInv'
  BY <1>1, DefaultKeeps
<1> QED BY <1>10, <1>11, <1>12, <1>13, <1>14, <1>15, <1>16

-----------------------------------------------------------------------------
(* The steps of the turns and the builds.  They leave what is applied alone. *)

(* What a step of turns and builds has to show. *)
LEMMA TurnStep ==
  ASSUME GraphInv, turn' \in [Turns -> Turn], builds' \subseteq Build, BuildInv', TurnInv',
         \A t \in Turns : turn[t].at = "reloading" => turn'[t] = turn[t],
         UNCHANGED <<manager, updates, selection, patched, world>>
  PROVE  GraphInv'
<1> USE DEF GraphInv, manager, selection, world
<1>1. TypeOK'
  BY DEF TypeOK
<1>2. AppliedInv' /\ QueueInv'
  BY DEF AppliedInv, QueueInv, Queued
<1>3. WaiterInv'
  <2>1. \A i \in Queued : updates[i].waiter # NoTurn => updates[i].waiter \in Turns
    BY QueueFacts DEF Update
  <2>2. \A i \in Queued : updates[i].waiter # NoTurn
                            => turn'[updates[i].waiter] = turn[updates[i].waiter]
    BY <2>1 DEF WaiterInv
  <2> QED BY <2>2 DEF WaiterInv, Queued
<1>4. DefaultInv'
  BY DEF DefaultInv, Queued, changesDefault
<1> QED BY <1>1, <1>2, <1>3, <1>4

(* The turns that a build lets go of. *)
LEMMA ServeFacts ==
  ASSUME TypeOK, NEW ts \in SUBSET Turns, NEW a \in Agent, serve(ts, a)
  PROVE  /\ turn' \in [Turns -> Turn]
         /\ \A t \in Turns : /\ t \notin ts => turn'[t] = turn[t]
                             /\ t \in ts => /\ turn'[t].at = "served" /\ turn'[t].agent = a
                                            /\ turn'[t].floor = turn[t].floor
                                            /\ turn'[t].since = turn[t].since
                                            /\ turn'[t].shaky = turn[t].shaky
<1> DEFINE r(t) == [turn[t] EXCEPT !.at = "served", !.agent = a]
<1>1. \A t \in Turns : /\ r(t) \in Turn /\ r(t).at = "served" /\ r(t).agent = a
                       /\ r(t).floor = turn[t].floor /\ r(t).since = turn[t].since
                       /\ r(t).shaky = turn[t].shaky
  BY DEF TypeOK, Turn
<1>2. turn' = [t \in Turns |-> IF t \in ts THEN r(t) ELSE turn[t]]
  BY DEF serve
<1> HIDE DEF r
<1> QED BY <1>1, <1>2 DEF TypeOK

LEMMA FailFacts ==
  ASSUME TypeOK, NEW b \in Build, fail(b)
  PROVE  /\ turn' \in [Turns -> Turn]
         /\ \A t \in Turns : /\ t \notin b.waiting => turn'[t] = turn[t]
                             /\ t \in b.waiting =>
                                  /\ turn'[t].at = "failed" /\ turn'[t].culprit = b.agent.model
                                  /\ turn'[t].floor = turn[t].floor
                                  /\ turn'[t].since = turn[t].since
                                  /\ turn'[t].shaky = turn[t].shaky
<1> DEFINE r(t) == [turn[t] EXCEPT !.at = "failed", !.culprit = b.agent.model]
<1>0. b.agent.model \in Models
  BY DEF Build, Agent
<1>1. \A t \in Turns : /\ r(t) \in Turn /\ r(t).at = "failed" /\ r(t).culprit = b.agent.model
                       /\ r(t).floor = turn[t].floor /\ r(t).since = turn[t].since
                       /\ r(t).shaky = turn[t].shaky
  BY <1>0 DEF TypeOK, Turn
<1>2. turn' = [t \in Turns |-> IF t \in b.waiting THEN r(t) ELSE turn[t]]
  BY DEF fail
<1> HIDE DEF r
<1> QED BY <1>1, <1>2 DEF TypeOK

LEMMA AwaitFacts ==
  ASSUME TypeOK, NEW t \in Turns, await(t)
  PROVE  /\ turn' \in [Turns -> Turn]
         /\ \A s \in Turns : s # t => turn'[s] = turn[s]
         /\ turn'[t].at = "building"
         /\ turn'[t].floor = turn[t].floor /\ turn'[t].since = turn[t].since
         /\ turn'[t].shaky = turn[t].shaky
<1> DEFINE r == [turn[t] EXCEPT !.at = "building"]
<1>1. /\ r \in Turn /\ r.at = "building" /\ r.floor = turn[t].floor
      /\ r.since = turn[t].since /\ r.shaky = turn[t].shaky
  BY DEF TypeOK, Turn
<1>2. turn' = [turn EXCEPT ![t] = r]
  BY DEF await
<1> HIDE DEF r
<1> QED BY <1>1, <1>2 DEF TypeOK

(* What a build is worth to the turns that join it. *)
LEMMA BuildFacts ==
  ASSUME GraphInv, NEW b \in builds
  PROVE  /\ b \in Build /\ b.waiting \subseteq Turns /\ b.agent \in Agent
         /\ b.agent.capabilities \in Nat /\ b.agent.settings \in Nat
         /\ dependencies \in Nat /\ applied \in Nat /\ settings \in Nat
         /\ \A t \in Turns : /\ turn[t] \in Turn /\ turn[t].floor \in Nat /\ turn[t].since \in Nat
                             /\ turn[t].at = "building" \/ t \notin b.waiting
<1>1. /\ b \in Build /\ dependencies \in Nat /\ applied \in Nat /\ settings \in Nat
      /\ \A t \in Turns : turn[t] \in Turn
  BY DEF GraphInv, TypeOK
<1> QED BY <1>1 DEF Build, Agent, Turn, GraphInv, BuildInv

(* A turn joins a build, or begins one. *)
LEMMA JoinStep ==
  ASSUME GraphInv, NEW t \in Turns, turn[t].at = "settled", await(t),
         UNCHANGED <<manager, updates, selection, patched, world>>,
         NEW n \in Build, n.at \in {"resolving", "compiling"}, n.cached,
         NEW old \in SUBSET builds, builds' = (builds \ old) \cup {n},
         n.waiting = {t} \cup UNION {b.waiting : b \in old},
         \A b \in old : b.at = n.at /\ b.agent = n.agent,
         n.at = "compiling" =>
           /\ n.agent.capabilities = dependencies /\ applied <= n.agent.settings
           /\ n.agent.settings <= settings
  PROVE  GraphInv'
<1> USE DEF GraphInv
<1>1. /\ turn[t] \in Turn /\ turn[t].floor \in Nat /\ turn[t].since \in Nat
      /\ dependencies \in Nat /\ applied \in Nat /\ settings \in Nat
  BY DEF TypeOK, Turn
<1>2. UNCHANGED <<manager, updates, selection, patched, world>>
  OBVIOUS
<1>3. turn[t].floor <= dependencies /\ turn[t].since <= applied /\ Models \ works \subseteq turn[t].shaky
  BY DEF TurnInv
<1>4. \A b \in builds : t \notin b.waiting
  BY DEF BuildInv
<1>5. /\ turn' \in [Turns -> Turn]
      /\ \A s \in Turns : s # t => turn'[s] = turn[s]
      /\ turn'[t].at = "building"
      /\ turn'[t].floor = turn[t].floor /\ turn'[t].since = turn[t].since
      /\ turn'[t].shaky = turn[t].shaky
  BY <1>1, AwaitFacts DEF Turn
<1>6. TurnInv'
  BY <1>1, <1>2, <1>3, <1>5 DEF TurnInv, manager, world
<1>7. \A b \in builds : \A s \in b.waiting : s \in Turns /\ s # t /\ turn'[s] = turn[s]
  BY <1>4, <1>5, BuildFacts
<1>8. \A s \in n.waiting : turn'[s].at = "building"
  BY <1>5, <1>7 DEF BuildInv
<1>9. n.at = "compiling" => \A s \in n.waiting : /\ turn'[s].floor <= n.agent.capabilities
                                                 /\ turn'[s].since <= n.agent.settings
  <2> SUFFICES ASSUME n.at = "compiling", NEW s \in n.waiting
               PROVE  turn'[s].floor <= n.agent.capabilities /\ turn'[s].since <= n.agent.settings
    OBVIOUS
  <2>1. CASE s = t
    <3>1. n.agent.settings \in Nat
      BY DEF Build, Agent
    <3> QED BY <1>1, <1>3, <1>5, <2>1, <3>1
  <2>2. CASE s # t
    <3>1. PICK b \in old : s \in b.waiting
      BY <2>2
    <3> QED BY <1>7, <3>1 DEF BuildInv
  <2> QED BY <2>1, <2>2
<1>10. \A b \in builds \ old : b.waiting \cap n.waiting = {}
  <2> SUFFICES ASSUME NEW b \in builds \ old, NEW s \in b.waiting, s \in n.waiting PROVE FALSE
    OBVIOUS
  <2>1. s # t
    BY <1>7
  <2>2. PICK c \in old : s \in c.waiting
    BY <2>1
  <2> QED BY <2>2 DEF BuildInv
<1>11. BuildInv'
  <2>1. \A b \in builds' : \/ b = n
                           \/ b \in builds \ old /\ \A s \in b.waiting : turn'[s] = turn[s]
    BY <1>7
  <2>2. \A b \in builds' :
          /\ b.at # "rejected"
          /\ b.at = "done" => b.cached /\ b.waiting = {}
          /\ b.cached /\ b.at # "resolving" =>
               b.agent.capabilities = dependencies /\ applied <= b.agent.settings
          /\ b.at # "resolving" => b.agent.settings <= settings
          /\ \A s \in b.waiting : turn'[s].at = "building"
          /\ b.at = "compiling" =>
               \A s \in b.waiting : /\ turn'[s].floor <= b.agent.capabilities
                                    /\ turn'[s].since <= b.agent.settings
    BY <1>8, <1>9, <2>1 DEF BuildInv
  <2>3. \A b, c \in builds' : b.waiting \cap c.waiting # {} => b = c
    BY <1>10, <2>1 DEF BuildInv
  <2> QED BY <1>2, <2>2, <2>3 DEF BuildInv, manager, world
<1>12. builds' \subseteq Build
  BY DEF TypeOK
<1> QED BY <1>1, <1>2, <1>5, <1>6, <1>11, <1>12, TurnStep

LEMMA PickStep == ASSUME GraphInv, NEW t \in Turns, Pick(t) PROVE GraphInv'
<1> USE DEF GraphInv
<1> DEFINE m == turn[t].model
<1>1. /\ turn[t].at = "settled" /\ turn[t] \in Turn /\ m \in Models
      /\ turn[t].floor \in Nat /\ turn[t].since \in Nat
      /\ dependencies \in Nat /\ applied \in Nat /\ settings \in Nat
  BY DEF Pick, TypeOK, Turn
<1>2. UNCHANGED <<manager, updates, selection, patched, world>>
  BY DEF Pick
<1>3. turn[t].floor <= dependencies /\ turn[t].since <= applied /\ Models \ works \subseteq turn[t].shaky
  BY <1>1 DEF TurnInv
<1>4. \A b \in builds : t \notin b.waiting
  BY <1>1 DEF BuildInv
<1>5. ASSUME NEW a \in Agent, serve({t}, a), UNCHANGED builds,
             a.capabilities = dependencies, applied <= a.settings
      PROVE  GraphInv'
  <2>1. /\ turn' \in [Turns -> Turn]
        /\ \A s \in Turns : s # t => turn'[s] = turn[s]
        /\ turn'[t].at = "served" /\ turn'[t].agent = a
        /\ turn'[t].floor = turn[t].floor /\ turn'[t].since = turn[t].since
        /\ turn'[t].shaky = turn[t].shaky
    BY <1>5, ServeFacts
  <2>2. a.settings \in Nat
    BY DEF Agent
  <2>3. TurnInv'
    BY <1>1, <1>2, <1>3, <1>5, <2>1, <2>2 DEF TurnInv, manager, world
  <2>4. BuildInv'
    <3>1. \A b \in builds : \A s \in b.waiting : turn'[s] = turn[s]
      BY <1>4, <2>1, BuildFacts
    <3> QED BY <1>2, <1>5, <3>1 DEF BuildInv, manager, world
  <2>5. builds' \subseteq Build
    BY <1>5 DEF TypeOK
  <2> QED BY <1>1, <1>2, <2>1, <2>3, <2>4, <2>5, TurnStep
<1>7. CASE m = modelId
  <2>1. serve({t}, agentImpl) /\ UNCHANGED builds
    BY <1>7 DEF Pick
  <2> QED BY <1>5, <2>1 DEF TypeOK, AppliedInv
<1>8. CASE m # modelId /\ cacheOf(m) = {}
  <2> DEFINE n == [at |-> "resolving", agent |-> agentOf(m, 0, 0), waiting |-> {t}, cached |-> TRUE]
  <2>1. builds' = builds \cup {n} /\ await(t)
    BY <1>8 DEF Pick
  <2>2. n \in Build /\ n.at = "resolving" /\ n.waiting = {t} /\ n.cached
    BY <1>1 DEF Build, agentOf, Agent
  <2> HIDE DEF n
  <2> DEFINE old == {}
  <2>3. /\ old \in SUBSET builds /\ builds' = (builds \ old) \cup {n}
        /\ n.waiting = {t} \cup UNION {b.waiting : b \in old}
        /\ \A b \in old : b.at = n.at /\ b.agent = n.agent
    BY <2>1, <2>2
  <2> HIDE DEF old
  <2>4. n.at \in {"resolving", "compiling"} /\ n.at # "compiling"
    BY <2>2
  <2> QED BY <1>1, <1>2, <2>1, <2>2, <2>3, <2>4, JoinStep
<1>9. CASE m # modelId /\ cacheOf(m) # {}
  <2>1. PICK b \in cacheOf(m) :
          CASE b.at = "done"     -> serve({t}, b.agent) /\ UNCHANGED builds
            [] b.at = "rejected" -> answer(t, "failed", m) /\ UNCHANGED builds
            [] OTHER             -> /\ builds' = (builds \ {b}) \cup
                                                   {[b EXCEPT !.waiting = @ \cup {t}]}
                                    /\ await(t)
    BY <1>9 DEF Pick
  <2>2. b \in builds /\ b.cached /\ b.at # "rejected" /\ b \in Build
    BY <2>1 DEF cacheOf, BuildInv, TypeOK
  <2>3. CASE b.at = "done"
    <3>1. serve({t}, b.agent) /\ UNCHANGED builds
      BY <2>1, <2>3
    <3> QED BY <1>5, <2>2, <2>3, <3>1, BuildFacts DEF BuildInv
  <2>4. CASE b.at # "done"
    <3> DEFINE n == [b EXCEPT !.waiting = @ \cup {t}]
    <3>1. builds' = (builds \ {b}) \cup {n} /\ await(t)
      BY <2>1, <2>2, <2>4
    <3>2. /\ n \in Build /\ n.at = b.at /\ n.agent = b.agent /\ n.cached
          /\ n.waiting = b.waiting \cup {t}
      BY <2>2 DEF Build
    <3> HIDE DEF n
    <3>3. n.waiting = {t} \cup UNION {c.waiting : c \in {b}} /\ {b} \in SUBSET builds
      BY <2>2, <3>2
    <3>4. n.at \in {"resolving", "compiling"}
      BY <2>2, <2>4, <3>2 DEF Build
    <3>5. \A c \in {b} : c.at = n.at /\ c.agent = n.agent
      BY <3>2
    <3>6. n.at = "compiling" =>
            /\ n.agent.capabilities = dependencies /\ applied <= n.agent.settings
            /\ n.agent.settings <= settings
      BY <2>2, <3>2 DEF BuildInv
    <3> QED BY <1>1, <1>2, <3>1, <3>2, <3>3, <3>4, <3>5, <3>6, JoinStep
  <2> QED BY <2>3, <2>4
<1> QED BY <1>7, <1>8, <1>9

LEMMA ResolvedStep == ASSUME GraphInv, NEW b \in builds, Resolved(b) PROVE GraphInv'
<1> USE DEF GraphInv
<1> DEFINE n == [b EXCEPT !.at = "compiling",
                          !.agent = agentOf(b.agent.model, dependencies, settings)]
<1>1. /\ b.at = "resolving" /\ builds' = (builds \ {b}) \cup {n}
      /\ UNCHANGED <<manager, updates, selection, patched, turn, world>>
  BY DEF Resolved
<1>2. /\ n \in Build /\ n.at = "compiling" /\ n.waiting = b.waiting /\ n.cached = b.cached
      /\ n.agent.capabilities = dependencies /\ n.agent.settings = settings
  <2> DEFINE a == agentOf(b.agent.model, dependencies, settings)
  <2>1. a \in Agent /\ a.capabilities = dependencies /\ a.settings = settings
    BY BuildFacts DEF agentOf, Agent
  <2>2. n = [b EXCEPT !.at = "compiling", !.agent = a]
    OBVIOUS
  <2>3. b \in Build
    BY BuildFacts
  <2> HIDE DEF a, n
  <2> QED BY <2>1, <2>2, <2>3 DEF Build
<1> HIDE DEF n
<1>3. TurnInv' /\ turn' \in [Turns -> Turn]
  BY <1>1 DEF TurnInv, TypeOK, manager, world
<1>4. \A t \in b.waiting : turn[t].at = "building" /\ turn[t].floor <= dependencies
                           /\ turn[t].since <= settings
  BY BuildFacts DEF TurnInv, BuildInv
<1>5. BuildInv'
  <2>1. \A c \in builds' :
          /\ c.at # "rejected"
          /\ c.at = "done" => c.cached /\ c.waiting = {}
          /\ c.cached /\ c.at # "resolving" =>
               c.agent.capabilities = dependencies /\ applied <= c.agent.settings
          /\ c.at # "resolving" => c.agent.settings <= settings
          /\ \A t \in c.waiting : turn[t].at = "building"
          /\ c.at = "compiling" => \A t \in c.waiting : /\ turn[t].floor <= c.agent.capabilities
                                                        /\ turn[t].since <= c.agent.settings
    BY <1>1, <1>2, <1>4, BuildFacts DEF BuildInv, AppliedInv
  <2>2. \A c, d \in builds' : c.waiting \cap d.waiting # {} => c = d
    BY <1>1, <1>2 DEF BuildInv
  <2> QED BY <1>1, <2>1, <2>2 DEF BuildInv, manager, world
<1>6. builds' \subseteq Build
  BY <1>1, <1>2 DEF TypeOK
<1> QED BY <1>1, <1>3, <1>5, <1>6, TurnStep

LEMMA CompiledStep == ASSUME GraphInv, NEW b \in builds, Compiled(b) PROVE GraphInv'
<1> USE DEF GraphInv
<1> DEFINE n == [b EXCEPT !.at = "done", !.waiting = {}]
<1>1. /\ b.at = "compiling" /\ serve(b.waiting, b.agent)
      /\ builds' = (builds \ {b}) \cup (IF b.cached THEN {n} ELSE {})
      /\ UNCHANGED <<manager, updates, selection, patched, world>>
  BY DEF Compiled, drop
<1>2. n \in Build /\ n.at = "done" /\ n.waiting = {} /\ n.cached = b.cached /\ n.agent = b.agent
  BY BuildFacts DEF Build
<1> HIDE DEF n
<1>3. /\ turn' \in [Turns -> Turn]
      /\ \A t \in Turns : /\ t \notin b.waiting => turn'[t] = turn[t]
                          /\ t \in b.waiting => /\ turn'[t].at = "served"
                                                /\ turn'[t].agent = b.agent
                                                /\ turn'[t].floor = turn[t].floor
                                                /\ turn'[t].since = turn[t].since
                                                /\ turn'[t].shaky = turn[t].shaky
  <2>1. TypeOK /\ b.waiting \in SUBSET Turns /\ b.agent \in Agent /\ serve(b.waiting, b.agent)
    BY <1>1, BuildFacts
  <2> QED BY <2>1, ServeFacts
<1>4. \A c \in builds \ {b} : \A t \in c.waiting : t \in Turns /\ t \notin b.waiting
  BY BuildFacts DEF BuildInv
<1>5. TurnInv'
  <2>1. \A t \in b.waiting : turn[t].at = "building" /\ turn[t].floor <= b.agent.capabilities
                             /\ turn[t].since <= b.agent.settings
    BY <1>1 DEF BuildInv
  <2> QED BY <1>1, <1>3, <2>1 DEF TurnInv, manager, world
<1>6. BuildInv'
  <2>1. \A c \in builds' : \/ c \in builds \ {b} /\ \A t \in c.waiting : turn'[t] = turn[t]
                           \/ c = n /\ b.cached
    BY <1>1, <1>3, <1>4
  <2>2. \A c \in builds' :
          /\ c.at # "rejected"
          /\ c.at = "done" => c.cached /\ c.waiting = {}
          /\ c.cached /\ c.at # "resolving" =>
               c.agent.capabilities = dependencies /\ applied <= c.agent.settings
          /\ c.at # "resolving" => c.agent.settings <= settings
          /\ \A t \in c.waiting : turn'[t].at = "building"
          /\ c.at = "compiling" => \A t \in c.waiting : /\ turn'[t].floor <= c.agent.capabilities
                                                        /\ turn'[t].since <= c.agent.settings
    BY <1>1, <1>2, <2>1 DEF BuildInv
  <2>3. \A c, d \in builds' : c.waiting \cap d.waiting # {} => c = d
    BY <1>2, <2>1 DEF BuildInv
  <2> QED BY <1>1, <2>2, <2>3 DEF BuildInv, manager, world
<1>7. builds' \subseteq Build
  BY <1>1, <1>2 DEF TypeOK
<1>8. \A t \in Turns : turn[t].at = "reloading" => turn'[t] = turn[t]
  BY <1>3, BuildFacts
<1> QED BY <1>1, <1>3, <1>5, <1>6, <1>7, <1>8, TurnStep

LEMMA RejectedStep == ASSUME GraphInv, NEW b \in builds, Rejected(b) PROVE GraphInv'
<1> USE DEF GraphInv
<1> DEFINE m == b.agent.model
           old == {c \in (builds \ {b}) \cap cacheOf(m) : c.waiting # {}}
           uncached(c) == [c EXCEPT !.cached = FALSE]
<1>1. /\ b.at = "resolving" /\ m \notin works /\ fail(b)
      /\ builds' = ((builds \ {b}) \ cacheOf(m)) \cup {uncached(c) : c \in old}
      /\ UNCHANGED <<manager, updates, selection, patched, world>>
  BY DEF Rejected
<1>2. m \in Models /\ b \in Build
  BY BuildFacts DEF Agent
<1>3. /\ turn' \in [Turns -> Turn]
      /\ \A t \in Turns : /\ t \notin b.waiting => turn'[t] = turn[t]
                          /\ t \in b.waiting => /\ turn'[t].at = "failed"
                                                /\ turn'[t].culprit = m
                                                /\ turn'[t].floor = turn[t].floor
                                                /\ turn'[t].since = turn[t].since
                                                /\ turn'[t].shaky = turn[t].shaky
  BY <1>1, <1>2, FailFacts
<1>4. \A c \in builds \ {b} : \A t \in c.waiting : t \in Turns /\ t \notin b.waiting
  BY BuildFacts DEF BuildInv
<1>5. \A c \in old : /\ c \in builds \ {b} /\ c.at # "done" /\ uncached(c) \in Build
                     /\ uncached(c).at = c.at /\ uncached(c).waiting = c.waiting
                     /\ uncached(c).agent = c.agent /\ uncached(c).cached = FALSE
  BY DEF BuildInv, TypeOK, Build
<1>6. TurnInv'
  <2>1. \A t \in b.waiting : turn[t].at = "building" /\ m \in turn[t].shaky
    BY <1>1, <1>2, BuildFacts DEF BuildInv, TurnInv
  <2> QED BY <1>1, <1>3, <2>1 DEF TurnInv, manager, world
<1>7. \A c \in builds' : \/ c \in builds \ {b} /\ \A t \in c.waiting : turn'[t] = turn[t]
                         \/ \E d \in old : /\ c = uncached(d) /\ c.at = d.at /\ c.at # "done"
                                           /\ c.waiting = d.waiting /\ c.agent = d.agent
                                           /\ c.cached = FALSE
                                           /\ \A t \in c.waiting : turn'[t] = turn[t]
  <2>1. \A c \in builds \ {b} : \A t \in c.waiting : turn'[t] = turn[t]
    BY <1>3, <1>4
  <2> HIDE DEF uncached, old, m
  <2> QED BY <1>1, <1>5, <2>1
<1>8. BuildInv'
  <2>1. \A c \in builds' :
          /\ c.at # "rejected"
          /\ c.at = "done" => c.cached /\ c.waiting = {}
          /\ c.cached /\ c.at # "resolving" =>
               c.agent.capabilities = dependencies /\ applied <= c.agent.settings
          /\ c.at # "resolving" => c.agent.settings <= settings
          /\ \A t \in c.waiting : turn'[t].at = "building"
          /\ c.at = "compiling" => \A t \in c.waiting : /\ turn'[t].floor <= c.agent.capabilities
                                                        /\ turn'[t].since <= c.agent.settings
    <3>1. \A d \in old : d \in builds
      BY <1>5
    <3> HIDE DEF uncached, old, m
    <3> QED BY <1>7, <3>1 DEF BuildInv
  <2>2. ASSUME NEW c \in builds', NEW d \in builds', NEW t \in c.waiting, t \in d.waiting
        PROVE  c = d
    <3>1. PICK e \in builds : /\ t \in e.waiting
                              /\ \/ c = e /\ e \notin old
                                 \/ c = uncached(e) /\ e \in old
      <4>1. \A g \in old : uncached(g).waiting = g.waiting /\ g \in builds
        BY <1>5
      <4>2. \A g \in (builds \ {b}) \ cacheOf(m) : g \notin old
        OBVIOUS
      <4> HIDE DEF uncached, old, m
      <4> QED BY <1>1, <2>2, <4>1, <4>2
    <3>2. PICK f \in builds : /\ t \in f.waiting
                              /\ \/ d = f /\ f \notin old
                                 \/ d = uncached(f) /\ f \in old
      <4>1. \A g \in old : uncached(g).waiting = g.waiting /\ g \in builds
        BY <1>5
      <4>2. \A g \in (builds \ {b}) \ cacheOf(m) : g \notin old
        OBVIOUS
      <4> HIDE DEF uncached, old, m
      <4> QED BY <1>1, <2>2, <4>1, <4>2
    <3>3. e = f
      BY <3>1, <3>2 DEF BuildInv
    <3> HIDE DEF uncached, old, m
    <3> QED BY <3>1, <3>2, <3>3
  <2> QED BY <1>1, <2>1, <2>2 DEF BuildInv, manager, world
<1>9. builds' \subseteq Build
  <2> HIDE DEF uncached, old, m
  <2> QED BY <1>1, <1>5 DEF TypeOK
<1>10. \A t \in Turns : turn[t].at = "reloading" => turn'[t] = turn[t]
  BY <1>3, BuildFacts
<1> QED BY <1>1, <1>3, <1>6, <1>8, <1>9, <1>10, TurnStep

LEMMA LeaveStep == ASSUME GraphInv, NEW t \in Turns, Leave(t) PROVE GraphInv'
<1> USE DEF GraphInv
<1> DEFINE r == idleTurn(turn[t].model)
<1>1. /\ turn[t].at \in {"served", "failed"} /\ turn' = [turn EXCEPT ![t] = r]
      /\ UNCHANGED <<manager, builds, updates, selection, patched, world>>
  BY DEF Leave
<1>2. r \in Turn /\ r.at = "idle"
  BY BuildFacts DEF idleTurn, agentOf, Turn, Agent, TypeOK
<1> HIDE DEF r
<1>3. /\ turn' \in [Turns -> Turn] /\ turn'[t].at = "idle"
      /\ \A s \in Turns : s # t => turn'[s] = turn[s]
  BY <1>1, <1>2 DEF TypeOK
<1>4. TurnInv'
  BY <1>1, <1>3 DEF TurnInv, manager, world
<1>5. BuildInv'
  <2>1. \A b \in builds : \A s \in b.waiting : turn'[s] = turn[s]
    BY <1>1, <1>3, BuildFacts
  <2> QED BY <1>1, <2>1 DEF BuildInv, manager, world
<1>6. builds' \subseteq Build
  BY <1>1 DEF TypeOK
<1> QED BY <1>1, <1>3, <1>4, <1>5, <1>6, TurnStep

-----------------------------------------------------------------------------
(* The steps that ask for an update, and those that only change the world.  *)

LEMMA UpdateFacts ==
  ASSUME NEW kind \in {"rebuild", "replace", "default"}, NEW m \in Models, NEW c \in Nat,
         NEW t \in Turns \cup {NoTurn}
  PROVE  /\ update(kind, m, c, t) \in Update
         /\ update(kind, m, c, t).kind = kind /\ update(kind, m, c, t).model = m
         /\ update(kind, m, c, t).at = "waiting" /\ update(kind, m, c, t).capabilities = c
         /\ update(kind, m, c, t).waiter = t
BY DEF update, Update

(* A replacement that is queued is the latest. *)
LEMMA EnqueueQueue ==
  ASSUME TypeOK, QueueInv, AppliedInv, NEW u \in Update, enqueueUpdate(u), u.at = "waiting",
         u.kind = "replace" => u.capabilities = replaced' /\ replaced' > replaced,
         replaced' \in Nat, replaced' >= replaced,
         UNCHANGED <<dependencies, applied, settings>>
  PROVE  QueueInv'
<1> DEFINE last == Len(updates) + 1
<1>1. /\ Queued' = Queued \cup {last} /\ last \notin Queued /\ updates'[last] = u
      /\ \A i \in Queued : updates'[i] = updates[i]
  BY EnqueueFacts
<1>2. /\ \A i \in Queued : i < last /\ i \in Nat /\ updates[i].capabilities \in Nat
      /\ last \in Nat
  BY QueueFacts DEF Queued, Update
<1>3. dependencies \in Nat /\ replaced \in Nat /\ dependencies <= replaced
  BY DEF TypeOK, AppliedInv
<1>4. \A i \in Queued' : i \in Queued \/ i = last
  BY <1>1
<1> HIDE DEF last
<1>5. \A i \in Queued' : /\ i # 1 => updates'[i].at = "waiting"
                         /\ updates'[i].kind = "default" => updates'[i].at # "building"
                         /\ updates'[i].kind = "replace" =>
                              dependencies < updates'[i].capabilities
                              /\ updates'[i].capabilities <= replaced'
                         /\ updates'[i].kind # "replace" /\ updates'[i].at # "waiting" =>
                              updates'[i].capabilities = dependencies
                         /\ updates'[i].at = "compiling" =>
                              applied <= updates'[i].settings
                              /\ updates'[i].settings <= settings
  BY <1>1, <1>2, <1>3, <1>4 DEF QueueInv
<1>6. \A i, j \in Queued' :
        updates'[i].kind = "replace" /\ updates'[j].kind = "replace" /\ i < j
          => updates'[i].capabilities < updates'[j].capabilities
  BY <1>1, <1>2, <1>3, <1>4 DEF QueueInv
<1> QED BY <1>5, <1>6 DEF QueueInv

LEMMA EnqueueWaiter ==
  ASSUME TypeOK, WaiterInv, NEW u \in Update, enqueueUpdate(u), u.at = "waiting",
         u.waiter # NoTurn => turn'[u.waiter].at = "reloading" /\ turn[u.waiter].at = "idle",
         \A t \in Turns : turn[t].at = "reloading" =>
           turn'[t].at = "reloading" /\ turn'[t].since = turn[t].since
  PROVE  WaiterInv'
<1> DEFINE last == Len(updates) + 1
<1>1. /\ Queued' = Queued \cup {last} /\ last \notin Queued /\ updates'[last] = u
      /\ \A i \in Queued : updates'[i] = updates[i]
  BY EnqueueFacts
<1>2. \A i \in Queued : updates[i].waiter # NoTurn => updates[i].waiter \in Turns
  BY QueueFacts DEF Update
<1>3. \A i \in Queued' : i \in Queued \/ i = last
  BY <1>1
<1> HIDE DEF last
<1>4. \A i \in Queued : updates[i].waiter # NoTurn => updates[i].waiter # u.waiter
  BY DEF WaiterInv
<1> QED BY <1>1, <1>2, <1>3, <1>4 DEF WaiterInv

LEMMA EnqueueDefault ==
  ASSUME TypeOK, DefaultInv, NEW u \in Update, enqueueUpdate(u), u.kind # "default",
         UNCHANGED <<hostModel, modelId, setBack>>
  PROVE  DefaultInv'
<1>1. PICK last :
        /\ Queued' = Queued \cup {last} /\ last \notin Queued /\ updates'[last] = u
        /\ \A i \in Queued : updates'[i] = updates[i]
  BY EnqueueFacts
<1>2. /\ ~changesDefault(last)'
      /\ \A i \in Queued : changesDefault(i)' = changesDefault(i)
  BY <1>1 DEF changesDefault
<1> QED BY <1>1, <1>2 DEF DefaultInv

LEMMA AskStep == ASSUME GraphInv, NEW t \in Turns, NEW m \in Models, Ask(t, m) PROVE GraphInv'
<1> USE DEF GraphInv
<1> DEFINE moment == IF settings = applied THEN "settled" ELSE "reloading"
           r  == [idleTurn(m) EXCEPT !.at = moment, !.floor = dependencies, !.since = settings,
                                     !.shaky = Models \ works]
           u  == update("rebuild", modelId, dependencies, t)
<1>1. /\ turn[t].at = "idle" /\ turn' = [turn EXCEPT ![t] = r]
      /\ settings = applied => UNCHANGED updates
      /\ settings # applied => enqueueUpdate(u)
      /\ UNCHANGED <<manager, builds, selection, patched, world>>
  BY DEF Ask
<1>2. /\ dependencies \in Nat /\ applied \in Nat /\ settings \in Nat /\ replaced \in Nat
      /\ modelId \in Models
  BY DEF TypeOK
<1>3. /\ r \in Turn /\ r.at = moment /\ r.floor = dependencies /\ r.since = settings
      /\ r.shaky = Models \ works
  <2>1. idleTurn(m) \in Turn
    BY DEF idleTurn, agentOf, Turn, Agent
  <2>2. moment \in {"settled", "reloading"}
    OBVIOUS
  <2> HIDE DEF moment
  <2> QED BY <1>2, <2>1, <2>2 DEF Turn
<1>4. u \in Update /\ u.kind = "rebuild" /\ u.at = "waiting" /\ u.waiter = t
  BY <1>2, UpdateFacts
<1> HIDE DEF r, u
<1>5. /\ turn' \in [Turns -> Turn] /\ turn'[t] = r
      /\ \A s \in Turns : s # t => turn'[s] = turn[s]
  BY <1>1, <1>3 DEF TypeOK
<1>6. TurnInv'
  BY <1>1, <1>2, <1>3, <1>5 DEF TurnInv, manager, world
<1>7. BuildInv'
  <2>1. \A b \in builds : \A s \in b.waiting : turn'[s] = turn[s]
    BY <1>1, <1>5, BuildFacts
  <2> QED BY <1>1, <2>1 DEF BuildInv, manager, world
<1>8. CASE settings = applied
  <2>1. builds' \subseteq Build /\ UNCHANGED updates
    BY <1>1, <1>8 DEF TypeOK
  <2>2. \A s \in Turns : turn[s].at = "reloading" => turn'[s] = turn[s]
    BY <1>1, <1>5
  <2> QED BY <1>1, <1>5, <1>6, <1>7, <2>1, <2>2, TurnStep
<1>9. CASE settings # applied
  <2>1. enqueueUpdate(u) /\ moment = "reloading"
    BY <1>1, <1>9
  <2>2. TypeOK'
    BY <1>1, <1>4, <1>5, <2>1, EnqueueFacts DEF TypeOK, manager, selection, world
  <2>3. AppliedInv'
    BY <1>1 DEF AppliedInv, manager, world
  <2>4. QueueInv'
    BY <1>1, <1>2, <1>4, <2>1, EnqueueQueue DEF manager, world
  <2>5. WaiterInv'
    <3>1. u.waiter # NoTurn => turn'[u.waiter].at = "reloading" /\ turn[u.waiter].at = "idle"
      BY <1>1, <1>3, <1>4, <1>5, <2>1
    <3>2. \A s \in Turns : turn[s].at = "reloading" =>
            turn'[s].at = "reloading" /\ turn'[s].since = turn[s].since
      BY <1>1, <1>5
    <3> QED BY <1>4, <2>1, <3>1, <3>2, EnqueueWaiter
  <2>6. DefaultInv'
    BY <1>1, <1>4, <2>1, EnqueueDefault DEF manager, selection
  <2> QED BY <1>6, <1>7, <2>2, <2>3, <2>4, <2>5, <2>6
<1> QED BY <1>8, <1>9

LEMMA ReplaceCapabilitiesStep == ASSUME GraphInv, ReplaceCapabilities PROVE GraphInv'
<1> USE DEF GraphInv
<1> DEFINE u == update("replace", modelId, replaced + 1, NoTurn)
<1>1. /\ enqueueUpdate(u) /\ replaced' = replaced + 1 /\ changes' = changes + 1
      /\ UNCHANGED <<manager, builds, selection, patched, turn, settings, works>>
  BY DEF ReplaceCapabilities, change
<1>2. replaced \in Nat /\ changes \in Nat /\ modelId \in Models /\ dependencies \in Nat
  BY DEF TypeOK
<1>3. /\ u \in Update /\ u.kind = "replace" /\ u.at = "waiting" /\ u.waiter = NoTurn
      /\ u.capabilities = replaced + 1
  BY <1>2, UpdateFacts
<1> HIDE DEF u
<1>4. TypeOK'
  BY <1>1, <1>2, <1>3, EnqueueFacts DEF TypeOK, manager, selection
<1>5. AppliedInv'
  BY <1>1, <1>2 DEF AppliedInv, manager
<1>6. QueueInv'
  <2>1. /\ replaced' \in Nat /\ replaced' > replaced /\ replaced' >= replaced
        /\ u.capabilities = replaced'
    BY <1>1, <1>2, <1>3
  <2>2. UNCHANGED <<dependencies, applied, settings>>
    BY <1>1 DEF manager
  <2> QED BY <1>1, <1>3, <2>1, <2>2, EnqueueQueue
<1>7. WaiterInv'
  BY <1>1, <1>3, EnqueueWaiter
<1>8. DefaultInv'
  BY <1>1, <1>3, EnqueueDefault DEF manager, selection
<1>9. BuildInv' /\ TurnInv'
  BY <1>1 DEF BuildInv, TurnInv, manager
<1> QED BY <1>4, <1>5, <1>6, <1>7, <1>8, <1>9

LEMMA PatchSettingsStep == ASSUME GraphInv, PatchSettings PROVE GraphInv'
<1> USE DEF GraphInv
<1>1. /\ settings' = settings + 1 /\ patched' = patched + 1 /\ changes' = changes + 1
      /\ UNCHANGED <<manager, builds, updates, selection, turn, replaced, works>>
  BY DEF PatchSettings, change
<1>2. settings \in Nat /\ settings' \in Nat /\ settings' >= settings /\ settings <= settings'
      /\ patched' \in Nat /\ changes' \in Nat /\ replaced \in Nat /\ applied \in Nat
  BY <1>1 DEF TypeOK
<1>3. TypeOK'
  BY <1>1, <1>2 DEF TypeOK, manager, selection
<1>4. AppliedInv'
  BY <1>1, <1>2 DEF AppliedInv, manager
<1>5. QueueInv'
  BY <1>1, <1>2, QueueKeeps DEF manager
<1>6. WaiterInv' /\ DefaultInv'
  BY <1>1 DEF WaiterInv, DefaultInv, Queued, changesDefault, manager, selection
<1>7. BuildInv'
  BY <1>1, <1>2, BuildFacts DEF BuildInv, manager
<1>8. TurnInv'
  <2>1. \A t \in Turns : turn[t].since \in Nat
    BY DEF TypeOK, Turn
  <2> QED BY <1>1, <1>2, <2>1 DEF TurnInv, manager
<1> QED BY <1>3, <1>4, <1>5, <1>6, <1>7, <1>8

LEMMA ReloadSettingsStep == ASSUME GraphInv, ReloadSettings PROVE GraphInv'
<1> USE DEF GraphInv
<1> DEFINE u == update("rebuild", modelId, dependencies, NoTurn)
<1>1. /\ patched > 0 /\ patched' = patched - 1 /\ enqueueUpdate(u)
      /\ UNCHANGED <<manager, builds, selection, turn, world>>
  BY DEF ReloadSettings
<1>2. patched' \in Nat /\ modelId \in Models /\ dependencies \in Nat /\ replaced \in Nat
  BY <1>1 DEF TypeOK
<1>3. u \in Update /\ u.kind = "rebuild" /\ u.at = "waiting" /\ u.waiter = NoTurn
  BY <1>2, UpdateFacts
<1> HIDE DEF u
<1>4. TypeOK'
  BY <1>1, <1>2, <1>3, EnqueueFacts DEF TypeOK, manager, selection, world
<1>5. AppliedInv'
  BY <1>1 DEF AppliedInv, manager, world
<1>6. QueueInv'
  BY <1>1, <1>2, <1>3, EnqueueQueue DEF manager, world
<1>7. WaiterInv'
  BY <1>1, <1>3, EnqueueWaiter
<1>8. DefaultInv'
  BY <1>1, <1>3, EnqueueDefault DEF manager, selection
<1>9. BuildInv' /\ TurnInv'
  BY <1>1 DEF BuildInv, TurnInv, manager, world
<1> QED BY <1>4, <1>5, <1>6, <1>7, <1>8, <1>9

LEMMA WorksFacts ==
  ASSUME GraphInv, NEW m \in Models, setWorks(m)
  PROVE  /\ works' \subseteq Models /\ changes' \in Nat /\ UNCHANGED <<settings, replaced>>
         /\ turn' \in [Turns -> Turn]
         /\ \A t \in Turns :
              /\ turn'[t].at = turn[t].at /\ turn'[t].floor = turn[t].floor
              /\ turn'[t].since = turn[t].since /\ turn'[t].agent = turn[t].agent
              /\ turn'[t].culprit = turn[t].culprit
              /\ turn[t].at # "idle" => /\ turn[t].shaky \subseteq turn'[t].shaky
                                        /\ Models \ works' \subseteq turn'[t].shaky
<1> DEFINE s(t) == IF turn[t].at = "idle" THEN {} ELSE turn[t].shaky \cup (Models \ works')
           r(t) == [turn[t] EXCEPT !.shaky = s(t)]
<1>1. /\ works' \subseteq Models /\ changes' \in Nat /\ UNCHANGED <<settings, replaced>>
      /\ turn' = [t \in Turns |-> r(t)]
  BY DEF setWorks, change, GraphInv, TypeOK
<1>2. \A t \in Turns : turn[t] \in Turn /\ s(t) \in SUBSET Models
  BY DEF GraphInv, TypeOK, Turn
<1>3. \A t \in Turns : turn[t].at # "idle" => /\ turn[t].shaky \subseteq s(t)
                                              /\ Models \ works' \subseteq s(t)
  OBVIOUS
<1> HIDE DEF s
<1>4. \A t \in Turns : /\ r(t) \in Turn /\ r(t).shaky = s(t)
                       /\ r(t).at = turn[t].at /\ r(t).floor = turn[t].floor
                       /\ r(t).since = turn[t].since /\ r(t).agent = turn[t].agent
                       /\ r(t).culprit = turn[t].culprit
  BY <1>2 DEF Turn
<1> HIDE DEF r
<1> QED BY <1>1, <1>3, <1>4

(* What the turns and the builds lose by a change of the providers. *)
LEMMA WorksKeeps ==
  ASSUME GraphInv, NEW m \in Models, setWorks(m), UNCHANGED <<manager, builds>>
  PROVE  BuildInv' /\ TurnInv' /\ AppliedInv'
<1>1. BuildInv'
  <2>1. \A b \in builds : \A t \in b.waiting : t \in Turns
    BY BuildFacts
  <2> QED BY <2>1, WorksFacts DEF GraphInv, BuildInv, manager
<1>2. TurnInv'
  BY WorksFacts DEF GraphInv, TurnInv, manager
<1>3. AppliedInv'
  BY WorksFacts DEF GraphInv, AppliedInv, manager
<1> QED BY <1>1, <1>2, <1>3

LEMMA OutageStep == ASSUME GraphInv, NEW m \in Models, Outage(m) PROVE GraphInv'
<1> USE DEF GraphInv
<1>1. setWorks(m) /\ UNCHANGED <<manager, builds, updates, selection, patched>>
  BY DEF Outage
<1>2. TypeOK'
  BY <1>1, WorksFacts DEF TypeOK, manager, selection
<1>3. QueueInv'
  BY <1>1, WorksFacts, QueueKeeps DEF TypeOK, manager
<1>4. WaiterInv'
  <2>1. \A i \in Queued : updates[i].waiter # NoTurn => updates[i].waiter \in Turns
    BY QueueFacts DEF Update
  <2> QED BY <1>1, <2>1, WorksFacts DEF WaiterInv, Queued
<1>5. DefaultInv'
  BY <1>1 DEF DefaultInv, Queued, changesDefault, manager, selection
<1> QED BY <1>1, <1>2, <1>3, <1>4, <1>5, WorksKeeps

LEMMA ConfigureProviderStep ==
  ASSUME GraphInv, NEW m \in Models, ConfigureProvider(m) PROVE GraphInv'
<1> USE DEF GraphInv
<1> DEFINE u == update("rebuild", modelId, dependencies, NoTurn)
<1>1. /\ setWorks(m) /\ enqueueUpdate(u) /\ UNCHANGED <<manager, builds, selection, patched>>
  BY DEF ConfigureProvider
<1>2. modelId \in Models /\ dependencies \in Nat /\ replaced \in Nat
  BY DEF TypeOK
<1>3. u \in Update /\ u.kind = "rebuild" /\ u.at = "waiting" /\ u.waiter = NoTurn
  BY <1>2, UpdateFacts
<1> HIDE DEF u
<1>4. TypeOK'
  BY <1>1, <1>2, <1>3, WorksFacts, EnqueueFacts DEF TypeOK, manager, selection
<1>5. QueueInv'
  <2>1. replaced' \in Nat /\ replaced' >= replaced /\ UNCHANGED <<dependencies, applied, settings>>
    BY <1>1, <1>2, WorksFacts DEF manager
  <2> QED BY <1>1, <1>3, <2>1, EnqueueQueue
<1>6. WaiterInv'
  <2>1. \A t \in Turns : turn[t].at = "reloading" =>
          turn'[t].at = "reloading" /\ turn'[t].since = turn[t].since
    BY <1>1, WorksFacts
  <2> QED BY <1>1, <1>3, <2>1, EnqueueWaiter
<1>7. DefaultInv'
  BY <1>1, <1>3, EnqueueDefault DEF manager, selection
<1> QED BY <1>1, <1>4, <1>5, <1>6, <1>7, WorksKeeps

LEMMA ChooseDefaultStep == ASSUME GraphInv, NEW m \in Models, ChooseDefault(m) PROVE GraphInv'
<1> USE DEF GraphInv
<1>1. /\ choosing' = choosing \cup {m} /\ changes' = changes + 1
      /\ UNCHANGED <<manager, builds, updates, hostModel, setBack, patched, turn, settings,
                     replaced, works>>
  BY DEF ChooseDefault, change
<1>2. TypeOK'
  BY <1>1 DEF TypeOK, manager
<1>3. AppliedInv' /\ QueueInv' /\ WaiterInv' /\ DefaultInv'
  BY <1>1 DEF AppliedInv, QueueInv, WaiterInv, DefaultInv, Queued, changesDefault, manager
<1>4. BuildInv' /\ TurnInv'
  BY <1>1 DEF BuildInv, TurnInv, manager
<1> QED BY <1>2, <1>3, <1>4

LEMMA SettleDefaultStep == ASSUME GraphInv, NEW m \in Models, SettleDefault(m) PROVE GraphInv'
<1> USE DEF GraphInv
<1> DEFINE u == update("default", m, 0, NoTurn)
<1>1. /\ choosing' = choosing \ {m} /\ hostModel' = m /\ setBack' = (m = modelId /\ switching)
      /\ m = modelId => UNCHANGED updates
      /\ m # modelId => enqueueUpdate(u)
      /\ UNCHANGED <<manager, builds, patched, turn, world>>
  BY DEF SettleDefault
<1>2. replaced \in Nat /\ setBack' \in BOOLEAN
  BY <1>1 DEF TypeOK
<1>3. /\ u \in Update /\ u.kind = "default" /\ u.at = "waiting" /\ u.waiter = NoTurn
      /\ u.model = m
  BY UpdateFacts
<1> HIDE DEF u
<1>4. AppliedInv' /\ BuildInv' /\ TurnInv'
  BY <1>1 DEF AppliedInv, BuildInv, TurnInv, manager, world
<1>5. CASE m = modelId
  <2>1. UNCHANGED updates
    BY <1>1, <1>5
  <2>2. TypeOK'
    BY <1>1, <1>2, <2>1 DEF TypeOK, manager, world
  <2>3. QueueInv' /\ WaiterInv'
    BY <1>1, <2>1 DEF QueueInv, WaiterInv, Queued, manager, world
  <2>4. ASSUME ~setBack' PROVE DefaultInv'
    <3>1. \A i \in Queued : ~changesDefault(i)
      BY <1>1, <1>5, <2>4 DEF switching, changesDefault, Queued
    <3>2. hostModel' = modelId'
      BY <1>1, <1>5 DEF manager
    <3> QED BY <2>1, <3>1, <3>2 DEF DefaultInv, Queued, changesDefault
  <2>5. DefaultInv'
    BY <2>4 DEF DefaultInv
  <2> QED BY <1>4, <2>2, <2>3, <2>5
<1>6. CASE m # modelId
  <2>1. enqueueUpdate(u)
    BY <1>1, <1>6
  <2>2. TypeOK'
    BY <1>1, <1>2, <1>3, <2>1, EnqueueFacts DEF TypeOK, manager, world
  <2>3. QueueInv'
    BY <1>1, <1>2, <1>3, <2>1, EnqueueQueue DEF manager, world
  <2>4. WaiterInv'
    BY <1>1, <1>3, <2>1, EnqueueWaiter
  <2>5. DefaultInv'
    <3>1. PICK last : /\ last = Len(updates) + 1
                      /\ Queued' = Queued \cup {last} /\ updates'[last] = u
      BY <1>3, <2>1, EnqueueFacts
    <3>2. changesDefault(last)' /\ updates'[last].model = hostModel'
      BY <1>1, <1>3, <3>1 DEF changesDefault
    <3>3. \A j \in Queued' : ~(j > last)
      BY <3>1, QueueFacts DEF Queued
    <3> QED BY <3>1, <3>2, <3>3 DEF DefaultInv
  <2> QED BY <1>4, <2>2, <2>3, <2>4, <2>5
<1> QED BY <1>5, <1>6

LEMMA NextStep == ASSUME GraphInv, [Next]_vars PROVE GraphInv'
<1>1. CASE UNCHANGED vars
  BY <1>1, StutterStep
<1>2. CASE BeginUpdate \/ ModelBuilt \/ UpdateFails \/ Apply
  BY <1>2, BeginUpdateStep, ModelBuiltStep, UpdateFailsStep, ApplyStep
<1>3. ASSUME NEW t \in Turns, (\E m \in Models : Ask(t, m)) \/ Pick(t) \/ Leave(t)
      PROVE  GraphInv'
  BY <1>3, AskStep, PickStep, LeaveStep
<1>4. ASSUME NEW b \in builds, Resolved(b) \/ Compiled(b) \/ Rejected(b) PROVE GraphInv'
  BY <1>4, ResolvedStep, CompiledStep, RejectedStep
<1>5. ASSUME NEW m \in Models,
             ChooseDefault(m) \/ SettleDefault(m) \/ ConfigureProvider(m) \/ Outage(m)
      PROVE  GraphInv'
  BY <1>5, ChooseDefaultStep, SettleDefaultStep, ConfigureProviderStep, OutageStep
<1>6. CASE ReplaceCapabilities \/ PatchSettings \/ ReloadSettings
  BY <1>6, ReplaceCapabilitiesStep, PatchSettingsStep, ReloadSettingsStep
<1> QED BY <1>1, <1>2, <1>3, <1>4, <1>5, <1>6 DEF Next

-----------------------------------------------------------------------------
(* The theorems. *)

(* However updates, builds, turns and changes interleave, the graph manager *)
(* applies replacements in the order of their announcement, its cache holds *)
(* only what is applied, and no turn waits for two answers.                 *)
THEOREM GraphInvariant == Spec => []GraphInv
BY InitInv, NextStep, PTL DEF Spec

(* GraphManager.setDefaultModel queues every change after those before it,  *)
(* so that the manager ends on the default that the host stored.            *)
THEOREM DefaultsAgreeHolds == Spec => []DefaultsAgree
<1>1. GraphInv => DefaultsAgree
  <2> SUFFICES ASSUME GraphInv, updates = <<>>, choosing = {}, ~setBack PROVE hostModel = modelId
    BY DEF GraphInv, DefaultsAgree
  <2>1. Queued = {}
    BY EmptySeq DEF Queued
  <2> QED BY <2>1 DEF GraphInv, DefaultInv
<1> QED BY <1>1, GraphInvariant, PTL

(* No turn is ever served by an agent with capabilities or settings that    *)
(* were replaced before it asked.                                           *)
THEOREM AgentsAreUpToDateHolds == Spec => []AgentsAreUpToDate
<1>1. GraphInv => AgentsAreUpToDate
  <2> SUFFICES ASSUME GraphInv, NEW t \in Turns, turn[t].at = "served"
               PROVE  /\ turn[t].agent.capabilities >= turn[t].floor
                      /\ turn[t].agent.settings >= turn[t].since
    BY DEF AgentsAreUpToDate, RevokedCapabilitiesUnused, SettingsInForce
  <2>1. turn[t].floor <= turn[t].agent.capabilities /\ turn[t].since <= turn[t].agent.settings
    BY DEF GraphInv, TurnInv
  <2> QED BY <2>1
<1> QED BY <1>1, GraphInvariant, PTL

(* A rejected build never outlives its failure: whoever asks later fails    *)
(* only over a model that cannot be built while it waits.                   *)
THEOREM FailuresHaveACauseHolds == Spec => []FailuresHaveACause
<1>1. GraphInv => FailuresHaveACause
  BY DEF GraphInv, TurnInv, FailuresHaveACause
<1> QED BY <1>1, GraphInvariant, PTL

-----------------------------------------------------------------------------
(* Plugins. *)

calm  == ~crossed /\ ~unmended
stage == IF latest = None THEN "none" ELSE request[latest].at
kind  == IF latest = None THEN "none" ELSE request[latest].kind
good(p) == p.root # None /\ p.whole
owned == latest # None /\ reloads # <<>> /\ Head(reloads).by = latest

Awaiting == {"reloading", "stopping", "restoring"}
Over     == {"idle", "done", "failed", "refused", "lost"}

StagesOf(k) ==
  CASE k = "none"    -> {"idle"}
    [] k = "import"  -> {"manifest", "rest", "reloading", "dirLeft", "cacheLeft", "restoring",
                         "done", "failed", "refused", "lost"}
    [] k = "removal" -> {"found", "stopping", "unlinking", "purging",
                         "done", "failed", "refused", "lost"}
    [] k = "reload"  -> {"reloading", "done", "failed", "lost"}

(* A request that waits for a reload has one entry in the queue.            *)
PluginQueueInv ==
  /\ \A r \in Requests : request[r].at \in StagesOf(request[r].kind)
  /\ reloads = <<>> => at = "idle"
  /\ \A i \in 1 .. Len(reloads) :
       reloads[i].by # None => request[reloads[i].by].at \in Awaiting
  /\ \A i, j \in 1 .. Len(reloads) : reloads[i].by = reloads[j].by => i = j

(* What a synchronization may fall back on is what state.json names, unless *)
(* the cache has been removed meanwhile.                                    *)
CacheInv ==
  /\ LastGoodIsKept
  /\ at \in {"syncing", "renamed"} => next.prev = cache.state \/ cache = NoCache
  /\ at = "renamed" => next.root \in Snapshot /\ (next.root \in cache.snaps \/ cache = NoCache)

(* Unless requests have crossed, the latest is the only one under way.      *)
LatestInv ==
  /\ ~crossed => changing \subseteq {latest}
  /\ latest # None => kind \in {"import", "removal"} /\ stage # "refused"

\* The latest answer says that nothing is left.
wiped == (kind = "import" /\ stage = "failed") \/ (kind = "removal" /\ stage = "done")

(* What the directory has at each stage of the latest request.              *)
DirInv ==
  /\ stage \in {"none", "manifest", "stopping", "unlinking"} => ~dir.manifest
  /\ stage \in {"cacheLeft", "restoring", "purging"} \/ wiped => Absent(dir)
  /\ stage = "rest" => dir.manifest
  /\ stage = "reloading" \/ (kind = "import" /\ stage = "done") => dir.manifest /\ dir.rest

Gone == loaded.root = None /\ next.root = None /\ at \in {"idle", "connecting"}

(* The server has forgotten a plugin that is not found, except while the    *)
(* reload that makes it forget is still to come.                            *)
GoneInv ==
  /\ ~dir.manifest /\ stage \notin {"stopping", "cacheLeft", "restoring"} => Gone
  /\ stage \in {"stopping", "restoring"} /\ owned /\ at # "idle" =>
        at = "connecting" /\ next.root = None
  /\ stage = "restoring" \/ wiped => cache = NoCache

(* The snapshot in use is the last good one, or about to be replaced by it. *)
UseInv ==
  stage # "restoring" =>
  /\ loaded.root \in Snapshot =>
       /\ loaded.root \in cache.snaps
       /\ \/ loaded.root = cache.state
          \/ at = "connecting" /\ next.root = cache.state /\ next.root \in Snapshot
  /\ at = "connecting" /\ next.root \in Snapshot =>
       next.root \in cache.snaps /\ next.root = cache.state

(* The reload that answers an import has found the whole plugin, and so     *)
(* does every later one.                                                    *)
LiveInv ==
  /\ at \in {"syncing", "renamed"} => dir.kind = "materialized"
  /\ stage = "reloading" /\ owned /\ at = "connecting" =>
       next.failed \/ (good(next) /\ (dir.kind = "materialized" => next.root \in Snapshot))
  /\ kind = "import" /\ stage = "done" =>
       /\ dir.kind = "materialized" => cache.state # None
       /\ warm => good(loaded)
       /\ at = "connecting" => good(next)

CalmInv == DirInv /\ GoneInv /\ UseInv /\ LiveInv
Inv     == PluginTypeOK /\ PluginQueueInv /\ CacheInv /\ LatestInv /\ (calm => CalmInv)

-----------------------------------------------------------------------------
(* Types. *)

Queue == Seq([reason : Reasons, by : Requests \cup {None}])

LEMMA Typed ==
  /\ NoPlugin \in Loaded /\ Error \in Loaded /\ NoCache \in Cache /\ boot \in Queue
  /\ \A root \in Snapshot \cup {None, Dir}, whole \in BOOLEAN : From(root, whole) \in Loaded
<1>1. NoPlugin \in Loaded
  BY DEF NoPlugin, Loaded
<1>3. Error \in Loaded
  BY <1>1 DEF Error, Loaded
<1>4. NoCache \in Cache
  BY DEF NoCache, Cache
<1>5. [reason |-> "startup", by |-> None] \in [reason : Reasons, by : Requests \cup {None}]
  BY DEF Reasons
<1>6. boot \in Queue
  BY <1>5 DEF boot, Queue
<1>7. \A root \in Snapshot \cup {None, Dir}, whole \in BOOLEAN : From(root, whole) \in Loaded
  BY DEF From, Loaded
<1> QED BY <1>1, <1>3, <1>4, <1>6, <1>7

LEMMA FallbackTyped ==
  ASSUME NEW prev \in Snapshot \cup {None}
  PROVE  snapshotOf(prev) \in Loaded
BY Typed DEF snapshotOf, Loaded

LEMMA GoTyped ==
  ASSUME PluginTypeOK, NEW r \in Requests, NEW where \in Stages, go(r, where)
  PROVE  request' \in [Requests -> Request]
BY DEF PluginTypeOK, go, Request

LEMMA BegunTyped ==
  ASSUME PluginTypeOK, NEW r \in Requests, NEW where \in Stages, NEW k \in {"import", "removal", "reload"},
         begin(r, k, where)
  PROVE  request' \in [Requests -> Request]
<1> DEFINE q == [request[r] EXCEPT !.kind = k, !.at = where]
<1>1. q \in Request
  BY DEF PluginTypeOK, Request
<1>2. request' = [request EXCEPT ![r] = q]
  BY DEF begin
<1> QED BY <1>1, <1>2 DEF PluginTypeOK

LEMMA TakenOverTyped ==
  ASSUME PluginTypeOK, NEW r \in Requests, takesOver(r)
  PROVE  {crossed', unmended'} \subseteq BOOLEAN /\ latest' \in Requests \cup {None}
BY DEF PluginTypeOK, takesOver

LEMMA EnqueuedTyped ==
  ASSUME PluginTypeOK, NEW reason \in Reasons, NEW r \in Requests, enqueue(reason, r)
  PROVE  reloads' \in Queue
BY DEF PluginTypeOK, enqueue, Queue

LEMMA UpsetTyped == ASSUME PluginTypeOK, upset PROVE upsets' \in 0 .. MaxUpsets
BY BoundsAssumption DEF PluginTypeOK, upset

(* What the end of the reload at the head does. *)
LEMMA AnsweredFacts ==
  ASSUME PluginTypeOK, PluginQueueInv, NEW ok \in BOOLEAN, reloads # <<>>, answered(ok)
  PROVE  /\ at' = "idle" /\ next' = NoPlugin /\ reloads' = Tail(reloads)
         /\ Head(reloads).by \in Requests \cup {None}
         /\ Head(reloads).by = None => request' = request
         /\ Head(reloads).by # None =>
              \E where \in {"done", "failed", "unlinking", "dirLeft"} :
                LET r == Head(reloads).by
                IN  /\ request' = [request EXCEPT ![r].at = where, ![r].mended = ok]
                    /\ request[r].kind = "reload" => where \in {"done", "failed"}
                    /\ request[r].kind = "removal" => where = "unlinking"
                    /\ request[r].kind \notin {"reload", "removal"} /\ request[r].at = "restoring" =>
                         where = "failed"
                    /\ request[r].kind \notin {"reload", "removal"} /\ request[r].at # "restoring" =>
                         where = IF ok /\ ~next.failed THEN "done" ELSE "dirLeft"
<1> DEFINE r == Head(reloads).by
<1>1. Head(reloads) \in [reason : Reasons, by : Requests \cup {None}]
  BY HeadTailProperties DEF PluginTypeOK
<1>2. r \in Requests \cup {None}
  BY <1>1
<1>3. at' = "idle" /\ next' = NoPlugin /\ reloads' = Tail(reloads)
  BY DEF answered, step
<1>4. CASE r = None
  BY <1>3, <1>4 DEF answered
<1>5. CASE r # None
  <2> DEFINE outcome == IF ok /\ ~next.failed THEN "done" ELSE "dirLeft"
             where ==
               CASE request[r].kind = "reload"  -> IF ok THEN "done" ELSE "failed"
                 [] request[r].kind = "removal" -> "unlinking"
                 [] request[r].at = "restoring" -> "failed"
                 [] OTHER -> outcome
  <2>1. request' = [request EXCEPT ![r].at = where, ![r].mended = ok]
    BY <1>5 DEF answered
  <2>7. request[r].at = "restoring" => request[r].kind \notin {"reload", "removal"}
    BY <1>2, <1>5 DEF PluginQueueInv, StagesOf
  <2>0. outcome \in {"done", "dirLeft"}
    OBVIOUS
  <2> HIDE DEF outcome
  <2>2. request[r].kind = "reload" => where \in {"done", "failed"}
    BY <2>7
  <2>3. request[r].kind = "removal" => where = "unlinking"
    BY <2>7
  <2>4. request[r].kind \notin {"reload", "removal"} /\ request[r].at = "restoring" => where = "failed"
    BY <2>7
  <2>5. request[r].kind \notin {"reload", "removal"} /\ request[r].at # "restoring" =>
          where = outcome
    OBVIOUS
  <2>6. where \in {"done", "failed", "unlinking", "dirLeft"}
    BY <2>0, <2>2, <2>3, <2>4, <2>5
  <2> QED BY <1>2, <1>3, <1>5, <2>1, <2>2, <2>3, <2>4, <2>5, <2>6 DEF outcome
<1> QED BY <1>2, <1>3, <1>4, <1>5

LEMMA AnsweredTyped ==
  ASSUME PluginTypeOK, PluginQueueInv, NEW ok \in BOOLEAN, reloads # <<>>, answered(ok)
  PROVE  /\ at' = "idle" /\ next' \in Loaded /\ reloads' \in Queue
         /\ request' \in [Requests -> Request]
<1>1. reloads' \in Queue
  <2>1. reloads \in Queue /\ reloads' = Tail(reloads)
    BY AnsweredFacts DEF PluginTypeOK, Queue
  <2> QED BY <2>1, HeadTailProperties DEF Queue
<1>2. CASE Head(reloads).by = None
  BY <1>1, <1>2, AnsweredFacts, Typed DEF PluginTypeOK
<1>3. CASE Head(reloads).by # None
  <2>1. PICK where \in {"done", "failed", "unlinking", "dirLeft"} :
          request' = [request EXCEPT ![Head(reloads).by].at = where,
                                     ![Head(reloads).by].mended = ok]
    BY <1>3, AnsweredFacts
  <2>2. Head(reloads).by \in Requests
    BY <1>3, AnsweredFacts
  <2> DEFINE r == Head(reloads).by
             q == [request[r] EXCEPT !.at = where, !.mended = ok]
  <2>3. q \in Request
    BY <2>2 DEF PluginTypeOK, Request, Stages
  <2>4. request' = [request EXCEPT ![r] = q]
    BY <2>1, <2>2 DEF PluginTypeOK
  <2> QED BY <1>1, <2>2, <2>3, <2>4, AnsweredFacts, Typed DEF PluginTypeOK
<1> QED BY <1>2, <1>3

LEMMA PluginInitInv == PluginInit => Inv
<1> SUFFICES ASSUME PluginInit PROVE Inv
  OBVIOUS
<1>1. reloads = boot /\ Len(reloads) = 1 /\ reloads[1] = [reason |-> "startup", by |-> None]
  BY DEF PluginInit, boot
<1>2. PluginTypeOK
  <2>1. request \in [Requests -> Request] /\ dir \in Directory /\ made \in 0 .. MaxSnapshots
        /\ upsets \in 0 .. MaxUpsets
    BY BoundsAssumption DEF PluginInit, Request, Stages, Directory, Kinds
  <2> QED BY <1>1, <2>1, Typed DEF PluginInit, PluginTypeOK, Queue
<1>3. PluginQueueInv
  BY <1>1, RequestsAssumption DEF PluginInit, PluginQueueInv, StagesOf
<1>4. CacheInv /\ LatestInv
  BY DEF PluginInit, CacheInv, LastGoodIsKept, NoCache, LatestInv, changing, over
<1>5. CalmInv
  BY DEF PluginInit, CalmInv, DirInv, wiped, GoneInv, UseInv, LiveInv, Gone, NoPlugin, NoCache, Snapshot,
         stage, kind, None
<1> QED BY <1>2, <1>3, <1>4, <1>5 DEF Inv

LEMMA TypeStep == ASSUME Inv, [PluginNext]_pluginVars PROVE PluginTypeOK'
<1>1. PluginTypeOK /\ PluginQueueInv
  BY DEF Inv
<1> USE DEF Stages
<1>2. ASSUME NEW r \in Requests, NEW k \in Kinds, Import(r, k) PROVE PluginTypeOK'
  <2>1. request' \in [Requests -> Request] /\ UNCHANGED <<cache, reload, made, upsets>>
    BY <1>1, <1>2, BegunTyped DEF Import
  <2>2. {crossed', unmended'} \subseteq BOOLEAN /\ latest' \in Requests \cup {None}
    BY <1>1, <1>2, TakenOverTyped DEF Import, PluginTypeOK, ghosts
  <2>3. dir' \in Directory /\ (dir'.manifest \/ dir'.rest => dir'.exists)
    BY <1>1, <1>2 DEF Import, PluginTypeOK, Directory
  <2> QED BY <1>1, <2>1, <2>2, <2>3 DEF PluginTypeOK, reload
<1>3. ASSUME NEW r \in Requests, WriteManifest(r) \/ RollBackDir(r) \/ RemoveDir(r) PROVE PluginTypeOK'
  <2>1. request' \in [Requests -> Request]
    BY <1>1, <1>3, GoTyped DEF WriteManifest, RollBackDir, RemoveDir
  <2>2. dir' \in Directory /\ (dir'.manifest \/ dir'.rest => dir'.exists)
    BY <1>1, <1>3 DEF WriteManifest, RollBackDir, RemoveDir, wipe, PluginTypeOK, Directory
  <2> QED BY <1>1, <1>3, <2>1, <2>2
          DEF WriteManifest, RollBackDir, RemoveDir, PluginTypeOK, reload, ghosts
<1>4. ASSUME NEW r \in Requests, WriteRest(r) \/ DropManifest(r) PROVE PluginTypeOK'
  <2>1. request' \in [Requests -> Request]
    BY <1>1, <1>4, GoTyped DEF WriteRest, DropManifest
  <2>2. dir' \in Directory /\ (dir'.manifest \/ dir'.rest => dir'.exists)
    BY <1>1, <1>4 DEF WriteRest, DropManifest, PluginTypeOK, Directory
  <2>3. reloads' \in Queue
    BY <1>1, <1>4, EnqueuedTyped DEF WriteRest, DropManifest, Reasons
  <2> QED BY <1>1, <1>4, <2>1, <2>2, <2>3 DEF WriteRest, DropManifest, PluginTypeOK, ghosts, Queue
<1>5. ASSUME NEW r \in Requests, WriteFails(r) \/ RemoveDirFails(r) PROVE PluginTypeOK'
  <2>1. request' \in [Requests -> Request] /\ upsets' \in 0 .. MaxUpsets
    BY <1>1, <1>5, GoTyped, UpsetTyped DEF WriteFails, RemoveDirFails
  <2>2. dir' \in Directory /\ (dir'.manifest \/ dir'.rest => dir'.exists)
    BY <1>1, <1>5 DEF WriteFails, RemoveDirFails, wipe, disk, PluginTypeOK, Directory
  <2> QED BY <1>1, <1>5, <2>1, <2>2 DEF WriteFails, RemoveDirFails, PluginTypeOK, reload, disk
<1>6. ASSUME NEW r \in Requests, RollBackCache(r) \/ AskReload(r) PROVE PluginTypeOK'
  <2>1. request' \in [Requests -> Request]
    BY <1>1, <1>6, GoTyped, BegunTyped DEF RollBackCache, AskReload
  <2>2. cache' \in Cache
    BY <1>1, <1>6, Typed DEF RollBackCache, AskReload, disk, PluginTypeOK
  <2>3. reloads' \in Queue
    BY <1>1, <1>6, EnqueuedTyped DEF RollBackCache, AskReload, Reasons
  <2> QED BY <1>1, <1>6, <2>1, <2>2, <2>3 DEF RollBackCache, AskReload, PluginTypeOK, ghosts, disk, Queue
<1>7. ASSUME NEW r \in Requests, Remove(r) PROVE PluginTypeOK'
  <2>1. request' \in [Requests -> Request] /\ UNCHANGED <<disk, reload, made, upsets>>
    BY <1>1, <1>7, BegunTyped DEF Remove
  <2>2. {crossed', unmended'} \subseteq BOOLEAN /\ latest' \in Requests \cup {None}
    BY <1>1, <1>7, TakenOverTyped DEF Remove, PluginTypeOK, ghosts
  <2> QED BY <1>1, <2>1, <2>2 DEF PluginTypeOK, reload, disk
<1>8. ASSUME NEW r \in Requests, Purge(r) PROVE PluginTypeOK'
  <2>1. request' \in [Requests -> Request]
    BY <1>1, <1>8, GoTyped DEF Purge
  <2> QED BY <1>1, <1>8, <2>1, Typed DEF Purge, PluginTypeOK, reload, ghosts
<1>9. CASE BeginReload
  <2>1. cache' \in Cache
    BY <1>1, <1>9 DEF BeginReload, PluginTypeOK, Cache, kept
  <2>2. cache.state \in Snapshot \cup {None} /\ dir.rest \in BOOLEAN
    BY <1>1 DEF PluginTypeOK, Cache, Directory
  <2>3. [NoPlugin EXCEPT !.prev = cache.state] \in Loaded
    BY <2>2 DEF NoPlugin, Loaded
  <2>4. at' \in {"connecting", "syncing"} /\ next' \in Loaded
    BY <1>9, <2>2, <2>3, Typed, FallbackTyped DEF BeginReload, step
  <2> QED BY <1>1, <1>9, <2>1, <2>4 DEF BeginReload, PluginTypeOK, ghosts
<1>10. CASE Synced
  <2>1. made' \in Snapshot /\ made' \in 0 .. MaxSnapshots
    BY <1>1, <1>10, BoundsAssumption DEF Synced, PluginTypeOK, Snapshot
  <2>2. cache' \in Cache
    BY <1>1, <1>10, <2>1 DEF Synced, PluginTypeOK, Cache
  <2>3. at' = "renamed" /\ next' \in Loaded
    BY <1>1, <1>10, <2>1 DEF Synced, step, PluginTypeOK, Loaded
  <2> QED BY <1>1, <1>10, <2>1, <2>2, <2>3 DEF Synced, PluginTypeOK, ghosts
<1>11. CASE StateWritten
  <2>1. next.root \in Snapshot
    BY <1>11 DEF StateWritten, Inv, CacheInv
  <2>2. cache' \in Cache
    BY <1>1, <1>11, <2>1 DEF StateWritten, PluginTypeOK, Cache
  <2>3. at' = "connecting" /\ next' \in Loaded
    BY <1>11, <2>1, Typed DEF StateWritten, step
  <2> QED BY <1>1, <1>11, <2>2, <2>3 DEF StateWritten, PluginTypeOK, ghosts
<1>12. CASE SyncFails
  <2>1. upsets' \in 0 .. MaxUpsets
    BY <1>1, <1>12, UpsetTyped DEF SyncFails, PluginTypeOK
  <2>2. next.prev \in Snapshot \cup {None}
    BY <1>1 DEF PluginTypeOK, Loaded
  <2>3. at' = "connecting" /\ next' \in Loaded
    BY <1>12, <2>2, FallbackTyped DEF SyncFails, step
  <2> QED BY <1>1, <1>12, <2>1, <2>3 DEF SyncFails, PluginTypeOK, ghosts, disk
<1>13. ASSUME NEW ok \in BOOLEAN, at = "connecting", answered(ok)
       PROVE  /\ at' = "idle" /\ next' \in Loaded /\ reloads' \in Queue
              /\ request' \in [Requests -> Request]
  BY <1>1, <1>13, AnsweredTyped DEF PluginQueueInv
<1>14. CASE Swapped
  BY <1>1, <1>13, <1>14 DEF Swapped, PluginTypeOK, disk, ghosts, Queue
<1>15. CASE SwapFails
  <2>1. upsets' \in 0 .. MaxUpsets
    BY <1>1, <1>15, UpsetTyped DEF SwapFails
  <2>2. unmended' \in BOOLEAN
    <3>1. \A a, b, c : (a \/ b \/ c) \in BOOLEAN
      OBVIOUS
    <3> QED BY <1>1, <1>15, <3>1 DEF SwapFails, PluginTypeOK
  <2> QED BY <1>1, <1>13, <1>15, <2>1, <2>2 DEF SwapFails, PluginTypeOK, disk, Queue
<1>16. CASE Crash
  <2>1. request' \in [Requests -> Request]
    BY <1>1, <1>16 DEF Crash, PluginTypeOK, Request
  <2> QED BY <1>1, <1>16, <2>1, Typed, UpsetTyped DEF Crash, step, PluginTypeOK, disk, ghosts, Queue
<1>17. CASE UNCHANGED pluginVars
  BY <1>1, <1>17 DEF PluginTypeOK, pluginVars, disk, reload, ghosts
<1> QED BY <1>2, <1>3, <1>4, <1>5, <1>6, <1>7, <1>8, <1>9, <1>10, <1>11, <1>12, <1>14, <1>15,
           <1>16, <1>17 DEF PluginNext

-----------------------------------------------------------------------------
(* The queue of reloads. *)

LEMMA GoFacts ==
  ASSUME PluginTypeOK, NEW r \in Requests, NEW where, go(r, where)
  PROVE  /\ request'[r].at = where /\ request'[r].kind = request[r].kind
         /\ request'[r].mended = request[r].mended
         /\ \A s \in Requests \ {r} : request'[s] = request[s]
BY DEF PluginTypeOK, go, Request

LEMMA BeginFacts ==
  ASSUME PluginTypeOK, NEW r \in Requests, NEW k, NEW where, begin(r, k, where)
  PROVE  /\ request[r].at = "idle" /\ warm
         /\ request'[r].at = where /\ request'[r].kind = k
         /\ \A s \in Requests \ {r} : request'[s] = request[s]
<1>1. request[r].at = "idle" /\ warm
  BY DEF begin
<1>2. request' = [request EXCEPT ![r] = [request[r] EXCEPT !.kind = k, !.at = where]]
  BY DEF begin
<1> QED BY <1>1, <1>2 DEF PluginTypeOK, Request

LEMMA EntryTyped ==
  ASSUME PluginTypeOK, NEW i \in 1 .. Len(reloads)
  PROVE  reloads[i] \in [reason : Reasons, by : Requests \cup {None}]
         /\ reloads[i].by \in Requests \cup {None} /\ reloads[i].reason \in Reasons
<1>1. reloads \in Seq([reason : Reasons, by : Requests \cup {None}])
  BY DEF PluginTypeOK
<1>2. reloads[i] \in [reason : Reasons, by : Requests \cup {None}]
  BY <1>1, ElementOfSeq
<1> QED BY <1>2

(* A request that does not wait has no entry, so that it may move on.       *)
LEMMA QueueKept ==
  ASSUME PluginTypeOK, PluginQueueInv, NEW r \in Requests, request[r].at \notin Awaiting,
         request'[r].at \in StagesOf(request'[r].kind),
         \A s \in Requests \ {r} : request'[s] = request[s],
         reloads' = reloads, at' = at
  PROVE  PluginQueueInv'
<1>1. \A s \in Requests : request'[s].at \in StagesOf(request'[s].kind)
  BY DEF PluginQueueInv
<1>2. reloads' = <<>> => at' = "idle"
  BY DEF PluginQueueInv
<1>3. ASSUME NEW i \in 1 .. Len(reloads), reloads[i].by # None
      PROVE  request'[reloads[i].by].at \in Awaiting
  <2>1. reloads[i].by \in Requests /\ request[reloads[i].by].at \in Awaiting
    BY <1>3, EntryTyped DEF PluginQueueInv
  <2> QED BY <2>1
<1>4. \A i, j \in 1 .. Len(reloads) : reloads[i].by = reloads[j].by => i = j
  BY DEF PluginQueueInv
<1> QED BY <1>1, <1>2, <1>3, <1>4 DEF PluginQueueInv

LEMMA QueueGrown ==
  ASSUME PluginTypeOK, PluginQueueInv, NEW r \in Requests, request[r].at \notin Awaiting,
         request'[r].at \in StagesOf(request'[r].kind), request'[r].at \in Awaiting,
         \A s \in Requests \ {r} : request'[s] = request[s],
         NEW reason \in Reasons, enqueue(reason, r), at' = at
  PROVE  PluginQueueInv'
<1>1. /\ reloads' # <<>> /\ Len(reloads') = Len(reloads) + 1
      /\ \A i \in 1 .. Len(reloads) : reloads'[i] = reloads[i]
      /\ reloads'[Len(reloads) + 1].by = r /\ Len(reloads) \in Nat
  BY DEF PluginTypeOK, enqueue
<1>2. \A s \in Requests : request'[s].at \in StagesOf(request'[s].kind)
  BY DEF PluginQueueInv
<1>3. ASSUME NEW i \in 1 .. Len(reloads) PROVE reloads[i].by # r
  BY EntryTyped, RequestsAssumption DEF PluginQueueInv
<1>4. ASSUME NEW i \in 1 .. Len(reloads'), reloads'[i].by # None
      PROVE  request'[reloads'[i].by].at \in Awaiting
  <2>1. CASE i = Len(reloads) + 1
    BY <1>1, <2>1
  <2>2. CASE i # Len(reloads) + 1
    <3>1. i \in 1 .. Len(reloads) /\ reloads'[i] = reloads[i]
      BY <1>1, <2>2
    <3>2. reloads[i].by \in Requests \ {r} /\ request[reloads[i].by].at \in Awaiting
      BY <1>3, <1>4, <3>1, EntryTyped DEF PluginQueueInv
    <3> QED BY <3>1, <3>2
  <2> QED BY <2>1, <2>2
<1>5. ASSUME NEW i \in 1 .. Len(reloads'), NEW j \in 1 .. Len(reloads'),
             reloads'[i].by = reloads'[j].by
      PROVE  i = j
  <2>1. CASE i = Len(reloads) + 1 /\ j = Len(reloads) + 1
    BY <2>1
  <2>2. CASE i # Len(reloads) + 1 /\ j = Len(reloads) + 1
    <3>1. i \in 1 .. Len(reloads)
      BY <1>1, <2>2
    <3> QED BY <1>1, <1>3, <1>5, <2>2, <3>1
  <2>3. CASE i = Len(reloads) + 1 /\ j # Len(reloads) + 1
    <3>1. j \in 1 .. Len(reloads)
      BY <1>1, <2>3
    <3> QED BY <1>1, <1>3, <1>5, <2>3, <3>1
  <2>4. CASE i # Len(reloads) + 1 /\ j # Len(reloads) + 1
    <3>1. i \in 1 .. Len(reloads) /\ j \in 1 .. Len(reloads)
      BY <1>1, <2>4
    <3> QED BY <1>1, <1>5, <3>1 DEF PluginQueueInv
  <2> QED BY <2>1, <2>2, <2>3, <2>4
<1> QED BY <1>1, <1>2, <1>4, <1>5 DEF PluginQueueInv

LEMMA PluginTailFacts ==
  ASSUME PluginTypeOK, reloads # <<>>
  PROVE  /\ Head(reloads) = reloads[1] /\ 1 \in 1 .. Len(reloads)
         /\ Len(Tail(reloads)) = Len(reloads) - 1 /\ Len(reloads) \in Nat \ {0}
         /\ \A i \in 1 .. Len(Tail(reloads)) :
              i + 1 \in 1 .. Len(reloads) /\ Tail(reloads)[i] = reloads[i + 1]
<1>1. reloads \in Queue
  BY DEF PluginTypeOK, Queue
<1>2. Len(reloads) \in Nat /\ Len(reloads) # 0 /\ Head(reloads) = reloads[1]
  BY <1>1, EmptySeq DEF Queue
<1>3. Len(Tail(reloads)) = Len(reloads) - 1
      /\ \A i \in 1 .. Len(Tail(reloads)) : Tail(reloads)[i] = reloads[i + 1]
  BY <1>1, <1>2, HeadTailProperties DEF Queue
<1> QED BY <1>2, <1>3

(* What the end of the reload at the head does to its request.              *)
LEMMA OwnerFacts ==
  ASSUME PluginTypeOK, PluginQueueInv, NEW ok \in BOOLEAN, reloads # <<>>, answered(ok),
         NEW r, r = Head(reloads).by, r # None
  PROVE  /\ r \in Requests /\ request[r].at \in Awaiting
         /\ request'[r].kind = request[r].kind
         /\ request'[r].mended = ok
         /\ \A s \in Requests \ {r} : request'[s] = request[s]
         /\ request[r].kind = "reload"  => request'[r].at \in {"done", "failed"}
         /\ request[r].kind = "removal" => request'[r].at = "unlinking"
         /\ request[r].kind = "import" =>
              /\ request[r].at \in {"reloading", "restoring"}
              /\ request[r].at = "restoring" => request'[r].at = "failed"
              /\ request[r].at = "reloading" =>
                   request'[r].at = IF ok /\ ~next.failed THEN "done" ELSE "dirLeft"
         /\ request[r].kind \in {"import", "removal", "reload"}
<1>1. r \in Requests /\ request[r].at \in Awaiting
  <2>1. reloads[1].by = r /\ 1 \in 1 .. Len(reloads)
    BY PluginTailFacts
  <2> QED BY <2>1, EntryTyped DEF PluginQueueInv
<1>2. request[r].kind \in {"import", "removal", "reload"} /\ request[r].at \in StagesOf(request[r].kind)
  <2>1. request[r] \in Request /\ request[r].at \in StagesOf(request[r].kind)
    BY <1>1 DEF PluginTypeOK, PluginQueueInv
  <2>2. request[r].kind # "none"
    BY <1>1, <2>1 DEF StagesOf, Awaiting
  <2> QED BY <2>1, <2>2 DEF Request
<1>3. request[r].kind = "import" => request[r].at \in {"reloading", "restoring"}
  BY <1>1, <1>2 DEF StagesOf, Awaiting
<1>4. PICK where \in {"done", "failed", "unlinking", "dirLeft"} :
        /\ request' = [request EXCEPT ![r].at = where, ![r].mended = ok]
        /\ request[r].kind = "reload" => where \in {"done", "failed"}
        /\ request[r].kind = "removal" => where = "unlinking"
        /\ request[r].kind \notin {"reload", "removal"} /\ request[r].at = "restoring" =>
             where = "failed"
        /\ request[r].kind \notin {"reload", "removal"} /\ request[r].at # "restoring" =>
             where = IF ok /\ ~next.failed THEN "done" ELSE "dirLeft"
  BY AnsweredFacts
<1>5. request' = [request EXCEPT ![r] = [request[r] EXCEPT !.at = where, !.mended = ok]]
  BY <1>1, <1>4 DEF PluginTypeOK
<1>6. /\ request'[r].at = where /\ request'[r].kind = request[r].kind /\ request'[r].mended = ok
      /\ \A s \in Requests \ {r} : request'[s] = request[s]
  BY <1>1, <1>5 DEF PluginTypeOK, Request
<1> QED BY <1>1, <1>2, <1>3, <1>4, <1>6

LEMMA QueueShrunk ==
  ASSUME PluginTypeOK, PluginQueueInv, NEW ok \in BOOLEAN, reloads # <<>>, answered(ok)
  PROVE  PluginQueueInv'
<1> DEFINE r == Head(reloads).by
<1>1. at' = "idle" /\ reloads' = Tail(reloads) /\ Len(reloads') = Len(reloads) - 1
      /\ \A i \in 1 .. Len(reloads') : i + 1 \in 1 .. Len(reloads) /\ reloads'[i] = reloads[i + 1]
  BY AnsweredFacts, PluginTailFacts
<1>2. ASSUME NEW s \in Requests, s # r PROVE request'[s] = request[s]
  BY <1>2, AnsweredFacts, OwnerFacts DEF PluginTypeOK
<1>3. ASSUME NEW s \in Requests PROVE request'[s].at \in StagesOf(request'[s].kind)
  <2>1. CASE s # r
    BY <1>2, <2>1 DEF PluginQueueInv
  <2>2. CASE s = r
    <3>1. r # None
      BY <2>2, RequestsAssumption
    <3>2. /\ request'[r].kind = request[r].kind
          /\ request[r].kind = "reload"  => request'[r].at \in {"done", "failed"}
          /\ request[r].kind = "removal" => request'[r].at = "unlinking"
          /\ request[r].kind = "import" => request'[r].at \in {"done", "failed", "dirLeft"}
          /\ request[r].kind \in {"import", "removal", "reload"}
      BY <3>1, OwnerFacts
    <3> QED BY <2>2, <3>2 DEF StagesOf
  <2> QED BY <2>1, <2>2
<1>4. ASSUME NEW i \in 1 .. Len(reloads'), reloads'[i].by # None
      PROVE  request'[reloads'[i].by].at \in Awaiting
  <2>1. i + 1 \in 1 .. Len(reloads) /\ reloads'[i].by = reloads[i + 1].by
    BY <1>1
  <2>2. i + 1 # 1 /\ 1 \in 1 .. Len(reloads) /\ reloads[1].by = r
    BY <2>1, PluginTailFacts
  <2>3. reloads[i + 1].by # r
    BY <2>1, <2>2 DEF PluginQueueInv
  <2>4. reloads[i + 1].by \in Requests /\ request[reloads[i + 1].by].at \in Awaiting
    BY <1>4, <2>1, EntryTyped DEF PluginQueueInv
  <2> QED BY <1>2, <2>1, <2>3, <2>4
<1>5. ASSUME NEW i \in 1 .. Len(reloads'), NEW j \in 1 .. Len(reloads'),
             reloads'[i].by = reloads'[j].by
      PROVE  i = j
  <2>1. i + 1 \in 1 .. Len(reloads) /\ j + 1 \in 1 .. Len(reloads)
        /\ reloads[i + 1].by = reloads[j + 1].by
    BY <1>1, <1>5
  <2>2. i + 1 = j + 1
    BY <2>1 DEF PluginQueueInv
  <2> QED BY <2>2
<1> QED BY <1>1, <1>3, <1>4, <1>5 DEF PluginQueueInv

LEMMA QueueStep == ASSUME Inv, [PluginNext]_pluginVars PROVE PluginQueueInv'
<1>1. PluginTypeOK /\ PluginQueueInv
  BY DEF Inv
<1>2. ASSUME NEW r \in Requests PROVE request[r].at \in StagesOf(request[r].kind)
  BY <1>1 DEF PluginQueueInv
<1>3. ASSUME NEW r \in Requests, request[r].at \in {"manifest", "rest", "dirLeft", "cacheLeft"}
      PROVE  request[r].kind = "import"
  BY <1>1, <1>2, <1>3 DEF StagesOf, PluginTypeOK, Request
<1>4. ASSUME NEW r \in Requests, request[r].at \in {"found", "unlinking", "purging"}
      PROVE  request[r].kind = "removal"
  BY <1>1, <1>2, <1>4 DEF StagesOf, PluginTypeOK, Request
<1>5. ASSUME NEW r \in Requests, NEW k \in Kinds, Import(r, k) PROVE PluginQueueInv'
  <2>1. request[r].at \notin Awaiting /\ request'[r].kind = "import"
        /\ request'[r].at \in {"refused", "manifest"}
        /\ \A s \in Requests \ {r} : request'[s] = request[s]
    BY <1>1, <1>5, BeginFacts DEF Import, Awaiting
  <2>2. request'[r].at \in StagesOf(request'[r].kind) /\ reloads' = reloads /\ at' = at
    BY <1>5, <2>1 DEF StagesOf, Import, reload
  <2> QED BY <1>1, <2>1, <2>2, QueueKept
<1>6. ASSUME NEW r \in Requests, Remove(r) PROVE PluginQueueInv'
  <2>1. request[r].at \notin Awaiting /\ request'[r].kind = "removal"
        /\ request'[r].at \in {"refused", "found"}
        /\ \A s \in Requests \ {r} : request'[s] = request[s]
    BY <1>1, <1>6, BeginFacts DEF Remove, Awaiting
  <2>2. request'[r].at \in StagesOf(request'[r].kind) /\ reloads' = reloads /\ at' = at
    BY <1>6, <2>1 DEF StagesOf, Remove, reload
  <2> QED BY <1>1, <2>1, <2>2, QueueKept
<1>7. ASSUME NEW r \in Requests, WriteManifest(r) \/ WriteFails(r) \/ RollBackDir(r) PROVE PluginQueueInv'
  <2>1. request[r].at \in {"manifest", "rest", "dirLeft"} /\ reloads' = reloads /\ at' = at
    BY <1>7 DEF WriteManifest, WriteFails, RollBackDir, reload
  <2>2. PICK where \in {"rest", "failed", "cacheLeft"} : go(r, where)
    BY <1>7 DEF WriteManifest, WriteFails, RollBackDir
  <2>3. request'[r].at = where /\ request'[r].kind = "import"
        /\ \A s \in Requests \ {r} : request'[s] = request[s]
    BY <1>1, <1>3, <2>1, <2>2, GoFacts
  <2>4. request'[r].at \in StagesOf(request'[r].kind) /\ request[r].at \notin Awaiting
    BY <2>1, <2>3 DEF StagesOf, Awaiting
  <2> QED BY <1>1, <2>1, <2>3, <2>4, QueueKept
<1>8. ASSUME NEW r \in Requests, RemoveDir(r) \/ RemoveDirFails(r) \/ Purge(r) PROVE PluginQueueInv'
  <2>1. request[r].at \in {"unlinking", "purging"} /\ reloads' = reloads /\ at' = at
    BY <1>8 DEF RemoveDir, RemoveDirFails, Purge, reload
  <2>2. PICK where \in {"purging", "failed", "done"} : go(r, where)
    BY <1>8 DEF RemoveDir, RemoveDirFails, Purge
  <2>3. request'[r].at = where /\ request'[r].kind = "removal"
        /\ \A s \in Requests \ {r} : request'[s] = request[s]
    BY <1>1, <1>4, <2>1, <2>2, GoFacts
  <2>4. request'[r].at \in StagesOf(request'[r].kind) /\ request[r].at \notin Awaiting
    BY <2>1, <2>3 DEF StagesOf, Awaiting
  <2> QED BY <1>1, <2>1, <2>3, <2>4, QueueKept
<1>9. ASSUME NEW r \in Requests, WriteRest(r) \/ RollBackCache(r) \/ DropManifest(r) \/ AskReload(r)
      PROVE  PluginQueueInv'
  <2>1. at' = at /\ \E reason \in Reasons : enqueue(reason, r)
    BY <1>9 DEF WriteRest, RollBackCache, DropManifest, AskReload, Reasons
  <2>2. /\ request[r].at \notin Awaiting /\ request'[r].at \in Awaiting
        /\ request'[r].at \in StagesOf(request'[r].kind)
        /\ \A s \in Requests \ {r} : request'[s] = request[s]
    <3>1. CASE WriteRest(r)
      BY <1>1, <1>3, <3>1, GoFacts DEF WriteRest, Awaiting, StagesOf
    <3>2. CASE RollBackCache(r)
      BY <1>1, <1>3, <3>2, GoFacts DEF RollBackCache, Awaiting, StagesOf
    <3>3. CASE DropManifest(r)
      BY <1>1, <1>4, <3>3, GoFacts DEF DropManifest, Awaiting, StagesOf
    <3>4. CASE AskReload(r)
      BY <1>1, <3>4, BeginFacts DEF AskReload, Awaiting, StagesOf
    <3> QED BY <1>9, <3>1, <3>2, <3>3, <3>4
  <2> QED BY <1>1, <2>1, <2>2, QueueGrown
<1>10. CASE BeginReload \/ Synced \/ StateWritten \/ SyncFails
  <2>1. reloads # <<>> /\ reloads' = reloads /\ request' = request
    BY <1>1, <1>10 DEF BeginReload, Synced, StateWritten, SyncFails, PluginQueueInv
  <2> QED BY <1>1, <2>1 DEF PluginQueueInv
<1>11. CASE Swapped \/ SwapFails
  <2>1. reloads # <<>> /\ (answered(TRUE) \/ answered(FALSE))
    BY <1>1, <1>11 DEF Swapped, SwapFails, PluginQueueInv
  <2> QED BY <1>1, <2>1, QueueShrunk
<1>12. CASE Crash
  <2>1. reloads' = boot /\ Len(boot) = 1 /\ boot[1].by = None /\ at' = "idle"
    BY <1>12 DEF Crash, boot, step
  <2>2. ASSUME NEW s \in Requests PROVE request'[s].at \in StagesOf(request'[s].kind)
    <3>1. CASE over(s)
      BY <1>2, <1>12, <3>1 DEF Crash
    <3>2. CASE ~over(s)
      <4>1. request[s].kind # "none"
        BY <1>2, <3>2 DEF over, StagesOf
      <4>2. request'[s].at = "lost" /\ request'[s].kind = request[s].kind
        BY <1>1, <1>12, <3>2 DEF Crash, PluginTypeOK, Request
      <4> QED BY <1>1, <4>1, <4>2 DEF StagesOf, PluginTypeOK, Request
    <3> QED BY <3>1, <3>2
  <2> QED BY <2>1, <2>2 DEF PluginQueueInv
<1>13. CASE UNCHANGED pluginVars
  BY <1>1, <1>13 DEF PluginQueueInv, pluginVars, reload
<1> QED BY <1>5, <1>6, <1>7, <1>8, <1>9, <1>10, <1>11, <1>12, <1>13 DEF PluginNext

-----------------------------------------------------------------------------
(* The cache, and which request is the latest. *)

LEMMA FallbackFacts ==
  ASSUME NEW prev \in Snapshot \cup {None}
  PROVE  /\ prev \in cache.snaps =>
              /\ snapshotOf(prev).root = prev /\ snapshotOf(prev).whole
              /\ prev # None => good(snapshotOf(prev))
         /\ prev \notin cache.snaps => snapshotOf(prev).root = None /\ snapshotOf(prev).failed
<1>1. CASE prev \in cache.snaps
  <2>1. snapshotOf(prev) = [root |-> prev, whole |-> TRUE, prev |-> None, failed |-> FALSE]
    BY <1>1 DEF snapshotOf, From
  <2> QED BY <1>1, <2>1 DEF good
<1>2. CASE prev \notin cache.snaps
  <2>1. Error.root = None /\ Error.failed
    BY DEF Error, NoPlugin
  <2> QED BY <1>2, <2>1 DEF snapshotOf
<1> QED BY <1>1, <1>2

LEMMA CacheStep == ASSUME Inv, [PluginNext]_pluginVars PROVE CacheInv'
<1>1. PluginTypeOK /\ CacheInv
  BY DEF Inv
<1>2. ASSUME cache' = cache, at' = at, next' = next PROVE CacheInv'
  BY <1>1, <1>2 DEF CacheInv, LastGoodIsKept
<1>3. ASSUME cache' = cache, at' \notin {"syncing", "renamed"} PROVE CacheInv'
  BY <1>1, <1>3 DEF CacheInv, LastGoodIsKept
<1>4. ASSUME cache' = NoCache, at' = at, next' = next PROVE CacheInv'
  BY <1>1, <1>4 DEF CacheInv, LastGoodIsKept, NoCache
<1>5. ASSUME NEW r \in Requests,
             \/ \E k \in Kinds : Import(r, k)
             \/ WriteManifest(r) \/ WriteRest(r) \/ WriteFails(r) \/ RollBackDir(r)
             \/ Remove(r) \/ DropManifest(r) \/ RemoveDir(r) \/ RemoveDirFails(r) \/ AskReload(r)
      PROVE  CacheInv'
  BY <1>2, <1>5 DEF Import, WriteManifest, WriteRest, WriteFails, RollBackDir, Remove, DropManifest,
                    RemoveDir, RemoveDirFails, AskReload, reload, disk
<1>6. ASSUME NEW r \in Requests, RollBackCache(r) \/ Purge(r) PROVE CacheInv'
  BY <1>4, <1>6 DEF RollBackCache, Purge, reload
<1>7. CASE BeginReload
  <2>1. CASE at' = "connecting" /\ cache' = cache
    BY <1>3, <2>1
  <2>2. CASE at' = "syncing" /\ next' = [NoPlugin EXCEPT !.prev = cache.state]
             /\ cache' = [cache EXCEPT !.exists = TRUE, !.snaps = kept]
    <3>1. next'.prev = cache.state /\ cache'.state = cache.state /\ cache'.snaps = kept
      BY <1>1, <2>2 DEF NoPlugin, PluginTypeOK, Cache
    <3> QED BY <1>1, <2>2, <3>1 DEF CacheInv, LastGoodIsKept, kept
  <2> QED BY <1>7, <2>1, <2>2 DEF BeginReload, step
<1>8. CASE Synced
  <2>1. made' \in Snapshot
    BY <1>1, <1>8, BoundsAssumption DEF Synced, PluginTypeOK, Snapshot
  <2>2. /\ cache'.state = cache.state /\ cache'.snaps = cache.snaps \cup {made'}
        /\ next'.root = made' /\ next'.prev = next.prev /\ at' = "renamed"
    BY <1>1, <1>8 DEF Synced, step, PluginTypeOK, Cache, Loaded
  <2>3. next.prev = cache.state
    BY <1>1, <1>8 DEF Synced, CacheInv, NoCache
  <2> QED BY <1>1, <2>1, <2>2, <2>3 DEF CacheInv, LastGoodIsKept
<1>9. CASE StateWritten
  <2>1. next.root \in cache.snaps
    BY <1>1, <1>9 DEF StateWritten, CacheInv, NoCache
  <2>2. cache'.state = next.root /\ cache'.snaps = cache.snaps /\ at' = "connecting"
    BY <1>1, <1>9 DEF StateWritten, step, PluginTypeOK, Cache
  <2> QED BY <2>1, <2>2 DEF CacheInv, LastGoodIsKept
<1>10. CASE SyncFails
  BY <1>3, <1>10 DEF SyncFails, step, disk
<1>11. CASE Swapped \/ SwapFails
  BY <1>3, <1>11 DEF Swapped, SwapFails, answered, step, disk
<1>12. CASE Crash
  BY <1>3, <1>12 DEF Crash, step, disk
<1>13. CASE UNCHANGED pluginVars
  BY <1>2, <1>13 DEF pluginVars, disk, reload
<1> QED BY <1>5, <1>6, <1>7, <1>8, <1>9, <1>10, <1>11, <1>12, <1>13 DEF PluginNext

LEMMA OverFacts ==
  ASSUME PluginTypeOK, NEW r \in Requests
  PROVE  /\ over(r) <=> request[r].at \in Over
         /\ r \in changing <=> request[r].at \notin Over /\ request[r].kind # "reload"
BY DEF over, Over, changing

(* A request that goes on without a new one taking over.                    *)
LEMMA LatestKept ==
  ASSUME PluginTypeOK, LatestInv, NEW r \in Requests, UNCHANGED <<latest, crossed>>,
         \A s \in Requests \ {r} : request'[s] = request[s],
         r \in changing \/ r \notin changing',
         latest = r => request'[r].kind = request[r].kind /\ request'[r].at # "refused"
  PROVE  LatestInv'
<1>1. ASSUME NEW s \in changing' PROVE s \in changing
  BY <1>1 DEF changing, over
<1>2. ASSUME latest # None PROVE kind' = kind /\ stage' # "refused"
  <2>1. CASE latest = r
    BY <1>2, <2>1 DEF LatestInv, kind, stage
  <2>2. CASE latest # r
    BY <1>2, <2>2 DEF LatestInv, kind, stage, PluginTypeOK
  <2> QED BY <2>1, <2>2
<1> QED BY <1>1, <1>2 DEF LatestInv

(* An import or a removal that begins.                                      *)
LEMMA LatestTaken ==
  ASSUME PluginTypeOK, LatestInv, NEW r \in Requests, takesOver(r),
         \A s \in Requests \ {r} : request'[s] = request[s],
         request'[r].kind \in {"import", "removal"}, request'[r].at # "refused"
  PROVE  LatestInv'
<1>1. latest' = r /\ (~crossed' => changing = {})
  BY DEF takesOver
<1>2. ASSUME NEW s \in changing', s # r PROVE s \in changing
  BY <1>2 DEF changing, over
<1>3. ~crossed' => changing' \subseteq {latest'}
  BY <1>1, <1>2
<1>4. kind' = request'[r].kind /\ stage' = request'[r].at
  BY <1>1, RequestsAssumption DEF kind, stage
<1> QED BY <1>3, <1>4 DEF LatestInv

LEMMA LatestStep == ASSUME Inv, [PluginNext]_pluginVars PROVE LatestInv'
<1>1. PluginTypeOK /\ PluginQueueInv /\ LatestInv
  BY DEF Inv
<1>2. ASSUME NEW r \in Requests PROVE request[r].at \in StagesOf(request[r].kind)
  BY <1>1 DEF PluginQueueInv
<1>3. ASSUME NEW r \in Requests, request[r].at = "idle" PROVE latest # r
  <2>1. request[r].kind \notin {"import", "removal"}
    BY <1>1, <1>2, <1>3 DEF StagesOf
  <2> QED BY <1>1, <1>3, <2>1, RequestsAssumption DEF LatestInv, kind
<1>4. ASSUME NEW r \in Requests, request[r].at \notin Over, request[r].kind # "reload"
      PROVE  r \in changing
  BY <1>1, <1>4, OverFacts
<1>5. ASSUME NEW r \in Requests, NEW k, NEW where, begin(r, k, where), where = "refused" \/ k = "reload",
             UNCHANGED ghosts
      PROVE  LatestInv'
  <2>1. latest # r /\ request'[r].at = where /\ request'[r].kind = k
        /\ \A s \in Requests \ {r} : request'[s] = request[s]
    BY <1>1, <1>3, <1>5, BeginFacts
  <2>2. r \notin changing'
    BY <1>5, <2>1 DEF changing, over
  <2> QED BY <1>1, <1>5, <2>1, <2>2, LatestKept DEF ghosts
<1>6. ASSUME NEW r \in Requests, NEW k \in {"import", "removal"}, NEW where, begin(r, k, where),
             where # "refused", takesOver(r)
      PROVE  LatestInv'
  <2>1. request'[r].at = where /\ request'[r].kind = k
        /\ \A s \in Requests \ {r} : request'[s] = request[s]
    BY <1>1, <1>6, BeginFacts
  <2> QED BY <1>1, <1>6, <2>1, LatestTaken
<1>7. ASSUME NEW r \in Requests, NEW k \in Kinds, Import(r, k) PROVE LatestInv'
  BY <1>5, <1>6, <1>7 DEF Import
<1>8. ASSUME NEW r \in Requests, Remove(r) PROVE LatestInv'
  BY <1>5, <1>6, <1>8 DEF Remove
<1>9. ASSUME NEW r \in Requests, AskReload(r) PROVE LatestInv'
  BY <1>5, <1>9 DEF AskReload
<1>10. ASSUME NEW r \in Requests, NEW where, go(r, where), where # "refused",
              request[r].at \in {"manifest", "rest", "dirLeft", "cacheLeft", "found", "unlinking", "purging"},
              UNCHANGED <<latest, crossed>>
       PROVE  LatestInv'
  <2>1. request'[r].at = where /\ request'[r].kind = request[r].kind
        /\ \A s \in Requests \ {r} : request'[s] = request[s]
    BY <1>1, <1>10, GoFacts
  <2>2. request[r].kind # "reload" /\ request[r].at \notin Over
    BY <1>2, <1>10 DEF StagesOf, Over
  <2> QED BY <1>1, <1>4, <1>10, <2>1, <2>2, LatestKept
<1>11. ASSUME NEW r \in Requests,
              \/ WriteManifest(r) \/ WriteRest(r) \/ WriteFails(r) \/ RollBackDir(r) \/ RollBackCache(r)
              \/ DropManifest(r) \/ RemoveDir(r) \/ RemoveDirFails(r) \/ Purge(r)
       PROVE  LatestInv'
  BY <1>10, <1>11 DEF WriteManifest, WriteRest, WriteFails, RollBackDir, RollBackCache, DropManifest,
                      RemoveDir, RemoveDirFails, Purge, ghosts
<1>12. ASSUME UNCHANGED <<request, latest, crossed>> PROVE LatestInv'
  BY <1>1, <1>12 DEF LatestInv, changing, over, kind, stage
<1>13. CASE BeginReload \/ Synced \/ StateWritten \/ SyncFails \/ UNCHANGED pluginVars
  BY <1>12, <1>13 DEF BeginReload, Synced, StateWritten, SyncFails, ghosts, pluginVars
<1>14. CASE Swapped \/ SwapFails
  <2>1. PICK ok \in BOOLEAN : answered(ok)
    BY <1>14 DEF Swapped, SwapFails
  <2>2. reloads # <<>> /\ UNCHANGED <<latest, crossed>>
    BY <1>1, <1>14 DEF Swapped, SwapFails, PluginQueueInv, ghosts
  <2>3. CASE Head(reloads).by = None
    BY <1>1, <1>12, <2>1, <2>2, <2>3, AnsweredFacts
  <2>4. CASE Head(reloads).by # None
    <3> DEFINE r == Head(reloads).by
    <3>1. r \in Requests
      BY <1>1, <2>1, <2>2, <2>4, OwnerFacts
    <3>2. /\ request[r].at \in Awaiting
          /\ request'[r].kind = request[r].kind
          /\ \A s \in Requests \ {r} : request'[s] = request[s]
          /\ request'[r].at \in {"done", "failed", "unlinking", "dirLeft"}
      BY <1>1, <2>1, <2>2, <2>4, OwnerFacts
    <3>3. r \in changing \/ r \notin changing'
      BY <1>4, <3>1, <3>2 DEF Awaiting, Over, changing
    <3> QED BY <1>1, <2>2, <3>1, <3>2, <3>3, LatestKept
  <2> QED BY <2>3, <2>4
<1>15. CASE Crash
  <2>1. UNCHANGED <<latest, crossed>>
    BY <1>15 DEF Crash, ghosts
  <2>2. ASSUME NEW s \in Requests
        PROVE  request'[s].kind = request[s].kind /\ request'[s].at \in Over
               /\ (request'[s].at = request[s].at \/ request'[s].at = "lost")
    BY <1>1, <1>15 DEF Crash, PluginTypeOK, Request, over, Over
  <2>3. changing' = {}
    BY <2>2 DEF changing, over, Over
  <2> QED BY <1>1, <2>1, <2>2, <2>3 DEF LatestInv, kind, stage, PluginTypeOK
<1> QED BY <1>7, <1>8, <1>9, <1>11, <1>13, <1>14, <1>15 DEF PluginNext

-----------------------------------------------------------------------------
(* What the answers rest on, one step at a time. *)

LEMMA StageFacts ==
  ASSUME Inv
  PROVE  /\ latest = None => stage = "none" /\ kind = "none"
         /\ latest # None => /\ latest \in Requests
                             /\ stage = request[latest].at /\ kind = request[latest].kind
                             /\ kind \in {"import", "removal"} /\ stage # "refused"
                             /\ stage # "idle" /\ stage # "none" /\ stage \in StagesOf(kind)
         /\ kind = "removal" => stage \in {"found", "stopping", "unlinking", "purging",
                                           "done", "failed", "lost"}
         /\ kind = "import" => stage \in {"manifest", "rest", "reloading", "dirLeft", "cacheLeft",
                                          "restoring", "done", "failed", "lost"}
<1>1. PluginTypeOK /\ PluginQueueInv /\ LatestInv
  BY DEF Inv
<1>2. CASE latest = None
  BY <1>2 DEF stage, kind
<1>3. CASE latest # None
  <2>1. /\ latest \in Requests /\ stage = request[latest].at /\ kind = request[latest].kind
        /\ kind \in {"import", "removal"} /\ stage # "refused"
    BY <1>1, <1>3 DEF PluginTypeOK, LatestInv, stage, kind
  <2>2. stage \in StagesOf(kind)
    BY <1>1, <2>1 DEF PluginQueueInv
  <2> QED BY <1>3, <2>1, <2>2 DEF StagesOf
<1> QED BY <1>2, <1>3

(* Who acts, unless requests have crossed, is the latest.                   *)
LEMMA ActsAlone ==
  ASSUME Inv, ~crossed, NEW r \in Requests, NEW where, go(r, where), latest' = latest,
         request[r].at \in {"manifest", "rest", "dirLeft", "cacheLeft", "found", "unlinking", "purging"}
  PROVE  /\ latest # None
         /\ stage = request[r].at /\ stage' = where /\ kind' = kind
         /\ stage \in {"manifest", "rest", "dirLeft", "cacheLeft"} => kind = "import"
         /\ stage \in {"found", "unlinking", "purging"} => kind = "removal"
<1>1. PluginTypeOK /\ PluginQueueInv /\ LatestInv
  BY DEF Inv
<1>2. request[r].kind # "reload"
  BY <1>1 DEF PluginQueueInv, StagesOf
<1>3. r = latest
  BY <1>1, <1>2, OverFacts DEF LatestInv, Over
<1>4. r # None /\ request'[r].at = where /\ request'[r].kind = request[r].kind
  BY <1>1, GoFacts, RequestsAssumption
<1>5. stage = request[r].at /\ stage' = where /\ kind' = kind
  BY <1>3, <1>4 DEF stage, kind
<1> QED BY <1>3, <1>4, <1>5, StageFacts

(* An entry at the head is of a request that waits.                         *)
LEMMA HeadWaits ==
  ASSUME Inv, owned
  PROVE  stage \in Awaiting
<1>1. PluginTypeOK /\ PluginQueueInv
  BY DEF Inv
<1>2. reloads[1].by = latest /\ 1 \in 1 .. Len(reloads) /\ latest # None
  BY <1>1, PluginTailFacts DEF owned
<1>3. request[latest].at \in Awaiting
  BY <1>1, <1>2 DEF PluginQueueInv
<1> QED BY <1>2, <1>3 DEF stage

LEMMA GrownFacts ==
  ASSUME Inv, NEW reason \in Reasons \ {"startup"}, NEW r \in Requests, enqueue(reason, r)
  PROVE  /\ at # "idle" /\ latest' = latest => owned' = owned
         /\ warm' => warm
<1>1. PluginTypeOK /\ PluginQueueInv
  BY DEF Inv
<1>2. reloads # <<>> => Head(reloads') = Head(reloads)
  BY <1>1 DEF PluginTypeOK, enqueue
<1>3. \A i \in 1 .. Len(reloads) : i \in 1 .. Len(reloads') /\ reloads'[i] = reloads[i]
  BY <1>1 DEF PluginTypeOK, enqueue
<1>4. reloads' # <<>>
  BY <1>1 DEF PluginTypeOK, enqueue
<1>5. at # "idle" => reloads # <<>>
  BY <1>1 DEF PluginQueueInv
<1>6. ASSUME at # "idle", latest' = latest PROVE owned' = owned
  BY <1>2, <1>4, <1>5, <1>6 DEF owned
<1>7. ASSUME warm' PROVE warm
  BY <1>3, <1>7 DEF warm
<1> QED BY <1>6, <1>7

(* A step that the latest request does not notice.                          *)
LEMMA CalmSame ==
  ASSUME CalmInv, stage' = stage, kind' = kind, UNCHANGED <<disk, loaded, at, next>>,
         at # "idle" /\ owned' => owned, warm' => warm
  PROVE  CalmInv'
<1>1. DirInv' /\ (wiped' <=> wiped)
  BY DEF CalmInv, DirInv, Absent, wiped, disk
<1>2. GoneInv'
  BY <1>1 DEF CalmInv, GoneInv, Gone, disk
<1>3. UseInv'
  BY DEF CalmInv, UseInv, disk
<1>4. LiveInv'
  BY DEF CalmInv, LiveInv, good, disk
<1> QED BY <1>1, <1>2, <1>3, <1>4 DEF CalmInv

LEMMA CalmIdle ==
  ASSUME Inv, calm, NEW r \in Requests, NEW k, NEW where, begin(r, k, where)
  PROVE  latest' = latest => stage' = stage /\ kind' = kind
<1>1. request[r].at = "idle" /\ \A s \in Requests \ {r} : request'[s] = request[s]
  BY BeginFacts DEF Inv
<1>2. latest # r
  BY <1>1, StageFacts, RequestsAssumption
<1> QED BY <1>1, <1>2, StageFacts DEF stage, kind

LEMMA TakenOver ==
  ASSUME Inv, calm, NEW r \in Requests, NEW k \in {"import", "removal"}, NEW where,
         begin(r, k, where), takesOver(r), ~crossed'
  PROVE  /\ stage' = where /\ kind' = k
         /\ stage \in {"none", "done", "failed", "lost"}
<1>1. changing = {} /\ latest' = r
  BY DEF takesOver
<1>2. request'[r].at = where /\ request'[r].kind = k
  BY BeginFacts DEF Inv
<1>3. latest # None => stage \in Over
  BY <1>1, StageFacts, OverFacts DEF Inv
<1> QED BY <1>1, <1>2, <1>3, StageFacts, RequestsAssumption DEF stage, kind, Over

LEMMA CalmImport ==
  ASSUME Inv, calm, NEW r \in Requests, NEW k \in Kinds, Import(r, k), ~crossed'
  PROVE  CalmInv'
<1>1. PluginTypeOK /\ CalmInv
  BY DEF Inv
<1>2. CASE dir.exists
  <2>1. /\ UNCHANGED <<disk, loaded, at, next, reloads>> /\ latest' = latest
        /\ begin(r, "import", "refused")
    BY <1>2 DEF Import, reload, disk, ghosts
  <2>2. stage' = stage /\ kind' = kind
    BY <2>1, CalmIdle
  <2>3. (owned' <=> owned) /\ (warm' <=> warm)
    BY <2>1 DEF owned, warm
  <2> QED BY <1>1, <2>1, <2>2, <2>3, CalmSame
<1>3. CASE ~dir.exists
  <2>1. begin(r, "import", "manifest") /\ takesOver(r) /\ UNCHANGED <<cache, loaded, at, next>>
        /\ dir' = [dir EXCEPT !.exists = TRUE, !.kind = k]
    BY <1>3 DEF Import, reload
  <2>2. stage' = "manifest" /\ kind' = "import" /\ stage \in {"none", "done", "failed", "lost"}
    BY <2>1, TakenOver
  <2>3. ~dir.manifest /\ ~dir'.manifest
    BY <1>1, <1>3, <2>1 DEF PluginTypeOK, Directory
  <2>4. Gone /\ Gone'
    BY <1>1, <2>1, <2>2, <2>3 DEF CalmInv, GoneInv, Gone
  <2>5. ~wiped'
    BY <2>2 DEF wiped
  <2>6. DirInv'
    BY <2>2, <2>3, <2>5 DEF DirInv
  <2>7. GoneInv'
    BY <2>2, <2>4, <2>5 DEF GoneInv
  <2>8. UseInv'
    BY <2>4 DEF UseInv, Gone, Snapshot, None
  <2>9. LiveInv'
    BY <2>2, <2>4 DEF LiveInv, Gone
  <2> QED BY <2>6, <2>7, <2>8, <2>9 DEF CalmInv
<1> QED BY <1>2, <1>3

LEMMA CalmRemove ==
  ASSUME Inv, calm, NEW r \in Requests, Remove(r), ~crossed'
  PROVE  CalmInv'
<1>1. PluginTypeOK /\ CalmInv
  BY DEF Inv
<1>2. UNCHANGED <<disk, dir, cache, loaded, at, next, reloads>>
  BY DEF Remove, reload, disk
<1>3. CASE ~dir.manifest
  <2>1. begin(r, "removal", "refused") /\ latest' = latest
    BY <1>3 DEF Remove, ghosts
  <2>2. stage' = stage /\ kind' = kind
    BY <2>1, CalmIdle
  <2>3. (owned' <=> owned) /\ (warm' <=> warm)
    BY <1>2, <2>1 DEF owned, warm
  <2> QED BY <1>1, <1>2, <2>1, <2>2, <2>3, CalmSame
<1>4. CASE dir.manifest
  <2>1. begin(r, "removal", "found") /\ takesOver(r)
    BY <1>4 DEF Remove
  <2>2. stage' = "found" /\ kind' = "removal" /\ stage \in {"none", "done", "failed", "lost"}
    BY <2>1, TakenOver
  <2>3. ~wiped'
    BY <2>2 DEF wiped
  <2>4. DirInv'
    BY <2>2, <2>3 DEF DirInv
  <2>5. GoneInv'
    BY <1>2, <1>4, <2>2, <2>3 DEF GoneInv
  <2>6. UseInv'
    BY <1>1, <1>2, <2>2 DEF UseInv, CalmInv
  <2>7. LiveInv'
    BY <1>1, <1>2, <2>2 DEF LiveInv, CalmInv
  <2> QED BY <2>4, <2>5, <2>6, <2>7 DEF CalmInv
<1> QED BY <1>3, <1>4

LEMMA CalmAskReload ==
  ASSUME Inv, calm, NEW r \in Requests, AskReload(r)
  PROVE  CalmInv'
<1>1. /\ begin(r, "reload", "reloading") /\ enqueue("manual", r) /\ "manual" \in Reasons \ {"startup"}
      /\ UNCHANGED <<disk, loaded, at, next>> /\ latest' = latest
  BY DEF AskReload, Reasons, ghosts
<1>2. stage' = stage /\ kind' = kind
  BY <1>1, CalmIdle
<1>3. (at # "idle" => owned' = owned) /\ (warm' => warm)
  BY <1>1, GrownFacts
<1> QED BY <1>1, <1>2, <1>3, CalmSame DEF Inv

LEMMA CalmWrite ==
  ASSUME Inv, calm, NEW r \in Requests, WriteManifest(r) \/ WriteRest(r)
  PROVE  CalmInv'
<1>1. PluginTypeOK /\ PluginQueueInv /\ CalmInv
  BY DEF Inv
<1>2. UNCHANGED <<cache, loaded, at, next>> /\ latest' = latest
  BY DEF WriteManifest, WriteRest, reload, ghosts
<1>3. UseInv /\ LiveInv /\ DirInv
  BY <1>1 DEF CalmInv
<1>4. CASE WriteManifest(r)
  <2>1. stage = "manifest" /\ stage' = "rest" /\ kind' = "import"
    BY <1>2, <1>4, ActsAlone DEF WriteManifest, calm
  <2>2. dir'.manifest /\ dir'.kind = dir.kind
    BY <1>1, <1>4 DEF WriteManifest, PluginTypeOK, Directory
  <2>3. ~wiped'
    BY <2>1 DEF wiped
  <2>4. DirInv' /\ GoneInv'
    BY <2>1, <2>2, <2>3 DEF DirInv, GoneInv
  <2>5. UseInv' /\ LiveInv'
    BY <1>2, <1>3, <2>1, <2>2 DEF UseInv, LiveInv
  <2> QED BY <2>4, <2>5 DEF CalmInv
<1>5. CASE WriteRest(r)
  <2>1. stage = "rest" /\ stage' = "reloading" /\ kind' = "import"
    BY <1>2, <1>5, ActsAlone DEF WriteRest, calm
  <2>2. dir'.manifest /\ dir'.rest /\ dir'.kind = dir.kind
    BY <1>1, <1>3, <1>5, <2>1 DEF WriteRest, PluginTypeOK, Directory, DirInv
  <2>3. ~wiped'
    BY <2>1 DEF wiped
  <2>4. at # "idle" => ~owned'
    BY <1>2, <1>5, <2>1, GrownFacts, HeadWaits DEF WriteRest, Reasons, Awaiting
  <2>5. DirInv' /\ GoneInv'
    BY <2>1, <2>2, <2>3 DEF DirInv, GoneInv
  <2>6. UseInv'
    BY <1>2, <1>3, <2>1 DEF UseInv
  <2>7. LiveInv'
    BY <1>2, <1>3, <2>1, <2>2, <2>4 DEF LiveInv
  <2> QED BY <2>5, <2>6, <2>7 DEF CalmInv
<1> QED BY <1>4, <1>5

LEMMA CalmRollBack ==
  ASSUME Inv, calm, NEW r \in Requests, RollBackDir(r) \/ RollBackCache(r)
  PROVE  CalmInv'
<1>1. PluginTypeOK /\ PluginQueueInv /\ CalmInv
  BY DEF Inv
<1>2. UNCHANGED <<loaded, at, next>> /\ latest' = latest
  BY DEF RollBackDir, RollBackCache, reload, ghosts
<1>3. UseInv /\ LiveInv /\ DirInv
  BY <1>1 DEF CalmInv
<1>4. CASE RollBackDir(r)
  <2>1. stage = "dirLeft" /\ stage' = "cacheLeft" /\ kind' = "import"
    BY <1>2, <1>4, ActsAlone DEF RollBackDir, calm
  <2>2. Absent(dir)' /\ dir'.kind = dir.kind /\ cache' = cache
    BY <1>1, <1>4 DEF RollBackDir, wipe, PluginTypeOK, Directory, Absent
  <2>3. ~wiped'
    BY <2>1 DEF wiped
  <2>4. DirInv' /\ GoneInv'
    BY <2>1, <2>2, <2>3 DEF DirInv, GoneInv, Absent
  <2>5. UseInv' /\ LiveInv'
    BY <1>2, <1>3, <2>1, <2>2 DEF UseInv, LiveInv
  <2> QED BY <2>4, <2>5 DEF CalmInv
<1>5. CASE RollBackCache(r)
  <2>1. stage = "cacheLeft" /\ stage' = "restoring" /\ kind' = "import"
    BY <1>2, <1>5, ActsAlone DEF RollBackCache, calm
  <2>2. Absent(dir)' /\ ~dir'.manifest /\ dir' = dir /\ cache' = NoCache
    BY <1>3, <1>5, <2>1 DEF RollBackCache, DirInv, Absent
  <2>3. ~wiped'
    BY <2>1 DEF wiped
  <2>4. at # "idle" => ~owned'
    BY <1>2, <1>5, <2>1, GrownFacts, HeadWaits DEF RollBackCache, Reasons, Awaiting
  <2>5. DirInv'
    BY <2>1, <2>2, <2>3 DEF DirInv
  <2>6. GoneInv'
    BY <1>2, <2>1, <2>2, <2>3, <2>4 DEF GoneInv
  <2>7. UseInv' /\ LiveInv'
    BY <1>2, <1>3, <2>1, <2>2 DEF UseInv, LiveInv
  <2> QED BY <2>5, <2>6, <2>7 DEF CalmInv
<1> QED BY <1>4, <1>5

LEMMA CalmRemoving ==
  ASSUME Inv, calm, NEW r \in Requests, DropManifest(r) \/ RemoveDir(r) \/ Purge(r)
  PROVE  CalmInv'
<1>1. PluginTypeOK /\ PluginQueueInv /\ CalmInv
  BY DEF Inv
<1>2. UNCHANGED <<loaded, at, next>> /\ latest' = latest
  BY DEF DropManifest, RemoveDir, Purge, reload, ghosts
<1>3. UseInv /\ LiveInv /\ DirInv /\ GoneInv
  BY <1>1 DEF CalmInv
<1>4. CASE DropManifest(r)
  <2>1. stage = "found" /\ stage' = "stopping" /\ kind' = "removal"
    BY <1>2, <1>4, ActsAlone DEF DropManifest, calm
  <2>2. ~dir'.manifest /\ dir'.kind = dir.kind /\ cache' = cache
    BY <1>1, <1>4 DEF DropManifest, PluginTypeOK, Directory
  <2>3. ~wiped'
    BY <2>1 DEF wiped
  <2>4. at # "idle" => ~owned'
    BY <1>2, <1>4, <2>1, GrownFacts, HeadWaits DEF DropManifest, Reasons, Awaiting
  <2>5. DirInv'
    BY <2>1, <2>2, <2>3 DEF DirInv
  <2>6. GoneInv'
    BY <1>2, <2>1, <2>2, <2>3, <2>4 DEF GoneInv
  <2>7. UseInv' /\ LiveInv'
    BY <1>2, <1>3, <2>1, <2>2 DEF UseInv, LiveInv
  <2> QED BY <2>5, <2>6, <2>7 DEF CalmInv
<1>5. CASE RemoveDir(r)
  <2>1. stage = "unlinking" /\ stage' = "purging" /\ kind' = "removal"
    BY <1>2, <1>5, ActsAlone DEF RemoveDir, calm
  <2>2. Absent(dir)' /\ ~dir'.manifest /\ dir'.kind = dir.kind /\ cache' = cache
    BY <1>1, <1>5 DEF RemoveDir, wipe, PluginTypeOK, Directory, Absent
  <2>3. ~wiped'
    BY <2>1 DEF wiped
  <2>4. Gone /\ Gone'
    BY <1>2, <1>3, <2>1 DEF GoneInv, DirInv, Gone
  <2>5. DirInv'
    BY <2>1, <2>2, <2>3 DEF DirInv
  <2>6. GoneInv'
    BY <2>1, <2>3, <2>4 DEF GoneInv
  <2>7. UseInv' /\ LiveInv'
    BY <1>2, <1>3, <2>1, <2>2 DEF UseInv, LiveInv
  <2> QED BY <2>5, <2>6, <2>7 DEF CalmInv
<1>6. CASE Purge(r)
  <2>1. stage = "purging" /\ stage' \in {"done", "failed"} /\ kind' = "removal"
    BY <1>2, <1>6, ActsAlone DEF Purge, calm
  <2>2. Absent(dir)' /\ ~dir'.manifest /\ dir' = dir /\ cache' = NoCache
    BY <1>3, <1>6, <2>1 DEF Purge, DirInv, Absent
  <2>3. Gone /\ Gone'
    BY <1>2, <1>3, <2>1, <2>2 DEF GoneInv, Gone
  <2>4. DirInv'
    BY <2>1, <2>2 DEF DirInv
  <2>5. GoneInv'
    BY <2>1, <2>2, <2>3 DEF GoneInv
  <2>6. UseInv'
    BY <2>3 DEF UseInv, Gone, Snapshot, None
  <2>7. LiveInv'
    BY <2>1, <2>3 DEF LiveInv, Gone
  <2> QED BY <2>4, <2>5, <2>6, <2>7 DEF CalmInv
<1> QED BY <1>4, <1>5, <1>6

LEMMA CalmBegin ==
  ASSUME Inv, calm, BeginReload
  PROVE  CalmInv'
<1>1. PluginTypeOK /\ CacheInv /\ DirInv /\ GoneInv /\ UseInv /\ LiveInv
  BY DEF Inv, CalmInv
<1>2. /\ UNCHANGED <<dir, loaded, reloads, request, latest>> /\ at = "idle" /\ reloads # <<>>
      /\ stage' = stage /\ kind' = kind /\ (warm' <=> warm) /\ (wiped' <=> wiped)
  BY DEF BeginReload, ghosts, stage, kind, warm, wiped
<1>3. DirInv'
  BY <1>1, <1>2 DEF DirInv, Absent
<1>4. loaded.root \in Snapshot /\ stage # "restoring" =>
        loaded.root \in cache.snaps /\ loaded.root = cache.state
  BY <1>1, <1>2 DEF UseInv
<1>5. CASE ~dir.manifest
  <2>1. at' = "connecting" /\ next' = NoPlugin /\ next'.root = None /\ cache' = cache
    BY <1>5 DEF BeginReload, step, NoPlugin
  <2>2. GoneInv'
    BY <1>1, <1>2, <2>1 DEF GoneInv, Gone
  <2>3. UseInv'
    BY <1>2, <1>4, <2>1 DEF UseInv, Snapshot, None
  <2>4. LiveInv'
    BY <1>1, <1>2, <1>5, <2>1 DEF LiveInv, DirInv
  <2> QED BY <1>3, <2>2, <2>3, <2>4 DEF CalmInv
<1>6. CASE dir.manifest
  <2>1. stage \notin {"stopping", "restoring"} /\ ~wiped
    BY <1>1, <1>6 DEF DirInv, Absent
  <2>2. GoneInv'
    BY <1>2, <1>6, <2>1 DEF GoneInv
  <2>3. CASE dir.kind = "plain"
    <3>1. at' = "connecting" /\ next' = From(Dir, dir.rest) /\ cache' = cache
      BY <1>6, <2>3 DEF BeginReload, step
    <3>2. next'.root = Dir /\ next'.whole = dir.rest /\ Dir \notin Snapshot
      BY <3>1 DEF From, Dir, Snapshot
    <3>3. UseInv'
      BY <1>2, <1>4, <3>1, <3>2 DEF UseInv
    <3>4. dir.rest => good(next')
      BY <3>2 DEF good, Dir, None
    <3>5. stage = "reloading" \/ (kind = "import" /\ stage = "done") => dir.rest
      BY <1>1 DEF DirInv
    <3>6. LiveInv'
      BY <1>1, <1>2, <2>3, <3>1, <3>4, <3>5 DEF LiveInv, good
    <3> QED BY <1>3, <2>2, <3>3, <3>6 DEF CalmInv
  <2>4. CASE dir.kind # "plain" /\ Head(reloads).reason \notin Sync
    <3>1. at' = "connecting" /\ next' = snapshotOf(cache.state) /\ cache' = cache
      BY <1>6, <2>4 DEF BeginReload, step
    <3>2. cache.state \in Snapshot \cup {None} /\ cache.snaps \subseteq Snapshot
          /\ cache.state \in cache.snaps \cup {None} /\ None \notin Snapshot
      BY <1>1 DEF PluginTypeOK, Cache, CacheInv, LastGoodIsKept, Snapshot, None
    <3>3. CASE cache.state = None
      <4>1. next'.root = None /\ next'.failed
        BY <3>1, <3>2, <3>3, FallbackFacts
      <4>2. UseInv'
        BY <1>2, <1>4, <3>1, <3>2, <4>1 DEF UseInv
      <4>3. dir.kind = "materialized"
        BY <1>1, <2>4 DEF PluginTypeOK, Directory, Kinds
      <4>4. LiveInv'
        BY <1>1, <1>2, <3>1, <3>3, <4>1, <4>3 DEF LiveInv
      <4> QED BY <1>3, <2>2, <4>2, <4>4 DEF CalmInv
    <3>4. CASE cache.state # None
      <4>1. next'.root = cache.state /\ cache.state \in cache.snaps /\ next'.root \in Snapshot
            /\ good(next')
        BY <3>1, <3>2, <3>4, FallbackFacts DEF good
      <4>2. UseInv'
        BY <1>2, <1>4, <3>1, <4>1 DEF UseInv
      <4>3. LiveInv'
        BY <1>1, <1>2, <3>1, <4>1 DEF LiveInv, good
      <4> QED BY <1>3, <2>2, <4>2, <4>3 DEF CalmInv
    <3> QED BY <3>3, <3>4
  <2>5. CASE dir.kind # "plain" /\ Head(reloads).reason \in Sync
    <3>1. at' = "syncing" /\ cache' = [cache EXCEPT !.exists = TRUE, !.snaps = kept]
      BY <1>6, <2>5 DEF BeginReload, step
    <3>2. cache'.state = cache.state /\ cache'.snaps = cache.snaps \cap {cache.state}
      BY <1>1, <3>1 DEF PluginTypeOK, Cache, kept
    <3>3. UseInv'
      BY <1>2, <1>4, <3>1, <3>2 DEF UseInv
    <3>4. dir.kind = "materialized"
      BY <1>1, <2>5 DEF PluginTypeOK, Directory, Kinds
    <3>5. LiveInv'
      BY <1>1, <1>2, <3>1, <3>2, <3>4 DEF LiveInv, good
    <3> QED BY <1>3, <2>2, <3>3, <3>5 DEF CalmInv
  <2> QED BY <2>3, <2>4, <2>5
<1> QED BY <1>5, <1>6

LEMMA CalmSync ==
  ASSUME Inv, calm, Synced \/ StateWritten \/ SyncFails
  PROVE  CalmInv'
<1>1. PluginTypeOK /\ CacheInv /\ DirInv /\ GoneInv /\ UseInv /\ LiveInv
  BY DEF Inv, CalmInv
<1>2. /\ UNCHANGED <<dir, loaded, reloads, request, latest>> /\ at \in {"syncing", "renamed"}
      /\ stage' = stage /\ kind' = kind /\ (warm' <=> warm) /\ (wiped' <=> wiped)
      /\ (owned' <=> owned)
  BY DEF Synced, StateWritten, SyncFails, disk, ghosts, stage, kind, warm, wiped, owned
<1>3. DirInv'
  BY <1>1, <1>2 DEF DirInv, Absent
<1>4. /\ ~(~dir.manifest /\ stage \notin {"stopping", "cacheLeft", "restoring"})
      /\ ~(stage \in {"stopping", "restoring"} /\ owned)
      /\ dir.kind = "materialized"
  BY <1>1, <1>2 DEF GoneInv, Gone, LiveInv
<1>5. GoneInv' <=> (stage = "restoring" \/ wiped => cache' = NoCache)
  BY <1>2, <1>4 DEF GoneInv
<1>6. loaded.root \in Snapshot /\ stage # "restoring" =>
        loaded.root \in cache.snaps /\ loaded.root = cache.state
  BY <1>1, <1>2 DEF UseInv
<1>7. cache.snaps \subseteq Snapshot /\ None \notin Snapshot
  BY <1>1 DEF PluginTypeOK, Cache, Snapshot, None
<1>8. CASE Synced
  <2>1. cache'.state = cache.state /\ cache'.snaps = cache.snaps \cup {made'} /\ at' = "renamed"
    BY <1>1, <1>8 DEF Synced, step, PluginTypeOK, Cache
  <2>2. cache # NoCache
    BY <1>8 DEF Synced, NoCache
  <2>3. GoneInv'
    BY <1>1, <1>5, <2>2 DEF GoneInv
  <2>4. UseInv'
    BY <1>2, <1>6, <2>1 DEF UseInv
  <2>5. LiveInv'
    BY <1>1, <1>2, <1>4, <2>1 DEF LiveInv, good
  <2> QED BY <1>3, <2>3, <2>4, <2>5 DEF CalmInv
<1>9. CASE StateWritten
  <2>1. cache # NoCache
    BY <1>9 DEF StateWritten, NoCache
  <2>2. next.root \in Snapshot /\ next.root \in cache.snaps
    BY <1>1, <1>9, <2>1 DEF StateWritten, CacheInv
  <2>3. /\ cache'.state = next.root /\ cache'.snaps = cache.snaps
        /\ at' = "connecting" /\ next' = From(next.root, TRUE)
    BY <1>1, <1>9 DEF StateWritten, step, PluginTypeOK, Cache
  <2>4. next'.root = next.root /\ good(next')
    BY <1>7, <2>2, <2>3 DEF From, good
  <2>5. GoneInv'
    BY <1>1, <1>5, <2>1 DEF GoneInv
  <2>6. UseInv'
    BY <1>2, <1>6, <2>2, <2>3, <2>4 DEF UseInv
  <2>7. LiveInv'
    BY <1>1, <1>2, <1>7, <2>2, <2>3, <2>4 DEF LiveInv, good
  <2> QED BY <1>3, <2>5, <2>6, <2>7 DEF CalmInv
<1>10. CASE SyncFails
  <2>1. cache' = cache /\ at' = "connecting" /\ next' = snapshotOf(next.prev)
    BY <1>10 DEF SyncFails, step, disk
  <2>2. next.prev \in Snapshot \cup {None}
    BY <1>1 DEF PluginTypeOK, Loaded
  <2>3. cache = NoCache => cache.snaps = {} /\ cache.state = None
    BY DEF NoCache
  <2>4. GoneInv'
    BY <1>1, <1>5, <2>1 DEF GoneInv
  <2>5. CASE next.prev \in cache.snaps
    <3>1. next.prev = cache.state /\ cache.state \in Snapshot
      BY <1>1, <1>2, <1>7, <2>3, <2>5 DEF CacheInv
    <3>2. next'.root = cache.state /\ good(next')
      BY <1>7, <2>1, <2>2, <2>5, <3>1, FallbackFacts DEF good
    <3>3. UseInv'
      BY <1>2, <1>6, <2>1, <2>5, <3>1, <3>2 DEF UseInv
    <3>4. LiveInv'
      BY <1>1, <1>2, <2>1, <3>1, <3>2 DEF LiveInv, good
    <3> QED BY <1>3, <2>4, <3>3, <3>4 DEF CalmInv
  <2>6. CASE next.prev \notin cache.snaps
    <3>1. next'.root = None /\ next'.failed
      BY <2>1, <2>2, <2>6, FallbackFacts
    <3>2. cache.state = None
      BY <1>1, <1>2, <2>3, <2>6 DEF CacheInv, LastGoodIsKept
    <3>3. UseInv'
      BY <1>2, <1>6, <1>7, <2>1, <3>1 DEF UseInv
    <3>4. LiveInv'
      BY <1>1, <1>2, <1>4, <2>1, <3>1, <3>2 DEF LiveInv
    <3> QED BY <1>3, <2>4, <3>3, <3>4 DEF CalmInv
  <2> QED BY <2>5, <2>6
<1> QED BY <1>8, <1>9, <1>10

(* Whom the end of a reload answers.                                        *)
LEMMA Answered ==
  ASSUME Inv, calm, NEW ok \in BOOLEAN, at = "connecting", answered(ok), latest' = latest
  PROVE  /\ at' = "idle" /\ next'.root = None /\ kind' = kind
         /\ ~owned => stage' = stage
         /\ owned => /\ stage = request[Head(reloads).by].at
                     /\ kind = "removal" => stage = "stopping" /\ stage' = "unlinking"
                     /\ kind # "removal" =>
                          /\ kind = "import" /\ stage \in {"reloading", "restoring"}
                          /\ stage = "restoring" => stage' = "failed"
                          /\ stage = "reloading" =>
                               stage' = IF ok /\ ~next.failed THEN "done" ELSE "dirLeft"
<1>1. PluginTypeOK /\ PluginQueueInv
  BY DEF Inv
<1>2. reloads # <<>>
  BY <1>1 DEF PluginQueueInv
<1>3. at' = "idle" /\ next'.root = None
  <2>1. at' = "idle" /\ next' = NoPlugin
    BY <1>1, <1>2, AnsweredFacts
  <2> QED BY <2>1 DEF NoPlugin
<1>4. CASE owned
  <2> DEFINE r == Head(reloads).by
  <2>1. r = latest /\ r # None
    BY <1>4 DEF owned
  <2>2. stage = request[r].at /\ kind = request[r].kind /\ stage' = request'[r].at
        /\ kind' = request'[r].kind
    BY <2>1 DEF stage, kind
  <2>3. /\ request'[r].kind = request[r].kind
        /\ request[r].at \in Awaiting
        /\ request[r].kind = "removal" => request'[r].at = "unlinking"
        /\ request[r].kind = "import" =>
             /\ request[r].at \in {"reloading", "restoring"}
             /\ request[r].at = "restoring" => request'[r].at = "failed"
             /\ request[r].at = "reloading" =>
                  request'[r].at = IF ok /\ ~next.failed THEN "done" ELSE "dirLeft"
    BY <1>1, <1>2, <2>1, OwnerFacts
  <2>4. kind = "removal" => stage = "stopping"
    BY <2>2, <2>3, StageFacts DEF Awaiting
  <2>5. kind # "removal" => kind = "import"
    BY <2>1, StageFacts
  <2> QED BY <1>3, <1>4, <2>2, <2>3, <2>4, <2>5
<1>5. CASE ~owned
  <2>1. latest = None => stage' = stage /\ kind' = kind
    BY DEF stage, kind
  <2>2. latest # None /\ Head(reloads).by # latest => request'[latest] = request[latest]
    BY <1>1, <1>2, AnsweredFacts, OwnerFacts DEF PluginTypeOK
  <2>3. stage' = stage /\ kind' = kind
    BY <1>2, <1>5, <2>1, <2>2 DEF stage, kind, owned
  <2> QED BY <1>3, <1>5, <2>3
<1> QED BY <1>4, <1>5

LEMMA CalmSwapped ==
  ASSUME Inv, calm, Swapped
  PROVE  CalmInv'
<1>1. PluginTypeOK /\ CacheInv /\ DirInv /\ GoneInv /\ UseInv /\ LiveInv
  BY DEF Inv, CalmInv
<1>2. UNCHANGED <<dir, cache, latest>> /\ at = "connecting" /\ answered(TRUE) /\ loaded' = next
  BY DEF Swapped, disk, ghosts
<1>3. at' = "idle" /\ next'.root = None /\ kind' = kind
  BY <1>2, Answered
<1>4. CASE ~owned
  <2>1. stage' = stage /\ (wiped' <=> wiped)
    BY <1>2, <1>3, <1>4, Answered DEF wiped
  <2>2. DirInv'
    BY <1>1, <1>2, <1>3, <2>1 DEF DirInv, Absent
  <2>3. GoneInv'
    BY <1>1, <1>2, <1>3, <2>1 DEF GoneInv, Gone
  <2>4. UseInv'
    BY <1>1, <1>2, <1>3, <2>1 DEF UseInv
  <2>5. LiveInv'
    BY <1>1, <1>2, <1>3, <2>1 DEF LiveInv, good
  <2> QED BY <2>2, <2>3, <2>4, <2>5 DEF CalmInv
<1>5. CASE owned /\ stage \in {"stopping", "restoring"}
  <2>1. next.root = None /\ loaded'.root = None
    BY <1>1, <1>2, <1>5 DEF GoneInv
  <2>2. \/ kind = "removal" /\ stage = "stopping" /\ stage' = "unlinking"
        \/ kind = "import" /\ stage = "restoring" /\ stage' = "failed"
    BY <1>2, <1>5, Answered
  <2>3. DirInv'
    BY <1>1, <1>2, <1>3, <2>2 DEF DirInv, Absent, wiped
  <2>4. Gone'
    BY <1>3, <2>1 DEF Gone
  <2>5. GoneInv'
    BY <1>1, <1>2, <1>3, <2>2, <2>4 DEF GoneInv, wiped
  <2>6. UseInv'
    BY <1>3, <2>1 DEF UseInv, Snapshot, None
  <2>7. LiveInv'
    BY <1>3, <2>2 DEF LiveInv
  <2> QED BY <2>3, <2>5, <2>6, <2>7 DEF CalmInv
<1>6. CASE owned /\ stage \notin {"stopping", "restoring"}
  <2>1. /\ kind = "import" /\ stage = "reloading"
        /\ \/ next.failed /\ stage' = "dirLeft"
           \/ ~next.failed /\ stage' = "done"
    BY <1>2, <1>6, Answered
  <2>2. dir.manifest /\ dir.rest
    BY <1>1, <2>1 DEF DirInv
  <2>3. DirInv'
    BY <1>2, <1>3, <2>1, <2>2 DEF DirInv, wiped
  <2>4. GoneInv'
    BY <1>2, <1>3, <2>1, <2>2 DEF GoneInv, wiped
  <2>5. UseInv'
    BY <1>1, <1>2, <1>3, <2>1 DEF UseInv
  <2>6. ~next.failed =>
          good(next) /\ (dir.kind = "materialized" => cache.state \in Snapshot)
    BY <1>1, <1>2, <1>6, <2>1 DEF LiveInv, UseInv
  <2>7. None \notin Snapshot
    BY DEF None, Snapshot
  <2>8. LiveInv'
    BY <1>2, <1>3, <2>1, <2>6, <2>7 DEF LiveInv, good
  <2> QED BY <2>3, <2>4, <2>5, <2>8 DEF CalmInv
<1> QED BY <1>4, <1>5, <1>6

LEMMA CalmSwapFails ==
  ASSUME Inv, calm, SwapFails, ~unmended'
  PROVE  CalmInv'
<1>1. PluginTypeOK /\ CacheInv /\ DirInv /\ GoneInv /\ UseInv /\ LiveInv
  BY DEF Inv, CalmInv
<1>2. UNCHANGED <<dir, cache, loaded, latest>> /\ at = "connecting" /\ answered(FALSE) /\ warm
  BY DEF SwapFails, disk
<1>3. /\ next.root \in Snapshot => next.root = loaded.root
      /\ request[Head(reloads).by].at \notin {"stopping", "restoring"}
  BY DEF SwapFails
<1>4. at' = "idle" /\ next'.root = None /\ kind' = kind
  BY <1>2, Answered
<1>5. UseInv' \/ stage' # stage
  BY <1>1, <1>2, <1>3, <1>4 DEF UseInv
<1>6. CASE ~owned
  <2>1. stage' = stage /\ (wiped' <=> wiped)
    BY <1>2, <1>4, <1>6, Answered DEF wiped
  <2>2. DirInv'
    BY <1>1, <1>2, <1>4, <2>1 DEF DirInv, Absent
  <2>3. GoneInv'
    BY <1>1, <1>2, <1>4, <2>1 DEF GoneInv, Gone
  <2>4. LiveInv'
    BY <1>1, <1>2, <1>4, <2>1 DEF LiveInv, good
  <2> QED BY <1>5, <2>1, <2>2, <2>3, <2>4 DEF CalmInv
<1>7. CASE owned
  <2>1. kind = "import" /\ stage = "reloading" /\ stage' = "dirLeft"
    BY <1>2, <1>3, <1>7, Answered
  <2>2. dir.manifest
    BY <1>1, <2>1 DEF DirInv
  <2>3. DirInv' /\ GoneInv'
    BY <1>2, <1>4, <2>1, <2>2 DEF DirInv, GoneInv, wiped
  <2>4. UseInv'
    BY <1>1, <1>2, <1>3, <1>4, <2>1 DEF UseInv
  <2>5. LiveInv'
    BY <1>4, <2>1 DEF LiveInv
  <2> QED BY <2>3, <2>4, <2>5 DEF CalmInv
<1> QED BY <1>6, <1>7

LEMMA CalmCrash ==
  ASSUME Inv, calm, Crash
  PROVE  CalmInv'
<1>1. PluginTypeOK /\ DirInv /\ GoneInv /\ LiveInv
  BY DEF Inv, CalmInv
<1>2. /\ UNCHANGED <<dir, cache, latest>> /\ at' = "idle" /\ loaded' = NoPlugin /\ next' = NoPlugin
      /\ reloads' = boot
  BY DEF Crash, disk, ghosts, step
<1>3. loaded'.root = None /\ next'.root = None
  BY <1>2 DEF NoPlugin
<1>4. kind' = kind /\ (stage' = stage \/ stage' = "lost") /\ stage' \in Over \cup {"none"}
  <2>1. CASE latest = None
    BY <1>2, <2>1 DEF stage, kind
  <2>2. CASE latest # None
    <3>1. request'[latest].kind = request[latest].kind
          /\ (request'[latest].at = request[latest].at \/ request'[latest].at = "lost")
          /\ request'[latest].at \in Over
      BY <1>1, <2>2, StageFacts DEF Crash, PluginTypeOK, Request, over, Over
    <3> QED BY <1>2, <2>2, <3>1 DEF stage, kind
  <2> QED BY <2>1, <2>2
<1>5. wiped' => wiped
  BY <1>4 DEF wiped
<1>6. DirInv'
  BY <1>1, <1>2, <1>4, <1>5 DEF DirInv, Absent, Over
<1>7. GoneInv'
  BY <1>1, <1>2, <1>3, <1>4, <1>5 DEF GoneInv, Gone, Over
<1>8. UseInv'
  BY <1>3 DEF UseInv, Snapshot, None
<1>9. ~warm'
  <2>1. 1 \in 1 .. Len(reloads') /\ reloads'[1].reason = "startup"
    BY <1>2 DEF boot
  <2> QED BY <2>1 DEF warm
<1>10. LiveInv'
  BY <1>1, <1>2, <1>4, <1>9 DEF LiveInv, Over
<1> QED BY <1>6, <1>7, <1>8, <1>10 DEF CalmInv

LEMMA CalmStep == ASSUME Inv, [PluginNext]_pluginVars, calm' PROVE CalmInv'
<1>1. ~crossed' /\ ~unmended'
  BY DEF calm
<1>2. calm
  <2>1. ASSUME NEW r \in Requests, NEW k \in Kinds, Import(r, k) PROVE calm
    BY <1>1, <2>1 DEF Import, takesOver, calm, ghosts
  <2>2. ASSUME NEW r \in Requests, Remove(r) PROVE calm
    BY <1>1, <2>2 DEF Remove, takesOver, calm, ghosts
  <2>3. ASSUME NEW r \in Requests, WriteFails(r) \/ RemoveDirFails(r) PROVE FALSE
    BY <1>1, <2>3 DEF WriteFails, RemoveDirFails
  <2>4. ASSUME NEW r \in Requests,
               \/ WriteManifest(r) \/ WriteRest(r) \/ RollBackDir(r) \/ RollBackCache(r)
               \/ DropManifest(r) \/ RemoveDir(r) \/ Purge(r) \/ AskReload(r)
        PROVE  calm
    BY <1>1, <2>4 DEF WriteManifest, WriteRest, RollBackDir, RollBackCache, DropManifest, RemoveDir,
                      Purge, AskReload, ghosts, calm
  <2>5. CASE BeginReload \/ Synced \/ StateWritten \/ SyncFails \/ Swapped \/ Crash \/ UNCHANGED pluginVars
    <3>1. ghosts' = ghosts
      BY <2>5 DEF BeginReload, Synced, StateWritten, SyncFails, Swapped, Crash, pluginVars
    <3> QED BY <1>1, <3>1 DEF ghosts, calm
  <2>6. CASE SwapFails
    BY <1>1, <2>6 DEF SwapFails, calm
  <2> QED BY <2>1, <2>2, <2>3, <2>4, <2>5, <2>6 DEF PluginNext
<1>3. ASSUME NEW r \in Requests, NEW k \in Kinds, Import(r, k) PROVE CalmInv'
  BY <1>1, <1>2, <1>3, CalmImport
<1>4. ASSUME NEW r \in Requests, Remove(r) \/ AskReload(r) PROVE CalmInv'
  BY <1>1, <1>2, <1>4, CalmRemove, CalmAskReload
<1>5. ASSUME NEW r \in Requests, WriteManifest(r) \/ WriteRest(r) PROVE CalmInv'
  BY <1>2, <1>5, CalmWrite
<1>6. ASSUME NEW r \in Requests, WriteFails(r) \/ RemoveDirFails(r) PROVE FALSE
  BY <1>1, <1>6 DEF WriteFails, RemoveDirFails
<1>7. ASSUME NEW r \in Requests, RollBackDir(r) \/ RollBackCache(r) PROVE CalmInv'
  BY <1>2, <1>7, CalmRollBack
<1>8. ASSUME NEW r \in Requests, DropManifest(r) \/ RemoveDir(r) \/ Purge(r) PROVE CalmInv'
  BY <1>2, <1>8, CalmRemoving
<1>9. CASE BeginReload
  BY <1>2, <1>9, CalmBegin
<1>10. CASE Synced \/ StateWritten \/ SyncFails
  BY <1>2, <1>10, CalmSync
<1>11. CASE Swapped
  BY <1>2, <1>11, CalmSwapped
<1>12. CASE SwapFails
  BY <1>1, <1>2, <1>12, CalmSwapFails
<1>13. CASE Crash
  BY <1>2, <1>13, CalmCrash
<1>14. CASE UNCHANGED pluginVars
  <2>1. stage' = stage /\ kind' = kind /\ (owned' <=> owned) /\ (warm' <=> warm)
        /\ UNCHANGED <<disk, loaded, at, next>>
    BY <1>14 DEF pluginVars, disk, reload, ghosts, stage, kind, owned, warm
  <2> QED BY <1>2, <2>1, CalmSame DEF Inv
<1> QED BY <1>3, <1>4, <1>5, <1>6, <1>7, <1>8, <1>9, <1>10, <1>11, <1>12, <1>13, <1>14 DEF PluginNext

-----------------------------------------------------------------------------
(* The theorems. *)

(* The invariant that the two properties follow from: every request that    *)
(* waits has its place in the queue of reloads, state.json names a snapshot *)
(* that is there, and unless requests crossed or a step failed for good,    *)
(* the directory, the cache and the loaded plugin are what the stage of the *)
(* latest import or removal says.                                           *)
THEOREM PluginsInvariant == PluginSpec => []Inv
<1>1. Inv /\ [PluginNext]_pluginVars => Inv'
  BY TypeStep, QueueStep, CacheStep, LatestStep, CalmStep DEF Inv
<1> QED BY PluginInitInv, <1>1, PTL DEF PluginSpec

(* state.json always names a snapshot that is there, and the files that the *)
(* host uses stay where they are while materializePlugin synchronizes,      *)
(* prunes and fails, whatever the process dies at.                          *)
THEOREM FilesStayAlways == PluginSpec => []FilesStay
<1>1. ASSUME Inv PROVE FilesStay
  <2>1. PluginTypeOK /\ LastGoodIsKept
    BY <1>1 DEF Inv, CacheInv
  <2>2. ASSUME calm, changing = {}, ~onDisk(loaded.root) PROVE FALSE
    <3>1. GoneInv /\ UseInv /\ loaded \in Loaded
      BY <1>1, <2>2 DEF Inv, CalmInv, PluginTypeOK
    <3>2. stage \notin {"stopping", "cacheLeft", "restoring"}
      <4>1. latest # None => stage \in Over
        BY <1>1, <2>2, StageFacts, OverFacts DEF Inv
      <4> QED BY <1>1, <4>1, StageFacts DEF Over
    <3>3. CASE loaded.root = None
      BY <2>2, <3>3 DEF onDisk, None, Dir
    <3>4. CASE loaded.root = Dir
      <4>1. ~dir.manifest
        BY <2>2, <3>4 DEF onDisk, None, Dir
      <4> QED BY <3>1, <3>2, <3>4, <4>1 DEF GoneInv, Gone, None, Dir
    <3>5. CASE loaded.root \in Snapshot
      <4>1. loaded.root \in cache.snaps
        BY <3>1, <3>2, <3>5 DEF UseInv
      <4> QED BY <2>2, <3>5, <4>1 DEF onDisk, None, Dir, Snapshot
    <3> QED BY <3>1, <3>3, <3>4, <3>5 DEF Loaded
  <2> QED BY <2>1, <2>2 DEF FilesStay, FilesInUseStay, calm
<1> QED BY <1>1, PluginsInvariant, PTL

(* What installPlugin and deletePlugin answered last stays true, across     *)
(* reloads and restarts, until the next import or removal.                  *)
THEOREM AnswersHoldAlways == PluginSpec => []AnswersHold
<1>1. ASSUME Inv PROVE AnswersHold
  <2> SUFFICES ASSUME latest # None, calm PROVE AnswersHold
    BY DEF AnswersHold, calm
  <2>1. DirInv /\ GoneInv /\ LiveInv /\ stage = request[latest].at /\ kind = request[latest].kind
    BY <1>1, StageFacts DEF Inv, CalmInv
  <2>2. CASE kind = "import" /\ stage = "done"
    <3>1. dir.manifest /\ dir.rest /\ (warm => loaded.root # None /\ loaded.whole)
      BY <2>1, <2>2 DEF DirInv, LiveInv, good
    <3> QED BY <2>1, <2>2, <3>1 DEF AnswersHold
  <2>3. CASE wiped
    <3>1. Absent(dir) /\ cache.state = None
      BY <2>1, <2>3 DEF DirInv, GoneInv, NoCache
    <3>2. loaded.root = None
      BY <2>1, <2>3, <3>1 DEF GoneInv, Gone, Absent, wiped
    <3>3. ~(kind = "import" /\ stage = "done")
      BY <2>3 DEF wiped
    <3> QED BY <2>1, <2>3, <3>1, <3>2, <3>3 DEF AnswersHold, wiped
  <2>4. CASE ~(kind = "import" /\ stage = "done") /\ ~wiped
    BY <2>1, <2>4 DEF AnswersHold, wiped
  <2> QED BY <2>2, <2>3, <2>4
<1> QED BY <1>1, PluginsInvariant, PTL

=============================================================================
