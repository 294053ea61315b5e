---------------------------- MODULE GraphManager ----------------------------
(***************************************************************************)
(* The agents of the api-server: GraphManager of                           *)
(* apps/api-server/src/graph-manager.ts, with the callers in agent-host.ts *)
(* that change the default model, the capabilities, the settings and the   *)
(* providers, and the turns that ask for an agent meanwhile.               *)
(*                                                                         *)
(* An agent is compiled for a model from the capabilities and the settings *)
(* read when its compilation began.  Compiling takes time.  Capabilities   *)
(* and settings are counted: a greater number is a later value.            *)
(***************************************************************************)
EXTENDS Naturals, Sequences, FiniteSets

CONSTANTS
  Models,     \* the qualified ids of models
  Turns,      \* callers of agentFor
  NoTurn,     \* no caller waits for the update
  MaxChanges  \* bound: changes of the default, the capabilities, the settings and the providers

ASSUME NoTurnAssumption == NoTurn \notin Turns

VARIABLES
  \* GraphManager:
  modelId,      \* the default model
  dependencies, \* the capabilities of the last applied update
  applied,      \* appliedRuntimeSettings
  agentImpl,    \* the agent of the default model
  builds,       \* compilations for other models, at work or in the cache
  updates,      \* the queue of updates, its first at work
  \* Its callers:
  hostModel,    \* AgentHost.modelId, stored with every change as the default
  choosing,     \* defaults that are being validated and built
  setBack,      \* ghost: the last change was undone before it was begun
  patched,      \* settings requests that have not yet asked for a rebuild
  turn,         \* turn -> what it asked for and how far it has come
  \* The world:
  settings,     \* the settings in the store
  replaced,     \* capabilities announced so far
  works,        \* models whose provider can build them
  changes       \* changes so far

manager == <<modelId, dependencies, applied, agentImpl>>
selection == <<hostModel, choosing, setBack>>
world   == <<settings, replaced, works, changes>>
vars    == <<manager, builds, updates, selection, patched, turn, world>>

-----------------------------------------------------------------------------

Agent == [model : Models, capabilities : Nat, settings : Nat]

(* An update waits for its turn, builds the default model, compiles.        *)
Update ==
  [kind : {"rebuild", "replace", "default"}, at : {"waiting", "building", "compiling"},
   model : Models, capabilities : Nat, settings : Nat, waiter : Turns \cup {NoTurn}]

(* A build resolves its model, compiles with what it reads then, and is     *)
(* done; it is cached until an update clears the cache or a build of its    *)
(* model fails.                                                             *)
Build ==
  [at : {"resolving", "compiling", "done", "rejected"}, agent : Agent,
   waiting : SUBSET Turns, cached : BOOLEAN]

(* floor and since are the capabilities applied and the settings stored     *)
(* when the turn asked, shaky the models that could not be built at some    *)
(* time since, culprit the model whose build made the turn fail.            *)
Turn ==
  [at : {"idle", "reloading", "settled", "building", "served", "failed"},
   model : Models, floor : Nat, since : Nat, agent : Agent,
   shaky : SUBSET Models, culprit : Models]

TypeOK ==
  /\ modelId \in Models
  /\ dependencies \in Nat
  /\ applied \in Nat
  /\ agentImpl \in Agent
  /\ builds \subseteq Build
  /\ updates \in Seq(Update)
  /\ hostModel \in Models
  /\ choosing \subseteq Models
  /\ setBack \in BOOLEAN
  /\ patched \in Nat
  /\ turn \in [Turns -> Turn]
  /\ settings \in Nat
  /\ replaced \in Nat
  /\ works \subseteq Models
  /\ changes \in Nat

cacheOf(m) == {b \in builds : b.cached /\ b.agent.model = m}

agentOf(m, c, s) == [model |-> m, capabilities |-> c, settings |-> s]

idleTurn(m) ==
  [at |-> "idle", model |-> m, floor |-> 0, since |-> 0, agent |-> agentOf(m, 0, 0),
   shaky |-> {}, culprit |-> m]

entry(a) == [at |-> "done", agent |-> a, waiting |-> {}, cached |-> TRUE]

(* warm() has initialized the manager.                                      *)
Init ==
  \E m \in Models :
    /\ modelId = m
    /\ hostModel = m
    /\ dependencies = 0
    /\ applied = 0
    /\ agentImpl = agentOf(m, 0, 0)
    /\ builds = {entry(agentOf(m, 0, 0))}
    /\ updates = <<>>
    /\ choosing = {}
    /\ setBack = FALSE
    /\ patched = 0
    /\ turn = [t \in Turns |-> idleTurn(m)]
    /\ settings = 0
    /\ replaced = 0
    /\ works = Models
    /\ changes = 0

-----------------------------------------------------------------------------
(* The queue of updates: enqueueUpdate, rebuild, applyCapabilities. *)

update(kind, m, c, t) ==
  [kind |-> kind, at |-> "waiting", model |-> m, capabilities |-> c,
   settings |-> 0, waiter |-> t]

enqueueUpdate(u) == updates' = Append(updates, u)

head == Head(updates)
advance(u) == updates' = [updates EXCEPT ![1] = u]

(* The turn that waits for an update goes on, or fails with it.             *)
answer(t, outcome, m) ==
  turn' = IF t = NoTurn THEN turn
          ELSE [turn EXCEPT ![t].at = outcome, ![t].culprit = m]

(* The first update of the queue begins.  A replacement starts from the     *)
(* capabilities there are; a new default brings the model it was built      *)
(* with, so that it compiles at once.                                       *)
BeginUpdate ==
  /\ updates # <<>>
  /\ head.at = "waiting"
  /\ IF head.kind = "default"
     THEN /\ modelId' = head.model
          /\ advance([head EXCEPT !.at = "compiling", !.settings = settings,
                                  !.capabilities = dependencies])
     ELSE /\ advance([head EXCEPT !.at = "building", !.model = modelId,
                        !.capabilities = IF head.kind = "replace" THEN head.capabilities
                                         ELSE dependencies])
          /\ UNCHANGED modelId
  /\ UNCHANGED <<dependencies, applied, agentImpl, builds, selection, patched, turn, world>>

(* buildDefaultModel resolves, and the compilation reads the settings.      *)
ModelBuilt ==
  /\ updates # <<>>
  /\ head.at = "building"
  /\ head.model \in works
  /\ advance([head EXCEPT !.at = "compiling", !.settings = settings])
  /\ UNCHANGED <<manager, builds, selection, patched, turn, world>>

MutUpdateBlocksQueue ==             \* a failed update is never taken off the queue
  /\ updates # <<>>
  /\ head.at = "building"
  /\ head.model \notin works
  /\ advance([head EXCEPT !.at = "broken", !.waiter = NoTurn])
  /\ answer(head.waiter, "failed", head.model)
  /\ UNCHANGED <<manager, builds, selection, patched, world>>

(* It throws: nothing is applied, and whoever waits for the update gets the *)
(* error.                                                                   *)
UpdateFails ==
  /\ updates # <<>>
  /\ head.at = "building"
  /\ head.model \notin works
  /\ updates' = Tail(updates)
  /\ answer(head.waiter, "failed", head.model)
  /\ UNCHANGED <<manager, builds, selection, patched, world>>

clear == {[b EXCEPT !.cached = FALSE] : b \in {c \in builds : c.waiting # {}}}

MutApplyKeepsCache ==               \* the cache is not cleared
  /\ updates # <<>>
  /\ head.at = "compiling"
  /\ LET agent == agentOf(head.model, head.capabilities, head.settings)
     IN  /\ dependencies' = head.capabilities
         /\ agentImpl' = agent
         /\ applied' = head.settings
         /\ builds' = (builds \ cacheOf(modelId)) \cup {entry(agent)}
  /\ updates' = Tail(updates)
  /\ answer(head.waiter, "settled", head.model)
  /\ UNCHANGED <<modelId, selection, patched, world>>

(* The agent is compiled: it is installed with what it was compiled from.   *)
Apply ==
  /\ updates # <<>>
  /\ head.at = "compiling"
  /\ LET agent == agentOf(head.model, head.capabilities, head.settings)
     IN  /\ dependencies' = head.capabilities
         /\ agentImpl' = agent
         /\ applied' = head.settings
         /\ builds' = clear \cup {entry(agent)}
  /\ updates' = Tail(updates)
  /\ answer(head.waiter, "settled", head.model)
  /\ UNCHANGED <<modelId, selection, patched, world>>

-----------------------------------------------------------------------------
(* agentFor. *)

MutAskAnyhow(t, m) ==               \* settings are not compared
  /\ turn[t].at = "idle"
  /\ turn' = [turn EXCEPT ![t] =
                [idleTurn(m) EXCEPT !.at = "settled", !.floor = dependencies,
                                    !.since = settings, !.shaky = Models \ works]]
  /\ UNCHANGED <<manager, builds, updates, selection, patched, world>>

(* resolveTurn settles for an explicit, a pinned or the default model and   *)
(* asks for its agent; ensureSettings rebuilds when the settings differ     *)
(* from those applied.                                                      *)
Ask(t, m) ==
  /\ turn[t].at = "idle"
  /\ turn' = [turn EXCEPT ![t] =
                [idleTurn(m) EXCEPT !.at = IF settings = applied THEN "settled" ELSE "reloading",
                                    !.floor = dependencies, !.since = settings,
                                    !.shaky = Models \ works]]
  /\ IF settings = applied THEN UNCHANGED updates
     ELSE enqueueUpdate(update("rebuild", modelId, dependencies, t))
  /\ UNCHANGED <<manager, builds, selection, patched, world>>

serve(ts, a) ==
  turn' = [t \in Turns |-> IF t \in ts THEN [turn[t] EXCEPT !.at = "served", !.agent = a]
                           ELSE turn[t]]

await(t) == turn' = [turn EXCEPT ![t].at = "building"]

(* The settings are right: the agent of the default model is there; another *)
(* is in the cache, on its way there, or has to be built.                   *)
Pick(t) ==
  LET m == turn[t].model
  IN  /\ turn[t].at = "settled"
      /\ IF m = modelId THEN serve({t}, agentImpl) /\ UNCHANGED builds
         ELSE IF cacheOf(m) = {}
         THEN /\ builds' = builds \cup {[at |-> "resolving", agent |-> agentOf(m, 0, 0),
                                         waiting |-> {t}, cached |-> TRUE]}
              /\ await(t)
         ELSE \E b \in cacheOf(m) :
                CASE b.at = "done"     -> serve({t}, b.agent) /\ UNCHANGED builds
                  [] b.at = "rejected" -> answer(t, "failed", m) /\ UNCHANGED builds
                  [] OTHER             ->
                       /\ builds' = (builds \ {b}) \cup {[b EXCEPT !.waiting = @ \cup {t}]}
                       /\ await(t)
      /\ UNCHANGED <<manager, updates, selection, patched, world>>

(* resolveModel is through: the compilation reads what is in force now.     *)
Resolved(b) ==
  /\ b.at = "resolving"
  /\ b.agent.model \in works
  /\ builds' = (builds \ {b}) \cup
       {[b EXCEPT !.at = "compiling",
                  !.agent = agentOf(b.agent.model, dependencies, settings)]}
  /\ UNCHANGED <<manager, updates, selection, patched, turn, world>>

drop(b) == IF b.cached THEN {b} ELSE {}

Compiled(b) ==
  /\ b.at = "compiling"
  /\ builds' = (builds \ {b}) \cup {[c EXCEPT !.at = "done", !.waiting = {}] : c \in drop(b)}
  /\ serve(b.waiting, b.agent)
  /\ UNCHANGED <<manager, updates, selection, patched, world>>

fail(b) ==
  turn' = [t \in Turns |->
             IF t \in b.waiting
             THEN [turn[t] EXCEPT !.at = "failed", !.culprit = b.agent.model]
             ELSE turn[t]]

MutRejectedStaysCached(b) ==        \* the rejected promise stays in the cache
  /\ b.at = "resolving"
  /\ b.agent.model \notin works
  /\ builds' = (builds \ {b}) \cup {[c EXCEPT !.at = "rejected", !.waiting = {}] : c \in drop(b)}
  /\ fail(b)
  /\ UNCHANGED <<manager, updates, selection, patched, world>>

(* The model cannot be built: the cache forgets whatever it has of that     *)
(* model, be it this build or one begun after the cache was cleared.        *)
Rejected(b) ==
  LET m    == b.agent.model
      rest == builds \ {b}
  IN  /\ b.at = "resolving"
      /\ m \notin works
      /\ builds' = (rest \ cacheOf(m)) \cup
           {[c EXCEPT !.cached = FALSE] : c \in {d \in rest \cap cacheOf(m) : d.waiting # {}}}
      /\ fail(b)
      /\ UNCHANGED <<manager, updates, selection, patched, world>>

(* The caller has its agent or its error.                                   *)
Leave(t) ==
  /\ turn[t].at \in {"served", "failed"}
  /\ turn' = [turn EXCEPT ![t] = idleTurn(turn[t].model)]
  /\ UNCHANGED <<manager, builds, updates, selection, patched, world>>

-----------------------------------------------------------------------------
(* What changes the agents. *)

change ==
  /\ changes < MaxChanges
  /\ changes' = changes + 1

(* AgentHost.setDefaultModel validates and builds the model ...             *)
ChooseDefault(m) ==
  /\ change
  /\ m \notin choosing
  /\ choosing' = choosing \cup {m}
  /\ UNCHANGED <<manager, builds, updates, hostModel, setBack, patched, turn, settings,
                 replaced, works>>

(* A change of the default that the manager has not begun. *)
switching ==
  \E i \in 1 .. Len(updates) : updates[i].kind = "default" /\ updates[i].at = "waiting"

MutSettleDefault(m) ==              \* compares with the agent that is installed
  /\ m \in choosing
  /\ choosing' = choosing \ {m}
  /\ hostModel' = m
  /\ setBack' = (m = modelId /\ switching)
  /\ IF m = agentImpl.model THEN UNCHANGED updates
     ELSE enqueueUpdate(update("default", m, 0, NoTurn))
  /\ UNCHANGED <<manager, builds, patched, turn, world>>

(* ... and re-points the default.  A model that cannot be built is replaced *)
(* by one that fails when it is used, so this step always comes.            *)
SettleDefault(m) ==
  /\ m \in choosing
  /\ choosing' = choosing \ {m}
  /\ hostModel' = m
  /\ setBack' = (m = modelId /\ switching)
  /\ IF m = modelId THEN UNCHANGED updates
     ELSE enqueueUpdate(update("default", m, 0, NoTurn))
  /\ UNCHANGED <<manager, builds, patched, turn, world>>

(* replaceCapabilities, of the MCP servers or the skills.                   *)
ReplaceCapabilities ==
  /\ change
  /\ replaced' = replaced + 1
  /\ enqueueUpdate(update("replace", modelId, replaced + 1, NoTurn))
  /\ UNCHANGED <<manager, builds, selection, patched, turn, settings, works>>

(* PUT /settings stores the settings ...                                    *)
PatchSettings ==
  /\ change
  /\ settings' = settings + 1
  /\ patched' = patched + 1
  /\ UNCHANGED <<manager, builds, updates, selection, turn, replaced, works>>

(* ... and reloads them once the host is warm.                              *)
ReloadSettings ==
  /\ patched > 0
  /\ patched' = patched - 1
  /\ enqueueUpdate(update("rebuild", modelId, dependencies, NoTurn))
  /\ UNCHANGED <<manager, builds, selection, turn, world>>

setWorks(m) ==
  /\ change
  /\ works' = IF m \in works THEN works \ {m} ELSE works \cup {m}
  /\ turn' = [t \in Turns |-> [turn[t] EXCEPT !.shaky =
                IF turn[t].at = "idle" THEN {} ELSE @ \cup (Models \ works')]]
  /\ UNCHANGED <<settings, replaced>>

(* A provider is configured, rightly or wrongly, and the agents are rebuilt. *)
ConfigureProvider(m) ==
  /\ setWorks(m)
  /\ enqueueUpdate(update("rebuild", modelId, dependencies, NoTurn))
  /\ UNCHANGED <<manager, builds, selection, patched>>

(* Credentials expire or come back.                                         *)
Outage(m) ==
  /\ setWorks(m)
  /\ UNCHANGED <<manager, builds, updates, selection, patched>>

Next ==
  \/ BeginUpdate \/ ModelBuilt \/ UpdateFails \/ Apply
  \/ \E t \in Turns : (\E m \in Models : Ask(t, m)) \/ Pick(t) \/ Leave(t)
  \/ \E b \in builds : Resolved(b) \/ Compiled(b) \/ Rejected(b)
  \/ \E m \in Models : ChooseDefault(m) \/ SettleDefault(m) \/ ConfigureProvider(m) \/ Outage(m)
  \/ ReplaceCapabilities \/ PatchSettings \/ ReloadSettings

(* Promises settle and their continuations run; nobody has to ask for       *)
(* anything.                                                                *)
Spec ==
  /\ Init
  /\ [][Next]_vars
  /\ WF_vars(BeginUpdate) /\ WF_vars(ModelBuilt \/ UpdateFails) /\ WF_vars(Apply)
  /\ WF_vars(ReloadSettings)
  /\ \A m \in Models : WF_vars(SettleDefault(m))
  /\ \A t \in Turns :
       /\ WF_vars(Pick(t))
       /\ WF_vars(\E b \in builds : /\ t \in b.waiting
                                    /\ Resolved(b) \/ Compiled(b) \/ Rejected(b))

-----------------------------------------------------------------------------

(* The state is well formed, and once no change is under way the host and   *)
(* the graph manager name the same default.  One exception: a default that  *)
(* is set back while the change is queued is taken for the current one, and *)
(* the manager ends on the model that was abandoned.                        *)
DefaultsAgree ==
  /\ TypeOK
  /\ updates = <<>> /\ choosing = {} /\ ~setBack => hostModel = modelId

(* No turn is served by an agent that lacks what a replacement applied      *)
(* before the turn asked has brought, or still has what it took away, be it *)
(* the agent of the default model, a cached one or one under construction.  *)
RevokedCapabilitiesUnused ==
  \A t \in Turns : turn[t].at = "served" => turn[t].agent.capabilities >= turn[t].floor

(* A turn is served by an agent compiled from settings that were in force   *)
(* at some time since it asked: "a stale graph" never serves, not even      *)
(* before the rebuild that a settings request asks for.                     *)
SettingsInForce ==
  \A t \in Turns : turn[t].at = "served" => turn[t].agent.settings >= turn[t].since

(* No turn is served by what was replaced before it asked.                  *)
AgentsAreUpToDate == RevokedCapabilitiesUnused /\ SettingsInForce

(* A turn fails only over a model that could not be built while it waited:  *)
(* neither a rejected build in the cache nor somebody else's update fails   *)
(* it.                                                                      *)
FailuresHaveACause ==
  \A t \in Turns : turn[t].at = "failed" => turn[t].culprit \in turn[t].shaky

(* Every turn gets its agent or an error.                                   *)
waits(t) == turn[t].at \in {"reloading", "settled", "building"}
TurnsAreAnswered == \A t \in Turns : waits(t) ~> ~waits(t)

=============================================================================
