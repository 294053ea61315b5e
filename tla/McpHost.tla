------------------------------ MODULE McpHost ------------------------------
(***************************************************************************)
(* The MCP servers of the api-server: the part of AgentHost                *)
(* (apps/api-server/src/agent-host.ts) that connects them, publishes their *)
(* tools to the graph, notices crashes (mcp-health-monitor.ts), reconnects *)
(* and reloads, and closes what it has replaced (McpClientPool of          *)
(* packages/plugin-sdk/src/plugin-host.ts).                                *)
(*                                                                         *)
(* Reloads and reconnects are jobs of one queue; crashes, changes of the   *)
(* skills and the progress of a reload publish tools beside it.  Every     *)
(* server has one skill, which declares its tools.  A connection is a      *)
(* number; the tools of a server are the connection they call.             *)
(***************************************************************************)
EXTENDS Naturals, Sequences, FiniteSets

CONSTANTS
  Servers,
  Runs,        \* runs that can be at work at a time
  SkillsOn,    \* servers whose skill is switched on at first
  MaxConns,    \* bound: connections ever made
  MaxRequests, \* bound: reloads, reconnects, switches
  MaxUpsets    \* bound: crashes, failed connections and failed updates

ASSUME SkillsAssumption == SkillsOn \subseteq Servers
ASSUME BoundsAssumption == MaxConns \in Nat

VARIABLES
  \* AgentHost:
  lifecycle,  \* server -> its status, mcpLifecycle
  table,      \* server -> published connection, mcpTools and mcpCatalog
  applied,    \* server -> status of its skill in the graph, appliedSkillProjection
  loaded,     \* the plugins could be loaded when the host started
  plugins,    \* pluginsImpl is there; without it there is no pool
  pool,       \* server -> connection of pluginsImpl.client
  watched,    \* server -> connection whose onclose is heeded
  timers,     \* servers with a recovery timer
  jobs,       \* mcpReloads: what waits behind the job at work
  job,        \* the job at work
  pending,    \* pendingMcpCapabilities, at most one
  drain,      \* how far their drain has come
  broken,     \* mcpCapabilityUpdates has been rejected
  retiring,   \* replaced connections that wait for the end of runs
  closing,    \* how far close() has come
  \* GraphManager and the run registry:
  updates,    \* queued replacements of the graph's capabilities
  graph,      \* server -> connection its tools call
  holding,    \* run -> what it was given
  \* The world:
  enabled,    \* servers that are switched on
  skills,     \* servers whose skill is switched on
  conns,      \* connection -> its server, and whether it is open
  requests,   \* requests so far
  upsets,     \* upsets so far
  \* Ghosts:
  orphans,    \* connections that a reload made while there were no plugins
  discarded,  \* connections that were closed because their job failed
  left,       \* servers left crashed by a failed job, with no other on its way
  unoffered   \* servers without tools when a failed reload put back the rest

published == <<table, updates>>
watching  == <<watched, unoffered>>
queued    == <<pending, drain, broken>>
work      == <<graph, holding>>
switches  == <<enabled, skills>>
pools     == <<pool, loaded, plugins, orphans>>
recovery  == <<timers, left>>
history   == <<requests, upsets, discarded>>
vars == <<lifecycle, published, applied, pools, watching, recovery, jobs, job, queued,
          retiring, closing, work, switches, conns, history>>

-----------------------------------------------------------------------------

NoConn == 0
Conn   == 1 .. Len(conns)
Tools  == [Servers -> 0 .. MaxConns]
none   == [s \in Servers |-> NoConn]

Statuses  == {"disabled", "loading", "connected", "error", "crashed"}
Lifecycle == [Servers -> Statuses]
\* A skill that is on has its server's trouble, or is ready once the server's
\* tools are there.
Readiness == [Servers -> Statuses \cup {"off", "undiscovered", "ready"}]

members(tools) == {tools[s] : s \in Servers} \ {NoConn}
isOpen(c)      == conns[c].state = "open"

(* What a request is about, and what a failure switches back to.            *)
Reloads == {"reload", "plugins"}       \* of the servers only, of the plugins as well
Request == [kind : Reloads \cup {"reconnect"}, server : SUBSET Servers, was : BOOLEAN]
Update  == [tools : Tools, print : Readiness, by : {"job", "drain", "other"},
            skill : SUBSET Servers, was : BOOLEAN]

back(on, servers, was) == IF was THEN on \cup servers ELSE on \ servers

(* The job at work: its request, the servers it has yet to connect, what it *)
(* has connected, what it remembers of before, and the connection it took   *)
(* out of the pool.                                                         *)
Job ==
  [request : Request \cup {<<>>},
   at : {"idle", "clearing", "connecting", "publishing", "failed", "restoring", "refused"},
   todo : SUBSET Servers, fresh : Tools, tools : Tools, lifecycle : Lifecycle,
   displaced : 0 .. MaxConns]

NoJob ==
  [request |-> <<>>, at |-> "idle", todo |-> {}, fresh |-> none, tools |-> none,
   lifecycle |-> [s \in Servers |-> "disabled"], displaced |-> NoConn]

TypeOK ==
  /\ lifecycle \in Lifecycle
  /\ {table, pool, watched, graph} \subseteq Tools
  /\ applied \in Readiness
  /\ loaded \in BOOLEAN /\ plugins \in BOOLEAN
  /\ timers \subseteq Servers
  /\ jobs \in Seq(Request)
  /\ job \in Job
  /\ pending \subseteq Tools /\ Cardinality(pending) <= 1
  /\ drain \in {"off", "ready", "applying"}
  /\ broken \in BOOLEAN
  /\ retiring \subseteq [conns : SUBSET Conn, until : SUBSET Runs]
  /\ closing \in {"no", "draining", "closed"}
  /\ updates \in Seq(Update)
  /\ holding \in [Runs -> [busy : BOOLEAN, tools : SUBSET Conn, stale : SUBSET Conn]]
  /\ enabled \subseteq Servers /\ skills \subseteq Servers
  /\ conns \in Seq([server : Servers, state : {"open", "dead", "closed"}])
  /\ requests \in Nat /\ upsets \in Nat
  /\ orphans \subseteq Conn /\ discarded \subseteq Conn
  /\ left \subseteq Servers /\ unoffered \subseteq Servers

readiness(on, life, tools) ==
  [s \in Servers |-> IF s \notin on THEN "off"
                     ELSE IF life[s] # "connected" THEN life[s]
                     ELSE IF tools[s] = NoConn THEN "undiscovered" ELSE "ready"]

idleRun == [busy |-> FALSE, tools |-> {}, stale |-> {}]
busy    == {r \in Runs : holding[r].busy}

(* warm() has loaded the plugins, or not, and published the skills that     *)
(* need no server; the first reload is queued.                              *)
Init ==
  /\ enabled = Servers
  /\ skills = SkillsOn
  /\ lifecycle = [s \in Servers |-> "loading"]
  /\ loaded \in BOOLEAN
  /\ plugins = loaded
  /\ table = none /\ pool = none /\ watched = none /\ graph = none
  /\ applied = readiness(skills, lifecycle, none)
  /\ timers = {}
  /\ jobs = <<[kind |-> "reload", server |-> {}, was |-> TRUE]>>
  /\ job = NoJob
  /\ pending = {} /\ drain = "off" /\ broken = FALSE
  /\ retiring = {}
  /\ closing = "no"
  /\ updates = <<>>
  /\ holding = [r \in Runs |-> idleRun]
  /\ conns = <<>>
  /\ requests = 0 /\ upsets = 0
  /\ orphans = {} /\ discarded = {} /\ left = {} /\ unoffered = {}

upset == upsets < MaxUpsets /\ upsets' = upsets + 1

-----------------------------------------------------------------------------
(* Publishing tools: applyMcpCapabilities. *)

(* Is there anything to replace in the graph?                               *)
unchanged(tools, life) == readiness(skills, life, tools) = applied

enqueue(tools, print, by, skill) ==
  updates' = Append(updates, [tools |-> tools, print |-> print, by |-> by,
                              skill |-> skill, was |-> skill \subseteq skills])

(* The replacement of what the graph has is queued, and the tools are noted *)
(* when it is done.                                                         *)
rebuild(tools, life, by) ==
  enqueue(tools, readiness(skills, life, tools), by, {}) /\ UNCHANGED table

(* If the graph has all this already, the tools are noted at once.          *)
apply(tools, life, by) ==
  IF unchanged(tools, life) THEN table' = tools /\ UNCHANGED updates
  ELSE rebuild(tools, life, by)

queueMcpCapabilities(tools) ==
  /\ pending' = {tools}
  /\ drain' = IF drain = "off" THEN "ready" ELSE drain
  /\ broken' = (broken /\ drain # "off")

(* The loop that queueMcpCapabilities starts takes what is pending, or ends. *)
DrainPending ==
  /\ drain = "ready"
  /\ pending' = {}
  /\ IF pending = {} THEN drain' = "off" /\ UNCHANGED published
     ELSE \E tools \in pending :
            /\ apply(tools, lifecycle, "drain")
            /\ drain' = IF unchanged(tools, lifecycle) THEN "ready" ELSE "applying"
  /\ UNCHANGED <<lifecycle, applied, pools, watching, recovery, jobs, job, broken, retiring,
                 closing, work, switches, conns, history>>

-----------------------------------------------------------------------------
(* How a job ends. *)

isReload == job.request.kind \in Reloads
subject  == CHOOSE s \in job.request.server : TRUE

closed(cs, all) ==
  [c \in DOMAIN all |-> IF c \in cs THEN [all[c] EXCEPT !.state = "closed"] ELSE all[c]]

MutRetire(cs, all) == conns' = closed(cs, all) /\ UNCHANGED retiring  \* waits for nobody

(* retireMcpClient: closed once the runs at work now are over.              *)
retire(cs, all) ==
  IF cs = {} \/ busy = {} THEN conns' = closed(cs, all) /\ UNCHANGED retiring
  ELSE /\ retiring' = retiring \cup {[conns |-> cs, until |-> busy]}
       /\ conns' = all

(* armMcpHealth: the servers of the catalog, with the connections they have *)
(* in the pool.                                                             *)
armed(tools, clients) == [s \in Servers |-> IF tools[s] = NoConn THEN NoConn ELSE clients[s]]

(* A reload of the plugins brings them.  The connections of a reload are    *)
(* the pool from now on, and watched, if there are plugins to hold it;      *)
(* otherwise their tools are offered, but nobody holds the connections.     *)
publishReload(j, all) ==
  LET clients == IF plugins' THEN j.fresh ELSE pool
  IN  /\ plugins' = (plugins \/ j.request.kind = "plugins")
      /\ orphans' = IF plugins' THEN orphans ELSE orphans \cup members(j.fresh)
      /\ loaded' = loaded
      /\ pool' = clients
      /\ watched' = armed(j.fresh, clients)
      /\ unoffered' = {}
      /\ retire(members(pool), all)
      /\ job' = NoJob

(* A reconnect watches the connection c that it put into the pool.          *)
publishReconnect(j, c, all) ==
  /\ \E s \in j.request.server :
       /\ pool' = [pool EXCEPT ![s] = c]
       /\ watched' = [watched EXCEPT ![s] = c]
       /\ unoffered' = unoffered \ {s}
  /\ retire({j.displaced} \ {NoConn}, all)
  /\ job' = NoJob
  /\ UNCHANGED <<loaded, plugins, orphans>>

MutPublish(j, c, all) ==             \* a reconnected server is not armed
  IF j.request.kind \in Reloads THEN publishReload(j, all)
  ELSE /\ retire({j.displaced} \ {NoConn}, all)
       /\ job' = NoJob
       /\ UNCHANGED <<pools, watching>>

MutPublishKeeps(j, c, all) ==        \* nobody closes what was replaced
  /\ IF j.request.kind \in Reloads
     THEN pool' = j.fresh /\ watched' = armed(j.fresh, j.fresh)
     ELSE /\ \E s \in j.request.server : watched' = [watched EXCEPT ![s] = c]
          /\ pool' = pool
  /\ unoffered' = IF j.request.kind \in Reloads THEN {} ELSE unoffered \ j.request.server
  /\ conns' = all
  /\ job' = NoJob
  /\ UNCHANGED <<loaded, plugins, orphans, retiring>>

MutPublishCloses(j, c, all) ==       \* what has no pool is closed at once
  IF ~plugins /\ j.request.kind = "reload"
  THEN /\ conns' = closed(members(j.fresh), all)
       /\ job' = NoJob
       /\ UNCHANGED <<pools, watching, retiring>>
  ELSE IF j.request.kind \in Reloads THEN publishReload(j, all)
  ELSE publishReconnect(j, c, all)

(* The graph has the result of job j; what it replaces is retired.          *)
publish(j, c, all) ==
  IF j.request.kind \in Reloads THEN publishReload(j, all) ELSE publishReconnect(j, c, all)

ask(kind, server) ==
  jobs' = Append(jobs, [kind |-> kind, server |-> server, was |-> server \subseteq enabled])

(* The job has failed and the tools of before have been restored, or not.   *)
(* A reload watches the old connections again; a change of a preference is  *)
(* undone and followed by another reload.                                   *)
giveUp(tools) ==
  /\ IF isReload
     THEN /\ watched' = armed(tools, pool)
          /\ unoffered' = {s \in Servers : tools[s] = NoConn}
          /\ enabled' = back(enabled, job.request.server, job.request.was)
          /\ IF job.request.server = {} THEN UNCHANGED jobs ELSE ask("reload", {})
     ELSE UNCHANGED <<watching, enabled, jobs>>
  /\ job' = NoJob

-----------------------------------------------------------------------------
(* The graph is replaced, or not. *)

head == Head(updates)

jobGoesOn ==
  CASE job.at = "publishing" ->
         publish(job, pool[subject], conns) /\ UNCHANGED <<enabled, jobs>>
    [] job.at = "restoring"  ->
         giveUp(head.tools) /\ UNCHANGED <<pools, conns, retiring>>
    [] OTHER ->
         /\ job' = [job EXCEPT !.at = "connecting"]
         /\ UNCHANGED <<pools, watching, conns, retiring, enabled, jobs>>

(* Whoever asked for it notes the tools and goes on.                        *)
UpdateDone ==
  /\ updates # <<>>
  /\ updates' = Tail(updates)
  /\ graph' = head.tools
  /\ applied' = head.print
  /\ table' = head.tools
  /\ IF head.by = "job" THEN jobGoesOn
     ELSE UNCHANGED <<job, pools, watching, conns, retiring, enabled, jobs>>
  /\ drain' = IF head.by = "drain" THEN "ready" ELSE drain
  /\ UNCHANGED <<lifecycle, recovery, pending, broken, closing, holding, skills, history>>

(* A reload has tried all its servers and waits for the drain.              *)
flushing == job.at = "connecting" /\ job.todo = {}

(* The graph's model cannot be built and the graph stays as it is.  A job   *)
(* fails, or gives up; the drain ends, or starts over with what is pending, *)
(* and fails the reload that waits for it; a skill is switched back.        *)
UpdateFails ==
  /\ updates # <<>>
  /\ upset
  /\ updates' = Tail(updates)
  /\ skills' = back(skills, head.skill, head.was)
  /\ IF head.by = "job" /\ job.at = "restoring" THEN giveUp(table)
     ELSE /\ \/ head.by # "job" /\ UNCHANGED job
             \/ /\ head.by = "job" \/ (head.by = "drain" /\ flushing)
                /\ job' = [job EXCEPT !.at = "failed"]
          /\ UNCHANGED <<watching, enabled, jobs>>
  /\ IF head.by = "drain"
     THEN /\ drain' = IF pending = {} THEN "off" ELSE "ready"
          /\ broken' = (pending = {})
     ELSE UNCHANGED <<drain, broken>>
  /\ UNCHANGED <<lifecycle, table, applied, pools, recovery, pending, retiring, closing, work,
                 conns, requests, discarded>>

-----------------------------------------------------------------------------
(* Connections. *)

status(s, st) == lifecycle' = [lifecycle EXCEPT ![s] = st]

connecting(s) == job.at = "connecting" /\ s \in job.todo

(* A server of a reload is connected: its tools are published as progress.  *)
ConnectedReloading(s, c, all) ==
  LET fresh == [job.fresh EXCEPT ![s] = c]
  IN  /\ isReload
      /\ queueMcpCapabilities(fresh)
      /\ job' = [job EXCEPT !.todo = @ \ {s}, !.fresh = fresh]
      /\ conns' = all
      /\ UNCHANGED <<pools, watching, retiring, published>>

(* The server of a reconnect takes its place in the pool, and in the tools  *)
(* remembered from before.                                                  *)
ConnectedAgain(s, c, all) ==
  LET life  == [lifecycle EXCEPT ![s] = "connected"]
      tools == [job.tools EXCEPT ![s] = c]
      next  == [job EXCEPT !.todo = {}, !.fresh = [none EXCEPT ![s] = c],
                           !.displaced = pool[s], !.at = "publishing"]
  IN  /\ ~isReload
      /\ plugins
      /\ apply(tools, life, "job")
      /\ IF unchanged(tools, life) THEN publish(next, c, all)
         ELSE /\ pool' = [pool EXCEPT ![s] = c]
              /\ job' = next
              /\ conns' = all
              /\ UNCHANGED <<loaded, plugins, orphans, watching, retiring>>
      /\ UNCHANGED queued

(* Without plugins there is no pool that could take it.                     *)
ConnectedInVain(s, c, all) ==
  /\ ~isReload
  /\ ~plugins
  /\ job' = [job EXCEPT !.todo = {}, !.fresh = [none EXCEPT ![s] = c], !.at = "refused"]
  /\ conns' = all
  /\ UNCHANGED <<published, pools, watching, queued, retiring>>

Connected(s) ==
  LET c   == Len(conns) + 1
      all == Append(conns, [server |-> s, state |-> "open"])
  IN  /\ connecting(s)
      /\ c <= MaxConns
      /\ status(s, "connected")
      /\ \/ ConnectedReloading(s, c, all)
         \/ ConnectedAgain(s, c, all)
         \/ ConnectedInVain(s, c, all)
      /\ UNCHANGED <<applied, recovery, jobs, closing, work, switches, history>>

(* All attempts have failed: the skills that need the server are told.  A   *)
(* reconnect ends here.                                                     *)
ConnectFails(s) ==
  /\ connecting(s)
  /\ upset
  /\ status(s, "error")
  /\ queueMcpCapabilities(IF pending = {} THEN table ELSE CHOOSE p \in pending : TRUE)
  /\ job' = IF isReload THEN [job EXCEPT !.todo = @ \ {s}] ELSE NoJob
  /\ UNCHANGED <<published, applied, pools, watching, recovery, jobs, retiring, closing, work,
                 switches, conns, requests, discarded>>

MutRefused ==                        \* leaves the connection open
  /\ job.at = "refused"
  /\ status(subject, job.lifecycle[subject])
  /\ job' = NoJob
  /\ UNCHANGED <<published, applied, pools, watching, recovery, jobs, queued, retiring, closing,
                 work, switches, conns, history>>

(* It is closed, and the reconnect ends with the status of before.          *)
Refused ==
  /\ job.at = "refused"
  /\ conns' = closed(members(job.fresh), conns)
  /\ discarded' = discarded \cup members(job.fresh)
  /\ status(subject, job.lifecycle[subject])
  /\ job' = NoJob
  /\ UNCHANGED <<published, applied, pools, watching, recovery, jobs, queued, retiring, closing,
                 work, switches, requests, upsets>>

-----------------------------------------------------------------------------
(* The jobs: connectAndSwap and reconnectMcpServerOnce. *)

begin(request, at, todo) ==
  [NoJob EXCEPT !.request = request, !.at = at, !.todo = todo, !.tools = table,
                !.lifecycle = lifecycle]

(* A reload turns everything to loading, stops watching and publishes that  *)
(* there are no tools.                                                      *)
BeginReload(request) ==
  LET life == [s \in Servers |-> IF s \in enabled THEN "loading" ELSE "disabled"]
  IN  /\ lifecycle' = life
      /\ watched' = none /\ UNCHANGED unoffered
      /\ apply(none, life, "job")
      /\ job' = begin(request, IF unchanged(none, life) THEN "connecting" ELSE "clearing",
                      enabled)

(* A reconnect only turns its server to loading.                            *)
BeginReconnect(request) ==
  \E s \in request.server :
    /\ UNCHANGED <<published, watching>>
    /\ IF s \notin enabled THEN UNCHANGED <<lifecycle, job>>
       ELSE /\ status(s, "loading")
            /\ job' = begin(request, "connecting", {s})

(* Plugins that cannot be loaded, or that the host is to do without, leave  *)
(* everything as it is.                                                     *)
BeginNothing(request) ==
  /\ request.kind = "plugins"
  /\ UNCHANGED <<lifecycle, published, watching, job>>

BeginJob ==
  /\ job = NoJob
  /\ jobs # <<>>
  /\ jobs' = Tail(jobs)
  /\ \/ Head(jobs).kind \in Reloads /\ BeginReload(Head(jobs))
     \/ BeginNothing(Head(jobs))
     \/ Head(jobs).kind = "reconnect" /\ BeginReconnect(Head(jobs))
  /\ UNCHANGED <<applied, pools, recovery, queued, retiring, closing, work, switches, conns,
                 history>>

(* Every server has been tried and the progress is published: the result is *)
(* applied, that of the plugins even if the graph has it all.  A progress   *)
(* that could not be published fails the reload.                            *)
Flush ==
  /\ flushing
  /\ drain = "off"
  /\ IF broken
     THEN /\ job' = [job EXCEPT !.at = "failed"]
          /\ UNCHANGED <<published, pools, watching, retiring, conns>>
     ELSE IF job.request.kind = "reload" /\ unchanged(job.fresh, lifecycle)
     THEN apply(job.fresh, lifecycle, "job") /\ publish(job, NoConn, conns)
     ELSE /\ rebuild(job.fresh, lifecycle, "job")
          /\ job' = [job EXCEPT !.at = "publishing"]
          /\ UNCHANGED <<pools, watching, retiring, conns>>
  /\ UNCHANGED <<lifecycle, applied, recovery, jobs, queued, closing, work, switches, history>>

(* Will a timer or a queued request connect the server again?  The reload   *)
(* of a switched preference is followed by another.                         *)
attended(s) ==
  \/ s \in timers
  \/ isReload /\ job.request.server # {}
  \/ \E i \in 1 .. Len(jobs) : jobs[i].kind = "reload" \/ jobs[i].server = {s}

(* The job has failed: what it connected is closed, what it replaced takes  *)
(* its place again, and the status and the tools of before are applied.     *)
Failed ==
  LET life == IF isReload THEN job.lifecycle
              ELSE [lifecycle EXCEPT ![subject] = job.lifecycle[subject]]
  IN  /\ job.at = "failed"
      /\ conns' = closed(members(job.fresh), conns)
      /\ discarded' = discarded \cup members(job.fresh)
      /\ lifecycle' = life
      /\ left' = left \cup {s \in Servers : life[s] = "crashed" /\ ~attended(s)}
      /\ pool' = IF isReload THEN pool ELSE [pool EXCEPT ![subject] = job.displaced]
      /\ apply(job.tools, life, "job")
      /\ IF unchanged(job.tools, life) THEN giveUp(job.tools)
         ELSE job' = [job EXCEPT !.at = "restoring"] /\ UNCHANGED <<watching, enabled, jobs>>
      /\ UNCHANGED <<applied, loaded, plugins, orphans, timers, queued, retiring, closing, work,
                     skills, requests, upsets>>

-----------------------------------------------------------------------------
(* What users, servers and runs do. *)

request == closing = "no" /\ requests < MaxRequests /\ requests' = requests + 1

(* The configuration was edited, the system woke up, or a plugin was        *)
(* installed or removed.                                                    *)
Reload ==
  /\ request
  /\ \E kind \in Reloads : ask(kind, {})
  /\ UNCHANGED <<lifecycle, published, applied, pools, watching, recovery, job, queued, retiring,
                 closing, work, switches, conns, upsets, discarded>>

(* setMcpServerEnabled: a server whose skill is on stays on.                *)
Toggle(s) ==
  /\ request
  /\ s \in enabled => s \notin skills
  /\ enabled' = (enabled \ {s}) \cup ({s} \ enabled)
  /\ ask("reload", {s})
  /\ UNCHANGED <<lifecycle, published, applied, pools, watching, recovery, job, queued, retiring,
                 closing, work, skills, conns, upsets, discarded>>

(* The route lets only a failed or crashed server be reconnected.           *)
Reconnect(s) ==
  /\ request
  /\ lifecycle[s] \in {"error", "crashed"}
  /\ ask("reconnect", {s})
  /\ UNCHANGED <<lifecycle, published, applied, pools, watching, recovery, job, queued, retiring,
                 closing, work, switches, conns, upsets, discarded>>

(* reloadSkills and setSkillEnabled apply the tools of the moment anew; the *)
(* skill of a server that is off stays off.                                 *)
ReloadSkills ==
  /\ request
  /\ rebuild(table, lifecycle, "other")
  /\ UNCHANGED <<lifecycle, applied, pools, watching, recovery, jobs, job, queued, retiring,
                 closing, work, switches, conns, upsets, discarded>>

ToggleSkill(s) ==
  /\ request
  /\ s \notin skills => s \in enabled
  /\ skills' = (skills \ {s}) \cup ({s} \ skills)
  /\ enqueue(table, readiness(skills', lifecycle, table), "other", {s})
  /\ UNCHANGED <<lifecycle, table, applied, pools, watching, recovery, jobs, job, queued, retiring,
                 closing, work, enabled, conns, upsets, discarded>>

(* A server dies.  If its connection is watched, its tools are withdrawn    *)
(* and it will be reconnected.                                              *)
Crash(c) ==
  LET s    == conns[c].server
      life == [lifecycle EXCEPT ![s] = "crashed"]
  IN  /\ isOpen(c)
      /\ upset
      /\ conns' = [conns EXCEPT ![c].state = "dead"]
      /\ IF watched[s] # c THEN UNCHANGED <<lifecycle, published, watching, recovery>>
         ELSE /\ watched' = [watched EXCEPT ![s] = NoConn] /\ UNCHANGED unoffered
              /\ lifecycle' = life
              /\ apply([table EXCEPT ![s] = NoConn], life, "other")
              /\ timers' = IF closing = "no" THEN timers \cup {s} ELSE timers
              /\ left' = left \ {s}
      /\ UNCHANGED <<applied, pools, jobs, job, queued, retiring, closing, work, switches,
                     requests, discarded>>

MutRecover(s) ==                     \* gives way to a job at work
  /\ s \in timers
  /\ timers' = timers \ {s}
  /\ IF job = NoJob THEN ask("reconnect", {s}) ELSE UNCHANGED jobs
  /\ UNCHANGED <<lifecycle, published, applied, pools, watching, left, job, queued, retiring,
                 closing, work, switches, conns, history>>

(* A second after a crash.                                                  *)
Recover(s) ==
  /\ s \in timers
  /\ timers' = timers \ {s}
  /\ ask("reconnect", {s})
  /\ UNCHANGED <<lifecycle, published, applied, pools, watching, left, job, queued, retiring,
                 closing, work, switches, conns, history>>

(* Connections that are neither in the pool, nor on their way into it or    *)
(* out of it, nor nobody's: they will be, or are, closed.                   *)
inJob ==
  IF job = NoJob THEN {}
  ELSE (members(job.fresh) \cup ({job.displaced} \ {NoConn})) \ members(pool)
stale(cs) == {c \in cs : c \notin members(pool) \cup inJob \cup orphans}

RunStarts(r) ==
  /\ closing = "no"
  /\ ~holding[r].busy
  /\ holding' = [holding EXCEPT ![r] =
       [busy |-> TRUE, tools |-> members(graph), stale |-> stale(members(graph))]]
  /\ UNCHANGED <<lifecycle, published, applied, pools, watching, recovery, jobs, job, queued,
                 retiring, closing, graph, switches, conns, history>>

(* A run ends; what waited for it last is closed.                           *)
RunEnds(r) ==
  LET rest == {[w EXCEPT !.until = @ \ {r}] : w \in retiring}
  IN  /\ holding[r].busy
      /\ holding' = [holding EXCEPT ![r] = idleRun]
      /\ retiring' = {w \in rest : w.until # {}}
      /\ conns' = closed(UNION {w.conns : w \in {x \in rest : x.until = {}}}, conns)
      /\ UNCHANGED <<lifecycle, published, applied, pools, watching, recovery, jobs, job, queued,
                     closing, graph, switches, history>>

(* close() gives up the timers and aborts the runs ...                      *)
Close ==
  /\ closing = "no"
  /\ closing' = "draining"
  /\ timers' = {}
  /\ UNCHANGED <<lifecycle, published, applied, pools, watching, left, jobs, job, queued, retiring,
                 work, switches, conns, history>>

(* ... waits for runs, reloads and retirements, and closes the pool.        *)
CloseEnds ==
  /\ closing = "draining"
  /\ busy = {} /\ jobs = <<>> /\ job = NoJob /\ retiring = {}
  /\ closing' = "closed"
  /\ watched' = none /\ UNCHANGED unoffered
  /\ conns' = closed(members(pool), conns)
  /\ UNCHANGED <<lifecycle, published, applied, pools, recovery, jobs, job, queued, retiring,
                 work, switches, history>>

Next ==
  \/ UpdateDone \/ UpdateFails \/ DrainPending
  \/ BeginJob \/ Flush \/ Failed \/ Refused
  \/ \E s \in Servers : \/ Connected(s) \/ ConnectFails(s)
                        \/ Toggle(s) \/ ToggleSkill(s) \/ Reconnect(s) \/ Recover(s)
  \/ Reload \/ ReloadSkills \/ Close \/ CloseEnds
  \/ \E c \in Conn : Crash(c)
  \/ \E r \in Runs : RunStarts(r) \/ RunEnds(r)

(* Promises settle and timers fire; an attempt to connect comes to an end.  *)
Spec ==
  /\ Init
  /\ [][Next]_vars
  /\ WF_vars(UpdateDone) /\ WF_vars(DrainPending)
  /\ WF_vars(BeginJob) /\ WF_vars(Flush) /\ WF_vars(Failed) /\ WF_vars(Refused)
  /\ \A s \in Servers : /\ WF_vars(Connected(s) \/ ConnectFails(s))
                        /\ WF_vars(Recover(s))

-----------------------------------------------------------------------------

(* Who answers for a connection that is open: the pool, the job that made   *)
(* or replaced it, a retirement.                                            *)
inRetirement == UNION {w.conns : w \in retiring}
owned        == members(pool) \cup inJob \cup inRetirement
open         == {c \in Conn : isOpen(c)}

(* No server process is left behind by a swap, a failed reload, a failed or *)
(* refused reconnect or the shutdown: whatever is open has exactly one      *)
(* owner that will close it, and after close() nothing is open.  The        *)
(* exception is a host whose plugins could not be loaded: the connections   *)
(* that its reloads make before it has plugins are nobody's, and outlive    *)
(* close().                                                                 *)
NothingLeaks ==
  /\ TypeOK
  /\ open \subseteq owned \cup orphans
  /\ inRetirement \cap (members(pool) \cup inJob) = {} /\ orphans \cap owned = {}
  /\ closing = "closed" => open \subseteq orphans
  /\ loaded => orphans = {}

(* Between jobs every open connection of the pool is watched, so that its   *)
(* crash is noticed, unless a reload has failed and the tools that it put   *)
(* back did not have the server's.                                          *)
PoolIsWatched ==
  job = NoJob /\ closing # "closed"
  => \A s \in Servers \ unoffered :
       pool[s] # NoConn /\ isOpen(pool[s]) => watched[s] = pool[s]

(* Every connection that is open is looked after, where there are plugins.  *)
ConnectionsAreKept == NothingLeaks /\ PoolIsWatched

(* A run keeps the connections of the tools it was given until it is over,  *)
(* whatever is swapped, closed or fails meanwhile.  The exceptions are a    *)
(* connection that had been replaced already when the run was given it, and *)
(* one whose own reload or reconnect failed after the run was given its     *)
(* tools.                                                                   *)
RunsKeepTheirTools ==
  \A r \in busy : \A c \in holding[r].tools :
    conns[c].state = "closed" => c \in holding[r].stale \cup discarded

(* A server reported as crashed is not left at that, unless the host is     *)
(* closed, or a job that was to connect it again failed, put the status     *)
(* back and no other was on its way: nothing then tries once more.          *)
CrashIsFollowedUp ==
  \A s \in Servers :
    lifecycle[s] = "crashed" ~> lifecycle[s] # "crashed" \/ closing # "no" \/ s \in left

=============================================================================
