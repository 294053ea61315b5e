----------------------------- MODULE McpHostProofs -----------------------------
(***************************************************************************)
(* Proofs about McpHost, for every set of servers and of runs and any      *)
(* number of connections, requests, crashes and failures.                  *)
(***************************************************************************)
EXTENDS McpHost, SequenceTheorems, FiniteSetTheorems, TLAPS

-----------------------------------------------------------------------------
(* The inductive invariant. *)

reloading       == job # NoJob /\ job.request.kind \in Reloads
reconnecting(s) == job # NoJob /\ job.request.kind = "reconnect" /\ job.request.server = {s}

(* A reconnect is about one server.  Until it is connected nothing has      *)
(* changed; then its connection is in the pool, until the one it displaced  *)
(* is back, or is held by the job if there is no pool.                      *)
ReconnectInv(s) ==
  /\ \A t \in Servers \ {s} : job.fresh[t] = NoConn
  /\ \/ job.at = "connecting" /\ job.todo = {s} /\ job.fresh[s] = NoConn /\ job.displaced = NoConn
     \/ /\ job.at \in {"publishing", "failed"} /\ pool[s] = job.fresh[s]
        /\ job.fresh[s] # NoConn /\ job.displaced # job.fresh[s] /\ plugins
     \/ job.at = "restoring" /\ pool[s] = job.displaced /\ plugins
     \/ job.at = "refused" /\ job.fresh[s] # NoConn /\ job.displaced = NoConn /\ ~plugins

JobInv ==
  /\ job.at = "idle" => job = NoJob
  /\ job.request = <<>> => job = NoJob
  /\ job # NoJob => reloading \/ \E s \in Servers : reconnecting(s) /\ ReconnectInv(s)
  /\ reloading => /\ job.displaced = NoConn /\ job.at # "refused"
                  /\ \A s \in job.todo : job.fresh[s] = NoConn
  /\ job.at = "restoring" =>
       \A c \in members(job.fresh) : conns[c].state = "closed" /\ c \in discarded

RequestsInv ==
  \A i \in 1 .. Len(jobs) : jobs[i].kind = "reconnect" => \E s \in Servers : jobs[i].server = {s}

(* Without plugins there is no pool; with plugins nothing is made for nobody. *)
PoolInv ==
  /\ ~plugins => pool = none
  /\ loaded => plugins /\ orphans = {}

(* A job waits for one replacement of the capabilities at a time.           *)
UpdateInv ==
  /\ \A i \in 1 .. Len(updates) :
       updates[i].by = "job" => job.at \in {"clearing", "publishing", "restoring"}
  /\ \A i, j \in 1 .. Len(updates) : updates[i].by = "job" /\ updates[j].by = "job" => i = j

within(tools) == members(tools) \subseteq Conn

(* The tools that are published are those of connections that were made.    *)
ToolsInv ==
  /\ within(table) /\ within(graph) /\ within(job.tools)
  /\ \A tools \in pending : within(tools)
  /\ \A i \in 1 .. Len(updates) : within(updates[i].tools)

owns(tools) == \A s \in Servers : tools[s] # NoConn => tools[s] \in Conn /\ conns[tools[s]].server = s

(* A connection of the pool, and one that the job made or took out of the   *)
(* pool, is of the server whose place it has.                               *)
OwnInv ==
  /\ owns(pool) /\ owns(job.fresh)
  /\ job.displaced # NoConn =>
       job.displaced \in Conn /\ job.request.server = {conns[job.displaced].server}
  /\ reloading => members(job.fresh) \cap members(pool) = {}

LeakInv ==
  /\ \A c \in Conn : isOpen(c) => c \in members(pool) \cup inJob \cup inRetirement \cup orphans
  /\ inRetirement \cap (members(pool) \cup inJob) = {}
  /\ orphans \cap (members(pool) \cup inJob \cup inRetirement) = {}

CloseInv ==
  /\ closing # "no" => timers = {}
  /\ closing = "closed" => /\ jobs = <<>> /\ job = NoJob /\ retiring = {} /\ busy = {}
                           /\ \A c \in Conn : isOpen(c) => c \in orphans

noticed(s, c) == c # NoConn /\ isOpen(c) => watched[s] = c

(* The connection whose place a reconnect has taken is still watched.       *)
WatchInv ==
  ~reloading =>
    \A s \in Servers \ unoffered :
      IF reconnecting(s) /\ job.at \in {"publishing", "failed"} THEN noticed(s, job.displaced)
      ELSE noticed(s, pool[s])

(* What a run may go on to use: it is not closed, and if it is retired that *)
(* waits for the run.                                                       *)
usable(r, c) ==
  /\ c \in members(pool) \cup inJob \cup inRetirement \cup orphans
  /\ conns[c].state # "closed"
  /\ \A w \in retiring : c \in w.conns => r \in w.until

(* Nothing that has an owner is closed before it is retired, unless its job *)
(* has failed.                                                              *)
KeepInv ==
  /\ closing # "closed" =>
       /\ \A c \in members(pool) : conns[c].state # "closed"
       /\ job.at # "restoring" => \A c \in inJob : conns[c].state # "closed"
  /\ \A c \in orphans : conns[c].state # "closed"
  /\ \A r \in busy : \A c \in holding[r].tools \ holding[r].stale :
       c \in discarded \/ usable(r, c)

ConnInv == JobInv /\ OwnInv /\ LeakInv /\ WatchInv /\ KeepInv
Inv     == TypeOK /\ RequestsInv /\ PoolInv /\ UpdateInv /\ ToolsInv /\ CloseInv /\ ConnInv

-----------------------------------------------------------------------------
(* Types. *)

USE DEF Reloads

Entry     == [server : Servers, state : {"open", "dead", "closed"}]
Retiring  == [conns : SUBSET Conn, until : SUBSET Runs]
Holding   == [Runs -> [busy : BOOLEAN, tools : SUBSET Conn, stale : SUBSET Conn]]

LEMMA Typed ==
  /\ none \in Tools /\ NoConn \in 0 .. MaxConns /\ NoConn = 0
  /\ \A s \in Servers : none[s] = NoConn
  /\ members(none) = {}
<1>1. NoConn \in 0 .. MaxConns /\ NoConn = 0
  BY BoundsAssumption DEF NoConn
<1> QED BY <1>1 DEF none, Tools, members

LEMMA MembersFacts ==
  ASSUME NEW tools \in Tools
  PROVE  /\ members(tools) \subseteq 1 .. MaxConns
         /\ \A s \in Servers : tools[s] # NoConn => tools[s] \in members(tools)
         /\ \A c \in members(tools) : c # NoConn /\ \E s \in Servers : tools[s] = c
BY BoundsAssumption DEF members, Tools, NoConn

LEMMA WithFacts ==
  ASSUME NEW tools \in Tools, NEW s \in Servers, NEW c \in 0 .. MaxConns
  PROVE  /\ [tools EXCEPT ![s] = c] \in Tools
         /\ [tools EXCEPT ![s] = c][s] = c
         /\ \A t \in Servers \ {s} : [tools EXCEPT ![s] = c][t] = tools[t]
         /\ members([tools EXCEPT ![s] = c]) \subseteq members(tools) \cup ({c} \ {NoConn})
BY DEF members, Tools

LEMMA ReadinessTyped ==
  ASSUME NEW on, NEW life \in Lifecycle, NEW tools
  PROVE  readiness(on, life, tools) \in Readiness
<1>1. ASSUME NEW s \in Servers
      PROVE  (IF s \notin on THEN "off" ELSE IF life[s] # "connected" THEN life[s]
              ELSE IF tools[s] = NoConn THEN "undiscovered" ELSE "ready")
             \in Statuses \cup {"off", "undiscovered", "ready"}
  BY DEF Lifecycle
<1> QED BY <1>1 DEF readiness, Readiness

LEMMA ArmedTyped ==
  ASSUME NEW tools, NEW clients \in Tools
  PROVE  armed(tools, clients) \in Tools
BY Typed DEF armed, Tools

LEMMA NoJobTyped == NoJob \in Job /\ NoJob.at = "idle" /\ NoJob.fresh = none /\ NoJob.tools = none
                    /\ NoJob.displaced = NoConn /\ NoJob.request = <<>> /\ NoJob.todo = {}
<1>1. [s \in Servers |-> "disabled"] \in Lifecycle
  BY DEF Lifecycle, Statuses
<1> QED BY <1>1, Typed DEF NoJob, Job

(* What TypeOK says of the fields of the job.                               *)
LEMMA JobFields ==
  ASSUME TypeOK
  PROVE  /\ job.request \in Request \cup {<<>>} /\ job.todo \subseteq Servers
         /\ job.fresh \in Tools /\ job.tools \in Tools /\ job.lifecycle \in Lifecycle
         /\ job.displaced \in 0 .. MaxConns
         /\ job.at \in {"idle", "clearing", "connecting", "publishing", "failed", "restoring",
                       "refused"}
BY DEF TypeOK, Job

LEMMA EnqueueFacts ==
  ASSUME TypeOK, NEW tools \in Tools, NEW print \in Readiness, NEW by \in {"job", "drain", "other"},
         NEW skill \in SUBSET Servers, enqueue(tools, print, by, skill)
  PROVE  /\ updates' \in Seq(Update) /\ Len(updates') = Len(updates) + 1
         /\ \A i \in 1 .. Len(updates) : updates'[i] = updates[i]
         /\ updates'[Len(updates) + 1].tools = tools /\ updates'[Len(updates) + 1].by = by
<1> DEFINE u == [tools |-> tools, print |-> print, by |-> by, skill |-> skill,
                 was |-> skill \subseteq skills]
<1>1. u \in Update /\ u.tools = tools /\ u.by = by
  BY DEF Update
<1>2. updates \in Seq(Update) /\ updates' = Append(updates, u)
  BY DEF TypeOK, enqueue
<1> HIDE DEF u
<1> QED BY <1>1, <1>2, AppendProperties

LEMMA RebuildFacts ==
  ASSUME TypeOK, NEW tools \in Tools, NEW life \in Lifecycle, NEW by \in {"job", "drain", "other"},
         rebuild(tools, life, by)
  PROVE  /\ table' = table /\ table' \in Tools
         /\ updates' \in Seq(Update) /\ Len(updates') = Len(updates) + 1
         /\ \A i \in 1 .. Len(updates) : updates'[i] = updates[i]
         /\ updates'[Len(updates) + 1].tools = tools /\ updates'[Len(updates) + 1].by = by
<1>1. enqueue(tools, readiness(skills, life, tools), by, {}) /\ table' = table
  BY DEF rebuild
<1>2. readiness(skills, life, tools) \in Readiness
  BY ReadinessTyped
<1>3. table \in Tools
  BY DEF TypeOK
<1> QED BY <1>1, <1>2, <1>3, EnqueueFacts

(* applyMcpCapabilities notes the tools at once or queues them.             *)
LEMMA ApplyFacts ==
  ASSUME TypeOK, NEW tools \in Tools, NEW life \in Lifecycle, NEW by \in {"job", "drain", "other"},
         apply(tools, life, by)
  PROVE  /\ table' \in Tools /\ updates' \in Seq(Update)
         /\ \/ unchanged(tools, life) /\ table' = tools /\ updates' = updates
            \/ /\ ~unchanged(tools, life) /\ table' = table
               /\ Len(updates') = Len(updates) + 1
               /\ \A i \in 1 .. Len(updates) : updates'[i] = updates[i]
               /\ updates'[Len(updates) + 1].tools = tools
               /\ updates'[Len(updates) + 1].by = by
<1>1. CASE unchanged(tools, life)
  BY <1>1 DEF apply, TypeOK
<1>2. CASE ~unchanged(tools, life)
  BY <1>2, RebuildFacts DEF apply
<1> QED BY <1>1, <1>2

LEMMA QueueFacts ==
  ASSUME TypeOK, NEW tools \in Tools, queueMcpCapabilities(tools)
  PROVE  /\ pending' = {tools} /\ pending' \subseteq Tools /\ Cardinality(pending') <= 1
         /\ drain' \in {"off", "ready", "applying"} /\ broken' \in BOOLEAN
         /\ broken' => broken
<1>1. Cardinality({tools}) = 1
  BY FS_Singleton
<1>2. drain' \in {"off", "ready", "applying"}
  BY DEF queueMcpCapabilities, TypeOK
<1>3. broken' \in BOOLEAN /\ (broken' => broken)
  BY DEF queueMcpCapabilities, TypeOK
<1> QED BY <1>1, <1>2, <1>3 DEF queueMcpCapabilities

LEMMA ClosedFacts ==
  ASSUME NEW cs, NEW all \in Seq(Entry)
  PROVE  /\ closed(cs, all) \in Seq(Entry) /\ Len(closed(cs, all)) = Len(all)
         /\ \A c \in 1 .. Len(all) :
              /\ closed(cs, all)[c].server = all[c].server
              /\ c \in cs => closed(cs, all)[c].state = "closed"
              /\ c \notin cs => closed(cs, all)[c] = all[c]
<1> DEFINE n == Len(all)
           f == [c \in 1 .. n |-> IF c \in cs THEN [all[c] EXCEPT !.state = "closed"] ELSE all[c]]
<1>1. n \in Nat /\ DOMAIN all = 1 .. n
  BY LenProperties
<1>2. closed(cs, all) = f
  BY <1>1 DEF closed
<1>3. ASSUME NEW c \in 1 .. n PROVE all[c] \in Entry
  BY ElementOfSeq
<1>4. ASSUME NEW c \in 1 .. n
      PROVE  /\ f[c] \in Entry /\ f[c].server = all[c].server
             /\ c \in cs => f[c].state = "closed"
             /\ c \notin cs => f[c] = all[c]
  BY <1>3 DEF Entry
<1>5. f \in [1 .. n -> Entry]
  BY <1>4
<1>6. f \in Seq(Entry) /\ Len(f) = n
  BY <1>1, <1>5, IsASeq, LenProperties
<1> QED BY <1>2, <1>4, <1>6

(* retireMcpClient closes what it is given, at once or when the runs at     *)
(* work are over.                                                           *)
LEMMA RetireFacts ==
  ASSUME TypeOK, NEW all \in Seq(Entry), Len(conns) <= Len(all),
         NEW cs \in SUBSET (1 .. Len(all)), retire(cs, all)
  PROVE  /\ conns' \in Seq(Entry) /\ Len(conns') = Len(all)
         /\ \A c \in 1 .. Len(all) :
              /\ conns'[c].server = all[c].server
              /\ \/ conns'[c] = all[c]
                 \/ c \in cs /\ busy = {} /\ conns'[c].state = "closed"
         /\ \A c \in cs : conns'[c].state = "closed" \/ c \in inRetirement'
         /\ retiring \subseteq retiring'
         /\ \A w \in retiring' \ retiring : w.conns = cs /\ w.until = busy
         /\ retiring' \subseteq [conns : SUBSET (1 .. Len(all)), until : SUBSET Runs]
         /\ inRetirement \subseteq inRetirement' /\ inRetirement' \subseteq inRetirement \cup cs
<1> DEFINE w0 == [conns |-> cs, until |-> busy]
<1>1. busy \subseteq Runs
  BY DEF busy
<1>2. retiring \subseteq [conns : SUBSET (1 .. Len(all)), until : SUBSET Runs]
  <2>1. Len(conns) \in Nat /\ Len(all) \in Nat
    BY LenProperties DEF TypeOK
  <2>2. Conn \subseteq 1 .. Len(all)
    BY <2>1 DEF Conn
  <2>3. retiring \subseteq [conns : SUBSET Conn, until : SUBSET Runs]
    BY DEF TypeOK
  <2> QED BY <2>2, <2>3
<1>3. CASE cs = {} \/ busy = {}
  <2>1. conns' = closed(cs, all) /\ retiring' = retiring
    BY <1>3 DEF retire
  <2>2. inRetirement' = inRetirement
    BY <2>1 DEF inRetirement
  <2>3. \A c \in 1 .. Len(all) : c \in cs => busy = {}
    BY <1>3
  <2> QED BY <1>2, <2>1, <2>2, <2>3, ClosedFacts
<1>4. CASE ~(cs = {} \/ busy = {})
  <2>1. conns' = all /\ retiring' = retiring \cup {w0}
    BY <1>4 DEF retire
  <2>2. w0.conns = cs /\ w0.until = busy
    OBVIOUS
  <2>3. inRetirement' = inRetirement \cup cs
    BY <2>1, <2>2 DEF inRetirement
  <2>4. w0 \in [conns : SUBSET (1 .. Len(all)), until : SUBSET Runs]
    BY <1>1
  <2> QED BY <1>2, <2>1, <2>2, <2>3, <2>4
<1> QED BY <1>3, <1>4

LEMMA AskFacts ==
  ASSUME TypeOK, NEW kind \in Reloads \cup {"reconnect"}, NEW server \in SUBSET Servers,
         ask(kind, server)
  PROVE  /\ jobs' \in Seq(Request) /\ Len(jobs') = Len(jobs) + 1
         /\ \A i \in 1 .. Len(jobs) : jobs'[i] = jobs[i]
         /\ jobs'[Len(jobs) + 1].kind = kind /\ jobs'[Len(jobs) + 1].server = server
<1> DEFINE q == [kind |-> kind, server |-> server, was |-> server \subseteq enabled]
<1>1. q \in Request /\ q.kind = kind /\ q.server = server
  BY DEF Request
<1>2. jobs \in Seq(Request) /\ jobs' = Append(jobs, q)
  BY DEF TypeOK, ask
<1> HIDE DEF q
<1> QED BY <1>1, <1>2, AppendProperties

(* A job at work has a request; a reconnect is about one server.            *)
LEMMA AtWork ==
  ASSUME TypeOK, JobInv, job # NoJob
  PROVE  /\ job.request \in Request /\ job.request.server \subseteq Servers
         /\ job.request.kind \in Reloads \cup {"reconnect"} /\ job.request.was \in BOOLEAN
         /\ isReload <=> reloading
         /\ \/ reloading
            \/ \E s \in Servers : /\ ~isReload /\ ~reloading
                                  /\ reconnecting(s) /\ ReconnectInv(s) /\ subject = s
<1>1. job.request \in Request
  BY JobFields DEF JobInv
<1>2. /\ job.request.server \subseteq Servers /\ job.request.was \in BOOLEAN
      /\ job.request.kind \in Reloads \cup {"reconnect"}
  BY <1>1 DEF Request
<1>3. isReload <=> reloading
  BY DEF isReload, reloading
<1>4. ASSUME NEW s \in Servers, reconnecting(s), ReconnectInv(s)
      PROVE  ~isReload /\ ~reloading /\ subject = s
  BY <1>4 DEF isReload, reloading, reconnecting, subject
<1> QED BY <1>1, <1>2, <1>3, <1>4 DEF JobInv

LEMMA Idle == ASSUME TypeOK, job.at # "idle" PROVE job # NoJob
BY NoJobTyped

LEMMA GiveUpFacts ==
  ASSUME TypeOK, JobInv, job # NoJob, NEW tools \in Tools, giveUp(tools)
  PROVE  /\ job' = NoJob /\ enabled' \subseteq Servers
         /\ watched' \in Tools /\ unoffered' \subseteq Servers
         /\ \/ jobs' = jobs
            \/ /\ jobs' \in Seq(Request) /\ Len(jobs') = Len(jobs) + 1
               /\ \A i \in 1 .. Len(jobs) : jobs'[i] = jobs[i]
               /\ jobs'[Len(jobs) + 1].kind = "reload"
<1>1. job' = NoJob
  BY DEF giveUp
<1>2. enabled \subseteq Servers /\ watched \in Tools /\ unoffered \subseteq Servers
      /\ pool \in Tools
  BY DEF TypeOK
<1>3. CASE ~isReload
  BY <1>1, <1>2, <1>3 DEF giveUp, watching
<1>4. CASE isReload
  <2>1. watched' \in Tools
    BY <1>2, <1>4, ArmedTyped DEF giveUp
  <2>2. unoffered' \subseteq Servers
    BY <1>4 DEF giveUp
  <2>3. enabled' \subseteq Servers
    BY <1>2, <1>4, AtWork DEF giveUp, back
  <2>4. CASE job.request.server = {}
    BY <1>1, <1>4, <2>1, <2>2, <2>3, <2>4 DEF giveUp
  <2>5. CASE job.request.server # {}
    <3>1. ask("reload", {})
      BY <1>4, <2>5 DEF giveUp
    <3> QED BY <1>1, <2>1, <2>2, <2>3, <3>1, AskFacts
  <2> QED BY <2>4, <2>5
<1> QED BY <1>3, <1>4

LEMMA HeadFacts ==
  ASSUME TypeOK, updates # <<>>, updates' = Tail(updates)
  PROVE  /\ head = updates[1] /\ 1 \in 1 .. Len(updates)
         /\ head.tools \in Tools /\ head.print \in Readiness
         /\ head.by \in {"job", "drain", "other"}
         /\ head.skill \subseteq Servers /\ head.was \in BOOLEAN
         /\ updates' \in Seq(Update) /\ Len(updates') = Len(updates) - 1
         /\ \A i \in 1 .. Len(updates') : i + 1 \in 1 .. Len(updates) /\ updates'[i] = updates[i + 1]
<1>1. updates \in Seq(Update) /\ Len(updates) \in Nat
  BY LenProperties DEF TypeOK
<1>2. head = updates[1] /\ head \in Update /\ 1 \in 1 .. Len(updates)
  BY <1>1, HeadTailProperties, EmptySeq, ElementOfSeq DEF head
<1>3. /\ updates' \in Seq(Update) /\ Len(updates') = Len(updates) - 1
      /\ \A i \in 1 .. Len(updates') : updates'[i] = updates[i + 1]
  BY <1>1, HeadTailProperties
<1>4. \A i \in 1 .. Len(updates') : i + 1 \in 1 .. Len(updates)
  BY <1>1, <1>3
<1> QED BY <1>2, <1>3, <1>4 DEF Update

-----------------------------------------------------------------------------
LEMMA InitInv == Init => Inv
<1> SUFFICES ASSUME Init PROVE Inv
  OBVIOUS
<1>1. conns = <<>> /\ Len(conns) = 0 /\ Conn = {}
  BY DEF Init, Conn
<1>2. job = NoJob /\ pool = none /\ table = none /\ graph = none /\ watched = none
  BY DEF Init
<1>3. TypeOK
  <2>1. lifecycle \in Lifecycle
    BY DEF Init, Lifecycle, Statuses
  <2>2. applied \in Readiness
    BY <2>1, ReadinessTyped DEF Init
  <2>3. jobs \in Seq(Request)
    BY DEF Init, Request
  <2>4. conns \in Seq(Entry) /\ updates \in Seq(Update)
    BY EmptySeq DEF Init
  <2>5. holding \in [Runs -> [busy : BOOLEAN, tools : SUBSET Conn, stale : SUBSET Conn]]
    BY DEF Init, idleRun
  <2>6. pending \subseteq Tools /\ Cardinality(pending) <= 1
    BY FS_EmptySet DEF Init
  <2>7. job \in Job
    BY <1>2, NoJobTyped
  <2> QED BY <1>2, <2>1, <2>2, <2>3, <2>4, <2>5, <2>6, <2>7, Typed, SkillsAssumption
      DEF TypeOK, Init, Entry
<1>4. RequestsInv
  BY DEF Init, RequestsInv
<1>5. PoolInv
  BY <1>2 DEF Init, PoolInv
<1>6. UpdateInv
  BY DEF Init, UpdateInv
<1>7. ToolsInv
  BY <1>2, Typed, NoJobTyped DEF Init, ToolsInv, within
<1>8. CloseInv
  BY DEF Init, CloseInv
<1>9. inRetirement = {} /\ busy = {} /\ inJob = {} /\ members(pool) = {}
  BY <1>2, Typed DEF Init, inRetirement, busy, idleRun, inJob
<1>10. JobInv
  BY <1>2, NoJobTyped DEF JobInv, reloading
<1>11. OwnInv
  BY <1>2, Typed, NoJobTyped DEF OwnInv, owns, reloading
<1>12. LeakInv
  BY <1>1, <1>9 DEF LeakInv, Init
<1>13. WatchInv
  BY <1>2, Typed DEF WatchInv, noticed, reconnecting
<1>14. KeepInv
  BY <1>9 DEF KeepInv, Init
<1> QED BY <1>3, <1>4, <1>5, <1>6, <1>7, <1>8, <1>10, <1>11, <1>12, <1>13, <1>14 DEF Inv, ConnInv

-----------------------------------------------------------------------------
(* The steps that leave jobs, connections and runs alone. *)

(* What a job leaves behind whose tools the graph has.                      *)
LEMMA PublishFacts ==
  ASSUME TypeOK, NEW j \in Job, j.request \in Request, NEW c \in 0 .. MaxConns,
         NEW all \in Seq(Entry), Len(conns) <= Len(all), members(j.fresh) \subseteq 1 .. Len(all),
         members(pool) \subseteq 1 .. Len(all), j.displaced \in 0 .. Len(all), publish(j, c, all)
  PROVE  /\ pool' \in Tools /\ watched' \in Tools /\ unoffered' \subseteq Servers /\ job' = NoJob
         /\ loaded' \in BOOLEAN /\ plugins' \in BOOLEAN /\ orphans' \subseteq Conn'
         /\ conns' \in Seq(Entry) /\ Len(conns') = Len(all)
         /\ retiring' \subseteq [conns : SUBSET (1 .. Len(all)), until : SUBSET Runs]
         /\ 1 .. Len(all) = Conn' /\ Conn \subseteq Conn'
<1> DEFINE cs == IF j.request.kind \in Reloads THEN members(pool) ELSE {j.displaced} \ {NoConn}
<1>1. cs \subseteq 1 .. Len(all) /\ retire(cs, all) /\ job' = NoJob
  <2>1. Len(all) \in Nat
    BY LenProperties
  <2>2. {j.displaced} \ {NoConn} \subseteq 1 .. Len(all)
    BY <2>1 DEF NoConn
  <2> QED BY <2>2 DEF publish, publishReload, publishReconnect
<1>2. /\ j.fresh \in Tools /\ pool \in Tools /\ watched \in Tools /\ unoffered \subseteq Servers
      /\ loaded \in BOOLEAN /\ plugins \in BOOLEAN /\ orphans \subseteq Conn
  BY DEF TypeOK, Job
<1>3. /\ pool' \in Tools /\ watched' \in Tools /\ unoffered' \subseteq Servers
      /\ loaded' \in BOOLEAN /\ plugins' \in BOOLEAN /\ orphans' \subseteq orphans \cup members(j.fresh)
  <2>1. CASE j.request.kind \in Reloads
    <3>1. /\ pool' = IF plugins' THEN j.fresh ELSE pool
          /\ watched' = armed(j.fresh, pool') /\ unoffered' = {}
          /\ plugins' = (plugins \/ j.request.kind = "plugins")
          /\ orphans' = IF plugins' THEN orphans ELSE orphans \cup members(j.fresh)
          /\ loaded' = loaded
      BY <2>1 DEF publish, publishReload
    <3>2. pool' \in Tools /\ orphans' \subseteq orphans \cup members(j.fresh)
      BY <1>2, <3>1
    <3>3. loaded' \in BOOLEAN /\ plugins' \in BOOLEAN
      BY <1>2, <3>1
    <3>4. watched' \in Tools
      BY <3>1, <3>2, ArmedTyped
    <3> QED BY <3>1, <3>2, <3>3, <3>4
  <2>2. CASE j.request.kind \notin Reloads
    <3>1. PICK s \in j.request.server : /\ pool' = [pool EXCEPT ![s] = c]
                                        /\ watched' = [watched EXCEPT ![s] = c]
                                        /\ unoffered' = unoffered \ {s}
      BY <2>2 DEF publish, publishReconnect
    <3>2. s \in Servers
      BY DEF Request
    <3>3. loaded' = loaded /\ plugins' = plugins /\ orphans' = orphans
      BY <2>2 DEF publish, publishReconnect
    <3> QED BY <1>2, <3>1, <3>2, <3>3, WithFacts
  <2> QED BY <2>1, <2>2
<1> HIDE DEF cs
<1>4. /\ conns' \in Seq(Entry) /\ Len(conns') = Len(all)
      /\ retiring' \subseteq [conns : SUBSET (1 .. Len(all)), until : SUBSET Runs]
  BY <1>1, RetireFacts
<1>5. 1 .. Len(all) = Conn' /\ Conn \subseteq Conn'
  <2>1. Len(conns) \in Nat /\ Len(all) \in Nat
    BY LenProperties DEF TypeOK, Entry
  <2> QED BY <1>4, <2>1 DEF Conn
<1> QED BY <1>1, <1>2, <1>3, <1>4, <1>5

(* What the pool and a job hold has been made.                              *)
LEMMA MadeFacts ==
  ASSUME TypeOK, OwnInv
  PROVE  /\ conns \in Seq(Entry) /\ Len(conns) \in Nat
         /\ members(pool) \subseteq Conn /\ members(job.fresh) \subseteq Conn
         /\ job.displaced \in 0 .. Len(conns)
         /\ \A s \in Servers : pool[s] \in 0 .. MaxConns /\ pool[s] \in 0 .. Len(conns)
<1>1. conns \in Seq(Entry) /\ Len(conns) \in Nat
  BY LenProperties DEF TypeOK, Entry
<1>2. pool \in Tools /\ \A s \in Servers : pool[s] \in 0 .. MaxConns
  BY DEF TypeOK, Tools
<1> QED BY <1>1, <1>2, JobFields DEF OwnInv, owns, members, Conn, NoConn

(* What Connected calls c, all and next.                                    *)
newest    == Len(conns) + 1
longer(s) == Append(conns, [server |-> s, state |-> "open"])
joined(s) == [job EXCEPT !.todo = {}, !.fresh = [none EXCEPT ![s] = newest],
                         !.displaced = pool[s], !.at = "publishing"]

LEMMA ConnectedFacts ==
  ASSUME TypeOK, JobInv, OwnInv, NEW s \in Servers, Connected(s)
  PROVE  /\ newest \in 0 .. MaxConns /\ newest = Len(conns) + 1 /\ newest \notin Conn
         /\ newest # NoConn /\ newest \in 1 .. newest
         /\ longer(s) \in Seq(Entry) /\ Len(longer(s)) = newest /\ Len(conns) <= Len(longer(s))
         /\ longer(s)[newest].server = s /\ longer(s)[newest].state = "open"
         /\ \A d \in Conn : longer(s)[d] = conns[d]
         /\ \/ ConnectedReloading(s, newest, longer(s)) \/ ConnectedAgain(s, newest, longer(s))
            \/ ConnectedInVain(s, newest, longer(s))
         /\ joined(s) \in Job /\ members(joined(s).fresh) \subseteq 1 .. Len(longer(s))
         /\ joined(s).request = job.request /\ joined(s).displaced = pool[s]
         /\ joined(s).at = "publishing" /\ joined(s).fresh = [none EXCEPT ![s] = newest]
         /\ joined(s).tools = job.tools /\ joined(s).todo = {}
         /\ members(pool) \subseteq 1 .. Len(longer(s)) /\ pool[s] \in 0 .. Len(longer(s))
         /\ job # NoJob /\ job.request \in Request /\ job.at = "connecting" /\ s \in job.todo
<1> DEFINE e == [server |-> s, state |-> "open"]
<1>1. conns \in Seq(Entry) /\ Len(conns) \in Nat /\ e \in Entry
  BY MadeFacts DEF Entry
<1>2. /\ newest \in 0 .. MaxConns /\ newest = Len(conns) + 1 /\ newest \notin Conn
      /\ newest # NoConn /\ newest \in 1 .. newest
  BY <1>1, BoundsAssumption DEF Connected, newest, Conn, NoConn
<1>3. \/ ConnectedReloading(s, newest, longer(s)) \/ ConnectedAgain(s, newest, longer(s))
      \/ ConnectedInVain(s, newest, longer(s))
  BY DEF Connected, newest, longer
<1>4. e.server = s /\ e.state = "open" /\ longer(s) = Append(conns, e)
  BY DEF longer
<1> HIDE DEF e
<1>5. /\ longer(s) \in Seq(Entry) /\ Len(longer(s)) = newest /\ longer(s)[newest] = e
      /\ \A d \in Conn : longer(s)[d] = conns[d]
  BY <1>1, <1>2, <1>4, AppendProperties DEF Conn
<1>6. job \in Job /\ pool[s] \in 0 .. MaxConns
  BY MadeFacts DEF TypeOK
<1>7. [none EXCEPT ![s] = newest] \in Tools
  BY <1>2, Typed, WithFacts
<1>8. /\ joined(s) \in Job /\ joined(s).request = job.request /\ joined(s).displaced = pool[s]
      /\ joined(s).at = "publishing" /\ joined(s).fresh = [none EXCEPT ![s] = newest]
      /\ joined(s).tools = job.tools /\ joined(s).todo = {}
  BY <1>6, <1>7 DEF Job, joined
<1>9. members(pool) \subseteq 1 .. Len(longer(s)) /\ pool[s] \in 0 .. Len(longer(s))
      /\ Len(conns) <= Len(longer(s))
  BY <1>1, <1>2, <1>5, MadeFacts DEF Conn
<1>10. job # NoJob /\ job.request \in Request /\ job.at = "connecting" /\ s \in job.todo
  BY Idle, AtWork DEF Connected, connecting
<1>11. members(joined(s).fresh) \subseteq 1 .. Len(longer(s))
  BY <1>2, <1>5, <1>8, Typed, WithFacts
<1> QED BY <1>2, <1>3, <1>4, <1>5, <1>8, <1>9, <1>10, <1>11

LEMMA TypeStep == Inv /\ [Next]_vars => TypeOK'
<1> SUFFICES ASSUME Inv, [Next]_vars PROVE TypeOK'
  OBVIOUS
<1> USE DEF published, watching, queued, work, switches, history, pools, recovery
<1>0. TypeOK /\ JobInv /\ ToolsInv /\ OwnInv
  BY DEF Inv, ConnInv
<1>1. CASE Reload
  <2>1. jobs' \in Seq(Request)
    BY <1>0, <1>1, AskFacts DEF Reload
  <2> QED BY <1>0, <1>1, <2>1 DEF Reload, request, TypeOK, Conn
<1>2. ASSUME NEW s \in Servers, Toggle(s) PROVE TypeOK'
  <2>1. jobs' \in Seq(Request)
    BY <1>0, <1>2, AskFacts DEF Toggle
  <2> QED BY <1>0, <1>2, <2>1 DEF Toggle, request, TypeOK, Conn
<1>3. ASSUME NEW s \in Servers, Reconnect(s) \/ Recover(s) PROVE TypeOK'
  <2>1. jobs' \in Seq(Request)
    BY <1>0, <1>3, AskFacts DEF Reconnect, Recover
  <2>2. CASE Reconnect(s)
    BY <1>0, <2>1, <2>2 DEF Reconnect, request, TypeOK, Conn
  <2>3. CASE Recover(s)
    BY <1>0, <2>1, <2>3 DEF Recover, TypeOK, Conn
  <2> QED BY <1>3, <2>2, <2>3
<1>4. CASE ReloadSkills
  <2>1. updates' \in Seq(Update) /\ table' \in Tools
    <3>1. lifecycle \in Lifecycle /\ table \in Tools
      BY <1>0 DEF TypeOK
    <3> QED BY <1>0, <1>4, <3>1, RebuildFacts DEF ReloadSkills
  <2> QED BY <1>0, <1>4, <2>1 DEF ReloadSkills, request, TypeOK, Conn
<1>5. ASSUME NEW s \in Servers, ToggleSkill(s) PROVE TypeOK'
  <2>1. updates' \in Seq(Update)
    <3>1. readiness(skills', lifecycle, table) \in Readiness /\ table \in Tools
      BY <1>0, ReadinessTyped DEF TypeOK
    <3> QED BY <1>0, <1>5, <3>1, EnqueueFacts DEF ToggleSkill
  <2> QED BY <1>0, <1>5, <2>1 DEF ToggleSkill, request, TypeOK, Conn
<1>6. CASE Close
  BY <1>0, <1>6 DEF Close, TypeOK, Conn
<1>7. CASE CloseEnds
  <2>1. conns \in Seq(Entry) /\ conns' = closed(members(pool), conns)
    BY <1>0, <1>7 DEF CloseEnds, TypeOK, Entry
  <2>2. conns' \in Seq(Entry) /\ Conn' = Conn
    BY <2>1, ClosedFacts DEF Conn
  <2> QED BY <1>0, <1>7, <2>2, Typed DEF CloseEnds, TypeOK, Entry
<1>8. CASE DrainPending
  <2>1. table' \in Tools /\ updates' \in Seq(Update)
    <3>1. CASE pending = {}
      BY <1>0, <1>8, <3>1 DEF DrainPending, TypeOK
    <3>2. CASE pending # {}
      <4>1. PICK tools \in pending : apply(tools, lifecycle, "drain")
        BY <1>8, <3>2 DEF DrainPending
      <4>2. tools \in Tools /\ lifecycle \in Lifecycle
        BY <1>0 DEF TypeOK
      <4> QED BY <1>0, <4>1, <4>2, ApplyFacts
    <3> QED BY <3>1, <3>2
  <2>2. pending' \subseteq Tools /\ Cardinality(pending') <= 1
    BY <1>8, FS_EmptySet DEF DrainPending
  <2>3. drain' \in {"off", "ready", "applying"}
    BY <1>8 DEF DrainPending
  <2> QED BY <1>0, <1>8, <2>1, <2>2, <2>3 DEF DrainPending, TypeOK, Conn
<1>9. ASSUME NEW c \in Conn, Crash(c) PROVE TypeOK'
  <2>1. conns \in Seq(Entry) /\ conns' = [conns EXCEPT ![c].state = "dead"] /\ Len(conns) \in Nat
    BY <1>0, <1>9, LenProperties DEF Crash, TypeOK, Entry
  <2>2. conns[c] \in Entry
    BY <2>1, ElementOfSeq DEF Conn
  <2>3. [conns[c] EXCEPT !.state = "dead"] \in Entry
    BY <2>2 DEF Entry
  <2>4. conns' \in Seq(Entry) /\ Len(conns') = Len(conns)
    BY <2>1, <2>3, ExceptSeq DEF Conn
  <2>5. Conn' = Conn
    BY <2>4 DEF Conn
  <2>6. /\ lifecycle' \in Lifecycle /\ table' \in Tools /\ updates' \in Seq(Update)
        /\ watched' \in Tools /\ unoffered' = unoffered /\ timers' \subseteq Servers
        /\ left' \subseteq Servers
    <3> DEFINE s == conns[c].server
               life == [lifecycle EXCEPT ![s] = "crashed"]
    <3>1. s \in Servers
      BY <2>2 DEF Entry
    <3>2. life \in Lifecycle
      BY <1>0, <3>1 DEF TypeOK, Lifecycle, Statuses
    <3>3. CASE watched[s] # c
      BY <1>0, <1>9, <3>3 DEF Crash, TypeOK
    <3>4. CASE watched[s] = c
      <4>1. [table EXCEPT ![s] = NoConn] \in Tools /\ [watched EXCEPT ![s] = NoConn] \in Tools
        BY <1>0, <3>1, WithFacts, Typed DEF TypeOK
      <4>2. apply([table EXCEPT ![s] = NoConn], life, "other")
        BY <1>9, <3>4 DEF Crash
      <4>3. table' \in Tools /\ updates' \in Seq(Update)
        BY <1>0, <3>2, <4>1, <4>2, ApplyFacts
      <4>4. timers' \subseteq Servers /\ left' \subseteq Servers
        BY <1>0, <1>9, <3>1, <3>4 DEF Crash, TypeOK
      <4> QED BY <1>9, <3>2, <3>4, <4>1, <4>3, <4>4 DEF Crash
    <3> QED BY <3>3, <3>4
  <2> QED BY <1>0, <1>9, <2>4, <2>5, <2>6 DEF Crash, upset, TypeOK, Entry
<1>10. ASSUME NEW r \in Runs, RunStarts(r) PROVE TypeOK'
  <2>1. members(graph) \subseteq Conn /\ stale(members(graph)) \subseteq Conn
    BY <1>0 DEF ToolsInv, within, stale
  <2>2. holding' \in Holding
    BY <1>0, <1>10, <2>1 DEF RunStarts, TypeOK, Holding
  <2> QED BY <1>0, <1>10, <2>2 DEF RunStarts, TypeOK, Conn, Holding
<1>11. ASSUME NEW r \in Runs, RunEnds(r) PROVE TypeOK'
  <2> DEFINE rest == {[w EXCEPT !.until = @ \ {r}] : w \in retiring}
             over == UNION {w.conns : w \in {x \in rest : x.until = {}}}
  <2>1. conns \in Seq(Entry) /\ conns' = closed(over, conns)
    BY <1>0, <1>11 DEF RunEnds, TypeOK, Entry
  <2>2. conns' \in Seq(Entry) /\ Conn' = Conn
    BY <2>1, ClosedFacts DEF Conn
  <2>3. rest \subseteq Retiring
    <3>1. retiring \subseteq Retiring
      BY <1>0 DEF TypeOK, Retiring
    <3> QED BY <3>1 DEF Retiring
  <2>4. retiring' \subseteq Retiring
    BY <1>11, <2>3 DEF RunEnds
  <2>5. holding' \in Holding
    BY <1>0, <1>11 DEF RunEnds, TypeOK, Holding, idleRun
  <2> QED BY <1>0, <1>11, <2>2, <2>4, <2>5 DEF RunEnds, TypeOK, Entry, Holding, Retiring
<1>12. CASE vars' = vars
  BY <1>0, <1>12 DEF vars, TypeOK, Conn
<1>13. ASSUME NEW s \in Servers, ConnectFails(s) PROVE TypeOK'
  <2>1. lifecycle' \in Lifecycle
    BY <1>0, <1>13 DEF ConnectFails, status, TypeOK, Lifecycle, Statuses
  <2>2. PICK tools : /\ tools = IF pending = {} THEN table ELSE CHOOSE p \in pending : TRUE
                     /\ queueMcpCapabilities(tools)
    BY <1>13 DEF ConnectFails
  <2>3. tools \in Tools
    <3>1. pending # {} => (CHOOSE p \in pending : TRUE) \in pending
      OBVIOUS
    <3> QED BY <1>0, <2>2, <3>1 DEF TypeOK
  <2>4. /\ pending' \subseteq Tools /\ Cardinality(pending') <= 1
        /\ drain' \in {"off", "ready", "applying"} /\ broken' \in BOOLEAN
    BY <1>0, <2>2, <2>3, QueueFacts
  <2>5. job' \in Job
    BY <1>0, <1>13, NoJobTyped DEF ConnectFails, TypeOK, Job
  <2> QED BY <1>0, <1>13, <2>1, <2>4, <2>5 DEF ConnectFails, upset, TypeOK, Conn
<1>14. CASE UpdateDone
  <2>1. /\ head.tools \in Tools /\ head.print \in Readiness /\ head.by \in {"job", "drain", "other"}
        /\ updates' \in Seq(Update)
    BY <1>0, <1>14, HeadFacts DEF UpdateDone
  <2>2. drain' \in {"off", "ready", "applying"}
    BY <1>0, <1>14 DEF UpdateDone, TypeOK
  <2>3. /\ job' \in Job /\ pool' \in Tools /\ watched' \in Tools /\ unoffered' \subseteq Servers
        /\ loaded' \in BOOLEAN /\ plugins' \in BOOLEAN /\ orphans' \subseteq Conn'
        /\ enabled' \subseteq Servers /\ jobs' \in Seq(Request)
        /\ conns' \in Seq(Entry) /\ Conn \subseteq Conn'
        /\ retiring' \subseteq [conns : SUBSET Conn', until : SUBSET Runs]
    <3>1. CASE head.by # "job"
      BY <1>0, <1>14, <3>1 DEF UpdateDone, TypeOK, Conn, Entry
    <3>2. CASE head.by = "job" /\ job.at = "publishing"
      <4>1. publish(job, pool[subject], conns) /\ enabled' = enabled /\ jobs' = jobs
        BY <1>14, <3>2 DEF UpdateDone, jobGoesOn
      <4>2. job # NoJob /\ job.request \in Request
        BY <1>0, <3>2, Idle, AtWork
      <4>3. pool[subject] \in 0 .. MaxConns \/ isReload
        BY <1>0, <4>2, AtWork, MadeFacts
      <4>4. PICK c \in 0 .. MaxConns : publish(job, c, conns)
        BY <4>1, <4>3, Typed DEF publish, isReload
      <4>5. job \in Job /\ enabled \subseteq Servers /\ jobs \in Seq(Request)
        BY <1>0 DEF TypeOK
      <4>6. /\ conns \in Seq(Entry) /\ Len(conns) <= Len(conns) /\ job.displaced \in 0 .. Len(conns)
            /\ members(pool) \subseteq 1 .. Len(conns) /\ members(job.fresh) \subseteq 1 .. Len(conns)
        BY <1>0, MadeFacts DEF Conn
      <4> QED BY <1>0, <4>1, <4>2, <4>4, <4>5, <4>6, PublishFacts, NoJobTyped
    <3>3. CASE head.by = "job" /\ job.at = "restoring"
      <4>1. giveUp(head.tools) /\ UNCHANGED <<pool, loaded, plugins, orphans, conns, retiring>>
        BY <1>14, <3>3 DEF UpdateDone, jobGoesOn
      <4>2. job # NoJob
        BY <1>0, <3>3, Idle
      <4>3. /\ job' = NoJob /\ enabled' \subseteq Servers
            /\ watched' \in Tools /\ unoffered' \subseteq Servers
            /\ jobs' \in Seq(Request)
        BY <1>0, <2>1, <4>1, <4>2, GiveUpFacts DEF TypeOK
      <4> QED BY <1>0, <4>1, <4>3, NoJobTyped DEF TypeOK, Conn, Entry
    <3>4. CASE head.by = "job" /\ job.at \notin {"publishing", "restoring"}
      <4>1. /\ job' = [job EXCEPT !.at = "connecting"]
            /\ UNCHANGED <<pool, loaded, plugins, orphans, watching, conns, retiring, enabled, jobs>>
        BY <1>14, <3>4 DEF UpdateDone, jobGoesOn
      <4>2. job' \in Job
        BY <1>0, <4>1 DEF TypeOK, Job
      <4> QED BY <1>0, <4>1, <4>2 DEF TypeOK, Conn, Entry
    <3> QED BY <3>1, <3>2, <3>3, <3>4
  <2>4. holding' \in [Runs -> [busy : BOOLEAN, tools : SUBSET Conn', stale : SUBSET Conn']]
    BY <1>0, <1>14, <2>3 DEF UpdateDone, TypeOK
  <2>5. discarded' \subseteq Conn'
    BY <1>0, <1>14, <2>3 DEF UpdateDone, TypeOK
  <2> QED BY <1>0, <1>14, <2>1, <2>2, <2>3, <2>4, <2>5 DEF UpdateDone, TypeOK, Entry
<1>15. CASE UpdateFails
  <2>1. /\ head.tools \in Tools /\ head.print \in Readiness /\ head.by \in {"job", "drain", "other"}
        /\ head.skill \subseteq Servers /\ updates' \in Seq(Update)
    BY <1>0, <1>15, HeadFacts DEF UpdateFails
  <2>2. drain' \in {"off", "ready", "applying"} /\ broken' \in BOOLEAN
    BY <1>0, <1>15 DEF UpdateFails, TypeOK
  <2>3. skills' \subseteq Servers
    BY <1>0, <1>15, <2>1 DEF UpdateFails, TypeOK, back
  <2>4. /\ job' \in Job /\ watched' \in Tools /\ unoffered' \subseteq Servers
        /\ enabled' \subseteq Servers /\ jobs' \in Seq(Request)
    <3>1. CASE head.by = "job" /\ job.at = "restoring"
      <4>1. giveUp(table) /\ table \in Tools
        BY <1>0, <1>15, <3>1 DEF UpdateFails, TypeOK
      <4>2. job # NoJob
        BY <1>0, <3>1, Idle
      <4> QED BY <1>0, <4>1, <4>2, GiveUpFacts, NoJobTyped DEF TypeOK
    <3>2. CASE ~(head.by = "job" /\ job.at = "restoring")
      <4>1. job' \in {job, [job EXCEPT !.at = "failed"]} /\ UNCHANGED <<watching, enabled, jobs>>
        BY <1>15, <3>2 DEF UpdateFails
      <4>2. job' \in Job
        BY <1>0, <4>1 DEF TypeOK, Job
      <4> QED BY <1>0, <4>1, <4>2 DEF TypeOK
    <3> QED BY <3>1, <3>2
  <2> QED BY <1>0, <1>15, <2>1, <2>2, <2>3, <2>4 DEF UpdateFails, upset, TypeOK, Conn
<1>16. CASE BeginJob
  <2>1. /\ Head(jobs) \in Request /\ jobs' \in Seq(Request)
    BY <1>0, <1>16, HeadTailProperties DEF BeginJob, TypeOK
  <2>2. /\ lifecycle' \in Lifecycle /\ table' \in Tools /\ updates' \in Seq(Update)
        /\ watched' \in Tools /\ unoffered' = unoffered /\ job' \in Job
    <3>1. ASSUME NEW at \in {"connecting", "clearing"}, NEW todo \in SUBSET Servers
          PROVE  begin(Head(jobs), at, todo) \in Job
      BY <1>0, <2>1, NoJobTyped DEF begin, TypeOK, Job
    <3>2. CASE BeginReload(Head(jobs))
      <4> DEFINE life == [s \in Servers |-> IF s \in enabled THEN "loading" ELSE "disabled"]
      <4>1. /\ lifecycle' = life /\ watched' = none /\ unoffered' = unoffered
            /\ apply(none, life, "job")
            /\ job' = begin(Head(jobs), IF unchanged(none, life) THEN "connecting" ELSE "clearing",
                            enabled)
        BY <3>2 DEF BeginReload
      <4>2. life \in Lifecycle /\ enabled \subseteq Servers
        BY <1>0 DEF Lifecycle, Statuses, TypeOK
      <4>3. table' \in Tools /\ updates' \in Seq(Update)
        BY <1>0, <4>1, <4>2, ApplyFacts, Typed
      <4> QED BY <3>1, <4>1, <4>2, <4>3, Typed
    <3>3. CASE BeginReconnect(Head(jobs))
      <4>1. PICK s \in Head(jobs).server :
              /\ UNCHANGED <<published, watching>>
              /\ IF s \notin enabled THEN UNCHANGED <<lifecycle, job>>
                 ELSE /\ status(s, "loading")
                      /\ job' = begin(Head(jobs), "connecting", {s})
        BY <3>3 DEF BeginReconnect
      <4>2. s \in Servers
        BY <2>1 DEF Request
      <4>3. lifecycle' \in Lifecycle
        BY <1>0, <4>1, <4>2 DEF status, TypeOK, Lifecycle, Statuses
      <4> QED BY <1>0, <3>1, <4>1, <4>2, <4>3 DEF TypeOK
    <3>4. CASE BeginNothing(Head(jobs))
      BY <1>0, <3>4 DEF BeginNothing, TypeOK
    <3> QED BY <1>16, <3>2, <3>3, <3>4 DEF BeginJob
  <2> QED BY <1>0, <1>16, <2>1, <2>2 DEF BeginJob, TypeOK, Conn
<1>17. CASE Flush
  <2>1. job # NoJob /\ job \in Job /\ job.request \in Request /\ job.fresh \in Tools
        /\ lifecycle \in Lifecycle
    BY <1>0, <1>17, Idle, AtWork, JobFields DEF Flush, flushing, TypeOK
  <2>2. /\ table' \in Tools /\ updates' \in Seq(Update)
    BY <1>0, <1>17, <2>1, ApplyFacts, RebuildFacts DEF Flush, TypeOK
  <2>3. /\ job' \in Job /\ pool' \in Tools /\ watched' \in Tools /\ unoffered' \subseteq Servers
        /\ loaded' \in BOOLEAN /\ plugins' \in BOOLEAN /\ orphans' \subseteq Conn'
        /\ conns' \in Seq(Entry) /\ Conn \subseteq Conn'
        /\ retiring' \subseteq [conns : SUBSET Conn', until : SUBSET Runs]
    <3>1. CASE /\ job' = [job EXCEPT !.at = "failed"] \/ job' = [job EXCEPT !.at = "publishing"]
               /\ UNCHANGED <<pools, watching, retiring, conns>>
      <4>1. job' \in Job
        BY <1>0, <3>1 DEF TypeOK, Job
      <4> QED BY <1>0, <3>1, <4>1 DEF TypeOK, Conn, Entry
    <3>2. CASE publish(job, NoConn, conns)
      <4>1. /\ conns \in Seq(Entry) /\ Len(conns) <= Len(conns) /\ job.displaced \in 0 .. Len(conns)
            /\ members(pool) \subseteq 1 .. Len(conns) /\ members(job.fresh) \subseteq 1 .. Len(conns)
        BY <1>0, MadeFacts DEF Conn
      <4> QED BY <1>0, <2>1, <3>2, <4>1, PublishFacts, NoJobTyped, Typed
    <3> QED BY <1>17, <3>1, <3>2 DEF Flush
  <2>4. holding' \in [Runs -> [busy : BOOLEAN, tools : SUBSET Conn', stale : SUBSET Conn']]
    BY <1>0, <1>17, <2>3 DEF Flush, TypeOK
  <2>5. discarded' \subseteq Conn'
    BY <1>0, <1>17, <2>3 DEF Flush, TypeOK
  <2> QED BY <1>0, <1>17, <2>2, <2>3, <2>4, <2>5 DEF Flush, TypeOK, Entry
<1>18. CASE Failed
  <2> DEFINE life == IF isReload THEN job.lifecycle
                     ELSE [lifecycle EXCEPT ![subject] = job.lifecycle[subject]]
  <2>1. job # NoJob /\ job \in Job /\ job.tools \in Tools /\ job.lifecycle \in Lifecycle
    BY <1>0, <1>18, Idle, JobFields DEF Failed, TypeOK
  <2>2. isReload \/ subject \in Servers
    BY <1>0, <2>1, AtWork
  <2>3. life \in Lifecycle
    BY <1>0, <2>1, <2>2 DEF TypeOK, Lifecycle
  <2>4. pool' \in Tools
    BY <1>0, <1>18, <2>2, WithFacts, JobFields DEF Failed, TypeOK
  <2>5. table' \in Tools /\ updates' \in Seq(Update)
    <3>1. apply(job.tools, life, "job")
      BY <1>18 DEF Failed
    <3> QED BY <1>0, <2>1, <2>3, <3>1, ApplyFacts
  <2>6. conns \in Seq(Entry) /\ conns' = closed(members(job.fresh), conns)
    BY <1>0, <1>18 DEF Failed, TypeOK, Entry
  <2>7. conns' \in Seq(Entry) /\ Conn' = Conn
    BY <2>6, ClosedFacts DEF Conn
  <2>8. /\ job' \in Job /\ watched' \in Tools /\ unoffered' \subseteq Servers
        /\ enabled' \subseteq Servers /\ jobs' \in Seq(Request)
    <3>1. CASE unchanged(job.tools, life)
      <4>1. giveUp(job.tools)
        BY <1>18, <3>1 DEF Failed
      <4> QED BY <1>0, <2>1, <4>1, GiveUpFacts, NoJobTyped DEF TypeOK
    <3>2. CASE ~unchanged(job.tools, life)
      <4>1. job' = [job EXCEPT !.at = "restoring"] /\ UNCHANGED <<watching, enabled, jobs>>
        BY <1>18, <3>2 DEF Failed
      <4>2. job' \in Job
        BY <1>0, <4>1 DEF TypeOK, Job
      <4> QED BY <1>0, <4>1, <4>2 DEF TypeOK
    <3> QED BY <3>1, <3>2
  <2>9. lifecycle' \in Lifecycle
    BY <1>18, <2>3 DEF Failed
  <2>10. discarded' \subseteq Conn
    BY <1>0, <1>18, MadeFacts DEF Failed, TypeOK
  <2>11. left' \subseteq Servers
    BY <1>0, <1>18 DEF Failed, TypeOK
  <2> QED BY <1>0, <1>18, <2>4, <2>5, <2>7, <2>8, <2>9, <2>10, <2>11 DEF Failed, TypeOK, Entry
<1>19. ASSUME NEW s \in Servers, Connected(s) PROVE TypeOK'
  <2> DEFINE life  == [lifecycle EXCEPT ![s] = "connected"]
             fresh == [job.fresh EXCEPT ![s] = newest]
             tools == [job.tools EXCEPT ![s] = newest]
  <2>1. /\ newest \in 0 .. MaxConns /\ longer(s) \in Seq(Entry) /\ joined(s) \in Job
        /\ Len(longer(s)) = Len(conns) + 1 /\ Len(conns) <= Len(longer(s))
        /\ joined(s).request = job.request /\ joined(s).displaced = pool[s]
        /\ job # NoJob /\ job.request \in Request
        /\ members(pool) \subseteq 1 .. Len(longer(s)) /\ pool[s] \in 0 .. Len(longer(s))
        /\ members(joined(s).fresh) \subseteq 1 .. Len(longer(s))
        /\ \/ ConnectedReloading(s, newest, longer(s)) \/ ConnectedAgain(s, newest, longer(s))
           \/ ConnectedInVain(s, newest, longer(s))
    BY <1>0, <1>19, ConnectedFacts
  <2>2. Len(conns) \in Nat
    BY <1>0, MadeFacts
  <2>3. lifecycle' = life /\ life \in Lifecycle
    BY <1>0, <1>19 DEF Connected, status, TypeOK, Lifecycle, Statuses
  <2>4. fresh \in Tools /\ tools \in Tools /\ [pool EXCEPT ![s] = newest] \in Tools
    <3>1. job.fresh \in Tools /\ job.tools \in Tools /\ pool \in Tools
      BY <1>0, JobFields DEF TypeOK
    <3> QED BY <2>1, <3>1, WithFacts
  <2> HIDE DEF life
  <2>5. /\ job' \in Job /\ pool' \in Tools /\ watched' \in Tools /\ unoffered' \subseteq Servers
        /\ loaded' \in BOOLEAN /\ plugins' \in BOOLEAN /\ orphans' \subseteq Conn'
        /\ conns' \in Seq(Entry) /\ Conn \subseteq Conn'
        /\ retiring' \subseteq [conns : SUBSET Conn', until : SUBSET Runs]
        /\ table' \in Tools /\ updates' \in Seq(Update)
        /\ pending' \subseteq Tools /\ Cardinality(pending') <= 1
        /\ drain' \in {"off", "ready", "applying"} /\ broken' \in BOOLEAN
    <3>0. ASSUME Len(conns') = Len(conns) + 1 PROVE Conn \subseteq Conn'
      BY <2>2, <3>0 DEF Conn
    <3>1. CASE ConnectedReloading(s, newest, longer(s))
      <4>1. /\ queueMcpCapabilities(fresh) /\ job' = [job EXCEPT !.todo = @ \ {s}, !.fresh = fresh]
            /\ conns' = longer(s) /\ UNCHANGED <<pools, watching, retiring, published>>
        BY <3>1 DEF ConnectedReloading
      <4>2. job' \in Job
        BY <1>0, <2>4, <4>1 DEF TypeOK, Job
      <4>3. /\ pending' \subseteq Tools /\ Cardinality(pending') <= 1
            /\ drain' \in {"off", "ready", "applying"} /\ broken' \in BOOLEAN
        BY <1>0, <2>4, <4>1, QueueFacts
      <4>4. Conn \subseteq Conn'
        BY <2>1, <3>0, <4>1
      <4>5. retiring' \subseteq [conns : SUBSET Conn', until : SUBSET Runs]
        BY <1>0, <4>1, <4>4 DEF TypeOK
      <4> QED BY <1>0, <2>1, <4>1, <4>2, <4>3, <4>4, <4>5 DEF TypeOK
    <3>2. CASE ConnectedAgain(s, newest, longer(s))
      <4>1. /\ apply(tools, life, "job")
            /\ IF unchanged(tools, life) THEN publish(joined(s), newest, longer(s))
               ELSE /\ pool' = [pool EXCEPT ![s] = newest]
                    /\ job' = joined(s)
                    /\ conns' = longer(s)
                    /\ UNCHANGED <<loaded, plugins, orphans, watching, retiring>>
            /\ UNCHANGED queued
        BY <3>2 DEF ConnectedAgain, joined, life
      <4>2. table' \in Tools /\ updates' \in Seq(Update)
        BY <1>0, <2>3, <2>4, <4>1, ApplyFacts
      <4>3. CASE unchanged(tools, life)
        <5>1. publish(joined(s), newest, longer(s))
          BY <4>1, <4>3
        <5>2. /\ pool' \in Tools /\ watched' \in Tools /\ unoffered' \subseteq Servers /\ job' = NoJob
              /\ loaded' \in BOOLEAN /\ plugins' \in BOOLEAN /\ orphans' \subseteq Conn'
              /\ conns' \in Seq(Entry) /\ Len(conns') = Len(longer(s))
              /\ retiring' \subseteq [conns : SUBSET (1 .. Len(longer(s))), until : SUBSET Runs]
              /\ 1 .. Len(longer(s)) = Conn' /\ Conn \subseteq Conn'
          BY <1>0, <2>1, <5>1, PublishFacts
        <5> QED BY <1>0, <4>1, <4>2, <5>2, NoJobTyped DEF TypeOK
      <4>4. CASE ~unchanged(tools, life)
        <5>1. /\ pool' = [pool EXCEPT ![s] = newest] /\ job' = joined(s) /\ conns' = longer(s)
              /\ UNCHANGED <<loaded, plugins, orphans, watching, retiring>>
          BY <4>1, <4>4
        <5>2. Conn \subseteq Conn'
          BY <2>1, <3>0, <5>1
        <5>3. retiring' \subseteq [conns : SUBSET Conn', until : SUBSET Runs]
          BY <1>0, <5>1, <5>2 DEF TypeOK
        <5> QED BY <1>0, <2>1, <2>4, <4>1, <4>2, <5>1, <5>2, <5>3 DEF TypeOK
      <4> QED BY <4>3, <4>4
    <3>3. CASE ConnectedInVain(s, newest, longer(s))
      <4>1. /\ job' = [job EXCEPT !.todo = {}, !.fresh = [none EXCEPT ![s] = newest],
                                 !.at = "refused"]
            /\ conns' = longer(s) /\ UNCHANGED <<published, pools, watching, queued, retiring>>
        BY <3>3 DEF ConnectedInVain
      <4>2. [none EXCEPT ![s] = newest] \in Tools
        BY <2>1, Typed, WithFacts
      <4>3. job' \in Job
        BY <1>0, <4>1, <4>2 DEF TypeOK, Job
      <4>4. Conn \subseteq Conn'
        BY <2>1, <3>0, <4>1
      <4>5. retiring' \subseteq [conns : SUBSET Conn', until : SUBSET Runs]
        BY <1>0, <4>1, <4>4 DEF TypeOK
      <4> QED BY <1>0, <2>1, <4>1, <4>3, <4>4, <4>5 DEF TypeOK
    <3> QED BY <2>1, <3>1, <3>2, <3>3
  <2>6. discarded' \subseteq Conn'
    BY <1>0, <1>19, <2>5 DEF Connected, TypeOK
  <2>7. holding' \in [Runs -> [busy : BOOLEAN, tools : SUBSET Conn', stale : SUBSET Conn']]
    BY <1>0, <1>19, <2>5 DEF Connected, TypeOK
  <2> QED BY <1>0, <1>19, <2>3, <2>5, <2>6, <2>7 DEF Connected, TypeOK, Entry, life
<1>20. CASE Refused
  <2>1. job # NoJob
    BY <1>0, <1>20, Idle DEF Refused
  <2>2. conns \in Seq(Entry) /\ conns' = closed(members(job.fresh), conns)
    BY <1>0, <1>20 DEF Refused, TypeOK, Entry
  <2>3. conns' \in Seq(Entry) /\ Conn' = Conn
    BY <2>2, ClosedFacts DEF Conn
  <2>4. lifecycle' \in Lifecycle
    BY <1>0, <1>20, JobFields DEF Refused, status, TypeOK, Lifecycle
  <2>5. discarded' \subseteq Conn
    BY <1>0, <1>20, MadeFacts DEF Refused, TypeOK
  <2> QED BY <1>0, <1>20, <2>3, <2>4, <2>5, NoJobTyped DEF Refused, TypeOK, Entry
<1> QED BY <1>1, <1>2, <1>3, <1>4, <1>5, <1>6, <1>7, <1>8, <1>9, <1>10, <1>11, <1>12, <1>13,
           <1>14, <1>15, <1>16, <1>17, <1>18, <1>19, <1>20 DEF Next

-----------------------------------------------------------------------------
(* A reconnect that waits is about one server.                              *)
LEMMA RequestsStep == Inv /\ [Next]_vars => RequestsInv'
<1> SUFFICES ASSUME Inv, [Next]_vars PROVE RequestsInv'
  OBVIOUS
<1> USE DEF published, watching, queued, work, switches, history, pools, recovery
<1>0. TypeOK /\ JobInv /\ RequestsInv /\ ToolsInv
  BY DEF Inv, ConnInv
<1>1. ASSUME jobs' = jobs PROVE RequestsInv'
  BY <1>0, <1>1 DEF RequestsInv
<1>2. ASSUME NEW kind, NEW server,
             jobs' \in Seq(Request) /\ Len(jobs') = Len(jobs) + 1,
             \A i \in 1 .. Len(jobs) : jobs'[i] = jobs[i],
             jobs'[Len(jobs) + 1].kind = kind, jobs'[Len(jobs) + 1].server = server,
             kind \in Reloads \/ \E s \in Servers : server = {s}
      PROVE  RequestsInv'
  <2>1. Len(jobs) \in Nat
    BY <1>0, LenProperties DEF TypeOK
  <2>2. ASSUME NEW i \in 1 .. Len(jobs'), jobs'[i].kind = "reconnect"
        PROVE  \E s \in Servers : jobs'[i].server = {s}
    <3>1. i \in 1 .. Len(jobs) \/ i = Len(jobs) + 1
      BY <1>2, <2>1
    <3> QED BY <1>0, <1>2, <2>2, <3>1 DEF RequestsInv
  <2> QED BY <2>2 DEF RequestsInv
<1>3. ASSUME NEW kind \in Reloads \cup {"reconnect"}, NEW server \in SUBSET Servers, ask(kind, server),
             kind \in Reloads \/ \E s \in Servers : server = {s}
      PROVE  RequestsInv'
  <2>1. /\ jobs' \in Seq(Request) /\ Len(jobs') = Len(jobs) + 1
        /\ \A i \in 1 .. Len(jobs) : jobs'[i] = jobs[i]
        /\ jobs'[Len(jobs) + 1].kind = kind /\ jobs'[Len(jobs) + 1].server = server
    BY <1>0, <1>3, AskFacts
  <2> QED BY <1>2, <1>3, <2>1
<1>4. ASSUME NEW tools \in Tools, job # NoJob, giveUp(tools) PROVE RequestsInv'
  <2>1. CASE jobs' = jobs
    BY <1>1, <2>1
  <2>2. CASE jobs' # jobs
    <3>1. /\ jobs' \in Seq(Request) /\ Len(jobs') = Len(jobs) + 1
          /\ \A i \in 1 .. Len(jobs) : jobs'[i] = jobs[i]
          /\ jobs'[Len(jobs) + 1].kind = "reload"
      BY <1>0, <1>4, <2>2, GiveUpFacts
    <3> QED BY <1>2, <3>1
  <2> QED BY <2>1, <2>2
<1>5. CASE Reload
  <2>1. PICK kind \in Reloads : ask(kind, {})
    BY <1>5 DEF Reload
  <2> QED BY <1>3, <2>1
<1>6. ASSUME NEW s \in Servers, Toggle(s) \/ Reconnect(s) \/ Recover(s) PROVE RequestsInv'
  BY <1>3, <1>6 DEF Toggle, Reconnect, Recover
<1>7. CASE BeginJob
  <2>1. jobs \in Seq(Request) /\ jobs # <<>> /\ jobs' = Tail(jobs) /\ Len(jobs) \in Nat
    BY <1>0, <1>7, LenProperties DEF BeginJob, TypeOK
  <2>2. Len(jobs') = Len(jobs) - 1 /\ \A i \in 1 .. Len(jobs') : jobs'[i] = jobs[i + 1]
    BY <2>1, HeadTailProperties
  <2>3. \A i \in 1 .. Len(jobs') : i + 1 \in 1 .. Len(jobs)
    BY <2>1, <2>2
  <2> QED BY <1>0, <2>2, <2>3 DEF RequestsInv
<1>8. CASE UpdateDone
  <2>1. CASE head.by = "job" /\ job.at = "restoring"
    BY <1>0, <1>4, <1>8, <2>1, Idle, HeadFacts DEF UpdateDone, jobGoesOn
  <2>2. CASE ~(head.by = "job" /\ job.at = "restoring")
    <3>1. CASE head.by = "job" /\ job.at = "publishing"
      BY <1>1, <1>8, <3>1 DEF UpdateDone, jobGoesOn
    <3>2. CASE head.by = "job" /\ job.at \notin {"publishing", "restoring"}
      BY <1>1, <1>8, <3>2 DEF UpdateDone, jobGoesOn
    <3> QED BY <1>1, <1>8, <2>2, <3>1, <3>2 DEF UpdateDone
  <2> QED BY <2>1, <2>2
<1>9. CASE UpdateFails
  <2>1. CASE head.by = "job" /\ job.at = "restoring"
    BY <1>0, <1>4, <1>9, <2>1, Idle DEF UpdateFails, TypeOK
  <2>2. CASE ~(head.by = "job" /\ job.at = "restoring")
    BY <1>1, <1>9, <2>2 DEF UpdateFails
  <2> QED BY <2>1, <2>2
<1>10. CASE Failed
  <2>1. job # NoJob /\ job.tools \in Tools
    BY <1>0, <1>10, Idle, JobFields DEF Failed
  <2>2. jobs' = jobs \/ giveUp(job.tools)
    BY <1>10 DEF Failed
  <2> QED BY <1>1, <1>4, <2>1, <2>2
<1>11. CASE DrainPending \/ Flush \/ ReloadSkills \/ Close \/ CloseEnds \/ vars' = vars
  BY <1>1, <1>11 DEF DrainPending, Flush, ReloadSkills, Close, CloseEnds, vars
<1>12. ASSUME NEW s \in Servers, Connected(s) \/ ConnectFails(s) \/ ToggleSkill(s) PROVE RequestsInv'
  BY <1>1, <1>12 DEF Connected, ConnectFails, ToggleSkill
<1>13. ASSUME NEW c \in Conn, Crash(c) PROVE RequestsInv'
  BY <1>1, <1>13 DEF Crash
<1>14. ASSUME NEW r \in Runs, RunStarts(r) \/ RunEnds(r) PROVE RequestsInv'
  BY <1>1, <1>14 DEF RunStarts, RunEnds
<1>15. CASE Refused
  BY <1>1, <1>15 DEF Refused
<1> QED BY <1>5, <1>6, <1>7, <1>8, <1>9, <1>10, <1>11, <1>12, <1>13, <1>14, <1>15 DEF Next

(* A pool comes with the plugins, which stay; what is made for nobody is    *)
(* made before.                                                             *)
LEMMA PoolStep == Inv /\ [Next]_vars => PoolInv'
<1> SUFFICES ASSUME Inv, [Next]_vars PROVE PoolInv'
  OBVIOUS
<1> USE DEF published, watching, queued, work, switches, history, recovery
<1>0. TypeOK /\ JobInv /\ PoolInv
  BY DEF Inv, ConnInv
<1>1. ASSUME UNCHANGED pools PROVE PoolInv'
  BY <1>0, <1>1 DEF PoolInv, pools
<1>2. ASSUME NEW j, NEW all, publishReload(j, all) PROVE PoolInv'
  <2>1. /\ plugins' = (plugins \/ j.request.kind = "plugins")
        /\ orphans' = IF plugins' THEN orphans ELSE orphans \cup members(j.fresh)
        /\ pool' = IF plugins' THEN j.fresh ELSE pool
        /\ loaded' = loaded
    BY <1>2 DEF publishReload
  <2>2. plugins => plugins'
    BY <2>1
  <2> QED BY <1>0, <2>1, <2>2 DEF PoolInv
<1>3. ASSUME plugins, UNCHANGED <<loaded, plugins, orphans>> PROVE PoolInv'
  BY <1>0, <1>3 DEF PoolInv
<1>4. ASSUME NEW j, NEW c, NEW all, publish(j, c, all), j.request.kind \in Reloads \/ plugins
      PROVE  PoolInv'
  <2>1. CASE j.request.kind \in Reloads
    BY <1>2, <1>4, <2>1 DEF publish
  <2>2. CASE j.request.kind \notin Reloads
    BY <1>3, <1>4, <2>2 DEF publish, publishReconnect
  <2> QED BY <2>1, <2>2
<1>5. job.at \in {"publishing", "failed"} => isReload \/ plugins
  <2> SUFFICES ASSUME job.at \in {"publishing", "failed"} PROVE isReload \/ plugins
    OBVIOUS
  <2>1. job # NoJob
    BY <1>0, Idle
  <2> QED BY <1>0, <2>1, AtWork DEF ReconnectInv
<1>6. CASE UpdateDone
  <2>1. CASE head.by # "job"
    BY <1>1, <1>6, <2>1 DEF UpdateDone
  <2>2. CASE head.by = "job" /\ job.at = "publishing"
    BY <1>4, <1>5, <1>6, <2>2 DEF UpdateDone, jobGoesOn, isReload
  <2>3. CASE head.by = "job" /\ job.at # "publishing"
    BY <1>1, <1>6, <2>3 DEF UpdateDone, jobGoesOn
  <2> QED BY <2>1, <2>2, <2>3
<1>7. CASE Flush
  <2>1. UNCHANGED pools \/ (job.request.kind = "reload" /\ publish(job, NoConn, conns))
    BY <1>7 DEF Flush
  <2> QED BY <1>1, <1>4, <2>1
<1>8. CASE Failed
  <2>1. CASE isReload
    BY <1>1, <1>8, <2>1 DEF Failed, pools
  <2>2. CASE ~isReload
    BY <1>3, <1>5, <1>8, <2>2 DEF Failed
  <2> QED BY <2>1, <2>2
<1>9. ASSUME NEW s \in Servers, Connected(s) PROVE PoolInv'
  <2>1. PICK c, all : \/ ConnectedReloading(s, c, all) \/ ConnectedAgain(s, c, all)
                      \/ ConnectedInVain(s, c, all)
    BY <1>9 DEF Connected
  <2>2. CASE ConnectedAgain(s, c, all)
    <3> DEFINE next == [job EXCEPT !.todo = {}, !.fresh = [none EXCEPT ![s] = c],
                                   !.displaced = pool[s], !.at = "publishing"]
    <3>1. plugins /\ (publish(next, c, all) \/ UNCHANGED <<loaded, plugins, orphans>>)
      BY <2>2 DEF ConnectedAgain
    <3> HIDE DEF next
    <3> QED BY <1>3, <1>4, <3>1
  <2> QED BY <1>1, <2>1, <2>2 DEF ConnectedReloading, ConnectedInVain
<1>10. CASE UpdateFails \/ DrainPending \/ BeginJob \/ Refused
  BY <1>1, <1>10 DEF UpdateFails, DrainPending, BeginJob, Refused
<1>11. CASE Reload \/ ReloadSkills \/ Close \/ CloseEnds
  BY <1>1, <1>11 DEF Reload, ReloadSkills, Close, CloseEnds
<1>12. ASSUME NEW s \in Servers, Toggle(s) \/ ToggleSkill(s) \/ Reconnect(s) \/ Recover(s)
       PROVE  PoolInv'
  BY <1>1, <1>12 DEF Toggle, ToggleSkill, Reconnect, Recover
<1>13. ASSUME NEW s \in Servers, ConnectFails(s) PROVE PoolInv'
  BY <1>1, <1>13 DEF ConnectFails
<1>14. ASSUME NEW c \in Conn, Crash(c) PROVE PoolInv'
  BY <1>1, <1>14 DEF Crash
<1>15. ASSUME NEW r \in Runs, RunStarts(r) \/ RunEnds(r) PROVE PoolInv'
  BY <1>1, <1>15 DEF RunStarts, RunEnds
<1>16. CASE vars' = vars
  BY <1>1, <1>16 DEF vars
<1> QED BY <1>6, <1>7, <1>8, <1>9, <1>10, <1>11, <1>12, <1>13, <1>14, <1>15, <1>16 DEF Next

(* The points at which a job waits for the graph; it has one update there,  *)
(* and none elsewhere.                                                      *)
awaiting == {"clearing", "publishing", "restoring"}

LEMMA UpdateStep == Inv /\ [Next]_vars => UpdateInv'
<1> SUFFICES ASSUME Inv, [Next]_vars PROVE UpdateInv'
  OBVIOUS
<1> USE DEF published, watching, queued, work, switches, history, pools, recovery
<1>0. TypeOK /\ JobInv /\ UpdateInv /\ OwnInv
  BY DEF Inv, ConnInv
<1>1. Len(updates) \in Nat /\ NoJob.at = "idle"
  BY <1>0, LenProperties, NoJobTyped DEF TypeOK
<1> DEFINE free  == \A i \in 1 .. Len(updates) : updates[i].by # "job"
           grown(by) == /\ Len(updates') = Len(updates) + 1
                        /\ \A i \in 1 .. Len(updates) : updates'[i] = updates[i]
                        /\ updates'[Len(updates) + 1].by = by
<1>2. job.at \notin awaiting => free
  BY <1>0 DEF UpdateInv, awaiting
<1>3. ASSUME updates' = updates, free \/ job' = job PROVE UpdateInv'
  BY <1>0, <1>3 DEF UpdateInv
<1>4. ASSUME NEW by, grown(by), by = "job" => free /\ job'.at \in awaiting, free \/ job' = job
      PROVE  UpdateInv'
  <2>1. \A i \in 1 .. Len(updates') : i \in 1 .. Len(updates) \/ i = Len(updates) + 1
    BY <1>1, <1>4
  <2>2. ASSUME NEW i \in 1 .. Len(updates'), updates'[i].by = "job" PROVE job'.at \in awaiting
    BY <1>0, <1>4, <2>1, <2>2 DEF UpdateInv, awaiting
  <2>3. ASSUME NEW i \in 1 .. Len(updates'), NEW j \in 1 .. Len(updates'),
               updates'[i].by = "job", updates'[j].by = "job"
        PROVE  i = j
    BY <1>0, <1>4, <2>1, <2>3 DEF UpdateInv
  <2> QED BY <2>2, <2>3 DEF UpdateInv, awaiting
<1>5. ASSUME updates # <<>>, updates' = Tail(updates), head.by = "job" \/ job' = job \/ free
      PROVE  UpdateInv'
  <2>1. /\ head = updates[1] /\ 1 \in 1 .. Len(updates) /\ Len(updates') = Len(updates) - 1
        /\ \A i \in 1 .. Len(updates') : i + 1 \in 1 .. Len(updates) /\ updates'[i] = updates[i + 1]
    BY <1>0, <1>5, HeadFacts
  <2>2. ASSUME NEW i \in 1 .. Len(updates'), updates'[i].by = "job" PROVE job'.at \in awaiting
    <3>1. i + 1 # 1
      BY <1>1, <2>1
    <3>2. head.by # "job"
      BY <1>0, <2>1, <2>2, <3>1 DEF UpdateInv
    <3> QED BY <1>0, <1>5, <2>1, <2>2, <3>2 DEF UpdateInv, awaiting
  <2>3. ASSUME NEW i \in 1 .. Len(updates'), NEW j \in 1 .. Len(updates'),
               updates'[i].by = "job", updates'[j].by = "job"
        PROVE  i = j
    <3>1. i + 1 = j + 1
      BY <1>0, <2>1, <2>3 DEF UpdateInv
    <3> QED BY <1>1, <2>1, <3>1
  <2> QED BY <2>2, <2>3 DEF UpdateInv, awaiting
<1>6. ASSUME NEW tools \in Tools, NEW life \in Lifecycle, NEW by \in {"job", "drain", "other"},
             apply(tools, life, by)
      PROVE  updates' = updates \/ grown(by)
  BY <1>0, <1>6, ApplyFacts
<1>7. ASSUME NEW tools \in Tools, NEW print \in Readiness, NEW by \in {"job", "drain", "other"},
             NEW skill \in SUBSET Servers, enqueue(tools, print, by, skill)
      PROVE  grown(by)
  BY <1>0, <1>7, EnqueueFacts
<1>8. table \in Tools /\ lifecycle \in Lifecycle
  BY <1>0 DEF TypeOK
<1> HIDE DEF free, grown
<1>9. CASE UpdateDone
  BY <1>5, <1>9 DEF UpdateDone
<1>10. CASE UpdateFails
  <2>1. CASE flushing
    BY <1>2, <1>5, <1>10, <2>1 DEF UpdateFails, flushing, awaiting
  <2>2. CASE ~flushing
    BY <1>5, <1>10, <2>2 DEF UpdateFails
  <2> QED BY <2>1, <2>2
<1>11. CASE DrainPending
  <2>1. CASE pending = {}
    BY <1>3, <1>11, <2>1 DEF DrainPending
  <2>2. CASE pending # {}
    <3>1. PICK tools \in pending : apply(tools, lifecycle, "drain")
      BY <1>11, <2>2 DEF DrainPending
    <3>2. updates' = updates \/ grown("drain")
      BY <1>0, <1>6, <1>8, <3>1 DEF TypeOK
    <3> QED BY <1>3, <1>4, <1>11, <3>2 DEF DrainPending
  <2> QED BY <2>1, <2>2
<1>12. CASE BeginJob
  <2>1. free
    BY <1>1, <1>2, <1>12 DEF BeginJob, awaiting
  <2>2. CASE BeginReload(Head(jobs))
    <3> DEFINE life == [s \in Servers |-> IF s \in enabled THEN "loading" ELSE "disabled"]
    <3>1. life \in Lifecycle
      BY <1>0 DEF Lifecycle, Statuses, TypeOK
    <3>2. apply(none, life, "job") /\ (~unchanged(none, life) => job'.at = "clearing")
      BY <2>2 DEF BeginReload, begin, NoJob
    <3> HIDE DEF life
    <3>3. CASE unchanged(none, life)
      BY <1>3, <2>1, <3>2, <3>3 DEF apply
    <3>4. CASE ~unchanged(none, life)
      <4>1. grown("job")
        BY <1>0, <3>1, <3>2, <3>4, Typed, ApplyFacts DEF grown
      <4> QED BY <1>4, <2>1, <3>2, <3>4, <4>1 DEF awaiting
    <3> QED BY <3>3, <3>4
  <2>3. CASE BeginReconnect(Head(jobs)) \/ BeginNothing(Head(jobs))
    BY <1>3, <2>1, <2>3 DEF BeginReconnect, BeginNothing
  <2> QED BY <1>12, <2>2, <2>3 DEF BeginJob
<1>13. CASE Flush
  <2>1. free /\ job.fresh \in Tools
    BY <1>0, <1>2, <1>13, JobFields DEF Flush, flushing, awaiting
  <2>2. \/ UNCHANGED updates
        \/ /\ rebuild(job.fresh, lifecycle, "job")
           /\ job' = [job EXCEPT !.at = "publishing"]
    BY <1>13 DEF Flush, apply
  <2>3. CASE UNCHANGED updates
    BY <1>3, <2>1, <2>3
  <2>4. CASE /\ rebuild(job.fresh, lifecycle, "job")
             /\ job' = [job EXCEPT !.at = "publishing"]
    <3>1. job'.at = "publishing"
      BY <1>0, <2>4 DEF TypeOK, Job
    <3>2. grown("job")
      BY <1>0, <1>8, <2>1, <2>4, RebuildFacts DEF grown
    <3> QED BY <1>4, <2>1, <3>1, <3>2 DEF awaiting
  <2> QED BY <2>2, <2>3, <2>4
<1>14. CASE Failed
  <2> DEFINE life == IF isReload THEN job.lifecycle
                     ELSE [lifecycle EXCEPT ![subject] = job.lifecycle[subject]]
  <2>1. free /\ job.tools \in Tools /\ life \in Lifecycle
    <3>1. job # NoJob /\ job.lifecycle \in Lifecycle /\ job.tools \in Tools
      BY <1>0, <1>14, Idle, JobFields DEF Failed
    <3>2. isReload \/ subject \in Servers
      BY <1>0, <3>1, AtWork
    <3> QED BY <1>0, <1>2, <1>8, <1>14, <3>1, <3>2 DEF Failed, awaiting, Lifecycle
  <2>2. apply(job.tools, life, "job") /\ (~unchanged(job.tools, life) => job'.at = "restoring")
    BY <1>0, <1>14 DEF Failed, TypeOK, Job
  <2> HIDE DEF life
  <2>3. CASE unchanged(job.tools, life)
    BY <1>3, <2>1, <2>2, <2>3 DEF apply
  <2>4. CASE ~unchanged(job.tools, life)
    <3>1. grown("job")
      BY <1>0, <2>1, <2>2, <2>4, ApplyFacts DEF grown
    <3> QED BY <1>4, <2>1, <2>2, <2>4, <3>1 DEF awaiting
  <2> QED BY <2>3, <2>4
<1>15. ASSUME NEW s \in Servers, Connected(s) PROVE UpdateInv'
  <2>1. free
    BY <1>2, <1>15 DEF Connected, connecting, awaiting
  <2>2. PICK c \in 0 .. MaxConns :
          \E all : \/ ConnectedReloading(s, c, all) \/ ConnectedAgain(s, c, all)
                  \/ ConnectedInVain(s, c, all)
    BY <1>0, <1>15, ConnectedFacts
  <2> PICK all : \/ ConnectedReloading(s, c, all) \/ ConnectedAgain(s, c, all)
                 \/ ConnectedInVain(s, c, all)
    BY <2>2
  <2>3. CASE ConnectedReloading(s, c, all) \/ ConnectedInVain(s, c, all)
    BY <1>3, <2>1, <2>3 DEF ConnectedReloading, ConnectedInVain
  <2>4. CASE ConnectedAgain(s, c, all)
    <3> DEFINE life  == [lifecycle EXCEPT ![s] = "connected"]
               tools == [job.tools EXCEPT ![s] = c]
    <3>1. life \in Lifecycle
      BY <1>8 DEF Lifecycle, Statuses
    <3>2. tools \in Tools
      BY <1>0, WithFacts, JobFields
    <3>3. apply(tools, life, "job") /\ (~unchanged(tools, life) => job'.at = "publishing")
      BY <1>0, <2>4 DEF ConnectedAgain, TypeOK, Job
    <3> HIDE DEF life, tools
    <3>4. CASE unchanged(tools, life)
      BY <1>3, <2>1, <3>3, <3>4 DEF apply
    <3>5. CASE ~unchanged(tools, life)
      <4>1. grown("job")
        BY <1>0, <3>1, <3>2, <3>3, <3>5, ApplyFacts DEF grown
      <4> QED BY <1>4, <2>1, <3>3, <3>5, <4>1 DEF awaiting
    <3> QED BY <3>4, <3>5
  <2> QED BY <2>2, <2>3, <2>4
<1>16. ASSUME NEW s \in Servers, ConnectFails(s) PROVE UpdateInv'
  BY <1>2, <1>3, <1>16 DEF ConnectFails, connecting, awaiting
<1>17. CASE ReloadSkills
  <2>1. grown("other")
    BY <1>0, <1>8, <1>17, RebuildFacts DEF ReloadSkills, grown
  <2> QED BY <1>4, <1>17, <2>1 DEF ReloadSkills
<1>18. ASSUME NEW s \in Servers, ToggleSkill(s) PROVE UpdateInv'
  <2>1. grown("other")
    <3>1. readiness(skills', lifecycle, table) \in Readiness
      BY <1>8, ReadinessTyped
    <3> QED BY <1>7, <1>8, <1>18, <3>1 DEF ToggleSkill
  <2> QED BY <1>4, <1>18, <2>1 DEF ToggleSkill
<1>19. ASSUME NEW c \in Conn, Crash(c) PROVE UpdateInv'
  <2> DEFINE s    == conns[c].server
             life == [lifecycle EXCEPT ![s] = "crashed"]
  <2>1. CASE watched[s] # c
    BY <1>3, <1>19, <2>1 DEF Crash
  <2>2. CASE watched[s] = c
    <3>1. s \in Servers
      <4>1. conns \in Seq(Entry)
        BY <1>0 DEF TypeOK, Entry
      <4>2. conns[c] \in Entry
        BY <4>1, ElementOfSeq DEF Conn
      <4> QED BY <4>2 DEF Entry
    <3>2. [table EXCEPT ![s] = NoConn] \in Tools
      BY <1>8, <3>1, WithFacts, Typed
    <3>3. life \in Lifecycle
      BY <1>8, <3>1 DEF Lifecycle, Statuses
    <3>4. apply([table EXCEPT ![s] = NoConn], life, "other")
      BY <1>19, <2>2 DEF Crash
    <3>5. updates' = updates \/ grown("other")
      BY <1>6, <3>2, <3>3, <3>4
    <3> QED BY <1>3, <1>4, <1>19, <3>5 DEF Crash
  <2> QED BY <2>1, <2>2
<1>20. CASE Reload \/ Close \/ CloseEnds \/ vars' = vars
  BY <1>3, <1>20 DEF Reload, Close, CloseEnds, vars
<1>21. ASSUME NEW s \in Servers, Toggle(s) \/ Reconnect(s) \/ Recover(s) PROVE UpdateInv'
  BY <1>3, <1>21 DEF Toggle, Reconnect, Recover
<1>22. ASSUME NEW r \in Runs, RunStarts(r) \/ RunEnds(r) PROVE UpdateInv'
  BY <1>3, <1>22 DEF RunStarts, RunEnds
<1>23. CASE Refused
  BY <1>2, <1>3, <1>23 DEF Refused, awaiting
<1> QED BY <1>9, <1>10, <1>11, <1>12, <1>13, <1>14, <1>15, <1>16, <1>17, <1>18, <1>19, <1>20,
           <1>21, <1>22, <1>23 DEF Next

-----------------------------------------------------------------------------
(* Connections are made and closed, and never opened again.                 *)

kept(new) ==
  \A c \in Conn : /\ new[c].server = conns[c].server
                  /\ new[c].state = conns[c].state \/ new[c].state \in {"dead", "closed"}
                  /\ conns[c].state = "closed" => new[c].state = "closed"

outlast(old, new) ==
  /\ Len(new) = Len(old)
  /\ \A d \in 1 .. Len(old) : /\ new[d].server = old[d].server
                              /\ new[d] = old[d] \/ new[d].state = "closed"

LEMMA RetireOutlasts ==
  ASSUME TypeOK, NEW all \in Seq(Entry), Len(conns) <= Len(all),
         NEW cs \in SUBSET (1 .. Len(all)), retire(cs, all)
  PROVE  outlast(all, conns')
<1>1. Len(conns') = Len(all)
  BY RetireFacts
<1>2. ASSUME NEW d \in 1 .. Len(all)
      PROVE  /\ conns'[d].server = all[d].server
             /\ conns'[d] = all[d] \/ conns'[d].state = "closed"
  BY RetireFacts
<1> QED BY <1>1, <1>2 DEF outlast

LEMMA ConnsStep ==
  ASSUME Inv, [Next]_vars
  PROVE  kept(conns') /\ Conn \subseteq Conn'
<1> USE DEF published, watching, queued, work, switches, history, pools, recovery
<1>0. TypeOK /\ JobInv /\ OwnInv
  BY DEF Inv, ConnInv
<1>1. conns \in Seq(Entry) /\ Len(conns) \in Nat
  BY <1>0, MadeFacts
<1>2. \A c \in Conn : conns[c] \in Entry
  BY <1>1, ElementOfSeq DEF Conn
<1>3. ASSUME conns' = conns PROVE kept(conns') /\ Conn \subseteq Conn'
  BY <1>3 DEF kept, Conn
<1>4. ASSUME NEW cs, conns' = closed(cs, conns) PROVE kept(conns') /\ Conn \subseteq Conn'
  <2>1. \A c \in Conn : /\ conns'[c].server = conns[c].server
                        /\ conns'[c].state = "closed" \/ conns'[c] = conns[c]
    BY <1>1, <1>4, ClosedFacts DEF Conn
  <2>2. Len(conns') = Len(conns)
    BY <1>1, <1>4, ClosedFacts
  <2> QED BY <2>1, <2>2 DEF kept, Conn
<1>5. ASSUME NEW j \in Job, j.request \in Request, NEW c, NEW all \in Seq(Entry),
             Len(conns) <= Len(all), \A d \in Conn : all[d] = conns[d],
             j.displaced \in 0 .. Len(all), publish(j, c, all)
      PROVE  kept(conns') /\ Conn \subseteq Conn'
  <2> DEFINE cs == IF j.request.kind \in Reloads THEN members(pool) ELSE {j.displaced} \ {NoConn}
  <2>1. Len(all) \in Nat
    BY LenProperties
  <2>2. Conn \subseteq 1 .. Len(all)
    BY <1>1, <1>5, <2>1 DEF Conn
  <2>3. cs \subseteq 1 .. Len(all)
    <3>1. {j.displaced} \ {NoConn} \subseteq 1 .. Len(all)
      BY <1>5, <2>1 DEF NoConn
    <3>2. members(pool) \subseteq 1 .. Len(all)
      BY <1>0, <2>2, MadeFacts
    <3> QED BY <3>1, <3>2
  <2>4. retire(cs, all)
    BY <1>5 DEF publish, publishReload, publishReconnect
  <2> HIDE DEF cs
  <2>5. outlast(all, conns')
    <3>1. TypeOK /\ all \in Seq(Entry) /\ Len(conns) <= Len(all)
      BY <1>0, <1>5
    <3>2. cs \in SUBSET (1 .. Len(all))
      BY <2>3
    <3> QED BY ONLY <2>4, <3>1, <3>2, RetireOutlasts
  <2>6. Conn' = 1 .. Len(all) /\ \A d \in Conn : all[d] = conns[d]
    BY <1>5, <2>5 DEF Conn, outlast
  <2>7. \A d \in Conn : /\ conns'[d].server = conns[d].server
                        /\ conns'[d] = conns[d] \/ conns'[d].state = "closed"
    BY <2>2, <2>5, <2>6 DEF outlast
  <2> QED BY <2>2, <2>6, <2>7 DEF kept
<1>6. job \in Job /\ job.displaced \in 0 .. Len(conns)
  BY <1>0, MadeFacts DEF TypeOK
<1>7. CASE UpdateDone
  <2>1. CASE head.by = "job" /\ job.at = "publishing"
    <3>1. publish(job, pool[subject], conns)
      BY <1>7, <2>1 DEF UpdateDone, jobGoesOn
    <3>2. job.request \in Request
      BY <1>0, <2>1, Idle, AtWork
    <3> QED BY <1>1, <1>5, <1>6, <3>1, <3>2
  <2>2. CASE head.by = "job" /\ job.at # "publishing"
    BY <1>3, <1>7, <2>2 DEF UpdateDone, jobGoesOn
  <2>3. CASE head.by # "job"
    BY <1>3, <1>7, <2>3 DEF UpdateDone
  <2> QED BY <2>1, <2>2, <2>3
<1>8. CASE Flush
  <2>1. conns' = conns \/ publish(job, NoConn, conns)
    BY <1>8 DEF Flush
  <2>2. job.request \in Request
    BY <1>0, <1>8, Idle, AtWork DEF Flush, flushing
  <2> QED BY <1>1, <1>3, <1>5, <1>6, <2>1, <2>2
<1>9. ASSUME NEW s \in Servers, Connected(s) PROVE kept(conns') /\ Conn \subseteq Conn'
  <2>1. conns' = longer(s) \/ publish(joined(s), newest, longer(s))
    BY <1>0, <1>9, ConnectedFacts DEF ConnectedReloading, ConnectedAgain, ConnectedInVain, joined
  <2>2. CASE conns' = longer(s)
    <3>1. Len(conns') = Len(conns) + 1 /\ \A d \in Conn : conns'[d] = conns[d]
      BY <1>0, <1>9, <2>2, ConnectedFacts
    <3> QED BY <1>1, <3>1 DEF kept, Conn
  <2>3. CASE publish(joined(s), newest, longer(s))
    <3>1. /\ longer(s) \in Seq(Entry) /\ joined(s) \in Job /\ joined(s).request \in Request
          /\ Len(conns) <= Len(longer(s)) /\ \A d \in Conn : longer(s)[d] = conns[d]
          /\ joined(s).displaced \in 0 .. Len(longer(s))
      BY <1>0, <1>9, ConnectedFacts
    <3> QED BY <1>5, <2>3, <3>1
  <2> QED BY <2>1, <2>2, <2>3
<1>10. CASE Failed
  BY <1>4, <1>10 DEF Failed
<1>11. ASSUME NEW c \in Conn, Crash(c) PROVE kept(conns') /\ Conn \subseteq Conn'
  <2>1. conns' = [conns EXCEPT ![c].state = "dead"] /\ conns[c].state = "open"
    BY <1>11 DEF Crash, isOpen
  <2>2. [conns[c] EXCEPT !.state = "dead"] \in Entry
    BY <1>2 DEF Entry
  <2>3. Len(conns') = Len(conns) /\ \A d \in Conn \ {c} : conns'[d] = conns[d]
    BY <1>1, <2>1, <2>2, ExceptSeq DEF Conn
  <2>4. conns'[c].state = "dead" /\ conns'[c].server = conns[c].server
    BY <1>1, <1>2, <2>1, <2>2, ExceptSeq DEF Conn, Entry
  <2> QED BY <2>1, <2>3, <2>4 DEF kept, Conn
<1>12. ASSUME NEW r \in Runs, RunEnds(r) PROVE kept(conns') /\ Conn \subseteq Conn'
  BY <1>4, <1>12 DEF RunEnds
<1>13. CASE CloseEnds
  BY <1>4, <1>13 DEF CloseEnds
<1>14. CASE UpdateFails \/ DrainPending \/ BeginJob \/ Reload \/ ReloadSkills \/ Close \/ vars' = vars
  BY <1>3, <1>14 DEF UpdateFails, DrainPending, BeginJob, Reload, ReloadSkills, Close, vars
<1>15. ASSUME NEW s \in Servers, ConnectFails(s) \/ Toggle(s) \/ ToggleSkill(s) \/ Reconnect(s) \/ Recover(s)
       PROVE  kept(conns') /\ Conn \subseteq Conn'
  BY <1>3, <1>15 DEF ConnectFails, Toggle, ToggleSkill, Reconnect, Recover
<1>16. ASSUME NEW r \in Runs, RunStarts(r) PROVE kept(conns') /\ Conn \subseteq Conn'
  BY <1>3, <1>16 DEF RunStarts
<1>17. CASE Refused
  BY <1>4, <1>17 DEF Refused
<1> QED BY <1>7, <1>8, <1>9, <1>10, <1>11, <1>12, <1>13, <1>14, <1>15, <1>16, <1>17 DEF Next

(* Tools that are published have been made.                                 *)
LEMMA ToolsStep == Inv /\ [Next]_vars => ToolsInv'
<1> SUFFICES ASSUME Inv, [Next]_vars PROVE ToolsInv'
  OBVIOUS
<1> USE DEF published, watching, queued, work, switches, history, pools, recovery
<1>0. TypeOK /\ JobInv /\ OwnInv /\ ToolsInv
  BY DEF Inv, ConnInv
<1>1. Conn \subseteq Conn' /\ Len(updates) \in Nat
  BY <1>0, ConnsStep, LenProperties DEF TypeOK
<1> DEFINE made(tools) == members(tools) \subseteq Conn'
<1>2. /\ made(table) /\ made(graph) /\ made(job.tools) /\ made(job.fresh)
      /\ \A tools \in pending : made(tools)
      /\ \A i \in 1 .. Len(updates) : made(updates[i].tools)
  BY <1>0, <1>1, MadeFacts DEF ToolsInv, within
<1>3. ASSUME made(table'), made(graph'), made(job'.tools), \A tools \in pending' : made(tools),
             \A i \in 1 .. Len(updates') : made(updates'[i].tools)
      PROVE  ToolsInv'
  BY <1>3 DEF ToolsInv, within
<1>4. ASSUME NEW tools \in Tools, NEW life \in Lifecycle, NEW by \in {"job", "drain", "other"},
             apply(tools, life, by), made(tools)
      PROVE  made(table') /\ \A i \in 1 .. Len(updates') : made(updates'[i].tools)
  <2>1. CASE unchanged(tools, life)
    BY <1>2, <1>4, <2>1 DEF apply
  <2>2. CASE ~unchanged(tools, life)
    <3>1. /\ table' = table /\ Len(updates') = Len(updates) + 1
          /\ \A i \in 1 .. Len(updates) : updates'[i] = updates[i]
          /\ updates'[Len(updates) + 1].tools = tools
      BY <1>0, <1>4, <2>2, ApplyFacts
    <3>2. \A i \in 1 .. Len(updates') : i \in 1 .. Len(updates) \/ i = Len(updates) + 1
      BY <1>1, <3>1
    <3> QED BY <1>2, <1>4, <3>1, <3>2
  <2> QED BY <2>1, <2>2
<1>5. ASSUME NEW tools \in Tools, NEW print \in Readiness, NEW by \in {"job", "drain", "other"},
             NEW skill \in SUBSET Servers, enqueue(tools, print, by, skill), made(tools)
      PROVE  \A i \in 1 .. Len(updates') : made(updates'[i].tools)
  <2>1. /\ Len(updates') = Len(updates) + 1
        /\ \A i \in 1 .. Len(updates) : updates'[i] = updates[i]
        /\ updates'[Len(updates) + 1].tools = tools
    BY <1>0, <1>5, EnqueueFacts
  <2>2. \A i \in 1 .. Len(updates') : i \in 1 .. Len(updates) \/ i = Len(updates) + 1
    BY <1>1, <2>1
  <2> QED BY <1>2, <1>5, <2>1, <2>2
<1>6. ASSUME updates # <<>>, updates' = Tail(updates)
      PROVE  made(head.tools) /\ \A i \in 1 .. Len(updates') : made(updates'[i].tools)
  BY <1>0, <1>2, <1>6, HeadFacts
<1>7. table \in Tools /\ lifecycle \in Lifecycle /\ pending \subseteq Tools
      /\ job.fresh \in Tools /\ job.tools \in Tools
  BY <1>0, JobFields DEF TypeOK
<1>8. made(NoJob.tools) /\ made(none)
  BY Typed, NoJobTyped
<1>9. ASSUME NEW at PROVE [job EXCEPT !.at = at].tools = job.tools
  BY <1>0 DEF TypeOK, Job
<1> HIDE DEF made
<1>10. CASE UpdateDone
  <2>1. made(head.tools) /\ \A i \in 1 .. Len(updates') : made(updates'[i].tools)
    BY <1>6, <1>10 DEF UpdateDone
  <2>2. job' = job \/ job' = NoJob \/ job' = [job EXCEPT !.at = "connecting"]
    BY <1>10 DEF UpdateDone, jobGoesOn, publish, publishReload, publishReconnect, giveUp
  <2> QED BY <1>2, <1>3, <1>8, <1>9, <1>10, <2>1, <2>2 DEF UpdateDone
<1>11. CASE UpdateFails
  <2>1. \A i \in 1 .. Len(updates') : made(updates'[i].tools)
    BY <1>6, <1>11 DEF UpdateFails
  <2>2. job' = job \/ job' = NoJob \/ job' = [job EXCEPT !.at = "failed"]
    BY <1>11 DEF UpdateFails, giveUp
  <2> QED BY <1>2, <1>3, <1>8, <1>9, <1>11, <2>1, <2>2 DEF UpdateFails
<1>12. CASE DrainPending
  <2>1. made(table') /\ \A i \in 1 .. Len(updates') : made(updates'[i].tools)
    <3>1. CASE pending = {}
      BY <1>2, <1>12, <3>1 DEF DrainPending
    <3>2. CASE pending # {}
      <4>1. PICK tools \in pending : apply(tools, lifecycle, "drain")
        BY <1>12, <3>2 DEF DrainPending
      <4> QED BY <1>2, <1>4, <1>7, <4>1
    <3> QED BY <3>1, <3>2
  <2> QED BY <1>2, <1>3, <1>12, <2>1 DEF DrainPending
<1>13. CASE BeginJob
  <2>1. /\ job'.tools = table \/ job' = job
        /\ graph' = graph /\ pending' = pending
    BY <1>13 DEF BeginJob, BeginReload, BeginReconnect, BeginNothing, begin, NoJob
  <2>2. made(table') /\ \A i \in 1 .. Len(updates') : made(updates'[i].tools)
    <3>1. CASE BeginReload(Head(jobs))
      <4> DEFINE life == [s \in Servers |-> IF s \in enabled THEN "loading" ELSE "disabled"]
      <4>1. life \in Lifecycle
        BY <1>0 DEF Lifecycle, Statuses, TypeOK
      <4>2. apply(none, life, "job")
        BY <3>1 DEF BeginReload
      <4> QED BY <1>4, <1>8, <4>1, <4>2, Typed
    <3>2. CASE BeginReconnect(Head(jobs)) \/ BeginNothing(Head(jobs))
      BY <1>2, <3>2 DEF BeginReconnect, BeginNothing
    <3> QED BY <1>13, <3>1, <3>2 DEF BeginJob
  <2> QED BY <1>2, <1>3, <2>1, <2>2
<1>14. CASE Flush
  <2>1. made(table') /\ \A i \in 1 .. Len(updates') : made(updates'[i].tools)
    <3>1. \/ UNCHANGED published \/ apply(job.fresh, lifecycle, "job")
          \/ rebuild(job.fresh, lifecycle, "job")
      BY <1>14 DEF Flush
    <3>2. CASE rebuild(job.fresh, lifecycle, "job")
      <4>1. readiness(skills, lifecycle, job.fresh) \in Readiness
        BY <1>7, ReadinessTyped
      <4> QED BY <1>2, <1>5, <1>7, <3>2, <4>1 DEF rebuild
    <3> QED BY <1>2, <1>4, <1>7, <3>1, <3>2
  <2>2. job' = [job EXCEPT !.at = "failed"] \/ job' = [job EXCEPT !.at = "publishing"] \/ job' = NoJob
    BY <1>14 DEF Flush, publish, publishReload, publishReconnect
  <2> QED BY <1>2, <1>3, <1>8, <1>9, <1>14, <2>1, <2>2 DEF Flush
<1>15. CASE Failed
  <2> DEFINE life == IF isReload THEN job.lifecycle
                     ELSE [lifecycle EXCEPT ![subject] = job.lifecycle[subject]]
  <2>1. life \in Lifecycle
    <3>1. job # NoJob /\ job.lifecycle \in Lifecycle
      BY <1>0, <1>15, Idle, JobFields DEF Failed
    <3>2. isReload \/ subject \in Servers
      BY <1>0, <3>1, AtWork
    <3> QED BY <1>7, <3>1, <3>2 DEF Lifecycle
  <2>2. apply(job.tools, life, "job")
    BY <1>15 DEF Failed
  <2>3. made(table') /\ \A i \in 1 .. Len(updates') : made(updates'[i].tools)
    BY <1>2, <1>4, <1>7, <2>1, <2>2
  <2>4. job' = [job EXCEPT !.at = "restoring"] \/ job' = NoJob
    BY <1>15 DEF Failed, giveUp
  <2> QED BY <1>2, <1>3, <1>8, <1>9, <1>15, <2>3, <2>4 DEF Failed
<1>16. ASSUME NEW s \in Servers, Connected(s) PROVE ToolsInv'
  <2>1. \/ ConnectedReloading(s, newest, longer(s)) \/ ConnectedAgain(s, newest, longer(s))
        \/ ConnectedInVain(s, newest, longer(s))
    BY <1>0, <1>16, ConnectedFacts
  <2>2. newest \in Conn' /\ newest \in 0 .. MaxConns
    <3>1. /\ newest \in 0 .. MaxConns /\ longer(s) \in Seq(Entry) /\ joined(s) \in Job
          /\ Len(longer(s)) = newest /\ Len(conns) <= Len(longer(s)) /\ newest \in 1 .. newest
          /\ joined(s).request \in Request /\ joined(s).displaced \in 0 .. Len(longer(s))
          /\ members(pool) \subseteq 1 .. Len(longer(s))
          /\ members(joined(s).fresh) \subseteq 1 .. Len(longer(s))
      BY <1>0, <1>16, ConnectedFacts
    <3>2. CASE conns' = longer(s)
      BY <3>1, <3>2 DEF Conn
    <3>3. CASE publish(joined(s), newest, longer(s))
      BY <1>0, <3>1, <3>3, PublishFacts
    <3>4. conns' = longer(s) \/ publish(joined(s), newest, longer(s))
      BY <2>1 DEF ConnectedReloading, ConnectedAgain, ConnectedInVain, joined
    <3> QED BY <3>1, <3>2, <3>3, <3>4
  <2>3. ASSUME NEW tools \in Tools, made(tools)
        PROVE  [tools EXCEPT ![s] = newest] \in Tools /\ made([tools EXCEPT ![s] = newest])
    <3>1. members([tools EXCEPT ![s] = newest]) \subseteq members(tools) \cup {newest}
      BY <2>2, WithFacts
    <3> QED BY <2>2, <2>3, <3>1, WithFacts DEF made
  <2>4. CASE ConnectedReloading(s, newest, longer(s))
    <3>1. /\ pending' = {[job.fresh EXCEPT ![s] = newest]} /\ table' = table /\ updates' = updates
      BY <2>4 DEF ConnectedReloading, queueMcpCapabilities
    <3>2. job'.tools = job.tools
      BY <1>0, <2>4 DEF ConnectedReloading, TypeOK, Job
    <3> QED BY <1>2, <1>3, <1>7, <1>16, <2>3, <3>1, <3>2 DEF Connected
  <2>5. CASE ConnectedAgain(s, newest, longer(s))
    <3> DEFINE life  == [lifecycle EXCEPT ![s] = "connected"]
    <3>1. life \in Lifecycle
      BY <1>7 DEF Lifecycle, Statuses
    <3>2. apply([job.tools EXCEPT ![s] = newest], life, "job") /\ pending' = pending
      BY <2>5 DEF ConnectedAgain
    <3>3. job'.tools = job.tools \/ job' = NoJob
      BY <1>0, <2>5 DEF ConnectedAgain, publish, publishReload, publishReconnect, TypeOK, Job
    <3>4. made(table') /\ \A i \in 1 .. Len(updates') : made(updates'[i].tools)
      BY <1>2, <1>4, <1>7, <2>3, <3>1, <3>2
    <3> QED BY <1>2, <1>3, <1>8, <1>16, <3>2, <3>3, <3>4 DEF Connected
  <2>6. CASE ConnectedInVain(s, newest, longer(s))
    <3>1. job'.tools = job.tools /\ UNCHANGED <<table, updates, pending>>
      BY <1>0, <2>6 DEF ConnectedInVain, TypeOK, Job
    <3> QED BY <1>2, <1>3, <1>16, <3>1 DEF Connected
  <2> QED BY <2>1, <2>4, <2>5, <2>6
<1>17. ASSUME NEW s \in Servers, ConnectFails(s) PROVE ToolsInv'
  <2>1. \A tools \in pending' : made(tools)
    <3>1. pending # {} => (CHOOSE p \in pending : TRUE) \in pending
      OBVIOUS
    <3> QED BY <1>2, <1>17, <3>1 DEF ConnectFails, queueMcpCapabilities
  <2>2. job'.tools = job.tools \/ job' = NoJob
    BY <1>0, <1>17 DEF ConnectFails, TypeOK, Job
  <2> QED BY <1>2, <1>3, <1>8, <1>17, <2>1, <2>2 DEF ConnectFails
<1>18. ASSUME NEW s \in Servers, ToggleSkill(s) PROVE ToolsInv'
  <2>1. \A i \in 1 .. Len(updates') : made(updates'[i].tools)
    <3>1. readiness(skills', lifecycle, table) \in Readiness
      BY <1>7, ReadinessTyped
    <3> QED BY <1>2, <1>5, <1>7, <1>18, <3>1 DEF ToggleSkill
  <2> QED BY <1>2, <1>3, <1>18, <2>1 DEF ToggleSkill
<1>19. ASSUME NEW c \in Conn, Crash(c) PROVE ToolsInv'
  <2> DEFINE s    == conns[c].server
             life == [lifecycle EXCEPT ![s] = "crashed"]
  <2>1. made(table') /\ \A i \in 1 .. Len(updates') : made(updates'[i].tools)
    <3>1. CASE watched[s] # c
      BY <1>2, <1>19, <3>1 DEF Crash
    <3>2. CASE watched[s] = c
      <4>1. conns[c] \in Entry
        <5>1. conns \in Seq(Entry)
          BY <1>0, MadeFacts
        <5> QED BY <5>1, ElementOfSeq DEF Conn
      <4>2. s \in Servers
        BY <4>1 DEF Entry
      <4>3. [table EXCEPT ![s] = NoConn] \in Tools /\ made([table EXCEPT ![s] = NoConn])
        <5>1. members([table EXCEPT ![s] = NoConn]) \subseteq members(table)
          BY <1>7, <4>2, WithFacts, Typed
        <5> QED BY <1>2, <1>7, <4>2, <5>1, WithFacts, Typed DEF made
      <4>4. life \in Lifecycle
        BY <1>7, <4>2 DEF Lifecycle, Statuses
      <4>5. apply([table EXCEPT ![s] = NoConn], life, "other")
        BY <1>19, <3>2 DEF Crash
      <4> QED BY <1>4, <4>3, <4>4, <4>5
    <3> QED BY <3>1, <3>2
  <2> QED BY <1>2, <1>3, <1>19, <2>1 DEF Crash
<1>20. CASE Reload \/ Close \/ CloseEnds \/ vars' = vars
  BY <1>2, <1>3, <1>20 DEF Reload, Close, CloseEnds, vars
<1>21. ASSUME NEW s \in Servers, Toggle(s) \/ Reconnect(s) \/ Recover(s) PROVE ToolsInv'
  BY <1>2, <1>3, <1>21 DEF Toggle, Reconnect, Recover
<1>22. ASSUME NEW r \in Runs, RunStarts(r) \/ RunEnds(r) PROVE ToolsInv'
  BY <1>2, <1>3, <1>22 DEF RunStarts, RunEnds
<1>23. CASE ReloadSkills
  <2>1. \A i \in 1 .. Len(updates') : made(updates'[i].tools)
    <3>1. readiness(skills, lifecycle, table) \in Readiness
      BY <1>7, ReadinessTyped
    <3> QED BY <1>2, <1>5, <1>7, <1>23, <3>1 DEF ReloadSkills, rebuild
  <2> QED BY <1>2, <1>3, <1>23, <2>1 DEF ReloadSkills, rebuild
<1>24. CASE Refused
  BY <1>2, <1>3, <1>8, <1>24 DEF Refused
<1> QED BY <1>10, <1>11, <1>12, <1>13, <1>14, <1>15, <1>16, <1>17, <1>18, <1>19, <1>20, <1>21,
           <1>22, <1>23, <1>24 DEF Next

(* After close() nothing is left, and nothing starts again.                 *)
LEMMA CloseStep == Inv /\ [Next]_vars => CloseInv'
<1> SUFFICES ASSUME Inv, [Next]_vars PROVE CloseInv'
  OBVIOUS
<1> USE DEF published, watching, queued, work, switches, history, pools, recovery
<1>0. TypeOK /\ JobInv /\ OwnInv /\ UpdateInv /\ LeakInv /\ CloseInv
  BY DEF Inv, ConnInv
<1>1. kept(conns') /\ Conn \subseteq Conn'
  BY ConnsStep
<1>2. Len(conns) \in Nat /\ NoJob.at = "idle" /\ NoJob.todo = {}
  BY <1>0, MadeFacts, NoJobTyped
<1>3. ASSUME closing' = closing, closing # "no" => timers' = timers,
             closing = "closed" => jobs' = jobs /\ job' = job /\ retiring' = retiring /\ holding' = holding
                                   /\ Len(conns') = Len(conns) /\ orphans' = orphans
      PROVE  CloseInv'
  <2>1. closing' # "no" => timers' = {}
    BY <1>0, <1>3 DEF CloseInv
  <2>2. CASE closing = "closed"
    <3>1. jobs' = <<>> /\ job' = NoJob /\ retiring' = {} /\ busy' = {}
      BY <1>0, <1>3, <2>2 DEF CloseInv, busy
    <3>2. \A c \in Conn' : conns'[c].state = "open" => c \in orphans'
      BY <1>0, <1>1, <1>3, <2>2 DEF CloseInv, kept, isOpen, Conn
    <3> QED BY <2>1, <3>1, <3>2 DEF CloseInv, isOpen
  <2>3. CASE closing # "closed"
    BY <1>3, <2>1, <2>3 DEF CloseInv
  <2> QED BY <2>2, <2>3
<1>4. CASE Close
  BY <1>4 DEF Close, CloseInv
<1>5. CASE CloseEnds
  <2>1. conns \in Seq(Entry) /\ conns' = closed(members(pool), conns)
    BY <1>0, <1>5, MadeFacts DEF CloseEnds
  <2>2. Conn' = Conn /\ \A c \in Conn : c \in members(pool) => conns'[c].state = "closed"
    BY <2>1, ClosedFacts DEF Conn
  <2>3. inJob = {} /\ inRetirement = {}
    BY <1>5 DEF CloseEnds, inJob, inRetirement
  <2>4. orphans' = orphans /\ \A c \in Conn : conns'[c].state = "open" => c \in orphans
    BY <1>0, <1>1, <1>5, <2>2, <2>3 DEF LeakInv, kept, isOpen, CloseEnds
  <2>5. jobs' = <<>> /\ job' = NoJob /\ retiring' = {} /\ busy' = {} /\ timers' = {}
    BY <1>0, <1>5 DEF CloseEnds, CloseInv, busy
  <2> QED BY <2>2, <2>4, <2>5 DEF CloseInv, isOpen
<1>6. closing = "closed" => /\ job = NoJob /\ jobs = <<>> /\ busy = {} /\ timers = {}
                            /\ \A c \in Conn : isOpen(c) => c \in orphans
  BY <1>0 DEF CloseInv
<1>7. CASE UpdateDone \/ UpdateFails
  <2>1. head.by = "job" => job.at # "idle"
    <3>1. updates # <<>> /\ updates' = Tail(updates)
      BY <1>7 DEF UpdateDone, UpdateFails
    <3>2. head = updates[1] /\ 1 \in 1 .. Len(updates)
      BY <1>0, <3>1, HeadFacts
    <3> QED BY <1>0, <3>2 DEF UpdateInv
  <2>2. closing = "closed" => head.by # "job"
    BY <1>2, <1>6, <2>1
  <2>3. closing = "closed" => /\ jobs' = jobs /\ job' = job /\ retiring' = retiring
                              /\ conns' = conns /\ orphans' = orphans
    BY <1>2, <1>6, <1>7, <2>2 DEF UpdateDone, UpdateFails, flushing
  <2> QED BY <1>3, <1>7, <2>3 DEF UpdateDone, UpdateFails
<1>8. CASE BeginJob \/ Flush \/ Failed \/ Refused
  <2>1. closing # "closed"
    BY <1>2, <1>6, <1>8 DEF BeginJob, Flush, flushing, Failed, Refused
  <2> QED BY <1>3, <1>8, <2>1 DEF BeginJob, Flush, Failed, Refused
<1>9. ASSUME NEW s \in Servers, Connected(s) \/ ConnectFails(s) PROVE CloseInv'
  <2>1. closing # "closed"
    BY <1>2, <1>6, <1>9 DEF Connected, ConnectFails, connecting
  <2> QED BY <1>3, <1>9, <2>1 DEF Connected, ConnectFails
<1>10. CASE Reload \/ ReloadSkills \/ DrainPending \/ vars' = vars
  BY <1>3, <1>10 DEF Reload, ReloadSkills, DrainPending, request, vars
<1>11. ASSUME NEW s \in Servers, Toggle(s) \/ ToggleSkill(s) \/ Reconnect(s) PROVE CloseInv'
  BY <1>3, <1>11 DEF Toggle, ToggleSkill, Reconnect, request
<1>12. ASSUME NEW s \in Servers, Recover(s) PROVE CloseInv'
  <2>1. closing = "no"
    BY <1>0, <1>12 DEF Recover, CloseInv
  <2> QED BY <1>3, <1>12, <2>1 DEF Recover
<1>13. ASSUME NEW c \in Conn, Crash(c) PROVE CloseInv'
  <2>1. Len(conns') = Len(conns)
    <3>1. conns \in Seq(Entry) /\ conns' = [conns EXCEPT ![c].state = "dead"]
      BY <1>0, <1>13, MadeFacts DEF Crash
    <3>2. conns[c] \in Entry
      BY <3>1, ElementOfSeq DEF Conn
    <3>3. [conns[c] EXCEPT !.state = "dead"] \in Entry
      BY <3>2 DEF Entry
    <3> QED BY <3>1, <3>3, ExceptSeq DEF Conn
  <2> QED BY <1>3, <1>13, <2>1 DEF Crash
<1>14. ASSUME NEW r \in Runs, RunStarts(r) \/ RunEnds(r) PROVE CloseInv'
  <2>1. closing # "closed"
    BY <1>6, <1>14 DEF RunStarts, RunEnds, busy
  <2> QED BY <1>3, <1>14, <2>1 DEF RunStarts, RunEnds
<1> QED BY <1>4, <1>5, <1>7, <1>8, <1>9, <1>10, <1>11, <1>12, <1>13, <1>14 DEF Next

-----------------------------------------------------------------------------
(* Who owns a connection. *)

LEMMA OwnFacts ==
  ASSUME Inv
  PROVE  /\ inRetirement \subseteq Conn /\ members(pool) \subseteq Conn /\ inJob \subseteq Conn
         /\ job = NoJob => inJob = {}
         /\ reloading => inJob = members(job.fresh) /\ members(job.fresh) \cap members(pool) = {}
         /\ \A s, t \in Servers : pool[s] = pool[t] /\ pool[s] # NoConn => s = t
<1>0. TypeOK /\ JobInv /\ OwnInv
  BY DEF Inv, ConnInv
<1>1. inRetirement \subseteq Conn
  BY <1>0 DEF TypeOK, inRetirement
<1>2. members(pool) \subseteq Conn /\ members(job.fresh) \subseteq Conn /\ job.displaced \in 0 .. Len(conns)
      /\ Len(conns) \in Nat
  BY <1>0, MadeFacts
<1>3. inJob \subseteq Conn
  BY <1>2 DEF inJob, Conn, NoConn
<1>4. reloading => inJob = members(job.fresh) /\ members(job.fresh) \cap members(pool) = {}
  BY <1>0 DEF JobInv, OwnInv, inJob, reloading
<1>5. \A s, t \in Servers : pool[s] = pool[t] /\ pool[s] # NoConn => s = t
  BY <1>0 DEF OwnInv, owns
<1> QED BY <1>1, <1>2, <1>3, <1>4, <1>5 DEF inJob

(* What a reconnect holds: nothing until it has connected, then the         *)
(* connection it took out of the pool, or the one that it put there and     *)
(* that is closed, or one for which there is no pool.                       *)
LEMMA ReconnectFacts ==
  ASSUME Inv, NEW s \in Servers, reconnecting(s), ReconnectInv(s)
  PROVE  /\ ~reloading /\ job # NoJob
         /\ members(job.fresh) = {job.fresh[s]} \ {NoConn}
         /\ job.at = "connecting" => inJob = {} /\ job.todo = {s} /\ job.displaced = NoConn
                                     /\ \A t \in Servers : job.fresh[t] = NoConn
         /\ job.at \in {"publishing", "failed"} =>
              /\ inJob = {job.displaced} \ {NoConn} /\ job.displaced \notin members(pool)
              /\ pool[s] = job.fresh[s] /\ job.fresh[s] # NoConn /\ job.displaced # job.fresh[s]
         /\ job.at = "restoring" => inJob \subseteq members(job.fresh)
         /\ job.at \in {"publishing", "failed", "restoring"} => plugins
         /\ job.at = "refused" => /\ inJob = members(job.fresh) /\ members(job.fresh) # {}
                                  /\ pool = none /\ ~plugins
         /\ job.at \in {"connecting", "publishing", "failed", "restoring", "refused"}
         /\ job.displaced # NoConn => job.displaced \in Conn /\ conns[job.displaced].server = s
<1>0. TypeOK /\ JobInv /\ OwnInv /\ PoolInv
  BY DEF Inv, ConnInv
<1>1. ~reloading /\ job # NoJob /\ job.request.server = {s}
  BY DEF reloading, reconnecting
<1>2. members(job.fresh) = {job.fresh[s]} \ {NoConn}
  BY DEF members, ReconnectInv
<1>3. job.displaced # NoConn => job.displaced \in Conn /\ conns[job.displaced].server = s
  BY <1>0, <1>1 DEF OwnInv
<1>4. job.at \in {"publishing", "failed", "restoring"} => plugins
  BY DEF ReconnectInv
<1>5. CASE job.at = "connecting"
  BY <1>1, <1>2, <1>3, <1>5 DEF ReconnectInv, inJob
<1>6. CASE job.at \in {"publishing", "failed"}
  <2>1. pool[s] = job.fresh[s] /\ job.fresh[s] # NoConn /\ job.displaced # job.fresh[s]
    BY <1>6 DEF ReconnectInv
  <2>2. job.displaced \notin members(pool)
    BY <1>0, <1>3, <2>1 DEF members, OwnInv, owns
  <2>3. pool[s] \in members(pool)
    BY <2>1 DEF members
  <2> QED BY <1>1, <1>2, <1>3, <1>4, <1>6, <2>1, <2>2, <2>3 DEF inJob
<1>7. CASE job.at = "restoring"
  <2>1. {job.displaced} \ {NoConn} \subseteq members(pool)
    BY <1>7 DEF ReconnectInv, members
  <2> QED BY <1>1, <1>2, <1>3, <1>7, <2>1 DEF inJob, ReconnectInv
<1>8. CASE job.at = "refused"
  <2>1. job.fresh[s] # NoConn /\ job.displaced = NoConn /\ ~plugins /\ pool = none
    BY <1>0, <1>8 DEF ReconnectInv, PoolInv
  <2> QED BY <1>1, <1>2, <1>3, <1>8, <2>1, Typed DEF inJob
<1> QED BY <1>5, <1>6, <1>7, <1>8 DEF ReconnectInv

LEMMA ConnQuiet ==
  ASSUME Inv, UNCHANGED <<job, pools, conns, retiring, holding, watched, unoffered, discarded>>,
         closing' = closing \/ (closing' # "closed" /\ closing # "closed")
  PROVE  ConnInv'
<1> USE DEF pools
<1>0. JobInv /\ OwnInv /\ LeakInv /\ WatchInv /\ KeepInv
  BY DEF Inv, ConnInv
<1>1. JobInv'
  BY <1>0 DEF JobInv, reloading, reconnecting, ReconnectInv
<1>2. OwnInv'
  BY <1>0 DEF OwnInv, owns, reloading, Conn
<1>3. inJob' = inJob /\ inRetirement' = inRetirement /\ Conn' = Conn /\ busy' = busy
  BY DEF inJob, inRetirement, Conn, busy
<1>4. LeakInv'
  BY <1>0, <1>3 DEF LeakInv, isOpen
<1>5. WatchInv'
  BY <1>0 DEF WatchInv, noticed, isOpen, reloading, reconnecting
<1>6. KeepInv'
  BY <1>0, <1>3 DEF KeepInv, usable
<1> QED BY <1>1, <1>2, <1>4, <1>5, <1>6 DEF ConnInv

(* The job goes on, and holds what it held.                                 *)
LEMMA ConnSameJob ==
  ASSUME Inv, job # NoJob, job' \in Job, job'.at \in {"connecting", "failed", "publishing"},
         job'.request = job.request, job'.fresh = job.fresh, job'.displaced = job.displaced,
         job'.todo \subseteq job.todo, job.at # "restoring",
         reloading \/ (job.at = "publishing" /\ job'.at = "failed"),
         UNCHANGED <<pools, conns, retiring, holding, watched, unoffered, closing, discarded>>
  PROVE  ConnInv'
<1> USE DEF pools
<1>0. TypeOK /\ JobInv /\ OwnInv /\ LeakInv /\ WatchInv /\ KeepInv
  BY DEF Inv, ConnInv
<1>1. job' # NoJob
  BY NoJobTyped
<1>2. (reloading' <=> reloading) /\ \A s : reconnecting(s)' <=> reconnecting(s)
  BY <1>1 DEF reloading, reconnecting
<1>3. inJob' = inJob /\ inRetirement' = inRetirement /\ Conn' = Conn /\ busy' = busy
  BY <1>1 DEF inJob, inRetirement, Conn, busy
<1>4. JobInv'
  <2>1. reloading' \/ \E s \in Servers : reconnecting(s)' /\ ReconnectInv(s)'
    <3>1. CASE reloading
      BY <1>2, <3>1
    <3>2. CASE ~reloading
      <4>1. PICK s \in Servers : reconnecting(s) /\ ReconnectInv(s)
        BY <1>0, <3>2 DEF JobInv
      <4>2. ReconnectInv(s)'
        BY <3>2, <4>1 DEF ReconnectInv
      <4> QED BY <1>2, <4>1, <4>2
    <3> QED BY <3>1, <3>2
  <2>2. job'.request # <<>>
    BY <1>0, AtWork, NoJobTyped DEF JobInv
  <2>3. reloading' => /\ job'.displaced = NoConn /\ job'.at # "refused"
                      /\ \A s \in job'.todo : job'.fresh[s] = NoConn
    BY <1>0, <1>2 DEF JobInv
  <2> QED BY <2>1, <2>2, <2>3 DEF JobInv
<1>5. OwnInv'
  BY <1>0, <1>2, <1>3 DEF OwnInv, owns
<1>6. LeakInv'
  BY <1>0, <1>3 DEF LeakInv, isOpen
<1>7. WatchInv'
  <2>1. CASE reloading
    BY <1>2, <2>1 DEF WatchInv
  <2>2. CASE ~reloading
    BY <1>0, <1>2, <2>2 DEF WatchInv, noticed, isOpen
  <2> QED BY <2>1, <2>2
<1>8. KeepInv'
  BY <1>0, <1>3 DEF KeepInv, usable
<1> QED BY <1>4, <1>5, <1>6, <1>7, <1>8 DEF ConnInv

(* What holds of any state between two jobs.                                *)
LEMMA ConnNoJob ==
  ASSUME job' = NoJob, owns(pool)', LeakInv',
         \A s \in Servers \ unoffered' : noticed(s, pool[s])', KeepInv'
  PROVE  ConnInv'
<1>1. ~reloading' /\ \A s : ~reconnecting(s)'
  BY DEF reloading, reconnecting
<1>2. JobInv'
  BY <1>1, NoJobTyped DEF JobInv
<1>3. OwnInv'
  BY <1>1, NoJobTyped, Typed DEF OwnInv, owns
<1>4. WatchInv'
  BY <1>1 DEF WatchInv
<1> QED BY <1>2, <1>3, <1>4 DEF ConnInv

(* The job ends and leaves nothing open.                                    *)
LEMMA ConnJobEnds ==
  ASSUME Inv, job' = NoJob, \A c \in inJob : ~isOpen(c), inJob \subseteq discarded,
         UNCHANGED <<pools, conns, retiring, holding, closing, discarded>>,
         \A s \in Servers \ unoffered' : pool[s] # NoConn /\ isOpen(pool[s]) => watched'[s] = pool[s]
  PROVE  ConnInv'
<1> USE DEF pools
<1>0. TypeOK /\ OwnInv /\ LeakInv /\ KeepInv
  BY DEF Inv, ConnInv
<1>1. inJob' = {} /\ inRetirement' = inRetirement /\ Conn' = Conn /\ busy' = busy
  BY DEF inJob, inRetirement, Conn, busy
<1>2. owns(pool)'
  BY <1>0, <1>1 DEF OwnInv, owns
<1>3. LeakInv'
  BY <1>0, <1>1 DEF LeakInv, isOpen
<1>4. KeepInv'
  <2>1. ASSUME NEW r \in busy, NEW c \in holding[r].tools \ holding[r].stale, c \notin discarded
        PROVE  usable(r, c)'
    <3>1. usable(r, c)
      BY <1>0, <2>1 DEF KeepInv
    <3> QED BY <1>1, <2>1, <3>1 DEF usable
  <2> QED BY <1>0, <1>1, <2>1 DEF KeepInv
<1>5. \A s \in Servers \ unoffered' : noticed(s, pool[s])'
  BY DEF noticed, isOpen
<1> QED BY <1>2, <1>3, <1>4, <1>5, ConnNoJob

-----------------------------------------------------------------------------
(* A job whose tools the graph has: the pool takes over and what it loses   *)
(* is retired.                                                              *)
LEMMA ConnRetires ==
  ASSUME Inv, NEW all \in Seq(Entry), Len(conns) <= Len(all),
         \A d \in Conn : all[d] = conns[d],
         \A d \in (1 .. Len(all)) \ Conn : all[d].state = "open" /\ d \in members(pool'),
         NEW cs \in SUBSET Conn, retire(cs, all), job' = NoJob,
         UNCHANGED <<holding, closing, orphans, discarded>>, closing # "closed", job.at # "restoring",
         \A s \in Servers : pool'[s] # NoConn => pool'[s] \in 1 .. Len(all) /\ all[pool'[s]].server = s,
         members(pool) \cup inJob \subseteq members(pool') \cup cs, cs \subseteq members(pool) \cup inJob,
         members(pool') \cap Conn \subseteq members(pool) \cup inJob,
         members(pool') \cap cs = {}, members(pool') \cap inRetirement = {},
         \A s \in Servers \ unoffered' : pool'[s] # NoConn /\ all[pool'[s]].state = "open"
                                         => watched'[s] = pool'[s]
  PROVE  ConnInv'
<1>0. TypeOK /\ OwnInv /\ LeakInv /\ KeepInv
  BY DEF Inv, ConnInv
<1>1. Len(conns) \in Nat /\ Len(all) \in Nat /\ Conn \subseteq 1 .. Len(all)
  <2>1. Len(conns) \in Nat /\ Len(all) \in Nat
    BY <1>0, MadeFacts, LenProperties
  <2> QED BY <2>1 DEF Conn
<1>2. /\ Len(conns') = Len(all)
      /\ \A c \in 1 .. Len(all) :
           /\ conns'[c].server = all[c].server
           /\ conns'[c] = all[c] \/ (c \in cs /\ busy = {} /\ conns'[c].state = "closed")
      /\ \A c \in cs : conns'[c].state = "closed" \/ c \in inRetirement'
      /\ retiring \subseteq retiring'
      /\ \A w \in retiring' \ retiring : w.conns = cs /\ w.until = busy
      /\ inRetirement \subseteq inRetirement' /\ inRetirement' \subseteq inRetirement \cup cs
  <2>1. cs \in SUBSET (1 .. Len(all))
    BY <1>1
  <2> QED BY <1>0, <2>1, RetireFacts
<1>3. Conn' = 1 .. Len(all) /\ inJob' = {} /\ busy' = busy
  BY <1>2 DEF Conn, inJob, busy
<1>4. members(pool') \subseteq 1 .. Len(all)
  BY DEF members
<1>5. owns(pool)'
  BY <1>2, <1>3 DEF owns
<1>6. LeakInv'
  <2>1. ASSUME NEW c \in 1 .. Len(all), conns'[c].state = "open"
        PROVE  c \in members(pool') \cup inRetirement' \cup orphans
    <3>1. CASE c \notin Conn
      BY <3>1
    <3>2. CASE c \in Conn /\ c \in cs
      BY <1>2, <2>1, <3>2
    <3>3. CASE c \in Conn /\ c \notin cs
      <4>1. conns[c].state = "open"
        BY <1>2, <2>1, <3>3
      <4>2. c \in members(pool) \cup inJob \cup inRetirement \cup orphans
        BY <1>0, <3>3, <4>1 DEF LeakInv, isOpen
      <4> QED BY <1>2, <3>3, <4>2
    <3> QED BY <3>1, <3>2, <3>3
  <2>2. inRetirement' \cap members(pool') = {}
    BY <1>2
  <2>3. orphans \cap (members(pool') \cup inRetirement') = {}
    <3>1. orphans \cap (members(pool) \cup inJob \cup inRetirement) = {} /\ orphans \subseteq Conn
      BY <1>0 DEF LeakInv, TypeOK
    <3> QED BY <1>2, <3>1
  <2> QED BY <1>3, <2>1, <2>2, <2>3 DEF LeakInv, isOpen
<1>7. \A s \in Servers \ unoffered' : noticed(s, pool[s])'
  <2>1. ASSUME NEW s \in Servers \ unoffered', pool'[s] # NoConn, conns'[pool'[s]].state = "open"
        PROVE  watched'[s] = pool'[s]
    <3>1. pool'[s] \in 1 .. Len(all)
      BY <2>1
    <3>2. all[pool'[s]].state = "open"
      BY <1>2, <2>1, <3>1
    <3> QED BY <2>1, <3>2
  <2> QED BY <2>1 DEF noticed, isOpen
<1>8. KeepInv'
  <2>1. ASSUME NEW c \in members(pool') PROVE conns'[c].state # "closed"
    <3>1. conns'[c] = all[c]
      BY <1>2, <1>4
    <3>2. CASE c \notin Conn
      BY <1>4, <3>1, <3>2
    <3>3. CASE c \in Conn
      BY <1>0, <2>1, <3>1, <3>3 DEF KeepInv
    <3> QED BY <3>2, <3>3
  <2>2. ASSUME NEW c \in orphans PROVE conns'[c].state # "closed"
    <3>1. c \in Conn /\ c \notin cs /\ conns[c].state # "closed"
      BY <1>0, <2>2 DEF LeakInv, KeepInv, TypeOK
    <3> QED BY <1>1, <1>2, <3>1
  <2>3. ASSUME NEW r \in busy, NEW c \in holding[r].tools \ holding[r].stale, c \notin discarded
        PROVE  /\ c \in members(pool') \cup inRetirement' \cup orphans
               /\ conns'[c].state # "closed"
               /\ \A w \in retiring' : c \in w.conns => r \in w.until
    <3>1. /\ c \in members(pool) \cup inJob \cup inRetirement \cup orphans
          /\ conns[c].state # "closed"
          /\ \A w \in retiring : c \in w.conns => r \in w.until
      BY <1>0, <2>3 DEF KeepInv, usable
    <3>2. c \in Conn
      BY <1>0, <3>1, OwnFacts DEF TypeOK
    <3>3. conns'[c].state # "closed"
      BY <1>1, <1>2, <2>3, <3>1, <3>2
    <3>4. c \in members(pool') \cup inRetirement' \cup orphans
      BY <1>2, <3>1, <3>3
    <3>5. \A w \in retiring' : c \in w.conns => r \in w.until
      BY <1>2, <2>3, <3>1
    <3> QED BY <3>3, <3>4, <3>5
  <2> QED BY <1>3, <2>1, <2>2, <2>3 DEF KeepInv, usable
<1> QED BY <1>5, <1>6, <1>7, <1>8, ConnNoJob

(* A reload swaps the pool.                                                 *)
LEMMA ConnReloadEnds ==
  ASSUME Inv, reloading, job.at # "restoring", NEW c, publish(job, c, conns), plugins',
         UNCHANGED <<holding, closing, discarded>>, closing # "closed"
  PROVE  ConnInv'
<1>0. TypeOK /\ JobInv /\ OwnInv /\ LeakInv
  BY DEF Inv, ConnInv
<1>1. /\ pool' = job.fresh /\ watched' = armed(job.fresh, job.fresh) /\ unoffered' = {}
      /\ retire(members(pool), conns) /\ job' = NoJob /\ orphans' = orphans
  BY DEF publish, publishReload, reloading
<1>2. inJob = members(job.fresh) /\ members(job.fresh) \cap members(pool) = {}
      /\ members(pool) \subseteq Conn /\ members(job.fresh) \subseteq Conn
  BY <1>0, OwnFacts, MadeFacts
<1>3. members(job.fresh) \cap inRetirement = {}
  BY <1>0, <1>2 DEF LeakInv
<1>4. /\ conns \in Seq(Entry) /\ Len(conns) <= Len(conns) /\ (1 .. Len(conns)) \ Conn = {}
  BY <1>0, MadeFacts DEF Conn
<1>5. \A s \in Servers : pool'[s] # NoConn => pool'[s] \in 1 .. Len(conns) /\ conns[pool'[s]].server = s
  BY <1>0, <1>1 DEF OwnInv, owns, Conn
<1>6. \A s \in Servers : pool'[s] # NoConn => watched'[s] = pool'[s]
  BY <1>1 DEF armed
<1> QED BY <1>1, <1>2, <1>3, <1>4, <1>5, <1>6, ConnRetires

(* Without plugins a reload leaves its connections to nobody.               *)
LEMMA ConnReloadEndsBare ==
  ASSUME Inv, reloading, job.at # "restoring", NEW c, publish(job, c, conns), ~plugins',
         UNCHANGED <<holding, closing, discarded>>, closing # "closed"
  PROVE  ConnInv'
<1>0. TypeOK /\ JobInv /\ OwnInv /\ LeakInv /\ KeepInv /\ PoolInv
  BY DEF Inv, ConnInv
<1>1. /\ pool' = pool /\ ~plugins /\ retire(members(pool), conns) /\ job' = NoJob
      /\ orphans' = orphans \cup members(job.fresh)
  BY DEF publish, publishReload, reloading
<1>2. pool = none /\ members(pool) = {} /\ \A s \in Servers : pool[s] = NoConn
  BY <1>0, <1>1, Typed DEF PoolInv
<1>3. conns' = closed({}, conns) /\ retiring' = retiring /\ conns \in Seq(Entry)
  BY <1>0, <1>1, <1>2, MadeFacts DEF retire
<1>4. Len(conns') = Len(conns) /\ \A d \in 1 .. Len(conns) : conns'[d] = conns[d]
  BY <1>3, ClosedFacts
<1>5. /\ inJob' = {} /\ inRetirement' = inRetirement /\ Conn' = Conn /\ busy' = busy
      /\ \A d \in Conn : conns'[d] = conns[d]
  BY <1>1, <1>3, <1>4 DEF inJob, inRetirement, Conn, busy
<1>6. inJob = members(job.fresh) /\ inJob \subseteq Conn
  BY OwnFacts
<1>7. LeakInv'
  BY <1>0, <1>1, <1>2, <1>5, <1>6 DEF LeakInv, isOpen
<1>8. KeepInv'
  <2>1. \A d \in orphans' : conns'[d].state # "closed"
    BY <1>0, <1>1, <1>5, <1>6 DEF KeepInv, TypeOK
  <2>2. ASSUME NEW r \in busy, NEW d \in holding[r].tools \ holding[r].stale, d \notin discarded
        PROVE  usable(r, d)'
    <3>1. usable(r, d)
      BY <1>0, <2>2 DEF KeepInv
    <3>2. d \in orphans' \cup inRetirement /\ d \in Conn
      BY <1>0, <1>1, <1>2, <1>6, <3>1, OwnFacts DEF usable, TypeOK
    <3> QED BY <1>1, <1>3, <1>5, <3>1, <3>2 DEF usable
  <2> QED BY <1>1, <1>2, <1>5, <2>1, <2>2 DEF KeepInv
<1>9. owns(pool)' /\ \A s \in Servers \ unoffered' : noticed(s, pool[s])'
  BY <1>1, <1>2 DEF owns, noticed
<1> QED BY <1>1, <1>7, <1>8, <1>9, ConnNoJob

(* The server of a reconnect is in the pool already.                        *)
LEMMA ConnReconnectEnds ==
  ASSUME Inv, ~reloading, job.at = "publishing", publish(job, pool[subject], conns),
         UNCHANGED <<holding, closing, discarded>>, closing # "closed"
  PROVE  ConnInv'
<1>0. TypeOK /\ JobInv /\ OwnInv /\ LeakInv /\ WatchInv
  BY DEF Inv, ConnInv
<1>1. PICK s \in Servers : reconnecting(s) /\ ReconnectInv(s) /\ subject = s
  BY <1>0, Idle, AtWork
<1>2. job.request.server = {s} /\ job.request.kind \notin Reloads /\ pool \in Tools /\ watched \in Tools
  BY <1>0, <1>1 DEF reconnecting, TypeOK
<1> DEFINE cs == {job.displaced} \ {NoConn}
<1>3. /\ pool' = [pool EXCEPT ![s] = pool[s]] /\ watched' = [watched EXCEPT ![s] = pool[s]]
      /\ unoffered' = unoffered \ {s} /\ retire(cs, conns) /\ job' = NoJob /\ orphans' = orphans
  BY <1>1, <1>2 DEF publish, publishReconnect
<1>4. pool' = pool /\ watched'[s] = pool[s] /\ \A t \in Servers \ {s} : watched'[t] = watched[t]
  BY <1>2, <1>3 DEF Tools
<1>5. inJob = cs /\ job.displaced \notin members(pool) /\ members(pool) \subseteq Conn /\ inJob \subseteq Conn
  BY <1>1, ReconnectFacts, OwnFacts
<1>6. members(pool) \cap inRetirement = {}
  BY <1>0 DEF LeakInv
<1>7. /\ conns \in Seq(Entry) /\ Len(conns) <= Len(conns) /\ (1 .. Len(conns)) \ Conn = {}
  BY <1>0, MadeFacts DEF Conn
<1>8. \A t \in Servers : pool'[t] # NoConn => pool'[t] \in 1 .. Len(conns) /\ conns[pool'[t]].server = t
  BY <1>0, <1>4 DEF OwnInv, owns, Conn
<1>9. ASSUME NEW t \in Servers \ unoffered', pool'[t] # NoConn, conns[pool'[t]].state = "open"
      PROVE  watched'[t] = pool'[t]
  <2>1. CASE t = s
    BY <1>4, <2>1
  <2>2. CASE t # s
    <3>1. t \notin unoffered /\ ~reconnecting(t)
      BY <1>2, <1>3, <1>9, <2>2 DEF reconnecting
    <3>2. noticed(t, pool[t])
      BY <1>0, <1>9, <3>1 DEF WatchInv
    <3> QED BY <1>4, <1>9, <2>2, <3>2 DEF noticed, isOpen
  <2> QED BY <2>1, <2>2
<1>10. /\ cs \in SUBSET Conn /\ members(pool') \cap cs = {} /\ members(pool') \cap inRetirement = {}
       /\ members(pool) \cup inJob \subseteq members(pool') \cup cs
       /\ members(pool') \cap Conn \subseteq members(pool) \cup inJob
       /\ cs \subseteq members(pool) \cup inJob
  BY <1>4, <1>5, <1>6
<1> HIDE DEF cs
<1> QED BY <1>3, <1>7, <1>8, <1>9, <1>10, ConnRetires

(* A reconnect that changes nothing but the connection ends at once.        *)
LEMMA ConnReconnectedAtOnce ==
  ASSUME Inv, NEW s \in Servers, Connected(s), ~reloading, publish(joined(s), newest, longer(s)),
         UNCHANGED <<holding, closing, discarded>>, closing # "closed"
  PROVE  ConnInv'
<1>0. TypeOK /\ JobInv /\ OwnInv /\ LeakInv /\ WatchInv
  BY DEF Inv, ConnInv
<1>1. /\ newest \in 0 .. MaxConns /\ newest = Len(conns) + 1 /\ newest \notin Conn
      /\ newest # NoConn /\ newest \in 1 .. newest
      /\ longer(s) \in Seq(Entry) /\ Len(longer(s)) = newest /\ Len(conns) <= Len(longer(s))
      /\ longer(s)[newest].server = s /\ longer(s)[newest].state = "open"
      /\ \A d \in Conn : longer(s)[d] = conns[d]
      /\ joined(s).request = job.request /\ joined(s).displaced = pool[s]
      /\ job # NoJob /\ job.at = "connecting" /\ s \in job.todo
  BY <1>0, ConnectedFacts
<1>2. reconnecting(s) /\ inJob = {}
  <2>1. PICK t \in Servers : reconnecting(t) /\ ReconnectInv(t)
    BY <1>0, <1>1, AtWork
  <2>2. t = s
    BY <1>1, <2>1, ReconnectFacts
  <2> QED BY <1>1, <2>1, <2>2, ReconnectFacts
<1>3. job.request.server = {s} /\ job.request.kind \notin Reloads /\ pool \in Tools /\ watched \in Tools
  BY <1>0, <1>2 DEF reconnecting, TypeOK
<1> DEFINE cs == {pool[s]} \ {NoConn}
<1>4. /\ pool' = [pool EXCEPT ![s] = newest] /\ watched' = [watched EXCEPT ![s] = newest]
      /\ unoffered' = unoffered \ {s} /\ retire(cs, longer(s)) /\ job' = NoJob
      /\ orphans' = orphans
  BY <1>1, <1>3 DEF publish, publishReconnect
<1>5. /\ pool'[s] = newest /\ watched'[s] = newest
      /\ \A t \in Servers \ {s} : pool'[t] = pool[t] /\ watched'[t] = watched[t]
  BY <1>3, <1>4 DEF Tools
<1>6. members(pool) \subseteq Conn /\ \A t, u \in Servers : pool[t] = pool[u] /\ pool[t] # NoConn => t = u
  BY OwnFacts
<1>7. /\ members(pool) \subseteq members(pool') \cup cs /\ newest \in members(pool')
      /\ members(pool') \subseteq members(pool) \cup {newest}
      /\ cs \subseteq members(pool)
  BY <1>1, <1>5 DEF members
<1>8. members(pool') \cap cs = {}
  <2>1. ASSUME NEW t \in Servers, pool'[t] = pool[s], pool[s] # NoConn PROVE FALSE
    <3>1. pool[s] \in Conn
      BY <1>6, <2>1 DEF members
    <3> QED BY <1>1, <1>5, <1>6, <2>1, <3>1
  <2> QED BY <2>1 DEF members
<1>9. members(pool') \cap inRetirement = {}
  BY <1>0, <1>1, <1>7, OwnFacts DEF LeakInv
<1>10. \A d \in (1 .. Len(longer(s))) \ Conn : d = newest
  <2>1. Len(conns) \in Nat
    BY <1>0, MadeFacts
  <2> QED BY <1>1, <2>1 DEF Conn
<1>11. \A t \in Servers : pool'[t] # NoConn =>
         pool'[t] \in 1 .. Len(longer(s)) /\ longer(s)[pool'[t]].server = t
  <2>1. Conn \subseteq 1 .. Len(longer(s))
    <3>1. Len(conns) \in Nat
      BY <1>0, MadeFacts
    <3> QED BY <1>1, <3>1 DEF Conn
  <2>2. newest \in 1 .. Len(longer(s))
    BY <1>1
  <2>3. \A t \in Servers \ {s} : pool[t] # NoConn => pool[t] \in Conn /\ conns[pool[t]].server = t
    BY <1>0 DEF OwnInv, owns
  <2> TAKE t \in Servers
  <2>4. CASE t = s
    BY <1>1, <1>5, <2>2, <2>4
  <2>5. CASE t # s
    BY <1>1, <1>5, <2>1, <2>3, <2>5
  <2> QED BY <2>4, <2>5
<1>12. ASSUME NEW t \in Servers \ unoffered', pool'[t] # NoConn, longer(s)[pool'[t]].state = "open"
       PROVE  watched'[t] = pool'[t]
  <2>1. CASE t = s
    BY <1>5, <2>1
  <2>2. CASE t # s
    <3>1. t \notin unoffered /\ ~reconnecting(t)
      BY <1>3, <1>4, <1>12, <2>2 DEF reconnecting
    <3>2. noticed(t, pool[t])
      BY <1>0, <1>12, <3>1 DEF WatchInv
    <3>3. pool[t] \in Conn /\ pool[t] = pool'[t]
      BY <1>0, <1>5, <1>12, <2>2 DEF OwnInv, owns
    <3> QED BY <1>1, <1>5, <1>12, <2>2, <3>2, <3>3 DEF noticed, isOpen
  <2> QED BY <2>1, <2>2
<1>13. cs \in SUBSET Conn
  BY <1>6, <1>7
<1>14. /\ members(pool) \cup inJob \subseteq members(pool') \cup cs
       /\ members(pool') \cap Conn \subseteq members(pool) \cup inJob
       /\ \A d \in (1 .. Len(longer(s))) \ Conn : longer(s)[d].state = "open" /\ d \in members(pool')
       /\ cs \subseteq members(pool) \cup inJob /\ job.at # "restoring"
  BY <1>1, <1>2, <1>7, <1>10
<1>15. longer(s) \in Seq(Entry) /\ Len(conns) <= Len(longer(s)) /\ \A d \in Conn : longer(s)[d] = conns[d]
  BY <1>1
<1>16. retire(cs, longer(s)) /\ job' = NoJob /\ orphans' = orphans
  BY <1>4
<1> HIDE DEF cs
<1> QED BY <1>8, <1>9, <1>11, <1>12, <1>13, <1>14, <1>15, <1>16, ConnRetires

-----------------------------------------------------------------------------
(* The steps of a job. *)

(* closed is the end: no job is at work.                                    *)
LEMMA OpenWhileAtWork == ASSUME Inv, job # NoJob PROVE closing # "closed"
BY DEF Inv, CloseInv

(* What restoring leaves behind: nothing that is open.                      *)
LEMMA ConnGivesUp ==
  ASSUME Inv, job.at = "restoring", NEW tools, giveUp(tools),
         UNCHANGED <<pools, conns, retiring, holding, closing, discarded>>
  PROVE  ConnInv'
<1> USE DEF pools
<1>0. TypeOK /\ JobInv /\ OwnInv /\ WatchInv
  BY DEF Inv, ConnInv
<1>1. job # NoJob /\ job' = NoJob
  BY <1>0, Idle DEF giveUp
<1>2. inJob \subseteq members(job.fresh)
  BY <1>0, <1>1, AtWork, OwnFacts, ReconnectFacts
<1>3. inJob \subseteq discarded
  BY <1>0, <1>2 DEF JobInv
<1>4. \A c \in inJob : ~isOpen(c)
  BY <1>0, <1>2 DEF JobInv, isOpen
<1>5. ASSUME NEW s \in Servers \ unoffered', pool[s] # NoConn, isOpen(pool[s])
      PROVE  watched'[s] = pool[s]
  <2>1. CASE isReload
    <3>1. watched' = armed(tools, pool) /\ unoffered' = {t \in Servers : tools[t] = NoConn}
      BY <2>1 DEF giveUp
    <3> QED BY <1>5, <3>1 DEF armed
  <2>2. CASE ~isReload
    <3>1. watched' = watched /\ unoffered' = unoffered
      BY <2>2 DEF giveUp, watching
    <3>2. ~reloading
      BY <1>0, <1>1, <2>2, AtWork
    <3>3. noticed(s, pool[s])
      BY <1>0, <1>5, <3>1, <3>2 DEF WatchInv
    <3> QED BY <1>5, <3>1, <3>3 DEF noticed
  <2> QED BY <2>1, <2>2
<1> QED BY <1>1, <1>3, <1>4, <1>5, ConnJobEnds

LEMMA ConnUpdateDone == Inv /\ UpdateDone => ConnInv'
<1> SUFFICES ASSUME Inv, UpdateDone PROVE ConnInv'
  OBVIOUS
<1> USE DEF published, watching, queued, work, switches, history, pools, recovery
<1>0. TypeOK /\ JobInv /\ UpdateInv
  BY DEF Inv, ConnInv
<1>1. head.by = "job" => job.at \in {"clearing", "publishing", "restoring"}
  <2>1. updates # <<>> /\ updates' = Tail(updates)
    BY DEF UpdateDone
  <2>2. head = updates[1] /\ 1 \in 1 .. Len(updates)
    BY <1>0, <2>1, HeadFacts
  <2> QED BY <1>0, <2>2 DEF UpdateInv
<1>2. UNCHANGED <<holding, closing, discarded>>
  BY DEF UpdateDone
<1>3. CASE head.by # "job"
  BY <1>2, <1>3, ConnQuiet DEF UpdateDone
<1>4. CASE head.by = "job" /\ job.at = "publishing"
  <2>1. publish(job, pool[subject], conns)
    BY <1>4 DEF UpdateDone, jobGoesOn
  <2>2. job # NoJob /\ closing # "closed"
    BY <1>0, <1>4, Idle, OpenWhileAtWork
  <2>3. CASE reloading
    BY <1>2, <1>4, <2>1, <2>2, <2>3, ConnReloadEnds, ConnReloadEndsBare
  <2>4. CASE ~reloading
    BY <1>2, <1>4, <2>1, <2>2, <2>4, ConnReconnectEnds
  <2> QED BY <2>3, <2>4
<1>5. CASE head.by = "job" /\ job.at = "restoring"
  <2>1. giveUp(head.tools) /\ UNCHANGED <<pools, conns, retiring>>
    BY <1>5 DEF UpdateDone, jobGoesOn
  <2> QED BY <1>2, <1>5, <2>1, ConnGivesUp
<1>6. CASE head.by = "job" /\ job.at = "clearing"
  <2>1. /\ job' = [job EXCEPT !.at = "connecting"]
        /\ UNCHANGED <<pools, watched, unoffered, conns, retiring>>
    BY <1>6 DEF UpdateDone, jobGoesOn
  <2>2. job # NoJob
    BY <1>0, <1>6, Idle
  <2>3. reloading
    BY <1>0, <1>6, <2>2, AtWork, ReconnectFacts
  <2>4. /\ job' \in Job /\ job'.at = "connecting" /\ job'.request = job.request
        /\ job'.fresh = job.fresh /\ job'.displaced = job.displaced /\ job'.todo = job.todo
    BY <1>0, <2>1 DEF TypeOK, Job
  <2> QED BY <1>2, <1>6, <2>1, <2>2, <2>3, <2>4, ConnSameJob
<1> QED BY <1>1, <1>3, <1>4, <1>5, <1>6

LEMMA ConnUpdateFails == Inv /\ UpdateFails => ConnInv'
<1> SUFFICES ASSUME Inv, UpdateFails PROVE ConnInv'
  OBVIOUS
<1> USE DEF published, watching, queued, work, switches, history, pools, recovery
<1>0. TypeOK /\ JobInv /\ UpdateInv /\ OwnInv /\ LeakInv /\ WatchInv
  BY DEF Inv, ConnInv
<1>1. head.by = "job" => job.at \in {"clearing", "publishing", "restoring"}
  <2>1. updates # <<>> /\ updates' = Tail(updates)
    BY DEF UpdateFails
  <2>2. head = updates[1] /\ 1 \in 1 .. Len(updates)
    BY <1>0, <2>1, HeadFacts
  <2> QED BY <1>0, <2>2 DEF UpdateInv
<1>2. UNCHANGED <<pools, conns, retiring, holding, closing, discarded>>
  BY DEF UpdateFails
<1>3. CASE head.by = "job" /\ job.at = "restoring"
  BY <1>2, <1>3, ConnGivesUp DEF UpdateFails
<1>4. CASE head.by = "job" /\ job.at \in {"clearing", "publishing"}
  <2>1. job' = [job EXCEPT !.at = "failed"] /\ UNCHANGED <<watched, unoffered>>
    BY <1>4 DEF UpdateFails
  <2>2. job # NoJob
    BY <1>0, <1>4, Idle
  <2>3. reloading \/ job.at = "publishing"
    BY <1>0, <1>4, <2>2, AtWork, ReconnectFacts
  <2>4. /\ job' \in Job /\ job'.at = "failed" /\ job'.request = job.request
        /\ job'.fresh = job.fresh /\ job'.displaced = job.displaced /\ job'.todo = job.todo
    BY <1>0, <2>1 DEF TypeOK, Job
  <2> QED BY <1>2, <1>4, <2>1, <2>2, <2>3, <2>4, ConnSameJob
<1>5. CASE head.by # "job"
  <2>1. UNCHANGED <<watched, unoffered>> /\ (job' = job \/ (flushing /\ job' = [job EXCEPT !.at = "failed"]))
    BY <1>5 DEF UpdateFails
  <2>2. CASE job' = job
    BY <1>2, <2>1, <2>2, ConnQuiet
  <2>3. CASE flushing /\ job' = [job EXCEPT !.at = "failed"]
    <3>1. job # NoJob
      BY <1>0, <2>3, Idle DEF flushing
    <3>2. reloading
      BY <1>0, <2>3, <3>1, AtWork, ReconnectFacts DEF flushing
    <3>3. /\ job' \in Job /\ job'.at = "failed" /\ job'.request = job.request
          /\ job'.fresh = job.fresh /\ job'.displaced = job.displaced /\ job'.todo = job.todo
      BY <1>0, <2>3 DEF TypeOK, Job
    <3> QED BY <1>2, <2>1, <2>3, <3>1, <3>2, <3>3, ConnSameJob DEF flushing
  <2> QED BY <2>1, <2>2, <2>3
<1> QED BY <1>1, <1>3, <1>4, <1>5

LEMMA ConnBeginJob == Inv /\ BeginJob => ConnInv'
<1> SUFFICES ASSUME Inv, BeginJob PROVE ConnInv'
  OBVIOUS
<1> USE DEF published, watching, queued, work, switches, history, pools, recovery
<1>0. TypeOK /\ RequestsInv /\ OwnInv /\ LeakInv /\ WatchInv /\ KeepInv
  BY DEF Inv, ConnInv
<1>1. job = NoJob /\ inJob = {} /\ ~reloading
  BY OwnFacts DEF BeginJob, reloading
<1>2. UNCHANGED <<pools, conns, retiring, holding, closing, discarded>>
  BY DEF BeginJob
<1>3. Head(jobs) = jobs[1] /\ Head(jobs) \in Request /\ 1 \in 1 .. Len(jobs)
  <2>1. jobs \in Seq(Request) /\ jobs # <<>>
    BY <1>0 DEF BeginJob, TypeOK
  <2> QED BY <2>1, HeadTailProperties, EmptySeq, LenProperties, ElementOfSeq
<1>4. ASSUME NEW at \in {"connecting", "clearing"}, NEW todo, job' = begin(Head(jobs), at, todo)
      PROVE  /\ job'.request = Head(jobs) /\ job'.at = at /\ job'.todo = todo
             /\ job'.fresh = none /\ job'.displaced = NoConn /\ job' # NoJob
  <2>1. /\ job'.request = Head(jobs) /\ job'.at = at /\ job'.todo = todo
        /\ job'.fresh = none /\ job'.displaced = NoConn
    BY <1>4 DEF begin, NoJob
  <2> QED BY <2>1, NoJobTyped
<1>5. ASSUME NEW at \in {"connecting", "clearing"}, NEW todo, job' = begin(Head(jobs), at, todo)
      PROVE  OwnInv' /\ LeakInv' /\ KeepInv'
  <2>1. /\ job'.fresh = none /\ job'.displaced = NoConn /\ members(job'.fresh) = {} /\ job' # NoJob
    BY <1>4, <1>5, Typed
  <2>2. inJob' = {} /\ inRetirement' = inRetirement /\ Conn' = Conn /\ busy' = busy
    BY <1>2, <2>1 DEF inJob, inRetirement, Conn, busy
  <2>3. OwnInv'
    BY <1>0, <1>2, <2>1, <2>2, Typed DEF OwnInv, owns
  <2>4. LeakInv'
    BY <1>0, <1>1, <1>2, <2>2 DEF LeakInv, isOpen
  <2>5. KeepInv'
    BY <1>0, <1>1, <1>2, <2>2 DEF KeepInv, usable
  <2> QED BY <2>3, <2>4, <2>5
<1>6. CASE Head(jobs).kind \in Reloads /\ BeginReload(Head(jobs))
  <2>1. PICK at \in {"connecting", "clearing"} : job' = begin(Head(jobs), at, enabled)
    BY <1>6 DEF BeginReload
  <2>2. reloading'
    BY <1>4, <1>6, <2>1 DEF reloading
  <2>3. JobInv'
    <3>1. /\ job'.request = Head(jobs) /\ job'.at = at /\ job'.todo = enabled
          /\ job'.fresh = none /\ job'.displaced = NoConn /\ job' # NoJob
      BY <1>4, <2>1
    <3>2. enabled \subseteq Servers
      BY <1>0 DEF TypeOK
    <3>3. \A s \in job'.todo : job'.fresh[s] = NoConn
      BY <3>1, <3>2, Typed
    <3> QED BY <1>3, <2>2, <3>1, <3>3 DEF JobInv, Request
  <2>4. WatchInv'
    BY <2>2 DEF WatchInv
  <2> QED BY <1>5, <2>1, <2>3, <2>4 DEF ConnInv
<1>7. CASE Head(jobs).kind = "reconnect" /\ BeginReconnect(Head(jobs))
  <2>1. PICK s \in Head(jobs).server : IF s \notin enabled THEN job' = job
                                       ELSE job' = begin(Head(jobs), "connecting", {s})
    BY <1>7 DEF BeginReconnect
  <2>2. watched' = watched /\ unoffered' = unoffered
    BY <1>7 DEF BeginReconnect
  <2>3. CASE s \notin enabled
    BY <1>2, <2>1, <2>2, <2>3, ConnQuiet
  <2>4. CASE s \in enabled
    <3>1. Head(jobs).kind = "reconnect" /\ Head(jobs).server = {s} /\ s \in Servers
      BY <1>0, <1>3, <1>7 DEF RequestsInv, Request
    <3>2. /\ job'.request = Head(jobs) /\ job'.at = "connecting" /\ job'.todo = {s}
          /\ job'.fresh = none /\ job'.displaced = NoConn /\ job' # NoJob
      BY <1>4, <2>1, <2>4
    <3>3. reconnecting(s)' /\ ReconnectInv(s)' /\ ~reloading'
      BY <3>1, <3>2, Typed DEF reconnecting, ReconnectInv, reloading
    <3>4. JobInv'
      BY <1>3, <3>1, <3>2, <3>3 DEF JobInv, Request
    <3>5. WatchInv'
      <4>1. \A t \in Servers \ unoffered : noticed(t, pool[t])
        BY <1>0, <1>1, NoJobTyped DEF WatchInv
      <4>2. \A t \in Servers \ unoffered' : noticed(t, pool[t])'
        BY <1>2, <2>2, <4>1 DEF noticed, isOpen
      <4> QED BY <3>2, <4>2 DEF WatchInv
    <3> QED BY <1>5, <2>1, <2>4, <3>4, <3>5 DEF ConnInv
  <2> QED BY <2>3, <2>4
<1>8. CASE BeginNothing(Head(jobs))
  BY <1>2, <1>8, ConnQuiet DEF BeginNothing
<1> QED BY <1>6, <1>7, <1>8 DEF BeginJob

LEMMA ConnFlush == Inv /\ Flush => ConnInv'
<1> SUFFICES ASSUME Inv, Flush PROVE ConnInv'
  OBVIOUS
<1> USE DEF published, watching, queued, work, switches, history, pools, recovery
<1>0. TypeOK /\ JobInv
  BY DEF Inv, ConnInv
<1>1. job # NoJob /\ closing # "closed"
  BY <1>0, Idle, OpenWhileAtWork DEF Flush, flushing
<1>2. reloading
  BY <1>0, <1>1, AtWork, ReconnectFacts DEF Flush, flushing
<1>3. UNCHANGED <<holding, closing, discarded>> /\ job.at = "connecting"
  BY DEF Flush, flushing
<1>4. \/ publish(job, NoConn, conns)
      \/ /\ \E at \in {"failed", "publishing"} : job' = [job EXCEPT !.at = at]
         /\ UNCHANGED <<pools, watched, unoffered, retiring, conns>>
  BY DEF Flush
<1>5. ASSUME NEW at \in {"failed", "publishing"}, job' = [job EXCEPT !.at = at],
             UNCHANGED <<pools, watched, unoffered, retiring, conns>>
      PROVE  ConnInv'
  <2>1. /\ job' \in Job /\ job'.at = at /\ job'.request = job.request
        /\ job'.fresh = job.fresh /\ job'.displaced = job.displaced /\ job'.todo = job.todo
    BY <1>0, <1>5 DEF TypeOK, Job
  <2> QED BY <1>1, <1>2, <1>3, <1>5, <2>1, ConnSameJob
<1>6. CASE publish(job, NoConn, conns)
  BY <1>1, <1>2, <1>3, <1>6, ConnReloadEnds, ConnReloadEndsBare
<1> QED BY <1>4, <1>5, <1>6

LEMMA ConnConnectFails == ASSUME Inv, NEW s \in Servers, ConnectFails(s) PROVE ConnInv'
<1> USE DEF published, watching, queued, work, switches, history, pools, recovery
<1>0. TypeOK /\ JobInv /\ WatchInv
  BY DEF Inv, ConnInv
<1>1. job # NoJob /\ job.at = "connecting"
  BY <1>0, Idle DEF ConnectFails, connecting
<1>2. UNCHANGED <<pools, watched, unoffered, conns, retiring, holding, closing, discarded>>
  BY DEF ConnectFails
<1>3. CASE reloading
  <2>1. job' = [job EXCEPT !.todo = @ \ {s}]
    BY <1>0, <1>1, <1>3, AtWork DEF ConnectFails
  <2>2. /\ job' \in Job /\ job'.at = "connecting" /\ job'.request = job.request
        /\ job'.fresh = job.fresh /\ job'.displaced = job.displaced /\ job'.todo \subseteq job.todo
    BY <1>0, <1>1, <2>1 DEF TypeOK, Job
  <2> QED BY <1>1, <1>2, <1>3, <2>2, ConnSameJob
<1>4. CASE ~reloading
  <2>1. job' = NoJob
    BY <1>0, <1>1, <1>4, AtWork DEF ConnectFails
  <2>2. inJob = {}
    BY <1>0, <1>1, <1>4, AtWork, ReconnectFacts
  <2>3. \A t \in Servers \ unoffered : noticed(t, pool[t])
    BY <1>0, <1>1, <1>4 DEF WatchInv
  <2> QED BY <1>2, <2>1, <2>2, <2>3, ConnJobEnds DEF noticed
<1> QED BY <1>3, <1>4

(* A server of a reload is connected: it is of the job.                     *)
LEMMA ConnConnectedReloading ==
  ASSUME Inv, NEW s \in Servers, Connected(s), ConnectedReloading(s, newest, longer(s))
  PROVE  ConnInv'
<1> USE DEF published, watching, queued, work, switches, history, pools, recovery
<1>0. TypeOK /\ JobInv /\ OwnInv /\ LeakInv /\ KeepInv /\ orphans \subseteq Conn
  BY DEF Inv, ConnInv, TypeOK
<1>1. /\ newest \in 0 .. MaxConns /\ newest = Len(conns) + 1 /\ newest \notin Conn
      /\ newest # NoConn /\ newest \in 1 .. newest
      /\ Len(longer(s)) = newest /\ longer(s)[newest].server = s /\ longer(s)[newest].state = "open"
      /\ \A d \in Conn : longer(s)[d] = conns[d]
      /\ job # NoJob /\ job.at = "connecting" /\ s \in job.todo /\ Len(conns) \in Nat
  BY <1>0, ConnectedFacts, MadeFacts
<1>2. reloading
  BY <1>0, <1>1, AtWork DEF ConnectedReloading
<1>3. /\ job' = [job EXCEPT !.todo = @ \ {s}, !.fresh = [job.fresh EXCEPT ![s] = newest]]
      /\ conns' = longer(s)
      /\ UNCHANGED <<pools, watched, unoffered, retiring, holding, closing, discarded>>
  BY DEF ConnectedReloading, Connected
<1>4. Conn' = Conn \cup {newest} /\ busy' = busy /\ inRetirement' = inRetirement
  <2>1. Conn' = 1 .. newest
    BY <1>1, <1>3 DEF Conn
  <2>2. 1 .. newest = 1 .. Len(conns) \cup {newest}
    BY <1>1
  <2> QED BY <1>3, <2>1, <2>2 DEF Conn, busy, inRetirement
<1>5. /\ job'.request = job.request /\ job'.at = "connecting" /\ job'.todo = job.todo \ {s}
      /\ job'.fresh = [job.fresh EXCEPT ![s] = newest] /\ job'.displaced = job.displaced
      /\ job' # NoJob
  <2>1. job \in Job
    BY <1>0 DEF TypeOK
  <2>2. /\ job'.request = job.request /\ job'.at = "connecting" /\ job'.todo = job.todo \ {s}
        /\ job'.fresh = [job.fresh EXCEPT ![s] = newest] /\ job'.displaced = job.displaced
    BY <1>1, <1>3, <2>1 DEF Job
  <2> QED BY <2>2, NoJobTyped
<1>6. /\ job.fresh \in Tools /\ job.fresh[s] = NoConn /\ job.displaced = NoConn
      /\ \A t \in job.todo : job.fresh[t] = NoConn
      /\ job'.fresh[s] = newest /\ \A t \in Servers \ {s} : job'.fresh[t] = job.fresh[t]
  BY <1>0, <1>1, <1>2, <1>5, JobFields, WithFacts DEF JobInv
<1>7. /\ inJob = members(job.fresh) /\ members(job.fresh) \cap members(pool) = {}
      /\ members(pool) \subseteq Conn /\ inRetirement \subseteq Conn /\ inJob \subseteq Conn
  BY <1>2, OwnFacts
<1>8. members(job'.fresh) = members(job.fresh) \cup {newest}
  BY <1>1, <1>6 DEF members
<1>9. reloading' /\ inJob' = inJob \cup {newest}
  <2>1. reloading'
    BY <1>2, <1>5 DEF reloading
  <2>2. members(job'.fresh) \cap members(pool) = {}
    BY <1>1, <1>7, <1>8
  <2> QED BY <1>3, <1>5, <1>6, <1>7, <1>8, <2>1, <2>2 DEF inJob
<1>10. JobInv'
  <2>1. job'.request # <<>>
    BY <1>0, <1>1, <1>5 DEF JobInv
  <2>2. \A t \in job'.todo : job'.fresh[t] = NoConn
    <3>1. job.todo \subseteq Servers
      BY <1>0, JobFields
    <3> QED BY <1>5, <1>6, <3>1
  <2> QED BY <1>5, <1>6, <1>9, <2>1, <2>2 DEF JobInv
<1>11. OwnInv'
  <2>1. owns(pool)'
    BY <1>0, <1>1, <1>3, <1>4 DEF OwnInv, owns
  <2>2. owns(job.fresh)'
    <3> SUFFICES ASSUME NEW t \in Servers, job'.fresh[t] # NoConn
                 PROVE  job'.fresh[t] \in Conn' /\ conns'[job'.fresh[t]].server = t
      BY DEF owns
    <3>1. CASE t = s
      BY <1>1, <1>3, <1>4, <1>6, <3>1
    <3>2. CASE t # s
      BY <1>0, <1>1, <1>3, <1>4, <1>6, <3>2 DEF OwnInv, owns
    <3> QED BY <3>1, <3>2
  <2>3. members(job'.fresh) \cap members(pool') = {}
    BY <1>1, <1>3, <1>7, <1>8
  <2> QED BY <1>5, <1>6, <2>1, <2>2, <2>3 DEF OwnInv
<1>12. LeakInv'
  <2>1. ASSUME NEW c \in Conn', conns'[c].state = "open" 
        PROVE  c \in members(pool) \cup inJob' \cup inRetirement \cup orphans
    BY <1>0, <1>1, <1>3, <1>4, <1>9, <2>1 DEF LeakInv, isOpen
  <2>2. inRetirement \cap (members(pool) \cup inJob') = {}
    BY <1>0, <1>1, <1>7, <1>9 DEF LeakInv
  <2>3. orphans \cap (members(pool) \cup inJob' \cup inRetirement) = {}
    BY <1>0, <1>1, <1>9 DEF LeakInv
  <2> QED BY <1>3, <1>4, <2>1, <2>2, <2>3 DEF LeakInv, isOpen
<1>13. WatchInv'
  BY <1>9 DEF WatchInv
<1>14. KeepInv'
  <2>1. ASSUME NEW c \in members(pool) \cup inJob' PROVE conns'[c].state # "closed"
    <3>1. CASE c = newest
      BY <1>1, <1>3, <3>1
    <3>2. CASE c # newest
      <4>1. closing # "closed"
        BY <1>1, OpenWhileAtWork
      <4> QED BY <1>0, <1>1, <1>3, <1>7, <1>9, <2>1, <3>2, <4>1 DEF KeepInv
    <3> QED BY <3>1, <3>2
  <2>2. \A c \in orphans : conns'[c].state # "closed"
    BY <1>0, <1>1, <1>3 DEF KeepInv
  <2>3. ASSUME NEW r \in busy, NEW c \in holding[r].tools \ holding[r].stale, c \notin discarded
        PROVE  /\ c \in members(pool) \cup inJob' \cup inRetirement \cup orphans
               /\ conns'[c].state # "closed"
               /\ \A w \in retiring : c \in w.conns => r \in w.until
    BY <1>0, <1>1, <1>3, <1>7, <1>9, <2>3 DEF KeepInv, usable
  <2> QED BY <1>3, <1>4, <2>1, <2>2, <2>3 DEF KeepInv, usable
<1> QED BY <1>10, <1>11, <1>12, <1>13, <1>14 DEF ConnInv

(* The server of a reconnect is connected, and the graph is to be told.     *)
LEMMA ConnConnectedQueued ==
  ASSUME Inv, NEW s \in Servers, Connected(s), ~reloading,
         pool' = [pool EXCEPT ![s] = newest], job' = joined(s), conns' = longer(s),
         plugins, UNCHANGED <<loaded, plugins, orphans, watched, unoffered, retiring, holding, closing,
                              discarded>>
  PROVE  ConnInv'
<1>0. /\ TypeOK /\ JobInv /\ OwnInv /\ LeakInv /\ WatchInv /\ KeepInv
      /\ orphans \subseteq Conn
  BY DEF Inv, ConnInv, TypeOK
<1>1. /\ newest \in 0 .. MaxConns /\ newest = Len(conns) + 1 /\ newest \notin Conn
      /\ newest # NoConn /\ newest \in 1 .. newest
      /\ Len(longer(s)) = newest /\ longer(s)[newest].server = s /\ longer(s)[newest].state = "open"
      /\ \A d \in Conn : longer(s)[d] = conns[d]
      /\ job # NoJob /\ job.at = "connecting" /\ s \in job.todo /\ Len(conns) \in Nat
      /\ joined(s).request = job.request /\ joined(s).displaced = pool[s]
      /\ joined(s).at = "publishing" /\ joined(s).fresh = [none EXCEPT ![s] = newest]
  BY <1>0, ConnectedFacts, MadeFacts
<1>2. reconnecting(s) /\ inJob = {}
  <2>1. PICK t \in Servers : reconnecting(t) /\ ReconnectInv(t)
    BY <1>0, <1>1, AtWork
  <2>2. t = s
    BY <1>1, <2>1, ReconnectFacts
  <2> QED BY <1>1, <2>1, <2>2, ReconnectFacts
<1>3. job' # NoJob /\ reconnecting(s)' /\ ~reloading'
  <2>1. job' # NoJob
    BY <1>1, NoJobTyped
  <2> QED BY <1>1, <1>2, <2>1 DEF reconnecting, reloading
<1>4. Conn' = Conn \cup {newest} /\ busy' = busy /\ inRetirement' = inRetirement
  <2>1. Conn' = 1 .. newest
    BY <1>1 DEF Conn
  <2>2. 1 .. newest = 1 .. Len(conns) \cup {newest}
    BY <1>1
  <2> QED BY <2>1, <2>2 DEF Conn, busy, inRetirement
<1>5. /\ pool \in Tools /\ none \in Tools /\ pool'[s] = newest
      /\ \A t \in Servers \ {s} : pool'[t] = pool[t]
      /\ job'.fresh[s] = newest /\ \A t \in Servers \ {s} : job'.fresh[t] = NoConn
  <2>1. pool \in Tools /\ none \in Tools
    BY <1>0, Typed DEF TypeOK
  <2> QED BY <1>1, <2>1, WithFacts, Typed
<1>6. /\ members(pool) \subseteq Conn /\ inRetirement \subseteq Conn
      /\ \A t, u \in Servers : pool[t] = pool[u] /\ pool[t] # NoConn => t = u
  BY OwnFacts
<1>7. pool[s] # NoConn => pool[s] \in Conn /\ conns[pool[s]].server = s
  BY <1>0 DEF OwnInv, owns
<1>8. /\ members(pool) \subseteq members(pool') \cup ({pool[s]} \ {NoConn}) /\ newest \in members(pool')
      /\ members(pool') \subseteq members(pool) \cup {newest}
      /\ {pool[s]} \ {NoConn} \subseteq members(pool)
      /\ members(job'.fresh) = {newest}
  BY <1>1, <1>5 DEF members
<1>9. pool[s] # NoConn => pool[s] \notin members(pool')
  <2>1. ASSUME NEW t \in Servers, pool'[t] = pool[s], pool[s] # NoConn PROVE FALSE
    BY <1>1, <1>5, <1>6, <1>7, <2>1
  <2> QED BY <2>1 DEF members
<1>10. inJob' = {pool[s]} \ {NoConn} /\ members(pool') \cup inJob' = members(pool) \cup {newest}
  <2>1. inJob' = (members(job'.fresh) \cup ({job'.displaced} \ {NoConn})) \ members(pool')
    BY <1>3 DEF inJob
  <2>2. inJob' = {pool[s]} \ {NoConn}
    BY <1>1, <1>8, <1>9, <2>1
  <2> QED BY <1>8, <2>2
<1>11. JobInv'
  <2>1. ReconnectInv(s)'
    <3>1. pool[s] # newest
      BY <1>1, <1>7
    <3> QED BY <1>1, <1>5, <3>1 DEF ReconnectInv
  <2>2. job'.request # <<>>
    BY <1>0, <1>1 DEF JobInv
  <2> QED BY <1>1, <1>3, <2>1, <2>2 DEF JobInv
<1>12. OwnInv'
  <2>1. owns(pool)'
    <3> SUFFICES ASSUME NEW t \in Servers, pool'[t] # NoConn
                 PROVE  pool'[t] \in Conn' /\ conns'[pool'[t]].server = t
      BY DEF owns
    <3>1. CASE t = s
      BY <1>1, <1>4, <1>5, <3>1
    <3>2. CASE t # s
      BY <1>0, <1>1, <1>4, <1>5, <3>2 DEF OwnInv, owns
    <3> QED BY <3>1, <3>2
  <2>2. owns(job.fresh)'
    <3> SUFFICES ASSUME NEW t \in Servers, job'.fresh[t] # NoConn
                 PROVE  job'.fresh[t] \in Conn' /\ conns'[job'.fresh[t]].server = t
      BY DEF owns
    <3> QED BY <1>1, <1>4, <1>5
  <2>3. job'.displaced # NoConn =>
          job'.displaced \in Conn' /\ job'.request.server = {conns'[job'.displaced].server}
    BY <1>1, <1>2, <1>4, <1>7 DEF reconnecting
  <2> QED BY <1>3, <2>1, <2>2, <2>3 DEF OwnInv
<1>13. LeakInv'
  <2>1. ASSUME NEW c \in Conn', conns'[c].state = "open"
        PROVE  c \in members(pool) \cup {newest} \cup inRetirement \cup orphans
    BY <1>0, <1>1, <1>2, <1>4, <2>1 DEF LeakInv, isOpen
  <2>2. inRetirement \cap (members(pool) \cup {newest}) = {}
    BY <1>0, <1>1, <1>6 DEF LeakInv
  <2>3. orphans \cap (members(pool) \cup {newest} \cup inRetirement) = {}
    BY <1>0, <1>1 DEF LeakInv
  <2> QED BY <1>4, <1>10, <2>1, <2>2, <2>3 DEF LeakInv, isOpen
<1>14. WatchInv'
  <2>1. ASSUME NEW t \in Servers \ unoffered
        PROVE  IF reconnecting(t)' THEN noticed(t, job.displaced)' ELSE noticed(t, pool[t])'
    <3>1. noticed(t, pool[t])
      BY <1>0, <1>1, <1>2, <2>1 DEF WatchInv, reloading, reconnecting
    <3>2. pool[t] # NoConn => pool[t] \in Conn
      BY <1>0 DEF OwnInv, owns
    <3>3. pool[t] # NoConn /\ conns'[pool[t]].state = "open" => watched'[t] = pool[t]
      BY <1>1, <3>1, <3>2 DEF noticed, isOpen
    <3>4. CASE t = s
      BY <1>1, <1>3, <3>3, <3>4 DEF noticed, isOpen
    <3>5. CASE t # s
      <4>1. ~reconnecting(t)'
        BY <1>3, <3>5 DEF reconnecting
      <4> QED BY <1>5, <3>3, <3>5, <4>1 DEF noticed, isOpen
    <3> QED BY <3>4, <3>5
  <2> QED BY <1>1, <2>1 DEF WatchInv
<1>15. KeepInv'
  <2>1. ASSUME NEW c \in members(pool) \cup {newest} PROVE conns'[c].state # "closed"
    <3>1. closing # "closed"
      BY <1>1, OpenWhileAtWork
    <3> QED BY <1>0, <1>1, <1>6, <2>1, <3>1 DEF KeepInv
  <2>2. \A c \in orphans : conns'[c].state # "closed"
    BY <1>0, <1>1 DEF KeepInv
  <2>3. ASSUME NEW r \in busy, NEW c \in holding[r].tools \ holding[r].stale, c \notin discarded
        PROVE  /\ c \in members(pool) \cup {newest} \cup inRetirement \cup orphans
               /\ conns'[c].state # "closed"
               /\ \A w \in retiring : c \in w.conns => r \in w.until
    BY <1>0, <1>1, <1>2, <1>6, <2>3 DEF KeepInv, usable
  <2> QED BY <1>4, <1>10, <2>1, <2>2, <2>3 DEF KeepInv, usable
<1> QED BY <1>11, <1>12, <1>13, <1>14, <1>15 DEF ConnInv

(* Without plugins there is no pool for the server of a reconnect: it is    *)
(* of the job, which will close it.                                         *)
LEMMA ConnConnectedInVain ==
  ASSUME Inv, NEW s \in Servers, Connected(s), ConnectedInVain(s, newest, longer(s))
  PROVE  ConnInv'
<1> USE DEF published, watching, queued, work, switches, history, pools, recovery
<1>0. /\ TypeOK /\ JobInv /\ OwnInv /\ LeakInv /\ WatchInv /\ KeepInv /\ PoolInv
      /\ orphans \subseteq Conn
  BY DEF Inv, ConnInv, TypeOK
<1>1. /\ newest \in 0 .. MaxConns /\ newest = Len(conns) + 1 /\ newest \notin Conn
      /\ newest # NoConn /\ newest \in 1 .. newest
      /\ Len(longer(s)) = newest /\ longer(s)[newest].server = s /\ longer(s)[newest].state = "open"
      /\ \A d \in Conn : longer(s)[d] = conns[d]
      /\ job # NoJob /\ job.at = "connecting" /\ s \in job.todo /\ Len(conns) \in Nat
  BY <1>0, ConnectedFacts, MadeFacts
<1>2. /\ job' = [job EXCEPT !.todo = {}, !.fresh = [none EXCEPT ![s] = newest], !.at = "refused"]
      /\ conns' = longer(s) /\ ~plugins /\ ~isReload
      /\ UNCHANGED <<pools, watched, unoffered, retiring, holding, closing, discarded>>
  BY DEF ConnectedInVain, Connected
<1>3. ~reloading /\ reconnecting(s) /\ inJob = {} /\ job.displaced = NoConn
  <2>1. PICK t \in Servers : reconnecting(t) /\ ReconnectInv(t) /\ ~reloading
    BY <1>0, <1>1, <1>2, AtWork
  <2>2. t = s
    BY <1>1, <2>1, ReconnectFacts
  <2> QED BY <1>1, <2>1, <2>2, ReconnectFacts
<1>4. /\ job'.request = job.request /\ job'.at = "refused" /\ job'.todo = {}
      /\ job'.fresh = [none EXCEPT ![s] = newest] /\ job'.displaced = NoConn
  BY <1>0, <1>2, <1>3 DEF TypeOK, Job
<1>5. /\ job' # NoJob /\ reconnecting(s)' /\ ~reloading'
      /\ job'.fresh[s] = newest /\ \A t \in Servers \ {s} : job'.fresh[t] = NoConn
  <2>1. job' # NoJob
    BY <1>4, NoJobTyped
  <2>2. none \in Tools /\ \A t \in Servers : none[t] = NoConn
    BY Typed
  <2> QED BY <1>1, <1>3, <1>4, <2>1, <2>2, WithFacts DEF reconnecting, reloading
<1>6. pool = none /\ members(pool) = {} /\ \A t \in Servers : pool[t] = NoConn
  BY <1>0, <1>2, Typed DEF PoolInv
<1>7. inRetirement \subseteq Conn
  BY OwnFacts
<1>8. Conn' = Conn \cup {newest} /\ busy' = busy /\ inRetirement' = inRetirement
  <2>1. Conn' = 1 .. newest
    BY <1>1, <1>2 DEF Conn
  <2>2. 1 .. newest = 1 .. Len(conns) \cup {newest}
    BY <1>1
  <2> QED BY <1>2, <2>1, <2>2 DEF Conn, busy, inRetirement
<1>9. members(job'.fresh) = {newest}
  BY <1>1, <1>5 DEF members
<1>10. inJob' = {newest} /\ members(pool)' = {}
  <2>1. members(pool)' = {}
    BY <1>2, <1>6
  <2>2. inJob' = (members(job'.fresh) \cup ({job'.displaced} \ {NoConn})) \ members(pool')
    BY <1>5 DEF inJob
  <2> QED BY <1>4, <1>9, <2>1, <2>2
<1>11. JobInv'
  <2>1. ReconnectInv(s)'
    BY <1>1, <1>2, <1>4, <1>5 DEF ReconnectInv
  <2>2. job'.request # <<>>
    BY <1>0, <1>1, <1>4 DEF JobInv
  <2> QED BY <1>4, <1>5, <2>1, <2>2 DEF JobInv
<1>12. OwnInv'
  <2>1. owns(pool)'
    BY <1>2, <1>6 DEF owns
  <2>2. owns(job.fresh)'
    <3> SUFFICES ASSUME NEW t \in Servers, job'.fresh[t] # NoConn
                 PROVE  job'.fresh[t] \in Conn' /\ conns'[job'.fresh[t]].server = t
      BY DEF owns
    <3> QED BY <1>1, <1>2, <1>5, <1>8
  <2> QED BY <1>4, <1>5, <2>1, <2>2 DEF OwnInv
<1>13. LeakInv'
  <2>1. ASSUME NEW c \in Conn', conns'[c].state = "open"
        PROVE  c \in {newest} \cup inRetirement \cup orphans
    BY <1>0, <1>1, <1>2, <1>3, <1>6, <1>8, <2>1 DEF LeakInv, isOpen
  <2>2. inRetirement \cap {newest} = {} /\ orphans \cap ({newest} \cup inRetirement) = {}
    BY <1>0, <1>1, <1>7 DEF LeakInv
  <2> QED BY <1>2, <1>8, <1>10, <2>1, <2>2 DEF LeakInv, isOpen
<1>14. WatchInv'
  <2>1. \A t \in Servers : noticed(t, pool[t])'
    BY <1>2, <1>6 DEF noticed
  <2> QED BY <1>4, <2>1 DEF WatchInv
<1>15. KeepInv'
  <2>1. conns'[newest].state # "closed"
    BY <1>1, <1>2
  <2>2. \A c \in orphans : conns'[c].state # "closed"
    BY <1>0, <1>1, <1>2 DEF KeepInv
  <2>3. ASSUME NEW r \in busy, NEW c \in holding[r].tools \ holding[r].stale, c \notin discarded
        PROVE  /\ c \in inRetirement \cup orphans
               /\ conns'[c].state # "closed"
               /\ \A w \in retiring : c \in w.conns => r \in w.until
    BY <1>0, <1>1, <1>2, <1>3, <1>6, <1>7, <2>3 DEF KeepInv, usable
  <2> QED BY <1>2, <1>8, <1>10, <2>1, <2>2, <2>3 DEF KeepInv, usable
<1> QED BY <1>11, <1>12, <1>13, <1>14, <1>15 DEF ConnInv

LEMMA ConnConnected == ASSUME Inv, NEW s \in Servers, Connected(s) PROVE ConnInv'
<1> USE DEF published, watching, queued, work, switches, history, pools, recovery
<1>0. TypeOK /\ JobInv /\ OwnInv
  BY DEF Inv, ConnInv
<1>1. UNCHANGED <<holding, closing, discarded>>
  BY DEF Connected
<1>2. job # NoJob /\ closing # "closed"
  BY <1>0, ConnectedFacts, OpenWhileAtWork
<1>3. CASE ConnectedReloading(s, newest, longer(s))
  BY <1>3, ConnConnectedReloading
<1>4. CASE ConnectedAgain(s, newest, longer(s))
  <2>1. ~reloading
    BY <1>0, <1>2, <1>4, AtWork DEF ConnectedAgain
  <2>2. \/ publish(joined(s), newest, longer(s))
        \/ /\ pool' = [pool EXCEPT ![s] = newest] /\ job' = joined(s) /\ conns' = longer(s)
           /\ UNCHANGED <<loaded, plugins, orphans, watched, unoffered, retiring>>
    BY <1>4 DEF ConnectedAgain, joined
  <2>3. plugins
    BY <1>4 DEF ConnectedAgain
  <2> QED BY <1>1, <1>2, <2>1, <2>2, <2>3, ConnReconnectedAtOnce, ConnConnectedQueued
<1>5. CASE ConnectedInVain(s, newest, longer(s))
  BY <1>5, ConnConnectedInVain
<1> QED BY <1>0, <1>3, <1>4, <1>5, ConnectedFacts

(* A failed reload leaves the pool as it was.                               *)
LEMMA ConnFailedReload == ASSUME Inv, Failed, reloading PROVE ConnInv'
<1> USE DEF published, watching, queued, work, switches, history, pools, recovery
<1>0. TypeOK /\ JobInv /\ OwnInv /\ LeakInv /\ KeepInv
  BY DEF Inv, ConnInv
<1>1. job # NoJob /\ job.at = "failed" /\ isReload
  BY <1>0, AtWork DEF Failed, reloading
<1>2. pool' = pool /\ conns' = closed(members(job.fresh), conns)
      /\ discarded' = discarded \cup members(job.fresh)
      /\ UNCHANGED <<loaded, plugins, orphans, retiring, holding, closing>>
  BY <1>1 DEF Failed
<1>3. /\ Len(conns') = Len(conns)
      /\ \A c \in Conn : /\ conns'[c].server = conns[c].server
                         /\ c \in members(job.fresh) => conns'[c].state = "closed"
                         /\ c \notin members(job.fresh) => conns'[c] = conns[c]
  BY <1>0, <1>2, MadeFacts, ClosedFacts DEF Conn
<1>4. Conn' = Conn /\ inRetirement' = inRetirement /\ busy' = busy
  BY <1>0, <1>1, <1>2, <1>3 DEF Conn, inRetirement, busy
<1>5. inJob = members(job.fresh) /\ members(job.fresh) \cap members(pool) = {} /\ inJob \subseteq Conn
  BY OwnFacts
<1>6. ASSUME inJob' \subseteq inJob, job' = NoJob \/ job'.at = "restoring" PROVE KeepInv'
  <2>1. orphans \cap inJob = {} /\ orphans \subseteq Conn
    BY <1>0 DEF LeakInv, TypeOK
  <2>2. \A c \in orphans : conns'[c].state # "closed"
    BY <1>0, <1>3, <1>5, <2>1 DEF KeepInv
  <2>3. \A c \in members(pool) : conns'[c] = conns[c]
    BY <1>3, <1>5, OwnFacts
  <2>4. job' = NoJob => inJob' = {}
    BY DEF inJob
  <2>5. ASSUME NEW r \in busy, NEW c \in holding[r].tools \ holding[r].stale,
               c \notin discarded \cup inJob
        PROVE  usable(r, c)'
    <3>1. /\ c \in members(pool) \cup inRetirement \cup orphans /\ conns[c].state # "closed"
          /\ \A w \in retiring : c \in w.conns => r \in w.until
      BY <1>0, <2>5 DEF KeepInv, usable
    <3>2. conns'[c] = conns[c]
      BY <1>3, <1>5, <2>1, <2>5, <3>1, OwnFacts
    <3> QED BY <1>2, <1>4, <3>1, <3>2 DEF usable
  <2> QED BY <1>0, <1>2, <1>4, <1>5, <1>6, <2>2, <2>3, <2>4, <2>5 DEF KeepInv
<1>7. owns(pool)'
  BY <1>0, <1>2, <1>3, <1>4 DEF OwnInv, owns
<1>8. ASSUME NEW c \in Conn, conns'[c].state = "open" 
      PROVE  c \in members(pool) \cup inRetirement \cup orphans
  BY <1>0, <1>3, <1>5, <1>8 DEF LeakInv, isOpen
<1>9. CASE unchanged(job.tools, job.lifecycle)
  <2>1. giveUp(job.tools)
    BY <1>1, <1>9 DEF Failed
  <2>2. /\ job' = NoJob /\ watched' = armed(job.tools, pool)
        /\ unoffered' = {s \in Servers : job.tools[s] = NoConn}
    BY <1>1, <2>1 DEF giveUp
  <2>3. inJob' = {}
    BY <2>2 DEF inJob
  <2>4. LeakInv'
    BY <1>0, <1>2, <1>4, <1>8, <2>3 DEF LeakInv, isOpen
  <2>5. \A s \in Servers \ unoffered' : noticed(s, pool[s])'
    BY <1>2, <2>2 DEF armed, noticed
  <2> QED BY <1>6, <1>7, <2>2, <2>3, <2>4, <2>5, ConnNoJob
<1>10. CASE ~unchanged(job.tools, job.lifecycle)
  <2>1. job' = [job EXCEPT !.at = "restoring"] /\ watched' = watched /\ unoffered' = unoffered
    BY <1>1, <1>10 DEF Failed
  <2>2. /\ job'.at = "restoring" /\ job'.request = job.request /\ job'.todo = job.todo
        /\ job'.fresh = job.fresh /\ job'.displaced = job.displaced /\ job' # NoJob
    BY <1>0, <2>1, NoJobTyped DEF TypeOK, Job
  <2>3. reloading'
    BY <2>2 DEF reloading
  <2>4. inJob' = inJob
    BY <1>1, <1>2, <2>2 DEF inJob
  <2>5. JobInv'
    <3>1. \A c \in members(job'.fresh) : conns'[c].state = "closed" /\ c \in discarded'
      BY <1>2, <1>3, <1>5, <2>2
    <3> QED BY <1>0, <1>1, <2>2, <2>3, <3>1 DEF JobInv
  <2>6. OwnInv'
    BY <1>0, <1>2, <1>3, <1>4, <1>5, <1>7, <2>2 DEF OwnInv, owns
  <2>7. LeakInv'
    BY <1>0, <1>2, <1>4, <1>8, <2>4 DEF LeakInv, isOpen
  <2>8. WatchInv'
    BY <2>3 DEF WatchInv
  <2> QED BY <1>6, <2>2, <2>4, <2>5, <2>6, <2>7, <2>8 DEF ConnInv
<1> QED BY <1>9, <1>10

(* A failed reconnect puts back what it took out of the pool.               *)
LEMMA ConnFailedReconnect == ASSUME Inv, Failed, ~reloading PROVE ConnInv'
<1> USE DEF published, watching, queued, work, switches, history, pools, recovery
<1>0. TypeOK /\ JobInv /\ OwnInv /\ LeakInv /\ WatchInv /\ KeepInv
  BY DEF Inv, ConnInv
<1>1. job # NoJob /\ job.at = "failed"
  BY <1>0, Idle DEF Failed
<1>2. PICK s \in Servers : ~isReload /\ reconnecting(s) /\ ReconnectInv(s) /\ subject = s
  BY <1>0, <1>1, AtWork
<1>3. /\ pool' = [pool EXCEPT ![s] = job.displaced] /\ conns' = closed(members(job.fresh), conns)
      /\ discarded' = discarded \cup members(job.fresh)
      /\ UNCHANGED <<loaded, plugins, orphans, retiring, holding, closing, watched, unoffered>>
  BY <1>2 DEF Failed, giveUp
<1>4. /\ members(job.fresh) = {job.fresh[s]} \ {NoConn} /\ inJob = {job.displaced} \ {NoConn}
      /\ job.displaced \notin members(pool) /\ pool[s] = job.fresh[s] /\ job.fresh[s] # NoConn
      /\ job.displaced # job.fresh[s] /\ plugins
      /\ job.displaced # NoConn => job.displaced \in Conn /\ conns[job.displaced].server = s
  BY <1>1, <1>2, ReconnectFacts
<1>5. /\ Len(conns') = Len(conns)
      /\ \A c \in Conn : /\ conns'[c].server = conns[c].server
                         /\ c = job.fresh[s] => conns'[c].state = "closed"
                         /\ c # job.fresh[s] => conns'[c] = conns[c]
  BY <1>0, <1>3, <1>4, MadeFacts, ClosedFacts DEF Conn
<1>6. Conn' = Conn /\ inRetirement' = inRetirement /\ busy' = busy
  BY <1>0, <1>1, <1>3, <1>5 DEF Conn, inRetirement, busy
<1>7. /\ pool'[s] = job.displaced /\ \A t \in Servers \ {s} : pool'[t] = pool[t]
      /\ members(pool) \subseteq Conn
      /\ \A t, u \in Servers : pool[t] = pool[u] /\ pool[t] # NoConn => t = u
  <2>1. pool \in Tools
    BY <1>0 DEF TypeOK
  <2> QED BY <1>3, <2>1, OwnFacts DEF Tools
<1>8. /\ members(pool') \subseteq (members(pool) \ {job.fresh[s]}) \cup ({job.displaced} \ {NoConn})
      /\ members(pool) \subseteq members(pool') \cup {job.fresh[s]}
      /\ {job.displaced} \ {NoConn} \subseteq members(pool')
      /\ job.fresh[s] \in members(pool)
  <2>1. \A t \in Servers \ {s} : pool[t] # job.fresh[s]
    BY <1>4, <1>7
  <2> QED BY <1>4, <1>7, <2>1 DEF members
<1>9. ASSUME job' = NoJob \/ job'.at = "restoring" PROVE KeepInv'
  <2>1. orphans \cap (members(pool) \cup inJob) = {} /\ orphans \subseteq Conn
        /\ inRetirement \cap members(pool) = {} /\ closing # "closed"
    BY <1>0, <1>1, OpenWhileAtWork DEF LeakInv, TypeOK
  <2>2. \A c \in orphans : conns'[c].state # "closed"
    BY <1>0, <1>5, <1>8, <2>1 DEF KeepInv
  <2>3. \A c \in members(pool') : conns'[c].state # "closed"
    BY <1>0, <1>1, <1>4, <1>5, <1>7, <1>8, <2>1 DEF KeepInv
  <2>4. job' = NoJob => inJob' = {}
    BY DEF inJob
  <2>5. ASSUME NEW r \in busy, NEW c \in holding[r].tools \ holding[r].stale,
               c \notin discarded \cup {job.fresh[s]}
        PROVE  usable(r, c)'
    <3>1. /\ c \in members(pool) \cup inJob \cup inRetirement \cup orphans
          /\ conns[c].state # "closed" /\ \A w \in retiring : c \in w.conns => r \in w.until
      BY <1>0, <2>5 DEF KeepInv, usable
    <3>2. c \in members(pool') \cup inRetirement \cup orphans
      BY <1>4, <1>8, <2>5, <3>1
    <3>3. conns'[c] = conns[c]
      BY <1>5, <2>1, <2>5, <3>1, OwnFacts
    <3> QED BY <1>3, <1>6, <3>1, <3>2, <3>3 DEF usable
  <2> QED BY <1>3, <1>4, <1>6, <1>9, <2>2, <2>3, <2>4, <2>5 DEF KeepInv
<1>10. owns(pool)'
  <2> SUFFICES ASSUME NEW t \in Servers, pool'[t] # NoConn
               PROVE  pool'[t] \in Conn' /\ conns'[pool'[t]].server = t
    BY DEF owns
  <2>1. CASE t = s
    BY <1>4, <1>5, <1>6, <1>7, <2>1
  <2>2. CASE t # s
    BY <1>0, <1>5, <1>6, <1>7, <2>2 DEF OwnInv, owns
  <2> QED BY <2>1, <2>2
<1>11. ASSUME NEW c \in Conn, conns'[c].state = "open" 
       PROVE  c \in members(pool') \cup inRetirement \cup orphans
  <2>1. c # job.fresh[s] /\ conns[c].state = "open"
    BY <1>5, <1>11
  <2>2. c \in members(pool) \cup inJob \cup inRetirement \cup orphans
    BY <1>0, <1>11, <2>1 DEF LeakInv, isOpen
  <2> QED BY <1>4, <1>8, <2>1, <2>2
<1>12. /\ inRetirement \cap (members(pool') \cup {job.fresh[s]}) = {}
       /\ orphans \cap (members(pool') \cup {job.fresh[s]} \cup inRetirement) = {}
  BY <1>0, <1>4, <1>8 DEF LeakInv
<1>13. ASSUME NEW t \in Servers \ unoffered' PROVE noticed(t, pool[t])'
  <2>1. CASE t = s
    <3>1. noticed(s, job.displaced)
      BY <1>0, <1>1, <1>2, <1>3, <1>13, <2>1 DEF WatchInv
    <3>2. job.displaced # NoConn => conns'[job.displaced] = conns[job.displaced]
      BY <1>4, <1>5
    <3>3. job.displaced # NoConn /\ conns'[job.displaced].state = "open" => watched'[s] = job.displaced
      BY <1>3, <3>1, <3>2 DEF noticed, isOpen
    <3> QED BY <1>7, <2>1, <3>3 DEF noticed, isOpen
  <2>2. CASE t # s
    <3>1. ~reconnecting(t)
      BY <1>2, <2>2 DEF reconnecting
    <3>2. noticed(t, pool[t])
      BY <1>0, <1>3, <1>13, <3>1 DEF WatchInv
    <3>3. pool[t] # NoConn => pool[t] \in Conn
      BY <1>7 DEF members
    <3> QED BY <1>3, <1>5, <1>7, <2>2, <3>2, <3>3 DEF noticed, isOpen
  <2> QED BY <2>1, <2>2
<1>14. job' = NoJob \/ job' = [job EXCEPT !.at = "restoring"]
  BY DEF Failed, giveUp
<1>15. CASE job' = NoJob
  <2>1. inJob' = {}
    BY <1>15 DEF inJob
  <2>2. LeakInv'
    BY <1>3, <1>6, <1>11, <1>12, <2>1 DEF LeakInv, isOpen
  <2> QED BY <1>9, <1>10, <1>13, <1>15, <2>2, ConnNoJob
<1>16. CASE job' = [job EXCEPT !.at = "restoring"]
  <2>1. /\ job'.at = "restoring" /\ job'.request = job.request
        /\ job'.fresh = job.fresh /\ job'.displaced = job.displaced /\ job' # NoJob
    BY <1>0, <1>16, NoJobTyped DEF TypeOK, Job
  <2>2. reconnecting(s)' /\ ~reloading' /\ ReconnectInv(s)'
    BY <1>2, <1>3, <1>4, <1>7, <2>1 DEF reconnecting, reloading, ReconnectInv
  <2>3. inJob' \subseteq {job.fresh[s]}
    BY <1>4, <1>8, <2>1 DEF inJob
  <2>4. JobInv'
    <3>1. members(job'.fresh) = {job.fresh[s]} /\ job.fresh[s] \in Conn
      BY <1>4, <1>7, <1>8, <2>1
    <3>2. job.fresh[s] \in discarded' /\ conns'[job.fresh[s]].state = "closed"
      BY <1>3, <1>4, <1>5, <3>1
    <3> QED BY <1>0, <1>1, <2>1, <2>2, <3>1, <3>2 DEF JobInv
  <2>5. OwnInv'
    <3>1. owns(job.fresh)'
      BY <1>0, <1>5, <1>6, <2>1 DEF OwnInv, owns
    <3>2. job'.displaced # NoConn =>
            job'.displaced \in Conn' /\ job'.request.server = {conns'[job'.displaced].server}
      BY <1>2, <1>4, <1>5, <1>6, <2>1 DEF reconnecting
    <3> QED BY <1>10, <2>2, <3>1, <3>2 DEF OwnInv
  <2>6. LeakInv'
    <3>1. /\ inRetirement' \cap (members(pool') \cup inJob') = {}
          /\ orphans' \cap (members(pool') \cup inJob' \cup inRetirement') = {}
      BY <1>3, <1>6, <1>12, <2>3
    <3>2. \A c \in Conn' : isOpen(c)' => c \in members(pool') \cup inRetirement' \cup orphans'
      BY <1>3, <1>6, <1>11 DEF isOpen
    <3> QED BY <3>1, <3>2 DEF LeakInv
  <2>7. WatchInv'
    BY <1>13, <2>1 DEF WatchInv
  <2> QED BY <1>9, <2>1, <2>4, <2>5, <2>6, <2>7 DEF ConnInv
<1> QED BY <1>14, <1>15, <1>16

(* A refused reconnect closes what it made, which was never in the pool.    *)
LEMMA ConnRefused == Inv /\ Refused => ConnInv'
<1> SUFFICES ASSUME Inv, Refused PROVE ConnInv'
  OBVIOUS
<1> USE DEF published, watching, queued, work, switches, history, pools, recovery
<1>0. TypeOK /\ JobInv /\ OwnInv /\ LeakInv /\ WatchInv /\ KeepInv /\ PoolInv
  BY DEF Inv, ConnInv
<1>1. job # NoJob /\ job.at = "refused"
  BY <1>0, Idle DEF Refused
<1>2. inJob = members(job.fresh) /\ pool = none
  <2>1. ~reloading
    BY <1>0, <1>1 DEF JobInv
  <2> QED BY <1>0, <1>1, <2>1, AtWork, ReconnectFacts
<1>3. /\ job' = NoJob /\ conns' = closed(members(job.fresh), conns)
      /\ discarded' = discarded \cup members(job.fresh)
      /\ UNCHANGED <<pools, watched, unoffered, retiring, holding, closing>>
  BY DEF Refused
<1>4. /\ Len(conns') = Len(conns)
      /\ \A c \in Conn : /\ conns'[c].server = conns[c].server
                         /\ c \in members(job.fresh) => conns'[c].state = "closed"
                         /\ c \notin members(job.fresh) => conns'[c] = conns[c]
  BY <1>0, <1>3, MadeFacts, ClosedFacts DEF Conn
<1>5. Conn' = Conn /\ inRetirement' = inRetirement /\ busy' = busy /\ inJob' = {}
  BY <1>3, <1>4 DEF Conn, inRetirement, busy, inJob
<1>6. members(pool) = {} /\ \A s \in Servers : pool[s] = NoConn
  BY <1>2, Typed
<1>7. orphans \cap (inJob \cup inRetirement) = {} /\ inRetirement \cap inJob = {}
      /\ orphans \subseteq Conn /\ inRetirement \subseteq Conn
  BY <1>0, OwnFacts DEF LeakInv, TypeOK
<1>8. LeakInv'
  <2>1. ASSUME NEW c \in Conn, conns'[c].state = "open" PROVE c \in inRetirement \cup orphans
    BY <1>0, <1>2, <1>4, <1>6, <2>1 DEF LeakInv, isOpen
  <2> QED BY <1>3, <1>5, <1>6, <1>7, <2>1 DEF LeakInv, isOpen
<1>9. KeepInv'
  <2>1. \A c \in orphans : conns'[c].state # "closed"
    BY <1>0, <1>2, <1>4, <1>7 DEF KeepInv
  <2>2. ASSUME NEW r \in busy, NEW c \in holding[r].tools \ holding[r].stale,
               c \notin discarded \cup inJob
        PROVE  usable(r, c)'
    <3>1. /\ c \in inRetirement \cup orphans /\ conns[c].state # "closed"
          /\ \A w \in retiring : c \in w.conns => r \in w.until
      BY <1>0, <1>6, <2>2 DEF KeepInv, usable
    <3>2. conns'[c] = conns[c]
      BY <1>2, <1>4, <1>7, <2>2, <3>1
    <3> QED BY <1>3, <1>5, <3>1, <3>2 DEF usable
  <2> QED BY <1>2, <1>3, <1>5, <1>6, <2>1, <2>2 DEF KeepInv
<1>10. owns(pool)' /\ \A s \in Servers \ unoffered' : noticed(s, pool[s])'
  BY <1>3, <1>6 DEF owns, noticed
<1> QED BY <1>3, <1>8, <1>9, <1>10, ConnNoJob

-----------------------------------------------------------------------------
(* Crashes and runs. *)

LEMMA ConnCrash == ASSUME Inv, NEW c \in Conn, Crash(c) PROVE ConnInv'
<1> USE DEF published, watching, queued, work, switches, history, pools, recovery
<1>0. TypeOK /\ JobInv /\ OwnInv /\ LeakInv /\ WatchInv /\ KeepInv
  BY DEF Inv, ConnInv
<1>1. UNCHANGED <<job, pools, retiring, holding, closing, discarded, unoffered>>
  BY DEF Crash
<1>2. conns \in Seq(Entry) /\ conns' = [conns EXCEPT ![c].state = "dead"] /\ conns[c].state = "open"
  BY <1>0, MadeFacts DEF Crash, isOpen
<1>3. conns[c] \in Entry /\ [conns[c] EXCEPT !.state = "dead"] \in Entry
  <2>1. conns[c] \in Entry
    BY <1>2, ElementOfSeq DEF Conn
  <2> QED BY <2>1 DEF Entry
<1>4. /\ Len(conns') = Len(conns) /\ conns'[c].state = "dead" /\ conns'[c].server = conns[c].server
      /\ \A d \in Conn \ {c} : conns'[d] = conns[d]
  <2>1. Len(conns') = Len(conns) /\ \A d \in Conn \ {c} : conns'[d] = conns[d]
    BY <1>2, <1>3, ExceptSeq DEF Conn
  <2>2. conns'[c].state = "dead" /\ conns'[c].server = conns[c].server
    BY <1>2, <1>3, ExceptSeq DEF Conn, Entry
  <2> QED BY <2>1, <2>2
<1>5. Conn' = Conn /\ inJob' = inJob /\ inRetirement' = inRetirement /\ busy' = busy
  BY <1>1, <1>4 DEF Conn, inJob, inRetirement, busy
<1>6. members(pool) \subseteq Conn /\ inJob \subseteq Conn /\ inRetirement \subseteq Conn
      /\ members(job.fresh) \subseteq Conn /\ orphans \subseteq Conn
  BY <1>0, OwnFacts, MadeFacts DEF TypeOK
<1>7. JobInv'
  <2>1. ASSUME job.at = "restoring", NEW d \in members(job.fresh)
        PROVE  conns'[d].state = "closed" /\ d \in discarded
    BY <1>0, <1>2, <1>4, <1>6, <2>1 DEF JobInv
  <2> QED BY <1>0, <1>1, <2>1 DEF JobInv, reloading, reconnecting, ReconnectInv
<1>8. OwnInv'
  <2>1. \A d \in Conn : conns'[d].server = conns[d].server
    BY <1>4
  <2> QED BY <1>0, <1>1, <1>5, <2>1 DEF OwnInv, owns, reloading
<1>9. LeakInv'
  BY <1>0, <1>1, <1>4, <1>5 DEF LeakInv, isOpen
<1>10. WatchInv'
  <2>1. ASSUME NEW s \in Servers, NEW d, d # NoConn => d \in Conn, noticed(s, d)
        PROVE  noticed(s, d)'
    <3>1. SUFFICES ASSUME d # NoConn, conns'[d].state = "open" PROVE watched'[s] = d
      BY DEF noticed, isOpen
    <3>2. d # c /\ conns[d].state = "open" /\ d \in Conn
      BY <1>4, <2>1, <3>1
    <3>3. watched[s] = d
      BY <2>1, <3>1, <3>2 DEF noticed, isOpen
    <3>4. watched' = watched \/ (watched[conns[c].server] = c
                                 /\ watched' = [watched EXCEPT ![conns[c].server] = NoConn])
      BY DEF Crash
    <3>5. watched \in Tools
      BY <1>0 DEF TypeOK
    <3> QED BY <3>2, <3>3, <3>4, <3>5 DEF Tools
  <2>2. \A s \in Servers : pool[s] # NoConn => pool[s] \in Conn
    BY <1>6 DEF members
  <2>3. job.displaced # NoConn => job.displaced \in Conn
    BY <1>0 DEF OwnInv
  <2>4. CASE reloading
    BY <1>1, <2>4 DEF WatchInv, reloading
  <2>5. CASE ~reloading
    <3>1. ASSUME NEW s \in Servers \ unoffered
          PROVE  IF reconnecting(s) /\ job.at \in {"publishing", "failed"}
                 THEN noticed(s, job.displaced)' ELSE noticed(s, pool[s])'
      <4>1. CASE reconnecting(s) /\ job.at \in {"publishing", "failed"}
        <5>1. noticed(s, job.displaced)
          BY <1>0, <2>5, <3>1, <4>1 DEF WatchInv
        <5>2. noticed(s, job.displaced)'
          BY <1>1, <2>1, <2>3, <5>1
        <5> QED BY <4>1, <5>2
      <4>2. CASE ~(reconnecting(s) /\ job.at \in {"publishing", "failed"})
        <5>1. noticed(s, pool[s])
          BY <1>0, <2>5, <3>1, <4>2 DEF WatchInv
        <5>2. noticed(s, pool[s])'
          BY <1>1, <2>1, <2>2, <5>1
        <5> QED BY <4>2, <5>2
      <4> QED BY <4>1, <4>2
    <3>2. \A s : reconnecting(s)' <=> reconnecting(s)
      BY <1>1 DEF reconnecting
    <3> QED BY <1>1, <3>1, <3>2 DEF WatchInv
  <2> QED BY <2>4, <2>5
<1>11. KeepInv'
  <2>1. \A d \in Conn : conns'[d].state = "closed" => conns[d].state = "closed"
    BY <1>4
  <2> QED BY <1>0, <1>1, <1>5, <1>6, <2>1 DEF KeepInv, usable
<1> QED BY <1>7, <1>8, <1>9, <1>10, <1>11 DEF ConnInv

(* The parts of the invariant that do not speak of runs.                    *)
LEMMA ConnOfJob ==
  ASSUME Inv, UNCHANGED <<job, pools, watched, unoffered, discarded>>, kept(conns'), Conn' = Conn
  PROVE  JobInv' /\ OwnInv' /\ WatchInv'
<1> USE DEF pools
<1>0. TypeOK /\ JobInv /\ OwnInv /\ WatchInv
  BY DEF Inv, ConnInv
<1>1. members(job.fresh) \subseteq Conn /\ \A s \in Servers : pool[s] # NoConn => pool[s] \in Conn
  BY <1>0, MadeFacts DEF members
<1>2. JobInv'
  <2>1. ASSUME job.at = "restoring", NEW d \in members(job.fresh)
        PROVE  conns'[d].state = "closed" /\ d \in discarded
    BY <1>0, <1>1, <2>1 DEF JobInv, kept
  <2> QED BY <1>0, <2>1 DEF JobInv, reloading, reconnecting, ReconnectInv
<1>3. OwnInv'
  <2>1. \A d \in Conn : conns'[d].server = conns[d].server
    BY DEF kept
  <2> QED BY <1>0, <2>1 DEF OwnInv, owns, reloading
<1>4. WatchInv'
  <2>1. ASSUME NEW s \in Servers, NEW d, d # NoConn => d \in Conn, noticed(s, d)
        PROVE  d # NoConn /\ conns'[d].state = "open" => watched'[s] = d
    BY <2>1 DEF noticed, isOpen, kept
  <2>2. job.displaced # NoConn => job.displaced \in Conn
    BY <1>0 DEF OwnInv
  <2>3. ASSUME ~reloading, NEW s \in Servers \ unoffered
        PROVE  IF reconnecting(s) /\ job.at \in {"publishing", "failed"}
               THEN noticed(s, job.displaced)' ELSE noticed(s, pool[s])'
    <3>1. CASE reconnecting(s) /\ job.at \in {"publishing", "failed"}
      <4>1. noticed(s, job.displaced)
        BY <1>0, <2>3, <3>1 DEF WatchInv
      <4>2. noticed(s, job.displaced)'
        BY <2>1, <2>2, <4>1 DEF noticed, isOpen
      <4> QED BY <3>1, <4>2
    <3>2. CASE ~(reconnecting(s) /\ job.at \in {"publishing", "failed"})
      <4>1. noticed(s, pool[s])
        BY <1>0, <2>3, <3>2 DEF WatchInv
      <4>2. noticed(s, pool[s])'
        BY <1>1, <2>1, <4>1 DEF noticed, isOpen
      <4> QED BY <3>2, <4>2
    <3> QED BY <3>1, <3>2
  <2>4. (reloading' <=> reloading) /\ \A s : reconnecting(s)' <=> reconnecting(s)
    BY DEF reloading, reconnecting
  <2> QED BY <2>3, <2>4 DEF WatchInv
<1> QED BY <1>2, <1>3, <1>4

LEMMA ConnRunStarts == ASSUME Inv, NEW r \in Runs, RunStarts(r) PROVE ConnInv'
<1> USE DEF published, watching, queued, work, switches, history, pools, recovery
<1>0. TypeOK /\ JobInv /\ LeakInv /\ KeepInv
  BY DEF Inv, ConnInv
<1>1. /\ UNCHANGED <<job, pools, conns, retiring, watched, unoffered, closing, discarded>>
      /\ closing = "no"
      /\ holding' = [holding EXCEPT ![r] =
           [busy |-> TRUE, tools |-> members(graph), stale |-> stale(members(graph))]]
  BY DEF RunStarts
<1>2. Conn' = Conn /\ inJob' = inJob /\ inRetirement' = inRetirement /\ kept(conns')
  BY <1>1 DEF Conn, inJob, inRetirement, kept
<1>3. JobInv' /\ OwnInv' /\ WatchInv'
  BY <1>1, <1>2, ConnOfJob
<1>4. LeakInv'
  BY <1>0, <1>1, <1>2 DEF LeakInv, isOpen
<1>5. KeepInv'
  <2>1. holding \in [Runs -> [busy : BOOLEAN, tools : SUBSET Conn, stale : SUBSET Conn]]
    BY <1>0 DEF TypeOK
  <2>2. ASSUME NEW q \in busy', NEW c \in holding'[q].tools \ holding'[q].stale, c \notin discarded
        PROVE  /\ c \in members(pool) \cup inJob \cup inRetirement \cup orphans
               /\ conns[c].state # "closed"
               /\ \A w \in retiring : c \in w.conns => q \in w.until
    <3>1. CASE q = r
      <4>1. c \in members(pool) \cup inJob \cup orphans
        BY <1>1, <2>1, <2>2, <3>1 DEF stale
      <4>2. c \notin inRetirement
        BY <1>0, <4>1 DEF LeakInv
      <4>3. job.at = "restoring" => inJob \subseteq discarded
        <5>1. SUFFICES ASSUME job.at = "restoring" PROVE inJob \subseteq members(job.fresh)
          BY <1>0 DEF JobInv
        <5>2. job # NoJob
          BY <1>0, <5>1, Idle
        <5> QED BY <1>0, <5>1, <5>2, AtWork, OwnFacts, ReconnectFacts
      <4> QED BY <1>0, <1>1, <2>2, <4>1, <4>2, <4>3 DEF KeepInv, inRetirement
    <3>2. CASE q # r
      <4>1. holding'[q] = holding[q] /\ q \in busy
        BY <1>1, <2>1, <2>2, <3>2 DEF busy
      <4> QED BY <1>0, <2>2, <4>1 DEF KeepInv, usable
    <3> QED BY <3>1, <3>2
  <2> QED BY <1>0, <1>1, <1>2, <2>2 DEF KeepInv, usable
<1> QED BY <1>3, <1>4, <1>5 DEF ConnInv

(* What the end of a run closes no other run holds.                         *)
LEMMA ConnRunEnds == ASSUME Inv, NEW r \in Runs, RunEnds(r) PROVE ConnInv'
<1> USE DEF published, watching, queued, work, switches, history, pools, recovery
<1> DEFINE rest == {[w EXCEPT !.until = @ \ {r}] : w \in retiring}
           over == UNION {w.conns : w \in {x \in rest : x.until = {}}}
<1>0. TypeOK /\ OwnInv /\ LeakInv /\ KeepInv
  BY DEF Inv, ConnInv
<1>1. /\ UNCHANGED <<job, pools, watched, unoffered, closing, discarded>>
      /\ retiring' = {w \in rest : w.until # {}} /\ conns' = closed(over, conns)
      /\ holding' = [holding EXCEPT ![r] = idleRun]
  BY DEF RunEnds
<1>2. /\ Len(conns') = Len(conns)
      /\ \A c \in Conn : /\ conns'[c].server = conns[c].server
                         /\ c \in over => conns'[c].state = "closed"
                         /\ c \notin over => conns'[c] = conns[c]
  <2>1. conns \in Seq(Entry)
    BY <1>0, MadeFacts
  <2> HIDE DEF over
  <2> QED BY <1>1, <2>1, ClosedFacts DEF Conn
<1>3. Conn' = Conn /\ inJob' = inJob /\ kept(conns')
  BY <1>1, <1>2 DEF Conn, inJob, kept
<1>4. JobInv' /\ OwnInv' /\ WatchInv'
  BY <1>1, <1>3, ConnOfJob
<1>5. retiring \subseteq Retiring
  BY <1>0 DEF TypeOK, Retiring
<1>6. \A w \in retiring : LET x == [w EXCEPT !.until = @ \ {r}]
                          IN  x \in rest /\ x.conns = w.conns /\ x.until = w.until \ {r}
  BY <1>5 DEF Retiring
<1>7. \A x \in rest : \E w \in retiring : x.conns = w.conns /\ x.until = w.until \ {r}
  BY <1>5 DEF Retiring
<1>8. over \subseteq inRetirement /\ inRetirement' \subseteq inRetirement
  BY <1>1, <1>7 DEF inRetirement
<1>9. \A c \in inRetirement : c \in over \/ c \in inRetirement'
  <2> TAKE c \in inRetirement
  <2>1. PICK w \in retiring : c \in w.conns
    BY DEF inRetirement
  <2>2. PICK x \in rest : c \in x.conns
    BY <1>6, <2>1
  <2> QED BY <1>1, <2>2 DEF inRetirement
<1>10. over \cap (members(pool) \cup inJob \cup orphans) = {} /\ orphans \subseteq Conn
  BY <1>0, <1>8 DEF LeakInv, TypeOK
<1>11. LeakInv'
  <2>1. ASSUME NEW c \in Conn, conns'[c].state = "open"
        PROVE  c \in members(pool) \cup inJob \cup inRetirement' \cup orphans
    <3>1. c \notin over /\ conns[c].state = "open"
      BY <1>2, <2>1
    <3> QED BY <1>0, <1>9, <2>1, <3>1 DEF LeakInv, isOpen
  <2>2. /\ inRetirement' \cap (members(pool) \cup inJob) = {}
        /\ orphans \cap (members(pool) \cup inJob \cup inRetirement') = {}
    BY <1>0, <1>8 DEF LeakInv
  <2> QED BY <1>1, <1>3, <2>1, <2>2 DEF LeakInv, isOpen
<1>12. KeepInv'
  <2>1. \A c \in members(pool) \cup inJob \cup orphans : conns'[c] = conns[c]
    BY <1>2, <1>10, OwnFacts
  <2>2. ASSUME NEW q \in busy', NEW c \in holding'[q].tools \ holding'[q].stale, c \notin discarded
        PROVE  /\ c \in members(pool) \cup inJob \cup inRetirement' \cup orphans
               /\ conns'[c].state # "closed"
               /\ \A w \in retiring' : c \in w.conns => q \in w.until
    <3>1. holding'[q] = holding[q] /\ q \in busy /\ q # r
      <4>1. holding \in [Runs -> [busy : BOOLEAN, tools : SUBSET Conn, stale : SUBSET Conn]]
        BY <1>0 DEF TypeOK
      <4> QED BY <1>1, <2>2, <4>1 DEF busy, idleRun
    <3>2. /\ c \in members(pool) \cup inJob \cup inRetirement \cup orphans
          /\ conns[c].state # "closed"
          /\ \A w \in retiring : c \in w.conns => q \in w.until
      BY <1>0, <2>2, <3>1 DEF KeepInv, usable
    <3>3. \A x \in rest : c \in x.conns => q \in x.until
      BY <1>7, <3>1, <3>2
    <3>4. c \notin over
      BY <3>3
    <3>5. c \in Conn
      BY <1>10, <3>2, OwnFacts
    <3> QED BY <1>1, <1>2, <1>9, <3>2, <3>3, <3>4, <3>5
  <2> QED BY <1>0, <1>1, <1>3, <2>1, <2>2 DEF KeepInv, usable
<1> QED BY <1>4, <1>11, <1>12 DEF ConnInv

LEMMA ConnCloseEnds == Inv /\ CloseEnds => ConnInv'
<1> SUFFICES ASSUME Inv, CloseEnds PROVE ConnInv'
  OBVIOUS
<1> USE DEF published, watching, queued, work, switches, history, pools, recovery
<1>0. TypeOK /\ OwnInv /\ LeakInv /\ KeepInv
  BY DEF Inv, ConnInv
<1>1. /\ job = NoJob /\ job' = NoJob /\ UNCHANGED pools /\ busy = {} /\ retiring' = {} /\ retiring = {}
      /\ holding' = holding /\ closing' = "closed" /\ conns' = closed(members(pool), conns)
  BY DEF CloseEnds
<1>2. /\ Len(conns') = Len(conns)
      /\ \A c \in Conn : /\ conns'[c].server = conns[c].server
                         /\ c \in members(pool) => conns'[c].state = "closed"
                         /\ c \notin members(pool) => conns'[c] = conns[c]
  BY <1>0, <1>1, MadeFacts, ClosedFacts DEF Conn
<1>3. Conn' = Conn /\ inJob = {} /\ inJob' = {} /\ inRetirement = {} /\ inRetirement' = {} /\ busy' = {}
  BY <1>1, <1>2 DEF Conn, inJob, inRetirement, busy
<1>4. \A c \in Conn : conns'[c].state = "open" => c \in orphans
  BY <1>0, <1>2, <1>3 DEF LeakInv, isOpen
<1>5. owns(pool)'
  BY <1>0, <1>1, <1>2, <1>3 DEF OwnInv, owns
<1>6. LeakInv'
  BY <1>0, <1>1, <1>3, <1>4 DEF LeakInv, isOpen
<1>7. \A s \in Servers \ unoffered' : noticed(s, pool[s])'
  <2>1. \A s \in Servers : pool[s] # NoConn => pool[s] \in Conn
    BY <1>0 DEF OwnInv, owns
  <2>2. \A s \in Servers : pool[s] # NoConn => conns'[pool[s]].state = "closed"
    BY <1>2, <2>1 DEF members
  <2> QED BY <1>1, <2>2 DEF noticed, isOpen
<1>8. KeepInv'
  <2>1. \A c \in orphans : c \in Conn /\ conns'[c] = conns[c]
    BY <1>0, <1>2 DEF LeakInv, TypeOK
  <2> QED BY <1>0, <1>1, <1>3, <2>1 DEF KeepInv
<1> QED BY <1>1, <1>5, <1>6, <1>7, <1>8, ConnNoJob

LEMMA ConnStep == Inv /\ [Next]_vars => ConnInv'
<1> SUFFICES ASSUME Inv, [Next]_vars PROVE ConnInv'
  OBVIOUS
<1> USE DEF published, watching, queued, work, switches, history, pools, recovery
<1>1. CASE DrainPending \/ Reload \/ ReloadSkills \/ vars' = vars
  BY <1>1, ConnQuiet DEF DrainPending, Reload, ReloadSkills, request, vars
<1>2. ASSUME NEW s \in Servers, Toggle(s) \/ ToggleSkill(s) \/ Reconnect(s) \/ Recover(s)
      PROVE  ConnInv'
  BY <1>2, ConnQuiet DEF Toggle, ToggleSkill, Reconnect, Recover, request
<1>3. CASE Close
  BY <1>3, ConnQuiet DEF Close
<1>4. CASE Failed
  BY <1>4, ConnFailedReload, ConnFailedReconnect
<1> QED BY <1>1, <1>2, <1>3, <1>4, ConnUpdateDone, ConnUpdateFails, ConnBeginJob, ConnFlush,
           ConnConnected, ConnConnectFails, ConnRefused, ConnCloseEnds, ConnCrash, ConnRunStarts, ConnRunEnds
        DEF Next

-----------------------------------------------------------------------------
(* The theorems. *)

(* The inductive invariant: types, what a job may hold at each point, who   *)
(* owns a connection, with plugins and without, what is watched, and what   *)
(* runs hold (connectAndSwap, reconnectMcpServerOnce, retireMcpClient).     *)
THEOREM McpInvariant == Spec => []Inv
<1>1. Inv /\ [Next]_vars => Inv'
  BY TypeStep, RequestsStep, PoolStep, UpdateStep, ToolsStep, CloseStep, ConnStep DEF Inv
<1> QED BY <1>1, InitInv, PTL DEF Spec

(* On a host with plugins every open connection has an owner that will      *)
(* close it, and close() leaves none open.  Where the plugins could not be  *)
(* loaded, only what reloads connected before there were plugins has no     *)
(* owner.  Between jobs an open connection of the pool is watched, unless   *)
(* its server had no tools when a failed reload put back those of before    *)
(* (connectAndSwap, reconnectMcpServerOnce, close).                         *)
THEOREM ConnectionsAreKeptAlways == Spec => []ConnectionsAreKept
<1>1. Inv => ConnectionsAreKept
  <2> SUFFICES ASSUME Inv PROVE ConnectionsAreKept
    OBVIOUS
  <2>0. TypeOK /\ LeakInv /\ WatchInv /\ CloseInv /\ PoolInv
    BY DEF Inv, ConnInv
  <2>1. NothingLeaks
    BY <2>0 DEF NothingLeaks, LeakInv, CloseInv, PoolInv, owned, open
  <2>2. PoolIsWatched
    BY <2>0 DEF PoolIsWatched, WatchInv, noticed, reloading, reconnecting
  <2> QED BY <2>1, <2>2 DEF ConnectionsAreKept
<1> QED BY <1>1, McpInvariant, PTL

(* A connection that a run was given is not closed before the run is over,  *)
(* except one that had been replaced already when the run was given it, and *)
(* one that a job closed because the job itself had failed                  *)
(* (retireMcpClient).                                                       *)
THEOREM RunsKeepTheirToolsAlways == Spec => []RunsKeepTheirTools
<1>1. Inv => RunsKeepTheirTools
  <2> SUFFICES ASSUME Inv, NEW r \in busy, NEW c \in holding[r].tools, conns[c].state = "closed",
                      c \notin holding[r].stale
               PROVE  c \in discarded
    BY DEF RunsKeepTheirTools
  <2>1. KeepInv
    BY DEF Inv, ConnInv
  <2> QED BY <2>1 DEF KeepInv, usable
<1> QED BY <1>1, McpInvariant, PTL

=============================================================================
