------------------------------- MODULE Plugins -------------------------------
(***************************************************************************)
(* A user's plugin on disk and in the server: its import and removal       *)
(* (installPlugin and deletePlugin of apps/api-server/src/agent-host.ts),  *)
(* the reloads that make it live (reloadPlugins), and the snapshots that a *)
(* materializer generates for it (packages/plugin-sdk/src/materializer.ts).*)
(*                                                                         *)
(* There is one name.  Requests for it share its directory and its cache;  *)
(* reloads take turns on one chain of promises.  An action is what happens *)
(* between two awaits on the file system, and the process may die at any.  *)
(***************************************************************************)
EXTENDS Integers, Sequences, FiniteSets

CONSTANTS
  Requests,      \* requests of clients
  Sync,          \* reasons for which the materializer runs
  MaxSnapshots,  \* bound: snapshots ever made
  MaxUpsets      \* bound: crashes and failures

Reasons == {"install", "startup", "manual"}
ASSUME SyncAssumption == Sync \subseteq Reasons

VARIABLES
  \* On disk:
  dir,       \* the plugin's directory
  cache,     \* its materializations
  \* In the server:
  loaded,    \* what pluginsImpl has of the plugin
  reloads,   \* the chain of reloads, its first at work
  at,        \* where that one is
  next,      \* what it has loaded
  request,   \* request -> what it is for and where it is
  \* The world:
  made,      \* snapshots made so far
  upsets,    \* crashes and failures so far
  latest,    \* ghost: the last import or removal that began
  crossed,   \* ghost: one began while another was under way
  unmended   \* ghost: a step failed that nothing makes up for

disk   == <<dir, cache>>
reload == <<loaded, reloads, at, next>>
ghosts == <<latest, crossed, unmended>>
pluginVars   == <<disk, reload, request, made, upsets, ghosts>>

-----------------------------------------------------------------------------

None == 0
Dir  == -1   \* the plugin is loaded from its directory

ASSUME RequestsAssumption == None \notin Requests
ASSUME BoundsAssumption   == MaxSnapshots \in Nat /\ MaxUpsets \in Nat

Kinds == {"plain", "materialized"}

(* A directory without its manifest is not a plugin; "rest" are the files   *)
(* that are written after it.                                               *)
Directory == [exists : BOOLEAN, manifest : BOOLEAN, rest : BOOLEAN, kind : Kinds]
Absent(d) == ~d.exists /\ ~d.manifest /\ ~d.rest

(* state is the snapshot that state.json names.                             *)
Snapshot == 1 .. MaxSnapshots
Cache    == [exists : BOOLEAN, state : Snapshot \cup {None}, snaps : SUBSET Snapshot]
NoCache  == [exists |-> FALSE, state |-> None, snaps |-> {}]

(* prev is the snapshot to fall back on; failed: its materialization is in  *)
(* the state "error".                                                       *)
Loaded   == [root : Snapshot \cup {None, Dir}, whole : BOOLEAN, prev : Snapshot \cup {None},
             failed : BOOLEAN]
NoPlugin == [root |-> None, whole |-> FALSE, prev |-> None, failed |-> FALSE]
Error    == [NoPlugin EXCEPT !.failed = TRUE]
From(root, whole) == [root |-> root, whole |-> whole, prev |-> None, failed |-> FALSE]

Stages == {"idle", "manifest", "rest", "reloading",            \* import
           "dirLeft", "cacheLeft", "restoring",                \* its rollback
           "found", "stopping", "unlinking", "purging",        \* removal
           "done", "failed", "refused", "lost"}
Request == [kind : {"none", "import", "removal", "reload"}, at : Stages, mended : BOOLEAN]

PluginTypeOK ==
  /\ dir \in Directory /\ (dir.manifest \/ dir.rest => dir.exists)
  /\ cache \in Cache
  /\ loaded \in Loaded
  /\ reloads \in Seq([reason : Reasons, by : Requests \cup {None}])
  /\ at \in {"idle", "syncing", "renamed", "connecting"}
  /\ next \in Loaded
  /\ request \in [Requests -> Request]
  /\ made \in 0 .. MaxSnapshots
  /\ upsets \in 0 .. MaxUpsets
  /\ latest \in Requests \cup {None}
  /\ {crossed, unmended} \subseteq BOOLEAN

boot == <<[reason |-> "startup", by |-> None]>>

PluginInit ==
  /\ dir = [exists |-> FALSE, manifest |-> FALSE, rest |-> FALSE, kind |-> "plain"]
  /\ cache = NoCache
  /\ loaded = NoPlugin
  /\ reloads = boot
  /\ at = "idle"
  /\ next = NoPlugin
  /\ request = [r \in Requests |-> [kind |-> "none", at |-> "idle", mended |-> TRUE]]
  /\ made = 0
  /\ upsets = 0
  /\ latest = None
  /\ crossed = FALSE
  /\ unmended = FALSE

over(r) == request[r].at \in {"idle", "done", "failed", "refused", "lost"}
changing == {r \in Requests : ~over(r) /\ request[r].kind # "reload"}

(* The start of the server loads the plugins before it takes requests.      *)
warm == \A i \in 1 .. Len(reloads) : reloads[i].reason # "startup"

upset == upsets < MaxUpsets /\ upsets' = upsets + 1

go(r, where) == request' = [request EXCEPT ![r].at = where]

begin(r, kind, where) ==
  /\ warm
  /\ request[r].at = "idle"
  /\ request' = [request EXCEPT ![r].kind = kind, ![r].at = where]

enqueue(reason, r) == reloads' = Append(reloads, [reason |-> reason, by |-> r])

wipe == dir' = [dir EXCEPT !.exists = FALSE, !.manifest = FALSE, !.rest = FALSE]

takesOver(r) ==
  /\ latest' = r
  /\ crossed' = (crossed \/ changing # {})
  /\ UNCHANGED unmended

-----------------------------------------------------------------------------
(* POST /plugins/import. *)

(* A directory of that name, whatever is in it, refuses the import.         *)
Import(r, kind) ==
  /\ IF dir.exists
     THEN begin(r, "import", "refused") /\ UNCHANGED <<dir, ghosts>>
     ELSE /\ begin(r, "import", "manifest")
          /\ dir' = [dir EXCEPT !.exists = TRUE, !.kind = kind]
          /\ takesOver(r)
  /\ UNCHANGED <<cache, reload, made, upsets>>

(* The files are written in order of their names, .claude-plugin first, and *)
(* the directories they need are made again if they are gone.               *)
WriteManifest(r) ==
  /\ request[r].at = "manifest"
  /\ dir' = [dir EXCEPT !.exists = TRUE, !.manifest = TRUE]
  /\ go(r, "rest")
  /\ UNCHANGED <<cache, reload, made, upsets, ghosts>>

WriteRest(r) ==
  /\ request[r].at = "rest"
  /\ dir' = [dir EXCEPT !.exists = TRUE, !.rest = TRUE]
  /\ go(r, "reloading")
  /\ enqueue("install", r)
  /\ UNCHANGED <<cache, loaded, at, next, made, upsets, ghosts>>

(* A file that cannot be written: the directory goes, without a reload.     *)
WriteFails(r) ==
  /\ request[r].at \in {"manifest", "rest"}
  /\ upset
  /\ wipe
  /\ go(r, "failed")
  /\ unmended' = TRUE
  /\ UNCHANGED <<cache, reload, made, latest, crossed>>

(* The rollback of an import that could not be loaded.                      *)
RollBackDir(r) ==
  /\ request[r].at = "dirLeft"
  /\ wipe
  /\ go(r, "cacheLeft")
  /\ UNCHANGED <<cache, reload, made, upsets, ghosts>>

RollBackCache(r) ==
  /\ request[r].at = "cacheLeft"
  /\ cache' = NoCache
  /\ go(r, "restoring")
  /\ enqueue("manual", r)
  /\ UNCHANGED <<dir, loaded, at, next, made, upsets, ghosts>>

-----------------------------------------------------------------------------
(* DELETE /plugins/:name and POST /plugins/reload. *)

Remove(r) ==
  /\ IF dir.manifest
     THEN begin(r, "removal", "found") /\ takesOver(r)
     ELSE begin(r, "removal", "refused") /\ UNCHANGED ghosts
  /\ UNCHANGED <<disk, reload, made, upsets>>

MutDropManifest(r) ==               \* leaves that to the removal of the directory
  /\ request[r].at = "found"
  /\ go(r, "stopping")
  /\ enqueue("manual", r)
  /\ UNCHANGED <<disk, loaded, at, next, made, upsets, ghosts>>

(* Without its manifest the plugin is not found by the reload, which stops  *)
(* its servers.                                                             *)
DropManifest(r) ==
  /\ request[r].at = "found"
  /\ dir' = [dir EXCEPT !.manifest = FALSE]
  /\ go(r, "stopping")
  /\ enqueue("manual", r)
  /\ UNCHANGED <<cache, loaded, at, next, made, upsets, ghosts>>

RemoveDir(r) ==
  /\ request[r].at = "unlinking"
  /\ wipe
  /\ go(r, "purging")
  /\ UNCHANGED <<cache, reload, made, upsets, ghosts>>

(* A file that is held open keeps the directory, and the rest of the        *)
(* removal is not tried.                                                    *)
RemoveDirFails(r) ==
  /\ request[r].at = "unlinking"
  /\ upset
  /\ go(r, "failed")
  /\ unmended' = TRUE
  /\ UNCHANGED <<disk, reload, made, latest, crossed>>

Purge(r) ==
  /\ request[r].at = "purging"
  /\ cache' = NoCache
  /\ go(r, IF request[r].mended THEN "done" ELSE "failed")
  /\ UNCHANGED <<dir, reload, made, upsets, ghosts>>

AskReload(r) ==
  /\ begin(r, "reload", "reloading")
  /\ enqueue("manual", r)
  /\ UNCHANGED <<disk, loaded, at, next, made, upsets, ghosts>>

-----------------------------------------------------------------------------
(* A reload: loadPlugins with materializePlugin, then connectAndSwap. *)

step(where, plugin) == at' = where /\ next' = plugin

MutKept == {}                       \* the last good snapshot goes as well
kept    == cache.snaps \cap {cache.state}

snapshotOf(prev) ==
  IF prev \in cache.snaps THEN From(prev, TRUE) ELSE Error

(* The plugin is looked up.  A materializer that does not run for this      *)
(* reason leaves the last snapshot; one that runs starts with an empty      *)
(* staging directory, after all other snapshots were pruned.                *)
BeginReload ==
  /\ at = "idle"
  /\ reloads # <<>>
  /\ IF ~dir.manifest THEN step("connecting", NoPlugin) /\ UNCHANGED cache
     ELSE IF dir.kind = "plain" THEN step("connecting", From(Dir, dir.rest)) /\ UNCHANGED cache
     ELSE IF Head(reloads).reason \notin Sync
     THEN step("connecting", snapshotOf(cache.state)) /\ UNCHANGED cache
     ELSE /\ step("syncing", [NoPlugin EXCEPT !.prev = cache.state])
          /\ cache' = [cache EXCEPT !.exists = TRUE, !.snaps = kept]
  /\ UNCHANGED <<dir, loaded, reloads, request, made, upsets, ghosts>>

MutSynced ==                        \* state.json is written first
  /\ at = "syncing"
  /\ cache.exists
  /\ made < MaxSnapshots
  /\ made' = made + 1
  /\ cache' = [cache EXCEPT !.state = made']
  /\ step("renamed", [next EXCEPT !.root = made'])
  /\ UNCHANGED <<dir, loaded, reloads, request, upsets, ghosts>>

(* The materializer has filled the staging directory, and what it made is   *)
(* valid: it becomes a snapshot.  It may not need the files that are not    *)
(* there yet, or no longer.                                                 *)
Synced ==
  /\ at = "syncing"
  /\ cache.exists
  /\ made < MaxSnapshots
  /\ made' = made + 1
  /\ cache' = [cache EXCEPT !.snaps = @ \cup {made'}]
  /\ step("renamed", [next EXCEPT !.root = made'])
  /\ UNCHANGED <<dir, loaded, reloads, request, upsets, ghosts>>

StateWritten ==
  /\ at = "renamed"
  /\ cache.exists
  /\ cache' = [cache EXCEPT !.state = next.root]
  /\ step("connecting", From(next.root, TRUE))
  /\ UNCHANGED <<dir, loaded, reloads, request, made, upsets, ghosts>>

(* It fails, times out, makes something invalid or finds its directories    *)
(* gone: the last good snapshot stays in use.                               *)
SyncFails ==
  /\ at \in {"syncing", "renamed"}
  /\ IF cache.exists /\ (dir.rest \/ at = "renamed") THEN upset ELSE UNCHANGED upsets
  /\ step("connecting", snapshotOf(next.prev))
  /\ UNCHANGED <<disk, loaded, reloads, request, made, ghosts>>

(* The reload at the head has ended: whoever waits for it goes on.          *)
answered(ok) ==
  LET r == Head(reloads).by
      where ==
        CASE request[r].kind = "reload"  -> IF ok THEN "done" ELSE "failed"
          [] request[r].kind = "removal" -> "unlinking"
          [] request[r].at = "restoring" -> "failed"
          [] OTHER -> IF ok /\ ~next.failed THEN "done" ELSE "dirLeft"
  IN  /\ reloads' = Tail(reloads)
      /\ step("idle", NoPlugin)
      /\ IF r = None THEN UNCHANGED request
         ELSE request' = [request EXCEPT ![r].at = where, ![r].mended = ok]

(* The servers are connected and the graph has the new skills and tools.    *)
Swapped ==
  /\ at = "connecting"
  /\ loaded' = next
  /\ answered(TRUE)
  /\ UNCHANGED <<disk, made, upsets, ghosts>>

(* They are not: the host goes on with what it had.  The first load leaves  *)
(* the connections to a later job.                                          *)
SwapFails ==
  /\ at = "connecting"
  /\ warm
  /\ upset
  /\ answered(FALSE)
  /\ unmended' = (\/ unmended
                  \/ next.root \in Snapshot /\ next.root # loaded.root
                  \/ request[Head(reloads).by].at \in {"stopping", "restoring"})
  /\ UNCHANGED <<disk, loaded, made, latest, crossed>>

(* The process dies and is started again. *)
Crash ==
  /\ upset
  /\ loaded' = NoPlugin
  /\ reloads' = boot
  /\ step("idle", NoPlugin)
  /\ request' = [r \in Requests |-> IF over(r) THEN request[r]
                                    ELSE [request[r] EXCEPT !.at = "lost"]]
  /\ UNCHANGED <<disk, made, ghosts>>

PluginNext ==
  \/ \E r \in Requests :
       \/ \E kind \in Kinds : Import(r, kind)
       \/ WriteManifest(r) \/ WriteRest(r) \/ WriteFails(r)
       \/ RollBackDir(r) \/ RollBackCache(r)
       \/ Remove(r) \/ DropManifest(r) \/ RemoveDir(r) \/ RemoveDirFails(r) \/ Purge(r)
       \/ AskReload(r)
  \/ BeginReload \/ Synced \/ StateWritten \/ SyncFails \/ Swapped \/ SwapFails
  \/ Crash

PluginSpec == PluginInit /\ [][PluginNext]_pluginVars

-----------------------------------------------------------------------------

onDisk(root) ==
  CASE root = None -> TRUE
    [] root = Dir  -> dir.manifest
    [] OTHER       -> root \in cache.snaps

(* Whatever step of a synchronization, a rollback or a removal the process  *)
(* dies at, state.json names a snapshot that is there: a start of the       *)
(* server has the last good one to fall back on.                            *)
LastGoodIsKept == cache.state \in cache.snaps \cup {None}

(* The files of the plugin that the host uses stay where they are, while    *)
(* reloads synchronize, fail and are cut short, unless the plugin is just   *)
(* being imported or removed.                                               *)
FilesInUseStay ==
  crossed \/ unmended \/ changing # {} \/ onDisk(loaded.root)

(* The state is well formed, and the files that the host uses or will fall  *)
(* back on are not pruned.                                                  *)
FilesStay == PluginTypeOK /\ LastGoodIsKept /\ FilesInUseStay

(* The answer of the last import or removal describes what is there from    *)
(* then on, across reloads and restarts: an import that succeeded has made  *)
(* the plugin live, one that failed and a removal have left nothing.        *)
AnswersHold ==
  latest # None /\ ~crossed /\ ~unmended
  => LET r == request[latest]
     IN  CASE r.kind = "import" /\ r.at = "done" ->
                /\ dir.manifest /\ dir.rest
                /\ warm => loaded.root # None /\ loaded.whole
           [] \/ r.kind = "import" /\ r.at = "failed"
              \/ r.kind = "removal" /\ r.at = "done" ->
                Absent(dir) /\ cache.state = None /\ loaded.root = None
           [] OTHER -> TRUE

=============================================================================
