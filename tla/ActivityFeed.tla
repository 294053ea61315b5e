---------------------------- MODULE ActivityFeed ----------------------------
(***************************************************************************)
(* How the desktop shell learns that runs have finished: the store of      *)
(* activity events (packages/storage/src/thread-activity.ts), the stream   *)
(* GET /threads/activity/events (apps/api-server/src/routes-threads.ts)    *)
(* and the watcher that reads it and notifies                              *)
(* (apps/desktop-shell/src/thread-activity-watcher.ts).                    *)
(*                                                                         *)
(* Sources are the servers that the shell can be connected to.  A          *)
(* connection that the watcher has aborted has no further effect, so only  *)
(* the present one is modelled.  Time is left out: heartbeats, time limits *)
(* and the delays before connecting again come at any time.                *)
(***************************************************************************)
EXTENDS Naturals, Sequences, FiniteSets, SequencesExt, FiniteSetsExt

CONSTANTS
  Sources, NoSource,
  ThreadIds,
  NoCursor,
  RETAINED_EVENTS,
  BatchLimit,    \* limit of listAfter
  MaxEvents,     \* bound: events appended to all the stores
  MaxDrops,      \* bound: connections lost
  MaxChanges     \* bound: calls of setConnection

ASSUME NamesAssumption == NoSource \notin Sources /\ NoCursor \notin Nat
ASSUME LimitsAssumption == RETAINED_EVENTS \in Nat /\ BatchLimit \in Nat \ {0}

VARIABLES
  db,       \* source -> its rows, and the outcomes of all it has ever had
  handler,  \* the server's side of the connection
  wire,     \* what the server has sent and the watcher has not received
  source, cursor,  \* connection.sourceId, cursor of the watcher
  line,     \* its side of the connection
  told,     \* the events it has notified of
  from,     \* how many events its source had when it asked without a cursor
  drops, changes   \* so far

vars == <<db, handler, wire, source, cursor, line, told, from, drops, changes>>

-----------------------------------------------------------------------------

Row     == [seq : Nat, thread : ThreadIds]
Message == [event : {"ready", "activity"}, n : Nat]

TypeOK ==
  /\ db \in [Sources -> [rows : SUBSET Row, loud : Seq(BOOLEAN)]]
  /\ handler \in [at : {"none", "scanning", "writing", "parked"}, cursor : Nat,
                  batch : SUBSET Nat]
  /\ wire \in Seq(Message)
  /\ source \in Sources \cup {NoSource}
  /\ cursor \in Nat \cup {NoCursor}
  /\ line \in {"idle", "connecting", "open", "waiting", "stopped"}
  /\ told \in Seq(Sources \X Nat)
  /\ from \in Nat /\ drops \in Nat /\ changes \in Nat

none == [at |-> "none", cursor |-> 0, batch |-> {}]

Init ==
  /\ db = [s \in Sources |-> [rows |-> {}, loud |-> <<>>]]
  /\ handler = none /\ wire = <<>>
  /\ source = NoSource /\ cursor = NoCursor /\ line = "idle"
  /\ told = <<>> /\ from = 0
  /\ drops = 0 /\ changes = 0

-----------------------------------------------------------------------------
(* The store. *)

seqs(s)      == {r.seq : r \in db[s].rows}
latestSeq(s) == Max({0} \cup seqs(s))
listAfter(s, n) ==
  LET later == {m \in seqs(s) : m > n}
  IN  {m \in later : Cardinality({k \in later : k <= m}) <= BatchLimit}

(* append(): the event gets a number that was never given, old ones are     *)
(* removed, and the stream that waits for changes wakes up.  Cancelled runs *)
(* are not worth notifying of.                                              *)
append(s, t, loud) ==
  LET seq  == Len(db[s].loud) + 1
      kept == {r \in db[s].rows : r.seq > seq - RETAINED_EVENTS}
  IN  db' = [db EXCEPT ![s] = [rows |-> kept \cup {[seq |-> seq, thread |-> t]},
                               loud |-> Append(@.loud, loud)]]

appended == FoldSet(LAMBDA s, sum : sum + Len(db[s].loud), 0, Sources)

woken(s) == s = source /\ handler.at = "parked"

MutAppended(s, t, loud) ==
  /\ appended < MaxEvents
  /\ append(s, t, loud)
  /\ UNCHANGED <<handler, wire, source, cursor, line, told, from, drops, changes>>

Appended(s, t, loud) ==
  /\ appended < MaxEvents
  /\ append(s, t, loud)
  /\ handler' = IF woken(s) THEN [handler EXCEPT !.at = "scanning"] ELSE handler
  /\ UNCHANGED <<wire, source, cursor, line, told, from, drops, changes>>

deleteByThread(s, t) ==
  /\ \E r \in db[s].rows : r.thread = t
  /\ db' = [db EXCEPT ![s].rows = {r \in @ : r.thread # t}]
  /\ UNCHANGED <<handler, wire, source, cursor, line, told, from, drops, changes>>

-----------------------------------------------------------------------------
(* The stream. *)

(* A request is answered: it says where it starts, and sends what is later. *)
MutAccept ==
  /\ line = "connecting"
  /\ LET start == latestSeq(source)
     IN  /\ handler' = [at |-> "scanning", cursor |-> start, batch |-> {}]
         /\ wire' = <<[event |-> "ready", n |-> start]>>
  /\ line' = "open"
  /\ UNCHANGED <<db, source, cursor, told, from, drops, changes>>

Accept ==
  /\ line = "connecting"
  /\ LET start == IF cursor = NoCursor THEN latestSeq(source) ELSE cursor
     IN  /\ handler' = [at |-> "scanning", cursor |-> start, batch |-> {}]
         /\ wire' = <<[event |-> "ready", n |-> start]>>
  /\ line' = "open"
  /\ UNCHANGED <<db, source, cursor, told, from, drops, changes>>

Scan ==
  /\ handler.at = "scanning"
  /\ LET events == listAfter(source, handler.cursor)
     IN  handler' = [handler EXCEPT !.at = IF events = {} THEN "parked" ELSE "writing",
                                    !.batch = events]
  /\ UNCHANGED <<db, wire, source, cursor, line, told, from, drops, changes>>

(* The first of the batch is sent. *)
Write ==
  /\ handler.at = "writing"
  /\ \E n \in handler.batch :
       /\ \A m \in handler.batch : n <= m
       /\ wire' = Append(wire, [event |-> "activity", n |-> n])
       /\ handler' = [at     |-> IF handler.batch = {n} THEN "scanning" ELSE "writing",
                      cursor |-> n,
                      batch  |-> handler.batch \ {n}]
  /\ UNCHANGED <<db, source, cursor, line, told, from, drops, changes>>

Heartbeat ==
  /\ handler.at = "parked"
  /\ handler' = [handler EXCEPT !.at = "scanning"]
  /\ UNCHANGED <<db, wire, source, cursor, line, told, from, drops, changes>>

(* The server or the network fails: some of what was sent still arrives.    *)
Drop ==
  /\ handler.at # "none"
  /\ drops < MaxDrops
  /\ drops' = drops + 1
  /\ handler' = none
  /\ \E n \in 0 .. Len(wire) : wire' = SubSeq(wire, 1, n)
  /\ UNCHANGED <<db, source, cursor, line, told, from, changes>>

-----------------------------------------------------------------------------
(* The watcher. *)

(* connect(): what was connected before is aborted.                         *)
connect(s, since) ==
  /\ source' = s /\ cursor' = since
  /\ line' = "connecting"
  /\ handler' = none /\ wire' = <<>>
  /\ from' = IF since = NoCursor THEN Len(db[s].loud) ELSE from

setConnection(s) ==
  /\ line # "stopped"
  /\ changes < MaxChanges
  /\ changes' = changes + 1
  /\ connect(s, IF s = source THEN cursor ELSE NoCursor)
  /\ UNCHANGED <<db, told, drops>>

stop ==
  /\ line # "stopped"
  /\ line' = "stopped"
  /\ handler' = none /\ wire' = <<>>
  /\ UNCHANGED <<db, source, cursor, told, from, drops, changes>>

(* The request fails or takes too long.                                     *)
ConnectFails ==
  /\ line = "connecting"
  /\ drops < MaxDrops
  /\ drops' = drops + 1
  /\ line' = "waiting"
  /\ UNCHANGED <<db, handler, wire, source, cursor, told, from, changes>>

MutClosed ==
  /\ line = "open" /\ handler.at = "none" /\ wire = <<>>
  /\ line' = "idle"
  /\ UNCHANGED <<db, handler, wire, source, cursor, told, from, drops, changes>>

(* All that could be read is read, and then nothing for too long.           *)
Closed ==
  /\ line = "open" /\ handler.at = "none" /\ wire = <<>>
  /\ line' = "waiting"
  /\ UNCHANGED <<db, handler, wire, source, cursor, told, from, drops, changes>>

Reconnect ==
  /\ line = "waiting"
  /\ connect(source, cursor)
  /\ UNCHANGED <<db, told, drops, changes>>

onReady(n) ==
  /\ cursor' = IF cursor = NoCursor THEN n ELSE cursor
  /\ UNCHANGED told

onActivity(n) ==
  /\ cursor' = IF cursor = NoCursor \/ n > cursor THEN n ELSE cursor
  /\ told' = IF cursor # NoCursor /\ n > cursor /\ db[source].loud[n]
             THEN Append(told, <<source, n>>) ELSE told

Receive ==
  /\ line = "open" /\ wire # <<>>
  /\ wire' = Tail(wire)
  /\ IF Head(wire).event = "ready" THEN onReady(Head(wire).n) ELSE onActivity(Head(wire).n)
  /\ UNCHANGED <<db, handler, source, line, from, drops, changes>>

-----------------------------------------------------------------------------

Next ==
  \/ \E s \in Sources :
       \/ \E t \in ThreadIds, loud \in BOOLEAN : Appended(s, t, loud)
       \/ \E t \in ThreadIds : deleteByThread(s, t)
       \/ setConnection(s)
  \/ Accept \/ Scan \/ Write \/ Heartbeat \/ Drop
  \/ stop \/ ConnectFails \/ Closed \/ Reconnect \/ Receive

(* The server and the watcher go on; nothing rests on heartbeats.           *)
Spec ==
  /\ Init
  /\ [][Next]_vars
  /\ WF_vars(Accept) /\ WF_vars(Scan) /\ WF_vars(Write)
  /\ WF_vars(Closed) /\ WF_vars(Reconnect) /\ WF_vars(Receive)

-----------------------------------------------------------------------------

(* The stream sleeps only when it has sent all that is stored: an event     *)
(* that is appended while it scans or writes does not wait for a heartbeat. *)
SleepsOnlyWhenDone ==
  handler.at = "parked" => \A n \in seqs(source) : n <= handler.cursor

Consistent == TypeOK /\ SleepsOnlyWhenDone

(* A watcher that is not stopped comes to follow its source, and when       *)
(* nothing more happens it has read all that is stored there.               *)
CatchesUp ==
  <>[](\/ source = NoSource \/ line = "stopped"
       \/ cursor # NoCursor /\ \A n \in seqs(source) : n <= cursor)

(* The store, the stream and the watcher together keep the promise of       *)
(* ActivityLog, whatever connections are lost or replaced.                  *)
Log == INSTANCE ActivityLog WITH
  loud   <- [s \in Sources |-> db[s].loud],
  stored <- [s \in Sources |-> seqs(s)],
  at     <- source,
  pos    <- cursor

ToldOfTheLog == Log!Spec

=============================================================================
