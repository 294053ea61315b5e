----------------------------- MODULE ThreadLife -----------------------------
(***************************************************************************)
(* What the api-server keeps about one thread besides its runs: AgentHost  *)
(* of apps/api-server/src/agent-host.ts with RunMaintenance, ThreadStore   *)
(* and ThreadActivityStore of packages/storage.                            *)
(*                                                                         *)
(* The end of a run and the answer to an interrupt queue maintenance; a    *)
(* thread's tasks run one after the other.  Deleting the thread fences it, *)
(* drains its runs and its tasks, and removes its rows and its history.    *)
(* The runs are those of RunManager, of which this module keeps what       *)
(* SerialRuns promises: they reach the graph one at a time, in order.      *)
(***************************************************************************)
EXTENDS Integers, Sequences, SequencesExt

CONSTANTS
  MaxRuns,    \* bound: runs started
  MaxTasks,   \* bound: answers are accepted while fewer tasks are queued
  MaxUpsets,  \* bound: faults, client writes and deletions
  Events      \* what else may happen, see AllEvents

(* "fault": a statement of the database fails; "unreadable": the checkpoint *)
(* cannot be read; "write": a client creates the row or edits the history.  *)
AllEvents == {"crash", "fault", "unreadable", "write", "delete"}

ASSUME MaxRunsAssumption == MaxRuns \in Nat
ASSUME EventsAssumption == Events \subseteq AllEvents

VARIABLES
  \* Durable:
  row,       \* the row of `threads`
  indexed,   \* the search index has the thread
  activity,  \* the runs of its rows in thread_activity_events, in order of seq
  history,   \* its checkpoints
  \* In the process:
  started,   \* how many runs were started
  line,      \* the runs not yet over: the first is at the graph or next to reach it
  at,        \* how far the first has come
  resumes,   \* run -> it answers an interrupt
  queue,     \* maintenanceByThread: the tasks not yet over, in order
  deletion,  \* how far the pending deletion has come
  behind,    \* tasks that the deletion still waits for
  fence,     \* deletionFences holds the thread's fence
  \* For the properties:
  upsets,    \* how many upsets there were
  gone,      \* a deletion removed the rows, and nobody has used the thread since
  stale      \* awaitingAction missed an update

durable == <<row, indexed, activity, history>>
turn    == <<started, line, at, resumes>>
erasing == <<deletion, behind, fence>>
ghosts  == <<upsets, gone, stale>>
vars    == <<durable, turn, queue, erasing, ghosts>>

-----------------------------------------------------------------------------

Statuses == {"success", "interrupted", "error", "cancelled"}
Seen     == {"unread", "paused", "settled", "unreadable"}

Rows  == [present : BOOLEAN, unread : BOOLEAN, awaitingAction : BOOLEAN]
NoRow == [present |-> FALSE, unread |-> FALSE, awaitingAction |-> FALSE]

(* A task records the end of a run or clears the action that was answered.  *)
(* "ids", "messages" and "state" wait for the checkpoint.                   *)
Tasks == [kind : {"end", "clear"}, run : 1 .. MaxRuns, status : Statuses,
          at : {"queued", "ids", "paused", "messages", "state", "update"}, seen : Seen]

TypeOK ==
  /\ row \in Rows
  /\ ~row.present => row = NoRow
  /\ indexed \in BOOLEAN
  /\ activity \in Seq(1 .. MaxRuns)
  /\ history \in {"none", "settled", "paused"}
  /\ started \in 0 .. MaxRuns
  /\ line \in Seq(1 .. started)
  /\ at \in {"waiting", "resolving", "running", "paused"}
  /\ resumes \in [1 .. MaxRuns -> BOOLEAN]
  /\ queue \in Seq(Tasks)
  /\ \A i \in 2 .. Len(queue) : queue[i].at = "queued"
  /\ deletion \in {"none", "draining", "waiting", "rejected", "clearing"}
  /\ behind \in 0 .. Len(queue)
  /\ fence \in BOOLEAN
  /\ upsets \in Nat
  /\ gone \in BOOLEAN
  /\ stale \in BOOLEAN

Init ==
  /\ row = NoRow
  /\ indexed = FALSE
  /\ activity = <<>>
  /\ history = "none"
  /\ started = 0
  /\ line = <<>>
  /\ at = "waiting"
  /\ resumes = [r \in 1 .. MaxRuns |-> FALSE]
  /\ queue = <<>>
  /\ deletion = "none"
  /\ behind = 0
  /\ fence = FALSE
  /\ upsets = 0
  /\ gone = FALSE
  /\ stale = FALSE

upset(event) ==
  /\ event \in Events
  /\ upsets < MaxUpsets
  /\ upsets' = upsets + 1

queueThreadMaintenance(kind, r, status) ==
  queue' = Append(queue, [kind |-> kind, run |-> r, status |-> status,
                          at |-> "queued", seen |-> "unread"])

ensured == [row EXCEPT !.present = TRUE]

-----------------------------------------------------------------------------
(* Runs. *)

accepts == ~fence /\ started < MaxRuns

enterLine(resume) ==
  /\ started' = started + 1
  /\ line' = Append(line, started + 1)
  /\ at' = IF line = <<>> THEN "resolving" ELSE at
  /\ resumes' = [resumes EXCEPT ![started + 1] = resume]
  /\ gone' = FALSE

(* run.start *)
Start ==
  /\ accepts
  /\ enterLine(FALSE)
  /\ UNCHANGED <<durable, queue, erasing, upsets, stale>>

(* input.respond starts a run and, before that run can end, queues the      *)
(* update that takes the thread out of the Action filter.                   *)
Respond ==
  /\ accepts
  /\ history = "paused"
  /\ Len(queue) < MaxTasks
  /\ enterLine(TRUE)
  /\ queueThreadMaintenance("clear", started + 1, "success")
  /\ UNCHANGED <<durable, erasing, upsets, stale>>

(* resolveTurn builds the agent and makes sure of the thread's row.         *)
resolveTurn ==
  /\ line # <<>> /\ at = "resolving"
  /\ row' = ensured
  /\ at' = "running"
  /\ UNCHANGED <<indexed, activity, history, started, line, resumes, queue, erasing, ghosts>>

(* The graph records an interrupt and tells the client, which may answer    *)
(* before the run is over.                                                  *)
Interrupt ==
  /\ line # <<>> /\ at = "running"
  /\ history' = "paused"
  /\ at' = "paused"
  /\ UNCHANGED <<row, indexed, activity, started, line, resumes, queue, erasing, ghosts>>

(* The first run ends, cancelled if another one waits for its turn.  While  *)
(* the thread is being deleted an end is not reported.                      *)
EndRun(status) ==
  /\ line # <<>>
  /\ Len(line) > 1 => status = "cancelled"
  /\ \/ at = "resolving" /\ status \in {"error", "cancelled"} /\ UNCHANGED history
     \/ at = "paused" /\ status \in {"interrupted", "cancelled"} /\ UNCHANGED history
     \/ at = "running" /\ status = "success" /\ history' = "settled"
     \/ at = "running" /\ status \in {"error", "cancelled"} /\ history' \in {history, "settled"}
  /\ line' = Tail(line)
  /\ at' = IF Len(line) = 1 THEN "waiting" ELSE "resolving"
  /\ IF fence THEN UNCHANGED queue
     ELSE queueThreadMaintenance("end", Head(line), status)
  /\ UNCHANGED <<row, indexed, activity, started, resumes, erasing, ghosts>>

-----------------------------------------------------------------------------
(* Tasks.  Only the first of the queue is at work. *)

MutAtWork(i) == i \in 1 .. Len(queue)   \* each starts as soon as it is queued
atWork(i)    == i = 1 /\ queue # <<>>

advance(i, where) == queue' = [queue EXCEPT ![i].at = where]

(* A task is over; one that the deletion waits for may have failed.         *)
finish(i, failed) ==
  /\ queue' = RemoveAt(queue, i)
  /\ IF behind = 0 THEN UNCHANGED <<deletion, behind>>
     ELSE /\ behind' = behind - 1
          /\ deletion' = IF behind = 1 /\ failed THEN "rejected" ELSE deletion
  /\ UNCHANGED fence

appendActivity(r) ==
  activity' = IF r \in ToSet(activity) THEN activity ELSE Append(activity, r)

(* clearThreadAwaitingAction; an update of a row that is gone does nothing. *)
ClearAwaitingAction(i) ==
  /\ atWork(i)
  /\ queue[i].kind = "clear"
  /\ row' = IF row.present THEN [row EXCEPT !.awaitingAction = FALSE] ELSE row
  /\ finish(i, FALSE)
  /\ UNCHANGED <<indexed, activity, history, turn, upsets, gone, stale>>

TaskBegins(i) ==
  /\ atWork(i)
  /\ queue[i].kind = "end" /\ queue[i].at = "queued"
  /\ IF queue[i].status = "interrupted"
     THEN advance(i, "ids") /\ UNCHANGED row
     ELSE advance(i, "messages") /\ row' = ensured
  /\ UNCHANGED <<indexed, activity, history, turn, erasing, ghosts>>

(* An interrupt is shown before the messages are read. *)
InterruptIdsRead(i) ==
  /\ atWork(i)
  /\ queue[i].at = "ids"
  /\ row' = [present |-> TRUE, unread |-> TRUE, awaitingAction |-> TRUE]
  /\ advance(i, "paused")
  /\ UNCHANGED <<indexed, activity, history, turn, erasing, ghosts>>

(* reindexThread gives up when the checkpoint cannot be read.               *)
InterruptIndexed(i) ==
  /\ atWork(i)
  /\ queue[i].at = "paused"
  /\ \/ indexed' = TRUE
     \/ "unreadable" \in Events /\ UNCHANGED indexed
  /\ appendActivity(queue[i].run)
  /\ finish(i, FALSE)
  /\ UNCHANGED <<row, history, turn, upsets, gone, stale>>

MessagesIndexed(i) ==
  /\ atWork(i)
  /\ queue[i].at = "messages"
  /\ \/ indexed' = TRUE
     \/ "unreadable" \in Events /\ UNCHANGED indexed
  /\ advance(i, "state")
  /\ UNCHANGED <<row, activity, history, turn, erasing, ghosts>>

(* The checkpoint is read when the title is done, maybe in a later run.     *)
StateRead(i) ==
  /\ atWork(i)
  /\ queue[i].at = "state"
  /\ \E seen \in {IF history = "paused" THEN "paused" ELSE "settled"} \cup
               (Events \cap {"unreadable"}) :
       queue' = [queue EXCEPT ![i].at = "update", ![i].seen = seen]
  /\ UNCHANGED <<durable, turn, erasing, ghosts>>

MutAwaits(t) ==                      \* the run was not interrupted
  FALSE

(* readThreadAwaitingAction *)
awaits(t) ==
  \/ t.seen = "paused"
  \/ t.seen = "unreadable" /\ (resumes[t.run] \/ row.awaitingAction)

RunRecorded(i) ==
  /\ atWork(i)
  /\ queue[i].at = "update"
  /\ LET t == queue[i]
     IN  /\ row' = IF row.present
                   THEN [row EXCEPT !.awaitingAction = awaits(t),
                                    !.unread = @ \/ t.status \in {"success", "error"}]
                   ELSE row
         /\ appendActivity(t.run)
         /\ stale' = (\/ t.seen = "unreadable"
                      \/ stale /\ ~((t.seen = "paused") = (history = "paused")
                                    /\ Len(queue) = 1 /\ line = <<>>))
  /\ finish(i, FALSE)
  /\ UNCHANGED <<indexed, history, turn, upsets, gone>>

(* A statement of the task fails: the activity is recorded all the same.    *)
TaskFails(i) ==
  /\ atWork(i)
  /\ upset("fault")
  /\ IF queue[i].kind = "end" THEN appendActivity(queue[i].run) ELSE UNCHANGED activity
  /\ finish(i, TRUE)
  /\ stale' = TRUE
  /\ UNCHANGED <<row, indexed, history, turn, gone>>

-----------------------------------------------------------------------------
(* Deletion. *)

(* A second request shares the pending deletion; a retry finds the fence of *)
(* the one that failed.                                                     *)
deleteThread ==
  /\ deletion = "none"
  /\ upset("delete")
  /\ deletion' = IF fence THEN "waiting" ELSE "draining"
  /\ behind' = IF fence THEN Len(queue) ELSE 0
  /\ fence' = TRUE
  /\ UNCHANGED <<durable, turn, queue, gone, stale>>

MutRunsDrained ==                    \* does not wait for the maintenance
  /\ deletion = "draining"
  /\ line = <<>>
  /\ deletion' = "waiting"
  /\ UNCHANGED <<durable, turn, queue, behind, fence, ghosts>>

runsDrained ==
  /\ deletion = "draining"
  /\ line = <<>>
  /\ deletion' = "waiting"
  /\ behind' = Len(queue)
  /\ UNCHANGED <<durable, turn, queue, fence, ghosts>>

(* The deletion ends with an error.  The thread stays fenced. *)
MutRejectKept ==                     \* the deletion stays pending
  UNCHANGED <<deletion, fence>>

reject ==
  /\ deletion' = "none"
  /\ UNCHANGED fence

MaintenanceFailed ==
  /\ deletion = "rejected"
  /\ reject
  /\ UNCHANGED <<durable, turn, queue, behind, ghosts>>

removed ==
  /\ activity' = <<>>
  /\ row' = NoRow
  /\ indexed' = FALSE

DeleteRows ==
  /\ deletion = "waiting" /\ behind = 0
  /\ removed
  /\ deletion' = "clearing"
  /\ gone' = TRUE
  /\ UNCHANGED <<history, turn, queue, behind, fence, upsets, stale>>

DeleteRowsFails ==
  /\ deletion = "waiting" /\ behind = 0
  /\ upset("fault")
  /\ \/ UNCHANGED <<activity, row, indexed>>
     \/ activity' = <<>> /\ UNCHANGED <<row, indexed>>
     \/ activity' = <<>> /\ row' = NoRow /\ UNCHANGED indexed
  /\ reject
  /\ UNCHANGED <<history, turn, queue, behind, gone, stale>>

DeleteHistory ==
  /\ deletion = "clearing"
  /\ history' = "none"
  /\ deletion' = "none"
  /\ fence' = FALSE
  /\ UNCHANGED <<row, indexed, activity, turn, queue, behind, ghosts>>

DeleteHistoryFails ==
  /\ deletion = "clearing"
  /\ upset("fault")
  /\ reject
  /\ UNCHANGED <<durable, turn, queue, behind, gone, stale>>

-----------------------------------------------------------------------------

(* POST /threads and POST /threads/:id/state are not fenced. *)
ClientWrites ==
  /\ upset("write")
  /\ \/ row' = ensured /\ UNCHANGED history
     \/ history' \in {"settled", "paused"} /\ UNCHANGED row
  /\ gone' = FALSE
  /\ stale' = TRUE
  /\ UNCHANGED <<indexed, activity, turn, queue, erasing>>

(* The process dies and is started again.  A deletion cut short is not      *)
(* resumed.                                                                 *)
Crash ==
  /\ upset("crash")
  /\ line' = <<>>
  /\ at' = "waiting"
  /\ queue' = <<>>
  /\ deletion' = "none"
  /\ behind' = 0
  /\ fence' = FALSE
  /\ history' \in IF at = "running"
                  THEN {history, "settled", "paused"} ELSE {history}
  /\ gone' = (gone /\ ~fence)
  /\ stale' = TRUE
  /\ UNCHANGED <<row, indexed, activity, started, resumes>>

Next ==
  \/ Start \/ Respond \/ resolveTurn \/ Interrupt \/ \E status \in Statuses : EndRun(status)
  \/ \E i \in 1 .. Len(queue) :
       \/ ClearAwaitingAction(i) \/ TaskBegins(i) \/ InterruptIdsRead(i)
       \/ InterruptIndexed(i) \/ MessagesIndexed(i) \/ StateRead(i) \/ RunRecorded(i)
       \/ TaskFails(i)
  \/ deleteThread \/ runsDrained \/ MaintenanceFailed
  \/ DeleteRows \/ DeleteRowsFails \/ DeleteHistory \/ DeleteHistoryFails
  \/ ClientWrites \/ Crash

(* Runs end (an aborted one because the graph honours the signal), the      *)
(* checkpoint and the title model answer.                                   *)
Fairness ==
  /\ WF_vars(resolveTurn) /\ WF_vars(\E status \in Statuses : EndRun(status))
  /\ WF_vars(\E i \in 1 .. Len(queue) :
               \/ ClearAwaitingAction(i) \/ TaskBegins(i) \/ InterruptIdsRead(i)
               \/ InterruptIndexed(i) \/ MessagesIndexed(i) \/ StateRead(i)
               \/ RunRecorded(i))
  /\ WF_vars(runsDrained \/ MaintenanceFailed)
  /\ WF_vars(DeleteRows) /\ WF_vars(DeleteHistory)

Spec == Init /\ [][Next]_vars /\ Fairness

-----------------------------------------------------------------------------
(* Properties. *)

(* A thread that was deleted stays deleted: no run that was still settling, *)
(* no task that was still queued and no failed deletion brings back a row,  *)
(* or lets a new run see the old history.                                   *)
DeletedStaysDeleted ==
  gone => /\ ~row.present /\ ~indexed /\ activity = <<>>
          /\ ~fence => history = "none"

(* A paused thread is not lost from the Action filter, and one that was     *)
(* answered does not come back to it: once its runs and tasks are done, the *)
(* row says what the history says, however late a task read it.             *)
ActionIsShown ==
  line = <<>> /\ queue = <<>> /\ row.present /\ ~fence /\ ~stale
  => (row.awaitingAction <=> history = "paused")

(* The activity names each reported end once, in the order of the runs.     *)
ActivityInOrder ==
  \A i, j \in 1 .. Len(activity) : i < j => activity[i] < activity[j]

(* The state is well formed, and the delayed maintenance of runs leaves the *)
(* row and the activity as their histories have it.                         *)
MaintenanceKeepsUp == TypeOK /\ ActionIsShown /\ ActivityInOrder

(* Liveness: a deletion comes to an end. *)
DeletionEnds ==
  deletion # "none" ~> deletion = "none"

=============================================================================
