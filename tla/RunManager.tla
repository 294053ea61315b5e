----------------------------- MODULE RunManager -----------------------------
(***************************************************************************)
(* The in-process run registry of the api-server, the class                *)
(* ProtocolRunManager of apps/api-server/src/protocol-run-manager.ts.      *)
(*                                                                         *)
(* A thread has one current run.  Starting a run on a busy thread          *)
(* supersedes the current one: it is aborted, and the replacement reaches  *)
(* the graph only once it has settled.  A run stamps the frames of its     *)
(* graph stream with a registry-wide sequence number and keeps the last    *)
(* BufferCap of them for replay.  Deleting a thread fences it, silences    *)
(* and drains its runs; shutdown refuses new runs and drains all of them.  *)
(*                                                                         *)
(* JavaScript runs a handler up to its next await without interruption, so *)
(* one action is one such segment.  A run is named by the order in which   *)
(* start created it: run 1 is the first RunState, run 2 the second.        *)
(***************************************************************************)
EXTENDS Integers, Sequences, FiniteSets

CONSTANTS
  Threads,    \* thread ids
  NoThread,   \* the thread of a RunState that does not exist yet
  Observers,  \* the open event streams that may park on the registry
  StreamKinds,\* the kinds of frame the graph's stream emits
  MaxRuns,    \* bound: how often start is called
  Stoppable,  \* bound: the runs cancelAndWait is called on, once each
  MaxFrames,  \* bound: the graph emits frames while seqCounter is below it
  BufferCap   \* capacity of a run's replay buffer

ASSUME NoThreadAssumption == NoThread \notin Threads
ASSUME MaxRunsAssumption  == MaxRuns \in Nat
ASSUME BufferCapAssumption == BufferCap \in Nat \ {0}
ASSUME StreamKindsAssumption ==
  StreamKinds \subseteq {"delta", "completed", "failed", "interrupted"}

VARIABLES
  runs,        \* thread -> its current run, the map `runs`
  created,     \* how many RunStates exist
  thread,      \* run -> its thread
  phase,       \* run -> how far it has come, see Phases
  prior,       \* run -> the run that must settle before it reaches the graph
  aborted,     \* run -> its AbortController has fired
  discarded,   \* run -> its end is not reported
  sawTerminal, \* run -> it has sent a terminal root lifecycle frame
  interrupted, \* run -> its stream sent an "interrupted" one
  evictTimer,  \* run -> its eviction timer is armed
  buffer,      \* run -> the frames kept for replay
  dropped,     \* run -> how many frames its ring buffer evicted
  seqCounter,  \* the next frame's sequence number
  ended,       \* run -> the status onEnd listeners were given, or "none"
  stop,        \* run -> state of the cancelAndWait call on it
  deletion,    \* thread -> its fence and the discardThread call behind it
  shutdown,    \* the shutdown call and the runs it awaits
  waiters,     \* run -> observers parked until it makes progress
  runWaiters   \* thread -> observers parked until a run makes progress there

registryVars == <<runs, created, thread, deletion, shutdown>>
pumpVars     == <<phase, prior, sawTerminal, interrupted>>
frameVars    == <<buffer, dropped, seqCounter>>
endVars      == <<discarded, evictTimer, ended>>
parkVars     == <<waiters, runWaiters>>

vars == <<registryVars, pumpVars, aborted, frameVars, endVars, stop, parkVars>>

-----------------------------------------------------------------------------

NoRun == 0
Runs  == 1 .. MaxRuns

(* "queued" waits for the superseded run to settle; "streaming" iterates    *)
(* the graph's stream; "draining" has left the loop on an abort and waits   *)
(* for the stream's own cleanup.  In the last two the graph is at work.     *)
Phases    == {"unused", "queued", "streaming", "draining", "done"}
Executing == {"streaming", "draining"}

Statuses      == {"success", "interrupted", "error", "cancelled"}
TerminalKinds == {"completed", "failed", "interrupted", "cancelled"}
FrameKinds    == {"delta"} \cup TerminalKinds
Frames        == [seq : Nat, kind : FrameKinds]

Deletions == [phase : {"none", "draining", "fenced"},
              current : Runs \cup {NoRun}, awaited : SUBSET Runs]
Shutdowns == [phase : {"open", "closing", "closed"}, awaited : SUBSET Runs]

TypeOK ==
  /\ runs \in [Threads -> Runs \cup {NoRun}]
  /\ created \in 0 .. MaxRuns
  /\ thread \in [Runs -> Threads \cup {NoThread}]
  /\ phase \in [Runs -> Phases]
  /\ prior \in [Runs -> Runs \cup {NoRun}]
  /\ aborted \in [Runs -> BOOLEAN]
  /\ discarded \in [Runs -> BOOLEAN]
  /\ sawTerminal \in [Runs -> BOOLEAN]
  /\ interrupted \in [Runs -> BOOLEAN]
  /\ evictTimer \in [Runs -> BOOLEAN]
  /\ buffer \in [Runs -> Seq(Frames)]
  /\ \A r \in Runs : Len(buffer[r]) <= BufferCap
  /\ dropped \in [Runs -> Nat]
  /\ seqCounter \in Nat
  /\ ended \in [Runs -> Statuses \cup {"none"}]
  /\ stop \in [Runs -> {"none", "waiting", "settled", "timedOut"}]
  /\ deletion \in [Threads -> Deletions]
  /\ shutdown \in Shutdowns
  /\ waiters \in [Runs -> SUBSET Observers]
  /\ runWaiters \in [Threads -> SUBSET Observers]

IsDone(r)  == phase[r] = "done"
activeRuns == {r \in Runs : phase[r] \notin {"unused", "done"}}
ThreadRuns(t) == {r \in Runs : thread[r] = t}

MutActiveOf(t) == activeRuns \cap {runs[t]}  \* forgets the superseded runs
activeOf(t)    == activeRuns \cap ThreadRuns(t)

MutIsRunning(t) == runs[t] # NoRun /\ phase[runs[t]] = "streaming"
isRunning(t)    == runs[t] # NoRun /\ ~IsDone(runs[t])

MutClosing == shutdown.phase = "closed"  \* raised once the runs are drained
closing    == shutdown.phase # "open"

MutThreadsBeingDeleted == {t \in Threads : deletion[t].phase = "draining"}
threadsBeingDeleted    == {t \in Threads : deletion[t].phase # "none"}

NoDeletion == [phase |-> "none", current |-> NoRun, awaited |-> {}]

Init ==
  /\ runs = [t \in Threads |-> NoRun]
  /\ created = 0
  /\ thread = [r \in Runs |-> NoThread]
  /\ phase = [r \in Runs |-> "unused"]
  /\ prior = [r \in Runs |-> NoRun]
  /\ aborted = [r \in Runs |-> FALSE]
  /\ discarded = [r \in Runs |-> FALSE]
  /\ sawTerminal = [r \in Runs |-> FALSE]
  /\ interrupted = [r \in Runs |-> FALSE]
  /\ evictTimer = [r \in Runs |-> FALSE]
  /\ buffer = [r \in Runs |-> <<>>]
  /\ dropped = [r \in Runs |-> 0]
  /\ seqCounter = 0
  /\ ended = [r \in Runs |-> "none"]
  /\ stop = [r \in Runs |-> "none"]
  /\ deletion = [t \in Threads |-> NoDeletion]
  /\ shutdown = [phase |-> "open", awaited |-> {}]
  /\ waiters = [r \in Runs |-> {}]
  /\ runWaiters = [t \in Threads |-> {}]

-----------------------------------------------------------------------------
(* Frames, and the end of a run. *)

MutWake(r) ==                        \* forgets those waiting for a run
  /\ waiters' = [waiters EXCEPT ![r] = {}]
  /\ UNCHANGED runWaiters

wake(r) ==
  /\ waiters' = [waiters EXCEPT ![r] = {}]
  /\ runWaiters' = [runWaiters EXCEPT ![thread[r]] = {}]

\* Frames are numbered per run.
MutAppendCountsPerRun(r, kind) ==
  /\ buffer' = [buffer EXCEPT ![r] =
       <<[seq |-> IF @ = <<>> THEN 0 ELSE @[1].seq + 1, kind |-> kind]>>]
  /\ dropped' = [dropped EXCEPT ![r] = IF buffer[r] = <<>> THEN @ ELSE @ + 1]
  /\ seqCounter' = seqCounter + 1

append(r, kind) ==
  LET frames == Append(buffer[r], [seq |-> seqCounter, kind |-> kind])
      full   == Len(frames) > BufferCap
  IN  /\ buffer' = [buffer EXCEPT ![r] = IF full THEN Tail(frames) ELSE frames]
      /\ dropped' = [dropped EXCEPT ![r] = IF full THEN @ + 1 ELSE @]
      /\ seqCounter' = seqCounter + 1

finish(r, status) ==
  /\ phase' = [phase EXCEPT ![r] = "done"]
  /\ evictTimer' = [evictTimer EXCEPT ![r] = ~discarded[r]]
  /\ ended' = IF discarded[r] THEN ended ELSE [ended EXCEPT ![r] = status]
  /\ wake(r)
  /\ UNCHANGED <<prior, interrupted, aborted, discarded>>

\* A stopped run is not announced.
MutDecideSilentStop(abort, superseded, terminal, interrupt, failed) ==
  [synthesize |-> IF abort \/ terminal THEN "none" ELSE "completed",
   status |-> IF abort THEN "cancelled" ELSE "success"]

\* A superseded run is announced like a stopped one.
MutDecideIgnoresSupersession(abort, superseded, terminal, interrupt, failed) ==
  [synthesize |-> IF abort THEN "cancelled" ELSE IF terminal THEN "none" ELSE "completed",
   status |-> IF abort THEN "cancelled" ELSE "success"]

decideTerminal(abort, superseded, terminal, interrupt, failed) ==
  IF abort
  THEN [synthesize |-> IF superseded THEN "none" ELSE "cancelled",
        status |-> "cancelled"]
  ELSE [synthesize |-> IF terminal THEN "none" ELSE "completed",
        status |-> IF interrupt THEN "interrupted"
                   ELSE IF failed THEN "error" ELSE "success"]

(* The tail of pump, once the stream is over. *)
settlePump(r) ==
  LET outcome == decideTerminal(aborted[r], runs[thread[r]] # r, sawTerminal[r],
                                interrupted[r], FALSE)
  IN  /\ IF outcome.synthesize = "none"
         THEN UNCHANGED <<frameVars, sawTerminal>>
         ELSE /\ append(r, outcome.synthesize)
              /\ sawTerminal' = [sawTerminal EXCEPT ![r] = TRUE]
      /\ finish(r, outcome.status)

-----------------------------------------------------------------------------
(* Starting a run, and its pump. *)

MutSupersede(t) == UNCHANGED aborted
supersede(t)    == aborted' = [aborted EXCEPT ![runs[t]] = TRUE]

start(t) ==
  LET new == created + 1
  IN  /\ ~closing
      /\ t \notin threadsBeingDeleted
      /\ created < MaxRuns
      /\ created' = new
      /\ runs' = [runs EXCEPT ![t] = new]
      /\ thread' = [thread EXCEPT ![new] = t]
      /\ IF isRunning(t)
         THEN /\ phase' = [phase EXCEPT ![new] = "queued"]
              /\ prior' = [prior EXCEPT ![new] = runs[t]]
              /\ supersede(t)
         ELSE /\ phase' = [phase EXCEPT ![new] = "streaming"]
              /\ UNCHANGED <<prior, aborted>>
      /\ evictTimer' = [r \in Runs |-> evictTimer[r] /\ r # runs[t]]
      /\ UNCHANGED <<discarded, sawTerminal, interrupted, frameVars, ended, stop,
                     deletion, shutdown, parkVars>>

MutInTurn(r)         == TRUE        \* does not wait for the superseded run
MutInTurnOrStopped(r) == IsDone(prior[r]) \/ aborted[r]
MutInTurnUnlessStopped(r) == IsDone(prior[r]) /\ ~aborted[r]
inTurn(r)            == IsDone(prior[r])

(* The continuation of priorSettled: a run aborted while it was queued ends *)
(* without ever reaching the graph.                                         *)
PriorSettled(r) ==
  /\ phase[r] = "queued"
  /\ inTurn(r)
  /\ IF aborted[r]
     THEN finish(r, "cancelled")
     ELSE /\ phase' = [phase EXCEPT ![r] = "streaming"]
          /\ prior' = [prior EXCEPT ![r] = NoRun]
          /\ UNCHANGED <<interrupted, aborted, endVars, parkVars>>
  /\ UNCHANGED <<registryVars, sawTerminal, frameVars, stop>>

(* The stream yields one frame. *)
StreamFrame(r, kind) ==
  /\ phase[r] = "streaming"
  /\ ~aborted[r]
  /\ seqCounter < MaxFrames
  /\ append(r, kind)
  /\ sawTerminal' = [sawTerminal EXCEPT ![r] = @ \/ kind \in TerminalKinds]
  /\ interrupted' = [interrupted EXCEPT ![r] = @ \/ kind = "interrupted"]
  /\ wake(r)
  /\ UNCHANGED <<registryVars, phase, prior, aborted, endVars, stop>>

(* The stream yields one frame after the abort: it is dropped, and leaving  *)
(* the loop asks the stream to clean up.                                    *)
StreamBreak(r) ==
  /\ phase[r] = "streaming"
  /\ aborted[r]
  /\ phase' = [phase EXCEPT ![r] = "draining"]
  /\ UNCHANGED <<registryVars, prior, sawTerminal, interrupted, aborted, frameVars,
                 endVars, stop, parkVars>>

(* The stream, or its cleanup, is over; an error after the abort counts as  *)
(* the end.                                                                 *)
StreamEnd(r) ==
  /\ phase[r] \in Executing
  /\ settlePump(r)
  /\ UNCHANGED <<registryVars, stop>>

(* The stream throws before any abort. *)
StreamThrow(r) ==
  /\ phase[r] = "streaming"
  /\ ~aborted[r]
  /\ append(r, "failed")
  /\ sawTerminal' = [sawTerminal EXCEPT ![r] = TRUE]
  /\ finish(r, decideTerminal(FALSE, FALSE, TRUE, interrupted[r], TRUE).status)
  /\ UNCHANGED <<registryVars, stop>>

(* The eviction timer of a finished run fires. *)
MutEvict(r) ==                       \* evicts whatever run is registered
  /\ evictTimer[r]
  /\ evictTimer' = [evictTimer EXCEPT ![r] = FALSE]
  /\ runs' = [runs EXCEPT ![thread[r]] = NoRun]
  /\ UNCHANGED <<created, thread, deletion, shutdown, pumpVars, aborted, frameVars,
                 discarded, ended, stop, parkVars>>

Evict(r) ==
  /\ evictTimer[r]
  /\ evictTimer' = [evictTimer EXCEPT ![r] = FALSE]
  /\ runs' = [runs EXCEPT ![thread[r]] = IF @ = r THEN NoRun ELSE @]
  /\ UNCHANGED <<created, thread, deletion, shutdown, pumpVars, aborted, frameVars,
                 discarded, ended, stop, parkVars>>

-----------------------------------------------------------------------------
(* Stopping runs. *)

(* cancel: a request that names a run other than the current one, or finds  *)
(* none running, changes nothing.                                           *)
cancel(t) ==
  /\ isRunning(t)
  /\ aborted' = [aborted EXCEPT ![runs[t]] = TRUE]
  /\ UNCHANGED <<registryVars, pumpVars, frameVars, endVars, stop, parkVars>>

cancelAndWait(t) ==
  /\ isRunning(t)
  /\ runs[t] \in Stoppable
  /\ stop[runs[t]] = "none"
  /\ aborted' = [aborted EXCEPT ![runs[t]] = TRUE]
  /\ stop' = [stop EXCEPT ![runs[t]] = "waiting"]
  /\ UNCHANGED <<registryVars, pumpVars, frameVars, endVars, parkVars>>

(* Promise.race in settlesWithin: the run settled, or the deadline passed.  *)
settlesWithin(r) ==
  /\ stop[r] = "waiting"
  /\ stop' = [stop EXCEPT ![r] = IF IsDone(r) THEN "settled" ELSE "timedOut"]
  /\ UNCHANGED <<registryVars, pumpVars, aborted, frameVars, endVars, parkVars>>

MutAbortAll(rs) == UNCHANGED aborted
abortAll(rs)    == aborted' = [r \in Runs |-> aborted[r] \/ r \in rs]

(* Deleting a thread.  Its caller (AgentHost.deleteThread) shares one call  *)
(* per thread and holds the fence through the cleanup of durable state.     *)
beginThreadDeletion(t) ==
  LET active == activeOf(t)
  IN  /\ t \notin threadsBeingDeleted
      /\ deletion' = [deletion EXCEPT ![t] =
                        [phase |-> "draining", current |-> runs[t], awaited |-> active]]
      /\ runWaiters' = [runWaiters EXCEPT ![t] = {}]
      /\ discarded' = [r \in Runs |-> discarded[r] \/ r \in active]
      /\ abortAll(active)
      /\ evictTimer' = [r \in Runs |-> evictTimer[r] /\ r # runs[t]]
      /\ UNCHANGED <<runs, created, thread, shutdown, pumpVars, frameVars, ended,
                     stop, waiters>>

(* discardThread resumes after Promise.all. *)
ThreadDrained(t) ==
  /\ deletion[t].phase = "draining"
  /\ \A r \in deletion[t].awaited : IsDone(r)
  /\ deletion' = [deletion EXCEPT ![t] =
                    [phase |-> "fenced", current |-> NoRun, awaited |-> {}]]
  /\ runs' = [runs EXCEPT ![t] = IF @ = deletion[t].current THEN NoRun ELSE @]
  /\ UNCHANGED <<created, thread, shutdown, pumpVars, aborted, frameVars, endVars,
                 stop, parkVars>>

(* The caller releases the fence. *)
releaseThread(t) ==
  /\ deletion[t].phase = "fenced"
  /\ deletion' = [deletion EXCEPT ![t] = NoDeletion]
  /\ UNCHANGED <<runs, created, thread, shutdown, pumpVars, aborted, frameVars,
                 endVars, stop, parkVars>>

Shutdown ==
  /\ ~closing
  /\ shutdown' = [phase |-> "closing", awaited |-> activeRuns]
  /\ abortAll(activeRuns)
  /\ UNCHANGED <<runs, created, thread, deletion, pumpVars, frameVars, endVars,
                 stop, parkVars>>

whenIdle ==
  /\ shutdown.phase = "closing"
  /\ \A r \in shutdown.awaited : IsDone(r)
  /\ shutdown' = [phase |-> "closed", awaited |-> {}]
  /\ UNCHANGED <<runs, created, thread, deletion, pumpVars, aborted, frameVars,
                 endVars, stop, parkVars>>

-----------------------------------------------------------------------------

Next ==
  \/ \E t \in Threads :
       \/ start(t) \/ cancel(t) \/ cancelAndWait(t)
       \/ beginThreadDeletion(t) \/ ThreadDrained(t) \/ releaseThread(t)
  \/ \E r \in Runs :
       \/ PriorSettled(r) \/ StreamBreak(r) \/ StreamEnd(r) \/ StreamThrow(r)
       \/ Evict(r) \/ settlesWithin(r)
       \/ \E kind \in StreamKinds : StreamFrame(r, kind)
  \/ Shutdown \/ whenIdle

(* The microtasks of the event loop run; and a graph stream honours its     *)
(* AbortSignal: an aborted run's stream ends.  Nothing obliges a run that   *)
(* was not aborted to end, and nothing waits for a timer.                   *)
Fairness ==
  /\ \A r \in Runs : /\ WF_vars(PriorSettled(r))
                     /\ WF_vars(aborted[r] /\ StreamEnd(r))
  /\ \A t \in Threads : WF_vars(ThreadDrained(t))
  /\ WF_vars(whenIdle)

Spec == Init /\ [][Next]_vars /\ Fairness

-----------------------------------------------------------------------------
(* Safety. *)

(* At most one run of a thread is at work in the graph, so no two runs      *)
(* write the thread's checkpoints at once, whatever mix of restarts, stops, *)
(* evictions and deletions the thread has seen.                             *)
SerialExecution ==
  \A r, q \in Runs :
    /\ phase[r] \in Executing
    /\ phase[q] \in Executing
    /\ thread[r] = thread[q]
    => r = q

(* A run that is still active but no longer the registered run of its       *)
(* thread has been aborted: a stop can no longer name it, so it must not be *)
(* left running.                                                            *)
OrphansAreAborted ==
  \A r \in activeRuns : runs[thread[r]] # r => aborted[r]

(* Frames of an earlier run of a thread are numbered below those of a later *)
(* one: an observer that follows replacement runs keeps one `since` filter. *)
SequenceFollowsRuns ==
  \A r, q \in Runs :
    r < q /\ thread[r] = thread[q]
    => \A i \in 1 .. Len(buffer[r]), j \in 1 .. Len(buffer[q]) :
         buffer[r][i].seq < buffer[q][j].seq

(* A stop answered with settled: true leaves nothing at work on the thread  *)
(* but runs started after it: neither the stopped run nor one it superseded. *)
StopLeavesNoneAtWork ==
  \A r, q \in Runs :
    /\ stop[r] = "settled"
    /\ q <= r
    /\ thread[q] = thread[r]
    => q \notin activeRuns

(* While the caller of beginThreadDeletion holds the fence and deletes the  *)
(* thread's durable state, no run of the thread can recreate it.            *)
FenceHolds ==
  \A t \in Threads :
    deletion[t].phase = "fenced"
    => runs[t] = NoRun /\ activeRuns \cap ThreadRuns(t) = {}

(* Once shutdown resolved no run is active, though runs may have been       *)
(* queued behind others when it was called.                                 *)
ShutdownLeavesNoneAtWork ==
  shutdown.phase = "closed" => activeRuns = {}

(* No stop, deletion or shutdown that was carried out overlooks a run.      *)
StopsReachAll ==
  /\ TypeOK
  /\ OrphansAreAborted /\ StopLeavesNoneAtWork /\ FenceHolds /\ ShutdownLeavesNoneAtWork

(* A registered run that was let into the graph and ended has sent its      *)
(* observers a terminal frame: their loading state is cleared.              *)
SettledRunAnnounced ==
  \A t \in Threads :
    LET r == runs[t]
    IN  /\ r # NoRun
        /\ IsDone(r)
        /\ prior[r] = NoRun
        => sawTerminal[r]

(* No frame is sent by a run that has been replaced.                        *)
ReplacedRunsAreSilent ==
  [][\A r \in Runs :
       \/ buffer'[r] = buffer[r] /\ dropped'[r] = dropped[r]
       \/ runs[thread[r]] = r]_vars

(* No run end is reported for a thread that is being deleted, be it of the  *)
(* current run, of one it superseded or of one queued behind it: the        *)
(* listeners would write the deleted thread's records again.                *)
DeletionIsSilent ==
  [][\A r \in Runs :
       ended'[r] # ended[r] => thread[r] \notin threadsBeingDeleted]_vars

(* What is over for its observers says nothing more: neither a replaced run *)
(* nor one whose thread is being deleted.                                   *)
SilentOnceOver == ReplacedRunsAreSilent /\ DeletionIsSilent

(* Only a finished run leaves the registry without a replacement: an old    *)
(* run's eviction timer never evicts the run that replaced it.              *)
EvictionSparesActive ==
  [][\A t \in Threads :
       runs[t] # NoRun /\ runs'[t] = NoRun => IsDone(runs[t])]_vars

(* Refinement: the runs of a thread take their turn at the graph one at a   *)
(* time and in the order of their starts.                                   *)
Serial == INSTANCE SerialRuns WITH
  executing <- [t \in Threads |->
                  {r \in ThreadRuns(t) : phase[r] \in Executing}],
  over      <- [t \in Threads |-> {r \in ThreadRuns(t) : IsDone(r)}]

TakesTurns == Serial!SerialSpec

-----------------------------------------------------------------------------
(* Liveness. *)

(* What waits for the registry: aborted runs for their end, queued ones for *)
(* their turn, deletions and a shutdown for runs to be drained.             *)
Waiting ==
  \/ \E r \in Runs : aborted[r] /\ ~IsDone(r)
  \/ \E r \in Runs : phase[r] = "queued"
  \/ \E t \in Threads : deletion[t].phase = "draining"
  \/ shutdown.phase = "closing"

(* No run, deletion or shutdown waits for the others for ever: an aborted   *)
(* run ends, even when it is queued behind others, a replacement starts,    *)
(* a deletion is not held up and shutdown resolves.                         *)
NothingHangs == Waiting ~> ~Waiting

=============================================================================
