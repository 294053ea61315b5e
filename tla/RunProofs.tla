------------------------------ MODULE RunProofs ------------------------------
(***************************************************************************)
(* Proofs about RunManager and RunStream, for every set of threads and     *)
(* observers, every kind of frame the graph may emit and of filter, every  *)
(* size of the replay buffer and every bound on runs and frames.           *)
(***************************************************************************)
EXTENDS RunStream, TLAPS, SequenceTheorems, WellFoundedInduction

-----------------------------------------------------------------------------
(* What the helpers of the registry return. *)

(* append leaves the other runs' buffers alone, and the run's own buffer    *)
(* holds frames it held before and the new one.                             *)
LEMMA AppendFacts ==
  ASSUME TypeOK, NEW r \in Runs, NEW kind \in FrameKinds, append(r, kind)
  PROVE  /\ buffer' \in [Runs -> Seq(Frames)]
         /\ \A q \in Runs : Len(buffer'[q]) <= BufferCap
         /\ dropped' \in [Runs -> Nat]
         /\ seqCounter' = seqCounter + 1
         /\ seqCounter' \in Nat
         /\ \A q \in Runs \ {r} : buffer'[q] = buffer[q] /\ dropped'[q] = dropped[q]
         /\ \A i \in 1 .. Len(buffer'[r]) :
              \/ buffer'[r][i].seq = seqCounter
              \/ \E j \in 1 .. Len(buffer[r]) : buffer'[r][i] = buffer[r][j]
<1> DEFINE frame  == [seq |-> seqCounter, kind |-> kind]
           frames == Append(buffer[r], frame)
           kept   == IF Len(frames) > BufferCap THEN Tail(frames) ELSE frames
<1>1. frame \in Frames /\ buffer[r] \in Seq(Frames)
  BY DEF TypeOK, Frames
<1>2. /\ frames \in Seq(Frames)
      /\ frames # <<>>
      /\ Len(frames) = Len(buffer[r]) + 1
      /\ \A i \in 1 .. Len(buffer[r]) : frames[i] = buffer[r][i]
      /\ frames[Len(buffer[r]) + 1] = frame
  BY <1>1, AppendProperties
<1> HIDE DEF frames
<1>3. /\ Tail(frames) \in Seq(Frames)
      /\ Len(Tail(frames)) = Len(frames) - 1
      /\ \A i \in 1 .. Len(Tail(frames)) : Tail(frames)[i] = frames[i + 1]
  BY <1>2, HeadTailProperties
<1>4. kept \in Seq(Frames)
  BY <1>2, <1>3
<1>5. \A i \in 1 .. Len(kept) :
        kept[i] = frame \/ \E j \in 1 .. Len(buffer[r]) : kept[i] = buffer[r][j]
  <2>1. Len(buffer[r]) \in Nat
    BY <1>1, LenProperties
  <2>2. \A i \in 1 .. Len(frames) :
          frames[i] = frame \/ \E j \in 1 .. Len(buffer[r]) : frames[i] = buffer[r][j]
    BY <1>2, <2>1
  <2>3. \A i \in 1 .. Len(Tail(frames)) : i + 1 \in 1 .. Len(frames)
    BY <1>2, <1>3, <2>1
  <2> QED BY <1>3, <2>2, <2>3
<1>a. Len(kept) <= BufferCap
  <2>1. Len(buffer[r]) \in Nat /\ Len(buffer[r]) <= BufferCap
    BY <1>1, LenProperties DEF TypeOK
  <2> QED BY <1>2, <1>3, <2>1, BufferCapAssumption
<1>6. buffer' = [buffer EXCEPT ![r] = kept]
  BY DEF append, frames
<1> HIDE DEF kept
<1>7. /\ buffer' \in [Runs -> Seq(Frames)] /\ buffer'[r] = kept
      /\ \A q \in Runs : Len(buffer'[q]) <= BufferCap
  BY <1>4, <1>a, <1>6 DEF TypeOK
<1>8. \A q \in Runs \ {r} : buffer'[q] = buffer[q] /\ dropped'[q] = dropped[q]
  BY <1>6 DEF TypeOK, append
<1>9. dropped' \in [Runs -> Nat] /\ seqCounter' = seqCounter + 1 /\ seqCounter' \in Nat
  BY DEF append, TypeOK
<1> QED BY <1>5, <1>7, <1>8, <1>9

-----------------------------------------------------------------------------
(* Type correctness. *)

LEMMA InitType == Init => TypeOK
<1> SUFFICES ASSUME Init PROVE TypeOK
  OBVIOUS
<1>1. /\ buffer \in [Runs -> Seq(Frames)]
      /\ \A r \in Runs : Len(buffer[r]) <= BufferCap
  <2>1. <<>> \in Seq(Frames) /\ Len(<<>>) = 0
    BY EmptySeq
  <2> QED BY <2>1, BufferCapAssumption DEF Init
<1> QED
  BY <1>1, MaxRunsAssumption
     DEF Init, TypeOK, Phases, Deletions, NoDeletion, Shutdowns, Runs

(* finish keeps the type of what it writes. *)
LEMMA FinishType ==
  ASSUME TypeOK, NEW r \in Runs, NEW status \in Statuses, finish(r, status)
  PROVE  /\ phase' \in [Runs -> Phases]
         /\ evictTimer' \in [Runs -> BOOLEAN]
         /\ ended' \in [Runs -> Statuses \cup {"none"}]
         /\ waiters' \in [Runs -> SUBSET Observers]
         /\ runWaiters' \in [Threads -> SUBSET Observers]
BY DEF TypeOK, finish, wake, Phases

LEMMA TypeStep == TypeOK /\ [Next]_vars => TypeOK'
<1> SUFFICES ASSUME TypeOK, [Next]_vars PROVE TypeOK'
  OBVIOUS
<1> USE DEF registryVars, pumpVars, frameVars, endVars, parkVars
<1>1. ASSUME NEW t \in Threads, start(t) PROVE TypeOK'
  <2>1. created + 1 \in Runs
    BY <1>1, MaxRunsAssumption DEF start, TypeOK, Runs
  <2>2. created' \in 0 .. MaxRuns /\ runs' \in [Threads -> Runs \cup {NoRun}]
        /\ thread' \in [Runs -> Threads \cup {NoThread}]
    BY <1>1, <2>1 DEF start, TypeOK, Runs
  <2>3. phase' \in [Runs -> Phases] /\ prior' \in [Runs -> Runs \cup {NoRun}]
        /\ aborted' \in [Runs -> BOOLEAN] /\ evictTimer' \in [Runs -> BOOLEAN]
    <3>1. CASE isRunning(t)
      <4>1. runs[t] \in Runs
        BY <3>1 DEF isRunning, TypeOK
      <4> QED BY <1>1, <2>1, <3>1, <4>1 DEF start, supersede, TypeOK, Phases
    <3>2. CASE ~isRunning(t)
      BY <1>1, <2>1, <3>2 DEF start, TypeOK, Phases
    <3> QED BY <3>1, <3>2
  <2> QED BY <1>1, <2>2, <2>3 DEF start, TypeOK
<1>2. ASSUME NEW t \in Threads, cancel(t) \/ cancelAndWait(t) PROVE TypeOK'
  BY <1>2 DEF cancel, cancelAndWait, TypeOK
<1>3. ASSUME NEW t \in Threads, beginThreadDeletion(t) PROVE TypeOK'
  <2>1. activeRuns \cap ThreadRuns(t) \in SUBSET Runs
    BY DEF activeRuns
  <2> QED BY <1>3, <2>1 DEF beginThreadDeletion, activeOf, abortAll, TypeOK, Deletions
<1>4. ASSUME NEW t \in Threads, ThreadDrained(t) \/ releaseThread(t) PROVE TypeOK'
  <2>1. /\ [phase |-> "fenced", current |-> NoRun, awaited |-> {}] \in Deletions
        /\ NoDeletion \in Deletions
    BY DEF NoDeletion, Deletions
  <2>2. deletion' \in [Threads -> Deletions] /\ runs' \in [Threads -> Runs \cup {NoRun}]
    <3>1. CASE ThreadDrained(t)
      BY <2>1, <3>1 DEF ThreadDrained, TypeOK
    <3>2. CASE releaseThread(t)
      BY <2>1, <3>2 DEF releaseThread, TypeOK
    <3> QED BY <1>4, <3>1, <3>2
  <2> QED BY <1>4, <2>2 DEF ThreadDrained, releaseThread, TypeOK
<1>5. ASSUME NEW r \in Runs, PriorSettled(r) PROVE TypeOK'
  <2>1. CASE aborted[r]
    BY <1>5, <2>1, FinishType DEF PriorSettled, finish, TypeOK, Statuses
  <2>2. CASE ~aborted[r]
    BY <1>5, <2>2 DEF PriorSettled, TypeOK, Phases
  <2> QED BY <2>1, <2>2
<1>6. ASSUME NEW r \in Runs, StreamBreak(r) \/ Evict(r) \/ settlesWithin(r)
      PROVE TypeOK'
  <2>1. CASE StreamBreak(r)
    BY <2>1 DEF StreamBreak, TypeOK, Phases
  <2>2. CASE Evict(r)
    BY <2>2 DEF Evict, TypeOK
  <2>3. CASE settlesWithin(r)
    BY <2>3 DEF settlesWithin, TypeOK
  <2> QED BY <1>6, <2>1, <2>2, <2>3
<1>7. ASSUME NEW r \in Runs, StreamEnd(r) PROVE TypeOK'
  <2> DEFINE outcome == decideTerminal(aborted[r], runs[thread[r]] # r,
                                       sawTerminal[r], interrupted[r], FALSE)
  <2>1. outcome.status \in Statuses /\ outcome.synthesize \in FrameKinds \cup {"none"}
    BY DEF decideTerminal, Statuses, FrameKinds, TerminalKinds
  <2>2. IF outcome.synthesize = "none" THEN UNCHANGED <<frameVars, sawTerminal>>
        ELSE append(r, outcome.synthesize) /\ sawTerminal' = [sawTerminal EXCEPT ![r] = TRUE]
    BY <1>7 DEF StreamEnd, settlePump
  <2>3. finish(r, outcome.status)
    BY <1>7 DEF StreamEnd, settlePump
  <2> HIDE DEF outcome
  <2>4. buffer' \in [Runs -> Seq(Frames)] /\ dropped' \in [Runs -> Nat]
        /\ \A q \in Runs : Len(buffer'[q]) <= BufferCap
        /\ seqCounter' \in Nat /\ sawTerminal' \in [Runs -> BOOLEAN]
    <3>1. CASE outcome.synthesize = "none"
      BY <2>2, <3>1 DEF TypeOK
    <3>2. CASE outcome.synthesize # "none"
      <4>1. outcome.synthesize \in FrameKinds /\ append(r, outcome.synthesize)
            /\ sawTerminal' = [sawTerminal EXCEPT ![r] = TRUE]
        BY <2>1, <2>2, <3>2
      <4>2. sawTerminal' \in [Runs -> BOOLEAN]
        BY <4>1 DEF TypeOK
      <4> QED BY <4>1, <4>2, AppendFacts
    <3> QED BY <3>1, <3>2
  <2> QED BY <1>7, <2>1, <2>3, <2>4, FinishType DEF StreamEnd, finish, TypeOK
<1>8. ASSUME NEW r \in Runs, StreamThrow(r) PROVE TypeOK'
  <2> DEFINE status == decideTerminal(FALSE, FALSE, TRUE, interrupted[r], TRUE).status
  <2>1. status \in Statuses
    BY DEF decideTerminal, Statuses
  <2>2. append(r, "failed") /\ finish(r, status)
        /\ sawTerminal' = [sawTerminal EXCEPT ![r] = TRUE]
        /\ UNCHANGED <<registryVars, stop>>
    BY <1>8 DEF StreamThrow
  <2> HIDE DEF status
  <2>3. /\ buffer' \in [Runs -> Seq(Frames)]
        /\ \A q \in Runs : Len(buffer'[q]) <= BufferCap
        /\ dropped' \in [Runs -> Nat]
        /\ seqCounter' \in Nat
    BY <2>2, AppendFacts DEF FrameKinds, TerminalKinds
  <2>4. sawTerminal' \in [Runs -> BOOLEAN]
    BY <2>2 DEF TypeOK
  <2> QED BY <2>1, <2>2, <2>3, <2>4, FinishType DEF finish, TypeOK
<1>9. ASSUME NEW r \in Runs, NEW kind \in StreamKinds, StreamFrame(r, kind) PROVE TypeOK'
  <2>1. kind \in FrameKinds
    BY StreamKindsAssumption DEF FrameKinds, TerminalKinds
  <2>2. /\ buffer' \in [Runs -> Seq(Frames)]
        /\ \A q \in Runs : Len(buffer'[q]) <= BufferCap
        /\ dropped' \in [Runs -> Nat]
        /\ seqCounter' \in Nat
    BY <1>9, <2>1, AppendFacts DEF StreamFrame
  <2>3. /\ sawTerminal' \in [Runs -> BOOLEAN]
        /\ interrupted' \in [Runs -> BOOLEAN]
        /\ waiters' \in [Runs -> SUBSET Observers]
        /\ runWaiters' \in [Threads -> SUBSET Observers]
    BY <1>9 DEF StreamFrame, wake, TypeOK
  <2> QED BY <1>9, <2>2, <2>3 DEF StreamFrame, TypeOK
<1>10. ASSUME Shutdown \/ whenIdle PROVE TypeOK'
  <2>1. CASE Shutdown
    BY <2>1 DEF Shutdown, abortAll, activeRuns, TypeOK, Shutdowns
  <2>2. CASE whenIdle
    BY <2>2 DEF whenIdle, TypeOK, Shutdowns
  <2> QED BY <1>10, <2>1, <2>2
<1>11. CASE UNCHANGED vars
  BY <1>11 DEF vars, TypeOK
<1> QED
  BY <1>1, <1>2, <1>3, <1>4, <1>5, <1>6, <1>7, <1>8, <1>9, <1>10, <1>11 DEF Next

(* Every variable of the registry keeps its type. *)
THEOREM TypeCorrect == Spec => []TypeOK
BY InitType, TypeStep, PTL DEF Spec

-----------------------------------------------------------------------------
(* The inductive invariant: the runs of a thread form a queue.  Every run   *)
(* that reached the graph, or ended, has only ended runs before it; a       *)
(* queued run waits for its immediate predecessor; the registered run is    *)
(* the last of its thread.                                                  *)

Started ==
  \A r \in Runs :
    /\ r <= created => phase[r] # "unused" /\ thread[r] \in Threads
    /\ r > created => phase[r] = "unused" /\ thread[r] = NoThread

InTurn ==
  \A q, r \in Runs :
    q < r /\ thread[q] = thread[r] /\ phase[r] \in Executing \cup {"done"}
    => IsDone(q)

QueueOrder ==
  \A r \in Runs :
    phase[r] = "queued"
    => /\ prior[r] \in Runs
       /\ thread[prior[r]] = thread[r]
       /\ \A q \in Runs : q < r /\ thread[q] = thread[r] => q <= prior[r]

Registered ==
  \A t \in Threads :
    /\ runs[t] # NoRun => thread[runs[t]] = t
    /\ \A r \in ThreadRuns(t) : IF runs[t] = NoRun THEN IsDone(r) ELSE r <= runs[t]

TimersAfterEnd == \A r \in Runs : evictTimer[r] => IsDone(r)

DrainAwaitsAll ==
  \A t \in Threads :
    /\ deletion[t].phase = "draining"
       => /\ runs[t] \in {deletion[t].current, NoRun}
          /\ activeRuns \cap ThreadRuns(t) \subseteq deletion[t].awaited
    /\ deletion[t].phase = "fenced" => runs[t] = NoRun

ShutdownAwaitsAll ==
  /\ shutdown.phase = "closing" => activeRuns \subseteq shutdown.awaited
  /\ shutdown.phase = "closed" => activeRuns = {}

StopSettled == \A r \in Runs : stop[r] = "settled" => IsDone(r)

QueueInv == Started /\ InTurn /\ QueueOrder /\ Registered
CoreInv  == /\ TypeOK /\ QueueInv /\ OrphansAreAborted /\ TimersAfterEnd
            /\ DrainAwaitsAll /\ ShutdownAwaitsAll /\ StopSettled

LEMMA InitCore == Init => CoreInv
<1> SUFFICES ASSUME Init PROVE CoreInv
  OBVIOUS
<1>1. TypeOK
  BY InitType
<1>2. QueueInv
  BY MaxRunsAssumption, NoThreadAssumption
     DEF Init, QueueInv, Started, InTurn, QueueOrder, Registered, Runs, Executing,
         ThreadRuns, NoRun
<1>3. activeRuns = {}
  BY DEF Init, activeRuns
<1>4. OrphansAreAborted /\ TimersAfterEnd /\ DrainAwaitsAll /\ ShutdownAwaitsAll
      /\ StopSettled
  BY <1>3 DEF Init, OrphansAreAborted, TimersAfterEnd, DrainAwaitsAll, NoDeletion,
              ShutdownAwaitsAll, StopSettled
<1> QED BY <1>1, <1>2, <1>4 DEF CoreInv

(* The runs of a thread that has no registered run, or whose registered run *)
(* ended, have all ended.                                                   *)
LEMMA IdleThread ==
  ASSUME TypeOK, QueueInv, NEW t \in Threads, ~isRunning(t)
  PROVE  \A r \in ThreadRuns(t) : IsDone(r)
BY NoThreadAssumption
   DEF QueueInv, InTurn, Registered, ThreadRuns, isRunning, IsDone, Executing, TypeOK, Runs

LEMMA StartKeepsCore ==
  ASSUME CoreInv, TypeOK', NEW t \in Threads, start(t)
  PROVE  CoreInv'
<1> DEFINE new == created + 1
<1> USE DEF CoreInv
<1>1. /\ new \in Runs
      /\ phase[new] = "unused" /\ thread[new] = NoThread /\ new > created
  <2>1. new \in Runs /\ new > created
    BY MaxRunsAssumption DEF start, TypeOK, Runs
  <2>2. phase[new] = "unused" /\ thread[new] = NoThread
    BY <2>1 DEF QueueInv, Started
  <2> QED BY <2>1, <2>2
<1>2. /\ thread' = [thread EXCEPT ![new] = t]
      /\ runs' = [runs EXCEPT ![t] = new]
      /\ created' = new
      /\ UNCHANGED <<deletion, shutdown, stop>>
      /\ ~closing /\ t \notin threadsBeingDeleted
  BY DEF start
<1>3. \A q \in Runs \ {new} : phase'[q] = phase[q] /\ prior'[q] = prior[q]
                              /\ thread'[q] = thread[q]
  BY <1>1, <1>2 DEF start, TypeOK
<1>4. thread'[new] = t /\ runs'[t] = new
  BY <1>1, <1>2 DEF TypeOK
<1>5. QueueInv'
  <2>1. CASE isRunning(t)
    <3>1. phase'[new] = "queued" /\ prior'[new] = runs[t] /\ runs[t] \in Runs
      BY <1>1, <2>1 DEF start, supersede, TypeOK, isRunning
    <3>2. Started'
      BY <1>1, <1>2, <1>3, <1>4, <3>1, NoThreadAssumption DEF Started, QueueInv, TypeOK, Runs
    <3>3. InTurn'
      BY <1>1, <1>2, <1>3, <1>4, <3>1, NoThreadAssumption
         DEF InTurn, QueueInv, Started, IsDone, Executing, TypeOK, Runs
    <3>4. QueueOrder'
      <4>1. /\ thread[runs[t]] = t /\ runs[t] # new
            /\ \A q \in Runs : thread[q] = t => q <= runs[t]
        BY <1>1, <3>1, NoThreadAssumption
           DEF QueueInv, Registered, ThreadRuns, NoRun, Runs
      <4>2. \A q \in Runs \ {new} : phase[q] = "queued" => q < new /\ prior[q] # new
        BY <1>1, NoThreadAssumption DEF QueueInv, Started, QueueOrder, TypeOK, Runs
      <4> SUFFICES ASSUME NEW r \in Runs, phase'[r] = "queued"
                   PROVE  /\ prior'[r] \in Runs
                          /\ thread'[prior'[r]] = thread'[r]
                          /\ \A q \in Runs : q < r /\ thread'[q] = thread'[r]
                                              => q <= prior'[r]
        BY DEF QueueOrder
      <4>3. CASE r = new
        BY <1>1, <1>3, <1>4, <3>1, <4>1, <4>3 DEF Runs
      <4>4. CASE r # new
        <5>1. /\ phase[r] = "queued" /\ prior'[r] = prior[r] /\ thread'[r] = thread[r]
              /\ prior[r] \in Runs /\ thread[prior[r]] = thread[r]
              /\ \A q \in Runs : q < r /\ thread[q] = thread[r] => q <= prior[r]
          BY <1>3, <4>4 DEF QueueInv, QueueOrder
        <5>2. r < new /\ prior[r] # new
          BY <4>2, <4>4, <5>1
        <5> QED BY <1>1, <1>3, <5>1, <5>2 DEF Runs
      <4> QED BY <4>3, <4>4
    <3>5. Registered'
      BY <1>1, <1>2, <1>3, <1>4, <3>1, NoThreadAssumption
         DEF Registered, QueueInv, Started, ThreadRuns, NoRun, IsDone, TypeOK, Runs
    <3> QED BY <3>2, <3>3, <3>4, <3>5 DEF QueueInv
  <2>2. CASE ~isRunning(t)
    <3>1. phase'[new] = "streaming"
      BY <1>1, <2>2 DEF start, TypeOK
    <3>2. \A r \in ThreadRuns(t) : IsDone(r)
      BY <2>2, IdleThread
    <3>3. Started'
      BY <1>1, <1>2, <1>3, <1>4, <3>1, NoThreadAssumption DEF Started, QueueInv, TypeOK, Runs
    <3>4. InTurn'
      BY <1>1, <1>2, <1>3, <1>4, <3>1, <3>2, NoThreadAssumption
         DEF InTurn, QueueInv, Started, IsDone, ThreadRuns, Executing, TypeOK, Runs
    <3>5. QueueOrder'
      BY <1>1, <1>2, <1>3, <1>4, <3>1, NoThreadAssumption
         DEF QueueOrder, QueueInv, Started, TypeOK, Runs
    <3>6. Registered'
      BY <1>1, <1>2, <1>3, <1>4, <3>1, NoThreadAssumption
         DEF Registered, QueueInv, Started, ThreadRuns, NoRun, IsDone, TypeOK, Runs
    <3> QED BY <3>3, <3>4, <3>5, <3>6 DEF QueueInv
  <2> QED BY <2>1, <2>2
<1>6. OrphansAreAborted'
  <2>1. CASE isRunning(t)
    <3>1. aborted' = [aborted EXCEPT ![runs[t]] = TRUE] /\ runs[t] \in Runs
      BY <2>1 DEF start, supersede, isRunning, TypeOK
    <3> QED BY <1>1, <1>2, <1>3, <1>4, <3>1, NoThreadAssumption
            DEF OrphansAreAborted, activeRuns, QueueInv, Started, TypeOK, Runs
  <2>2. CASE ~isRunning(t)
    <3>1. \A r \in ThreadRuns(t) : IsDone(r)
      BY <2>2, IdleThread
    <3>2. UNCHANGED aborted
      BY <2>2 DEF start
    <3> QED BY <1>1, <1>2, <1>3, <1>4, <3>1, <3>2, NoThreadAssumption
            DEF OrphansAreAborted, activeRuns, ThreadRuns, IsDone, QueueInv, Started,
                TypeOK, Runs
  <2> QED BY <2>1, <2>2
<1>7. TimersAfterEnd'
  BY <1>1, <1>3 DEF start, TimersAfterEnd, IsDone, TypeOK
<1>8. DrainAwaitsAll'
  BY <1>1, <1>2, <1>3, <1>4
     DEF DrainAwaitsAll, threadsBeingDeleted, activeRuns, ThreadRuns, TypeOK
<1>9. ShutdownAwaitsAll'
  BY <1>2 DEF ShutdownAwaitsAll, closing
<1>10. StopSettled'
  BY <1>1, <1>2, <1>3 DEF StopSettled, IsDone
<1> QED BY <1>5, <1>6, <1>7, <1>8, <1>9, <1>10

(* One run comes one step further: into the graph, out of its loop, to its  *)
(* end.  Every run of its thread before it has ended.                       *)
LEMMA AdvanceKeepsCore ==
  ASSUME CoreInv, TypeOK', NEW r \in Runs, NEW p \in Executing \cup {"done"},
         r \in activeRuns,
         phase' = [phase EXCEPT ![r] = p],
         \A q \in Runs : q < r /\ thread[q] = thread[r] => IsDone(q),
         \A q \in Runs \ {r} : prior'[q] = prior[q],
         \A q \in Runs : evictTimer'[q] => evictTimer[q] \/ (q = r /\ p = "done"),
         UNCHANGED <<registryVars, aborted, stop>>
  PROVE  CoreInv'
<1> USE DEF CoreInv, registryVars
<1>1. phase'[r] = p /\ \A q \in Runs \ {r} : phase'[q] = phase[q]
  BY DEF TypeOK
<1>2. phase[r] \notin {"unused", "done"} /\ p \notin {"unused", "queued"}
  BY DEF activeRuns, Executing
<1>3. Started'
  BY <1>1, <1>2 DEF Started, QueueInv
<1>4. InTurn'
  BY <1>1, <1>2 DEF InTurn, QueueInv, IsDone, Runs
<1>5. QueueOrder'
  BY <1>1, <1>2 DEF QueueOrder, QueueInv
<1>6. Registered'
  BY <1>1, <1>2 DEF Registered, QueueInv, ThreadRuns, IsDone
<1>7. activeRuns' \subseteq activeRuns
  BY <1>1, <1>2 DEF activeRuns
<1>8. OrphansAreAborted' /\ DrainAwaitsAll' /\ ShutdownAwaitsAll'
  BY <1>7 DEF OrphansAreAborted, DrainAwaitsAll, ShutdownAwaitsAll, ThreadRuns
<1>9. TimersAfterEnd' /\ StopSettled'
  BY <1>1, <1>2 DEF TimersAfterEnd, StopSettled, IsDone
<1> QED BY <1>3, <1>4, <1>5, <1>6, <1>8, <1>9 DEF QueueInv

LEMMA EarlierRunsEnded ==
  ASSUME CoreInv, NEW r \in Runs,
         phase[r] \in Executing \/ (phase[r] = "queued" /\ IsDone(prior[r]))
  PROVE  \A q \in Runs : q < r /\ thread[q] = thread[r] => IsDone(q)
<1>1. CASE phase[r] \in Executing
  BY <1>1 DEF CoreInv, QueueInv, InTurn
<1>2. CASE phase[r] = "queued" /\ IsDone(prior[r])
  <2>1. /\ prior[r] \in Runs /\ thread[prior[r]] = thread[r]
        /\ \A q \in Runs : q < r /\ thread[q] = thread[r] => q <= prior[r]
    BY <1>2 DEF CoreInv, QueueInv, QueueOrder
  <2>2. \A q \in Runs : q < prior[r] /\ thread[q] = thread[r] => IsDone(q)
    BY <1>2, <2>1 DEF CoreInv, QueueInv, InTurn, IsDone
  <2> QED BY <1>2, <2>1, <2>2 DEF Runs
<1> QED BY <1>1, <1>2

LEMMA PumpKeepsCore ==
  ASSUME CoreInv, TypeOK', NEW r \in Runs,
         PriorSettled(r) \/ StreamBreak(r) \/ StreamEnd(r) \/ StreamThrow(r)
  PROVE  CoreInv'
<1>1. CASE PriorSettled(r)
  <2>1. r \in activeRuns /\ UNCHANGED <<registryVars, aborted, stop>>
    BY <1>1 DEF PriorSettled, activeRuns, finish
  <2>2. \A q \in Runs : q < r /\ thread[q] = thread[r] => IsDone(q)
    BY <1>1, EarlierRunsEnded DEF PriorSettled, inTurn
  <2>3. CASE aborted[r]
    <3>1. phase' = [phase EXCEPT ![r] = "done"] /\ UNCHANGED prior
          /\ evictTimer' = [evictTimer EXCEPT ![r] = ~discarded[r]]
      BY <1>1, <2>3 DEF PriorSettled, finish
    <3>2. \A q \in Runs : evictTimer'[q] => evictTimer[q] \/ q = r
      BY <3>1 DEF CoreInv, TypeOK
    <3> QED BY <2>1, <2>2, <3>1, <3>2, AdvanceKeepsCore
  <2>4. CASE ~aborted[r]
    <3>1. phase' = [phase EXCEPT ![r] = "streaming"] /\ UNCHANGED evictTimer
          /\ prior' = [prior EXCEPT ![r] = NoRun]
      BY <1>1, <2>4 DEF PriorSettled, endVars
    <3>2. \A q \in Runs \ {r} : prior'[q] = prior[q]
      BY <3>1 DEF CoreInv, TypeOK
    <3>3. "streaming" \in Executing
      BY DEF Executing
    <3> QED BY <2>1, <2>2, <3>1, <3>2, <3>3, AdvanceKeepsCore
  <2> QED BY <2>3, <2>4
<1>2. CASE StreamBreak(r)
  <2>1. /\ r \in activeRuns /\ phase[r] \in Executing /\ "draining" \in Executing
        /\ phase' = [phase EXCEPT ![r] = "draining"]
        /\ UNCHANGED <<registryVars, aborted, stop, prior, evictTimer>>
    BY <1>2 DEF StreamBreak, activeRuns, Executing, endVars
  <2> QED BY <2>1, EarlierRunsEnded, AdvanceKeepsCore
<1>3. CASE StreamEnd(r) \/ StreamThrow(r)
  <2>1. PICK status : finish(r, status)
    BY <1>3 DEF StreamEnd, StreamThrow, settlePump
  <2>2. /\ r \in activeRuns /\ phase[r] \in Executing
        /\ UNCHANGED <<registryVars, stop>>
    BY <1>3 DEF StreamEnd, StreamThrow, activeRuns, Executing
  <2>3. /\ phase' = [phase EXCEPT ![r] = "done"] /\ UNCHANGED <<prior, aborted>>
        /\ evictTimer' = [evictTimer EXCEPT ![r] = ~discarded[r]]
    BY <2>1 DEF finish
  <2>4. \A q \in Runs : evictTimer'[q] => evictTimer[q] \/ q = r
    BY <2>3 DEF CoreInv, TypeOK
  <2> QED BY <2>2, <2>3, <2>4, EarlierRunsEnded, AdvanceKeepsCore
<1> QED BY <1>1, <1>2, <1>3

(* An abort, a fired timer, a dropped registration of a finished run or a   *)
(* step of a deletion or of shutdown moves no run.                          *)
LEMMA QuietKeepsQueue ==
  ASSUME QueueInv, TypeOK, UNCHANGED <<created, thread, phase, prior>>,
         \A t \in Threads : \/ runs'[t] = runs[t]
                            \/ runs'[t] = NoRun /\ ~isRunning(t)
  PROVE  /\ QueueInv' /\ activeRuns' = activeRuns
         /\ \A r \in activeRuns : runs'[thread[r]] = runs[thread[r]]
<1>1. Started' /\ InTurn' /\ QueueOrder'
  BY DEF QueueInv, Started, InTurn, QueueOrder, IsDone
<1>2. Registered'
  BY IdleThread DEF QueueInv, Registered, ThreadRuns, IsDone
<1>3. ASSUME NEW r \in activeRuns PROVE runs'[thread[r]] = runs[thread[r]]
  <2>1. thread[r] \in Threads /\ r \in ThreadRuns(thread[r]) /\ ~IsDone(r)
    BY DEF activeRuns, QueueInv, Started, TypeOK, Runs, ThreadRuns, IsDone
  <2>2. isRunning(thread[r])
    BY <2>1, IdleThread
  <2> QED BY <2>1, <2>2
<1> QED BY <1>1, <1>2, <1>3 DEF QueueInv, activeRuns

(* The registry, its queue and its timers stay; aborts only add up.         *)
LEMMA AbortKeepsCore ==
  ASSUME CoreInv, TypeOK',
         UNCHANGED <<runs, created, thread, phase, prior, evictTimer, deletion>>,
         \A q \in Runs : aborted[q] => aborted'[q]
  PROVE  /\ QueueInv' /\ OrphansAreAborted' /\ TimersAfterEnd' /\ DrainAwaitsAll'
         /\ activeRuns' = activeRuns
<1>1. QueueInv' /\ activeRuns' = activeRuns
  BY QuietKeepsQueue DEF CoreInv
<1> QED BY <1>1 DEF CoreInv, OrphansAreAborted, TimersAfterEnd, DrainAwaitsAll, IsDone,
                    ThreadRuns, activeRuns

LEMMA StopKeepsCore ==
  ASSUME CoreInv, TypeOK',
         \/ \E t \in Threads : cancel(t) \/ cancelAndWait(t)
         \/ \E r \in Runs : settlesWithin(r)
  PROVE  CoreInv'
<1>1. UNCHANGED <<runs, created, thread, phase, prior, evictTimer, deletion, shutdown>>
  BY DEF cancel, cancelAndWait, settlesWithin, registryVars, pumpVars, endVars
<1>2. \A q \in Runs : aborted[q] => aborted'[q]
  BY DEF cancel, cancelAndWait, settlesWithin, CoreInv, TypeOK
<1>3. /\ QueueInv' /\ OrphansAreAborted' /\ TimersAfterEnd' /\ DrainAwaitsAll'
      /\ activeRuns' = activeRuns
  BY <1>1, <1>2, AbortKeepsCore
<1>4. StopSettled'
  BY <1>1 DEF StopSettled, IsDone, CoreInv, TypeOK, cancel, cancelAndWait, settlesWithin
<1>5. ShutdownAwaitsAll'
  BY <1>1, <1>3 DEF ShutdownAwaitsAll, CoreInv
<1> QED BY <1>3, <1>4, <1>5 DEF CoreInv

LEMMA ShutdownKeepsCore ==
  ASSUME CoreInv, TypeOK', Shutdown \/ whenIdle
  PROVE  CoreInv'
<1>1. UNCHANGED <<runs, created, thread, phase, prior, evictTimer, deletion, stop>>
  BY DEF Shutdown, whenIdle, pumpVars, endVars
<1>2. \A q \in Runs : aborted[q] => aborted'[q]
  BY DEF Shutdown, whenIdle, abortAll
<1>3. /\ QueueInv' /\ OrphansAreAborted' /\ TimersAfterEnd' /\ DrainAwaitsAll'
      /\ activeRuns' = activeRuns
  BY <1>1, <1>2, AbortKeepsCore
<1>4. StopSettled'
  BY <1>1 DEF StopSettled, IsDone, CoreInv
<1>5. ShutdownAwaitsAll'
  <2>1. CASE Shutdown
    BY <1>3, <2>1 DEF Shutdown, ShutdownAwaitsAll
  <2>2. CASE whenIdle
    BY <1>3, <2>2 DEF whenIdle, ShutdownAwaitsAll, CoreInv, activeRuns, IsDone
  <2> QED BY <2>1, <2>2
<1> QED BY <1>3, <1>4, <1>5 DEF CoreInv

LEMMA DrainedIsIdle ==
  ASSUME CoreInv, NEW t \in Threads, ThreadDrained(t)
  PROVE  ~isRunning(t) /\ runs'[t] = NoRun
<1> USE DEF CoreInv
<1>1. activeRuns \cap ThreadRuns(t) = {}
  BY DEF ThreadDrained, DrainAwaitsAll, IsDone, activeRuns
<1>2. runs[t] # NoRun => runs[t] \in ThreadRuns(t) /\ phase[runs[t]] # "unused"
  BY NoThreadAssumption
     DEF QueueInv, Registered, Started, ThreadRuns, TypeOK, Runs, NoRun
<1>3. runs'[t] = NoRun
  BY DEF ThreadDrained, DrainAwaitsAll, TypeOK
<1> QED BY <1>1, <1>2, <1>3 DEF isRunning, IsDone, activeRuns, ThreadRuns

LEMMA DeletionKeepsCore ==
  ASSUME CoreInv, TypeOK', NEW t \in Threads,
         beginThreadDeletion(t) \/ ThreadDrained(t) \/ releaseThread(t)
  PROVE  CoreInv'
<1> USE DEF CoreInv
<1>1. UNCHANGED <<created, thread, phase, prior, stop, shutdown>>
  BY DEF beginThreadDeletion, ThreadDrained, releaseThread, pumpVars
<1>2. \A s \in Threads \ {t} : runs'[s] = runs[s] /\ deletion'[s] = deletion[s]
  BY DEF beginThreadDeletion, ThreadDrained, releaseThread, TypeOK
<1>3. ASSUME ThreadDrained(t) PROVE ~isRunning(t) /\ runs'[t] = NoRun
  BY <1>3, DrainedIsIdle
<1>4. \/ runs'[t] = runs[t]
      \/ runs'[t] = NoRun /\ ~isRunning(t)
  BY <1>3 DEF beginThreadDeletion, releaseThread
<1>5. /\ QueueInv' /\ activeRuns' = activeRuns
      /\ \A q \in activeRuns : runs'[thread[q]] = runs[thread[q]]
  BY <1>1, <1>2, <1>4, QuietKeepsQueue
<1>6. \A q \in Runs : (aborted[q] => aborted'[q]) /\ (evictTimer'[q] => evictTimer[q])
  BY DEF beginThreadDeletion, ThreadDrained, releaseThread, abortAll, endVars, TypeOK
<1>7. OrphansAreAborted'
  BY <1>1, <1>5, <1>6 DEF OrphansAreAborted, activeRuns
<1>8. TimersAfterEnd' /\ ShutdownAwaitsAll' /\ StopSettled'
  BY <1>1, <1>5, <1>6 DEF TimersAfterEnd, ShutdownAwaitsAll, StopSettled, IsDone
<1>9. DrainAwaitsAll'
  <2>1. \A s \in Threads \ {t} : ThreadRuns(s)' = ThreadRuns(s)
    BY <1>1 DEF ThreadRuns
  <2>2. CASE beginThreadDeletion(t)
    <3>1. deletion'[t] = [phase |-> "draining", current |-> runs[t],
                          awaited |-> activeRuns \cap ThreadRuns(t)]
          /\ runs' = runs
      BY <2>2 DEF beginThreadDeletion, activeOf, TypeOK
    <3> QED BY <1>1, <1>2, <1>5, <3>1 DEF DrainAwaitsAll, ThreadRuns
  <2>3. CASE ThreadDrained(t)
    <3>1. deletion'[t].phase = "fenced" /\ runs'[t] = NoRun
      BY <1>3, <2>3 DEF ThreadDrained, TypeOK
    <3> QED BY <1>1, <1>2, <1>5, <3>1 DEF DrainAwaitsAll, ThreadRuns
  <2>4. CASE releaseThread(t)
    <3>1. deletion'[t].phase = "none"
      BY <2>4 DEF releaseThread, NoDeletion, TypeOK
    <3> QED BY <1>1, <1>2, <1>5, <3>1 DEF DrainAwaitsAll, ThreadRuns
  <2> QED BY <2>2, <2>3, <2>4
<1> QED BY <1>5, <1>7, <1>8, <1>9

LEMMA EvictKeepsCore ==
  ASSUME CoreInv, TypeOK', NEW r \in Runs, Evict(r)
  PROVE  CoreInv'
<1> USE DEF CoreInv
<1>1. UNCHANGED <<created, thread, phase, prior, stop, shutdown, deletion, aborted>>
  BY DEF Evict, pumpVars
<1>2. IsDone(r)
  BY DEF Evict, TimersAfterEnd
<1>3. \A t \in Threads : \/ runs'[t] = runs[t]
                         \/ runs'[t] = NoRun /\ runs[t] = r
  BY DEF Evict, TypeOK
<1>4. \A t \in Threads : \/ runs'[t] = runs[t]
                         \/ runs'[t] = NoRun /\ ~isRunning(t)
  BY <1>2, <1>3 DEF isRunning
<1>5. /\ QueueInv' /\ activeRuns' = activeRuns
      /\ \A q \in activeRuns : runs'[thread[q]] = runs[thread[q]]
  BY <1>1, <1>4, QuietKeepsQueue
<1>6. \A q \in Runs : evictTimer'[q] => evictTimer[q]
  BY DEF Evict, TypeOK
<1>7. OrphansAreAborted'
  BY <1>1, <1>5 DEF OrphansAreAborted, activeRuns
<1>8. TimersAfterEnd' /\ ShutdownAwaitsAll' /\ StopSettled' /\ DrainAwaitsAll'
  BY <1>1, <1>3, <1>5, <1>6
     DEF TimersAfterEnd, ShutdownAwaitsAll, StopSettled, DrainAwaitsAll, IsDone, ThreadRuns
<1> QED BY <1>5, <1>7, <1>8

LEMMA CoreStep == CoreInv /\ [Next]_vars => CoreInv'
<1> SUFFICES ASSUME CoreInv, [Next]_vars PROVE CoreInv'
  OBVIOUS
<1>1. TypeOK'
  BY TypeStep DEF CoreInv
<1>2. CASE \E t \in Threads : start(t)
  BY <1>1, <1>2, StartKeepsCore
<1>3. CASE \E r \in Runs : PriorSettled(r) \/ StreamBreak(r) \/ StreamEnd(r) \/ StreamThrow(r)
  BY <1>1, <1>3, PumpKeepsCore
<1>4. CASE \E r \in Runs, kind \in StreamKinds : StreamFrame(r, kind)
  <2>1. UNCHANGED <<registryVars, phase, prior, aborted, evictTimer, stop>>
    BY <1>4 DEF StreamFrame, endVars
  <2> QED BY <1>1, <2>1
          DEF CoreInv, registryVars, QueueInv, Started, InTurn, QueueOrder, Registered,
              OrphansAreAborted, TimersAfterEnd, DrainAwaitsAll, ShutdownAwaitsAll,
              StopSettled, IsDone, activeRuns, ThreadRuns
<1>5. CASE \/ \E t \in Threads : cancel(t) \/ cancelAndWait(t)
           \/ \E r \in Runs : settlesWithin(r)
  BY <1>1, <1>5, StopKeepsCore
<1>6. CASE Shutdown \/ whenIdle
  BY <1>1, <1>6, ShutdownKeepsCore
<1>7. CASE \E t \in Threads : beginThreadDeletion(t) \/ ThreadDrained(t) \/ releaseThread(t)
  BY <1>1, <1>7, DeletionKeepsCore
<1>8. CASE \E r \in Runs : Evict(r)
  BY <1>1, <1>8, EvictKeepsCore
<1>9. CASE UNCHANGED vars
  BY <1>1, <1>9
     DEF vars, CoreInv, registryVars, pumpVars, endVars, QueueInv, Started, InTurn,
         QueueOrder, Registered, OrphansAreAborted, TimersAfterEnd, DrainAwaitsAll,
         ShutdownAwaitsAll, StopSettled, IsDone, activeRuns, ThreadRuns
<1> QED BY <1>2, <1>3, <1>4, <1>5, <1>6, <1>7, <1>8, <1>9 DEF Next

THEOREM CoreInvariant == Spec => []CoreInv
BY InitCore, CoreStep, PTL DEF Spec

-----------------------------------------------------------------------------
(* What follows from the queue. *)

LEMMA CoreSafety ==
  CoreInv => /\ SerialExecution
             /\ StopLeavesNoneAtWork
             /\ FenceHolds
             /\ ShutdownLeavesNoneAtWork
<1> SUFFICES ASSUME CoreInv
             PROVE  /\ SerialExecution /\ StopLeavesNoneAtWork
                    /\ FenceHolds /\ ShutdownLeavesNoneAtWork
  OBVIOUS
<1> USE DEF CoreInv
<1>1. SerialExecution
  BY DEF SerialExecution, QueueInv, InTurn, IsDone, Executing, Runs
<1>2. StopLeavesNoneAtWork
  BY DEF StopLeavesNoneAtWork, StopSettled, QueueInv, InTurn, IsDone, activeRuns, Runs
<1>3. FenceHolds
  BY DEF FenceHolds, DrainAwaitsAll, QueueInv, Registered, IsDone, activeRuns, ThreadRuns
<1>4. ShutdownLeavesNoneAtWork
  BY DEF ShutdownLeavesNoneAtWork, ShutdownAwaitsAll
<1> QED BY <1>1, <1>2, <1>3, <1>4

(* At most one run of a thread is at work in the graph.                     *)
THEOREM SerialExecutionHolds == Spec => []SerialExecution
BY CoreInvariant, CoreSafety, PTL

(* A run that is active but no longer registered has been aborted.          *)
THEOREM OrphansAreAbortedHolds == Spec => []OrphansAreAborted
<1>1. CoreInv => OrphansAreAborted
  BY DEF CoreInv
<1> QED BY <1>1, CoreInvariant, PTL

(* A stop answered with settled: true leaves no earlier run at work.        *)
THEOREM StopLeavesNoneAtWorkHolds == Spec => []StopLeavesNoneAtWork
BY CoreInvariant, CoreSafety, PTL

(* While a thread is fenced it has no active and no registered run.         *)
THEOREM FenceHoldsAlways == Spec => []FenceHolds
BY CoreInvariant, CoreSafety, PTL

(* Once shutdown resolved no run is active.                                 *)
THEOREM ShutdownLeavesNone == Spec => []ShutdownLeavesNoneAtWork
BY CoreInvariant, CoreSafety, PTL

(* No stop, deletion or shutdown that was carried out overlooks a run.      *)
THEOREM StopsReachAllHolds == Spec => []StopsReachAll
BY TypeCorrect, OrphansAreAbortedHolds, StopLeavesNoneAtWorkHolds, FenceHoldsAlways, ShutdownLeavesNone,
   PTL DEF StopsReachAll

-----------------------------------------------------------------------------
(* Frames are numbered in the order of the runs that send them. *)

FramesNumbered ==
  \A r \in Runs : \A i \in 1 .. Len(buffer[r]) :
    buffer[r][i].seq < seqCounter /\ phase[r] \in Executing \cup {"done"}

FrameInv == FramesNumbered /\ SequenceFollowsRuns

(* A run that is at work may send a frame: the runs after it sent none.     *)
LEMMA AppendKeepsOrder ==
  ASSUME CoreInv, FrameInv, NEW r \in Runs, phase[r] \in Executing,
         NEW kind \in FrameKinds, append(r, kind),
         UNCHANGED thread,
         phase'[r] \in Executing \cup {"done"},
         \A q \in Runs \ {r} : phase'[q] = phase[q]
  PROVE  FrameInv'
<1> USE DEF CoreInv
<1>1. /\ seqCounter \in Nat
      /\ seqCounter' = seqCounter + 1
      /\ \A q \in Runs \ {r} : buffer'[q] = buffer[q]
      /\ \A i \in 1 .. Len(buffer'[r]) :
           \/ buffer'[r][i].seq = seqCounter
           \/ \E j \in 1 .. Len(buffer[r]) : buffer'[r][i] = buffer[r][j]
  BY AppendFacts DEF TypeOK
<1>2. \A q \in Runs : \A i \in 1 .. Len(buffer[q]) : buffer[q][i].seq \in Nat
  <2> SUFFICES ASSUME NEW q \in Runs, NEW i \in 1 .. Len(buffer[q])
               PROVE  buffer[q][i].seq \in Nat
    OBVIOUS
  <2>1. buffer[q] \in Seq(Frames)
    BY DEF TypeOK
  <2>2. buffer[q][i] \in Frames
    BY <2>1, ElementOfSeq
  <2> QED BY <2>2 DEF Frames
<1>3. \A i \in 1 .. Len(buffer'[r]) : buffer'[r][i].seq \in Nat
                                      /\ buffer'[r][i].seq < seqCounter'
  BY <1>1, <1>2 DEF FrameInv, FramesNumbered
<1>4. FramesNumbered'
  BY <1>1, <1>2, <1>3 DEF FrameInv, FramesNumbered
<1>5. \A q \in Runs : r < q /\ thread[q] = thread[r] => \A i \in 1 .. Len(buffer[q]) : FALSE
  BY DEF FrameInv, FramesNumbered, QueueInv, InTurn, IsDone, Executing
<1>6. SequenceFollowsRuns'
  <2> SUFFICES ASSUME NEW p \in Runs, NEW q \in Runs, p < q, thread[p] = thread[q],
                      NEW i \in 1 .. Len(buffer'[p]), NEW j \in 1 .. Len(buffer'[q])
               PROVE  buffer'[p][i].seq < buffer'[q][j].seq
    BY DEF SequenceFollowsRuns
  <2>1. CASE p = r
    <3>1. q # r /\ buffer'[q] = buffer[q]
      BY <1>1, <2>1 DEF Runs
    <3> QED BY <1>5, <2>1, <3>1
  <2>2. CASE q = r
    <3>1. buffer'[p] = buffer[p] /\ i \in 1 .. Len(buffer[p])
      BY <1>1, <2>2 DEF Runs
    <3>2. CASE buffer'[r][j].seq = seqCounter
      BY <2>2, <3>1, <3>2 DEF FrameInv, FramesNumbered
    <3>3. CASE \E k \in 1 .. Len(buffer[r]) : buffer'[r][j] = buffer[r][k]
      BY <2>2, <3>1, <3>3 DEF FrameInv, SequenceFollowsRuns
    <3> QED BY <1>1, <2>2, <3>2, <3>3
  <2>3. CASE p # r /\ q # r
    BY <1>1, <2>3 DEF FrameInv, SequenceFollowsRuns
  <2> QED BY <2>1, <2>2, <2>3
<1> QED BY <1>4, <1>6 DEF FrameInv

LEMMA FrameStep == CoreInv /\ FrameInv /\ [Next]_vars => FrameInv'
<1> SUFFICES ASSUME CoreInv, FrameInv, [Next]_vars PROVE FrameInv'
  OBVIOUS
<1>1. ASSUME NEW r \in Runs, NEW kind \in StreamKinds, StreamFrame(r, kind) PROVE FrameInv'
  <2>1. kind \in FrameKinds /\ phase[r] \in Executing /\ append(r, kind)
        /\ UNCHANGED <<thread, phase>>
    BY <1>1, StreamKindsAssumption
       DEF StreamFrame, FrameKinds, TerminalKinds, Executing, registryVars
  <2> QED BY <2>1, AppendKeepsOrder
<1>2. ASSUME NEW r \in Runs, StreamEnd(r) \/ StreamThrow(r) PROVE FrameInv'
  <2>1. PICK status : finish(r, status)
    BY <1>2 DEF StreamEnd, StreamThrow, settlePump
  <2>2. phase[r] \in Executing /\ UNCHANGED thread
        /\ phase'[r] = "done" /\ \A q \in Runs \ {r} : phase'[q] = phase[q]
    BY <1>2, <2>1 DEF StreamEnd, StreamThrow, Executing, registryVars, finish, CoreInv, TypeOK
  <2>3. UNCHANGED frameVars \/ \E kind \in FrameKinds : append(r, kind)
    BY <1>2 DEF StreamEnd, StreamThrow, settlePump, decideTerminal, FrameKinds, TerminalKinds
  <2>4. CASE UNCHANGED frameVars
    BY <2>2, <2>4 DEF frameVars, FrameInv, FramesNumbered, SequenceFollowsRuns, Executing
  <2>5. CASE \E kind \in FrameKinds : append(r, kind)
    BY <2>2, <2>5, AppendKeepsOrder
  <2> QED BY <2>3, <2>4, <2>5
<1>3. ASSUME NEW t \in Threads, start(t) PROVE FrameInv'
  <2>1. /\ created + 1 \in Runs /\ thread' = [thread EXCEPT ![created + 1] = t]
        /\ phase[created + 1] = "unused"
        /\ \A q \in Runs \ {created + 1} : phase'[q] = phase[q]
        /\ UNCHANGED <<buffer, seqCounter>>
    BY <1>3, MaxRunsAssumption
       DEF start, frameVars, CoreInv, TypeOK, QueueInv, Started, Runs
  <2>2. \A i \in 1 .. Len(buffer[created + 1]) : FALSE
    BY <2>1 DEF FrameInv, FramesNumbered, Executing
  <2> QED BY <2>1, <2>2 DEF FrameInv, FramesNumbered, SequenceFollowsRuns, CoreInv, TypeOK
<1>4. ASSUME NEW r \in Runs, PriorSettled(r) \/ StreamBreak(r) PROVE FrameInv'
  <2>1. UNCHANGED <<thread, buffer, seqCounter>> /\ phase'[r] \in Executing \cup {"done"}
        /\ \A q \in Runs \ {r} : phase'[q] = phase[q]
    BY <1>4 DEF PriorSettled, StreamBreak, registryVars, frameVars, finish, Executing,
                CoreInv, TypeOK
  <2> QED BY <2>1 DEF FrameInv, FramesNumbered, SequenceFollowsRuns
<1>5. CASE UNCHANGED <<thread, phase, buffer, seqCounter>>
  BY <1>5 DEF FrameInv, FramesNumbered, SequenceFollowsRuns
<1>6. UNCHANGED vars => UNCHANGED <<thread, phase, buffer, seqCounter>>
  BY DEF vars, registryVars, pumpVars, frameVars
<1>7. \/ \E t \in Threads : cancel(t) \/ cancelAndWait(t) \/ beginThreadDeletion(t)
                            \/ ThreadDrained(t) \/ releaseThread(t)
      \/ \E r \in Runs : Evict(r) \/ settlesWithin(r)
      \/ Shutdown \/ whenIdle
      => UNCHANGED <<thread, phase, buffer, seqCounter>>
  BY DEF cancel, cancelAndWait, beginThreadDeletion, ThreadDrained, releaseThread, Evict,
         settlesWithin, Shutdown, whenIdle, registryVars, pumpVars, frameVars
<1> QED BY <1>1, <1>2, <1>3, <1>4, <1>5, <1>6, <1>7 DEF Next

(* The frames of an earlier run of a thread are numbered below those of a   *)
(* later one, whatever the bounds of the ring buffer.                       *)
THEOREM SequenceFollowsRunsHolds == Spec => []SequenceFollowsRuns
<1>1. Init => FrameInv
  BY DEF Init, FrameInv, FramesNumbered, SequenceFollowsRuns
<1>2. FrameInv => SequenceFollowsRuns
  BY DEF FrameInv
<1> QED BY <1>1, <1>2, FrameStep, CoreInvariant, PTL DEF Spec

-----------------------------------------------------------------------------
(* What a step may never do. *)

(* No frame is sent by a run that has been replaced.                        *)
THEOREM ReplacedRunsAreSilentHolds == Spec => ReplacedRunsAreSilent
<1> DEFINE Silent == \A r \in Runs : \/ buffer'[r] = buffer[r] /\ dropped'[r] = dropped[r]
                                     \/ runs[thread[r]] = r
<1>1. CoreInv /\ [Next]_vars => Silent
  <2> SUFFICES ASSUME CoreInv, [Next]_vars PROVE Silent
    OBVIOUS
  <2> USE DEF CoreInv
  <2>1. ASSUME NEW r \in Runs, NEW kind \in FrameKinds, append(r, kind),
               runs[thread[r]] = r
        PROVE  Silent
    BY <2>1, AppendFacts
  <2>2. ASSUME NEW r \in Runs, NEW kind \in StreamKinds, StreamFrame(r, kind) PROVE Silent
    <3>1. runs[thread[r]] = r
      BY <2>2 DEF StreamFrame, OrphansAreAborted, activeRuns
    <3> QED BY <2>1, <2>2, <3>1, StreamKindsAssumption
            DEF StreamFrame, FrameKinds, TerminalKinds
  <2>3. ASSUME NEW r \in Runs, StreamThrow(r) PROVE Silent
    <3>1. runs[thread[r]] = r
      BY <2>3 DEF StreamThrow, OrphansAreAborted, activeRuns
    <3> QED BY <2>1, <2>3, <3>1 DEF StreamThrow, FrameKinds, TerminalKinds
  <2>4. ASSUME NEW r \in Runs, StreamEnd(r) PROVE Silent
    <3>1. CASE runs[thread[r]] = r
      <4>1. UNCHANGED frameVars \/ \E kind \in FrameKinds : append(r, kind)
        BY <2>4 DEF StreamEnd, settlePump, decideTerminal, FrameKinds, TerminalKinds
      <4> QED BY <2>1, <3>1, <4>1 DEF frameVars
    <3>2. CASE runs[thread[r]] # r
      <4>1. aborted[r]
        BY <2>4, <3>2 DEF StreamEnd, OrphansAreAborted, activeRuns, Executing
      <4>2. UNCHANGED frameVars
        BY <2>4, <3>2, <4>1 DEF StreamEnd, settlePump, decideTerminal
      <4> QED BY <4>2 DEF frameVars
    <3> QED BY <3>1, <3>2
  <2>5. CASE UNCHANGED <<buffer, dropped>>
    BY <2>5
  <2>6. \/ \E t \in Threads : start(t) \/ cancel(t) \/ cancelAndWait(t)
                              \/ beginThreadDeletion(t) \/ ThreadDrained(t) \/ releaseThread(t)
        \/ \E r \in Runs : PriorSettled(r) \/ StreamBreak(r) \/ Evict(r) \/ settlesWithin(r)
        \/ Shutdown \/ whenIdle \/ UNCHANGED vars
        => UNCHANGED <<buffer, dropped>>
    BY DEF start, cancel, cancelAndWait, beginThreadDeletion, ThreadDrained, releaseThread,
           PriorSettled, StreamBreak, Evict, settlesWithin, Shutdown, whenIdle, vars, frameVars
  <2> QED BY <2>2, <2>3, <2>4, <2>5, <2>6 DEF Next
<1> QED BY <1>1, CoreInvariant, PTL DEF Spec, ReplacedRunsAreSilent

(* Only a finished run leaves the registry without a replacement.           *)
THEOREM EvictionSparesActiveHolds == Spec => EvictionSparesActive
<1> DEFINE Spared == \A t \in Threads :
                       runs[t] # NoRun /\ runs'[t] = NoRun => IsDone(runs[t])
<1>1. CoreInv /\ [Next]_vars => Spared
  <2> SUFFICES ASSUME CoreInv, [Next]_vars PROVE Spared
    OBVIOUS
  <2> USE DEF CoreInv
  <2>1. ASSUME NEW t \in Threads, start(t) PROVE Spared
    <3>1. created + 1 # NoRun
      BY DEF TypeOK, NoRun
    <3> QED BY <2>1, <3>1 DEF start, TypeOK
  <2>2. ASSUME NEW r \in Runs, Evict(r) PROVE Spared
    BY <2>2 DEF Evict, TimersAfterEnd, TypeOK
  <2>3. ASSUME NEW t \in Threads, ThreadDrained(t) PROVE Spared
    <3>1. ~isRunning(t)
      BY <2>3, DrainedIsIdle
    <3> QED BY <2>3, <3>1 DEF ThreadDrained, isRunning, TypeOK
  <2>4. CASE UNCHANGED runs
    BY <2>4
  <2>5. \/ \E t \in Threads : cancel(t) \/ cancelAndWait(t) \/ beginThreadDeletion(t)
                              \/ releaseThread(t)
        \/ \E r \in Runs : \/ PriorSettled(r) \/ StreamBreak(r) \/ StreamEnd(r)
                           \/ StreamThrow(r) \/ settlesWithin(r)
                           \/ \E kind \in StreamKinds : StreamFrame(r, kind)
        \/ Shutdown \/ whenIdle \/ UNCHANGED vars
        => UNCHANGED runs
    BY DEF cancel, cancelAndWait, beginThreadDeletion, releaseThread, PriorSettled,
           StreamBreak, StreamEnd, StreamThrow, settlesWithin, StreamFrame, Shutdown,
           whenIdle, vars, registryVars
  <2> QED BY <2>1, <2>2, <2>3, <2>4, <2>5 DEF Next
<1> QED BY <1>1, CoreInvariant, PTL DEF Spec, EvictionSparesActive

(* The active runs of a thread that is being deleted report no end.         *)
DiscardInv ==
  \A t \in threadsBeingDeleted : \A r \in activeRuns \cap ThreadRuns(t) : discarded[r]

LEMMA DiscardStep == CoreInv /\ DiscardInv /\ [Next]_vars => DiscardInv'
<1> SUFFICES ASSUME CoreInv, DiscardInv, [Next]_vars PROVE DiscardInv'
  OBVIOUS
<1> USE DEF CoreInv
<1>1. ASSUME activeRuns' \subseteq activeRuns, UNCHANGED <<thread, deletion, discarded>>
      PROVE  DiscardInv'
  BY <1>1 DEF DiscardInv, threadsBeingDeleted, ThreadRuns
<1>2. ASSUME NEW t \in Threads, start(t) PROVE DiscardInv'
  <2>1. /\ created + 1 \in Runs
        /\ thread' = [thread EXCEPT ![created + 1] = t]
        /\ \A q \in Runs \ {created + 1} : phase'[q] = phase[q]
        /\ UNCHANGED <<deletion, discarded>>
        /\ t \notin threadsBeingDeleted
    BY <1>2, MaxRunsAssumption DEF start, TypeOK, Runs
  <2> QED BY <2>1 DEF DiscardInv, threadsBeingDeleted, ThreadRuns, activeRuns, TypeOK
<1>3. ASSUME NEW t \in Threads, beginThreadDeletion(t) PROVE DiscardInv'
  <2>1. /\ \A s \in Threads \ {t} : deletion'[s] = deletion[s]
        /\ \A r \in Runs : discarded'[r] = (discarded[r] \/ r \in activeRuns \cap ThreadRuns(t))
        /\ UNCHANGED <<thread, phase>>
    BY <1>3 DEF beginThreadDeletion, activeOf, TypeOK, pumpVars
  <2> QED BY <2>1 DEF DiscardInv, threadsBeingDeleted, ThreadRuns, activeRuns
<1>4. ASSUME NEW t \in Threads, ThreadDrained(t) \/ releaseThread(t) PROVE DiscardInv'
  <2>1. /\ \A s \in Threads \ {t} : deletion'[s] = deletion[s]
        /\ UNCHANGED <<thread, phase, discarded>>
    BY <1>4 DEF ThreadDrained, releaseThread, TypeOK, pumpVars, endVars
  <2>2. CASE ThreadDrained(t)
    <3>1. t \in threadsBeingDeleted
      BY <2>2 DEF ThreadDrained, threadsBeingDeleted
    <3> QED BY <2>1, <3>1 DEF DiscardInv, threadsBeingDeleted, ThreadRuns, activeRuns
  <2>3. CASE releaseThread(t)
    <3>1. deletion'[t].phase = "none"
      BY <2>3 DEF releaseThread, NoDeletion, TypeOK
    <3> QED BY <2>1, <3>1 DEF DiscardInv, threadsBeingDeleted, ThreadRuns, activeRuns
  <2> QED BY <1>4, <2>2, <2>3
<1>5. ASSUME NEW r \in Runs, PriorSettled(r) \/ StreamBreak(r) \/ StreamEnd(r) \/ StreamThrow(r)
      PROVE  DiscardInv'
  <2>1. /\ UNCHANGED <<thread, deletion, discarded>>
        /\ phase[r] \notin {"unused", "done"}
        /\ \A q \in Runs \ {r} : phase'[q] = phase[q]
    BY <1>5 DEF PriorSettled, StreamBreak, StreamEnd, StreamThrow, settlePump, finish,
                registryVars, endVars, Executing, TypeOK
  <2> QED BY <1>1, <2>1 DEF activeRuns
<1>6. \/ \E t \in Threads : cancel(t) \/ cancelAndWait(t)
      \/ \E r \in Runs : Evict(r) \/ settlesWithin(r)
                         \/ \E kind \in StreamKinds : StreamFrame(r, kind)
      \/ Shutdown \/ whenIdle \/ UNCHANGED vars
      => UNCHANGED <<phase, thread, deletion, discarded>>
  BY DEF cancel, cancelAndWait, Evict, settlesWithin, StreamFrame, Shutdown, whenIdle,
         vars, registryVars, pumpVars, endVars
<1> QED BY <1>1, <1>2, <1>3, <1>4, <1>5, <1>6 DEF Next, activeRuns

(* No run end is reported for a thread that is being deleted.               *)
THEOREM DeletionIsSilentHolds == Spec => DeletionIsSilent
<1> DEFINE Mute == \A r \in Runs :
                     ended'[r] # ended[r] => thread[r] \notin threadsBeingDeleted
<1>1. CoreInv /\ DiscardInv /\ [Next]_vars => Mute
  <2> SUFFICES ASSUME CoreInv, DiscardInv, [Next]_vars PROVE Mute
    OBVIOUS
  <2> USE DEF CoreInv
  <2>1. ASSUME NEW r \in Runs, PriorSettled(r) \/ StreamEnd(r) \/ StreamThrow(r)
        PROVE  Mute
    <3>1. r \in activeRuns /\ (UNCHANGED ended \/ \E status \in Statuses : finish(r, status))
      BY <2>1 DEF PriorSettled, StreamEnd, StreamThrow, settlePump, decideTerminal,
                  activeRuns, Executing, endVars, Statuses
    <3>2. discarded[r] => UNCHANGED ended
      BY <3>1 DEF finish
    <3>3. \A q \in Runs \ {r} : ended'[q] = ended[q]
      BY <3>1 DEF finish, TypeOK
    <3> QED BY <3>1, <3>2, <3>3 DEF DiscardInv, ThreadRuns
  <2>2. \/ \E t \in Threads : start(t) \/ cancel(t) \/ cancelAndWait(t)
                              \/ beginThreadDeletion(t) \/ ThreadDrained(t) \/ releaseThread(t)
        \/ \E r \in Runs : StreamBreak(r) \/ Evict(r) \/ settlesWithin(r)
                           \/ \E kind \in StreamKinds : StreamFrame(r, kind)
        \/ Shutdown \/ whenIdle \/ UNCHANGED vars
        => UNCHANGED ended
    BY DEF start, cancel, cancelAndWait, beginThreadDeletion, ThreadDrained, releaseThread,
           StreamBreak, Evict, settlesWithin, StreamFrame, Shutdown, whenIdle, vars, endVars
  <2> QED BY <2>1, <2>2 DEF Next
<1>2. Init => DiscardInv
  BY DEF Init, DiscardInv, threadsBeingDeleted, NoDeletion
<1> QED BY <1>1, <1>2, DiscardStep, CoreInvariant, PTL DEF Spec, DeletionIsSilent

(* What is over for its observers says nothing more: neither a replaced run *)
(* nor one whose thread is being deleted.                                   *)
THEOREM SilentOnceOverHolds == Spec => SilentOnceOver
BY ReplacedRunsAreSilentHolds, DeletionIsSilentHolds DEF SilentOnceOver

-----------------------------------------------------------------------------
(* A run that ended in the graph without a terminal frame has been replaced. *)

AnnouncedInv ==
  \A r \in Runs :
    IsDone(r) /\ prior[r] = NoRun /\ ~sawTerminal[r] => runs[thread[r]] # r

LEMMA AnnouncedStep == CoreInv /\ AnnouncedInv /\ [Next]_vars => AnnouncedInv'
<1> SUFFICES ASSUME CoreInv, AnnouncedInv, [Next]_vars PROVE AnnouncedInv'
  OBVIOUS
<1> USE DEF CoreInv
<1>0. \A r \in Runs : phase[r] # "unused" => thread[r] \in Threads /\ r <= created
  BY MaxRunsAssumption DEF QueueInv, Started, TypeOK, Runs
<1>1. ASSUME NEW t \in Threads, start(t) PROVE AnnouncedInv'
  <2> DEFINE new == created + 1
  <2>1. /\ new \in Runs
        /\ \A r \in Runs \ {new} : phase'[r] = phase[r] /\ prior'[r] = prior[r]
                                   /\ thread'[r] = thread[r]
        /\ phase'[new] # "done"
        /\ UNCHANGED sawTerminal
    BY <1>1, MaxRunsAssumption DEF start, TypeOK, Runs
  <2>2. \A s \in Threads : runs'[s] \in {runs[s], new}
    BY <1>1 DEF start, TypeOK
  <2>3. \A r \in Runs : IsDone(r)' => r # new /\ IsDone(r) /\ thread[r] \in Threads
    BY <1>0, <2>1 DEF IsDone
  <2> QED BY <2>1, <2>2, <2>3 DEF AnnouncedInv
<1>2. ASSUME NEW r \in Runs, PriorSettled(r) PROVE AnnouncedInv'
  <2>1. /\ UNCHANGED <<runs, thread, sawTerminal>>
        /\ \A q \in Runs \ {r} : phase'[q] = phase[q] /\ prior'[q] = prior[q]
    BY <1>2 DEF PriorSettled, finish, registryVars, TypeOK
  <2>2. IsDone(r)' => prior'[r] # NoRun
    <3>1. prior[r] # NoRun
      BY <1>2 DEF PriorSettled, QueueInv, QueueOrder, Runs, NoRun
    <3> QED BY <1>2, <3>1 DEF PriorSettled, finish, IsDone, TypeOK
  <2> QED BY <2>1, <2>2 DEF AnnouncedInv, IsDone
<1>3. ASSUME NEW r \in Runs, StreamEnd(r) PROVE AnnouncedInv'
  <2>1. /\ UNCHANGED <<runs, thread, prior>>
        /\ \A q \in Runs \ {r} : phase'[q] = phase[q] /\ sawTerminal'[q] = sawTerminal[q]
    BY <1>3 DEF StreamEnd, settlePump, finish, registryVars, frameVars, TypeOK
  <2>2. sawTerminal'[r] \/ runs[thread[r]] # r
    BY <1>3 DEF StreamEnd, settlePump, decideTerminal, TypeOK
  <2> QED BY <2>1, <2>2 DEF AnnouncedInv, IsDone
<1>4. ASSUME NEW r \in Runs, StreamThrow(r) PROVE AnnouncedInv'
  <2>1. /\ UNCHANGED <<runs, thread, prior>>
        /\ sawTerminal'[r]
        /\ \A q \in Runs \ {r} : phase'[q] = phase[q] /\ sawTerminal'[q] = sawTerminal[q]
    BY <1>4 DEF StreamThrow, finish, registryVars, TypeOK
  <2> QED BY <2>1 DEF AnnouncedInv, IsDone
<1>5. ASSUME NEW r \in Runs, NEW kind \in StreamKinds, StreamFrame(r, kind)
      PROVE  AnnouncedInv'
  <2>1. /\ UNCHANGED <<runs, thread, phase, prior>>
        /\ \A q \in Runs : sawTerminal[q] => sawTerminal'[q]
    BY <1>5 DEF StreamFrame, registryVars, TypeOK
  <2> QED BY <2>1 DEF AnnouncedInv, IsDone
<1>6. ASSUME NEW r \in Runs, StreamBreak(r) PROVE AnnouncedInv'
  <2>1. /\ UNCHANGED <<runs, thread, prior, sawTerminal>>
        /\ \A q \in Runs : IsDone(q)' => IsDone(q)
    BY <1>6 DEF StreamBreak, registryVars, TypeOK, IsDone
  <2> QED BY <2>1 DEF AnnouncedInv
<1>7. ASSUME \/ \E r \in Runs : Evict(r)
             \/ \E t \in Threads : ThreadDrained(t)
      PROVE  AnnouncedInv'
  <2>1. /\ UNCHANGED <<thread, phase, prior, sawTerminal>>
        /\ \A t \in Threads : runs'[t] \in {runs[t], NoRun}
    BY <1>7 DEF Evict, ThreadDrained, pumpVars, TypeOK
  <2> QED BY <1>0, <2>1 DEF AnnouncedInv, IsDone, Runs, NoRun
<1>8. ASSUME \/ \E t \in Threads : \/ cancel(t) \/ cancelAndWait(t)
                                   \/ beginThreadDeletion(t) \/ releaseThread(t)
             \/ \E r \in Runs : settlesWithin(r)
             \/ Shutdown \/ whenIdle \/ UNCHANGED vars
      PROVE  AnnouncedInv'
  <2>1. UNCHANGED <<runs, thread, phase, prior, sawTerminal>>
    BY <1>8 DEF cancel, cancelAndWait, beginThreadDeletion, releaseThread, settlesWithin,
                Shutdown, whenIdle, vars, registryVars, pumpVars
  <2> QED BY <2>1 DEF AnnouncedInv, IsDone
<1> QED BY <1>1, <1>2, <1>3, <1>4, <1>5, <1>6, <1>7, <1>8 DEF Next

(* A registered run that was let into the graph and ended has sent its      *)
(* observers a terminal frame, however it ended.                            *)
THEOREM SettledRunAnnouncedHolds == Spec => []SettledRunAnnounced
<1>1. Init => AnnouncedInv
  BY DEF Init, AnnouncedInv, IsDone
<1>2. CoreInv /\ AnnouncedInv => SettledRunAnnounced
  BY DEF CoreInv, TypeOK, QueueInv, Registered, AnnouncedInv, SettledRunAnnounced
<1> QED BY <1>1, <1>2, AnnouncedStep, CoreInvariant, PTL DEF Spec

-----------------------------------------------------------------------------
(* RunManager implements SerialRuns. *)

exec == [t \in Threads |-> {r \in ThreadRuns(t) : phase[r] \in Executing}]
past == [t \in Threads |-> {r \in ThreadRuns(t) : IsDone(r)}]

(* A run that has not reached the graph, and all of whose predecessors have *)
(* ended, is the next of its thread.                                        *)
LEMMA NextOfThread ==
  ASSUME CoreInv, NEW r \in Runs, phase[r] \notin Executing \cup {"done"},
         NEW t \in Threads,
         \A q \in ThreadRuns(t) : q < r => IsDone(q),
         \A q \in ThreadRuns(t) : q > r => phase[q] \notin Executing \cup {"done"}
  PROVE  exec[t] = {} /\ \A q \in past[t] : q < r
BY DEF exec, past, ThreadRuns, IsDone, Executing, Runs

(* Between two states that agree on everything but one run, the threads     *)
(* other than its own are as they were.                                     *)
LEMMA OtherThreadsStay ==
  ASSUME CoreInv, NEW r \in Runs, NEW t \in Threads, thread'[r] = t,
         thread[r] \in {t, NoThread},
         \A q \in Runs \ {r} : phase'[q] = phase[q] /\ thread'[q] = thread[q]
  PROVE  /\ \A s \in Threads \ {t} : exec'[s] = exec[s] /\ past'[s] = past[s]
         /\ exec'[t] = (exec[t] \ {r}) \cup (IF phase'[r] \in Executing THEN {r} ELSE {})
         /\ past'[t] = (past[t] \ {r}) \cup (IF phase'[r] = "done" THEN {r} ELSE {})
BY NoThreadAssumption DEF exec, past, ThreadRuns, IsDone

LEMMA BeginTurn ==
  ASSUME CoreInv, NEW r \in Runs, NEW t \in Threads, thread'[r] = t,
         thread[r] \in {t, NoThread}, phase[r] \notin Executing \cup {"done"},
         \A q \in Runs \ {r} : phase'[q] = phase[q] /\ thread'[q] = thread[q],
         \A q \in ThreadRuns(t) : q < r => IsDone(q),
         \A q \in ThreadRuns(t) : q > r => phase[q] \notin Executing \cup {"done"},
         phase'[r] \in Executing \cup {"done"}
  PROVE  Serial!Begin(t, r) \/ Serial!Skip(t, r)
<1>1. exec[t] = {} /\ \A q \in past[t] : q < r
  BY NextOfThread
<1>2. /\ \A s \in Threads \ {t} : exec'[s] = exec[s] /\ past'[s] = past[s]
      /\ exec'[t] = (exec[t] \ {r}) \cup (IF phase'[r] \in Executing THEN {r} ELSE {})
      /\ past'[t] = (past[t] \ {r}) \cup (IF phase'[r] = "done" THEN {r} ELSE {})
  BY OtherThreadsStay
<1>3. r \notin exec[t] /\ r \notin past[t]
  BY DEF exec, past, IsDone
<1>4. exec = [s \in Threads |-> exec[s]] /\ past = [s \in Threads |-> past[s]]
      /\ exec' = [s \in Threads |-> exec'[s]] /\ past' = [s \in Threads |-> past'[s]]
  BY DEF exec, past
<1>5. CASE phase'[r] \in Executing
  <2>1. exec' = [exec EXCEPT ![t] = {r}] /\ past' = past
    BY <1>1, <1>2, <1>3, <1>4, <1>5 DEF Executing
  <2> QED BY <1>1, <2>1 DEF Serial!Begin, Serial!IsNext, exec, past
<1>6. CASE phase'[r] = "done"
  <2>1. past' = [past EXCEPT ![t] = past[t] \cup {r}] /\ exec' = exec
    BY <1>1, <1>2, <1>3, <1>4, <1>6 DEF Executing
  <2> QED BY <1>1, <2>1 DEF Serial!Skip, Serial!IsNext, exec, past
<1> QED BY <1>5, <1>6

LEMMA EndTurn ==
  ASSUME CoreInv, NEW r \in Runs, phase[r] \in Executing, phase'[r] = "done",
         UNCHANGED thread, \A q \in Runs \ {r} : phase'[q] = phase[q]
  PROVE  thread[r] \in Threads /\ Serial!End(thread[r], r)
<1> DEFINE t == thread[r]
<1>1. t \in Threads
  BY DEF CoreInv, QueueInv, Started, TypeOK, Runs, Executing
<1>2. exec[t] = {r}
  BY <1>1, CoreSafety DEF exec, ThreadRuns, SerialExecution
<1>3. /\ \A s \in Threads \ {t} : exec'[s] = exec[s] /\ past'[s] = past[s]
      /\ exec'[t] = (exec[t] \ {r}) \cup (IF phase'[r] \in Executing THEN {r} ELSE {})
      /\ past'[t] = (past[t] \ {r}) \cup (IF phase'[r] = "done" THEN {r} ELSE {})
  BY <1>1, OtherThreadsStay
<1>4. exec = [s \in Threads |-> exec[s]] /\ past = [s \in Threads |-> past[s]]
      /\ exec' = [s \in Threads |-> exec'[s]] /\ past' = [s \in Threads |-> past'[s]]
  BY DEF exec, past
<1>5. r \notin past[t]
  BY <1>1 DEF past, IsDone, Executing
<1>6. exec' = [exec EXCEPT ![t] = {}] /\ past' = [past EXCEPT ![t] = past[t] \cup {r}]
  BY <1>1, <1>2, <1>3, <1>4, <1>5 DEF Executing
<1> QED BY <1>1, <1>2, <1>6 DEF Serial!End, exec, past

LEMMA TurnStep == CoreInv /\ [Next]_vars => [Serial!SerialNext]_(Serial!serialVars)
<1> SUFFICES ASSUME CoreInv, [Next]_vars
             PROVE  Serial!SerialNext \/ UNCHANGED Serial!serialVars
  OBVIOUS
<1>1. ASSUME NEW t \in Threads, start(t) PROVE Serial!SerialNext \/ UNCHANGED Serial!serialVars
  <2>0. PICK new \in Runs : new = created + 1
    BY <1>1, MaxRunsAssumption DEF start, CoreInv, TypeOK, Runs
  <2>1. /\ new \in Runs /\ thread'[new] = t /\ thread[new] = NoThread
        /\ phase[new] = "unused"
        /\ \A q \in Runs \ {new} : phase'[q] = phase[q] /\ thread'[q] = thread[q]
        /\ phase'[new] = IF isRunning(t) THEN "queued" ELSE "streaming"
        /\ \A q \in ThreadRuns(t) : q < new
    BY <1>1, <2>0, MaxRunsAssumption, NoThreadAssumption
       DEF start, CoreInv, TypeOK, QueueInv, Started, ThreadRuns, Runs
  <2>2. CASE isRunning(t)
    <3>1. \A s \in Threads : exec'[s] = exec[s] /\ past'[s] = past[s]
      <4>1. new \notin exec[t] /\ new \notin past[t]
        BY <2>1 DEF exec, past, IsDone, Executing
      <4>2. phase'[new] \notin Executing /\ phase'[new] # "done"
        BY <2>1, <2>2 DEF Executing
      <4>3. /\ \A s \in Threads \ {t} : exec'[s] = exec[s] /\ past'[s] = past[s]
            /\ exec'[t] = (exec[t] \ {new})
                           \cup (IF phase'[new] \in Executing THEN {new} ELSE {})
            /\ past'[t] = (past[t] \ {new})
                           \cup (IF phase'[new] = "done" THEN {new} ELSE {})
        BY <2>1, OtherThreadsStay
      <4> QED BY <4>1, <4>2, <4>3
    <3> QED BY <3>1 DEF Serial!serialVars, exec, past
  <2>3. CASE ~isRunning(t)
    <3>1. \A q \in ThreadRuns(t) : IsDone(q)
      BY <2>3, IdleThread DEF CoreInv
    <3>2. Serial!Begin(t, new) \/ Serial!Skip(t, new)
      <4>1. \A q \in ThreadRuns(t) : q > new => phase[q] \notin Executing \cup {"done"}
        BY <2>1 DEF ThreadRuns, Runs
      <4>2. \A q \in ThreadRuns(t) : q < new => IsDone(q)
        BY <3>1
      <4>3. /\ phase[new] \notin Executing \cup {"done"}
            /\ phase'[new] \in Executing \cup {"done"}
            /\ thread[new] \in {t, NoThread}
        BY <2>1, <2>3 DEF Executing
      <4> QED BY <2>1, <4>1, <4>2, <4>3, BeginTurn
    <3> QED BY <2>1, <3>2 DEF Serial!SerialNext
  <2> QED BY <2>2, <2>3
<1>2. ASSUME NEW r \in Runs, PriorSettled(r)
      PROVE  Serial!SerialNext \/ UNCHANGED Serial!serialVars
  <2>1. \A q \in Runs : q < r /\ thread[q] = thread[r] => IsDone(q)
    BY <1>2, EarlierRunsEnded DEF PriorSettled, inTurn
  <2>2. thread[r] \in Threads
    BY <1>2 DEF PriorSettled, CoreInv, QueueInv, Started, TypeOK, Runs
  <2>3. /\ UNCHANGED thread /\ phase[r] = "queued"
        /\ phase'[r] \in Executing \cup {"done"}
        /\ \A q \in Runs \ {r} : phase'[q] = phase[q]
    BY <1>2 DEF PriorSettled, finish, registryVars, Executing, CoreInv, TypeOK
  <2>4. \A q \in ThreadRuns(thread[r]) : q > r => phase[q] \notin Executing \cup {"done"}
    BY <2>3 DEF CoreInv, QueueInv, InTurn, IsDone, ThreadRuns, Runs
  <2>5. Serial!Begin(thread[r], r) \/ Serial!Skip(thread[r], r)
    <3>1. \A q \in ThreadRuns(thread[r]) : q < r => IsDone(q)
      BY <2>1 DEF ThreadRuns
    <3>2. /\ phase[r] \notin Executing \cup {"done"}
          /\ thread'[r] = thread[r]
          /\ \A q \in Runs \ {r} : phase'[q] = phase[q] /\ thread'[q] = thread[q]
      BY <2>3 DEF Executing
    <3> QED BY <2>2, <2>3, <2>4, <3>1, <3>2, BeginTurn
  <2> QED BY <2>2, <2>5 DEF Serial!SerialNext
<1>3. ASSUME NEW r \in Runs, StreamEnd(r) \/ StreamThrow(r)
      PROVE  Serial!SerialNext \/ UNCHANGED Serial!serialVars
  <2>1. /\ UNCHANGED thread /\ phase[r] \in Executing /\ phase'[r] = "done"
        /\ \A q \in Runs \ {r} : phase'[q] = phase[q]
    BY <1>3 DEF StreamEnd, StreamThrow, settlePump, finish, registryVars, Executing,
                CoreInv, TypeOK
  <2> QED BY <2>1, EndTurn DEF Serial!SerialNext
<1>4. ASSUME NEW r \in Runs, StreamBreak(r)
      PROVE  Serial!SerialNext \/ UNCHANGED Serial!serialVars
  <2>1. /\ UNCHANGED thread /\ phase[r] \in Executing /\ phase'[r] \in Executing
        /\ \A q \in Runs \ {r} : phase'[q] = phase[q]
    BY <1>4 DEF StreamBreak, registryVars, Executing, CoreInv, TypeOK
  <2>2. UNCHANGED <<exec, past>>
    BY <2>1 DEF exec, past, ThreadRuns, IsDone, Executing
  <2> QED BY <2>2 DEF Serial!serialVars, exec, past
<1>5. ASSUME UNCHANGED <<thread, phase>> PROVE UNCHANGED Serial!serialVars
  BY <1>5 DEF Serial!serialVars, ThreadRuns, IsDone
<1>6. \/ \E t \in Threads : cancel(t) \/ cancelAndWait(t) \/ beginThreadDeletion(t)
                            \/ ThreadDrained(t) \/ releaseThread(t)
      \/ \E r \in Runs : Evict(r) \/ settlesWithin(r)
                         \/ \E kind \in StreamKinds : StreamFrame(r, kind)
      \/ Shutdown \/ whenIdle \/ UNCHANGED vars
      => UNCHANGED <<thread, phase>>
  BY DEF cancel, cancelAndWait, beginThreadDeletion, ThreadDrained, releaseThread, Evict,
         settlesWithin, StreamFrame, Shutdown, whenIdle, vars, registryVars, pumpVars
<1> QED BY <1>1, <1>2, <1>3, <1>4, <1>5, <1>6 DEF Next

(* The runs of a thread take their turn at the graph one at a time, in the  *)
(* order in which they were started.                                        *)
THEOREM RunManagerImplementsSerialRuns == Spec => TakesTurns
<1>1. Init => Serial!SerialInit
  BY DEF Init, Serial!SerialInit, ThreadRuns, IsDone, Executing
<1> QED BY <1>1, TurnStep, CoreInvariant, PTL DEF Spec, TakesTurns, Serial!SerialSpec

-----------------------------------------------------------------------------
(* RunStream from here on; first numbers. *)

LEMMA LeastNumber ==
  ASSUME NEW S \in SUBSET Nat, S # {}
  PROVE  Min(S) \in S /\ \A m \in S : Min(S) <= m
<1> DEFINE R == OpToRel(<, Nat)
<1>1. IsWellFoundedOn(R, Nat)
  BY NatLessThanWellFounded
<1>2. \A m, n \in Nat : m < n => <<m, n>> \in R
  BY DEF OpToRel
<1> HIDE DEF R
<1>3. PICK n \in S : \A m \in S : ~(<<m, n>> \in R)
  BY <1>1, WFMin
<1>4. \A m \in S : ~(m < n)
  BY <1>2, <1>3
<1>5. \A m \in S : m \in Nat /\ n \in Nat
  OBVIOUS
<1>6. \E x \in S : \A m \in S : x <= m
  BY <1>4, <1>5
<1> QED BY <1>6 DEF Min

(* The last frame that was received, or None. *)
LEMMA LastReceived ==
  ASSUME NEW S \in SUBSET Nat, NEW b \in Nat, \A m \in S : m < b
  PROVE  /\ Max(S \cup {None}) \in S \cup {None}
         /\ \A m \in S : m <= Max(S \cup {None})
<1> DEFINE T     == S \cup {None}
           above == {n \in Nat : \A m \in S : m < n}
<1>1. PICK n \in above : \A m \in above : n <= m
  <2>1. b \in above
    OBVIOUS
  <2> QED BY <2>1, LeastNumber
<1>2. n - 1 \in T /\ \A m \in T : n - 1 >= m
  <2>1. \A m \in T : n - 1 >= m
    BY DEF None
  <2>2. ASSUME n - 1 \notin T PROVE FALSE
    <3>1. n # 0
      BY <2>2 DEF None
    <3>2. n - 1 \in Nat
      BY <3>1
    <3>3. \A m \in S : m < n - 1
      BY <2>1, <2>2
    <3>4. n - 1 \in above
      BY <3>2, <3>3
    <3> QED BY <1>1, <3>4
  <2> QED BY <2>1, <2>2
<1>3. \E x \in T : \A m \in T : x >= m
  BY <1>2
<1>4. Max(T) \in T /\ \A m \in T : Max(T) >= m
  <2> HIDE DEF T
  <2> QED BY <1>3 DEF Max
<1>5. Max(T) \in Int
  <2>1. T \subseteq Int
    BY DEF None
  <2> HIDE DEF T
  <2> QED BY <1>4, <2>1
<1> QED BY <1>4, <1>5

-----------------------------------------------------------------------------
(* Replay buffers. *)

end(r) == dropped[r] + Len(buffer[r])

FramesAscend ==
  \A r \in Runs : \A i, j \in 1 .. Len(buffer[r]) :
    i < j => buffer[r][i].seq < buffer[r][j].seq

RegistryInv == CoreInv /\ FrameInv /\ FramesAscend

LEMMA FrameFacts ==
  ASSUME RegistryInv, NEW r \in Runs
  PROVE  /\ end(r) \in Nat /\ dropped[r] \in Nat
         /\ ordinals(r) \subseteq Nat
         /\ \A k \in ordinals(r) : dropped[r] <= k /\ k < end(r)
         /\ \A k \in ordinals(r) : frameAt(r, k).seq \in Nat /\ frameAt(r, k).seq < seqCounter
                                   /\ phase[r] \in Executing \cup {"done"}
         /\ \A k, l \in ordinals(r) : k < l => frameAt(r, k).seq < frameAt(r, l).seq
<1>1. buffer[r] \in Seq(Frames) /\ dropped[r] \in Nat
  BY DEF RegistryInv, CoreInv, TypeOK
<1>2. Len(buffer[r]) \in Nat
  BY <1>1, LenProperties
<1>3. \A k \in ordinals(r) : k - dropped[r] + 1 \in 1 .. Len(buffer[r]) /\ k \in Nat
                             /\ dropped[r] <= k /\ k < end(r)
  BY <1>1, <1>2 DEF ordinals, end
<1>4. \A i \in 1 .. Len(buffer[r]) : buffer[r][i] \in Frames
  BY <1>1, ElementOfSeq
<1>5. \A k \in ordinals(r) : frameAt(r, k).seq \in Nat /\ frameAt(r, k).seq < seqCounter
                             /\ phase[r] \in Executing \cup {"done"}
  BY <1>3, <1>4 DEF frameAt, Frames, RegistryInv, FrameInv, FramesNumbered
<1>6. ASSUME NEW k \in ordinals(r), NEW l \in ordinals(r), k < l
      PROVE  frameAt(r, k).seq < frameAt(r, l).seq
  <2>1. k - dropped[r] + 1 < l - dropped[r] + 1
    BY <1>1, <1>3, <1>6
  <2> QED BY <1>3, <2>1 DEF frameAt, RegistryInv, FramesAscend
<1>7. end(r) \in Nat
  BY <1>1, <1>2 DEF end
<1> QED BY <1>1, <1>3, <1>5, <1>6, <1>7

LEMMA LaterRunsFollow ==
  ASSUME RegistryInv, NEW r \in Runs, NEW q \in Runs, r < q, thread[r] = thread[q],
         NEW k \in ordinals(r), NEW l \in ordinals(q)
  PROVE  frameAt(r, k).seq < frameAt(q, l).seq
<1>1. /\ buffer[r] \in Seq(Frames) /\ dropped[r] \in Nat
      /\ buffer[q] \in Seq(Frames) /\ dropped[q] \in Nat
  BY DEF RegistryInv, CoreInv, TypeOK
<1>2. Len(buffer[r]) \in Nat /\ Len(buffer[q]) \in Nat
  BY <1>1, LenProperties
<1>3. k - dropped[r] + 1 \in 1 .. Len(buffer[r])
  BY <1>1, <1>2 DEF ordinals
<1>4. l - dropped[q] + 1 \in 1 .. Len(buffer[q])
  BY <1>1, <1>2 DEF ordinals
<1> QED BY <1>3, <1>4 DEF frameAt, RegistryInv, FrameInv, SequenceFollowsRuns

(* append adds a frame at the end, and may evict the first. *)
LEMMA AppendedFrame ==
  ASSUME RegistryInv, NEW r \in Runs, NEW kind \in FrameKinds, append(r, kind)
  PROVE  /\ end(r)' = end(r) + 1
         /\ \A k \in ordinals(r)' : \/ k \in ordinals(r) /\ frameAt(r, k)' = frameAt(r, k)
                                    \/ k = end(r) /\ frameAt(r, k)'.seq = seqCounter
         /\ \A i, j \in 1 .. Len(buffer'[r]) : i < j => buffer'[r][i].seq < buffer'[r][j].seq
<1> DEFINE frame  == [seq |-> seqCounter, kind |-> kind]
           frames == Append(buffer[r], frame)
           d      == dropped[r]
           n      == Len(buffer[r])
<1>1. /\ frame \in Frames /\ frame.seq = seqCounter /\ seqCounter \in Nat
      /\ buffer[r] \in Seq(Frames) /\ n \in Nat /\ d \in Nat
  BY LenProperties DEF RegistryInv, CoreInv, TypeOK, Frames
<1>2. /\ frames \in Seq(Frames) /\ frames # <<>> /\ Len(frames) = n + 1
      /\ \A i \in 1 .. n : frames[i] = buffer[r][i]
      /\ frames[n + 1] = frame
  BY <1>1, AppendProperties
<1>3. /\ buffer'[r] = IF n + 1 > BufferCap THEN Tail(frames) ELSE frames
      /\ dropped'[r] = IF n + 1 > BufferCap THEN d + 1 ELSE d
  BY <1>2 DEF append, RegistryInv, CoreInv, TypeOK
<1>4. \A i \in 1 .. n : buffer[r][i].seq \in Nat /\ buffer[r][i].seq < seqCounter
  <2>1. \A i \in 1 .. n : buffer[r][i] \in Frames
    BY <1>1, ElementOfSeq
  <2> QED BY <2>1 DEF Frames, RegistryInv, FrameInv, FramesNumbered
<1> HIDE DEF frames, frame
<1>5. \A i, j \in 1 .. n + 1 : i < j => frames[i].seq < frames[j].seq
  <2> SUFFICES ASSUME NEW i \in 1 .. n + 1, NEW j \in 1 .. n + 1, i < j
               PROVE  frames[i].seq < frames[j].seq
    OBVIOUS
  <2>1. i \in 1 .. n /\ (j = n + 1 \/ j \in 1 .. n)
    BY <1>1
  <2>2. CASE j = n + 1
    BY <1>1, <1>2, <1>4, <2>1, <2>2
  <2>3. CASE j \in 1 .. n
    BY <1>2, <2>1, <2>3 DEF RegistryInv, FramesAscend
  <2> QED BY <2>1, <2>2, <2>3
<1>6. CASE n + 1 > BufferCap
  <2>1. /\ dropped'[r] = d + 1 /\ buffer'[r] = Tail(frames) /\ Len(buffer'[r]) = n
        /\ \A i \in 1 .. n : buffer'[r][i] = frames[i + 1]
    BY <1>1, <1>2, <1>3, <1>6, HeadTailProperties
  <2>2. end(r)' = end(r) + 1
    BY <1>1, <2>1 DEF end
  <2>3. ASSUME NEW k \in ordinals(r)'
        PROVE  \/ k \in ordinals(r) /\ frameAt(r, k)' = frameAt(r, k)
               \/ k = end(r) /\ frameAt(r, k)'.seq = seqCounter
    <3>1. k \in d + 1 .. d + n /\ frameAt(r, k)' = buffer'[r][k - (d + 1) + 1]
      BY <1>1, <2>1, <2>3 DEF ordinals, frameAt
    <3>2. frameAt(r, k)' = frames[k - d + 1]
      <4>1. k - (d + 1) + 1 \in 1 .. n /\ k - (d + 1) + 1 + 1 = k - d + 1
        BY <1>1, <3>1
      <4> QED BY <2>1, <3>1, <4>1
    <3>3. CASE k = d + n
      BY <1>1, <1>2, <3>2, <3>3 DEF end
    <3>4. CASE k # d + n
      <4>1. k \in d + 1 .. d + n - 1
        <5>1. k \in d + 1 .. d + n
          BY <3>1
        <5>2. \A a, b \in Nat : \A c \in a + 1 .. a + b : c # a + b => c \in a + 1 .. a + b - 1
          OBVIOUS
        <5> QED BY <1>1, <3>4, <5>1, <5>2
      <4>2. k - d + 1 \in 1 .. n
        BY <1>1, <4>1
      <4>3. k \in ordinals(r)
        BY <1>1, <4>1 DEF ordinals
      <4> QED BY <1>2, <3>2, <4>2, <4>3 DEF frameAt
    <3> QED BY <3>3, <3>4
  <2>4. \A i, j \in 1 .. n : i < j => buffer'[r][i].seq < buffer'[r][j].seq
    <3> SUFFICES ASSUME NEW i \in 1 .. n, NEW j \in 1 .. n, i < j
                 PROVE  buffer'[r][i].seq < buffer'[r][j].seq
      OBVIOUS
    <3>1. i + 1 \in 1 .. n + 1 /\ j + 1 \in 1 .. n + 1 /\ i + 1 < j + 1
      BY <1>1
    <3> QED BY <1>5, <2>1, <3>1
  <2> QED BY <2>1, <2>2, <2>3, <2>4
<1>7. CASE ~(n + 1 > BufferCap)
  <2>1. dropped'[r] = d /\ buffer'[r] = frames /\ Len(buffer'[r]) = n + 1
    BY <1>2, <1>3, <1>7
  <2>2. end(r)' = end(r) + 1
    BY <1>1, <2>1 DEF end
  <2>3. ASSUME NEW k \in ordinals(r)'
        PROVE  \/ k \in ordinals(r) /\ frameAt(r, k)' = frameAt(r, k)
               \/ k = end(r) /\ frameAt(r, k)'.seq = seqCounter
    <3>1. k \in d .. d + n /\ frameAt(r, k)' = frames[k - d + 1]
      BY <1>1, <2>1, <2>3 DEF ordinals, frameAt
    <3>2. CASE k = d + n
      BY <1>1, <1>2, <3>1, <3>2 DEF end
    <3>3. CASE k # d + n
      <4>1. k - d + 1 \in 1 .. n /\ k \in ordinals(r)
        BY <1>1, <3>1, <3>3 DEF ordinals
      <4> QED BY <1>2, <3>1, <4>1 DEF frameAt
    <3> QED BY <3>2, <3>3
  <2> QED BY <1>5, <2>1, <2>2, <2>3
<1> QED BY <1>6, <1>7

-----------------------------------------------------------------------------
(* What a step of the registry does to what the streams look at. *)

(* A buffer keeps its frames, but for the first, and gets new ones at its   *)
(* end; then whoever waits for it is woken.                                 *)
BuffersGrow ==
  /\ seqCounter <= seqCounter'
  /\ \A r \in Runs :
       /\ end(r) <= end(r)'
       /\ \A k \in ordinals(r)' :
            \/ k \in ordinals(r) /\ frameAt(r, k)' = frameAt(r, k)
            \/ /\ k = end(r) /\ frameAt(r, k)'.seq = seqCounter
               /\ phase[r] \in Executing
               /\ waiters'[r] = {} /\ runWaiters'[thread[r]] = {}

RunsChange ==
  /\ \A t \in Threads : \/ runs'[t] = runs[t]
                        \/ runs'[t] = NoRun
                        \/ \E q \in Runs : runs'[t] = q /\ ordinals(q)' = {}
  /\ \A t \in threadsBeingDeleted : t \in threadsBeingDeleted' \/ runs'[t] = NoRun
  /\ \A r \in Runs : thread[r] \in Threads => thread'[r] = thread[r]

WaitersLeave ==
  /\ \A r \in Runs : /\ waiters'[r] \subseteq waiters[r]
                     /\ phase'[r] = "done" => phase[r] = "done" \/ waiters'[r] = {}
  /\ \A t \in Threads : runWaiters'[t] \subseteq runWaiters[t]

LEMMA WakeFacts ==
  ASSUME RegistryInv, NEW r \in Runs, phase[r] # "unused", wake(r)
  PROVE  /\ waiters'[r] = {} /\ runWaiters'[thread[r]] = {}
         /\ \A q \in Runs : waiters'[q] \subseteq waiters[q]
         /\ \A t \in Threads : runWaiters'[t] \subseteq runWaiters[t]
<1>1. thread[r] \in Threads
  BY DEF RegistryInv, CoreInv, QueueInv, Started, TypeOK, Runs
<1> QED BY <1>1 DEF wake, RegistryInv, CoreInv, TypeOK

LEMMA BuffersStay == ASSUME RegistryInv, UNCHANGED <<buffer, dropped, seqCounter>>
                     PROVE  BuffersGrow /\ FramesAscend'
<1>1. seqCounter <= seqCounter' /\ \A r \in Runs : end(r) \in Nat /\ end(r)' = end(r)
  BY FrameFacts DEF end, RegistryInv, CoreInv, TypeOK
<1>2. \A r \in Runs : ordinals(r)' = ordinals(r) /\ \A k : frameAt(r, k)' = frameAt(r, k)
  BY DEF ordinals, frameAt
<1>3. BuffersGrow
  BY <1>1, <1>2 DEF BuffersGrow
<1> QED BY <1>3 DEF RegistryInv, FramesAscend

LEMMA BufferGrows ==
  ASSUME RegistryInv, NEW r \in Runs, NEW kind \in FrameKinds, append(r, kind), wake(r),
         phase[r] \in Executing
  PROVE  BuffersGrow /\ FramesAscend'
<1>1. /\ end(r)' = end(r) + 1
      /\ \A k \in ordinals(r)' : \/ k \in ordinals(r) /\ frameAt(r, k)' = frameAt(r, k)
                                 \/ k = end(r) /\ frameAt(r, k)'.seq = seqCounter
      /\ \A i, j \in 1 .. Len(buffer'[r]) : i < j => buffer'[r][i].seq < buffer'[r][j].seq
  BY AppendedFrame
<1>2. waiters'[r] = {} /\ runWaiters'[thread[r]] = {}
  BY WakeFacts DEF Executing
<1>3. /\ \A q \in Runs \ {r} : buffer'[q] = buffer[q] /\ dropped'[q] = dropped[q]
      /\ seqCounter' = seqCounter + 1 /\ seqCounter \in Nat
  BY AppendFacts DEF RegistryInv, CoreInv, TypeOK
<1>4. \A q \in Runs : end(q) \in Nat
  BY FrameFacts
<1>5. FramesAscend'
  BY <1>1, <1>3 DEF RegistryInv, FramesAscend
<1>6. \A q \in Runs \ {r} : /\ end(q)' = end(q) /\ ordinals(q)' = ordinals(q)
                            /\ \A k : frameAt(q, k)' = frameAt(q, k)
  BY <1>3 DEF end, ordinals, frameAt
<1>7. end(r) <= end(r)' /\ \A q \in Runs : q # r => end(q) <= end(q)'
  BY <1>1, <1>4, <1>6
<1>8. ASSUME NEW q \in Runs, NEW k \in ordinals(q)'
      PROVE  \/ k \in ordinals(q) /\ frameAt(q, k)' = frameAt(q, k)
             \/ /\ k = end(q) /\ frameAt(q, k)'.seq = seqCounter
                /\ phase[q] \in Executing
                /\ waiters'[q] = {} /\ runWaiters'[thread[q]] = {}
  <2>1. CASE q = r
    BY <1>1, <1>2, <1>8, <2>1 DEF end, ordinals, frameAt
  <2>2. CASE q # r
    BY <1>6, <1>8, <2>2
  <2> QED BY <2>1, <2>2
<1>9. \A q \in Runs : end(q) <= end(q)'
  <2> SUFFICES ASSUME NEW q \in Runs PROVE end(q) <= end(q)'
    OBVIOUS
  <2>1. CASE q = r
    BY <1>7, <2>1 DEF end
  <2> QED BY <1>7, <2>1
<1> QED BY <1>3, <1>5, <1>8, <1>9 DEF BuffersGrow

LEMMA RunsStay == ASSUME UNCHANGED <<runs, thread, deletion>> PROVE RunsChange
BY DEF RunsChange, threadsBeingDeleted

LEMMA WaitersStay ==
  ASSUME UNCHANGED parkVars, \A r \in Runs : phase'[r] = "done" => phase[r] = "done"
  PROVE  WaitersLeave
BY DEF parkVars, WaitersLeave

(* A run sends a frame or ends. *)
LEMMA PumpFacts ==
  ASSUME RegistryInv, NEW r \in Runs,
         \/ StreamEnd(r) \/ StreamThrow(r) \/ \E kind \in StreamKinds : StreamFrame(r, kind)
  PROVE  BuffersGrow /\ FramesAscend' /\ RunsChange /\ WaitersLeave
<1>1. /\ phase[r] \in Executing /\ wake(r) /\ UNCHANGED <<runs, thread, deletion>>
      /\ \A q \in Runs \ {r} : phase'[q] = phase[q]
  BY DEF StreamEnd, StreamThrow, StreamFrame, settlePump, finish, Executing, registryVars,
         RegistryInv, CoreInv, TypeOK
<1>2. UNCHANGED <<buffer, dropped, seqCounter>> \/ \E kind \in FrameKinds : append(r, kind)
  BY StreamKindsAssumption
  DEF StreamEnd, StreamThrow, StreamFrame, settlePump, decideTerminal, FrameKinds, TerminalKinds,
      frameVars
<1>3. BuffersGrow /\ FramesAscend'
  BY <1>1, <1>2, BufferGrows, BuffersStay
<1>4. WaitersLeave
  BY <1>1, WakeFacts DEF WaitersLeave, Executing
<1> QED BY <1>1, <1>3, <1>4, RunsStay

LEMMA RegistryStep ==
  ASSUME RegistryInv, [Next]_vars
  PROVE  RegistryInv' /\ BuffersGrow /\ RunsChange /\ WaitersLeave
<1>1. CoreInv' /\ FrameInv'
  BY CoreStep, FrameStep DEF RegistryInv
<1> SUFFICES BuffersGrow /\ FramesAscend' /\ RunsChange /\ WaitersLeave
  BY <1>1 DEF RegistryInv
<1>2. TypeOK
  BY DEF RegistryInv, CoreInv
<1>3. ASSUME NEW t \in Threads, start(t)
      PROVE  BuffersGrow /\ FramesAscend' /\ RunsChange /\ WaitersLeave
  <2> DEFINE new == created + 1
  <2>1. /\ new \in Runs /\ phase[new] = "unused" /\ thread[new] = NoThread
        /\ runs' = [runs EXCEPT ![t] = new]
        /\ thread' = [thread EXCEPT ![new] = t]
        /\ phase'[new] # "done" /\ \A q \in Runs \ {new} : phase'[q] = phase[q]
        /\ UNCHANGED <<buffer, dropped, seqCounter, deletion, parkVars>>
    BY <1>2, <1>3, MaxRunsAssumption
    DEF start, frameVars, RegistryInv, CoreInv, TypeOK, QueueInv, Started, Runs
  <2> HIDE DEF new
  <2>2. ordinals(new) = {}
    BY <2>1, FrameFacts DEF Executing
  <2>3. \A q \in Runs : ordinals(q)' = ordinals(q)
    BY <2>1 DEF ordinals
  <2>4. threadsBeingDeleted' = threadsBeingDeleted
    BY <2>1 DEF threadsBeingDeleted
  <2>5. RunsChange
    BY <1>2, <2>1, <2>2, <2>3, <2>4, NoThreadAssumption DEF RunsChange, TypeOK
  <2>6. WaitersLeave
    BY <2>1, WaitersStay
  <2> QED BY <2>1, <2>5, <2>6, BuffersStay
<1>4. ASSUME NEW r \in Runs, PriorSettled(r) \/ StreamBreak(r)
      PROVE  BuffersGrow /\ FramesAscend' /\ RunsChange /\ WaitersLeave
  <2>1. UNCHANGED <<buffer, dropped, seqCounter>> /\ UNCHANGED <<runs, thread, deletion>>
    BY <1>4 DEF PriorSettled, StreamBreak, frameVars, registryVars
  <2>2. \/ wake(r) /\ phase[r] # "unused"
        \/ UNCHANGED parkVars /\ phase'[r] # "done"
    BY <1>2, <1>4 DEF PriorSettled, StreamBreak, finish, TypeOK
  <2>3. \A q \in Runs \ {r} : phase'[q] = phase[q]
    BY <1>2, <1>4 DEF PriorSettled, StreamBreak, finish, TypeOK
  <2>4. WaitersLeave
    BY <2>2, <2>3, WakeFacts, WaitersStay DEF WaitersLeave
  <2> QED BY <2>1, <2>4, BuffersStay, RunsStay
<1>5. ASSUME NEW r \in Runs,
             \/ StreamEnd(r) \/ StreamThrow(r) \/ \E kind \in StreamKinds : StreamFrame(r, kind)
      PROVE  BuffersGrow /\ FramesAscend' /\ RunsChange /\ WaitersLeave
  BY <1>5, PumpFacts
<1>6. ASSUME NEW r \in Runs, Evict(r)
      PROVE  BuffersGrow /\ FramesAscend' /\ RunsChange /\ WaitersLeave
  <2>1. /\ UNCHANGED <<buffer, dropped, seqCounter, thread, deletion, phase, parkVars>>
        /\ \A t \in Threads : runs'[t] = runs[t] \/ runs'[t] = NoRun
    BY <1>2, <1>6 DEF Evict, frameVars, pumpVars, TypeOK
  <2>2. threadsBeingDeleted' = threadsBeingDeleted
    BY <2>1 DEF threadsBeingDeleted
  <2>3. RunsChange
    BY <2>1, <2>2 DEF RunsChange
  <2> QED BY <2>1, <2>3, BuffersStay, WaitersStay
<1>7. ASSUME NEW t \in Threads, \/ beginThreadDeletion(t) \/ ThreadDrained(t) \/ releaseThread(t)
      PROVE  BuffersGrow /\ FramesAscend' /\ RunsChange /\ WaitersLeave
  <2>1. UNCHANGED <<buffer, dropped, seqCounter, thread, phase, waiters>>
    BY <1>7 DEF beginThreadDeletion, ThreadDrained, releaseThread, frameVars, pumpVars, parkVars
  <2>2. WaitersLeave
    BY <1>2, <1>7, <2>1
    DEF beginThreadDeletion, ThreadDrained, releaseThread, parkVars, WaitersLeave, TypeOK
  <2>3. \A s \in Threads : runs'[s] = runs[s] \/ runs'[s] = NoRun
    BY <1>2, <1>7 DEF beginThreadDeletion, ThreadDrained, releaseThread, TypeOK
  <2>4. \A s \in threadsBeingDeleted : s \in threadsBeingDeleted' \/ runs'[s] = NoRun
    BY <1>2, <1>7 DEF beginThreadDeletion, ThreadDrained, releaseThread, TypeOK, NoDeletion,
       threadsBeingDeleted, RegistryInv, CoreInv, DrainAwaitsAll
  <2>5. RunsChange
    BY <2>1, <2>3, <2>4 DEF RunsChange
  <2> QED BY <2>1, <2>2, <2>5, BuffersStay
<1>8. ASSUME \/ \E t \in Threads : cancel(t) \/ cancelAndWait(t)
             \/ \E r \in Runs : settlesWithin(r)
             \/ Shutdown \/ whenIdle \/ UNCHANGED vars
      PROVE  BuffersGrow /\ FramesAscend' /\ RunsChange /\ WaitersLeave
  <2>1. UNCHANGED <<buffer, dropped, seqCounter, runs, thread, deletion, phase, parkVars>>
    BY <1>8 DEF cancel, cancelAndWait, settlesWithin, Shutdown, whenIdle, vars,
                registryVars, pumpVars, frameVars
  <2> QED BY <2>1, BuffersStay, RunsStay, WaitersStay
<1> QED BY <1>3, <1>4, <1>5, <1>6, <1>7, <1>8 DEF Next

-----------------------------------------------------------------------------
(* The invariant of an observer. *)

Seen(o) == got[o] \cup onWire(o)

(* What the generator waits for is where the registry will look for it.     *)
PlaceInv(o) ==
  /\ place[o] = "closed" => reading[o] = NoRun
  /\ place[o] # "closed" => watching[o] \in Threads
  /\ watching[o] = NoThread => place[o] = "closed" /\ got[o] = {} /\ sent[o] = <<>>
  /\ reading[o] # NoRun => thread[reading[o]] = watching[o]
  /\ place[o] \in {"yielded", "onRun"} => reading[o] # NoRun
  /\ \A r \in Runs : o \in waiters[r] => place[o] = "onRun" /\ reading[o] = r
  /\ \A t \in Threads : o \in runWaiters[t] => place[o] = "forRun" /\ watching[o] = t

WireInv(o) ==
  /\ \A n \in Seen(o) : n < seqCounter
  /\ \A i \in 1 .. Len(sent[o]) : /\ \A n \in got[o] : n < sent[o][i]
                                  /\ \A j \in 1 .. i - 1 : sent[o][j] < sent[o][i]
  /\ since[o] \in got[o] \cup {None}

(* What run r keeps from a place on is news to a client whose request says s. *)
News(o, s, r, from) ==
  \A k \in ordinals(r) : k >= from => \A n \in Seen(o) : n <= s \/ n < frameAt(r, k).seq

AheadInv(o) ==
  /\ place[o] # "closed" =>
       \A r \in Runs : reading[o] = r => News(o, since[o], r, cursor[o])
  /\ place[o] # "closed" =>
       \A r \in Runs : runs[watching[o]] = r /\ reading[o] # r => News(o, since[o], r, 0)
  /\ place[o] = "closed" /\ watching[o] \in Threads \ threadsBeingDeleted =>
       \A r \in Runs : runs[watching[o]] = r =>
         \A k \in ordinals(r), n \in onWire(o) : n < frameAt(r, k).seq

(* The client has no gap in what run r still keeps. *)
Whole(o, r) ==
  \A k \in ordinals(r) :
    /\ frameMatchesFilter(frameAt(r, k).kind)
    /\ \E n \in Seen(o) : frameAt(r, k).seq < n
    => frameAt(r, k).seq \in Seen(o)

(* What lies before the cursor was sent, if it was wanted. *)
Sent(o, s, r, from) ==
  \A k \in ordinals(r) : k < from /\ wanted(s, r, k) => frameAt(r, k).seq \in Seen(o)

WholeInv(o) ==
  \A r \in Runs :
    /\ reading[o] = r => Whole(o, r) /\ Sent(o, since[o], r, cursor[o])
    /\ watching[o] \in Threads /\ runs[watching[o]] = r => Whole(o, r)

ParkInv(o) ==
  \A t \in Threads :
    /\ watching[o] = t
    /\ runs[t] # NoRun
    /\ o \in runWaiters[t] \cup UNION {waiters[r] : r \in Runs}
    => unread(since[o], runs[t], IF runs[t] = reading[o] THEN cursor[o] ELSE 0) = {}

ObserverInv(o) == PlaceInv(o) /\ WireInv(o) /\ AheadInv(o) /\ WholeInv(o) /\ ParkInv(o)

Inv == /\ RegistryInv /\ StreamTypeOK /\ NoneParkedOnEnded
       /\ \A o \in Observers : ObserverInv(o)

LEMMA ObserverFacts ==
  ASSUME Inv, NEW o \in Observers
  PROVE  /\ place[o] \in Places /\ watching[o] \in Threads \cup {NoThread}
         /\ reading[o] \in Runs \cup {NoRun} /\ cursor[o] \in Nat
         /\ reading[o] # NoRun => reading[o] \in Runs /\ cursor[o] <= end(reading[o])
         /\ since[o] \in Nat \cup {None}
         /\ sent[o] \in Seq(Nat) /\ Len(sent[o]) \in Nat /\ DOMAIN sent[o] = 1 .. Len(sent[o])
         /\ got[o] \subseteq Nat /\ onWire(o) \subseteq Nat /\ Seen(o) \subseteq Nat
         /\ onWire(o) = {sent[o][i] : i \in 1 .. Len(sent[o])}
         /\ \A i \in 1 .. Len(sent[o]) : sent[o][i] \in Nat
<1>1. /\ place[o] \in Places /\ watching[o] \in Threads \cup {NoThread}
      /\ reading[o] \in Runs \cup {NoRun} /\ cursor[o] \in Nat
      /\ reading[o] # NoRun => reading[o] \in Runs /\ cursor[o] <= end(reading[o])
      /\ since[o] \in Nat \cup {None} /\ sent[o] \in Seq(Nat) /\ got[o] \subseteq Nat
  BY DEF Inv, StreamTypeOK, end
<1>2. Len(sent[o]) \in Nat /\ DOMAIN sent[o] = 1 .. Len(sent[o])
  BY <1>1, LenProperties
<1>3. \A i \in 1 .. Len(sent[o]) : sent[o][i] \in Nat
  BY <1>1, ElementOfSeq
<1>4. onWire(o) = {sent[o][i] : i \in 1 .. Len(sent[o])}
  BY <1>2 DEF onWire, ToSet
<1> QED BY <1>1, <1>2, <1>3, <1>4 DEF Seen

LEMMA InitInv == StreamInit => Inv
<1> SUFFICES ASSUME StreamInit PROVE Inv
  OBVIOUS
<1>1. Init
  BY DEF StreamInit
<1>2. RegistryInv
  <2>1. CoreInv
    BY <1>1, InitCore
  <2>2. \A r \in Runs : buffer[r] = <<>> /\ Len(buffer[r]) = 0
    BY <1>1 DEF Init
  <2> QED BY <2>1, <2>2 DEF RegistryInv, FrameInv, FramesNumbered, SequenceFollowsRuns, FramesAscend
<1>3. StreamTypeOK
  BY DEF StreamInit, StreamTypeOK, Places, None, Runs, NoRun
<1>4. NoneParkedOnEnded
  BY <1>1 DEF Init, NoneParkedOnEnded
<1>5. ASSUME NEW o \in Observers PROVE ObserverInv(o)
  <2>1. /\ place[o] = "closed" /\ watching[o] = NoThread /\ reading[o] = NoRun /\ since[o] = None
        /\ sent[o] = <<>> /\ got[o] = {} /\ Len(sent[o]) = 0 /\ DOMAIN sent[o] = {}
        /\ \A r \in Runs : waiters[r] = {}
        /\ \A t \in Threads : runWaiters[t] = {}
    BY <1>1 DEF StreamInit, Init
  <2>2. Seen(o) = {} /\ onWire(o) = {}
    BY <2>1 DEF Seen, onWire, ToSet
  <2>3. PlaceInv(o)
    BY <2>1, NoThreadAssumption DEF PlaceInv
  <2>4. WireInv(o)
    BY <2>1, <2>2 DEF WireInv
  <2>5. AheadInv(o)
    BY <2>1, NoThreadAssumption DEF AheadInv
  <2>6. WholeInv(o)
    BY <2>1, NoThreadAssumption DEF WholeInv, NoRun, Runs
  <2>7. ParkInv(o)
    BY <2>1, NoThreadAssumption DEF ParkInv
  <2> QED BY <2>3, <2>4, <2>5, <2>6, <2>7 DEF ObserverInv
<1> QED BY <1>2, <1>3, <1>4, <1>5 DEF Inv

-----------------------------------------------------------------------------
(* The registry makes a step. *)

LEMMA RegistryKeepsStreams ==
  ASSUME Inv, [Next]_vars, UNCHANGED streamVars
  PROVE  Inv'
<1>1. RegistryInv' /\ BuffersGrow /\ RunsChange /\ WaitersLeave
  BY RegistryStep DEF Inv
<1>2. UNCHANGED <<place, watching, reading, cursor, since, sent, got>>
  BY DEF streamVars
<1>3. \A r \in Runs : end(r) <= end(r)' /\ end(r) \in Nat /\ end(r)' \in Nat /\ ordinals(r) \subseteq Nat
  <2>1. \A r \in Runs : end(r)' \in Nat
    BY <1>1 DEF end, RegistryInv, CoreInv, TypeOK
  <2> QED BY <1>1, <2>1, FrameFacts DEF Inv, BuffersGrow
<1>4. StreamTypeOK'
  BY <1>2, <1>3, ObserverFacts DEF Inv, StreamTypeOK, end
<1>5. NoneParkedOnEnded'
  BY <1>1 DEF Inv, NoneParkedOnEnded, IsDone, WaitersLeave
<1>6. ASSUME NEW o \in Observers PROVE ObserverInv(o)'
  <2>0. ObserverInv(o)
    BY DEF Inv
  <2>1. /\ Seen(o)' = Seen(o) /\ onWire(o)' = onWire(o) /\ Seen(o) \subseteq Nat
        /\ onWire(o) \subseteq Seen(o)
        /\ \A n \in Seen(o) : n < seqCounter
        /\ seqCounter \in Nat /\ seqCounter' \in Nat /\ seqCounter <= seqCounter'
    BY <1>1, <1>2, <2>0, ObserverFacts
    DEF Seen, onWire, ObserverInv, WireInv, RegistryInv, CoreInv, TypeOK, BuffersGrow, Inv
  <2>2. \A r \in Runs : \A k \in ordinals(r)' :
          \/ k \in ordinals(r) /\ frameAt(r, k)' = frameAt(r, k)
          \/ /\ k = end(r) /\ frameAt(r, k)'.seq = seqCounter
             /\ phase[r] \in Executing
             /\ waiters'[r] = {} /\ runWaiters'[thread[r]] = {}
    BY <1>1 DEF BuffersGrow
  <2>3. \A r \in Runs : Whole(o, r) => Whole(o, r)'
    <3> SUFFICES ASSUME NEW r \in Runs, Whole(o, r), NEW k \in ordinals(r)',
                        frameMatchesFilter(frameAt(r, k)'.kind),
                        NEW n \in Seen(o), frameAt(r, k)'.seq < n
                 PROVE  frameAt(r, k)'.seq \in Seen(o)
      BY <2>1 DEF Whole, frameMatchesFilter, inferChannel
    <3>1. k \in ordinals(r) /\ frameAt(r, k)' = frameAt(r, k)
      BY <2>1, <2>2
    <3> QED BY <3>1 DEF Whole
  <2>4. PlaceInv(o)'
    <3>1. reading[o] # NoRun => thread'[reading[o]] = watching[o]
      BY <1>1, <2>0, ObserverFacts DEF RunsChange, ObserverInv, PlaceInv
    <3>2. /\ \A r \in Runs : o \in waiters'[r] => place[o] = "onRun" /\ reading[o] = r
          /\ \A s \in Threads : o \in runWaiters'[s] => place[o] = "forRun" /\ watching[o] = s
      BY <1>1, <2>0 DEF WaitersLeave, ObserverInv, PlaceInv
    <3> QED BY <1>2, <2>0, <3>1, <3>2 DEF ObserverInv, PlaceInv
  <2>5. WireInv(o)'
    BY <1>2, <2>0, <2>1 DEF ObserverInv, WireInv
  <2>6. ASSUME NEW r \in Runs, NEW from \in Nat, News(o, since[o], r, from),
               NEW k \in ordinals(r)', k >= from, NEW n \in Seen(o)
        PROVE  n <= since[o] \/ n < frameAt(r, k)'.seq
    BY <2>1, <2>2, <2>6 DEF News
  <2>7. ASSUME watching[o] \in Threads, NEW r \in Runs, runs'[watching[o]] = r
        PROVE  runs[watching[o]] = r \/ ordinals(r)' = {}
    BY <1>1, <2>7 DEF RunsChange, NoRun, Runs
  <2>8. AheadInv(o)'
    <3>1. ASSUME place[o] # "closed", NEW r \in Runs, reading[o] = r
          PROVE  News(o, since[o], r, cursor[o])'
      <4>1. News(o, since[o], r, cursor[o]) /\ cursor[o] \in Nat
        BY <2>0, <3>1, ObserverFacts DEF ObserverInv, AheadInv
      <4> QED BY <1>2, <2>1, <2>6, <4>1 DEF News
    <3>2. ASSUME place[o] # "closed", NEW r \in Runs, runs'[watching[o]] = r, reading[o] # r
          PROVE  News(o, since[o], r, 0)'
      <4>1. CASE runs[watching[o]] = r
        <5>1. News(o, since[o], r, 0)
          BY <2>0, <3>2, <4>1 DEF ObserverInv, AheadInv
        <5> QED BY <1>2, <2>1, <2>6, <5>1 DEF News
      <4>2. CASE ordinals(r)' = {}
        BY <4>2 DEF News
      <4> QED BY <2>0, <2>7, <3>2, <4>1, <4>2 DEF ObserverInv, PlaceInv
    <3>3. ASSUME place[o] = "closed", watching[o] \in Threads, watching[o] \notin threadsBeingDeleted',
                 NEW r \in Runs, runs'[watching[o]] = r, NEW k \in ordinals(r)', NEW n \in onWire(o)
          PROVE  n < frameAt(r, k)'.seq
      <4>1. runs[watching[o]] = r
        BY <2>7, <3>3
      <4>2. watching[o] \notin threadsBeingDeleted
        BY <1>1, <3>3 DEF RunsChange, NoRun, Runs
      <4>3. \A l \in ordinals(r) : n < frameAt(r, l).seq
        BY <2>0, <3>3, <4>1, <4>2 DEF ObserverInv, AheadInv
      <4>4. n < seqCounter
        BY <2>1
      <4> QED BY <2>2, <4>3, <4>4
    <3> QED BY <1>2, <2>1, <3>1, <3>2, <3>3 DEF AheadInv
  <2>9. WholeInv(o)'
    <3>1. ASSUME NEW r \in Runs, reading[o] = r
          PROVE  Whole(o, r)' /\ Sent(o, since[o], r, cursor[o])'
      <4>1. Whole(o, r) /\ Sent(o, since[o], r, cursor[o]) /\ cursor[o] <= end(r) /\ cursor[o] \in Nat
        BY <2>0, <3>1, ObserverFacts DEF ObserverInv, WholeInv, NoRun, Runs
      <4>2. ASSUME NEW k \in ordinals(r)', k < cursor[o]
            PROVE  k \in ordinals(r) /\ frameAt(r, k)' = frameAt(r, k)
        BY <1>3, <2>2, <4>1, <4>2
      <4>3. Sent(o, since[o], r, cursor[o])'
        BY <1>2, <2>1, <4>1, <4>2 DEF Sent, wanted, frameMatchesFilter, inferChannel
      <4> QED BY <2>3, <4>1, <4>3
    <3>2. ASSUME NEW r \in Runs, watching[o] \in Threads, runs'[watching[o]] = r PROVE Whole(o, r)'
      <4>1. CASE runs[watching[o]] = r
        BY <2>0, <2>3, <3>2, <4>1 DEF ObserverInv, WholeInv
      <4>2. CASE ordinals(r)' = {}
        BY <4>2 DEF Whole
      <4> QED BY <2>7, <3>2, <4>1, <4>2
    <3> QED BY <1>2, <3>1, <3>2 DEF WholeInv
  <2>10. ParkInv(o)'
    <3> SUFFICES ASSUME NEW t \in Threads, watching[o] = t, NEW r \in Runs, runs'[t] = r,
                        o \in runWaiters'[t] \/ (\E q \in Runs : o \in waiters'[q]),
                        NEW k \in ordinals(r)', k >= IF r = reading[o] THEN cursor[o] ELSE 0,
                        wanted(since[o], r, k)'
                 PROVE  FALSE
      <4>1. \A t \in Threads : runs'[t] \in Runs \cup {NoRun}
        BY <1>1 DEF RegistryInv, CoreInv, TypeOK
      <4> QED BY <1>2, <4>1 DEF ParkInv, unread
    <3>1. runs[t] = r /\ thread[r] = t
      BY <2>7 DEF Inv, RegistryInv, CoreInv, QueueInv, Registered, NoRun, Runs
    <3>2. o \in runWaiters[t] \/ (\E q \in Runs : o \in waiters'[q] /\ o \in waiters[q])
      BY <1>1 DEF WaitersLeave
    <3>3. unread(since[o], r, IF r = reading[o] THEN cursor[o] ELSE 0) = {}
      BY <2>0, <3>1, <3>2 DEF ObserverInv, ParkInv, NoRun, Runs
    <3>4. /\ k = end(r) /\ phase[r] \in Executing
          /\ waiters'[r] = {} /\ runWaiters'[thread[r]] = {}
      <4>1. ASSUME k \in ordinals(r), frameAt(r, k)' = frameAt(r, k) PROVE FALSE
        <5>1. wanted(since[o], r, k)
          BY <1>2, <4>1 DEF wanted, frameMatchesFilter, inferChannel
        <5> QED BY <3>3, <4>1, <5>1 DEF unread
      <4> QED BY <2>2, <4>1
    <3>5. PICK q \in Runs : o \in waiters'[q] /\ o \in waiters[q]
      BY <1>1, <3>1, <3>4 DEF WaitersLeave
    <3>6. q # r /\ thread[q] = t
      BY <2>0, <3>4, <3>5 DEF ObserverInv, PlaceInv, NoRun, Runs
    <3>7. ~IsDone(q) /\ q <= r
      BY <3>1, <3>5, <3>6
      DEF Inv, NoneParkedOnEnded, RegistryInv, CoreInv, QueueInv, Registered, ThreadRuns, NoRun, Runs
    <3>8. q < r
      BY <3>6, <3>7 DEF Runs
    <3> QED BY <3>1, <3>4, <3>6, <3>7, <3>8 DEF Inv, RegistryInv, CoreInv, QueueInv, InTurn
  <2> QED BY <2>4, <2>5, <2>8, <2>9, <2>10 DEF ObserverInv
<1> QED BY <1>1, <1>4, <1>5, <1>6 DEF Inv

-----------------------------------------------------------------------------
(* An observer makes a step. *)

Same(q) ==
  /\ place'[q] = place[q] /\ watching'[q] = watching[q] /\ reading'[q] = reading[q]
  /\ cursor'[q] = cursor[q] /\ since'[q] = since[q] /\ sent'[q] = sent[q] /\ got'[q] = got[q]
  /\ \A r \in Runs : q \in waiters'[r] <=> q \in waiters[r]
  /\ \A t \in Threads : q \in runWaiters'[t] <=> q \in runWaiters[t]

ParksTyped == waiters \in [Runs -> SUBSET Observers] /\ runWaiters \in [Threads -> SUBSET Observers]

LEMMA FixedFacts ==
  ASSUME UNCHANGED fixed
  PROVE  /\ UNCHANGED <<runs, created, thread, deletion, shutdown, phase, prior, sawTerminal,
                        interrupted, aborted, buffer, dropped, seqCounter, discarded, evictTimer,
                        ended, stop>>
         /\ threadsBeingDeleted' = threadsBeingDeleted
         /\ \A r : end(r)' = end(r) /\ ordinals(r)' = ordinals(r) /\ IsDone(r)' = IsDone(r)
         /\ \A r, k : frameAt(r, k)' = frameAt(r, k)
         /\ \A s, r, k : wanted(s, r, k)' = wanted(s, r, k)
         /\ \A s, r, from : unread(s, r, from)' = unread(s, r, from)
<1>1. UNCHANGED <<runs, created, thread, deletion, shutdown, phase, prior, sawTerminal,
                  interrupted, aborted, buffer, dropped, seqCounter, discarded, evictTimer,
                  ended, stop>>
  BY DEF fixed, registryVars, pumpVars, frameVars, endVars
<1> QED BY <1>1 DEF threadsBeingDeleted, end, ordinals, IsDone, frameAt, wanted, unread,
                    frameMatchesFilter, inferChannel

LEMMA RegistryStays == ASSUME RegistryInv, UNCHANGED fixed, ParksTyped' PROVE RegistryInv'
<1>1. UNCHANGED <<runs, created, thread, deletion, shutdown, phase, prior, sawTerminal,
                  interrupted, aborted, buffer, dropped, seqCounter, discarded, evictTimer,
                  ended, stop>>
  BY FixedFacts
<1>2. TypeOK'
  BY <1>1 DEF RegistryInv, CoreInv, TypeOK, ParksTyped
<1>3. CoreInv'
  BY <1>1, <1>2
  DEF RegistryInv, CoreInv, QueueInv, Started, InTurn, QueueOrder, Registered, OrphansAreAborted,
      TimersAfterEnd, DrainAwaitsAll, ShutdownAwaitsAll, StopSettled, IsDone, activeRuns, ThreadRuns
<1>4. FrameInv' /\ FramesAscend'
  BY <1>1 DEF RegistryInv, FrameInv, FramesNumbered, SequenceFollowsRuns, FramesAscend
<1> QED BY <1>3, <1>4 DEF RegistryInv

LEMMA OthersStay ==
  ASSUME NEW q, ObserverInv(q), UNCHANGED fixed, Same(q)
  PROVE  ObserverInv(q)'
<1>1. Seen(q)' = Seen(q) /\ onWire(q)' = onWire(q)
  BY DEF Same, Seen, onWire
<1>2. PlaceInv(q)'
  BY FixedFacts DEF ObserverInv, PlaceInv, Same
<1>3. WireInv(q)'
  BY <1>1, FixedFacts DEF ObserverInv, WireInv, Same
<1>4. \A s, r, from : /\ News(q, s, r, from) => News(q, s, r, from)'
                      /\ Sent(q, s, r, from) => Sent(q, s, r, from)'
                      /\ Whole(q, r) => Whole(q, r)'
  BY <1>1, FixedFacts DEF News, Sent, Whole, frameMatchesFilter, inferChannel
<1>5. AheadInv(q)'
  BY <1>1, <1>4, FixedFacts DEF ObserverInv, AheadInv, Same
<1>6. WholeInv(q)'
  BY <1>4, FixedFacts DEF ObserverInv, WholeInv, Same
<1>7. ParkInv(q)'
  BY FixedFacts DEF ObserverInv, ParkInv, Same
<1> QED BY <1>2, <1>3, <1>5, <1>6, <1>7 DEF ObserverInv

LEMMA ObserverStep ==
  ASSUME Inv, NEW o \in Observers, UNCHANGED fixed, \A q \in Observers \ {o} : Same(q),
         StreamTypeOK', ParksTyped', NoneParkedOnEnded', ObserverInv(o)'
  PROVE  Inv'
<1>1. RegistryInv'
  BY RegistryStays DEF Inv
<1>2. \A q \in Observers \ {o} : ObserverInv(q)'
  BY OthersStay DEF Inv
<1> QED BY <1>1, <1>2 DEF Inv

(* An observer that runs is not parked. *)
Free(o) == (\A r \in Runs : o \notin waiters[r]) /\ (\A t \in Threads : o \notin runWaiters[t])

(* Its request is for thread t, after frame s. *)
Asks(o, s, t) ==
  /\ UNCHANGED <<fixed, got>>
  /\ watching' \in [Observers -> Threads \cup {NoThread}] /\ since' \in [Observers -> Nat \cup {None}]
  /\ watching'[o] = t /\ since'[o] = s
  /\ \A q \in Observers \ {o} : watching'[q] = watching[q] /\ since'[q] = since[q]
  /\ t \in Threads /\ s \in got[o] \cup {None}

(* It goes on at `from` in run r. *)
Ready(o, s, t, r, from) ==
  /\ r \in Runs /\ thread[r] = t /\ from \in Nat
  /\ News(o, s, r, from) /\ Sent(o, s, r, from) /\ Whole(o, r)
  /\ \A q \in Runs : runs[t] = q => Whole(o, q) /\ (q # r => News(o, s, q, 0))

LEMMA CloseStep ==
  ASSUME Inv, NEW o \in Observers, NEW s, NEW t, Free(o), Asks(o, s, t), close(o),
         t \in threadsBeingDeleted, \A q \in Runs : runs[t] = q => Whole(o, q)
  PROVE  Inv'
<1>1. /\ place' = [place EXCEPT ![o] = "closed"] /\ reading' = [reading EXCEPT ![o] = NoRun]
      /\ cursor' = [cursor EXCEPT ![o] = 0] /\ UNCHANGED <<fixed, got, sent, waiters, runWaiters>>
  BY DEF close, parkVars, Asks
<1>2. StreamTypeOK' /\ ParksTyped' /\ NoneParkedOnEnded'
  <2>1. StreamTypeOK /\ TypeOK /\ NoneParkedOnEnded
    BY DEF Inv, RegistryInv, CoreInv
  <2>2. \A q \in Observers : reading'[q] # NoRun =>
          cursor'[q] <= dropped'[reading'[q]] + Len(buffer'[reading'[q]])
    BY <1>1, <2>1, FixedFacts DEF StreamTypeOK
  <2>3. place' \in [Observers -> Places] /\ reading' \in [Observers -> Runs \cup {NoRun}]
        /\ cursor' \in [Observers -> Nat]
    BY <1>1, <2>1 DEF StreamTypeOK, Places
  <2>4. StreamTypeOK'
    BY <1>1, <2>1, <2>2, <2>3 DEF StreamTypeOK, Asks
  <2> QED BY <1>1, <2>1, <2>4, FixedFacts DEF ParksTyped, NoneParkedOnEnded, TypeOK
<1>3. place'[o] = "closed" /\ reading'[o] = NoRun /\ watching'[o] = t /\ since'[o] = s
      /\ \A q \in Observers \ {o} : Same(q)
  BY <1>1 DEF Inv, StreamTypeOK, Asks, Same
<1>4. Seen(o)' = Seen(o) /\ onWire(o)' = onWire(o)
  BY <1>1 DEF Seen, onWire
<1>5. PlaceInv(o)'
  BY <1>1, <1>3, NoThreadAssumption DEF PlaceInv, Free, Asks
<1>6. WireInv(o)'
  BY <1>1, <1>3, <1>4, FixedFacts DEF WireInv, Asks, Inv, ObserverInv
<1>7. AheadInv(o)'
  BY <1>1, <1>3, FixedFacts DEF AheadInv
<1>8. WholeInv(o)'
  BY <1>1, <1>3, <1>4, FixedFacts DEF WholeInv, Whole, frameMatchesFilter, inferChannel, NoRun, Runs
<1>9. ParkInv(o)'
  BY <1>1 DEF ParkInv, Free
<1> QED BY <1>1, <1>2, <1>3, <1>5, <1>6, <1>7, <1>8, <1>9, ObserverStep DEF ObserverInv

(* It waits for the thread's first run. *)
LEMMA WaitStep ==
  ASSUME Inv, NEW o \in Observers, NEW s, NEW t, Free(o), Asks(o, s, t), waitForRun(o, t),
         UNCHANGED <<reading, cursor>>, reading[o] = NoRun, runs[t] = NoRun
  PROVE  Inv'
<1>1. /\ place' = [place EXCEPT ![o] = "forRun"]
      /\ runWaiters' = [runWaiters EXCEPT ![t] = @ \cup {o}]
      /\ UNCHANGED <<fixed, got, sent, waiters, reading, cursor>>
  BY DEF waitForRun, Asks
<1>2. /\ StreamTypeOK' /\ ParksTyped' /\ NoneParkedOnEnded'
  <2>1. StreamTypeOK /\ TypeOK /\ NoneParkedOnEnded
    BY DEF Inv, RegistryInv, CoreInv
  <2>2. place' \in [Observers -> Places] /\ runWaiters' \in [Threads -> SUBSET Observers]
    BY <1>1, <2>1 DEF StreamTypeOK, Places, TypeOK
  <2>3. StreamTypeOK'
    BY <1>1, <2>1, <2>2, FixedFacts DEF StreamTypeOK, Asks
  <2> QED BY <1>1, <2>1, <2>2, <2>3, FixedFacts DEF ParksTyped, NoneParkedOnEnded, TypeOK
<1>3. /\ place'[o] = "forRun" /\ reading'[o] = NoRun /\ watching'[o] = t /\ since'[o] = s
      /\ \A u \in Threads : o \in runWaiters'[u] => u = t
      /\ \A q \in Observers \ {o} : Same(q)
  BY <1>1 DEF Inv, StreamTypeOK, Asks, Same, Free, RegistryInv, CoreInv, TypeOK
<1>4. Seen(o)' = Seen(o) /\ onWire(o)' = onWire(o)
  BY <1>1 DEF Seen, onWire
<1>5. PlaceInv(o)'
  BY <1>1, <1>3, NoThreadAssumption DEF PlaceInv, Free, Asks
<1>6. WireInv(o)'
  BY <1>1, <1>3, <1>4, FixedFacts DEF WireInv, Asks, Inv, ObserverInv
<1>7. runs'[t] = NoRun
  BY FixedFacts, <1>1
<1>8. AheadInv(o)' /\ WholeInv(o)' /\ ParkInv(o)'
  BY <1>3, <1>7 DEF AheadInv, WholeInv, ParkInv, NoRun, Runs
<1> QED BY <1>1, <1>2, <1>3, <1>5, <1>6, <1>8, ObserverStep DEF ObserverInv

(* It has read all and parks. *)
LEMMA ParkStep ==
  ASSUME Inv, NEW o \in Observers, NEW s, NEW t, NEW r, NEW from, Free(o), Asks(o, s, t),
         Ready(o, s, t, r, from), unread(s, r, from) = {}, runs[t] \in {NoRun, r}, park(o, t, r)
  PROVE  Inv'
<1>1. /\ reading' = [reading EXCEPT ![o] = r] /\ cursor' = [cursor EXCEPT ![o] = end(r)]
      /\ UNCHANGED <<fixed, got, sent>> /\ r \in Runs /\ thread[r] = t /\ t \in Threads
      /\ \/ /\ IsDone(r) /\ place' = [place EXCEPT ![o] = "forRun"]
            /\ runWaiters' = [runWaiters EXCEPT ![t] = @ \cup {o}] /\ UNCHANGED waiters
         \/ /\ ~IsDone(r) /\ place' = [place EXCEPT ![o] = "onRun"]
            /\ waiters' = [waiters EXCEPT ![r] = @ \cup {o}] /\ UNCHANGED runWaiters
  BY DEF park, waitForRun, Asks, Ready, end
<1>2. end(r) \in Nat /\ end(r)' = end(r) /\ \A k \in ordinals(r) : k < end(r) /\ k \in Nat
  BY <1>1, FrameFacts, FixedFacts DEF Inv
<1>3. StreamTypeOK' /\ ParksTyped' /\ NoneParkedOnEnded'
  <2>1. StreamTypeOK /\ TypeOK /\ NoneParkedOnEnded
    BY DEF Inv, RegistryInv, CoreInv
  <2>2. place' \in [Observers -> Places] /\ ParksTyped'
    <3>1. /\ place \in [Observers -> Places] /\ waiters \in [Runs -> SUBSET Observers]
          /\ runWaiters \in [Threads -> SUBSET Observers]
      BY <2>1 DEF StreamTypeOK, TypeOK
    <3>2. CASE IsDone(r)
      <4>1. /\ place' = [place EXCEPT ![o] = "forRun"] /\ waiters' = waiters
            /\ runWaiters' = [runWaiters EXCEPT ![t] = @ \cup {o}]
        BY <1>1, <3>2
      <4> QED BY <1>1, <3>1, <4>1 DEF Places, ParksTyped
    <3>3. CASE ~IsDone(r)
      <4>1. /\ place' = [place EXCEPT ![o] = "onRun"] /\ runWaiters' = runWaiters
            /\ waiters' = [waiters EXCEPT ![r] = @ \cup {o}]
        BY <1>1, <3>3
      <4> QED BY <1>1, <3>1, <4>1 DEF Places, ParksTyped
    <3> QED BY <3>2, <3>3
  <2>3. reading' \in [Observers -> Runs \cup {NoRun}] /\ cursor' \in [Observers -> Nat]
    BY <1>1, <1>2, <2>1 DEF StreamTypeOK
  <2>4. \A q \in Observers : reading'[q] # NoRun =>
          cursor'[q] <= dropped'[reading'[q]] + Len(buffer'[reading'[q]])
    <3>1. \A q \in Observers \ {o} : reading'[q] = reading[q] /\ cursor'[q] = cursor[q]
      BY <1>1, <2>1 DEF StreamTypeOK
    <3>2. reading'[o] = r /\ cursor'[o] = end(r)
      BY <1>1, <2>1 DEF StreamTypeOK
    <3>3. dropped' = dropped /\ buffer' = buffer
      BY <1>1, FixedFacts
    <3>4. end(r) <= dropped[r] + Len(buffer[r])
      BY <1>2 DEF end
    <3> QED BY <2>1, <3>1, <3>2, <3>3, <3>4 DEF StreamTypeOK
  <2>5. StreamTypeOK'
    BY <1>1, <2>1, <2>2, <2>3, <2>4 DEF StreamTypeOK, Asks
  <2>6. NoneParkedOnEnded'
    BY <1>1, <2>1, FixedFacts DEF NoneParkedOnEnded, TypeOK
  <2> QED BY <2>2, <2>5, <2>6
<1>4. /\ place'[o] \in {"forRun", "onRun"} /\ reading'[o] = r /\ cursor'[o] = end(r)
      /\ watching'[o] = t /\ since'[o] = s
      /\ \A u \in Threads : o \in runWaiters'[u] => u = t /\ place'[o] = "forRun"
      /\ \A q \in Runs : o \in waiters'[q] => q = r /\ place'[o] = "onRun"
  BY <1>1 DEF Inv, StreamTypeOK, Asks, Free, RegistryInv, CoreInv, TypeOK
<1>5. ASSUME NEW q \in Observers \ {o} PROVE Same(q)
  <2>1. /\ place \in [Observers -> Places] /\ reading \in [Observers -> Runs \cup {NoRun}]
        /\ cursor \in [Observers -> Nat] /\ waiters \in [Runs -> SUBSET Observers]
        /\ runWaiters \in [Threads -> SUBSET Observers]
    BY DEF Inv, RegistryInv, CoreInv, TypeOK, StreamTypeOK
  <2>2. /\ reading'[q] = reading[q] /\ cursor'[q] = cursor[q] /\ sent'[q] = sent[q]
        /\ got'[q] = got[q] /\ watching'[q] = watching[q] /\ since'[q] = since[q]
    BY <1>1, <2>1 DEF Asks
  <2>3. place'[q] = place[q]
    BY <1>1, <2>1
  <2>4. \A p \in Runs : q \in waiters'[p] <=> q \in waiters[p]
    <3>1. CASE waiters' = waiters
      BY <3>1
    <3>2. CASE waiters' = [waiters EXCEPT ![r] = @ \cup {o}]
      BY <2>1, <3>2
    <3> QED BY <1>1, <3>1, <3>2
  <2>5. \A u \in Threads : q \in runWaiters'[u] <=> q \in runWaiters[u]
    <3>1. CASE runWaiters' = runWaiters
      BY <3>1
    <3>2. CASE runWaiters' = [runWaiters EXCEPT ![t] = @ \cup {o}]
      BY <2>1, <3>2
    <3> QED BY <1>1, <3>1, <3>2
  <2> QED BY <2>2, <2>3, <2>4, <2>5 DEF Same
<1>6. Seen(o)' = Seen(o) /\ onWire(o)' = onWire(o)
  BY <1>1 DEF Seen, onWire
<1>7. PlaceInv(o)'
  BY <1>1, <1>4, FixedFacts, NoThreadAssumption DEF PlaceInv, NoRun, Runs
<1>8. WireInv(o)'
  BY <1>1, <1>4, <1>6, FixedFacts DEF WireInv, Asks, Inv, ObserverInv
<1>9. runs'[t] \in {NoRun, r} /\ ordinals(r)' = ordinals(r)
  BY <1>1, FixedFacts
<1>10. AheadInv(o)'
  <2>1. News(o, s, r, end(r))'
    BY <1>2, <1>9 DEF News
  <2> QED BY <1>2, <1>4, <1>9, <2>1 DEF AheadInv, NoRun, Runs, News
<1>11. Whole(o, r)' /\ Sent(o, s, r, end(r))'
  <2>1. \A k \in ordinals(r) : wanted(s, r, k) => frameAt(r, k).seq \in Seen(o)
    BY <1>2 DEF Ready, Sent, unread
  <2> QED BY <1>1, <1>6, <2>1, FixedFacts DEF Ready, Whole, Sent, frameMatchesFilter, inferChannel
<1>12. WholeInv(o)'
  BY <1>2, <1>4, <1>9, <1>11 DEF WholeInv, Sent, NoRun, Runs
<1>13. ParkInv(o)'
  <2>1. \A k \in ordinals(r)' : ~(k >= end(r))
    BY <1>2, <1>9
  <2>2. unread(s, r, end(r))' = {}
    BY <1>2, <2>1 DEF unread
  <2> QED BY <1>2, <1>4, <1>9, <2>1 DEF ParkInv, unread
<1> QED BY <1>1, <1>3, <1>5, <1>7, <1>8, <1>10, <1>12, <1>13, ObserverStep DEF ObserverInv

(* It sends the first frame that it has not read. *)
LEMMA YieldStep ==
  ASSUME Inv, NEW o \in Observers, NEW s, NEW t, NEW r, NEW from, Free(o), Asks(o, s, t),
         Ready(o, s, t, r, from), NEW k \in unread(s, r, from),
         \A l \in unread(s, r, from) : k <= l, yieldFrame(o, r, k)
  PROVE  Inv'
<1> DEFINE x == frameAt(r, k).seq
<1>1. /\ place' = [place EXCEPT ![o] = "yielded"] /\ reading' = [reading EXCEPT ![o] = r]
      /\ cursor' = [cursor EXCEPT ![o] = k + 1] /\ sent' = [sent EXCEPT ![o] = Append(@, x)]
      /\ UNCHANGED <<fixed, got, waiters, runWaiters>>
      /\ r \in Runs /\ thread[r] = t /\ t \in Threads /\ from \in Nat
  BY DEF yieldFrame, parkVars, Asks, Ready
<1>2. /\ k \in ordinals(r) /\ k \in Nat /\ k >= from /\ k < end(r) /\ end(r) \in Nat
      /\ wanted(s, r, k) /\ x \in Nat /\ x < seqCounter /\ x > s
  BY <1>1, FrameFacts DEF unread, wanted, Inv
<1>3. s \in got[o] \cup {None} /\ s \in Int /\ Seen(o) \subseteq Nat /\ got[o] \subseteq Seen(o)
  BY ObserverFacts DEF Asks, None, Seen
<1>4. \A n \in Seen(o) : n < x
  <2> SUFFICES ASSUME NEW n \in Seen(o) PROVE n < x
    OBVIOUS
  <2>1. n <= s \/ n < x
    BY <1>2 DEF Ready, News
  <2> QED BY <1>2, <1>3, <2>1
<1>5. /\ place'[o] = "yielded" /\ reading'[o] = r /\ cursor'[o] = k + 1
      /\ watching'[o] = t /\ since'[o] = s /\ sent'[o] = Append(sent[o], x) /\ got'[o] = got[o]
      /\ \A q \in Observers \ {o} : Same(q)
  BY <1>1 DEF Inv, StreamTypeOK, Asks, Same
<1> DEFINE n == Len(sent[o])
<1>6. /\ sent'[o] \in Seq(Nat) /\ Len(sent'[o]) = n + 1 /\ n \in Nat /\ sent'[o][n + 1] = x
      /\ \A i \in 1 .. n : sent'[o][i] = sent[o][i]
  BY <1>2, <1>5, ObserverFacts, AppendProperties
<1>7. Seen(o)' = Seen(o) \cup {x}
  <2>1. DOMAIN sent'[o] = 1 .. n + 1
    BY <1>6, LenProperties
  <2>2. onWire(o)' = {sent'[o][i] : i \in 1 .. n + 1}
    BY <2>1 DEF onWire, ToSet
  <2>3. onWire(o) = {sent[o][i] : i \in 1 .. n}
    BY ObserverFacts
  <2>4. \A i \in 1 .. n + 1 : i = n + 1 \/ i \in 1 .. n
    BY <1>6
  <2>5. onWire(o)' \subseteq onWire(o) \cup {x}
    BY <1>6, <2>2, <2>3, <2>4
  <2>6. n + 1 \in 1 .. n + 1 /\ \A i \in 1 .. n : i \in 1 .. n + 1
    BY <1>6
  <2>7. onWire(o) \cup {x} \subseteq onWire(o)'
    BY <1>6, <2>2, <2>3, <2>6
  <2> QED BY <1>5, <2>5, <2>7 DEF Seen
<1> HIDE DEF x, n
<1>8. StreamTypeOK' /\ ParksTyped' /\ NoneParkedOnEnded'
  <2>1. StreamTypeOK /\ TypeOK /\ NoneParkedOnEnded
    BY DEF Inv, RegistryInv, CoreInv
  <2>2. /\ place' \in [Observers -> Places] /\ reading' \in [Observers -> Runs \cup {NoRun}]
        /\ cursor' \in [Observers -> Nat]
    BY <1>1, <1>2, <2>1 DEF StreamTypeOK, Places
  <2>3. sent' \in [Observers -> Seq(Nat)]
    BY <1>1, <1>5, <1>6, <2>1 DEF StreamTypeOK
  <2>4. \A q \in Observers : reading'[q] # NoRun =>
          cursor'[q] <= dropped'[reading'[q]] + Len(buffer'[reading'[q]])
    <3>1. \A q \in Observers \ {o} : reading'[q] = reading[q] /\ cursor'[q] = cursor[q]
      BY <1>5 DEF Same
    <3>2. dropped' = dropped /\ buffer' = buffer
      BY <1>1, FixedFacts
    <3>3. k + 1 <= dropped[r] + Len(buffer[r])
      BY <1>2 DEF end
    <3> QED BY <1>5, <2>1, <3>1, <3>2, <3>3 DEF StreamTypeOK
  <2>5. StreamTypeOK'
    BY <1>1, <2>1, <2>2, <2>3, <2>4 DEF StreamTypeOK, Asks
  <2> QED BY <1>1, <2>1, <2>5, FixedFacts DEF ParksTyped, NoneParkedOnEnded, TypeOK
<1>9. PlaceInv(o)'
  BY <1>1, <1>5, FixedFacts, NoThreadAssumption DEF PlaceInv, Free, NoRun, Runs
<1>10. WireInv(o)'
  <2>1. WireInv(o) /\ \A i \in 1 .. n : sent[o][i] \in Seen(o)
    BY ObserverFacts DEF Inv, ObserverInv, Seen, n
  <2>2. \A m \in Seen(o)' : m < seqCounter'
    BY <1>1, <1>2, <1>7, <2>1, FixedFacts DEF WireInv, x
  <2>3. ASSUME NEW i \in 1 .. n + 1
        PROVE  /\ \A m \in got[o] : m < sent'[o][i]
               /\ \A j \in 1 .. i - 1 : sent'[o][j] < sent'[o][i]
    <3>1. CASE i = n + 1
      <4>1. \A j \in 1 .. i - 1 : j \in 1 .. n
        BY <1>6, <3>1
      <4> QED BY <1>3, <1>4, <1>6, <2>1, <3>1, <4>1
    <3>2. CASE i \in 1 .. n
      <4>1. \A j \in 1 .. i - 1 : j \in 1 .. n
        BY <1>6, <3>2
      <4> QED BY <1>6, <2>1, <3>2, <4>1 DEF WireInv, n
    <3> QED BY <1>6, <2>3, <3>1, <3>2
  <2> QED BY <1>3, <1>5, <1>6, <2>2, <2>3 DEF WireInv
<1>11. ASSUME NEW l \in ordinals(r), frameAt(r, l).seq <= s, frameMatchesFilter(frameAt(r, l).kind)
       PROVE  frameAt(r, l).seq \in Seen(o)
  <2>1. frameAt(r, l).seq \in Nat
    BY <1>1, FrameFacts DEF Inv
  <2>2. s \in Seen(o) /\ s \in Nat
    BY <1>3, <1>11, <2>1 DEF None
  <2>3. CASE frameAt(r, l).seq = s
    BY <2>2, <2>3
  <2>4. CASE frameAt(r, l).seq < s
    BY <1>11, <2>2, <2>4 DEF Ready, Whole
  <2> QED BY <1>11, <2>1, <2>2, <2>3, <2>4
<1>12. ASSUME NEW l \in ordinals(r), l < k, frameMatchesFilter(frameAt(r, l).kind)
       PROVE  frameAt(r, l).seq \in Seen(o)
  <2>1. frameAt(r, l).seq \in Nat /\ l \in Nat
    BY <1>1, FrameFacts DEF Inv
  <2>2. CASE l < from
    <3>1. CASE wanted(s, r, l)
      BY <2>2, <3>1 DEF Ready, Sent
    <3>2. CASE ~wanted(s, r, l)
      <4>1. frameAt(r, l).seq <= s
        BY <1>3, <1>12, <2>1, <3>2 DEF wanted
      <4> QED BY <1>11, <1>12, <4>1
    <3> QED BY <3>1, <3>2
  <2>3. CASE l >= from
    <3>1. l \notin unread(s, r, from)
      BY <1>2, <1>12, <2>1
    <3>2. ~wanted(s, r, l)
      BY <2>3, <3>1 DEF unread
    <3>3. frameAt(r, l).seq <= s
      BY <1>3, <1>12, <2>1, <3>2 DEF wanted
    <3> QED BY <1>11, <1>12, <3>3
  <2> QED BY <1>1, <2>1, <2>2, <2>3
<1>13. \A l \in ordinals(r) : /\ l < k => frameAt(r, l).seq < x
                              /\ l > k => x < frameAt(r, l).seq
                              /\ l = k => frameAt(r, l).seq = x
                              /\ l \in Nat /\ frameAt(r, l).seq \in Nat
  BY <1>1, <1>2, FrameFacts DEF Inv, x
<1>14. Whole(o, r)'
  <2> SUFFICES ASSUME NEW l \in ordinals(r), frameMatchesFilter(frameAt(r, l).kind),
                      NEW m \in Seen(o) \cup {x}, frameAt(r, l).seq < m
               PROVE  frameAt(r, l).seq \in Seen(o) \cup {x}
    BY <1>1, <1>7, FixedFacts DEF Whole, frameMatchesFilter, inferChannel
  <2>1. CASE m \in Seen(o)
    BY <2>1 DEF Ready, Whole
  <2>2. CASE m = x
    <3>1. l < k
      BY <1>2, <1>13, <2>2
    <3> QED BY <1>12, <3>1
  <2> QED BY <2>1, <2>2
<1>15. Sent(o, s, r, k + 1)'
  <2> SUFFICES ASSUME NEW l \in ordinals(r), l < k + 1, wanted(s, r, l)
               PROVE  frameAt(r, l).seq \in Seen(o) \cup {x}
    BY <1>1, <1>7, FixedFacts DEF Sent
  <2>1. CASE l = k
    BY <1>13, <2>1
  <2>2. CASE l < k
    BY <1>12, <2>2 DEF wanted
  <2> QED BY <1>2, <1>13, <2>1, <2>2
<1>16. News(o, s, r, k + 1)'
  <2> SUFFICES ASSUME NEW l \in ordinals(r), l >= k + 1, NEW m \in Seen(o) \cup {x}
               PROVE  m <= s \/ m < frameAt(r, l).seq
    BY <1>1, <1>7, FixedFacts DEF News
  <2>1. l > k /\ l >= from
    BY <1>1, <1>2, <1>13
  <2>2. CASE m = x
    BY <1>13, <2>1, <2>2
  <2>3. CASE m \in Seen(o)
    BY <2>1, <2>3 DEF Ready, News
  <2> QED BY <2>2, <2>3
<1>17. ASSUME NEW q \in Runs, runs[t] = q, q # r
       PROVE  Whole(o, q)' /\ News(o, s, q, 0)'
  <2>1. thread[q] = t /\ r < q
    <3>1. thread[q] = t /\ r <= q
      BY <1>1, <1>2, <1>17, FrameFacts
      DEF Inv, RegistryInv, CoreInv, QueueInv, Registered, ThreadRuns, NoRun, Runs
    <3> QED BY <1>1, <1>17, <3>1 DEF Runs
  <2>2. \A l \in ordinals(q) : x < frameAt(q, l).seq /\ l \in Nat /\ frameAt(q, l).seq \in Nat
    BY <1>1, <1>2, <2>1, LaterRunsFollow, FrameFacts DEF Inv, x
  <2>3. Whole(o, q) /\ News(o, s, q, 0)
    BY <1>17 DEF Ready
  <2>4. Whole(o, q)'
    <3> SUFFICES ASSUME NEW l \in ordinals(q), frameMatchesFilter(frameAt(q, l).kind),
                        NEW m \in Seen(o) \cup {x}, frameAt(q, l).seq < m
                 PROVE  frameAt(q, l).seq \in Seen(o) \cup {x}
      BY <1>1, <1>7, FixedFacts DEF Whole, frameMatchesFilter, inferChannel
    <3>1. m # x
      BY <1>2, <2>2 DEF x
    <3> QED BY <2>3, <3>1 DEF Whole
  <2>5. News(o, s, q, 0)'
    <3> SUFFICES ASSUME NEW l \in ordinals(q), l >= 0, NEW m \in Seen(o) \cup {x}
                 PROVE  m <= s \/ m < frameAt(q, l).seq
      BY <1>1, <1>7, FixedFacts DEF News
    <3> QED BY <2>2, <2>3 DEF News
  <2> QED BY <2>4, <2>5
<1>18. runs' = runs
  BY <1>1, FixedFacts
<1>19. AheadInv(o)' /\ WholeInv(o)'
  <2>1. AheadInv(o)'
    BY <1>5, <1>16, <1>17, <1>18 DEF AheadInv, News
  <2>2. WholeInv(o)'
    BY <1>5, <1>14, <1>15, <1>17, <1>18 DEF WholeInv, Sent
  <2> QED BY <2>1, <2>2
<1>20. ParkInv(o)'
  BY <1>1 DEF ParkInv, Free
<1> QED BY <1>1, <1>5, <1>8, <1>9, <1>10, <1>19, <1>20, ObserverStep DEF ObserverInv

LEMMA NextReady ==
  ASSUME Inv, NEW o \in Observers, NEW s, NEW t, NEW q \in Runs, runs[t] = q, t \in Threads,
         Whole(o, q), News(o, s, q, 0)
  PROVE  Ready(o, s, t, q, dropped[q])
<1>1. /\ dropped[q] \in Nat /\ \A k \in ordinals(q) : k \in Nat /\ ~(k < dropped[q])
  BY FrameFacts DEF Inv
<1>2. thread[q] = t
  BY DEF Inv, RegistryInv, CoreInv, QueueInv, Registered, NoRun, Runs
<1>3. News(o, s, q, dropped[q])
  BY <1>1 DEF News
<1>4. Sent(o, s, q, dropped[q])
  BY <1>1 DEF Sent
<1> QED BY <1>1, <1>2, <1>3, <1>4 DEF Ready

(* It sends a frame of run r, or parks: the end of a pull. *)
LEMMA ReadStep ==
  ASSUME Inv, NEW o \in Observers, NEW s, NEW t, NEW r, NEW from, Free(o), Asks(o, s, t),
         Ready(o, s, t, r, from), unread(s, r, from) = {} => runs[t] \in {NoRun, r},
         IF unread(s, r, from) # {} THEN yieldFrame(o, r, Min(unread(s, r, from))) ELSE park(o, t, r)
  PROVE  Inv'
<1>1. CASE unread(s, r, from) = {}
  BY <1>1, ParkStep
<1>2. CASE unread(s, r, from) # {}
  <2>1. unread(s, r, from) \subseteq Nat
    BY FrameFacts DEF unread, Ready, Inv
  <2>2. /\ Min(unread(s, r, from)) \in unread(s, r, from)
        /\ \A l \in unread(s, r, from) : Min(unread(s, r, from)) <= l
    BY <1>2, <2>1, LeastNumber
  <2> QED BY <1>2, <2>2, YieldStep
<1> QED BY <1>1, <1>2

LEMMA PullStep ==
  ASSUME Inv, NEW o \in Observers, NEW s, NEW t, NEW r, NEW from, Free(o), Asks(o, s, t),
         Ready(o, s, t, r, from), pull(o, s, t, r, from)
  PROVE  Inv'
<1>1. t \in Threads /\ \A q \in Runs : runs[t] = q => Whole(o, q) /\ (q # r => News(o, s, q, 0))
  BY DEF Asks, Ready
<1>2. runs[t] \in Runs \cup {NoRun}
  BY <1>1 DEF Inv, RegistryInv, CoreInv, TypeOK
<1>3. CASE unread(s, r, from) = {} /\ runs[t] \notin {NoRun, r}
  <2>1. runs[t] \in Runs /\ Ready(o, s, t, runs[t], dropped[runs[t]])
    BY <1>1, <1>2, <1>3, NextReady
  <2>2. CASE t \in threadsBeingDeleted
    <3>1. close(o)
      BY <1>3, <2>2 DEF pull
    <3> QED BY <1>1, <2>2, <3>1, CloseStep
  <2>3. CASE t \notin threadsBeingDeleted
    <3>1. LET q == runs[t]
              frames == unread(s, q, dropped[q])
          IN  IF frames # {} THEN yieldFrame(o, q, Min(frames)) ELSE park(o, t, q)
      BY <1>3, <2>3 DEF pull, followFrom
    <3> QED BY <2>1, <3>1, ReadStep
  <2> QED BY <2>2, <2>3
<1>4. CASE ~(unread(s, r, from) = {} /\ runs[t] \notin {NoRun, r})
  <2>1. LET frames == unread(s, r, from)
        IN  IF frames # {} THEN yieldFrame(o, r, Min(frames)) ELSE park(o, t, r)
    BY <1>4 DEF pull
  <2>2. unread(s, r, from) = {} => runs[t] \in {NoRun, r}
    BY <1>4
  <2> QED BY <2>1, <2>2, ReadStep
<1> QED BY <1>3, <1>4

LEMMA AtTopStep ==
  ASSUME Inv, NEW o \in Observers, NEW s, NEW t, NEW r, NEW from, Free(o), Asks(o, s, t),
         \A q \in Runs : runs[t] = q => Whole(o, q),
         t \notin threadsBeingDeleted => Ready(o, s, t, r, from), atTop(o, s, t, r, from)
  PROVE  Inv'
<1>1. CASE t \in threadsBeingDeleted
  <2>1. close(o)
    BY <1>1 DEF atTop
  <2> QED BY <1>1, <2>1, CloseStep
<1>2. CASE t \notin threadsBeingDeleted
  <2>1. pull(o, s, t, r, from)
    BY <1>2 DEF atTop
  <2> QED BY <1>2, <2>1, PullStep
<1> QED BY <1>1, <1>2

LEMMA EnterStep ==
  ASSUME Inv, NEW o \in Observers, NEW s, NEW t, Free(o), Asks(o, s, t), reading[o] = NoRun,
         \A q \in Runs : runs[t] = q => /\ Whole(o, q)
                                        /\ t \notin threadsBeingDeleted => News(o, s, q, 0),
         enter(o, s, t)
  PROVE  Inv'
<1>1. t \in Threads /\ runs[t] \in Runs \cup {NoRun}
  BY DEF Asks, Inv, RegistryInv, CoreInv, TypeOK
<1>2. CASE runs[t] # NoRun
  <2>1. atTop(o, s, t, runs[t], dropped[runs[t]]) /\ runs[t] \in Runs
    BY <1>1, <1>2 DEF enter
  <2>2. t \notin threadsBeingDeleted => Ready(o, s, t, runs[t], dropped[runs[t]])
    BY <1>1, <2>1, NextReady
  <2> QED BY <2>1, <2>2, AtTopStep
<1>3. CASE runs[t] = NoRun /\ t \in threadsBeingDeleted
  <2>1. close(o)
    BY <1>3 DEF enter
  <2> QED BY <1>3, <2>1, CloseStep
<1>4. CASE runs[t] = NoRun /\ t \notin threadsBeingDeleted
  <2>1. waitForRun(o, t) /\ UNCHANGED <<reading, cursor>>
    BY <1>4 DEF enter
  <2> QED BY <1>4, <2>1, WaitStep
<1> QED BY <1>2, <1>3, <1>4

LEMMA ConnectStep ==
  ASSUME Inv, NEW o \in Observers, NEW t \in Threads, Connect(o, t)
  PROVE  Inv'
<1> DEFINE s == Max(got[o] \cup {None})
<1>1. /\ place[o] = "closed" /\ watching[o] \in {NoThread, t} /\ enter(o, s, t)
      /\ watching' = [watching EXCEPT ![o] = t] /\ since' = [since EXCEPT ![o] = s]
      /\ UNCHANGED <<fixed, got>>
  BY DEF Connect
<1>2. ObserverInv(o) /\ seqCounter \in Nat /\ got[o] \subseteq Nat
  BY ObserverFacts DEF Inv, RegistryInv, CoreInv, TypeOK
<1>3. s \in got[o] \cup {None} /\ \A n \in got[o] : n <= s
  <2>1. \A n \in got[o] : n < seqCounter
    BY <1>2 DEF ObserverInv, WireInv, Seen
  <2> QED BY <1>2, <2>1, LastReceived
<1> HIDE DEF s
<1>4. Free(o) /\ reading[o] = NoRun
  BY <1>1, <1>2 DEF ObserverInv, PlaceInv, Free
<1>5. Asks(o, s, t)
  BY <1>1, <1>2, <1>3 DEF Asks, Inv, StreamTypeOK
<1>6. ASSUME NEW q \in Runs, runs[t] = q
      PROVE  Whole(o, q) /\ (t \notin threadsBeingDeleted => News(o, s, q, 0))
  <2>1. CASE watching[o] = NoThread
    <3>1. Seen(o) = {}
      BY <1>2, <2>1, ObserverFacts DEF ObserverInv, PlaceInv, Seen, onWire, ToSet
    <3> QED BY <3>1 DEF Whole, News
  <2>2. CASE watching[o] = t
    <3>1. Whole(o, q)
      BY <1>2, <1>6, <2>2 DEF ObserverInv, WholeInv
    <3>2. ASSUME t \notin threadsBeingDeleted, NEW k \in ordinals(q), NEW n \in Seen(o)
          PROVE  n <= s \/ n < frameAt(q, k).seq
      <4>1. CASE n \in got[o]
        BY <1>3, <4>1
      <4>2. CASE n \in onWire(o)
        BY <1>1, <1>2, <1>6, <2>2, <3>2, <4>2 DEF ObserverInv, AheadInv
      <4> QED BY <4>1, <4>2 DEF Seen
    <3> QED BY <3>1, <3>2 DEF News
  <2> QED BY <1>1, <2>1, <2>2
<1> QED BY <1>1, <1>4, <1>5, <1>6, EnterStep

(* It resumes where it was suspended. *)
LEMMA ResumeFacts ==
  ASSUME Inv, NEW o \in Observers, place[o] # "closed", UNCHANGED <<fixed, watching, since, got>>
  PROVE  /\ watching[o] \in Threads /\ Asks(o, since[o], watching[o])
         /\ reading[o] # NoRun => Ready(o, since[o], watching[o], reading[o], cursor[o])
         /\ \A q \in Runs : runs[watching[o]] = q =>
              Whole(o, q) /\ (reading[o] # q => News(o, since[o], q, 0))
<1>1. ObserverInv(o) /\ StreamTypeOK
  BY DEF Inv
<1>2. watching[o] \in Threads
  BY <1>1 DEF ObserverInv, PlaceInv
<1>3. Asks(o, since[o], watching[o])
  BY <1>1, <1>2 DEF Asks, StreamTypeOK, ObserverInv, WireInv
<1>4. \A q \in Runs : runs[watching[o]] = q =>
        Whole(o, q) /\ (reading[o] # q => News(o, since[o], q, 0))
  BY <1>1, <1>2 DEF ObserverInv, WholeInv, AheadInv
<1>5. ASSUME reading[o] # NoRun
      PROVE  Ready(o, since[o], watching[o], reading[o], cursor[o])
  <2>1. reading[o] \in Runs /\ cursor[o] \in Nat /\ thread[reading[o]] = watching[o]
    BY <1>1, <1>5, ObserverFacts DEF ObserverInv, PlaceInv
  <2>2. /\ News(o, since[o], reading[o], cursor[o]) /\ Sent(o, since[o], reading[o], cursor[o])
        /\ Whole(o, reading[o])
    BY <1>1, <2>1 DEF ObserverInv, AheadInv, WholeInv
  <2> QED BY <1>4, <2>1, <2>2 DEF Ready
<1> QED BY <1>2, <1>3, <1>4, <1>5

LEMMA ResumeYieldStep == ASSUME Inv, NEW o \in Observers, ResumeYield(o) PROVE Inv'
<1>1. /\ place[o] = "yielded" /\ UNCHANGED <<fixed, watching, since, got>>
      /\ pull(o, since[o], watching[o], reading[o], cursor[o])
  BY DEF ResumeYield
<1>2. Free(o) /\ reading[o] # NoRun
  BY <1>1 DEF Inv, ObserverInv, PlaceInv, Free
<1> QED BY <1>1, <1>2, ResumeFacts, PullStep

LEMMA ResumeOnRunStep == ASSUME Inv, NEW o \in Observers, ResumeOnRun(o) PROVE Inv'
<1>1. /\ place[o] = "onRun" /\ UNCHANGED <<fixed, watching, since, got>>
      /\ o \notin waiters[reading[o]]
      /\ atTop(o, since[o], watching[o], reading[o], cursor[o])
  BY DEF ResumeOnRun
<1>2. Free(o) /\ reading[o] # NoRun
  BY <1>1 DEF Inv, ObserverInv, PlaceInv, Free
<1> QED BY <1>1, <1>2, ResumeFacts, AtTopStep

LEMMA ResumeForRunStep == ASSUME Inv, NEW o \in Observers, ResumeForRun(o) PROVE Inv'
<1> DEFINE t == watching[o]
<1>1. /\ place[o] = "forRun" /\ UNCHANGED <<fixed, watching, since, got>> /\ o \notin runWaiters[t]
  BY DEF ResumeForRun
<1>2. Free(o)
  BY <1>1 DEF Inv, ObserverInv, PlaceInv, Free
<1>3. /\ t \in Threads /\ Asks(o, since[o], t)
      /\ reading[o] # NoRun => Ready(o, since[o], t, reading[o], cursor[o])
      /\ \A q \in Runs : runs[t] = q => Whole(o, q) /\ (reading[o] # q => News(o, since[o], q, 0))
  BY <1>1, ResumeFacts
<1>4. runs[t] \in Runs \cup {NoRun}
  BY <1>3 DEF Inv, RegistryInv, CoreInv, TypeOK
<1>5. CASE reading[o] = NoRun
  <2>1. enter(o, since[o], t)
    BY <1>5 DEF ResumeForRun
  <2>2. \A q \in Runs : reading[o] # q
    BY <1>5 DEF NoRun, Runs
  <2> QED BY <1>2, <1>3, <1>5, <2>1, <2>2, EnterStep
<1>6. CASE reading[o] # NoRun /\ runs[t] \notin {NoRun, reading[o]}
  <2>1. atTop(o, since[o], t, runs[t], dropped[runs[t]])
    BY <1>6 DEF ResumeForRun, followFrom
  <2>2. Ready(o, since[o], t, runs[t], dropped[runs[t]])
    BY <1>3, <1>4, <1>6, NextReady
  <2> QED BY <1>2, <1>3, <2>1, <2>2, AtTopStep
<1>7. CASE reading[o] # NoRun /\ runs[t] \in {NoRun, reading[o]}
  <2>1. atTop(o, since[o], t, reading[o], cursor[o])
    BY <1>7 DEF ResumeForRun
  <2> QED BY <1>2, <1>3, <1>7, <2>1, AtTopStep
<1> QED BY <1>5, <1>6, <1>7

(* A frame reaches the client. *)
LEMMA ReceiveStep == ASSUME Inv, NEW o \in Observers, Receive(o) PROVE Inv'
<1> DEFINE n == Len(sent[o])
<1>1. /\ sent[o] # <<>> /\ got' = [got EXCEPT ![o] = @ \cup {Head(sent[o])}]
      /\ sent' = [sent EXCEPT ![o] = Tail(@)]
      /\ UNCHANGED <<fixed, place, watching, reading, cursor, since, waiters, runWaiters>>
  BY DEF Receive, parkVars
<1>2. ObserverInv(o) /\ StreamTypeOK /\ NoneParkedOnEnded /\ TypeOK
  BY DEF Inv, RegistryInv, CoreInv
<1>3. /\ sent[o] \in Seq(Nat) /\ n \in Nat /\ n >= 1 /\ Head(sent[o]) = sent[o][1]
      /\ Tail(sent[o]) \in Seq(Nat) /\ Len(Tail(sent[o])) = n - 1
      /\ \A i \in 1 .. n - 1 : Tail(sent[o])[i] = sent[o][i + 1]
      /\ \A i \in 1 .. n : sent[o][i] \in Nat
  BY <1>1, ObserverFacts, HeadTailProperties, EmptySeq, LenProperties
<1>4. /\ got'[o] = got[o] \cup {sent[o][1]} /\ sent'[o] = Tail(sent[o])
      /\ \A q \in Observers \ {o} : Same(q)
  BY <1>1, <1>2, <1>3 DEF StreamTypeOK, Same
<1>5. onWire(o) = {sent[o][i] : i \in 1 .. n} /\ onWire(o)' = {sent[o][i + 1] : i \in 1 .. n - 1}
  <2>1. DOMAIN Tail(sent[o]) = 1 .. n - 1
    BY <1>3, LenProperties
  <2>2. onWire(o)' = {Tail(sent[o])[i] : i \in 1 .. n - 1}
    BY <1>4, <2>1 DEF onWire, ToSet
  <2>3. {Tail(sent[o])[i] : i \in 1 .. n - 1} = {sent[o][i + 1] : i \in 1 .. n - 1}
    BY <1>3
  <2>4. onWire(o) = {sent[o][i] : i \in 1 .. n}
    BY ObserverFacts
  <2> QED BY <2>2, <2>3, <2>4
<1>6. onWire(o)' \subseteq onWire(o) /\ Seen(o)' = Seen(o)
  <2>1. \A i \in 1 .. n - 1 : i + 1 \in 1 .. n
    BY <1>3
  <2>2. onWire(o)' \subseteq onWire(o)
    BY <1>5, <2>1
  <2>3. 1 \in 1 .. n
    BY <1>3
  <2>4. sent[o][1] \in onWire(o)
    BY <1>5, <2>3
  <2>5. \A i \in 1 .. n : i = 1 \/ (i - 1 \in 1 .. n - 1 /\ i - 1 + 1 = i)
    BY <1>3
  <2>6. onWire(o) \subseteq onWire(o)' \cup {sent[o][1]}
    BY <1>5, <2>5
  <2> QED BY <1>4, <2>2, <2>4, <2>6 DEF Seen
<1> HIDE DEF n
<1>7. StreamTypeOK' /\ ParksTyped' /\ NoneParkedOnEnded'
  <2>1. sent' \in [Observers -> Seq(Nat)]
    BY <1>1, <1>2, <1>3, <1>4 DEF StreamTypeOK
  <2>2. sent[o][1] \in Nat
    BY <1>3
  <2>3. got' \in [Observers -> SUBSET Nat]
    BY <1>1, <1>2, <1>3, <2>2 DEF StreamTypeOK
  <2>4. StreamTypeOK'
    BY <1>1, <1>2, <2>1, <2>3, FixedFacts DEF StreamTypeOK
  <2> QED BY <1>1, <1>2, <2>4, FixedFacts DEF ParksTyped, NoneParkedOnEnded, TypeOK
<1>8. PlaceInv(o)'
  <2>1. watching[o] # NoThread
    BY <1>1, <1>2 DEF ObserverInv, PlaceInv
  <2> QED BY <1>1, <1>2, <2>1, FixedFacts DEF ObserverInv, PlaceInv
<1>9. WireInv(o)'
  <2>1. ASSUME NEW i \in 1 .. n - 1
        PROVE  /\ \A m \in got'[o] : m < sent'[o][i]
               /\ \A j \in 1 .. i - 1 : sent'[o][j] < sent'[o][i]
    <3>1. i + 1 \in 1 .. n /\ 1 \in 1 .. (i + 1) - 1 /\ sent'[o][i] = sent[o][i + 1]
      BY <1>3, <1>4
    <3>2. /\ \A m \in got[o] : m < sent[o][i + 1]
          /\ \A j \in 1 .. (i + 1) - 1 : sent[o][j] < sent[o][i + 1]
      BY <1>2, <3>1 DEF ObserverInv, WireInv, n
    <3>3. \A j \in 1 .. i - 1 : sent'[o][j] = sent[o][j + 1] /\ j + 1 \in 1 .. (i + 1) - 1
      BY <1>3, <1>4
    <3> QED BY <1>4, <3>1, <3>2, <3>3
  <2>2. Len(sent'[o]) = n - 1
    BY <1>3, <1>4
  <2>3. since'[o] \in got'[o] \cup {None} /\ \A m \in Seen(o)' : m < seqCounter'
    BY <1>1, <1>2, <1>4, <1>6, FixedFacts DEF ObserverInv, WireInv
  <2> QED BY <2>1, <2>2, <2>3 DEF WireInv
<1>10. \A s, r, from : /\ News(o, s, r, from) => News(o, s, r, from)'
                       /\ Sent(o, s, r, from) => Sent(o, s, r, from)'
                       /\ Whole(o, r) => Whole(o, r)'
  BY <1>1, <1>6, FixedFacts DEF News, Sent, Whole, frameMatchesFilter, inferChannel
<1>11. AheadInv(o)'
  BY <1>1, <1>2, <1>6, <1>10, FixedFacts DEF ObserverInv, AheadInv
<1>12. WholeInv(o)'
  BY <1>1, <1>2, <1>10, FixedFacts DEF ObserverInv, WholeInv
<1>13. ParkInv(o)'
  BY <1>1, <1>2, FixedFacts DEF ObserverInv, ParkInv
<1> QED BY <1>1, <1>4, <1>7, <1>8, <1>9, <1>11, <1>12, <1>13, ObserverStep DEF ObserverInv

(* The connection drops, and the frames on the wire with it. *)
LEMMA DisconnectStep == ASSUME Inv, NEW o \in Observers, Disconnect(o) PROVE Inv'
<1>1. /\ place' = [place EXCEPT ![o] = "closed"] /\ reading' = [reading EXCEPT ![o] = NoRun]
      /\ cursor' = [cursor EXCEPT ![o] = 0] /\ sent' = [sent EXCEPT ![o] = <<>>]
      /\ waiters' = [r \in Runs |-> waiters[r] \ {o}]
      /\ runWaiters' = [t \in Threads |-> runWaiters[t] \ {o}]
      /\ UNCHANGED <<fixed, watching, since, got>> /\ place[o] # "closed"
  BY DEF Disconnect
<1>2. ObserverInv(o) /\ StreamTypeOK /\ NoneParkedOnEnded /\ TypeOK
  BY DEF Inv, RegistryInv, CoreInv
<1>3. /\ place'[o] = "closed" /\ reading'[o] = NoRun /\ sent'[o] = <<>>
      /\ \A r \in Runs : o \notin waiters'[r] /\ waiters'[r] \subseteq waiters[r]
      /\ \A t \in Threads : o \notin runWaiters'[t]
      /\ \A q \in Observers \ {o} : Same(q)
  BY <1>1, <1>2 DEF StreamTypeOK, Same
<1>4. onWire(o)' = {} /\ Seen(o)' = got[o] /\ Len(sent'[o]) = 0
  BY <1>1, <1>3 DEF Seen, onWire, ToSet
<1>5. StreamTypeOK' /\ ParksTyped' /\ NoneParkedOnEnded'
  <2>1. \A q \in Observers : reading'[q] # NoRun =>
          cursor'[q] <= dropped'[reading'[q]] + Len(buffer'[reading'[q]])
    BY <1>1, <1>2, FixedFacts DEF StreamTypeOK
  <2>2. /\ place' \in [Observers -> Places] /\ reading' \in [Observers -> Runs \cup {NoRun}]
        /\ cursor' \in [Observers -> Nat] /\ sent' \in [Observers -> Seq(Nat)]
    BY <1>1, <1>2 DEF StreamTypeOK, Places
  <2>3. StreamTypeOK'
    BY <1>1, <1>2, <2>1, <2>2 DEF StreamTypeOK
  <2>4. ParksTyped'
    BY <1>1, <1>2 DEF ParksTyped, TypeOK
  <2>5. NoneParkedOnEnded'
    BY <1>1, <1>2, <1>3, FixedFacts DEF NoneParkedOnEnded
  <2> QED BY <2>3, <2>4, <2>5
<1>6. PlaceInv(o)'
  BY <1>1, <1>2, <1>3 DEF ObserverInv, PlaceInv
<1>7. WireInv(o)'
  BY <1>1, <1>2, <1>4, FixedFacts DEF ObserverInv, WireInv, Seen
<1>8. AheadInv(o)'
  BY <1>3, <1>4 DEF AheadInv
<1>9. ASSUME NEW r \in Runs, watching[o] \in Threads, runs[watching[o]] = r PROVE Whole(o, r)'
  <2> SUFFICES ASSUME NEW k \in ordinals(r), frameMatchesFilter(frameAt(r, k).kind),
                      NEW m \in got[o], frameAt(r, k).seq < m
               PROVE  frameAt(r, k).seq \in got[o]
    BY <1>1, <1>4, FixedFacts DEF Whole, frameMatchesFilter, inferChannel
  <2>1. frameAt(r, k).seq \in Seen(o) /\ frameAt(r, k).seq \in Nat /\ m \in Nat
    BY <1>2, <1>9, FrameFacts, ObserverFacts DEF ObserverInv, WholeInv, Whole, Seen, Inv
  <2>2. ASSUME NEW i \in 1 .. Len(sent[o]), frameAt(r, k).seq = sent[o][i] PROVE FALSE
    <3>1. m < sent[o][i]
      BY <1>2 DEF ObserverInv, WireInv
    <3> QED BY <2>1, <2>2, <3>1
  <2> QED BY <2>1, <2>2, ObserverFacts DEF Seen
<1>10. WholeInv(o)'
  BY <1>1, <1>3, <1>9, FixedFacts DEF WholeInv, NoRun, Runs
<1>11. ParkInv(o)'
  BY <1>3 DEF ParkInv
<1> QED BY <1>1, <1>3, <1>5, <1>6, <1>7, <1>8, <1>10, <1>11, ObserverStep DEF ObserverInv

-----------------------------------------------------------------------------

LEMMA NextInv == Inv /\ [StreamNext]_allVars => Inv'
<1> SUFFICES ASSUME Inv, [StreamNext]_allVars PROVE Inv'
  OBVIOUS
<1>1. CASE Next /\ UNCHANGED streamVars
  BY <1>1, RegistryKeepsStreams
<1>2. CASE UNCHANGED allVars
  BY <1>2, RegistryKeepsStreams DEF allVars
<1>3. ASSUME NEW o \in Observers, NEW t \in Threads, Connect(o, t) PROVE Inv'
  BY <1>3, ConnectStep
<1>4. ASSUME NEW o \in Observers, ResumeYield(o) \/ ResumeOnRun(o) \/ ResumeForRun(o) PROVE Inv'
  BY <1>4, ResumeYieldStep, ResumeOnRunStep, ResumeForRunStep
<1>5. ASSUME NEW o \in Observers, Receive(o) \/ Disconnect(o) PROVE Inv'
  BY <1>5, ReceiveStep, DisconnectStep
<1> QED BY <1>1, <1>2, <1>3, <1>4, <1>5 DEF StreamNext

(* The invariant the two theorems rest on: where each generator stands      *)
(* (observe), what it has sent and what its thread's runs still keep.       *)
THEOREM StreamInvariant == StreamSpec => []Inv
<1>1. StreamInit => Inv
  BY InitInv
<1>2. Inv /\ [StreamNext]_allVars => Inv'
  BY NextInv
<1> QED BY <1>1, <1>2, PTL DEF StreamSpec

(* A client receives the frames of its thread in order and once, and misses *)
(* none that the run it reads still keeps, whatever replacement runs,       *)
(* evictions, disconnects and reconnects lie between (observe).             *)
THEOREM FramesArrive == StreamSpec => []FramesArriveWhole
<1>1. ASSUME Inv PROVE DeliveredInOrder
  BY <1>1 DEF Inv, ObserverInv, WireInv, DeliveredInOrder
<1>2. ASSUME Inv PROVE NothingPassedOver
  <2>1. \A o \in Observers : reading[o] # NoRun => reading[o] \in Runs /\ Whole(o, reading[o])
    BY <1>2, ObserverFacts DEF Inv, ObserverInv, WholeInv
  <2> QED BY <2>1 DEF NothingPassedOver, Whole, Seen
<1>3. Inv => FramesArriveWhole
  BY <1>1, <1>2 DEF FramesArriveWhole
<1> QED BY <1>3, StreamInvariant, PTL

(* An observer that waits has nothing left to read, and waits where what    *)
(* its thread's run does next will wake it (waitForRunProgress, wake).      *)
THEOREM WaitsSound == StreamSpec => []WaitsAreSound
<1>1. Inv => WaitsAreSound
  BY DEF Inv, ObserverInv, ParkInv, ParkedHasNothingToRead, WaitsAreSound
<1> QED BY <1>1, StreamInvariant, PTL

=============================================================================
