-------------------------- MODULE ThreadLifeProofs --------------------------
(***************************************************************************)
(* Proofs about ThreadLife, for any number of runs, tasks, faults, client  *)
(* writes, deletions and crashes.                                          *)
(***************************************************************************)
EXTENDS ThreadLife, TLAPS, SequenceTheorems

Queued == 1 .. Len(queue)
InLine == 1 .. Len(line)
Told   == 1 .. Len(activity)

-----------------------------------------------------------------------------
(* The inductive invariant. *)

(* What a task at each of its awaits is about.                              *)
TaskInv ==
  \A i \in Queued :
    /\ queue[i].at # "queued" => queue[i].kind = "end"
    /\ queue[i].at \in {"ids", "paused"} => queue[i].status = "interrupted"
    /\ queue[i].at \in {"messages", "state", "update"} => queue[i].status # "interrupted"
    /\ queue[i].at = "update" => queue[i].seen # "unread"

(* A deletion that has drained the runs waits for every task there is.      *)
EraseInv ==
  /\ line = <<>> => at = "waiting"
  /\ deletion # "none" => fence
  /\ deletion # "waiting" => behind = 0
  /\ fence /\ deletion # "draining" => line = <<>> /\ behind = Len(queue)

(* Nobody is left to bring a deleted thread back.                           *)
GoneInv ==
  gone => /\ line = <<>> /\ queue = <<>>
          /\ ~row.present /\ ~indexed /\ activity = <<>>
          /\ ~fence => history = "none"

(* What was told, what is queued to be told and what has yet to end follow  *)
(* each other in the order of the starts.                                   *)
OrderInv ==
  /\ \A i, j \in Told : i < j => activity[i] < activity[j]
  /\ \A i, j \in Queued : queue[i].kind = "end" /\ queue[j].kind = "end" /\ i < j
                            => queue[i].run < queue[j].run
  /\ \A i, j \in InLine : i < j => line[i] < line[j]
  /\ \A i \in Told, j \in Queued : queue[j].kind = "end" => activity[i] < queue[j].run
  /\ \A i \in Told, j \in InLine : activity[i] < line[j]
  /\ \A i \in Queued, j \in InLine : queue[i].kind = "end" => queue[i].run < line[j]
  /\ \A i \in Told : activity[i] <= started
  /\ \A i \in Queued : queue[i].kind = "end" => queue[i].run <= started

(* While nothing was missed, the last task of a thread at rest will leave   *)
(* the Action flag as the history has it, or has left it so.                *)
last == queue[Len(queue)]
FlagInv ==
  ~stale =>
    /\ deletion = "clearing" => ~row.present
    /\ ~fence =>
         /\ at = "paused" => history = "paused"
         /\ line = <<>> /\ queue # <<>> =>
              /\ last.kind = "end"
              /\ last.status = "interrupted" => history = "paused"
              /\ last.at = "paused" => row.awaitingAction
              /\ last.at = "update" /\ last.seen # "unreadable"
                   => (last.seen = "paused" <=> history = "paused")
         /\ line = <<>> /\ queue = <<>> /\ row.present
              => (row.awaitingAction <=> history = "paused")

LifeInv == TypeOK /\ TaskInv /\ EraseInv /\ GoneInv /\ OrderInv /\ FlagInv

-----------------------------------------------------------------------------
(* What the actions do to the queue, the line and the activity. *)

LEMMA SequenceFacts ==
  ASSUME TypeOK
  PROVE  /\ Len(queue) \in Nat /\ Len(line) \in Nat /\ Len(activity) \in Nat
         /\ \A i \in Queued : queue[i] \in Tasks
         /\ \A i \in InLine : line[i] \in 1 .. started
         /\ \A i \in Told : activity[i] \in 1 .. MaxRuns
         /\ started \in Nat /\ MaxRuns \in Nat
         /\ queue # <<>> => 1 \in Queued /\ Len(queue) \in Queued
         /\ line # <<>> => 1 \in InLine
BY MaxRunsAssumption, LenProperties, ElementOfSeq, EmptySeq DEF TypeOK, Queued, InLine, Told

LEMMA QueueFacts ==
  ASSUME TypeOK, NEW kind \in {"end", "clear"}, NEW r \in 1 .. MaxRuns, NEW status \in Statuses,
         queueThreadMaintenance(kind, r, status)
  PROVE  \E t \in Tasks :
           /\ t.kind = kind /\ t.run = r /\ t.status = status /\ t.at = "queued"
           /\ queue' \in Seq(Tasks) /\ Len(queue') = Len(queue) + 1
           /\ \A i \in Queued : queue'[i] = queue[i]
           /\ queue'[Len(queue) + 1] = t
           /\ Queued' = Queued \cup {Len(queue) + 1}
<1> DEFINE t == [kind |-> kind, run |-> r, status |-> status, at |-> "queued", seen |-> "unread"]
<1>1. t \in Tasks /\ t.kind = kind /\ t.run = r /\ t.status = status /\ t.at = "queued"
  BY DEF Tasks, Seen
<1>2. queue' = Append(queue, t)
  BY DEF queueThreadMaintenance
<1> HIDE DEF t
<1>3. /\ queue' \in Seq(Tasks) /\ Len(queue') = Len(queue) + 1
      /\ \A i \in Queued : queue'[i] = queue[i]
      /\ queue'[Len(queue) + 1] = t
  BY <1>1, <1>2, AppendProperties DEF TypeOK, Queued
<1>4. Queued' = Queued \cup {Len(queue) + 1}
  BY <1>3, SequenceFacts DEF Queued
<1> QED BY <1>1, <1>3, <1>4

LEMMA LineFacts ==
  ASSUME TypeOK, started < MaxRuns, NEW resume \in BOOLEAN, enterLine(resume)
  PROVE  /\ started' = started + 1 /\ started' \in 0 .. MaxRuns
         /\ line' \in Seq(1 .. started') /\ Len(line') = Len(line) + 1 /\ line' # <<>>
         /\ \A i \in InLine : line'[i] = line[i]
         /\ line'[Len(line) + 1] = started + 1
         /\ InLine' = InLine \cup {Len(line) + 1}
         /\ at' = (IF line = <<>> THEN "resolving" ELSE at)
         /\ resumes' \in [1 .. MaxRuns -> BOOLEAN] /\ ~gone'
<1>1. /\ started' = started + 1 /\ line' = Append(line, started + 1)
      /\ at' = (IF line = <<>> THEN "resolving" ELSE at)
      /\ resumes' = [resumes EXCEPT ![started + 1] = resume] /\ ~gone'
  BY DEF enterLine
<1>2. started' \in 0 .. MaxRuns /\ started + 1 \in 1 .. started' /\ started \in Nat
  BY <1>1, SequenceFacts DEF TypeOK
<1>3. line \in Seq(1 .. started')
  <2>1. 1 .. started \subseteq 1 .. started'
    BY <1>1, <1>2
  <2> QED BY <2>1, SeqMonotonic DEF TypeOK
<1>4. /\ line' \in Seq(1 .. started') /\ Len(line') = Len(line) + 1
      /\ \A i \in InLine : line'[i] = line[i]
      /\ line'[Len(line) + 1] = started + 1
  BY <1>1, <1>2, <1>3, AppendProperties DEF InLine
<1>5. InLine' = InLine \cup {Len(line) + 1} /\ line' # <<>>
  BY <1>4, SequenceFacts, EmptySeq DEF InLine
<1>6. resumes' \in [1 .. MaxRuns -> BOOLEAN]
  BY <1>1 DEF TypeOK
<1> QED BY <1>1, <1>2, <1>4, <1>5, <1>6

LEMMA FinishFacts ==
  ASSUME TypeOK, NEW i, atWork(i), NEW failed \in BOOLEAN, finish(i, failed)
  PROVE  /\ queue' \in Seq(Tasks) /\ Len(queue') = Len(queue) - 1
         /\ \A k \in Queued' : k + 1 \in Queued /\ k + 1 # 1 /\ queue'[k] = queue[k + 1]
         /\ queue' # <<>> => Len(queue) # 1
         /\ Len(queue) # 1 => queue' # <<>> /\ queue'[Len(queue')] = last /\ last.at = "queued"
         /\ UNCHANGED fence
         /\ behind = 0 => UNCHANGED <<deletion, behind>>
         /\ behind # 0 => behind' = behind - 1
                          /\ deletion' = IF behind = 1 /\ failed THEN "rejected" ELSE deletion
<1>1. i = 1 /\ queue # <<>> /\ queue \in Seq(Tasks)
  BY DEF atWork, TypeOK
<1>2. queue' = SubSeq(queue, 1, 0) \o SubSeq(queue, 2, Len(queue))
  BY <1>1 DEF finish, RemoveAt
<1>3. SubSeq(queue, 1, 0) = <<>> /\ SubSeq(queue, 2, Len(queue)) = Tail(queue)
  BY <1>1, SubSeqEmpty, TailIsSubSeq
<1>4. Tail(queue) \in Seq(Tasks)
  BY <1>1, HeadTailProperties
<1>5. queue' = Tail(queue)
  BY <1>2, <1>3, <1>4, ConcatEmptySeq
<1>6. /\ queue' \in Seq(Tasks) /\ Len(queue') = Len(queue) - 1
      /\ \A k \in 1 .. Len(queue) - 1 : queue'[k] = queue[k + 1]
  BY <1>1, <1>5, HeadTailProperties
<1>7. Len(queue) \in Nat /\ Len(queue) # 0 /\ (queue' = <<>> <=> Len(queue) = 1)
  BY <1>1, <1>6, SequenceFacts, EmptySeq
<1>8. \A k \in Queued' : k + 1 \in Queued /\ k + 1 # 1 /\ queue'[k] = queue[k + 1]
  BY <1>6, <1>7 DEF Queued
<1>9. Len(queue) # 1 => queue'[Len(queue')] = last /\ last.at = "queued"
  BY <1>6, <1>7 DEF last, TypeOK
<1> QED BY <1>6, <1>7, <1>8, <1>9 DEF finish

LEMMA AdvanceFacts ==
  ASSUME TypeOK, queue # <<>>, NEW t \in Tasks, queue' = [queue EXCEPT ![1] = t]
  PROVE  /\ queue' \in Seq(Tasks) /\ Len(queue') = Len(queue) /\ queue' # <<>>
         /\ queue'[1] = t
         /\ \A k \in Queued : k # 1 => queue'[k] = queue[k]
<1>1. queue \in Seq(Tasks) /\ 1 \in 1 .. Len(queue)
  BY SequenceFacts DEF TypeOK, Queued
<1>2. /\ queue' \in Seq(Tasks) /\ Len(queue') = Len(queue) /\ queue'[1] = t
      /\ \A k \in 1 .. Len(queue) : k # 1 => queue'[k] = queue[k]
  BY <1>1, ExceptSeq
<1> QED BY <1>1, <1>2, EmptySeq DEF Queued

-----------------------------------------------------------------------------
(* The invariant is inductive. *)

LEMMA InitInv == Init => LifeInv
<1> SUFFICES ASSUME Init PROVE LifeInv
  OBVIOUS
<1> USE DEF Init
<1>1. line = <<>> /\ queue = <<>> /\ activity = <<>> /\ Queued = {} /\ InLine = {} /\ Told = {}
  BY EmptySeq DEF Queued, InLine, Told
<1>2. NoRow \in Rows /\ ~NoRow.present
  BY DEF NoRow, Rows
<1>3. TypeOK
  <2>1. \A S : <<>> \in Seq(S)
    BY EmptySeq
  <2>2. Len(queue) = 0
    BY EmptySeq
  <2>3. /\ row \in Rows /\ (~row.present => row = NoRow) /\ indexed \in BOOLEAN
        /\ activity \in Seq(1 .. MaxRuns) /\ line \in Seq(1 .. started) /\ queue \in Seq(Tasks)
        /\ resumes \in [1 .. MaxRuns -> BOOLEAN]
    BY <1>2, <2>1
  <2>4. started \in 0 .. MaxRuns /\ behind \in 0 .. Len(queue) /\ upsets \in Nat
    BY <2>2, MaxRunsAssumption
  <2>5. \A i \in 2 .. Len(queue) : queue[i].at = "queued"
    BY <2>2
  <2> QED BY <2>3, <2>4, <2>5 DEF TypeOK
<1>4. TaskInv /\ EraseInv /\ GoneInv /\ OrderInv
  <2>1. EraseInv /\ GoneInv
    BY <1>2 DEF EraseInv, GoneInv
  <2> QED BY <1>1, <2>1 DEF TaskInv, OrderInv
<1>5. FlagInv
  BY <1>2 DEF FlagInv
<1> QED BY <1>3, <1>4, <1>5 DEF LifeInv

LEMMA StutterStep == ASSUME LifeInv, UNCHANGED vars PROVE LifeInv'
<1> USE DEF vars, durable, turn, erasing, ghosts
<1>1. TypeOK'
  BY DEF LifeInv, TypeOK
<1>2. TaskInv' /\ OrderInv'
  BY DEF LifeInv, TaskInv, OrderInv, Queued, InLine, Told
<1>3. EraseInv' /\ GoneInv' /\ FlagInv'
  BY DEF LifeInv, EraseInv, GoneInv, FlagInv, last
<1> QED BY <1>1, <1>2, <1>3 DEF LifeInv

-----------------------------------------------------------------------------
(* Runs. *)

(* A run that enters the line comes after all that came before. *)
LEMMA LineOrder ==
  ASSUME TypeOK, OrderInv, UNCHANGED activity, started' = started + 1,
         \A i \in InLine : line'[i] = line[i],
         line'[Len(line) + 1] = started + 1, InLine' = InLine \cup {Len(line) + 1},
         \A i \in Queued' : queue'[i].kind = "end" => i \in Queued /\ queue'[i] = queue[i]
  PROVE  OrderInv'
<1>1. /\ Len(line) \in Nat /\ started \in Nat
      /\ \A i \in InLine : line[i] \in Nat /\ line[i] < started + 1 /\ i < Len(line) + 1 /\ i \in Nat
  BY SequenceFacts DEF InLine
<1>2. \A i \in InLine' : \/ i \in InLine /\ line'[i] = line[i]
                         \/ i = Len(line) + 1 /\ line'[i] = started + 1
  OBVIOUS
<1>3. \A i \in Told : activity[i] < started + 1 /\ activity[i] <= started + 1
  BY <1>1, SequenceFacts DEF OrderInv
<1>4. \A i \in Queued : queue[i].kind = "end"
                          => queue[i].run < started + 1 /\ queue[i].run <= started + 1
  BY <1>1, SequenceFacts DEF OrderInv, Tasks
<1>5. \A i, j \in InLine' : i < j => line'[i] < line'[j]
  BY <1>1, <1>2 DEF OrderInv
<1>6. \A i \in Told, j \in InLine' : activity[i] < line'[j]
  BY <1>2, <1>3 DEF OrderInv
<1>7. \A i \in Queued', j \in InLine' : queue'[i].kind = "end" => queue'[i].run < line'[j]
  BY <1>2, <1>4 DEF OrderInv
<1>8. /\ \A i, j \in Queued' : queue'[i].kind = "end" /\ queue'[j].kind = "end" /\ i < j
                                 => queue'[i].run < queue'[j].run
      /\ \A i \in Told, j \in Queued' : queue'[j].kind = "end" => activity[i] < queue'[j].run
  BY DEF OrderInv
<1>9. /\ \A i \in Queued' : queue'[i].kind = "end" => queue'[i].run <= started'
      /\ \A i \in Told : activity[i] <= started'
  BY <1>3, <1>4
<1> QED BY <1>5, <1>6, <1>7, <1>8, <1>9 DEF OrderInv, Told

LEMMA StartStep == ASSUME LifeInv, Start PROVE LifeInv'
<1> USE DEF LifeInv
<1>1. /\ ~fence /\ started < MaxRuns /\ enterLine(FALSE)
      /\ UNCHANGED <<durable, queue, erasing, upsets, stale>>
  BY DEF Start, accepts
<1>2. /\ started' = started + 1 /\ started' \in 0 .. MaxRuns
      /\ line' \in Seq(1 .. started') /\ line' # <<>>
      /\ \A i \in InLine : line'[i] = line[i]
      /\ line'[Len(line) + 1] = started + 1
      /\ InLine' = InLine \cup {Len(line) + 1}
      /\ at' = (IF line = <<>> THEN "resolving" ELSE at)
      /\ resumes' \in [1 .. MaxRuns -> BOOLEAN] /\ ~gone'
  BY <1>1, LineFacts
<1>3. TypeOK'
  <2>1. UNCHANGED <<durable, queue, erasing, upsets, stale>> /\ gone' \in BOOLEAN
    BY <1>1 DEF enterLine
  <2>2. at' \in {"waiting", "resolving", "running", "paused"}
    BY <1>2 DEF TypeOK
  <2> QED BY <1>2, <2>1, <2>2 DEF TypeOK, durable, erasing
<1>4. TaskInv'
  BY <1>1 DEF TaskInv, Queued
<1>5. EraseInv' /\ GoneInv' /\ FlagInv'
  BY <1>1, <1>2 DEF EraseInv, GoneInv, FlagInv, durable, erasing
<1>6. OrderInv'
  BY <1>1, <1>2, LineOrder DEF Queued, durable
<1> QED BY <1>3, <1>4, <1>5, <1>6

LEMMA RespondStep == ASSUME LifeInv, Respond PROVE LifeInv'
<1> USE DEF LifeInv
<1>1. /\ ~fence /\ started < MaxRuns /\ enterLine(TRUE)
      /\ queueThreadMaintenance("clear", started + 1, "success")
      /\ UNCHANGED <<durable, erasing, upsets, stale>>
  BY DEF Respond, accepts
<1>2. /\ started' = started + 1 /\ started' \in 0 .. MaxRuns
      /\ line' \in Seq(1 .. started') /\ line' # <<>>
      /\ \A i \in InLine : line'[i] = line[i]
      /\ line'[Len(line) + 1] = started + 1
      /\ InLine' = InLine \cup {Len(line) + 1}
      /\ at' = (IF line = <<>> THEN "resolving" ELSE at)
      /\ resumes' \in [1 .. MaxRuns -> BOOLEAN] /\ ~gone'
  BY <1>1, LineFacts
<1>3. started + 1 \in 1 .. MaxRuns
  BY <1>2, SequenceFacts
<1>4. PICK t \in Tasks :
        /\ t.kind = "clear" /\ t.at = "queued"
        /\ queue' \in Seq(Tasks) /\ Len(queue') = Len(queue) + 1
        /\ \A i \in Queued : queue'[i] = queue[i]
        /\ queue'[Len(queue) + 1] = t
        /\ Queued' = Queued \cup {Len(queue) + 1}
  BY <1>1, <1>3, QueueFacts DEF Statuses
<1>5. TypeOK'
  <2>1. \A i \in 2 .. Len(queue') : queue'[i].at = "queued"
    BY <1>4, SequenceFacts DEF TypeOK, Queued
  <2>2. behind' \in 0 .. Len(queue')
    BY <1>1, <1>4, SequenceFacts DEF TypeOK, erasing
  <2>3. UNCHANGED <<durable, erasing, upsets, stale>> /\ gone' \in BOOLEAN
    BY <1>1 DEF enterLine
  <2>4. at' \in {"waiting", "resolving", "running", "paused"}
    BY <1>2 DEF TypeOK
  <2> QED BY <1>2, <1>4, <2>1, <2>2, <2>3, <2>4 DEF TypeOK, durable, erasing
<1>6. TaskInv'
  BY <1>4 DEF TaskInv
<1>7. EraseInv' /\ GoneInv' /\ FlagInv'
  BY <1>1, <1>2 DEF EraseInv, GoneInv, FlagInv, durable, erasing
<1>8. OrderInv'
  <2>1. \A i \in Queued' : queue'[i].kind = "end" => i \in Queued /\ queue'[i] = queue[i]
    BY <1>4
  <2> QED BY <1>1, <1>2, <2>1, LineOrder DEF durable
<1> QED BY <1>5, <1>6, <1>7, <1>8

LEMMA ResolveTurnStep == ASSUME LifeInv, resolveTurn PROVE LifeInv'
<1> USE DEF LifeInv
<1>1. /\ line # <<>> /\ row' = ensured /\ at' = "running"
      /\ UNCHANGED <<indexed, activity, history, started, line, resumes, queue, erasing, ghosts>>
  BY DEF resolveTurn
<1>2. ensured \in Rows /\ ensured.present
  BY DEF ensured, Rows, TypeOK
<1>3. TypeOK'
  BY <1>1, <1>2 DEF TypeOK, erasing, ghosts
<1>4. TaskInv' /\ OrderInv'
  BY <1>1 DEF TaskInv, OrderInv, Queued, InLine, Told
<1>5. EraseInv' /\ GoneInv' /\ FlagInv'
  BY <1>1 DEF EraseInv, GoneInv, FlagInv, erasing, ghosts
<1> QED BY <1>3, <1>4, <1>5

LEMMA InterruptStep == ASSUME LifeInv, Interrupt PROVE LifeInv'
<1> USE DEF LifeInv
<1>1. /\ line # <<>> /\ history' = "paused" /\ at' = "paused"
      /\ UNCHANGED <<row, indexed, activity, started, line, resumes, queue, erasing, ghosts>>
  BY DEF Interrupt
<1>2. TypeOK'
  BY <1>1 DEF TypeOK, erasing, ghosts
<1>3. TaskInv' /\ OrderInv'
  BY <1>1 DEF TaskInv, OrderInv, Queued, InLine, Told
<1>4. EraseInv' /\ GoneInv' /\ FlagInv'
  BY <1>1 DEF EraseInv, GoneInv, FlagInv, erasing, ghosts
<1> QED BY <1>2, <1>3, <1>4

LEMMA EndRunStep ==
  ASSUME LifeInv, NEW status \in Statuses, EndRun(status) PROVE LifeInv'
<1> USE DEF LifeInv
<1>1. /\ line # <<>> /\ line' = Tail(line) /\ at' = (IF Len(line) = 1 THEN "waiting" ELSE "resolving")
      /\ fence => UNCHANGED queue
      /\ ~fence => queueThreadMaintenance("end", Head(line), status)
      /\ status = "interrupted" => at = "paused" /\ UNCHANGED history
      /\ history' \in {history, "settled"}
      /\ UNCHANGED <<row, indexed, activity, started, resumes, erasing, ghosts>>
  BY DEF EndRun
<1>2. /\ line' \in Seq(1 .. started) /\ Len(line') = Len(line) - 1
      /\ \A i \in InLine' : i + 1 \in InLine /\ i + 1 # 1 /\ line'[i] = line[i + 1]
      /\ Head(line) = line[1] /\ 1 \in InLine /\ line[1] \in 1 .. MaxRuns /\ line[1] <= started
      /\ line' = <<>> => Len(line) = 1
  <2>1. line \in Seq(1 .. started) /\ Len(line) \in Nat
    BY SequenceFacts DEF TypeOK
  <2>2. /\ line' \in Seq(1 .. started) /\ Len(line') = Len(line) - 1
        /\ \A i \in 1 .. Len(line) - 1 : line'[i] = line[i + 1]
        /\ Head(line) = line[1]
    BY <1>1, <2>1, HeadTailProperties
  <2>3. 1 \in InLine /\ line[1] \in 1 .. started
    BY <1>1, SequenceFacts
  <2>4. line[1] \in 1 .. MaxRuns /\ line[1] <= started
    BY <2>3, SequenceFacts DEF TypeOK
  <2>5. \A i \in InLine' : i + 1 \in InLine /\ i + 1 # 1 /\ line'[i] = line[i + 1]
    BY <2>1, <2>2 DEF InLine
  <2>6. line' = <<>> => Len(line) = 1
    BY <2>1, <2>2, EmptySeq
  <2> QED BY <2>2, <2>3, <2>4, <2>5, <2>6
<1>3. ~gone /\ deletion # "clearing" /\ (fence => deletion = "draining")
  BY <1>1 DEF GoneInv, EraseInv
<1>4. history' \in {"none", "settled", "paused"} /\ at' \in {"waiting", "resolving"}
  BY <1>1 DEF TypeOK
<1>5. EraseInv' /\ GoneInv'
  BY <1>1, <1>2, <1>3 DEF EraseInv, GoneInv, erasing, ghosts
<1>6. CASE fence
  <2>1. UNCHANGED <<queue, fence>>
    BY <1>1, <1>6 DEF erasing
  <2>2. TypeOK'
    BY <1>1, <1>2, <1>4, <2>1 DEF TypeOK, erasing, ghosts
  <2>3. TaskInv'
    BY <2>1 DEF TaskInv, Queued
  <2>4. FlagInv'
    BY <1>1, <1>3, <1>6, <2>1 DEF FlagInv, erasing, ghosts
  <2>5. OrderInv'
    <3>1. UNCHANGED <<Queued, queue, Told, activity, started>>
      BY <1>1, <2>1 DEF Queued, Told
    <3>2. \A i, j \in InLine' : i < j => line'[i] < line'[j]
      BY <1>2 DEF OrderInv, InLine
    <3> QED BY <1>2, <3>1, <3>2 DEF OrderInv
  <2> QED BY <1>5, <2>2, <2>3, <2>4, <2>5
<1>7. CASE ~fence
  <2>1. PICK t \in Tasks :
          /\ t.kind = "end" /\ t.run = line[1] /\ t.status = status /\ t.at = "queued"
          /\ queue' \in Seq(Tasks) /\ Len(queue') = Len(queue) + 1
          /\ \A i \in Queued : queue'[i] = queue[i]
          /\ queue'[Len(queue) + 1] = t
          /\ Queued' = Queued \cup {Len(queue) + 1}
    BY <1>1, <1>2, <1>7, QueueFacts
  <2>2. TypeOK'
    <3>1. \A i \in 2 .. Len(queue') : queue'[i].at = "queued"
      <4>1. \A i \in 2 .. Len(queue') : i \in 2 .. Len(queue) \/ i = Len(queue) + 1
        BY <2>1, SequenceFacts
      <4>2. 2 .. Len(queue) \subseteq Queued
        BY SequenceFacts DEF Queued
      <4> QED BY <2>1, <4>1, <4>2 DEF TypeOK
    <3>2. behind' \in 0 .. Len(queue')
      BY <1>1, <2>1, SequenceFacts DEF TypeOK, erasing
    <3> QED BY <1>1, <1>2, <1>4, <2>1, <3>1, <3>2 DEF TypeOK, erasing, ghosts
  <2>3. TaskInv'
    BY <2>1 DEF TaskInv
  <2>4. FlagInv'
    <3>1. queue' # <<>> /\ last' = t
      BY <2>1, SequenceFacts, EmptySeq DEF last
    <3>2. at' # "paused"
      BY <1>4
    <3>3. ~stale' => ~stale /\ ~fence /\ (status = "interrupted" => history' = "paused")
      BY <1>1, <1>7 DEF FlagInv, ghosts
    <3> QED BY <1>1, <1>3, <2>1, <3>1, <3>2, <3>3 DEF FlagInv, erasing
  <2>5. OrderInv'
    <3>1. \A i \in Queued' : \/ i \in Queued /\ queue'[i] = queue[i]
                             \/ i = Len(queue) + 1 /\ queue'[i] = t
      BY <2>1
    <3>2. Len(queue) \in Nat /\ \A i \in Queued : i < Len(queue) + 1
      BY SequenceFacts DEF Queued
    <3>3. \A i, j \in Queued' : queue'[i].kind = "end" /\ queue'[j].kind = "end" /\ i < j
                                  => queue'[i].run < queue'[j].run
      BY <1>2, <2>1, <3>1, <3>2 DEF OrderInv, Queued
    <3>4. \A i \in Told, j \in Queued' : queue'[j].kind = "end" => activity[i] < queue'[j].run
      BY <1>2, <2>1, <3>1 DEF OrderInv
    <3>5. \A i \in Queued', j \in InLine' : queue'[i].kind = "end" => queue'[i].run < line'[j]
      <4>1. \A j \in InLine : j # 1 => line[1] < line[j]
        BY <1>2 DEF OrderInv, InLine
      <4> QED BY <1>2, <2>1, <3>1, <4>1 DEF OrderInv
    <3>6. \A i \in Queued' : queue'[i].kind = "end" => queue'[i].run <= started
      BY <1>2, <2>1, <3>1 DEF OrderInv
    <3>7. \A i, j \in InLine' : i < j => line'[i] < line'[j]
      BY <1>2 DEF OrderInv, InLine
    <3>8. \A i \in Told, j \in InLine' : activity[i] < line'[j]
      BY <1>2 DEF OrderInv
    <3> QED BY <1>1, <3>3, <3>4, <3>5, <3>6, <3>7, <3>8 DEF OrderInv, Told
  <2> QED BY <1>5, <2>2, <2>3, <2>4, <2>5
<1> QED BY <1>6, <1>7

-----------------------------------------------------------------------------
(* Tasks. *)

(* The task at work goes on to its next await. *)
LEMMA AdvanceStep ==
  ASSUME LifeInv, queue # <<>>, NEW t \in Tasks, queue' = [queue EXCEPT ![1] = t],
         t.kind = "end", queue[1].kind = "end", t.run = queue[1].run,
         t.status = queue[1].status, t.at # "queued",
         t.at \in {"ids", "paused"} <=> t.status = "interrupted",
         t.at = "update" => t.seen # "unread",
         row' \in Rows, ~row'.present => row' = NoRow, indexed' \in BOOLEAN,
         t.at = "paused" => row'.awaitingAction,
         ~stale /\ t.at = "update" /\ t.seen # "unreadable"
           => (t.seen = "paused" <=> history = "paused"),
         UNCHANGED <<activity, history, turn, erasing, ghosts>>
  PROVE  LifeInv'
<1> USE DEF LifeInv
<1>1. /\ queue' \in Seq(Tasks) /\ Len(queue') = Len(queue) /\ queue' # <<>>
      /\ queue'[1] = t
      /\ \A k \in Queued : k # 1 => queue'[k] = queue[k]
  BY AdvanceFacts
<1>2. Queued' = Queued /\ 1 \in Queued /\ Len(queue) \in Queued
  BY <1>1, SequenceFacts DEF Queued
<1>3. \A k \in Queued : queue'[k].kind = queue[k].kind /\ queue'[k].run = queue[k].run
                        /\ queue'[k].status = queue[k].status
  BY <1>1
<1>4. TypeOK'
  <2>1. \A k \in 2 .. Len(queue') : queue'[k].at = "queued"
    <3>1. \A k \in 2 .. Len(queue) : k \in Queued /\ k # 1
      BY SequenceFacts DEF Queued
    <3> QED BY <1>1, <3>1 DEF TypeOK
  <2> QED BY <1>1, <2>1 DEF TypeOK, turn, erasing, ghosts
<1>5. TaskInv'
  BY <1>1, <1>2 DEF TaskInv
<1>6. EraseInv'
  BY <1>1 DEF EraseInv, turn, erasing
<1>7. GoneInv'
  BY DEF GoneInv, ghosts
<1>8. OrderInv'
  BY <1>2, <1>3 DEF OrderInv, Told, InLine, turn
<1>9. FlagInv'
  <2>1. deletion # "clearing"
    BY DEF EraseInv, TypeOK
  <2>2. /\ last'.kind = last.kind /\ last'.status = last.status
        /\ \/ last' = t
           \/ last' = last /\ last.at = "queued"
    <3>1. CASE Len(queue) = 1
      BY <1>1, <3>1 DEF last
    <3>2. CASE Len(queue) # 1
      <4>1. Len(queue) \in 2 .. Len(queue)
        <5>1. Len(queue) \in Nat /\ Len(queue) # 0
          BY SequenceFacts, EmptySeq
        <5>2. \A n \in Nat : n # 0 /\ n # 1 => n \in 2 .. n
          OBVIOUS
        <5> QED BY <3>2, <5>1, <5>2
      <4>2. last' = last
        BY <1>1, <1>2, <3>2 DEF last
      <4> QED BY <4>1, <4>2 DEF last, TypeOK
    <3> QED BY <3>1, <3>2
  <2> QED BY <1>1, <2>1, <2>2 DEF FlagInv, turn, erasing, ghosts
<1> QED BY <1>4, <1>5, <1>6, <1>7, <1>8, <1>9

(* The task at work is over. *)
LEMMA FinishStep ==
  ASSUME LifeInv, NEW i, atWork(i), NEW failed \in BOOLEAN, finish(i, failed),
         row' \in Rows, ~row'.present => row' = NoRow, indexed' \in BOOLEAN,
         \/ UNCHANGED activity
         \/ queue[1].kind = "end" /\ appendActivity(queue[1].run),
         upsets' \in Nat, stale' \in BOOLEAN,
         ~stale' => ~stale \/ (Len(queue) = 1 /\ line = <<>>),
         ~stale' /\ ~fence /\ Len(queue) = 1 /\ line = <<>> /\ row'.present
           => (row'.awaitingAction <=> history = "paused"),
         UNCHANGED <<history, turn, gone>>
  PROVE  LifeInv'
<1> USE DEF LifeInv
<1>1. queue # <<>> /\ 1 \in Queued /\ Len(queue) \in Nat /\ Len(queue) # 0
  BY SequenceFacts DEF atWork, Queued
<1>2. /\ queue' \in Seq(Tasks) /\ Len(queue') = Len(queue) - 1
      /\ \A k \in Queued' : k + 1 \in Queued /\ k + 1 # 1 /\ queue'[k] = queue[k + 1]
      /\ queue' # <<>> => Len(queue) # 1
      /\ Len(queue) # 1 => queue' # <<>> /\ queue'[Len(queue')] = last /\ last.at = "queued"
      /\ UNCHANGED fence
      /\ behind = 0 => UNCHANGED <<deletion, behind>>
      /\ behind # 0 => behind' = behind - 1
                       /\ deletion' = IF behind = 1 /\ failed THEN "rejected" ELSE deletion
  BY FinishFacts
<1>3. ~gone /\ deletion \in {"none", "draining", "waiting"} /\ behind \in Nat
      /\ (behind # 0 => deletion = "waiting" /\ behind = Len(queue) /\ fence /\ line = <<>>)
      /\ (behind = 0 => ~fence \/ deletion = "draining")
  BY <1>1 DEF GoneInv, EraseInv, TypeOK
<1>4. activity' \in Seq(1 .. MaxRuns) /\ OrderInv'
  <2>1. \A k, l \in Queued' : queue'[k].kind = "end" /\ queue'[l].kind = "end" /\ k < l
                                => queue'[k].run < queue'[l].run
    <3> SUFFICES ASSUME NEW k \in Queued', NEW l \in Queued',
                        queue'[k].kind = "end", queue'[l].kind = "end", k < l
                 PROVE  queue'[k].run < queue'[l].run
      OBVIOUS
    <3>1. k + 1 < l + 1
      BY DEF Queued
    <3> QED BY <1>2, <3>1 DEF OrderInv
  <2>2. CASE UNCHANGED activity
    <3>1. UNCHANGED <<Told, activity, InLine, line, started>>
      BY <2>2 DEF Told, InLine, turn
    <3> QED BY <1>2, <2>1, <3>1 DEF OrderInv, TypeOK
  <2>3. CASE queue[1].kind = "end" /\ appendActivity(queue[1].run)
    <3> DEFINE r == queue[1].run
    <3>1. /\ r \in 1 .. MaxRuns /\ r <= started
          /\ \A k \in Told : activity[k] < r /\ activity[k] \in Nat
          /\ \A k \in Queued : queue[k].kind = "end" /\ k # 1 => r < queue[k].run
          /\ \A k \in InLine : r < line[k]
      <4>1. r \in 1 .. MaxRuns /\ \A k \in Told : activity[k] \in Nat
        BY <1>1, SequenceFacts DEF Tasks
      <4>2. \A k \in Queued : k # 1 => 1 < k
        BY DEF Queued
      <4> QED BY <1>1, <2>3, <4>1, <4>2 DEF OrderInv
    <3> HIDE DEF r
    <3>2. r \notin ToSet(activity)
      <4>1. \A k \in DOMAIN activity : activity[k] # r
        BY <3>1, LenProperties DEF Told, TypeOK
      <4> QED BY <4>1 DEF ToSet
    <3>3. activity' = Append(activity, r)
      BY <2>3, <3>2 DEF appendActivity, r
    <3>4. /\ activity' \in Seq(1 .. MaxRuns) /\ Len(activity') = Len(activity) + 1
          /\ \A k \in Told : activity'[k] = activity[k]
          /\ activity'[Len(activity) + 1] = r
      BY <3>1, <3>3, AppendProperties DEF TypeOK, Told
    <3>5. Told' = Told \cup {Len(activity) + 1} /\ \A k \in Told : k < Len(activity) + 1
      BY <3>4, SequenceFacts DEF Told
    <3>6. \A k \in Told' : \/ k \in Told /\ activity'[k] = activity[k]
                           \/ k = Len(activity) + 1 /\ activity'[k] = r
      BY <3>4, <3>5
    <3>7. \A k, l \in Told' : k < l => activity'[k] < activity'[l]
      <4>1. Len(activity) \in Nat /\ Told \subseteq Nat
        BY SequenceFacts DEF Told
      <4> QED BY <3>1, <3>5, <3>6, <4>1 DEF OrderInv
    <3>8. \A k \in Told', l \in Queued' : queue'[l].kind = "end" => activity'[k] < queue'[l].run
      BY <1>2, <3>1, <3>6 DEF OrderInv
    <3>9. UNCHANGED <<InLine, line, started>>
      BY DEF InLine, turn
    <3>10. \A k \in Told', l \in InLine : activity'[k] < line[l]
      BY <3>1, <3>6 DEF OrderInv
    <3>11. \A k \in Told' : activity'[k] <= started
      BY <3>1, <3>6 DEF OrderInv
    <3> QED BY <1>2, <2>1, <3>4, <3>7, <3>8, <3>9, <3>10, <3>11 DEF OrderInv
  <2> QED BY <2>2, <2>3
<1>5. TypeOK'
  <2>1. \A k \in 2 .. Len(queue') : queue'[k].at = "queued"
    <3>1. \A k \in 2 .. Len(queue') : k \in Queued' /\ k + 1 \in 2 .. Len(queue)
      BY <1>1, <1>2 DEF Queued
    <3> QED BY <1>2, <3>1 DEF TypeOK
  <2>2. behind' \in 0 .. Len(queue') /\ fence' \in BOOLEAN
        /\ deletion' \in {"none", "draining", "waiting", "rejected", "clearing"}
    BY <1>1, <1>2, <1>3 DEF TypeOK
  <2> QED BY <1>2, <1>4, <2>1, <2>2 DEF TypeOK, turn
<1>6. TaskInv'
  BY <1>2 DEF TaskInv
<1>7. EraseInv'
  BY <1>1, <1>2, <1>3 DEF EraseInv, turn
<1>8. GoneInv'
  BY <1>3 DEF GoneInv
<1>9. FlagInv'
  <2>1. deletion' # "clearing"
    BY <1>2, <1>3
  <2>2. ~stale' /\ ~fence /\ at = "paused" => history = "paused"
    BY DEF FlagInv, EraseInv
  <2>3. ~stale' /\ ~fence /\ line = <<>> /\ queue' # <<>> =>
          last' = last /\ last.at = "queued" /\ ~stale
    BY <1>2 DEF last
  <2>4. queue' = <<>> => Len(queue) = 1
    BY <1>2
  <2> QED BY <1>1, <1>2, <2>1, <2>2, <2>3, <2>4 DEF FlagInv, turn
<1> QED BY <1>4, <1>5, <1>6, <1>7, <1>8, <1>9

LEMMA ClearAwaitingActionStep ==
  ASSUME LifeInv, NEW i \in Queued, ClearAwaitingAction(i) PROVE LifeInv'
<1> USE DEF LifeInv
<1>1. /\ atWork(i) /\ i = 1 /\ queue # <<>> /\ queue[1].kind = "clear"
      /\ row' = (IF row.present THEN [row EXCEPT !.awaitingAction = FALSE] ELSE row)
      /\ finish(i, FALSE)
      /\ UNCHANGED <<indexed, activity, history, turn, upsets, gone, stale>>
  BY DEF ClearAwaitingAction, atWork
<1>2. row' \in Rows /\ (~row'.present => row' = NoRow)
  BY <1>1 DEF Rows, TypeOK
<1>3. indexed' \in BOOLEAN /\ upsets' \in Nat /\ stale' \in BOOLEAN
  BY <1>1 DEF TypeOK
<1>4. ~(~stale /\ ~fence /\ Len(queue) = 1 /\ line = <<>>)
  BY <1>1 DEF FlagInv, last
<1> QED BY <1>1, <1>2, <1>3, <1>4, FinishStep

LEMMA TaskBeginsStep == ASSUME LifeInv, NEW i \in Queued, TaskBegins(i) PROVE LifeInv'
<1> USE DEF LifeInv
<1>1. /\ i = 1 /\ queue # <<>> /\ queue[1].kind = "end" /\ queue[1] \in Tasks
      /\ UNCHANGED <<indexed, activity, history, turn, erasing, ghosts>>
  BY SequenceFacts DEF TaskBegins, atWork
<1>2. ensured \in Rows /\ ensured.present
  BY DEF ensured, Rows, TypeOK
<1> DEFINE where == IF queue[1].status = "interrupted" THEN "ids" ELSE "messages"
           t == [queue[1] EXCEPT !.at = where]
<1>3. /\ queue' = [queue EXCEPT ![1] = t]
      /\ row' \in Rows /\ (~row'.present => row' = NoRow)
  BY <1>1, <1>2 DEF TaskBegins, advance, TypeOK
<1>4. /\ t \in Tasks /\ t.kind = "end" /\ t.run = queue[1].run /\ t.status = queue[1].status
      /\ t.at = where
  <2>1. where \in {"ids", "messages"}
    OBVIOUS
  <2> HIDE DEF where
  <2> QED BY <1>1, <2>1 DEF Tasks
<1> HIDE DEF t
<1>5. indexed' \in BOOLEAN
  BY <1>1 DEF TypeOK
<1>6. /\ t.at \in {"ids", "messages"}
      /\ t.at \in {"ids", "paused"} <=> t.status = "interrupted"
  BY <1>4
<1>7. t.at # "queued" /\ t.at # "paused" /\ t.at # "update"
  BY <1>6
<1> QED BY <1>1, <1>3, <1>4, <1>5, <1>6, <1>7, AdvanceStep

LEMMA InterruptIdsReadStep ==
  ASSUME LifeInv, NEW i \in Queued, InterruptIdsRead(i) PROVE LifeInv'
<1> USE DEF LifeInv
<1> DEFINE t == [queue[1] EXCEPT !.at = "paused"]
<1>1. /\ i = 1 /\ queue # <<>> /\ 1 \in Queued /\ queue[1].at = "ids" /\ queue[1] \in Tasks
      /\ row' = [present |-> TRUE, unread |-> TRUE, awaitingAction |-> TRUE]
      /\ queue' = [queue EXCEPT ![1] = t]
      /\ UNCHANGED <<indexed, activity, history, turn, erasing, ghosts>>
  BY SequenceFacts DEF InterruptIdsRead, atWork, advance
<1>2. queue[1].kind = "end" /\ queue[1].status = "interrupted"
  BY <1>1 DEF TaskInv
<1>3. /\ t \in Tasks /\ t.kind = "end" /\ t.run = queue[1].run /\ t.status = queue[1].status
      /\ t.at = "paused"
  BY <1>1, <1>2 DEF Tasks
<1> HIDE DEF t
<1>4. row' \in Rows /\ row'.present /\ row'.awaitingAction /\ indexed' \in BOOLEAN
  BY <1>1 DEF Rows, TypeOK
<1>5. t.at # "queued" /\ t.at # "update" /\ t.status = "interrupted" /\ t.at \in {"ids", "paused"}
  BY <1>2, <1>3
<1> QED BY <1>1, <1>2, <1>3, <1>4, <1>5, AdvanceStep

LEMMA MessagesIndexedStep ==
  ASSUME LifeInv, NEW i \in Queued, MessagesIndexed(i) PROVE LifeInv'
<1> USE DEF LifeInv
<1> DEFINE t == [queue[1] EXCEPT !.at = "state"]
<1>1. /\ i = 1 /\ queue # <<>> /\ 1 \in Queued /\ queue[1].at = "messages" /\ queue[1] \in Tasks
      /\ indexed' \in {TRUE, indexed}
      /\ queue' = [queue EXCEPT ![1] = t]
      /\ UNCHANGED <<row, activity, history, turn, erasing, ghosts>>
  BY SequenceFacts DEF MessagesIndexed, atWork, advance
<1>2. queue[1].kind = "end" /\ queue[1].status # "interrupted"
  BY <1>1 DEF TaskInv
<1>3. /\ t \in Tasks /\ t.kind = "end" /\ t.run = queue[1].run /\ t.status = queue[1].status
      /\ t.at = "state"
  BY <1>1, <1>2 DEF Tasks
<1> HIDE DEF t
<1>4. row' \in Rows /\ (~row'.present => row' = NoRow) /\ indexed' \in BOOLEAN
  BY <1>1 DEF TypeOK
<1>5. /\ t.at # "queued" /\ t.at # "update" /\ t.at # "paused" /\ t.status # "interrupted"
      /\ t.at \notin {"ids", "paused"}
  BY <1>2, <1>3
<1> QED BY <1>1, <1>2, <1>3, <1>4, <1>5, AdvanceStep

LEMMA StateReadStep == ASSUME LifeInv, NEW i \in Queued, StateRead(i) PROVE LifeInv'
<1> USE DEF LifeInv
<1>1. /\ i = 1 /\ queue # <<>> /\ 1 \in Queued /\ queue[1].at = "state" /\ queue[1] \in Tasks
      /\ UNCHANGED <<durable, turn, erasing, ghosts>>
  BY SequenceFacts DEF StateRead, atWork
<1>2. PICK seen \in {IF history = "paused" THEN "paused" ELSE "settled"} \cup
                    (Events \cap {"unreadable"}) :
        queue' = [queue EXCEPT ![i].at = "update", ![i].seen = seen]
  BY DEF StateRead
<1>3. /\ seen \in {"paused", "settled", "unreadable"}
      /\ seen # "unreadable" => (seen = "paused" <=> history = "paused")
  OBVIOUS
<1> DEFINE t == [queue[1] EXCEPT !.at = "update", !.seen = seen]
<1>4. queue' = [queue EXCEPT ![1] = t]
  BY <1>1, <1>2 DEF TypeOK
<1>5. queue[1].kind = "end" /\ queue[1].status # "interrupted"
  BY <1>1 DEF TaskInv
<1>6. /\ t \in Tasks /\ t.kind = "end" /\ t.run = queue[1].run /\ t.status = queue[1].status
      /\ t.at = "update" /\ t.seen = seen
  BY <1>1, <1>3, <1>5 DEF Tasks, Seen
<1> HIDE DEF t
<1>7. /\ row' \in Rows /\ (~row'.present => row' = NoRow) /\ indexed' \in BOOLEAN
      /\ UNCHANGED <<activity, history>>
  BY <1>1 DEF TypeOK, durable
<1>8. /\ t.at # "queued" /\ t.at # "paused" /\ t.status # "interrupted"
      /\ t.at \notin {"ids", "paused"} /\ t.seen # "unread"
      /\ t.seen # "unreadable" => (t.seen = "paused" <=> history = "paused")
  BY <1>3, <1>5, <1>6
<1> QED BY <1>1, <1>4, <1>5, <1>6, <1>7, <1>8, AdvanceStep

LEMMA InterruptIndexedStep ==
  ASSUME LifeInv, NEW i \in Queued, InterruptIndexed(i) PROVE LifeInv'
<1> USE DEF LifeInv
<1>1. /\ atWork(i) /\ i = 1 /\ queue # <<>> /\ 1 \in Queued /\ queue[1].at = "paused"
      /\ indexed' \in {TRUE, indexed} /\ appendActivity(queue[1].run) /\ finish(i, FALSE)
      /\ UNCHANGED <<row, history, turn, upsets, gone, stale>>
  BY DEF InterruptIndexed, atWork
<1>2. queue[1].kind = "end" /\ queue[1].status = "interrupted"
  BY <1>1 DEF TaskInv
<1>3. /\ row' \in Rows /\ (~row'.present => row' = NoRow) /\ indexed' \in BOOLEAN
      /\ upsets' \in Nat /\ stale' \in BOOLEAN
  BY <1>1 DEF TypeOK
<1>4. ~stale' /\ ~fence /\ Len(queue) = 1 /\ line = <<>>
        => (row'.awaitingAction <=> history = "paused")
  BY <1>1, <1>2 DEF FlagInv, last
<1>5. ~stale' => ~stale
  BY <1>1
<1> QED BY <1>1, <1>2, <1>3, <1>4, <1>5, FinishStep

LEMMA RunRecordedStep == ASSUME LifeInv, NEW i \in Queued, RunRecorded(i) PROVE LifeInv'
<1> USE DEF LifeInv
<1> DEFINE t == queue[1]
           missed == \/ t.seen = "unreadable"
                     \/ stale /\ ~((t.seen = "paused") = (history = "paused")
                                   /\ Len(queue) = 1 /\ line = <<>>)
           seen == IF row.present
                   THEN [row EXCEPT !.awaitingAction = awaits(t),
                                    !.unread = @ \/ t.status \in {"success", "error"}]
                   ELSE row
<1>1. /\ atWork(i) /\ i = 1 /\ queue # <<>> /\ 1 \in Queued /\ t.at = "update"
      /\ row' = seen /\ stale' = missed /\ appendActivity(t.run) /\ finish(i, FALSE)
      /\ UNCHANGED <<indexed, history, turn, upsets, gone>>
  BY DEF RunRecorded, atWork
<1>2. t.kind = "end" /\ t.seen # "unread"
  BY <1>1 DEF TaskInv
<1>3. awaits(t) \in BOOLEAN /\ missed \in BOOLEAN
  BY DEF awaits
<1>4. row' \in Rows /\ (~row'.present => row' = NoRow)
  BY <1>1, <1>3 DEF Rows, TypeOK
<1>5. row'.present => row'.awaitingAction = awaits(t)
  BY <1>1 DEF Rows, TypeOK
<1>6. indexed' \in BOOLEAN /\ upsets' \in Nat /\ stale' \in BOOLEAN
  BY <1>1, <1>3 DEF TypeOK
<1>7. ~stale' => t.seen # "unreadable" /\ (~stale \/ (Len(queue) = 1 /\ line = <<>>
                                             /\ ((t.seen = "paused") = (history = "paused"))))
  BY <1>1
<1>8. ~stale' /\ ~fence /\ Len(queue) = 1 /\ line = <<>> => (t.seen = "paused" <=> history = "paused")
  BY <1>1, <1>7 DEF FlagInv, last
<1>9. t.seen # "unreadable" => (awaits(t) <=> t.seen = "paused")
  BY DEF awaits
<1> HIDE DEF t, missed, seen
<1>10. ~stale' /\ ~fence /\ Len(queue) = 1 /\ line = <<>> /\ row'.present
         => (row'.awaitingAction <=> history = "paused")
  BY <1>5, <1>7, <1>8, <1>9
<1>11. queue[1].kind = "end" /\ appendActivity(queue[1].run)
  BY <1>1, <1>2 DEF t
<1> QED BY <1>1, <1>4, <1>6, <1>7, <1>10, <1>11, FinishStep

LEMMA TaskFailsStep == ASSUME LifeInv, NEW i \in Queued, TaskFails(i) PROVE LifeInv'
<1> USE DEF LifeInv
<1>1. /\ atWork(i) /\ finish(i, TRUE) /\ upsets' = upsets + 1
      /\ \/ UNCHANGED activity
         \/ queue[1].kind = "end" /\ appendActivity(queue[1].run)
      /\ stale' = TRUE
      /\ UNCHANGED <<row, indexed, history, turn, gone>>
  BY DEF TaskFails, atWork, upset
<1>2. /\ row' \in Rows /\ (~row'.present => row' = NoRow) /\ indexed' \in BOOLEAN
      /\ upsets' \in Nat /\ stale' \in BOOLEAN
  BY <1>1 DEF TypeOK
<1> QED BY <1>1, <1>2, FinishStep

-----------------------------------------------------------------------------
(* Deletion, client writes and crashes. *)

(* A step of the deletion leaves the runs and the tasks alone.              *)
LEMMA EraseKeeps ==
  ASSUME LifeInv, UNCHANGED <<turn, queue>>, activity' \in {activity, <<>>}
  PROVE  TaskInv' /\ OrderInv' /\ activity' \in Seq(1 .. MaxRuns)
<1>1. TaskInv'
  BY DEF LifeInv, TaskInv, Queued
<1>2. activity' \in Seq(1 .. MaxRuns)
  BY EmptySeq DEF LifeInv, TypeOK
<1>3. OrderInv'
  <2>1. UNCHANGED <<Queued, queue, InLine, line, started>>
    BY DEF Queued, InLine, turn
  <2>2. \/ UNCHANGED <<Told, activity>>
        \/ Told' = {}
    BY EmptySeq DEF Told
  <2> QED BY <2>1, <2>2 DEF LifeInv, OrderInv
<1> QED BY <1>1, <1>2, <1>3

LEMMA DeleteThreadStep == ASSUME LifeInv, deleteThread PROVE LifeInv'
<1> USE DEF LifeInv
<1>1. /\ deletion = "none" /\ fence' = TRUE /\ upsets' = upsets + 1
      /\ fence => deletion' = "waiting" /\ behind' = Len(queue)
      /\ ~fence => deletion' = "draining" /\ behind' = 0
      /\ UNCHANGED <<durable, turn, queue, gone, stale>>
  BY DEF deleteThread, upset
<1>2. Len(queue) \in Nat
  BY SequenceFacts
<1>3. TypeOK'
  BY <1>1, <1>2 DEF TypeOK, durable, turn
<1>4. EraseInv'
  BY <1>1, <1>2 DEF EraseInv, durable, turn
<1>5. GoneInv' /\ FlagInv'
  BY <1>1 DEF GoneInv, FlagInv, durable, turn
<1> QED BY <1>1, <1>3, <1>4, <1>5, EraseKeeps DEF durable

LEMMA RunsDrainedStep == ASSUME LifeInv, runsDrained PROVE LifeInv'
<1> USE DEF LifeInv
<1>1. /\ deletion = "draining" /\ line = <<>> /\ deletion' = "waiting" /\ behind' = Len(queue)
      /\ UNCHANGED <<durable, turn, queue, fence, ghosts>>
  BY DEF runsDrained
<1>2. Len(queue) \in Nat /\ fence
  BY <1>1, SequenceFacts DEF EraseInv
<1>3. TypeOK'
  BY <1>1, <1>2 DEF TypeOK, durable, turn, ghosts
<1>4. EraseInv'
  BY <1>1, <1>2 DEF EraseInv, turn
<1>5. GoneInv' /\ FlagInv'
  BY <1>1, <1>2 DEF GoneInv, FlagInv, durable, turn, ghosts
<1> QED BY <1>1, <1>3, <1>4, <1>5, EraseKeeps DEF durable

(* A deletion that ends with an error, whatever it has removed by then. *)
LEMMA RejectStep ==
  ASSUME LifeInv, deletion \in {"rejected", "waiting", "clearing"}, behind = 0,
         reject, UNCHANGED <<history, turn, queue, behind, gone, stale>>, upsets' \in Nat,
         activity' \in {activity, <<>>}, row' \in {row, NoRow}, indexed' = indexed
  PROVE  LifeInv'
<1> USE DEF LifeInv
<1>1. deletion' = "none" /\ UNCHANGED fence /\ fence
  BY DEF reject, EraseInv
<1>2. row' \in Rows /\ (~row'.present => row' = NoRow) /\ ~NoRow.present
  <2>1. NoRow \in Rows /\ ~NoRow.present
    BY DEF Rows, NoRow
  <2>2. CASE row' = row
    BY <2>1, <2>2 DEF TypeOK
  <2>3. CASE row' = NoRow
    BY <2>1, <2>3
  <2> QED BY <2>1, <2>2, <2>3
<1>3. TypeOK'
  BY <1>1, <1>2, EraseKeeps DEF TypeOK, turn
<1>4. EraseInv' /\ GoneInv' /\ FlagInv'
  BY <1>1, <1>2 DEF EraseInv, GoneInv, FlagInv, turn
<1> QED BY <1>3, <1>4, EraseKeeps

LEMMA MaintenanceFailedStep == ASSUME LifeInv, MaintenanceFailed PROVE LifeInv'
<1>1. /\ deletion = "rejected" /\ reject
      /\ UNCHANGED <<row, indexed, activity, history, turn, queue, behind, upsets, gone, stale>>
  BY DEF MaintenanceFailed, durable, ghosts
<1>2. behind = 0 /\ upsets' \in Nat
  BY <1>1 DEF LifeInv, EraseInv, TypeOK
<1> QED BY <1>1, <1>2, RejectStep

LEMMA DeleteRowsFailsStep == ASSUME LifeInv, DeleteRowsFails PROVE LifeInv'
<1>1. /\ deletion = "waiting" /\ behind = 0 /\ reject /\ upsets' = upsets + 1
      /\ activity' \in {activity, <<>>} /\ row' \in {row, NoRow} /\ indexed' = indexed
      /\ UNCHANGED <<history, turn, queue, behind, gone, stale>>
  BY DEF DeleteRowsFails, upset
<1>2. upsets' \in Nat
  BY <1>1 DEF LifeInv, TypeOK
<1> QED BY <1>1, <1>2, RejectStep

LEMMA DeleteHistoryFailsStep == ASSUME LifeInv, DeleteHistoryFails PROVE LifeInv'
<1>1. /\ deletion = "clearing" /\ reject /\ upsets' = upsets + 1
      /\ UNCHANGED <<row, indexed, activity, history, turn, queue, behind, gone, stale>>
  BY DEF DeleteHistoryFails, upset, durable
<1>2. upsets' \in Nat /\ behind = 0
  BY <1>1 DEF LifeInv, EraseInv, TypeOK
<1> QED BY <1>1, <1>2, RejectStep

LEMMA DeleteRowsStep == ASSUME LifeInv, DeleteRows PROVE LifeInv'
<1> USE DEF LifeInv
<1>1. /\ deletion = "waiting" /\ behind = 0 /\ deletion' = "clearing" /\ gone' = TRUE
      /\ activity' = <<>> /\ row' = NoRow /\ indexed' = FALSE
      /\ UNCHANGED <<history, turn, queue, behind, fence, upsets, stale>>
  BY DEF DeleteRows, removed
<1>2. fence /\ line = <<>> /\ queue = <<>>
  BY <1>1, SequenceFacts, EmptySeq DEF EraseInv, TypeOK
<1>3. NoRow \in Rows /\ ~NoRow.present
  BY DEF NoRow, Rows
<1>4. TypeOK'
  BY <1>1, <1>3, EraseKeeps DEF TypeOK, turn
<1>5. EraseInv' /\ GoneInv' /\ FlagInv'
  BY <1>1, <1>2, <1>3 DEF EraseInv, GoneInv, FlagInv, turn
<1> QED BY <1>1, <1>4, <1>5, EraseKeeps

LEMMA DeleteHistoryStep == ASSUME LifeInv, DeleteHistory PROVE LifeInv'
<1> USE DEF LifeInv
<1>1. /\ deletion = "clearing" /\ history' = "none" /\ deletion' = "none" /\ fence' = FALSE
      /\ UNCHANGED <<row, indexed, activity, turn, queue, behind, ghosts>>
  BY DEF DeleteHistory
<1>2. line = <<>> /\ queue = <<>> /\ at = "waiting" /\ (~stale => ~row.present)
  BY <1>1, SequenceFacts, EmptySeq DEF EraseInv, FlagInv, TypeOK
<1>3. TypeOK'
  BY <1>1 DEF TypeOK, turn, ghosts
<1>4. EraseInv' /\ GoneInv' /\ FlagInv'
  BY <1>1, <1>2 DEF EraseInv, GoneInv, FlagInv, turn, ghosts
<1> QED BY <1>1, <1>3, <1>4, EraseKeeps

LEMMA ClientWritesStep == ASSUME LifeInv, ClientWrites PROVE LifeInv'
<1> USE DEF LifeInv
<1>1. /\ row' \in {row, ensured} /\ history' \in {history, "settled", "paused"}
      /\ gone' = FALSE /\ stale' = TRUE /\ upsets' = upsets + 1
      /\ UNCHANGED <<indexed, activity, turn, queue, erasing>>
  BY DEF ClientWrites, upset
<1>2. ensured \in Rows /\ ensured.present
  BY DEF ensured, Rows, TypeOK
<1>3. row' \in Rows /\ (~row'.present => row' = NoRow)
  <2>1. CASE row' = row
    BY <2>1 DEF TypeOK
  <2>2. CASE row' = ensured
    BY <1>2, <2>2
  <2> QED BY <1>1, <2>1, <2>2
<1>4. TypeOK'
  <2>1. history' \in {"none", "settled", "paused"} /\ upsets' \in Nat
    BY <1>1 DEF TypeOK
  <2>2. gone' \in BOOLEAN /\ stale' \in BOOLEAN
    BY <1>1
  <2> QED BY <1>1, <1>3, <2>1, <2>2 DEF TypeOK, turn, erasing
<1>5. EraseInv' /\ GoneInv' /\ FlagInv'
  BY <1>1 DEF EraseInv, GoneInv, FlagInv, turn, erasing
<1> QED BY <1>1, <1>4, <1>5, EraseKeeps

LEMMA CrashStep == ASSUME LifeInv, Crash PROVE LifeInv'
<1> USE DEF LifeInv
<1>1. /\ line' = <<>> /\ at' = "waiting" /\ queue' = <<>> /\ deletion' = "none" /\ behind' = 0
      /\ fence' = FALSE /\ history' \in {history, "settled", "paused"}
      /\ at # "running" => UNCHANGED history
      /\ gone' = (gone /\ ~fence) /\ stale' = TRUE /\ upsets' = upsets + 1
      /\ UNCHANGED <<row, indexed, activity, started, resumes>>
  BY DEF Crash, upset
<1>2. Len(queue') = 0 /\ Queued' = {} /\ InLine' = {} /\ \A S : <<>> \in Seq(S)
  BY <1>1, EmptySeq DEF Queued, InLine
<1>3. TypeOK'
  <2>1. line' \in Seq(1 .. started') /\ queue' \in Seq(Tasks) /\ behind' \in 0 .. Len(queue')
        /\ \A i \in 2 .. Len(queue') : queue'[i].at = "queued"
    BY <1>1, <1>2
  <2>2. gone' \in BOOLEAN /\ upsets' \in Nat
    BY <1>1 DEF TypeOK
  <2> QED BY <1>1, <2>1, <2>2 DEF TypeOK
<1>4. TaskInv' /\ EraseInv' /\ FlagInv'
  BY <1>1, <1>2 DEF TaskInv, EraseInv, FlagInv
<1>5. GoneInv'
  BY <1>1 DEF GoneInv, EraseInv
<1>6. OrderInv'
  BY <1>1, <1>2 DEF OrderInv, Told
<1> QED BY <1>3, <1>4, <1>5, <1>6

LEMMA NextStep == ASSUME LifeInv, [Next]_vars PROVE LifeInv'
<1>1. CASE UNCHANGED vars
  BY <1>1, StutterStep
<1>2. CASE Start \/ Respond \/ resolveTurn \/ Interrupt
  BY <1>2, StartStep, RespondStep, ResolveTurnStep, InterruptStep
<1>3. ASSUME NEW status \in Statuses, EndRun(status) PROVE LifeInv'
  BY <1>3, EndRunStep
<1>4. ASSUME NEW i \in Queued,
             \/ ClearAwaitingAction(i) \/ TaskBegins(i) \/ InterruptIdsRead(i)
             \/ InterruptIndexed(i) \/ MessagesIndexed(i) \/ StateRead(i) \/ RunRecorded(i)
             \/ TaskFails(i)
      PROVE  LifeInv'
  BY <1>4, ClearAwaitingActionStep, TaskBeginsStep, InterruptIdsReadStep, InterruptIndexedStep,
     MessagesIndexedStep, StateReadStep, RunRecordedStep, TaskFailsStep
<1>5. CASE deleteThread \/ runsDrained \/ MaintenanceFailed
  BY <1>5, DeleteThreadStep, RunsDrainedStep, MaintenanceFailedStep
<1>6. CASE DeleteRows \/ DeleteRowsFails \/ DeleteHistory \/ DeleteHistoryFails
  BY <1>6, DeleteRowsStep, DeleteRowsFailsStep, DeleteHistoryStep, DeleteHistoryFailsStep
<1>7. CASE ClientWrites \/ Crash
  BY <1>7, ClientWritesStep, CrashStep
<1> QED BY <1>1, <1>2, <1>3, <1>4, <1>5, <1>6, <1>7 DEF Next, Queued

-----------------------------------------------------------------------------
(* The theorems. *)

(* What runs, tasks, a deletion and the rows of a thread know of each other *)
(* holds in every state, whatever fails, crashes or is written meanwhile.   *)
THEOREM LifeInvariant == Spec => []LifeInv
BY InitInv, NextStep, PTL DEF Spec

(* deleteThread: nothing that was under way brings a deleted thread back,   *)
(* and no new run on its id sees the old history.                           *)
THEOREM DeletedStaysDeletedHolds == Spec => []DeletedStaysDeleted
<1>1. LifeInv => DeletedStaysDeleted
  BY DEF LifeInv, GoneInv, DeletedStaysDeleted
<1> QED BY <1>1, LifeInvariant, PTL

(* run-maintenance: once a thread is at rest its row says whether it waits  *)
(* for an action, and its activity follows the order of its runs.           *)
THEOREM MaintenanceKeepsUpHolds == Spec => []MaintenanceKeepsUp
<1>1. LifeInv => MaintenanceKeepsUp
  <2>1. LifeInv => TypeOK
    BY DEF LifeInv
  <2>2. LifeInv => ActionIsShown
    BY DEF LifeInv, FlagInv, ActionIsShown
  <2>3. LifeInv => ActivityInOrder
    BY DEF LifeInv, OrderInv, Told, ActivityInOrder
  <2> QED BY <2>1, <2>2, <2>3 DEF MaintenanceKeepsUp
<1> QED BY <1>1, LifeInvariant, PTL

=============================================================================
