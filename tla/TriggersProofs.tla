--------------------------- MODULE TriggersProofs ---------------------------
(***************************************************************************)
(* Proofs about Triggers, for every set of triggers, every attempt budget, *)
(* whatever events happen and however many of them.                        *)
(***************************************************************************)
EXTENDS Triggers, TLAPS, SequenceTheorems, FiniteSetTheorems

Rows == 1 .. Len(occurrences)

-----------------------------------------------------------------------------
(* What the transactions of the store do to its rows. *)

(* A new row is the last one, and the others stay.                          *)
LEMMA InsertFacts ==
  ASSUME TypeOK, NEW t \in Triggers, NEW reason \in Reasons, NEW slot \in Nat,
         insert(t, reason, slot)
  PROVE  /\ occurrences' \in Seq(Occurrence)
         /\ Len(occurrences) \in Nat
         /\ Len(occurrences') = Len(occurrences) + 1
         /\ \A o \in Rows : occurrences'[o] = occurrences[o]
         /\ occurrences'[Len(occurrences) + 1] =
              [trigger |-> t, reason |-> reason, slot |-> slot, status |-> "pending",
               attempt |-> 0, run |-> NoRun]
<1> DEFINE row == [trigger |-> t, reason |-> reason, slot |-> slot, status |-> "pending",
                   attempt |-> 0, run |-> NoRun]
<1>1. row \in Occurrence
  BY MaxAttemptsAssumption DEF Occurrence, Statuses, NoRun
<1>2. occurrences \in Seq(Occurrence) /\ Len(occurrences) \in Nat
  BY LenProperties DEF TypeOK
<1>3. occurrences' = Append(occurrences, row)
  BY DEF insert
<1> HIDE DEF row
<1>4. /\ occurrences' \in Seq(Occurrence)
      /\ Len(occurrences') = Len(occurrences) + 1
      /\ \A o \in Rows : occurrences'[o] = occurrences[o]
      /\ occurrences'[Len(occurrences) + 1] = row
  BY <1>1, <1>2, <1>3, AppendProperties DEF Rows
<1> QED BY <1>2, <1>4 DEF row

(* A row is replaced, and the others stay. *)
LEMMA UpdateFacts ==
  ASSUME TypeOK, NEW o \in Rows, NEW row \in Occurrence,
         occurrences' = [occurrences EXCEPT ![o] = row]
  PROVE  /\ occurrences' \in Seq(Occurrence)
         /\ Len(occurrences') = Len(occurrences)
         /\ occurrences'[o] = row
         /\ \A p \in Rows \ {o} : occurrences'[p] = occurrences[p]
BY ExceptSeq DEF TypeOK, Rows

LEMMA SetStatusFacts ==
  ASSUME TypeOK, NEW o \in Rows, NEW status \in Statuses, setStatus(o, status)
  PROVE  /\ occurrences' \in Seq(Occurrence)
         /\ Len(occurrences') = Len(occurrences)
         /\ occurrences'[o] = [occurrences[o] EXCEPT !.status = status]
         /\ \A p \in Rows \ {o} : occurrences'[p] = occurrences[p]
<1>1. occurrences[o] \in Occurrence
  BY ElementOfSeq DEF TypeOK, Rows
<1>2. [occurrences[o] EXCEPT !.status = status] \in Occurrence
  BY <1>1 DEF Occurrence
<1>3. occurrences' = [occurrences EXCEPT ![o] = [occurrences[o] EXCEPT !.status = status]]
  BY DEF setStatus
<1> QED BY <1>2, <1>3, UpdateFacts

(* A slot is launched by the row it has, or by a new one.                   *)
LEMMA ScheduleFacts ==
  ASSUME TypeOK, NEW t \in CronTriggers, NEW slot \in Nat, NEW checks \in SUBSET CronTriggers,
         schedule(t, slot, checks)
  PROVE  /\ \/ UNCHANGED occurrences
            \/ insert(t, "cron", slot) /\ findScheduledOccurrence(t, slot) = {}
         /\ handler' \in Handler
         /\ handler'.at = "begin" /\ handler'.orphans = {} /\ handler'.checks = checks
         /\ handler'.occ \in 1 .. Len(occurrences')
<1>1. Len(occurrences) \in Nat
  BY LenProperties DEF TypeOK
<1>2. CASE findScheduledOccurrence(t, slot) = {}
  <2>1. insert(t, "cron", slot)
    BY <1>2 DEF schedule
  <2>2. Len(occurrences') = Len(occurrences) + 1
    BY <2>1, InsertFacts DEF Triggers, Reasons
  <2>3. handler' = [at |-> "begin", occ |-> Len(occurrences) + 1, orphans |-> {},
                    checks |-> checks]
    BY <1>2 DEF schedule, launch
  <2> QED BY <1>1, <1>2, <2>1, <2>2, <2>3 DEF Handler
<1>3. CASE findScheduledOccurrence(t, slot) # {}
  <2> DEFINE o == CHOOSE o \in findScheduledOccurrence(t, slot) : TRUE
  <2>1. o \in Rows
    BY <1>3 DEF findScheduledOccurrence, Rows
  <2>2. UNCHANGED occurrences
    BY <1>3 DEF schedule
  <2>3. handler' = [at |-> "begin", occ |-> o, orphans |-> {}, checks |-> checks]
    BY <1>3 DEF schedule, launch
  <2> HIDE DEF o
  <2> QED BY <1>1, <2>1, <2>2, <2>3 DEF Handler, Rows
<1> QED BY <1>2, <1>3

-----------------------------------------------------------------------------
(* The inductive invariant. *)

(* The handler works on rows of the store; while it launches one, automations *)
(* are on and the row is open.                                                *)
HandlerInv ==
  /\ handler.orphans \subseteq Rows
  /\ handler.at \in {"begin", "attach", "start"} => handler.occ \in Rows
  /\ handler.at \in {"attach", "start"} => occurrences[handler.occ].status = "running"
  /\ handler.at = "attach" => automations
  /\ handler.at = "start" => occurrences[handler.occ].run # NoRun

(* A row names a run of its own. *)
RunsInv ==
  \A o \in Rows : occurrences[o].run # NoRun
                  => /\ occurrences[o].run \in 1 .. Len(runOf)
                     /\ runOf[occurrences[o].run] = o

CoreInv == TypeOK /\ HandlerInv /\ RunsInv

LEMMA InitCore == Init => CoreInv
<1> SUFFICES ASSUME Init PROVE CoreInv
  OBVIOUS
<1>1. /\ occurrences \in Seq(Occurrence) /\ runOf \in Seq(1 .. Len(occurrences))
      /\ Len(occurrences) = 0
  BY EmptySeq DEF Init
<1>2. handler \in Handler /\ handler.at = "idle" /\ handler.orphans = {}
  BY DEF Init, Handler, Idle, NoOcc
<1>3. TypeOK
  <2>1. enabled \in [Triggers -> BOOLEAN] /\ lastRun \in [Triggers -> Nat \cup {Never}]
    BY DEF Init
  <2> QED BY <1>1, <1>2, <2>1 DEF Init, TypeOK
<1>4. HandlerInv /\ RunsInv
  BY <1>1, <1>2 DEF HandlerInv, RunsInv, Rows
<1> QED BY <1>3, <1>4 DEF CoreInv

(* The rows are numbered, and those a handler may work on stay.             *)
LEMMA RowFacts ==
  ASSUME TypeOK
  PROVE  /\ Len(occurrences) \in Nat /\ Len(runOf) \in Nat
         /\ \A o \in Rows : occurrences[o] \in Occurrence
         /\ \A r \in 1 .. Len(runOf) : runOf[r] \in Rows
BY LenProperties, ElementOfSeq DEF TypeOK, Rows

LEMMA ProceedFacts ==
  ASSUME TypeOK, proceed
  PROVE  /\ handler' \in Handler
         /\ handler'.at \in {"idle", "loop"}
         /\ handler'.orphans \subseteq handler.orphans
BY DEF TypeOK, proceed, Handler, Idle, NoOcc

(* A launch that only writes the status of its row, or nothing, and leaves  *)
(* the handler idle or in its loop.                                         *)
LEMMA SettleCore ==
  ASSUME CoreInv, NEW o \in Rows, NEW status \in Statuses,
         setStatus(o, status) \/ UNCHANGED occurrences,
         handler' \in Handler, handler'.at \in {"idle", "loop"},
         handler'.orphans \subseteq handler.orphans,
         live' \subseteq 1 .. Len(runOf),
         UNCHANGED <<setup, lastRun, process, suspended, scheduler, world, runOf>>
  PROVE  CoreInv'
<1>1. /\ occurrences' \in Seq(Occurrence)
      /\ Len(occurrences') = Len(occurrences)
      /\ \A p \in Rows : occurrences'[p].run = occurrences[p].run
  <2>1. CASE UNCHANGED occurrences
    BY <2>1 DEF CoreInv, TypeOK
  <2>2. CASE setStatus(o, status)
    BY <2>2, SetStatusFacts, RowFacts DEF CoreInv, Occurrence
  <2> QED BY <2>1, <2>2
<1>2. TypeOK'
  BY <1>1 DEF CoreInv, TypeOK, setup, scheduler, world
<1>3. HandlerInv'
  BY <1>1 DEF CoreInv, HandlerInv, Rows
<1>4. RunsInv'
  BY <1>1 DEF CoreInv, RunsInv, Rows
<1> QED BY <1>2, <1>3, <1>4 DEF CoreInv

(* A handler that begins a launch, of a row that is there or a new one.     *)
LEMMA LaunchCore ==
  ASSUME CoreInv, NEW t \in Triggers, NEW reason \in Reasons, NEW slot \in Nat,
         insert(t, reason, slot) \/ UNCHANGED occurrences,
         handler' \in Handler, handler'.at = "begin",
         handler'.orphans \subseteq Rows, handler'.occ \in 1 .. Len(occurrences'),
         due' \subseteq due,
         UNCHANGED <<setup, lastRun, process, suspended, active, subscribed, armed, live,
                     world, runOf>>
  PROVE  CoreInv'
<1>1. /\ occurrences' \in Seq(Occurrence)
      /\ Len(occurrences) \in Nat /\ Len(occurrences') \in Nat
      /\ Len(occurrences) <= Len(occurrences')
      /\ \A p \in Rows : occurrences'[p] = occurrences[p]
      /\ \A p \in 1 .. Len(occurrences') : p \notin Rows => occurrences'[p].run = NoRun
  <2>1. CASE UNCHANGED occurrences
    BY <2>1, RowFacts DEF CoreInv, TypeOK, Rows
  <2>2. CASE insert(t, reason, slot)
    <3>1. \A p \in 1 .. Len(occurrences) + 1 : p \notin Rows => p = Len(occurrences) + 1
      BY RowFacts DEF CoreInv, Rows
    <3>2. /\ occurrences' \in Seq(Occurrence)
          /\ Len(occurrences) \in Nat
          /\ Len(occurrences') = Len(occurrences) + 1
          /\ \A p \in Rows : occurrences'[p] = occurrences[p]
          /\ occurrences'[Len(occurrences) + 1].run = NoRun
      <4>1. TypeOK
        BY DEF CoreInv
      <4>2. /\ occurrences' \in Seq(Occurrence)
            /\ Len(occurrences) \in Nat
            /\ Len(occurrences') = Len(occurrences) + 1
            /\ \A p \in Rows : occurrences'[p] = occurrences[p]
            /\ occurrences'[Len(occurrences) + 1] =
                 [trigger |-> t, reason |-> reason, slot |-> slot, status |-> "pending",
                  attempt |-> 0, run |-> NoRun]
        BY <2>2, <4>1, InsertFacts
      <4> QED BY <4>2
    <3> QED BY <3>1, <3>2
  <2> QED BY <2>1, <2>2
<1>2. runOf \in Seq(1 .. Len(occurrences'))
  <2>1. 1 .. Len(occurrences) \subseteq 1 .. Len(occurrences')
    BY <1>1
  <2> QED BY <2>1, SeqMonotonic DEF CoreInv, TypeOK
<1>3. TypeOK'
  BY <1>1, <1>2 DEF CoreInv, TypeOK, setup, world
<1>4. HandlerInv'
  BY <1>1 DEF CoreInv, HandlerInv, Rows
<1>5. RunsInv'
  BY <1>1 DEF CoreInv, RunsInv, Rows
<1> QED BY <1>3, <1>4, <1>5 DEF CoreInv

LEMMA BeginCore == CoreInv /\ beginOccurrence => CoreInv'
<1> SUFFICES ASSUME CoreInv, beginOccurrence PROVE CoreInv'
  OBVIOUS
<1> DEFINE o == handler.occ
           row == occurrences[o]
<1>1. o \in Rows /\ row \in Occurrence
  BY RowFacts DEF beginOccurrence, CoreInv, HandlerInv
<1>2. CASE row.status \in Settled \/ ~automations \/ row.attempt >= MaxAttempts
  <2>1. proceed /\ (setStatus(o, "dead") \/ UNCHANGED occurrences)
    BY <1>2 DEF beginOccurrence
  <2>2. UNCHANGED <<setup, lastRun, process, suspended, scheduler, world, runOf, live>>
    BY DEF beginOccurrence
  <2>3. live' \subseteq 1 .. Len(runOf) /\ "dead" \in Statuses
    BY <2>2 DEF CoreInv, TypeOK, Statuses
  <2>4. TypeOK
    BY DEF CoreInv
  <2> HIDE DEF o
  <2> QED BY <1>1, <2>1, <2>2, <2>3, <2>4, ProceedFacts, SettleCore
<1>3. CASE ~(row.status \in Settled \/ ~automations \/ row.attempt >= MaxAttempts)
  <2> DEFINE new == [row EXCEPT !.status = "running", !.attempt = row.attempt + 1]
  <2>1. occurrences' = [occurrences EXCEPT ![o] = new]
    BY <1>3 DEF beginOccurrence
  <2>2. new \in Occurrence /\ new.status = "running" /\ new.run = row.run
    <3>1. row.attempt + 1 \in 0 .. MaxAttempts
      BY <1>1, <1>3, MaxAttemptsAssumption DEF Occurrence
    <3> HIDE DEF row
    <3> QED BY <1>1, <3>1 DEF Occurrence, Statuses
  <2>3. handler' = [handler EXCEPT !.at = "attach"] /\ automations
    BY <1>3 DEF beginOccurrence
  <2> HIDE DEF new
  <2>4. /\ occurrences' \in Seq(Occurrence)
        /\ Len(occurrences') = Len(occurrences)
        /\ occurrences'[o] = new
        /\ \A p \in Rows : occurrences'[p].run = occurrences[p].run
    BY <1>1, <2>1, <2>2, UpdateFacts DEF CoreInv
  <2>5. UNCHANGED <<setup, lastRun, process, suspended, scheduler, live, world, runOf>>
    BY DEF beginOccurrence
  <2>6. /\ handler' \in Handler /\ handler'.at = "attach" /\ handler'.occ = o
        /\ handler'.orphans = handler.orphans
    BY <2>3 DEF CoreInv, TypeOK, Handler
  <2>7. TypeOK'
    BY <2>4, <2>5, <2>6 DEF CoreInv, TypeOK, setup, scheduler, world
  <2>8. HandlerInv'
    BY <1>1, <2>2, <2>3, <2>4, <2>5, <2>6 DEF CoreInv, HandlerInv, Rows, setup
  <2>9. RunsInv'
    BY <2>4, <2>5 DEF CoreInv, RunsInv, Rows
  <2> QED BY <2>7, <2>8, <2>9 DEF CoreInv
<1> QED BY <1>2, <1>3

LEMMA AttachCore == CoreInv /\ attachRun => CoreInv'
<1> SUFFICES ASSUME CoreInv, attachRun PROVE CoreInv'
  OBVIOUS
<1> DEFINE o == handler.occ
           row == occurrences[o]
<1>1. /\ o \in Rows /\ row \in Occurrence /\ row.status = "running"
      /\ Len(runOf) \in Nat
  BY RowFacts DEF attachRun, CoreInv, HandlerInv
<1>2. CASE ~enabled[row.trigger]
  <2>1. proceed /\ setStatus(o, "dead")
    BY <1>2 DEF attachRun
  <2>2. UNCHANGED <<setup, lastRun, process, suspended, scheduler, world, runOf, live>>
    BY <1>2 DEF attachRun
  <2>3. live' \subseteq 1 .. Len(runOf) /\ "dead" \in Statuses
    BY <2>2 DEF CoreInv, TypeOK, Statuses
  <2>4. TypeOK
    BY DEF CoreInv
  <2> HIDE DEF o
  <2> QED BY <1>1, <2>1, <2>2, <2>3, <2>4, ProceedFacts, SettleCore
<1>3. CASE enabled[row.trigger]
  <2> DEFINE new == [row EXCEPT !.run = Len(runOf) + 1]
  <2>1. occurrences' = [occurrences EXCEPT ![o] = new]
    BY <1>3 DEF attachRun
  <2>2. new \in Occurrence /\ new.status = "running" /\ new.run = Len(runOf) + 1
    BY <1>1 DEF Occurrence
  <2> HIDE DEF new
  <2>4. /\ occurrences' \in Seq(Occurrence)
        /\ Len(occurrences') = Len(occurrences)
        /\ occurrences'[o] = new
        /\ \A p \in Rows \ {o} : occurrences'[p] = occurrences[p]
    BY <1>1, <2>1, <2>2, UpdateFacts DEF CoreInv
  <2>5. UNCHANGED <<setup, process, suspended, scheduler, live, world>>
    BY DEF attachRun
  <2>6. /\ handler' \in Handler /\ handler'.at = "start" /\ handler'.occ = o
        /\ handler'.orphans = handler.orphans
    BY <1>3 DEF attachRun, CoreInv, TypeOK, Handler
  <2>7. /\ runOf' \in Seq(Rows) /\ Len(runOf') = Len(runOf) + 1
        /\ \A r \in 1 .. Len(runOf) : runOf'[r] = runOf[r]
        /\ runOf'[Len(runOf) + 1] = o
    <3>1. runOf' = Append(runOf, o) /\ runOf \in Seq(Rows)
      BY <1>3 DEF attachRun, CoreInv, TypeOK, Rows
    <3> HIDE DEF o
    <3> QED BY <1>1, <3>1, AppendProperties
  <2>8. lastRun' \in [Triggers -> Nat \cup {Never}]
    BY <1>3 DEF attachRun, CoreInv, TypeOK
  <2>9. TypeOK'
    <3>1. live' \subseteq 1 .. Len(runOf')
      BY <1>1, <2>5, <2>7 DEF CoreInv, TypeOK
    <3> QED BY <2>4, <2>5, <2>6, <2>7, <2>8, <3>1 DEF CoreInv, TypeOK, setup, scheduler, world, Rows
  <2>10. HandlerInv'
    BY <1>1, <2>2, <2>4, <2>6 DEF CoreInv, HandlerInv, Rows, NoRun
  <2>11. RunsInv'
    <3> SUFFICES ASSUME NEW p \in Rows, occurrences'[p].run # NoRun
                 PROVE  /\ occurrences'[p].run \in 1 .. Len(runOf')
                        /\ runOf'[occurrences'[p].run] = p
      BY <2>4 DEF RunsInv, Rows
    <3>1. CASE p = o
      BY <1>1, <2>2, <2>4, <2>7, <3>1
    <3>2. CASE p # o
      <4>1. occurrences'[p] = occurrences[p]
        BY <2>4, <3>2
      <4> QED BY <1>1, <2>7, <4>1 DEF CoreInv, RunsInv
    <3> QED BY <3>1, <3>2
  <2> QED BY <2>9, <2>10, <2>11 DEF CoreInv
<1> QED BY <1>2, <1>3

LEMMA StartCore == CoreInv /\ startRun => CoreInv'
<1> SUFFICES ASSUME CoreInv, startRun PROVE CoreInv'
  OBVIOUS
<1>1. handler.occ \in Rows /\ occurrences[handler.occ].run \in 1 .. Len(runOf) /\ TypeOK
  BY DEF startRun, CoreInv, HandlerInv, RunsInv
<1>2. /\ setStatus(handler.occ, "failed") \/ UNCHANGED occurrences
      /\ live' \subseteq 1 .. Len(runOf)
  BY <1>1 DEF startRun, TypeOK
<1>3. /\ handler' \in Handler /\ handler'.at \in {"idle", "loop"}
      /\ handler'.orphans \subseteq handler.orphans
  <2>1. CASE proceed
    BY <1>1, <2>1, ProceedFacts
  <2>2. CASE handler' = Idle
    BY <2>2 DEF Idle, Handler, NoOcc
  <2> QED BY <2>1, <2>2 DEF startRun
<1>4. UNCHANGED <<setup, lastRun, process, suspended, scheduler, world, runOf>>
  BY DEF startRun
<1>5. "failed" \in Statuses
  BY DEF Statuses
<1> QED BY <1>1, <1>2, <1>3, <1>4, <1>5, SettleCore

-----------------------------------------------------------------------------
(* A handler that leaves the rows alone: it ends, or has rows to recover.   *)
LEMMA QuietCore ==
  ASSUME CoreInv, UNCHANGED <<occurrences, runOf>>,
         handler' \in Handler, handler'.at \in {"idle", "loop"},
         handler'.orphans \subseteq Rows,
         automations' \in BOOLEAN, enabled' \in [Triggers -> BOOLEAN],
         lastRun' \in [Triggers -> Nat \cup {Never}],
         process' \in {"down", "booting", "up", "stopping", "closing"},
         suspended' \in BOOLEAN, active' \in BOOLEAN, subscribed' \in BOOLEAN,
         armed' \subseteq CronTriggers, due' \subseteq armed',
         live' \subseteq live, now' \in Nat, upsets' \in Nat
  PROVE  CoreInv'
<1>1. TypeOK'
  BY DEF CoreInv, TypeOK
<1>2. HandlerInv' /\ RunsInv'
  BY DEF CoreInv, HandlerInv, RunsInv, Rows
<1> QED BY <1>1, <1>2 DEF CoreInv

(* evaluate leaves the handler idle or with the rows that are still open.   *)
LEMMA EvaluateFacts ==
  ASSUME TypeOK, NEW on \in BOOLEAN, NEW crons \in SUBSET CronTriggers, evaluate(on, crons)
  PROVE  /\ handler' \in Handler /\ handler'.at \in {"idle", "loop"}
         /\ handler'.orphans \subseteq Rows
         /\ active' \in BOOLEAN /\ armed' \subseteq CronTriggers /\ due' \subseteq armed'
<1>1. listRecoverableOccurrences \in SUBSET Nat /\ listRecoverableOccurrences \subseteq Rows
  BY RowFacts DEF listRecoverableOccurrences, Rows
<1>2. Idle \in Handler /\ Idle.at = "idle" /\ Idle.orphans = {}
  BY DEF Idle, Handler, NoOcc
<1>3. CASE handler' = Idle
  BY <1>2, <1>3 DEF evaluate, disarm
<1>4. CASE on /\ loop(listRecoverableOccurrences, crons)
  <2>1. CASE handler' = Idle
    BY <1>2, <1>4, <2>1 DEF evaluate, disarm
  <2>2. CASE handler' = [at |-> "loop", occ |-> NoOcc,
                         orphans |-> listRecoverableOccurrences, checks |-> crons]
    BY <1>1, <1>4, <2>2 DEF evaluate, disarm, Handler, NoOcc
  <2> QED BY <1>4, <2>1, <2>2 DEF loop
<1> QED BY <1>3, <1>4 DEF evaluate

LEMMA ScheduleCore ==
  ASSUME CoreInv, NEW t \in CronTriggers, NEW slot \in Nat, NEW checks \in SUBSET CronTriggers,
         schedule(t, slot, checks), due' \subseteq due,
         UNCHANGED <<setup, lastRun, process, suspended, active, subscribed, armed, live,
                     world, runOf>>
  PROVE  CoreInv'
<1>1. /\ insert(t, "cron", slot) \/ UNCHANGED occurrences
      /\ handler' \in Handler /\ handler'.at = "begin" /\ handler'.orphans \subseteq Rows
      /\ handler'.occ \in 1 .. Len(occurrences')
  BY ScheduleFacts DEF CoreInv
<1>2. t \in Triggers /\ "cron" \in Reasons
  BY DEF Triggers, Reasons
<1> QED BY <1>1, <1>2, LaunchCore

LEMMA EndCore ==
  ASSUME CoreInv, NEW r \in live, NEW status \in {"succeeded", "failed"}, EndRun(r, status)
  PROVE  CoreInv'
<1> DEFINE o == CHOOSE o \in 1 .. Len(occurrences) : occurrences[o].run = r
<1>1. CASE setStatus(o, status) /\ o \in Rows
  <2>1. status \in Statuses
    BY DEF Statuses
  <2>2. /\ handler' \in Handler /\ handler'.at \in {"idle", "loop"}
        /\ handler'.orphans \subseteq handler.orphans
        /\ live' \subseteq 1 .. Len(runOf)
        /\ UNCHANGED <<setup, lastRun, process, suspended, scheduler, world, runOf>>
    BY DEF EndRun, idle, CoreInv, TypeOK
  <2> HIDE DEF o
  <2> QED BY <1>1, <2>1, <2>2, SettleCore
<1>2. CASE UNCHANGED occurrences
  BY <1>2, QuietCore DEF EndRun, idle, CoreInv, TypeOK, HandlerInv, setup, scheduler, world
<1>3. \/ UNCHANGED occurrences
      \/ setStatus(o, status) /\ o \in Rows
  BY DEF EndRun, completeOccurrenceByRunId, Rows
<1> QED BY <1>1, <1>2, <1>3

LEMMA CoreStep == CoreInv /\ [Next]_vars => CoreInv'
<1> SUFFICES ASSUME CoreInv, [Next]_vars PROVE CoreInv'
  OBVIOUS
<1> USE DEF setup, store, scheduler, world
<1>0. TypeOK /\ HandlerInv
  BY DEF CoreInv
<1>1. CASE beginOccurrence \/ attachRun \/ startRun
  BY <1>1, BeginCore, AttachCore, StartCore
<1>2. CASE RecoverOccurrence
  <2>1. PICK o \in handler.orphans :
          handler' = [at |-> "begin", occ |-> o, orphans |-> handler.orphans \ {o},
                      checks |-> handler.checks]
    BY <1>2 DEF RecoverOccurrence, launch
  <2>2. /\ handler' \in Handler /\ handler'.at = "begin"
        /\ handler'.orphans \subseteq Rows /\ handler'.occ \in Rows
    BY <1>0, <2>1 DEF TypeOK, Handler, HandlerInv
  <2>3. TypeOK'
    BY <1>0, <1>2, <2>2 DEF RecoverOccurrence, TypeOK
  <2>4. HandlerInv' /\ RunsInv'
    BY <1>2, <2>2 DEF RecoverOccurrence, CoreInv, HandlerInv, RunsInv, Rows
  <2> QED BY <2>3, <2>4 DEF CoreInv
<1>3. ASSUME NEW t \in CronTriggers, CronTick(t) PROVE CoreInv'
  <2>1. CASE automations
    <3>1. /\ schedule(t, now, {}) /\ now \in Nat /\ due' \subseteq due
          /\ UNCHANGED <<setup, lastRun, process, suspended, active, subscribed, armed,
                         live, world, runOf>>
      BY <1>0, <1>3, <2>1 DEF CronTick, TypeOK
    <3> QED BY <3>1, ScheduleCore
  <2>2. CASE ~automations
    BY <1>0, <1>3, <2>2, QuietCore DEF CronTick, idle, TypeOK, HandlerInv
  <2> QED BY <2>1, <2>2
<1>4. ASSUME NEW t \in CronTriggers, recoverMissedRun(t) PROVE CoreInv'
  <2>1. handler.checks \ {t} \in SUBSET CronTriggers
    BY <1>0 DEF TypeOK, Handler
  <2>2. CASE \E slot \in Nat : schedule(t, slot, handler.checks \ {t})
    <3>1. /\ due' \subseteq due
          /\ UNCHANGED <<setup, lastRun, process, suspended, active, subscribed, armed,
                         live, world, runOf>>
      BY <1>4 DEF recoverMissedRun
    <3> QED BY <2>1, <2>2, <3>1, ScheduleCore
  <2>3. CASE /\ handler' \in {Idle, [handler EXCEPT !.checks = handler.checks \ {t}]}
             /\ UNCHANGED occurrences
    <3>1. /\ handler' \in Handler /\ handler'.at \in {"idle", "loop"}
          /\ handler'.orphans \subseteq Rows
      <4>1. CASE handler' = Idle
        BY <4>1 DEF Idle, Handler, NoOcc
      <4>2. CASE handler' = [handler EXCEPT !.checks = handler.checks \ {t}]
        BY <1>0, <1>4, <2>1, <4>2 DEF recoverMissedRun, TypeOK, Handler, HandlerInv
      <4> QED BY <2>3, <4>1, <4>2
    <3> QED BY <1>0, <1>4, <2>3, <3>1, QuietCore DEF recoverMissedRun, TypeOK
  <2>4. t \in Triggers /\ lastRun[t] \in Nat \cup {Never} /\ now \in Nat
    BY <1>0 DEF TypeOK, Triggers
  <2>5. CASE lastRun[t] = Never
    <3>1. schedule(t, now, handler.checks \ {t})
      BY <1>4, <2>5 DEF recoverMissedRun
    <3> QED BY <2>2, <2>4, <3>1
  <2>6. CASE lastRun[t] # Never /\ lastRun[t] + 1 <= now
    <3>1. schedule(t, lastRun[t] + 1, handler.checks \ {t})
      BY <1>4, <2>6 DEF recoverMissedRun
    <3>2. lastRun[t] + 1 \in Nat
      BY <2>4, <2>6
    <3> QED BY <2>2, <3>1, <3>2
  <2>7. CASE lastRun[t] # Never /\ ~(lastRun[t] + 1 <= now)
    <3>1. /\ handler' = IF handler.checks = {t} THEN Idle
                        ELSE [handler EXCEPT !.checks = handler.checks \ {t}]
          /\ UNCHANGED occurrences
      BY <1>4, <2>7 DEF recoverMissedRun
    <3> QED BY <2>3, <3>1
  <2> QED BY <2>5, <2>6, <2>7
<1>5. ASSUME NEW t \in Triggers, Invoke(t) PROVE CoreInv'
  <2>1. /\ handler' = [at |-> "begin", occ |-> Len(occurrences) + 1, orphans |-> {},
                       checks |-> {}]
        /\ insert(t, "invoked", now) /\ now \in Nat /\ "invoked" \in Reasons
        /\ Len(occurrences') = Len(occurrences) + 1 /\ Len(occurrences) \in Nat
    BY <1>0, <1>5, InsertFacts DEF Invoke, launch, TypeOK, Reasons
  <2>2. /\ handler' \in Handler /\ handler'.at = "begin" /\ handler'.orphans \subseteq Rows
        /\ handler'.occ \in 1 .. Len(occurrences')
    BY <2>1 DEF Handler
  <2>3. /\ due' \subseteq due
        /\ UNCHANGED <<setup, lastRun, process, suspended, active, subscribed, armed,
                       live, world, runOf>>
    BY <1>5 DEF Invoke
  <2> QED BY <2>1, <2>2, <2>3, LaunchCore
<1>6. ASSUME NEW t \in Triggers, NEW on \in BOOLEAN, EditTrigger(t, on) PROVE CoreInv'
  <2>1. {c \in CronTriggers : enabled'[c]} \in SUBSET CronTriggers /\ automations \in BOOLEAN
    BY <1>0 DEF TypeOK
  <2>2. evaluate(automations, {c \in CronTriggers : enabled'[c]})
    BY <1>6 DEF EditTrigger
  <2> QED BY <1>0, <1>6, <2>1, <2>2, EvaluateFacts, QuietCore DEF EditTrigger, upset, TypeOK
<1>7. CASE startAutomations \/ ToggleAutomations
  <2>1. listEnabled \in SUBSET CronTriggers /\ automations \in BOOLEAN /\ (~automations) \in BOOLEAN
    <3>1. listEnabled \in SUBSET CronTriggers
      BY DEF listEnabled
    <3>2. automations \in BOOLEAN
      BY <1>0 DEF TypeOK
    <3> QED BY <3>1, <3>2
  <2>2. evaluate(automations, listEnabled) \/ evaluate(~automations, listEnabled)
    BY <1>7 DEF startAutomations, ToggleAutomations
  <2>3. /\ handler' \in Handler /\ handler'.at \in {"idle", "loop"}
        /\ handler'.orphans \subseteq Rows
        /\ active' \in BOOLEAN /\ armed' \subseteq CronTriggers /\ due' \subseteq armed'
    BY <1>0, <2>1, <2>2, EvaluateFacts
  <2>4. /\ UNCHANGED <<occurrences, runOf, enabled, lastRun, suspended, live, now>>
        /\ automations' \in BOOLEAN /\ subscribed' \in BOOLEAN /\ upsets' \in Nat
        /\ process' \in {"down", "booting", "up", "stopping", "closing"}
    <3>1. CASE startAutomations
      <4>1. subscribed' = TRUE /\ process' = "up" /\ UNCHANGED <<store, suspended, live, world, runOf>>
        BY <3>1 DEF startAutomations
      <4> QED BY <1>0, <4>1, Zenon DEF TypeOK
    <3>2. CASE ToggleAutomations
      <4>1. upsets' \in Nat
        BY <1>0, <3>2 DEF ToggleAutomations, upset, TypeOK
      <4> QED BY <1>0, <2>1, <3>2, <4>1, Zenon DEF ToggleAutomations, TypeOK
    <3> QED BY <1>7, <3>1, <3>2
  <2> QED BY <1>0, <2>3, <2>4, QuietCore DEF TypeOK
<1>8. CASE Boot \/ pauseForSystemSleep \/ Stop \/ ShutdownRuns \/ NextSlot
  <2>1. /\ UNCHANGED <<automations, enabled, lastRun, occurrences, runOf, live>>
        /\ handler' = handler /\ handler.at \in {"idle", "loop", "begin", "attach", "start"}
    BY <1>0, <1>8 DEF Boot, pauseForSystemSleep, Stop, ShutdownRuns, NextSlot, TypeOK, Handler
  <2>2. /\ process' \in {"down", "booting", "up", "stopping", "closing"}
        /\ suspended' \in BOOLEAN /\ active' \in BOOLEAN /\ subscribed' \in BOOLEAN
        /\ armed' \subseteq CronTriggers /\ due' \subseteq armed'
        /\ now' \in Nat /\ upsets' \in Nat
    <3>1. CASE Boot
      BY <1>0, <3>1 DEF Boot, TypeOK
    <3>2. CASE pauseForSystemSleep
      <4>1. upsets' \in Nat
        BY <1>0, <3>2 DEF pauseForSystemSleep, upset, TypeOK
      <4>2. armed' = {} /\ due' = {} /\ active' = FALSE /\ suspended' = TRUE
        BY <3>2 DEF pauseForSystemSleep, disarm
      <4> QED BY <1>0, <3>2, <4>1, <4>2, Zenon DEF pauseForSystemSleep, TypeOK
    <3>3. CASE Stop
      <4>1. upsets' \in Nat
        BY <1>0, <3>3 DEF Stop, upset, TypeOK
      <4>2. /\ armed' = {} /\ due' = {} /\ active' = FALSE /\ subscribed' = FALSE
            /\ process' = "stopping"
        BY <3>3 DEF Stop, disarm
      <4> QED BY <1>0, <3>3, <4>1, <4>2, Zenon DEF Stop, TypeOK
    <3>4. CASE ShutdownRuns
      BY <1>0, <3>4 DEF ShutdownRuns, TypeOK
    <3>5. CASE NextSlot
      BY <1>0, <3>5 DEF NextSlot, TypeOK
    <3> QED BY <1>8, <3>1, <3>2, <3>3, <3>4, <3>5
  <2>3. TypeOK'
    BY <1>0, <2>1, <2>2 DEF TypeOK
  <2>4. HandlerInv' /\ RunsInv'
    BY <2>1 DEF CoreInv, HandlerInv, RunsInv, Rows
  <2> QED BY <2>3, <2>4 DEF CoreInv
<1>9. CASE recoverAfterSystemSleep
  <2>1. Idle \in Handler /\ Idle.at = "idle" /\ Idle.orphans = {}
    BY DEF Idle, Handler, NoOcc
  <2>2. listEnabled \in SUBSET CronTriggers
    BY DEF listEnabled
  <2>3. handler' \in {Idle, [at |-> "loop", occ |-> NoOcc, orphans |-> {},
                             checks |-> listEnabled]}
    BY <1>9 DEF recoverAfterSystemSleep, loop
  <2>4. /\ handler' \in Handler /\ handler'.at \in {"idle", "loop"}
        /\ handler'.orphans \subseteq Rows
    BY <2>1, <2>2, <2>3 DEF Handler, NoOcc
  <2> QED BY <1>0, <1>9, <2>2, <2>4, QuietCore DEF recoverAfterSystemSleep, disarm, TypeOK
<1>10. CASE Exit \/ Crash
  <2>1. Idle \in Handler /\ Idle.at = "idle" /\ Idle.orphans = {}
    BY DEF Idle, Handler, NoOcc
  <2>2. gone /\ upsets' \in Nat
    <3>1. CASE Exit
      BY <1>0, <3>1 DEF Exit, TypeOK
    <3>2. CASE Crash
      BY <1>0, <3>2 DEF Crash, upset, TypeOK
    <3> QED BY <1>10, <3>1, <3>2
  <2>3. /\ UNCHANGED <<automations, enabled, lastRun, occurrences, runOf, now>>
        /\ process' = "down" /\ suspended' = FALSE /\ active' = FALSE /\ subscribed' = FALSE
        /\ armed' = {} /\ due' = {} /\ live' = {} /\ handler' = Idle
    BY <2>2 DEF gone, disarm
  <2> HIDE DEF Idle
  <2> QED BY <1>0, <2>1, <2>2, <2>3, QuietCore DEF TypeOK
<1>11. ASSUME NEW r \in live, \/ \E status \in {"succeeded", "failed"} : EndRun(r, status)
                              \/ DiscardRun(r)
       PROVE CoreInv'
  <2>1. CASE DiscardRun(r)
    BY <1>0, <2>1, QuietCore DEF DiscardRun, idle, upset, TypeOK, HandlerInv
  <2> QED BY <1>11, <2>1, EndCore
<1>12. CASE UNCHANGED vars
  BY <1>0, <1>12 DEF vars, CoreInv, TypeOK, HandlerInv, RunsInv, Rows
<1> QED BY <1>1, <1>2, <1>3, <1>4, <1>5, <1>6, <1>7, <1>8, <1>9, <1>10, <1>11, <1>12 DEF Next

(* The state stays well formed, the handler works on open rows, and a row's *)
(* run is its own, whatever crashes, stops and edits come in between.       *)
THEOREM CoreInvariant == Spec => []CoreInv
<1>1. Init => CoreInv
  BY InitCore
<1>2. CoreInv /\ [Next]_vars => CoreInv'
  BY CoreStep
<1> QED BY <1>1, <1>2, PTL DEF Spec

-----------------------------------------------------------------------------
(* Whatever the step, one of five things happens to the rows and the runs.  *)

Rests == UNCHANGED <<occurrences, runOf>> /\ (handler'.at = "attach" => handler' = handler)

Writes(o, status) ==
  /\ setStatus(o, status)
  /\ occurrences[o].status \notin Settled
  /\ UNCHANGED runOf /\ handler'.at # "attach"

Adds(t, reason, slot) ==
  /\ insert(t, reason, slot)
  /\ reason = "cron" => findScheduledOccurrence(t, slot) = {}
  /\ UNCHANGED runOf /\ handler'.at # "attach"

Reserves(o) ==
  /\ o = handler.occ /\ o \in Rows /\ handler.at = "begin"
  /\ occurrences[o].status \notin Settled
  /\ occurrences[o].attempt + 1 \in 0 .. MaxAttempts
  /\ occurrences' = [occurrences EXCEPT ![o].status = "running",
                                        ![o].attempt = occurrences[o].attempt + 1]
  /\ UNCHANGED runOf
  /\ handler'.at = "attach" /\ handler'.occ = o

Names(o) ==
  /\ o = handler.occ /\ o \in Rows /\ handler.at = "attach"
  /\ occurrences[o].status = "running"
  /\ automations /\ enabled[occurrences[o].trigger]
  /\ runOf' = Append(runOf, o)
  /\ occurrences' = [occurrences EXCEPT ![o].run = Len(runOf) + 1]
  /\ handler'.at = "start"

StepOnRows ==
  \/ Rests
  \/ \E o \in Rows, status \in Statuses : Writes(o, status)
  \/ \E t \in Triggers, reason \in Reasons, slot \in Nat : Adds(t, reason, slot)
  \/ \E o \in Rows : Reserves(o) \/ Names(o)

(* The transactions of a launch. *)
LEMMA LaunchOnRows ==
  ASSUME CoreInv, beginOccurrence \/ attachRun \/ startRun
  PROVE  StepOnRows
<1> DEFINE o == handler.occ
           row == occurrences[o]
<1>0. o \in Rows /\ TypeOK /\ row \in Occurrence
  BY RowFacts DEF beginOccurrence, attachRun, startRun, CoreInv, HandlerInv
<1>1. {"dead", "failed", "running"} \subseteq Statuses /\ "running" \notin Settled
  BY DEF Statuses, Settled
<1>2. CASE beginOccurrence
  <2>1. CASE row.status \in Settled
    <3>1. UNCHANGED <<occurrences, runOf>> /\ proceed
      BY <1>2, <2>1 DEF beginOccurrence
    <3> QED BY <1>0, <3>1, ProceedFacts DEF StepOnRows, Rests
  <2>2. CASE row.status \notin Settled /\ (~automations \/ row.attempt >= MaxAttempts)
    <3>1. setStatus(o, "dead") /\ UNCHANGED runOf /\ proceed
      BY <1>2, <2>2 DEF beginOccurrence
    <3>2. handler'.at # "attach"
      BY <1>0, <3>1, ProceedFacts
    <3>3. Writes(o, "dead")
      BY <2>2, <3>1, <3>2 DEF Writes
    <3> QED BY <1>0, <1>1, <3>3 DEF StepOnRows
  <2>3. CASE row.status \notin Settled /\ ~(~automations \/ row.attempt >= MaxAttempts)
    <3>1. /\ handler.at = "begin"
          /\ occurrences' = [occurrences EXCEPT ![o].status = "running",
                                                ![o].attempt = occurrences[o].attempt + 1]
          /\ UNCHANGED runOf
          /\ handler' = [handler EXCEPT !.at = "attach"]
      BY <1>2, <2>3 DEF beginOccurrence
    <3>2. handler'.at = "attach" /\ handler'.occ = o
      BY <1>0, <3>1 DEF TypeOK, Handler
    <3>3. row.attempt + 1 \in 0 .. MaxAttempts
      BY <1>0, <2>3, MaxAttemptsAssumption DEF Occurrence
    <3>4. Reserves(o)
      BY <1>0, <2>3, <3>1, <3>2, <3>3 DEF Reserves
    <3> QED BY <1>0, <3>4 DEF StepOnRows
  <2> QED BY <2>1, <2>2, <2>3
<1>3. CASE attachRun
  <2>0. row.status = "running" /\ automations
    BY <1>3 DEF attachRun, CoreInv, HandlerInv
  <2>1. CASE enabled[row.trigger]
    <3>1. /\ handler.at = "attach"
          /\ runOf' = Append(runOf, o)
          /\ occurrences' = [occurrences EXCEPT ![o].run = Len(runOf) + 1]
          /\ handler' = [handler EXCEPT !.at = "start"]
      BY <1>3, <2>1 DEF attachRun
    <3>2. handler'.at = "start"
      BY <1>0, <3>1 DEF TypeOK, Handler
    <3>3. Names(o)
      BY <1>0, <2>0, <2>1, <3>1, <3>2 DEF Names
    <3> QED BY <1>0, <3>3 DEF StepOnRows
  <2>2. CASE ~enabled[row.trigger]
    <3>1. setStatus(o, "dead") /\ UNCHANGED runOf /\ proceed
      BY <1>3, <2>2 DEF attachRun
    <3>2. handler'.at # "attach"
      BY <1>0, <3>1, ProceedFacts
    <3>3. Writes(o, "dead")
      BY <1>1, <2>0, <3>1, <3>2 DEF Writes
    <3> QED BY <1>0, <1>1, <3>3 DEF StepOnRows
  <2> QED BY <2>1, <2>2
<1>4. CASE startRun
  <2>0. row.status = "running" /\ UNCHANGED runOf
    BY <1>4 DEF startRun, CoreInv, HandlerInv
  <2>1. CASE setStatus(o, "failed") /\ handler' = Idle
    <3>1. Writes(o, "failed")
      BY <1>1, <2>0, <2>1 DEF Writes, Idle
    <3> QED BY <1>0, <1>1, <3>1 DEF StepOnRows
  <2>2. CASE UNCHANGED occurrences /\ proceed
    <3>1. handler'.at # "attach"
      BY <1>0, <2>2, ProceedFacts
    <3> QED BY <2>0, <2>2, <3>1 DEF StepOnRows, Rests
  <2> QED BY <1>4, <2>1, <2>2 DEF startRun
<1> QED BY <1>2, <1>3, <1>4

(* What asks for a launch adds a row or finds one. *)
LEMMA ScheduleOnRows ==
  ASSUME CoreInv, NEW t \in CronTriggers, NEW slot \in Nat, NEW checks \in SUBSET CronTriggers,
         schedule(t, slot, checks), UNCHANGED runOf
  PROVE  StepOnRows
<1>1. TypeOK /\ t \in Triggers /\ "cron" \in Reasons
  BY DEF CoreInv, Triggers, Reasons
<1>2. /\ \/ UNCHANGED occurrences
         \/ insert(t, "cron", slot) /\ findScheduledOccurrence(t, slot) = {}
      /\ handler'.at = "begin"
  BY <1>1, ScheduleFacts
<1>3. CASE UNCHANGED occurrences
  BY <1>2, <1>3 DEF StepOnRows, Rests
<1>4. CASE insert(t, "cron", slot) /\ findScheduledOccurrence(t, slot) = {}
  <2>1. Adds(t, "cron", slot)
    BY <1>2, <1>4 DEF Adds
  <2> QED BY <1>1, <2>1 DEF StepOnRows
<1> QED BY <1>2, <1>3, <1>4

(* The end of a run settles the open row that names it, which is its own.   *)
LEMMA EndOnRows ==
  ASSUME CoreInv, NEW r \in live, NEW status \in {"succeeded", "failed"}, EndRun(r, status)
  PROVE  StepOnRows
<1> DEFINE o == CHOOSE o \in 1 .. Len(occurrences) : occurrences[o].run = r
<1>1. UNCHANGED runOf /\ handler' = handler /\ handler.at = "idle"
  BY DEF EndRun, idle
<1>2. CASE UNCHANGED occurrences
  BY <1>1, <1>2 DEF StepOnRows, Rests
<1>3. CASE ~UNCHANGED occurrences
  <2>1. PICK p \in Rows : occurrences[p].run = r /\ occurrences[p].status = "running"
    BY <1>3 DEF EndRun, completeOccurrenceByRunId, Rows
  <2>2. o \in Rows /\ occurrences[o].run = r
    BY <2>1 DEF Rows
  <2>3. setStatus(o, status)
    BY <1>3 DEF EndRun, completeOccurrenceByRunId
  <2> HIDE DEF o
  <2>4. r # NoRun
    BY RowFacts DEF CoreInv, TypeOK, NoRun
  <2>5. o = p
    BY <2>1, <2>2, <2>4 DEF CoreInv, RunsInv
  <2>6. Writes(o, status) /\ status \in Statuses
    BY <1>1, <2>1, <2>3, <2>5 DEF Writes, Settled, Statuses
  <2> QED BY <2>2, <2>6 DEF StepOnRows
<1> QED BY <1>2, <1>3

LEMMA StepsOnRows ==
  ASSUME CoreInv, [Next]_vars
  PROVE  StepOnRows
<1>0. TypeOK
  BY DEF CoreInv
<1>1. CASE beginOccurrence \/ attachRun \/ startRun
  BY <1>1, LaunchOnRows
<1>2. CASE UNCHANGED <<occurrences, runOf>> /\ (handler' = handler \/ handler'.at # "attach")
  BY <1>2 DEF StepOnRows, Rests
<1>3. CASE RecoverOccurrence
  <2>1. UNCHANGED <<occurrences, runOf>> /\ handler'.at = "begin"
    BY <1>3 DEF RecoverOccurrence, launch, store
  <2> QED BY <1>2, <2>1
<1>4. ASSUME NEW t \in CronTriggers, CronTick(t) PROVE StepOnRows
  <2>1. UNCHANGED runOf /\ now \in Nat /\ {} \in SUBSET CronTriggers
    BY <1>0, <1>4 DEF CronTick, TypeOK
  <2>2. CASE schedule(t, now, {})
    BY <2>1, <2>2, ScheduleOnRows
  <2>3. CASE UNCHANGED <<occurrences, handler>>
    BY <1>2, <2>1, <2>3
  <2> QED BY <1>4, <2>2, <2>3 DEF CronTick
<1>5. ASSUME NEW t \in CronTriggers, recoverMissedRun(t) PROVE StepOnRows
  <2>1. /\ UNCHANGED runOf /\ now \in Nat /\ handler.checks \ {t} \in SUBSET CronTriggers
        /\ lastRun[t] \in Nat \cup {Never} /\ handler.at = "loop"
    BY <1>0, <1>5 DEF recoverMissedRun, TypeOK, Handler, Triggers
  <2>2. CASE lastRun[t] = Never
    <3>1. schedule(t, now, handler.checks \ {t})
      BY <1>5, <2>2 DEF recoverMissedRun
    <3> QED BY <2>1, <3>1, ScheduleOnRows
  <2>3. CASE lastRun[t] # Never /\ lastRun[t] + 1 <= now
    <3>1. schedule(t, lastRun[t] + 1, handler.checks \ {t})
      BY <1>5, <2>3 DEF recoverMissedRun
    <3>2. lastRun[t] + 1 \in Nat
      BY <2>1, <2>3
    <3> QED BY <2>1, <3>1, <3>2, ScheduleOnRows
  <2>4. CASE lastRun[t] # Never /\ ~(lastRun[t] + 1 <= now)
    <3>1. /\ handler' = IF handler.checks = {t} THEN Idle
                        ELSE [handler EXCEPT !.checks = handler.checks \ {t}]
          /\ UNCHANGED occurrences
      BY <1>5, <2>4 DEF recoverMissedRun
    <3>2. handler'.at # "attach"
      BY <1>0, <2>1, <3>1 DEF TypeOK, Handler, Idle
    <3> QED BY <1>2, <2>1, <3>1, <3>2
  <2> QED BY <2>2, <2>3, <2>4
<1>6. ASSUME NEW t \in Triggers, Invoke(t) PROVE StepOnRows
  <2>1. Adds(t, "invoked", now)
    BY <1>6 DEF Invoke, Adds, launch
  <2>2. now \in Nat /\ "invoked" \in Reasons
    BY <1>0 DEF TypeOK, Reasons
  <2> QED BY <2>1, <2>2 DEF StepOnRows
<1>7. ASSUME NEW t \in Triggers, NEW on \in BOOLEAN, EditTrigger(t, on) PROVE StepOnRows
  <2>1. UNCHANGED <<occurrences, runOf>> /\ handler'.at # "attach"
    BY <1>7 DEF EditTrigger, evaluate, loop, Idle
  <2> QED BY <1>2, <2>1
<1>8. CASE startAutomations \/ ToggleAutomations \/ recoverAfterSystemSleep
  <2>1. UNCHANGED <<occurrences, runOf>> /\ handler'.at # "attach"
    BY <1>8 DEF startAutomations, ToggleAutomations, recoverAfterSystemSleep, evaluate, loop,
                Idle, store
  <2> QED BY <1>2, <2>1
<1>9. CASE Boot \/ pauseForSystemSleep \/ Stop \/ ShutdownRuns \/ NextSlot
  <2>1. UNCHANGED <<occurrences, runOf, handler>>
    BY <1>9 DEF Boot, pauseForSystemSleep, Stop, ShutdownRuns, NextSlot, store
  <2> QED BY <1>2, <2>1
<1>10. CASE Exit \/ Crash
  <2>1. UNCHANGED <<occurrences, runOf>> /\ handler'.at # "attach"
    BY <1>10 DEF Exit, Crash, gone, Idle, store
  <2> QED BY <1>2, <2>1
<1>11. ASSUME NEW r \in live, \/ \E status \in {"succeeded", "failed"} : EndRun(r, status)
                              \/ DiscardRun(r)
       PROVE StepOnRows
  <2>1. CASE DiscardRun(r)
    <3>1. UNCHANGED <<occurrences, runOf, handler>>
      BY <2>1 DEF DiscardRun, store
    <3> QED BY <1>2, <3>1
  <2> QED BY <1>11, <2>1, EndOnRows
<1>12. CASE UNCHANGED vars
  <2>1. UNCHANGED <<occurrences, runOf, handler>>
    BY <1>12 DEF vars, store
  <2> QED BY <1>2, <2>1
<1> QED BY <1>1, <1>3, <1>4, <1>5, <1>6, <1>7, <1>8, <1>9, <1>10, <1>11, <1>12 DEF Next

-----------------------------------------------------------------------------
(* A settled row stays as it is, whatever the step.                         *)
LEMMA SettledRowsStay ==
  ASSUME CoreInv, StepOnRows, NEW o \in Rows, occurrences[o].status \in Settled
  PROVE  occurrences'[o] = occurrences[o]
<1>0. TypeOK
  BY DEF CoreInv
<1>1. CASE Rests
  BY <1>1 DEF Rests
<1>2. ASSUME NEW p \in Rows, NEW status \in Statuses, Writes(p, status)
      PROVE  occurrences'[o] = occurrences[o]
  <2>1. o # p /\ setStatus(p, status)
    BY <1>2 DEF Writes
  <2> QED BY <1>0, <2>1, SetStatusFacts
<1>3. ASSUME NEW t \in Triggers, NEW reason \in Reasons, NEW slot \in Nat, Adds(t, reason, slot)
      PROVE  occurrences'[o] = occurrences[o]
  <2>1. insert(t, reason, slot)
    BY <1>3 DEF Adds
  <2> QED BY <1>0, <2>1, InsertFacts
<1>4. ASSUME NEW p \in Rows, Reserves(p) \/ Names(p)
      PROVE  occurrences'[o] = occurrences[o]
  <2>1. o # p
    BY <1>4 DEF Reserves, Names, Settled
  <2>2. \E row : occurrences' = [occurrences EXCEPT ![p] = row]
    BY <1>4 DEF Reserves, Names
  <2>3. occurrences \in Seq(Occurrence) /\ o \in DOMAIN occurrences
    BY <1>0, LenProperties DEF TypeOK, Rows
  <2> QED BY <2>1, <2>2, <2>3
<1> QED BY <1>1, <1>2, <1>3, <1>4 DEF StepOnRows

(* A run that is new is for an open row of an enabled trigger, with         *)
(* automations on.                                                          *)
LEMMA NewRunsAreForOpenRows ==
  ASSUME CoreInv, StepOnRows
  PROVE  \/ UNCHANGED runOf
         \/ \E o \in Rows : /\ Names(o)
                            /\ Len(runOf') = Len(runOf) + 1
                            /\ \A r \in 1 .. Len(runOf) : runOf'[r] = runOf[r]
                            /\ runOf'[Len(runOf) + 1] = o
<1>1. ASSUME NEW o \in Rows, Names(o)
      PROVE  /\ Len(runOf') = Len(runOf) + 1
             /\ \A r \in 1 .. Len(runOf) : runOf'[r] = runOf[r]
             /\ runOf'[Len(runOf) + 1] = o
  <2>1. runOf' = Append(runOf, o) /\ runOf \in Seq(Rows)
    BY <1>1 DEF Names, CoreInv, TypeOK, Rows
  <2> QED BY <2>1, AppendProperties
<1> QED BY <1>1 DEF StepOnRows, Rests, Writes, Adds, Reserves

LEMMA SettledStep ==
  ASSUME CoreInv, StepOnRows
  PROVE  \A o \in 1 .. Len(occurrences) :
           occurrences[o].status \in Settled
           => /\ occurrences'[o] = occurrences[o]
              /\ \A r \in 1 .. Len(runOf') : runOf'[r] = o => r <= Len(runOf)
<1> SUFFICES ASSUME NEW o \in Rows, occurrences[o].status \in Settled
             PROVE  /\ occurrences'[o] = occurrences[o]
                    /\ \A r \in 1 .. Len(runOf') : runOf'[r] = o => r <= Len(runOf)
  BY DEF Rows
<1>1. occurrences'[o] = occurrences[o]
  BY SettledRowsStay
<1>2. Len(runOf) \in Nat
  BY RowFacts DEF CoreInv
<1>3. CASE UNCHANGED runOf
  BY <1>1, <1>2, <1>3
<1>4. ASSUME NEW p \in Rows, Names(p), Len(runOf') = Len(runOf) + 1, runOf'[Len(runOf) + 1] = p
      PROVE  \A r \in 1 .. Len(runOf') : runOf'[r] = o => r <= Len(runOf)
  <2>1. o # p
    BY <1>4 DEF Names, Settled
  <2> QED BY <1>2, <1>4, <2>1
<1> QED BY <1>1, <1>3, <1>4, NewRunsAreForOpenRows

LEMMA DisabledStep ==
  ASSUME CoreInv, StepOnRows
  PROVE  Len(runOf') > Len(runOf)
         => automations /\ enabled[occurrences[runOf'[Len(runOf')]].trigger]
<1>1. Len(runOf) \in Nat
  BY RowFacts DEF CoreInv
<1>2. ASSUME NEW o \in Rows, Names(o), Len(runOf') = Len(runOf) + 1, runOf'[Len(runOf) + 1] = o
      PROVE  automations /\ enabled[occurrences[runOf'[Len(runOf')]].trigger]
  BY <1>2 DEF Names
<1> QED BY <1>1, <1>2, NewRunsAreForOpenRows

(* A run starts only for an occurrence that is still open, of a trigger     *)
(* that is enabled, with automations on; what settled stays as it is.  So   *)
(* no crash, stop, replay of a slot or recovery pass runs a settled         *)
(* occurrence again, and none runs a leftover of a trigger switched off.    *)
THEOREM LaunchesAreAllowedHolds == Spec => LaunchesAreAllowed
<1>1. CoreInv /\ [Next]_vars
      => [\A o \in 1 .. Len(occurrences) :
            occurrences[o].status \in Settled
            => /\ occurrences'[o] = occurrences[o]
               /\ \A r \in 1 .. Len(runOf') : runOf'[r] = o => r <= Len(runOf)]_vars
  BY StepsOnRows, SettledStep
<1>2. CoreInv /\ [Next]_vars
      => [Len(runOf') > Len(runOf)
          => automations /\ enabled[occurrences[runOf'[Len(runOf')]].trigger]]_vars
  BY StepsOnRows, DisabledStep
<1>3. Spec => SettledStaysSettled
  BY <1>1, CoreInvariant, PTL DEF Spec, SettledStaysSettled
<1>4. Spec => DisabledStartsNothing
  BY <1>2, CoreInvariant, PTL DEF Spec, DisabledStartsNothing
<1> QED BY <1>3, <1>4 DEF LaunchesAreAllowed

-----------------------------------------------------------------------------
(* The attempt budget. *)

Launches(o) == {r \in 1 .. Len(runOf) : runOf[r] = o}

(* A schedule has one row for a slot. *)
SlotInv ==
  \A o, p \in Rows :
    /\ occurrences[o].reason = "cron" /\ occurrences[p].reason = "cron"
    /\ occurrences[o].trigger = occurrences[p].trigger
    /\ occurrences[o].slot = occurrences[p].slot
    => o = p

(* A row counts its launches, and one more while its run is yet to be named. *)
BudgetInv ==
  \A o \in Rows :
    /\ Cardinality(Launches(o)) <= occurrences[o].attempt
    /\ handler.at = "attach" /\ handler.occ = o
       => Cardinality(Launches(o)) + 1 <= occurrences[o].attempt

(* Every row keeps its trigger, reason and slot; only Adds makes a new one.  *)
LEMMA RowsKeepTheirSlot ==
  ASSUME CoreInv, StepOnRows
  PROVE  /\ \A o \in Rows : /\ occurrences'[o].trigger = occurrences[o].trigger
                            /\ occurrences'[o].reason = occurrences[o].reason
                            /\ occurrences'[o].slot = occurrences[o].slot
         /\ \/ Len(occurrences') = Len(occurrences)
            \/ \E t \in Triggers, reason \in Reasons, slot \in Nat : Adds(t, reason, slot)
<1>0. TypeOK /\ occurrences \in Seq(Occurrence) /\ Len(occurrences) \in Nat
  BY RowFacts DEF CoreInv, TypeOK
<1> DEFINE same(o) == /\ occurrences'[o].trigger = occurrences[o].trigger
                      /\ occurrences'[o].reason = occurrences[o].reason
                      /\ occurrences'[o].slot = occurrences[o].slot
<1>1. CASE Rests
  BY <1>1 DEF Rests
<1>2. ASSUME NEW p \in Rows, NEW status \in Statuses, Writes(p, status)
      PROVE  (\A o \in Rows : same(o)) /\ Len(occurrences') = Len(occurrences)
  <2>1. /\ Len(occurrences') = Len(occurrences)
        /\ occurrences'[p] = [occurrences[p] EXCEPT !.status = status]
        /\ \A o \in Rows \ {p} : occurrences'[o] = occurrences[o]
    BY <1>0, <1>2, SetStatusFacts DEF Writes
  <2>2. occurrences[p] \in Occurrence
    BY <1>0, RowFacts
  <2>3. same(p)
    BY <2>1, <2>2 DEF Occurrence
  <2> QED BY <2>1, <2>3
<1>3. ASSUME NEW t \in Triggers, NEW reason \in Reasons, NEW slot \in Nat, Adds(t, reason, slot)
      PROVE  \A o \in Rows : same(o)
  <2>1. insert(t, reason, slot)
    BY <1>3 DEF Adds
  <2>2. \A o \in Rows : occurrences'[o] = occurrences[o]
    BY <1>0, <2>1, InsertFacts
  <2> QED BY <2>2
<1>4. ASSUME NEW p \in Rows, Reserves(p) \/ Names(p)
      PROVE  (\A o \in Rows : same(o)) /\ Len(occurrences') = Len(occurrences)
  <2>1. occurrences[p] \in Occurrence /\ p \in DOMAIN occurrences
    BY <1>0, RowFacts DEF Rows
  <2>2. PICK row : /\ occurrences' = [occurrences EXCEPT ![p] = row]
                   /\ row.trigger = occurrences[p].trigger
                   /\ row.reason = occurrences[p].reason
                   /\ row.slot = occurrences[p].slot
    <3>1. CASE Reserves(p)
      <4> DEFINE new == [occurrences[p] EXCEPT !.status = "running",
                                               !.attempt = occurrences[p].attempt + 1]
      <4>1. occurrences' = [occurrences EXCEPT ![p] = new]
        BY <3>1 DEF Reserves
      <4>2. /\ new.trigger = occurrences[p].trigger /\ new.reason = occurrences[p].reason
            /\ new.slot = occurrences[p].slot
        BY <2>1 DEF Occurrence
      <4> HIDE DEF new
      <4> QED BY <4>1, <4>2
    <3>2. CASE Names(p)
      <4> DEFINE new == [occurrences[p] EXCEPT !.run = Len(runOf) + 1]
      <4>1. occurrences' = [occurrences EXCEPT ![p] = new]
        BY <3>2 DEF Names
      <4>2. /\ new.trigger = occurrences[p].trigger /\ new.reason = occurrences[p].reason
            /\ new.slot = occurrences[p].slot
        BY <2>1 DEF Occurrence
      <4> HIDE DEF new
      <4> QED BY <4>1, <4>2
    <3> QED BY <1>4, <3>1, <3>2
  <2>3. /\ Len(occurrences') = Len(occurrences)
        /\ occurrences'[p] = row
        /\ \A o \in Rows \ {p} : occurrences'[o] = occurrences[o]
    <3>1. /\ DOMAIN occurrences' = DOMAIN occurrences
          /\ occurrences'[p] = row
          /\ \A o \in DOMAIN occurrences \ {p} : occurrences'[o] = occurrences[o]
      BY <1>0, <2>1, <2>2
    <3>2. DOMAIN occurrences = Rows
      BY <1>0 DEF Rows
    <3>3. Len(occurrences') = Len(occurrences)
      BY <1>0, <2>2
    <3> QED BY <3>1, <3>2, <3>3
  <2> QED BY <2>2, <2>3
<1> QED BY <1>1, <1>2, <1>3, <1>4 DEF StepOnRows, Rests

LEMMA SlotStep ==
  ASSUME CoreInv, SlotInv, StepOnRows
  PROVE  SlotInv'
<1>0. TypeOK /\ Len(occurrences) \in Nat
  BY RowFacts DEF CoreInv
<1>1. CASE Len(occurrences') = Len(occurrences)
  BY <1>1, RowsKeepTheirSlot DEF SlotInv, Rows
<1>2. ASSUME NEW t \in Triggers, NEW reason \in Reasons, NEW slot \in Nat, Adds(t, reason, slot)
      PROVE  SlotInv'
  <2> DEFINE n == Len(occurrences) + 1
  <2>1. /\ Len(occurrences') = n
        /\ \A o \in Rows : occurrences'[o] = occurrences[o]
        /\ occurrences'[n] = [trigger |-> t, reason |-> reason, slot |-> slot,
                              status |-> "pending", attempt |-> 0, run |-> NoRun]
    <3>1. insert(t, reason, slot)
      BY <1>2 DEF Adds
    <3> QED BY <1>0, <3>1, InsertFacts
  <2>2. occurrences'[n].trigger = t /\ occurrences'[n].reason = reason
        /\ occurrences'[n].slot = slot
    BY <2>1
  <2>3. \A o \in Rows : ~(/\ reason = "cron"
                          /\ occurrences[o].reason = "cron" /\ occurrences[o].trigger = t
                          /\ occurrences[o].slot = slot)
    BY <1>2 DEF Adds, findScheduledOccurrence, Rows
  <2>4. \A o \in 1 .. Len(occurrences') : o \in Rows \/ o = n
    BY <1>0, <2>1 DEF Rows
  <2> HIDE DEF n
  <2> QED BY <2>1, <2>2, <2>3, <2>4 DEF SlotInv, Rows
<1> QED BY <1>1, <1>2, RowsKeepTheirSlot

(* The launches of a row are runs among those there are.                    *)
LEMMA LaunchesFinite ==
  ASSUME CoreInv, NEW o \in Rows
  PROVE  IsFiniteSet(Launches(o)) /\ Cardinality(Launches(o)) \in Nat
<1>1. Len(runOf) \in Nat
  BY RowFacts DEF CoreInv
<1>2. IsFiniteSet(1 .. Len(runOf))
  BY <1>1, FS_Interval
<1>3. Launches(o) \subseteq 1 .. Len(runOf)
  BY DEF Launches
<1> QED BY <1>2, <1>3, FS_Subset, FS_CardinalityType

(* A step that leaves the runs and the attempts, and reserves none.         *)
LEMMA BudgetKept ==
  ASSUME CoreInv, BudgetInv, UNCHANGED runOf, Len(occurrences') = Len(occurrences),
         \A o \in Rows : occurrences'[o].attempt = occurrences[o].attempt,
         handler'.at = "attach" => handler' = handler
  PROVE  BudgetInv'
<1>1. Rows' = Rows /\ \A o : Launches(o)' = Launches(o)
  BY DEF Rows, Launches
<1> HIDE DEF Launches
<1> QED BY <1>1 DEF BudgetInv

LEMMA BudgetStep ==
  ASSUME CoreInv, BudgetInv, StepOnRows
  PROVE  BudgetInv'
<1>0. TypeOK /\ Len(occurrences) \in Nat /\ Len(runOf) \in Nat
      /\ \A o \in Rows : occurrences[o] \in Occurrence
  BY RowFacts DEF CoreInv
<1>1. CASE Rests
  BY <1>1, BudgetKept DEF Rests
<1>2. ASSUME NEW p \in Rows, NEW status \in Statuses, Writes(p, status)
      PROVE  BudgetInv'
  <2>1. /\ Len(occurrences') = Len(occurrences)
        /\ occurrences'[p] = [occurrences[p] EXCEPT !.status = status]
        /\ \A o \in Rows \ {p} : occurrences'[o] = occurrences[o]
    BY <1>0, <1>2, SetStatusFacts DEF Writes
  <2>2. \A o \in Rows : occurrences'[o].attempt = occurrences[o].attempt
    BY <1>0, <2>1 DEF Occurrence
  <2> QED BY <1>2, <2>1, <2>2, BudgetKept DEF Writes
<1>3. ASSUME NEW t \in Triggers, NEW reason \in Reasons, NEW slot \in Nat, Adds(t, reason, slot)
      PROVE  BudgetInv'
  <2> DEFINE n == Len(occurrences) + 1
  <2>1. /\ Len(occurrences') = n
        /\ \A o \in Rows : occurrences'[o] = occurrences[o]
        /\ occurrences'[n].attempt = 0
    <3>1. insert(t, reason, slot)
      BY <1>3 DEF Adds
    <3>2. /\ Len(occurrences') = n
          /\ \A o \in Rows : occurrences'[o] = occurrences[o]
          /\ occurrences'[n] = [trigger |-> t, reason |-> reason, slot |-> slot,
                                status |-> "pending", attempt |-> 0, run |-> NoRun]
      BY <1>0, <3>1, InsertFacts
    <3> QED BY <3>2
  <2>2. \A o : Launches(o)' = Launches(o)
    BY <1>3 DEF Adds, Launches
  <2>3. Cardinality(Launches(n)) = 0
    <3>1. Launches(n) = {}
      BY <1>0, RowFacts DEF Launches, Rows
    <3> QED BY <3>1, FS_EmptySet
  <2>4. \A o \in 1 .. Len(occurrences') : o \in Rows \/ o = n
    BY <1>0, <2>1 DEF Rows
  <2>5. handler'.at # "attach"
    BY <1>3 DEF Adds
  <2> HIDE DEF Launches, n
  <2> QED BY <2>1, <2>2, <2>3, <2>4, <2>5 DEF BudgetInv, Rows
<1>4. ASSUME NEW p \in Rows, Reserves(p)
      PROVE  BudgetInv'
  <2> DEFINE new == [occurrences[p] EXCEPT !.status = "running",
                                           !.attempt = occurrences[p].attempt + 1]
  <2>1. /\ Len(occurrences') = Len(occurrences)
        /\ occurrences'[p] = new
        /\ \A o \in Rows \ {p} : occurrences'[o] = occurrences[o]
    <3>1. occurrences' = [occurrences EXCEPT ![p] = new]
      BY <1>4 DEF Reserves
    <3>2. new \in Occurrence
      BY <1>0, <1>4 DEF Reserves, Occurrence, Statuses
    <3> HIDE DEF new
    <3> QED BY <1>0, <3>1, <3>2, UpdateFacts
  <2>2. new.attempt = occurrences[p].attempt + 1 /\ occurrences[p].attempt \in Nat
    BY <1>0, MaxAttemptsAssumption DEF Occurrence
  <2>3. handler'.occ = p /\ UNCHANGED runOf
    BY <1>4 DEF Reserves
  <2>4. Rows' = Rows /\ \A o : Launches(o)' = Launches(o)
    BY <2>1, <2>3 DEF Rows, Launches
  <2>5. Cardinality(Launches(p)) \in Nat /\ Cardinality(Launches(p)) <= occurrences[p].attempt
    BY LaunchesFinite DEF BudgetInv
  <2> HIDE DEF Launches, new
  <2>6. /\ Cardinality(Launches(p)) <= occurrences'[p].attempt
        /\ Cardinality(Launches(p)) + 1 <= occurrences'[p].attempt
    BY <2>1, <2>2, <2>5
  <2>7. \A o \in Rows \ {p} : Cardinality(Launches(o)) <= occurrences'[o].attempt
    BY <2>1 DEF BudgetInv
  <2> QED BY <2>3, <2>4, <2>6, <2>7 DEF BudgetInv
<1>5. ASSUME NEW p \in Rows, Names(p)
      PROVE  BudgetInv'
  <2> DEFINE new == [occurrences[p] EXCEPT !.run = Len(runOf) + 1]
  <2>1. /\ Len(occurrences') = Len(occurrences)
        /\ occurrences'[p] = new
        /\ \A o \in Rows \ {p} : occurrences'[o] = occurrences[o]
    <3>1. occurrences' = [occurrences EXCEPT ![p] = new]
      BY <1>5 DEF Names
    <3>2. new \in Occurrence
      BY <1>0 DEF Occurrence
    <3> HIDE DEF new
    <3> QED BY <1>0, <3>1, <3>2, UpdateFacts
  <2>2. new.attempt = occurrences[p].attempt
    BY <1>0 DEF Occurrence
  <2>3. /\ Len(runOf') = Len(runOf) + 1
        /\ \A r \in 1 .. Len(runOf) : runOf'[r] = runOf[r]
        /\ runOf'[Len(runOf) + 1] = p
    <3>1. runOf' = Append(runOf, p) /\ runOf \in Seq(Rows)
      BY <1>0, <1>5 DEF Names, TypeOK, Rows
    <3> QED BY <3>1, AppendProperties
  <2>4. Launches(p)' = Launches(p) \cup {Len(runOf) + 1} /\ Len(runOf) + 1 \notin Launches(p)
    BY <1>0, <2>3 DEF Launches
  <2>5. \A o \in Rows \ {p} : Launches(o)' = Launches(o)
    BY <1>0, <2>3 DEF Launches
  <2>6. /\ Rows' = Rows /\ handler'.at # "attach"
        /\ handler.at = "attach" /\ handler.occ = p
    BY <1>5, <2>1 DEF Rows, Names
  <2>7. Cardinality(Launches(p)') = Cardinality(Launches(p)) + 1
    <3>1. IsFiniteSet(Launches(p))
      BY LaunchesFinite
    <3> HIDE DEF Launches
    <3> QED BY <2>4, <3>1, FS_AddElement
  <2> HIDE DEF Launches, new
  <2>8. Cardinality(Launches(p)') <= occurrences'[p].attempt
    BY <2>1, <2>2, <2>6, <2>7 DEF BudgetInv
  <2>9. \A o \in Rows \ {p} : Cardinality(Launches(o)') <= occurrences'[o].attempt
    BY <2>1, <2>5 DEF BudgetInv
  <2> QED BY <2>6, <2>8, <2>9 DEF BudgetInv
<1> QED BY <1>1, <1>2, <1>3, <1>4, <1>5 DEF StepOnRows

(* The launches of a slot are those of its only row, which are within the   *)
(* attempts of the row.                                                     *)
LEMMA BudgetFollows ==
  ASSUME CoreInv, SlotInv, BudgetInv
  PROVE  BudgetPerSlot
<1> SUFFICES ASSUME NEW t \in CronTriggers, NEW slot \in 0 .. MaxTime
             PROVE  Cardinality({r \in 1 .. Len(runOf) :
                                   runOf[r] \in findScheduledOccurrence(t, slot)}) <= MaxAttempts
  BY DEF BudgetPerSlot, CoreInv
<1> DEFINE launched == {r \in 1 .. Len(runOf) : runOf[r] \in findScheduledOccurrence(t, slot)}
<1>1. CASE findScheduledOccurrence(t, slot) = {}
  <2>1. launched = {}
    BY <1>1
  <2> QED BY <2>1, FS_EmptySet, MaxAttemptsAssumption
<1>2. CASE findScheduledOccurrence(t, slot) # {}
  <2>1. PICK o \in Rows : o \in findScheduledOccurrence(t, slot)
    BY <1>2 DEF findScheduledOccurrence, Rows
  <2>2. findScheduledOccurrence(t, slot) = {o}
    BY <2>1 DEF findScheduledOccurrence, SlotInv, Rows
  <2>3. launched = Launches(o)
    BY <2>2 DEF Launches
  <2>4. occurrences[o].attempt \in 0 .. MaxAttempts
    BY RowFacts DEF CoreInv, Occurrence
  <2>5. Cardinality(Launches(o)) \in Nat /\ Cardinality(Launches(o)) <= occurrences[o].attempt
    BY LaunchesFinite DEF BudgetInv
  <2> HIDE DEF Launches, launched
  <2>6. Cardinality(launched) <= MaxAttempts
    BY <2>3, <2>4, <2>5, MaxAttemptsAssumption
  <2> QED BY <2>6 DEF launched
<1> QED BY <1>1, <1>2

(* However often the process crashes, stops or asks for a slot again, a     *)
(* slot of a schedule is launched at most MaxAttempts times.                *)
THEOREM BudgetPerSlotHolds == Spec => []BudgetPerSlot
<1>1. Init => SlotInv /\ BudgetInv
  <2> SUFFICES ASSUME Init PROVE SlotInv /\ BudgetInv
    OBVIOUS
  <2>1. Rows = {}
    BY EmptySeq DEF Init, Rows
  <2> QED BY <2>1 DEF SlotInv, BudgetInv
<1>2. CoreInv /\ SlotInv /\ BudgetInv /\ [Next]_vars => SlotInv' /\ BudgetInv'
  BY StepsOnRows, SlotStep, BudgetStep
<1>3. CoreInv /\ SlotInv /\ BudgetInv => BudgetPerSlot
  BY BudgetFollows
<1> QED BY <1>1, <1>2, <1>3, CoreInvariant, PTL DEF Spec

-----------------------------------------------------------------------------
(* What a step writes to a row besides its status and attempts. *)

Keeps(o) ==
  /\ occurrences'[o].trigger = occurrences[o].trigger
  /\ occurrences'[o].reason = occurrences[o].reason
  /\ occurrences'[o].slot = occurrences[o].slot
  /\ occurrences'[o].run = occurrences[o].run

Touches(o) ==
  /\ Len(occurrences') = Len(occurrences)
  /\ Keeps(o)
  /\ \A p \in Rows \ {o} : occurrences'[p] = occurrences[p]

LEMMA StatusTouches ==
  ASSUME TypeOK, NEW o \in Rows, NEW status \in Statuses,
         setStatus(o, status) \/ UNCHANGED occurrences
  PROVE  Touches(o)
<1>1. CASE UNCHANGED occurrences
  BY <1>1 DEF Touches, Keeps
<1>2. CASE setStatus(o, status)
  <2>1. occurrences[o] \in Occurrence
    BY RowFacts
  <2>2. /\ Len(occurrences') = Len(occurrences)
        /\ occurrences'[o] = [occurrences[o] EXCEPT !.status = status]
        /\ \A p \in Rows \ {o} : occurrences'[p] = occurrences[p]
    BY <1>2, SetStatusFacts
  <2> QED BY <2>1, <2>2 DEF Touches, Keeps, Occurrence
<1> QED BY <1>1, <1>2

LEMMA ProceedClears ==
  ASSUME TypeOK, proceed
  PROVE  /\ handler'.at \in {"idle", "loop"}
         /\ handler'.orphans \subseteq handler.orphans
         /\ handler'.checks \subseteq handler.checks
         /\ handler'.at = "idle" => handler'.orphans = {} /\ handler'.checks = {}
BY DEF TypeOK, proceed, Handler, Idle, NoOcc

LEMMA BeginTouches ==
  ASSUME CoreInv, beginOccurrence
  PROVE  /\ Touches(handler.occ)
         /\ \/ proceed
            \/ /\ handler'.at = "attach" /\ handler'.occ = handler.occ
               /\ handler'.orphans = handler.orphans /\ handler'.checks = handler.checks
<1> DEFINE o == handler.occ
           row == occurrences[o]
<1>1. o \in Rows /\ row \in Occurrence /\ TypeOK /\ "dead" \in Statuses
  BY RowFacts DEF beginOccurrence, CoreInv, HandlerInv, Statuses
<1>2. CASE row.status \in Settled \/ ~automations \/ row.attempt >= MaxAttempts
  <2>1. proceed /\ (setStatus(o, "dead") \/ UNCHANGED occurrences)
    BY <1>2 DEF beginOccurrence
  <2> HIDE DEF o
  <2>2. Touches(o)
    BY <1>1, <2>1, StatusTouches
  <2> QED BY <2>1, <2>2 DEF o
<1>3. CASE ~(row.status \in Settled \/ ~automations \/ row.attempt >= MaxAttempts)
  <2> DEFINE new == [row EXCEPT !.status = "running", !.attempt = row.attempt + 1]
  <2>1. occurrences' = [occurrences EXCEPT ![o] = new] /\ handler' = [handler EXCEPT !.at = "attach"]
    BY <1>3 DEF beginOccurrence
  <2>2. row.attempt + 1 \in 0 .. MaxAttempts
    BY <1>1, <1>3, MaxAttemptsAssumption DEF Occurrence
  <2> HIDE DEF row
  <2>3. new \in Occurrence /\ new.run = row.run /\ new.trigger = row.trigger
        /\ new.reason = row.reason /\ new.slot = row.slot
    BY <1>1, <2>2 DEF Occurrence, Statuses
  <2> HIDE DEF new, o
  <2>4. Touches(o)
    BY <1>1, <2>1, <2>3, UpdateFacts DEF Touches, Keeps, row
  <2>5. /\ handler'.at = "attach" /\ handler'.occ = handler.occ
        /\ handler'.orphans = handler.orphans /\ handler'.checks = handler.checks
    BY <1>1, <2>1 DEF TypeOK, Handler
  <2> QED BY <2>4, <2>5 DEF o
<1> QED BY <1>2, <1>3

(* The second transaction gives the row its run, or writes it off. *)
Attaches(o) ==
  /\ Len(occurrences') = Len(occurrences)
  /\ occurrences'[o] = [occurrences[o] EXCEPT !.run = Len(runOf) + 1]
  /\ \A p \in Rows \ {o} : occurrences'[p] = occurrences[p]
  /\ lastRun' = [lastRun EXCEPT ![occurrences[o].trigger] = now]
  /\ handler'.at = "start" /\ handler'.occ = o
  /\ handler'.orphans = handler.orphans /\ handler'.checks = handler.checks

LEMMA AttachTouches ==
  ASSUME CoreInv, attachRun
  PROVE  \/ Touches(handler.occ) /\ proceed /\ UNCHANGED <<runOf, lastRun>>
         \/ Attaches(handler.occ)
<1> DEFINE o == handler.occ
           row == occurrences[o]
<1>1. /\ o \in Rows /\ row \in Occurrence /\ TypeOK /\ "dead" \in Statuses
      /\ Len(runOf) \in Nat
  BY RowFacts DEF attachRun, CoreInv, HandlerInv, Statuses
<1>2. CASE ~enabled[row.trigger]
  <2>1. proceed /\ setStatus(o, "dead") /\ UNCHANGED <<runOf, lastRun>>
    BY <1>2 DEF attachRun
  <2> HIDE DEF o
  <2>2. Touches(o)
    BY <1>1, <2>1, StatusTouches
  <2> QED BY <2>1, <2>2 DEF o
<1>3. CASE enabled[row.trigger]
  <2> DEFINE new == [row EXCEPT !.run = Len(runOf) + 1]
  <2>1. /\ occurrences' = [occurrences EXCEPT ![o] = new]
        /\ lastRun' = [lastRun EXCEPT ![row.trigger] = now]
        /\ handler' = [handler EXCEPT !.at = "start"]
    BY <1>3 DEF attachRun
  <2>2. new \in Occurrence
    BY <1>1 DEF Occurrence
  <2> HIDE DEF new
  <2>3. /\ Len(occurrences') = Len(occurrences)
        /\ occurrences'[o] = new
        /\ \A p \in Rows \ {o} : occurrences'[p] = occurrences[p]
    BY <1>1, <2>1, <2>2, UpdateFacts
  <2>4. /\ handler'.at = "start" /\ handler'.occ = o
        /\ handler'.orphans = handler.orphans /\ handler'.checks = handler.checks
    BY <1>1, <2>1 DEF TypeOK, Handler
  <2> QED BY <2>1, <2>3, <2>4 DEF Attaches, new
<1> QED BY <1>2, <1>3

(* The end of a run is written to the row the run is for.                   *)
LEMMA EndTouches ==
  ASSUME CoreInv, NEW r \in live, NEW status \in {"succeeded", "failed"}, EndRun(r, status)
  PROVE  runOf[r] \in Rows /\ Touches(runOf[r])
<1> DEFINE o == CHOOSE o \in 1 .. Len(occurrences) : occurrences[o].run = r
<1>1. TypeOK /\ r \in 1 .. Len(runOf) /\ runOf[r] \in Rows /\ status \in Statuses
  BY RowFacts DEF CoreInv, TypeOK, Statuses
<1>2. CASE UNCHANGED occurrences
  BY <1>1, <1>2, StatusTouches
<1>3. CASE ~UNCHANGED occurrences
  <2>1. PICK p \in Rows : occurrences[p].run = r
    BY <1>3 DEF EndRun, completeOccurrenceByRunId, Rows
  <2>2. o \in Rows /\ occurrences[o].run = r
    BY <2>1 DEF Rows
  <2>3. setStatus(o, status)
    BY <1>3 DEF EndRun, completeOccurrenceByRunId
  <2> HIDE DEF o
  <2>4. o = runOf[r]
    BY <1>1, <2>2 DEF CoreInv, RunsInv, NoRun
  <2> QED BY <1>1, <2>3, <2>4, StatusTouches
<1> QED BY <1>1, <1>2, <1>3

-----------------------------------------------------------------------------
(* The slots pass.  A row that was given a run is of a slot its trigger has  *)
(* recorded, so a missed slot is never that of a run at work; nor is the     *)
(* slot a timer fires for, which has no row.                                 *)

SlotsPass ==
  /\ \A o \in Rows : /\ occurrences[o].slot <= now
                     /\ occurrences[o].reason = "cron" /\ occurrences[o].run # NoRun
                        => occurrences[o].slot <= lastRun[occurrences[o].trigger]
  /\ \A t \in Triggers : lastRun[t] <= now
  /\ \A t \in due : findScheduledOccurrence(t, now) = {}
  /\ handler.checks # {} => due = {}
  /\ handler.at = "idle" => handler.checks = {} /\ handler.orphans = {}

LEMMA InitSlots == Init => SlotsPass
<1> SUFFICES ASSUME Init PROVE SlotsPass
  OBVIOUS
<1>1. Rows = {}
  BY EmptySeq DEF Init, Rows
<1>2. \A t \in Triggers : lastRun[t] <= now
  BY DEF Init, Never
<1> QED BY <1>1, <1>2 DEF Init, SlotsPass, Idle

(* A step that at most writes statuses. *)
LEMMA SlotsStay ==
  ASSUME CoreInv, SlotsPass,
         Len(occurrences') = Len(occurrences), \A o \in Rows : Keeps(o),
         UNCHANGED <<lastRun, now>>, due' \subseteq due,
         handler'.checks # {} => due' = {},
         handler'.at = "idle" => handler'.checks = {} /\ handler'.orphans = {}
  PROVE  SlotsPass'
<1>1. \A t \in due' : findScheduledOccurrence(t, now)' = {}
  BY DEF SlotsPass, findScheduledOccurrence, Keeps, Rows
<1> QED BY <1>1 DEF SlotsPass, Keeps, Rows

LEMMA SlotsTouched ==
  ASSUME CoreInv, SlotsPass, NEW o \in Rows, Touches(o),
         UNCHANGED <<lastRun, now>>, due' \subseteq due,
         handler'.checks # {} => due' = {},
         handler'.at = "idle" => handler'.checks = {} /\ handler'.orphans = {}
  PROVE  SlotsPass'
<1>1. Len(occurrences') = Len(occurrences) /\ \A p \in Rows : Keeps(p)
  BY DEF Touches, Keeps
<1> QED BY <1>1, SlotsStay

LEMMA SlotsUntouched ==
  ASSUME CoreInv, SlotsPass, UNCHANGED <<occurrences, lastRun, now>>, due' \subseteq due,
         handler'.checks # {} => due' = {},
         handler'.at = "idle" => handler'.checks = {} /\ handler'.orphans = {}
  PROVE  SlotsPass'
<1>1. Len(occurrences') = Len(occurrences) /\ \A p \in Rows : Keeps(p)
  BY DEF Keeps
<1> QED BY <1>1, SlotsStay

(* A new row: of a schedule and its slot, or of a request.                  *)
LEMMA SlotsInserted ==
  ASSUME CoreInv, SlotsPass, NEW t \in Triggers, NEW reason \in Reasons, NEW slot \in Nat,
         insert(t, reason, slot), slot <= now,
         \A u \in due' : reason = "cron" /\ slot = now => u # t,
         UNCHANGED <<lastRun, now>>, due' \subseteq due,
         handler'.checks # {} => due' = {}, handler'.at = "begin"
  PROVE  SlotsPass'
<1>1. /\ Len(occurrences) \in Nat
      /\ Len(occurrences') = Len(occurrences) + 1
      /\ \A o \in Rows : occurrences'[o] = occurrences[o]
      /\ occurrences'[Len(occurrences) + 1] =
           [trigger |-> t, reason |-> reason, slot |-> slot, status |-> "pending",
            attempt |-> 0, run |-> NoRun]
  BY InsertFacts DEF CoreInv
<1>2. \A o \in Rows' : o \in Rows \/ o = Len(occurrences) + 1
  BY <1>1 DEF Rows
<1>3. \A o \in Rows' :
        /\ occurrences'[o].slot <= now
        /\ occurrences'[o].reason = "cron" /\ occurrences'[o].run # NoRun
           => occurrences'[o].slot <= lastRun[occurrences'[o].trigger]
  BY <1>1, <1>2 DEF SlotsPass
<1>4. \A u \in due' : findScheduledOccurrence(u, now)' = {}
  <2> SUFFICES ASSUME NEW u \in due', NEW o \in Rows', o \in findScheduledOccurrence(u, now)'
               PROVE  FALSE
    BY DEF findScheduledOccurrence, Rows
  <2>1. CASE o \in Rows
    <3>1. o \in findScheduledOccurrence(u, now)
      BY <1>1, <2>1 DEF findScheduledOccurrence, Rows
    <3> QED BY <3>1 DEF SlotsPass
  <2>2. CASE o = Len(occurrences) + 1
    BY <1>1, <2>2 DEF findScheduledOccurrence
  <2> QED BY <1>2, <2>1, <2>2
<1> QED BY <1>3, <1>4 DEF SlotsPass

LEMMA SlotsScheduled ==
  ASSUME CoreInv, SlotsPass, NEW t \in CronTriggers, NEW slot \in Nat,
         NEW checks \in SUBSET CronTriggers, schedule(t, slot, checks), slot <= now,
         slot = now => t \notin due',
         UNCHANGED <<lastRun, now>>, due' \subseteq due, checks # {} => due' = {}
  PROVE  SlotsPass'
<1>1. t \in Triggers /\ "cron" \in Reasons
  BY DEF Triggers, Reasons
<1>2. /\ \/ UNCHANGED occurrences
         \/ insert(t, "cron", slot)
      /\ handler'.at = "begin" /\ handler'.checks = checks
  BY ScheduleFacts DEF CoreInv
<1>3. CASE UNCHANGED occurrences
  BY <1>2, <1>3, SlotsUntouched
<1>4. CASE insert(t, "cron", slot)
  BY <1>1, <1>2, <1>4, SlotsInserted
<1> QED BY <1>2, <1>3, <1>4

LEMMA SlotsLaunched ==
  ASSUME CoreInv, SlotsPass, beginOccurrence \/ attachRun \/ startRun
  PROVE  SlotsPass'
<1> DEFINE o == handler.occ
<1>0. /\ o \in Rows /\ TypeOK /\ "failed" \in Statuses /\ occurrences[o] \in Occurrence
  BY RowFacts DEF beginOccurrence, attachRun, startRun, CoreInv, HandlerInv, Statuses
<1>1. UNCHANGED <<now, due>>
  BY DEF beginOccurrence, attachRun, startRun, scheduler, world
<1>2. \/ proceed \/ handler' = Idle
      \/ handler'.at # "idle" /\ handler'.checks = handler.checks
      => /\ handler'.checks # {} => due' = {}
         /\ handler'.at = "idle" => handler'.checks = {} /\ handler'.orphans = {}
  BY <1>0, <1>1, ProceedClears DEF SlotsPass, Idle
<1>3. CASE beginOccurrence
  <2>1. UNCHANGED lastRun
    BY <1>3 DEF beginOccurrence
  <2> QED BY <1>0, <1>1, <1>2, <1>3, <2>1, BeginTouches, SlotsTouched
<1>4. CASE startRun
  <2>1. (setStatus(o, "failed") \/ UNCHANGED occurrences) /\ (proceed \/ handler' = Idle)
        /\ UNCHANGED lastRun
    BY <1>4 DEF startRun
  <2> HIDE DEF o
  <2>2. Touches(o)
    BY <1>0, <2>1, StatusTouches
  <2> QED BY <1>0, <1>1, <1>2, <2>1, <2>2, SlotsTouched
<1>5. CASE attachRun
  <2>1. CASE Touches(o) /\ proceed /\ UNCHANGED <<runOf, lastRun>>
    BY <1>0, <1>1, <1>2, <2>1, SlotsTouched
  <2>2. CASE Attaches(o)
    <3> HIDE DEF o
    <3> DEFINE u == occurrences[o].trigger
    <3>0. u \in Triggers /\ now \in Nat /\ lastRun \in [Triggers -> Nat \cup {Never}]
      BY <1>0 DEF Occurrence, TypeOK
    <3>1. /\ Rows' = Rows
          /\ \A p \in Rows : /\ occurrences'[p].trigger = occurrences[p].trigger
                             /\ occurrences'[p].reason = occurrences[p].reason
                             /\ occurrences'[p].slot = occurrences[p].slot
          /\ \A p \in Rows \ {o} : occurrences'[p].run = occurrences[p].run
      BY <1>0, <2>2 DEF Attaches, Occurrence, Rows
    <3>2. /\ lastRun'[u] = now
          /\ \A t \in Triggers \ {u} : lastRun'[t] = lastRun[t]
      BY <2>2, <3>0 DEF Attaches
    <3>3. \A t \in Triggers : lastRun[t] <= lastRun'[t] /\ lastRun'[t] <= now'
      BY <1>1, <3>0, <3>2 DEF SlotsPass, Never
    <3>4. \A p \in Rows : occurrences[p].trigger \in Triggers /\ occurrences[p].slot \in Nat
      BY <1>0, RowFacts DEF Occurrence
    <3>5. \A p \in Rows' :
            /\ occurrences'[p].slot <= now'
            /\ occurrences'[p].reason = "cron" /\ occurrences'[p].run # NoRun
               => occurrences'[p].slot <= lastRun'[occurrences'[p].trigger]
      <4> SUFFICES ASSUME NEW p \in Rows
                   PROVE  /\ occurrences[p].slot <= now
                          /\ occurrences[p].reason = "cron" /\ occurrences'[p].run # NoRun
                             => occurrences[p].slot <= lastRun'[occurrences[p].trigger]
        BY <1>1, <3>1
      <4>1. lastRun[occurrences[p].trigger] \in Nat \cup {Never}
            /\ lastRun'[occurrences[p].trigger] \in Nat \cup {Never}
        BY <3>0, <3>2, <3>4
      <4>2. CASE p = o
        BY <3>2, <4>2 DEF SlotsPass
      <4>3. CASE p # o
        BY <3>1, <3>3, <3>4, <4>1, <4>3 DEF SlotsPass, Never
      <4> QED BY <4>2, <4>3
    <3>6. \A t \in due' : findScheduledOccurrence(t, now)' = {}
      BY <1>1, <3>1 DEF SlotsPass, findScheduledOccurrence, Rows
    <3> QED BY <1>1, <2>2, <3>3, <3>5, <3>6 DEF SlotsPass, Attaches
  <2> QED BY <1>5, <2>1, <2>2, AttachTouches
<1> QED BY <1>3, <1>4, <1>5

LEMMA SlotsStep == CoreInv /\ SlotsPass /\ [Next]_vars => SlotsPass'
<1> SUFFICES ASSUME CoreInv, SlotsPass, [Next]_vars PROVE SlotsPass'
  OBVIOUS
<1> USE DEF setup, store, scheduler, world
<1>0. TypeOK /\ now \in Nat /\ lastRun \in [Triggers -> Nat \cup {Never}]
  BY DEF CoreInv, TypeOK
<1>q. ASSUME UNCHANGED <<occurrences, lastRun, now>>, due' \subseteq due,
             handler'.checks # {} => due' = {},
             handler'.at = "idle" => handler'.checks = {} /\ handler'.orphans = {}
      PROVE  SlotsPass'
  BY <1>q, SlotsUntouched
<1>1. CASE beginOccurrence \/ attachRun \/ startRun
  BY <1>1, SlotsLaunched
<1>2. CASE RecoverOccurrence
  <2>1. handler'.at = "begin" /\ handler'.checks = handler.checks
    BY <1>2 DEF RecoverOccurrence, launch
  <2> QED BY <1>2, <1>q, <2>1 DEF RecoverOccurrence, SlotsPass
<1>3. ASSUME NEW t \in CronTriggers, CronTick(t) PROVE SlotsPass'
  <2>1. t \in due /\ due' = due \ {t} /\ UNCHANGED <<lastRun, now>> /\ handler.at = "idle"
    BY <1>3 DEF CronTick, idle
  <2>2. CASE schedule(t, now, {})
    BY <1>0, <2>1, <2>2, SlotsScheduled
  <2>3. CASE UNCHANGED <<occurrences, handler>>
    BY <1>q, <2>1, <2>3 DEF SlotsPass
  <2> QED BY <1>3, <2>2, <2>3 DEF CronTick
<1>4. ASSUME NEW t \in CronTriggers, recoverMissedRun(t) PROVE SlotsPass'
  <2>1. /\ UNCHANGED <<lastRun, now, due>> /\ handler.checks \ {t} \in SUBSET CronTriggers
        /\ lastRun[t] \in Nat \cup {Never} /\ handler.at = "loop" /\ due = {}
        /\ handler.orphans = {}
    BY <1>0, <1>4 DEF recoverMissedRun, TypeOK, Handler, Triggers, SlotsPass
  <2>2. CASE lastRun[t] = Never
    <3>1. schedule(t, now, handler.checks \ {t})
      BY <1>4, <2>2 DEF recoverMissedRun
    <3> QED BY <1>0, <2>1, <3>1, SlotsScheduled
  <2>3. CASE lastRun[t] # Never /\ lastRun[t] + 1 <= now
    <3>1. schedule(t, lastRun[t] + 1, handler.checks \ {t})
      BY <1>4, <2>3 DEF recoverMissedRun
    <3>2. lastRun[t] + 1 \in Nat
      BY <2>1, <2>3
    <3> QED BY <2>1, <2>3, <3>1, <3>2, SlotsScheduled
  <2>4. CASE lastRun[t] # Never /\ ~(lastRun[t] + 1 <= now)
    <3>1. /\ handler' = IF handler.checks = {t} THEN Idle
                        ELSE [handler EXCEPT !.checks = handler.checks \ {t}]
          /\ UNCHANGED occurrences
      BY <1>4, <2>4 DEF recoverMissedRun
    <3>2. handler'.at = "idle" => handler'.checks = {} /\ handler'.orphans = {}
      BY <1>0, <2>1, <3>1 DEF TypeOK, Handler, Idle
    <3> QED BY <1>q, <2>1, <3>1, <3>2
  <2> QED BY <2>2, <2>3, <2>4
<1>5. ASSUME NEW t \in Triggers, Invoke(t) PROVE SlotsPass'
  <2>1. /\ insert(t, "invoked", now) /\ "invoked" \in Reasons
        /\ handler'.at = "begin" /\ handler'.checks = {}
        /\ UNCHANGED <<lastRun, now, due>>
    BY <1>5 DEF Invoke, launch, Reasons
  <2> QED BY <1>0, <2>1, SlotsInserted
<1>6. ASSUME NEW t \in Triggers, NEW on \in BOOLEAN, EditTrigger(t, on) PROVE SlotsPass'
  <2>1. /\ due' = {} /\ UNCHANGED <<occurrences, lastRun, now>>
        /\ handler'.at = "idle" => handler'.checks = {} /\ handler'.orphans = {}
    BY <1>6 DEF EditTrigger, evaluate, disarm, loop, Idle
  <2> QED BY <1>q, <2>1
<1>7. CASE startAutomations \/ ToggleAutomations \/ recoverAfterSystemSleep
  <2>1. /\ due' = {} /\ UNCHANGED <<occurrences, lastRun, now>>
        /\ handler'.at = "idle" => handler'.checks = {} /\ handler'.orphans = {}
    BY <1>7 DEF startAutomations, ToggleAutomations, recoverAfterSystemSleep, evaluate,
                disarm, loop, Idle
  <2> QED BY <1>q, <2>1
<1>8. CASE Boot \/ pauseForSystemSleep \/ Stop \/ ShutdownRuns
  <2>1. /\ UNCHANGED <<occurrences, lastRun, now, handler>> /\ due' \subseteq due
    BY <1>8 DEF Boot, pauseForSystemSleep, Stop, ShutdownRuns, disarm
  <2> QED BY <1>q, <2>1 DEF SlotsPass
<1>9. CASE NextSlot
  <2>1. /\ UNCHANGED <<occurrences, lastRun, handler>> /\ now' = now + 1
        /\ handler.checks = {}
    BY <1>9 DEF NextSlot, idle, SlotsPass
  <2>2. \A t : findScheduledOccurrence(t, now)' = {}
    <3>1. \A o \in Rows : occurrences[o].slot \in Nat /\ occurrences[o].slot <= now
      BY <1>0, RowFacts DEF SlotsPass, Occurrence
    <3>2. \A o \in Rows : occurrences[o].slot # now + 1
      BY <1>0, <3>1
    <3> QED BY <2>1, <3>2 DEF findScheduledOccurrence, Rows
  <2>3. \A o \in Rows : occurrences[o].slot \in Nat
    BY <1>0, RowFacts DEF Occurrence
  <2>4. \A t \in Triggers : lastRun[t] <= now'
    <3> TAKE t \in Triggers
    <3>1. lastRun[t] \in Nat \cup {Never} /\ lastRun[t] <= now
      BY <1>0 DEF SlotsPass
    <3> QED BY <1>0, <2>1, <3>1 DEF Never
  <2>5. \A o \in Rows : occurrences[o].slot <= now'
    <3> TAKE o \in Rows
    <3>1. occurrences[o].slot <= now
      BY DEF SlotsPass
    <3> QED BY <1>0, <2>1, <2>3, <3>1
  <2> QED BY <2>1, <2>2, <2>4, <2>5 DEF SlotsPass, Rows
<1>10. CASE Exit \/ Crash
  <2>1. /\ due' = {} /\ UNCHANGED <<occurrences, lastRun, now>>
        /\ handler'.checks = {} /\ handler'.orphans = {}
    BY <1>10 DEF Exit, Crash, gone, disarm, Idle
  <2> QED BY <1>q, <2>1
<1>11. ASSUME NEW r \in live, NEW status \in {"succeeded", "failed"}, EndRun(r, status)
       PROVE  SlotsPass'
  <2>1. UNCHANGED <<lastRun, now, due, handler>>
    BY <1>11 DEF EndRun
  <2>2. runOf[r] \in Rows /\ Touches(runOf[r])
    BY <1>11, EndTouches
  <2> QED BY <2>1, <2>2, SlotsTouched DEF SlotsPass
<1>12. CASE (\E r \in live : DiscardRun(r)) \/ UNCHANGED vars
  <2>1. UNCHANGED <<occurrences, lastRun, now, due, handler>>
    BY <1>12 DEF DiscardRun, vars
  <2> QED BY <1>q, <2>1 DEF SlotsPass
<1> QED BY <1>1, <1>2, <1>3, <1>4, <1>5, <1>6, <1>7, <1>8, <1>9, <1>10, <1>11, <1>12 DEF Next

-----------------------------------------------------------------------------
(* The runs at work and the rows they are for, in a server whose settings    *)
(* are left alone while it runs.                                             *)

Calm == Events \cap {"edit", "toggle", "early"} = {}

LiveRows == {runOf[r] : r \in live}

Launching == handler.at \in {"begin", "attach", "start"}

(* No row of a run at work is launched, or waits to be recovered; and no    *)
(* run is at work, and no timer armed, before the automations start.        *)
LiveInv ==
  /\ RunsAreTracked
  /\ Launching => handler.occ \notin LiveRows \cup handler.orphans
  /\ handler.orphans \cap LiveRows = {}
  /\ process \in {"down", "booting"} => live = {} /\ handler.at = "idle" /\ armed = {}

(* A step that leaves the rows of runs at work alone.                       *)
LEMMA LiveStay ==
  ASSUME CoreInv, LiveInv, live' \subseteq live, UNCHANGED runOf,
         \A o \in LiveRows' : /\ occurrences'[o].run = occurrences[o].run
                              /\ occurrences'[o].status = occurrences[o].status,
         handler'.orphans \cap LiveRows' = {},
         Launching' => handler'.occ \notin LiveRows' \cup handler'.orphans,
         process' \in {"down", "booting"}
         => live' = {} /\ handler'.at = "idle" /\ armed' = {}
  PROVE  LiveInv'
<1>1. RunsAreTracked'
  BY DEF LiveInv, RunsAreTracked, LiveRows
<1> QED BY <1>1 DEF LiveInv

LEMMA TouchesOthers ==
  ASSUME CoreInv, NEW o \in Rows, Touches(o)
  PROVE  \A p \in LiveRows \ {o} : occurrences'[p] = occurrences[p]
<1>1. LiveRows \subseteq Rows
  BY RowFacts DEF CoreInv, TypeOK, LiveRows
<1> QED BY <1>1 DEF Touches

(* A row that is launched for a slot is not that of a run at work.          *)
LEMMA ScheduledIsNotLive ==
  ASSUME CoreInv, SlotsPass, LiveInv, NEW t \in CronTriggers, NEW slot \in Nat,
         (slot = now /\ t \in due) \/ ~(slot <= lastRun[t]),
         NEW o \in findScheduledOccurrence(t, slot)
  PROVE  o \notin LiveRows
<1> SUFFICES ASSUME NEW r \in live, o = runOf[r] PROVE FALSE
  BY DEF LiveRows
<1>1. /\ o \in Rows /\ occurrences[o].reason = "cron"
      /\ occurrences[o].trigger = t /\ occurrences[o].slot = slot
  BY DEF findScheduledOccurrence, Rows
<1>2. occurrences[o].run # NoRun
  BY DEF LiveInv, RunsAreTracked, CoreInv, TypeOK, NoRun
<1>3. slot <= lastRun[t]
  BY <1>1, <1>2 DEF SlotsPass
<1>4. ~(slot = now /\ t \in due)
  BY DEF SlotsPass
<1> QED BY <1>3, <1>4

LEMMA LiveScheduled ==
  ASSUME CoreInv, SlotsPass, LiveInv, NEW t \in CronTriggers, NEW slot \in Nat,
         (slot = now /\ t \in due) \/ ~(slot <= lastRun[t]),
         NEW checks \in SUBSET CronTriggers, schedule(t, slot, checks),
         UNCHANGED <<process, live, runOf>>, process \notin {"down", "booting"}
  PROVE  LiveInv'
<1>0. TypeOK /\ t \in Triggers /\ "cron" \in Reasons /\ Len(occurrences) \in Nat
  BY RowFacts DEF CoreInv, Triggers, Reasons
<1>1. LiveRows \subseteq Rows /\ LiveRows' = LiveRows
  BY RowFacts DEF CoreInv, TypeOK, LiveRows
<1>2. handler'.orphans = {} /\ handler'.at = "begin"
  BY <1>0, ScheduleFacts
<1>3. CASE findScheduledOccurrence(t, slot) = {}
  <2>1. insert(t, "cron", slot) /\ handler'.occ = Len(occurrences) + 1
    BY <1>3 DEF schedule, launch
  <2>2. \A o \in Rows : occurrences'[o] = occurrences[o]
    BY <1>0, <2>1, InsertFacts
  <2>3. handler'.occ \notin LiveRows'
    BY <1>0, <1>1, <2>1 DEF Rows
  <2> QED BY <1>1, <1>2, <2>2, <2>3, LiveStay
<1>4. CASE findScheduledOccurrence(t, slot) # {}
  <2> DEFINE o == CHOOSE o \in findScheduledOccurrence(t, slot) : TRUE
  <2>1. o \in findScheduledOccurrence(t, slot)
    BY <1>4
  <2>2. UNCHANGED occurrences /\ handler'.occ = o
    BY <1>4 DEF schedule, launch
  <2> HIDE DEF o
  <2>3. o \notin LiveRows
    BY <2>1, ScheduledIsNotLive
  <2> QED BY <1>1, <1>2, <2>2, <2>3, LiveStay
<1> QED BY <1>3, <1>4

LEMMA LiveLaunched ==
  ASSUME CoreInv, LiveInv, beginOccurrence \/ attachRun \/ startRun
  PROVE  LiveInv'
<1> DEFINE o == handler.occ
<1>0. /\ o \in Rows /\ TypeOK /\ "failed" \in Statuses /\ occurrences[o] \in Occurrence
      /\ o \notin LiveRows \cup handler.orphans /\ Launching
      /\ LiveRows \subseteq Rows /\ Len(runOf) \in Nat
      /\ process \notin {"down", "booting"}
  BY RowFacts DEF beginOccurrence, attachRun, startRun, CoreInv, HandlerInv, Statuses,
                  LiveInv, Launching, LiveRows, TypeOK
<1>1. UNCHANGED process
  BY DEF beginOccurrence, attachRun, startRun
<1>2. proceed \/ handler' = Idle
      => /\ handler'.at \notin {"begin", "attach", "start"}
         /\ handler'.orphans \subseteq handler.orphans
  BY <1>0, ProceedClears DEF Idle
<1> HIDE DEF o
<1>3. ASSUME Touches(o), UNCHANGED <<live, runOf>>,
             \/ proceed \/ handler' = Idle
             \/ handler'.occ = o /\ handler'.orphans = handler.orphans
      PROVE  LiveInv'
  <2>1. LiveRows' = LiveRows /\ \A p \in LiveRows : occurrences'[p] = occurrences[p]
    BY <1>0, <1>3, TouchesOthers DEF LiveRows
  <2> QED BY <1>0, <1>1, <1>2, <1>3, <2>1, LiveStay DEF LiveInv, Launching
<1>4. CASE beginOccurrence
  <2>1. UNCHANGED <<live, runOf>>
    BY <1>4 DEF beginOccurrence
  <2> QED BY <1>3, <1>4, <2>1, BeginTouches DEF o
<1>5. CASE attachRun
  <2>1. UNCHANGED live
    BY <1>5 DEF attachRun
  <2>2. CASE Touches(o) /\ proceed /\ UNCHANGED <<runOf, lastRun>>
    BY <1>3, <2>1, <2>2
  <2>3. CASE Attaches(o)
    <3>1. \A r \in 1 .. Len(runOf) : runOf'[r] = runOf[r]
      <4>1. runOf' = Append(runOf, o) \/ UNCHANGED runOf
        BY <1>5 DEF attachRun, o
      <4>2. runOf \in Seq(Rows)
        BY <1>0 DEF TypeOK, Rows
      <4> QED BY <1>0, <4>1, <4>2, AppendProperties
    <3>2. live \subseteq 1 .. Len(runOf)
      BY <1>0 DEF TypeOK
    <3>3. LiveRows' = LiveRows /\ \A r \in live : runOf'[r] = runOf[r]
      BY <2>1, <3>1, <3>2 DEF LiveRows
    <3>4. \A p \in LiveRows : occurrences'[p] = occurrences[p]
      BY <1>0, <2>3 DEF Attaches
    <3>5. RunsAreTracked'
      BY <2>1, <3>3, <3>4 DEF LiveInv, RunsAreTracked, LiveRows
    <3> QED BY <1>0, <1>1, <2>3, <3>3, <3>5 DEF LiveInv, Attaches, Launching
  <2> QED BY <1>5, <2>2, <2>3, AttachTouches DEF o
<1>6. CASE startRun
  <2>1. CASE process = "closing"
    <3>1. setStatus(o, "failed") /\ handler' = Idle /\ UNCHANGED <<live, runOf>>
      BY <1>6, <2>1 DEF startRun, o
    <3> QED BY <1>0, <1>3, <3>1, StatusTouches
  <2>2. CASE process # "closing"
    <3> DEFINE r == occurrences[o].run
    <3>1. live' = live \cup {r} /\ proceed /\ UNCHANGED <<occurrences, runOf>>
      BY <1>6, <2>2 DEF startRun, o
    <3>2. runOf[r] = o /\ occurrences[o].status = "running"
      BY <1>0, <1>6 DEF startRun, CoreInv, HandlerInv, RunsInv, o
    <3> HIDE DEF r
    <3>3. LiveRows' = LiveRows \cup {o}
      BY <3>1, <3>2 DEF LiveRows
    <3>4. RunsAreTracked'
      BY <3>1, <3>2 DEF LiveInv, RunsAreTracked, r
    <3>5. /\ handler'.at \notin {"begin", "attach", "start"}
          /\ handler'.orphans \subseteq handler.orphans
      BY <1>2, <3>1
    <3> QED BY <1>0, <1>1, <3>3, <3>4, <3>5 DEF LiveInv, Launching
  <2> QED BY <2>1, <2>2
<1> QED BY <1>4, <1>5, <1>6

LEMMA LiveStep ==
  ASSUME Calm
  PROVE  CoreInv /\ SlotsPass /\ LiveInv /\ [Next]_vars => LiveInv'
<1> SUFFICES ASSUME CoreInv, SlotsPass, LiveInv, [Next]_vars PROVE LiveInv'
  OBVIOUS
<1> USE DEF setup, store, scheduler, world
<1>0. /\ TypeOK /\ HandlerInv /\ now \in Nat
      /\ LiveRows \subseteq Rows /\ Len(occurrences) \in Nat
  BY RowFacts DEF CoreInv, TypeOK, LiveRows
<1>p. process \in {"down", "booting"} => live = {} /\ handler.at = "idle" /\ armed = {}
  BY DEF LiveInv
<1>q. ASSUME UNCHANGED <<occurrences, runOf>>, live' \subseteq live,
             handler'.orphans = {} /\ ~Launching',
             process' \in {"down", "booting"}
             => live' = {} /\ handler'.at = "idle" /\ armed' = {}
      PROVE  LiveInv'
  <2>1. LiveRows' \subseteq LiveRows
    BY <1>q DEF LiveRows
  <2> QED BY <1>q, <2>1, LiveStay DEF LiveInv, Launching
<1>r. ASSUME UNCHANGED <<occurrences, runOf, handler>>, live' \subseteq live,
             process' \in {"down", "booting"}
             => live' = {} /\ handler'.at = "idle" /\ armed' = {}
      PROVE  LiveInv'
  <2>1. LiveRows' \subseteq LiveRows
    BY <1>r DEF LiveRows
  <2>2. Launching' => Launching
    BY <1>r DEF Launching
  <2> QED BY <1>r, <2>1, <2>2, LiveStay DEF LiveInv
<1>1. CASE beginOccurrence \/ attachRun \/ startRun
  BY <1>1, LiveLaunched
<1>2. CASE RecoverOccurrence
  <2>1. /\ UNCHANGED <<occurrences, runOf, live, process>>
        /\ process \notin {"down", "booting"}
    BY <1>2 DEF RecoverOccurrence, LiveInv
  <2>2. PICK o \in handler.orphans :
          handler' = [at |-> "begin", occ |-> o, orphans |-> handler.orphans \ {o},
                      checks |-> handler.checks]
    BY <1>2 DEF RecoverOccurrence, launch
  <2>3. LiveRows' = LiveRows
    BY <2>1 DEF LiveRows
  <2> QED BY <2>1, <2>2, <2>3, LiveStay DEF LiveInv
<1>3. ASSUME NEW t \in CronTriggers, CronTick(t) PROVE LiveInv'
  <2>1. /\ t \in due /\ UNCHANGED <<process, live, runOf, armed>>
        /\ process \notin {"down", "booting"}
    BY <1>0, <1>3 DEF CronTick, LiveInv, TypeOK
  <2>2. CASE schedule(t, now, {})
    BY <1>0, <2>1, <2>2, LiveScheduled
  <2>3. CASE UNCHANGED <<occurrences, handler>>
    BY <1>p, <1>r, <2>1, <2>3
  <2> QED BY <1>3, <2>2, <2>3 DEF CronTick
<1>4. ASSUME NEW t \in CronTriggers, recoverMissedRun(t) PROVE LiveInv'
  <2>1. /\ UNCHANGED <<process, live, runOf, armed>>
        /\ handler.checks \ {t} \in SUBSET CronTriggers
        /\ lastRun[t] \in Nat \cup {Never} /\ handler.orphans = {} /\ handler.at = "loop"
        /\ process \notin {"down", "booting"}
    BY <1>0, <1>4 DEF recoverMissedRun, TypeOK, Handler, Triggers, LiveInv
  <2>2. CASE lastRun[t] = Never
    <3>1. schedule(t, now, handler.checks \ {t}) /\ ~(now <= lastRun[t])
      BY <1>0, <1>4, <2>2 DEF recoverMissedRun, Never
    <3> QED BY <1>0, <2>1, <3>1, LiveScheduled
  <2>3. CASE lastRun[t] # Never /\ lastRun[t] + 1 <= now
    <3>1. schedule(t, lastRun[t] + 1, handler.checks \ {t})
      BY <1>4, <2>3 DEF recoverMissedRun
    <3>2. lastRun[t] + 1 \in Nat /\ ~(lastRun[t] + 1 <= lastRun[t])
      BY <2>1, <2>3
    <3> QED BY <2>1, <3>1, <3>2, LiveScheduled
  <2>4. CASE lastRun[t] # Never /\ ~(lastRun[t] + 1 <= now)
    <3>1. /\ handler' = IF handler.checks = {t} THEN Idle
                        ELSE [handler EXCEPT !.checks = handler.checks \ {t}]
          /\ UNCHANGED occurrences
      BY <1>4, <2>4 DEF recoverMissedRun
    <3>2. handler'.orphans = {} /\ ~Launching'
      BY <1>0, <2>1, <3>1 DEF TypeOK, Handler, Idle, Launching
    <3> QED BY <1>q, <2>1, <3>1, <3>2
  <2> QED BY <2>2, <2>3, <2>4
<1>5. ASSUME NEW t \in Triggers, Invoke(t) PROVE LiveInv'
  <2>1. /\ insert(t, "invoked", now) /\ "invoked" \in Reasons
        /\ handler'.orphans = {} /\ handler'.occ = Len(occurrences) + 1
        /\ UNCHANGED <<live, runOf, process>> /\ TypeOK /\ t \in Triggers
        /\ process \notin {"down", "booting"}
    BY <1>0, <1>5 DEF Invoke, launch, Reasons, serves, Calm
  <2>2. \A o \in Rows : occurrences'[o] = occurrences[o]
    BY <1>0, <2>1, InsertFacts
  <2>3. LiveRows' = LiveRows
    BY <2>1 DEF LiveRows
  <2>4. handler'.occ \notin LiveRows'
    BY <1>0, <2>1, <2>3 DEF Rows
  <2>5. \A o \in LiveRows' : occurrences'[o] = occurrences[o]
    BY <1>0, <2>2, <2>3
  <2> QED BY <2>1, <2>4, <2>5, LiveStay
<1>6. ASSUME NEW t \in Triggers, NEW on \in BOOLEAN, EditTrigger(t, on) PROVE LiveInv'
  BY <1>6 DEF EditTrigger, upset, Calm
<1>7. CASE ToggleAutomations
  BY <1>7 DEF ToggleAutomations, upset, Calm
<1>8. CASE startAutomations
  <2>1. /\ process = "booting" /\ process' = "up"
        /\ UNCHANGED <<occurrences, runOf, live>> /\ evaluate(automations, listEnabled)
    BY <1>8 DEF startAutomations
  <2>2. live' = {}
    BY <2>1 DEF LiveInv
  <2>3. ~Launching'
    BY <2>1 DEF evaluate, loop, Idle, Launching
  <2> QED BY <2>1, <2>2, <2>3, LiveStay DEF LiveRows
<1>9. CASE recoverAfterSystemSleep
  <2>1. /\ UNCHANGED <<occurrences, runOf, live, process>>
        /\ process \notin {"down", "booting"}
    BY <1>9 DEF recoverAfterSystemSleep, serves, Calm
  <2>2. handler'.orphans = {} /\ ~Launching'
    BY <1>9 DEF recoverAfterSystemSleep, loop, Idle, Launching
  <2> QED BY <1>q, <2>1, <2>2
<1>10. CASE Boot
  <2>1. /\ UNCHANGED <<occurrences, runOf, live, handler, armed>> /\ process = "down"
    BY <1>10 DEF Boot
  <2> QED BY <1>p, <1>r, <2>1
<1>11. CASE pauseForSystemSleep \/ Stop \/ ShutdownRuns
  <2>1. /\ UNCHANGED <<occurrences, runOf, live, handler>>
        /\ process' \notin {"down", "booting"}
    BY <1>11 DEF pauseForSystemSleep, Stop, ShutdownRuns, serves, Calm
  <2> QED BY <1>r, <2>1
<1>12. CASE NextSlot
  <2>1. UNCHANGED <<occurrences, runOf, live, handler, process, armed>>
    BY <1>12 DEF NextSlot
  <2> QED BY <1>p, <1>r, <2>1
<1>13. CASE Exit \/ Crash
  <2>1. /\ UNCHANGED <<occurrences, runOf>> /\ live' = {} /\ armed' = {}
        /\ handler'.at = "idle" /\ handler'.orphans = {}
    BY <1>13 DEF Exit, Crash, gone, disarm, Idle
  <2> QED BY <1>q, <2>1 DEF Launching
<1>14. ASSUME NEW r \in live, NEW status \in {"succeeded", "failed"}, EndRun(r, status)
       PROVE  LiveInv'
  <2>1. UNCHANGED <<runOf, handler, process, armed>> /\ live' = live \ {r}
    BY <1>14 DEF EndRun
  <2>2. runOf[r] \in Rows /\ Touches(runOf[r])
    BY <1>14, EndTouches
  <2>3. LiveRows' \subseteq LiveRows \ {runOf[r]}
    BY <2>1 DEF LiveRows, LiveInv, RunsAreTracked
  <2>4. \A o \in LiveRows' : occurrences'[o] = occurrences[o]
    BY <2>2, <2>3, TouchesOthers
  <2> QED BY <2>1, <2>3, <2>4, LiveStay DEF LiveInv, Launching
<1>15. CASE (\E r \in live : DiscardRun(r)) \/ UNCHANGED vars
  <2>1. UNCHANGED <<occurrences, runOf, handler, process, armed>> /\ live' \subseteq live
    BY <1>15 DEF DiscardRun, vars
  <2> QED BY <1>p, <1>r, <2>1
<1> QED BY <1>1, <1>2, <1>3, <1>4, <1>5, <1>6, <1>7, <1>8, <1>9, <1>10, <1>11, <1>12, <1>13,
           <1>14, <1>15 DEF Next

(* In a server that no request reaches before its automations started, and  *)
(* whose settings and triggers nobody changes, every run at work has an     *)
(* occurrence, marked running, that names it: neither a crash, nor a sleep, *)
(* nor a recovery pass launches the occurrence of a run at work again.      *)
THEOREM RunsAreTrackedHolds ==
  ASSUME Calm
  PROVE  Spec => []RunsAreTracked
<1>1. Init => LiveInv
  BY DEF Init, LiveInv, RunsAreTracked, LiveRows, Launching, Idle
<1>2. CoreInv /\ SlotsPass /\ LiveInv /\ [Next]_vars => SlotsPass' /\ LiveInv'
  BY SlotsStep, LiveStep
<1>3. LiveInv => RunsAreTracked
  BY DEF LiveInv
<1> QED BY <1>1, <1>2, <1>3, InitSlots, CoreInvariant, PTL DEF Spec

=============================================================================
