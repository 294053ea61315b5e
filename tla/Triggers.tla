------------------------------ MODULE Triggers ------------------------------
(***************************************************************************)
(* Scheduled and invoked runs: TriggerService of                           *)
(* apps/api-server/src/trigger-service.ts, on the durable TriggerStore of  *)
(* packages/storage/src/triggers.ts, in a process that boots, sleeps,      *)
(* stops and crashes.                                                      *)
(*                                                                         *)
(* An occurrence is a row of the store.  Launching one takes three         *)
(* transactions (reserve an attempt, record the run, start it); they run   *)
(* in one synchronous handler, so nothing but a crash comes between them.  *)
(* Time counts the slots of the cron schedules.                            *)
(***************************************************************************)
EXTENDS Integers, Sequences, FiniteSets

CONSTANTS
  CronTriggers,  \* ids of the triggers with a schedule
  Webhooks,      \* ids of the webhook triggers
  MaxAttempts,   \* launches of one occurrence, maxAttempts
  Events,        \* what else may happen, see AllEvents
  MaxInvoked,    \* bound: requests to run a trigger
  MaxTime,       \* bound: slots
  MaxUpsets      \* bound: crashes, stops, sleeps, toggles, edits and discards

Triggers == CronTriggers \cup Webhooks

(* "early" and "late" requests reach the server before its automations have *)
(* started and after it began to close; "edit" saves a trigger, "toggle"    *)
(* flips the automations setting, "discard" deletes a run's thread.         *)
AllEvents == {"crash", "stop", "sleep", "edit", "toggle", "discard", "early", "late"}

ASSUME EventsAssumption == Events \subseteq AllEvents
ASSUME MaxAttemptsAssumption == MaxAttempts \in Nat \ {0}

VARIABLES
  \* In the database:
  automations,   \* the setting enableAutomations
  enabled,       \* trigger -> it is enabled
  lastRun,       \* trigger -> slot in which its last run was recorded, or Never
  occurrences,   \* the rows of trigger_occurrences, in order of creation
  \* In the process:
  process,       \* how far it has started or closed
  suspended,     \* it was told that the system goes to sleep
  active,        \* TriggerService.active
  subscribed,    \* it listens for the ends of runs
  armed,         \* cron triggers with a job
  due,           \* jobs whose timer has expired
  live,          \* runs the registry has not ended
  handler,       \* the synchronous handler at work
  \* The world:
  now,           \* the current slot
  upsets,        \* how many upsets there were
  runOf          \* run -> its occurrence, for every run ever started

setup     == <<automations, enabled>>
store     == <<setup, lastRun, occurrences>>
scheduler == <<active, subscribed, armed, due>>
world     == <<now, upsets>>
vars == <<store, process, suspended, scheduler, live, handler, world, runOf>>

-----------------------------------------------------------------------------

Never  == -1
NoOcc  == 0
NoRun  == 0
Reasons  == {"cron", "invoked"}   \* "cron-recovery" counts as "cron"
Statuses == {"pending", "running", "succeeded", "failed", "dead"}
Settled  == {"succeeded", "failed", "dead"}

Occurrence == [trigger : Triggers, reason : Reasons, slot : Nat, status : Statuses,
               attempt : 0 .. MaxAttempts, run : Nat]

(* loop looks for the next occurrence to launch; begin, attach and start    *)
(* are the transactions of launchOccurrence.                                *)
Handler == [at : {"idle", "loop", "begin", "attach", "start"}, occ : Nat,
            orphans : SUBSET Nat, checks : SUBSET CronTriggers]
Idle == [at |-> "idle", occ |-> NoOcc, orphans |-> {}, checks |-> {}]

TypeOK ==
  /\ automations \in BOOLEAN
  /\ enabled \in [Triggers -> BOOLEAN]
  /\ lastRun \in [Triggers -> Nat \cup {Never}]
  /\ occurrences \in Seq(Occurrence)
  /\ process \in {"down", "booting", "up", "stopping", "closing"}
  /\ suspended \in BOOLEAN
  /\ active \in BOOLEAN
  /\ subscribed \in BOOLEAN
  /\ armed \subseteq CronTriggers
  /\ due \subseteq armed
  /\ live \subseteq 1 .. Len(runOf)
  /\ handler \in Handler
  /\ now \in Nat
  /\ upsets \in Nat
  /\ runOf \in Seq(1 .. Len(occurrences))

Init ==
  /\ automations = TRUE
  /\ enabled = [t \in Triggers |-> TRUE]
  /\ lastRun \in [Triggers -> {Never, 0}]
  /\ occurrences = <<>>
  /\ process = "down"
  /\ suspended = FALSE
  /\ active = FALSE
  /\ subscribed = FALSE
  /\ armed = {}
  /\ due = {}
  /\ live = {}
  /\ handler = Idle
  /\ now = 0
  /\ upsets = 0
  /\ runOf = <<>>

idle == handler.at = "idle"

upset(event) ==
  /\ event \in Events
  /\ upsets < MaxUpsets
  /\ upsets' = upsets + 1

listEnabled == {t \in CronTriggers : enabled[t]}

MutListRecoverable ==                \* only what had begun
  {o \in 1 .. Len(occurrences) : occurrences[o].status = "running"}

listRecoverableOccurrences ==
  {o \in 1 .. Len(occurrences) : occurrences[o].status \in {"pending", "running"}}

(* The row of a slot: the unique index leaves at most one.                  *)
findScheduledOccurrence(t, slot) ==
  {o \in 1 .. Len(occurrences) :
     /\ occurrences[o].trigger = t
     /\ occurrences[o].reason = "cron"
     /\ occurrences[o].slot = slot}

-----------------------------------------------------------------------------
(* createOccurrence and launchOccurrence. *)

insert(t, reason, slot) ==
  occurrences' = Append(occurrences,
    [trigger |-> t, reason |-> reason, slot |-> slot, status |-> "pending",
     attempt |-> 0, run |-> NoRun])

launch(o, orphans, checks) ==
  handler' = [at |-> "begin", occ |-> o, orphans |-> orphans, checks |-> checks]

schedule(t, slot, checks) ==
  LET known == findScheduledOccurrence(t, slot)
  IN  /\ IF known = {}
         THEN /\ insert(t, "cron", slot)
              /\ launch(Len(occurrences) + 1, {}, checks)
         ELSE /\ launch(CHOOSE o \in known : TRUE, {}, checks)
              /\ UNCHANGED occurrences

(* The handler goes on with what is left to recover. *)
proceed ==
  handler' = IF handler.orphans = {} /\ handler.checks = {} THEN Idle
             ELSE [handler EXCEPT !.at = "loop", !.occ = NoOcc]

setStatus(o, status) == occurrences' = [occurrences EXCEPT ![o].status = status]

(* The first transaction, and the check before it. *)
MutBegin ==                          \* the attempt budget is not consulted
  LET o   == handler.occ
      row == occurrences[o]
  IN  /\ handler.at = "begin"
      /\ IF row.status \in Settled THEN UNCHANGED occurrences /\ proceed
         ELSE IF ~automations THEN setStatus(o, "dead") /\ proceed
         ELSE /\ occurrences' = [occurrences EXCEPT ![o].status = "running",
                                                    ![o].attempt = row.attempt + 1]
              /\ handler' = [handler EXCEPT !.at = "attach"]
      /\ UNCHANGED <<setup, lastRun, process, suspended, scheduler, live, world, runOf>>

beginOccurrence ==
  LET o   == handler.occ
      row == occurrences[o]
  IN  /\ handler.at = "begin"
      /\ IF row.status \in Settled THEN UNCHANGED occurrences /\ proceed
         ELSE IF ~automations \/ row.attempt >= MaxAttempts
         THEN setStatus(o, "dead") /\ proceed
         ELSE /\ occurrences' = [occurrences EXCEPT ![o].status = "running",
                                                    ![o].attempt = row.attempt + 1]
              /\ handler' = [handler EXCEPT !.at = "attach"]
      /\ UNCHANGED <<setup, lastRun, process, suspended, scheduler, live, world, runOf>>

(* The second transaction reserves the run's id, if the trigger is still    *)
(* there and enabled.                                                       *)
MutAttachUnchecked ==                \* does not look at the trigger again
  LET o == handler.occ
  IN  /\ handler.at = "attach"
      /\ runOf' = Append(runOf, o)
      /\ occurrences' = [occurrences EXCEPT ![o].run = Len(runOf) + 1]
      /\ lastRun' = [lastRun EXCEPT ![occurrences[o].trigger] = now]
      /\ handler' = [handler EXCEPT !.at = "start"]
      /\ UNCHANGED <<setup, process, suspended, scheduler, live, world>>

MutAttachAfterStart ==               \* the id is recorded once the run has started
  LET o == handler.occ
  IN  /\ handler.at = "attach"
      /\ IF enabled[occurrences[o].trigger]
         THEN /\ runOf' = Append(runOf, o)
              /\ live' = live \cup {Len(runOf) + 1}
              /\ handler' = [handler EXCEPT !.at = "start"]
              /\ UNCHANGED <<occurrences, lastRun>>
         ELSE /\ setStatus(o, "dead")
              /\ proceed
              /\ UNCHANGED <<runOf, lastRun, live>>
      /\ UNCHANGED <<setup, process, suspended, scheduler, world>>

attachRun ==
  LET o == handler.occ
  IN  /\ handler.at = "attach"
      /\ IF enabled[occurrences[o].trigger]
         THEN /\ runOf' = Append(runOf, o)
              /\ occurrences' = [occurrences EXCEPT ![o].run = Len(runOf) + 1]
              /\ lastRun' = [lastRun EXCEPT ![occurrences[o].trigger] = now]
              /\ handler' = [handler EXCEPT !.at = "start"]
         ELSE /\ setStatus(o, "dead")
              /\ proceed
              /\ UNCHANGED <<runOf, lastRun>>
      /\ UNCHANGED <<setup, process, suspended, scheduler, live, world>>

(* The registry takes the run, or refuses because it is shutting down; then *)
(* the error ends the handler, whatever it had left to recover.             *)
startRun ==
  LET o == handler.occ
  IN  /\ handler.at = "start"
      /\ IF process = "closing"
         THEN setStatus(o, "failed") /\ handler' = Idle /\ UNCHANGED live
         ELSE live' = live \cup {occurrences[o].run} /\ proceed /\ UNCHANGED occurrences
      /\ UNCHANGED <<setup, lastRun, process, suspended, scheduler, world, runOf>>

-----------------------------------------------------------------------------
(* What launches occurrences. *)

(* The server listens from the start until the last request is answered.    *)
serves ==
  \/ process = "up"
  \/ process = "booting" /\ "early" \in Events
  \/ process \in {"stopping", "closing"} /\ "late" \in Events

(* An expired cron timer.  A job exists only while automations are enabled, *)
(* but the timer asks again.                                                *)
CronTick(t) ==
  /\ idle
  /\ t \in due
  /\ due' = due \ {t}
  /\ IF automations THEN schedule(t, now, {}) ELSE UNCHANGED <<occurrences, handler>>
  /\ UNCHANGED <<setup, lastRun, process, suspended, active, subscribed, armed, live,
                 world, runOf>>

(* runNow and invokeWebhook. *)
Invoke(t) ==
  /\ idle
  /\ serves
  /\ automations /\ enabled[t]
  /\ Cardinality({o \in 1 .. Len(occurrences) : occurrences[o].reason = "invoked"}) < MaxInvoked
  /\ insert(t, "invoked", now)
  /\ launch(Len(occurrences) + 1, {}, {})
  /\ UNCHANGED <<setup, lastRun, process, suspended, scheduler, live, world, runOf>>

(* One turn of the recovery passes: occurrences left over come first, then  *)
(* each cron trigger whose schedule elapsed since its last run.             *)
RecoverOccurrence ==
  /\ handler.at = "loop"
  /\ handler.orphans # {}
  /\ \E o \in handler.orphans :
       /\ \A p \in handler.orphans : occurrences[o].slot <= occurrences[p].slot
       /\ launch(o, handler.orphans \ {o}, handler.checks)
  /\ UNCHANGED <<store, process, suspended, scheduler, live, world, runOf>>

recoverMissedRun(t) ==
  /\ handler.at = "loop"
  /\ handler.orphans = {}
  /\ t \in handler.checks
  /\ IF lastRun[t] = Never THEN schedule(t, now, handler.checks \ {t})
     ELSE IF lastRun[t] + 1 <= now THEN schedule(t, lastRun[t] + 1, handler.checks \ {t})
     ELSE /\ handler' = IF handler.checks = {t} THEN Idle
                        ELSE [handler EXCEPT !.checks = @ \ {t}]
          /\ UNCHANGED occurrences
  /\ UNCHANGED <<setup, lastRun, process, suspended, scheduler, live, world, runOf>>

disarm == armed' = {} /\ due' = {} /\ active' = FALSE

loop(orphans, checks) ==
  handler' = IF orphans = {} /\ checks = {} THEN Idle
             ELSE [at |-> "loop", occ |-> NoOcc, orphans |-> orphans, checks |-> checks]

(* evaluate, for the settings and triggers as they are after the change.    *)
(* New jobs wait for the next slot.                                         *)
evaluate(on, crons) ==
  IF ~on THEN disarm /\ handler' = Idle
  ELSE /\ armed' = crons
       /\ due' = {}
       /\ active' = TRUE
       /\ IF active THEN handler' = Idle
          ELSE loop(listRecoverableOccurrences, crons)

-----------------------------------------------------------------------------
(* The process. *)

Boot ==
  /\ process = "down"
  /\ process' = "booting"
  /\ UNCHANGED <<store, suspended, scheduler, live, handler, world, runOf>>

(* startAutomations, once the first MCP connections have settled. *)
startAutomations ==
  /\ idle
  /\ process = "booting"
  /\ process' = "up"
  /\ subscribed' = TRUE
  /\ evaluate(automations, listEnabled)
  /\ UNCHANGED <<store, suspended, live, world, runOf>>

(* A trigger is saved: PATCH /triggers/:id, and its reload. *)
EditTrigger(t, on) ==
  /\ idle /\ serves
  /\ upset("edit")
  /\ enabled' = [enabled EXCEPT ![t] = on]
  /\ evaluate(automations, {c \in CronTriggers : enabled'[c]})
  /\ UNCHANGED <<automations, lastRun, occurrences, process, suspended, subscribed,
                 live, now, runOf>>

ToggleAutomations ==
  /\ idle /\ serves
  /\ upset("toggle")
  /\ automations' = ~automations
  /\ evaluate(~automations, listEnabled)
  /\ UNCHANGED <<enabled, lastRun, occurrences, process, suspended, subscribed, live,
                 now, runOf>>

pauseForSystemSleep ==
  /\ idle /\ serves
  /\ ~suspended
  /\ upset("sleep")
  /\ suspended' = TRUE
  /\ disarm
  /\ UNCHANGED <<store, process, subscribed, live, handler, now, runOf>>

(* The MCP servers are reconnected first, so this comes some time after the *)
(* system woke up.                                                          *)
recoverAfterSystemSleep ==
  /\ idle /\ serves
  /\ suspended
  /\ suspended' = FALSE
  /\ IF automations
     THEN /\ armed' = listEnabled
          /\ due' = {}
          /\ active' = TRUE
          /\ loop({}, listEnabled)
     ELSE disarm /\ handler' = Idle
  /\ UNCHANGED <<store, process, subscribed, live, world, runOf>>

(* AgentHost.close: TriggerService.stop, then the run registry's shutdown,  *)
(* then, with every run over, the databases.                                *)
Stop ==
  /\ idle
  /\ process \in {"booting", "up"}
  /\ upset("stop")
  /\ process' = "stopping"
  /\ disarm
  /\ subscribed' = FALSE
  /\ UNCHANGED <<store, suspended, live, handler, now, runOf>>

ShutdownRuns ==
  /\ idle
  /\ process = "stopping"
  /\ process' = "closing"
  /\ UNCHANGED <<store, suspended, scheduler, live, handler, world, runOf>>

gone ==
  /\ process' = "down"
  /\ suspended' = FALSE
  /\ disarm
  /\ subscribed' = FALSE
  /\ live' = {}
  /\ handler' = Idle
  /\ UNCHANGED <<store, now, runOf>>

Exit ==
  /\ idle
  /\ process = "closing"
  /\ live = {}
  /\ UNCHANGED upsets
  /\ gone

Crash ==
  /\ process # "down"
  /\ upset("crash")
  /\ gone

(* A run ends, and its end is reported to whoever listens. *)
MutComplete(r, status) ==            \* whatever the status of its row
  IF \E o \in 1 .. Len(occurrences) : occurrences[o].run = r
  THEN setStatus(CHOOSE o \in 1 .. Len(occurrences) : occurrences[o].run = r, status)
  ELSE UNCHANGED occurrences

completeOccurrenceByRunId(r, status) ==
  IF \E o \in 1 .. Len(occurrences) :
       occurrences[o].run = r /\ occurrences[o].status = "running"
  THEN setStatus(CHOOSE o \in 1 .. Len(occurrences) : occurrences[o].run = r, status)
  ELSE UNCHANGED occurrences

EndRun(r, status) ==
  /\ idle
  /\ r \in live
  /\ live' = live \ {r}
  /\ IF subscribed THEN completeOccurrenceByRunId(r, status) ELSE UNCHANGED occurrences
  /\ UNCHANGED <<setup, lastRun, process, suspended, scheduler, handler, world, runOf>>

(* The run's thread is deleted: its end is not reported. *)
DiscardRun(r) ==
  /\ idle
  /\ r \in live
  /\ upset("discard")
  /\ live' = live \ {r}
  /\ UNCHANGED <<store, process, suspended, scheduler, handler, now, runOf>>

(* The next slot of the schedules begins.  Timers fire before the slot is   *)
(* over; a trigger without a job misses it.                                 *)
NextSlot ==
  /\ idle
  /\ now < MaxTime
  /\ due = {}
  /\ now' = now + 1
  /\ due' = armed
  /\ UNCHANGED <<store, process, suspended, active, subscribed, armed, live, handler,
                 upsets, runOf>>

-----------------------------------------------------------------------------

Next ==
  \/ beginOccurrence \/ attachRun \/ startRun
  \/ RecoverOccurrence
  \/ \E t \in CronTriggers : CronTick(t) \/ recoverMissedRun(t)
  \/ \E t \in Triggers : Invoke(t) \/ \E on \in BOOLEAN : EditTrigger(t, on)
  \/ Boot \/ startAutomations \/ ToggleAutomations
  \/ pauseForSystemSleep \/ recoverAfterSystemSleep
  \/ Stop \/ ShutdownRuns \/ Exit \/ Crash
  \/ \E r \in live : \/ \E status \in {"succeeded", "failed"} : EndRun(r, status)
                     \/ DiscardRun(r)
  \/ NextSlot

(* Handlers run to their end, the process is started again, it starts its   *)
(* automations, a stop is carried out, and a run ends some day.             *)
Fairness ==
  /\ WF_vars(beginOccurrence) /\ WF_vars(attachRun) /\ WF_vars(startRun)
  /\ WF_vars(RecoverOccurrence)
  /\ \A t \in CronTriggers : WF_vars(recoverMissedRun(t))
  /\ WF_vars(Boot) /\ WF_vars(startAutomations)
  /\ WF_vars(ShutdownRuns) /\ WF_vars(Exit)
  /\ WF_vars(\E r \in live, status \in {"succeeded", "failed"} : EndRun(r, status))

Spec == Init /\ [][Next]_vars /\ Fairness

-----------------------------------------------------------------------------
(* Safety. *)

(* The state is well formed, and however often the process crashes or the schedule asks for it again, a   *)
(* slot of a schedule is run at most MaxAttempts times: a poison occurrence *)
(* cannot loop for ever.                                                    *)
BudgetPerSlot ==
  /\ TypeOK
  /\ \A t \in CronTriggers, slot \in 0 .. MaxTime :
       Cardinality({r \in 1 .. Len(runOf) :
                      runOf[r] \in findScheduledOccurrence(t, slot)}) <= MaxAttempts

(* Every run at work has an occurrence, marked running, that names it: its  *)
(* end can be recorded, and a crash leaves a row to recover.                *)
RunsAreTracked ==
  \A r \in live : /\ occurrences[runOf[r]].run = r
                  /\ occurrences[runOf[r]].status = "running"

(* A settled occurrence stays as it is, and is not run again.               *)
SettledStaysSettled ==
  [][\A o \in 1 .. Len(occurrences) :
       occurrences[o].status \in Settled
       => /\ occurrences'[o] = occurrences[o]
          /\ \A r \in 1 .. Len(runOf') : runOf'[r] = o => r <= Len(runOf)]_vars

(* No run starts for a disabled trigger or with automations disabled, be it *)
(* for an occurrence left over from when they were enabled.                 *)
DisabledStartsNothing ==
  [][Len(runOf') > Len(runOf)
     => automations /\ enabled[occurrences[runOf'[Len(runOf')]].trigger]]_vars

(* A launch needs an occurrence still open of a trigger still on.           *)
LaunchesAreAllowed == SettledStaysSettled /\ DisabledStartsNothing

(* Liveness: an occurrence left over by a crash is settled in the end.      *)
OccurrencesSettle ==
  \A o \in 1 .. 4 :
    (o <= Len(occurrences) /\ occurrences[o].status \in {"pending", "running"})
    ~> (o <= Len(occurrences) /\ occurrences[o].status \in Settled)

=============================================================================
