---------------------------- MODULE StreamStore ----------------------------
(***************************************************************************)
(* The web client's store of thread streams: ProtocolStreamStore of        *)
(* apps/web/src/protocol-stream-store.ts.  It keeps a controller per       *)
(* thread, lets few runs stream at a time, queues what users send          *)
(* meanwhile, cancels the run that a user steers away from, and disposes   *)
(* of controllers that have nothing to do.                                 *)
(*                                                                         *)
(* The controllers are the SDK's, modelled from how the store and its      *)
(* tests use them: submit() has the server create a run, and either reports *)
(* it or throws, before the run exists or after, when the answer is lost;  *)
(* stop() ends the loading at once, and the end of a run is reported once, *)
(* unless a newer run of the thread was created before.                    *)
(***************************************************************************)
EXTENDS Naturals, Sequences, FiniteSets, SequencesExt

CONSTANTS
  Threads,
  maxParallelRuns,
  maxInactiveControllers,
  MaxInputs,   \* bound: messages that users send
  MaxAsides,   \* bound: stops, decisions and attachments to threads
  MaxUpsets    \* bound: failed submissions, cancellations and hydrations

ASSUME SlotsAssumption == maxParallelRuns \in Nat \ {0}
ASSUME BoundsAssumption == MaxInputs \in Nat

VARIABLES
  store,      \* what the store owns: its entries, its slots and queue of threads
  sdk,        \* thread -> what its controller shows
  steers,     \* steerNow() calls that wait for the server
  stops,      \* stop() calls that wait for the server
  gone,       \* deleted threads
  runs,       \* runs of the server, in the order of their creation
  withdrawn,  \* inputs that users took out of a queue
  returned,   \* inputs that send() has thrown back
  sent,       \* the threads that users have sent inputs to
  asides, upsets,   \* so far
  overtaken   \* a steer has come back to a newer run than it had cancelled

calls  == <<steers, stops>>
fates  == <<withdrawn, returned>>
counts == <<sent, asides, upsets>>
storeVars   == <<store, sdk, calls, gone, runs, fates, counts, overtaken>>

-----------------------------------------------------------------------------

Inputs == 1 .. MaxInputs
Run    == 1 .. Len(runs)
NoRun  == 0
NoInput == 0    \* of a run that nobody here has submitted

Submission == [thread : Threads, epoch : Nat, input : Inputs, queued : BOOLEAN]

Store ==
  [live      : SUBSET Threads,               \* entries
   epoch     : [Threads -> Nat],             \* how often the thread's has been made
   queued    : [Threads -> Seq(Inputs)],
   run       : [Threads -> Nat],             \* runId
   steering  : [Threads -> BOOLEAN],         \* steerCancellationPending
   hydration : [Threads -> {"unattached", "loading", "ready", "error"}],
   active    : SUBSET Threads,               \* activeRunThreads
   pending   : Seq(Threads),                 \* pendingRunThreads
   observed  : SUBSET Threads,               \* that a component listens to
   inflight  : SUBSET Submission]

(* The answer says whether the submission of its input has been told of the *)
(* run: it is due until then, and none comes to what another client started *)
(* or when the answer is lost.                                              *)
ServerRun == [thread : Threads, input : 0 .. MaxInputs, ended : BOOLEAN,
              answer : {"none", "due", "given"}]

StoreTypeOK ==
  /\ store \in Store /\ IsInjective(store.pending)
  /\ sdk \in [Threads -> [run : 0 .. Len(runs), loading : BOOLEAN, interrupt : BOOLEAN]]
  /\ steers \subseteq [thread : Threads, epoch : Nat, input : Inputs, run : Run,
                       at : {"cancelling", "stopping"}]
  /\ stops \subseteq [thread : Threads, epoch : Nat, run : 0 .. Len(runs)]
  /\ gone \subseteq Threads
  /\ runs \in Seq(ServerRun)
  /\ withdrawn \subseteq Inputs /\ returned \subseteq Inputs
  /\ sent \in Seq(Threads) /\ asides \in Nat /\ upsets \in Nat
  /\ overtaken \in BOOLEAN

still == [run |-> NoRun, loading |-> FALSE, interrupt |-> FALSE]

(* A run may be at work that another client has started.                    *)
StoreInit ==
  /\ store = [live |-> {}, epoch |-> [t \in Threads |-> 0],
              queued |-> [t \in Threads |-> <<>>], run |-> [t \in Threads |-> NoRun],
              steering |-> [t \in Threads |-> FALSE],
              hydration |-> [t \in Threads |-> "unattached"],
              active |-> {}, pending |-> <<>>, observed |-> {}, inflight |-> {}]
  /\ sdk = [t \in Threads |-> still]
  /\ steers = {} /\ stops = {}
  /\ gone = {}
  /\ \/ runs = <<>>
     \/ \E t \in Threads : runs = <<[thread |-> t, input |-> NoInput, ended |-> FALSE,
                                    answer |-> "none"]>>
  /\ withdrawn = {} /\ returned = {}
  /\ sent = <<>> /\ asides = 0 /\ upsets = 0
  /\ overtaken = FALSE

aside == asides < MaxAsides /\ asides' = asides + 1
upset == upsets < MaxUpsets /\ upsets' = upsets + 1

-----------------------------------------------------------------------------
(* Parts of the store's methods: what becomes of the store s, when the      *)
(* controllers show k.                                                      *)

(* The thread's status is "streaming" or "interrupted", and not "error".    *)
occupied(s, k, t) == s.hydration[t] # "error" /\ (k[t].loading \/ k[t].interrupt)

drainable(s, k, t) ==
  /\ t \in s.live
  /\ s.queued[t] # <<>>
  /\ ~s.steering[t]
  /\ ~occupied(s, k, t)
  /\ t \notin s.active

(* submitQueuedTurn() of each of ts.                                        *)
submitQueuedTurns(s, ts) ==
  [s EXCEPT !.queued = [t \in Threads |-> IF t \in ts THEN Tail(@[t]) ELSE @[t]],
            !.active = @ \cup ts,
            !.inflight = @ \cup {[thread |-> t, epoch |-> s.epoch[t],
                                  input |-> Head(s.queued[t]), queued |-> TRUE] : t \in ts}]

(* Of the threads that are pending, the first that may go on get the free   *)
(* slots; those that may not are passed over.                               *)
pumpRunQueue(s, k) ==
  LET free   == maxParallelRuns - Cardinality(s.active)
      goes(n) == drainable(s, k, s.pending[n])
      before(n) == Cardinality({m \in 1 .. n - 1 : goes(m)})
      passed == {n \in DOMAIN s.pending : before(n) < free}
  IN  submitQueuedTurns([s EXCEPT !.pending = SubSeq(@, Cardinality(passed) + 1, Len(@))],
                        {s.pending[n] : n \in {m \in passed : goes(m)}})

drainQueued(s, k, t) ==
  IF ~drainable(s, k, t) THEN s
  ELSE pumpRunQueue([s EXCEPT !.pending = IF t \in ToSet(@) THEN @ ELSE Append(@, t)], k)

disposeController(s, ts) ==
  [s EXCEPT !.live = @ \ ts,
            !.queued = [t \in Threads |-> IF t \in ts THEN <<>> ELSE @[t]],
            !.run = [t \in Threads |-> IF t \in ts THEN NoRun ELSE @[t]],
            !.steering = [t \in Threads |-> @[t] /\ t \notin ts],
            !.hydration = [t \in Threads |-> IF t \in ts THEN "unattached" ELSE @[t]]]

idle(s, k) ==
  {t \in s.live : /\ s.run[t] = NoRun
                  /\ t \notin s.active
                  /\ s.hydration[t] # "loading"
                  /\ ~s.steering[t]
                  /\ s.queued[t] = <<>>
                  /\ t \notin s.observed
                  /\ ~occupied(s, k, t)}

disposeIdleController(s, k, t) == disposeController(s, {t} \cap idle(s, k))

(* Which idle controllers evictInactiveControllers may dispose of: as many  *)
(* as are too many.  (The store takes those that were used least recently.) *)
evictions(s, k, preserved) ==
  LET candidates == idle(s, k) \ preserved
      surplus    == Cardinality(s.live) - maxInactiveControllers
  IN  {ts \in SUBSET candidates :
         IF Cardinality(s.live) <= maxInactiveControllers THEN ts = {}
         ELSE Cardinality(ts) = surplus \/ (ts = candidates /\ Cardinality(ts) < surplus)}

(* The entry of a thread, made where there is none.                         *)
entry(s, t) ==
  IF t \in s.live THEN s ELSE [s EXCEPT !.live = @ \cup {t}, !.epoch[t] = @ + 1]

(* The store becomes s, and a controller that is disposed of shows nothing. *)
becomes(s, k) ==
  /\ store' = s
  /\ sdk' = [t \in Threads |-> IF t \in s.live THEN k[t] ELSE still]

-----------------------------------------------------------------------------
(* What users do. *)

push(s, t, i) == [s EXCEPT !.queued[t] = Append(@, i)]

MutSending(s, t, i) ==
  IF occupied(s, sdk, t) \/ t \in s.active \cup ToSet(s.pending) \/ s.queued[t] # <<>>
  THEN drainQueued(push(s, t, i), sdk, t)
  ELSE [s EXCEPT !.active = @ \cup {t},
                 !.inflight = @ \cup {[thread |-> t, epoch |-> s.epoch[t], input |-> i,
                                       queued |-> FALSE]}]

(* send(): at once if the thread and a slot are free, else queued.          *)
sending(s, t, i) ==
  IF \/ occupied(s, sdk, t)
     \/ t \in s.active \cup ToSet(s.pending)
     \/ s.queued[t] # <<>>
     \/ Cardinality(s.active) >= maxParallelRuns
  THEN drainQueued(push(s, t, i), sdk, t)
  ELSE [s EXCEPT !.active = @ \cup {t},
                 !.inflight = @ \cup {[thread |-> t, epoch |-> s.epoch[t], input |-> i,
                                       queued |-> FALSE]}]

input(t) ==
  /\ t \notin gone
  /\ Len(sent) < MaxInputs
  /\ sent' = Append(sent, t)

(* Making an entry may cost idle controllers theirs.                        *)
evictedFor(s, k, t) == IF t \in store.live THEN {{}} ELSE evictions(s, k, {t})

Send(t) ==
  /\ input(t)
  /\ \E ts \in evictedFor(entry(store, t), sdk, t) :
       becomes(sending(disposeController(entry(store, t), ts), t, Len(sent')), sdk)
  /\ UNCHANGED <<calls, gone, runs, fates, asides, upsets, overtaken>>

(* steerNow() of a thread that streams: queued, and the run is cancelled,   *)
(* if its id is known.                                                      *)
SteerNow(t) ==
  /\ input(t)
  /\ t \in store.live
  /\ occupied(store, sdk, t) /\ ~sdk[t].interrupt
  /\ LET known == store.run[t] # NoRun
     IN  /\ store' = [push(store, t, Len(sent')) EXCEPT !.steering[t] = known]
         /\ steers' = IF ~known THEN steers
                      ELSE steers \cup {[thread |-> t, epoch |-> store.epoch[t],
                                         input |-> Len(sent'), run |-> store.run[t],
                                         at |-> "cancelling"]}
  /\ UNCHANGED <<sdk, stops, gone, runs, fates, asides, upsets, overtaken>>

(* steerNow() while the thread waits for a decision only queues.            *)
SteerInterrupted(t) ==
  /\ input(t)
  /\ t \in store.live
  /\ occupied(store, sdk, t) /\ sdk[t].interrupt
  /\ store' = push(store, t, Len(sent'))
  /\ UNCHANGED <<sdk, calls, gone, runs, fates, asides, upsets, overtaken>>

cancelQueued(t, n) ==
  /\ n \in DOMAIN store.queued[t]
  /\ store' = [store EXCEPT !.queued[t] = RemoveAt(@, n)]
  /\ withdrawn' = withdrawn \cup {store.queued[t][n]}
  /\ UNCHANGED <<sdk, calls, gone, runs, returned, counts, overtaken>>

Stop(t) ==
  /\ aside
  /\ t \in store.live
  /\ sdk[t].loading
  /\ stops' = stops \cup {[thread |-> t, epoch |-> store.epoch[t], run |-> store.run[t]]}
  /\ UNCHANGED <<store, sdk, steers, gone, runs, fates, sent, upsets, overtaken>>

created(t, i) == Append([r \in Run |-> [runs[r] EXCEPT !.ended = @ \/ runs[r].thread = t]],
                        [thread |-> t, input |-> i, ended |-> FALSE,
                         answer |-> IF i = NoInput THEN "none" ELSE "due"])

(* decide(): the server resumes the run.                                    *)
Decide(t) ==
  /\ aside
  /\ sdk[t].interrupt
  /\ runs' = created(t, NoInput)
  /\ sdk' = [sdk EXCEPT ![t] = [run |-> Len(runs'), loading |-> TRUE, interrupt |-> FALSE]]
  /\ UNCHANGED <<store, calls, gone, fates, sent, upsets, overtaken>>

(* A component shows the thread: it listens, and attaches, which reads the  *)
(* thread from the server unless it is a draft.                             *)
Attach(t) ==
  /\ aside
  /\ t \notin gone
  /\ t \notin store.observed \/ store.hydration[t] = "error"
  /\ LET s == [entry(store, t) EXCEPT !.observed = @ \cup {t}]
     IN  \E hydration \in IF s.hydration[t] \in {"loading", "ready"} THEN {s.hydration[t]}
                          ELSE {"loading", "ready"},
            ts \in evictedFor(s, sdk, t) :
           becomes([disposeController(s, ts) EXCEPT !.hydration[t] = hydration], sdk)
  /\ UNCHANGED <<calls, gone, runs, fates, sent, upsets, overtaken>>

Leave(t) ==
  /\ t \in store.observed
  /\ LET s == disposeIdleController([store EXCEPT !.observed = @ \ {t}], sdk, t)
     IN  \E ts \in evictions(s, sdk, {}) : becomes(disposeController(s, ts), sdk)
  /\ UNCHANGED <<calls, gone, runs, fates, counts, overtaken>>

disposeThread(t) ==
  /\ t \notin gone
  /\ gone' = gone \cup {t}
  /\ LET s == disposeController(store, {t})
     IN  becomes(pumpRunQueue([s EXCEPT !.active = @ \ {t}, !.observed = @ \ {t}], sdk), sdk)
  /\ UNCHANGED <<calls, runs, fates, counts, overtaken>>

-----------------------------------------------------------------------------
(* What the server and the controllers answer. *)

current(x) == x.thread \in store.live /\ x.epoch = store.epoch[x.thread]

accepted(x) == {r \in Run : runs[r].answer = "due" /\ runs[r].input = x.input}

(* The server creates the run of a turn, and answers.                       *)
RunCreated(x) ==
  /\ x \in store.inflight
  /\ accepted(x) = {}
  /\ runs' = created(x.thread, x.input)
  /\ UNCHANGED <<store, sdk, calls, gone, fates, counts, overtaken>>

(* The answer arrives: onCreated, and the end of submitTurn.  The slot is   *)
(* kept for the run.                                                        *)
Submitted(x) ==
  LET t == x.thread
      s == [store EXCEPT !.inflight = @ \ {x}]
  IN  /\ x \in store.inflight
      /\ \E r \in accepted(x) :
           /\ runs' = [runs EXCEPT ![r].answer = "given"]
           /\ IF current(x)
              THEN becomes([s EXCEPT !.run[t] = r],
                           [sdk EXCEPT ![t] = [run |-> r, loading |-> TRUE, interrupt |-> FALSE]])
              ELSE becomes(pumpRunQueue([s EXCEPT !.active = @ \ {t}], sdk), sdk)
      /\ UNCHANGED <<calls, gone, fates, counts, overtaken>>

(* No answer to x will come any more.                                       *)
unanswered(x) ==
  [r \in Run |-> [runs[r] EXCEPT !.answer = IF r \in accepted(x) THEN "none" ELSE @]]

MutSubmitDrops(x) ==
  LET t == x.thread
      s == [store EXCEPT !.inflight = @ \ {x},
                         !.queued[t] = @]
      free == t \in s.active /\ ~(current(x) /\ s.run[t] # NoRun)
  IN  /\ x \in store.inflight
      /\ upset
      /\ IF free THEN becomes(pumpRunQueue([s EXCEPT !.active = @ \ {t}], sdk), sdk)
         ELSE becomes(s, sdk)
      /\ returned' = IF x.queued THEN returned ELSE returned \cup {x.input}
      /\ runs' = unanswered(x)
      /\ UNCHANGED <<calls, gone, withdrawn, sent, asides, overtaken>>

MutSubmitHolds(x) ==
  LET t == x.thread
      s == [store EXCEPT !.inflight = @ \ {x},
                         !.queued[t] = IF x.queued /\ current(x) THEN <<x.input>> \o @ ELSE @]
      free == FALSE
  IN  /\ x \in store.inflight
      /\ upset
      /\ IF free THEN becomes(pumpRunQueue([s EXCEPT !.active = @ \ {t}], sdk), sdk)
         ELSE becomes(s, sdk)
      /\ returned' = IF x.queued THEN returned ELSE returned \cup {x.input}
      /\ runs' = unanswered(x)
      /\ UNCHANGED <<calls, gone, withdrawn, sent, asides, overtaken>>

(* A turn fails, before the server has created its run or after, when the   *)
(* answer is lost.  It goes back to the front of the queue, to be submitted *)
(* again, or to the caller.  The slot is given up, unless a run's end will  *)
(* give it up.                                                              *)
SubmitFails(x) ==
  LET t == x.thread
      s == [store EXCEPT !.inflight = @ \ {x},
                         !.queued[t] = IF x.queued /\ current(x) THEN <<x.input>> \o @ ELSE @]
      free == t \in s.active /\ ~(current(x) /\ s.run[t] # NoRun)
  IN  /\ x \in store.inflight
      /\ upset
      /\ IF free THEN becomes(pumpRunQueue([s EXCEPT !.active = @ \ {t}], sdk), sdk)
         ELSE becomes(s, sdk)
      /\ returned' = IF x.queued THEN returned ELSE returned \cup {x.input}
      /\ runs' = unanswered(x)
      /\ UNCHANGED <<calls, gone, withdrawn, sent, asides, overtaken>>

RunEnds(r) ==
  /\ ~runs[r].ended
  /\ runs' = [runs EXCEPT ![r].ended = TRUE]
  /\ UNCHANGED <<store, sdk, calls, gone, fates, counts, overtaken>>

(* onCompleted: a controller that has been given a new turn reports that.   *)
Completed(t, interrupt) ==
  LET k == [sdk EXCEPT ![t] = [still EXCEPT !.interrupt = interrupt]]
      s == [store EXCEPT !.run[t] = NoRun, !.active = @ \ {t}]
      d == disposeIdleController(drainQueued(s, k, t), k, t)
  IN  /\ t \in store.live
      /\ sdk[t].run # NoRun /\ runs[sdk[t].run].ended
      /\ \A x \in store.inflight : x.thread # t
      /\ \E ts \in evictions(d, k, {}) :
           becomes(pumpRunQueue(disposeController(d, ts), k), k)
      /\ UNCHANGED <<calls, gone, runs, fates, counts, overtaken>>

(* The server has cancelled the run that was steered away from; the         *)
(* controller stops, and it takes a moment until steerNow goes on.          *)
halted(x) == [sdk EXCEPT ![x.thread].loading = @ /\ ~current(x)]

Cancelled(x) ==
  /\ x \in steers
  /\ x.at = "cancelling"
  /\ runs[x.run].ended
  /\ steers' = (steers \ {x}) \cup {[x EXCEPT !.at = "stopping"]}
  /\ sdk' = halted(x)
  /\ UNCHANGED <<store, stops, gone, runs, fates, counts, overtaken>>

unsteered(x) ==
  [store EXCEPT !.steering[x.thread] = @ /\ ~current(x)]

CancelFails(x) ==
  /\ x \in steers
  /\ x.at = "cancelling"
  /\ upset
  /\ steers' = steers \ {x}
  /\ store' = unsteered(x)
  /\ UNCHANGED <<sdk, stops, gone, runs, fates, sent, asides, overtaken>>

(* steerNow goes on: whatever has the thread's slot by now, it is given up, *)
(* and the queue is drained.                                                *)
newer(x) ==
  \/ \E y \in store.inflight : y.thread = x.thread
  \/ sdk[x.thread].run > x.run

MutSteerReturns(x) ==
  LET t == x.thread
      s == [unsteered(x) EXCEPT !.active = @ \ {t}]
  IN  /\ x \in steers
      /\ x.at = "stopping"
      /\ steers' = steers \ {x}
      /\ becomes(pumpRunQueue(s, sdk), sdk)
      /\ overtaken' = (overtaken \/ newer(x))
      /\ UNCHANGED <<stops, gone, runs, fates, counts>>

SteerReturns(x) ==
  LET t == x.thread
      s == [unsteered(x) EXCEPT !.active = @ \ {t}]
  IN  /\ x \in steers
      /\ x.at = "stopping"
      /\ steers' = steers \ {x}
      /\ becomes(pumpRunQueue(drainQueued(s, sdk, t), sdk), sdk)
      /\ overtaken' = (overtaken \/ newer(x))
      /\ UNCHANGED <<stops, gone, runs, fates, counts>>

(* stop() returns; without a run id it had the server stop what is at work. *)
Stopped(x) ==
  /\ x \in stops
  /\ \A r \in Run : (IF x.run = NoRun THEN runs[r].thread = x.thread ELSE r = x.run)
                    => runs[r].ended
  /\ stops' = stops \ {x}
  /\ sdk' = halted(x)
  /\ UNCHANGED <<store, steers, gone, runs, fates, counts, overtaken>>

StopFails(x) ==
  /\ x \in stops
  /\ upset
  /\ stops' = stops \ {x}
  /\ UNCHANGED <<store, sdk, steers, gone, runs, fates, sent, asides, overtaken>>

(* attach() has read the thread, and may have found a run at work, or one   *)
(* that waits for a decision.                                               *)
Hydrated(t) ==
  LET found == {r \in Run : runs[r].thread = t /\ ~runs[r].ended}
  IN  /\ t \in store.live
      /\ store.hydration[t] = "loading"
      /\ store' = [store EXCEPT !.hydration[t] = "ready"]
      /\ IF found # {} /\ sdk[t].run = NoRun
         THEN \E r \in found : sdk' = [sdk EXCEPT ![t].run = r, ![t].loading = TRUE]
         ELSE \/ UNCHANGED sdk
              \/ found = {} /\ sdk[t].run = NoRun /\ sdk' = [sdk EXCEPT ![t].interrupt = TRUE]
      /\ UNCHANGED <<calls, gone, runs, fates, counts, overtaken>>

HydrationFails(t) ==
  /\ t \in store.live
  /\ store.hydration[t] = "loading"
  /\ upset
  /\ store' = [store EXCEPT !.hydration[t] = "error"]
  /\ UNCHANGED <<sdk, calls, gone, runs, fates, sent, asides, overtaken>>

StoreNext ==
  \/ \E t \in Threads :
       \/ Send(t) \/ SteerNow(t) \/ SteerInterrupted(t) \/ Stop(t) \/ Decide(t)
       \/ Attach(t) \/ Leave(t) \/ disposeThread(t)
       \/ Hydrated(t) \/ HydrationFails(t)
       \/ \E n \in DOMAIN store.queued[t] : cancelQueued(t, n)
       \/ \E interrupt \in BOOLEAN : Completed(t, interrupt)
  \/ \E x \in store.inflight : RunCreated(x) \/ Submitted(x) \/ SubmitFails(x)
  \/ \E r \in Run : RunEnds(r)
  \/ \E x \in steers : Cancelled(x) \/ CancelFails(x) \/ SteerReturns(x)
  \/ \E x \in stops : Stopped(x) \/ StopFails(x)

StoreSpec == StoreInit /\ [][StoreNext]_storeVars

-----------------------------------------------------------------------------

(* A message whose answer has arrived is not submitted again.  (One whose   *)
(* answer was lost is: the server may then have more runs of it, and only   *)
(* of the last is the client told.)                                         *)
LastIsAnswered ==
  \A r, q \in Run : /\ runs[r].answer = "given"
                    /\ runs[q].input = runs[r].input
                    => q <= r

(* "Never discard input after a transient submit failure": each message    *)
(* is queued, on its way, answered for by the server, withdrawn or thrown   *)
(* back, and only one of these, unless its thread is deleted.               *)
NeverDiscardInput ==
  \A i \in DOMAIN sent :
    LET waiting   == {w \in Threads \X (1 .. MaxInputs) :
                        w[2] \in DOMAIN store.queued[w[1]] /\ store.queued[w[1]][w[2]] = i}
        underway  == {x \in store.inflight : x.input = i}
        delivered == {r \in Run : runs[r].input = i /\ runs[r].answer = "given"}
        places == Cardinality(waiting) + Cardinality(underway) + Cardinality(delivered)
                  + Cardinality({i} \cap withdrawn) + Cardinality({i} \cap returned)
    IN  places = 1 \/ (places = 0 /\ sent[i] \in gone)

(* No message is lost, none is in two places, and none that the server has  *)
(* answered for is submitted again: the first two as long as no steer comes *)
(* back late.  It does not say that the server runs a message once: one     *)
(* whose answer is lost is submitted again, after its first run exists.     *)
EachInputOnce == StoreTypeOK /\ LastIsAnswered /\ (overtaken \/ NeverDiscardInput)

(* Threads that take up connections of the browser for a message of theirs, *)
(* on its way or in a run that the store has been told of.                  *)
streaming ==
  {t \in Threads : \/ \E x \in store.inflight : x.thread = t /\ current(x)
                   \/ /\ sdk[t].loading /\ sdk[t].run # NoRun
                      /\ runs[sdk[t].run].answer = "given"}

\* No more threads stream than may, unless a steer came back late.
BudgetHolds == overtaken \/ Cardinality(streaming) <= maxParallelRuns

\* A slot is held for a turn on its way or for a run whose end is reported.
SlotsComeBack ==
  \A t \in store.active :
    (\E x \in store.inflight : x.thread = t) \/ sdk[t].run # NoRun

(* The slots say what streams: nobody streams without one beyond the        *)
(* budget, and none is held for what is over.                               *)
SlotsAddUp == BudgetHolds /\ SlotsComeBack

(* What may still make the store go on.                                     *)
due ==
  \/ store.inflight # {} \/ steers # {}
  \/ \E r \in Run : ~runs[r].ended
  \/ \E t \in Threads : sdk[t].run # NoRun

(* Nothing stays queued when nothing is left to wait for, unless something  *)
(* has failed or the thread awaits a decision.                              *)
QueuesDrain ==
  due \/ upsets > 0 \/ \A t \in Threads : store.queued[t] = <<>> \/ sdk[t].interrupt

=============================================================================
