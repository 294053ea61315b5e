----------------------------- MODULE RunStream -----------------------------
(***************************************************************************)
(* The event streams of the api-server: ProtocolRunManager.observe, the    *)
(* SSE route that drains it, and a client that reconnects with the number  *)
(* of the last frame it received.                                          *)
(*                                                                         *)
(* An observer reads the replay buffer of its thread's current run, follows *)
(* replacement runs, and parks on the registry (RunManager) when it has    *)
(* caught up.  It is a generator: between two of its yields and awaits it  *)
(* runs without interruption, which is one action here.                    *)
(***************************************************************************)
EXTENDS RunManager, FiniteSetsExt, SequencesExt

CONSTANT Channels  \* the channels of the observers' filter

ASSUME ChannelsAssumption == Channels \subseteq {"messages", "lifecycle"}

VARIABLES
  place,    \* observer -> where its generator is suspended, see Places
  watching, \* observer -> the thread it observes
  reading,  \* observer -> the run whose buffer it reads
  cursor,   \* observer -> the ordinal of the frame it looks at next
  since,    \* observer -> the `since` of its request, or None
  sent,     \* observer -> numbers of the frames on the wire
  got       \* observer -> numbers of the frames its client has received

streamVars == <<place, watching, reading, cursor, since, sent, got>>
allVars    == <<vars, streamVars>>
fixed      == <<registryVars, pumpVars, aborted, frameVars, endVars, stop>>

-----------------------------------------------------------------------------

None == -1

(* "yielded" hands a frame to the route, which writes it; "onRun" waits for *)
(* the run it reads to make progress; "forRun" waits for a run.             *)
Places == {"closed", "yielded", "onRun", "forRun"}

StreamTypeOK ==
  /\ place \in [Observers -> Places]
  /\ watching \in [Observers -> Threads \cup {NoThread}]
  /\ reading \in [Observers -> Runs \cup {NoRun}]
  /\ cursor \in [Observers -> Nat]
  /\ \A o \in Observers :
       reading[o] # NoRun => cursor[o] <= dropped[reading[o]] + Len(buffer[reading[o]])
  /\ since \in [Observers -> Nat \cup {None}]
  /\ sent \in [Observers -> Seq(Nat)]
  /\ got \in [Observers -> SUBSET Nat]

StreamInit ==
  /\ Init
  /\ place = [o \in Observers |-> "closed"]
  /\ watching = [o \in Observers |-> NoThread]
  /\ reading = [o \in Observers |-> NoRun]
  /\ cursor = [o \in Observers |-> 0]
  /\ since = [o \in Observers |-> None]
  /\ sent = [o \in Observers |-> <<>>]
  /\ got = [o \in Observers |-> {}]

\* The frame with ordinal k of run r, counted from the run's first.
frameAt(r, k) == buffer[r][k - dropped[r] + 1]
ordinals(r)   == dropped[r] .. dropped[r] + Len(buffer[r]) - 1

inferChannel(kind) == IF kind = "delta" THEN "messages" ELSE "lifecycle"
frameMatchesFilter(kind) == inferChannel(kind) \in Channels

MutWanted(s, r, k) ==               \* `since` taken for the first frame wanted
  frameAt(r, k).seq >= s /\ frameMatchesFilter(frameAt(r, k).kind)

wanted(s, r, k) ==
  frameAt(r, k).seq > s /\ frameMatchesFilter(frameAt(r, k).kind)

unread(s, r, from) == {k \in ordinals(r) : k >= from /\ wanted(s, r, k)}

-----------------------------------------------------------------------------
(* The generator.  s is the `since` of its request. *)

close(o) ==
  /\ place' = [place EXCEPT ![o] = "closed"]
  /\ reading' = [reading EXCEPT ![o] = NoRun]
  /\ cursor' = [cursor EXCEPT ![o] = 0]
  /\ UNCHANGED <<sent, parkVars>>

yieldFrame(o, r, k) ==
  /\ place' = [place EXCEPT ![o] = "yielded"]
  /\ reading' = [reading EXCEPT ![o] = r]
  /\ cursor' = [cursor EXCEPT ![o] = k + 1]
  /\ sent' = [sent EXCEPT ![o] = Append(@, frameAt(r, k).seq)]
  /\ UNCHANGED parkVars

waitForRun(o, t) ==
  /\ place' = [place EXCEPT ![o] = "forRun"]
  /\ runWaiters' = [runWaiters EXCEPT ![t] = @ \cup {o}]
  /\ UNCHANGED <<sent, waiters>>

(* Caught up with run r. *)
MutPark(o, t, r) ==                  \* waits on the run even if it has ended
  /\ reading' = [reading EXCEPT ![o] = r]
  /\ cursor' = [cursor EXCEPT ![o] = dropped[r] + Len(buffer[r])]
  /\ place' = [place EXCEPT ![o] = "onRun"]
  /\ waiters' = [waiters EXCEPT ![r] = @ \cup {o}]
  /\ UNCHANGED <<sent, runWaiters>>

park(o, t, r) ==
  /\ reading' = [reading EXCEPT ![o] = r]
  /\ cursor' = [cursor EXCEPT ![o] = dropped[r] + Len(buffer[r])]
  /\ IF IsDone(r)
     THEN waitForRun(o, t)
     ELSE /\ place' = [place EXCEPT ![o] = "onRun"]
          /\ waiters' = [waiters EXCEPT ![r] = @ \cup {o}]
          /\ UNCHANGED <<sent, runWaiters>>

MutFollowFrom(o, r) == cursor[o]     \* keeps the cursor of the replaced run
followFrom(o, r)    == dropped[r]

(* Inside the replay loop: the next frame of run r, or of the run that      *)
(* replaced it.  A deletion is noticed only on turning to the replacement.  *)
pull(o, s, t, r, from) ==
  LET follow == unread(s, r, from) = {} /\ runs[t] \notin {NoRun, r}
      run    == IF follow THEN runs[t] ELSE r
      frames == unread(s, run, IF follow THEN followFrom(o, run) ELSE from)
  IN  IF follow /\ t \in threadsBeingDeleted THEN close(o)
      ELSE IF frames # {} THEN yieldFrame(o, run, Min(frames))
      ELSE park(o, t, run)

atTop(o, s, t, r, from) ==
  IF t \in threadsBeingDeleted THEN close(o) ELSE pull(o, s, t, r, from)

(* The first loop: until the thread has a run. *)
enter(o, s, t) ==
  IF runs[t] # NoRun THEN atTop(o, s, t, runs[t], dropped[runs[t]])
  ELSE IF t \in threadsBeingDeleted THEN close(o)
  ELSE /\ waitForRun(o, t)
       /\ UNCHANGED <<reading, cursor>>

(* A client opens its stream, for the first time or after the last frame it *)
(* received.                                                                *)
Connect(o, t) ==
  LET last == Max(got[o] \cup {None})
  IN  /\ place[o] = "closed"
      /\ watching[o] \in {NoThread, t}
      /\ watching' = [watching EXCEPT ![o] = t]
      /\ since' = [since EXCEPT ![o] = last]
      /\ enter(o, last, t)
      /\ UNCHANGED <<fixed, got>>

(* The route has written the frame and asks for the next. *)
ResumeYield(o) ==
  /\ place[o] = "yielded"
  /\ pull(o, since[o], watching[o], reading[o], cursor[o])
  /\ UNCHANGED <<fixed, watching, since, got>>

(* The run it waited on has made progress. *)
ResumeOnRun(o) ==
  /\ place[o] = "onRun"
  /\ o \notin waiters[reading[o]]
  /\ atTop(o, since[o], watching[o], reading[o], cursor[o])
  /\ UNCHANGED <<fixed, watching, since, got>>

(* A run of its thread has made progress, or its thread is being deleted. *)
ResumeForRun(o) ==
  LET t == watching[o]
  IN  /\ place[o] = "forRun"
      /\ o \notin runWaiters[t]
      /\ IF reading[o] = NoRun THEN enter(o, since[o], t)
         ELSE IF runs[t] \notin {NoRun, reading[o]}
         THEN atTop(o, since[o], t, runs[t], followFrom(o, runs[t]))
         ELSE atTop(o, since[o], t, reading[o], cursor[o])
      /\ UNCHANGED <<fixed, watching, since, got>>

-----------------------------------------------------------------------------
(* The connection. *)

Receive(o) ==
  /\ sent[o] # <<>>
  /\ got' = [got EXCEPT ![o] = @ \cup {Head(sent[o])}]
  /\ sent' = [sent EXCEPT ![o] = Tail(@)]
  /\ UNCHANGED <<fixed, place, watching, reading, cursor, since, parkVars>>

(* The connection drops: what is on the wire is lost, and the abort ends    *)
(* the generator.                                                           *)
Disconnect(o) ==
  /\ place[o] # "closed"
  /\ place' = [place EXCEPT ![o] = "closed"]
  /\ reading' = [reading EXCEPT ![o] = NoRun]
  /\ cursor' = [cursor EXCEPT ![o] = 0]
  /\ sent' = [sent EXCEPT ![o] = <<>>]
  /\ waiters' = [r \in Runs |-> waiters[r] \ {o}]
  /\ runWaiters' = [t \in Threads |-> runWaiters[t] \ {o}]
  /\ UNCHANGED <<fixed, watching, since, got>>

StreamNext ==
  \/ Next /\ UNCHANGED streamVars
  \/ \E o \in Observers :
       \/ \E t \in Threads : Connect(o, t)
       \/ ResumeYield(o) \/ ResumeOnRun(o) \/ ResumeForRun(o)
       \/ Receive(o) \/ Disconnect(o)

(* Promise continuations run, those of the registry and those of the        *)
(* generator, and the transport delivers; no client is obliged to connect   *)
(* or to stay.                                                              *)
StreamSpec ==
  /\ StreamInit
  /\ [][StreamNext]_allVars
  /\ Fairness
  /\ \A o \in Observers : /\ WF_allVars(ResumeYield(o))
                          /\ WF_allVars(ResumeOnRun(o))
                          /\ WF_allVars(ResumeForRun(o))
                          /\ WF_allVars(Receive(o))

-----------------------------------------------------------------------------

onWire(o) == ToSet(sent[o])

(* A client receives the frames of a thread once and in order, through      *)
(* replacement runs, evictions from the ring and reconnects.                *)
DeliveredInOrder ==
  \A o \in Observers :
    LET line == sent[o]
    IN  \A i \in 1 .. Len(line) :
          /\ \A n \in got[o] : n < line[i]
          /\ \A j \in 1 .. i - 1 : line[j] < line[i]

(* While a run's frame is in its replay buffer, no observer of the run goes *)
(* past it without sending it, be it after a reconnect, after the ring      *)
(* buffer has evicted frames under its cursor, or on turning from one run   *)
(* to the next.                                                             *)
NothingPassedOver ==
  \A o \in Observers :
    place[o] # "closed" /\ reading[o] # NoRun
    => \A k \in ordinals(reading[o]) :
         LET frame == frameAt(reading[o], k)
         IN  /\ frameMatchesFilter(frame.kind)
             /\ \E n \in got[o] \cup onWire(o) : frame.seq < n
             => frame.seq \in got[o] \cup onWire(o)

(* An observer parks only when it has nothing left to read, and whatever    *)
(* its thread's current run appends to its buffer then wakes it: no wakeup  *)
(* is lost between the check and the wait.                                  *)
ParkedHasNothingToRead ==
  \A o \in Observers, t \in Threads :
    /\ watching[o] = t
    /\ runs[t] # NoRun
    /\ o \in runWaiters[t] \cup UNION {waiters[r] : r \in Runs}
    => unread(since[o], runs[t], IF runs[t] = reading[o] THEN cursor[o] ELSE 0) = {}

(* Nothing is parked on a run that has ended: it would not be woken again.  *)
NoneParkedOnEnded ==
  \A r \in Runs : IsDone(r) => waiters[r] = {}

(* A client's copy of a thread has neither duplicates nor avoidable gaps.   *)
FramesArriveWhole == DeliveredInOrder /\ NothingPassedOver

(* An observer that waits is where the registry will wake it.               *)
WaitsAreSound == StreamTypeOK /\ ParkedHasNothingToRead /\ NoneParkedOnEnded

(* A connected client does not stay behind: it receives every frame that    *)
(* the current run keeps in its replay buffer.                              *)
Behind(o) ==
  LET run == runs[watching[o]]
  IN  /\ place[o] # "closed"
      /\ run # NoRun
      /\ \E k \in ordinals(run) :
           wanted(since[o], run, k) /\ frameAt(run, k).seq \notin got[o]

StreamsCatchUp == \A o \in Observers : Behind(o) ~> ~Behind(o)

=============================================================================
