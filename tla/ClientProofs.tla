----------------------------- MODULE ClientProofs -----------------------------
(***************************************************************************)
(* Proofs about what clients keep: ActivityFeed, the desktop shell's view  *)
(* of what happens to threads, for every set of servers and of threads, any *)
(* number of events, lost connections and changes of the server, any number *)
(* of events that a store retains and any size of the batches; and          *)
(* StreamStore, the web client's streams, for every set of threads and any  *)
(* number of messages, slots, controllers, asides and upsets.               *)
(***************************************************************************)
EXTENDS ActivityFeed, StreamStore, TLAPS, SequenceTheorems, FiniteSetTheorems,
        WellFoundedInduction

-----------------------------------------------------------------------------
(* Numbers. *)

LEMMA LeastNumber ==
  ASSUME NEW S \in SUBSET Nat, S # {}
  PROVE  \E n \in S : \A m \in S : n <= m
<1> DEFINE R == OpToRel(<, Nat)
<1>1. IsWellFoundedOn(R, Nat)
  BY NatLessThanWellFounded
<1>2. \A m, n \in Nat : m < n => <<m, n>> \in R
  BY DEF OpToRel
<1> HIDE DEF R
<1>3. PICK n \in S : \A m \in S : ~(<<m, n>> \in R)
  BY <1>1, WFMin
<1>4. \A m \in S : ~(m < n)
  BY <1>2, <1>3
<1>5. \A m \in S : m \in Nat /\ n \in Nat
  OBVIOUS
<1> QED BY <1>4, <1>5

LEMMA LargestNumber ==
  ASSUME NEW S \in SUBSET Nat, NEW b \in Nat, \A m \in S : m <= b, S # {}
  PROVE  /\ Max(S) \in S
         /\ \A m \in S : m <= Max(S)
<1> DEFINE above == {n \in Nat : \A m \in S : m <= n}
<1>1. PICK n \in above : \A m \in above : n <= m
  <2>1. b \in above
    OBVIOUS
  <2> QED BY <2>1, LeastNumber
<1>2. n \in S
  <2> SUFFICES ASSUME n \notin S PROVE FALSE
    OBVIOUS
  <2>1. PICK m \in S : TRUE
    OBVIOUS
  <2>2. n - 1 \in Nat
    BY <2>1
  <2>3. \A k \in S : k <= n - 1
    OBVIOUS
  <2>4. n - 1 \in above
    BY <2>2, <2>3
  <2> QED BY <1>1, <2>4
<1>3. \A m \in S : n >= m
  OBVIOUS
<1>4. \E x \in S : \A m \in S : x >= m
  BY <1>2, <1>3
<1>5. Max(S) \in S /\ \A m \in S : Max(S) >= m
  BY <1>4 DEF Max
<1> QED BY <1>5


(* What the watcher will have come to once it has read how the stream       *)
(* starts.                                                                  *)
base == IF wire # <<>> /\ wire[1].event = "ready" THEN wire[1].n ELSE cursor

N(i)  == wire[i].n
Sent  == DOMAIN wire
known == cursor # NoCursor \/ wire # <<>> \/ handler.at # "none"
last(s) == Len(db[s].loud)

(* The parts of a connection belong together. *)
LineInv ==
  /\ line \in {"connecting", "open", "waiting"} => source \in Sources
  /\ cursor # NoCursor => source \in Sources
  /\ handler.at # "none" \/ wire # <<>> => line = "open"
  /\ handler.at = "none" => handler.batch = {}
  /\ handler.at # "none" /\ cursor = NoCursor => wire # <<>>
  /\ \A i \in Sent : i # 1 => wire[i].event = "activity"
  /\ wire # <<>> /\ cursor = NoCursor => wire[1].event = "ready"
  /\ wire # <<>> /\ wire[1].event = "ready" /\ cursor # NoCursor => wire[1].n = cursor
  /\ wire # <<>> /\ wire[1].event = "activity" => wire[1].n > cursor

(* Nothing is numbered above the log, and what is stored or told is of it.  *)
BoundInv ==
  /\ \A s \in Sources : \A m \in seqs(s) : m <= last(s)
  /\ \A k \in DOMAIN told : told[k][2] <= last(told[k][1])
  /\ source \in Sources =>
       /\ cursor = NoCursor => from <= last(source)
       /\ cursor # NoCursor => cursor <= last(source)
       /\ handler.at # "none" => handler.cursor <= last(source)
       /\ \A m \in handler.batch : m <= last(source)
       /\ \A i \in Sent : N(i) <= last(source)

(* What is under way is in order, and passes nothing over that is stored.   *)
StreamInv ==
  /\ \A i, j \in Sent : i < j => N(i) < N(j)
  /\ \A i \in Sent : \A m \in seqs(source) :
       base < m /\ m < N(i) => \E j \in Sent : j < i /\ N(j) = m
  /\ handler.at # "none" =>
       /\ base <= handler.cursor
       /\ \A i \in Sent : N(i) <= handler.cursor
       /\ \A m \in seqs(source) :
            base < m /\ m <= handler.cursor => \E j \in Sent : N(j) = m
       /\ \A m \in handler.batch : handler.cursor < m
       /\ \A b \in handler.batch, m \in seqs(source) :
            handler.cursor < m /\ m < b => m \in handler.batch
  /\ cursor = NoCursor /\ wire # <<>>
     => \A m \in seqs(source) : m <= from => m <= N(1)

(* An event that was told is behind the watcher, or gone. *)
ToldInv ==
  known => \A k \in DOMAIN told :
    told[k][1] = source =>
      LET m == told[k][2]
      IN  \/ m <= base
          \/ m \notin seqs(source) \cup handler.batch \cup {N(i) : i \in Sent}

FeedInv == TypeOK /\ LineInv /\ BoundInv /\ StreamInv /\ ToldInv /\ SleepsOnlyWhenDone

-----------------------------------------------------------------------------
(* What the store returns. *)

LEMMA StoreFacts ==
  ASSUME TypeOK, NEW s \in Sources
  PROVE  /\ seqs(s) \subseteq Nat
         /\ db[s].rows \in SUBSET Row
         /\ db[s].loud \in Seq(BOOLEAN)
         /\ last(s) \in Nat
         /\ DOMAIN db[s].loud = 1 .. last(s)
BY LenProperties DEF TypeOK, seqs, Row, last

LEMMA LatestFacts ==
  ASSUME TypeOK, NEW s \in Sources, \A m \in seqs(s) : m <= last(s)
  PROVE  /\ latestSeq(s) \in Nat
         /\ latestSeq(s) <= last(s)
         /\ \A m \in seqs(s) : m <= latestSeq(s)
<1>1. {0} \cup seqs(s) \in SUBSET Nat /\ last(s) \in Nat
  BY StoreFacts
<1>2. /\ Max({0} \cup seqs(s)) \in {0} \cup seqs(s)
      /\ \A m \in {0} \cup seqs(s) : m <= Max({0} \cup seqs(s))
  <2> DEFINE S == {0} \cup seqs(s)
  <2>1. S \in SUBSET Nat /\ S # {} /\ \A m \in S : m <= last(s)
    BY <1>1
  <2> HIDE DEF S
  <2>2. Max(S) \in S /\ \A m \in S : m <= Max(S)
    BY <1>1, <2>1, LargestNumber
  <2> QED BY <2>2 DEF S
<1>3. latestSeq(s) = Max({0} \cup seqs(s))
  BY DEF latestSeq
<1>4. latestSeq(s) \in {0} \cup seqs(s)
  BY <1>2, <1>3
<1>5. \A m \in seqs(s) : m <= latestSeq(s)
  BY <1>2, <1>3
<1> QED BY <1>1, <1>4, <1>5

(* A batch is made of the first of the later events, if there is any.       *)
LEMMA ListFacts ==
  ASSUME TypeOK, NEW s \in Sources, \A m \in seqs(s) : m <= last(s), NEW c \in Nat
  PROVE  /\ \A b \in listAfter(s, c) : b \in seqs(s) /\ c < b
         /\ \A b \in listAfter(s, c), m \in seqs(s) : c < m /\ m < b => m \in listAfter(s, c)
         /\ listAfter(s, c) = {} => \A m \in seqs(s) : m <= c
<1> DEFINE later == {m \in seqs(s) : m > c}
           upto(m) == {k \in later : k <= m}
<1>1. later \in SUBSET Nat /\ IsFiniteSet(later)
  <2>1. later \in SUBSET Nat /\ last(s) \in Nat /\ \A m \in later : m <= last(s)
    BY StoreFacts
  <2> HIDE DEF later
  <2> QED BY <2>1, FS_BoundedSetOfNaturals
<1>2. listAfter(s, c) = {m \in later : Cardinality(upto(m)) <= BatchLimit}
  BY DEF listAfter
<1>3. \A m \in later : upto(m) \in SUBSET later
  OBVIOUS
<1>4. \A m \in later : IsFiniteSet(upto(m)) /\ Cardinality(upto(m)) \in Nat
  <2> HIDE DEF later, upto
  <2> QED BY <1>1, <1>3, FS_Subset, FS_CardinalityType
<1>5. ASSUME NEW b \in listAfter(s, c), NEW m \in seqs(s), c < m, m < b
      PROVE  m \in listAfter(s, c)
  <2>1. b \in later /\ m \in later /\ Cardinality(upto(b)) <= BatchLimit
    BY <1>2, <1>5
  <2>2. upto(m) \in SUBSET upto(b)
    BY <1>1, <1>5, <2>1
  <2>3. Cardinality(upto(m)) <= Cardinality(upto(b))
    <3> HIDE DEF later, upto
    <3> QED BY <1>4, <2>1, <2>2, FS_Subset
  <2>4. Cardinality(upto(m)) <= BatchLimit
    <3> HIDE DEF later, upto
    <3> QED BY <1>4, <2>1, <2>3, LimitsAssumption
  <2> QED BY <1>2, <2>1, <2>4
<1>6. ASSUME later # {} PROVE listAfter(s, c) # {}
  <2>1. PICK n \in later : \A m \in later : n <= m
    BY <1>1, <1>6, LeastNumber
  <2>2. upto(n) = {n}
    BY <1>1, <2>1
  <2>3. Cardinality(upto(n)) = 1
    BY <2>2, FS_Singleton
  <2>4. n \in listAfter(s, c)
    BY <1>2, <2>1, <2>3, LimitsAssumption
  <2> QED BY <2>4
<1>7. \A b \in listAfter(s, c) : b \in seqs(s) /\ c < b
  <2>1. \A b \in later : c < b
    BY <1>1
  <2> QED BY <1>2, <2>1
<1>8. listAfter(s, c) = {} => \A m \in seqs(s) : m <= c
  <2>1. seqs(s) \subseteq Nat
    BY StoreFacts
  <2> QED BY <1>6, <2>1
<1> HIDE DEF later, upto
<1> QED BY <1>5, <1>7, <1>8

(* append gives a number that was never given, and keeps some of the rows.  *)
LEMMA AppendFacts ==
  ASSUME TypeOK, NEW s \in Sources, NEW t \in ThreadIds, NEW loud \in BOOLEAN,
         append(s, t, loud)
  PROVE  /\ db' \in [Sources -> [rows : SUBSET Row, loud : Seq(BOOLEAN)]]
         /\ \A u \in Sources \ {s} : db'[u] = db[u]
         /\ db'[s].loud = Append(db[s].loud, loud)
         /\ seqs(s)' \subseteq seqs(s) \cup {last(s) + 1}
         /\ last(s) + 1 \in seqs(s)'
         /\ last(s)' = last(s) + 1
         /\ \A m \in 1 .. last(s) : db'[s].loud[m] = db[s].loud[m]
<1> DEFINE seq  == Len(db[s].loud) + 1
           new  == [seq |-> seq, thread |-> t]
           kept == {r \in db[s].rows : r.seq > seq - RETAINED_EVENTS}
<1>1. /\ db[s].rows \in SUBSET Row /\ db[s].loud \in Seq(BOOLEAN) /\ last(s) \in Nat
  BY StoreFacts
<1>2. db' = [db EXCEPT ![s] = [rows |-> kept \cup {new}, loud |-> Append(db[s].loud, loud)]]
  BY Zenon DEF append
<1>3. new \in Row /\ new.seq = last(s) + 1
  BY <1>1 DEF Row, last
<1>4. kept \in SUBSET db[s].rows
  OBVIOUS
<1> HIDE DEF new, kept
<1>5. /\ Append(db[s].loud, loud) \in Seq(BOOLEAN)
      /\ Len(Append(db[s].loud, loud)) = last(s) + 1
      /\ \A m \in 1 .. last(s) : Append(db[s].loud, loud)[m] = db[s].loud[m]
  BY <1>1, AppendProperties DEF last
<1>6. db'[s] = [rows |-> kept \cup {new}, loud |-> Append(db[s].loud, loud)]
  BY <1>2 DEF TypeOK
<1>7. \A u \in Sources \ {s} : db'[u] = db[u]
  BY <1>2 DEF TypeOK
<1>8. db' \in [Sources -> [rows : SUBSET Row, loud : Seq(BOOLEAN)]]
  BY <1>1, <1>2, <1>3, <1>4, <1>5 DEF TypeOK
<1>9. db'[s].rows = kept \cup {new}
  BY <1>6
<1>10. seqs(s)' \subseteq seqs(s) \cup {last(s) + 1} /\ last(s) + 1 \in seqs(s)'
  <2>1. seqs(s)' = {r.seq : r \in db'[s].rows}
    BY DEF seqs
  <2>2. \A r \in kept : r.seq \in seqs(s)
    BY <1>4 DEF seqs
  <2> QED BY <1>3, <1>9, <2>1, <2>2
<1> QED BY <1>5, <1>6, <1>7, <1>8, <1>10 DEF last

(* deleteByThread removes rows. *)
LEMMA DeleteFacts ==
  ASSUME TypeOK, NEW s \in Sources, NEW t \in ThreadIds, deleteByThread(s, t)
  PROVE  /\ db' \in [Sources -> [rows : SUBSET Row, loud : Seq(BOOLEAN)]]
         /\ \A u \in Sources : db'[u].loud = db[u].loud /\ seqs(u)' \subseteq seqs(u)
         /\ \A u \in Sources \ {s} : db'[u] = db[u]
<1> DEFINE kept == {r \in db[s].rows : r.thread # t}
<1>1. db' = [db EXCEPT ![s] = [db[s] EXCEPT !.rows = kept]]
  BY DEF deleteByThread
<1>2. kept \in SUBSET db[s].rows
  OBVIOUS
<1> HIDE DEF kept
<1>3. db'[s] = [db[s] EXCEPT !.rows = kept] /\ \A u \in Sources \ {s} : db'[u] = db[u]
  BY <1>1 DEF TypeOK
<1>4. db'[s].rows = kept /\ db'[s].loud = db[s].loud
  BY <1>3 DEF TypeOK
<1>5. db' \in [Sources -> [rows : SUBSET Row, loud : Seq(BOOLEAN)]]
  BY <1>1, <1>2 DEF TypeOK
<1>6. \A u \in Sources : db'[u].loud = db[u].loud /\ seqs(u)' \subseteq seqs(u)
  BY <1>2, <1>3, <1>4 DEF seqs
<1> QED BY <1>3, <1>5, <1>6


-----------------------------------------------------------------------------
(* What holds in every state. *)

LEMMA InitInv == Init => FeedInv
<1> SUFFICES ASSUME Init PROVE FeedInv
  OBVIOUS
<1>1. Sent = {} /\ DOMAIN told = {} /\ wire = <<>>
  BY DEF Init, Sent
<1>2. \A s \in Sources : db[s].rows = {} /\ db[s].loud = <<>> /\ seqs(s) = {}
  BY DEF Init, seqs
<1>3. TypeOK
  BY DEF Init, TypeOK, none, Row
<1>4. LineInv
  BY <1>1, NamesAssumption DEF Init, none, LineInv
<1>5. BoundInv
  BY <1>1, <1>2, NamesAssumption DEF Init, none, BoundInv
<1>6. StreamInv
  BY <1>1 DEF Init, none, StreamInv
<1>7. ToldInv
  BY <1>1 DEF ToldInv
<1>8. SleepsOnlyWhenDone
  BY DEF Init, none, SleepsOnlyWhenDone
<1> QED BY <1>3, <1>4, <1>5, <1>6, <1>7, <1>8 DEF FeedInv

LEMMA WireFacts ==
  ASSUME FeedInv
  PROVE  /\ wire \in Seq(Message) /\ Len(wire) \in Nat /\ Sent = 1 .. Len(wire)
         /\ \A i \in Sent : /\ wire[i] \in Message /\ N(i) \in Nat
                            /\ wire[i].event \in {"ready", "activity"}
         /\ (wire = <<>>) <=> (Len(wire) = 0)
         /\ wire # <<>> => 1 \in Sent
<1>1. wire \in Seq(Message)
  BY DEF FeedInv, TypeOK
<1>2. Len(wire) \in Nat /\ Sent = 1 .. Len(wire) /\ \A i \in Sent : wire[i] \in Message
  BY <1>1, LenProperties DEF Sent
<1>3. (wire = <<>>) <=> (Len(wire) = 0)
  BY <1>1, EmptySeq
<1> QED BY <1>1, <1>2, <1>3 DEF N, Message

LEMMA ToldFacts ==
  ASSUME FeedInv
  PROVE  /\ told \in Seq(Sources \X Nat) /\ Len(told) \in Nat /\ DOMAIN told = 1 .. Len(told)
         /\ \A k \in DOMAIN told : told[k][1] \in Sources /\ told[k][2] \in Nat
                                 /\ told[k] = <<told[k][1], told[k][2]>>
<1>1. told \in Seq(Sources \X Nat)
  BY DEF FeedInv, TypeOK
<1>2. Len(told) \in Nat /\ DOMAIN told = 1 .. Len(told)
  BY <1>1, LenProperties
<1>3. \A k \in DOMAIN told : told[k] \in Sources \X Nat
  BY <1>1, <1>2
<1> QED BY <1>1, <1>2, <1>3

(* Where the watcher will be once it has read how the stream starts.        *)
LEMMA BaseFacts ==
  ASSUME FeedInv
  PROVE  /\ cursor # NoCursor => base = cursor /\ cursor \in Nat /\ source \in Sources
         /\ cursor = NoCursor /\ wire # <<>> => base = N(1)
         /\ known => base \in Nat /\ source \in Sources
<1>1. cursor # NoCursor => base = cursor /\ cursor \in Nat /\ source \in Sources
  BY DEF FeedInv, TypeOK, LineInv, base
<1>2. cursor = NoCursor /\ wire # <<>> => base = N(1)
  BY DEF FeedInv, LineInv, base, N
<1>3. ASSUME known, cursor = NoCursor PROVE wire # <<>> /\ source \in Sources
  BY <1>3 DEF FeedInv, LineInv, known
<1>4. known => base \in Nat /\ source \in Sources
  BY <1>1, <1>2, <1>3, WireFacts
<1> QED BY <1>1, <1>2, <1>4

(* The store changes, or the stream wakes up. *)
LEMMA StoreStep ==
  ASSUME FeedInv,
         UNCHANGED <<wire, source, cursor, line, told, from>>,
         drops' \in Nat, changes' \in Nat,
         db' \in [Sources -> [rows : SUBSET Row, loud : Seq(BOOLEAN)]],
         \A u \in Sources : /\ last(u)' \in Nat /\ last(u) <= last(u)'
                            /\ \A m \in seqs(u)' : m \in seqs(u) \/ (last(u) < m /\ m <= last(u)'),
         \/ handler' = handler
         \/ handler.at # "none" /\ handler' = [handler EXCEPT !.at = "scanning"],
         handler'.at = "parked" => seqs(source)' \subseteq seqs(source)
  PROVE  FeedInv'
<1>1. /\ TypeOK' /\ handler'.cursor = handler.cursor /\ handler'.batch = handler.batch
      /\ (handler'.at = "none") <=> (handler.at = "none")
      /\ handler'.at = "parked" => handler.at = "parked"
      /\ handler.cursor \in Nat /\ handler.batch \in SUBSET Nat
  BY DEF FeedInv, TypeOK
<1>2. Sent' = Sent /\ base' = base /\ (known' <=> known) /\ \A i : N(i)' = N(i)
  BY <1>1 DEF Sent, base, known, N
<1>3. /\ \A u \in Sources : seqs(u) \subseteq Nat /\ seqs(u)' \subseteq Nat /\ last(u) \in Nat
  <2>1. \A u \in Sources : seqs(u) \subseteq Nat /\ last(u) \in Nat
    BY StoreFacts DEF FeedInv
  <2>2. \A u \in Sources : seqs(u)' \subseteq Nat
    BY DEF seqs, Row
  <2> QED BY <2>1, <2>2
<1>4. LineInv'
  BY <1>1, <1>2 DEF FeedInv, LineInv
<1>5. BoundInv'
  <2>1. \A s \in Sources : \A m \in seqs(s)' : m <= last(s)'
    BY <1>3 DEF FeedInv, BoundInv
  <2>2. \A k \in DOMAIN told : told[k][2] <= last(told[k][1])'
    <3> QED BY <1>3, ToldFacts DEF FeedInv, BoundInv
  <2>3. ASSUME source \in Sources
        PROVE  /\ cursor = NoCursor => from <= last(source)'
               /\ cursor # NoCursor => cursor <= last(source)'
               /\ handler.at # "none" => handler.cursor <= last(source)'
               /\ \A m \in handler.batch : m <= last(source)'
               /\ \A i \in Sent : N(i) <= last(source)'
    BY <1>1, <1>3, <2>3, WireFacts DEF FeedInv, BoundInv, TypeOK
  <2>4. \A s : last(s)' = Len(db'[s].loud)
    BY DEF last
  <2> QED BY <1>1, <1>2, <2>1, <2>2, <2>3 DEF BoundInv
<1>6. StreamInv'
  <2>1. ASSUME source \in Sources, NEW m \in seqs(source)', m <= last(source)
        PROVE  m \in seqs(source)
    BY <1>3, <2>1
  <2>2. \A i \in Sent : source \in Sources /\ N(i) <= last(source) /\ N(i) \in Nat
    BY WireFacts DEF FeedInv, LineInv, BoundInv
  <2>3. handler.at # "none" => source \in Sources /\ handler.cursor <= last(source)
    BY DEF FeedInv, LineInv, BoundInv
  <2>4. \A i \in Sent : \A m \in seqs(source)' :
          base < m /\ m < N(i) => \E j \in Sent : j < i /\ N(j) = m
    BY <1>3, <2>1, <2>2 DEF FeedInv, StreamInv
  <2>5. handler.at # "none" => \A m \in seqs(source)' :
          base < m /\ m <= handler.cursor => \E j \in Sent : N(j) = m
    BY <1>1, <1>3, <2>1, <2>3 DEF FeedInv, StreamInv
  <2>6. handler.at # "none" => \A b \in handler.batch, m \in seqs(source)' :
          handler.cursor < m /\ m < b => m \in handler.batch
    BY <1>1, <1>3, <2>1, <2>3 DEF FeedInv, StreamInv, BoundInv
  <2>7. cursor = NoCursor /\ wire # <<>>
        => \A m \in seqs(source)' : m <= from => m <= N(1)
    <3>1. cursor = NoCursor /\ wire # <<>> => source \in Sources /\ from <= last(source) /\ from \in Nat
      BY WireFacts DEF FeedInv, LineInv, BoundInv, TypeOK
    <3> QED BY <1>3, <2>1, <3>1 DEF FeedInv, StreamInv
  <2>8. /\ \A i, j \in Sent : i < j => N(i) < N(j)
        /\ handler.at # "none" => /\ base <= handler.cursor
                                  /\ \A i \in Sent : N(i) <= handler.cursor
                                  /\ \A m \in handler.batch : handler.cursor < m
    BY DEF FeedInv, StreamInv
  <2> QED BY <1>1, <1>2, <2>4, <2>5, <2>6, <2>7, <2>8 DEF StreamInv
<1>7. ToldInv'
  <2> SUFFICES ASSUME known, NEW k \in DOMAIN told, told[k][1] = source
               PROVE  \/ told[k][2] <= base
                      \/ told[k][2] \notin seqs(source)' \cup handler.batch \cup {N(i) : i \in Sent}
    BY <1>1, <1>2 DEF ToldInv
  <2>1. source \in Sources /\ told[k][2] \in Nat /\ told[k][2] <= last(source)
    BY BaseFacts, ToldFacts DEF FeedInv, BoundInv
  <2>2. told[k][2] \in seqs(source)' => told[k][2] \in seqs(source)
    BY <1>3, <2>1
  <2> QED BY <2>2 DEF FeedInv, ToldInv
<1>8. SleepsOnlyWhenDone'
  BY <1>1 DEF FeedInv, SleepsOnlyWhenDone
<1> QED BY <1>1, <1>4, <1>5, <1>6, <1>7, <1>8 DEF FeedInv

LEMMA AppendedStep ==
  ASSUME FeedInv, NEW s \in Sources, NEW t \in ThreadIds, NEW loud \in BOOLEAN, Appended(s, t, loud)
  PROVE  FeedInv'
<1>1. /\ append(s, t, loud)
      /\ handler' = IF woken(s) THEN [handler EXCEPT !.at = "scanning"] ELSE handler
      /\ UNCHANGED <<wire, source, cursor, line, told, from, drops, changes>>
  BY DEF Appended
<1>2. /\ db' \in [Sources -> [rows : SUBSET Row, loud : Seq(BOOLEAN)]]
      /\ \A u \in Sources \ {s} : db'[u] = db[u]
      /\ seqs(s)' \subseteq seqs(s) \cup {last(s) + 1}
      /\ last(s)' = last(s) + 1
  BY <1>1, AppendFacts DEF FeedInv
<1>3. \A u \in Sources : last(u) \in Nat /\ seqs(u) \subseteq Nat
  BY StoreFacts DEF FeedInv
<1>4. \A u \in Sources \ {s} : seqs(u)' = seqs(u) /\ last(u)' = last(u)
  BY <1>2 DEF seqs, last
<1>5. \A u \in Sources : /\ last(u)' \in Nat /\ last(u) <= last(u)'
                         /\ \A m \in seqs(u)' : m \in seqs(u) \/ (last(u) < m /\ m <= last(u)')
  <2> TAKE u \in Sources
  <2>1. CASE u = s
    <3>1. last(s)' \in Nat /\ last(s) <= last(s)'
      BY <1>2, <1>3
    <3>2. \A m \in seqs(s)' : m \in seqs(s) \/ (last(s) < m /\ m <= last(s)')
      BY <1>2, <1>3
    <3> QED BY <2>1, <3>1, <3>2 DEF last, seqs
  <2>2. CASE u # s
    BY <1>3, <1>4, <2>2
  <2> QED BY <2>1, <2>2
<1>6. \/ handler' = handler
      \/ handler.at # "none" /\ handler' = [handler EXCEPT !.at = "scanning"]
  BY <1>1 DEF woken
<1>7. handler'.at = "parked" => seqs(source)' \subseteq seqs(source)
  <2> SUFFICES ASSUME handler'.at = "parked" PROVE seqs(source)' \subseteq seqs(source)
    OBVIOUS
  <2>1. ~woken(s)
    BY <1>1 DEF FeedInv, TypeOK
  <2>2. handler.at = "parked" /\ source \in Sources /\ source # s
    BY <1>1, <2>1 DEF FeedInv, LineInv, woken
  <2>3. source' = source /\ db'[source] = db[source]
    BY <1>1, <1>2, <2>2
  <2> QED BY <2>3 DEF seqs
<1>8. drops' \in Nat /\ changes' \in Nat
  BY <1>1 DEF FeedInv, TypeOK
<1> QED BY <1>1, <1>2, <1>5, <1>6, <1>7, <1>8, StoreStep

LEMMA DeletedStep ==
  ASSUME FeedInv, NEW s \in Sources, NEW t \in ThreadIds, deleteByThread(s, t)
  PROVE  FeedInv'
<1>1. UNCHANGED <<handler, wire, source, cursor, line, told, from, drops, changes>>
  BY DEF deleteByThread
<1>2. /\ db' \in [Sources -> [rows : SUBSET Row, loud : Seq(BOOLEAN)]]
      /\ \A u \in Sources : db'[u].loud = db[u].loud /\ seqs(u)' \subseteq seqs(u)
  BY DeleteFacts DEF FeedInv
<1>3. \A u \in Sources : /\ last(u)' \in Nat /\ last(u) <= last(u)'
                         /\ \A m \in seqs(u)' : m \in seqs(u) \/ (last(u) < m /\ m <= last(u)')
  <2>1. \A u \in Sources : last(u)' = last(u) /\ last(u) \in Nat
    BY <1>2, StoreFacts DEF FeedInv, last
  <2> QED BY <1>2, <2>1
<1>4. handler.at = "parked" => seqs(source)' \subseteq seqs(source)
  BY <1>1, <1>2 DEF FeedInv, LineInv, seqs
<1>5. drops' \in Nat /\ changes' \in Nat
  BY <1>1 DEF FeedInv, TypeOK
<1> QED BY <1>1, <1>2, <1>3, <1>4, <1>5, StoreStep

LEMMA HeartbeatStep == ASSUME FeedInv, Heartbeat PROVE FeedInv'
<1>1. /\ handler.at = "parked" /\ handler' = [handler EXCEPT !.at = "scanning"]
      /\ UNCHANGED <<db, wire, source, cursor, line, told, from, drops, changes>>
  BY DEF Heartbeat
<1>2. db' \in [Sources -> [rows : SUBSET Row, loud : Seq(BOOLEAN)]]
  BY <1>1 DEF FeedInv, TypeOK
<1>3. \A u \in Sources : /\ last(u)' \in Nat /\ last(u) <= last(u)'
                         /\ \A m \in seqs(u)' : m \in seqs(u) \/ (last(u) < m /\ m <= last(u)')
  BY <1>1, StoreFacts DEF FeedInv, last, seqs
<1>4. drops' \in Nat /\ changes' \in Nat /\ (handler'.at = "parked" => seqs(source)' \subseteq seqs(source))
  BY <1>1 DEF FeedInv, TypeOK, seqs
<1> QED BY <1>1, <1>2, <1>3, <1>4, StoreStep

(* Nothing is under way, or no longer. *)
LEMMA RestStep ==
  ASSUME FeedInv,
         db' = db, told' = told, wire' = <<>>, handler'.at = "none", handler'.batch = {},
         handler' \in [at : {"none", "scanning", "writing", "parked"}, cursor : Nat,
                       batch : SUBSET Nat],
         line' \in {"connecting", "waiting", "stopped"},
         source' \in Sources \cup {NoSource},
         line' # "stopped" => source' \in Sources,
         cursor' # NoCursor => source' = source /\ cursor' = cursor,
         from' \in Nat, drops' \in Nat, changes' \in Nat,
         cursor' = NoCursor /\ source' \in Sources => from' <= last(source')
  PROVE  FeedInv'
<1>1. TypeOK'
  <2>1. cursor' \in Nat \cup {NoCursor}
    BY DEF FeedInv, TypeOK
  <2>2. wire' \in Seq(Message)
    OBVIOUS
  <2> QED BY <2>1, <2>2 DEF FeedInv, TypeOK
<1>2. Sent' = {} /\ base' = cursor' /\ (known' <=> cursor' # NoCursor)
  BY DEF Sent, base, known
<1>3. cursor' # NoCursor => source' \in Sources /\ cursor' = base /\ known
  BY BaseFacts DEF known
<1>4. LineInv'
  BY <1>2, <1>3 DEF LineInv
<1>5. BoundInv'
  <2>1. \A s : last(s)' = last(s) /\ seqs(s)' = seqs(s)
    BY DEF last, seqs
  <2>2. \A k \in DOMAIN told : told[k][2] <= last(told[k][1])'
    BY <2>1 DEF FeedInv, BoundInv
  <2>3. \A s \in Sources : \A m \in seqs(s)' : m <= last(s)'
    BY <2>1 DEF FeedInv, BoundInv
  <2>4. source' \in Sources =>
          /\ cursor' = NoCursor => from' <= last(source')
          /\ cursor' # NoCursor => cursor' <= last(source')
    BY <1>3 DEF FeedInv, BoundInv
  <2>5. last(source)' = last(source')
    BY DEF last
  <2> QED BY <1>2, <2>2, <2>3, <2>4, <2>5 DEF BoundInv
<1>6. StreamInv'
  BY <1>2 DEF StreamInv
<1>7. ToldInv'
  <2> SUFFICES ASSUME cursor' # NoCursor, NEW k \in DOMAIN told, told[k][1] = source'
               PROVE  told[k][2] <= cursor' \/ told[k][2] \notin seqs(source)'
    BY <1>2 DEF ToldInv
  <2>1. told[k][1] = source /\ cursor' = base /\ known /\ seqs(source)' = seqs(source)
    BY <1>3 DEF seqs
  <2> QED BY <2>1 DEF FeedInv, ToldInv
<1>8. SleepsOnlyWhenDone'
  BY DEF SleepsOnlyWhenDone
<1> QED BY <1>1, <1>4, <1>5, <1>6, <1>7, <1>8 DEF FeedInv

LEMMA ConnectStep ==
  ASSUME FeedInv, NEW s \in Sources, NEW since,
         since = IF s = source THEN cursor ELSE NoCursor,
         connect(s, since), UNCHANGED <<db, told>>, drops' \in Nat, changes' \in Nat
  PROVE  FeedInv'
<1>1. /\ source' = s /\ cursor' = since /\ line' = "connecting" /\ handler' = none /\ wire' = <<>>
      /\ from' = IF since = NoCursor THEN last(s) ELSE from
  BY DEF connect, last
<1>2. last(s) \in Nat /\ from \in Nat
  BY StoreFacts DEF FeedInv, TypeOK
<1>3. from' \in Nat /\ (cursor' = NoCursor => from' <= last(source'))
  BY <1>1, <1>2
<1>4. cursor' # NoCursor => source' = source /\ cursor' = cursor
  BY <1>1
<1>5. handler'.at = "none" /\ handler'.batch = {}
      /\ handler' \in [at : {"none", "scanning", "writing", "parked"}, cursor : Nat, batch : SUBSET Nat]
  BY <1>1 DEF none
<1> QED BY <1>1, <1>3, <1>4, <1>5, RestStep

LEMMA LineStep ==
  ASSUME FeedInv, \/ stop \/ ConnectFails \/ Closed \/ Reconnect
                  \/ \E s \in Sources : setConnection(s)
  PROVE  FeedInv'
<1>1. TypeOK /\ LineInv /\ BoundInv
  BY DEF FeedInv
<1>2. CASE stop
  <2>1. /\ line' = "stopped" /\ handler' = none /\ wire' = <<>>
        /\ UNCHANGED <<db, source, cursor, told, from, drops, changes>>
    BY <1>2 DEF stop
  <2>2. handler'.at = "none" /\ handler'.batch = {}
        /\ handler' \in [at : {"none", "scanning", "writing", "parked"}, cursor : Nat, batch : SUBSET Nat]
    BY <2>1 DEF none
  <2> QED BY <1>1, <2>1, <2>2, RestStep DEF TypeOK, BoundInv
<1>3. CASE ConnectFails \/ Closed
  <2>1. /\ line' = "waiting" /\ line \in {"connecting", "open"}
        /\ handler.at = "none" /\ handler' = handler /\ wire = <<>> /\ wire' = wire
        /\ UNCHANGED <<db, source, cursor, told, from, changes>>
        /\ drops' \in Nat
    BY <1>1, <1>3 DEF ConnectFails, Closed, LineInv, TypeOK
  <2> QED BY <1>1, <2>1, RestStep DEF TypeOK, BoundInv, LineInv
<1>4. CASE Reconnect
  <2>1. source \in Sources /\ connect(source, cursor) /\ UNCHANGED <<db, told, drops, changes>>
    BY <1>1, <1>4 DEF Reconnect, LineInv
  <2> QED BY <1>1, <2>1, ConnectStep DEF TypeOK
<1>5. ASSUME NEW s \in Sources, setConnection(s) PROVE FeedInv'
  <2>1. /\ connect(s, IF s = source THEN cursor ELSE NoCursor)
        /\ UNCHANGED <<db, told>> /\ drops' \in Nat /\ changes' \in Nat
    BY <1>1, <1>5 DEF setConnection, TypeOK
  <2> QED BY <2>1, ConnectStep
<1> QED BY <1>2, <1>3, <1>4, <1>5

LEMMA AcceptStep == ASSUME FeedInv, Accept PROVE FeedInv'
<1> DEFINE start == IF cursor = NoCursor THEN latestSeq(source) ELSE cursor
<1>1. /\ line = "connecting" /\ line' = "open"
      /\ handler' = [at |-> "scanning", cursor |-> start, batch |-> {}]
      /\ wire' = <<[event |-> "ready", n |-> start]>>
      /\ UNCHANGED <<db, source, cursor, told, from, drops, changes>>
  BY DEF Accept
<1>2. source \in Sources /\ handler.at = "none" /\ wire = <<>> /\ Sent = {} /\ handler.batch = {}
  BY <1>1 DEF FeedInv, LineInv, Sent
<1>3. /\ latestSeq(source) \in Nat /\ latestSeq(source) <= last(source)
      /\ \A m \in seqs(source) : m <= latestSeq(source)
      /\ seqs(source) \subseteq Nat
  BY <1>2, LatestFacts, StoreFacts DEF FeedInv, BoundInv
<1>4. start \in Nat /\ start <= last(source) /\ (cursor # NoCursor => start = cursor)
      /\ (cursor = NoCursor => start = latestSeq(source))
  BY <1>2, <1>3 DEF FeedInv, BoundInv, TypeOK
<1> HIDE DEF start
<1>5. /\ handler'.at = "scanning" /\ handler'.cursor = start /\ handler'.batch = {}
      /\ handler' \in [at : {"none", "scanning", "writing", "parked"}, cursor : Nat, batch : SUBSET Nat]
  BY <1>1, <1>4
<1>6. /\ wire' \in Seq(Message) /\ wire' # <<>> /\ Sent' = {1}
      /\ wire'[1].event = "ready" /\ wire'[1].n = start /\ N(1)' = start /\ base' = start
  <2>1. [event |-> "ready", n |-> start] \in Message
    BY <1>4 DEF Message
  <2>2. wire'[1] = [event |-> "ready", n |-> start] /\ Len(wire') = 1 /\ DOMAIN wire' = {1}
    BY <1>1
  <2>3. wire' \in Seq(Message) /\ wire' # <<>>
    BY <1>1, <2>1
  <2> QED BY <2>2, <2>3 DEF Sent, N, base
<1>7. \A s : last(s)' = last(s) /\ seqs(s)' = seqs(s)
  BY <1>1 DEF last, seqs
<1>8. seqs(source)' = seqs(source) /\ last(source)' = last(source)
  BY <1>1 DEF last, seqs
<1>9. TypeOK'
  BY <1>1, <1>5, <1>6 DEF FeedInv, TypeOK
<1>10. LineInv'
  BY <1>1, <1>2, <1>4, <1>5, <1>6 DEF FeedInv, LineInv
<1>11. BoundInv'
  <2>1. \A k \in DOMAIN told : told[k][2] <= last(told[k][1])'
    BY <1>1, <1>7 DEF FeedInv, BoundInv
  <2>2. \A s \in Sources : \A m \in seqs(s)' : m <= last(s)'
    BY <1>7 DEF FeedInv, BoundInv
  <2>3. /\ cursor = NoCursor => from <= last(source)
        /\ cursor # NoCursor => cursor <= last(source)
    BY <1>2 DEF FeedInv, BoundInv
  <2>4. \A i \in Sent' : N(i)' <= last(source)
    BY <1>4, <1>6
  <2> QED BY <1>1, <1>4, <1>5, <1>8, <2>1, <2>2, <2>3, <2>4 DEF BoundInv
<1>12. StreamInv'
  <2>1. \A i \in Sent' : i = 1 /\ N(i)' = start
    BY <1>6
  <2>2. cursor = NoCursor => \A m \in seqs(source) : m <= start
    BY <1>3, <1>4
  <2> QED BY <1>1, <1>3, <1>4, <1>5, <1>6, <1>8, <2>1, <2>2 DEF StreamInv
<1>13. ToldInv'
  <2> SUFFICES ASSUME NEW k \in DOMAIN told, told[k][1] = source
               PROVE  \/ told[k][2] <= start
                      \/ told[k][2] \notin seqs(source) \cup {} \cup {start}
    <3>1. {N(i)' : i \in Sent'} = {start}
      BY <1>6
    <3> QED BY <1>1, <1>5, <1>6, <1>8, <3>1 DEF ToldInv
  <2>1. told[k][2] \in Nat
    BY ToldFacts
  <2>2. CASE cursor = NoCursor
    BY <1>3, <1>4, <2>1, <2>2
  <2>3. CASE cursor # NoCursor
    <3>1. known /\ base = start
      BY <1>4, <2>3, BaseFacts DEF known
    <3>2. told[k][2] <= start \/ told[k][2] \notin seqs(source)
      BY <3>1 DEF FeedInv, ToldInv
    <3> QED BY <1>4, <2>1, <3>2
  <2> QED BY <2>2, <2>3
<1>14. SleepsOnlyWhenDone'
  BY <1>5 DEF SleepsOnlyWhenDone
<1> QED BY <1>9, <1>10, <1>11, <1>12, <1>13, <1>14 DEF FeedInv

LEMMA ScanStep == ASSUME FeedInv, Scan PROVE FeedInv'
<1> DEFINE events == listAfter(source, handler.cursor)
<1>1. /\ handler.at = "scanning"
      /\ handler' = [handler EXCEPT !.at = IF events = {} THEN "parked" ELSE "writing",
                                    !.batch = events]
      /\ UNCHANGED <<db, wire, source, cursor, line, told, from, drops, changes>>
  BY DEF Scan
<1>2. source \in Sources /\ handler.cursor \in Nat /\ seqs(source) \subseteq Nat
  BY <1>1, StoreFacts DEF FeedInv, LineInv, TypeOK
<1>3. /\ \A b \in events : b \in seqs(source) /\ handler.cursor < b
      /\ \A b \in events, m \in seqs(source) : handler.cursor < m /\ m < b => m \in events
      /\ events = {} => \A m \in seqs(source) : m <= handler.cursor
  BY <1>2, ListFacts DEF FeedInv, BoundInv
<1> HIDE DEF events
<1>4. /\ handler'.at \in {"parked", "writing"} /\ handler'.cursor = handler.cursor /\ handler'.batch = events
      /\ handler'.at = "parked" => events = {}
      /\ handler' \in [at : {"none", "scanning", "writing", "parked"}, cursor : Nat, batch : SUBSET Nat]
  BY <1>1, <1>2, <1>3 DEF FeedInv, TypeOK
<1>5. /\ Sent' = Sent /\ base' = base /\ \A i : N(i)' = N(i)
      /\ \A s : last(s)' = last(s) /\ seqs(s)' = seqs(s)
  BY <1>1 DEF Sent, base, N, last, seqs
<1>6. seqs(source)' = seqs(source) /\ last(source)' = last(source) /\ known
  BY <1>1 DEF last, seqs, known
<1>7. TypeOK'
  BY <1>1, <1>4 DEF FeedInv, TypeOK
<1>8. LineInv'
  BY <1>1, <1>4, <1>5 DEF FeedInv, LineInv
<1>9. BoundInv'
  <2>1. \A b \in events : b <= last(source)
    BY <1>2, <1>3 DEF FeedInv, BoundInv
  <2>2. \A k \in DOMAIN told : told[k][2] <= last(told[k][1])'
    BY <1>1, <1>5 DEF FeedInv, BoundInv
  <2>3. \A s \in Sources : \A m \in seqs(s)' : m <= last(s)'
    BY <1>5 DEF FeedInv, BoundInv
  <2>4. /\ cursor = NoCursor => from <= last(source)
        /\ cursor # NoCursor => cursor <= last(source)
        /\ handler.cursor <= last(source)
        /\ \A i \in Sent : N(i) <= last(source)
    BY <1>1, <1>2 DEF FeedInv, BoundInv
  <2> QED BY <1>1, <1>4, <1>5, <1>6, <2>1, <2>2, <2>3, <2>4 DEF BoundInv
<1>10. StreamInv'
  <2>1. /\ \A i, j \in Sent : i < j => N(i) < N(j)
        /\ \A i \in Sent : \A m \in seqs(source) :
             base < m /\ m < N(i) => \E j \in Sent : j < i /\ N(j) = m
        /\ base <= handler.cursor
        /\ \A i \in Sent : N(i) <= handler.cursor
        /\ \A m \in seqs(source) :
             base < m /\ m <= handler.cursor => \E j \in Sent : N(j) = m
        /\ cursor = NoCursor /\ wire # <<>> => \A m \in seqs(source) : m <= from => m <= N(1)
    BY <1>1 DEF FeedInv, StreamInv
  <2>2. \A i \in Sent : \A m \in seqs(source)' :
          base < m /\ m < N(i) => \E j \in Sent : j < i /\ N(j) = m
    BY <1>6, <2>1
  <2>3. \A m \in seqs(source)' :
          base < m /\ m <= handler.cursor => \E j \in Sent : N(j) = m
    BY <1>6, <2>1
  <2>4. /\ \A m \in events : handler.cursor < m
        /\ \A b \in events, m \in seqs(source)' : handler.cursor < m /\ m < b => m \in events
    BY <1>3, <1>6
  <2>5. cursor = NoCursor /\ wire # <<>> => \A m \in seqs(source)' : m <= from => m <= N(1)
    BY <1>6, <2>1
  <2>6. handler'.cursor = handler.cursor /\ handler'.batch = events
    BY <1>4
  <2>7. source' = source /\ cursor' = cursor /\ wire' = wire
    BY <1>1
  <2>8. /\ \A i, j \in Sent' : i < j => N(i)' < N(j)'
        /\ \A i \in Sent' : \A m \in seqs(source)' :
             base' < m /\ m < N(i)' => \E j \in Sent' : j < i /\ N(j)' = m
    BY <1>5, <2>1, <2>2
  <2>9. /\ \A i \in Sent' : N(i)' <= handler'.cursor
        /\ base' <= handler'.cursor
        /\ \A m \in seqs(source)' :
             base' < m /\ m <= handler'.cursor => \E j \in Sent' : N(j)' = m
    BY <1>5, <2>1, <2>3, <2>6
  <2>10. /\ \A m \in handler'.batch : handler'.cursor < m
         /\ \A b \in handler'.batch, m \in seqs(source)' :
              handler'.cursor < m /\ m < b => m \in handler'.batch
    BY <2>4, <2>6
  <2>11. cursor' = NoCursor /\ wire' # <<>> => \A m \in seqs(source)' : m <= from' => m <= N(1)'
    BY <1>1, <1>5, <2>5, <2>7
  <2> QED BY <2>8, <2>9, <2>10, <2>11 DEF StreamInv
<1>11. ToldInv'
  <2> SUFFICES ASSUME NEW k \in DOMAIN told, told[k][1] = source
               PROVE  \/ told[k][2] <= base
                      \/ told[k][2] \notin seqs(source) \cup events \cup {N(i) : i \in Sent}
    <3>1. {N(i)' : i \in Sent'} = {N(i) : i \in Sent}
      BY <1>5
    <3> QED BY <1>1, <1>4, <1>5, <1>6, <3>1 DEF ToldInv
  <2> QED BY <1>3, <1>6 DEF FeedInv, ToldInv
<1>12. SleepsOnlyWhenDone'
  BY <1>3, <1>4, <1>6 DEF SleepsOnlyWhenDone
<1> QED BY <1>7, <1>8, <1>9, <1>10, <1>11, <1>12 DEF FeedInv

(* What is written is the next of the stored events. *)
LEMMA WriteStep == ASSUME FeedInv, Write PROVE FeedInv'
<1>1. PICK n \in handler.batch :
        /\ \A m \in handler.batch : n <= m
        /\ wire' = Append(wire, [event |-> "activity", n |-> n])
        /\ handler' = [at     |-> IF handler.batch = {n} THEN "scanning" ELSE "writing",
                       cursor |-> n,
                       batch  |-> handler.batch \ {n}]
  BY DEF Write
<1>2. handler.at = "writing" /\ UNCHANGED <<db, source, cursor, line, told, from, drops, changes>>
  BY DEF Write
<1>3. /\ n \in Nat /\ handler.batch \in SUBSET Nat /\ handler.cursor \in Nat /\ handler.cursor < n
      /\ source \in Sources /\ seqs(source) \subseteq Nat /\ known /\ line = "open"
  <2>1. n \in Nat /\ handler.batch \in SUBSET Nat /\ handler.cursor \in Nat
    BY <1>1 DEF FeedInv, TypeOK
  <2>2. handler.cursor < n /\ source \in Sources /\ line = "open"
    BY <1>1, <1>2 DEF FeedInv, StreamInv, LineInv
  <2> QED BY <1>2, <2>1, <2>2, StoreFacts DEF FeedInv, known
<1>4. /\ handler'.at \in {"scanning", "writing"} /\ handler'.cursor = n
      /\ handler'.batch = handler.batch \ {n}
      /\ handler' \in [at : {"none", "scanning", "writing", "parked"}, cursor : Nat, batch : SUBSET Nat]
  BY <1>1, <1>3
<1> DEFINE new == Len(wire) + 1
<1>5. /\ wire' \in Seq(Message) /\ wire' # <<>> /\ new \in Nat /\ new > 0
      /\ Sent' = Sent \cup {new} /\ Sent = 1 .. Len(wire) /\ Len(wire) \in Nat
      /\ \A i \in Sent : i < new /\ wire'[i] = wire[i]
      /\ wire'[new].event = "activity" /\ wire'[new].n = n
  <2> DEFINE msg == [event |-> "activity", n |-> n]
  <2>1. msg \in Message /\ msg.event = "activity" /\ msg.n = n
    BY <1>3 DEF Message
  <2>2. wire \in Seq(Message) /\ Len(wire) \in Nat /\ Sent = 1 .. Len(wire)
    BY WireFacts
  <2> HIDE DEF msg
  <2>3. /\ wire' \in Seq(Message) /\ Len(wire') = new
        /\ \A i \in 1 .. Len(wire) : wire'[i] = wire[i]
        /\ wire'[new] = msg /\ DOMAIN wire' = 1 .. Len(wire')
    BY <1>1, <2>1, <2>2, AppendProperties, LenProperties DEF msg
  <2>4. Sent' = 1 .. new
    BY <2>3 DEF Sent
  <2> QED BY <2>1, <2>2, <2>3, <2>4
<1> HIDE DEF new
<1>6. /\ \A i \in Sent' : N(i)' = IF i = new THEN n ELSE N(i)
      /\ \A i \in Sent : i # new /\ i \in Sent' /\ N(i)' = N(i) /\ N(i) \in Nat
  <2>1. \A i \in Sent : i # new /\ i \in Sent' /\ wire'[i] = wire[i] /\ i \in Nat
    BY <1>5
  <2>2. \A i : N(i)' = wire'[i].n /\ N(i) = wire[i].n
    BY DEF N
  <2> QED BY <1>5, <2>1, <2>2, WireFacts
<1>7. base \in Nat /\ base <= handler.cursor /\ base' = base
  <2>1. base \in Nat /\ base <= handler.cursor
    BY <1>2, <1>3, BaseFacts DEF FeedInv, StreamInv
  <2>2. CASE wire = <<>>
    <3>1. cursor # NoCursor /\ base = cursor /\ new = 1
      BY <1>2, <1>5, <2>2, BaseFacts DEF FeedInv, LineInv, new
    <3>2. base' = cursor'
      BY <1>5, <3>1 DEF base
    <3> QED BY <1>2, <2>1, <3>1, <3>2
  <2>3. CASE wire # <<>>
    <3>1. wire'[1] = wire[1]
      BY <1>5, <2>3, WireFacts
    <3>2. base' = base
      BY <1>2, <1>5, <2>3, <3>1 DEF base
    <3> QED BY <2>1, <3>2
  <2> QED BY <2>2, <2>3
<1>8. seqs(source)' = seqs(source) /\ last(source)' = last(source)
      /\ \A s : seqs(s)' = seqs(s) /\ last(s)' = last(s)
  BY <1>2 DEF seqs, last
<1>9. TypeOK'
  BY <1>2, <1>4, <1>5 DEF FeedInv, TypeOK
<1>10. LineInv'
  <2>1. \A i \in Sent' : i # 1 => wire'[i].event = "activity"
    BY <1>5 DEF FeedInv, LineInv
  <2>2. CASE wire = <<>>
    <3>1. cursor # NoCursor /\ cursor \in Nat /\ base = cursor /\ new = 1
      BY <1>2, <1>5, <2>2, BaseFacts DEF FeedInv, LineInv, new
    <3>2. wire'[1].event = "activity" /\ wire'[1].n > cursor
      BY <1>3, <1>5, <1>7, <3>1
    <3> QED BY <1>2, <1>3, <1>4, <1>5, <2>1, <3>1, <3>2 DEF LineInv
  <2>3. CASE wire # <<>>
    <3>1. wire'[1] = wire[1]
      BY <1>5, <2>3, WireFacts
    <3>2. /\ cursor = NoCursor => wire[1].event = "ready"
          /\ wire[1].event = "ready" /\ cursor # NoCursor => wire[1].n = cursor
          /\ wire[1].event = "activity" => wire[1].n > cursor
      BY <2>3 DEF FeedInv, LineInv
    <3> QED BY <1>2, <1>3, <1>4, <1>5, <2>1, <3>1, <3>2 DEF LineInv
  <2> QED BY <2>2, <2>3
<1>11. BoundInv'
  <2>1. n <= last(source)
    BY <1>1, <1>3 DEF FeedInv, BoundInv
  <2>2. \A k \in DOMAIN told : told[k][2] <= last(told[k][1])'
    BY <1>2, <1>8 DEF FeedInv, BoundInv
  <2>3. \A s \in Sources : \A m \in seqs(s)' : m <= last(s)'
    BY <1>8 DEF FeedInv, BoundInv
  <2>4. /\ cursor = NoCursor => from <= last(source)
        /\ cursor # NoCursor => cursor <= last(source)
        /\ \A m \in handler.batch : m <= last(source)
        /\ \A i \in Sent : N(i) <= last(source)
    BY <1>3 DEF FeedInv, BoundInv
  <2>5. \A i \in Sent' : N(i)' <= last(source)
    BY <1>5, <1>6, <2>1, <2>4
  <2>6. handler'.cursor <= last(source) /\ \A m \in handler'.batch : m <= last(source)
    BY <1>4, <2>1, <2>4
  <2> QED BY <1>2, <1>8, <2>2, <2>3, <2>4, <2>5, <2>6 DEF BoundInv
<1>12. StreamInv'
  <2>1. /\ \A i, j \in Sent : i < j => N(i) < N(j)
        /\ \A i \in Sent : \A m \in seqs(source) :
             base < m /\ m < N(i) => \E j \in Sent : j < i /\ N(j) = m
        /\ \A i \in Sent : N(i) <= handler.cursor
        /\ \A m \in seqs(source) :
             base < m /\ m <= handler.cursor => \E j \in Sent : N(j) = m
        /\ \A b \in handler.batch, m \in seqs(source) :
             handler.cursor < m /\ m < b => m \in handler.batch
        /\ cursor = NoCursor /\ wire # <<>> => \A m \in seqs(source) : m <= from => m <= N(1)
    BY <1>2 DEF FeedInv, StreamInv
  <2>2. \A i, j \in Sent' : i < j => N(i)' < N(j)'
    BY <1>3, <1>5, <1>6, <2>1
  <2>3. \A m \in seqs(source) : base < m /\ m < n => \E j \in Sent : N(j) = m
    <3> SUFFICES ASSUME NEW m \in seqs(source), base < m, m < n PROVE m <= handler.cursor
      BY <2>1
    <3>1. handler.cursor < m => m \in handler.batch
      BY <1>1, <2>1
    <3> QED BY <1>1, <1>3, <3>1
  <2>4. \A i \in Sent' : \A m \in seqs(source) :
          base < m /\ m < N(i)' => \E j \in Sent' : j < i /\ N(j)' = m
    <3> SUFFICES ASSUME NEW i \in Sent', NEW m \in seqs(source), base < m, m < N(i)'
                 PROVE  \E j \in Sent : j < i /\ N(j) = m
      BY <1>5, <1>6
    <3>1. CASE i = new
      BY <1>5, <1>6, <2>3, <3>1
    <3>2. CASE i \in Sent
      BY <1>6, <2>1, <3>2
    <3> QED BY <1>5, <3>1, <3>2
  <2>5. \A i \in Sent' : N(i)' <= n
    BY <1>3, <1>5, <1>6, <2>1
  <2>6. \A m \in seqs(source) : base < m /\ m <= n => \E j \in Sent' : N(j)' = m
    <3> TAKE m \in seqs(source)
    <3> HAVE base < m /\ m <= n
    <3>1. m = n \/ m < n
      BY <1>3
    <3> QED BY <1>5, <1>6, <2>3, <3>1
  <2>7. /\ \A m \in handler.batch \ {n} : n < m
        /\ \A b \in handler.batch \ {n}, m \in seqs(source) :
             n < m /\ m < b => m \in handler.batch \ {n}
    BY <1>1, <1>3, <2>1
  <2>8. cursor = NoCursor => \A m \in seqs(source) : m <= from => m <= N(1)'
    <3>1. cursor = NoCursor => wire # <<>> /\ 1 \in Sent
      BY <1>2, WireFacts DEF FeedInv, LineInv
    <3> QED BY <1>6, <2>1, <3>1
  <2>9. base <= n /\ handler'.cursor = n /\ handler'.batch = handler.batch \ {n}
    BY <1>3, <1>4, <1>7
  <2>10. cursor' = cursor /\ source' = source /\ from' = from /\ base' = base
    BY <1>2, <1>7
  <2> QED BY <1>8, <2>2, <2>4, <2>5, <2>6, <2>7, <2>8, <2>9, <2>10 DEF StreamInv
<1>13. ToldInv'
  <2>1. {N(i)' : i \in Sent'} = {N(i) : i \in Sent} \cup {n}
    BY <1>5, <1>6
  <2> SUFFICES ASSUME NEW k \in DOMAIN told, told[k][1] = source
               PROVE  \/ told[k][2] <= base
                      \/ told[k][2] \notin seqs(source) \cup (handler.batch \ {n})
                                             \cup ({N(i) : i \in Sent} \cup {n})
    BY <1>2, <1>4, <1>7, <1>8, <2>1 DEF ToldInv
  <2>2. \/ told[k][2] <= base
        \/ told[k][2] \notin seqs(source) \cup handler.batch \cup {N(i) : i \in Sent}
    BY <1>3 DEF FeedInv, ToldInv
  <2> QED BY <1>1, <2>2
<1>14. SleepsOnlyWhenDone'
  BY <1>4 DEF SleepsOnlyWhenDone
<1> QED BY <1>9, <1>10, <1>11, <1>12, <1>13, <1>14 DEF FeedInv

(* The first message on the wire is received: what it did to the base. *)
LEMMA ReceiveFacts ==
  ASSUME FeedInv, Receive
  PROVE  /\ wire # <<>> /\ line = "open" /\ wire' \in Seq(Message) /\ 1 \in Sent
         /\ Sent' = 1 .. Len(wire) - 1
         /\ \A i \in Sent' : /\ i + 1 \in Sent /\ wire'[i] = wire[i + 1] /\ i + 1 # 1
                             /\ wire'[i].event = "activity" /\ N(i)' = N(i + 1) /\ N(i)' \in Nat
                             /\ N(1) < N(i)'
         /\ \A i \in Sent : i # 1 => i - 1 \in Sent' /\ N(i - 1)' = N(i)
         /\ wire' = <<>> => Sent' = {}
         /\ wire' # <<>> => 1 \in Sent'
         /\ cursor' = N(1) /\ base' = N(1) /\ N(1) \in Nat
         /\ base \in Nat /\ base <= N(1) /\ cursor' \in Nat
         /\ wire[1].event = "ready" => base = N(1) /\ told' = told
         /\ wire[1].event = "activity" => cursor # NoCursor /\ base = cursor /\ base < N(1)
         /\ UNCHANGED <<db, handler, source, line, from, drops, changes>>
         /\ source \in Sources
<1>1. /\ line = "open" /\ wire # <<>> /\ wire' = Tail(wire)
      /\ UNCHANGED <<db, handler, source, line, from, drops, changes>>
      /\ IF wire[1].event = "ready" THEN onReady(N(1)) ELSE onActivity(N(1))
  BY DEF Receive, N
<1>2. /\ wire \in Seq(Message) /\ Len(wire) \in Nat /\ Len(wire) # 0 /\ Sent = 1 .. Len(wire) /\ 1 \in Sent
      /\ N(1) \in Nat /\ wire[1].event \in {"ready", "activity"}
  BY <1>1, WireFacts
<1>3. /\ wire' \in Seq(Message) /\ Len(wire') = Len(wire) - 1
      /\ \A i \in 1 .. Len(wire) - 1 : wire'[i] = wire[i + 1]
  BY <1>1, <1>2
<1>4. Sent' = 1 .. Len(wire) - 1
  BY <1>3, LenProperties DEF Sent
<1>5. \A i \in Sent' : i + 1 \in Sent /\ 1 < i + 1 /\ i \in Nat /\ wire'[i] = wire[i + 1]
  BY <1>2, <1>3, <1>4
<1>6. \A i \in Sent' : /\ wire'[i].event = "activity" /\ N(i)' = N(i + 1) /\ N(i)' \in Nat
                       /\ N(1) < N(i)'
  <2> TAKE i \in Sent'
  <2>1. wire'[i].event = "activity"
    BY <1>5 DEF FeedInv, LineInv
  <2>2. N(i)' = N(i + 1)
    BY <1>5 DEF N
  <2>3. N(i + 1) \in Nat /\ N(1) < N(i + 1)
    BY <1>2, <1>5, WireFacts DEF FeedInv, StreamInv
  <2> QED BY <2>1, <2>2, <2>3
<1>7. ASSUME NEW i \in Sent, i # 1 PROVE i - 1 \in Sent' /\ N(i - 1)' = N(i)
  <2>1. i - 1 \in Sent' /\ (i - 1) + 1 = i
    BY <1>2, <1>4, <1>7
  <2>2. wire'[i - 1] = wire[i]
    BY <1>5, <2>1
  <2> QED BY <2>1, <2>2 DEF N
<1>8. (wire' = <<>> => Sent' = {}) /\ (wire' # <<>> => 1 \in Sent')
  BY <1>2, <1>3, <1>4, EmptySeq
<1>9. CASE wire[1].event = "ready"
  <2>1. cursor' = (IF cursor = NoCursor THEN N(1) ELSE cursor) /\ told' = told
    BY <1>1, <1>9 DEF onReady
  <2>2. cursor # NoCursor => N(1) = cursor
    BY <1>1, <1>9 DEF FeedInv, LineInv, N
  <2>3. base = N(1)
    BY <1>1, <1>9 DEF base, N
  <2>4. cursor' = N(1)
    BY <2>1, <2>2
  <2>5. base' = cursor'
    BY <1>6, <1>8 DEF base
  <2> QED BY <1>1, <1>2, <1>3, <1>4, <1>5, <1>6, <1>7, <1>8, <1>9, <2>1, <2>3, <2>4, <2>5 DEF FeedInv, LineInv
<1>10. CASE wire[1].event = "activity"
  <2>1. cursor' = IF cursor = NoCursor \/ N(1) > cursor THEN N(1) ELSE cursor
    BY <1>1, <1>10 DEF onActivity
  <2>2. cursor # NoCursor /\ N(1) > cursor
    BY <1>1, <1>10 DEF FeedInv, LineInv, N
  <2>3. base = cursor /\ cursor \in Nat
    BY <2>2, BaseFacts
  <2>4. cursor' = N(1) /\ base < N(1)
    BY <1>2, <2>1, <2>2, <2>3
  <2>5. base' = cursor'
    BY <1>6, <1>8 DEF base
  <2> QED BY <1>1, <1>2, <1>3, <1>4, <1>5, <1>6, <1>7, <1>8, <1>10, <2>2, <2>3, <2>4, <2>5 DEF FeedInv, LineInv
<1> QED BY <1>2, <1>9, <1>10

(* An event is told of when it is worth it. *)
LEMMA TellFacts ==
  ASSUME FeedInv, Receive, wire[1].event = "activity"
  PROVE  told' = IF db[source].loud[N(1)] THEN Append(told, <<source, N(1)>>) ELSE told
<1>1. cursor # NoCursor /\ base = cursor /\ cursor < N(1) /\ cursor \in Nat /\ N(1) \in Nat
  BY ReceiveFacts, BaseFacts
<1>2. onActivity(N(1))
  BY DEF Receive, N
<1> QED BY <1>1, <1>2 DEF onActivity

LEMMA ReceiveStep == ASSUME FeedInv, Receive PROVE FeedInv'
<1>1. N(1) <= last(source) /\ N(1) \in Nat /\ source \in Sources /\ 1 \in Sent
  BY ReceiveFacts DEF FeedInv, BoundInv
<1>2. /\ told' \in Seq(Sources \X Nat)
      /\ \A k \in DOMAIN told' : \/ k \in DOMAIN told /\ told'[k] = told[k]
                                 \/ told'[k] = <<source, N(1)>>
  <2>1. CASE told' = told
    BY <2>1, ToldFacts
  <2>2. CASE told' = Append(told, <<source, N(1)>>)
    <3>1. <<source, N(1)>> \in Sources \X Nat
      BY <1>1
    <3> QED BY <2>2, <3>1, ToldFacts, AppendProperties, LenProperties
  <2>3. wire[1].event \in {"ready", "activity"}
    BY <1>1, WireFacts
  <2> QED BY <2>1, <2>2, <2>3, ReceiveFacts, TellFacts
<1>3. UNCHANGED <<db, handler, source, line, from, drops, changes>>
  BY ReceiveFacts
<1>4. seqs(source)' = seqs(source) /\ last(source)' = last(source)
      /\ \A s : seqs(s)' = seqs(s) /\ Len(db'[s].loud) = last(s) /\ last(s)' = last(s)
  BY <1>3 DEF seqs, last
<1>5. TypeOK'
  BY <1>2, <1>3, ReceiveFacts DEF FeedInv, TypeOK
<1>6. LineInv'
  <2>1. cursor' # NoCursor
    BY ReceiveFacts, NamesAssumption
  <2>2. /\ line' = "open" /\ source' \in Sources
        /\ handler'.at = "none" => handler'.batch = {}
    BY <1>3, ReceiveFacts DEF FeedInv, LineInv
  <2>3. \A i \in Sent' : wire'[i].event = "activity"
    BY ReceiveFacts
  <2>4. wire' # <<>> => wire'[1].event = "activity" /\ wire'[1].n > cursor'
    <3>1. wire' # <<>> => 1 \in Sent' /\ wire'[1].event = "activity" /\ N(1) < N(1)'
      BY ReceiveFacts
    <3>2. N(1)' = wire'[1].n /\ cursor' = N(1) /\ (wire' # <<>> => N(1)' \in Nat)
      BY <3>1, ReceiveFacts DEF N
    <3> QED BY <1>1, <3>1, <3>2
  <2> QED BY <2>1, <2>2, <2>3, <2>4 DEF LineInv
<1>7. BoundInv'
  <2>1. \A s \in Sources : \A m \in seqs(s)' : m <= last(s)'
    BY <1>4 DEF FeedInv, BoundInv
  <2>2. \A k \in DOMAIN told' : told'[k][2] <= Len(db'[told'[k][1]].loud)
    BY <1>1, <1>2, <1>4 DEF FeedInv, BoundInv
  <2>3. cursor' # NoCursor /\ cursor' <= last(source)
    BY <1>1, ReceiveFacts, NamesAssumption
  <2>4. /\ handler.at # "none" => handler.cursor <= last(source)
        /\ \A m \in handler.batch : m <= last(source)
    BY <1>1 DEF FeedInv, BoundInv
  <2>5. \A i \in Sent' : N(i)' <= last(source)
    BY <1>1, ReceiveFacts DEF FeedInv, BoundInv
  <2>6. \A k \in DOMAIN told' : told'[k][2] <= last(told[k][1])'
    BY <2>2 DEF last
  <2> QED BY <1>3, <1>4, <2>1, <2>3, <2>4, <2>5, <2>6 DEF BoundInv
<1>8. StreamInv'
  <2>1. /\ \A i, j \in Sent : i < j => N(i) < N(j)
        /\ \A i \in Sent : \A m \in seqs(source) :
             base < m /\ m < N(i) => \E j \in Sent : j < i /\ N(j) = m
    BY DEF FeedInv, StreamInv
  <2>2. cursor' # NoCursor /\ base' = N(1) /\ base \in Nat /\ base <= N(1) /\ seqs(source) \subseteq Nat
    BY <1>1, ReceiveFacts, NamesAssumption, StoreFacts DEF FeedInv
  <2>3. Sent \subseteq Nat /\ Sent' \subseteq Nat
    BY WireFacts, ReceiveFacts
  <2>4. \A i, j \in Sent' : i < j => N(i)' < N(j)'
    <3> SUFFICES ASSUME NEW i \in Sent', NEW j \in Sent', i < j PROVE N(i)' < N(j)'
      OBVIOUS
    <3>1. i + 1 \in Sent /\ j + 1 \in Sent
      BY ReceiveFacts
    <3>2. i + 1 < j + 1
      BY <2>3
    <3>3. N(i)' = N(i + 1) /\ N(j)' = N(j + 1)
      BY ReceiveFacts
    <3> QED BY <2>1, <3>1, <3>2, <3>3
  <2>5. ASSUME NEW m \in seqs(source), NEW j \in Sent, N(1) < m, N(j) = m
        PROVE  j - 1 \in Sent' /\ N(j - 1)' = m
    <3>1. j # 1
      BY <1>1, <2>5
    <3> QED BY <2>5, <3>1, ReceiveFacts
  <2>6. \A i \in Sent' : \A m \in seqs(source) :
          N(1) < m /\ m < N(i)' => \E j \in Sent' : j < i /\ N(j)' = m
    <3> SUFFICES ASSUME NEW i \in Sent', NEW m \in seqs(source), N(1) < m, m < N(i)'
                 PROVE  \E j \in Sent' : j < i /\ N(j)' = m
      OBVIOUS
    <3>1. i + 1 \in Sent /\ m < N(i + 1) /\ base < m
      BY <1>1, <2>2, ReceiveFacts
    <3>2. PICK j \in Sent : j < i + 1 /\ N(j) = m
      BY <2>1, <3>1
    <3>3. j - 1 \in Sent' /\ N(j - 1)' = m /\ j - 1 < i
      BY <2>3, <2>5, <3>2
    <3> QED BY <3>3
  <2>7. ASSUME handler.at # "none"
        PROVE  /\ N(1) <= handler.cursor
               /\ \A i \in Sent' : N(i)' <= handler.cursor
               /\ \A m \in seqs(source) :
                    N(1) < m /\ m <= handler.cursor => \E j \in Sent' : N(j)' = m
               /\ \A m \in handler.batch : handler.cursor < m
               /\ \A b \in handler.batch, m \in seqs(source) :
                    handler.cursor < m /\ m < b => m \in handler.batch
    <3>1. /\ \A i \in Sent : N(i) <= handler.cursor
          /\ \A m \in seqs(source) :
               base < m /\ m <= handler.cursor => \E j \in Sent : N(j) = m
          /\ \A m \in handler.batch : handler.cursor < m
          /\ \A b \in handler.batch, m \in seqs(source) :
               handler.cursor < m /\ m < b => m \in handler.batch
      BY <2>7 DEF FeedInv, StreamInv
    <3>2. \A i \in Sent' : N(i)' <= handler.cursor
      BY <3>1, ReceiveFacts
    <3>3. ASSUME NEW m \in seqs(source), N(1) < m, m <= handler.cursor
          PROVE  \E j \in Sent' : N(j)' = m
      <4>1. base < m
        BY <1>1, <2>2, <3>3
      <4>2. PICK j \in Sent : N(j) = m
        BY <3>1, <3>3, <4>1
      <4> QED BY <2>5, <3>3, <4>2
    <3> QED BY <1>1, <3>1, <3>2, <3>3
  <2> QED BY <1>3, <1>4, <2>2, <2>4, <2>6, <2>7 DEF StreamInv
<1>9. ToldInv'
  <2> SUFFICES ASSUME NEW k \in DOMAIN told', told'[k][1] = source
               PROVE  \/ told'[k][2] <= N(1)
                      \/ told'[k][2] \notin seqs(source) \cup handler.batch \cup {N(i)' : i \in Sent'}
    BY <1>3, <1>4, ReceiveFacts DEF ToldInv
  <2>1. CASE told'[k] = <<source, N(1)>>
    BY <1>1, <2>1
  <2>2. CASE k \in DOMAIN told /\ told'[k] = told[k]
    <3>1. known /\ told[k][2] \in Nat /\ base \in Nat /\ base <= N(1)
      BY <2>2, ToldFacts, ReceiveFacts DEF known
    <3>2. \/ told[k][2] <= base
          \/ told[k][2] \notin seqs(source) \cup handler.batch \cup {N(i) : i \in Sent}
      BY <2>2, <3>1 DEF FeedInv, ToldInv
    <3>3. {N(i)' : i \in Sent'} \subseteq {N(i) : i \in Sent}
      BY ReceiveFacts
    <3> QED BY <1>1, <2>2, <3>1, <3>2, <3>3
  <2> QED BY <1>2, <2>1, <2>2
<1>10. SleepsOnlyWhenDone'
  BY <1>3, <1>4 DEF FeedInv, SleepsOnlyWhenDone
<1> QED BY <1>5, <1>6, <1>7, <1>8, <1>9, <1>10 DEF FeedInv

(* What was sent before the connection was lost may still arrive. *)
LEMMA DropStep == ASSUME FeedInv, Drop PROVE FeedInv'
<1>1. PICK n \in 0 .. Len(wire) : wire' = SubSeq(wire, 1, n)
  BY DEF Drop
<1>2. handler.at # "none" /\ handler' = none /\ drops' = drops + 1
      /\ UNCHANGED <<db, source, cursor, line, told, from, changes>>
  BY DEF Drop
<1>3. line = "open" /\ source \in Sources /\ known
  BY <1>2 DEF FeedInv, LineInv, known
<1>4. /\ wire \in Seq(Message) /\ Len(wire) \in Nat /\ Sent = 1 .. Len(wire) /\ n \in Nat /\ n <= Len(wire)
  BY <1>1, WireFacts
<1>5. wire' \in Seq(Message) /\ Len(wire') = n /\ \A i \in 1 .. n : wire'[i] = wire[i]
  BY <1>1, <1>4
<1>6. /\ Sent' = 1 .. n /\ Sent' \subseteq Sent
      /\ \A i \in Sent' : i \in Nat /\ wire'[i] = wire[i] /\ N(i)' = N(i)
      /\ \A i \in Sent', j \in Sent : j < i => j \in Sent'
      /\ wire' # <<>> => 1 \in Sent' /\ wire # <<>>
  <2>1. Sent' = 1 .. n
    BY <1>5, LenProperties DEF Sent
  <2>2. \A i : N(i)' = wire'[i].n /\ N(i) = wire[i].n
    BY DEF N
  <2>3. wire' # <<>> => n # 0
    BY <1>5, EmptySeq
  <2>4. wire = <<>> => Len(wire) = 0
    BY <1>4, EmptySeq
  <2> QED BY <1>4, <1>5, <2>1, <2>2, <2>3, <2>4
<1>7. handler'.at = "none" /\ handler'.batch = {}
      /\ handler' \in [at : {"none", "scanning", "writing", "parked"}, cursor : Nat, batch : SUBSET Nat]
  BY <1>2 DEF none
<1>8. known' => base' = base
  <2>1. CASE wire' = <<>>
    BY <1>2, <1>7, <2>1, BaseFacts DEF base, known
  <2>2. CASE wire' # <<>>
    BY <1>2, <1>6, <2>2 DEF base
  <2> QED BY <2>1, <2>2
<1>9. seqs(source)' = seqs(source) /\ last(source)' = last(source)
      /\ \A s : seqs(s)' = seqs(s) /\ last(s)' = last(s)
  BY <1>2 DEF seqs, last
<1>10. TypeOK'
  BY <1>2, <1>5, <1>7 DEF FeedInv, TypeOK
<1>11. LineInv'
  BY <1>2, <1>3, <1>6, <1>7 DEF FeedInv, LineInv
<1>12. BoundInv'
  <2>1. \A k \in DOMAIN told : told[k][2] <= last(told[k][1])'
    BY <1>2, <1>9 DEF FeedInv, BoundInv
  <2>2. \A s \in Sources : \A m \in seqs(s)' : m <= last(s)'
    BY <1>9 DEF FeedInv, BoundInv
  <2>3. /\ cursor = NoCursor => from <= last(source)
        /\ cursor # NoCursor => cursor <= last(source)
        /\ \A i \in Sent : N(i) <= last(source)
    BY <1>3 DEF FeedInv, BoundInv
  <2>4. \A i \in Sent' : N(i)' <= last(source)
    BY <1>6, <2>3
  <2> QED BY <1>2, <1>7, <1>9, <2>1, <2>2, <2>3, <2>4 DEF BoundInv
<1>13. StreamInv'
  <2>1. \A i, j \in Sent' : i < j => N(i)' < N(j)'
    BY <1>6 DEF FeedInv, StreamInv
  <2>2. ASSUME NEW i \in Sent', NEW m \in seqs(source)', base' < m, m < N(i)'
        PROVE  \E j \in Sent' : j < i /\ N(j)' = m
    <3>1. base' = base /\ m \in seqs(source) /\ i \in Sent /\ m < N(i)
      BY <1>6, <1>8, <1>9, <2>2 DEF known, Sent
    <3>2. PICK j \in Sent : j < i /\ N(j) = m
      BY <2>2, <3>1 DEF FeedInv, StreamInv
    <3> QED BY <1>6, <3>2
  <2>3. cursor' = NoCursor /\ wire' # <<>> => \A m \in seqs(source)' : m <= from' => m <= N(1)'
    BY <1>2, <1>6, <1>9 DEF FeedInv, StreamInv
  <2> QED BY <1>7, <2>1, <2>2, <2>3 DEF StreamInv
<1>14. ToldInv'
  <2> SUFFICES ASSUME known', NEW k \in DOMAIN told, told[k][1] = source
               PROVE  \/ told[k][2] <= base'
                      \/ told[k][2] \notin seqs(source)' \cup {} \cup {N(i)' : i \in Sent'}
    BY <1>2, <1>7 DEF ToldInv
  <2>1. {N(i)' : i \in Sent'} \subseteq {N(i) : i \in Sent}
    BY <1>6
  <2>2. \/ told[k][2] <= base
        \/ told[k][2] \notin seqs(source) \cup handler.batch \cup {N(i) : i \in Sent}
    BY <1>3 DEF FeedInv, ToldInv
  <2> QED BY <1>8, <1>9, <2>1, <2>2
<1>15. SleepsOnlyWhenDone'
  BY <1>7 DEF SleepsOnlyWhenDone
<1> QED BY <1>10, <1>11, <1>12, <1>13, <1>14, <1>15 DEF FeedInv

LEMMA StutterStep == ASSUME FeedInv, UNCHANGED vars PROVE FeedInv'
BY DEF vars, FeedInv, TypeOK, LineInv, BoundInv, StreamInv, ToldInv, SleepsOnlyWhenDone,
       base, N, Sent, known, last, seqs

LEMMA NextStep == ASSUME FeedInv, [Next]_vars PROVE FeedInv'
BY AppendedStep, DeletedStep, HeartbeatStep, LineStep, AcceptStep, ScanStep, WriteStep,
   DropStep, ReceiveStep, StutterStep
DEF Next

-----------------------------------------------------------------------------
(* Theorems. *)

(* What is stored, under way, received and told of agrees in every state of *)
(* thread-activity.ts, routes-threads.ts and thread-activity-watcher.ts.    *)
THEOREM FeedInvariant == Spec => []FeedInv
BY InitInv, NextStep, PTL DEF Spec

(* The stream of GET /threads/activity/events sleeps only when it has sent  *)
(* all that is stored.                                                      *)
THEOREM ConsistentHolds == Spec => []Consistent
<1>1. FeedInv => Consistent
  BY DEF FeedInv, Consistent
<1> QED BY <1>1, FeedInvariant, PTL

-----------------------------------------------------------------------------
(* Every step of the store, the stream and the watcher is one of the log,   *)
(* or none.                                                                 *)

logged    == [s \in Sources |-> db[s].loud]
remaining == [s \in Sources |-> seqs(s)]

LEMMA LogInit == Init => Log!Init
BY DEF Init, Log!Init, seqs

LEMMA AddStep ==
  ASSUME FeedInv, NEW s \in Sources, NEW t \in ThreadIds, NEW loud \in BOOLEAN, Appended(s, t, loud)
  PROVE  Log!Add(s)
<1>1. append(s, t, loud) /\ UNCHANGED <<source, from, cursor, told>>
  BY DEF Appended
<1>2. /\ \A u \in Sources \ {s} : db'[u] = db[u]
      /\ db'[s].loud = Append(db[s].loud, loud)
      /\ seqs(s)' \subseteq seqs(s) \cup {last(s) + 1}
      /\ last(s) + 1 \in seqs(s)'
      /\ last(s)' = last(s) + 1
  BY <1>1, AppendFacts DEF FeedInv
<1>3. logged' = [logged EXCEPT ![s] = Append(@, loud)]
  BY <1>2 DEF logged
<1>4. Len(logged'[s]) = last(s) + 1
  BY <1>2 DEF logged, last
<1> DEFINE kept == seqs(s)' \cap seqs(s)
<1>5. kept \in SUBSET remaining[s]
  BY DEF remaining
<1>6. remaining' = [remaining EXCEPT ![s] = kept \cup {last(s) + 1}]
  <2>1. seqs(s)' = kept \cup {last(s) + 1}
    BY <1>2
  <2>2. \A u \in Sources \ {s} : seqs(u)' = seqs(u)
    BY <1>2 DEF seqs
  <2>3. remaining' = [u \in Sources |-> seqs(u)']
    BY DEF remaining
  <2> HIDE DEF kept
  <2> QED BY <2>1, <2>2, <2>3 DEF remaining
<1>7. remaining' \in {[remaining EXCEPT ![s] = k \cup {Len(logged'[s])}] : k \in SUBSET remaining[s]}
  <2> HIDE DEF kept
  <2> QED BY <1>4, <1>5, <1>6
<1> QED BY <1>1, <1>3, <1>7 DEF Log!Add, logged, remaining

LEMMA ForgetStep ==
  ASSUME FeedInv, NEW s \in Sources, NEW t \in ThreadIds, deleteByThread(s, t)
  PROVE  Log!Forget(s)
<1>1. UNCHANGED <<source, from, cursor, told>>
  BY DEF deleteByThread
<1>2. /\ \A u \in Sources : db'[u].loud = db[u].loud /\ seqs(u)' \subseteq seqs(u)
      /\ \A u \in Sources \ {s} : db'[u] = db[u]
  BY DeleteFacts DEF FeedInv
<1>3. logged' = logged
  BY <1>2 DEF logged
<1>4. \A u \in Sources \ {s} : seqs(u)' = seqs(u)
  BY <1>2 DEF seqs
<1>5. remaining' = [u \in Sources |-> seqs(u)']
  BY DEF remaining
<1>6. remaining' = [remaining EXCEPT ![s] = remaining'[s]] /\ remaining'[s] \in SUBSET remaining[s]
  BY <1>2, <1>4, <1>5 DEF remaining
<1> QED BY <1>1, <1>3, <1>6 DEF Log!Forget, logged, remaining

LEMMA FollowStep ==
  ASSUME FeedInv, NEW s \in Sources, NEW since, since = IF s = source THEN cursor ELSE NoCursor,
         connect(s, since), UNCHANGED <<db, told>>
  PROVE  Log!Follow(s)
<1>1. logged' = logged /\ remaining' = remaining
  BY DEF logged, remaining, seqs
<1>2. /\ source' = s /\ cursor' = since
      /\ from' = IF since = NoCursor THEN Len(logged[s]) ELSE from
  BY DEF connect, logged
<1> QED BY <1>1, <1>2 DEF Log!Follow, logged, remaining

LEMMA ReceiveLog == ASSUME FeedInv, Receive PROVE [Log!Next]_(Log!vars)
<1>1. /\ UNCHANGED <<db, source, from>> /\ source \in Sources /\ source # NoSource
      /\ cursor' = N(1) /\ N(1) \in Nat /\ 1 \in Sent /\ wire # <<>>
      /\ N(1) <= last(source) /\ last(source) \in Nat
  BY ReceiveFacts, NamesAssumption, StoreFacts DEF FeedInv, BoundInv
<1>2. logged' = logged /\ remaining' = remaining /\ logged[source] = db[source].loud
      /\ remaining[source] = seqs(source) /\ seqs(source) \subseteq Nat
  BY <1>1, StoreFacts DEF logged, remaining, seqs, FeedInv
<1>3. CASE wire[1].event = "ready" /\ cursor = NoCursor
  <2>1. \A m \in seqs(source) : m <= from => m <= N(1)
    BY <1>1, <1>3 DEF FeedInv, StreamInv
  <2>2. told' = told /\ cursor' \in 0 .. Len(logged[source])
    BY <1>1, <1>2, <1>3, ReceiveFacts DEF last
  <2>3. Log!Begin
    BY <1>1, <1>2, <1>3, <2>1, <2>2 DEF Log!Begin, logged, remaining
  <2> QED BY <2>3 DEF Log!Next
<1>4. CASE wire[1].event = "ready" /\ cursor # NoCursor
  <2>1. told' = told /\ cursor' = cursor
    BY <1>1, <1>4, ReceiveFacts, BaseFacts
  <2> QED BY <1>1, <1>2, <2>1 DEF Log!vars, logged, remaining
<1>5. CASE wire[1].event = "activity"
  <2>1. cursor # NoCursor /\ base = cursor /\ cursor < N(1) /\ cursor \in Nat
    BY <1>5, ReceiveFacts, BaseFacts
  <2>2. N(1) \in cursor + 1 .. Len(logged[source])
    BY <1>1, <1>2, <2>1 DEF last
  <2>3. remaining[source] \cap (cursor + 1 .. N(1) - 1) = {}
    <3> SUFFICES ASSUME NEW m \in seqs(source), cursor < m, m < N(1) PROVE FALSE
      BY <1>1, <1>2, <2>1
    <3>1. \E j \in Sent : j < 1 /\ N(j) = m
      BY <1>1, <2>1 DEF FeedInv, StreamInv
    <3> QED BY <3>1, WireFacts
  <2>4. <<source, N(1)>> \notin Log!ToSet(told)
    <3> SUFFICES ASSUME NEW k \in DOMAIN told, told[k] = <<source, N(1)>> PROVE FALSE
      BY DEF Log!ToSet
    <3>1. told[k][1] = source /\ told[k][2] = N(1) /\ known
      BY <1>1 DEF known
    <3>2. ~(N(1) <= base)
      BY <1>1, <2>1
    <3>3. N(1) \in {N(i) : i \in Sent}
      BY <1>1
    <3> QED BY <3>1, <3>2, <3>3 DEF FeedInv, ToldInv
  <2>5. told' = IF logged[source][N(1)] THEN Append(told, <<source, N(1)>>) ELSE told
    BY <1>2, <1>5, TellFacts
  <2>6. \E n \in cursor + 1 .. Len(logged[source]) :
          /\ remaining[source] \cap (cursor + 1 .. n - 1) = {}
          /\ <<source, n>> \notin Log!ToSet(told)
          /\ cursor' = n
          /\ told' = IF logged[source][n] THEN Append(told, <<source, n>>) ELSE told
    <3> DEFINE n == N(1)
    <3>1. n \in cursor + 1 .. Len(logged[source]) /\ cursor' = n
      BY <1>1, <2>2
    <3> HIDE DEF n
    <3> QED BY <3>1, <2>3, <2>4, <2>5 DEF n
  <2>7. source # NoSource /\ cursor # NoCursor /\ UNCHANGED <<logged, remaining, source, from>>
    BY <1>1, <1>2, <2>1
  <2>8. Log!Tell
    BY <2>6, <2>7, Zenon DEF Log!Tell, logged, remaining
  <2> QED BY <2>8 DEF Log!Next
<1> QED BY <1>1, <1>3, <1>4, <1>5, WireFacts

LEMMA LogStep == ASSUME FeedInv, [Next]_vars PROVE [Log!Next]_(Log!vars)
<1>1. ASSUME NEW s \in Sources, NEW t \in ThreadIds, NEW loud \in BOOLEAN, Appended(s, t, loud)
      PROVE  Log!Next
  BY <1>1, AddStep DEF Log!Next
<1>2. ASSUME NEW s \in Sources, NEW t \in ThreadIds, deleteByThread(s, t) PROVE Log!Next
  BY <1>2, ForgetStep DEF Log!Next
<1>3. ASSUME NEW s \in Sources, setConnection(s) PROVE Log!Next
  BY <1>3, FollowStep DEF Log!Next, setConnection
<1>4. ASSUME Reconnect PROVE Log!Next
  <2>1. source \in Sources
    BY <1>4 DEF Reconnect, FeedInv, LineInv
  <2> QED BY <1>4, <2>1, FollowStep DEF Log!Next, Reconnect
<1>5. ASSUME \/ Accept \/ Scan \/ Write \/ Heartbeat \/ Drop
             \/ stop \/ ConnectFails \/ Closed \/ UNCHANGED vars
      PROVE  UNCHANGED Log!vars
  <2>1. UNCHANGED <<db, source, cursor, told, from>>
    BY <1>5 DEF Accept, Scan, Write, Heartbeat, Drop, stop, ConnectFails, Closed, vars
  <2> QED BY <2>1 DEF Log!vars, seqs
<1> QED BY <1>1, <1>2, <1>3, <1>4, <1>5, ReceiveLog DEF Next

(* The store of activity events, their stream and the watcher of the shell  *)
(* keep the promise of ActivityLog, whatever connections are lost or        *)
(* replaced: it is told of every event in order, once and without gaps.     *)
THEOREM ActivityFeedImplementsLog == Spec => ToldOfTheLog
<1>1. Init => Log!Init
  BY LogInit
<1>2. FeedInv /\ [Next]_vars => [Log!Next]_(Log!vars)
  BY LogStep
<1> QED BY <1>1, <1>2, FeedInvariant, PTL DEF Spec, ToldOfTheLog, Log!Spec

-----------------------------------------------------------------------------
(* The inductive invariant of StreamStore.  Its parts are about a store s   *)
(* whose controllers show k, so that they can be stated of every step on    *)
(* the way from one state to the next.                                      *)

StoreOK(s)    == s \in Store /\ IsInjective(s.pending)
Controllers   == [Threads -> [run : Nat, loading : BOOLEAN, interrupt : BOOLEAN]]

(* A turn of the thread is on its way, or the controller has a run: its end *)
(* will be noticed.                                                         *)
onItsWay(s, t)   == \E x \in s.inflight : x.thread = t /\ x.epoch = s.epoch[t]
engaged(s, k, t) == onItsWay(s, t) \/ k[t].run # NoRun

(* What has no entry has nothing.  A slot is held for a thread that is      *)
(* engaged.                                                                 *)
EntryInv(s, k) ==
  /\ IsFiniteSet(s.active)
  /\ \A t \in Threads :
       s.queued[t] # <<>> \/ s.run[t] # NoRun \/ s.steering[t] \/ t \in s.active => t \in s.live
  /\ \A t \in s.live : s.run[t] # NoRun \/ k[t].loading => k[t].run # NoRun
  /\ \A t \in s.active : engaged(s, k, t)

(* A thread that is being steered has a steer that waits.                   *)
steered(s, S, t) == \E x \in S : x.thread = t /\ x.epoch = s.epoch[t]
SteeringInv(s, S) == \A t \in Threads : s.steering[t] => steered(s, S, t)

(* A thread that could go on waits for its run, for a steer, or for a slot. *)
full(s) == Cardinality(s.active) >= maxParallelRuns
DrainInv(s, k, S) ==
  \A t \in Threads :
    drainable(s, k, t) =>
      engaged(s, k, t) \/ steered(s, S, t) \/ (t \in ToSet(s.pending) /\ full(s))

(* An input is queued at one place, of the thread it was sent to, or on its *)
(* way once.                                                                *)
flown(s)  == {x.input : x \in s.inflight}
lined(s)  == UNION {ToSet(s.queued[t]) : t \in Threads}
held(s)   == lined(s) \cup flown(s)
HeldInv(s, owner) ==
  /\ \A t \in Threads : /\ IsInjective(s.queued[t])
                        /\ \A i \in ToSet(s.queued[t]) : i \in DOMAIN owner /\ owner[i] = t
  /\ \A x \in s.inflight : /\ x.input \in DOMAIN owner /\ owner[x.input] = x.thread
                           /\ x.input \notin lined(s)
  /\ \A x, y \in s.inflight : x.input = y.input => x = y

(* It is in one place of the store, answered for, withdrawn or returned.    *)
(* The answer is due or given for the last run of an input only.  A run is  *)
(* over when its thread has a later one.                                    *)
deliveredBy(R) == {R[r].input : r \in {q \in DOMAIN R : R[q].answer = "given"}}
RunsInv(R, owner) ==
  /\ \A r \in DOMAIN R :
       R[r].answer # "none" =>
         /\ R[r].input \in DOMAIN owner /\ owner[R[r].input] = R[r].thread
         /\ \A q \in DOMAIN R : R[q].input = R[r].input => q <= r
  /\ \A r, q \in DOMAIN R : R[r].thread = R[q].thread /\ r < q => R[r].ended
ApartInv(H, R, W, B, owner) ==
  /\ H \cap (deliveredBy(R) \cup W \cup B) = {}
  /\ deliveredBy(R) \cap (W \cup B) = {}
  /\ W \cap B = {}
  /\ W \cup B \subseteq DOMAIN owner

(* As long as no steer has come back late: no input is lost, ...            *)
LossInv(H, R, W, B, owner, G) ==
  \A i \in DOMAIN owner : i \in H \cup deliveredBy(R) \cup W \cup B \/ owner[i] \in G

(* ... a turn on its way is the thread's only one and has its slot, unless  *)
(* the thread is deleted, ...                                               *)
TurnInv(s, G) ==
  /\ Cardinality(s.active) <= maxParallelRuns
  /\ \A x \in s.inflight : x.thread \in G \/ (x.thread \in s.active /\ x.epoch = s.epoch[x.thread])
  /\ \A x, y \in s.inflight : x.thread = y.thread => x.thread \in G \/ x = y

(* ... an answer that is due will come to a turn that is on its way, and to *)
(* a run that is newer than all that the thread knows of, ...               *)
awaited(s, S, R, r) ==
  /\ \E x \in s.inflight : x.thread = R[r].thread /\ x.input = R[r].input
  /\ s.run[R[r].thread] < r
  /\ \A y \in S : y.thread = R[r].thread => y.run < r
  /\ \A q \in DOMAIN R : R[q].answer = "given" /\ R[q].thread = R[r].thread => q < r
AwaitedInv(s, S, G, R) ==
  \A r \in DOMAIN R : R[r].answer = "due" => R[r].thread \in G \/ awaited(s, S, R, r)

(* ... a controller shows a run of its thread; a run that is answered for   *)
(* is shown by its thread, which knows its id and keeps its slot while it   *)
(* loads, ...                                                               *)
ours(R, r) == r # NoRun /\ R[r].answer = "given"
ShownInv(s, k, G, R) ==
  /\ \A t \in s.live : k[t].run # NoRun => R[k[t].run].thread = t
  /\ \A r \in DOMAIN R : R[r].answer = "given" /\ ~R[r].ended =>
       R[r].thread \in G \/ (R[r].thread \in s.live /\ k[R[r].thread].run = r)
  /\ \A t \in s.live : ours(R, k[t].run) =>
       s.run[t] = k[t].run /\ (k[t].loading => t \in s.active)

(* ... and a steer that comes back finds its run halted, or a newer one.    *)
HaltInv(s, k, S, R) ==
  \A x \in S :
    LET t == x.thread
    IN  /\ t \in s.live
        /\ x.at = "stopping" \/ x.epoch # s.epoch[t]
        /\ k[t].run <= x.run /\ k[t].loading
        => ~ours(R, k[t].run)

EpochInv(s, S) == \A x \in S : x.epoch <= s.epoch[x.thread]

GoodInv(s, k, S, owner) == EntryInv(s, k) /\ SteeringInv(s, S) /\ EpochInv(s, S) /\ HeldInv(s, owner)

FateInv == RunsInv(runs, sent) /\ ApartInv(held(store), runs, withdrawn, returned, sent)

LateInv ==
  /\ LossInv(held(store), runs, withdrawn, returned, sent, gone)
  /\ TurnInv(store, gone)
  /\ AwaitedInv(store, steers, gone, runs)
  /\ ShownInv(store, sdk, gone, runs)
  /\ HaltInv(store, sdk, steers, runs)

StoreInv ==
  /\ StoreTypeOK
  /\ store.live \cap gone = {}
  /\ \A t \in Threads \ store.live : sdk[t] = still
  /\ \A t \in Threads : store.run[t] <= Len(runs)
  /\ GoodInv(store, sdk, steers, sent)
  /\ FateInv
  /\ upsets = 0 => DrainInv(store, sdk, steers)
  /\ overtaken \/ LateInv

-----------------------------------------------------------------------------
(* Sequences without repetitions. *)

LEMMA SetOfSeq ==
  ASSUME NEW S, NEW q \in Seq(S)
  PROVE  /\ ToSet(q) \in SUBSET S
         /\ \A e : e \in ToSet(q) <=> \E i \in 1 .. Len(q) : q[i] = e
         /\ q # <<>> <=> ToSet(q) # {}
<1>1. DOMAIN q = 1 .. Len(q) /\ Len(q) \in Nat
  OBVIOUS
<1>2. \A i \in 1 .. Len(q) : q[i] \in S
  OBVIOUS
<1>3. q = <<>> <=> Len(q) = 0
  BY EmptySeq
<1>4. \A e : e \in ToSet(q) <=> \E i \in 1 .. Len(q) : q[i] = e
  BY <1>1 DEF ToSet
<1>5. ToSet(q) \in SUBSET S
  BY <1>2, <1>4
<1>6. q # <<>> => ToSet(q) # {}
  <2> SUFFICES ASSUME q # <<>> PROVE q[1] \in ToSet(q)
    OBVIOUS
  <2>1. 1 \in 1 .. Len(q)
    BY <1>1, <1>3
  <2> QED BY <2>1, <1>4
<1>7. q = <<>> => ToSet(q) = {}
  <2> SUFFICES ASSUME q = <<>>, NEW e \in ToSet(q) PROVE FALSE
    OBVIOUS
  <2>1. PICK i \in 1 .. Len(q) : q[i] = e
    BY <1>4
  <2> QED BY <2>1, <1>3
<1> QED BY <1>4, <1>5, <1>6, <1>7

LEMMA PushedSeq ==
  ASSUME NEW S, NEW q \in Seq(S), NEW e \in S, IsInjective(q), e \notin ToSet(q)
  PROVE  /\ Append(q, e) \in Seq(S) /\ IsInjective(Append(q, e))
         /\ ToSet(Append(q, e)) = ToSet(q) \cup {e}
<1> DEFINE p == Append(q, e)
<1>1. /\ p \in Seq(S) /\ Len(p) = Len(q) + 1 /\ Len(q) \in Nat
      /\ \A i \in 1 .. Len(q) : p[i] = q[i]
      /\ p[Len(q) + 1] = e
  BY AppendProperties
<1> HIDE DEF p
<1>2. \A x : x \in ToSet(p) <=> \E i \in 1 .. Len(p) : p[i] = x
  BY <1>1, SetOfSeq
<1>3. \A x : x \in ToSet(q) <=> \E i \in 1 .. Len(q) : q[i] = x
  BY SetOfSeq
<1>4. ASSUME NEW x \in ToSet(p) PROVE x \in ToSet(q) \cup {e}
  BY <1>1, <1>2, <1>3
<1>5. ASSUME NEW x \in ToSet(q) \cup {e} PROVE x \in ToSet(p)
  <2>1. CASE x = e
    <3>1. Len(q) + 1 \in 1 .. Len(p)
      BY <1>1
    <3> QED BY <3>1, <2>1, <1>1, <1>2
  <2>2. CASE x \in ToSet(q)
    <3>1. PICK i \in 1 .. Len(q) : q[i] = x
      BY <2>2, <1>3
    <3>2. i \in 1 .. Len(p)
      BY <1>1
    <3> QED BY <3>1, <3>2, <1>1, <1>2
  <2> QED BY <2>1, <2>2
<1>6. ASSUME NEW i \in 1 .. Len(p), NEW j \in 1 .. Len(p), p[i] = p[j] PROVE i = j
  <2>1. CASE i \in 1 .. Len(q) /\ j \in 1 .. Len(q)
    BY <2>1, <1>6, <1>1 DEF IsInjective
  <2>2. CASE i = Len(q) + 1 /\ j \in 1 .. Len(q)
    BY <2>2, <1>6, <1>1, <1>3
  <2>3. CASE j = Len(q) + 1 /\ i \in 1 .. Len(q)
    BY <2>3, <1>6, <1>1, <1>3
  <2>4. CASE i = Len(q) + 1 /\ j = Len(q) + 1
    BY <2>4
  <2> QED BY <2>1, <2>2, <2>3, <2>4, <1>1
<1>7. IsInjective(p)
  BY <1>6, <1>1 DEF IsInjective
<1>8. ToSet(p) = ToSet(q) \cup {e}
  BY <1>4, <1>5
<1> QED BY <1>1, <1>7, <1>8 DEF p

LEMMA SuffixSeq ==
  ASSUME NEW S, NEW q \in Seq(S), IsInjective(q), NEW c \in 0 .. Len(q)
  PROVE  LET p == SubSeq(q, c + 1, Len(q))
         IN  /\ p \in Seq(S) /\ IsInjective(p)
             /\ \A e : e \in ToSet(p) <=> \E i \in (c + 1) .. Len(q) : q[i] = e
<1> DEFINE p == SubSeq(q, c + 1, Len(q))
<1>1. /\ p \in Seq(S)
      /\ Len(p) = Len(q) - c
      /\ Len(q) \in Nat
      /\ \A i \in 1 .. Len(p) : p[i] = q[c + i]
  <2>1. Len(q) \in Nat /\ c \in Nat /\ c + 1 \in Nat /\ c + 1 <= Len(q) + 1
    OBVIOUS
  <2>2. \A i \in (c + 1) .. Len(q) : q[i] \in S
    OBVIOUS
  <2> QED BY <2>1, <2>2, SubSeqProperties
<1> HIDE DEF p
<1>2. \A x : x \in ToSet(p) <=> \E i \in 1 .. Len(p) : p[i] = x
  BY <1>1, SetOfSeq
<1>3. ASSUME NEW x, NEW i \in 1 .. Len(p), p[i] = x PROVE \E j \in (c + 1) .. Len(q) : q[j] = x
  <2>1. c + i \in (c + 1) .. Len(q)
    BY <1>1
  <2> QED BY <2>1, <1>1, <1>3
<1>4. ASSUME NEW x, NEW j \in (c + 1) .. Len(q), q[j] = x PROVE \E i \in 1 .. Len(p) : p[i] = x
  <2>1. j - c \in 1 .. Len(p) /\ c + (j - c) = j
    BY <1>1
  <2> QED BY <2>1, <1>1, <1>4
<1>5. ASSUME NEW i \in 1 .. Len(p), NEW j \in 1 .. Len(p), p[i] = p[j] PROVE i = j
  <2>1. c + i \in 1 .. Len(q) /\ c + j \in 1 .. Len(q)
    BY <1>1
  <2>2. q[c + i] = q[c + j]
    BY <1>1, <1>5
  <2>3. c + i = c + j
    BY <2>1, <2>2 DEF IsInjective
  <2> QED BY <2>3
<1>6. IsInjective(p)
  BY <1>1, <1>5 DEF IsInjective
<1> QED BY <1>1, <1>2, <1>3, <1>4, <1>6 DEF p

LEMMA TailSeq ==
  ASSUME NEW S, NEW q \in Seq(S), IsInjective(q), q # <<>>
  PROVE  /\ Tail(q) \in Seq(S) /\ IsInjective(Tail(q))
         /\ Head(q) \in ToSet(q)
         /\ ToSet(Tail(q)) = ToSet(q) \ {Head(q)}
<1>1. Len(q) \in Nat /\ Len(q) # 0 /\ Head(q) = q[1]
  BY EmptySeq
<1>2. Tail(q) = SubSeq(q, 1 + 1, Len(q))
  BY TailIsSubSeq
<1>3. 1 \in 0 .. Len(q)
  BY <1>1
<1>4. /\ Tail(q) \in Seq(S) /\ IsInjective(Tail(q))
      /\ \A e : e \in ToSet(Tail(q)) <=> \E i \in (1 + 1) .. Len(q) : q[i] = e
  BY <1>2, <1>3, SuffixSeq
<1>5. \A x : x \in ToSet(q) <=> \E i \in 1 .. Len(q) : q[i] = x
  BY SetOfSeq
<1>6. Head(q) \in ToSet(q)
  BY <1>1, <1>5
<1>7. ASSUME NEW x \in ToSet(Tail(q)) PROVE x \in ToSet(q) /\ x # Head(q)
  <2>1. PICK i \in (1 + 1) .. Len(q) : q[i] = x
    BY <1>4, <1>7
  <2>2. i \in 1 .. Len(q) /\ i # 1 /\ 1 \in 1 .. Len(q) /\ DOMAIN q = 1 .. Len(q)
    BY <1>1
  <2> QED BY <2>1, <2>2, <1>1, <1>5 DEF IsInjective
<1>8. ASSUME NEW x \in ToSet(q), x # Head(q) PROVE x \in ToSet(Tail(q))
  <2>1. PICK i \in 1 .. Len(q) : q[i] = x
    BY <1>5, <1>8
  <2>2. i \in (1 + 1) .. Len(q)
    BY <2>1, <1>1, <1>8
  <2> QED BY <2>1, <2>2, <1>4
<1> QED BY <1>4, <1>6, <1>7, <1>8

LEMMA PutBackSeq ==
  ASSUME NEW S, NEW q \in Seq(S), NEW e \in S, IsInjective(q), e \notin ToSet(q)
  PROVE  /\ <<e>> \o q \in Seq(S) /\ IsInjective(<<e>> \o q)
         /\ ToSet(<<e>> \o q) = ToSet(q) \cup {e}
<1> DEFINE p == <<e>> \o q
<1>0. <<e>> \in Seq(S) /\ Len(<<e>>) = 1 /\ <<e>>[1] = e
  OBVIOUS
<1>1. /\ p \in Seq(S) /\ Len(p) = 1 + Len(q) /\ Len(q) \in Nat
      /\ p[1] = e
      /\ \A i \in 2 .. Len(p) : p[i] = q[i - 1]
  <2>1. /\ p \in Seq(S) /\ Len(p) = Len(<<e>>) + Len(q)
        /\ \A i \in 1 .. Len(<<e>>) + Len(q) :
             p[i] = IF i <= Len(<<e>>) THEN <<e>>[i] ELSE q[i - Len(<<e>>)]
    BY <1>0, ConcatProperties
  <2> HIDE DEF p
  <2>2. /\ p \in Seq(S) /\ Len(p) = 1 + Len(q)
        /\ \A i \in 1 .. 1 + Len(q) : p[i] = IF i <= 1 THEN <<e>>[i] ELSE q[i - 1]
    BY <2>1, <1>0
  <2> QED BY <2>2, <1>0
<1> HIDE DEF p
<1>2. \A x : x \in ToSet(p) <=> \E i \in 1 .. Len(p) : p[i] = x
  BY <1>1, SetOfSeq
<1>3. \A x : x \in ToSet(q) <=> \E i \in 1 .. Len(q) : q[i] = x
  BY SetOfSeq
<1>4. ASSUME NEW x \in ToSet(p) PROVE x \in ToSet(q) \cup {e}
  <2>1. PICK i \in 1 .. Len(p) : p[i] = x
    BY <1>2, <1>4
  <2>2. CASE i = 1
    BY <2>1, <2>2, <1>1
  <2>3. CASE i # 1
    <3>1. i - 1 \in 1 .. Len(q) /\ i \in 2 .. Len(p)
      BY <2>3, <1>1
    <3> QED BY <3>1, <2>1, <1>1, <1>3
  <2> QED BY <2>2, <2>3
<1>5. ASSUME NEW x \in ToSet(q) \cup {e} PROVE x \in ToSet(p)
  <2>1. CASE x = e
    <3>1. 1 \in 1 .. Len(p)
      BY <1>1
    <3> QED BY <3>1, <2>1, <1>1, <1>2
  <2>2. CASE x \in ToSet(q)
    <3>1. PICK i \in 1 .. Len(q) : q[i] = x
      BY <2>2, <1>3
    <3>2. i + 1 \in 1 .. Len(p) /\ i + 1 \in 2 .. Len(p) /\ (i + 1) - 1 = i
      BY <1>1
    <3> QED BY <3>1, <3>2, <1>1, <1>2
  <2> QED BY <2>1, <2>2
<1>6. ASSUME NEW i \in 1 .. Len(p), NEW j \in 1 .. Len(p), p[i] = p[j] PROVE i = j
  <2>1. \A n \in 1 .. Len(p) : n # 1 => n - 1 \in 1 .. Len(q) /\ n \in 2 .. Len(p)
    BY <1>1
  <2>2. CASE i # 1 /\ j # 1
    <3>1. q[i - 1] = q[j - 1] /\ DOMAIN q = 1 .. Len(q)
      BY <2>1, <2>2, <1>1, <1>6
    <3>2. i - 1 = j - 1
      BY <3>1, <2>1, <2>2 DEF IsInjective
    <3> QED BY <3>2
  <2>3. CASE i = 1 /\ j # 1
    <3>1. q[j - 1] = e
      BY <2>1, <2>3, <1>1, <1>6
    <3> QED BY <3>1, <2>1, <2>3, <1>3
  <2>4. CASE j = 1 /\ i # 1
    <3>1. q[i - 1] = e
      BY <2>1, <2>4, <1>1, <1>6
    <3> QED BY <3>1, <2>1, <2>4, <1>3
  <2> QED BY <2>2, <2>3, <2>4
<1>7. IsInjective(p)
  BY <1>6, <1>1 DEF IsInjective
<1>8. ToSet(p) = ToSet(q) \cup {e}
  BY <1>4, <1>5
<1> QED BY <1>1, <1>7, <1>8 DEF p

LEMMA RemovedSeq ==
  ASSUME NEW S, NEW q \in Seq(S), IsInjective(q), NEW n \in 1 .. Len(q)
  PROVE  /\ RemoveAt(q, n) \in Seq(S) /\ IsInjective(RemoveAt(q, n))
         /\ q[n] \in ToSet(q)
         /\ ToSet(RemoveAt(q, n)) = ToSet(q) \ {q[n]}
<1> DEFINE a == SubSeq(q, 1, n - 1)
           b == SubSeq(q, n + 1, Len(q))
           p == RemoveAt(q, n)
<1>0. Len(q) \in Nat /\ n \in Nat /\ \A i \in 1 .. Len(q) : q[i] \in S
  OBVIOUS
<1>1. a \in Seq(S) /\ Len(a) = n - 1 /\ \A i \in 1 .. n - 1 : a[i] = q[i]
  <2>1. /\ 1 <= (n - 1) + 1
        /\ \A i \in 1 .. n - 1 : q[i] \in S
        /\ n - 1 \in Nat
    BY <1>0
  <2>2. /\ a \in Seq(S)
        /\ Len(a) = IF 1 <= n - 1 THEN (n - 1) - 1 + 1 ELSE 0
        /\ \A i \in 1 .. (n - 1) - 1 + 1 : a[i] = q[1 + i - 1]
    BY <2>1, SubSeqProperties
  <2> HIDE DEF a
  <2>3. \A i \in 1 .. n - 1 : i \in 1 .. (n - 1) - 1 + 1 /\ 1 + i - 1 = i
    BY <1>0
  <2> QED BY <2>2, <2>3, <1>0
<1>2. b \in Seq(S) /\ Len(b) = Len(q) - n /\ \A i \in 1 .. Len(q) - n : b[i] = q[n + i]
  <2>1. n + 1 \in Nat /\ n + 1 <= Len(q) + 1 /\ \A i \in (n + 1) .. Len(q) : q[i] \in S
    BY <1>0
  <2>2. /\ b \in Seq(S)
        /\ Len(b) = IF n + 1 <= Len(q) THEN Len(q) - (n + 1) + 1 ELSE 0
        /\ \A i \in 1 .. Len(q) - (n + 1) + 1 : b[i] = q[(n + 1) + i - 1]
    BY <2>1, SubSeqProperties
  <2> HIDE DEF b
  <2>3. \A i \in 1 .. Len(q) - n : i \in 1 .. Len(q) - (n + 1) + 1 /\ (n + 1) + i - 1 = n + i
    BY <1>0
  <2> QED BY <2>2, <2>3, <1>0
<1>3. p = a \o b
  BY DEF RemoveAt
<1> HIDE DEF a, b
<1>4. /\ p \in Seq(S) /\ Len(p) = Len(q) - 1
      /\ \A i \in 1 .. Len(q) - 1 : p[i] = IF i < n THEN q[i] ELSE q[i + 1]
  <2> DEFINE c == a \o b
  <2>0. /\ c \in Seq(S) /\ Len(c) = Len(a) + Len(b)
        /\ \A i \in 1 .. Len(a) + Len(b) : c[i] = IF i <= Len(a) THEN a[i] ELSE b[i - Len(a)]
    BY <1>1, <1>2, ConcatProperties
  <2> HIDE DEF p, c
  <2>1. /\ p \in Seq(S) /\ Len(p) = Len(a) + Len(b)
        /\ \A i \in 1 .. Len(a) + Len(b) : p[i] = IF i <= Len(a) THEN a[i] ELSE b[i - Len(a)]
    <3>1. p = c
      BY <1>3 DEF c
    <3> QED BY <2>0, <3>1
  <2>2. Len(p) = Len(q) - 1
    BY <2>1, <1>1, <1>2, <1>0
  <2>3. ASSUME NEW i \in 1 .. Len(q) - 1 PROVE p[i] = IF i < n THEN q[i] ELSE q[i + 1]
    <3>1. i \in 1 .. Len(a) + Len(b) /\ (i <= Len(a) <=> i < n)
      BY <1>1, <1>2, <1>0
    <3>2. CASE i < n
      <4>1. i \in 1 .. n - 1
        BY <3>2, <1>0
      <4> QED BY <4>1, <3>1, <3>2, <2>1, <1>1
    <3>3. CASE ~(i < n)
      <4>1. i - Len(a) \in 1 .. Len(q) - n /\ n + (i - Len(a)) = i + 1
        BY <3>3, <1>1, <1>0
      <4>2. p[i] = b[i - Len(a)]
        BY <3>1, <3>3, <2>1
      <4> QED BY <4>1, <4>2, <3>3, <1>2
    <3> QED BY <3>2, <3>3
  <2> QED BY <2>1, <2>2, <2>3
<1> HIDE DEF p
<1>5. \A x : x \in ToSet(p) <=> \E i \in 1 .. Len(p) : p[i] = x
  BY <1>4, SetOfSeq
<1>6. \A x : x \in ToSet(q) <=> \E i \in 1 .. Len(q) : q[i] = x
  BY SetOfSeq
<1>7. ASSUME NEW i \in 1 .. Len(q), NEW j \in 1 .. Len(q), q[i] = q[j] PROVE i = j
  BY <1>7 DEF IsInjective
<1>8. ASSUME NEW x \in ToSet(p) PROVE x \in ToSet(q) /\ x # q[n]
  <2>1. PICK i \in 1 .. Len(q) - 1 : p[i] = x
    BY <1>4, <1>5, <1>8
  <2>2. CASE i < n
    <3>1. i \in 1 .. Len(q) /\ i # n /\ x = q[i]
      BY <2>1, <2>2, <1>0, <1>4
    <3> QED BY <3>1, <1>6, <1>7
  <2>3. CASE ~(i < n)
    <3>1. i + 1 \in 1 .. Len(q) /\ i + 1 # n /\ x = q[i + 1]
      BY <2>1, <2>3, <1>0, <1>4
    <3> QED BY <3>1, <1>6, <1>7
  <2> QED BY <2>2, <2>3
<1>9. ASSUME NEW x \in ToSet(q), x # q[n] PROVE x \in ToSet(p)
  <2>1. PICK i \in 1 .. Len(q) : q[i] = x
    BY <1>6, <1>9
  <2>2. CASE i < n
    <3>1. i \in 1 .. Len(q) - 1
      BY <2>2, <1>0
    <3> QED BY <3>1, <2>1, <2>2, <1>4, <1>5
  <2>3. CASE ~(i < n)
    <3>1. i - 1 \in 1 .. Len(q) - 1 /\ ~(i - 1 < n) /\ (i - 1) + 1 = i
      BY <2>1, <2>3, <1>0, <1>9
    <3> QED BY <3>1, <2>1, <1>4, <1>5
  <2> QED BY <2>2, <2>3
<1>10. ASSUME NEW i \in 1 .. Len(p), NEW j \in 1 .. Len(p), p[i] = p[j] PROVE i = j
  <2> DEFINE at(m) == IF m < n THEN m ELSE m + 1
  <2>1. \A m \in 1 .. Len(p) : p[m] = q[at(m)] /\ at(m) \in 1 .. Len(q)
    BY <1>4, <1>0
  <2>2. at(i) = at(j)
    <3> HIDE DEF at
    <3> QED BY <2>1, <1>10, <1>7
  <2> QED BY <2>2, <1>4, <1>0
<1>11. IsInjective(p)
  BY <1>10, <1>4 DEF IsInjective
<1>12. ToSet(p) = ToSet(q) \ {q[n]}
  BY <1>8, <1>9
<1> QED BY <1>4, <1>6, <1>11, <1>12 DEF p

-----------------------------------------------------------------------------
(* What the store's methods do to a store. *)

LEMMA StoreFields ==
  ASSUME NEW s \in Store
  PROVE  /\ s.live \in SUBSET Threads /\ s.active \in SUBSET Threads
         /\ s.observed \in SUBSET Threads
         /\ s.epoch \in [Threads -> Nat] /\ s.run \in [Threads -> Nat]
         /\ s.queued \in [Threads -> Seq(Inputs)]
         /\ s.steering \in [Threads -> BOOLEAN]
         /\ s.hydration \in [Threads -> {"unattached", "loading", "ready", "error"}]
         /\ s.pending \in Seq(Threads)
         /\ s.inflight \in SUBSET Submission
         /\ \A x \in s.inflight : x.thread \in Threads /\ x.epoch \in Nat /\ x.input \in Inputs
BY DEF Store, Submission

(* p is s after the threads ts have each submitted the head of their queue. *)
submission(s, t) == [thread |-> t, epoch |-> s.epoch[t], input |-> Head(s.queued[t]), queued |-> TRUE]
Sent1(s, p, ts) ==
  /\ p \in Store
  /\ p.live = s.live /\ p.epoch = s.epoch /\ p.run = s.run /\ p.steering = s.steering
  /\ p.hydration = s.hydration /\ p.observed = s.observed
  /\ p.active = s.active \cup ts
  /\ p.queued = [t \in Threads |-> IF t \in ts THEN Tail(s.queued[t]) ELSE s.queued[t]]
  /\ p.inflight = s.inflight \cup {submission(s, t) : t \in ts}

LEMMA SubmitFacts ==
  ASSUME NEW s \in Store, NEW ts \in SUBSET Threads, \A t \in ts : s.queued[t] # <<>>
  PROVE  LET p == submitQueuedTurns(s, ts)
         IN  Sent1(s, p, ts) /\ p.pending = s.pending
<1> DEFINE p == submitQueuedTurns(s, ts)
           q == [t \in Threads |-> IF t \in ts THEN Tail(s.queued[t]) ELSE s.queued[t]]
           f == s.inflight \cup {submission(s, t) : t \in ts}
<1>0. s.queued \in [Threads -> Seq(Inputs)] /\ s.epoch \in [Threads -> Nat]
  BY StoreFields
<1>1. \A t \in ts : Head(s.queued[t]) \in Inputs /\ Tail(s.queued[t]) \in Seq(Inputs)
  BY <1>0
<1>2. q \in [Threads -> Seq(Inputs)]
  BY <1>0, <1>1
<1>3. f \in SUBSET Submission
  <2>1. \A t \in ts : submission(s, t) \in Submission
    BY <1>0, <1>1 DEF submission, Submission
  <2>2. s.inflight \in SUBSET Submission
    BY StoreFields
  <2> QED BY <2>1, <2>2
<1>4. p = [s EXCEPT !.queued = q, !.active = s.active \cup ts, !.inflight = f]
  BY DEF submitQueuedTurns, submission, Store
<1>5. s.active \cup ts \in SUBSET Threads
  BY StoreFields
<1> HIDE DEF p, q, f
<1>6. /\ p \in Store /\ p.pending = s.pending
      /\ p.live = s.live /\ p.epoch = s.epoch /\ p.run = s.run /\ p.steering = s.steering
      /\ p.hydration = s.hydration /\ p.observed = s.observed
      /\ p.active = s.active \cup ts /\ p.queued = q /\ p.inflight = f
  BY <1>2, <1>3, <1>4, <1>5 DEF Store
<1> QED BY <1>6 DEF Sent1, p, q, f

(* p is s after as many of the threads Q as there are slots for have        *)
(* submitted, of those that can.                                            *)
Pumped(s, k, p, Q) ==
  \E ts \in SUBSET Threads :
    /\ IsFiniteSet(ts) /\ \A t \in ts : drainable(s, k, t)
    /\ Sent1(s, p, ts) /\ StoreOK(p)
    /\ Cardinality(s.active) <= maxParallelRuns => Cardinality(p.active) <= maxParallelRuns
    /\ \A t \in Q :
         drainable(s, k, t) => t \in ts \/ (t \in ToSet(p.pending) /\ full(p))

LEMMA PumpFacts ==
  ASSUME NEW s, StoreOK(s), IsFiniteSet(s.active), NEW k
  PROVE  Pumped(s, k, pumpRunQueue(s, k), ToSet(s.pending))
<1> DEFINE q == s.pending
           free == maxParallelRuns - Cardinality(s.active)
           goes(n) == drainable(s, k, q[n])
           first(n) == {m \in 1 .. n - 1 : goes(m)}
           before(n) == Cardinality(first(n))
           passed == {n \in DOMAIN q : before(n) < free}
           c == Cardinality(passed)
           G == {m \in passed : goes(m)}
           ts == {q[n] : n \in G}
           rest == SubSeq(q, c + 1, Len(q))
           r == [s EXCEPT !.pending = rest]
           p == submitQueuedTurns(r, ts)
<1>0. pumpRunQueue(s, k) = p
  BY DEF pumpRunQueue
<1>1. /\ s \in Store /\ q \in Seq(Threads) /\ IsInjective(q) /\ s.active \in SUBSET Threads
      /\ DOMAIN q = 1 .. Len(q) /\ Len(q) \in Nat
      /\ \A i, j \in 1 .. Len(q) : q[i] = q[j] => i = j
      /\ \A i \in 1 .. Len(q) : q[i] \in Threads
  <2>1. s \in Store /\ q \in Seq(Threads) /\ IsInjective(q) /\ s.active \in SUBSET Threads
    BY StoreFields DEF StoreOK
  <2> HIDE DEF q
  <2>2. DOMAIN q = 1 .. Len(q) /\ Len(q) \in Nat /\ \A i \in 1 .. Len(q) : q[i] \in Threads
    BY <2>1
  <2> QED BY <2>1, <2>2 DEF IsInjective
<1>2. Cardinality(s.active) \in Nat /\ maxParallelRuns \in Nat /\ free \in Int
  BY FS_CardinalityType, SlotsAssumption
<1> HIDE DEF q, free, goes
<1>3. \A n \in Nat : IsFiniteSet(first(n)) /\ before(n) \in Nat
  <2> SUFFICES ASSUME NEW n \in Nat PROVE IsFiniteSet(first(n)) /\ before(n) \in Nat
    OBVIOUS
  <2>1. IsFiniteSet(1 .. n - 1)
    BY FS_Interval
  <2>2. IsFiniteSet(first(n))
    BY <2>1, FS_Subset
  <2> QED BY <2>2, FS_CardinalityType
<1>4. \A m, n \in Nat : m <= n => before(m) <= before(n)
  <2> SUFFICES ASSUME NEW m \in Nat, NEW n \in Nat, m <= n PROVE before(m) <= before(n)
    OBVIOUS
  <2>1. first(m) \in SUBSET first(n)
    OBVIOUS
  <2> QED BY <2>1, <1>3, FS_Subset
<1> HIDE DEF first
<1>5. /\ c \in 0 .. Len(q) /\ passed = 1 .. c
      /\ c < Len(q) => ~(before(c + 1) < free)
  <2> DEFINE out == {n \in 1 .. Len(q) : ~(before(n) < free)}
  <2>1. CASE out = {}
    <3>1. passed = 1 .. Len(q)
      BY <2>1, <1>1
    <3>2. c = Len(q)
      <4>1. Cardinality(1 .. Len(q)) = Len(q)
        <5> DEFINE n == Len(q)
        <5>1. n \in Nat
          BY <1>1
        <5> HIDE DEF n
        <5>2. Cardinality(1 .. n) = n
          BY <5>1, FS_Interval
        <5> QED BY <5>2 DEF n
      <4> HIDE DEF passed
      <4> QED BY <3>1, <4>1
    <3> HIDE DEF passed, c
    <3> QED BY <3>1, <3>2, <1>1
  <2>2. CASE out # {}
    <3>1. out \in SUBSET Nat
      OBVIOUS
    <3>2. PICK n \in out : \A m \in out : n <= m
      BY <3>1, <2>2, LeastNumber
    <3>3. n \in 1 .. Len(q) /\ ~(before(n) < free) /\ n \in Nat
      BY <3>2
    <3>4. ASSUME NEW m \in 1 .. n - 1 PROVE m \in passed
      <4>1. m \in 1 .. Len(q) /\ ~(n <= m)
        BY <3>3
      <4> QED BY <4>1, <3>2, <1>1
    <3>5. ASSUME NEW m \in passed PROVE m \in 1 .. n - 1
      <4>1. m \in 1 .. Len(q) /\ before(m) < free /\ m \in Nat
        BY <1>1
      <4>2. n <= m => before(n) <= before(m)
        BY <4>1, <3>3, <1>4
      <4>3. before(n) \in Nat /\ before(m) \in Nat
        BY <4>1, <3>3, <1>3
      <4> HIDE DEF before
      <4>4. ~(n <= m)
        BY <4>1, <4>2, <4>3, <3>3, <1>2
      <4> QED BY <4>1, <4>4, <3>3
    <3>6. passed = 1 .. n - 1
      BY <3>4, <3>5
    <3>7. c = n - 1
      <4> DEFINE l == n - 1
      <4>1. l \in Nat /\ l \in Int /\ 1 \in Int
        BY <3>3
      <4> HIDE DEF l, passed
      <4>2. Cardinality(1 .. l) = IF 1 > l THEN 0 ELSE l - 1 + 1
        BY <4>1, FS_Interval
      <4>3. Cardinality(1 .. l) = l
        BY <4>1, <4>2
      <4> QED BY <3>6, <4>3 DEF l
    <3> HIDE DEF passed, c, before
    <3>8. c + 1 = n
      BY <3>7, <3>3
    <3> QED BY <3>3, <3>6, <3>7, <3>8
  <2> QED BY <2>1, <2>2
<1> HIDE DEF passed, c
<1>6. G = first(c + 1) /\ IsFiniteSet(G) /\ Cardinality(G) = before(c + 1)
  <2>1. G = first(c + 1)
    BY <1>5 DEF first
  <2>2. c + 1 \in Nat
    BY <1>5
  <2>3. IsFiniteSet(first(c + 1)) /\ before(c + 1) \in Nat
    BY <2>2, <1>3
  <2> HIDE DEF G
  <2> QED BY <2>1, <2>3
<1>7. G = {} \/ Cardinality(G) <= free
  <2>1. CASE c = 0
    BY <2>1, <1>5
  <2>2. CASE c # 0
    <3>1. c \in passed /\ c \in Nat
      BY <2>2, <1>5
    <3>2. before(c) < free
      BY <3>1 DEF passed
    <3>3. G \in SUBSET (first(c) \cup {c})
      BY <1>5, <1>6 DEF first
    <3>4. IsFiniteSet(first(c)) /\ before(c) \in Nat
      BY <3>1, <1>3
    <3>5. IsFiniteSet(first(c) \cup {c}) /\ Cardinality(first(c) \cup {c}) <= before(c) + 1
      <4>1. /\ IsFiniteSet(first(c) \cup {c})
            /\ Cardinality(first(c) \cup {c}) = IF c \in first(c) THEN before(c) ELSE before(c) + 1
        BY <3>4, FS_AddElement
      <4> HIDE DEF before
      <4> QED BY <3>4, <4>1
    <3>6. Cardinality(G) <= Cardinality(first(c) \cup {c})
      BY <3>3, <3>5, FS_Subset
    <3>7. Cardinality(G) \in Nat /\ Cardinality(first(c) \cup {c}) \in Nat
      BY <3>5, <1>6, FS_CardinalityType
    <3> HIDE DEF before
    <3> QED BY <3>2, <3>4, <3>5, <3>6, <3>7, <1>2
  <2> QED BY <2>1, <2>2
<1>8. /\ ts \in SUBSET Threads /\ IsFiniteSet(ts) /\ Cardinality(ts) = Cardinality(G)
      /\ \A t \in ts : drainable(s, k, t)
  <2>1. G \in SUBSET (1 .. Len(q))
    BY <1>5
  <2>2. ts \in SUBSET Threads /\ \A t \in ts : drainable(s, k, t)
    BY <2>1, <1>1 DEF goes
  <2> DEFINE f == [n \in G |-> q[n]]
  <2>3. f \in Surjection(G, ts)
    BY DEF Surjection
  <2>4. f \in Injection(G, ts)
    BY <2>1, <1>1 DEF Injection, IsInjective
  <2> HIDE DEF f, ts
  <2> QED BY <2>2, <2>3, <2>4, <1>6, FS_Surjection
<1>9. /\ r \in Store /\ IsInjective(r.pending) /\ r.pending = rest
      /\ \A e : e \in ToSet(rest) <=> \E i \in (c + 1) .. Len(q) : q[i] = e
      /\ r.live = s.live /\ r.epoch = s.epoch /\ r.run = s.run /\ r.steering = s.steering
      /\ r.hydration = s.hydration /\ r.observed = s.observed
      /\ r.active = s.active /\ r.queued = s.queued /\ r.inflight = s.inflight
  <2>1. /\ rest \in Seq(Threads) /\ IsInjective(rest)
        /\ \A e : e \in ToSet(rest) <=> \E i \in (c + 1) .. Len(q) : q[i] = e
    BY <1>1, <1>5, SuffixSeq
  <2> HIDE DEF rest
  <2> QED BY <2>1, <1>1 DEF Store
<1> HIDE DEF rest, r
<1>10. /\ Sent1(r, p, ts) /\ p.pending = rest
  <2>1. \A t \in ts : r.queued[t] # <<>>
    BY <1>8, <1>9 DEF drainable
  <2> HIDE DEF ts, p
  <2> QED BY <2>1, <1>8, <1>9, SubmitFacts DEF p
<1> HIDE DEF ts, p, G
<1>11. Sent1(s, p, ts) /\ StoreOK(p) /\ p.active = s.active \cup ts
  BY <1>9, <1>10 DEF Sent1, StoreOK, submission
<1>12. Cardinality(p.active) = Cardinality(s.active) + Cardinality(ts)
  <2>1. s.active \cap ts = {}
    BY <1>8 DEF drainable
  <2>2. Cardinality(s.active \cup ts) =
          Cardinality(s.active) + Cardinality(ts) - Cardinality(s.active \cap ts)
    BY <1>8, FS_Union
  <2>3. Cardinality(s.active \cap ts) = 0 /\ Cardinality(ts) \in Nat
    BY <2>1, <1>8, FS_EmptySet, FS_CardinalityType
  <2>4. Cardinality(p.active) = Cardinality(s.active \cup ts)
    BY <1>11
  <2> QED BY <2>2, <2>3, <2>4, <1>2
<1>13. Cardinality(s.active) <= maxParallelRuns => Cardinality(p.active) <= maxParallelRuns
  <2>1. CASE G = {}
    BY <2>1, <1>2, <1>8, <1>12, FS_EmptySet
  <2>2. CASE Cardinality(G) <= free
    <3>1. Cardinality(ts) \in Nat
      BY <1>8, FS_CardinalityType
    <3> QED BY <3>1, <2>2, <1>2, <1>8, <1>12 DEF free
  <2> QED BY <2>1, <2>2, <1>7
<1>14. ASSUME NEW t \in ToSet(s.pending), drainable(s, k, t), t \notin ts
       PROVE  t \in ToSet(p.pending) /\ full(p)
  <2>1. PICK i \in 1 .. Len(q) : q[i] = t
    BY <1>1, <1>14, SetOfSeq DEF q
  <2>2. i \notin passed
    BY <2>1, <1>14 DEF ts, G, goes
  <2>3. i \in (c + 1) .. Len(q) /\ c < Len(q)
    BY <2>1, <2>2, <1>5
  <2>4. t \in ToSet(p.pending)
    BY <2>1, <2>3, <1>9, <1>10
  <2>5. ~(Cardinality(ts) < free)
    BY <2>3, <1>5, <1>6, <1>8
  <2>6. Cardinality(ts) \in Nat
    BY <1>8, FS_CardinalityType
  <2>7. full(p)
    BY <2>5, <2>6, <1>2, <1>12 DEF full, free
  <2> QED BY <2>4, <2>7
<1> QED BY <1>0, <1>8, <1>11, <1>13, <1>14 DEF Pumped

LEMMA LinedFacts ==
  ASSUME NEW s
  PROVE  \A i : i \in lined(s) <=> \E t \in Threads : i \in ToSet(s.queued[t])
BY DEF lined

LEMMA DrainQueuedFacts ==
  ASSUME NEW s, StoreOK(s), IsFiniteSet(s.active), NEW k, NEW t \in Threads
  PROVE  LET p == drainQueued(s, k, t)
         IN  \/ ~drainable(s, k, t) /\ p = s
             \/ drainable(s, k, t) /\ Pumped(s, k, p, ToSet(s.pending) \cup {t})
<1> SUFFICES ASSUME drainable(s, k, t)
             PROVE  Pumped(s, k, drainQueued(s, k, t), ToSet(s.pending) \cup {t})
  BY DEF drainQueued
<1> DEFINE q == IF t \in ToSet(s.pending) THEN s.pending ELSE Append(s.pending, t)
           r == [s EXCEPT !.pending = q]
           p == pumpRunQueue(r, k)
<1>1. drainQueued(s, k, t) = p
  BY DEF drainQueued, StoreOK, Store
<1>2. s \in Store /\ s.pending \in Seq(Threads) /\ IsInjective(s.pending)
  BY StoreFields DEF StoreOK
<1>3. q \in Seq(Threads) /\ IsInjective(q) /\ ToSet(q) = ToSet(s.pending) \cup {t}
  BY <1>2, PushedSeq
<1> HIDE DEF q
<1>4. /\ r \in Store /\ r.pending = q
      /\ r.live = s.live /\ r.epoch = s.epoch /\ r.run = s.run /\ r.steering = s.steering
      /\ r.hydration = s.hydration /\ r.observed = s.observed
      /\ r.active = s.active /\ r.queued = s.queued /\ r.inflight = s.inflight
  BY <1>2, <1>3 DEF Store
<1> HIDE DEF r
<1>5. Pumped(r, k, p, ToSet(q))
  BY <1>3, <1>4, PumpFacts DEF StoreOK
<1> HIDE DEF p
<1>6. \A u : drainable(r, k, u) <=> drainable(s, k, u)
  BY <1>4 DEF drainable, occupied
<1>7. \A ts : Sent1(r, p, ts) <=> Sent1(s, p, ts)
  BY <1>4 DEF Sent1, submission
<1> QED BY <1>1, <1>3, <1>4, <1>5, <1>6, <1>7 DEF Pumped

Mid(s, k, S, owner, G) == StoreOK(s) /\ s.live \cap G = {} /\ GoodInv(s, k, S, owner)
Late(s, k, S, G, R)   ==
  TurnInv(s, G) /\ AwaitedInv(s, S, G, R) /\ ShownInv(s, k, G, R) /\ HaltInv(s, k, S, R)
Waiting(s, k, S, Q) ==
  \A t \in Threads : drainable(s, k, t) => engaged(s, k, t) \/ steered(s, S, t) \/ t \in Q

(* Answers stay due to the turns that wait for them.                        *)
LEMMA AwaitedKeeps ==
  ASSUME NEW s, NEW p, s.inflight \subseteq p.inflight, p.run = s.run,
         NEW G, NEW H, G \subseteq H,
         NEW S, NEW T, \A y \in T : \E z \in S : z.thread = y.thread /\ z.run = y.run,
         NEW R, AwaitedInv(s, S, G, R)
  PROVE  AwaitedInv(p, T, H, R)
BY DEF AwaitedInv, awaited

(* A pump keeps the invariant, moves inputs and loses none, and leaves      *)
(* nobody waiting for a slot that is free.                                  *)
LEMMA PumpEntry ==
  ASSUME NEW s, NEW k, NEW p, NEW ts \in SUBSET Threads,
         IsFiniteSet(ts), \A t \in ts : drainable(s, k, t), Sent1(s, p, ts), EntryInv(s, k)
  PROVE  EntryInv(p, k)
<1>1. IsFiniteSet(p.active)
  <2>1. IsFiniteSet(s.active \cup ts)
    BY FS_Union DEF EntryInv
  <2> QED BY <2>1 DEF Sent1
<1>2. \A t \in ts : t \in s.live
  BY DEF drainable
<1>3. ASSUME NEW t \in Threads,
             p.queued[t] # <<>> \/ p.run[t] # NoRun \/ p.steering[t] \/ t \in p.active
      PROVE  t \in p.live
  <2>1. CASE t \in ts
    BY <2>1, <1>2 DEF Sent1
  <2>2. CASE t \notin ts
    BY <2>2, <1>3 DEF Sent1, EntryInv
  <2> QED BY <2>1, <2>2
<1>4. ASSUME NEW t \in p.active PROVE engaged(p, k, t)
  <2>1. CASE t \in ts
    <3>1. submission(s, t) \in p.inflight
      BY <2>1 DEF Sent1
    <3>2. submission(s, t).thread = t /\ submission(s, t).epoch = p.epoch[t]
      BY DEF Sent1, submission
    <3> QED BY <3>1, <3>2 DEF engaged, onItsWay
  <2>2. CASE t \notin ts
    BY <2>2, <1>4 DEF Sent1, EntryInv, engaged, onItsWay
  <2> QED BY <2>1, <2>2
<1>5. \A t \in p.live : p.run[t] # NoRun \/ k[t].loading => k[t].run # NoRun
  BY DEF Sent1, EntryInv
<1> QED BY <1>1, <1>3, <1>4, <1>5 DEF EntryInv

LEMMA PumpHeld ==
  ASSUME NEW s \in Store, NEW k, NEW p, NEW ts \in SUBSET Threads, NEW owner,
         \A t \in ts : drainable(s, k, t), Sent1(s, p, ts), HeldInv(s, owner)
  PROVE  HeldInv(p, owner) /\ held(p) = held(s)
<1>1. ASSUME NEW t \in Threads
      PROVE  s.queued[t] \in Seq(Inputs) /\ IsInjective(s.queued[t])
  BY StoreFields DEF HeldInv
<1>2. ASSUME NEW t \in ts
      PROVE  /\ IsInjective(p.queued[t])
             /\ Head(s.queued[t]) \in ToSet(s.queued[t])
             /\ ToSet(p.queued[t]) = ToSet(s.queued[t]) \ {Head(s.queued[t])}
  <2>1. s.queued[t] # <<>> /\ p.queued[t] = Tail(s.queued[t])
    BY DEF drainable, Sent1
  <2> QED BY <2>1, <1>1, TailSeq
<1>3. ASSUME NEW t \in Threads \ ts PROVE p.queued[t] = s.queued[t]
  BY DEF Sent1
<1>4. ASSUME NEW t \in Threads, NEW i \in ToSet(s.queued[t]) PROVE i \in DOMAIN owner /\ owner[i] = t
  BY DEF HeldInv
<1>5. ASSUME NEW t \in Threads PROVE ToSet(p.queued[t]) \subseteq ToSet(s.queued[t])
  BY <1>2, <1>3
<1>6. \A i : i \in lined(s) <=> \E t \in Threads : i \in ToSet(s.queued[t])
  BY LinedFacts
<1>7. \A i : i \in lined(p) <=> \E t \in Threads : i \in ToSet(p.queued[t])
  BY LinedFacts
<1>8. ASSUME NEW x \in p.inflight, x \notin s.inflight
      PROVE  \E t \in ts : x.thread = t /\ x.input = Head(s.queued[t]) /\ x = submission(s, t)
  BY <1>8 DEF Sent1, submission
<1>9. \A t \in ts : submission(s, t) \in p.inflight /\ submission(s, t).input = Head(s.queued[t])
  BY DEF Sent1, submission
<1>10. s.inflight \subseteq p.inflight
  BY DEF Sent1
<1>11. ASSUME NEW t \in Threads
       PROVE  IsInjective(p.queued[t]) /\ \A i \in ToSet(p.queued[t]) : i \in DOMAIN owner /\ owner[i] = t
  <2>1. IsInjective(p.queued[t])
    BY <1>1, <1>2, <1>3
  <2> QED BY <2>1, <1>4, <1>5
<1>12. ASSUME NEW x \in p.inflight
       PROVE  /\ x.input \in DOMAIN owner /\ owner[x.input] = x.thread
              /\ x.input \notin lined(p)
  <2>1. CASE x \in s.inflight
    BY <2>1, <1>5, <1>6, <1>7 DEF HeldInv
  <2>2. CASE x \notin s.inflight
    <3>1. PICK t \in ts : x.thread = t /\ x.input = Head(s.queued[t])
      BY <2>2, <1>8
    <3>2. x.input \in DOMAIN owner /\ owner[x.input] = t
      BY <3>1, <1>2, <1>4
    <3>3. ASSUME NEW u \in Threads, x.input \in ToSet(p.queued[u]) PROVE FALSE
      <4>1. u = t
        BY <3>2, <3>3, <1>11
      <4> QED BY <4>1, <3>1, <3>3, <1>2
    <3> QED BY <3>1, <3>2, <3>3, <1>7
  <2> QED BY <2>1, <2>2
<1>13. ASSUME NEW x \in p.inflight, NEW y \in p.inflight, x.input = y.input PROVE x = y
  <2>1. \A z \in p.inflight : z \notin s.inflight => z.input \in lined(s)
    BY <1>2, <1>6, <1>8
  <2>2. \A z \in s.inflight : z.input \notin lined(s)
    BY DEF HeldInv
  <2>3. CASE x \in s.inflight /\ y \in s.inflight
    BY <2>3, <1>13 DEF HeldInv
  <2>4. CASE x \notin s.inflight /\ y \notin s.inflight
    <3>1. PICK t \in ts : x.thread = t /\ x = submission(s, t)
      BY <2>4, <1>8
    <3>2. PICK u \in ts : y.thread = u /\ y = submission(s, u)
      BY <2>4, <1>8
    <3>3. t = u
      BY <3>1, <3>2, <1>12, <1>13
    <3> QED BY <3>1, <3>2, <3>3
  <2> QED BY <2>1, <2>2, <2>3, <2>4, <1>13
<1>14. HeldInv(p, owner)
  BY <1>11, <1>12, <1>13 DEF HeldInv
<1>15. ASSUME NEW i \in held(p) PROVE i \in held(s)
  <2>1. CASE i \in lined(p)
    BY <2>1, <1>5, <1>6, <1>7 DEF held
  <2>2. CASE i \in flown(p)
    <3>1. PICK x \in p.inflight : x.input = i
      BY <2>2 DEF flown
    <3>2. CASE x \in s.inflight
      BY <3>1, <3>2 DEF held, flown
    <3>3. CASE x \notin s.inflight
      BY <3>1, <3>3, <1>2, <1>6, <1>8 DEF held
    <3> QED BY <3>2, <3>3
  <2> QED BY <2>1, <2>2, <1>15 DEF held
<1>16. ASSUME NEW i \in held(s) PROVE i \in held(p)
  <2>1. CASE i \in flown(s)
    BY <2>1, <1>10 DEF held, flown
  <2>2. CASE i \in lined(s)
    <3>1. PICK t \in Threads : i \in ToSet(s.queued[t])
      BY <2>2, <1>6
    <3>2. CASE t \notin ts
      BY <3>1, <3>2, <1>3, <1>7 DEF held
    <3>3. CASE t \in ts /\ i # Head(s.queued[t])
      BY <3>1, <3>3, <1>2, <1>7 DEF held
    <3>4. CASE t \in ts /\ i = Head(s.queued[t])
      BY <3>4, <1>9 DEF held, flown
    <3> QED BY <3>2, <3>3, <3>4
  <2> QED BY <2>1, <2>2, <1>16 DEF held
<1> QED BY <1>14, <1>15, <1>16

LEMMA PumpKeeps ==
  ASSUME NEW s, NEW k, NEW p, NEW Q, NEW S, NEW owner, NEW G,
         Mid(s, k, S, owner, G), Pumped(s, k, p, Q)
  PROVE  /\ Mid(p, k, S, owner, G) /\ held(p) = held(s)
         /\ p.live = s.live /\ p.epoch = s.epoch /\ p.run = s.run
         /\ \A R : Late(s, k, S, G, R) => Late(p, k, S, G, R)
         /\ Waiting(s, k, S, Q) => DrainInv(p, k, S)
<1> USE DEF Mid
<1>0. PICK ts \in SUBSET Threads :
         /\ IsFiniteSet(ts) /\ \A t \in ts : drainable(s, k, t)
         /\ Sent1(s, p, ts) /\ StoreOK(p)
         /\ Cardinality(s.active) <= maxParallelRuns => Cardinality(p.active) <= maxParallelRuns
         /\ \A t \in Q :
              drainable(s, k, t) => t \in ts \/ (t \in ToSet(p.pending) /\ full(p))
  BY DEF Pumped
<1>1. /\ p.live = s.live /\ p.epoch = s.epoch /\ p.run = s.run /\ p.steering = s.steering
      /\ p.hydration = s.hydration /\ p.active = s.active \cup ts
      /\ s.inflight \subseteq p.inflight
  BY <1>0 DEF Sent1
<1>2. EntryInv(p, k)
  BY <1>0, PumpEntry DEF GoodInv
<1>3. HeldInv(p, owner) /\ held(p) = held(s)
  BY <1>0, PumpHeld DEF GoodInv, StoreOK
<1>4. SteeringInv(p, S) /\ EpochInv(p, S)
  BY <1>1 DEF GoodInv, SteeringInv, EpochInv, steered
<1>5. ASSUME TurnInv(s, G) PROVE TurnInv(p, G)
  <2>1. ASSUME NEW x \in p.inflight
        PROVE  x.thread \in G \/ (x.thread \in p.active /\ x.epoch = p.epoch[x.thread])
    <3>1. CASE x \in s.inflight
      BY <3>1, <1>1, <1>5 DEF TurnInv
    <3>2. CASE x \notin s.inflight
      <4>1. PICK t \in ts : x = submission(s, t)
        BY <3>2, <1>0 DEF Sent1
      <4> QED BY <4>1, <1>1 DEF submission
    <3> QED BY <3>1, <3>2
  <2>2. ASSUME NEW x \in p.inflight, x \notin s.inflight
        PROVE  \E t \in ts : x = submission(s, t) /\ x.thread = t /\ t \notin s.active /\ t \notin G
    <3>1. PICK t \in ts : x = submission(s, t)
      BY <2>2, <1>0 DEF Sent1
    <3> QED BY <3>1, <1>0 DEF submission, drainable
  <2>3. ASSUME NEW x \in p.inflight, NEW y \in p.inflight, x.thread = y.thread
        PROVE  x.thread \in G \/ x = y
    <3>1. CASE x \in s.inflight /\ y \in s.inflight
      BY <3>1, <2>3, <1>5 DEF TurnInv
    <3>2. CASE x \notin s.inflight /\ y \notin s.inflight
      BY <3>2, <2>2, <2>3
    <3>3. CASE x \in s.inflight /\ y \notin s.inflight
      BY <3>3, <2>2, <2>3, <1>5 DEF TurnInv
    <3>4. CASE x \notin s.inflight /\ y \in s.inflight
      BY <3>4, <2>2, <2>3, <1>5 DEF TurnInv
    <3> QED BY <3>1, <3>2, <3>3, <3>4
  <2>4. Cardinality(p.active) <= maxParallelRuns
    BY <1>0, <1>5 DEF TurnInv
  <2> QED BY <2>1, <2>3, <2>4 DEF TurnInv
<1>6. ASSUME NEW R, ShownInv(s, k, G, R) PROVE ShownInv(p, k, G, R)
  BY <1>1, <1>6 DEF ShownInv
<1>7. ASSUME NEW R, HaltInv(s, k, S, R) PROVE HaltInv(p, k, S, R)
  BY <1>1, <1>7 DEF HaltInv
<1>7a. ASSUME NEW R, AwaitedInv(s, S, G, R) PROVE AwaitedInv(p, S, G, R)
  BY <1>1, <1>7a, AwaitedKeeps
<1>8. ASSUME Waiting(s, k, S, Q), NEW t \in Threads, drainable(p, k, t)
      PROVE  engaged(p, k, t) \/ steered(p, S, t) \/ (t \in ToSet(p.pending) /\ full(p))
  <2>1. t \notin ts
    BY <1>1, <1>8 DEF drainable
  <2>2. p.queued[t] = s.queued[t]
    BY <2>1, <1>0 DEF Sent1
  <2>3. drainable(s, k, t)
    BY <2>2, <1>1, <1>8 DEF drainable, occupied
  <2>4. CASE engaged(s, k, t)
    BY <2>4, <1>1 DEF engaged, onItsWay
  <2>5. CASE steered(s, S, t)
    BY <2>5, <1>1 DEF steered
  <2>6. CASE t \in Q
    BY <2>1, <2>3, <2>6, <1>0
  <2> QED BY <2>3, <2>4, <2>5, <2>6, <1>8 DEF Waiting
<1> QED BY <1>0, <1>1, <1>2, <1>3, <1>4, <1>5, <1>6, <1>7, <1>7a, <1>8 DEF GoodInv, Late, DrainInv

(* Idle controllers are disposed of, and nothing is lost.                   *)
LEMMA DisposeFacts ==
  ASSUME NEW s \in Store, NEW ts \in SUBSET Threads
  PROVE  LET d == disposeController(s, ts)
         IN  /\ d \in Store /\ d.live = s.live \ ts
             /\ d.queued = [t \in Threads |-> IF t \in ts THEN <<>> ELSE s.queued[t]]
             /\ d.run = [t \in Threads |-> IF t \in ts THEN NoRun ELSE s.run[t]]
             /\ d.steering = [t \in Threads |-> s.steering[t] /\ t \notin ts]
             /\ d.hydration = [t \in Threads |-> IF t \in ts THEN "unattached" ELSE s.hydration[t]]
             /\ d.epoch = s.epoch /\ d.active = s.active /\ d.pending = s.pending
             /\ d.observed = s.observed /\ d.inflight = s.inflight
<1> DEFINE q == [t \in Threads |-> IF t \in ts THEN <<>> ELSE s.queued[t]]
           r == [t \in Threads |-> IF t \in ts THEN NoRun ELSE s.run[t]]
           g == [t \in Threads |-> s.steering[t] /\ t \notin ts]
           h == [t \in Threads |-> IF t \in ts THEN "unattached" ELSE s.hydration[t]]
           l == s.live \ ts
           d == disposeController(s, ts)
<1>1. q \in [Threads -> Seq(Inputs)]
  <2>1. <<>> \in Seq(Inputs) /\ \A t \in Threads : s.queued[t] \in Seq(Inputs)
    BY StoreFields
  <2> QED BY <2>1
<1>2. r \in [Threads -> Nat] /\ g \in [Threads -> BOOLEAN]
  BY StoreFields DEF NoRun
<1>3. h \in [Threads -> {"unattached", "loading", "ready", "error"}] /\ l \in SUBSET Threads
  BY StoreFields
<1>4. d = [s EXCEPT !.live = l, !.queued = q, !.run = r, !.steering = g, !.hydration = h]
  BY DEF disposeController, Store
<1> HIDE DEF q, r, g, h, l, d
<1>5. /\ d \in Store /\ d.live = l /\ d.queued = q /\ d.run = r /\ d.steering = g /\ d.hydration = h
      /\ d.epoch = s.epoch /\ d.active = s.active /\ d.pending = s.pending
      /\ d.observed = s.observed /\ d.inflight = s.inflight
  BY <1>1, <1>2, <1>3, <1>4 DEF Store
<1> QED BY <1>5 DEF q, r, g, h, l, d

Disposed(s, d, ts, k, S, owner, G) ==
  /\ Mid(d, k, S, owner, G) /\ held(d) = held(s)
  /\ d.live = s.live \ ts /\ d.epoch = s.epoch /\ d.active = s.active
  /\ d.inflight = s.inflight /\ d.observed = s.observed /\ d.run = s.run
  /\ d.queued = s.queued /\ d.pending = s.pending
  /\ \A t \in Threads \ ts : d.hydration[t] = s.hydration[t]
  /\ \A R : DOMAIN R \subseteq Nat \ {0} /\ Late(s, k, S, G, R) => Late(d, k, S, G, R)
  /\ DrainInv(s, k, S) => DrainInv(d, k, S)
  /\ \A Q : Waiting(s, k, S, Q) => Waiting(d, k, S, Q)
LEMMA DisposeKeeps ==
  ASSUME NEW s, NEW k, NEW S, NEW owner, NEW G, NEW ts \in SUBSET idle(s, k),
         Mid(s, k, S, owner, G)
  PROVE  Disposed(s, disposeController(s, ts), ts, k, S, owner, G)
<1> DEFINE d == disposeController(s, ts)
<1> USE DEF Mid
<1>0. s \in Store /\ ts \in SUBSET Threads
  BY StoreFields DEF idle, StoreOK
<1>1. /\ d \in Store /\ d.live = s.live \ ts
      /\ d.queued = [t \in Threads |-> IF t \in ts THEN <<>> ELSE s.queued[t]]
      /\ d.run = [t \in Threads |-> IF t \in ts THEN NoRun ELSE s.run[t]]
      /\ d.steering = [t \in Threads |-> s.steering[t] /\ t \notin ts]
      /\ d.hydration = [t \in Threads |-> IF t \in ts THEN "unattached" ELSE s.hydration[t]]
      /\ d.epoch = s.epoch /\ d.active = s.active /\ d.pending = s.pending
      /\ d.observed = s.observed /\ d.inflight = s.inflight
  BY <1>0, DisposeFacts
<1> HIDE DEF d
<1>2. \A t \in ts : /\ s.queued[t] = <<>> /\ s.run[t] = NoRun /\ ~s.steering[t] /\ t \notin s.active
                    /\ t \in s.live
  BY DEF idle
<1>3. d.queued = s.queued
  BY <1>0, <1>1, <1>2, StoreFields
<1>4. d.run = s.run
  BY <1>0, <1>1, <1>2, StoreFields
<1>5. d.steering = s.steering
  <2>1. s.steering \in [Threads -> BOOLEAN]
    BY <1>0, StoreFields
  <2>2. ASSUME NEW t \in Threads PROVE (s.steering[t] /\ t \notin ts) = s.steering[t]
    <3>1. s.steering[t] \in BOOLEAN
      BY <2>1
    <3>2. t \in ts => ~s.steering[t]
      BY <1>2
    <3> QED BY <3>1, <3>2
  <2>3. d.steering \in [Threads -> BOOLEAN]
    BY <1>1, StoreFields
  <2>4. \A t \in Threads : d.steering[t] = s.steering[t]
    BY <1>1, <2>2
  <2> QED BY <2>1, <2>3, <2>4
<1>6. lined(d) = lined(s) /\ flown(d) = flown(s) /\ held(d) = held(s)
  BY <1>1, <1>3 DEF lined, flown, held
<1>7. HeldInv(d, owner)
  BY <1>1, <1>3, <1>6 DEF GoodInv, HeldInv
<1>8. EntryInv(d, k)
  <2>1. ASSUME NEW t \in Threads,
               d.queued[t] # <<>> \/ d.run[t] # NoRun \/ d.steering[t] \/ t \in d.active
        PROVE  t \in d.live
    BY <2>1, <1>1, <1>2, <1>3, <1>4, <1>5 DEF GoodInv, EntryInv
  <2>2. \A t \in d.live : d.run[t] # NoRun \/ k[t].loading => k[t].run # NoRun
    BY <1>1, <1>4 DEF GoodInv, EntryInv
  <2>3. \A t \in d.active : engaged(d, k, t)
    BY <1>1 DEF GoodInv, EntryInv, engaged, onItsWay
  <2> QED BY <2>1, <2>2, <2>3, <1>1 DEF GoodInv, EntryInv
<1>9. SteeringInv(d, S) /\ EpochInv(d, S)
  BY <1>1, <1>5 DEF GoodInv, SteeringInv, EpochInv, steered
<1>10. ASSUME TurnInv(s, G) PROVE TurnInv(d, G)
  BY <1>1, <1>10 DEF TurnInv
<1>11. ASSUME NEW R, DOMAIN R \subseteq Nat \ {0}, ShownInv(s, k, G, R) PROVE ShownInv(d, k, G, R)
  <2>1. ASSUME NEW r \in DOMAIN R, R[r].answer = "given" /\ ~R[r].ended
        PROVE  R[r].thread \in G \/ (R[r].thread \in d.live /\ k[R[r].thread].run = r)
    <3>1. CASE R[r].thread \in G
      BY <3>1
    <3>2. CASE R[r].thread \notin G
      <4> DEFINE t == R[r].thread
      <4>1. t \in s.live /\ k[t].run = r
        BY <3>2, <2>1, <1>11 DEF ShownInv
      <4>2. ours(R, k[t].run)
        BY <4>1, <2>1, <1>11 DEF ours, NoRun
      <4>3. s.run[t] = r /\ r # NoRun
        BY <4>1, <4>2, <1>11 DEF ShownInv, ours
      <4>4. t \notin ts
        BY <4>3, <1>2
      <4> QED BY <4>1, <4>4, <1>1
    <3> QED BY <3>1, <3>2
  <2>2. \A t \in d.live : ours(R, k[t].run) =>
          d.run[t] = k[t].run /\ (k[t].loading => t \in d.active)
    BY <1>1, <1>4, <1>11 DEF ShownInv
  <2>3. \A t \in d.live : k[t].run # NoRun => R[k[t].run].thread = t
    BY <1>1, <1>11 DEF ShownInv
  <2> QED BY <2>1, <2>2, <2>3 DEF ShownInv
<1>12. ASSUME NEW R, HaltInv(s, k, S, R) PROVE HaltInv(d, k, S, R)
  BY <1>1, <1>12 DEF HaltInv
<1>12b. ASSUME NEW R, AwaitedInv(s, S, G, R) PROVE AwaitedInv(d, S, G, R)
  BY <1>1, <1>4, <1>12b, AwaitedKeeps
<1>12a. ASSUME NEW t \in Threads, drainable(d, k, t) PROVE drainable(s, k, t)
  BY <1>12a, <1>1, <1>3, <1>5 DEF drainable, occupied
<1>13. ASSUME DrainInv(s, k, S) PROVE DrainInv(d, k, S)
  BY <1>1, <1>12a, <1>13 DEF DrainInv, engaged, onItsWay, steered, full
<1>13a. ASSUME NEW Q, Waiting(s, k, S, Q) PROVE Waiting(d, k, S, Q)
  BY <1>1, <1>12a, <1>13a DEF Waiting, engaged, onItsWay, steered
<1>14. StoreOK(d) /\ d.live \cap G = {}
  BY <1>1 DEF StoreOK
<1>15. \A t \in Threads \ ts : d.hydration[t] = s.hydration[t]
  BY <1>1
<1> QED BY <1>1, <1>3, <1>4, <1>6, <1>7, <1>8, <1>9, <1>10, <1>11, <1>12, <1>12b, <1>13, <1>13a, <1>14, <1>15
        DEF d, GoodInv, Late, Disposed

(* A thread gets an entry.                                                  *)
Entered(s, e, t, k, S, owner, G) ==
  /\ Mid(e, k, S, owner, G) /\ held(e) = held(s)
  /\ e.live = s.live \cup {t} /\ e.active = s.active /\ e.pending = s.pending
  /\ e.inflight = s.inflight /\ e.queued = s.queued /\ e.hydration = s.hydration
  /\ e.observed = s.observed /\ e.run = s.run
  /\ \A R : Late(s, k, S, G, R) => Late(e, k, S, G, R)
  /\ DrainInv(s, k, S) => DrainInv(e, k, S)
LEMMA EntryKeeps ==
  ASSUME NEW s, NEW k, NEW S, NEW owner, NEW G, NEW t \in Threads, t \notin G,
         Mid(s, k, S, owner, G), k \in Controllers, \A u \in Threads \ s.live : k[u] = still,
         \A x \in S : x.epoch \in Nat /\ x.thread \in Threads
  PROVE  Entered(s, entry(s, t), t, k, S, owner, G)
<1> DEFINE e == entry(s, t)
<1> USE DEF Mid, Entered
<1>1. CASE t \in s.live
  <2>1. e = s
    BY <1>1 DEF entry
  <2> HIDE DEF e
  <2>2. s.live = s.live \cup {t}
    BY <1>1
  <2> QED BY <2>1, <2>2 DEF e
<1>2. CASE t \notin s.live
  <2>0. s \in Store /\ IsInjective(s.pending) /\ s.epoch \in [Threads -> Nat]
    BY StoreFields DEF StoreOK
  <2> DEFINE l == s.live \cup {t}
             f == [s.epoch EXCEPT ![t] = s.epoch[t] + 1]
  <2>1. e = [s EXCEPT !.live = l, !.epoch = f]
    BY <2>0, <1>2 DEF entry, Store
  <2>2. /\ l \in SUBSET Threads /\ f \in [Threads -> Nat]
        /\ f[t] = s.epoch[t] + 1 /\ \A u \in Threads \ {t} : f[u] = s.epoch[u]
    BY <2>0, StoreFields
  <2> HIDE DEF e, l, f
  <2>3. /\ e \in Store /\ e.live = l /\ e.epoch = f
        /\ e.active = s.active /\ e.pending = s.pending /\ e.inflight = s.inflight
        /\ e.queued = s.queued /\ e.hydration = s.hydration /\ e.run = s.run
        /\ e.steering = s.steering /\ e.observed = s.observed
    BY <2>0, <2>1, <2>2 DEF Store
  <2>4. /\ s.queued[t] = <<>> /\ s.run[t] = NoRun /\ ~s.steering[t] /\ t \notin s.active
        /\ ~k[t].loading /\ k[t].run = NoRun
    BY <1>2 DEF GoodInv, EntryInv, still
  <2>5. \A u \in Threads \ {t} : /\ onItsWay(e, u) <=> onItsWay(s, u)
                                 /\ steered(e, S, u) <=> steered(s, S, u)
    BY <2>2, <2>3 DEF onItsWay, steered
  <2>6. EntryInv(e, k)
    <3>1. \A u \in e.active : u \in Threads \ {t} /\ engaged(e, k, u)
      BY <2>0, <2>3, <2>4, <2>5, StoreFields DEF GoodInv, EntryInv, engaged
    <3>2. \A u \in Threads :
            e.queued[u] # <<>> \/ e.run[u] # NoRun \/ e.steering[u] \/ u \in e.active => u \in e.live
      BY <2>3 DEF GoodInv, EntryInv, l
    <3>3. \A u \in e.live : e.run[u] # NoRun \/ k[u].loading => k[u].run # NoRun
      BY <2>3, <2>4 DEF GoodInv, EntryInv, l
    <3> QED BY <3>1, <3>2, <3>3, <2>3 DEF GoodInv, EntryInv
  <2>7. SteeringInv(e, S)
    BY <2>3, <2>4, <2>5 DEF GoodInv, SteeringInv
  <2>8. EpochInv(e, S)
    <3> SUFFICES ASSUME NEW x \in S PROVE x.epoch <= e.epoch[x.thread]
      BY DEF EpochInv
    <3>1. x.epoch <= s.epoch[x.thread]
      BY DEF GoodInv, EpochInv
    <3>2. CASE x.thread = t
      <4>1. s.epoch[t] \in Nat /\ x.epoch \in Nat /\ e.epoch[t] = s.epoch[t] + 1
        BY <2>0, <2>2, <2>3
      <4> QED BY <3>1, <3>2, <4>1
    <3>3. CASE x.thread # t
      BY <3>1, <3>3, <2>2, <2>3
    <3> QED BY <3>2, <3>3
  <2>9. HeldInv(e, owner) /\ held(e) = held(s)
    BY <2>3 DEF GoodInv, HeldInv, held, lined, flown
  <2>10. ASSUME TurnInv(s, G) PROVE TurnInv(e, G)
    <3>1. \A x \in e.inflight : x.thread \in Threads
      BY <2>3, StoreFields
    <3>2. ASSUME NEW x \in e.inflight, x.thread \notin G
          PROVE  x.thread \in e.active /\ x.epoch = e.epoch[x.thread]
      <4>1. x.thread \in s.active /\ x.epoch = s.epoch[x.thread]
        BY <3>2, <2>3, <2>10 DEF TurnInv
      <4> QED BY <4>1, <3>1, <2>2, <2>3, <2>4
    <3> QED BY <3>2, <2>3, <2>10 DEF TurnInv
  <2>11. ASSUME NEW R, ShownInv(s, k, G, R) PROVE ShownInv(e, k, G, R)
    <3>1. \A u \in e.live : ours(R, k[u].run) => u \in s.live
      BY <2>3, <2>4 DEF ours, l
    <3>2. \A u \in e.live : k[u].run # NoRun => u \in s.live
      BY <2>3, <2>4 DEF l
    <3> QED BY <3>1, <3>2, <2>3, <2>11 DEF ShownInv, l
  <2>12. ASSUME NEW R, HaltInv(s, k, S, R) PROVE HaltInv(e, k, S, R)
    <3> SUFFICES ASSUME NEW x \in S, x.thread \in e.live,
                        x.at = "stopping" \/ x.epoch # e.epoch[x.thread],
                        k[x.thread].run <= x.run /\ k[x.thread].loading
                 PROVE  ~ours(R, k[x.thread].run)
      BY DEF HaltInv
    <3>1. x.thread # t
      BY <2>4
    <3> QED BY <3>1, <2>2, <2>3, <2>12 DEF HaltInv, l
  <2>12a. ASSUME NEW R, AwaitedInv(s, S, G, R) PROVE AwaitedInv(e, S, G, R)
    BY <2>3, <2>12a, AwaitedKeeps
  <2>13. ASSUME DrainInv(s, k, S) PROVE DrainInv(e, k, S)
    <3> SUFFICES ASSUME NEW u \in Threads, drainable(e, k, u)
                 PROVE  engaged(e, k, u) \/ steered(e, S, u) \/ (u \in ToSet(e.pending) /\ full(e))
      BY DEF DrainInv
    <3>1. u # t
      BY <2>3, <2>4 DEF drainable
    <3>2. drainable(s, k, u)
      BY <3>1, <2>3 DEF drainable, occupied, l
    <3> QED BY <3>1, <3>2, <2>3, <2>5, <2>13 DEF DrainInv, engaged, full
  <2>14. StoreOK(e) /\ e.live \cap G = {}
    BY <2>0, <2>3 DEF StoreOK, l
  <2> QED BY <2>3, <2>6, <2>7, <2>8, <2>9, <2>10, <2>11, <2>12, <2>12a, <2>13, <2>14
          DEF GoodInv, Late, e, l
<1> QED BY <1>1, <1>2

(* Only what the controllers of entries show matters.                       *)
LEMMA ShowKeeps ==
  ASSUME NEW s, NEW k, NEW l, NEW S, NEW owner, NEW G, \A t \in s.live : l[t] = k[t]
  PROVE  /\ Mid(s, k, S, owner, G) => Mid(s, l, S, owner, G)
         /\ \A R : Late(s, k, S, G, R) => Late(s, l, S, G, R)
         /\ EntryInv(s, k) /\ s \in Store /\ DrainInv(s, k, S) => DrainInv(s, l, S)
<1>1. ASSUME EntryInv(s, k), s \in Store PROVE EntryInv(s, l)
  <2>1. \A t \in s.active : t \in s.live
    BY <1>1, StoreFields DEF EntryInv
  <2> QED BY <2>1, <1>1 DEF EntryInv, engaged
<1>2. ASSUME NEW R, ShownInv(s, k, G, R) PROVE ShownInv(s, l, G, R)
  BY <1>2 DEF ShownInv
<1>3. ASSUME NEW R, HaltInv(s, k, S, R) PROVE HaltInv(s, l, S, R)
  BY <1>3 DEF HaltInv
<1>4. ASSUME DrainInv(s, k, S) PROVE DrainInv(s, l, S)
  BY <1>4 DEF DrainInv, drainable, occupied, engaged
<1> QED BY <1>1, <1>2, <1>3, <1>4 DEF Mid, GoodInv, Late, StoreOK

Drained(s, p, t, k, S, owner, G) ==
  /\ Mid(p, k, S, owner, G) /\ held(p) = held(s)
  /\ p.live = s.live /\ p.epoch = s.epoch /\ p.run = s.run
  /\ \A R : Late(s, k, S, G, R) => Late(p, k, S, G, R)
  /\ Waiting(s, k, S, ToSet(s.pending) \cup {t}) => Waiting(p, k, S, ToSet(p.pending))
  /\ ( \A u \in Threads \ {t} :
         drainable(s, k, u) =>
           engaged(s, k, u) \/ steered(s, S, u) \/ (u \in ToSet(s.pending) /\ full(s)) )
     => DrainInv(p, k, S)
LEMMA DrainQueuedKeeps ==
  ASSUME NEW s, NEW k, NEW S, NEW owner, NEW G, NEW t \in Threads, Mid(s, k, S, owner, G)
  PROVE  Drained(s, drainQueued(s, k, t), t, k, S, owner, G)
<1> DEFINE p == drainQueued(s, k, t)
           Q == ToSet(s.pending) \cup {t}
<1> USE DEF Drained
<1>1. StoreOK(s) /\ IsFiniteSet(s.active)
  BY DEF Mid, GoodInv, EntryInv
<1>2. \/ ~drainable(s, k, t) /\ p = s
      \/ drainable(s, k, t) /\ Pumped(s, k, p, Q)
  BY <1>1, DrainQueuedFacts
<1> HIDE DEF p
<1>3. CASE ~drainable(s, k, t) /\ p = s
  <2>1. Waiting(s, k, S, Q) => Waiting(s, k, S, ToSet(s.pending))
    BY <1>3 DEF Waiting
  <2>2. ( \A u \in Threads \ {t} :
            drainable(s, k, u) =>
              engaged(s, k, u) \/ steered(s, S, u) \/ (u \in ToSet(s.pending) /\ full(s)) )
        => DrainInv(s, k, S)
    BY <1>3 DEF DrainInv
  <2> QED BY <2>1, <2>2, <1>3 DEF p
<1>4. CASE drainable(s, k, t) /\ Pumped(s, k, p, Q)
  <2>1. /\ Mid(p, k, S, owner, G) /\ held(p) = held(s)
        /\ p.live = s.live /\ p.epoch = s.epoch /\ p.run = s.run
        /\ \A R : Late(s, k, S, G, R) => Late(p, k, S, G, R)
        /\ Waiting(s, k, S, Q) => DrainInv(p, k, S)
    BY <1>4, PumpKeeps
  <2>2. DrainInv(p, k, S) => Waiting(p, k, S, ToSet(p.pending))
    BY DEF DrainInv, Waiting
  <2>3. ( \A u \in Threads \ {t} :
            drainable(s, k, u) =>
              engaged(s, k, u) \/ steered(s, S, u) \/ (u \in ToSet(s.pending) /\ full(s)) )
        => Waiting(s, k, S, Q)
    BY DEF Waiting
  <2> QED BY <2>1, <2>2, <2>3 DEF p
<1> QED BY <1>2, <1>3, <1>4

PumpedOut(s, p, k, S, owner, G) ==
  /\ Mid(p, k, S, owner, G) /\ held(p) = held(s)
  /\ p.live = s.live /\ p.epoch = s.epoch /\ p.run = s.run
  /\ \A R : Late(s, k, S, G, R) => Late(p, k, S, G, R)
  /\ Waiting(s, k, S, ToSet(s.pending)) => DrainInv(p, k, S)
LEMMA PumpRunQueueKeeps ==
  ASSUME NEW s, NEW k, NEW S, NEW owner, NEW G, Mid(s, k, S, owner, G)
  PROVE  PumpedOut(s, pumpRunQueue(s, k), k, S, owner, G)
<1>1. StoreOK(s) /\ IsFiniteSet(s.active)
  BY DEF Mid, GoodInv, EntryInv
<1> DEFINE p == pumpRunQueue(s, k)
<1>2. Pumped(s, k, p, ToSet(s.pending))
  BY <1>1, PumpFacts
<1> HIDE DEF p
<1>3. /\ Mid(p, k, S, owner, G) /\ held(p) = held(s)
      /\ p.live = s.live /\ p.epoch = s.epoch /\ p.run = s.run
      /\ \A R : Late(s, k, S, G, R) => Late(p, k, S, G, R)
      /\ Waiting(s, k, S, ToSet(s.pending)) => DrainInv(p, k, S)
  BY <1>2, PumpKeeps
<1> QED BY <1>3 DEF p, PumpedOut

(* A thread gets an input, and one more input has been sent.                *)
LEMMA PushFacts ==
  ASSUME NEW s \in Store, NEW t \in Threads, NEW i \in Inputs
  PROVE  LET p == push(s, t, i)
         IN  /\ p \in Store
             /\ p.queued[t] = Append(s.queued[t], i)
             /\ \A u \in Threads \ {t} : p.queued[u] = s.queued[u]
             /\ p.live = s.live /\ p.epoch = s.epoch /\ p.run = s.run /\ p.steering = s.steering
             /\ p.hydration = s.hydration /\ p.active = s.active /\ p.pending = s.pending
             /\ p.observed = s.observed /\ p.inflight = s.inflight
<1> DEFINE q == [s.queued EXCEPT ![t] = Append(s.queued[t], i)]
           p == push(s, t, i)
<1>1. s.queued \in [Threads -> Seq(Inputs)]
  BY StoreFields
<1>2. Append(s.queued[t], i) \in Seq(Inputs)
  BY <1>1
<1>3. q \in [Threads -> Seq(Inputs)] /\ q[t] = Append(s.queued[t], i)
      /\ \A u \in Threads \ {t} : q[u] = s.queued[u]
  BY <1>1, <1>2
<1>4. p = [s EXCEPT !.queued = q]
  BY DEF push, Store
<1> HIDE DEF p, q
<1>5. /\ p \in Store /\ p.queued = q
      /\ p.live = s.live /\ p.epoch = s.epoch /\ p.run = s.run /\ p.steering = s.steering
      /\ p.hydration = s.hydration /\ p.active = s.active /\ p.pending = s.pending
      /\ p.observed = s.observed /\ p.inflight = s.inflight
  BY <1>3, <1>4 DEF Store
<1> QED BY <1>3, <1>5 DEF p

(* The thread's queue gets the input, at one of its ends.                   *)
PutIn(s, p, t, i) ==
  /\ IsInjective(p.queued[t]) /\ ToSet(p.queued[t]) = ToSet(s.queued[t]) \cup {i}
  /\ \A u \in Threads \ {t} : p.queued[u] = s.queued[u]
  /\ p.inflight = s.inflight
LEMMA PushHeld ==
  ASSUME NEW s \in Store, NEW p \in Store, NEW owner, NEW t \in Threads, NEW i \in Inputs,
         PutIn(s, p, t, i),
         i \in DOMAIN owner, owner[i] = t, i \notin held(s), HeldInv(s, owner)
  PROVE  HeldInv(p, owner) /\ held(p) = held(s) \cup {i}
<1> USE DEF PutIn
<1>1. \A e : e \in lined(s) <=> \E u \in Threads : e \in ToSet(s.queued[u])
  BY LinedFacts
<1>2. \A e : e \in lined(p) <=> \E u \in Threads : e \in ToSet(p.queued[u])
  BY LinedFacts
<1>5. lined(p) = lined(s) \cup {i}
  <2>1. ASSUME NEW e \in lined(p) PROVE e \in lined(s) \cup {i}
    BY <2>1, <1>1, <1>2
  <2>2. ASSUME NEW e \in lined(s) PROVE e \in lined(p)
    BY <2>2, <1>1, <1>2
  <2>3. i \in lined(p)
    BY <1>2
  <2> QED BY <2>1, <2>2, <2>3
<1>6. flown(p) = flown(s)
  BY DEF flown
<1>7. ASSUME NEW u \in Threads
      PROVE  IsInjective(p.queued[u]) /\ \A e \in ToSet(p.queued[u]) : e \in DOMAIN owner /\ owner[e] = u
  <2>1. CASE u = t
    BY <2>1 DEF HeldInv
  <2>2. CASE u # t
    BY <2>2 DEF HeldInv
  <2> QED BY <2>1, <2>2
<1>8. ASSUME NEW x \in p.inflight
      PROVE  x.input \in DOMAIN owner /\ owner[x.input] = x.thread /\ x.input \notin lined(p)
  <2>1. x.input # i
    BY DEF held, flown
  <2> QED BY <2>1, <1>5 DEF HeldInv
<1>9. HeldInv(p, owner)
  BY <1>7, <1>8 DEF HeldInv
<1> QED BY <1>5, <1>6, <1>9 DEF held

Pushed(s, p, t, i, k, S, owner, G) ==
  /\ Mid(p, k, S, owner, G) /\ held(p) = held(s) \cup {i}
  /\ p.live = s.live /\ p.epoch = s.epoch /\ p.run = s.run /\ p.steering = s.steering
  /\ p.hydration = s.hydration /\ p.active = s.active /\ p.pending = s.pending
  /\ p.inflight = s.inflight
  /\ \A R : Late(s, k, S, G, R) => Late(p, k, S, G, R)
  /\ DrainInv(s, k, S) =>
       \A u \in Threads \ {t} :
         drainable(p, k, u) =>
           engaged(p, k, u) \/ steered(p, S, u) \/ (u \in ToSet(p.pending) /\ full(p))
LEMMA PushKeeps ==
  ASSUME NEW s, NEW k, NEW S, NEW owner, NEW G, NEW t \in s.live, NEW i \in Inputs,
         i \in DOMAIN owner, owner[i] = t, i \notin held(s), Mid(s, k, S, owner, G)
  PROVE  Pushed(s, push(s, t, i), t, i, k, S, owner, G)
<1> DEFINE p == push(s, t, i)
<1>0. s \in Store /\ t \in Threads
  BY StoreFields DEF Mid, StoreOK
<1>1. /\ p \in Store
      /\ p.queued[t] = Append(s.queued[t], i)
      /\ \A u \in Threads \ {t} : p.queued[u] = s.queued[u]
      /\ p.live = s.live /\ p.epoch = s.epoch /\ p.run = s.run /\ p.steering = s.steering
      /\ p.hydration = s.hydration /\ p.active = s.active /\ p.pending = s.pending
      /\ p.observed = s.observed /\ p.inflight = s.inflight
  BY <1>0, PushFacts
<1> HIDE DEF p
<1>2. HeldInv(p, owner) /\ held(p) = held(s) \cup {i}
  <2>1. HeldInv(s, owner)
    BY DEF Mid, GoodInv
  <2>2. /\ s.queued[t] \in Seq(Inputs) /\ IsInjective(s.queued[t])
        /\ i \notin ToSet(s.queued[t])
    BY <2>1, <1>0, StoreFields, LinedFacts DEF HeldInv, held
  <2>3. IsInjective(p.queued[t]) /\ ToSet(p.queued[t]) = ToSet(s.queued[t]) \cup {i}
    BY <2>2, <1>1, PushedSeq
  <2>4. PutIn(s, p, t, i)
    BY <2>3, <1>1 DEF PutIn
  <2> QED BY <2>1, <2>4, <1>0, <1>1, PushHeld
<1>3. EntryInv(p, k)
  <2>1. \A u \in Threads :
          p.queued[u] # <<>> \/ p.run[u] # NoRun \/ p.steering[u] \/ u \in p.active => u \in p.live
    BY <1>1 DEF Mid, GoodInv, EntryInv
  <2> QED BY <2>1, <1>1 DEF Mid, GoodInv, EntryInv, engaged, onItsWay
<1>4. SteeringInv(p, S) /\ EpochInv(p, S)
  BY <1>1 DEF Mid, GoodInv, SteeringInv, EpochInv, steered
<1>5. ASSUME NEW R, Late(s, k, S, G, R) PROVE Late(p, k, S, G, R)
  <2>1. AwaitedInv(p, S, G, R)
    BY <1>1, <1>5, AwaitedKeeps DEF Late
  <2> QED BY <2>1, <1>1, <1>5 DEF Late, TurnInv, ShownInv, HaltInv
<1>6. ASSUME DrainInv(s, k, S), NEW u \in Threads \ {t}, drainable(p, k, u)
      PROVE  engaged(p, k, u) \/ steered(p, S, u) \/ (u \in ToSet(p.pending) /\ full(p))
  <2>1. drainable(s, k, u)
    BY <1>1, <1>6 DEF drainable, occupied
  <2> QED BY <2>1, <1>1, <1>6 DEF DrainInv, engaged, onItsWay, steered, full
<1>7. Mid(p, k, S, owner, G)
  BY <1>1, <1>2, <1>3, <1>4 DEF Mid, GoodInv, StoreOK
<1> QED BY <1>1, <1>2, <1>5, <1>6, <1>7 DEF p, Pushed

LEMMA SentGrows ==
  ASSUME NEW s, NEW k, NEW S, NEW G, NEW owner \in Seq(Threads), NEW t \in Threads
  PROVE  LET more == Append(owner, t)
         IN  /\ more \in Seq(Threads) /\ Len(more) = Len(owner) + 1 /\ Len(owner) \in Nat
             /\ Len(more) \in DOMAIN more /\ more[Len(more)] = t /\ Len(more) \notin DOMAIN owner
             /\ DOMAIN more = DOMAIN owner \cup {Len(more)}
             /\ \A i \in DOMAIN owner : more[i] = owner[i]
             /\ Mid(s, k, S, owner, G) => Mid(s, k, S, more, G)
             /\ \A R : RunsInv(R, owner) => RunsInv(R, more)
<1> DEFINE more == Append(owner, t)
<1>1. /\ more \in Seq(Threads) /\ Len(more) = Len(owner) + 1 /\ Len(owner) \in Nat
      /\ \A i \in 1 .. Len(owner) : more[i] = owner[i]
      /\ more[Len(owner) + 1] = t
      /\ DOMAIN more = 1 .. Len(owner) + 1 /\ DOMAIN owner = 1 .. Len(owner)
  BY AppendProperties
<1> HIDE DEF more
<1>2. /\ Len(more) \in DOMAIN more /\ more[Len(more)] = t /\ Len(more) \notin DOMAIN owner
      /\ DOMAIN more = DOMAIN owner \cup {Len(more)}
      /\ \A i \in DOMAIN owner : more[i] = owner[i] /\ i \in DOMAIN more
  BY <1>1
<1>3. ASSUME HeldInv(s, owner) PROVE HeldInv(s, more)
  BY <1>2, <1>3 DEF HeldInv
<1>4. ASSUME NEW R, RunsInv(R, owner) PROVE RunsInv(R, more)
  BY <1>2, <1>4 DEF RunsInv
<1> QED BY <1>1, <1>2, <1>3, <1>4 DEF Mid, GoodInv, more

(* A turn begins at once.                                                   *)
launched(s, t, i) ==
  [s EXCEPT !.active = @ \cup {t},
            !.inflight = @ \cup {[thread |-> t, epoch |-> s.epoch[t], input |-> i, queued |-> FALSE]}]

TookInput(s, p, t, i, k, S, owner, G) ==
  /\ Mid(p, k, S, owner, G) /\ held(p) = held(s) \cup {i}
  /\ p.live = s.live /\ p.epoch = s.epoch /\ p.run = s.run
  /\ \A R : Late(s, k, S, G, R) => Late(p, k, S, G, R)
  /\ DrainInv(s, k, S) => DrainInv(p, k, S)
LEMMA LaunchKeeps ==
  ASSUME NEW s, NEW k, NEW S, NEW owner, NEW G, NEW t \in s.live, NEW i \in Inputs,
         i \in DOMAIN owner, owner[i] = t, i \notin held(s), Mid(s, k, S, owner, G),
         t \notin s.active, ~full(s)
  PROVE  TookInput(s, launched(s, t, i), t, i, k, S, owner, G)
<1> DEFINE p == launched(s, t, i)
           x == [thread |-> t, epoch |-> s.epoch[t], input |-> i, queued |-> FALSE]
           a == s.active \cup {t}
           f == s.inflight \cup {x}
<1>0. /\ s \in Store /\ t \in Threads /\ IsInjective(s.pending)
      /\ s.active \in SUBSET Threads /\ s.inflight \in SUBSET Submission /\ s.epoch[t] \in Nat
  BY StoreFields DEF Mid, StoreOK
<1>1. x \in Submission /\ x.thread = t /\ x.epoch = s.epoch[t] /\ x.input = i
  BY <1>0 DEF Submission
<1>2. p = [s EXCEPT !.active = a, !.inflight = f]
  BY <1>0 DEF launched, Store
<1>3. a \in SUBSET Threads /\ f \in SUBSET Submission /\ x \in f /\ t \in a
  BY <1>0, <1>1
<1>4. \A y \in f : y \in s.inflight \/ y = x
  OBVIOUS
<1> HIDE DEF p, f, x
<1>5. /\ p \in Store /\ p.active = a /\ p.inflight = f
      /\ p.live = s.live /\ p.epoch = s.epoch /\ p.run = s.run /\ p.steering = s.steering
      /\ p.hydration = s.hydration /\ p.pending = s.pending /\ p.queued = s.queued
  BY <1>0, <1>2, <1>3 DEF Store
<1>6. s.inflight \subseteq f
  BY DEF f
<1>7. /\ IsFiniteSet(a) /\ Cardinality(s.active) \in Nat
      /\ Cardinality(a) = Cardinality(s.active) + 1
  BY FS_AddElement, FS_CardinalityType DEF Mid, GoodInv, EntryInv
<1>8. lined(p) = lined(s)
  BY <1>5 DEF lined
<1>9. flown(p) = flown(s) \cup {i}
  BY <1>1, <1>3, <1>4, <1>5, <1>6 DEF flown
<1>10. HeldInv(p, owner)
  <2>1. ASSUME NEW y \in f
        PROVE  y.input \in DOMAIN owner /\ owner[y.input] = y.thread /\ y.input \notin lined(p)
    <3>1. CASE y \in s.inflight
      BY <3>1, <1>8 DEF Mid, GoodInv, HeldInv
    <3>2. CASE y = x
      BY <3>2, <1>1, <1>8 DEF held
    <3> QED BY <3>1, <3>2, <1>4
  <2>2. \A y \in s.inflight : y.input # i
    BY DEF held, flown
  <2>3. ASSUME NEW y \in f, NEW z \in f, y.input = z.input PROVE y = z
    <3>1. CASE y \in s.inflight /\ z \in s.inflight
      BY <3>1, <2>3 DEF Mid, GoodInv, HeldInv
    <3>2. CASE y = x \/ z = x
      BY <3>2, <2>2, <2>3, <1>1, <1>4
    <3> QED BY <3>1, <3>2, <1>4
  <2>4. \A u \in Threads : /\ IsInjective(p.queued[u])
                           /\ \A e \in ToSet(p.queued[u]) : e \in DOMAIN owner /\ owner[e] = u
    BY <1>5 DEF Mid, GoodInv, HeldInv
  <2> QED BY <2>1, <2>3, <2>4, <1>5 DEF HeldInv
<1>11. \A u : onItsWay(s, u) => onItsWay(p, u)
  BY <1>5, <1>6 DEF onItsWay
<1>12. EntryInv(p, k)
  <2>1. onItsWay(p, t)
    BY <1>1, <1>3, <1>5 DEF onItsWay
  <2>2. \A u \in p.active : engaged(p, k, u)
    BY <2>1, <1>5, <1>11 DEF Mid, GoodInv, EntryInv, engaged
  <2>3. \A u \in Threads :
          p.queued[u] # <<>> \/ p.run[u] # NoRun \/ p.steering[u] \/ u \in p.active => u \in p.live
    BY <1>5 DEF Mid, GoodInv, EntryInv
  <2> QED BY <2>2, <2>3, <1>5, <1>7 DEF Mid, GoodInv, EntryInv
<1>13. SteeringInv(p, S) /\ EpochInv(p, S)
  BY <1>5 DEF Mid, GoodInv, SteeringInv, EpochInv, steered
<1>14. ASSUME TurnInv(s, G) PROVE TurnInv(p, G)
  <2>1. Cardinality(p.active) <= maxParallelRuns
    BY <1>5, <1>7, SlotsAssumption DEF full
  <2>2. \A y \in f : y.thread \in G \/ (y.thread \in a /\ y.epoch = s.epoch[y.thread])
    BY <1>1, <1>3, <1>4, <1>14 DEF TurnInv
  <2>3. \A y \in s.inflight : y.thread = t => y.thread \in G
    BY <1>14 DEF TurnInv
  <2>4. \A y, z \in f : y.thread = z.thread => y.thread \in G \/ y = z
    BY <2>3, <1>1, <1>4, <1>14 DEF TurnInv
  <2> QED BY <2>1, <2>2, <2>4, <1>5 DEF TurnInv
<1>15. ASSUME NEW R, ShownInv(s, k, G, R) PROVE ShownInv(p, k, G, R)
  BY <1>5, <1>15 DEF ShownInv
<1>16. ASSUME NEW R, HaltInv(s, k, S, R) PROVE HaltInv(p, k, S, R)
  BY <1>5, <1>16 DEF HaltInv
<1>16a. ASSUME NEW R, AwaitedInv(s, S, G, R) PROVE AwaitedInv(p, S, G, R)
  BY <1>5, <1>6, <1>16a, AwaitedKeeps
<1>17. ASSUME DrainInv(s, k, S) PROVE DrainInv(p, k, S)
  <2> SUFFICES ASSUME NEW u \in Threads, drainable(p, k, u)
               PROVE  engaged(p, k, u) \/ steered(p, S, u) \/ (u \in ToSet(p.pending) /\ full(p))
    BY DEF DrainInv
  <2>1. drainable(s, k, u)
    BY <1>5 DEF drainable, occupied
  <2>2. ~full(s)
    OBVIOUS
  <2>3. engaged(s, k, u) \/ steered(s, S, u)
    BY <2>1, <2>2, <1>17 DEF DrainInv
  <2> QED BY <2>3, <1>5, <1>11 DEF engaged, steered
<1>18. Mid(p, k, S, owner, G)
  BY <1>0, <1>5, <1>10, <1>12, <1>13 DEF Mid, GoodInv, StoreOK
<1>19. held(p) = held(s) \cup {i}
  BY <1>8, <1>9 DEF held
<1> QED BY <1>5, <1>14, <1>15, <1>16, <1>16a, <1>17, <1>18, <1>19 DEF p, Late, TookInput

-----------------------------------------------------------------------------
(* What the invariant says of a state, and what a step has to show.         *)

Shown(n) == [run : 0 .. n, loading : BOOLEAN, interrupt : BOOLEAN]
Runs     == Seq(ServerRun)
RestOK ==
  /\ steers \subseteq [thread : Threads, epoch : Nat, input : Inputs, run : Run,
                       at : {"cancelling", "stopping"}]
  /\ stops \subseteq [thread : Threads, epoch : Nat, run : 0 .. Len(runs)]
  /\ gone \subseteq Threads
  /\ runs \in Runs
  /\ withdrawn \subseteq Inputs /\ returned \subseteq Inputs
  /\ sent \in Seq(Threads) /\ asides \in Nat /\ upsets \in Nat
  /\ overtaken \in BOOLEAN

LEMMA InvFacts ==
  ASSUME StoreInv
  PROVE  /\ Mid(store, sdk, steers, sent, gone)
         /\ store \in Store /\ StoreOK(store) /\ RestOK
         /\ sdk \in [Threads -> Shown(Len(runs))] /\ sdk \in Controllers
         /\ \A u \in Threads : sdk[u].run \in 0 .. Len(runs) /\ store.run[u] <= Len(runs)
         /\ Len(runs) \in Nat /\ DOMAIN runs = Run /\ DOMAIN runs \subseteq Nat \ {0}
         /\ \A r \in Run : /\ runs[r].thread \in Threads /\ runs[r].input \in 0 .. MaxInputs
                           /\ runs[r].ended \in BOOLEAN /\ runs[r].answer \in {"none", "due", "given"}
         /\ \A x \in steers : x.thread \in Threads /\ x.epoch \in Nat /\ x.run \in Run
         /\ \A x \in stops : x.thread \in Threads /\ x.epoch \in Nat
         /\ Len(sent) \in Nat /\ DOMAIN sent = 1 .. Len(sent)
         /\ \A u \in Threads \ store.live : sdk[u] = still
         /\ held(store) \subseteq DOMAIN sent
         /\ RunsInv(runs, sent) /\ ApartInv(held(store), runs, withdrawn, returned, sent)
         /\ upsets = 0 => DrainInv(store, sdk, steers)
         /\ overtaken \/ (/\ LossInv(held(store), runs, withdrawn, returned, sent, gone)
                          /\ Late(store, sdk, steers, gone, runs))
<1>1. StoreTypeOK
  BY DEF StoreInv
<1>2. /\ store \in Store /\ StoreOK(store) /\ RestOK
      /\ sdk \in [Threads -> Shown(Len(runs))]
  BY <1>1 DEF StoreTypeOK, StoreOK, RestOK, Shown, Runs
<1>3. Len(runs) \in Nat /\ DOMAIN runs = 1 .. Len(runs) /\ Len(sent) \in Nat /\ DOMAIN sent = 1 .. Len(sent)
  BY <1>2 DEF RestOK, Runs
<1>4. DOMAIN runs = Run /\ DOMAIN runs \subseteq Nat \ {0}
  BY <1>3 DEF Run
<1>5. \A r \in Run : /\ runs[r].thread \in Threads /\ runs[r].input \in 0 .. MaxInputs
                     /\ runs[r].ended \in BOOLEAN /\ runs[r].answer \in {"none", "due", "given"}
  <2>1. runs \in Seq(ServerRun)
    BY <1>2 DEF RestOK, Runs
  <2>2. \A r \in 1 .. Len(runs) : runs[r] \in ServerRun
    BY <2>1
  <2> QED BY <2>2 DEF ServerRun, Run
<1>6. \A x \in steers : x.thread \in Threads /\ x.epoch \in Nat /\ x.run \in Run
  BY <1>2 DEF RestOK
<1>7. \A x \in stops : x.thread \in Threads /\ x.epoch \in Nat
  BY <1>2 DEF RestOK
<1>8. sdk \in Controllers
  <2>1. 0 .. Len(runs) \subseteq Nat
    BY <1>3
  <2> QED BY <2>1, <1>2 DEF Controllers, Shown
<1>9. \A u \in Threads : sdk[u].run \in 0 .. Len(runs) /\ store.run[u] <= Len(runs)
  BY <1>2 DEF Shown, StoreInv
<1>10. Mid(store, sdk, steers, sent, gone)
  BY <1>2 DEF Mid, StoreInv
<1>11. held(store) \subseteq DOMAIN sent
  <2>1. lined(store) \subseteq DOMAIN sent
    BY DEF lined, StoreInv, GoodInv, HeldInv
  <2>2. flown(store) \subseteq DOMAIN sent
    BY DEF flown, StoreInv, GoodInv, HeldInv
  <2> QED BY <2>1, <2>2 DEF held
<1> QED BY <1>2, <1>3, <1>4, <1>5, <1>6, <1>7, <1>8, <1>9, <1>10, <1>11
        DEF StoreInv, FateInv, LateInv, Late

(* A step leads to the store s, whose controllers show k.                   *)
LEMMA StepKeeps ==
  ASSUME NEW s, NEW k, becomes(s, k), RestOK',
         Mid(s, k, steers', sent', gone'),
         k \in [Threads -> Shown(Len(runs'))], \A u \in Threads : s.run[u] <= Len(runs'),
         RunsInv(runs', sent'), ApartInv(held(s), runs', withdrawn', returned', sent'),
         upsets' = 0 => DrainInv(s, k, steers'),
         overtaken' \/ (/\ LossInv(held(s), runs', withdrawn', returned', sent', gone')
                        /\ Late(s, k, steers', gone', runs'))
  PROVE  StoreInv'
<1> DEFINE l == [t \in Threads |-> IF t \in s.live THEN k[t] ELSE still]
<1>1. store' = s /\ sdk' = l
  BY DEF becomes
<1>2. s \in Store /\ s.live \in SUBSET Threads
  BY StoreFields DEF Mid, StoreOK
<1>3. Len(runs') \in Nat
  BY DEF RestOK, Runs
<1>4. still \in Shown(Len(runs'))
  BY <1>3 DEF still, Shown, NoRun
<1>5. l \in [Threads -> Shown(Len(runs'))]
  BY <1>4
<1>6. \A t \in s.live : l[t] = k[t]
  BY <1>2
<1>7. \A t \in Threads \ s.live : l[t] = still
  OBVIOUS
<1> HIDE DEF l
<1>8. Mid(s, l, steers', sent', gone')
  <2> DEFINE S == steers'  owner == sent'  G == gone'
  <2>1. Mid(s, k, S, owner, G)
    OBVIOUS
  <2> HIDE DEF S, owner, G
  <2>2. Mid(s, l, S, owner, G)
    BY <2>1, <1>6, ShowKeeps
  <2> QED BY <2>2 DEF S, owner, G
<1>9. ASSUME Late(s, k, steers', gone', runs') PROVE Late(s, l, steers', gone', runs')
  <2> DEFINE S == steers'  G == gone'  R == runs'
  <2>1. Late(s, k, S, G, R)
    BY <1>9
  <2> HIDE DEF S, G, R
  <2>2. Late(s, l, S, G, R)
    BY <2>1, <1>6, ShowKeeps
  <2> QED BY <2>2 DEF S, G, R
<1>10. ASSUME DrainInv(s, k, steers') PROVE DrainInv(s, l, steers')
  <2> DEFINE S == steers'
  <2>1. DrainInv(s, k, S)
    BY <1>10
  <2>2. EntryInv(s, k)
    BY DEF Mid, GoodInv
  <2> HIDE DEF S
  <2>3. DrainInv(s, l, S)
    BY <2>1, <2>2, <1>2, <1>6, ShowKeeps
  <2> QED BY <2>3 DEF S
<1>11. StoreTypeOK'
  BY <1>1, <1>5 DEF Mid, StoreOK, RestOK, StoreTypeOK, Shown, Runs
<1>12. (overtaken \/ LateInv)'
  BY <1>1, <1>9 DEF LateInv, Late
<1>13. FateInv'
  BY <1>1 DEF FateInv
<1>14. (upsets = 0 => DrainInv(store, sdk, steers))'
  BY <1>1, <1>10
<1>15. GoodInv(store, sdk, steers, sent)' /\ (store.live \cap gone = {})'
  BY <1>1, <1>8 DEF Mid
<1>16. (\A t \in Threads \ store.live : sdk[t] = still)'
  BY <1>1, <1>7
<1>17. (\A t \in Threads : store.run[t] <= Len(runs))'
  BY <1>1
<1> QED BY <1>11, <1>12, <1>13, <1>14, <1>15, <1>16, <1>17 DEF StoreInv

LEMMA Becomes ==
  ASSUME sdk' \in [Threads -> Shown(Len(runs'))],
         \A t \in Threads : t \notin store'.live => sdk'[t] = still
  PROVE  becomes(store', sdk')
<1> DEFINE l == [t \in Threads |-> IF t \in store'.live THEN sdk'[t] ELSE still]
<1>1. \A t \in Threads : l[t] = sdk'[t]
  OBVIOUS
<1>2. sdk' = l
  BY <1>1
<1> QED BY <1>2 DEF becomes

(* The server creates a run of the thread t.                                *)
Created(R, t, i) ==
  /\ R \in Runs /\ Len(R) = Len(runs) + 1
  /\ Len(runs) \in Nat /\ Len(R) \in Nat /\ Len(R) # 0
  /\ DOMAIN runs = Run /\ DOMAIN R = 1 .. Len(R)
  /\ DOMAIN R = DOMAIN runs \cup {Len(R)} /\ Len(R) \notin DOMAIN runs
  /\ R[Len(R)].thread = t /\ R[Len(R)].input = i /\ ~R[Len(R)].ended
  /\ R[Len(R)].answer = IF i = NoInput THEN "none" ELSE "due"
  /\ \A r \in DOMAIN runs :
       /\ R[r].thread = runs[r].thread /\ R[r].input = runs[r].input
       /\ R[r].answer = runs[r].answer
       /\ ~R[r].ended => ~runs[r].ended /\ runs[r].thread # t
  /\ deliveredBy(R) = deliveredBy(runs)

LEMMA CreatedFacts ==
  ASSUME runs \in Runs, NEW t \in Threads, NEW i \in 0 .. MaxInputs
  PROVE  Created(created(t, i), t, i)
<1> DEFINE T == ServerRun
           over == [r \in Run |-> [runs[r] EXCEPT !.ended = @ \/ runs[r].thread = t]]
           new == [thread |-> t, input |-> i, ended |-> FALSE,
                   answer |-> IF i = NoInput THEN "none" ELSE "due"]
           R == Append(over, new)
<1>0. created(t, i) = R
  BY DEF created
<1>1. /\ runs \in Seq(T) /\ Len(runs) \in Nat /\ DOMAIN runs = 1 .. Len(runs)
      /\ \A r \in 1 .. Len(runs) : runs[r] \in T
  <2>1. runs \in Seq(T)
    BY DEF Runs
  <2> HIDE DEF T
  <2> QED BY <2>1
<1>2. \A r \in Run : over[r] = [runs[r] EXCEPT !.ended = runs[r].ended \/ runs[r].thread = t]
  BY <1>1 DEF Run
<1>3. \A r \in Run : /\ over[r] \in T
                     /\ over[r].thread = runs[r].thread /\ over[r].input = runs[r].input
                     /\ over[r].answer = runs[r].answer
                     /\ over[r].ended = (runs[r].ended \/ runs[r].thread = t)
  <2> SUFFICES ASSUME NEW r \in Run
               PROVE  /\ over[r] \in T
                      /\ over[r].thread = runs[r].thread /\ over[r].input = runs[r].input
                     /\ over[r].answer = runs[r].answer
                      /\ over[r].ended = (runs[r].ended \/ runs[r].thread = t)
    OBVIOUS
  <2> DEFINE a == runs[r]
  <2>1. a \in T /\ over[r] = [a EXCEPT !.ended = a.ended \/ a.thread = t]
    BY <1>1, <1>2 DEF Run
  <2> HIDE DEF a, over
  <2>2. /\ over[r] \in T /\ over[r].thread = a.thread /\ over[r].input = a.input
        /\ over[r].answer = a.answer
        /\ over[r].ended = (a.ended \/ a.thread = t)
    BY <2>1 DEF ServerRun
  <2> QED BY <2>2 DEF a
<1>4. over \in [1 .. Len(runs) -> T]
  <2>1. over = [r \in 1 .. Len(runs) |-> over[r]]
    BY DEF Run
  <2>2. \A r \in 1 .. Len(runs) : over[r] \in T
    BY <1>3 DEF Run
  <2> HIDE DEF over, T
  <2> QED BY <2>1, <2>2
<1>5. over \in Seq(T) /\ Len(over) = Len(runs)
  <2> HIDE DEF over, T
  <2>1. over \in Seq(T)
    BY <1>1, <1>4
  <2>2. DOMAIN over = 1 .. Len(runs)
    BY <1>4
  <2> QED BY <2>1, <2>2, <1>1
<1>6. new \in T
  BY DEF ServerRun
<1>7. /\ R \in Seq(T) /\ Len(R) = Len(runs) + 1
      /\ \A r \in 1 .. Len(runs) : R[r] = over[r]
      /\ R[Len(runs) + 1] = new
  <2> HIDE DEF over, new, T, R
  <2>1. Append(over, new) \in Seq(T) /\ Len(Append(over, new)) = Len(over) + 1
    BY <1>5, <1>6, AppendProperties
  <2>2. /\ \A r \in 1 .. Len(over) : Append(over, new)[r] = over[r]
        /\ Append(over, new)[Len(over) + 1] = new
    BY <1>5, <1>6, AppendProperties
  <2> QED BY <2>1, <2>2, <1>5 DEF R
<1> HIDE DEF R, over
<1>8. /\ Len(R) \in Nat /\ Len(R) # 0 /\ DOMAIN R = 1 .. Len(R)
      /\ DOMAIN R = DOMAIN runs \cup {Len(R)} /\ Len(R) \notin DOMAIN runs
  BY <1>1, <1>7
<1>9. /\ R[Len(R)].thread = t /\ R[Len(R)].input = i /\ ~R[Len(R)].ended
      /\ R[Len(R)].answer = IF i = NoInput THEN "none" ELSE "due"
  BY <1>7
<1>10. \A r \in DOMAIN runs :
         /\ R[r].thread = runs[r].thread /\ R[r].input = runs[r].input
         /\ R[r].answer = runs[r].answer
         /\ ~R[r].ended => ~runs[r].ended /\ runs[r].thread # t
  BY <1>1, <1>3, <1>7 DEF Run
<1>11. deliveredBy(R) = deliveredBy(runs)
  <2>1. R[Len(R)].answer # "given"
    BY <1>9
  <2>2. \A j : j \in deliveredBy(R) <=> \E r \in DOMAIN R : R[r].answer = "given" /\ R[r].input = j
    BY DEF deliveredBy
  <2>3. \A j : j \in deliveredBy(runs) <=>
                \E r \in DOMAIN runs : runs[r].answer = "given" /\ runs[r].input = j
    BY DEF deliveredBy
  <2>4. \A r \in DOMAIN R : R[r].answer = "given" => r \in DOMAIN runs
    BY <2>1, <1>8
  <2>5. \A j \in deliveredBy(R) : j \in deliveredBy(runs)
    BY <2>2, <2>3, <2>4, <1>10
  <2>6. \A j \in deliveredBy(runs) : j \in deliveredBy(R)
    BY <2>2, <2>3, <1>8, <1>10
  <2> QED BY <2>5, <2>6
<1> QED BY <1>0, <1>1, <1>7, <1>8, <1>9, <1>10, <1>11 DEF Runs, Run, Created

(* An input is sent.                                                        *)
LEMMA FateGrows ==
  ASSUME NEW H, NEW R, NEW W, NEW B, NEW G, NEW owner, NEW more, NEW i,
         DOMAIN more = DOMAIN owner \cup {i}, i \notin DOMAIN owner,
         \A j \in DOMAIN owner : more[j] = owner[j],
         RunsInv(R, owner), ApartInv(H, R, W, B, owner)
  PROVE  /\ ApartInv(H \cup {i}, R, W, B, more)
         /\ LossInv(H, R, W, B, owner, G) => LossInv(H \cup {i}, R, W, B, more, G)
<1>1. i \notin deliveredBy(R)
  BY DEF RunsInv, deliveredBy
<1>2. i \notin W \cup B
  BY DEF ApartInv
<1> QED BY <1>1, <1>2 DEF ApartInv, LossInv

(* A component listens or not, and the thread is read or not.               *)
Touched(s, p, k, S, owner, G) ==
  /\ Mid(p, k, S, owner, G) /\ held(p) = held(s)
  /\ \A R : Late(s, k, S, G, R) => Late(p, k, S, G, R)
  /\ (\A u \in Threads : p.hydration[u] = "error" => s.hydration[u] = "error")
     /\ DrainInv(s, k, S) => DrainInv(p, k, S)
LEMMA TouchKeeps ==
  ASSUME NEW s, NEW k, NEW S, NEW owner, NEW G, Mid(s, k, S, owner, G), NEW p \in Store,
         p.live = s.live, p.epoch = s.epoch, p.queued = s.queued, p.run = s.run,
         p.steering = s.steering, p.active = s.active, p.pending = s.pending,
         p.inflight = s.inflight
  PROVE  Touched(s, p, k, S, owner, G)
<1>1. held(p) = held(s) /\ lined(p) = lined(s)
  BY DEF held, lined, flown
<1>2. \A u : (engaged(p, k, u) <=> engaged(s, k, u)) /\ (steered(p, S, u) <=> steered(s, S, u))
  BY DEF engaged, onItsWay, steered
<1>3. GoodInv(p, k, S, owner)
  BY <1>1, <1>2 DEF Mid, GoodInv, EntryInv, SteeringInv, EpochInv, HeldInv
<1>4. \A R : Late(s, k, S, G, R) => Late(p, k, S, G, R)
  <2>1. \A R : AwaitedInv(s, S, G, R) => AwaitedInv(p, S, G, R)
    BY AwaitedKeeps
  <2> QED BY <2>1 DEF Late, TurnInv, ShownInv, HaltInv
<1>5. ASSUME \A u \in Threads : p.hydration[u] = "error" => s.hydration[u] = "error",
             DrainInv(s, k, S)
      PROVE  DrainInv(p, k, S)
  <2>1. \A u \in Threads : drainable(p, k, u) => drainable(s, k, u)
    BY <1>5 DEF drainable, occupied
  <2> QED BY <2>1, <1>2, <1>5 DEF DrainInv, full
<1> QED BY <1>1, <1>3, <1>4, <1>5 DEF Mid, StoreOK, Touched

-----------------------------------------------------------------------------
(* Every step keeps the invariant. *)

LEMMA InitStoreInv == StoreInit => StoreInv
<1> SUFFICES ASSUME StoreInit PROVE StoreInv
  OBVIOUS
<1> USE DEF StoreInit
<1>1. store \in Store
  <2>1. <<>> \in Seq(Inputs) /\ <<>> \in Seq(Threads)
    OBVIOUS
  <2> QED BY <2>1 DEF Store, NoRun
<1>2. IsInjective(store.pending) /\ \A t \in Threads : IsInjective(store.queued[t])
  BY DEF IsInjective
<1>3. /\ runs \in Runs /\ Len(runs) \in Nat /\ Len(sent) = 0
      /\ \A r \in DOMAIN runs : runs[r].answer = "none" /\ \A q \in DOMAIN runs : q = r
  <2>1. CASE runs = <<>>
    BY <2>1 DEF Runs
  <2>2. ASSUME NEW t \in Threads, runs = <<[thread |-> t, input |-> NoInput, ended |-> FALSE,
                                                   answer |-> "none"]>>
        PROVE  /\ runs \in Runs /\ Len(runs) \in Nat
               /\ \A r \in DOMAIN runs : runs[r].answer = "none" /\ \A q \in DOMAIN runs : q = r
    <3> DEFINE T == ServerRun
               a == [thread |-> t, input |-> NoInput, ended |-> FALSE, answer |-> "none"]
    <3>1. a \in T /\ a.answer = "none"
      BY BoundsAssumption DEF NoInput, ServerRun
    <3>2. runs = <<a>>
      BY <2>2
    <3> HIDE DEF T, a
    <3>3. runs \in Seq(T) /\ Len(runs) = 1 /\ DOMAIN runs = {1} /\ runs[1] = a
      BY <3>1, <3>2
    <3> QED BY <3>1, <3>3 DEF Runs, T
  <2> QED BY <2>1, <2>2
<1>4. \A t \in Threads : ToSet(store.queued[t]) = {}
  <2>1. <<>> \in Seq(Inputs)
    OBVIOUS
  <2> QED BY <2>1, SetOfSeq
<1>5. lined(store) = {} /\ flown(store) = {} /\ held(store) = {}
  BY <1>4 DEF lined, flown, held
<1>6. StoreTypeOK
  <2>1. sdk \in [Threads -> [run : 0 .. Len(runs), loading : BOOLEAN, interrupt : BOOLEAN]]
    BY <1>3 DEF still, NoRun
  <2>2. sent \in Seq(Threads)
    OBVIOUS
  <2> QED BY <1>1, <1>2, <1>3, <2>1, <2>2 DEF StoreTypeOK, Runs
<1>7. EntryInv(store, sdk)
  BY FS_EmptySet DEF EntryInv, NoRun
<1>8. SteeringInv(store, steers) /\ EpochInv(store, steers)
  BY DEF SteeringInv, EpochInv
<1>9. HeldInv(store, sent)
  BY <1>2, <1>4 DEF HeldInv
<1>10. deliveredBy(runs) = {}
  BY <1>3 DEF deliveredBy
<1>11. FateInv
  BY <1>3, <1>5, <1>10 DEF FateInv, RunsInv, ApartInv
<1>12. DrainInv(store, sdk, steers)
  BY DEF DrainInv, drainable
<1>13. LateInv
  <2>1. Cardinality(store.active) <= maxParallelRuns
    BY FS_EmptySet, SlotsAssumption
  <2>2. DOMAIN sent = {}
    OBVIOUS
  <2>3. TurnInv(store, gone)
    BY <2>1 DEF TurnInv
  <2>4. ShownInv(store, sdk, gone, runs) /\ HaltInv(store, sdk, steers, runs)
    BY <1>3 DEF ShownInv, HaltInv, NoRun, still
  <2>4a. AwaitedInv(store, steers, gone, runs)
    BY <1>3 DEF AwaitedInv
  <2>5. LossInv(held(store), runs, withdrawn, returned, sent, gone)
    BY <2>2 DEF LossInv
  <2> QED BY <2>3, <2>4, <2>4a, <2>5 DEF LateInv
<1>14. \A t \in Threads : store.run[t] <= Len(runs)
  BY <1>3 DEF NoRun
<1> QED BY <1>6, <1>7, <1>8, <1>9, <1>11, <1>12, <1>13, <1>14 DEF StoreInv, GoodInv

(* What sending an input changes of the fates.                              *)
LEMMA InputFacts ==
  ASSUME StoreInv, NEW t \in Threads, input(t)
  PROVE  LET i == Len(sent')
         IN  /\ t \notin gone /\ i \in Inputs /\ i \in DOMAIN sent' /\ sent'[i] = t
             /\ i \notin held(store) /\ sent' \in Seq(Threads)
             /\ \A s, k, S : Mid(s, k, S, sent, gone) => Mid(s, k, S, sent', gone)
             /\ RunsInv(runs, sent')
             /\ ApartInv(held(store) \cup {i}, runs, withdrawn, returned, sent')
             /\ overtaken \/ LossInv(held(store) \cup {i}, runs, withdrawn, returned, sent', gone)
<1> DEFINE i == Len(sent')
           more == Append(sent, t)
<1>1. t \notin gone /\ Len(sent) < MaxInputs /\ sent' = more
  BY DEF input
<1>2. /\ sent \in Seq(Threads) /\ Len(sent) \in Nat /\ held(store) \subseteq DOMAIN sent
      /\ RunsInv(runs, sent) /\ ApartInv(held(store), runs, withdrawn, returned, sent)
      /\ overtaken \/ LossInv(held(store), runs, withdrawn, returned, sent, gone)
  BY InvFacts DEF RestOK
<1>3. /\ more \in Seq(Threads) /\ Len(more) = Len(sent) + 1
      /\ Len(more) \in DOMAIN more /\ more[Len(more)] = t /\ Len(more) \notin DOMAIN sent
      /\ DOMAIN more = DOMAIN sent \cup {Len(more)}
      /\ \A j \in DOMAIN sent : more[j] = sent[j]
      /\ RunsInv(runs, more)
  BY <1>2, SentGrows
<1>4. ASSUME NEW s, NEW k, NEW S PROVE Mid(s, k, S, sent, gone) => Mid(s, k, S, more, gone)
  BY <1>2, SentGrows
<1> HIDE DEF more
<1>5. Len(more) \in Inputs /\ Len(more) \notin held(store)
  BY <1>1, <1>2, <1>3, BoundsAssumption DEF Inputs
<1>6. /\ ApartInv(held(store) \cup {Len(more)}, runs, withdrawn, returned, more)
      /\ overtaken \/ LossInv(held(store) \cup {Len(more)}, runs, withdrawn, returned, more, gone)
  <2> DEFINE n == Len(more)  H == held(store)
  <2>1. /\ DOMAIN more = DOMAIN sent \cup {n} /\ n \notin DOMAIN sent
        /\ ApartInv(H, runs, withdrawn, returned, sent)
        /\ overtaken \/ LossInv(H, runs, withdrawn, returned, sent, gone)
    BY <1>2, <1>3
  <2> HIDE DEF n, H
  <2>2. /\ ApartInv(H \cup {n}, runs, withdrawn, returned, more)
        /\ LossInv(H, runs, withdrawn, returned, sent, gone)
             => LossInv(H \cup {n}, runs, withdrawn, returned, more, gone)
    BY <2>1, <1>2, <1>3, FateGrows
  <2> QED BY <2>1, <2>2 DEF n, H
<1> QED BY <1>1, <1>3, <1>4, <1>5, <1>6


LEMMA SendingKeeps ==
  ASSUME NEW s, NEW k, k = sdk, NEW S, NEW owner, NEW G, NEW t \in s.live, NEW i \in Inputs,
         i \in DOMAIN owner, owner[i] = t, i \notin held(s), Mid(s, k, S, owner, G)
  PROVE  TookInput(s, sending(s, t, i), t, i, k, S, owner, G)
<1> DEFINE p == sending(s, t, i)
           q == push(s, t, i)
           d == drainQueued(q, k, t)
           l == launched(s, t, i)
<1>0. t \in Threads
  BY StoreFields DEF Mid, StoreOK
<1>1. p = d \/ (t \notin s.active /\ ~full(s) /\ p = l)
  BY DEF sending, launched, full
<1>2. TookInput(s, d, t, i, k, S, owner, G)
  <2>1. Pushed(s, q, t, i, k, S, owner, G)
    BY PushKeeps
  <2> HIDE DEF q
  <2>2. Drained(q, d, t, k, S, owner, G)
    BY <1>0, <2>1, DrainQueuedKeeps DEF Pushed
  <2> HIDE DEF d
  <2> QED BY <2>1, <2>2 DEF Pushed, Drained, TookInput
<1>3. CASE t \notin s.active /\ ~full(s) /\ p = l
  BY <1>3, LaunchKeeps
<1>4. CASE p = d
  BY <1>2, <1>4
<1> QED BY <1>1, <1>3, <1>4

LEMMA SendKeeps ==
  ASSUME StoreInv, NEW t \in Threads, Send(t)
  PROVE  StoreInv'
<1> DEFINE e == entry(store, t)
           i == Len(sent')
<1>1. PICK ts \in evictedFor(e, sdk, t) : becomes(sending(disposeController(e, ts), t, i), sdk)
  BY DEF Send
<1> DEFINE d == disposeController(e, ts)
           p == sending(d, t, i)
<1>2. input(t) /\ UNCHANGED <<calls, gone, runs, fates, asides, upsets, overtaken>>
  BY DEF Send
<1>3. /\ t \notin gone /\ i \in Inputs /\ i \in DOMAIN sent' /\ sent'[i] = t
      /\ i \notin held(store) /\ sent' \in Seq(Threads)
      /\ \A s, k, S : Mid(s, k, S, sent, gone) => Mid(s, k, S, sent', gone)
      /\ RunsInv(runs, sent')
      /\ ApartInv(held(store) \cup {i}, runs, withdrawn, returned, sent')
      /\ overtaken \/ LossInv(held(store) \cup {i}, runs, withdrawn, returned, sent', gone)
  BY <1>2, InputFacts
<1>4. /\ Mid(store, sdk, steers, sent, gone)
      /\ sdk \in [Threads -> Shown(Len(runs))] /\ sdk \in Controllers
      /\ \A u \in Threads : store.run[u] <= Len(runs)
      /\ DOMAIN runs \subseteq Nat \ {0} /\ RestOK
      /\ \A x \in steers : x.thread \in Threads /\ x.epoch \in Nat
      /\ \A u \in Threads \ store.live : sdk[u] = still
      /\ upsets = 0 => DrainInv(store, sdk, steers)
      /\ overtaken \/ Late(store, sdk, steers, gone, runs)
  BY InvFacts
<1>5. Entered(store, e, t, sdk, steers, sent, gone)
  BY <1>3, <1>4, EntryKeeps
<1>6. ts \in SUBSET idle(e, sdk) /\ t \notin ts
  BY DEF evictions, evictedFor
<1> HIDE DEF e, i
<1>7. Disposed(e, d, ts, sdk, steers, sent, gone)
  BY <1>5, <1>6, DisposeKeeps DEF Entered
<1> HIDE DEF d
<1>8. Mid(d, sdk, steers, sent', gone) /\ t \in d.live /\ i \notin held(d)
  BY <1>3, <1>5, <1>6, <1>7 DEF Entered, Disposed
<1>9. TookInput(d, p, t, i, sdk, steers, sent', gone)
  <2> DEFINE owner == sent'
  <2>1. Mid(d, sdk, steers, owner, gone) /\ i \in DOMAIN owner /\ owner[i] = t
    BY <1>3, <1>8
  <2> HIDE DEF owner
  <2>2. TookInput(d, p, t, i, sdk, steers, owner, gone)
    BY <2>1, <1>3, <1>8, SendingKeeps
  <2> QED BY <2>2 DEF owner
<1> HIDE DEF p
<1>10. becomes(p, sdk)
  BY <1>1 DEF p, d, i, e
<1>11. RestOK'
  BY <1>2, <1>3, <1>4 DEF RestOK, Run, calls, fates
<1>12. Late(store, sdk, steers, gone, runs) => Late(p, sdk, steers, gone, runs)
  BY <1>4, <1>5, <1>7, <1>9 DEF Entered, Disposed, TookInput
<1>13. DrainInv(store, sdk, steers) => DrainInv(p, sdk, steers)
  BY <1>5, <1>7, <1>9 DEF Entered, Disposed, TookInput
<1>14. /\ Mid(p, sdk, steers, sent', gone)
       /\ held(p) = held(store) \cup {i} /\ p.run = store.run
  BY <1>5, <1>7, <1>9 DEF Entered, Disposed, TookInput
<1>15. /\ steers' = steers /\ gone' = gone /\ runs' = runs /\ withdrawn' = withdrawn
       /\ returned' = returned /\ upsets' = upsets /\ overtaken' = overtaken
  BY <1>2 DEF calls, fates
<1> QED BY <1>3, <1>4, <1>10, <1>11, <1>12, <1>13, <1>14, <1>15, StepKeeps

LEMMA SteerNowKeeps ==
  ASSUME StoreInv, NEW t \in Threads, SteerNow(t)
  PROVE  StoreInv'
<1> DEFINE i == Len(sent')
           running == store.run[t] # NoRun
           q == push(store, t, i)
           g == [q.steering EXCEPT ![t] = running]
           p == [q EXCEPT !.steering[t] = running]
           x == [thread |-> t, epoch |-> store.epoch[t], input |-> i, run |-> store.run[t],
                 at |-> "cancelling"]
<1>1. /\ input(t) /\ t \in store.live /\ occupied(store, sdk, t)
      /\ store' = p
      /\ steers' = IF ~running THEN steers ELSE steers \cup {x}
      /\ UNCHANGED <<sdk, stops, gone, runs, fates, asides, upsets, overtaken>>
  BY DEF SteerNow
<1>2. /\ i \in Inputs /\ i \in DOMAIN sent' /\ sent'[i] = t
      /\ i \notin held(store) /\ sent' \in Seq(Threads)
      /\ \A s, k, S : Mid(s, k, S, sent, gone) => Mid(s, k, S, sent', gone)
      /\ RunsInv(runs, sent')
      /\ ApartInv(held(store) \cup {i}, runs, withdrawn, returned, sent')
      /\ overtaken \/ LossInv(held(store) \cup {i}, runs, withdrawn, returned, sent', gone)
  BY <1>1, InputFacts
<1>3. /\ Mid(store, sdk, steers, sent, gone) /\ store \in Store
      /\ sdk \in [Threads -> Shown(Len(runs))]
      /\ \A u \in Threads : store.run[u] <= Len(runs)
      /\ RestOK /\ Len(runs) \in Nat
      /\ \A u \in Threads \ store.live : sdk[u] = still
      /\ upsets = 0 => DrainInv(store, sdk, steers)
      /\ overtaken \/ Late(store, sdk, steers, gone, runs)
  BY InvFacts
<1>4. Pushed(store, q, t, i, sdk, steers, sent', gone)
  <2> DEFINE owner == sent'
  <2>1. Mid(store, sdk, steers, owner, gone) /\ i \in DOMAIN owner /\ owner[i] = t
    BY <1>2, <1>3
  <2> HIDE DEF owner, i
  <2>2. Pushed(store, q, t, i, sdk, steers, owner, gone)
    BY <2>1, <1>1, <1>2, PushKeeps
  <2> QED BY <2>2 DEF owner
<1> HIDE DEF q, i
<1>5. /\ Mid(q, sdk, steers, sent', gone) /\ held(q) = held(store) \cup {i}
      /\ q.live = store.live /\ q.epoch = store.epoch /\ q.run = store.run
      /\ q.hydration = store.hydration
      /\ Late(store, sdk, steers, gone, runs) => Late(q, sdk, steers, gone, runs)
      /\ DrainInv(store, sdk, steers) =>
           \A u \in Threads \ {t} :
             drainable(q, sdk, u) =>
               engaged(q, sdk, u) \/ steered(q, steers, u) \/ (u \in ToSet(q.pending) /\ full(q))
  BY <1>4 DEF Pushed
<1>6. q \in Store /\ IsInjective(q.pending)
  BY <1>5 DEF Mid, StoreOK
<1>7. /\ p = [q EXCEPT !.steering = g]
      /\ g \in [Threads -> BOOLEAN] /\ g[t] = running
      /\ \A u \in Threads \ {t} : g[u] = q.steering[u]
  BY <1>6, StoreFields DEF Store
<1> HIDE DEF p, g
<1>8. /\ p \in Store /\ p.steering = g
      /\ p.live = q.live /\ p.epoch = q.epoch /\ p.queued = q.queued /\ p.run = q.run
      /\ p.hydration = q.hydration /\ p.active = q.active /\ p.pending = q.pending
      /\ p.inflight = q.inflight
  BY <1>6, <1>7 DEF Store
<1>9. /\ x.thread = t /\ x.epoch = store.epoch[t] /\ x.at = "cancelling" /\ x.run = store.run[t]
      /\ running => x \in [thread : Threads, epoch : Nat, input : Inputs, run : Run,
                         at : {"cancelling", "stopping"}]
  <2>1. running => store.run[t] \in Run
    BY <1>3, StoreFields DEF Run, NoRun
  <2>2. store.epoch[t] \in Nat
    BY <1>3, StoreFields
  <2> QED BY <2>1, <2>2, <1>2
<1> HIDE DEF x
<1>10. /\ steers \subseteq steers'
       /\ running => x \in steers'
       /\ \A y \in steers' : y \in steers \/ (running /\ y = x)
  BY <1>1
<1>11. Mid(p, sdk, steers', sent', gone)
  <2>1. EntryInv(p, sdk)
    <3>1. \A u \in Threads :
            p.queued[u] # <<>> \/ p.run[u] # NoRun \/ p.steering[u] \/ u \in p.active => u \in p.live
      BY <1>1, <1>5, <1>7, <1>8 DEF Mid, GoodInv, EntryInv
    <3> QED BY <3>1, <1>5, <1>8 DEF Mid, GoodInv, EntryInv, engaged, onItsWay
  <2>2. SteeringInv(p, steers')
    <3> SUFFICES ASSUME NEW u \in Threads, p.steering[u] PROVE steered(p, steers', u)
      BY DEF SteeringInv
    <3>1. CASE u = t
      <4>1. running
        BY <3>1, <1>7, <1>8
      <4>2. x \in steers' /\ x.thread = u /\ x.epoch = p.epoch[u]
        BY <3>1, <4>1, <1>5, <1>8, <1>9, <1>10
      <4> QED BY <4>2 DEF steered
    <3>2. CASE u # t
      <4>1. q.steering[u]
        BY <3>2, <1>7, <1>8
      <4>2. PICK y \in steers : y.thread = u /\ y.epoch = q.epoch[u]
        BY <4>1, <1>5 DEF Mid, GoodInv, SteeringInv, steered
      <4>3. y \in steers' /\ y.epoch = p.epoch[u]
        BY <4>2, <1>8, <1>10
      <4> QED BY <4>2, <4>3 DEF steered
    <3> QED BY <3>1, <3>2
  <2>3. EpochInv(p, steers')
    <3> SUFFICES ASSUME NEW y \in steers' PROVE y.epoch <= p.epoch[y.thread]
      BY DEF EpochInv
    <3>1. CASE y \in steers
      BY <3>1, <1>5, <1>8 DEF Mid, GoodInv, EpochInv
    <3>2. CASE y = x
      <4>1. store.epoch[t] \in Nat
        BY <1>3, StoreFields
      <4> QED BY <3>2, <4>1, <1>5, <1>8, <1>9
    <3> QED BY <3>1, <3>2, <1>10
  <2>4. HeldInv(p, sent')
    BY <1>5, <1>8 DEF Mid, GoodInv, HeldInv, lined
  <2> QED BY <2>1, <2>2, <2>3, <2>4, <1>5, <1>6, <1>8 DEF Mid, GoodInv, StoreOK
<1>12. held(p) = held(store) \cup {i} /\ p.run = store.run
  BY <1>5, <1>8 DEF held, lined, flown
<1>13. ASSUME Late(q, sdk, steers, gone, runs) PROVE Late(p, sdk, steers', gone, runs)
  <2>1. TurnInv(p, gone) /\ ShownInv(p, sdk, gone, runs)
    BY <1>8, <1>13 DEF Late, TurnInv, ShownInv
  <2>2. HaltInv(p, sdk, steers', runs)
    BY <1>5, <1>8, <1>9, <1>10, <1>13 DEF Late, HaltInv
  <2>3. ASSUME NEW r \in DOMAIN runs, runs[r].answer = "due", runs[r].thread \notin gone
        PROVE  awaited(p, steers', runs, r)
    <3>1. awaited(q, steers, runs, r)
      BY <2>3, <1>13 DEF Late, AwaitedInv
    <3>2. \A y \in steers' : y.thread = runs[r].thread => y.run < r
      BY <3>1, <1>5, <1>9, <1>10 DEF awaited
    <3> QED BY <3>1, <3>2, <1>8 DEF awaited
  <2>4. AwaitedInv(p, steers', gone, runs)
    BY <2>3 DEF AwaitedInv
  <2> QED BY <2>1, <2>2, <2>4 DEF Late
<1>14. ASSUME DrainInv(store, sdk, steers) PROVE DrainInv(p, sdk, steers')
  <2> SUFFICES ASSUME NEW u \in Threads, drainable(p, sdk, u)
               PROVE  engaged(p, sdk, u) \/ steered(p, steers', u) \/ (u \in ToSet(p.pending) /\ full(p))
    BY DEF DrainInv
  <2>1. u # t
    BY <1>1, <1>5, <1>8 DEF drainable, occupied
  <2>2. drainable(q, sdk, u)
    BY <2>1, <1>7, <1>8 DEF drainable, occupied
  <2>3. engaged(q, sdk, u) \/ steered(q, steers, u) \/ (u \in ToSet(q.pending) /\ full(q))
    BY <2>1, <2>2, <1>5, <1>14
  <2>4. steered(q, steers, u) => steered(p, steers', u)
    <3> HAVE steered(q, steers, u)
    <3>1. PICK y \in steers : y.thread = u /\ y.epoch = q.epoch[u]
      BY DEF steered
    <3>2. y \in steers' /\ y.epoch = p.epoch[u]
      BY <3>1, <1>8, <1>10
    <3> QED BY <3>1, <3>2 DEF steered
  <2> QED BY <2>3, <2>4, <1>8 DEF engaged, onItsWay, full
<1>15. RestOK'
  BY <1>1, <1>2, <1>3, <1>9, <1>10 DEF RestOK, Run, fates
<1>16. becomes(p, sdk)
  <2>1. sdk' \in [Threads -> Shown(Len(runs'))] /\ \A u \in Threads : u \notin store'.live => sdk'[u] = still
    BY <1>1, <1>3, <1>5, <1>8
  <2>2. becomes(store', sdk')
    BY <2>1, Becomes
  <2> QED BY <2>2, <1>1
<1>17. /\ gone' = gone /\ runs' = runs /\ withdrawn' = withdrawn
       /\ returned' = returned /\ upsets' = upsets /\ overtaken' = overtaken
  BY <1>1 DEF fates
<1> QED BY <1>2, <1>3, <1>5, <1>11, <1>12, <1>13, <1>14, <1>15, <1>16, <1>17, StepKeeps

LEMMA SteerInterruptedKeeps ==
  ASSUME StoreInv, NEW t \in Threads, SteerInterrupted(t)
  PROVE  StoreInv'
<1> DEFINE i == Len(sent')
           p == push(store, t, i)
<1>1. /\ input(t) /\ t \in store.live /\ occupied(store, sdk, t)
      /\ store' = p
      /\ UNCHANGED <<sdk, calls, gone, runs, fates, asides, upsets, overtaken>>
  BY DEF SteerInterrupted
<1>2. /\ i \in Inputs /\ i \in DOMAIN sent' /\ sent'[i] = t
      /\ i \notin held(store) /\ sent' \in Seq(Threads)
      /\ \A s, k, S : Mid(s, k, S, sent, gone) => Mid(s, k, S, sent', gone)
      /\ RunsInv(runs, sent')
      /\ ApartInv(held(store) \cup {i}, runs, withdrawn, returned, sent')
      /\ overtaken \/ LossInv(held(store) \cup {i}, runs, withdrawn, returned, sent', gone)
  BY <1>1, InputFacts
<1>3. /\ Mid(store, sdk, steers, sent, gone) /\ store \in Store
      /\ sdk \in [Threads -> Shown(Len(runs))]
      /\ \A u \in Threads : store.run[u] <= Len(runs)
      /\ RestOK /\ Len(runs) \in Nat
      /\ \A u \in Threads \ store.live : sdk[u] = still
      /\ upsets = 0 => DrainInv(store, sdk, steers)
      /\ overtaken \/ Late(store, sdk, steers, gone, runs)
  BY InvFacts
<1>4. Pushed(store, p, t, i, sdk, steers, sent', gone)
  <2> DEFINE owner == sent'
  <2>1. Mid(store, sdk, steers, owner, gone) /\ i \in DOMAIN owner /\ owner[i] = t
    BY <1>2, <1>3
  <2> HIDE DEF owner, i
  <2>2. Pushed(store, p, t, i, sdk, steers, owner, gone)
    BY <2>1, <1>1, <1>2, PushKeeps
  <2> QED BY <2>2 DEF owner
<1> HIDE DEF p, i
<1>5. /\ Mid(p, sdk, steers, sent', gone) /\ held(p) = held(store) \cup {i}
      /\ p.live = store.live /\ p.run = store.run /\ p.hydration = store.hydration
      /\ Late(store, sdk, steers, gone, runs) => Late(p, sdk, steers, gone, runs)
      /\ DrainInv(store, sdk, steers) =>
           \A u \in Threads \ {t} :
             drainable(p, sdk, u) =>
               engaged(p, sdk, u) \/ steered(p, steers, u) \/ (u \in ToSet(p.pending) /\ full(p))
  BY <1>4 DEF Pushed
<1>6. ~drainable(p, sdk, t)
  BY <1>1, <1>5 DEF drainable, occupied
<1>7. DrainInv(store, sdk, steers) => DrainInv(p, sdk, steers)
  BY <1>5, <1>6 DEF DrainInv
<1>8. RestOK'
  BY <1>1, <1>2, <1>3 DEF RestOK, Run, calls, fates
<1>9. becomes(p, sdk)
  <2>1. sdk' \in [Threads -> Shown(Len(runs'))] /\ \A u \in Threads : u \notin store'.live => sdk'[u] = still
    BY <1>1, <1>3, <1>5
  <2>2. becomes(store', sdk')
    BY <2>1, Becomes
  <2> QED BY <2>2, <1>1
<1>10. /\ steers' = steers /\ gone' = gone /\ runs' = runs /\ withdrawn' = withdrawn
       /\ returned' = returned /\ upsets' = upsets /\ overtaken' = overtaken
  BY <1>1 DEF calls, fates
<1> QED BY <1>2, <1>3, <1>5, <1>7, <1>8, <1>9, <1>10, StepKeeps

LEMMA CancelQueuedKeeps ==
  ASSUME StoreInv, NEW t \in Threads, NEW n \in DOMAIN store.queued[t], cancelQueued(t, n)
  PROVE  StoreInv'
<1> DEFINE i == store.queued[t][n]
           q == [store.queued EXCEPT ![t] = RemoveAt(store.queued[t], n)]
           p == [store EXCEPT !.queued[t] = RemoveAt(store.queued[t], n)]
<1>1. /\ store' = p /\ withdrawn' = withdrawn \cup {i}
      /\ UNCHANGED <<sdk, calls, gone, runs, returned, counts, overtaken>>
  BY DEF cancelQueued
<1>2. /\ Mid(store, sdk, steers, sent, gone) /\ store \in Store /\ IsInjective(store.pending)
      /\ sdk \in [Threads -> Shown(Len(runs))]
      /\ \A u \in Threads : store.run[u] <= Len(runs)
      /\ RestOK
      /\ \A u \in Threads \ store.live : sdk[u] = still
      /\ held(store) \subseteq DOMAIN sent
      /\ RunsInv(runs, sent) /\ ApartInv(held(store), runs, withdrawn, returned, sent)
      /\ upsets = 0 => DrainInv(store, sdk, steers)
      /\ overtaken \/ (/\ LossInv(held(store), runs, withdrawn, returned, sent, gone)
                       /\ Late(store, sdk, steers, gone, runs))
  BY InvFacts DEF StoreOK
<1>3. store.queued[t] \in Seq(Inputs) /\ IsInjective(store.queued[t])
  BY <1>2, StoreFields DEF Mid, GoodInv, HeldInv
<1>4. n \in 1 .. Len(store.queued[t])
  BY <1>3
<1> DEFINE a == RemoveAt(store.queued[t], n)
<1>5. /\ a \in Seq(Inputs) /\ IsInjective(a)
      /\ i \in ToSet(store.queued[t])
      /\ ToSet(a) = ToSet(store.queued[t]) \ {i}
      /\ a # <<>> => store.queued[t] # <<>>
  <2>1. /\ a \in Seq(Inputs) /\ IsInjective(a)
        /\ i \in ToSet(store.queued[t]) /\ ToSet(a) = ToSet(store.queued[t]) \ {i}
    BY <1>3, <1>4, RemovedSeq
  <2>2. store.queued[t] # <<>>
    BY <2>1, <1>3, SetOfSeq
  <2> QED BY <2>1, <2>2
<1>6. /\ q \in [Threads -> Seq(Inputs)] /\ q[t] = a
      /\ \A u \in Threads \ {t} : q[u] = store.queued[u]
      /\ p = [store EXCEPT !.queued = q]
  <2>1. store.queued \in [Threads -> Seq(Inputs)]
    BY <1>2, StoreFields
  <2>2. p = [store EXCEPT !.queued = q]
    BY <1>2 DEF Store
  <2> HIDE DEF a, p
  <2> QED BY <2>1, <2>2, <1>5 DEF a
<1> HIDE DEF a, q, p
<1>7. /\ p \in Store /\ p.queued = q
      /\ p.live = store.live /\ p.epoch = store.epoch /\ p.run = store.run
      /\ p.steering = store.steering /\ p.hydration = store.hydration
      /\ p.active = store.active /\ p.pending = store.pending /\ p.inflight = store.inflight
  BY <1>2, <1>6 DEF Store
<1> HIDE DEF i
<1>8. /\ lined(p) = lined(store) \ {i} /\ i \in lined(store)
      /\ held(p) = held(store) \ {i} /\ i \in held(store)
  <2>1. \A u \in Threads : \A j \in ToSet(store.queued[u]) : j \in DOMAIN sent /\ sent[j] = u
    BY <1>2 DEF Mid, GoodInv, HeldInv
  <2>2. \A j : j \in lined(store) <=> \E u \in Threads : j \in ToSet(store.queued[u])
    BY LinedFacts
  <2>3. \A j : j \in lined(p) <=> \E u \in Threads : j \in ToSet(q[u])
    BY <1>7, LinedFacts
  <2>4. ASSUME NEW j \in lined(p) PROVE j \in lined(store) \ {i}
    <3>1. PICK u \in Threads : j \in ToSet(q[u])
      BY <2>3, <2>4
    <3>2. CASE u = t
      BY <3>1, <3>2, <2>2, <1>5, <1>6
    <3>3. CASE u # t
      <4>1. j \in ToSet(store.queued[u])
        BY <3>1, <3>3, <1>6
      <4>2. sent[j] = u /\ sent[i] = t
        BY <4>1, <2>1, <1>5
      <4> QED BY <3>3, <4>1, <4>2, <2>2
    <3> QED BY <3>2, <3>3
  <2>5. ASSUME NEW j \in lined(store) \ {i} PROVE j \in lined(p)
    <3>1. PICK u \in Threads : j \in ToSet(store.queued[u])
      BY <2>2, <2>5
    <3>2. j \in ToSet(q[u])
      BY <3>1, <2>5, <1>5, <1>6
    <3> QED BY <3>1, <3>2, <2>3
  <2>6. lined(p) = lined(store) \ {i} /\ i \in lined(store)
    BY <2>2, <2>4, <2>5, <1>5
  <2>7. flown(p) = flown(store) /\ i \notin flown(store)
    BY <2>6, <1>2, <1>7 DEF flown, Mid, GoodInv, HeldInv
  <2> QED BY <2>6, <2>7 DEF held
<1>9. Mid(p, sdk, steers, sent, gone)
  <2>1. \A u \in Threads : /\ IsInjective(q[u]) /\ \A j \in ToSet(q[u]) : j \in ToSet(store.queued[u])
                           /\ q[u] # <<>> => store.queued[u] # <<>>
    BY <1>2, <1>5, <1>6 DEF Mid, GoodInv, HeldInv
  <2>2. HeldInv(p, sent)
    BY <2>1, <1>2, <1>7, <1>8 DEF Mid, GoodInv, HeldInv
  <2>3. EntryInv(p, sdk)
    <3>1. \A u \in Threads :
            p.queued[u] # <<>> \/ p.run[u] # NoRun \/ p.steering[u] \/ u \in p.active => u \in p.live
      BY <2>1, <1>2, <1>7 DEF Mid, GoodInv, EntryInv
    <3> QED BY <3>1, <1>2, <1>7 DEF Mid, GoodInv, EntryInv, engaged, onItsWay
  <2>4. SteeringInv(p, steers) /\ EpochInv(p, steers)
    BY <1>2, <1>7 DEF Mid, GoodInv, SteeringInv, EpochInv, steered
  <2> QED BY <2>2, <2>3, <2>4, <1>2, <1>7 DEF Mid, GoodInv, StoreOK
<1>10. ApartInv(held(p), runs, withdrawn \cup {i}, returned, sent)
  <2>1. i \notin deliveredBy(runs) /\ i \notin returned /\ i \in DOMAIN sent
    BY <1>2, <1>8 DEF ApartInv
  <2> QED BY <2>1, <1>2, <1>8 DEF ApartInv
<1>11. overtaken \/ LossInv(held(p), runs, withdrawn \cup {i}, returned, sent, gone)
  BY <1>2, <1>8 DEF LossInv
<1>12. overtaken \/ Late(p, sdk, steers, gone, runs)
  <2> SUFFICES ASSUME Late(store, sdk, steers, gone, runs) PROVE Late(p, sdk, steers, gone, runs)
    BY <1>2
  <2>1. AwaitedInv(p, steers, gone, runs)
    BY <1>7, AwaitedKeeps DEF Late
  <2> QED BY <2>1, <1>7 DEF Late, TurnInv, ShownInv, HaltInv
<1>13. ASSUME DrainInv(store, sdk, steers) PROVE DrainInv(p, sdk, steers)
  <2>1. \A u \in Threads : drainable(p, sdk, u) => drainable(store, sdk, u)
    BY <1>5, <1>6, <1>7 DEF drainable, occupied
  <2> QED BY <2>1, <1>7, <1>13 DEF DrainInv, engaged, onItsWay, steered, full
<1>14. RestOK'
  <2>1. i \in Inputs
    BY <1>3, <1>5, SetOfSeq
  <2> QED BY <2>1, <1>1, <1>2 DEF RestOK, Run, calls, counts
<1>15. becomes(p, sdk)
  <2>1. sdk' \in [Threads -> Shown(Len(runs'))] /\ \A u \in Threads : u \notin store'.live => sdk'[u] = still
    BY <1>1, <1>2, <1>7
  <2>2. becomes(store', sdk')
    BY <2>1, Becomes
  <2> QED BY <2>2, <1>1
<1>16. /\ steers' = steers /\ gone' = gone /\ runs' = runs /\ sent' = sent
       /\ withdrawn' = withdrawn \cup {i}
       /\ returned' = returned /\ upsets' = upsets /\ overtaken' = overtaken
  BY <1>1 DEF calls, counts
<1> QED BY <1>2, <1>7, <1>9, <1>10, <1>11, <1>12, <1>13, <1>14, <1>15, <1>16, StepKeeps

LEMMA StopKeeps ==
  ASSUME StoreInv, NEW t \in Threads, Stop(t)
  PROVE  StoreInv'
<1>1. /\ stops' = stops \cup {[thread |-> t, epoch |-> store.epoch[t], run |-> store.run[t]]}
      /\ asides' = asides + 1
      /\ UNCHANGED <<store, sdk, steers, gone, runs, fates, sent, upsets, overtaken>>
  BY DEF Stop, aside
<1>2. RestOK /\ store \in Store /\ store.run[t] <= Len(runs) /\ Len(runs) \in Nat
  BY InvFacts
<1>3. store.run[t] \in 0 .. Len(runs) /\ store.epoch[t] \in Nat
  BY <1>2, StoreFields
<1>4. RestOK'
  BY <1>1, <1>2, <1>3 DEF RestOK, Run, fates
<1>5. StoreTypeOK'
  BY <1>1, <1>4 DEF StoreInv, StoreTypeOK, RestOK, Runs
<1> QED BY <1>1, <1>5 DEF StoreInv, FateInv, LateInv, fates

LEMMA StopFailsKeeps ==
  ASSUME StoreInv, NEW x \in stops, StopFails(x)
  PROVE  StoreInv'
<1>1. /\ stops' = stops \ {x} /\ upsets' = upsets + 1
      /\ UNCHANGED <<store, sdk, steers, gone, runs, fates, sent, asides, overtaken>>
  BY DEF StopFails, upset
<1>2. StoreTypeOK' /\ upsets' # 0
  BY <1>1 DEF StoreInv, StoreTypeOK, Run, fates
<1> QED BY <1>1, <1>2 DEF StoreInv, FateInv, LateInv, fates

LEMMA RunEndsKeeps ==
  ASSUME StoreInv, NEW r \in Run, RunEnds(r)
  PROVE  StoreInv'
<1> DEFINE R == [runs EXCEPT ![r].ended = TRUE]
<1>1. runs' = R /\ UNCHANGED <<store, sdk, calls, gone, fates, counts, overtaken>>
  BY DEF RunEnds
<1>2. /\ Mid(store, sdk, steers, sent, gone)
      /\ sdk \in [Threads -> Shown(Len(runs))]
      /\ \A u \in Threads : store.run[u] <= Len(runs)
      /\ RestOK /\ DOMAIN runs = Run
      /\ \A u \in Threads \ store.live : sdk[u] = still
      /\ RunsInv(runs, sent) /\ ApartInv(held(store), runs, withdrawn, returned, sent)
      /\ upsets = 0 => DrainInv(store, sdk, steers)
      /\ overtaken \/ (/\ LossInv(held(store), runs, withdrawn, returned, sent, gone)
                       /\ Late(store, sdk, steers, gone, runs))
  BY InvFacts
<1>3. /\ R \in Runs /\ Len(R) = Len(runs) /\ DOMAIN R = DOMAIN runs
      /\ \A q \in DOMAIN runs : /\ R[q].thread = runs[q].thread /\ R[q].input = runs[q].input
                                /\ R[q].answer = runs[q].answer
                                /\ ~R[q].ended => ~runs[q].ended
  <2> DEFINE T == ServerRun
             a == [runs[r] EXCEPT !.ended = TRUE]
  <2>1. runs \in Seq(T) /\ r \in DOMAIN runs
    BY <1>2 DEF RestOK, Runs
  <2>2. runs[r] \in T
    <3> HIDE DEF T
    <3> QED BY <2>1
  <2>3. /\ a \in T /\ a.thread = runs[r].thread /\ a.input = runs[r].input
        /\ a.answer = runs[r].answer /\ a.ended
    BY <2>2 DEF ServerRun
  <2>4. R = [runs EXCEPT ![r] = a]
    OBVIOUS
  <2> HIDE DEF T, a, R
  <2>5. /\ R \in Seq(T) /\ Len(R) = Len(runs) /\ DOMAIN R = DOMAIN runs
        /\ R[r] = a /\ \A q \in DOMAIN runs : q # r => R[q] = runs[q]
    BY <2>1, <2>3, <2>4
  <2> QED BY <2>3, <2>5 DEF T, Runs
<1> HIDE DEF R
<1>4. deliveredBy(R) = deliveredBy(runs)
  BY <1>3 DEF deliveredBy
<1>5. RunsInv(R, sent)
  BY <1>2, <1>3 DEF RunsInv
<1>6. ApartInv(held(store), R, withdrawn, returned, sent)
  BY <1>2, <1>4 DEF ApartInv
<1>7. ASSUME LossInv(held(store), runs, withdrawn, returned, sent, gone)
      PROVE  LossInv(held(store), R, withdrawn, returned, sent, gone)
  BY <1>4, <1>7 DEF LossInv
<1>8. \A u \in Threads : sdk[u].run # NoRun => sdk[u].run \in DOMAIN runs
  BY <1>2 DEF Shown, Run, NoRun, RestOK, Runs
<1>9. ASSUME Late(store, sdk, steers, gone, runs) PROVE Late(store, sdk, steers, gone, R)
  <2>1. \A u \in Threads : ours(R, sdk[u].run) => ours(runs, sdk[u].run)
    BY <1>3, <1>8 DEF ours
  <2>2. store.live \in SUBSET Threads
    BY <1>2, StoreFields DEF Mid, StoreOK
  <2>3. ShownInv(store, sdk, gone, R)
    <3>1. \A q \in DOMAIN R : R[q].answer = "given" /\ ~R[q].ended =>
            R[q].thread \in gone \/ (R[q].thread \in store.live /\ sdk[R[q].thread].run = q)
      BY <1>3, <1>9 DEF Late, ShownInv
    <3>2. \A u \in store.live : ours(R, sdk[u].run) =>
            store.run[u] = sdk[u].run /\ (sdk[u].loading => u \in store.active)
      BY <2>1, <2>2, <1>9 DEF Late, ShownInv
    <3>3. \A u \in store.live : sdk[u].run # NoRun => R[sdk[u].run].thread = u
      BY <2>2, <1>3, <1>8, <1>9 DEF Late, ShownInv
    <3> QED BY <3>1, <3>2, <3>3 DEF ShownInv
  <2>4. HaltInv(store, sdk, steers, R)
    BY <2>1, <2>2, <1>9 DEF Late, HaltInv
  <2>5. AwaitedInv(store, steers, gone, R)
    <3>1. \A q \in DOMAIN runs : awaited(store, steers, runs, q) => awaited(store, steers, R, q)
      BY <1>3 DEF awaited
    <3> QED BY <3>1, <1>3, <1>9 DEF Late, AwaitedInv
  <2> QED BY <2>3, <2>4, <2>5, <1>9 DEF Late
<1>10. RestOK'
  BY <1>1, <1>2, <1>3 DEF RestOK, Run, calls, fates, counts
<1>11. becomes(store, sdk)
  <2>1. sdk' \in [Threads -> Shown(Len(runs'))] /\ \A u \in Threads : u \notin store'.live => sdk'[u] = still
    BY <1>1, <1>2, <1>3
  <2>2. becomes(store', sdk')
    BY <2>1, Becomes
  <2> QED BY <2>2, <1>1
<1>12. /\ steers' = steers /\ gone' = gone /\ sent' = sent /\ withdrawn' = withdrawn
       /\ returned' = returned /\ upsets' = upsets /\ overtaken' = overtaken /\ runs' = R
  BY <1>1 DEF calls, counts, fates
<1>13. sdk \in [Threads -> Shown(Len(R))] /\ \A u \in Threads : store.run[u] <= Len(R)
  BY <1>2, <1>3
<1> QED BY <1>2, <1>5, <1>6, <1>7, <1>9, <1>10, <1>11, <1>12, <1>13, StepKeeps

(* A run appears that the thread t shows, with its input i.                 *)
LEMMA DecideKeeps ==
  ASSUME StoreInv, NEW t \in Threads, Decide(t)
  PROVE  StoreInv'
<1> DEFINE R == created(t, NoInput)
           n == Len(R)
           a == [run |-> n, loading |-> TRUE, interrupt |-> FALSE]
           k == [sdk EXCEPT ![t] = a]
<1>1. /\ runs' = R /\ sdk' = k /\ asides' = asides + 1 /\ sdk[t].interrupt
      /\ UNCHANGED <<store, calls, gone, fates, sent, upsets, overtaken>>
  BY DEF Decide, aside
<1>2. /\ Mid(store, sdk, steers, sent, gone) /\ store \in Store
      /\ sdk \in [Threads -> Shown(Len(runs))]
      /\ \A u \in Threads : sdk[u].run \in 0 .. Len(runs) /\ store.run[u] <= Len(runs)
      /\ RestOK /\ DOMAIN runs = Run /\ Len(runs) \in Nat
      /\ \A u \in Threads \ store.live : sdk[u] = still
      /\ RunsInv(runs, sent) /\ ApartInv(held(store), runs, withdrawn, returned, sent)
      /\ upsets = 0 => DrainInv(store, sdk, steers)
      /\ overtaken \/ (/\ LossInv(held(store), runs, withdrawn, returned, sent, gone)
                       /\ Late(store, sdk, steers, gone, runs))
  BY InvFacts
<1>3. NoInput \in 0 .. MaxInputs /\ runs \in Runs
  BY <1>2, BoundsAssumption DEF NoInput, RestOK
<1>3a. Created(R, t, NoInput)
  BY <1>3, CreatedFacts
<1>4. /\ R \in Runs /\ n = Len(runs) + 1 /\ n \in Nat /\ n # 0
      /\ DOMAIN R = DOMAIN runs \cup {n} /\ n \notin DOMAIN runs
      /\ R[n].thread = t /\ R[n].input = NoInput /\ ~R[n].ended /\ R[n].answer = "none"
      /\ \A r \in DOMAIN runs : /\ R[r].thread = runs[r].thread /\ R[r].input = runs[r].input
                                /\ R[r].answer = runs[r].answer
                                /\ ~R[r].ended => ~runs[r].ended /\ runs[r].thread # t
      /\ deliveredBy(R) = deliveredBy(runs)
  BY <1>3a DEF Created
<1> HIDE DEF R, n
<1>5. deliveredBy(R) = deliveredBy(runs)
  BY <1>4
<1>6. t \in store.live /\ store.live \in SUBSET Threads
  BY <1>1, <1>2, StoreFields DEF still
<1>7. /\ k[t] = a /\ a.run = n /\ a.loading /\ ~a.interrupt
      /\ \A u \in Threads \ {t} : k[u] = sdk[u]
  BY <1>2
<1>8. k \in [Threads -> Shown(n)]
  <2>1. a \in Shown(n)
    BY <1>4 DEF Shown
  <2>2. \A u \in Threads : sdk[u] \in Shown(n)
    BY <1>2, <1>4 DEF Shown
  <2> HIDE DEF a
  <2> QED BY <2>1, <2>2, <1>2
<1> HIDE DEF k, a
<1>9. RunsInv(R, sent)
  <2>1. \A r \in DOMAIN runs : runs[r].answer # "none" => runs[r].input # NoInput
    BY <1>2 DEF RunsInv, RestOK, NoInput
  <2>2. \A r \in DOMAIN R : R[r].answer # "none" =>
          /\ R[r].input \in DOMAIN sent /\ sent[R[r].input] = R[r].thread
          /\ \A q \in DOMAIN R : R[q].input = R[r].input => q <= r
    BY <2>1, <1>2, <1>4 DEF RunsInv
  <2>3. \A r, q \in DOMAIN R : R[r].thread = R[q].thread /\ r < q => R[r].ended
    BY <1>2, <1>4 DEF RunsInv, Run
  <2> QED BY <2>2, <2>3 DEF RunsInv
<1>10. ApartInv(held(store), R, withdrawn, returned, sent)
  BY <1>2, <1>5 DEF ApartInv
<1>11. LossInv(held(store), runs, withdrawn, returned, sent, gone)
       => LossInv(held(store), R, withdrawn, returned, sent, gone)
  BY <1>5 DEF LossInv
<1>12. k[t].run # NoRun
  BY <1>4, <1>7 DEF NoRun
<1>13. Mid(store, k, steers, sent, gone)
  <2>1. \A u \in store.live : store.run[u] # NoRun \/ k[u].loading => k[u].run # NoRun
    BY <1>2, <1>6, <1>7, <1>12 DEF Mid, GoodInv, EntryInv
  <2>2. \A u \in store.active : engaged(store, k, u)
    <3>1. store.active \in SUBSET Threads
      BY <1>2, StoreFields
    <3> QED BY <3>1, <1>2, <1>7, <1>12 DEF Mid, GoodInv, EntryInv, engaged
  <2> QED BY <2>1, <2>2, <1>2 DEF Mid, GoodInv, EntryInv
<1>14. ASSUME Late(store, sdk, steers, gone, runs) PROVE Late(store, k, steers, gone, R)
  <2>1. \A u \in Threads \ {t} : ours(R, k[u].run) => ours(runs, sdk[u].run)
    <3> SUFFICES ASSUME NEW u \in Threads \ {t}, ours(R, k[u].run) PROVE ours(runs, sdk[u].run)
      OBVIOUS
    <3>1. k[u].run = sdk[u].run /\ sdk[u].run \in 0 .. Len(runs) /\ sdk[u].run # 0
      BY <1>2, <1>7 DEF ours, NoRun
    <3>2. sdk[u].run \in DOMAIN runs
      BY <3>1, <1>2 DEF Run
    <3> QED BY <3>1, <3>2, <1>4 DEF ours
  <2>2. ~ours(R, k[t].run)
    BY <1>4, <1>7 DEF ours
  <2>3. ShownInv(store, k, gone, R)
    <3>1. ASSUME NEW r \in DOMAIN R, R[r].answer = "given" /\ ~R[r].ended
          PROVE  R[r].thread \in gone \/ (R[r].thread \in store.live /\ k[R[r].thread].run = r)
      <4>1. /\ r \in DOMAIN runs /\ runs[r].answer = "given" /\ ~runs[r].ended
            /\ runs[r].thread # t /\ R[r].thread = runs[r].thread
        BY <3>1, <1>4
      <4>2. \/ runs[r].thread \in gone
            \/ runs[r].thread \in store.live /\ sdk[runs[r].thread].run = r
        BY <4>1, <1>14 DEF Late, ShownInv
      <4> QED BY <4>1, <4>2, <1>6, <1>7
    <3>2. \A u \in store.live : ours(R, k[u].run) =>
            store.run[u] = k[u].run /\ (k[u].loading => u \in store.active)
      BY <2>1, <2>2, <1>6, <1>7, <1>14 DEF Late, ShownInv
    <3>3. ASSUME NEW u \in store.live, k[u].run # NoRun PROVE R[k[u].run].thread = u
      <4>1. CASE u = t
        BY <4>1, <1>4, <1>7
      <4>2. CASE u # t
        <5>1. k[u].run = sdk[u].run /\ sdk[u].run \in DOMAIN runs
          BY <3>3, <4>2, <1>2, <1>6, <1>7 DEF Run, NoRun
        <5> QED BY <3>3, <5>1, <1>4, <1>14 DEF Late, ShownInv
      <4> QED BY <4>1, <4>2
    <3> QED BY <3>1, <3>2, <3>3 DEF ShownInv
  <2>4. HaltInv(store, k, steers, R)
    BY <2>1, <2>2, <1>6, <1>7, <1>14 DEF Late, HaltInv
  <2>5. AwaitedInv(store, steers, gone, R)
    <3>1. \A q \in DOMAIN runs : awaited(store, steers, runs, q) => awaited(store, steers, R, q)
      BY <1>4 DEF awaited
    <3> QED BY <3>1, <1>4, <1>14 DEF Late, AwaitedInv
  <2> QED BY <2>3, <2>4, <2>5, <1>14 DEF Late
<1>15. ASSUME DrainInv(store, sdk, steers) PROVE DrainInv(store, k, steers)
  <2> SUFFICES ASSUME NEW u \in Threads, drainable(store, k, u)
               PROVE  engaged(store, k, u) \/ steered(store, steers, u)
                      \/ (u \in ToSet(store.pending) /\ full(store))
    BY DEF DrainInv
  <2>1. CASE u = t
    BY <2>1, <1>12 DEF engaged
  <2>2. CASE u # t
    <3>1. drainable(store, sdk, u)
      BY <2>2, <1>7 DEF drainable, occupied
    <3> QED BY <2>2, <3>1, <1>7, <1>15 DEF DrainInv, engaged
  <2> QED BY <2>1, <2>2
<1>16. RestOK'
  <2>1. Run \subseteq 1 .. n /\ 0 .. Len(runs) \subseteq 0 .. n
    BY <1>2, <1>4 DEF Run
  <2> QED BY <2>1, <1>1, <1>2, <1>4 DEF RestOK, Run, calls, fates, n
<1>17. becomes(store, k)
  <2>1. sdk' \in [Threads -> Shown(Len(runs'))] /\ \A u \in Threads : u \notin store'.live => sdk'[u] = still
    BY <1>1, <1>2, <1>6, <1>7, <1>8 DEF n
  <2>2. becomes(store', sdk')
    BY <2>1, Becomes
  <2> QED BY <2>2, <1>1
<1>18. \A u \in Threads : store.run[u] <= Len(R)
  <2>1. Len(R) = Len(runs) + 1
    BY <1>4 DEF n
  <2>2. store.run \in [Threads -> Nat]
    BY <1>2, StoreFields
  <2> QED BY <2>1, <2>2, <1>2
<1>19. /\ steers' = steers /\ gone' = gone /\ sent' = sent /\ withdrawn' = withdrawn
       /\ returned' = returned /\ upsets' = upsets /\ overtaken' = overtaken /\ runs' = R
  BY <1>1 DEF calls, fates
<1>20. k \in [Threads -> Shown(Len(R))]
  BY <1>8 DEF n
<1> QED BY <1>2, <1>9, <1>10, <1>11, <1>13, <1>14, <1>15, <1>16, <1>17, <1>18, <1>19, <1>20, StepKeeps

LEMMA AttachKeeps ==
  ASSUME StoreInv, NEW t \in Threads, Attach(t)
  PROVE  StoreInv'
<1> DEFINE e == entry(store, t)
           o == e.observed \cup {t}
           s == [e EXCEPT !.observed = @ \cup {t}]
<1>1. PICK h \in {"loading", "ready"}, ts \in evictedFor(s, sdk, t) :
        becomes([disposeController(s, ts) EXCEPT !.hydration[t] = h], sdk)
  BY DEF Attach
<1> DEFINE d == disposeController(s, ts)
           g == [d.hydration EXCEPT ![t] = h]
           p == [d EXCEPT !.hydration[t] = h]
<1>2. /\ t \notin gone /\ asides' = asides + 1
      /\ UNCHANGED <<calls, gone, runs, fates, sent, upsets, overtaken>>
  BY DEF Attach, aside
<1>3. /\ Mid(store, sdk, steers, sent, gone) /\ store \in Store
      /\ sdk \in [Threads -> Shown(Len(runs))] /\ sdk \in Controllers
      /\ \A u \in Threads : store.run[u] <= Len(runs)
      /\ RestOK /\ DOMAIN runs \subseteq Nat \ {0}
      /\ \A x \in steers : x.thread \in Threads /\ x.epoch \in Nat
      /\ \A u \in Threads \ store.live : sdk[u] = still
      /\ RunsInv(runs, sent) /\ ApartInv(held(store), runs, withdrawn, returned, sent)
      /\ upsets = 0 => DrainInv(store, sdk, steers)
      /\ overtaken \/ (/\ LossInv(held(store), runs, withdrawn, returned, sent, gone)
                       /\ Late(store, sdk, steers, gone, runs))
  BY InvFacts
<1>4. Entered(store, e, t, sdk, steers, sent, gone)
  BY <1>2, <1>3, EntryKeeps
<1>5. ts \in SUBSET idle(s, sdk) /\ t \notin ts
  BY DEF evictions, evictedFor
<1> HIDE DEF e
<1>6. e \in Store /\ Mid(e, sdk, steers, sent, gone)
  BY <1>4 DEF Entered, Mid, StoreOK
<1>7. /\ s \in Store
      /\ s.live = e.live /\ s.epoch = e.epoch /\ s.queued = e.queued /\ s.run = e.run
      /\ s.steering = e.steering /\ s.hydration = e.hydration /\ s.active = e.active
      /\ s.pending = e.pending /\ s.inflight = e.inflight
  <2>1. o \in SUBSET Threads
    BY <1>6, StoreFields
  <2>2. s = [e EXCEPT !.observed = o]
    BY <1>6 DEF Store
  <2> HIDE DEF s, o
  <2> QED BY <2>1, <2>2, <1>6 DEF Store
<1> HIDE DEF s
<1>8. Touched(e, s, sdk, steers, sent, gone)
  BY <1>6, <1>7, TouchKeeps
<1>9. Disposed(s, d, ts, sdk, steers, sent, gone)
  BY <1>5, <1>8, DisposeKeeps DEF Touched
<1> HIDE DEF d
<1>10. d \in Store /\ Mid(d, sdk, steers, sent, gone)
  BY <1>9 DEF Disposed, Mid, StoreOK
<1>11. /\ p \in Store /\ p.hydration = g
       /\ p.live = d.live /\ p.epoch = d.epoch /\ p.queued = d.queued /\ p.run = d.run
       /\ p.steering = d.steering /\ p.active = d.active
       /\ p.pending = d.pending /\ p.inflight = d.inflight
  <2>1. g \in [Threads -> {"unattached", "loading", "ready", "error"}]
    BY <1>10, StoreFields
  <2>2. p = [d EXCEPT !.hydration = g]
    BY <1>10 DEF Store
  <2> HIDE DEF p, g
  <2> QED BY <2>1, <2>2, <1>10 DEF Store
<1>12. \A u \in Threads : p.hydration[u] = "error" => d.hydration[u] = "error"
  <2>1. d.hydration \in [Threads -> {"unattached", "loading", "ready", "error"}]
    BY <1>10, StoreFields
  <2> HIDE DEF p
  <2> QED BY <2>1, <1>11
<1> HIDE DEF p, g
<1>13. Touched(d, p, sdk, steers, sent, gone)
  BY <1>10, <1>11, TouchKeeps
<1>14. /\ Mid(p, sdk, steers, sent, gone) /\ held(p) = held(store) /\ p.run = store.run
       /\ Late(store, sdk, steers, gone, runs) => Late(p, sdk, steers, gone, runs)
       /\ DrainInv(store, sdk, steers) => DrainInv(p, sdk, steers)
  BY <1>3, <1>4, <1>7, <1>8, <1>9, <1>11, <1>12, <1>13 DEF Entered, Disposed, Touched
<1>15. RestOK'
  BY <1>2, <1>3 DEF RestOK, Run, calls, fates
<1>16. becomes(p, sdk)
  BY <1>1 DEF p, d, s
<1>17. /\ steers' = steers /\ gone' = gone /\ sent' = sent /\ withdrawn' = withdrawn
       /\ returned' = returned /\ upsets' = upsets /\ overtaken' = overtaken /\ runs' = runs
  BY <1>2 DEF calls, fates
<1> QED BY <1>3, <1>14, <1>15, <1>16, <1>17, StepKeeps

LEMMA DisposeIdle ==
  ASSUME NEW s, NEW k, NEW S, NEW owner, NEW G, NEW t \in Threads, Mid(s, k, S, owner, G)
  PROVE  Disposed(s, disposeIdleController(s, k, t), {t} \cap idle(s, k), k, S, owner, G)
<1> DEFINE ts == {t} \cap idle(s, k)
<1>1. ts \in SUBSET idle(s, k) /\ disposeIdleController(s, k, t) = disposeController(s, ts)
  BY DEF disposeIdleController
<1> HIDE DEF ts
<1>2. Disposed(s, disposeController(s, ts), ts, k, S, owner, G)
  BY <1>1, DisposeKeeps
<1> QED BY <1>1, <1>2 DEF ts

LEMMA LeaveKeeps ==
  ASSUME StoreInv, NEW t \in Threads, Leave(t)
  PROVE  StoreInv'
<1> DEFINE o == store.observed \ {t}
           a == [store EXCEPT !.observed = @ \ {t}]
           s == disposeIdleController(a, sdk, t)
<1>1. PICK ts \in evictions(s, sdk, {}) : becomes(disposeController(s, ts), sdk)
  BY DEF Leave
<1> DEFINE p == disposeController(s, ts)
           ti == {t} \cap idle(a, sdk)
<1>2. UNCHANGED <<calls, gone, runs, fates, counts, overtaken>>
  BY DEF Leave
<1>3. /\ Mid(store, sdk, steers, sent, gone) /\ store \in Store
      /\ sdk \in [Threads -> Shown(Len(runs))]
      /\ \A u \in Threads : store.run[u] <= Len(runs)
      /\ RestOK /\ DOMAIN runs \subseteq Nat \ {0}
      /\ RunsInv(runs, sent) /\ ApartInv(held(store), runs, withdrawn, returned, sent)
      /\ upsets = 0 => DrainInv(store, sdk, steers)
      /\ overtaken \/ (/\ LossInv(held(store), runs, withdrawn, returned, sent, gone)
                       /\ Late(store, sdk, steers, gone, runs))
  BY InvFacts
<1>4. /\ a \in Store
      /\ a.live = store.live /\ a.epoch = store.epoch /\ a.queued = store.queued /\ a.run = store.run
      /\ a.steering = store.steering /\ a.hydration = store.hydration /\ a.active = store.active
      /\ a.pending = store.pending /\ a.inflight = store.inflight
  <2>1. o \in SUBSET Threads
    BY <1>3, StoreFields
  <2>2. a = [store EXCEPT !.observed = o]
    BY <1>3 DEF Store
  <2> HIDE DEF a, o
  <2> QED BY <2>1, <2>2, <1>3 DEF Store
<1> HIDE DEF a
<1>5. Touched(store, a, sdk, steers, sent, gone)
  BY <1>3, <1>4, TouchKeeps
<1>6. Disposed(a, s, ti, sdk, steers, sent, gone)
  BY <1>5, DisposeIdle DEF Touched
<1>7. ts \in SUBSET idle(s, sdk)
  BY DEF evictions
<1> HIDE DEF s, ti
<1>8. Disposed(s, p, ts, sdk, steers, sent, gone)
  BY <1>6, <1>7, DisposeKeeps DEF Disposed
<1> HIDE DEF p
<1>9. /\ Mid(p, sdk, steers, sent, gone) /\ held(p) = held(store) /\ p.run = store.run
      /\ Late(store, sdk, steers, gone, runs) => Late(p, sdk, steers, gone, runs)
      /\ DrainInv(store, sdk, steers) => DrainInv(p, sdk, steers)
  BY <1>3, <1>4, <1>5, <1>6, <1>8 DEF Disposed, Touched
<1>10. RestOK'
  BY <1>2, <1>3 DEF RestOK, Run, calls, fates, counts
<1>11. becomes(p, sdk)
  BY <1>1 DEF p, s, a
<1>12. /\ steers' = steers /\ gone' = gone /\ sent' = sent /\ withdrawn' = withdrawn
       /\ returned' = returned /\ upsets' = upsets /\ overtaken' = overtaken /\ runs' = runs
  BY <1>2 DEF calls, fates, counts
<1> QED BY <1>3, <1>9, <1>10, <1>11, <1>12, StepKeeps

LEMMA DisposeThreadKeeps ==
  ASSUME StoreInv, NEW t \in Threads, disposeThread(t)
  PROVE  StoreInv'
<1> DEFINE d == disposeController(store, {t})
           a == d.active \ {t}
           o == d.observed \ {t}
           s == [d EXCEPT !.active = @ \ {t}, !.observed = @ \ {t}]
           p == pumpRunQueue(s, sdk)
           G == gone \cup {t}
<1>1. /\ gone' = G /\ becomes(p, sdk)
      /\ UNCHANGED <<calls, runs, fates, counts, overtaken>>
  BY DEF disposeThread
<1>2. /\ Mid(store, sdk, steers, sent, gone) /\ store \in Store
      /\ sdk \in [Threads -> Shown(Len(runs))]
      /\ \A u \in Threads : store.run[u] <= Len(runs)
      /\ RestOK /\ Len(runs) \in Nat
      /\ \A r \in DOMAIN runs : runs[r].thread \in Threads
      /\ held(store) \subseteq DOMAIN sent
      /\ RunsInv(runs, sent) /\ ApartInv(held(store), runs, withdrawn, returned, sent)
      /\ upsets = 0 => DrainInv(store, sdk, steers)
      /\ overtaken \/ (/\ LossInv(held(store), runs, withdrawn, returned, sent, gone)
                       /\ Late(store, sdk, steers, gone, runs))
  BY InvFacts
<1>3. /\ d \in Store /\ d.live = store.live \ {t}
      /\ d.queued = [u \in Threads |-> IF u \in {t} THEN <<>> ELSE store.queued[u]]
      /\ d.run = [u \in Threads |-> IF u \in {t} THEN NoRun ELSE store.run[u]]
      /\ d.steering = [u \in Threads |-> store.steering[u] /\ u \notin {t}]
      /\ d.hydration = [u \in Threads |-> IF u \in {t} THEN "unattached" ELSE store.hydration[u]]
      /\ d.epoch = store.epoch /\ d.active = store.active /\ d.pending = store.pending
      /\ d.inflight = store.inflight
  <2>1. {t} \in SUBSET Threads
    OBVIOUS
  <2> QED BY <2>1, <1>2, DisposeFacts
<1> HIDE DEF d
<1>4. /\ s \in Store /\ s.active = a
      /\ s.live = d.live /\ s.epoch = d.epoch /\ s.queued = d.queued /\ s.run = d.run
      /\ s.steering = d.steering /\ s.hydration = d.hydration
      /\ s.pending = d.pending /\ s.inflight = d.inflight
  <2>1. a \in SUBSET Threads /\ o \in SUBSET Threads
    BY <1>3, StoreFields
  <2>2. s = [d EXCEPT !.active = a, !.observed = o]
    BY <1>3 DEF Store
  <2> HIDE DEF s, a, o
  <2> QED BY <2>1, <2>2, <1>3 DEF Store
<1>5. /\ s \in Store /\ s.live = store.live \ {t} /\ s.active = store.active \ {t}
      /\ s.epoch = store.epoch /\ s.pending = store.pending /\ s.inflight = store.inflight
      /\ s.queued[t] = <<>> /\ s.run[t] = NoRun /\ ~s.steering[t]
      /\ \A u \in Threads \ {t} :
           /\ s.queued[u] = store.queued[u] /\ s.run[u] = store.run[u]
           /\ s.steering[u] <=> store.steering[u]
           /\ s.hydration[u] = store.hydration[u]
  <2> HIDE DEF s
  <2>1. /\ s \in Store /\ s.live = store.live \ {t} /\ s.active = store.active \ {t}
        /\ s.epoch = store.epoch /\ s.pending = store.pending /\ s.inflight = store.inflight
    BY <1>3, <1>4
  <2>2. \A u \in Threads : /\ s.queued[u] = IF u = t THEN <<>> ELSE store.queued[u]
                           /\ s.run[u] = IF u = t THEN NoRun ELSE store.run[u]
                           /\ s.hydration[u] = IF u = t THEN "unattached" ELSE store.hydration[u]
    BY <1>3, <1>4
  <2>3. ASSUME NEW u \in Threads PROVE s.steering[u] <=> store.steering[u] /\ u # t
    <3>1. d.steering[u] = (store.steering[u] /\ u \notin {t})
      BY <1>3
    <3>2. s.steering[u] = d.steering[u]
      BY <1>4
    <3> QED BY <3>1, <3>2
  <2> QED BY <2>1, <2>2, <2>3
<1>6. \A u : u \in s.active => u \in store.active /\ u # t
  BY <1>5
<1> HIDE DEF s
<1>7. IsInjective(<<>>) /\ ToSet(<<>>) = {} /\ IsInjective(s.pending)
  <2>1. <<>> \in Seq(Inputs)
    OBVIOUS
  <2>2. ToSet(<<>>) = {}
    BY <2>1, SetOfSeq
  <2>3. IsInjective(<<>>)
    BY DEF IsInjective
  <2> QED BY <2>2, <2>3, <1>2, <1>5 DEF Mid, StoreOK
<1>8. /\ \A j : j \in lined(store) <=> \E u \in Threads : j \in ToSet(store.queued[u])
      /\ \A j : j \in lined(s) <=> \E u \in Threads : j \in ToSet(s.queued[u])
  BY LinedFacts
<1>9. lined(s) \subseteq lined(store) /\ flown(s) = flown(store)
  BY <1>5, <1>7, <1>8 DEF flown
<1>10. \A j \in held(store) : j \in held(s) \/ sent[j] = t
  <2> SUFFICES ASSUME NEW j \in lined(store), j \notin lined(s) PROVE sent[j] = t
    BY <1>9 DEF held
  <2>1. PICK u \in Threads : j \in ToSet(store.queued[u])
    BY <1>8
  <2>2. u = t
    BY <2>1, <1>5, <1>8
  <2> QED BY <2>1, <2>2, <1>2 DEF Mid, GoodInv, HeldInv
<1>11. held(s) \subseteq held(store)
  BY <1>9 DEF held
<1>12. Mid(s, sdk, steers, sent, G)
  <2>1. EntryInv(s, sdk)
    <3>1. IsFiniteSet(s.active)
      BY <1>2, <1>5, FS_Subset DEF Mid, GoodInv, EntryInv
    <3>2. ASSUME NEW u \in Threads,
                 s.queued[u] # <<>> \/ s.run[u] # NoRun \/ s.steering[u] \/ u \in s.active
          PROVE  u \in s.live
      <4>1. u # t
        BY <3>2, <1>5
      <4>2. u \in store.live
        BY <3>2, <4>1, <1>2, <1>5 DEF Mid, GoodInv, EntryInv
      <4> QED BY <4>1, <4>2, <1>5
    <3>3. \A u \in s.live : s.run[u] # NoRun \/ sdk[u].loading => sdk[u].run # NoRun
      <4>1. \A u \in s.live : u \in store.live /\ u # t /\ u \in Threads
        BY <1>2, <1>5, StoreFields
      <4> QED BY <4>1, <1>2, <1>5 DEF Mid, GoodInv, EntryInv
    <3>4. \A u \in s.active : engaged(s, sdk, u)
      BY <1>2, <1>5, <1>6 DEF Mid, GoodInv, EntryInv, engaged, onItsWay
    <3> QED BY <3>1, <3>2, <3>3, <3>4 DEF EntryInv
  <2>2. SteeringInv(s, steers)
    <3> SUFFICES ASSUME NEW u \in Threads, s.steering[u] PROVE steered(s, steers, u)
      BY DEF SteeringInv
    <3>1. u # t /\ store.steering[u]
      BY <1>5
    <3> QED BY <3>1, <1>2, <1>5 DEF Mid, GoodInv, SteeringInv, steered
  <2>3. EpochInv(s, steers)
    BY <1>2, <1>5 DEF Mid, GoodInv, EpochInv
  <2>4. HeldInv(s, sent)
    <3>1. ASSUME NEW u \in Threads
          PROVE  /\ IsInjective(s.queued[u])
                 /\ \A i \in ToSet(s.queued[u]) : i \in DOMAIN sent /\ sent[i] = u
      <4>1. CASE u = t
        BY <4>1, <1>5, <1>7
      <4>2. CASE u # t
        BY <4>2, <1>2, <1>5 DEF Mid, GoodInv, HeldInv
      <4> QED BY <4>1, <4>2
    <3> QED BY <3>1, <1>2, <1>5, <1>9 DEF Mid, GoodInv, HeldInv
  <2> QED BY <2>1, <2>2, <2>3, <2>4, <1>2, <1>5, <1>7 DEF Mid, GoodInv, StoreOK
<1>13. ASSUME Late(store, sdk, steers, gone, runs) PROVE Late(s, sdk, steers, G, runs)
  <2>1. TurnInv(s, G)
    <3>1. /\ Cardinality(s.active) <= Cardinality(store.active)
          /\ Cardinality(s.active) \in Nat /\ Cardinality(store.active) \in Nat
      BY <1>2, <1>5, FS_Subset, FS_CardinalityType DEF Mid, GoodInv, EntryInv
    <3>2. Cardinality(s.active) <= maxParallelRuns
      BY <3>1, <1>13, SlotsAssumption DEF Late, TurnInv
    <3> QED BY <3>2, <1>5, <1>13 DEF Late, TurnInv
  <2>2. ShownInv(s, sdk, G, runs)
    <3>1. \A r \in DOMAIN runs : runs[r].answer = "given" /\ ~runs[r].ended =>
            runs[r].thread \in G \/ (runs[r].thread \in s.live /\ sdk[runs[r].thread].run = r)
      BY <1>5, <1>13 DEF Late, ShownInv
    <3>2. ASSUME NEW u \in s.live, ours(runs, sdk[u].run)
          PROVE  s.run[u] = sdk[u].run /\ (sdk[u].loading => u \in s.active)
      <4>1. u \in store.live /\ u # t /\ u \in Threads
        BY <1>2, <1>5, StoreFields
      <4> QED BY <4>1, <3>2, <1>5, <1>13 DEF Late, ShownInv
    <3>3. \A u \in s.live : sdk[u].run # NoRun => runs[sdk[u].run].thread = u
      BY <1>5, <1>13 DEF Late, ShownInv
    <3> QED BY <3>1, <3>2, <3>3 DEF ShownInv
  <2>3. HaltInv(s, sdk, steers, runs)
    BY <1>5, <1>13 DEF Late, HaltInv
  <2>4. AwaitedInv(s, steers, G, runs)
    <3>1. ASSUME NEW r \in DOMAIN runs, runs[r].answer = "due", runs[r].thread \notin G
          PROVE  awaited(s, steers, runs, r)
      <4>1. /\ awaited(store, steers, runs, r) /\ runs[r].thread # t
            /\ runs[r].thread \in Threads
        BY <3>1, <1>2, <1>13 DEF Late, AwaitedInv
      <4> QED BY <4>1, <1>5 DEF awaited
    <3> QED BY <3>1 DEF AwaitedInv
  <2> QED BY <2>1, <2>2, <2>3, <2>4 DEF Late
<1>14. ASSUME DrainInv(store, sdk, steers) PROVE Waiting(s, sdk, steers, ToSet(s.pending))
  <2> SUFFICES ASSUME NEW u \in Threads, drainable(s, sdk, u)
               PROVE  engaged(s, sdk, u) \/ steered(s, steers, u) \/ u \in ToSet(s.pending)
    BY DEF Waiting
  <2>1. u # t /\ u \in store.live
    BY <1>5 DEF drainable
  <2>2. ~store.steering[u]
    <3>1. s.steering[u] <=> store.steering[u]
      BY <2>1, <1>5
    <3> QED BY <3>1 DEF drainable
  <2>3. drainable(store, sdk, u)
    BY <2>1, <2>2, <1>5 DEF drainable, occupied
  <2> QED BY <2>3, <1>5, <1>14 DEF DrainInv, engaged, onItsWay, steered
<1> HIDE DEF G
<1>15. PumpedOut(s, p, sdk, steers, sent, G)
  BY <1>12, PumpRunQueueKeeps
<1> HIDE DEF p
<1>16. /\ Mid(p, sdk, steers, sent, G) /\ held(p) = held(s) /\ p.run = s.run
       /\ Late(store, sdk, steers, gone, runs) => Late(p, sdk, steers, G, runs)
       /\ DrainInv(store, sdk, steers) => DrainInv(p, sdk, steers)
  BY <1>13, <1>14, <1>15 DEF PumpedOut
<1>17. RestOK'
  BY <1>1, <1>2 DEF RestOK, Run, calls, fates, counts, G
<1>18. becomes(p, sdk)
  BY <1>1
<1>19. /\ steers' = steers /\ gone' = G /\ sent' = sent /\ withdrawn' = withdrawn
       /\ returned' = returned /\ upsets' = upsets /\ overtaken' = overtaken /\ runs' = runs
  BY <1>1 DEF calls, fates, counts
<1>20. ApartInv(held(p), runs, withdrawn, returned, sent)
  BY <1>2, <1>11, <1>16 DEF ApartInv
<1>21. LossInv(held(store), runs, withdrawn, returned, sent, gone)
       => LossInv(held(p), runs, withdrawn, returned, sent, G)
  BY <1>10, <1>16 DEF LossInv, G
<1>22. \A u \in Threads : p.run[u] <= Len(runs)
  BY <1>2, <1>5, <1>16 DEF NoRun
<1> QED BY <1>2, <1>16, <1>17, <1>18, <1>19, <1>20, <1>21, <1>22, StepKeeps

(* A turn is over: no matter how, its submission is on its way no more.     *)
(* What is left of the store holds the inputs that it held but this one.    *)
Landed(s, x) ==
  /\ s \in Store /\ s.inflight = store.inflight \ {x}
  /\ s.live = store.live /\ s.epoch = store.epoch /\ s.steering = store.steering
  /\ s.hydration = store.hydration /\ s.pending = store.pending

LEMMA LandedFacts ==
  ASSUME StoreInv, NEW x \in store.inflight, NEW s, Landed(s, x), s.queued = store.queued
  PROVE  /\ HeldInv(s, sent) /\ held(s) = held(store) \ {x.input}
         /\ x.thread \in Threads /\ x.epoch \in Nat /\ x.input \in Inputs
         /\ x.input \in held(store) /\ x.input \notin lined(store)
         /\ x.input \in DOMAIN sent /\ sent[x.input] = x.thread
         /\ \A y \in store.inflight : y # x => y \in s.inflight
         /\ SteeringInv(s, steers) /\ EpochInv(s, steers)
<1>1. HeldInv(store, sent) /\ SteeringInv(store, steers) /\ EpochInv(store, steers) /\ store \in Store
  BY InvFacts DEF Mid, GoodInv
<1>2. x.thread \in Threads /\ x.epoch \in Nat /\ x.input \in Inputs
  BY <1>1, StoreFields
<1>3. lined(s) = lined(store)
  BY DEF lined
<1>4. \A y \in store.inflight : y # x => y \in s.inflight /\ y.input # x.input
  BY <1>1 DEF Landed, HeldInv
<1>5. x.input \in flown(store) /\ x.input \notin lined(store)
  BY <1>1 DEF flown, HeldInv
<1>6. flown(s) = flown(store) \ {x.input}
  <2>1. \A j : j \in flown(s) <=> \E y \in s.inflight : y.input = j
    BY DEF flown
  <2>2. \A j : j \in flown(store) <=> \E y \in store.inflight : y.input = j
    BY DEF flown
  <2>3. \A y \in s.inflight : y \in store.inflight /\ y # x
    BY DEF Landed
  <2> QED BY <2>1, <2>2, <2>3, <1>4
<1>7. held(s) = held(store) \ {x.input} /\ x.input \in held(store)
  BY <1>3, <1>5, <1>6 DEF held
<1>8. HeldInv(s, sent)
  BY <1>1, <1>3 DEF Landed, HeldInv
<1>9. x.input \in DOMAIN sent /\ sent[x.input] = x.thread
  BY <1>1 DEF HeldInv
<1>10. SteeringInv(s, steers) /\ EpochInv(s, steers)
  BY <1>1 DEF Landed, SteeringInv, EpochInv, steered
<1> QED BY <1>2, <1>4, <1>5, <1>7, <1>8, <1>9, <1>10

(* R is the runs after the answers to the run numbers A have become a.      *)
Answered(R, A, a) ==
  /\ R \in Runs /\ Len(R) = Len(runs) /\ DOMAIN R = DOMAIN runs
  /\ \A q \in DOMAIN runs :
       /\ R[q].thread = runs[q].thread /\ R[q].input = runs[q].input
       /\ R[q].ended = runs[q].ended
       /\ R[q].answer = IF q \in A THEN a ELSE runs[q].answer

LEMMA AnsweredFacts ==
  ASSUME StoreInv, NEW a \in {"none", "given"}, NEW A,
         NEW R, R = [q \in Run |-> [runs[q] EXCEPT !.answer = IF q \in A THEN a ELSE @]]
  PROVE  Answered(R, A, a)
<1>1. runs \in Seq(ServerRun) /\ DOMAIN runs = 1 .. Len(runs) /\ Len(runs) \in Nat /\ DOMAIN runs = Run
  BY InvFacts DEF RestOK, Runs
<1>2. \A q \in 1 .. Len(runs) : runs[q] \in ServerRun
  BY <1>1
<1>3. ASSUME NEW q \in Run
      PROVE  /\ R[q] \in ServerRun
             /\ R[q].thread = runs[q].thread /\ R[q].input = runs[q].input
             /\ R[q].ended = runs[q].ended
             /\ R[q].answer = IF q \in A THEN a ELSE runs[q].answer
  <2> DEFINE o == runs[q]
             n == IF q \in A THEN a ELSE runs[q].answer
  <2>1. o \in ServerRun /\ R[q] = [o EXCEPT !.answer = n]
    BY <1>1, <1>2
  <2>2. n \in {"none", "due", "given"}
    BY <2>1 DEF ServerRun
  <2> HIDE DEF o, n
  <2>3. /\ R[q] \in ServerRun
        /\ R[q].thread = o.thread /\ R[q].input = o.input /\ R[q].ended = o.ended
        /\ R[q].answer = n
    BY <2>1, <2>2 DEF ServerRun
  <2> QED BY <2>3 DEF o, n
<1>4. R \in [1 .. Len(runs) -> ServerRun]
  BY <1>1, <1>3
<1>5. R \in Seq(ServerRun) /\ Len(R) = Len(runs) /\ DOMAIN R = 1 .. Len(runs)
  BY <1>1, <1>4
<1> QED BY <1>1, <1>3, <1>5 DEF Answered, Runs

(* The server creates the run of a turn; nothing in the store changes.      *)
LEMMA RunCreatedKeeps ==
  ASSUME StoreInv, NEW x \in store.inflight, RunCreated(x)
  PROVE  StoreInv'
<1> DEFINE t == x.thread
           i == x.input
           R == created(t, i)
           n == Len(R)
<1>1. /\ runs' = R /\ accepted(x) = {}
      /\ UNCHANGED <<store, sdk, calls, gone, fates, counts, overtaken>>
  BY DEF RunCreated
<1>2. /\ Mid(store, sdk, steers, sent, gone) /\ store \in Store
      /\ sdk \in [Threads -> Shown(Len(runs))]
      /\ \A u \in Threads : sdk[u].run \in 0 .. Len(runs) /\ store.run[u] <= Len(runs)
      /\ RestOK /\ DOMAIN runs = Run /\ Len(runs) \in Nat
      /\ \A y \in steers : y.thread \in Threads /\ y.run \in Run
      /\ \A u \in Threads \ store.live : sdk[u] = still
      /\ RunsInv(runs, sent) /\ ApartInv(held(store), runs, withdrawn, returned, sent)
      /\ upsets = 0 => DrainInv(store, sdk, steers)
      /\ overtaken \/ (/\ LossInv(held(store), runs, withdrawn, returned, sent, gone)
                       /\ Late(store, sdk, steers, gone, runs))
  BY InvFacts
<1>3. /\ t \in Threads /\ i \in Inputs /\ i \in 0 .. MaxInputs /\ i # NoInput
      /\ i \in held(store) /\ i \in DOMAIN sent /\ sent[i] = t
  <2>1. t \in Threads /\ i \in Inputs
    BY <1>2, StoreFields
  <2>2. i \in DOMAIN sent /\ sent[i] = t
    BY <1>2 DEF Mid, GoodInv, HeldInv
  <2>3. i \in held(store)
    BY DEF held, flown
  <2> QED BY <2>1, <2>2, <2>3, BoundsAssumption DEF Inputs, NoInput
<1>3a. Created(R, t, i)
  BY <1>2, <1>3, CreatedFacts DEF RestOK
<1>4. /\ R \in Runs /\ n = Len(runs) + 1 /\ n \in Nat /\ n # 0
      /\ DOMAIN R = DOMAIN runs \cup {n} /\ n \notin DOMAIN runs
      /\ R[n].thread = t /\ R[n].input = i /\ ~R[n].ended /\ R[n].answer = "due"
      /\ \A r \in DOMAIN runs : /\ R[r].thread = runs[r].thread /\ R[r].input = runs[r].input
                                /\ R[r].answer = runs[r].answer
                                /\ ~R[r].ended => ~runs[r].ended /\ runs[r].thread # t
      /\ deliveredBy(R) = deliveredBy(runs)
  BY <1>3, <1>3a DEF Created
<1> HIDE DEF R, n
<1>5. \A r \in DOMAIN runs : r \in Nat /\ r < n
  BY <1>2, <1>4 DEF Run
<1>6. store.live \in SUBSET Threads
  BY <1>2, StoreFields
<1>7. \A r \in DOMAIN runs : runs[r].answer # "none" => runs[r].input # i
  <2> SUFFICES ASSUME NEW r \in DOMAIN runs, runs[r].answer # "none", runs[r].input = i
               PROVE  FALSE
    OBVIOUS
  <2>1. CASE runs[r].answer = "given"
    <3>1. i \in deliveredBy(runs)
      BY <2>1 DEF deliveredBy
    <3> QED BY <3>1, <1>2, <1>3 DEF ApartInv
  <2>2. CASE runs[r].answer # "given"
    <3>1. runs[r].answer = "due"
      BY <2>2, <1>2, InvFacts
    <3> QED BY <3>1, <1>1, <1>2 DEF accepted
  <2> QED BY <2>1, <2>2
<1>8. RunsInv(R, sent)
  <2>1. ASSUME NEW r \in DOMAIN R, R[r].answer # "none"
        PROVE  /\ R[r].input \in DOMAIN sent /\ sent[R[r].input] = R[r].thread
               /\ \A q \in DOMAIN R : R[q].input = R[r].input => q <= r
    <3>1. CASE r = n
      BY <3>1, <1>3, <1>4, <1>5
    <3>2. CASE r # n
      <4>1. r \in DOMAIN runs /\ runs[r].answer # "none" /\ R[r].input = runs[r].input
        BY <3>2, <2>1, <1>4
      <4>2. R[n].input # R[r].input
        BY <4>1, <1>4, <1>7
      <4> QED BY <4>1, <4>2, <1>2, <1>4 DEF RunsInv
    <3> QED BY <3>1, <3>2
  <2>2. ASSUME NEW r \in DOMAIN R, NEW q \in DOMAIN R, R[r].thread = R[q].thread, r < q
        PROVE  R[r].ended
    <3>1. r \in DOMAIN runs
      BY <2>2, <1>4, <1>5
    <3>2. CASE q = n
      BY <3>1, <3>2, <2>2, <1>4
    <3>3. CASE q # n
      BY <3>1, <3>3, <2>2, <1>2, <1>4 DEF RunsInv
    <3> QED BY <3>2, <3>3
  <2> QED BY <2>1, <2>2 DEF RunsInv
<1>9. ApartInv(held(store), R, withdrawn, returned, sent)
  BY <1>2, <1>4 DEF ApartInv
<1>10. LossInv(held(store), runs, withdrawn, returned, sent, gone)
       => LossInv(held(store), R, withdrawn, returned, sent, gone)
  BY <1>4 DEF LossInv
<1>11. ASSUME Late(store, sdk, steers, gone, runs) PROVE Late(store, sdk, steers, gone, R)
  <2>1. ASSUME NEW u \in Threads, sdk[u].run # NoRun PROVE sdk[u].run \in DOMAIN runs
    BY <2>1, <1>2 DEF Run, NoRun
  <2>2. \A u \in Threads : ours(R, sdk[u].run) => ours(runs, sdk[u].run)
    BY <2>1, <1>4 DEF ours
  <2>3. ShownInv(store, sdk, gone, R)
    <3>1. \A u \in store.live : sdk[u].run # NoRun => R[sdk[u].run].thread = u
      BY <2>1, <1>4, <1>6, <1>11 DEF Late, ShownInv
    <3>2. \A r \in DOMAIN R : R[r].answer = "given" /\ ~R[r].ended =>
            R[r].thread \in gone \/ (R[r].thread \in store.live /\ sdk[R[r].thread].run = r)
      BY <1>4, <1>11 DEF Late, ShownInv
    <3>3. \A u \in store.live : ours(R, sdk[u].run) =>
            store.run[u] = sdk[u].run /\ (sdk[u].loading => u \in store.active)
      BY <2>2, <1>6, <1>11 DEF Late, ShownInv
    <3> QED BY <3>1, <3>2, <3>3 DEF ShownInv
  <2>4. HaltInv(store, sdk, steers, R)
    BY <2>2, <1>6, <1>11 DEF Late, HaltInv
  <2>5. AwaitedInv(store, steers, gone, R)
    <3>1. \A q \in DOMAIN runs : awaited(store, steers, runs, q) => awaited(store, steers, R, q)
      BY <1>4 DEF awaited
    <3>2. awaited(store, steers, R, n)
      <4>1. store.run[t] < n
        <5>1. store.run[t] \in Nat /\ store.run[t] <= Len(runs)
          BY <1>2, <1>3, StoreFields
        <5> QED BY <5>1, <1>2, <1>4
      <4>2. \A y \in steers : y.run < n
        BY <1>2, <1>5
      <4>3. \A q \in DOMAIN R : R[q].answer = "given" => q < n
        BY <1>4, <1>5
      <4> QED BY <4>1, <4>2, <4>3, <1>4 DEF awaited
    <3> QED BY <3>1, <3>2, <1>4, <1>11 DEF Late, AwaitedInv
  <2> QED BY <2>3, <2>4, <2>5, <1>11 DEF Late
<1>12. RestOK'
  <2>1. Run \subseteq 1 .. n /\ 0 .. Len(runs) \subseteq 0 .. n
    BY <1>2, <1>4 DEF Run
  <2> QED BY <2>1, <1>1, <1>2, <1>4 DEF RestOK, Run, calls, fates, counts, n
<1>13. sdk \in [Threads -> Shown(Len(R))]
  <2>1. \A u \in Threads : sdk[u] \in Shown(n)
    BY <1>2, <1>4 DEF Shown
  <2> QED BY <2>1, <1>2 DEF n
<1>14. becomes(store, sdk)
  <2>1. sdk' \in [Threads -> Shown(Len(runs'))] /\ \A u \in Threads : u \notin store'.live => sdk'[u] = still
    BY <1>1, <1>2, <1>13
  <2>2. becomes(store', sdk')
    BY <2>1, Becomes
  <2> QED BY <2>2, <1>1
<1>15. \A u \in Threads : store.run[u] <= Len(R)
  <2>1. Len(R) = Len(runs) + 1
    BY <1>4 DEF n
  <2>2. store.run \in [Threads -> Nat]
    BY <1>2, StoreFields
  <2> QED BY <2>1, <2>2, <1>2
<1>16. /\ steers' = steers /\ gone' = gone /\ sent' = sent /\ withdrawn' = withdrawn
       /\ returned' = returned /\ upsets' = upsets /\ overtaken' = overtaken /\ runs' = R
  BY <1>1 DEF calls, fates, counts
<1> QED BY <1>2, <1>8, <1>9, <1>10, <1>11, <1>12, <1>13, <1>14, <1>15, <1>16, StepKeeps

(* A run whose answer is due to a turn becomes its input's.                 *)
LEMMA AnswerOfTurn ==
  ASSUME StoreInv, NEW x \in store.inflight, NEW r \in accepted(x)
  PROVE  LET R == [runs EXCEPT ![r].answer = "given"]
         IN  /\ Answered(R, {r}, "given") /\ RunsInv(R, sent)
             /\ ApartInv(held(store) \ {x.input}, R, withdrawn, returned, sent)
             /\ LossInv(held(store), runs, withdrawn, returned, sent, gone) =>
                  LossInv(held(store) \ {x.input}, R, withdrawn, returned, sent, gone)
             /\ r \in Run /\ runs[r].thread = x.thread
             /\ runs[r].input = x.input /\ runs[r].answer = "due"
<1> DEFINE R == [runs EXCEPT ![r].answer = "given"]
           i == x.input
<1>1. /\ store \in Store /\ HeldInv(store, sent) /\ DOMAIN runs = Run
      /\ RunsInv(runs, sent) /\ ApartInv(held(store), runs, withdrawn, returned, sent)
      /\ runs \in Seq(ServerRun)
  BY InvFacts DEF Mid, GoodInv, RestOK, Runs
<1>2. r \in Run /\ runs[r].input = i /\ runs[r].answer = "due"
  BY DEF accepted
<1>3. R = [q \in Run |-> [runs[q] EXCEPT !.answer = IF q \in {r} THEN "given" ELSE @]]
  <2> DEFINE Q == [q \in Run |-> [runs[q] EXCEPT !.answer = IF q \in {r} THEN "given" ELSE @]]
  <2>1. \A q \in Run : runs[q] \in ServerRun
    BY <1>1
  <2>2. ASSUME NEW q \in Run PROVE R[q] = Q[q]
    <3> DEFINE o == runs[q]
    <3>1. o \in ServerRun /\ R[q] = IF q = r THEN [o EXCEPT !.answer = "given"] ELSE o
      BY <1>1, <1>2, <2>1
    <3>2. Q[q] = IF q = r THEN [o EXCEPT !.answer = "given"] ELSE [o EXCEPT !.answer = o.answer]
      OBVIOUS
    <3> HIDE DEF o, R, Q
    <3>3. [o EXCEPT !.answer = o.answer] = o
      BY <3>1 DEF ServerRun
    <3> QED BY <3>1, <3>2, <3>3
  <2>3. R = [q \in Run |-> R[q]] /\ Q = [q \in Run |-> Q[q]]
    BY <1>1
  <2> HIDE DEF R, Q
  <2>4. R = Q
    BY <2>2, <2>3
  <2> QED BY <2>4 DEF Q
<1> HIDE DEF R
<1>4. Answered(R, {r}, "given")
  BY <1>3, AnsweredFacts
<1>5. \A j : j \in deliveredBy(R) <=> j = i \/ j \in deliveredBy(runs)
  <2>1. \A j : j \in deliveredBy(R) <=> \E q \in DOMAIN R : R[q].answer = "given" /\ R[q].input = j
    BY DEF deliveredBy
  <2>2. \A j : j \in deliveredBy(runs) <=>
                \E q \in DOMAIN runs : runs[q].answer = "given" /\ runs[q].input = j
    BY DEF deliveredBy
  <2>3. ASSUME NEW j, j \in deliveredBy(R) PROVE j = i \/ j \in deliveredBy(runs)
    <3>1. PICK q \in DOMAIN R : R[q].answer = "given" /\ R[q].input = j
      BY <2>1, <2>3
    <3>2. CASE q = r
      BY <3>1, <3>2, <1>1, <1>2, <1>4 DEF Answered
    <3>3. CASE q # r
      <4>1. q \in DOMAIN runs /\ runs[q].answer = "given" /\ runs[q].input = j
        BY <3>1, <3>3, <1>4 DEF Answered
      <4> QED BY <4>1, <2>2
    <3> QED BY <3>2, <3>3
  <2>4. i \in deliveredBy(R)
    <3>1. r \in DOMAIN R /\ R[r].answer = "given" /\ R[r].input = i
      BY <1>1, <1>2, <1>4 DEF Answered
    <3> QED BY <3>1, <2>1
  <2>5. ASSUME NEW j, j \in deliveredBy(runs) PROVE j \in deliveredBy(R)
    <3>1. PICK q \in DOMAIN runs : runs[q].answer = "given" /\ runs[q].input = j
      BY <2>2, <2>5
    <3>2. q \in DOMAIN R /\ R[q].answer = "given" /\ R[q].input = j
      BY <3>1, <1>4 DEF Answered
    <3> QED BY <3>2, <2>1
  <2> QED BY <2>3, <2>4, <2>5
<1>6. i \in held(store) /\ i \in DOMAIN sent /\ sent[i] = x.thread
  BY <1>1 DEF HeldInv, held, flown
<1>7. i \notin withdrawn \cup returned
  BY <1>1, <1>6 DEF ApartInv
<1>8. RunsInv(R, sent)
  <2>1. \A q \in DOMAIN runs : R[q].answer # "none" => runs[q].answer # "none"
    BY <1>1, <1>2, <1>4 DEF Answered
  <2> QED BY <2>1, <1>1, <1>4 DEF RunsInv, Answered
<1>9. ApartInv(held(store) \ {i}, R, withdrawn, returned, sent)
  BY <1>1, <1>5, <1>7 DEF ApartInv
<1>10. LossInv(held(store), runs, withdrawn, returned, sent, gone) =>
         LossInv(held(store) \ {i}, R, withdrawn, returned, sent, gone)
  BY <1>5 DEF LossInv
<1>11. runs[r].thread = x.thread
  BY <1>1, <1>2, <1>6 DEF RunsInv
<1> QED BY <1>2, <1>4, <1>8, <1>9, <1>10, <1>11 DEF R

(* Of the runs that are due to a thread that is not deleted, the one that   *)
(* its turn waits for is the only one.                                      *)
LEMMA OnlyOneIsDue ==
  ASSUME StoreInv, Late(store, sdk, steers, gone, runs),
         NEW x \in store.inflight, x.thread \notin gone,
         NEW r \in accepted(x), NEW q \in Run,
         runs[q].answer = "due", runs[q].thread = x.thread
  PROVE  q = r
<1>1. DOMAIN runs = Run /\ RunsInv(runs, sent) /\ Run \subseteq Nat
  BY InvFacts
<1>2. r \in Run /\ runs[r].input = x.input /\ runs[r].answer = "due"
  BY DEF accepted
<1>3. PICK y \in store.inflight : y.thread = x.thread /\ y.input = runs[q].input
  BY <1>1 DEF Late, AwaitedInv, awaited
<1>4. y = x
  BY <1>3 DEF Late, TurnInv
<1>5. r <= q /\ q <= r
  BY <1>1, <1>2, <1>3, <1>4 DEF RunsInv
<1> QED BY <1>1, <1>2, <1>5

(* No answer comes to a turn.                                               *)
LEMMA UnansweredFacts ==
  ASSUME StoreInv, NEW x \in store.inflight
  PROVE  LET R == unanswered(x)
         IN  /\ R \in Runs /\ Len(R) = Len(runs) /\ DOMAIN R = DOMAIN runs
             /\ RunsInv(R, sent) /\ deliveredBy(R) = deliveredBy(runs)
             /\ \A q \in DOMAIN R : R[q].answer = "due" => R[q].input # x.input
             /\ Late(store, sdk, steers, gone, runs) => Late(store, sdk, steers, gone, R)
<1> DEFINE R == unanswered(x)
<1>1. /\ DOMAIN runs = Run /\ RunsInv(runs, sent) /\ store \in Store
      /\ \A u \in Threads : sdk[u].run \in 0 .. Len(runs)
  BY InvFacts
<1>2. Answered(R, accepted(x), "none")
  BY AnsweredFacts DEF unanswered
<1> HIDE DEF R
<1>3. \A q \in DOMAIN runs : /\ R[q].answer # "none" => R[q].answer = runs[q].answer
                             /\ R[q].answer = "given" <=> runs[q].answer = "given"
  BY <1>2 DEF Answered, accepted
<1>4. RunsInv(R, sent)
  BY <1>1, <1>2, <1>3 DEF RunsInv, Answered
<1>5. deliveredBy(R) = deliveredBy(runs)
  BY <1>2, <1>3 DEF deliveredBy, Answered
<1>6. ASSUME NEW q \in DOMAIN R, R[q].answer = "due" PROVE R[q].input # x.input
  BY <1>1, <1>2, <1>6 DEF Answered, accepted
<1>7. ASSUME Late(store, sdk, steers, gone, runs) PROVE Late(store, sdk, steers, gone, R)
  <2>1. store.live \in SUBSET Threads
    BY <1>1, StoreFields
  <2>2. ASSUME NEW u \in store.live, sdk[u].run # NoRun PROVE sdk[u].run \in DOMAIN runs
    BY <2>1, <2>2, <1>1 DEF Run, NoRun
  <2>3. \A u \in store.live : ours(R, sdk[u].run) => ours(runs, sdk[u].run)
    BY <2>2, <1>3 DEF ours
  <2>4. ShownInv(store, sdk, gone, R)
    <3>1. \A u \in store.live : sdk[u].run # NoRun => R[sdk[u].run].thread = u
      BY <2>2, <1>2, <1>7 DEF Late, ShownInv, Answered
    <3>2. \A q \in DOMAIN R : R[q].answer = "given" /\ ~R[q].ended =>
            R[q].thread \in gone \/ (R[q].thread \in store.live /\ sdk[R[q].thread].run = q)
      BY <1>2, <1>3, <1>7 DEF Late, ShownInv, Answered
    <3>3. \A u \in store.live : ours(R, sdk[u].run) =>
            store.run[u] = sdk[u].run /\ (sdk[u].loading => u \in store.active)
      BY <2>3, <1>7 DEF Late, ShownInv
    <3> QED BY <3>1, <3>2, <3>3 DEF ShownInv
  <2>5. HaltInv(store, sdk, steers, R)
    BY <2>3, <1>7 DEF Late, HaltInv
  <2>6. AwaitedInv(store, steers, gone, R)
    <3>1. \A q \in DOMAIN runs : awaited(store, steers, runs, q) => awaited(store, steers, R, q)
      BY <1>2, <1>3 DEF awaited, Answered
    <3> QED BY <3>1, <1>2, <1>3, <1>7 DEF Late, AwaitedInv, Answered
  <2> QED BY <2>4, <2>5, <2>6, <1>7 DEF Late
<1> QED BY <1>2, <1>4, <1>5, <1>6, <1>7 DEF R, Answered

LEMMA SubmittedKeeps ==
  ASSUME StoreInv, NEW x \in store.inflight, Submitted(x), current(x)
  PROVE  StoreInv'
<1> DEFINE t == x.thread
           f == store.inflight \ {x}
           s == [store EXCEPT !.inflight = @ \ {x}]
<1>0. PICK n \in accepted(x) :
        /\ runs' = [runs EXCEPT ![n].answer = "given"]
        /\ becomes([s EXCEPT !.run[t] = n],
                   [sdk EXCEPT ![t] = [run |-> n, loading |-> TRUE, interrupt |-> FALSE]])
  BY DEF Submitted
<1> DEFINE R == [runs EXCEPT ![n].answer = "given"]
           m == [store.run EXCEPT ![t] = n]
           p == [s EXCEPT !.run[t] = n]
           a == [run |-> n, loading |-> TRUE, interrupt |-> FALSE]
           k == [sdk EXCEPT ![t] = a]
<1>1. /\ runs' = R /\ becomes(p, k)
      /\ UNCHANGED <<calls, gone, fates, counts, overtaken>>
  BY <1>0 DEF Submitted
<1>2. /\ Mid(store, sdk, steers, sent, gone) /\ store \in Store
      /\ sdk \in [Threads -> Shown(Len(runs))]
      /\ \A u \in Threads : sdk[u].run \in 0 .. Len(runs) /\ store.run[u] <= Len(runs)
      /\ RestOK /\ DOMAIN runs = Run /\ Len(runs) \in Nat
      /\ RunsInv(runs, sent)
      /\ \A y \in steers : y.thread \in Threads /\ y.run \in Run
      /\ \A q \in Run : runs[q].thread \in Threads
      /\ upsets = 0 => DrainInv(store, sdk, steers)
      /\ overtaken \/ (/\ LossInv(held(store), runs, withdrawn, returned, sent, gone)
                       /\ Late(store, sdk, steers, gone, runs))
  BY InvFacts
<1>3. /\ Answered(R, {n}, "given") /\ RunsInv(R, sent)
      /\ ApartInv(held(store) \ {x.input}, R, withdrawn, returned, sent)
      /\ LossInv(held(store), runs, withdrawn, returned, sent, gone) =>
           LossInv(held(store) \ {x.input}, R, withdrawn, returned, sent, gone)
      /\ n \in Run /\ runs[n].thread = t /\ runs[n].input = x.input /\ runs[n].answer = "due"
  BY AnswerOfTurn
<1>4. t \in Threads /\ t \in store.live /\ t \notin gone /\ store.live \in SUBSET Threads
  BY <1>2, StoreFields DEF current, Mid
<1> HIDE DEF R
<1>5. /\ R \in Runs /\ Len(R) = Len(runs) /\ n \in 1 .. Len(runs) /\ n \in Nat /\ n # 0
      /\ DOMAIN R = DOMAIN runs
      /\ R[n].thread = t /\ R[n].answer = "given"
      /\ \A r \in DOMAIN runs : /\ R[r].thread = runs[r].thread /\ R[r].input = runs[r].input
                                /\ R[r].ended = runs[r].ended
                                /\ r # n => R[r].answer = runs[r].answer
  BY <1>2, <1>3 DEF Answered, Run
<1>6. /\ p \in Store /\ p.inflight = f /\ p.run = m
      /\ p.live = store.live /\ p.epoch = store.epoch /\ p.queued = store.queued
      /\ p.steering = store.steering /\ p.hydration = store.hydration
      /\ p.active = store.active /\ p.pending = store.pending
  <2>1. f \in SUBSET Submission /\ store.run \in [Threads -> Nat]
    BY <1>2, StoreFields
  <2>2. m \in [Threads -> Nat]
    BY <2>1, <1>4, <1>5
  <2>3. p = [store EXCEPT !.inflight = f, !.run = m]
    BY <1>2 DEF Store
  <2> HIDE DEF p, f, m
  <2> QED BY <2>1, <2>2, <2>3, <1>2 DEF Store
<1>7. /\ p.run[t] = n /\ \A u \in Threads \ {t} : p.run[u] = store.run[u]
  <2>1. store.run \in [Threads -> Nat]
    BY <1>2, StoreFields
  <2> QED BY <2>1, <1>4, <1>6
<1> HIDE DEF p, m
<1>8. Landed(p, x)
  BY <1>6 DEF Landed
<1> HIDE DEF f
<1>9. /\ HeldInv(p, sent) /\ held(p) = held(store) \ {x.input}
      /\ \A y \in store.inflight : y # x => y \in p.inflight
      /\ SteeringInv(p, steers) /\ EpochInv(p, steers)
  BY <1>6, <1>8, LandedFacts
<1>10. /\ k[t] = a /\ a.run = n /\ a.loading /\ ~a.interrupt
       /\ \A u \in Threads \ {t} : k[u] = sdk[u]
  BY <1>2, <1>4
<1>11. k \in [Threads -> Shown(Len(runs))]
  <2>1. a \in Shown(Len(runs))
    BY <1>2, <1>5 DEF Shown
  <2>2. \A u \in Threads : sdk[u] \in Shown(Len(runs))
    BY <1>2 DEF Shown
  <2> HIDE DEF a
  <2> QED BY <2>1, <2>2, <1>2
<1> HIDE DEF k, a
<1>12. k[t].run # NoRun
  BY <1>5, <1>10 DEF NoRun
<1>13. \A u \in Threads \ {t} : engaged(store, sdk, u) => engaged(p, k, u)
  BY <1>6, <1>9, <1>10 DEF engaged, onItsWay
<1>14. Mid(p, k, steers, sent, gone)
  <2>1. \A u \in p.live : p.run[u] # NoRun \/ k[u].loading => k[u].run # NoRun
    BY <1>2, <1>4, <1>6, <1>7, <1>10, <1>12 DEF Mid, GoodInv, EntryInv
  <2>2. \A u \in p.active : engaged(p, k, u)
    <3>1. store.active \in SUBSET Threads
      BY <1>2, StoreFields
    <3>2. engaged(p, k, t)
      BY <1>12 DEF engaged
    <3> QED BY <3>1, <3>2, <1>2, <1>6, <1>13 DEF Mid, GoodInv, EntryInv
  <2>3. \A u \in Threads :
          p.queued[u] # <<>> \/ p.run[u] # NoRun \/ p.steering[u] \/ u \in p.active => u \in p.live
    BY <1>2, <1>4, <1>6, <1>7 DEF Mid, GoodInv, EntryInv
  <2>4. EntryInv(p, k)
    BY <2>1, <2>2, <2>3, <1>2, <1>6 DEF Mid, GoodInv, EntryInv
  <2> QED BY <2>4, <1>2, <1>6, <1>9 DEF Mid, GoodInv, StoreOK
<1>15. ASSUME Late(store, sdk, steers, gone, runs) PROVE Late(p, k, steers, gone, R)
  <2>1. TurnInv(p, gone)
    <3>1. \A y \in p.inflight : y \in store.inflight
      BY <1>8 DEF Landed
    <3> QED BY <3>1, <1>6, <1>15 DEF Late, TurnInv
  <2>2. \A u \in store.live : sdk[u].run # NoRun => sdk[u].run \in DOMAIN runs /\ runs[sdk[u].run].thread = u
    BY <1>2, <1>4, <1>15 DEF Late, ShownInv, Run, NoRun
  <2>3. \A u \in store.live \ {t} : ours(R, k[u].run) => ours(runs, sdk[u].run)
    <3> SUFFICES ASSUME NEW u \in store.live \ {t}, ours(R, k[u].run) PROVE ours(runs, sdk[u].run)
      OBVIOUS
    <3>1. k[u].run = sdk[u].run /\ sdk[u].run # NoRun
      BY <1>4, <1>10 DEF ours
    <3>2. sdk[u].run \in DOMAIN runs /\ sdk[u].run # n
      BY <3>1, <2>2, <1>3
    <3> QED BY <3>1, <3>2, <1>5 DEF ours
  <2>4. t \in store.active
    BY <1>4, <1>15 DEF Late, TurnInv
  <2>5. awaited(store, steers, runs, n)
    BY <1>2, <1>3, <1>4, <1>15 DEF Late, AwaitedInv
  <2>6. ShownInv(p, k, gone, R)
    <3>1. ASSUME NEW r \in DOMAIN R, R[r].answer = "given" /\ ~R[r].ended
          PROVE  R[r].thread \in gone \/ (R[r].thread \in p.live /\ k[R[r].thread].run = r)
      <4>1. CASE r = n
        BY <4>1, <1>4, <1>5, <1>6, <1>10
      <4>2. CASE r # n
        <5>1. /\ r \in DOMAIN runs /\ runs[r].answer = "given" /\ ~runs[r].ended
              /\ R[r].thread = runs[r].thread
          BY <4>2, <3>1, <1>5
        <5>2. runs[r].thread # t
          <6> SUFFICES ASSUME runs[r].thread = t PROVE FALSE
            OBVIOUS
          <6>1. r < n
            BY <5>1, <2>5, <1>3 DEF awaited
          <6> QED BY <6>1, <5>1, <1>2, <1>3 DEF RunsInv
        <5>3. \/ runs[r].thread \in gone
              \/ runs[r].thread \in store.live /\ sdk[runs[r].thread].run = r
          BY <5>1, <1>15 DEF Late, ShownInv
        <5> QED BY <5>1, <5>2, <5>3, <1>4, <1>6, <1>10
      <4> QED BY <4>1, <4>2
    <3>2. ASSUME NEW u \in p.live, ours(R, k[u].run)
          PROVE  p.run[u] = k[u].run /\ (k[u].loading => u \in p.active)
      <4>1. CASE u = t
        BY <4>1, <2>4, <1>6, <1>7, <1>10
      <4>2. CASE u # t
        BY <4>2, <3>2, <2>3, <1>4, <1>6, <1>7, <1>10, <1>15 DEF Late, ShownInv
      <4> QED BY <4>1, <4>2
    <3>3. ASSUME NEW u \in p.live, k[u].run # NoRun PROVE R[k[u].run].thread = u
      <4>1. CASE u = t
        BY <4>1, <1>5, <1>10
      <4>2. CASE u # t
        BY <4>2, <3>3, <2>2, <1>4, <1>5, <1>6, <1>10
      <4> QED BY <4>1, <4>2
    <3> QED BY <3>1, <3>2, <3>3 DEF ShownInv
  <2>7. HaltInv(p, k, steers, R)
    <3> SUFFICES ASSUME NEW y \in steers, y.thread \in p.live,
                        y.at = "stopping" \/ y.epoch # p.epoch[y.thread],
                        k[y.thread].run <= y.run /\ k[y.thread].loading
                 PROVE  ~ours(R, k[y.thread].run)
      BY DEF HaltInv
    <3>1. y.run \in 1 .. Len(runs) /\ y.thread \in Threads
      BY <1>2 DEF Run
    <3>2. y.thread # t
      <4> SUFFICES ASSUME y.thread = t PROVE FALSE
        OBVIOUS
      <4>1. y.run < n /\ n <= y.run
        BY <2>5, <1>3, <1>10 DEF awaited
      <4> QED BY <4>1, <3>1, <1>5
    <3> QED BY <3>1, <3>2, <2>3, <1>6, <1>10, <1>15 DEF Late, HaltInv
  <2>8. AwaitedInv(p, steers, gone, R)
    <3> SUFFICES ASSUME NEW q \in DOMAIN R, R[q].answer = "due", R[q].thread \notin gone
                 PROVE  awaited(p, steers, R, q)
      BY DEF AwaitedInv
    <3>1. q # n /\ q \in Run /\ runs[q].answer = "due" /\ runs[q].thread = R[q].thread
      BY <1>2, <1>5
    <3>2. awaited(store, steers, runs, q) /\ runs[q].thread \in Threads
      BY <3>1, <1>2, <1>15 DEF Late, AwaitedInv
    <3>3. runs[q].thread # t
      BY <3>1, <1>4, <1>15, OnlyOneIsDue
    <3>4. \E y \in p.inflight : y.thread = R[q].thread /\ y.input = R[q].input
      <4>1. PICK y \in store.inflight : y.thread = runs[q].thread /\ y.input = runs[q].input
        BY <3>2 DEF awaited
      <4>2. y # x
        BY <4>1, <3>3
      <4> QED BY <4>1, <4>2, <3>1, <1>2, <1>5, <1>9
    <3>5. p.run[R[q].thread] < q
      BY <3>1, <3>2, <3>3, <1>7 DEF awaited
    <3>6. \A y \in steers : y.thread = R[q].thread => y.run < q
      BY <3>1, <3>2 DEF awaited
    <3>7. \A g \in DOMAIN R : R[g].answer = "given" /\ R[g].thread = R[q].thread => g < q
      BY <3>1, <3>2, <3>3, <1>5 DEF awaited
    <3> QED BY <3>4, <3>5, <3>6, <3>7 DEF awaited
  <2> QED BY <2>1, <2>6, <2>7, <2>8 DEF Late
<1>16. ASSUME DrainInv(store, sdk, steers) PROVE DrainInv(p, k, steers)
  <2> SUFFICES ASSUME NEW u \in Threads, drainable(p, k, u)
               PROVE  engaged(p, k, u) \/ steered(p, steers, u) \/ (u \in ToSet(p.pending) /\ full(p))
    BY DEF DrainInv
  <2>1. CASE u = t
    BY <2>1, <1>12 DEF engaged
  <2>2. CASE u # t
    <3>1. drainable(store, sdk, u)
      BY <2>2, <1>6, <1>10 DEF drainable, occupied
    <3> QED BY <2>2, <3>1, <1>6, <1>13, <1>16 DEF DrainInv, steered, full
  <2> QED BY <2>1, <2>2
<1>17. RestOK'
  BY <1>1, <1>2, <1>5 DEF RestOK, Run, calls, fates, counts
<1>18. \A u \in Threads : p.run[u] <= Len(R)
  <2>1. store.run \in [Threads -> Nat]
    BY <1>2, StoreFields
  <2> QED BY <2>1, <1>2, <1>5, <1>7
<1>19. /\ steers' = steers /\ gone' = gone /\ sent' = sent /\ withdrawn' = withdrawn
       /\ returned' = returned /\ upsets' = upsets /\ overtaken' = overtaken /\ runs' = R
  BY <1>1 DEF calls, fates, counts
<1>20. k \in [Threads -> Shown(Len(R))]
  BY <1>5, <1>11
<1>21. becomes(p, k)
  BY <1>1
<1> QED BY <1>2, <1>3, <1>9, <1>14, <1>15, <1>16, <1>17, <1>18, <1>19, <1>20, <1>21, StepKeeps

(* The slot of a thread is given up.                                        *)
Freed(s, p, t) ==
  /\ p \in Store /\ p.active = s.active \ {t}
  /\ p.live = s.live /\ p.epoch = s.epoch /\ p.queued = s.queued /\ p.run = s.run
  /\ p.steering = s.steering /\ p.hydration = s.hydration /\ p.pending = s.pending
  /\ p.inflight = s.inflight

LEMMA FreedFacts ==
  ASSUME NEW s \in Store, NEW t
  PROVE  Freed(s, [s EXCEPT !.active = @ \ {t}], t)
<1> DEFINE a == s.active \ {t}
           p == [s EXCEPT !.active = @ \ {t}]
<1>1. a \in SUBSET Threads
  BY StoreFields
<1>2. p = [s EXCEPT !.active = a]
  BY DEF Store
<1> HIDE DEF p, a
<1>3. /\ p \in Store /\ p.active = a
      /\ p.live = s.live /\ p.epoch = s.epoch /\ p.queued = s.queued /\ p.run = s.run
      /\ p.steering = s.steering /\ p.hydration = s.hydration /\ p.pending = s.pending
      /\ p.inflight = s.inflight
  BY <1>1, <1>2 DEF Store
<1> QED BY <1>3 DEF Freed, p, a

LEMMA FewerSlots ==
  ASSUME NEW s, NEW p, NEW t, Freed(s, p, t), IsFiniteSet(s.active)
  PROVE  /\ IsFiniteSet(p.active)
         /\ Cardinality(s.active) <= maxParallelRuns => Cardinality(p.active) <= maxParallelRuns
<1>1. p.active \in SUBSET s.active
  BY DEF Freed
<1>2. /\ IsFiniteSet(p.active) /\ Cardinality(p.active) <= Cardinality(s.active)
      /\ Cardinality(p.active) \in Nat /\ Cardinality(s.active) \in Nat
  BY <1>1, FS_Subset, FS_CardinalityType
<1> QED BY <1>2, SlotsAssumption

(* A turn has been submitted for an entry that is no more.                  *)
LEMMA SubmittedLateKeeps ==
  ASSUME StoreInv, NEW x \in store.inflight, Submitted(x), ~current(x)
  PROVE  StoreInv'
<1> DEFINE t == x.thread
           f == store.inflight \ {x}
           s == [store EXCEPT !.inflight = @ \ {x}]
           a == [s EXCEPT !.active = @ \ {t}]
           p == pumpRunQueue(a, sdk)
<1>0. PICK n \in accepted(x) : runs' = [runs EXCEPT ![n].answer = "given"] /\ becomes(p, sdk)
  BY DEF Submitted
<1> DEFINE R == [runs EXCEPT ![n].answer = "given"]
<1>1. /\ runs' = R /\ becomes(p, sdk)
      /\ UNCHANGED <<calls, gone, fates, counts, overtaken>>
  BY <1>0 DEF Submitted
<1>2. /\ Mid(store, sdk, steers, sent, gone) /\ store \in Store
      /\ sdk \in [Threads -> Shown(Len(runs))]
      /\ \A u \in Threads : sdk[u].run \in 0 .. Len(runs) /\ store.run[u] <= Len(runs)
      /\ RestOK /\ DOMAIN runs = Run /\ Len(runs) \in Nat
      /\ upsets = 0 => DrainInv(store, sdk, steers)
      /\ overtaken \/ (/\ LossInv(held(store), runs, withdrawn, returned, sent, gone)
                       /\ Late(store, sdk, steers, gone, runs))
  BY InvFacts
<1>3. /\ Answered(R, {n}, "given") /\ RunsInv(R, sent)
      /\ ApartInv(held(store) \ {x.input}, R, withdrawn, returned, sent)
      /\ LossInv(held(store), runs, withdrawn, returned, sent, gone) =>
           LossInv(held(store) \ {x.input}, R, withdrawn, returned, sent, gone)
      /\ n \in Run /\ runs[n].thread = t /\ runs[n].input = x.input /\ runs[n].answer = "due"
  BY AnswerOfTurn
<1>4. t \in Threads /\ store.live \in SUBSET Threads
  BY <1>2, StoreFields
<1> HIDE DEF R
<1>5. /\ R \in Runs /\ Len(R) = Len(runs)
      /\ DOMAIN R = DOMAIN runs
      /\ R[n].thread = t /\ R[n].answer = "given"
      /\ \A r \in DOMAIN runs : /\ R[r].thread = runs[r].thread /\ R[r].input = runs[r].input
                                /\ R[r].ended = runs[r].ended
                                /\ r # n => R[r].answer = runs[r].answer
  BY <1>2, <1>3 DEF Answered
<1>6. /\ s \in Store /\ s.inflight = f /\ s.run = store.run
      /\ s.live = store.live /\ s.epoch = store.epoch /\ s.queued = store.queued
      /\ s.steering = store.steering /\ s.hydration = store.hydration
      /\ s.active = store.active /\ s.pending = store.pending
  <2>1. f \in SUBSET Submission
    BY <1>2, StoreFields
  <2>2. s = [store EXCEPT !.inflight = f]
    BY <1>2 DEF Store
  <2> HIDE DEF s, f
  <2> QED BY <2>1, <2>2, <1>2 DEF Store
<1> HIDE DEF s
<1>7. Freed(s, a, t)
  BY <1>6, FreedFacts
<1> HIDE DEF a
<1>8. /\ a \in Store /\ a.inflight = f /\ a.run = store.run /\ a.active = store.active \ {t}
      /\ a.live = store.live /\ a.epoch = store.epoch /\ a.queued = store.queued
      /\ a.steering = store.steering /\ a.hydration = store.hydration
      /\ a.pending = store.pending
  BY <1>6, <1>7 DEF Freed
<1>9. Landed(a, x)
  BY <1>8 DEF Landed
<1> HIDE DEF f
<1>10. /\ HeldInv(a, sent) /\ held(a) = held(store) \ {x.input}
       /\ \A y \in store.inflight : y # x => y \in a.inflight
       /\ \A y \in a.inflight : y \in store.inflight /\ y # x
       /\ SteeringInv(a, steers) /\ EpochInv(a, steers)
  BY <1>8, <1>9, LandedFacts DEF Landed
<1>11. IsFiniteSet(store.active)
  BY <1>2 DEF Mid, GoodInv, EntryInv
<1>12. /\ IsFiniteSet(a.active)
       /\ Cardinality(store.active) <= maxParallelRuns => Cardinality(a.active) <= maxParallelRuns
  BY <1>6, <1>7, <1>11, FewerSlots
<1>13. \A u \in store.live : onItsWay(store, u) => onItsWay(a, u)
  <2> SUFFICES ASSUME NEW u \in store.live, NEW y \in store.inflight,
                      y.thread = u /\ y.epoch = store.epoch[u]
               PROVE  onItsWay(a, u)
    BY DEF onItsWay
  <2>1. y # x
    BY DEF current
  <2>2. y \in a.inflight
    BY <2>1, <1>10
  <2> QED BY <2>2, <1>8 DEF onItsWay
<1>14. Mid(a, sdk, steers, sent, gone)
  <2>1. \A u \in Threads :
          a.queued[u] # <<>> \/ a.run[u] # NoRun \/ a.steering[u] \/ u \in a.active => u \in a.live
    BY <1>2, <1>8 DEF Mid, GoodInv, EntryInv
  <2>2. \A u \in a.live : a.run[u] # NoRun \/ sdk[u].loading => sdk[u].run # NoRun
    BY <1>2, <1>8 DEF Mid, GoodInv, EntryInv
  <2>3. \A u \in a.active : engaged(a, sdk, u)
    <3> SUFFICES ASSUME NEW u \in a.active PROVE engaged(a, sdk, u)
      OBVIOUS
    <3>1. u \in store.active /\ u \in Threads
      BY <1>8, StoreFields
    <3>2. u \in store.live /\ engaged(store, sdk, u)
      BY <3>1, <1>2 DEF Mid, GoodInv, EntryInv
    <3> QED BY <3>2, <1>13 DEF engaged
  <2>4. EntryInv(a, sdk)
    BY <2>1, <2>2, <2>3, <1>12 DEF EntryInv
  <2> QED BY <2>4, <1>2, <1>8, <1>10 DEF Mid, GoodInv, StoreOK
<1>15. ASSUME Late(store, sdk, steers, gone, runs) PROVE Late(a, sdk, steers, gone, R)
  <2>1. t \in gone
    <3> SUFFICES ASSUME t \notin gone PROVE FALSE
      OBVIOUS
    <3>1. t \in store.active /\ x.epoch = store.epoch[t]
      BY <1>15 DEF Late, TurnInv
    <3>2. t \in store.live
      BY <3>1, <1>2, <1>4 DEF Mid, GoodInv, EntryInv
    <3> QED BY <3>1, <3>2 DEF current
  <2>2. t \notin store.live
    BY <2>1, <1>2 DEF Mid
  <2>3. TurnInv(a, gone)
    <3>1. Cardinality(a.active) <= maxParallelRuns
      BY <1>12, <1>15 DEF Late, TurnInv
    <3>2. \A y \in a.inflight :
            y.thread \in gone \/ (y.thread \in a.active /\ y.epoch = a.epoch[y.thread])
      BY <2>1, <1>8, <1>10, <1>15 DEF Late, TurnInv
    <3> QED BY <3>1, <3>2, <1>10, <1>15 DEF Late, TurnInv
  <2>4. \A u \in store.live : sdk[u].run # NoRun => sdk[u].run \in DOMAIN runs /\ runs[sdk[u].run].thread = u
    BY <1>2, <1>4, <1>15 DEF Late, ShownInv, Run, NoRun
  <2>5. \A u \in store.live : ours(R, sdk[u].run) => ours(runs, sdk[u].run)
    <3> SUFFICES ASSUME NEW u \in store.live, ours(R, sdk[u].run) PROVE ours(runs, sdk[u].run)
      OBVIOUS
    <3>1. sdk[u].run \in DOMAIN runs /\ sdk[u].run # n
      BY <2>2, <2>4, <1>3 DEF ours
    <3> QED BY <3>1, <1>5 DEF ours
  <2>6. ShownInv(a, sdk, gone, R)
    <3>1. ASSUME NEW r \in DOMAIN R, R[r].answer = "given" /\ ~R[r].ended
          PROVE  R[r].thread \in gone \/ (R[r].thread \in a.live /\ sdk[R[r].thread].run = r)
      <4>1. CASE r = n
        BY <4>1, <2>1, <1>5
      <4>2. CASE r # n
        <5>1. /\ r \in DOMAIN runs /\ runs[r].answer = "given" /\ ~runs[r].ended
              /\ R[r].thread = runs[r].thread
          BY <4>2, <3>1, <1>5
        <5> QED BY <5>1, <1>8, <1>15 DEF Late, ShownInv
      <4> QED BY <4>1, <4>2
    <3>2. \A u \in a.live : ours(R, sdk[u].run) =>
            a.run[u] = sdk[u].run /\ (sdk[u].loading => u \in a.active)
      BY <2>2, <2>5, <1>8, <1>15 DEF Late, ShownInv
    <3>3. \A u \in a.live : sdk[u].run # NoRun => R[sdk[u].run].thread = u
      BY <2>4, <1>5, <1>8
    <3> QED BY <3>1, <3>2, <3>3 DEF ShownInv
  <2>7. HaltInv(a, sdk, steers, R)
    BY <2>5, <1>8, <1>15 DEF Late, HaltInv
  <2>8. AwaitedInv(a, steers, gone, R)
    <3> SUFFICES ASSUME NEW q \in DOMAIN R, R[q].answer = "due", R[q].thread \notin gone
                 PROVE  awaited(a, steers, R, q)
      BY DEF AwaitedInv
    <3>1. /\ q # n /\ q \in DOMAIN runs /\ runs[q].answer = "due" /\ runs[q].thread = R[q].thread
          /\ runs[q].thread # t
      BY <2>1, <1>5
    <3>2. awaited(store, steers, runs, q)
      BY <3>1, <1>15 DEF Late, AwaitedInv
    <3>4. \E y \in a.inflight : y.thread = R[q].thread /\ y.input = R[q].input
      <4>1. PICK y \in store.inflight : y.thread = runs[q].thread /\ y.input = runs[q].input
        BY <3>2 DEF awaited
      <4>2. y # x
        BY <4>1, <3>1
      <4> QED BY <4>1, <4>2, <3>1, <1>5, <1>10
    <3>7. \A g \in DOMAIN R : R[g].answer = "given" /\ R[g].thread = R[q].thread => g < q
      BY <3>1, <3>2, <1>5 DEF awaited
    <3> QED BY <3>1, <3>2, <3>4, <3>7, <1>8 DEF awaited
  <2> QED BY <2>3, <2>6, <2>7, <2>8 DEF Late
<1>16. ASSUME DrainInv(store, sdk, steers) PROVE Waiting(a, sdk, steers, ToSet(a.pending))
  <2> SUFFICES ASSUME NEW u \in Threads, drainable(a, sdk, u)
               PROVE  engaged(a, sdk, u) \/ steered(a, steers, u) \/ u \in ToSet(a.pending)
    BY DEF Waiting
  <2>1. u \in store.live
    BY <1>8 DEF drainable
  <2>2. CASE u \in store.active
    BY <2>1, <2>2, <1>2, <1>13 DEF Mid, GoodInv, EntryInv, engaged
  <2>3. CASE u \notin store.active
    <3>1. drainable(store, sdk, u)
      BY <2>3, <1>8 DEF drainable, occupied
    <3> QED BY <2>1, <3>1, <1>8, <1>13, <1>16 DEF DrainInv, engaged, steered
  <2> QED BY <2>2, <2>3
<1>17. PumpedOut(a, p, sdk, steers, sent, gone)
  BY <1>14, PumpRunQueueKeeps
<1> HIDE DEF p
<1>18. /\ Mid(p, sdk, steers, sent, gone) /\ held(p) = held(store) \ {x.input} /\ p.run = store.run
       /\ Late(store, sdk, steers, gone, runs) => Late(p, sdk, steers, gone, R)
       /\ DrainInv(store, sdk, steers) => DrainInv(p, sdk, steers)
  BY <1>8, <1>10, <1>15, <1>16, <1>17 DEF PumpedOut
<1>19. RestOK'
  BY <1>1, <1>2, <1>5 DEF RestOK, Run, calls, fates, counts
<1>20. \A u \in Threads : p.run[u] <= Len(R)
  BY <1>2, <1>5, <1>18
<1>21. /\ steers' = steers /\ gone' = gone /\ sent' = sent /\ withdrawn' = withdrawn
       /\ returned' = returned /\ upsets' = upsets /\ overtaken' = overtaken /\ runs' = R
  BY <1>1 DEF calls, fates, counts
<1>22. sdk \in [Threads -> Shown(Len(R))]
  BY <1>2, <1>5
<1>23. becomes(p, sdk)
  BY <1>1
<1> QED BY <1>2, <1>3, <1>18, <1>19, <1>20, <1>21, <1>22, <1>23, StepKeeps

(* A submission has failed: its input is back at the front of the queue, or *)
(* no longer in the store.                                                  *)
LEMMA PutBackFacts ==
  ASSUME StoreInv, NEW x \in store.inflight
  PROVE  LET t == x.thread
             back == x.queued /\ current(x)
             s == [store EXCEPT !.inflight = @ \ {x},
                                !.queued[t] = IF back THEN <<x.input>> \o @ ELSE @]
         IN  /\ Landed(s, x) /\ s.run = store.run /\ s.active = store.active
             /\ HeldInv(s, sent)
             /\ held(s) = IF back THEN held(store) ELSE held(store) \ {x.input}
             /\ \A u \in Threads : s.queued[u] # <<>> => u \in s.live
<1> DEFINE t == x.thread
           i == x.input
           back == x.queued /\ current(x)
           f == store.inflight \ {x}
           b == IF back THEN <<i>> \o store.queued[t] ELSE store.queued[t]
           q == [store.queued EXCEPT ![t] = b]
           l == [store EXCEPT !.inflight = f]
           s == [store EXCEPT !.inflight = @ \ {x},
                              !.queued[t] = IF back THEN <<i>> \o @ ELSE @]
<1>1. /\ store \in Store /\ HeldInv(store, sent) /\ EntryInv(store, sdk)
      /\ t \in Threads /\ i \in Inputs /\ store.queued \in [Threads -> Seq(Inputs)]
      /\ f \in SUBSET Submission
  BY InvFacts, StoreFields DEF Mid, GoodInv
<1>2. /\ l \in Store /\ l.inflight = f /\ l.run = store.run
      /\ l.live = store.live /\ l.epoch = store.epoch /\ l.queued = store.queued
      /\ l.steering = store.steering /\ l.hydration = store.hydration
      /\ l.active = store.active /\ l.pending = store.pending
  <2> HIDE DEF f
  <2> QED BY <1>1 DEF Store
<1> HIDE DEF l
<1>3. Landed(l, x)
  BY <1>2 DEF Landed
<1>4. /\ HeldInv(l, sent) /\ held(l) = held(store) \ {i}
      /\ i \in held(store) /\ i \in DOMAIN sent /\ sent[i] = t
  BY <1>2, <1>3, LandedFacts
<1>5. b \in Seq(Inputs)
  BY <1>1
<1>6. /\ q \in [Threads -> Seq(Inputs)] /\ q[t] = b
      /\ \A u \in Threads \ {t} : q[u] = store.queued[u]
  <2> HIDE DEF b
  <2> QED BY <1>1, <1>5
<1>7. s = [store EXCEPT !.inflight = f, !.queued = q]
  BY <1>1 DEF Store
<1> HIDE DEF s, q, f
<1>8. /\ s \in Store /\ s.inflight = f /\ s.queued = q /\ s.run = store.run
      /\ s.live = store.live /\ s.epoch = store.epoch
      /\ s.steering = store.steering /\ s.hydration = store.hydration
      /\ s.active = store.active /\ s.pending = store.pending
  BY <1>1, <1>6, <1>7 DEF Store
<1>9. Landed(s, x)
  BY <1>8 DEF Landed, f
<1>10. HeldInv(s, sent) /\ held(s) = IF back THEN held(store) ELSE held(store) \ {i}
  <2>1. CASE back
    <3>1. /\ s.queued[t] = <<i>> \o l.queued[t]
          /\ \A u \in Threads \ {t} : s.queued[u] = l.queued[u]
          /\ s.inflight = l.inflight /\ i \notin held(l)
      BY <2>1, <1>2, <1>4, <1>6, <1>8
    <3>2. /\ l.queued[t] \in Seq(Inputs) /\ IsInjective(l.queued[t])
          /\ i \notin ToSet(l.queued[t])
      BY <3>1, <1>1, <1>2, <1>4, LinedFacts DEF HeldInv, held
    <3>3. IsInjective(s.queued[t]) /\ ToSet(s.queued[t]) = ToSet(l.queued[t]) \cup {i}
      BY <3>1, <3>2, <1>1, PutBackSeq
    <3>4. PutIn(l, s, t, i)
      BY <3>1, <3>3 DEF PutIn
    <3>5. HeldInv(s, sent) /\ held(s) = held(l) \cup {i}
      BY <3>1, <3>4, <1>1, <1>2, <1>4, <1>8, PushHeld
    <3> QED BY <2>1, <3>5, <1>4
  <2>2. CASE ~back
    <3>1. s.queued[t] = store.queued[t]
      BY <2>2, <1>6, <1>8
    <3>2. s.queued = store.queued
      BY <3>1, <1>1, <1>6, <1>8
    <3> QED BY <2>2, <3>2, <1>9, LandedFacts
  <2> QED BY <2>1, <2>2
<1>11. ASSUME NEW u \in Threads, s.queued[u] # <<>> PROVE u \in s.live
  <2>1. CASE u = t /\ back
    BY <2>1, <1>8 DEF current
  <2>2. CASE ~(u = t /\ back)
    <3>1. s.queued[u] = store.queued[u]
      BY <2>2, <1>6, <1>8
    <3> QED BY <3>1, <1>1, <1>8, <1>11 DEF EntryInv
  <2> QED BY <2>1, <2>2
<1> QED BY <1>8, <1>9, <1>10, <1>11 DEF s

LEMMA SubmitFailsKeeps ==
  ASSUME StoreInv, NEW x \in store.inflight, SubmitFails(x)
  PROVE  StoreInv'
<1> DEFINE t == x.thread
           i == x.input
           back == x.queued /\ current(x)
           s == [store EXCEPT !.inflight = @ \ {x},
                              !.queued[t] = IF x.queued /\ current(x) THEN <<x.input>> \o @ ELSE @]
           free == t \in s.active /\ ~(current(x) /\ s.run[t] # NoRun)
           a == [s EXCEPT !.active = @ \ {t}]
           p == pumpRunQueue(a, sdk)
           R == unanswered(x)
<1>1. /\ IF free THEN becomes(p, sdk) ELSE becomes(s, sdk)
      /\ upsets' = upsets + 1
      /\ returned' = IF x.queued THEN returned ELSE returned \cup {i}
      /\ runs' = R
      /\ UNCHANGED <<calls, gone, withdrawn, sent, asides, overtaken>>
  BY DEF SubmitFails, upset
<1>1a. /\ R \in Runs /\ Len(R) = Len(runs) /\ DOMAIN R = DOMAIN runs
       /\ RunsInv(R, sent) /\ deliveredBy(R) = deliveredBy(runs)
       /\ \A q \in DOMAIN R : R[q].answer = "due" => R[q].input # i
       /\ Late(store, sdk, steers, gone, runs) => Late(store, sdk, steers, gone, R)
  BY UnansweredFacts
<1> HIDE DEF R
<1>2. /\ Mid(store, sdk, steers, sent, gone) /\ store \in Store
      /\ sdk \in [Threads -> Shown(Len(R))]
      /\ \A u \in Threads : store.run[u] <= Len(R)
      /\ RestOK /\ R \in Runs /\ Len(R) = Len(runs)
      /\ RunsInv(R, sent) /\ ApartInv(held(store), R, withdrawn, returned, sent)
      /\ overtaken \/ (/\ LossInv(held(store), R, withdrawn, returned, sent, gone)
                       /\ Late(store, sdk, steers, gone, R))
  <2>1. /\ Mid(store, sdk, steers, sent, gone) /\ store \in Store /\ RestOK
        /\ sdk \in [Threads -> Shown(Len(runs))]
        /\ \A u \in Threads : store.run[u] <= Len(runs)
        /\ ApartInv(held(store), runs, withdrawn, returned, sent)
        /\ overtaken \/ (/\ LossInv(held(store), runs, withdrawn, returned, sent, gone)
                         /\ Late(store, sdk, steers, gone, runs))
    BY InvFacts
  <2>2. ApartInv(held(store), R, withdrawn, returned, sent)
    BY <2>1, <1>1a DEF ApartInv
  <2>3. LossInv(held(store), runs, withdrawn, returned, sent, gone)
        => LossInv(held(store), R, withdrawn, returned, sent, gone)
    BY <1>1a DEF LossInv
  <2> QED BY <2>1, <2>2, <2>3, <1>1a
<1>3. /\ Landed(s, x) /\ s.run = store.run /\ s.active = store.active
      /\ HeldInv(s, sent)
      /\ held(s) = IF back THEN held(store) ELSE held(store) \ {i}
      /\ \A u \in Threads : s.queued[u] # <<>> => u \in s.live
  BY PutBackFacts
<1> HIDE DEF s
<1>4. /\ s \in Store /\ s.live = store.live /\ s.epoch = store.epoch /\ s.steering = store.steering
      /\ s.pending = store.pending
      /\ \A y \in store.inflight : y # x => y \in s.inflight
      /\ \A y \in s.inflight : y \in store.inflight /\ y # x
  BY <1>3 DEF Landed
<1>5. Freed(s, a, t)
  BY <1>4, FreedFacts
<1> HIDE DEF a
<1>6. /\ t \in Threads /\ i \in Inputs /\ store.live \in SUBSET Threads
      /\ i \in held(store) /\ i \in DOMAIN sent /\ sent[i] = t
  <2>1. t \in Threads /\ i \in Inputs /\ store.live \in SUBSET Threads
    BY <1>2, StoreFields
  <2>2. i \in held(store) /\ i \in DOMAIN sent /\ sent[i] = t
    BY <1>2 DEF Mid, GoodInv, HeldInv, held, flown
  <2> QED BY <2>1, <2>2
<1>7. \A u \in store.live : u # t \/ ~current(x) => (onItsWay(store, u) => onItsWay(s, u))
  <2> SUFFICES ASSUME NEW u \in store.live, u # t \/ ~current(x), NEW y \in store.inflight,
                      y.thread = u /\ y.epoch = store.epoch[u]
               PROVE  onItsWay(s, u)
    BY DEF onItsWay
  <2>1. y # x
    BY DEF current
  <2>2. y \in s.inflight
    BY <2>1, <1>4
  <2> QED BY <2>2, <1>4 DEF onItsWay
<1> DEFINE r == IF free THEN a ELSE s
<1>8. /\ r \in Store /\ r.run = store.run /\ r.live = store.live /\ r.epoch = store.epoch
      /\ r.queued = s.queued /\ r.steering = store.steering /\ r.inflight = s.inflight
      /\ r.pending = store.pending
      /\ \A u \in Threads : u # t => (u \in r.active <=> u \in store.active)
      /\ r.active \subseteq store.active
      /\ t \in r.active => current(x) /\ store.run[t] # NoRun
  <2>1. CASE free
    BY <2>1, <1>3, <1>4, <1>5 DEF Freed
  <2>2. CASE ~free
    BY <2>2, <1>3, <1>4
  <2> QED BY <2>1, <2>2
<1>9. /\ IsFiniteSet(r.active)
      /\ Cardinality(store.active) <= maxParallelRuns => Cardinality(r.active) <= maxParallelRuns
  <2>1. IsFiniteSet(store.active) /\ IsFiniteSet(s.active)
    BY <1>2, <1>3 DEF Mid, GoodInv, EntryInv
  <2>2. /\ IsFiniteSet(a.active)
        /\ Cardinality(s.active) <= maxParallelRuns => Cardinality(a.active) <= maxParallelRuns
    BY <2>1, <1>5, FewerSlots
  <2> QED BY <2>1, <2>2, <1>3
<1>10. held(r) = held(s) /\ lined(r) = lined(s)
  BY <1>8 DEF held, lined, flown
<1>11. HeldInv(r, sent)
  BY <1>3, <1>8, <1>10 DEF HeldInv
<1> HIDE DEF r
<1>12. Mid(r, sdk, steers, sent, gone)
  <2>1. \A u \in Threads :
          r.queued[u] # <<>> \/ r.run[u] # NoRun \/ r.steering[u] \/ u \in r.active => u \in r.live
    BY <1>2, <1>3, <1>4, <1>8 DEF Mid, GoodInv, EntryInv
  <2>2. \A u \in r.live : r.run[u] # NoRun \/ sdk[u].loading => sdk[u].run # NoRun
    BY <1>2, <1>8 DEF Mid, GoodInv, EntryInv
  <2>3. ASSUME NEW u \in r.active PROVE engaged(r, sdk, u)
    <3>1. u \in store.active /\ u \in Threads /\ u \in store.live
      BY <1>2, <1>8, StoreFields DEF Mid, GoodInv, EntryInv
    <3>2. CASE u = t
      <4>1. store.run[t] # NoRun
        BY <2>3, <3>2, <1>8
      <4> QED BY <3>1, <3>2, <4>1, <1>2 DEF Mid, GoodInv, EntryInv, engaged
    <3>3. CASE u # t
      <4>1. onItsWay(store, u) => onItsWay(r, u)
        BY <3>1, <3>3, <1>4, <1>7, <1>8 DEF onItsWay
      <4> QED BY <3>1, <4>1, <1>2 DEF Mid, GoodInv, EntryInv, engaged
    <3> QED BY <3>2, <3>3
  <2>4. EntryInv(r, sdk)
    BY <2>1, <2>2, <2>3, <1>9 DEF EntryInv
  <2>5. SteeringInv(r, steers) /\ EpochInv(r, steers)
    BY <1>2, <1>8 DEF Mid, GoodInv, SteeringInv, EpochInv, steered
  <2> QED BY <2>4, <2>5, <1>2, <1>8, <1>11 DEF Mid, GoodInv, StoreOK
<1>13. ASSUME Late(store, sdk, steers, gone, R)
       PROVE  t \in gone \/ (t \in store.live /\ current(x))
  <2> SUFFICES ASSUME t \notin gone PROVE t \in store.live /\ current(x)
    OBVIOUS
  <2>1. t \in store.active /\ x.epoch = store.epoch[t]
    BY <1>13 DEF Late, TurnInv
  <2>2. t \in store.live
    BY <2>1, <1>2, <1>6 DEF Mid, GoodInv, EntryInv
  <2> QED BY <2>1, <2>2 DEF current
<1>14. ASSUME Late(store, sdk, steers, gone, R) PROVE Late(r, sdk, steers, gone, R)
  <2>1. \A y \in r.inflight : y \in store.inflight /\ (y.thread \in gone \/ y.thread # t)
    BY <1>4, <1>8, <1>14 DEF Late, TurnInv
  <2>2. TurnInv(r, gone)
    <3>1. Cardinality(r.active) <= maxParallelRuns
      BY <1>9, <1>14 DEF Late, TurnInv
    <3>2. \A y \in r.inflight :
            y.thread \in gone \/ (y.thread \in r.active /\ y.epoch = r.epoch[y.thread])
      <4> SUFFICES ASSUME NEW y \in r.inflight, y.thread \notin gone
                   PROVE  y.thread \in r.active /\ y.epoch = r.epoch[y.thread]
        OBVIOUS
      <4>1. y \in store.inflight /\ y.thread # t /\ y.thread \in Threads
        BY <2>1, <1>2, StoreFields
      <4> QED BY <4>1, <1>8, <1>14 DEF Late, TurnInv
    <3> QED BY <3>1, <3>2, <2>1, <1>14 DEF Late, TurnInv
  <2>3. ShownInv(r, sdk, gone, R)
    <3>1. ASSUME NEW u \in r.live, ours(R, sdk[u].run)
          PROVE  r.run[u] = sdk[u].run /\ (sdk[u].loading => u \in r.active)
      <4>1. /\ u \in store.live /\ u \in Threads /\ store.run[u] = sdk[u].run /\ sdk[u].run # NoRun
            /\ sdk[u].loading => u \in store.active
        BY <3>1, <1>6, <1>8, <1>14 DEF Late, ShownInv, ours
      <4>2. CASE u # t
        BY <4>1, <4>2, <1>8
      <4>3. CASE u = t
        <5>1. t \notin gone
          BY <4>1, <4>3, <1>2 DEF Mid
        <5>2. current(x)
          BY <5>1, <1>13, <1>14
        <5>3. ~free
          BY <5>2, <4>1, <4>3, <1>3
        <5> QED BY <4>1, <4>3, <5>3, <1>3, <1>8 DEF r
      <4> QED BY <4>2, <4>3
    <3> QED BY <3>1, <1>8, <1>14 DEF Late, ShownInv
  <2>4. HaltInv(r, sdk, steers, R)
    BY <1>8, <1>14 DEF Late, HaltInv
  <2>5. AwaitedInv(r, steers, gone, R)
    <3> SUFFICES ASSUME NEW q \in DOMAIN R, R[q].answer = "due", R[q].thread \notin gone
                 PROVE  awaited(r, steers, R, q)
      BY DEF AwaitedInv
    <3>1. awaited(store, steers, R, q) /\ R[q].input # i
      BY <1>1a, <1>14 DEF Late, AwaitedInv
    <3>2. \E y \in r.inflight : y.thread = R[q].thread /\ y.input = R[q].input
      BY <3>1, <1>4, <1>8 DEF awaited
    <3> QED BY <3>1, <3>2, <1>8 DEF awaited
  <2> QED BY <2>2, <2>3, <2>4, <2>5 DEF Late
<1> DEFINE B == IF x.queued THEN returned ELSE returned \cup {i}
<1>15. ApartInv(held(r), R, withdrawn, B, sent)
  <2>1. i \notin deliveredBy(R) /\ i \notin withdrawn \cup returned
    BY <1>2, <1>6 DEF ApartInv
  <2>2. CASE x.queued
    <3>1. B = returned /\ held(r) \subseteq held(store)
      BY <2>2, <1>3, <1>10
    <3> QED BY <3>1, <1>2 DEF ApartInv
  <2>3. CASE ~x.queued
    <3>1. B = returned \cup {i} /\ held(r) = held(store) \ {i}
      BY <2>3, <1>3, <1>10
    <3> QED BY <2>1, <3>1, <1>2, <1>6 DEF ApartInv
  <2> QED BY <2>2, <2>3
<1>16. ASSUME Late(store, sdk, steers, gone, R),
              LossInv(held(store), R, withdrawn, returned, sent, gone)
       PROVE  LossInv(held(r), R, withdrawn, B, sent, gone)
  <2> SUFFICES ASSUME NEW j \in DOMAIN sent,
                      j \notin held(r) \cup deliveredBy(R) \cup withdrawn \cup B
               PROVE  sent[j] \in gone
    BY DEF LossInv
  <2>1. CASE j \in held(store)
    <3>1. j = i /\ ~back /\ x.queued
      BY <2>1, <1>3, <1>10
    <3>2. t \in gone
      BY <3>1, <1>13, <1>16
    <3> QED BY <3>1, <3>2, <1>6
  <2>2. CASE j \notin held(store)
    BY <2>2, <1>16 DEF LossInv
  <2> QED BY <2>1, <2>2
<1>17. upsets' # 0
  BY <1>1, <1>2 DEF RestOK
<1>18. RestOK'
  BY <1>1, <1>2, <1>6 DEF RestOK, Run, calls
<1>19. /\ steers' = steers /\ gone' = gone /\ sent' = sent /\ withdrawn' = withdrawn
       /\ returned' = B /\ overtaken' = overtaken /\ runs' = R
  BY <1>1 DEF calls
<1>20. \A u \in Threads : r.run[u] <= Len(R)
  BY <1>2, <1>8
<1> HIDE DEF B
<1>21. overtaken \/ (/\ LossInv(held(r), R, withdrawn, B, sent, gone)
                     /\ Late(r, sdk, steers, gone, R))
  BY <1>2, <1>14, <1>16
<1>22. CASE free
  <2>1. r = a
    BY <1>22 DEF r
  <2>2. PumpedOut(r, p, sdk, steers, sent, gone)
    BY <2>1, <1>12, PumpRunQueueKeeps
  <2>3. becomes(p, sdk)
    BY <1>22, <1>1
  <2> HIDE DEF p, free
  <2>4. /\ Mid(p, sdk, steers, sent, gone) /\ held(p) = held(r) /\ p.run = r.run
        /\ Late(r, sdk, steers, gone, R) => Late(p, sdk, steers, gone, R)
    BY <2>2 DEF PumpedOut
  <2> QED BY <2>3, <2>4, <1>2, <1>15, <1>17, <1>18, <1>19, <1>20, <1>21, StepKeeps
<1>23. CASE ~free
  <2>1. r = s
    BY <1>23 DEF r
  <2>2. becomes(r, sdk)
    BY <2>1, <1>23, <1>1
  <2> HIDE DEF free
  <2> QED BY <2>2, <1>2, <1>12, <1>15, <1>17, <1>18, <1>19, <1>20, <1>21, StepKeeps
<1> QED BY <1>22, <1>23

(* A run is over: its thread shows nothing but a decision to be made.       *)
LEMMA CompletedKeeps ==
  ASSUME StoreInv, NEW t \in Threads, NEW interrupt \in BOOLEAN, Completed(t, interrupt)
  PROVE  StoreInv'
<1> DEFINE e == [still EXCEPT !.interrupt = interrupt]
           k == [sdk EXCEPT ![t] = [still EXCEPT !.interrupt = interrupt]]
           m == [store.run EXCEPT ![t] = NoRun]
           a == store.active \ {t}
           s == [store EXCEPT !.run[t] = NoRun, !.active = @ \ {t}]
           q == drainQueued(s, k, t)
           d == disposeIdleController(q, k, t)
<1>1. PICK ts \in evictions(d, k, {}) : becomes(pumpRunQueue(disposeController(d, ts), k), k)
  BY DEF Completed
<1> DEFINE g == disposeController(d, ts)
           p == pumpRunQueue(g, k)
           ti == {t} \cap idle(q, k)
<1>2. /\ t \in store.live /\ sdk[t].run # NoRun /\ runs[sdk[t].run].ended
      /\ \A x \in store.inflight : x.thread # t
      /\ UNCHANGED <<calls, gone, runs, fates, counts, overtaken>>
  BY DEF Completed
<1>3. /\ Mid(store, sdk, steers, sent, gone) /\ store \in Store
      /\ sdk \in [Threads -> Shown(Len(runs))]
      /\ \A u \in Threads : store.run[u] <= Len(runs)
      /\ RestOK /\ Len(runs) \in Nat /\ DOMAIN runs \subseteq Nat \ {0}
      /\ \A x \in steers : x.thread \in Threads
      /\ \A r \in DOMAIN runs : runs[r].thread \in Threads
      /\ RunsInv(runs, sent) /\ ApartInv(held(store), runs, withdrawn, returned, sent)
      /\ upsets = 0 => DrainInv(store, sdk, steers)
      /\ overtaken \/ (/\ LossInv(held(store), runs, withdrawn, returned, sent, gone)
                       /\ Late(store, sdk, steers, gone, runs))
  BY InvFacts
<1>4. /\ e \in Shown(Len(runs)) /\ e.run = NoRun /\ ~e.loading
  <2>1. NoRun \in 0 .. Len(runs)
    BY <1>3 DEF NoRun
  <2>2. still \in Shown(Len(runs)) /\ still.run = NoRun /\ ~still.loading
    BY <2>1 DEF still, Shown
  <2> QED BY <2>2 DEF Shown
<1>5. /\ k[t] = e /\ \A u \in Threads \ {t} : k[u] = sdk[u]
      /\ k \in [Threads -> Shown(Len(runs))]
  <2> HIDE DEF e
  <2>1. k = [sdk EXCEPT ![t] = e]
    BY DEF e
  <2> HIDE DEF k
  <2> QED BY <2>1, <1>3, <1>4
<1> HIDE DEF k, e
<1>6. /\ s \in Store /\ s.run = m /\ s.active = a
      /\ s.live = store.live /\ s.epoch = store.epoch /\ s.queued = store.queued
      /\ s.steering = store.steering /\ s.hydration = store.hydration
      /\ s.pending = store.pending /\ s.inflight = store.inflight
  <2>1. a \in SUBSET Threads /\ store.run \in [Threads -> Nat]
    BY <1>3, StoreFields
  <2>2. m \in [Threads -> Nat]
    BY <2>1 DEF NoRun
  <2>3. s = [store EXCEPT !.run = m, !.active = a]
    BY <1>3 DEF Store
  <2> HIDE DEF s, a, m
  <2> QED BY <2>1, <2>2, <2>3, <1>3 DEF Store
<1>7. s.run[t] = NoRun /\ \A u \in Threads \ {t} : s.run[u] = store.run[u]
  <2>1. store.run \in [Threads -> Nat]
    BY <1>3, StoreFields
  <2> QED BY <2>1, <1>6
<1> HIDE DEF s, m
<1>8. /\ IsFiniteSet(s.active)
      /\ Cardinality(store.active) <= maxParallelRuns => Cardinality(s.active) <= maxParallelRuns
  <2>1. IsFiniteSet(store.active) /\ s.active \in SUBSET store.active
    BY <1>3, <1>6 DEF Mid, GoodInv, EntryInv
  <2>2. /\ IsFiniteSet(s.active) /\ Cardinality(s.active) <= Cardinality(store.active)
        /\ Cardinality(s.active) \in Nat /\ Cardinality(store.active) \in Nat
    BY <2>1, FS_Subset, FS_CardinalityType
  <2> QED BY <2>2, SlotsAssumption
<1>9. \A u : u \in s.active => u \in store.active /\ u # t /\ u \in Threads
  BY <1>3, <1>6, StoreFields
<1>10. store.live \in SUBSET Threads
  BY <1>3, StoreFields
<1>11. \A u \in Threads \ {t} : engaged(store, sdk, u) => engaged(s, k, u)
  BY <1>5, <1>6 DEF engaged, onItsWay
<1>12. Mid(s, k, steers, sent, gone)
  <2>1. ASSUME NEW u \in Threads,
               s.queued[u] # <<>> \/ s.run[u] # NoRun \/ s.steering[u] \/ u \in s.active
        PROVE  u \in s.live
    <3>1. CASE u = t
      BY <3>1, <1>2, <1>6
    <3>2. CASE u # t
      BY <3>2, <2>1, <1>3, <1>6, <1>7, <1>9 DEF Mid, GoodInv, EntryInv
    <3> QED BY <3>1, <3>2
  <2>2. ASSUME NEW u \in s.live, s.run[u] # NoRun \/ k[u].loading PROVE k[u].run # NoRun
    <3>1. u # t
      BY <2>2, <1>4, <1>5, <1>7
    <3> QED BY <3>1, <2>2, <1>3, <1>5, <1>6, <1>7, <1>10 DEF Mid, GoodInv, EntryInv
  <2>3. \A u \in s.active : engaged(s, k, u)
    BY <1>3, <1>9, <1>11 DEF Mid, GoodInv, EntryInv
  <2>4. EntryInv(s, k)
    BY <2>1, <2>2, <2>3, <1>8 DEF EntryInv
  <2>5. held(s) = held(store) /\ lined(s) = lined(store)
    BY <1>6 DEF held, lined, flown
  <2>6. HeldInv(s, sent)
    BY <2>5, <1>3, <1>6 DEF Mid, GoodInv, HeldInv
  <2>7. SteeringInv(s, steers) /\ EpochInv(s, steers)
    BY <1>3, <1>6 DEF Mid, GoodInv, SteeringInv, EpochInv, steered
  <2> QED BY <2>4, <2>6, <2>7, <1>3, <1>6 DEF Mid, GoodInv, StoreOK
<1>13. held(s) = held(store)
  BY <1>6 DEF held, lined, flown
<1>14. ASSUME Late(store, sdk, steers, gone, runs) PROVE Late(s, k, steers, gone, runs)
  <2>1. TurnInv(s, gone)
    <3>1. Cardinality(s.active) <= maxParallelRuns
      BY <1>8, <1>14 DEF Late, TurnInv
    <3>2. \A x \in s.inflight :
            x.thread \in gone \/ (x.thread \in s.active /\ x.epoch = s.epoch[x.thread])
      BY <1>2, <1>6, <1>14 DEF Late, TurnInv
    <3> QED BY <3>1, <3>2, <1>6, <1>14 DEF Late, TurnInv
  <2>2. ~ours(runs, k[t].run) /\ ~k[t].loading
    BY <1>4, <1>5 DEF ours
  <2>3. ShownInv(s, k, gone, runs)
    <3>1. ASSUME NEW r \in DOMAIN runs, runs[r].answer = "given" /\ ~runs[r].ended
          PROVE  runs[r].thread \in gone \/ (runs[r].thread \in s.live /\ k[runs[r].thread].run = r)
      <4>1. \/ runs[r].thread \in gone
            \/ runs[r].thread \in store.live /\ sdk[runs[r].thread].run = r
        BY <3>1, <1>14 DEF Late, ShownInv
      <4>2. CASE runs[r].thread \in store.live /\ sdk[runs[r].thread].run = r
        <5>1. runs[r].thread # t
          BY <4>2, <3>1, <1>2
        <5> QED BY <5>1, <4>2, <1>5, <1>6, <1>10
      <4> QED BY <4>1, <4>2
    <3>2. \A u \in s.live : ours(runs, k[u].run) =>
            s.run[u] = k[u].run /\ (k[u].loading => u \in s.active)
      BY <2>2, <1>5, <1>6, <1>7, <1>10, <1>14 DEF Late, ShownInv
    <3>3. \A u \in s.live : k[u].run # NoRun => runs[k[u].run].thread = u
      BY <1>4, <1>5, <1>6, <1>10, <1>14 DEF Late, ShownInv
    <3> QED BY <3>1, <3>2, <3>3 DEF ShownInv
  <2>4. HaltInv(s, k, steers, runs)
    BY <2>2, <1>5, <1>6, <1>10, <1>14 DEF Late, HaltInv
  <2>5. AwaitedInv(s, steers, gone, runs)
    <3>1. ASSUME NEW r \in DOMAIN runs, awaited(store, steers, runs, r), runs[r].thread \in Threads
          PROVE  awaited(s, steers, runs, r)
      <4>1. s.run[runs[r].thread] < r
        BY <3>1, <1>3, <1>7 DEF awaited, NoRun
      <4> QED BY <3>1, <4>1, <1>6 DEF awaited
    <3> QED BY <3>1, <1>3, <1>14 DEF Late, AwaitedInv
  <2> QED BY <2>1, <2>3, <2>4, <2>5 DEF Late
<1>15. ASSUME DrainInv(store, sdk, steers)
       PROVE  Waiting(s, k, steers, ToSet(s.pending) \cup {t})
  <2> SUFFICES ASSUME NEW u \in Threads, drainable(s, k, u), u # t
               PROVE  engaged(s, k, u) \/ steered(s, steers, u) \/ u \in ToSet(s.pending)
    BY DEF Waiting
  <2>1. drainable(store, sdk, u)
    BY <1>5, <1>6 DEF drainable, occupied
  <2> QED BY <2>1, <1>6, <1>11, <1>15 DEF DrainInv, steered
<1>16. Drained(s, q, t, k, steers, sent, gone)
  BY <1>12, DrainQueuedKeeps
<1> HIDE DEF q
<1>17. Disposed(q, d, ti, k, steers, sent, gone)
  BY <1>16, DisposeIdle DEF Drained
<1>18. ts \in SUBSET idle(d, k)
  BY DEF evictions
<1> HIDE DEF d, ti
<1>19. Disposed(d, g, ts, k, steers, sent, gone)
  BY <1>17, <1>18, DisposeKeeps DEF Disposed
<1> HIDE DEF g
<1>20. PumpedOut(g, p, k, steers, sent, gone)
  BY <1>19, PumpRunQueueKeeps DEF Disposed
<1> HIDE DEF p
<1>21. Mid(p, k, steers, sent, gone) /\ held(p) = held(store) /\ p.run = s.run
  BY <1>13, <1>16, <1>17, <1>19, <1>20 DEF Drained, Disposed, PumpedOut
<1>22. Late(store, sdk, steers, gone, runs) => Late(p, k, steers, gone, runs)
  BY <1>3, <1>14, <1>16, <1>17, <1>19, <1>20 DEF Drained, Disposed, PumpedOut
<1>23. DrainInv(store, sdk, steers) => DrainInv(p, k, steers)
  <2> SUFFICES ASSUME DrainInv(store, sdk, steers) PROVE DrainInv(p, k, steers)
    OBVIOUS
  <2>1. Waiting(q, k, steers, ToSet(q.pending))
    BY <1>15, <1>16 DEF Drained
  <2>2. Waiting(g, k, steers, ToSet(g.pending))
    BY <2>1, <1>17, <1>19 DEF Disposed
  <2> QED BY <2>2, <1>20 DEF PumpedOut
<1>24. RestOK'
  BY <1>2, <1>3 DEF RestOK, Run, calls, fates, counts
<1>25. becomes(p, k)
  BY <1>1 DEF p, g, d, q, s, k
<1>26. /\ steers' = steers /\ gone' = gone /\ sent' = sent /\ withdrawn' = withdrawn
       /\ returned' = returned /\ upsets' = upsets /\ overtaken' = overtaken /\ runs' = runs
  BY <1>2 DEF calls, fates, counts
<1>27. \A u \in Threads : p.run[u] <= Len(runs)
  BY <1>3, <1>7, <1>21 DEF NoRun
<1> QED BY <1>3, <1>5, <1>21, <1>22, <1>23, <1>24, <1>25, <1>26, <1>27, StepKeeps

(* A controller stops loading, if it is the one that was meant.             *)
HaltedTo(k, S) ==
  /\ Mid(store, k, S, sent, gone) /\ k \in [Threads -> Shown(Len(runs))]
  /\ becomes(store, k) <=> (store' = store /\ sdk' = k)
  /\ Late(store, sdk, steers, gone, runs) => Late(store, k, S, gone, runs)
  /\ DrainInv(store, sdk, steers) => DrainInv(store, k, S)
LEMMA HaltedKeeps ==
  ASSUME StoreInv, NEW x, x.thread \in Threads, NEW S,
         \A y \in S : y \in steers \/ (/\ x \in steers /\ y.thread = x.thread
                                       /\ y.epoch = x.epoch /\ y.run = x.run),
         \A y \in steers : \E z \in S : z.thread = y.thread /\ z.epoch = y.epoch
  PROVE  HaltedTo(halted(x), S)
<1> DEFINE t == x.thread
           b == sdk[t].loading /\ ~current(x)
           a == [sdk[t] EXCEPT !.loading = b]
           k == halted(x)
<1>1. /\ Mid(store, sdk, steers, sent, gone) /\ store \in Store
      /\ sdk \in [Threads -> Shown(Len(runs))]
      /\ \A y \in steers : y.thread \in Threads /\ y.epoch \in Nat
      /\ \A u \in Threads \ store.live : sdk[u] = still
  BY InvFacts
<1>2. store.live \in SUBSET Threads /\ store.active \in SUBSET Threads /\ t \in Threads
  BY <1>1, StoreFields
<1>3. k = [sdk EXCEPT ![t] = a]
  BY <1>1 DEF halted
<1>4. /\ a \in Shown(Len(runs)) /\ a.run = sdk[t].run /\ a.interrupt = sdk[t].interrupt
      /\ a.loading <=> b
  <2>1. sdk[t] \in Shown(Len(runs)) /\ b \in BOOLEAN
    BY <1>1, <1>2
  <2> HIDE DEF b
  <2> QED BY <2>1 DEF Shown
<1> HIDE DEF a, k
<1>5. /\ k \in [Threads -> Shown(Len(runs))] /\ k[t] = a
      /\ \A u \in Threads \ {t} : k[u] = sdk[u]
  BY <1>1, <1>2, <1>3, <1>4
<1>6. \A u \in Threads : /\ k[u].run = sdk[u].run /\ k[u].interrupt = sdk[u].interrupt
                         /\ k[u].loading => sdk[u].loading
                         /\ k[u].loading /\ u = t => ~current(x)
  <2>1. ASSUME NEW u \in Threads, u # t PROVE k[u] = sdk[u]
    BY <2>1, <1>5
  <2> QED BY <2>1, <1>4, <1>5
<1>7. ASSUME NEW u \in Threads \ store.live PROVE k[u] = still
  <2>1. CASE u # t
    BY <2>1, <1>1, <1>5
  <2>2. CASE u = t
    <3>1. sdk[t] = still /\ ~still.loading
      BY <2>2, <1>1 DEF still
    <3>2. ~b
      BY <3>1
    <3>3. a = [still EXCEPT !.loading = b] /\ b = FALSE
      BY <3>1, <3>2 DEF a
    <3>4. a = still
      BY <3>3 DEF still
    <3> QED BY <2>2, <3>4, <1>5
  <2> QED BY <2>1, <2>2
<1>8. ASSUME store' = store, sdk' = k PROVE becomes(store, k)
  <2>1. \A u \in Threads : k[u] = IF u \in store.live THEN k[u] ELSE still
    BY <1>7
  <2>2. k = [u \in Threads |-> IF u \in store.live THEN k[u] ELSE still]
    BY <2>1, <1>5
  <2> QED BY <2>2, <1>8 DEF becomes
<1>9. ASSUME becomes(store, k) PROVE store' = store /\ sdk' = k
  <2>1. \A u \in Threads : k[u] = IF u \in store.live THEN k[u] ELSE still
    BY <1>7
  <2>2. k = [u \in Threads |-> IF u \in store.live THEN k[u] ELSE still]
    BY <2>1, <1>5
  <2> QED BY <2>2, <1>9 DEF becomes
<1>10. \A u \in Threads : engaged(store, k, u) <=> engaged(store, sdk, u)
  BY <1>6 DEF engaged
<1>11. \A u : steered(store, steers, u) => steered(store, S, u)
  BY DEF steered
<1>12. Mid(store, k, S, sent, gone)
  <2>1. EntryInv(store, k)
    BY <1>1, <1>2, <1>6, <1>10 DEF Mid, GoodInv, EntryInv
  <2>2. SteeringInv(store, S)
    BY <1>1, <1>11 DEF Mid, GoodInv, SteeringInv
  <2>3. EpochInv(store, S)
    <3>1. \A y \in steers : y.epoch <= store.epoch[y.thread]
      BY <1>1 DEF Mid, GoodInv, EpochInv
    <3> QED BY <3>1 DEF EpochInv
  <2> QED BY <2>1, <2>2, <2>3, <1>1 DEF Mid, GoodInv
<1>13. ASSUME Late(store, sdk, steers, gone, runs) PROVE Late(store, k, S, gone, runs)
  <2>1. ShownInv(store, k, gone, runs)
    <3>1. \A u \in store.live : k[u].run # NoRun => runs[k[u].run].thread = u
      BY <1>2, <1>6, <1>13 DEF Late, ShownInv
    <3>2. \A r \in DOMAIN runs : runs[r].answer = "given" /\ ~runs[r].ended =>
            \/ runs[r].thread \in gone
            \/ runs[r].thread \in store.live /\ k[runs[r].thread].run = r
      BY <1>2, <1>6, <1>13 DEF Late, ShownInv
    <3>3. \A u \in store.live : ours(runs, k[u].run) =>
            store.run[u] = k[u].run /\ (k[u].loading => u \in store.active)
      BY <1>2, <1>6, <1>13 DEF Late, ShownInv
    <3> QED BY <3>1, <3>2, <3>3 DEF ShownInv
  <2>2. HaltInv(store, k, S, runs)
    <3> SUFFICES ASSUME NEW y \in S, y.thread \in store.live,
                        y.at = "stopping" \/ y.epoch # store.epoch[y.thread],
                        k[y.thread].run <= y.run, k[y.thread].loading
                 PROVE  ~ours(runs, k[y.thread].run)
      BY DEF HaltInv
    <3>1. /\ k[y.thread].run = sdk[y.thread].run /\ sdk[y.thread].loading
          /\ y.thread = t => ~current(x)
      BY <1>2, <1>6
    <3>2. CASE y \in steers
      BY <3>1, <3>2, <1>13 DEF Late, HaltInv
    <3>3. CASE x \in steers /\ y.thread = x.thread /\ y.epoch = x.epoch /\ y.run = x.run
      <4>1. x.epoch # store.epoch[x.thread]
        BY <3>1, <3>3 DEF current
      <4> QED BY <4>1, <3>1, <3>3, <1>13 DEF Late, HaltInv
    <3> QED BY <3>2, <3>3
  <2>3. AwaitedInv(store, S, gone, runs)
    <3>1. \A y \in S : \E w \in steers : w.thread = y.thread /\ w.run = y.run
      OBVIOUS
    <3>2. AwaitedInv(store, steers, gone, runs)
      BY <1>13 DEF Late
    <3> QED BY <3>1, <3>2, AwaitedKeeps
  <2> QED BY <2>1, <2>2, <2>3, <1>13 DEF Late
<1>14. ASSUME DrainInv(store, sdk, steers) PROVE DrainInv(store, k, S)
  <2> SUFFICES ASSUME NEW u \in Threads, drainable(store, k, u)
               PROVE  engaged(store, k, u) \/ steered(store, S, u)
                      \/ (u \in ToSet(store.pending) /\ full(store))
    BY DEF DrainInv
  <2>1. CASE sdk[u].loading
    <3>1. u \in store.live
      BY DEF drainable
    <3>2. sdk[u].run # NoRun
      BY <2>1, <3>1, <1>1 DEF Mid, GoodInv, EntryInv
    <3> QED BY <3>2, <1>6 DEF engaged
  <2>2. CASE ~sdk[u].loading
    <3>1. drainable(store, sdk, u)
      BY <2>2, <1>6 DEF drainable, occupied
    <3> QED BY <3>1, <1>10, <1>11, <1>14 DEF DrainInv
  <2> QED BY <2>1, <2>2
<1> QED BY <1>5, <1>8, <1>9, <1>12, <1>13, <1>14 DEF HaltedTo, k

LEMMA CancelledKeeps ==
  ASSUME StoreInv, NEW x \in steers, Cancelled(x)
  PROVE  StoreInv'
<1> DEFINE z == [x EXCEPT !.at = "stopping"]
           S == (steers \ {x}) \cup {z}
           k == halted(x)
<1>1. /\ steers' = S /\ sdk' = k
      /\ UNCHANGED <<store, stops, gone, runs, fates, counts, overtaken>>
  BY DEF Cancelled
<1>2. /\ RestOK /\ \A y \in steers : y.thread \in Threads
      /\ \A u \in Threads : store.run[u] <= Len(runs)
      /\ RunsInv(runs, sent) /\ ApartInv(held(store), runs, withdrawn, returned, sent)
      /\ upsets = 0 => DrainInv(store, sdk, steers)
      /\ overtaken \/ (/\ LossInv(held(store), runs, withdrawn, returned, sent, gone)
                       /\ Late(store, sdk, steers, gone, runs))
  BY InvFacts
<1>3. /\ z.thread = x.thread /\ z.epoch = x.epoch /\ z.run = x.run
      /\ z \in [thread : Threads, epoch : Nat, input : Inputs, run : Run,
                at : {"cancelling", "stopping"}]
  BY <1>2 DEF RestOK
<1> HIDE DEF z
<1>4. \A y \in S : y \in steers \/ (/\ x \in steers /\ y.thread = x.thread
                                    /\ y.epoch = x.epoch /\ y.run = x.run)
  BY <1>3
<1>5. \A y \in steers : \E v \in S : v.thread = y.thread /\ v.epoch = y.epoch
  <2> SUFFICES ASSUME NEW y \in steers PROVE \E v \in S : v.thread = y.thread /\ v.epoch = y.epoch
    OBVIOUS
  <2>1. z \in S
    OBVIOUS
  <2>2. CASE y = x
    BY <2>1, <2>2, <1>3
  <2>3. CASE y # x
    <3>1. y \in S
      BY <2>3
    <3> QED BY <3>1
  <2> QED BY <2>2, <2>3
<1>6. S \subseteq [thread : Threads, epoch : Nat, input : Inputs, run : Run,
                   at : {"cancelling", "stopping"}]
  BY <1>2, <1>3 DEF RestOK
<1> HIDE DEF S, k
<1>7. HaltedTo(k, S)
  BY <1>2, <1>4, <1>5, HaltedKeeps DEF k
<1>8. /\ Mid(store, k, S, sent, gone) /\ k \in [Threads -> Shown(Len(runs))]
      /\ becomes(store, k)
      /\ Late(store, sdk, steers, gone, runs) => Late(store, k, S, gone, runs)
      /\ DrainInv(store, sdk, steers) => DrainInv(store, k, S)
  BY <1>1, <1>7 DEF HaltedTo
<1>9. RestOK'
  BY <1>1, <1>2, <1>6 DEF RestOK, Run, fates, counts
<1>10. /\ steers' = S /\ gone' = gone /\ sent' = sent /\ withdrawn' = withdrawn
       /\ returned' = returned /\ upsets' = upsets /\ overtaken' = overtaken /\ runs' = runs
  BY <1>1 DEF fates, counts
<1> QED BY <1>2, <1>8, <1>9, <1>10, StepKeeps

LEMMA StoppedKeeps ==
  ASSUME StoreInv, NEW x \in stops, Stopped(x)
  PROVE  StoreInv'
<1> DEFINE k == halted(x)
<1>1. /\ stops' = stops \ {x} /\ sdk' = k
      /\ UNCHANGED <<store, steers, gone, runs, fates, counts, overtaken>>
  BY DEF Stopped
<1>2. /\ RestOK /\ x.thread \in Threads
      /\ \A u \in Threads : store.run[u] <= Len(runs)
      /\ RunsInv(runs, sent) /\ ApartInv(held(store), runs, withdrawn, returned, sent)
      /\ upsets = 0 => DrainInv(store, sdk, steers)
      /\ overtaken \/ (/\ LossInv(held(store), runs, withdrawn, returned, sent, gone)
                       /\ Late(store, sdk, steers, gone, runs))
  BY InvFacts
<1> HIDE DEF k
<1>3. HaltedTo(k, steers)
  BY <1>2, HaltedKeeps DEF k
<1>4. /\ Mid(store, k, steers, sent, gone) /\ k \in [Threads -> Shown(Len(runs))]
      /\ becomes(store, k)
      /\ Late(store, sdk, steers, gone, runs) => Late(store, k, steers, gone, runs)
      /\ DrainInv(store, sdk, steers) => DrainInv(store, k, steers)
  BY <1>1, <1>3 DEF HaltedTo
<1>5. RestOK'
  BY <1>1, <1>2 DEF RestOK, Run, fates, counts
<1>6. /\ steers' = steers /\ gone' = gone /\ sent' = sent /\ withdrawn' = withdrawn
      /\ returned' = returned /\ upsets' = upsets /\ overtaken' = overtaken /\ runs' = runs
  BY <1>1 DEF fates, counts
<1> QED BY <1>2, <1>4, <1>5, <1>6, StepKeeps

(* A steer is over, and its thread is no longer being steered.              *)
Unsteered(s, x, S) ==
  /\ s \in Store /\ s.live = store.live /\ s.epoch = store.epoch /\ s.queued = store.queued
  /\ s.run = store.run /\ s.hydration = store.hydration /\ s.active = store.active
  /\ s.pending = store.pending /\ s.inflight = store.inflight
  /\ \A u \in Threads : s.steering[u] => store.steering[u]
  /\ \A u \in Threads \ {x.thread} : s.steering[u] <=> store.steering[u]
  /\ Mid(s, sdk, S, sent, gone) /\ held(s) = held(store)
  /\ Late(store, sdk, steers, gone, runs) => Late(s, sdk, S, gone, runs)
LEMMA UnsteeredKeeps ==
  ASSUME StoreInv, NEW x \in steers
  PROVE  Unsteered(unsteered(x), x, steers \ {x})
<1> DEFINE t == x.thread
           S == steers \ {x}
           b == store.steering[t] /\ ~current(x)
           m == [store.steering EXCEPT ![t] = b]
           s == unsteered(x)
<1>1. /\ Mid(store, sdk, steers, sent, gone) /\ store \in Store
      /\ \A y \in steers : y.thread \in Threads /\ y.epoch \in Nat
  BY InvFacts
<1>2. /\ store.live \in SUBSET Threads /\ t \in Threads
      /\ store.steering \in [Threads -> BOOLEAN]
  BY <1>1, StoreFields
<1>3. m \in [Threads -> BOOLEAN]
  BY <1>2
<1>4. s = [store EXCEPT !.steering = m]
  BY <1>1 DEF unsteered, Store
<1>5. m[t] <=> b
  BY <1>2
<1>6. ASSUME NEW u \in Threads \ {t} PROVE m[u] <=> store.steering[u]
  BY <1>2
<1> HIDE DEF s, m
<1>7. /\ s \in Store /\ s.steering = m
      /\ s.live = store.live /\ s.epoch = store.epoch /\ s.queued = store.queued
      /\ s.run = store.run /\ s.hydration = store.hydration /\ s.active = store.active
      /\ s.pending = store.pending /\ s.inflight = store.inflight
  BY <1>1, <1>3, <1>4 DEF Store
<1>8. ASSUME NEW u \in Threads PROVE s.steering[u] => store.steering[u]
  <2>1. CASE u = t
    BY <2>1, <1>5, <1>7
  <2>2. CASE u # t
    BY <2>2, <1>6, <1>7
  <2> QED BY <2>1, <2>2
<1>9. ASSUME NEW u \in Threads \ {t} PROVE s.steering[u] <=> store.steering[u]
  BY <1>6, <1>7
<1>10. s.steering[t] => ~current(x)
  BY <1>5, <1>7
<1> HIDE DEF b
<1>11. held(s) = held(store) /\ lined(s) = lined(store)
  BY <1>7 DEF held, lined, flown
<1>12. \A u : engaged(s, sdk, u) <=> engaged(store, sdk, u)
  BY <1>7 DEF engaged, onItsWay
<1>13. Mid(s, sdk, S, sent, gone)
  <2>1. EntryInv(s, sdk)
    BY <1>1, <1>7, <1>8, <1>12 DEF Mid, GoodInv, EntryInv
  <2>2. SteeringInv(s, S)
    <3> SUFFICES ASSUME NEW u \in Threads, s.steering[u] PROVE steered(s, S, u)
      BY DEF SteeringInv
    <3>1. steered(store, steers, u) /\ store.steering[u]
      BY <1>1, <1>8 DEF Mid, GoodInv, SteeringInv
    <3>2. PICK y \in steers : y.thread = u /\ y.epoch = store.epoch[u]
      BY <3>1 DEF steered
    <3>3. u \in store.live
      BY <3>1, <1>1 DEF Mid, GoodInv, EntryInv
    <3>4. y # x
      BY <3>2, <3>3, <1>10 DEF current
    <3> QED BY <3>2, <3>4, <1>7 DEF steered
  <2>3. EpochInv(s, S)
    BY <1>1, <1>7 DEF Mid, GoodInv, EpochInv
  <2>4. HeldInv(s, sent)
    BY <1>1, <1>7, <1>11 DEF Mid, GoodInv, HeldInv
  <2> QED BY <2>1, <2>2, <2>3, <2>4, <1>1, <1>7 DEF Mid, GoodInv, StoreOK
<1>14. Late(store, sdk, steers, gone, runs) => Late(s, sdk, S, gone, runs)
  <2>1. AwaitedInv(store, steers, gone, runs) => AwaitedInv(s, S, gone, runs)
    BY <1>7, AwaitedKeeps
  <2> QED BY <2>1, <1>7 DEF Late, TurnInv, ShownInv, HaltInv
<1> QED BY <1>7, <1>8, <1>9, <1>11, <1>13, <1>14 DEF Unsteered, s

LEMMA CancelFailsKeeps ==
  ASSUME StoreInv, NEW x \in steers, CancelFails(x)
  PROVE  StoreInv'
<1> DEFINE s == unsteered(x)
           S == steers \ {x}
<1>1. /\ steers' = S /\ store' = s /\ upsets' = upsets + 1
      /\ UNCHANGED <<sdk, stops, gone, runs, fates, sent, asides, overtaken>>
  BY DEF CancelFails, upset
<1>2. /\ RestOK /\ sdk \in [Threads -> Shown(Len(runs))]
      /\ \A u \in Threads : store.run[u] <= Len(runs)
      /\ \A u \in Threads \ store.live : sdk[u] = still
      /\ RunsInv(runs, sent) /\ ApartInv(held(store), runs, withdrawn, returned, sent)
      /\ overtaken \/ (/\ LossInv(held(store), runs, withdrawn, returned, sent, gone)
                       /\ Late(store, sdk, steers, gone, runs))
  BY InvFacts
<1>3. Unsteered(s, x, S)
  BY UnsteeredKeeps
<1> HIDE DEF s
<1>4. RestOK' /\ upsets' # 0
  BY <1>1, <1>2 DEF RestOK, Run, fates
<1>5. becomes(s, sdk)
  <2>1. sdk' \in [Threads -> Shown(Len(runs'))] /\ \A u \in Threads : u \notin store'.live => sdk'[u] = still
    BY <1>1, <1>2, <1>3 DEF Unsteered
  <2>2. becomes(store', sdk')
    BY <2>1, Becomes
  <2> QED BY <2>2, <1>1
<1>6. /\ steers' = S /\ gone' = gone /\ sent' = sent /\ withdrawn' = withdrawn
      /\ returned' = returned /\ overtaken' = overtaken /\ runs' = runs
  BY <1>1 DEF fates
<1>7. /\ Mid(s, sdk, S, sent, gone) /\ held(s) = held(store) /\ s.run = store.run
      /\ Late(store, sdk, steers, gone, runs) => Late(s, sdk, S, gone, runs)
  BY <1>3 DEF Unsteered
<1> HIDE DEF S
<1> QED BY <1>2, <1>4, <1>5, <1>6, <1>7, StepKeeps

(* A steer goes on: the thread's slot is given up, and its queue drained.   *)
LEMMA SteerReturnsKeeps ==
  ASSUME StoreInv, NEW x \in steers, SteerReturns(x)
  PROVE  StoreInv'
<1> DEFINE t == x.thread
           S == steers \ {x}
           v == unsteered(x)
           s == [v EXCEPT !.active = @ \ {t}]
           d == drainQueued(s, sdk, t)
           p == pumpRunQueue(d, sdk)
<1>1. /\ x.at = "stopping" /\ steers' = S /\ becomes(p, sdk)
      /\ overtaken' = (overtaken \/ newer(x))
      /\ UNCHANGED <<stops, gone, runs, fates, counts>>
  BY DEF SteerReturns
<1>2. /\ Mid(store, sdk, steers, sent, gone) /\ store \in Store
      /\ sdk \in [Threads -> Shown(Len(runs))]
      /\ \A u \in Threads : store.run[u] <= Len(runs) /\ sdk[u].run \in 0 .. Len(runs)
      /\ RestOK /\ Len(runs) \in Nat
      /\ \A y \in steers : y.thread \in Threads /\ y.epoch \in Nat /\ y.run \in Run
      /\ RunsInv(runs, sent) /\ ApartInv(held(store), runs, withdrawn, returned, sent)
      /\ upsets = 0 => DrainInv(store, sdk, steers)
      /\ overtaken \/ (/\ LossInv(held(store), runs, withdrawn, returned, sent, gone)
                       /\ Late(store, sdk, steers, gone, runs))
  BY InvFacts
<1>3. Unsteered(v, x, S)
  BY UnsteeredKeeps
<1> HIDE DEF v
<1>4. /\ v \in Store /\ v.live = store.live /\ v.epoch = store.epoch /\ v.queued = store.queued
      /\ v.run = store.run /\ v.hydration = store.hydration /\ v.active = store.active
      /\ v.pending = store.pending /\ v.inflight = store.inflight
      /\ \A u \in Threads \ {t} : v.steering[u] <=> store.steering[u]
      /\ Mid(v, sdk, S, sent, gone) /\ held(v) = held(store)
      /\ Late(store, sdk, steers, gone, runs) => Late(v, sdk, S, gone, runs)
  BY <1>3 DEF Unsteered
<1>5. Freed(v, s, t)
  BY <1>4, FreedFacts
<1> HIDE DEF s, S
<1>6. /\ s \in Store /\ s.active = v.active \ {t}
      /\ s.live = v.live /\ s.epoch = v.epoch /\ s.queued = v.queued /\ s.run = v.run
      /\ s.steering = v.steering /\ s.hydration = v.hydration /\ s.pending = v.pending
      /\ s.inflight = v.inflight
  BY <1>5 DEF Freed
<1>7. t \in Threads /\ store.live \in SUBSET Threads /\ store.active \in SUBSET Threads
  BY <1>2, StoreFields
<1>8. /\ IsFiniteSet(s.active)
      /\ Cardinality(v.active) <= maxParallelRuns => Cardinality(s.active) <= maxParallelRuns
  <2>1. IsFiniteSet(v.active)
    BY <1>4 DEF Mid, GoodInv, EntryInv
  <2> QED BY <2>1, <1>5, FewerSlots
<1>9. held(s) = held(store) /\ lined(s) = lined(v)
  BY <1>4, <1>6 DEF held, lined, flown
<1>10. \A u : engaged(s, sdk, u) <=> engaged(v, sdk, u)
  BY <1>6 DEF engaged, onItsWay
<1>11. Mid(s, sdk, S, sent, gone)
  <2>1. EntryInv(s, sdk)
    BY <1>4, <1>6, <1>8, <1>10 DEF Mid, GoodInv, EntryInv
  <2>2. SteeringInv(s, S) /\ EpochInv(s, S)
    BY <1>4, <1>6 DEF Mid, GoodInv, SteeringInv, EpochInv, steered
  <2>3. HeldInv(s, sent)
    BY <1>4, <1>6, <1>9 DEF Mid, GoodInv, HeldInv
  <2> QED BY <2>1, <2>2, <2>3, <1>4, <1>6 DEF Mid, GoodInv, StoreOK
<1>12. ASSUME ~newer(x), Late(store, sdk, steers, gone, runs) PROVE Late(s, sdk, S, gone, runs)
  <2>1. /\ \A y \in store.inflight : y.thread # t
        /\ ~(sdk[t].run > x.run)
    BY <1>12 DEF newer
  <2>2. sdk[t].run <= x.run
    <3>1. sdk[t].run \in Nat /\ x.run \in Nat
      BY <1>2, <1>7 DEF Run
    <3> QED BY <3>1, <2>1
  <2>3. Late(v, sdk, S, gone, runs)
    BY <1>4, <1>12
  <2>4. TurnInv(s, gone)
    <3>1. Cardinality(s.active) <= maxParallelRuns
      BY <2>3, <1>8 DEF Late, TurnInv
    <3>2. \A y \in s.inflight :
            y.thread \in gone \/ (y.thread \in s.active /\ y.epoch = s.epoch[y.thread])
      BY <2>1, <2>3, <1>4, <1>6 DEF Late, TurnInv
    <3> QED BY <3>1, <3>2, <2>3, <1>6 DEF Late, TurnInv
  <2>5. t \in store.live /\ sdk[t].loading => ~ours(runs, sdk[t].run)
    BY <2>2, <1>1, <1>12 DEF Late, HaltInv
  <2>6. ShownInv(s, sdk, gone, runs)
    <3>1. ASSUME NEW u \in s.live, ours(runs, sdk[u].run)
          PROVE  s.run[u] = sdk[u].run /\ (sdk[u].loading => u \in s.active)
      <4>1. /\ u \in store.live /\ u \in Threads /\ v.run[u] = sdk[u].run
            /\ sdk[u].loading => u \in v.active
        BY <3>1, <2>3, <1>4, <1>6, <1>7 DEF Late, ShownInv
      <4>2. sdk[u].loading => u # t
        BY <4>1, <3>1, <2>5
      <4> QED BY <4>1, <4>2, <1>6
    <3> QED BY <3>1, <2>3, <1>6 DEF Late, ShownInv
  <2>7. HaltInv(s, sdk, S, runs)
    BY <2>3, <1>6 DEF Late, HaltInv
  <2>8. AwaitedInv(s, S, gone, runs)
    <3>1. AwaitedInv(v, S, gone, runs)
      BY <2>3 DEF Late
    <3> QED BY <3>1, <1>6, AwaitedKeeps
  <2> QED BY <2>4, <2>6, <2>7, <2>8 DEF Late
<1>13. ASSUME DrainInv(store, sdk, steers)
       PROVE  Waiting(s, sdk, S, ToSet(s.pending) \cup {t})
  <2> SUFFICES ASSUME NEW u \in Threads, drainable(s, sdk, u), u # t
               PROVE  engaged(s, sdk, u) \/ steered(s, S, u) \/ u \in ToSet(s.pending)
    BY DEF Waiting
  <2>1. drainable(store, sdk, u)
    <3>1. s.steering[u] <=> store.steering[u]
      BY <1>4, <1>6
    <3> QED BY <3>1, <1>4, <1>6 DEF drainable, occupied
  <2>2. engaged(store, sdk, u) => engaged(s, sdk, u)
    BY <1>4, <1>6 DEF engaged, onItsWay
  <2>3. steered(store, steers, u) => steered(s, S, u)
    <3> SUFFICES ASSUME NEW y \in steers, y.thread = u, y.epoch = store.epoch[u]
                 PROVE  steered(s, S, u)
      BY DEF steered
    <3>1. y \in S
      BY DEF S
    <3> QED BY <3>1, <1>4, <1>6 DEF steered
  <2> QED BY <2>1, <2>2, <2>3, <1>4, <1>6, <1>13 DEF DrainInv
<1>14. Drained(s, d, t, sdk, S, sent, gone)
  BY <1>7, <1>11, DrainQueuedKeeps
<1> HIDE DEF d
<1>15. PumpedOut(d, p, sdk, S, sent, gone)
  BY <1>14, PumpRunQueueKeeps DEF Drained
<1> HIDE DEF p
<1>16. Mid(p, sdk, S, sent, gone) /\ held(p) = held(store) /\ p.run = store.run
  BY <1>4, <1>6, <1>9, <1>14, <1>15 DEF Drained, PumpedOut
<1>17. ~newer(x) /\ Late(store, sdk, steers, gone, runs) => Late(p, sdk, S, gone, runs)
  BY <1>12, <1>14, <1>15 DEF Drained, PumpedOut
<1>18. DrainInv(store, sdk, steers) => DrainInv(p, sdk, S)
  BY <1>13, <1>14, <1>15 DEF Drained, PumpedOut
<1>19. RestOK'
  <2>1. overtaken' \in BOOLEAN
    BY <1>1
  <2> QED BY <2>1, <1>1, <1>2 DEF RestOK, Run, fates, counts, S
<1>20. /\ steers' = S /\ gone' = gone /\ sent' = sent /\ withdrawn' = withdrawn
       /\ returned' = returned /\ upsets' = upsets /\ runs' = runs
  BY <1>1 DEF fates, counts
<1>21. overtaken' \/ (/\ LossInv(held(p), runs, withdrawn, returned, sent, gone)
                      /\ Late(p, sdk, S, gone, runs))
  BY <1>1, <1>2, <1>16, <1>17
<1>22. becomes(p, sdk)
  BY <1>1
<1> QED BY <1>2, <1>16, <1>18, <1>19, <1>20, <1>21, <1>22, StepKeeps

(* A run has been found when the thread was read, or it could not be read.  *)
LEMMA HydrationFacts ==
  ASSUME StoreInv, NEW t \in Threads, NEW h \in {"ready", "error"}
  PROVE  LET p == [store EXCEPT !.hydration[t] = h]
         IN  /\ Touched(store, p, sdk, steers, sent, gone) /\ p.run = store.run
             /\ p.live = store.live
             /\ \A u \in Threads : p.hydration[u] = "error" =>
                  store.hydration[u] = "error" \/ (u = t /\ h = "error")
<1> DEFINE g == [store.hydration EXCEPT ![t] = h]
           p == [store EXCEPT !.hydration[t] = h]
<1>1. Mid(store, sdk, steers, sent, gone) /\ store \in Store
  BY InvFacts
<1>2. /\ g \in [Threads -> {"unattached", "loading", "ready", "error"}]
      /\ \A u \in Threads : g[u] = "error" => store.hydration[u] = "error" \/ (u = t /\ h = "error")
  <2>1. store.hydration \in [Threads -> {"unattached", "loading", "ready", "error"}]
    BY <1>1, StoreFields
  <2> QED BY <2>1
<1>3. p = [store EXCEPT !.hydration = g]
  BY <1>1 DEF Store
<1> HIDE DEF p, g
<1>4. /\ p \in Store /\ p.hydration = g
      /\ p.live = store.live /\ p.epoch = store.epoch /\ p.queued = store.queued
      /\ p.run = store.run /\ p.steering = store.steering /\ p.active = store.active
      /\ p.pending = store.pending /\ p.inflight = store.inflight
  BY <1>1, <1>2, <1>3 DEF Store
<1>5. Touched(store, p, sdk, steers, sent, gone)
  BY <1>1, <1>4, TouchKeeps
<1> QED BY <1>2, <1>4, <1>5 DEF p

LEMMA HydrationFailsKeeps ==
  ASSUME StoreInv, NEW t \in Threads, HydrationFails(t)
  PROVE  StoreInv'
<1> DEFINE p == [store EXCEPT !.hydration[t] = "error"]
<1>1. /\ store' = p /\ upsets' = upsets + 1
      /\ UNCHANGED <<sdk, calls, gone, runs, fates, sent, asides, overtaken>>
  BY DEF HydrationFails, upset
<1>2. /\ RestOK /\ sdk \in [Threads -> Shown(Len(runs))]
      /\ \A u \in Threads : store.run[u] <= Len(runs)
      /\ \A u \in Threads \ store.live : sdk[u] = still
      /\ RunsInv(runs, sent) /\ ApartInv(held(store), runs, withdrawn, returned, sent)
      /\ overtaken \/ (/\ LossInv(held(store), runs, withdrawn, returned, sent, gone)
                       /\ Late(store, sdk, steers, gone, runs))
  BY InvFacts
<1>3. Touched(store, p, sdk, steers, sent, gone) /\ p.run = store.run /\ p.live = store.live
  BY HydrationFacts
<1> HIDE DEF p
<1>4. RestOK' /\ upsets' # 0
  BY <1>1, <1>2 DEF RestOK, Run, calls, fates
<1>5. becomes(p, sdk)
  <2>1. sdk' \in [Threads -> Shown(Len(runs'))] /\ \A u \in Threads : u \notin store'.live => sdk'[u] = still
    BY <1>1, <1>2, <1>3
  <2>2. becomes(store', sdk')
    BY <2>1, Becomes
  <2> QED BY <2>2, <1>1
<1>6. /\ steers' = steers /\ gone' = gone /\ sent' = sent /\ withdrawn' = withdrawn
      /\ returned' = returned /\ overtaken' = overtaken /\ runs' = runs
  BY <1>1 DEF calls, fates
<1>7. /\ Mid(p, sdk, steers, sent, gone) /\ held(p) = held(store) /\ p.run = store.run
      /\ Late(store, sdk, steers, gone, runs) => Late(p, sdk, steers, gone, runs)
  BY <1>3 DEF Touched
<1> QED BY <1>2, <1>4, <1>5, <1>6, <1>7, StepKeeps

LEMMA HydratedKeeps ==
  ASSUME StoreInv, NEW t \in Threads, Hydrated(t)
  PROVE  StoreInv'
<1> DEFINE p == [store EXCEPT !.hydration[t] = "ready"]
           found == {r \in Run : runs[r].thread = t /\ ~runs[r].ended}
<1>1. /\ t \in store.live /\ store' = p /\ store.hydration[t] = "loading"
      /\ IF found # {} /\ sdk[t].run = NoRun
         THEN \E r \in found : sdk' = [sdk EXCEPT ![t].run = r, ![t].loading = TRUE]
         ELSE \/ UNCHANGED sdk
              \/ found = {} /\ sdk[t].run = NoRun /\ sdk' = [sdk EXCEPT ![t].interrupt = TRUE]
      /\ UNCHANGED <<calls, gone, runs, fates, counts, overtaken>>
  BY DEF Hydrated
<1>2. /\ Mid(store, sdk, steers, sent, gone) /\ store \in Store
      /\ RestOK /\ sdk \in [Threads -> Shown(Len(runs))] /\ Len(runs) \in Nat
      /\ DOMAIN runs = Run
      /\ \A u \in Threads : store.run[u] <= Len(runs)
      /\ \A u \in Threads \ store.live : sdk[u] = still
      /\ RunsInv(runs, sent) /\ ApartInv(held(store), runs, withdrawn, returned, sent)
      /\ upsets = 0 => DrainInv(store, sdk, steers)
      /\ overtaken \/ (/\ LossInv(held(store), runs, withdrawn, returned, sent, gone)
                       /\ Late(store, sdk, steers, gone, runs))
  BY InvFacts
<1>3. /\ Touched(store, p, sdk, steers, sent, gone) /\ p.run = store.run /\ p.live = store.live
      /\ \A u \in Threads : p.hydration[u] = "error" => store.hydration[u] = "error"
  BY HydrationFacts
<1> HIDE DEF p
<1>4. /\ Mid(p, sdk, steers, sent, gone) /\ held(p) = held(store)
      /\ Late(store, sdk, steers, gone, runs) => Late(p, sdk, steers, gone, runs)
      /\ DrainInv(store, sdk, steers) => DrainInv(p, sdk, steers)
  BY <1>3 DEF Touched
<1>5. RestOK'
  BY <1>1, <1>2 DEF RestOK, Run, calls, fates, counts
<1>6. /\ steers' = steers /\ gone' = gone /\ sent' = sent /\ withdrawn' = withdrawn
      /\ returned' = returned /\ upsets' = upsets /\ overtaken' = overtaken /\ runs' = runs
  BY <1>1 DEF calls, fates, counts
<1>6a. p.hydration[t] # "error"
  <2>1. store.hydration \in [Threads -> {"unattached", "loading", "ready", "error"}]
    BY <1>2, StoreFields
  <2> QED BY <2>1, <1>1, <1>2, <1>3
<1>7. CASE sdk' = sdk
  <2>1. sdk' = sdk
    BY <1>7
  <2>2. becomes(p, sdk)
    <3>1. sdk' \in [Threads -> Shown(Len(runs'))] /\ \A u \in Threads : u \notin store'.live => sdk'[u] = still
      BY <2>1, <1>1, <1>2, <1>3
    <3>2. becomes(store', sdk')
      BY <3>1, Becomes
    <3> QED BY <3>2, <2>1, <1>1
  <2> HIDE DEF found
  <2> QED BY <2>2, <1>2, <1>3, <1>4, <1>5, <1>6, StepKeeps
<1>8. CASE found # {} /\ sdk[t].run = NoRun
  <2>1. PICK r \in found : sdk' = [sdk EXCEPT ![t].run = r, ![t].loading = TRUE]
    BY <1>1, <1>8
  <2> DEFINE a == [sdk[t] EXCEPT !.run = r, !.loading = TRUE]
             k == [sdk EXCEPT ![t].run = r, ![t].loading = TRUE]
  <2>2. /\ r \in Run /\ runs[r].thread = t /\ ~runs[r].ended /\ r \in DOMAIN runs
        /\ r \in 0 .. Len(runs) /\ r # NoRun
    BY <1>2 DEF Run, NoRun
  <2>3. a \in Shown(Len(runs)) /\ a.run = r /\ a.loading /\ a.interrupt = sdk[t].interrupt
    <3>1. sdk[t] \in Shown(Len(runs))
      BY <1>2
    <3> QED BY <3>1, <2>2 DEF Shown
  <2>4. k = [sdk EXCEPT ![t] = a]
    BY <1>2 DEF Shown
  <2> HIDE DEF a, k, found
  <2>5. /\ k \in [Threads -> Shown(Len(runs))] /\ k[t] = a
        /\ \A u \in Threads \ {t} : k[u] = sdk[u]
    BY <2>3, <2>4, <1>2
  <2>6. store.live \in SUBSET Threads /\ p.live \in SUBSET Threads /\ p.active \in SUBSET Threads
    BY <1>2, <1>3, <1>4, StoreFields DEF Mid, StoreOK
  <2>7. \A u \in Threads : engaged(p, sdk, u) => engaged(p, k, u)
    BY <2>2, <2>3, <2>5 DEF engaged
  <2>8. Mid(p, k, steers, sent, gone)
    <3>1. \A u \in p.live : p.run[u] # NoRun \/ k[u].loading => k[u].run # NoRun
      BY <1>4, <2>2, <2>3, <2>5, <2>6 DEF Mid, GoodInv, EntryInv
    <3> QED BY <3>1, <1>4, <2>6, <2>7 DEF Mid, GoodInv, EntryInv
  <2>9. ASSUME Late(store, sdk, steers, gone, runs) PROVE Late(p, k, steers, gone, runs)
    <3>1. Late(p, sdk, steers, gone, runs)
      BY <2>9, <1>4
    <3>2. runs[r].answer # "given"
      <4> SUFFICES ASSUME runs[r].answer = "given" PROVE FALSE
        OBVIOUS
      <4>1. t \in gone \/ sdk[t].run = r
        BY <2>2, <2>9 DEF Late, ShownInv
      <4> QED BY <4>1, <2>2, <1>1, <1>2, <1>8 DEF Mid
    <3>3. ~ours(runs, k[t].run)
      BY <3>2, <2>3, <2>5 DEF ours
    <3>4. ShownInv(p, k, gone, runs)
      <4>1. ASSUME NEW q \in DOMAIN runs, runs[q].answer = "given" /\ ~runs[q].ended
            PROVE  runs[q].thread \in gone \/ (runs[q].thread \in p.live /\ k[runs[q].thread].run = q)
        <5>1. \/ runs[q].thread \in gone
              \/ runs[q].thread \in p.live /\ sdk[runs[q].thread].run = q
          BY <4>1, <3>1 DEF Late, ShownInv
        <5>2. q # NoRun
          BY <1>2 DEF Run, NoRun
        <5> QED BY <5>1, <5>2, <1>8, <2>5, <2>6
      <4>2. \A u \in p.live : ours(runs, k[u].run) =>
              p.run[u] = k[u].run /\ (k[u].loading => u \in p.active)
        BY <3>1, <3>3, <2>5, <2>6 DEF Late, ShownInv
      <4>3. \A u \in p.live : k[u].run # NoRun => runs[k[u].run].thread = u
        BY <3>1, <2>2, <2>3, <2>5, <2>6 DEF Late, ShownInv
      <4> QED BY <4>1, <4>2, <4>3 DEF ShownInv
    <3>5. HaltInv(p, k, steers, runs)
      BY <3>1, <3>3, <2>5, <2>6 DEF Late, HaltInv
    <3> QED BY <3>1, <3>4, <3>5 DEF Late
  <2>10. ASSUME DrainInv(store, sdk, steers) PROVE DrainInv(p, k, steers)
    <3> SUFFICES ASSUME NEW u \in Threads, drainable(p, k, u)
                 PROVE  engaged(p, k, u) \/ steered(p, steers, u) \/ (u \in ToSet(p.pending) /\ full(p))
      BY DEF DrainInv
    <3>1. CASE u = t
      BY <3>1, <2>2, <2>3, <2>5 DEF engaged
    <3>2. CASE u # t
      <4>1. drainable(p, sdk, u)
        BY <3>2, <2>5 DEF drainable, occupied
      <4>2. DrainInv(p, sdk, steers)
        BY <2>10, <1>4
      <4> QED BY <4>1, <4>2, <2>7 DEF DrainInv
    <3> QED BY <3>1, <3>2
  <2>11. becomes(p, k)
    <3>0. sdk' = k
      BY <2>1 DEF k
    <3>1. sdk' \in [Threads -> Shown(Len(runs'))] /\ \A u \in Threads : u \notin store'.live => sdk'[u] = still
      BY <3>0, <2>5, <1>1, <1>2, <1>3
    <3>2. becomes(store', sdk')
      BY <3>1, Becomes
    <3> QED BY <3>0, <3>2, <1>1
  <2> QED BY <2>5, <2>8, <2>9, <2>10, <2>11, <1>2, <1>3, <1>4, <1>5, <1>6, StepKeeps
<1>9. CASE sdk[t].run = NoRun /\ sdk' = [sdk EXCEPT ![t].interrupt = TRUE]
  <2> DEFINE a == [sdk[t] EXCEPT !.interrupt = TRUE]
             k == [sdk EXCEPT ![t].interrupt = TRUE]
  <2>1. a \in Shown(Len(runs)) /\ a.run = NoRun /\ a.loading = sdk[t].loading /\ a.interrupt
    <3>1. sdk[t] \in Shown(Len(runs))
      BY <1>2
    <3> QED BY <3>1, <1>9 DEF Shown
  <2>2. k = [sdk EXCEPT ![t] = a]
    BY <1>2 DEF Shown
  <2>3. sdk' = k
    BY <1>9
  <2> HIDE DEF a, k, found
  <2>4. /\ k \in [Threads -> Shown(Len(runs))] /\ k[t] = a
        /\ \A u \in Threads \ {t} : k[u] = sdk[u]
    BY <2>1, <2>2, <1>2
  <2>5. \A u \in Threads : k[u].run = sdk[u].run /\ k[u].loading = sdk[u].loading
    BY <2>1, <2>4, <1>9
  <2>6. p.live \in SUBSET Threads /\ p.active \in SUBSET Threads
    BY <1>4, StoreFields DEF Mid, StoreOK
  <2>7. \A u \in Threads : engaged(p, sdk, u) <=> engaged(p, k, u)
    BY <2>5 DEF engaged
  <2>8. Mid(p, k, steers, sent, gone)
    <3>1. \A u \in p.live : p.run[u] # NoRun \/ k[u].loading => k[u].run # NoRun
      BY <1>4, <2>5, <2>6 DEF Mid, GoodInv, EntryInv
    <3> QED BY <3>1, <1>4, <2>6, <2>7 DEF Mid, GoodInv, EntryInv
  <2>9. ASSUME Late(store, sdk, steers, gone, runs) PROVE Late(p, k, steers, gone, runs)
    <3>1. Late(p, sdk, steers, gone, runs)
      BY <2>9, <1>4
    <3>2. ShownInv(p, k, gone, runs)
      <4>1. \A u \in p.live : k[u].run # NoRun => runs[k[u].run].thread = u
        BY <3>1, <2>5, <2>6 DEF Late, ShownInv
      <4>2. \A q \in DOMAIN runs : runs[q].answer = "given" /\ ~runs[q].ended =>
              \/ runs[q].thread \in gone
              \/ runs[q].thread \in p.live /\ k[runs[q].thread].run = q
        BY <3>1, <2>5, <2>6 DEF Late, ShownInv
      <4>3. \A u \in p.live : ours(runs, k[u].run) =>
              p.run[u] = k[u].run /\ (k[u].loading => u \in p.active)
        BY <3>1, <2>5, <2>6 DEF Late, ShownInv
      <4> QED BY <4>1, <4>2, <4>3 DEF ShownInv
    <3>3. HaltInv(p, k, steers, runs)
      BY <3>1, <2>5, <2>6 DEF Late, HaltInv
    <3> QED BY <3>1, <3>2, <3>3 DEF Late
  <2>10. ASSUME DrainInv(store, sdk, steers) PROVE DrainInv(p, k, steers)
    <3> SUFFICES ASSUME NEW u \in Threads, drainable(p, k, u)
                 PROVE  engaged(p, k, u) \/ steered(p, steers, u) \/ (u \in ToSet(p.pending) /\ full(p))
      BY DEF DrainInv
    <3>1. drainable(p, sdk, u)
      <4>1. CASE u # t
        BY <4>1, <2>4 DEF drainable, occupied
      <4>2. CASE u = t
        BY <4>2, <2>1, <2>4, <1>6a DEF drainable, occupied
      <4> QED BY <4>1, <4>2
    <3>2. DrainInv(p, sdk, steers)
      BY <2>10, <1>4
    <3> QED BY <3>1, <3>2, <2>7 DEF DrainInv
  <2>11. becomes(p, k)
    <3>1. sdk' \in [Threads -> Shown(Len(runs'))] /\ \A u \in Threads : u \notin store'.live => sdk'[u] = still
      BY <2>3, <2>4, <1>1, <1>2, <1>3
    <3>2. becomes(store', sdk')
      BY <3>1, Becomes
    <3> QED BY <2>3, <3>2, <1>1
  <2> QED BY <2>4, <2>8, <2>9, <2>10, <2>11, <1>2, <1>3, <1>4, <1>5, <1>6, StepKeeps
<1> QED BY <1>1, <1>7, <1>8, <1>9

LEMMA StoreNextKeeps ==
  ASSUME StoreInv, StoreNext
  PROVE  StoreInv'
<1>1. ASSUME NEW t \in Threads,
             \/ Send(t) \/ SteerNow(t) \/ SteerInterrupted(t) \/ Stop(t) \/ Decide(t)
             \/ Attach(t) \/ Leave(t) \/ disposeThread(t)
             \/ Hydrated(t) \/ HydrationFails(t)
             \/ \E n \in DOMAIN store.queued[t] : cancelQueued(t, n)
             \/ \E interrupt \in BOOLEAN : Completed(t, interrupt)
      PROVE  StoreInv'
  BY <1>1, SendKeeps, SteerNowKeeps, SteerInterruptedKeeps, StopKeeps, DecideKeeps, AttachKeeps,
     LeaveKeeps, DisposeThreadKeeps, HydratedKeeps, HydrationFailsKeeps, CancelQueuedKeeps,
     CompletedKeeps
<1>2. ASSUME NEW x \in store.inflight, RunCreated(x) \/ Submitted(x) \/ SubmitFails(x)
      PROVE  StoreInv'
  BY <1>2, RunCreatedKeeps, SubmittedKeeps, SubmittedLateKeeps, SubmitFailsKeeps
<1>3. ASSUME NEW r \in Run, RunEnds(r) PROVE StoreInv'
  BY <1>3, RunEndsKeeps
<1>4. ASSUME NEW x \in steers, Cancelled(x) \/ CancelFails(x) \/ SteerReturns(x) PROVE StoreInv'
  BY <1>4, CancelledKeeps, CancelFailsKeeps, SteerReturnsKeeps
<1>5. ASSUME NEW x \in stops, Stopped(x) \/ StopFails(x) PROVE StoreInv'
  BY <1>5, StoppedKeeps, StopFailsKeeps
<1> QED BY <1>1, <1>2, <1>3, <1>4, <1>5 DEF StoreNext

LEMMA StoreStutter ==
  ASSUME StoreInv, UNCHANGED storeVars
  PROVE  StoreInv'
BY DEF StoreInv, FateInv, LateInv, StoreTypeOK, Run, storeVars, calls, fates, counts

(* In every state of the store, each input is in one place, every slot is   *)
(* held for a thread whose end will be noticed, and what waits in a queue   *)
(* waits for something: the inductive invariant of the store of streams.    *)
THEOREM StoreInvariant == StoreSpec => []StoreInv
<1>1. StoreInv /\ [StoreNext]_storeVars => StoreInv'
  BY StoreNextKeeps, StoreStutter
<1> QED BY InitStoreInv, <1>1, PTL DEF StoreSpec

-----------------------------------------------------------------------------
(* What the invariant says to users. *)

LEMMA AtMostOne ==
  ASSUME NEW S, \A a, b \in S : a = b
  PROVE  Cardinality(S) = IF S = {} THEN 0 ELSE 1
<1>1. CASE S = {}
  BY <1>1, FS_EmptySet
<1>2. CASE S # {}
  <2>1. PICK a : a \in S
    BY <1>2
  <2>2. S = {a}
    BY <2>1
  <2>3. Cardinality({a}) = 1
    BY FS_Singleton
  <2> QED BY <1>2, <2>2, <2>3
<1> QED BY <1>1, <1>2

(* A queue has no more places than there are inputs.                        *)
LEMMA QueueFits ==
  ASSUME NEW q \in Seq(Inputs), IsInjective(q), NEW n \in DOMAIN q
  PROVE  n \in 1 .. MaxInputs
<1>1. Len(q) \in Nat /\ DOMAIN q = 1 .. Len(q) /\ q \in [1 .. Len(q) -> Inputs]
  OBVIOUS
<1>2. q \in Injection(1 .. Len(q), Inputs)
  BY <1>1 DEF Injection, IsInjective
<1>3. IsFiniteSet(Inputs) /\ Cardinality(Inputs) = MaxInputs
  BY FS_Interval, BoundsAssumption DEF Inputs
<1>4. Cardinality(1 .. Len(q)) <= Cardinality(Inputs)
  BY <1>2, <1>3, FS_Injection
<1>5. Cardinality(1 .. Len(q)) = Len(q)
  <2> DEFINE l == Len(q)
  <2>1. l \in Nat /\ l \in Int /\ 1 \in Int
    BY <1>1
  <2> HIDE DEF l
  <2>2. Cardinality(1 .. l) = IF 1 > l THEN 0 ELSE l - 1 + 1
    BY <2>1, FS_Interval
  <2> QED BY <2>1, <2>2 DEF l
<1>6. Len(q) <= MaxInputs
  BY <1>3, <1>4, <1>5
<1> QED BY <1>1, <1>6, BoundsAssumption

LEMMA OnePlace ==
  ASSUME StoreInv, LateInv
  PROVE  NeverDiscardInput
<1> SUFFICES ASSUME NEW i \in DOMAIN sent
             PROVE  LET waiting   == {w \in Threads \X (1 .. MaxInputs) :
                                        /\ w[2] \in DOMAIN store.queued[w[1]]
                                        /\ store.queued[w[1]][w[2]] = i}
                        underway  == {x \in store.inflight : x.input = i}
                        delivered == {r \in Run : runs[r].input = i /\ runs[r].answer = "given"}
                        places == Cardinality(waiting) + Cardinality(underway)
                                  + Cardinality(delivered)
                                  + Cardinality({i} \cap withdrawn) + Cardinality({i} \cap returned)
                    IN  places = 1 \/ (places = 0 /\ sent[i] \in gone)
  BY DEF NeverDiscardInput
<1> DEFINE waiting   == {w \in Threads \X (1 .. MaxInputs) :
                           /\ w[2] \in DOMAIN store.queued[w[1]]
                           /\ store.queued[w[1]][w[2]] = i}
           underway  == {x \in store.inflight : x.input = i}
           delivered == {r \in Run : runs[r].input = i /\ runs[r].answer = "given"}
           taken     == {i} \cap withdrawn
           back      == {i} \cap returned
<1>1. /\ store \in Store /\ HeldInv(store, sent)
      /\ RunsInv(runs, sent) /\ ApartInv(held(store), runs, withdrawn, returned, sent)
      /\ DOMAIN runs = Run /\ DOMAIN sent = 1 .. Len(sent) /\ Len(sent) \in Nat
  BY InvFacts DEF Mid, GoodInv
<1>2. LossInv(held(store), runs, withdrawn, returned, sent, gone)
  BY DEF LateInv
<1>3. i # NoInput
  BY <1>1 DEF NoInput
<1>4. \A t \in Threads : /\ store.queued[t] \in Seq(Inputs) /\ IsInjective(store.queued[t])
                         /\ \A n \in DOMAIN store.queued[t] :
                              store.queued[t][n] \in ToSet(store.queued[t])
  BY <1>1, StoreFields DEF HeldInv, ToSet
<1>5. Cardinality(waiting) = IF i \in lined(store) THEN 1 ELSE 0
  <2>1. ASSUME NEW v \in waiting, NEW w \in waiting PROVE v = w
    <3>1. /\ v[1] \in Threads /\ w[1] \in Threads /\ v = <<v[1], v[2]>> /\ w = <<w[1], w[2]>>
          /\ v[2] \in DOMAIN store.queued[v[1]] /\ store.queued[v[1]][v[2]] = i
          /\ w[2] \in DOMAIN store.queued[w[1]] /\ store.queued[w[1]][w[2]] = i
      OBVIOUS
    <3>2. v[1] = sent[i] /\ w[1] = sent[i]
      BY <3>1, <1>1, <1>4 DEF HeldInv
    <3>3. v[2] = w[2]
      BY <3>1, <3>2, <1>4 DEF IsInjective
    <3> QED BY <3>1, <3>2, <3>3
  <2>2. waiting # {} <=> i \in lined(store)
    <3>1. ASSUME NEW w \in waiting PROVE i \in lined(store)
      <4>1. w[1] \in Threads /\ i \in ToSet(store.queued[w[1]])
        BY <1>4
      <4> QED BY <4>1, LinedFacts
    <3>2. ASSUME i \in lined(store) PROVE waiting # {}
      <4>1. PICK t \in Threads : i \in ToSet(store.queued[t])
        BY <3>2, LinedFacts
      <4>2. PICK n \in DOMAIN store.queued[t] : store.queued[t][n] = i
        BY <4>1 DEF ToSet
      <4>3. n \in 1 .. MaxInputs
        BY <1>4, QueueFits
      <4>4. <<t, n>> \in waiting
        BY <4>2, <4>3
      <4> QED BY <4>4
    <3> QED BY <3>1, <3>2
  <2> HIDE DEF waiting
  <2> QED BY <2>1, <2>2, AtMostOne
<1>6. Cardinality(underway) = IF i \in flown(store) THEN 1 ELSE 0
  <2>1. \A x, y \in underway : x = y
    BY <1>1 DEF HeldInv
  <2>2. underway # {} <=> i \in flown(store)
    BY DEF flown
  <2> HIDE DEF underway
  <2> QED BY <2>1, <2>2, AtMostOne
<1>7. Cardinality(delivered) = IF i \in deliveredBy(runs) THEN 1 ELSE 0
  <2>1. ASSUME NEW q \in delivered, NEW r \in delivered PROVE q = r
    <3>1. q <= r /\ r <= q
      BY <1>1 DEF RunsInv
    <3> QED BY <3>1 DEF Run
  <2>2. delivered # {} <=> i \in deliveredBy(runs)
    BY <1>1, <1>3 DEF deliveredBy
  <2> HIDE DEF delivered
  <2> QED BY <2>1, <2>2, AtMostOne
<1>8. /\ Cardinality(taken) = IF i \in withdrawn THEN 1 ELSE 0
      /\ Cardinality(back) = IF i \in returned THEN 1 ELSE 0
  <2>1. \A a, b \in taken : a = b
    OBVIOUS
  <2>2. \A a, b \in back : a = b
    OBVIOUS
  <2>3. (taken # {} <=> i \in withdrawn) /\ (back # {} <=> i \in returned)
    OBVIOUS
  <2> HIDE DEF taken, back
  <2> QED BY <2>1, <2>2, <2>3, AtMostOne
<1>9. ~(i \in lined(store) /\ i \in flown(store))
  BY <1>1 DEF HeldInv, flown
<1>10. /\ i \in lined(store) \/ i \in flown(store) =>
            i \notin deliveredBy(runs) /\ i \notin withdrawn /\ i \notin returned
       /\ i \in deliveredBy(runs) => i \notin withdrawn /\ i \notin returned
       /\ ~(i \in withdrawn /\ i \in returned)
  BY <1>1 DEF ApartInv, held
<1>11. \/ i \in lined(store) \/ i \in flown(store) \/ i \in deliveredBy(runs)
       \/ i \in withdrawn \/ i \in returned \/ sent[i] \in gone
  BY <1>2 DEF LossInv, held
<1> HIDE DEF waiting, underway, delivered, taken, back
<1> DEFINE places == Cardinality(waiting) + Cardinality(underway) + Cardinality(delivered)
                     + Cardinality(taken) + Cardinality(back)
<1>12. places = 1 \/ (places = 0 /\ sent[i] \in gone)
  <2>1. CASE i \in lined(store)
    BY <2>1, <1>5, <1>6, <1>7, <1>8, <1>9, <1>10
  <2>2. CASE i \in flown(store)
    BY <2>2, <1>5, <1>6, <1>7, <1>8, <1>9, <1>10
  <2>3. CASE i \in deliveredBy(runs)
    BY <2>3, <1>5, <1>6, <1>7, <1>8, <1>10
  <2>4. CASE i \in withdrawn
    BY <2>4, <1>5, <1>6, <1>7, <1>8, <1>10
  <2>5. CASE i \in returned
    BY <2>5, <1>5, <1>6, <1>7, <1>8, <1>10
  <2>6. CASE ~(\/ i \in lined(store) \/ i \in flown(store) \/ i \in deliveredBy(runs)
               \/ i \in withdrawn \/ i \in returned)
    BY <2>6, <1>5, <1>6, <1>7, <1>8, <1>11
  <2> QED BY <2>1, <2>2, <2>3, <2>4, <2>5, <2>6
<1> QED BY <1>12 DEF waiting, underway, delivered, taken, back

(* A message that the server has answered for is not submitted again, for   *)
(* any failures; unless a steer has come back late, none is lost and none   *)
(* is in two places, or its thread is deleted.  (A message whose answer is  *)
(* lost goes back and is sent again, though the server has a run of it.)    *)
THEOREM EachInputOnceAlways == StoreSpec => []EachInputOnce
<1>1. ASSUME StoreInv PROVE LastIsAnswered
  <2>1. RunsInv(runs, sent) /\ DOMAIN runs = Run
    BY <1>1, InvFacts
  <2> QED BY <2>1 DEF RunsInv, LastIsAnswered
<1>2. StoreInv => EachInputOnce
  BY <1>1, OnePlace DEF StoreInv, EachInputOnce
<1> QED BY <1>2, StoreInvariant, PTL

(* Unless a steer has come back late, no more threads stream than may; and  *)
(* each slot is held for a turn on its way, or for a run whose end the      *)
(* controller will report.                                                  *)
THEOREM SlotsAddUpAlways == StoreSpec => []SlotsAddUp
<1>1. ASSUME StoreInv PROVE SlotsComeBack
  BY <1>1 DEF StoreInv, GoodInv, EntryInv, engaged, onItsWay, SlotsComeBack
<1>2. ASSUME StoreInv, LateInv PROVE Cardinality(streaming) <= maxParallelRuns
  <2>1. streaming \subseteq store.active
    <3> SUFFICES ASSUME NEW t \in streaming PROVE t \in store.active
      OBVIOUS
    <3>1. CASE \E x \in store.inflight : x.thread = t /\ current(x)
      <4>1. PICK x \in store.inflight : x.thread = t /\ current(x)
        BY <3>1
      <4>2. t \in store.live /\ t \notin gone
        BY <4>1, <1>2 DEF current, StoreInv
      <4> QED BY <4>1, <4>2, <1>2 DEF LateInv, TurnInv
    <3>2. CASE sdk[t].loading /\ ours(runs, sdk[t].run)
      <4>1. t \in Threads
        BY DEF streaming
      <4>2. t \in store.live
        BY <3>2, <4>1, <1>2 DEF StoreInv, still
      <4> QED BY <3>2, <4>2, <1>2 DEF LateInv, ShownInv
    <3> QED BY <3>1, <3>2 DEF streaming, ours
  <2>2. IsFiniteSet(store.active) /\ Cardinality(store.active) <= maxParallelRuns
    BY <1>2 DEF StoreInv, GoodInv, EntryInv, LateInv, TurnInv
  <2>3. /\ Cardinality(streaming) <= Cardinality(store.active)
        /\ IsFiniteSet(streaming)
    BY <2>1, <2>2, FS_Subset
  <2>4. Cardinality(streaming) \in Nat /\ Cardinality(store.active) \in Nat
    BY <2>2, <2>3, FS_CardinalityType
  <2> QED BY <2>2, <2>3, <2>4, SlotsAssumption
<1>3. StoreInv => SlotsAddUp
  BY <1>1, <1>2 DEF SlotsAddUp, BudgetHolds, StoreInv
<1> QED BY <1>3, StoreInvariant, PTL

(* When nothing is left to wait for, no message waits in a queue, unless    *)
(* something has failed or the thread awaits a decision.                    *)
THEOREM QueuesDrainAlways == StoreSpec => []QueuesDrain
<1>1. ASSUME StoreInv, ~due, upsets = 0, NEW t \in Threads, store.queued[t] # <<>>,
             ~sdk[t].interrupt
      PROVE  FALSE
  <2>1. store.inflight = {} /\ steers = {} /\ \A u \in Threads : sdk[u].run = NoRun
    BY <1>1 DEF due
  <2>2. \A u \in Threads : ~engaged(store, sdk, u) /\ ~steered(store, steers, u)
    BY <2>1 DEF engaged, onItsWay, steered
  <2>3. store.active \in SUBSET Threads /\ EntryInv(store, sdk) /\ SteeringInv(store, steers)
    BY <1>1, InvFacts, StoreFields DEF Mid, GoodInv
  <2>4. store.active = {}
    BY <2>2, <2>3 DEF EntryInv
  <2>5. t \in store.live /\ ~store.steering[t]
    BY <1>1, <2>2, <2>3 DEF EntryInv, SteeringInv
  <2>6. ~sdk[t].loading
    BY <2>1, <2>3, <2>5 DEF EntryInv
  <2>7. drainable(store, sdk, t)
    BY <1>1, <2>4, <2>5, <2>6 DEF drainable, occupied
  <2>8. full(store)
    BY <1>1, <2>2, <2>7 DEF StoreInv, DrainInv
  <2>9. Cardinality(store.active) = 0
    BY <2>4, FS_EmptySet
  <2> QED BY <2>8, <2>9, SlotsAssumption DEF full
<1>2. StoreInv => QueuesDrain
  <2> SUFFICES ASSUME StoreInv, ~due, ~(upsets > 0)
               PROVE  \A t \in Threads : store.queued[t] = <<>> \/ sdk[t].interrupt
    BY DEF QueuesDrain
  <2>1. upsets = 0
    <3>1. upsets \in Nat
      BY DEF StoreInv, StoreTypeOK
    <3> QED BY <3>1
  <2> QED BY <2>1, <1>1
<1> QED BY <1>2, StoreInvariant, PTL

=============================================================================
