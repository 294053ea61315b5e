----------------------------- MODULE ActivityLog -----------------------------
(***************************************************************************)
(* What the notifications of finished runs promise, whatever connections   *)
(* come and go between a server and the desktop shell: every server has a  *)
(* log of events, of which old ones and those of deleted threads are       *)
(* removed.  The shell follows the log of one server at a time.  From some *)
(* point on that lies after it began to follow, it is told of every event  *)
(* that is worth it, in order and once, unless the event has been removed. *)
(***************************************************************************)
EXTENDS Naturals, Sequences, SequencesExt

CONSTANTS Sources, NoSource, NoCursor

VARIABLES
  loud,    \* source -> for every event that was appended, is it worth telling?
  stored,  \* source -> the events that are still in its log
  at,      \* the source that is followed
  from,    \* how long its log was when following it was last tried
  pos,     \* the event it has come to
  told     \* the events that were told of

vars == <<loud, stored, at, from, pos, told>>

Init ==
  /\ loud = [s \in Sources |-> <<>>]
  /\ stored = [s \in Sources |-> {}]
  /\ at = NoSource /\ from = 0 /\ pos = NoCursor
  /\ told = <<>>

Add(s) ==
  /\ \E l \in BOOLEAN : loud' = [loud EXCEPT ![s] = Append(@, l)]
  /\ stored' \in {[stored EXCEPT ![s] = kept \cup {Len(loud'[s])}] : kept \in SUBSET stored[s]}
  /\ UNCHANGED <<at, from, pos, told>>

Forget(s) ==
  /\ \E kept \in SUBSET stored[s] : stored' = [stored EXCEPT ![s] = kept]
  /\ UNCHANGED <<loud, at, from, pos, told>>

Follow(s) ==
  /\ at' = s
  /\ pos' = IF s = at THEN pos ELSE NoCursor
  /\ from' = IF pos' = NoCursor THEN Len(loud[s]) ELSE from
  /\ UNCHANGED <<loud, stored, told>>

Begin ==
  /\ at # NoSource /\ pos = NoCursor
  /\ pos' \in 0 .. Len(loud[at])
  /\ \A n \in stored[at] : n <= from => n <= pos'
  /\ UNCHANGED <<loud, stored, at, from, told>>

Tell ==
  /\ at # NoSource /\ pos # NoCursor
  /\ \E n \in pos + 1 .. Len(loud[at]) :
       /\ stored[at] \cap (pos + 1 .. n - 1) = {}
       /\ <<at, n>> \notin ToSet(told)
       /\ pos' = n
       /\ told' = IF loud[at][n] THEN Append(told, <<at, n>>) ELSE told
  /\ UNCHANGED <<loud, stored, at, from>>

Next == (\E s \in Sources : Add(s) \/ Forget(s) \/ Follow(s)) \/ Begin \/ Tell

Spec == Init /\ [][Next]_vars

=============================================================================
