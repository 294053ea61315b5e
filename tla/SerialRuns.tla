----------------------------- MODULE SerialRuns -----------------------------
(***************************************************************************)
(* What the run registry promises to the graph and its checkpoints: the    *)
(* runs of a thread take their turn one at a time, in the order in which   *)
(* they were started.  A run may lose its turn (it was stopped while it    *)
(* waited), but it never gets one after a later run had its own.           *)
(*                                                                         *)
(* RunManager implements this specification.                               *)
(***************************************************************************)
EXTENDS Integers

CONSTANTS
  Threads,  \* thread ids
  Runs      \* runs, numbered in the order in which they are started

VARIABLES
  executing,  \* thread -> the runs at work on its checkpoints
  over        \* thread -> the runs that have ended

serialVars == <<executing, over>>

SerialInit ==
  /\ executing = [t \in Threads |-> {}]
  /\ over = [t \in Threads |-> {}]

IsNext(t, r) == executing[t] = {} /\ \A q \in over[t] : q < r

Begin(t, r) ==
  /\ IsNext(t, r)
  /\ executing' = [executing EXCEPT ![t] = {r}]
  /\ UNCHANGED over

End(t, r) ==
  /\ executing[t] = {r}
  /\ executing' = [executing EXCEPT ![t] = {}]
  /\ over' = [over EXCEPT ![t] = @ \cup {r}]

Skip(t, r) ==
  /\ IsNext(t, r)
  /\ over' = [over EXCEPT ![t] = @ \cup {r}]
  /\ UNCHANGED executing

SerialNext ==
  \E t \in Threads, r \in Runs : Begin(t, r) \/ End(t, r) \/ Skip(t, r)

SerialSpec == SerialInit /\ [][SerialNext]_serialVars

=============================================================================
