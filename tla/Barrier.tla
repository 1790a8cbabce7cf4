------------------------------- MODULE Barrier -------------------------------
(***************************************************************************)
(* What a barrier promises: nobody leaves it for the n-th time before      *)
(* everybody has come to it n times.  The phases of a forward pass rely on *)
(* nothing else to order their reads and writes of the shared buffers.     *)
(***************************************************************************)
EXTENDS Integers

CONSTANT Threads

VARIABLES arrivals, departures   \* per thread, how often so far

barrierVars == <<arrivals, departures>>

BarrierInit ==
  /\ arrivals = [t \in Threads |-> 0]
  /\ departures = [t \in Threads |-> 0]

Come(t) ==
  /\ arrivals[t] = departures[t]
  /\ arrivals' = [arrivals EXCEPT ![t] = @ + 1]
  /\ UNCHANGED departures

Go(t) ==
  /\ arrivals[t] = departures[t] + 1
  /\ \A u \in Threads : arrivals[u] >= arrivals[t]
  /\ departures' = [departures EXCEPT ![t] = @ + 1]
  /\ UNCHANGED arrivals

BarrierNext == \E t \in Threads : Come(t) \/ Go(t)

BarrierSpec == BarrierInit /\ [][BarrierNext]_barrierVars

=============================================================================
