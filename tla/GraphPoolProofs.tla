-------------------------- MODULE GraphPoolProofs --------------------------
(***************************************************************************)
(* The barrier is one, for every number of threads above one and any width *)
(* of the pass counter above one value; and the thread pool on it runs     *)
(* each closure while it is borrowed and once on every thread, for every   *)
(* number of threads, phases and graphs.                                   *)
(*                                                                         *)
(* The barrier. At any time some round r is being gathered. A thread has   *)
(* returned r times, and then it is outside, on its way in or counted in   *)
(* n_barrier, with the current pass counter as its old_passed; or it has   *)
(* returned r - 1 times, and then it is still on its way out of the round  *)
(* before, with the value before the current one. Once a thread has drawn  *)
(* the last ticket, everybody is inside, so nobody can arrive until the    *)
(* counters are ready for the next round.                                  *)
(*                                                                         *)
(* The pool. What a thread has begun and has left to do adds up to the     *)
(* phases of all graphs up to its own (Sums). A worker is in the last      *)
(* graph published or in the one before (Close). The owner out of          *)
(* run_graph has been through every barrier of the last graph, so by the   *)
(* barrier's RoundInv everybody has come to them, which puts every worker  *)
(* into that graph and at its end (Settled). So nothing but the barrier    *)
(* joins the workers.                                                      *)
(***************************************************************************)
EXTENDS GraphPool, FiniteSetTheorems, TLAPS

LEMMA Wrap == ASSUME NEW m \in Nat, m > 1, NEW p \in 0..(m - 1)
              PROVE  (p + 1) % m \in 0..(m - 1) /\ (p + 1) % m # p
<1>1. CASE p + 1 = m
  <2>1. m % m = 0
    OBVIOUS
  <2>2. QED
    BY <1>1, <2>1
<1>2. CASE p + 1 # m
  <2>1. (p + 1) % m = p + 1
    BY <1>2
  <2>2. QED
    BY <2>1
<1>3. QED
  BY <1>1, <1>2

LEMMA SuccIsNew == ASSUME NEW p \in 0..(PassMod - 1)
                   PROVE  Succ(p) \in 0..(PassMod - 1) /\ Succ(p) # p
BY Wrap, SpinBarrierAssumption DEF Succ

LEMMA ThreadsFinite == IsFiniteSet(Threads) /\ Cardinality(Threads) = NThreads
<1>1. Threads = 0..(NThreads - 1) /\ NThreads \in Nat
  BY SpinBarrierAssumption DEF Threads
<1>2. QED
  BY <1>1, FS_Interval, SpinBarrierAssumption

-----------------------------------------------------------------------------
(* The inductive invariant                                                 *)

\* Threads counted in n_barrier for round r.
Counted(r) == {t \in Threads : rounds[t] = r /\ at[t] \in Waiting \cup {"reset"}}

\* Thread t takes part in round r.
Gathering(t, r) ==
  /\ rounds[t] = r
  /\ at[t] \in {"out", "arrive"} \cup Waiting \cup {"reset", "bump"}
  /\ at[t] # "out" => old[t] = passed

\* Thread t is on its way out of the round before.
Leaving(t, r) ==
  /\ rounds[t] = r - 1
  /\ at[t] \in Waiting \cup {"wake"}
  /\ at[t] # "wake" => Succ(old[t]) = passed

\* Thread t has the last ticket: everybody else waits.
Closing(t, r) ==
  \A u \in Threads : /\ rounds[u] = r
                     /\ u # t => at[u] \in Waiting

Round(r) ==
  /\ \A t \in Threads : Gathering(t, r) \/ Leaving(t, r)
  /\ \A t \in Threads : at[t] \in {"reset", "bump"} => Closing(t, r)
  /\ (\A t \in Threads : at[t] # "bump") => nBarrier = Cardinality(Counted(r))
  /\ (\E t \in Threads : at[t] = "bump") => nBarrier = 0
  /\ \A t \in Threads : at[t] = "asleep" /\ rounds[t] = r - 1 => \E u \in Threads : at[u] = "wake"

RoundInv == SpinTypeOK /\ \E r \in Nat : Round(r)

LEMMA CountedFinite ==
  ASSUME SpinTypeOK, NEW r \in Nat
  PROVE  /\ IsFiniteSet(Counted(r))
         /\ Cardinality(Counted(r)) \in 0..NThreads
         /\ Cardinality(Counted(r)) = NThreads => Counted(r) = Threads
<1>1. Counted(r) \subseteq Threads
  BY DEF Counted
<1>2. QED
  BY <1>1, ThreadsFinite, FS_Subset, FS_CardinalityType, SpinBarrierAssumption

LEMMA RoundInit == SpinInit => RoundInv
<1> SUFFICES ASSUME SpinInit PROVE RoundInv
  OBVIOUS
<1> USE SpinBarrierAssumption DEF SpinInit
<1>1. SpinTypeOK
  BY DEF SpinTypeOK
<1>2. Counted(0) = {}
  BY DEF Counted, Waiting
<1>3. Cardinality(Counted(0)) = 0
  BY <1>2, FS_EmptySet
<1>4. Round(0)
  BY <1>3 DEF Round, Gathering
<1>5. QED
  BY <1>1, <1>4 DEF RoundInv

LEMMA RoundStep ==
  ASSUME RoundInv, [\E t \in Threads : SpinStep(t)]_spinVars PROVE RoundInv'
<1> USE SpinBarrierAssumption
<1>r. PICK r \in Nat : Round(r)
  BY DEF RoundInv
<1>t. /\ nBarrier \in 0..NThreads
      /\ passed \in 0..(PassMod - 1)
      /\ at \in [Threads -> {"out", "arrive"} \cup Inside]
      /\ old \in [Threads -> 0..(PassMod - 1)]
      /\ rounds \in [Threads -> Nat]
      /\ spurious \in 0..MaxSpurious
      /\ SpinTypeOK
  BY DEF RoundInv, SpinTypeOK
<1>a. \A t \in Threads : Gathering(t, r) \/ Leaving(t, r)
  BY <1>r DEF Round
\* Steps that move one thread between labels of the same kind.
<1>m. ASSUME NEW t \in Threads, NEW l \in Waiting,
             at[t] \in Waiting, at' = [at EXCEPT ![t] = l],
             l = "asleep" => old[t] = passed,
             UNCHANGED <<nBarrier, passed, old, rounds>>,
             spurious' \in 0..MaxSpurious
      PROVE  RoundInv'
  <2>1. SpinTypeOK'
    BY <1>m, <1>t DEF SpinTypeOK, Inside
  <2>2. \A u \in Threads : /\ at'[u] \in Waiting <=> at[u] \in Waiting
                           /\ at'[u] \notin Waiting => at'[u] = at[u]
                           /\ at[u] \notin Waiting => at'[u] = at[u]
    BY <1>m, <1>t
  <2>3. Counted(r)' = Counted(r)
    BY <1>m, <2>2 DEF Counted
  <2>4. \A u \in Threads : /\ Gathering(u, r) => Gathering(u, r)'
                           /\ Leaving(u, r) => Leaving(u, r)'
    BY <1>m, <2>2 DEF Gathering, Leaving, Waiting
  <2>5. \A u \in Threads : at'[u] \in {"reset", "bump"} => at[u] = at'[u] /\ Closing(u, r)'
    BY <1>m, <1>r, <2>2 DEF Round, Closing, Waiting
  <2>6. \A u \in Threads : at'[u] = "asleep" /\ rounds'[u] = r - 1 => \E v \in Threads : at'[v] = "wake"
    <3>1. ASSUME l = "asleep" PROVE rounds[t] # r - 1
      <4>1. ASSUME Leaving(t, r) PROVE FALSE
        BY <1>m, <1>t, <3>1, <4>1, SuccIsNew DEF Leaving, Waiting
      <4>2. QED
        BY <1>a, <1>t, <4>1 DEF Gathering
    <3>2. QED
      BY <1>m, <1>r, <1>t, <2>2, <3>1 DEF Round, Waiting
  <2>7. Round(r)'
    BY <1>a, <1>r, <1>m, <2>2, <2>3, <2>4, <2>5, <2>6 DEF Round, Waiting
  <2>8. QED
    BY <2>1, <2>7 DEF RoundInv
<1>1. ASSUME NEW t \in Threads, LoadPassed(t) PROVE RoundInv'
  <2>1. /\ at[t] = "out" /\ at' = [at EXCEPT ![t] = "arrive"]
        /\ old' = [old EXCEPT ![t] = passed]
        /\ UNCHANGED <<nBarrier, passed, rounds, spurious>>
    BY <1>1 DEF LoadPassed
  <2>2. SpinTypeOK'
    BY <1>t, <2>1 DEF SpinTypeOK
  <2>3. \A u \in Threads : at[u] \notin {"reset", "bump"}
    BY <1>r, <2>1 DEF Round, Closing, Waiting
  <2>4. Counted(r)' = Counted(r)
    BY <1>t, <2>1 DEF Counted, Waiting
  <2>5. \A u \in Threads : u = t => Gathering(u, r)'
    BY <1>a, <1>t, <2>1 DEF Gathering, Leaving, Waiting
  <2>6. \A u \in Threads : u # t => /\ at'[u] = at[u]
                                    /\ Gathering(u, r) => Gathering(u, r)'
                                    /\ Leaving(u, r) => Leaving(u, r)'
    BY <1>t, <2>1 DEF Gathering, Leaving
  <2>7. Round(r)'
    <3>1. \A u \in Threads : Gathering(u, r)' \/ Leaving(u, r)'
      BY <1>a, <2>5, <2>6
    <3>2. \A u \in Threads : at'[u] \notin {"reset", "bump"}
      BY <1>t, <2>1, <2>3
    <3>3. nBarrier' = Cardinality(Counted(r)')
      BY <1>r, <2>1, <2>3, <2>4 DEF Round
    <3>4. \A u \in Threads : at'[u] = "asleep" /\ rounds'[u] = r - 1 => \E v \in Threads : at'[v] = "wake"
      <4>1. \A u \in Threads : at[u] = "asleep" /\ rounds[u] = r - 1 => \E v \in Threads : at[v] = "wake"
        BY <1>r DEF Round
      <4>2. QED
        BY <1>t, <2>1, <4>1
    <3>5. QED
      BY <3>1, <3>2, <3>3, <3>4 DEF Round
  <2>8. QED
    BY <2>2, <2>7 DEF RoundInv
<1>2. ASSUME NEW t \in Threads, Arrive(t) PROVE RoundInv'
  <2>1. /\ at[t] = "arrive" /\ nBarrier' = nBarrier + 1
        /\ at' = [at EXCEPT ![t] = IF nBarrier = NThreads - 1 THEN "reset" ELSE "spin"]
        /\ UNCHANGED <<passed, old, rounds, spurious>>
    BY <1>2 DEF Arrive, IsLast
  <2>2. \A u \in Threads : at[u] \notin {"reset", "bump"}
    BY <1>r, <2>1 DEF Round, Closing, Waiting
  <2>3. Gathering(t, r)
    BY <1>a, <2>1 DEF Leaving, Waiting
  <2>4. nBarrier = Cardinality(Counted(r)) /\ t \notin Counted(r)
    BY <1>r, <2>1, <2>2 DEF Round, Counted, Waiting
  <2>5. Counted(r)' = Counted(r) \cup {t}
    BY <1>t, <2>1, <2>3 DEF Counted, Waiting, Gathering
  <2>6. nBarrier' = Cardinality(Counted(r)')
    BY <1>t, <2>1, <2>4, <2>5, CountedFinite, FS_AddElement
  <2>7. Counted(r)' \subseteq Threads
    BY DEF Counted
  <2>8. nBarrier' \in 0..NThreads /\ (nBarrier' = NThreads => Counted(r)' = Threads)
    BY <2>6, <2>7, ThreadsFinite, FS_Subset, FS_CardinalityType
  <2>9. SpinTypeOK'
    BY <1>t, <2>1, <2>8 DEF SpinTypeOK, Inside, Waiting
  <2>10. \A u \in Threads : /\ u # t => at'[u] = at[u]
                            /\ Gathering(u, r) => Gathering(u, r)'
                            /\ Leaving(u, r) => Leaving(u, r)'
    BY <1>t, <2>1, <2>3 DEF Gathering, Leaving, Waiting
  <2>11. \A u \in Threads : at'[u] \in {"reset", "bump"} => Closing(u, r)'
    <3> SUFFICES ASSUME NEW u \in Threads, at'[u] \in {"reset", "bump"} PROVE Closing(u, r)'
      OBVIOUS
    <3>1. u = t /\ nBarrier = NThreads - 1
      BY <1>t, <2>1, <2>2, <2>10
    <3>2. Counted(r)' = Threads
      <4>1. nBarrier' = NThreads
        BY <2>1, <3>1
      <4>2. QED
        BY <2>8, <4>1
    <3>3. \A v \in Threads : rounds'[v] = r /\ at'[v] \in Waiting \cup {"reset"}
      BY <3>2 DEF Counted
    <3>4. QED
      BY <2>2, <2>10, <3>1, <3>3 DEF Closing
  <2>12. \A u \in Threads : /\ at'[u] # "bump"
                            /\ at'[u] = "asleep" => at[u] = "asleep"
                            /\ at[u] = "wake" => at'[u] = "wake"
    BY <1>t, <2>1, <2>2
  <2>13. Round(r)'
    BY <1>a, <1>r, <2>1, <2>6, <2>10, <2>11, <2>12 DEF Round
  <2>14. QED
    BY <2>9, <2>13 DEF RoundInv
<1>3. ASSUME NEW t \in Threads, Reset(t) PROVE RoundInv'
  <2>1. /\ at[t] = "reset" /\ nBarrier' = 0 /\ at' = [at EXCEPT ![t] = "bump"]
        /\ UNCHANGED <<passed, old, rounds, spurious>>
    BY <1>3 DEF Reset, Cleared
  <2>2. Closing(t, r)
    BY <1>r, <2>1 DEF Round
  <2>3. SpinTypeOK'
    BY <1>t, <2>1 DEF SpinTypeOK, Inside
  <2>4. \A u \in Threads : Gathering(u, r)'
    BY <1>a, <1>t, <2>1, <2>2 DEF Gathering, Leaving, Closing
  <2>5. Closing(t, r)' /\ at'[t] = "bump" /\ \A u \in Threads : u # t => at'[u] \in Waiting
    BY <1>t, <2>1, <2>2 DEF Closing
  <2>6. Round(r)'
    BY <1>t, <2>1, <2>4, <2>5 DEF Round, Waiting, Gathering
  <2>7. QED
    BY <2>3, <2>6 DEF RoundInv
<1>4. ASSUME NEW t \in Threads, Bump(t) PROVE RoundInv'
  <2>1. /\ at[t] = "bump" /\ passed' = Succ(passed) /\ at' = [at EXCEPT ![t] = "wake"]
        /\ UNCHANGED <<nBarrier, old, rounds, spurious>>
    BY <1>4 DEF Bump
  <2>2. Closing(t, r) /\ nBarrier = 0
    BY <1>r, <2>1 DEF Round
  <2>3. SpinTypeOK'
    BY <1>t, <2>1, SuccIsNew DEF SpinTypeOK, Inside
  <2>4. \A u \in Threads : rounds[u] = r /\ at[u] # "out" /\ old[u] = passed
    BY <1>a, <1>t, <2>1, <2>2 DEF Gathering, Leaving, Closing, Waiting
  <2>5. at'[t] = "wake" /\ \A u \in Threads : u # t => at'[u] \in Waiting
    BY <1>t, <2>1, <2>2 DEF Closing
  <2>6. \A u \in Threads : Leaving(u, r + 1)'
    BY <1>t, <2>1, <2>4, <2>5 DEF Leaving
  <2>7. Counted(r + 1)' = {}
    BY <1>t, <2>1, <2>4 DEF Counted
  <2>8. nBarrier' = Cardinality(Counted(r + 1)')
    BY <2>1, <2>2, <2>7, FS_EmptySet
  <2>9. Round(r + 1)'
    BY <2>5, <2>6, <2>8 DEF Round, Waiting
  <2>10. QED
    BY <2>3, <2>9 DEF RoundInv
<1>5. ASSUME NEW t \in Threads, Wake(t) PROVE RoundInv'
  <2>1. /\ at[t] = "wake"
        /\ at' = [u \in Threads |-> IF u = t THEN "out"
                                     ELSE IF at[u] = "asleep" THEN "check" ELSE at[u]]
        /\ rounds' = [rounds EXCEPT ![t] = @ + 1]
        /\ UNCHANGED <<nBarrier, passed, old, spurious>>
    BY <1>5 DEF Wake, Woken
  <2>2. rounds[t] = r - 1
    BY <1>a, <2>1 DEF Gathering, Leaving, Waiting
  <2>3. SpinTypeOK'
    BY <1>t, <2>1 DEF SpinTypeOK, Inside, Waiting
  <2>4. \A u \in Threads : at[u] \notin {"reset", "bump"}
    BY <1>r, <2>2 DEF Round, Closing
  <2>5. \A u \in Threads : u # t => /\ rounds'[u] = rounds[u]
                                    /\ at'[u] \in Waiting <=> at[u] \in Waiting
                                    /\ at[u] \notin Waiting => at'[u] = at[u]
                                    /\ at'[u] \notin Waiting => at'[u] = at[u]
    BY <1>t, <2>1 DEF Waiting
  <2>6. rounds'[t] = r /\ at'[t] = "out"
    BY <1>t, <2>1, <2>2
  <2>7. Counted(r)' = Counted(r)
    BY <2>1, <2>2, <2>5, <2>6 DEF Counted, Waiting
  <2>8. \A u \in Threads : u = t => Gathering(u, r)'
    BY <2>6 DEF Gathering
  <2>9. \A u \in Threads : u # t => /\ Gathering(u, r) => Gathering(u, r)'
                                    /\ Leaving(u, r) => Leaving(u, r)'
    BY <2>1, <2>5 DEF Gathering, Leaving, Waiting
  <2>10. \A u \in Threads : at'[u] \notin {"reset", "bump", "asleep"}
    BY <2>1, <2>4
  <2>11. Round(r)'
    <3>1. \A u \in Threads : Gathering(u, r)' \/ Leaving(u, r)'
      BY <1>a, <2>8, <2>9
    <3>2. nBarrier' = Cardinality(Counted(r)')
      BY <1>r, <2>1, <2>4, <2>7 DEF Round
    <3>3. QED
      BY <2>10, <3>1, <3>2 DEF Round
  <2>12. QED
    BY <2>3, <2>11 DEF RoundInv
<1>6. ASSUME NEW t \in Threads, SeesPass(t) PROVE RoundInv'
  <2>1. /\ at[t] \in {"spin", "check"} /\ passed # old[t]
        /\ at' = [at EXCEPT ![t] = "out"]
        /\ rounds' = [rounds EXCEPT ![t] = @ + 1]
        /\ UNCHANGED <<nBarrier, passed, old, spurious>>
    BY <1>6 DEF SeesPass, Leave
  <2>2. rounds[t] = r - 1
    BY <1>a, <2>1 DEF Gathering, Leaving
  <2>3. SpinTypeOK'
    BY <1>t, <2>1 DEF SpinTypeOK
  <2>4. \A u \in Threads : at[u] \notin {"reset", "bump"}
    BY <1>r, <2>2 DEF Round, Closing
  <2>5. rounds'[t] = r /\ at'[t] = "out"
    BY <1>t, <2>1, <2>2
  <2>6. \A u \in Threads : u # t => rounds'[u] = rounds[u] /\ at'[u] = at[u]
    BY <1>t, <2>1
  <2>7. Counted(r)' = Counted(r)
    BY <2>2, <2>5, <2>6 DEF Counted, Waiting
  <2>8. \A u \in Threads : u = t => Gathering(u, r)'
    BY <2>5 DEF Gathering
  <2>9. \A u \in Threads : u # t => /\ Gathering(u, r) => Gathering(u, r)'
                                    /\ Leaving(u, r) => Leaving(u, r)'
    BY <2>1, <2>6 DEF Gathering, Leaving
  <2>10. \A u \in Threads : at'[u] = "asleep" /\ rounds'[u] = r - 1 => \E v \in Threads : at'[v] = "wake"
    BY <1>r, <2>1, <2>5, <2>6 DEF Round
  <2>11. \A u \in Threads : at'[u] \notin {"reset", "bump"}
    BY <2>4, <2>5, <2>6
  <2>12. Round(r)'
    <3>1. \A u \in Threads : Gathering(u, r)' \/ Leaving(u, r)'
      BY <1>a, <2>8, <2>9
    <3>2. nBarrier' = Cardinality(Counted(r)')
      BY <1>r, <2>1, <2>4, <2>7 DEF Round
    <3>3. QED
      BY <2>10, <2>11, <3>1, <3>2 DEF Round
  <2>13. QED
    BY <2>3, <2>12 DEF RoundInv
<1>7. ASSUME NEW t \in Threads, SpinEnds(t) \/ SeesNoPass(t) \/ FutexWait(t) \/ Interrupted(t)
      PROVE  RoundInv'
  <2>1. CASE SpinEnds(t)
    BY <2>1, <1>m, <1>t DEF SpinEnds, Waiting
  <2>2. CASE SeesNoPass(t)
    BY <2>2, <1>m, <1>t DEF SeesNoPass, Waiting
  <2>3. CASE FutexWait(t)
    <3>1. CASE passed = old[t]
      BY <2>3, <3>1, <1>m, <1>t DEF FutexWait, StillExpected, Waiting
    <3>2. CASE passed # old[t]
      BY <2>3, <3>2, <1>m, <1>t DEF FutexWait, StillExpected, Waiting
    <3>3. QED
      BY <3>1, <3>2
  <2>4. CASE Interrupted(t)
    <3>1. spurious' \in 0..MaxSpurious
      BY <2>4, <1>t DEF Interrupted
    <3>2. QED
      BY <2>4, <3>1, <1>m DEF Interrupted, Waiting
  <2>5. QED
    BY <1>7, <2>1, <2>2, <2>3, <2>4
<1>8. CASE UNCHANGED spinVars
  <2>1. SpinTypeOK'
    BY <1>8, <1>t DEF SpinTypeOK, spinVars
  <2>2. Counted(r)' = Counted(r)
    BY <1>8 DEF Counted, spinVars
  <2>3. Round(r)'
    BY <1>8, <1>r, <2>2 DEF Round, Gathering, Leaving, Closing, spinVars
  <2>4. QED
    BY <2>1, <2>3 DEF RoundInv
<1>9. QED
  BY <1>1, <1>2, <1>3, <1>4, <1>5, <1>6, <1>7, <1>8 DEF SpinStep, Proceed

LEMMA RoundNext == RoundInv /\ [SpinNext]_spinVars => RoundInv'
BY RoundStep DEF SpinNext

-----------------------------------------------------------------------------
(* What follows from it                                                    *)

\* Both counters of the barrier stay in their range: n_barrier never counts more
\* arrivals than there are threads, though it is cleared in the middle of the
\* next calls (SpinBarrier::wait).
THEOREM BarrierTypeCorrect == SpinSpec => []SpinTypeOK
<1>1. RoundInv => SpinTypeOK
  BY DEF RoundInv
<1>2. QED
  BY RoundInit, RoundNext, <1>1, PTL DEF SpinSpec

LEMMA RoundNoLostWakeup == RoundInv => NoLostWakeup
<1> SUFFICES ASSUME RoundInv, NEW t \in Threads, at[t] = "asleep", passed # old[t]
             PROVE  \E u \in Threads : at[u] = "wake"
  BY DEF NoLostWakeup
<1>1. PICK r \in Nat : Round(r)
  BY DEF RoundInv
<1>2. rounds[t] = r - 1
  BY <1>1 DEF Round, Gathering, Leaving
<1>3. QED
  BY <1>1, <1>2 DEF Round

\* A thread that blocks in the futex while the last arriver bumps the counter is
\* never left there: it is asleep on an old value only while futex_wake_all is
\* still to come (SpinBarrier::wait, futex::wait).
THEOREM BarrierNoLostWakeup == SpinSpec => []NoLostWakeup
<1>1. RoundInv /\ [SpinNext]_spinVars => RoundInv'
  BY RoundNext
<1>2. QED
  BY RoundInit, RoundNoLostWakeup, <1>1, PTL DEF SpinSpec

-----------------------------------------------------------------------------
(* Refinement of Barrier: the increment of n_barrier is the arrival, the   *)
(* return is the departure, everything else is invisible.                  *)

\* In the round r that is being gathered everybody has come r times already.
LEMMA LeaversMayGo ==
  ASSUME RoundInv, NEW r \in Nat, Round(r), NEW t \in Threads, rounds[t] = r - 1
  PROVE  \A u \in Threads : Arrivals[u] >= Arrivals[t]
<1>1. /\ \A u \in Threads : Gathering(u, r) \/ Leaving(u, r)
      /\ rounds \in [Threads -> Nat]
  BY DEF Round, RoundInv, SpinTypeOK
<1>2. \A u \in Threads : Leaving(u, r) => Arrivals[u] = r
  BY <1>1 DEF Leaving, Arrivals, Inside
<1>3. \A u \in Threads : Gathering(u, r) => Arrivals[u] >= r
  BY <1>1 DEF Gathering, Arrivals
<1>4. Leaving(t, r)
  BY <1>1 DEF Gathering
<1>5. QED
  BY <1>1, <1>2, <1>3, <1>4

\* A return from wait() is a departure.
LEMMA LeaveIsGo ==
  ASSUME RoundInv, NEW r \in Nat, Round(r), NEW t \in Threads,
         rounds[t] = r - 1, at[t] \in Inside,
         rounds' = [rounds EXCEPT ![t] = @ + 1],
         at' \in [Threads -> {"out", "arrive"} \cup Inside], at'[t] = "out",
         \A u \in Threads : u # t => (at'[u] \in Inside <=> at[u] \in Inside)
  PROVE  B!Go(t)
<1>1. rounds \in [Threads -> Nat]
  BY DEF RoundInv, SpinTypeOK
<1>2. "out" \notin Inside
  BY DEF Inside, Waiting
<1>3. Arrivals' = Arrivals
  BY <1>1, <1>2 DEF Arrivals
<1>4. Arrivals[t] = rounds[t] + 1
  BY <1>1 DEF Arrivals
<1>5. \A u \in Threads : Arrivals[u] >= Arrivals[t]
  BY LeaversMayGo
<1>6. QED
  BY <1>3, <1>4, <1>5 DEF B!Go

LEMMA StepSimulates == RoundInv /\ [SpinNext]_spinVars => [B!BarrierNext]_(B!barrierVars)
<1> SUFFICES ASSUME RoundInv, [SpinNext]_spinVars
             PROVE  B!BarrierNext \/ (Arrivals' = Arrivals /\ rounds' = rounds)
  BY DEF B!barrierVars
<1>r. PICK r \in Nat : Round(r)
  BY DEF RoundInv
<1>t. /\ at \in [Threads -> {"out", "arrive"} \cup Inside]
      /\ rounds \in [Threads -> Nat]
  BY DEF RoundInv, SpinTypeOK
<1>a. \A t \in Threads : Gathering(t, r) \/ Leaving(t, r)
  BY <1>r DEF Round
<1>1. ASSUME NEW t \in Threads, Arrive(t) PROVE B!BarrierNext
  <2>1. /\ at[t] = "arrive" /\ at'[t] \in Inside /\ rounds' = rounds
        /\ \A u \in Threads : u # t => at'[u] = at[u]
    BY <1>1, <1>t DEF Arrive, Inside, Waiting
  <2>2. "arrive" \notin Inside
    BY DEF Inside, Waiting
  <2>3. Arrivals[t] = rounds[t]
    BY <1>t, <2>1, <2>2 DEF Arrivals
  <2>4. Arrivals' = [Arrivals EXCEPT ![t] = @ + 1]
    <3>1. \A u \in Threads : u # t => Arrivals'[u] = Arrivals[u]
      BY <2>1 DEF Arrivals
    <3>2. Arrivals'[t] = rounds[t] + 1
      BY <2>1 DEF Arrivals
    <3>3. /\ Arrivals = [u \in Threads |-> Arrivals[u]]
          /\ Arrivals' = [u \in Threads |-> Arrivals'[u]]
      BY DEF Arrivals
    <3>4. QED
      BY <2>3, <3>1, <3>2, <3>3
  <2>5. QED
    BY <2>1, <2>3, <2>4 DEF B!BarrierNext, B!Come
<1>2. ASSUME NEW t \in Threads, Wake(t) PROVE B!BarrierNext
  <2>1. rounds[t] = r - 1 /\ at[t] = "wake"
    BY <1>2, <1>a DEF Wake, Gathering, Leaving, Waiting
  <2>2. /\ at' \in [Threads -> {"out", "arrive"} \cup Inside] /\ at'[t] = "out"
        /\ rounds' = [rounds EXCEPT ![t] = @ + 1]
        /\ \A u \in Threads : u # t => (at'[u] \in Inside <=> at[u] \in Inside)
    BY <1>2, <1>t DEF Wake, Woken, Inside, Waiting
  <2>3. at[t] \in Inside
    BY <2>1 DEF Inside
  <2>4. B!Go(t)
    BY <1>r, <2>1, <2>2, <2>3, LeaveIsGo
  <2>5. QED
    BY <2>4 DEF B!BarrierNext
<1>3. ASSUME NEW t \in Threads, SeesPass(t) PROVE B!BarrierNext
  <2>1. rounds[t] = r - 1 /\ at[t] \in {"spin", "check"}
    BY <1>3, <1>a DEF SeesPass, Gathering, Leaving
  <2>2. /\ at' \in [Threads -> {"out", "arrive"} \cup Inside] /\ at'[t] = "out"
        /\ rounds' = [rounds EXCEPT ![t] = @ + 1]
        /\ \A u \in Threads : u # t => (at'[u] \in Inside <=> at[u] \in Inside)
    BY <1>3, <1>t DEF SeesPass, Leave
  <2>3. at[t] \in Inside
    BY <2>1 DEF Inside, Waiting
  <2>4. B!Go(t)
    BY <1>r, <2>1, <2>2, <2>3, LeaveIsGo
  <2>5. QED
    BY <2>4 DEF B!BarrierNext
<1>4. ASSUME NEW t \in Threads,
             LoadPassed(t) \/ Reset(t) \/ Bump(t) \/ SpinEnds(t) \/ SeesNoPass(t) \/ FutexWait(t) \/ Interrupted(t)
      PROVE  Arrivals' = Arrivals /\ rounds' = rounds
  <2>1. rounds' = rounds /\ \A u \in Threads : at'[u] \in Inside <=> at[u] \in Inside
    BY <1>4, <1>t DEF LoadPassed, Reset, Bump, SpinEnds, SeesNoPass, FutexWait, Interrupted,
                      Inside, Waiting
  <2>2. QED
    BY <1>t, <2>1 DEF Arrivals
<1>5. CASE UNCHANGED spinVars
  BY <1>5 DEF spinVars, Arrivals
<1>6. QED
  BY <1>1, <1>2, <1>3, <1>4, <1>5 DEF SpinNext, SpinStep, Proceed

LEMMA InitSimulates == SpinInit => B!BarrierInit
<1> SUFFICES ASSUME SpinInit PROVE B!BarrierInit
  OBVIOUS
<1>1. Arrivals = [t \in Threads |-> 0]
  BY DEF SpinInit, Arrivals, Inside, Waiting
<1>2. QED
  BY <1>1 DEF SpinInit, B!BarrierInit

\* SpinBarrier::wait implements Barrier: nobody returns from the n-th call before
\* everybody has made it, for any number of threads and rounds, spurious wakeups
\* and wrap-arounds of n_barrier_passed included.
THEOREM BarrierImplemented == SpinSpec => IsABarrier
<1>1. RoundInv /\ [SpinNext]_spinVars => RoundInv'
  BY RoundNext
<1>2. QED
  BY RoundInit, InitSimulates, StepSimulates, <1>1, PTL DEF SpinSpec, IsABarrier, B!BarrierSpec

-----------------------------------------------------------------------------
(* The thread pool.                                                        *)

\* Graphs published in n_graph.
Published == IF pc[Owner] = "kickoff" THEN graphs - 1 ELSE graphs

\* Calls of wait() that thread t has begun.
Begun(t) == rounds[t] + (IF at[t] = "out" THEN 0 ELSE 1)

\* The phases of the graphs up to g.
Upto(g) == g * Phases

Sums ==
  \A t \in Threads :
    /\ Begun(t) + left[t] = Upto(job[t])
    /\ pc[t] # "work" => at[t] = "out" /\ left[t] = 0
    /\ left[t] = Phases => at[t] = "out"

OwnerInv ==
  /\ pc[Owner] \in {"idle", "kickoff", "work", "dropKick", "join", "freed"}
  /\ stop <=> pc[Owner] \in {"dropKick", "join", "freed"}
  /\ work = graphs
  /\ pc[Owner] = "kickoff" => graphs > 0
  /\ job[Owner] = Published
  /\ pc[Owner] \notin {"join", "freed"} =>
       nGraph.active = IF Published = 0 THEN 0 ELSE NThreads

Close ==
  \A t \in Workers :
    /\ pc[t] \notin {"idle", "kickoff", "dropKick", "join", "freed"}
    /\ job[t] \in {Published - 1, Published}
    /\ pc[t] = "read" => job[t] = Published - 1

\* A worker that took the last graph is on its way to it, and one that has run
\* the last graph knows it.
Knows ==
  ~stop => \A t \in Workers :
    /\ pc[t] # "notPending"
    /\ pc[t] \in {"stopCheck", "read"} => job[t] = Published - 1 /\ last[t] = nGraph
    /\ pc[t] \notin {"stopCheck", "read"} /\ job[t] = Published => last[t] = nGraph

PoolInv == TypeOK /\ Sums /\ OwnerInv /\ Close /\ Knows

-----------------------------------------------------------------------------
(* Numbers                                                                 *)

LEMMA UptoNat ==
  /\ Upto(0) = 0
  /\ \A g \in Nat : Upto(g) \in Nat /\ Upto(g + 1) = Upto(g) + Phases
<1>1. Phases \in Nat
  BY GraphPoolAssumption
<1>2. ASSUME NEW n \in Nat PROVE 0 * n = 0
  OBVIOUS
<1>3. ASSUME NEW g \in Nat, NEW n \in Nat PROVE g * n \in Nat
  OBVIOUS
<1>4. ASSUME NEW g \in Int, NEW n \in Int PROVE (g + 1) * n = g * n + n
  OBVIOUS
<1> QED
  BY <1>1, <1>2, <1>3, <1>4 DEF Upto

LEMMA Members ==
  /\ Owner \in Threads /\ Owner \notin Workers
  /\ Workers \subseteq Threads
  /\ \A t \in Threads : t # Owner => t \in Workers
  /\ \A t \in Threads : t \in Nat /\ t < NThreads
  /\ Nobody \notin Threads
  /\ NThreads \in Nat /\ Phases \in Nat /\ Phases > 0 /\ MaxGraphs \in Nat
  /\ GraphMod \in Nat /\ GraphMod > 1 /\ MaxSpurious \in Nat
BY SpinBarrierAssumption, GraphPoolAssumption DEF Threads, Owner, Workers, Nobody

LEMMA PoolTypes ==
  ASSUME PoolInv
  PROVE  /\ graphs \in Nat /\ Published \in Nat /\ graphs <= MaxGraphs
         /\ job \in [Threads -> Nat] /\ left \in [Threads -> Nat]
         /\ rounds \in [Threads -> Nat]
         /\ \A t \in Threads : left[t] <= Phases /\ Begun(t) \in Nat
<1>1. /\ graphs \in Nat /\ graphs <= MaxGraphs /\ rounds \in [Threads -> Nat]
      /\ job \in [Threads -> Nat] /\ left \in [Threads -> Nat]
      /\ \A t \in Threads : left[t] <= Phases
  BY Members DEF PoolInv, TypeOK, SpinTypeOK
<1>2. Published \in Nat
  BY <1>1 DEF Published, PoolInv, OwnerInv
<1> QED
  BY <1>1, <1>2 DEF Begun

-----------------------------------------------------------------------------
(* What the barrier says of the pool                                       *)

\* In the round r everybody has begun r calls of wait(), one more at most.
LEMMA InRound ==
  ASSUME RoundInv, NEW r \in Nat, Round(r), NEW t \in Threads
  PROVE  /\ at[t] = "out" => Begun(t) = r /\ rounds[t] = r
         /\ Begun(t) \in {r, r + 1}
         /\ r <= Arrivals[t] /\ Arrivals[t] <= Begun(t)
         /\ rounds[t] \in Nat /\ Arrivals[t] \in Nat
<1>1. rounds[t] \in Nat
  BY DEF RoundInv, SpinTypeOK
<1>2. Arrivals[t] = rounds[t] + (IF at[t] \in Inside THEN 1 ELSE 0)
  BY DEF Arrivals
<1>3. CASE Gathering(t, r)
  BY <1>1, <1>2, <1>3 DEF Gathering, Begun, Inside, Waiting
<1>4. CASE Leaving(t, r)
  BY <1>1, <1>2, <1>4 DEF Leaving, Begun, Inside, Waiting
<1> QED
  BY <1>3, <1>4 DEF Round

\* The owner is out of run_graph: everybody is in the last graph, and has come
\* to all of its barriers.
LEMMA Settled ==
  ASSUME RoundInv, PoolInv, pc[Owner] # "work"
  PROVE  \A t \in Workers : job[t] = Published /\ Arrivals[t] = Upto(Published)
<1> SUFFICES ASSUME NEW t \in Workers
             PROVE  job[t] = Published /\ Arrivals[t] = Upto(Published)
  OBVIOUS
<1>1. PICK r \in Nat : Round(r)
  BY DEF RoundInv
<1>2. t \in Threads /\ Owner \in Threads
  BY Members
<1>3. Begun(Owner) = r /\ left[Owner] = 0 /\ job[Owner] = Published
  BY <1>1, <1>2, InRound DEF PoolInv, Sums, OwnerInv
<1>4. r = Upto(Published)
  BY <1>2, <1>3 DEF PoolInv, Sums
<1>5. /\ Begun(t) + left[t] = Upto(job[t]) /\ left[t] \in Nat /\ job[t] \in Nat
      /\ Begun(t) \in Nat /\ Published \in Nat
      /\ job[t] \in {Published - 1, Published}
  BY <1>2, PoolTypes DEF PoolInv, Sums, Close
<1>6. r <= Arrivals[t] /\ Arrivals[t] <= Begun(t) /\ Arrivals[t] \in Nat
  BY <1>1, <1>2, InRound
<1>7. job[t] # Published - 1
  <2> SUFFICES ASSUME job[t] = Published - 1 PROVE FALSE
    OBVIOUS
  <2>1. Upto(Published) = Upto(job[t]) + Phases /\ Upto(job[t]) \in Nat
    BY <1>5, UptoNat
  <2> QED
    BY <1>4, <1>5, <1>6, <2>1, Members
<1> QED
  BY <1>4, <1>5, <1>6, <1>7

LEMMA PoolApart == ASSUME RoundInv, PoolInv PROVE GraphsApart
<1>1. PICK r \in Nat : Round(r)
  BY DEF RoundInv
<1>2. ClosureAlive
  <2> SUFFICES ASSUME NEW t \in Threads, InPhase(t)
               PROVE  pc[Owner] = "work" /\ job[t] = job[Owner]
    BY DEF ClosureAlive
  <2> USE Members
  <2>1. Begun(t) = r /\ left[t] \in Nat /\ left[t] > 0
    BY <1>1, InRound, PoolTypes DEF InPhase
  <2>2. r + left[t] = Upto(job[t]) /\ job[t] \in Nat /\ Published \in Nat
    BY <2>1, PoolTypes DEF PoolInv, Sums
  <2>3. pc[Owner] = "work"
    <3> SUFFICES ASSUME pc[Owner] # "work" PROVE FALSE
      OBVIOUS
    <3>1. Begun(Owner) = r /\ left[Owner] = 0 /\ job[Owner] = Published
      BY <1>1, InRound DEF PoolInv, Sums, OwnerInv
    <3>2. r = Upto(Published)
      BY <3>1 DEF PoolInv, Sums
    <3>3. job[t] = Published
      BY <3>1, Settled
    <3> QED
      BY <2>1, <2>2, <3>2, <3>3
  <2>4. t # Owner /\ job[t] = Published - 1 => FALSE
    <3> SUFFICES ASSUME job[t] = Published - 1 PROVE FALSE
      OBVIOUS
    <3>1. Upto(Published) = Upto(job[t]) + Phases
      BY <2>2, UptoNat
    <3>2. /\ Begun(Owner) + left[Owner] = Upto(Published) /\ left[Owner] \in Nat
          /\ left[Owner] <= Phases /\ Begun(Owner) \in Nat
          /\ left[Owner] = Phases => at[Owner] = "out"
      BY PoolTypes DEF PoolInv, Sums, OwnerInv
    <3>3. Begun(Owner) \in {r, r + 1} /\ (at[Owner] = "out" => Begun(Owner) = r)
      BY <1>1, InRound
    <3> QED
      BY <2>1, <2>2, <3>1, <3>2, <3>3
  <2> QED
    BY <2>3, <2>4 DEF PoolInv, Close, OwnerInv
<1>3. SamePhase
  BY <1>1, InRound DEF SamePhase, InPhase
<1>4. EachGraphOnce
  BY Settled DEF EachGraphOnce, Published, Upto
<1> QED
  BY <1>2, <1>3, <1>4, RoundNoLostWakeup DEF GraphsApart, PoolInv

-----------------------------------------------------------------------------
(* The invariant is inductive                                              *)

\* A thread on its way through wait() begins no call and ends none it has not
\* begun.
LEMMA OnItsWay ==
  ASSUME RoundInv, NEW t \in Threads, Proceed(t) \/ Interrupted(t)
  PROVE  /\ \A u \in Threads : Begun(u)' = Begun(u) /\ (at[u] = "out" => at'[u] = "out")
         /\ SpinStep(t)
<1>1. at \in [Threads -> {"out", "arrive"} \cup Inside] /\ rounds \in [Threads -> Nat]
  BY DEF RoundInv, SpinTypeOK
<1>2. CASE Wake(t)
  BY <1>1, <1>2 DEF Wake, Woken, Begun, SpinStep, Proceed
<1>3. CASE SeesPass(t)
  BY <1>1, <1>3 DEF SeesPass, Leave, Begun, SpinStep, Proceed
<1>4. CASE Arrive(t) \/ Reset(t) \/ Bump(t) \/ SpinEnds(t) \/ SeesNoPass(t) \/ FutexWait(t)
           \/ Interrupted(t)
  BY <1>1, <1>4 DEF Arrive, Reset, Bump, SpinEnds, SeesNoPass, FutexWait, Interrupted, Begun,
                    SpinStep, Proceed
<1> QED
  BY <1>2, <1>3, <1>4 DEF Proceed

\* Steps of the pool outside wait().
Quiet(t) ==
  \/ Finish(t)
  \/ t = Owner /\ OwnerStep
  \/ t \in Workers /\ (WorkerStep(t) \/ CondSpurious(t))

LEMMA Steps ==
  ASSUME [Next]_vars
  PROVE  \/ \E t \in Threads : FinishPhase(t)
         \/ \E t \in Threads : (Proceed(t) \/ Interrupted(t)) /\ UNCHANGED poolVars
         \/ \E t \in Threads : Quiet(t)
         \/ UNCHANGED vars
<1>1. CASE UNCHANGED vars
  BY <1>1
<1>2. CASE \E t \in Threads : RunClosure(t) \/ (Interrupted(t) /\ UNCHANGED poolVars)
  BY <1>2 DEF RunClosure, Quiet
<1>3. CASE OwnerStep
  BY <1>3, Members DEF Quiet
<1>4. CASE \E t \in Workers : WorkerStep(t) \/ CondSpurious(t)
  BY <1>4, Members DEF Quiet
<1> QED
  BY <1>1, <1>2, <1>3, <1>4 DEF Next

LEMMA QuietSpin ==
  ASSUME NEW t \in Threads, Quiet(t)
  PROVE  UNCHANGED spinVars
BY DEF Quiet, Finish, OwnerStep, SetWork, Kickoff, SetStop, DropKick, Join, WorkerStep,
       PollStop, PollGraph, PollAgain, Lock, LockedStop, LockedGraph, LockedNothing, CondWait,
       StopCheck, ReadWork, CondSpurious

LEMMA PoolSpins == ASSUME [Next]_vars PROVE [SpinNext]_spinVars
<1>1. CASE \E t \in Threads : FinishPhase(t)
  BY <1>1 DEF FinishPhase, SpinNext, SpinStep
<1>2. CASE \E t \in Threads : (Proceed(t) \/ Interrupted(t)) /\ UNCHANGED poolVars
  BY <1>2 DEF SpinNext, SpinStep
<1>3. CASE \E t \in Threads : Quiet(t)
  BY <1>3, QuietSpin
<1>4. CASE UNCHANGED vars
  BY <1>4 DEF vars
<1> QED
  BY <1>1, <1>2, <1>3, <1>4, Steps

LEMMA RoundPool == ASSUME RoundInv, [Next]_vars PROVE RoundInv'
BY PoolSpins, RoundNext

\* Within a closure: nothing but the barrier and what is left changes.
LEMMA ClosureStep ==
  ASSUME RoundInv, RoundInv', PoolInv, NEW t \in Threads,
         FinishPhase(t) \/ ((Proceed(t) \/ Interrupted(t)) /\ UNCHANGED poolVars)
  PROVE  PoolInv'
<1> USE Members
<1>1. /\ UNCHANGED <<pc, nGraph, last, stop, work, mutex, job, graphs, condSpurious>>
      /\ Published' = Published
  BY DEF FinishPhase, poolVars, Published
<1>2. /\ at \in [Threads -> {"out", "arrive"} \cup Inside] /\ rounds \in [Threads -> Nat]
      /\ left \in [Threads -> 0..Phases]
  BY DEF RoundInv, SpinTypeOK, PoolInv, TypeOK
<1>3. Sums' /\ left' \in [Threads -> 0..Phases]
  <2>1. CASE FinishPhase(t)
    <3>1. /\ pc[t] = "work" /\ at[t] = "out" /\ left[t] > 0
          /\ at' = [at EXCEPT ![t] = "arrive"] /\ rounds' = rounds
          /\ left' = [left EXCEPT ![t] = left[t] - 1]
      BY <2>1 DEF FinishPhase, InPhase, LoadPassed
    <3>2. left' \in [Threads -> 0..Phases] /\ left'[t] # Phases
      BY <1>2, <3>1
    <3>3. \A u \in Threads : Begun(u)' + left'[u] = Begun(u) + left[u]
      BY <1>2, <3>1 DEF Begun
    <3>4. \A u \in Threads : u # t => at'[u] = at[u] /\ left'[u] = left[u]
      BY <1>2, <3>1
    <3> QED
      BY <1>1, <3>1, <3>2, <3>3, <3>4 DEF PoolInv, Sums
  <2>2. CASE (Proceed(t) \/ Interrupted(t)) /\ UNCHANGED poolVars
    BY <1>2, <2>2, OnItsWay DEF PoolInv, Sums, poolVars
  <2> QED
    BY <2>1, <2>2
<1>4. TypeOK'
  BY <1>1, <1>3 DEF PoolInv, TypeOK, RoundInv
<1> QED
  BY <1>1, <1>3, <1>4 DEF PoolInv, OwnerInv, Close, Knows

\* Where a worker is between the graphs, but for the way to the next one.
Between == {"poll", "pollGraph", "lock", "lockedStop", "lockedGraph", "goWait", "wait", "exited"}

\* A worker that takes nothing and begins nothing.
LEMMA PlainMove ==
  ASSUME PoolInv, NEW t \in Workers, NEW l \in Between,
         \/ pc[t] \in Between
         \/ pc[t] = "work" /\ at[t] = "out" /\ left[t] = 0,
         pc' = [pc EXCEPT ![t] = l],
         UNCHANGED <<spinVars, nGraph, last, stop, work, job, left, graphs>>,
         mutex' \in Workers \cup {Nobody}, condSpurious' \in 0..MaxSpurious
  PROVE  PoolInv'
<1> USE Members DEF spinVars
<1>1. t \in Threads /\ t # Owner /\ l \notin {"read", "stopCheck", "notPending", "work"}
      /\ l \notin {"idle", "kickoff", "dropKick", "join", "freed"}
  BY DEF Between
<1>2. TypeOK'
  BY <1>1 DEF PoolInv, TypeOK, SpinTypeOK, Between
<1>3. pc'[t] = l /\ \A u \in Threads : u # t => pc'[u] = pc[u]
  BY <1>1 DEF PoolInv, TypeOK
<1>4. Published' = Published /\ pc'[Owner] = pc[Owner] /\ \A u \in Threads : Begun(u)' = Begun(u)
  BY <1>1, <1>3 DEF Published, Begun
<1>5. Sums'
  BY <1>1, <1>3, <1>4 DEF PoolInv, Sums, Between
<1>6. OwnerInv'
  BY <1>3, <1>4 DEF PoolInv, OwnerInv
<1>7. Close'
  BY <1>1, <1>3, <1>4 DEF PoolInv, Close
<1>8. Knows'
  BY <1>1, <1>3, <1>4 DEF PoolInv, Knows, Between
<1> QED
  BY <1>2, <1>5, <1>6, <1>7, <1>8 DEF PoolInv

LEMMA PlainSteps ==
  ASSUME PoolInv, NEW t \in Workers,
         \/ Finish(t) \/ PollStop(t) \/ PollAgain(t) \/ Lock(t) \/ LockedStop(t)
         \/ LockedNothing(t) \/ CondWait(t) \/ CondSpurious(t)
  PROVE  PoolInv'
<1> USE Members DEF Goto, Exit, Between
<1>1. mutex \in Workers \cup {Nobody} /\ condSpurious \in 0..MaxSpurious
  BY DEF PoolInv, TypeOK
<1>2. CASE Finish(t)
  BY <1>1, <1>2, PlainMove DEF Finish
<1>3. CASE PollStop(t)
  BY <1>1, <1>3, PlainMove DEF PollStop
<1>4. CASE PollAgain(t)
  BY <1>1, <1>4, PlainMove DEF PollAgain
<1>5. CASE Lock(t)
  BY <1>1, <1>5, PlainMove DEF Lock
<1>6. CASE LockedStop(t)
  BY <1>1, <1>6, PlainMove DEF LockedStop
<1>7. CASE LockedNothing(t)
  BY <1>1, <1>7, PlainMove DEF LockedNothing
<1>8. CASE CondWait(t)
  BY <1>1, <1>8, PlainMove DEF CondWait
<1>9. CASE CondSpurious(t)
  <2>1. condSpurious' \in 0..MaxSpurious
    BY <1>1, <1>9 DEF CondSpurious
  <2> QED
    BY <1>1, <1>9, <2>1, PlainMove DEF CondSpurious
<1> QED
  BY <1>2, <1>3, <1>4, <1>5, <1>6, <1>7, <1>8, <1>9

\* A changed n_graph is the graph the worker has not run, or the pool stops.
LEMMA TakeStep ==
  ASSUME PoolInv, NEW t \in Workers, PollGraph(t) \/ LockedGraph(t)
  PROVE  PoolInv'
<1> USE Members DEF spinVars
<1>1. /\ nGraph # last[t] /\ last' = [last EXCEPT ![t] = nGraph]
      /\ UNCHANGED <<spinVars, nGraph, stop, work, job, left, graphs, condSpurious>>
      /\ mutex' \in {mutex, Nobody} /\ pc[t] \in {"pollGraph", "lockedGraph"}
      /\ \E l \in {"stopCheck", "lock", "notPending"} :
           /\ pc' = [pc EXCEPT ![t] = l]
           /\ t < nGraph.active => l = "stopCheck"
  BY DEF PollGraph, LockedGraph, Take, Remember, Goto
<1>2. PICK l \in {"stopCheck", "lock", "notPending"} :
           /\ pc' = [pc EXCEPT ![t] = l]
           /\ t < nGraph.active => l = "stopCheck"
  BY <1>1
<1>3. TypeOK'
  BY <1>1, <1>2 DEF PoolInv, TypeOK, SpinTypeOK
<1>4. /\ t \in Threads /\ t # Owner
      /\ pc'[t] = l /\ \A u \in Threads : u # t => pc'[u] = pc[u]
      /\ last'[t] = nGraph /\ \A u \in Workers : u # t => last'[u] = last[u]
  BY <1>1, <1>2 DEF PoolInv, TypeOK
<1>5. Published' = Published /\ pc'[Owner] = pc[Owner] /\ \A u \in Threads : Begun(u)' = Begun(u)
  BY <1>1, <1>4 DEF Published, Begun
<1>6. Sums'
  BY <1>1, <1>4, <1>5 DEF PoolInv, Sums
<1>7. OwnerInv'
  BY <1>1, <1>4, <1>5 DEF PoolInv, OwnerInv
<1>8. Close'
  BY <1>1, <1>4, <1>5 DEF PoolInv, Close
<1>9. ASSUME ~stop PROVE job[t] = Published - 1 /\ l = "stopCheck"
  <2>1. job[t] # Published
    BY <1>1, <1>9 DEF PoolInv, Knows
  <2>2. job[t] = Published - 1 /\ Published \in Nat /\ job[t] \in Nat
    BY <1>4, <2>1, PoolTypes DEF PoolInv, Close
  <2>3. nGraph.active = NThreads
    BY <1>9, <2>2 DEF PoolInv, OwnerInv
  <2> QED
    BY <1>2, <1>4, <2>2, <2>3
<1>10. Knows'
  BY <1>1, <1>4, <1>5, <1>9 DEF PoolInv, Knows
<1> QED
  BY <1>3, <1>6, <1>7, <1>8, <1>10 DEF PoolInv

LEMMA StopCheckStep ==
  ASSUME PoolInv, NEW t \in Workers, StopCheck(t)
  PROVE  PoolInv'
<1> USE Members DEF spinVars
<1>1. /\ pc[t] \in {"stopCheck", "notPending"}
      /\ UNCHANGED <<spinVars, nGraph, last, stop, work, mutex, job, left, graphs, condSpurious>>
      /\ pc' = [pc EXCEPT ![t] = IF stop THEN "exited"
                                  ELSE IF pc[t] = "stopCheck" THEN "read" ELSE "poll"]
  BY DEF StopCheck, Exit, Goto
<1>2. TypeOK'
  BY <1>1 DEF PoolInv, TypeOK, SpinTypeOK
<1>3. /\ t \in Threads /\ t # Owner /\ \A u \in Threads : u # t => pc'[u] = pc[u]
      /\ pc'[t] = IF stop THEN "exited" ELSE IF pc[t] = "stopCheck" THEN "read" ELSE "poll"
  BY <1>1 DEF PoolInv, TypeOK
<1>4. Published' = Published /\ pc'[Owner] = pc[Owner] /\ \A u \in Threads : Begun(u)' = Begun(u)
  BY <1>1, <1>3 DEF Published, Begun
<1>5. ~stop => pc[t] = "stopCheck" /\ pc'[t] = "read" /\ job[t] = Published - 1 /\ last[t] = nGraph
  BY <1>1, <1>3 DEF PoolInv, Knows
<1>6. Sums'
  BY <1>1, <1>3, <1>4 DEF PoolInv, Sums
<1>7. OwnerInv'
  BY <1>1, <1>3, <1>4 DEF PoolInv, OwnerInv
<1>8. Close'
  BY <1>1, <1>3, <1>4, <1>5 DEF PoolInv, Close
<1>9. Knows'
  BY <1>1, <1>3, <1>4, <1>5 DEF PoolInv, Knows
<1> QED
  BY <1>2, <1>6, <1>7, <1>8, <1>9 DEF PoolInv

\* The closure a worker finds is the one of the graph it took.
LEMMA ReadWorkStep ==
  ASSUME RoundInv, PoolInv, NEW t \in Workers, ReadWork(t)
  PROVE  PoolInv'
<1> USE Members DEF spinVars
<1>1. /\ pc[t] = "read" /\ pc' = [pc EXCEPT ![t] = "work"]
      /\ job' = [job EXCEPT ![t] = work] /\ left' = [left EXCEPT ![t] = Phases]
      /\ UNCHANGED <<spinVars, nGraph, last, stop, work, mutex, graphs, condSpurious>>
  BY DEF ReadWork, Begin, Goto
<1>2. TypeOK'
  BY <1>1 DEF PoolInv, TypeOK, SpinTypeOK
<1>3. /\ t \in Threads /\ t # Owner /\ pc'[t] = "work"
      /\ \A u \in Threads : u # t => pc'[u] = pc[u] /\ job'[u] = job[u] /\ left'[u] = left[u]
      /\ job'[t] = work /\ left'[t] = Phases
  BY <1>1 DEF PoolInv, TypeOK
<1>4. Published' = Published /\ pc'[Owner] = pc[Owner] /\ \A u \in Threads : Begun(u)' = Begun(u)
  BY <1>1, <1>3 DEF Published, Begun
<1>5. job[t] = Published - 1 /\ Published \in Nat /\ job[t] \in Nat
  BY <1>1, <1>3, PoolTypes DEF PoolInv, Close
<1>6. pc[Owner] = "work"
  BY <1>5, Settled
<1>7. ~stop /\ work = Published
  BY <1>6 DEF PoolInv, OwnerInv, Published
<1>8. Upto(Published) = Upto(job[t]) + Phases
  BY <1>5, UptoNat
<1>9. at[t] = "out" /\ Begun(t) = Upto(job[t]) /\ Begun(t) \in Nat
  BY <1>1, <1>3, PoolTypes DEF PoolInv, Sums
<1>10. Sums'
  <2>1. Begun(t) + Phases = Upto(Published) /\ at'[t] = "out"
    BY <1>1, <1>8, <1>9
  <2> QED
    BY <1>1, <1>3, <1>4, <1>7, <2>1 DEF PoolInv, Sums
<1>11. OwnerInv'
  BY <1>1, <1>3, <1>4 DEF PoolInv, OwnerInv
<1>12. Close'
  BY <1>1, <1>3, <1>4, <1>7 DEF PoolInv, Close
<1>13. Knows'
  BY <1>1, <1>3, <1>4, <1>7 DEF PoolInv, Knows
<1> QED
  BY <1>2, <1>10, <1>11, <1>12, <1>13 DEF PoolInv

\* The owner, between its accesses of n_graph.
LEMMA OwnerMoves ==
  ASSUME RoundInv, PoolInv, Finish(Owner) \/ SetWork \/ SetStop \/ Join
  PROVE  PoolInv'
<1> USE Members DEF spinVars
<1>1. PICK l \in {"idle", "kickoff", "dropKick", "freed"} :
        /\ pc' = [pc EXCEPT ![Owner] = l]
        /\ \/ Finish(Owner) /\ l = "idle" /\ graphs' = graphs /\ work' = work /\ stop' = stop
           \/ SetWork /\ l = "kickoff" /\ graphs' = graphs + 1 /\ work' = graphs + 1
              /\ graphs < MaxGraphs /\ stop' = stop
           \/ SetStop /\ l = "dropKick" /\ graphs' = graphs /\ work' = work /\ stop' = TRUE
           \/ Join /\ l = "freed" /\ graphs' = graphs /\ work' = work /\ stop' = stop
  BY DEF Finish, SetWork, SetStop, Join, Goto
<1>2. UNCHANGED <<spinVars, nGraph, last, mutex, job, left, condSpurious>>
  BY DEF Finish, SetWork, SetStop, Join
<1>3. /\ pc[Owner] \in {"work", "idle", "join"}
      /\ pc[Owner] = "work" => at[Owner] = "out" /\ left[Owner] = 0 /\ l = "idle"
      /\ pc[Owner] = "idle" <=> l \in {"kickoff", "dropKick"}
      /\ pc[Owner] = "join" <=> l = "freed"
  BY <1>1 DEF Finish, SetWork, SetStop, Join
<1>4. graphs \in 0..MaxGraphs /\ graphs' \in 0..MaxGraphs /\ work' \in 0..MaxGraphs
      /\ stop' \in BOOLEAN
  <2>1. graphs \in 0..MaxGraphs /\ work \in 0..MaxGraphs /\ stop \in BOOLEAN
    BY DEF PoolInv, TypeOK
  <2>2. MaxGraphs \in Nat
    BY GraphPoolAssumption
  <2>3. graphs < MaxGraphs => graphs + 1 \in 0..MaxGraphs
    BY <2>1, <2>2
  <2> QED
    BY <1>1, <2>1, <2>3
<1>5. TypeOK'
  BY <1>1, <1>2, <1>4 DEF PoolInv, TypeOK, SpinTypeOK
<1>6. pc'[Owner] = l /\ \A u \in Threads : u # Owner => pc'[u] = pc[u]
  BY <1>1 DEF PoolInv, TypeOK
<1>7. Published' = Published /\ \A u \in Threads : Begun(u)' = Begun(u)
  <2>1. ASSUME l = "kickoff" PROVE Published' = Published
    <3>1. graphs' = graphs + 1 /\ pc[Owner] = "idle"
      BY <1>1, <1>3, <2>1
    <3> QED
      BY <1>4, <1>6, <2>1, <3>1 DEF Published
  <2>2. ASSUME l # "kickoff" PROVE Published' = Published
    <3>1. graphs' = graphs
      BY <1>1, <2>2
    <3> QED
      BY <1>3, <1>6, <2>2, <3>1 DEF Published
  <2>3. \A u \in Threads : Begun(u)' = Begun(u)
    BY <1>2 DEF Begun
  <2>4. Published' = Published
    BY <2>1, <2>2
  <2> QED
    BY <2>3, <2>4
<1>8. Sums'
  BY <1>2, <1>3, <1>6, <1>7 DEF PoolInv, Sums
<1>9. OwnerInv'
  BY <1>1, <1>2, <1>3, <1>4, <1>6, <1>7 DEF PoolInv, OwnerInv
<1>10. Close'
  BY <1>2, <1>6, <1>7 DEF PoolInv, Close
<1>11. Knows'
  BY <1>1, <1>2, <1>6, <1>7 DEF PoolInv, Knows
<1> QED
  BY <1>5, <1>8, <1>9, <1>10, <1>11 DEF PoolInv

\* Everybody is through the last graph when the next one is published.
LEMMA KickoffStep == ASSUME RoundInv, PoolInv, Kickoff PROVE PoolInv'
<1> USE Members DEF spinVars
<1>1. /\ pc[Owner] = "kickoff"
      /\ nGraph' = [counter |-> (nGraph.counter + 1) % GraphMod, active |-> NThreads]
      /\ job' = [job EXCEPT ![Owner] = graphs] /\ left' = [left EXCEPT ![Owner] = Phases]
      /\ pc' = [t \in Threads |-> IF t = Owner THEN "work"
                                   ELSE IF pc[t] = "wait" THEN "lock" ELSE pc[t]]
      /\ UNCHANGED <<spinVars, last, stop, work, mutex, graphs, condSpurious>>
  BY DEF Kickoff, Begin, NotifyAll
<1>2. nGraph' \in [counter : 0..(GraphMod - 1), active : 0..(NThreads + 1)]
  <2>1. nGraph.counter \in Nat
    BY DEF PoolInv, TypeOK
  <2>2. (nGraph.counter + 1) % GraphMod \in 0..(GraphMod - 1)
    BY <2>1
  <2> QED
    BY <1>1, <2>2
<1>3. TypeOK'
  BY <1>1, <1>2 DEF PoolInv, TypeOK, SpinTypeOK
<1>4. /\ pc'[Owner] = "work" /\ job'[Owner] = graphs /\ left'[Owner] = Phases
      /\ \A u \in Threads : u # Owner =>
           /\ job'[u] = job[u] /\ left'[u] = left[u]
           /\ pc'[u] = IF pc[u] = "wait" THEN "lock" ELSE pc[u]
  BY <1>1 DEF PoolInv, TypeOK
<1>5. /\ Published' = graphs /\ Published = graphs - 1 /\ graphs > 0 /\ graphs \in Nat
      /\ Published \in Nat /\ \A u \in Threads : Begun(u)' = Begun(u)
  BY <1>1, <1>4, PoolTypes DEF Published, Begun, PoolInv, OwnerInv
<1>6. \A t \in Workers : job[t] = Published
  BY <1>1, Settled
<1>7. ~stop
  BY <1>1 DEF PoolInv, OwnerInv
<1>8. \A t \in Workers : pc[t] \notin {"stopCheck", "read", "notPending"}
  BY <1>5, <1>6, <1>7 DEF PoolInv, Knows
<1>9. Sums'
  <2>1. /\ Begun(Owner) = Upto(Published) /\ Begun(Owner) \in Nat /\ at[Owner] = "out"
    BY <1>1, PoolTypes DEF PoolInv, Sums, OwnerInv
  <2>2. Upto(graphs) = Upto(Published) + Phases
    BY <1>5, UptoNat
  <2>3. Begun(Owner) + Phases = Upto(graphs)
    BY <2>1, <2>2
  <2> QED
    BY <1>1, <1>4, <1>5, <2>1, <2>3 DEF PoolInv, Sums
<1>10. OwnerInv'
  BY <1>1, <1>4, <1>5 DEF PoolInv, OwnerInv
<1>11. Close'
  BY <1>1, <1>4, <1>5, <1>6, <1>8 DEF PoolInv, Close
<1>12. Knows'
  BY <1>4, <1>5, <1>6, <1>8 DEF Knows
<1> QED
  BY <1>3, <1>9, <1>10, <1>11, <1>12 DEF PoolInv

LEMMA DropKickStep == ASSUME PoolInv, DropKick PROVE PoolInv'
<1> USE Members DEF spinVars
<1>1. /\ pc[Owner] = "dropKick"
      /\ nGraph' = [nGraph EXCEPT !.active = nGraph.active + 1]
      /\ pc' = [t \in Threads |-> IF t = Owner THEN "join"
                                   ELSE IF pc[t] = "wait" THEN "lock" ELSE pc[t]]
      /\ UNCHANGED <<spinVars, last, stop, work, mutex, job, left, graphs, condSpurious>>
  BY DEF DropKick, NotifyAll
<1>2. nGraph.active \in 0..NThreads
  BY <1>1 DEF PoolInv, OwnerInv
<1>3. TypeOK'
  BY <1>1, <1>2 DEF PoolInv, TypeOK, SpinTypeOK
<1>4. /\ pc'[Owner] = "join"
      /\ \A u \in Threads : u # Owner => pc'[u] = IF pc[u] = "wait" THEN "lock" ELSE pc[u]
  BY <1>1
<1>5. Published' = Published /\ \A u \in Threads : Begun(u)' = Begun(u)
  BY <1>1, <1>4 DEF Published, Begun
<1>6. Sums'
  BY <1>1, <1>4, <1>5 DEF PoolInv, Sums
<1>7. OwnerInv' /\ stop'
  BY <1>1, <1>4, <1>5 DEF PoolInv, OwnerInv
<1>8. Close'
  BY <1>1, <1>4, <1>5 DEF PoolInv, Close
<1> QED
  BY <1>3, <1>6, <1>7, <1>8 DEF PoolInv, Knows

LEMMA PoolStep == ASSUME RoundInv, RoundInv', PoolInv, [Next]_vars PROVE PoolInv'
<1>1. CASE \E t \in Threads : FinishPhase(t)
  BY <1>1, ClosureStep
<1>2. CASE \E t \in Threads : (Proceed(t) \/ Interrupted(t)) /\ UNCHANGED poolVars
  BY <1>2, ClosureStep
<1>3. ASSUME NEW t \in Threads, Quiet(t) PROVE PoolInv'
  <2>1. CASE t = Owner /\ (Finish(t) \/ OwnerStep)
    BY <2>1, OwnerMoves, KickoffStep, DropKickStep DEF OwnerStep
  <2>2. CASE t \in Workers /\ (Finish(t) \/ WorkerStep(t) \/ CondSpurious(t))
    BY <2>2, PlainSteps, TakeStep, StopCheckStep, ReadWorkStep DEF WorkerStep
  <2> QED
    BY <1>3, <2>1, <2>2, Members DEF Quiet
<1>4. CASE UNCHANGED vars
  BY <1>4 DEF vars, spinVars, poolVars, PoolInv, TypeOK, SpinTypeOK, Sums, Begun, OwnerInv,
              Close, Knows, Published
<1> QED
  BY <1>1, <1>2, <1>3, <1>4, Steps

LEMMA PoolStarts == Init => RoundInv /\ PoolInv
<1> SUFFICES ASSUME Init PROVE RoundInv /\ PoolInv
  OBVIOUS
<1> USE Members
<1>1. RoundInv
  BY RoundInit DEF Init
<1>2. TypeOK
  <2>1. SpinTypeOK
    BY <1>1 DEF RoundInv
  <2>2. 0 \in 0..(GraphMod - 1) /\ 0 \in 0..(NThreads + 1) /\ 0 \in 0..MaxGraphs
        /\ 0 \in 0..Phases /\ 0 \in 0..MaxSpurious
    BY GraphPoolAssumption, SpinBarrierAssumption
  <2> QED
    BY <2>1, <2>2 DEF Init, TypeOK
<1>3. Published = 0 /\ \A t \in Threads : Begun(t) = 0
  BY DEF Init, SpinInit, Published, Begun
<1>4. Sums
  BY <1>3, UptoNat DEF Init, SpinInit, Sums
<1>5. OwnerInv /\ Close /\ Knows
  BY <1>3 DEF Init, OwnerInv, Close, Knows
<1> QED
  BY <1>1, <1>2, <1>4, <1>5 DEF PoolInv

-----------------------------------------------------------------------------
(* Theorems                                                                *)

\* threadpool.rs:200-240 and 245-310: run_graph joins nobody, and still, for any
\* number of threads, phases and graphs, no thread runs a closure after the call
\* that lent it, threads in a closure are in the same phase, every thread runs
\* every graph once, and no sleeper is forgotten.
THEOREM PoolGraphsApart == Spec => []GraphsApart
<1>1. RoundInv /\ PoolInv /\ [Next]_vars => RoundInv' /\ PoolInv'
  BY RoundPool, PoolStep
<1> QED
  BY <1>1, PoolStarts, PoolApart, PTL DEF Spec

\* threadpool.rs:57-88: the barrier inside the pool is one, whatever the pool does
\* around it: over all graphs and however often n_barrier_passed wraps, no thread
\* begins its next phase before every thread has come to the end of this one.
THEOREM PoolIsABarrier == Spec => IsABarrier
<1>1. RoundInv /\ [Next]_vars => RoundInv'
  BY RoundPool
<1>2. RoundInv /\ [Next]_vars => [B!BarrierNext]_(B!barrierVars)
  BY PoolSpins, StepSimulates
<1>3. Init => RoundInv /\ B!BarrierInit
  BY RoundInit, InitSimulates DEF Init
<1> QED
  BY <1>1, <1>2, <1>3, PTL DEF Spec, IsABarrier, B!BarrierSpec

=============================================================================
