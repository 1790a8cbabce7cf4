----------------------------- MODULE SpinBarrier -----------------------------
(***************************************************************************)
(* The barrier of inference/threadpool.rs with the futex of                *)
(* platform/futex.rs: an arrival counter, a counter of passed rounds that  *)
(* waiters compare with the value they loaded on entry, a bounded spin,    *)
(* then a futex.  One step is one atomic access or one system call.        *)
(*                                                                         *)
(* The steps are interleaved, which the orderings in the code justify: the *)
(* reset is sequenced before the SeqCst increment of the pass counter that *)
(* every waiter reads before it can arrive again.                          *)
(*                                                                         *)
(* How long the spin lasts is left open: it may end at any time.  Futex    *)
(* waits may return spuriously (EINTR), MaxSpurious times.  With one thread *)
(* wait() returns at once; this is about two or more.                      *)
(***************************************************************************)
EXTENDS Integers, FiniteSets

CONSTANTS
  NThreads,     \* n_threads
  PassMod,      \* n_barrier_passed is a u32: 2^32
  MaxSpurious   \* bound: spurious wakeups

ASSUME SpinBarrierAssumption ==
  /\ NThreads \in Nat /\ NThreads > 1
  /\ PassMod \in Nat /\ PassMod > 1
  /\ MaxSpurious \in Nat

Threads == 0..(NThreads - 1)

VARIABLES
  nBarrier, passed,  \* n_barrier, n_barrier_passed
  at,                \* where in wait() each thread is
  old,               \* each thread's old_passed
  rounds,            \* how many calls of wait() have returned
  spurious           \* spurious wakeups so far

spinVars == <<nBarrier, passed, at, old, rounds, spurious>>

Waiting == {"spin", "check", "futex", "asleep"}
Inside == Waiting \cup {"reset", "bump", "wake"}

SpinInit ==
  /\ nBarrier = 0
  /\ passed = 0
  /\ at = [t \in Threads |-> "out"]
  /\ old = [t \in Threads |-> 0]
  /\ rounds = [t \in Threads |-> 0]
  /\ spurious = 0

Leave(t) ==
  /\ at' = [at EXCEPT ![t] = "out"]
  /\ rounds' = [rounds EXCEPT ![t] = @ + 1]

LoadPassed(t) ==
  /\ at[t] = "out"
  /\ old' = [old EXCEPT ![t] = passed]
  /\ at' = [at EXCEPT ![t] = "arrive"]
  /\ UNCHANGED <<nBarrier, passed, rounds, spurious>>

\* n_barrier.fetch_add: what it returns tells the last thread.
LastButOne(n) == n = NThreads - 2
IsLast(n) == n = NThreads - 1

Arrive(t) ==
  /\ at[t] = "arrive"
  /\ nBarrier' = nBarrier + 1
  /\ at' = [at EXCEPT ![t] = IF IsLast(nBarrier) THEN "reset" ELSE "spin"]
  /\ UNCHANGED <<passed, old, rounds, spurious>>

\* What the last thread stores in n_barrier.
Cleared == 0

Reset(t) ==
  /\ at[t] = "reset"
  /\ nBarrier' = Cleared
  /\ at' = [at EXCEPT ![t] = "bump"]
  /\ UNCHANGED <<passed, old, rounds, spurious>>

Succ(p) == (p + 1) % PassMod

Bump(t) ==
  /\ at[t] = "bump"
  /\ passed' = Succ(passed)
  /\ at' = [at EXCEPT ![t] = "wake"]
  /\ UNCHANGED <<nBarrier, old, rounds, spurious>>

\* futex_wake_all, and the last thread returns.
Woken == {u \in Threads : at[u] = "asleep"}

Wake(t) ==
  /\ at[t] = "wake"
  /\ at' = [u \in Threads |-> IF u = t THEN "out"
                              ELSE IF u \in Woken THEN "check" ELSE at[u]]
  /\ rounds' = [rounds EXCEPT ![t] = @ + 1]
  /\ UNCHANGED <<nBarrier, passed, old, spurious>>

\* The spin and the loop around the futex look at the pass counter the same
\* way, and leave as soon as it has moved.
SeesPass(t) ==
  /\ at[t] \in {"spin", "check"}
  /\ passed # old[t]
  /\ Leave(t)
  /\ UNCHANGED <<nBarrier, passed, old, spurious>>

SpinEnds(t) ==
  /\ at[t] = "spin"
  /\ at' = [at EXCEPT ![t] = "check"]
  /\ UNCHANGED <<nBarrier, passed, old, rounds, spurious>>

SeesNoPass(t) ==
  /\ at[t] = "check"
  /\ passed = old[t]
  /\ at' = [at EXCEPT ![t] = "futex"]
  /\ UNCHANGED <<nBarrier, passed, old, rounds, spurious>>

\* FUTEX_WAIT compares and blocks in one step; EAGAIN otherwise.
StillExpected(t) == passed = old[t]

FutexWait(t) ==
  /\ at[t] = "futex"
  /\ at' = [at EXCEPT ![t] = IF StillExpected(t) THEN "asleep" ELSE "check"]
  /\ UNCHANGED <<nBarrier, passed, old, rounds, spurious>>

Interrupted(t) ==
  /\ at[t] = "asleep"
  /\ spurious < MaxSpurious
  /\ spurious' = spurious + 1
  /\ at' = [at EXCEPT ![t] = "check"]
  /\ UNCHANGED <<nBarrier, passed, old, rounds>>

\* What a thread does once wait() is called, up to its return.
Proceed(t) ==
  \/ Arrive(t) \/ Reset(t) \/ Bump(t) \/ Wake(t)
  \/ SeesPass(t) \/ SpinEnds(t) \/ SeesNoPass(t) \/ FutexWait(t)

\* A step of thread t in wait(), whoever calls it and however often.
SpinStep(t) == LoadPassed(t) \/ Proceed(t) \/ Interrupted(t)

SpinNext == \E t \in Threads : SpinStep(t)

SpinSpec == SpinInit /\ [][SpinNext]_spinVars

-----------------------------------------------------------------------------
(* Properties                                                              *)

SpinTypeOK ==
  /\ nBarrier \in 0..NThreads
  /\ passed \in 0..(PassMod - 1)
  /\ at \in [Threads -> {"out", "arrive"} \cup Inside]
  /\ old \in [Threads -> 0..(PassMod - 1)]
  /\ rounds \in [Threads -> Nat]
  /\ spurious \in 0..MaxSpurious

\* A thread asleep on a value that is no longer current is about to be woken:
\* the compare in the futex and the order bump-then-wake leave no window.
NoLostWakeup ==
  \A t \in Threads : at[t] = "asleep" /\ passed # old[t] =>
    \E u \in Threads : at[u] = "wake"

Arrivals == [t \in Threads |-> rounds[t] + (IF at[t] \in Inside THEN 1 ELSE 0)]

B == INSTANCE Barrier WITH arrivals <- Arrivals, departures <- rounds

\* wait() is a barrier: nobody returns from the n-th call before everybody has
\* made it, through any number of rounds in a row on the same two counters.
IsABarrier == B!BarrierSpec

=============================================================================
