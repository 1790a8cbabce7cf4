------------------------------ MODULE GraphPool ------------------------------
(***************************************************************************)
(* The thread pool of inference/threadpool.rs: run_graph publishes a       *)
(* closure and kicks the workers off, every thread runs it, with a         *)
(* SpinBarrier between its phases, and Drop stops the workers.             *)
(*                                                                         *)
(* Thread 0 is the one that owns the pool; it calls run_graph MaxGraphs    *)
(* times and drops the pool.  The closures are the ones of forward.rs:     *)
(* Phases phases, each of which ends in barrier.wait(), the last one too   *)
(* (module ForwardGraph).  run_graph returns when thread 0 is through with *)
(* it, without joining anybody; that nobody touches the closure any more   *)
(* is a property, not a step.                                              *)
(*                                                                         *)
(* What a thread does inside wait() are the steps of SpinBarrier, and the  *)
(* pool touches the barrier nowhere else.                                  *)
(*                                                                         *)
(* `nGraph' unpacks n_graph into the graph counter and the thread count of *)
(* its low 16 bits.                                                        *)
(***************************************************************************)
EXTENDS SpinBarrier

CONSTANTS
  GraphMod,    \* the graph counter has 16 bits: 2^16
  Phases,      \* barriers a closure passes
  MaxGraphs    \* bound: calls of run_graph

ASSUME GraphPoolAssumption ==
  /\ GraphMod \in Nat /\ GraphMod > 1
  /\ Phases \in Nat \ {0}
  /\ MaxGraphs \in Nat

Owner == 0
Workers == Threads \ {Owner}
Nobody == -1

VARIABLES
  pc,            \* where each thread is outside wait()
  nGraph, last,  \* n_graph, and each worker's last_graph
  stop,
  work,          \* work_fn and work_data: the closure, by its number
  mutex,         \* who holds the mutex of the condition variable
  job, left,     \* the closure each thread runs, and its phases still to do
  graphs,        \* calls of run_graph so far
  condSpurious   \* spurious wakeups of the condition variable so far

poolVars == <<pc, nGraph, last, stop, work, mutex, job, left, graphs, condSpurious>>
vars == <<spinVars, poolVars>>

Init ==
  /\ SpinInit
  /\ pc = [t \in Threads |-> IF t = Owner THEN "idle" ELSE "poll"]
  /\ nGraph = [counter |-> 0, active |-> 0]
  /\ last = [t \in Workers |-> [counter |-> 0, active |-> 0]]
  /\ stop = FALSE
  /\ work = 0
  /\ mutex = Nobody
  /\ job = [t \in Threads |-> 0]
  /\ left = [t \in Threads |-> 0]
  /\ graphs = 0
  /\ condSpurious = 0

Goto(t, l) == pc' = [pc EXCEPT ![t] = l]

-----------------------------------------------------------------------------
(* The closure.                                                            *)

Begin(t, closure) ==
  /\ job' = [job EXCEPT ![t] = closure]
  /\ left' = [left EXCEPT ![t] = Phases]

\* Thread t is at the code of the closure, between two barriers.
InPhase(t) ==
  /\ pc[t] = "work"
  /\ at[t] = "out"
  /\ left[t] > 0

FinishPhase(t) ==
  /\ InPhase(t)
  /\ LoadPassed(t)
  /\ left' = [left EXCEPT ![t] = @ - 1]
  /\ UNCHANGED <<pc, nGraph, last, stop, work, mutex, job, graphs, condSpurious>>

\* The closure returns: the owner leaves run_graph, a worker polls again.
Finish(t) ==
  /\ pc[t] = "work"
  /\ at[t] = "out"
  /\ left[t] = 0
  /\ Goto(t, IF t = Owner THEN "idle" ELSE "poll")
  /\ UNCHANGED <<spinVars, nGraph, last, stop, work, mutex, job, left, graphs, condSpurious>>

-----------------------------------------------------------------------------
(* run_graph                                                               *)

SetWork ==
  /\ pc[Owner] = "idle"
  /\ graphs < MaxGraphs
  /\ graphs' = graphs + 1
  /\ work' = graphs + 1
  /\ Goto(Owner, "kickoff")
  /\ UNCHANGED <<spinVars, nGraph, last, stop, mutex, job, left, condSpurious>>

\* notify_all: every worker that waits goes for the mutex.
NotifyAll(next) ==
  pc' = [t \in Threads |-> IF t = Owner THEN next
                           ELSE IF pc[t] = "wait" THEN "lock" ELSE pc[t]]

\* The mutex is held from before the store of n_graph to after notify_all;
\* only polling workers, who look at n_graph alone, can run meanwhile.
NotLocked == TRUE
MutexFree == mutex = Nobody

Kickoff ==
  /\ pc[Owner] = "kickoff"
  /\ MutexFree
  /\ nGraph' = [counter |-> (nGraph.counter + 1) % GraphMod, active |-> NThreads]
  /\ Begin(Owner, graphs)
  /\ NotifyAll("work")
  /\ UNCHANGED <<spinVars, last, stop, work, mutex, graphs, condSpurious>>

-----------------------------------------------------------------------------
(* graph_worker_loop                                                       *)

\* A changed n_graph is work for the threads its low bits count.
Remember(t) == [last EXCEPT ![t] = nGraph]
Take(t, otherwise) ==
  /\ last' = Remember(t)
  /\ Goto(t, IF t < nGraph.active THEN "stopCheck" ELSE otherwise)

Exit(t) == Goto(t, "exited")

\* Phase 1: one round of the poll reads stop, then n_graph.
PollStop(t) ==
  /\ pc[t] = "poll"
  /\ IF stop THEN Exit(t) ELSE Goto(t, "pollGraph")
  /\ UNCHANGED <<spinVars, nGraph, last, stop, work, mutex, job, left, graphs, condSpurious>>

PollGraph(t) ==
  /\ pc[t] = "pollGraph"
  /\ nGraph # last[t]
  /\ Take(t, "lock")
  /\ UNCHANGED <<spinVars, nGraph, stop, work, mutex, job, left, graphs, condSpurious>>

\* Nothing new: another round, or the rounds are used up.
PollAgain(t) ==
  /\ pc[t] = "pollGraph"
  /\ nGraph = last[t]
  /\ \/ Goto(t, "poll")
     \/ Goto(t, "lock")
  /\ UNCHANGED <<spinVars, nGraph, last, stop, work, mutex, job, left, graphs, condSpurious>>

\* Phase 2: the loop around the condition variable.
Lock(t) ==
  /\ pc[t] = "lock"
  /\ mutex = Nobody
  /\ mutex' = t
  /\ Goto(t, "lockedStop")
  /\ UNCHANGED <<spinVars, nGraph, last, stop, work, job, left, graphs, condSpurious>>

LockedStop(t) ==
  /\ pc[t] = "lockedStop"
  /\ IF stop THEN Exit(t) /\ mutex' = Nobody
             ELSE Goto(t, "lockedGraph") /\ UNCHANGED mutex
  /\ UNCHANGED <<spinVars, nGraph, last, stop, work, job, left, graphs, condSpurious>>

LockedGraph(t) ==
  /\ pc[t] = "lockedGraph"
  /\ nGraph # last[t]
  /\ Take(t, "notPending")
  /\ mutex' = Nobody
  /\ UNCHANGED <<spinVars, nGraph, stop, work, job, left, graphs, condSpurious>>

LockedNothing(t) ==
  /\ pc[t] = "lockedGraph"
  /\ nGraph = last[t]
  /\ Goto(t, "goWait")
  /\ UNCHANGED <<spinVars, nGraph, last, stop, work, mutex, job, left, graphs, condSpurious>>

\* cond.wait gives up the mutex and waits in one step.
CondWait(t) ==
  /\ pc[t] = "goWait"
  /\ Goto(t, "wait")
  /\ mutex' = Nobody
  /\ UNCHANGED <<spinVars, nGraph, last, stop, work, job, left, graphs, condSpurious>>

CondSpurious(t) ==
  /\ pc[t] = "wait"
  /\ condSpurious < MaxSpurious
  /\ condSpurious' = condSpurious + 1
  /\ Goto(t, "lock")
  /\ UNCHANGED <<spinVars, nGraph, last, stop, work, mutex, job, left, graphs>>

\* The check of stop before the fence; without work, back to the poll.
StopCheck(t) ==
  /\ pc[t] \in {"stopCheck", "notPending"}
  /\ IF stop THEN Exit(t)
             ELSE Goto(t, IF pc[t] = "stopCheck" THEN "read" ELSE "poll")
  /\ UNCHANGED <<spinVars, nGraph, last, stop, work, mutex, job, left, graphs, condSpurious>>

ReadWork(t) ==
  /\ pc[t] = "read"
  /\ Begin(t, work)
  /\ Goto(t, "work")
  /\ UNCHANGED <<spinVars, nGraph, last, stop, work, mutex, graphs, condSpurious>>

-----------------------------------------------------------------------------
(* Drop                                                                    *)

SetStop ==
  /\ pc[Owner] = "idle"
  /\ graphs = MaxGraphs
  /\ stop' = TRUE
  /\ Goto(Owner, "dropKick")
  /\ UNCHANGED <<spinVars, nGraph, last, work, mutex, job, left, graphs, condSpurious>>

\* n_graph + 1 counts one thread more; it is there to be different.
DropKick ==
  /\ pc[Owner] = "dropKick"
  /\ MutexFree
  /\ nGraph' = [nGraph EXCEPT !.active = @ + 1]
  /\ NotifyAll("join")
  /\ UNCHANGED <<spinVars, last, stop, work, mutex, job, left, graphs, condSpurious>>

Join ==
  /\ pc[Owner] = "join"
  /\ \A t \in Workers : pc[t] = "exited"
  /\ Goto(Owner, "freed")
  /\ UNCHANGED <<spinVars, nGraph, last, stop, work, mutex, job, left, graphs, condSpurious>>

-----------------------------------------------------------------------------

RunClosure(t) == FinishPhase(t) \/ (Proceed(t) /\ UNCHANGED poolVars) \/ Finish(t)
OwnerStep == SetWork \/ Kickoff \/ SetStop \/ DropKick \/ Join
WorkerStep(t) ==
  \/ PollStop(t) \/ PollGraph(t) \/ PollAgain(t)
  \/ Lock(t) \/ LockedStop(t) \/ LockedGraph(t) \/ LockedNothing(t) \/ CondWait(t)
  \/ StopCheck(t) \/ ReadWork(t)

Next ==
  \/ \E t \in Threads : RunClosure(t) \/ (Interrupted(t) /\ UNCHANGED poolVars)
  \/ OwnerStep
  \/ \E t \in Workers : WorkerStep(t) \/ CondSpurious(t)

Fairness ==
  /\ WF_vars(OwnerStep)
  /\ \A t \in Threads : WF_vars(RunClosure(t))
  /\ \A t \in Workers : WF_vars(WorkerStep(t))

Spec == Init /\ [][Next]_vars /\ Fairness

-----------------------------------------------------------------------------
(* Properties                                                              *)

TypeOK ==
  /\ SpinTypeOK
  /\ pc \in [Threads -> {"idle", "kickoff", "work", "dropKick", "join", "freed",
                         "poll", "pollGraph", "lock", "lockedStop", "lockedGraph", "goWait", "wait",
                         "stopCheck", "notPending", "read", "exited"}]
  /\ nGraph \in [counter : 0..(GraphMod - 1), active : 0..(NThreads + 1)]
  /\ last \in [Workers -> [counter : 0..(GraphMod - 1), active : 0..(NThreads + 1)]]
  /\ stop \in BOOLEAN
  /\ work \in 0..MaxGraphs
  /\ mutex \in Workers \cup {Nobody}
  /\ job \in [Threads -> 0..MaxGraphs]
  /\ left \in [Threads -> 0..Phases]
  /\ graphs \in 0..MaxGraphs
  /\ condSpurious \in 0..MaxSpurious

\* A thread that runs code of a closure runs it while the owner is inside the
\* run_graph call that borrowed it, although run_graph joins nobody.
ClosureAlive ==
  \A t \in Threads : InPhase(t) =>
    /\ pc[Owner] = "work"
    /\ job[t] = job[Owner]

\* Threads in the same closure are in the same phase: a thread never reads a
\* buffer that another one is still writing in an earlier phase.
SamePhase ==
  \A t, u \in Threads : InPhase(t) /\ InPhase(u) => rounds[t] = rounds[u]

\* Between two graphs every worker has come to every barrier of every graph so
\* far, once: no kickoff is missed, none is taken for an old one, none is taken
\* twice.
EachGraphOnce ==
  pc[Owner] = "idle" => \A t \in Workers : Arrivals[t] = graphs * Phases

\* What run_graph promises to the closures it is given, without joining a
\* worker: none outlives its call, none runs beside another, none is missed.
GraphsApart == TypeOK /\ NoLostWakeup /\ ClosureAlive /\ SamePhase /\ EachGraphOnce

\* Every graph is computed, and Drop gets all workers to exit.
PoolFinishes == <>(pc[Owner] = "freed")

=============================================================================
