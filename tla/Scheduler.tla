----------------------------- MODULE Scheduler -----------------------------
(***************************************************************************)
(* The parallel scheduler (generic/oswSched.cpp), the task threads that    *)
(* serve it (Thread::TaskLoop, generic/oswThread.cpp), the client threads  *)
(* that feed it (the Tcl main thread, driver callbacks) and the queue of   *)
(* deferred deletions the idle branch drains (generic/oswDelete.cpp).      *)
(*                                                                         *)
(* One scheduler lock protects the priority queue and every activation's   *)
(* "scheduled" flag.  A task thread holds it around its loop and gives it  *)
(* up only to run an activation or to dispatch socket events.              *)
(*                                                                         *)
(* A transform is identified with its single activation: deleting the      *)
(* transform is deleting the activation.                                   *)
(***************************************************************************)
EXTENDS Integers, Sequences, FiniteSets

CONSTANTS
  Activations,   \* every activation of the running patches
  Order,         \* BaseActivation::xorder, smaller runs first
  Emits,         \* what the body of an activation may schedule
  Inputs,        \* the activations each process may schedule from outside
  Threads,       \* the task threads started by the first InitializeThreads
  Spares,        \* the task threads a restart starts
  Clients,       \* threads outside the pool that call Schedule
  Throwers,      \* activations whose body may raise an exception
  Restarters,    \* activations whose body may serve /osw-restart
  Doomed,        \* the activations each process may ask to delete
  CanQuit,       \* whether Quit is ever called
  MaxRequests,   \* bound on the requests that come from outside
  None

Workers == Threads \cup Spares
Procs == Workers \cup Clients

ASSUME SchedulerAssumption ==
  /\ IsFiniteSet(Activations)
  /\ Order \in [Activations -> Int]
  /\ Emits \in [Activations -> SUBSET Activations]
  /\ Inputs \in [Procs -> SUBSET Activations]
  /\ Throwers \subseteq Activations
  /\ Restarters \subseteq Activations
  /\ Doomed \in [Procs -> SUBSET Activations]
  /\ CanQuit \in BOOLEAN
  /\ MaxRequests \in Nat
  /\ None \notin Activations
  /\ None \notin Procs
  /\ Threads \cap Spares = {}
  /\ Workers \cap Clients = {}

VARIABLES
  queue,        \* xqueue: how many times each activation is queued
  scheduled,    \* BaseActivation::xscheduled
  numEvents,    \* xnumEvents
  holder,       \* who holds xsemaphore, or None
  pc,           \* where each process is
  current,      \* the activation a worker is running, or None
  target,       \* the argument of the Schedule call in progress, or None
  todo,         \* what the running body or handler has yet to schedule
  victims,      \* workers StopThreads has yet to cancel
  cancelled,    \* workers with a pending pthread_cancel
  deleteQueue,  \* deleteQueue of oswDelete.cpp
  live,         \* activations not deleted
  quit,         \* xquit
  requests      \* requests from outside so far (bounds the model)

lockVars == <<holder>>
queueVars == <<queue, scheduled, numEvents>>
bodyVars == <<current, target, todo>>
stopVars == <<victims, cancelled>>
deleteVars == <<deleteQueue, live>>
envVars == <<quit, requests>>
vars == <<queue, scheduled, numEvents, holder, pc, current, target, todo,
          victims, cancelled, deleteQueue, live, quit, requests>>

-----------------------------------------------------------------------------
(***************************************************************************)
(* Program counters.                                                       *)
(*   unborn    a thread that does not exist yet                            *)
(*   enter     before the first Lock of TaskLoop                           *)
(*   outer     at "while(!xquit)"                                          *)
(*   inner     at the inner "while" over the queue                         *)
(*   run       in an activation's body                                     *)
(*   select    in BlockingCheckSelectEvents                                *)
(*   dispatch  in SelectEventsDispatch                                     *)
(*   want      in Schedule, before its Lock                                *)
(*   push      in Schedule, the flag found clear                           *)
(*   stop      in StopThreads                                              *)
(*   out       a client outside the scheduler                              *)
(*   done      TaskLoop returned                                           *)
(*   dead      cancelled, or the process has ended                         *)
(***************************************************************************)
Locked == {"outer", "inner", "select", "push"}
Unlocked == {"unborn", "enter", "run", "dispatch", "want", "stop", "out", "done",
             "dead"}

Goto(p, l) == pc' = [pc EXCEPT ![p] = l]

(* Semaphore::Acquire: a plain pthread mutex, not recursive.               *)
Acquire(p) == holder = None /\ holder' = p

(* Semaphore::Release: pthread_mutex_unlock frees a default mutex no       *)
(* matter which thread calls it.                                           *)
Release == holder' = None

Pending == {a \in Activations : queue[a] > 0}
AwaitingDelete == {deleteQueue[i] : i \in DOMAIN deleteQueue}

Init ==
  /\ queue = [a \in Activations |-> 0]
  /\ scheduled = [a \in Activations |-> FALSE]
  /\ numEvents = 0
  /\ holder = None
  /\ pc = [p \in Procs |-> IF p \in Threads THEN "enter"
                           ELSE IF p \in Spares THEN "unborn" ELSE "out"]
  /\ current = [t \in Workers |-> None]
  /\ target = [p \in Procs |-> None]
  /\ todo = [t \in Workers |-> {}]
  /\ victims = [t \in Workers |-> {}]
  /\ cancelled = {}
  /\ deleteQueue = <<>>
  /\ live = Activations
  /\ quit = FALSE
  /\ requests = 0

-----------------------------------------------------------------------------
(* ParallelScheduler::Schedule, run by any process.                        *)

(* Where Schedule returns to.                                              *)
Return(p) ==
  /\ Goto(p, IF p \in Clients THEN "out"
             ELSE IF current[p] = None THEN "dispatch" ELSE "run")
  /\ target' = [target EXCEPT ![p] = None]

(* Mutant: the early return forgets Release.                               *)
ScheduleAgainLocked(p) ==
  /\ pc[p] = "want"
  /\ Acquire(p)
  /\ scheduled[target[p]]
  /\ Return(p)
  /\ UNCHANGED <<queueVars, current, todo, stopVars, deleteVars, envVars>>

(* Mutant: the early return counts the activation again.                   *)
ScheduleAgainCounted(p) ==
  /\ pc[p] = "want"
  /\ holder = None
  /\ scheduled[target[p]]
  /\ numEvents' = numEvents + 1
  /\ Return(p)
  /\ UNCHANGED <<queue, scheduled, lockVars, current, todo, stopVars, deleteVars,
                 envVars>>

(* Lock, then the early return for an activation already in the queue.     *)
ScheduleAgain(p) ==
  /\ pc[p] = "want"
  /\ holder = None
  /\ scheduled[target[p]]
  /\ Return(p)
  /\ UNCHANGED <<queueVars, lockVars, current, todo, stopVars, deleteVars, envVars>>

(* Mutant: the flag is not tested.                                         *)
ScheduleLockAlways(p) ==
  /\ pc[p] = "want"
  /\ Acquire(p)
  /\ Goto(p, "push")
  /\ UNCHANGED <<queueVars, bodyVars, stopVars, deleteVars, envVars>>

(* Lock, the flag is clear.                                                *)
ScheduleLock(p) ==
  /\ pc[p] = "want"
  /\ Acquire(p)
  /\ ~scheduled[target[p]]
  /\ Goto(p, "push")
  /\ UNCHANGED <<queueVars, bodyVars, stopVars, deleteVars, envVars>>

(* Mutant: the push is not counted.                                        *)
SchedulePushUncounted(p) ==
  /\ pc[p] = "push"
  /\ queue' = [queue EXCEPT ![target[p]] = @ + 1]
  /\ scheduled' = [scheduled EXCEPT ![target[p]] = TRUE]
  /\ Release
  /\ Return(p)
  /\ UNCHANGED <<numEvents, current, todo, stopVars, deleteVars, envVars>>

(* Push, set the flag, count, Release, return.                             *)
SchedulePush(p) ==
  /\ pc[p] = "push"
  /\ queue' = [queue EXCEPT ![target[p]] = @ + 1]
  /\ scheduled' = [scheduled EXCEPT ![target[p]] = TRUE]
  /\ numEvents' = numEvents + 1
  /\ Release
  /\ Return(p)
  /\ UNCHANGED <<current, todo, stopVars, deleteVars, envVars>>

ScheduleStep(p) == ScheduleAgain(p) \/ ScheduleLock(p) \/ SchedulePush(p)

-----------------------------------------------------------------------------
(* Thread::TaskLoop.                                                       *)

(* The Lock before the outer loop.                                         *)
Enter(t) ==
  /\ pc[t] = "enter"
  /\ Acquire(t)
  /\ Goto(t, "outer")
  /\ UNCHANGED <<queueVars, bodyVars, stopVars, deleteVars, envVars>>

LoopAgain(t) ==
  /\ pc[t] = "outer"
  /\ ~quit
  /\ Goto(t, "inner")
  /\ UNCHANGED <<queueVars, lockVars, bodyVars, stopVars, deleteVars, envVars>>

(* Mutant: the loop returns with the lock.                                 *)
LeaveLocked(t) ==
  /\ pc[t] = "outer"
  /\ quit
  /\ Goto(t, "done")
  /\ UNCHANGED <<queueVars, lockVars, bodyVars, stopVars, deleteVars, envVars>>

(* The outer loop ends: Release and return.                                *)
Leave(t) ==
  /\ pc[t] = "outer"
  /\ quit
  /\ Release
  /\ Goto(t, "done")
  /\ UNCHANGED <<queueVars, bodyVars, stopVars, deleteVars, envVars>>

(* Mutant: the comparison of the priority queue is reversed.               *)
TakeNextLast(t) ==
  /\ pc[t] = "inner"
  /\ ~quit
  /\ \E a \in Pending :
       /\ \A b \in Pending : Order[a] >= Order[b]
       /\ queue' = [queue EXCEPT ![a] = @ - 1]
       /\ scheduled' = [scheduled EXCEPT ![a] = FALSE]
       /\ current' = [current EXCEPT ![t] = a]
       /\ \E S \in SUBSET Emits[a] : todo' = [todo EXCEPT ![t] = S]
  /\ numEvents' = numEvents - 1
  /\ Release
  /\ Goto(t, "run")
  /\ UNCHANGED <<target, stopVars, deleteVars, envVars>>

(* RawGetNextActivation and Release.  The body will schedule some of the   *)
(* activations its outputs reach.                                          *)
TakeNext(t) ==
  /\ pc[t] = "inner"
  /\ ~quit
  /\ \E a \in Pending :
       /\ \A b \in Pending : Order[a] <= Order[b]
       /\ queue' = [queue EXCEPT ![a] = @ - 1]
       /\ scheduled' = [scheduled EXCEPT ![a] = FALSE]
       /\ current' = [current EXCEPT ![t] = a]
       /\ \E S \in SUBSET Emits[a] : todo' = [todo EXCEPT ![t] = S]
  /\ numEvents' = numEvents - 1
  /\ Release
  /\ Goto(t, "run")
  /\ UNCHANGED <<target, stopVars, deleteVars, envVars>>

(* Mutant: the flag of the delete queue is never cleared again.            *)
DeleteFirstOnce ==
  IF deleteQueue = <<>> \/ live # Activations THEN UNCHANGED deleteVars
  ELSE /\ live' = live \ {Head(deleteQueue)}
       /\ deleteQueue' = Tail(deleteQueue)

(* DoOneDeferredDelete: delete the first object waiting, if there is one.  *)
DeleteFirst ==
  IF deleteQueue = <<>> THEN UNCHANGED deleteVars
  ELSE /\ live' = live \ {Head(deleteQueue)}
       /\ deleteQueue' = Tail(deleteQueue)

(* Mutant: the queue need not be empty.                                    *)
GoIdleEarly(t) ==
  /\ pc[t] = "inner"
  /\ DeleteFirst
  /\ Goto(t, "select")
  /\ UNCHANGED <<queueVars, lockVars, bodyVars, stopVars, envVars>>

(* The inner loop ends; DoSomethingUseful, with the lock still held.       *)
GoIdle(t) ==
  /\ pc[t] = "inner"
  /\ quit \/ Pending = {}
  /\ DeleteFirst
  /\ Goto(t, "select")
  /\ UNCHANGED <<queueVars, lockVars, bodyVars, stopVars, envVars>>

(* The handlers of the sockets that were ready will schedule at most one   *)
(* activation each; a handler that does is a request from outside.         *)
EndSelect(t) ==
  /\ pc[t] = "select"
  /\ Release
  /\ Goto(t, "dispatch")
  /\ \/ UNCHANGED <<todo, requests>>
     \/ /\ requests < MaxRequests
        /\ requests' = requests + 1
        /\ \E a \in Inputs[t] : todo' = [todo EXCEPT ![t] = {a}]
  /\ UNCHANGED <<queueVars, current, target, stopVars, deleteVars, quit>>

(* A body or a handler sets a state: the activations still registered with *)
(* it are scheduled, a deleted one has unregistered itself.                *)
Emit(t) ==
  /\ pc[t] \in {"run", "dispatch"}
  /\ \E a \in todo[t] :
       /\ todo' = [todo EXCEPT ![t] = @ \ {a}]
       /\ \/ /\ a \in live
             /\ target' = [target EXCEPT ![t] = a]
             /\ Goto(t, "want")
          \/ /\ a \notin live
             /\ UNCHANGED <<target, pc>>
  /\ UNCHANGED <<queueVars, lockVars, current, stopVars, deleteVars, envVars>>

(* Mutant: back to the inner loop without the lock.                        *)
EndRunUnlocked(t) ==
  /\ pc[t] = "run"
  /\ todo[t] = {}
  /\ current' = [current EXCEPT ![t] = None]
  /\ Goto(t, "inner")
  /\ UNCHANGED <<queueVars, lockVars, target, todo, stopVars, deleteVars, envVars>>

(* The body returned: Lock and back to the inner loop.                     *)
EndRun(t) ==
  /\ pc[t] = "run"
  /\ todo[t] = {}
  /\ Acquire(t)
  /\ current' = [current EXCEPT ![t] = None]
  /\ Goto(t, "inner")
  /\ UNCHANGED <<queueVars, target, todo, stopVars, deleteVars, envVars>>

(* SelectEventsDispatch returned: Lock and back to the outer loop.         *)
EndDispatch(t) ==
  /\ pc[t] = "dispatch"
  /\ todo[t] = {}
  /\ Acquire(t)
  /\ Goto(t, "outer")
  /\ UNCHANGED <<queueVars, bodyVars, stopVars, deleteVars, envVars>>

(* Mutant: the handlers are outside the loop.                              *)
ThrowOut(t) ==
  /\ pc[t] = "run"
  /\ current[t] \in Throwers
  /\ current' = [current EXCEPT ![t] = None]
  /\ todo' = [todo EXCEPT ![t] = {}]
  /\ Goto(t, "done")
  /\ UNCHANGED <<queueVars, lockVars, target, stopVars, deleteVars, envVars>>

(* The body raised an exception.  The handlers around the loop report it   *)
(* and fall through to the outer "while": nothing takes the lock again.    *)
Throw(t) ==
  /\ pc[t] = "run"
  /\ current[t] \in Throwers
  /\ current' = [current EXCEPT ![t] = None]
  /\ todo' = [todo EXCEPT ![t] = {}]
  /\ Goto(t, "outer")
  /\ UNCHANGED <<queueVars, lockVars, target, stopVars, deleteVars, envVars>>

-----------------------------------------------------------------------------
(* RootInterface::Restart: StopThreads, then InitializeThreads.  One       *)
(* restart is modelled: StopThreads leaves the deleted threads in its      *)
(* vector, and a second one would read them.                               *)

BeginRestart(t) ==
  /\ pc[t] = "run"
  /\ current[t] \in Restarters
  /\ \A u \in Workers : pc[u] # "stop" /\ (u \in Spares => pc[u] = "unborn")
  /\ victims' = [victims EXCEPT ![t] = Threads \ {t}]
  /\ Goto(t, "stop")
  /\ UNCHANGED <<queueVars, lockVars, bodyVars, cancelled, deleteVars, envVars>>

(* One turn of the loop in StopThreads: Lock, pthread_cancel, Release.     *)
CancelOne(t) ==
  /\ pc[t] = "stop"
  /\ holder = None
  /\ \E u \in victims[t] :
       /\ victims' = [victims EXCEPT ![t] = @ \ {u}]
       /\ cancelled' = cancelled \cup {u}
  /\ UNCHANGED <<queueVars, lockVars, pc, bodyVars, deleteVars, envVars>>

(* InitializeThreads starts a new pool; the request's body goes on.        *)
EndRestart(t) ==
  /\ pc[t] = "stop"
  /\ victims[t] = {}
  /\ pc' = [p \in Procs |-> IF p \in Spares THEN "enter"
                            ELSE IF p = t THEN "run" ELSE pc[p]]
  /\ UNCHANGED <<queueVars, lockVars, bodyVars, stopVars, deleteVars, envVars>>

(* A cancelled thread ends at its next cancellation point: select() inside *)
(* BlockingCheckSelectEvents, or a read, send or write of a handler or a   *)
(* body.  No cleanup handler is pushed, so a mutex it holds stays locked.  *)
CancellationPoint(t) == t \in cancelled /\ pc[t] \in {"select", "dispatch", "run"}

Die(t) ==
  /\ CancellationPoint(t)
  /\ Goto(t, "dead")
  /\ current' = [current EXCEPT ![t] = None]
  /\ todo' = [todo EXCEPT ![t] = {}]
  /\ UNCHANGED <<queueVars, lockVars, target, stopVars, deleteVars, envVars>>

(* Where cancellation unwinds the stack, "catch(...)" stops the unwinding  *)
(* and the C++ run-time ends the whole process.                            *)
Abort(t) ==
  /\ CancellationPoint(t)
  /\ pc' = [p \in Procs |-> "dead"]
  /\ UNCHANGED <<queueVars, lockVars, bodyVars, stopVars, deleteVars, envVars>>

-----------------------------------------------------------------------------
(* Clients and Quit.                                                       *)

(* A client sets a state of a transform it still knows.                    *)
Request(c) ==
  /\ pc[c] = "out"
  /\ requests < MaxRequests
  /\ requests' = requests + 1
  /\ \E a \in (Inputs[c] \cap live) \ AwaitingDelete :
       target' = [target EXCEPT ![c] = a]
  /\ Goto(c, "want")
  /\ UNCHANGED <<queueVars, lockVars, current, todo, stopVars, deleteVars, quit>>

(* DeferredDelete, called by a Tcl command or by an OSC handler.  Request  *)
(* does not choose the transform again: Tcl has closed its widget.         *)
RequestDelete(p) ==
  /\ pc[p] \in {"out", "dispatch"}
  /\ \E a \in (Doomed[p] \cap live) \ AwaitingDelete :
       deleteQueue' = Append(deleteQueue, a)
  /\ UNCHANGED <<queueVars, lockVars, pc, bodyVars, stopVars, live, envVars>>

Quit ==
  /\ CanQuit
  /\ ~quit
  /\ quit' = TRUE
  /\ UNCHANGED <<queueVars, lockVars, pc, bodyVars, stopVars, deleteVars, requests>>

-----------------------------------------------------------------------------
WorkerStep(t) ==
  \/ Enter(t) \/ LoopAgain(t) \/ Leave(t) \/ TakeNext(t) \/ GoIdle(t)
  \/ EndSelect(t) \/ Emit(t) \/ EndRun(t) \/ EndDispatch(t) \/ Throw(t)
  \/ BeginRestart(t) \/ CancelOne(t) \/ EndRestart(t) \/ Die(t)
  \/ Abort(t) \/ ScheduleStep(t)

ClientStep(c) == Request(c) \/ RequestDelete(c) \/ ScheduleStep(c)

Next ==
  \/ \E t \in Workers : WorkerStep(t) \/ RequestDelete(t)
  \/ \E c \in Clients : ClientStep(c)
  \/ Quit

Spec == Init /\ [][Next]_vars

(* Every runnable task thread keeps running, and a client that has entered *)
(* Schedule finishes the call.  The mutex need not be fair.                *)
Fairness ==
  /\ \A t \in Workers : WF_vars(WorkerStep(t))
  /\ \A c \in Clients : WF_vars(ScheduleStep(c))

FairSpec == Spec /\ Fairness

(* A mutex that lets every waiting task thread in eventually.              *)
FairLockSpec ==
  /\ Spec
  /\ \A t \in Workers : SF_vars(WorkerStep(t))
  /\ \A c \in Clients : SF_vars(ScheduleStep(c))

-----------------------------------------------------------------------------
Labels == Locked \cup Unlocked

TypeOK ==
  /\ queue \in [Activations -> Nat]
  /\ scheduled \in [Activations -> BOOLEAN]
  /\ numEvents \in Nat
  /\ holder \in Procs \cup {None}
  /\ pc \in [Procs -> Labels]
  /\ current \in [Workers -> Activations \cup {None}]
  /\ target \in [Procs -> Activations \cup {None}]
  /\ todo \in [Workers -> SUBSET Activations]
  /\ victims \in [Workers -> SUBSET Workers]
  /\ cancelled \subseteq Workers
  /\ deleteQueue \in Seq(Activations)
  /\ live \subseteq Activations
  /\ quit \in BOOLEAN
  /\ requests \in 0 .. MaxRequests

(* The scheduler's lock and the program points it protects go together: a  *)
(* process between Lock and Release of TaskLoop or Schedule holds it.      *)
InsideHolds == \A p \in Procs : pc[p] \in Locked => holder = p

(* Without a restart, the lock is never left locked by a process that has  *)
(* gone on: whoever holds it is at a point that leads to Release.          *)
HolderInside == cancelled = {} /\ holder # None => pc[holder] \in Locked

LockDiscipline == InsideHolds /\ HolderInside

(* xscheduled says whether the activation is in xqueue, where it is at     *)
(* most once, except between the test and the push of a Schedule in        *)
(* progress: coalescing loses no request and queues nothing twice.         *)
QueueFlagAgree ==
  \A a \in Activations : queue[a] = IF scheduled[a] THEN 1 ELSE 0

(* xnumEvents counts the queue.                                            *)
CountAgrees == numEvents = Cardinality(Pending)

(* RawGetNextActivation "assumes the caller has already locked" the        *)
(* scheduler: a task thread at the inner loop holds the lock.              *)
TakesUnderLock == \A t \in Workers : pc[t] = "inner" => holder = t

(* With one task thread, no thread runs, schedules or has queued an        *)
(* activation that DoOneDeferredDelete has deleted.  After Quit the queue  *)
(* may hold one, and nothing is taken from it any more.                    *)
NoUseAfterDelete ==
  /\ \A t \in Workers : current[t] \in live \cup {None}
  /\ \A p \in Procs : target[p] \in live \cup {None}
  /\ ~quit => Pending \subseteq live

(* The scheduler implements the abstract set of requests.                  *)
Abstract == INSTANCE WorkSet WITH
              Threads <- Workers, pending <- Pending, running <- current

ImplementsWorkSet == Abstract!Spec

(* A request is served, unless the program is quitting or restarting.  An  *)
(* exception in a body does not change that: the only task thread survives *)
(* it, and is under the lock again by the next activation.                 *)
QueuedRuns ==
  \A a \in Activations :
    scheduled[a] ~> (~scheduled[a] \/ quit \/ cancelled # {})

(* After Quit every task thread leaves TaskLoop, whatever it was doing.    *)
QuitTerminates ==
  quit ~> (cancelled # {} \/ \A t \in Threads : pc[t] = "done")

(* A transform waiting in the delete queue is deleted, however much the    *)
(* patch computes between, unless the program quits.                       *)
DeletesHappen ==
  \A a \in Activations : a \in AwaitingDelete ~> (a \notin live \/ quit)

(* A restart leads to a new pool that gets to work.                        *)
RestartServes ==
  (\E t \in Workers : pc[t] = "stop")
    ~> (\E u \in Spares : pc[u] \notin {"unborn", "enter", "dead"})
=============================================================================
