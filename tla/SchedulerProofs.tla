-------------------------- MODULE SchedulerProofs --------------------------
(***************************************************************************)
(* Proofs about the scheduler, for any number of activations, task threads *)
(* and clients, any restart and any deletion, when no activation raises an *)
(* exception that leaves its body (Throwers = {}): the handlers of         *)
(* TaskLoop lose the lock otherwise.  Then, exceptions allowed, about      *)
(* deferred deletion by one task thread.                                   *)
(***************************************************************************)
EXTENDS Scheduler, FiniteSetTheorems, TLAPS

(* A process in Schedule has an activation to schedule, and once past the  *)
(* test under the lock that activation is not in the queue.                *)
ScheduleArgs ==
  \A p \in Procs :
    /\ pc[p] \in {"want", "push"} => target[p] \in Activations
    /\ pc[p] = "push" => ~scheduled[target[p]]

(* A worker has a current activation only while the body is on its stack.  *)
BodyPlaces ==
  \A t \in Workers :
    current[t] # None => pc[t] \in {"run", "want", "push", "stop", "dead"}

(* One worker at a time stops the others, before any spare is started.     *)
StopAlone ==
  \A t \in Workers : pc[t] = "stop" =>
    \A u \in Workers : /\ pc[u] = "stop" => u = t
                       /\ u \in Spares => pc[u] = "unborn"

IInv ==
  /\ TypeOK
  /\ ScheduleArgs
  /\ BodyPlaces
  /\ StopAlone
  /\ LockDiscipline
  /\ QueueFlagAgree
  /\ CountAgrees

-----------------------------------------------------------------------------
(* Counting the queue: an activation that enters it or leaves it.          *)

LEMMA PendingFinite == IsFiniteSet(Pending) /\ Cardinality(Pending) \in Nat
BY SchedulerAssumption, FS_Subset, FS_CardinalityType DEF SchedulerAssumption, Pending

(* Pushing an activation that is not queued makes the queue one longer.    *)
LEMMA PushCounts ==
  ASSUME queue \in [Activations -> Nat], NEW a \in Activations, queue[a] = 0,
         queue' = [queue EXCEPT ![a] = @ + 1]
  PROVE  Cardinality(Pending') = Cardinality(Pending) + 1
<1>1. Pending' = Pending \cup {a}
  BY DEF Pending
<1>2. a \notin Pending
  BY DEF Pending
<1> QED
  BY <1>1, <1>2, PendingFinite, FS_AddElement

(* Popping an activation that is queued once makes it one shorter.         *)
LEMMA PopCounts ==
  ASSUME queue \in [Activations -> Nat], NEW a \in Activations, queue[a] = 1,
         queue' = [queue EXCEPT ![a] = @ - 1]
  PROVE  /\ Cardinality(Pending') = Cardinality(Pending) - 1
         /\ Cardinality(Pending) # 0
<1>1. Pending' = Pending \ {a}
  BY DEF Pending
<1>2. a \in Pending
  BY DEF Pending
<1> QED
  BY <1>1, <1>2, PendingFinite, FS_RemoveElement, FS_EmptySet

-----------------------------------------------------------------------------
LEMMA InitIInv == Init => IInv
<1> SUFFICES ASSUME Init PROVE IInv
  OBVIOUS
<1> USE SchedulerAssumption DEF SchedulerAssumption, Init, Procs, Workers
<1>1. TypeOK
  <2>1. pc \in [Procs -> Labels]
    BY DEF Labels, Unlocked
  <2>2. deleteQueue \in Seq(Activations)
    OBVIOUS
  <2>3. requests \in 0 .. MaxRequests
    OBVIOUS
  <2> QED
    BY <2>1, <2>2, <2>3 DEF TypeOK
<1>2. ScheduleArgs /\ BodyPlaces /\ StopAlone
  BY DEF ScheduleArgs, BodyPlaces, StopAlone
<1>3. LockDiscipline /\ QueueFlagAgree
  BY DEF LockDiscipline, InsideHolds, HolderInside, QueueFlagAgree, Locked
<1>4. CountAgrees
  <2>1. Pending = {}
    BY DEF Pending
  <2> QED
    BY <2>1, FS_EmptySet DEF CountAgrees
<1> QED
  BY <1>1, <1>2, <1>3, <1>4 DEF IInv

-----------------------------------------------------------------------------
(* What Emit does with the activation it picks.                            *)
EmitOne(t, a) ==
  /\ pc[t] \in {"run", "dispatch"}
  /\ todo' = [todo EXCEPT ![t] = @ \ {a}]
  /\ \/ target' = [target EXCEPT ![t] = a] /\ Goto(t, "want")
     \/ UNCHANGED <<target, pc>>
  /\ UNCHANGED <<queueVars, lockVars, current, stopVars, deleteVars, envVars>>

LEMMA EmitSplit ==
  ASSUME NEW t \in Workers, Emit(t)
  PROVE  \E a \in todo[t] : EmitOne(t, a)
BY DEF Emit, EmitOne

-----------------------------------------------------------------------------
(* The invariant is inductive: one lemma per conjunct, one step per action. *)

(* Popping needs the flag and the count to agree with the queue.           *)
LEMMA NextTypeOK ==
  ASSUME Throwers = {}, IInv, Next
  PROVE  TypeOK'
<1> USE SchedulerAssumption DEF SchedulerAssumption, IInv, LockDiscipline, TypeOK, Labels, Locked, Unlocked,
        Goto, Acquire, Release, Return, Procs, Workers,
        queueVars, lockVars, bodyVars, stopVars, deleteVars, envVars
<1>1. ASSUME NEW p \in Procs, ScheduleAgain(p) PROVE TypeOK'
  BY <1>1 DEF ScheduleAgain
<1>2. ASSUME NEW p \in Procs, ScheduleLock(p) PROVE TypeOK'
  BY <1>2 DEF ScheduleLock
<1>3. ASSUME NEW p \in Procs, SchedulePush(p) PROVE TypeOK'
  <2>1. queue' \in [Activations -> Nat]
    <3>1. target[p] \in Activations /\ queue' = [queue EXCEPT ![target[p]] = @ + 1]
      BY <1>3 DEF SchedulePush, ScheduleArgs
    <3> QED
      BY <3>1
  <2>3. scheduled' \in [Activations -> BOOLEAN]
    BY <1>3 DEF SchedulePush
  <2>2. pc' \in [Procs -> Labels] /\ target' \in [Procs -> Activations \cup {None}]
    BY <1>3 DEF SchedulePush
  <2> QED
    BY <1>3, <2>1, <2>3, <2>2 DEF SchedulePush
<1>4. ASSUME NEW t \in Workers, Enter(t) PROVE TypeOK'
  BY <1>4 DEF Enter
<1>5. ASSUME NEW t \in Workers, LoopAgain(t) PROVE TypeOK'
  BY <1>5 DEF LoopAgain
<1>6. ASSUME NEW t \in Workers, Leave(t) PROVE TypeOK'
  BY <1>6 DEF Leave
<1>7. ASSUME NEW t \in Workers, TakeNext(t) PROVE TypeOK'
  <2>1. PICK a \in Pending :
          /\ queue' = [queue EXCEPT ![a] = @ - 1]
          /\ scheduled' = [scheduled EXCEPT ![a] = FALSE]
          /\ current' = [current EXCEPT ![t] = a]
          /\ \E S \in SUBSET Emits[a] : todo' = [todo EXCEPT ![t] = S]
    BY <1>7 DEF TakeNext
  <2>2. a \in Activations /\ queue[a] = 1
    BY DEF Pending, QueueFlagAgree
  <2>3. numEvents' \in Nat
    <3>1. Cardinality(Pending) # 0
      BY <2>1, <2>2, PopCounts
    <3>2. numEvents # 0
      BY <3>1 DEF CountAgrees
    <3> QED
      BY <1>7, <3>2 DEF TakeNext
  <2>4. queue' \in [Activations -> Nat] /\ scheduled' \in [Activations -> BOOLEAN]
    BY <2>1, <2>2
  <2>5. todo' \in [Workers -> SUBSET Activations]
    BY <2>1, <2>2
  <2>6. current' \in [Workers -> Activations \cup {None}] /\ pc' \in [Procs -> Labels]
    BY <1>7, <2>1, <2>2 DEF TakeNext
  <2> QED
    BY <1>7, <2>3, <2>4, <2>5, <2>6 DEF TakeNext
<1>8. ASSUME NEW t \in Workers, GoIdle(t) PROVE TypeOK'
  <2>1. CASE deleteQueue = <<>>
    BY <1>8, <2>1 DEF GoIdle, DeleteFirst
  <2>2. CASE deleteQueue # <<>>
    <3>1. Tail(deleteQueue) \in Seq(Activations)
      BY <2>2
    <3> QED
      BY <1>8, <2>2, <3>1 DEF GoIdle, DeleteFirst
  <2> QED
    BY <2>1, <2>2
<1>9. ASSUME NEW t \in Workers, EndSelect(t) PROVE TypeOK'
  <2>1. todo' \in [Workers -> SUBSET Activations]
    <3>1. CASE todo' = todo
      BY <3>1
    <3>2. ASSUME NEW a \in Inputs[t], todo' = [todo EXCEPT ![t] = {a}]
          PROVE  todo' \in [Workers -> SUBSET Activations]
      <4>1. a \in Activations
        OBVIOUS
      <4> QED
        BY <3>2, <4>1
    <3> QED
      BY <1>9, <3>1, <3>2 DEF EndSelect
  <2>2. requests' \in 0 .. MaxRequests
    BY <1>9 DEF EndSelect
  <2>3. pc' \in [Procs -> Labels] /\ holder' \in Procs \cup {None}
    BY <1>9 DEF EndSelect
  <2> QED
    BY <1>9, <2>1, <2>2, <2>3 DEF EndSelect
<1>10. ASSUME NEW t \in Workers, Emit(t) PROVE TypeOK'
  <2>1. PICK a \in todo[t] : EmitOne(t, a)
    BY <1>10, EmitSplit
  <2>2. a \in Activations /\ todo' \in [Workers -> SUBSET Activations]
    BY <2>1 DEF EmitOne
  <2>3. pc' \in [Procs -> Labels] /\ target' \in [Procs -> Activations \cup {None}]
    <3>1. CASE target' = [target EXCEPT ![t] = a] /\ Goto(t, "want")
      BY <2>2, <3>1
    <3>2. CASE UNCHANGED <<target, pc>>
      BY <3>2
    <3> QED
      BY <2>1, <3>1, <3>2 DEF EmitOne
  <2> QED
    BY <2>1, <2>2, <2>3 DEF EmitOne
<1>11. ASSUME NEW t \in Workers, EndRun(t) PROVE TypeOK'
  BY <1>11 DEF EndRun
<1>12. ASSUME NEW t \in Workers, EndDispatch(t) PROVE TypeOK'
  BY <1>12 DEF EndDispatch
<1>13. ASSUME NEW t \in Workers, BeginRestart(t) PROVE TypeOK'
  BY <1>13 DEF BeginRestart
<1>14. ASSUME NEW t \in Workers, CancelOne(t) PROVE TypeOK'
  BY <1>14 DEF CancelOne
<1>15. ASSUME NEW t \in Workers, EndRestart(t) PROVE TypeOK'
  BY <1>15 DEF EndRestart
<1>16. ASSUME NEW t \in Workers, Die(t) PROVE TypeOK'
  BY <1>16 DEF Die, CancellationPoint
<1>17. ASSUME NEW t \in Workers, Abort(t) PROVE TypeOK'
  BY <1>17 DEF Abort, CancellationPoint
<1>18. ASSUME NEW c \in Clients, Request(c) PROVE TypeOK'
  BY <1>18 DEF Request
<1>19. ASSUME NEW p \in Procs, RequestDelete(p) PROVE TypeOK'
  BY <1>19 DEF RequestDelete
<1>20. CASE Quit
  BY <1>20 DEF Quit
<1> QED
  BY <1>1, <1>2, <1>3, <1>4, <1>5, <1>6, <1>7, <1>8, <1>9, <1>10, <1>11, <1>12,
     <1>13, <1>14, <1>15, <1>16, <1>17, <1>18, <1>19, <1>20
     DEF Next, WorkerStep, ClientStep, ScheduleStep, Throw

(* Only the process that holds the lock is between the test and the push.  *)
LEMMA NextScheduleArgs ==
  ASSUME Throwers = {}, IInv, Next
  PROVE  ScheduleArgs'
<1> USE SchedulerAssumption DEF SchedulerAssumption, IInv, LockDiscipline, TypeOK, ScheduleArgs, InsideHolds, Locked,
        Goto, Acquire, Release, Return, Procs, Workers,
        queueVars, lockVars, bodyVars, stopVars, deleteVars, envVars
<1>1. ASSUME NEW p \in Procs, ScheduleAgain(p) PROVE ScheduleArgs'
  BY <1>1 DEF ScheduleAgain
<1>2. ASSUME NEW p \in Procs, ScheduleLock(p) PROVE ScheduleArgs'
  BY <1>2 DEF ScheduleLock
<1>3. ASSUME NEW p \in Procs, SchedulePush(p) PROVE ScheduleArgs'
  BY <1>3 DEF SchedulePush
<1>4. ASSUME NEW t \in Workers, Enter(t) PROVE ScheduleArgs'
  BY <1>4 DEF Enter
<1>5. ASSUME NEW t \in Workers, LoopAgain(t) PROVE ScheduleArgs'
  BY <1>5 DEF LoopAgain
<1>6. ASSUME NEW t \in Workers, Leave(t) PROVE ScheduleArgs'
  BY <1>6 DEF Leave
<1>7. ASSUME NEW t \in Workers, TakeNext(t) PROVE ScheduleArgs'
  BY <1>7 DEF TakeNext
<1>8. ASSUME NEW t \in Workers, GoIdle(t) PROVE ScheduleArgs'
  BY <1>8 DEF GoIdle, DeleteFirst
<1>9. ASSUME NEW t \in Workers, EndSelect(t) PROVE ScheduleArgs'
  BY <1>9 DEF EndSelect
<1>10. ASSUME NEW t \in Workers, Emit(t) PROVE ScheduleArgs'
  <2>1. PICK a \in todo[t] : EmitOne(t, a)
    BY <1>10, EmitSplit
  <2> QED
    BY <2>1 DEF EmitOne
<1>11. ASSUME NEW t \in Workers, EndRun(t) PROVE ScheduleArgs'
  BY <1>11 DEF EndRun
<1>12. ASSUME NEW t \in Workers, EndDispatch(t) PROVE ScheduleArgs'
  BY <1>12 DEF EndDispatch
<1>13. ASSUME NEW t \in Workers, BeginRestart(t) PROVE ScheduleArgs'
  BY <1>13 DEF BeginRestart
<1>14. ASSUME NEW t \in Workers, CancelOne(t) PROVE ScheduleArgs'
  BY <1>14 DEF CancelOne
<1>15. ASSUME NEW t \in Workers, EndRestart(t) PROVE ScheduleArgs'
  BY <1>15 DEF EndRestart
<1>16. ASSUME NEW t \in Workers, Die(t) PROVE ScheduleArgs'
  BY <1>16 DEF Die, CancellationPoint
<1>17. ASSUME NEW t \in Workers, Abort(t) PROVE ScheduleArgs'
  BY <1>17 DEF Abort, CancellationPoint
<1>18. ASSUME NEW c \in Clients, Request(c) PROVE ScheduleArgs'
  BY <1>18 DEF Request
<1>19. ASSUME NEW p \in Procs, RequestDelete(p) PROVE ScheduleArgs'
  BY <1>19 DEF RequestDelete
<1>20. CASE Quit
  BY <1>20 DEF Quit
<1> QED
  BY <1>1, <1>2, <1>3, <1>4, <1>5, <1>6, <1>7, <1>8, <1>9, <1>10, <1>11, <1>12,
     <1>13, <1>14, <1>15, <1>16, <1>17, <1>18, <1>19, <1>20
     DEF Next, WorkerStep, ClientStep, ScheduleStep, Throw

(* current is reset on the way out of a body.                              *)
LEMMA NextBodyPlaces ==
  ASSUME Throwers = {}, IInv, Next
  PROVE  BodyPlaces'
<1> USE SchedulerAssumption DEF SchedulerAssumption, IInv, LockDiscipline, TypeOK, BodyPlaces,
        Goto, Acquire, Release, Return, Procs, Workers,
        queueVars, lockVars, bodyVars, stopVars, deleteVars, envVars
<1>1. ASSUME NEW p \in Procs, ScheduleAgain(p) PROVE BodyPlaces'
  BY <1>1 DEF ScheduleAgain
<1>2. ASSUME NEW p \in Procs, ScheduleLock(p) PROVE BodyPlaces'
  BY <1>2 DEF ScheduleLock
<1>3. ASSUME NEW p \in Procs, SchedulePush(p) PROVE BodyPlaces'
  BY <1>3 DEF SchedulePush
<1>4. ASSUME NEW t \in Workers, Enter(t) PROVE BodyPlaces'
  BY <1>4 DEF Enter
<1>5. ASSUME NEW t \in Workers, LoopAgain(t) PROVE BodyPlaces'
  BY <1>5 DEF LoopAgain
<1>6. ASSUME NEW t \in Workers, Leave(t) PROVE BodyPlaces'
  BY <1>6 DEF Leave
<1>7. ASSUME NEW t \in Workers, TakeNext(t) PROVE BodyPlaces'
  BY <1>7 DEF TakeNext
<1>8. ASSUME NEW t \in Workers, GoIdle(t) PROVE BodyPlaces'
  BY <1>8 DEF GoIdle, DeleteFirst
<1>9. ASSUME NEW t \in Workers, EndSelect(t) PROVE BodyPlaces'
  BY <1>9 DEF EndSelect
<1>10. ASSUME NEW t \in Workers, Emit(t) PROVE BodyPlaces'
  BY <1>10 DEF Emit
<1>11. ASSUME NEW t \in Workers, EndRun(t) PROVE BodyPlaces'
  BY <1>11 DEF EndRun
<1>12. ASSUME NEW t \in Workers, EndDispatch(t) PROVE BodyPlaces'
  BY <1>12 DEF EndDispatch
<1>13. ASSUME NEW t \in Workers, BeginRestart(t) PROVE BodyPlaces'
  BY <1>13 DEF BeginRestart
<1>14. ASSUME NEW t \in Workers, CancelOne(t) PROVE BodyPlaces'
  BY <1>14 DEF CancelOne
<1>15. ASSUME NEW t \in Workers, EndRestart(t) PROVE BodyPlaces'
  <2>1. \A u \in Spares : pc[u] = "unborn"
    BY <1>15 DEF EndRestart, StopAlone
  <2> QED
    BY <1>15, <2>1 DEF EndRestart
<1>16. ASSUME NEW t \in Workers, Die(t) PROVE BodyPlaces'
  BY <1>16 DEF Die, CancellationPoint
<1>17. ASSUME NEW t \in Workers, Abort(t) PROVE BodyPlaces'
  BY <1>17 DEF Abort, CancellationPoint
<1>18. ASSUME NEW c \in Clients, Request(c) PROVE BodyPlaces'
  BY <1>18 DEF Request
<1>19. ASSUME NEW p \in Procs, RequestDelete(p) PROVE BodyPlaces'
  BY <1>19 DEF RequestDelete
<1>20. CASE Quit
  BY <1>20 DEF Quit
<1> QED
  BY <1>1, <1>2, <1>3, <1>4, <1>5, <1>6, <1>7, <1>8, <1>9, <1>10, <1>11, <1>12,
     <1>13, <1>14, <1>15, <1>16, <1>17, <1>18, <1>19, <1>20
     DEF Next, WorkerStep, ClientStep, ScheduleStep, Throw

(* The guard of BeginRestart, and that nobody starts a spare but EndRestart. *)
LEMMA NextStopAlone ==
  ASSUME Throwers = {}, IInv, Next
  PROVE  StopAlone'
<1> USE SchedulerAssumption DEF SchedulerAssumption, IInv, LockDiscipline, TypeOK, StopAlone,
        Goto, Acquire, Release, Return, Procs, Workers,
        queueVars, lockVars, bodyVars, stopVars, deleteVars, envVars
<1>1. ASSUME NEW p \in Procs, ScheduleAgain(p) PROVE StopAlone'
  BY <1>1 DEF ScheduleAgain
<1>2. ASSUME NEW p \in Procs, ScheduleLock(p) PROVE StopAlone'
  BY <1>2 DEF ScheduleLock
<1>3. ASSUME NEW p \in Procs, SchedulePush(p) PROVE StopAlone'
  BY <1>3 DEF SchedulePush
<1>4. ASSUME NEW t \in Workers, Enter(t) PROVE StopAlone'
  BY <1>4 DEF Enter
<1>5. ASSUME NEW t \in Workers, LoopAgain(t) PROVE StopAlone'
  BY <1>5 DEF LoopAgain
<1>6. ASSUME NEW t \in Workers, Leave(t) PROVE StopAlone'
  BY <1>6 DEF Leave
<1>7. ASSUME NEW t \in Workers, TakeNext(t) PROVE StopAlone'
  BY <1>7 DEF TakeNext
<1>8. ASSUME NEW t \in Workers, GoIdle(t) PROVE StopAlone'
  BY <1>8 DEF GoIdle, DeleteFirst
<1>9. ASSUME NEW t \in Workers, EndSelect(t) PROVE StopAlone'
  BY <1>9 DEF EndSelect
<1>10. ASSUME NEW t \in Workers, Emit(t) PROVE StopAlone'
  <2>1. PICK a \in todo[t] : EmitOne(t, a)
    BY <1>10, EmitSplit
  <2>2. CASE Goto(t, "want")
    BY <2>1, <2>2 DEF EmitOne
  <2>3. CASE pc' = pc
    BY <2>3
  <2> QED
    BY <2>1, <2>2, <2>3 DEF EmitOne
<1>11. ASSUME NEW t \in Workers, EndRun(t) PROVE StopAlone'
  BY <1>11 DEF EndRun
<1>12. ASSUME NEW t \in Workers, EndDispatch(t) PROVE StopAlone'
  BY <1>12 DEF EndDispatch
<1>13. ASSUME NEW t \in Workers, BeginRestart(t) PROVE StopAlone'
  BY <1>13 DEF BeginRestart
<1>14. ASSUME NEW t \in Workers, CancelOne(t) PROVE StopAlone'
  BY <1>14 DEF CancelOne
<1>15. ASSUME NEW t \in Workers, EndRestart(t) PROVE StopAlone'
  BY <1>15 DEF EndRestart
<1>16. ASSUME NEW t \in Workers, Die(t) PROVE StopAlone'
  BY <1>16 DEF Die, CancellationPoint
<1>17. ASSUME NEW t \in Workers, Abort(t) PROVE StopAlone'
  BY <1>17 DEF Abort, CancellationPoint
<1>18. ASSUME NEW c \in Clients, Request(c) PROVE StopAlone'
  BY <1>18 DEF Request
<1>19. ASSUME NEW p \in Procs, RequestDelete(p) PROVE StopAlone'
  BY <1>19 DEF RequestDelete
<1>20. CASE Quit
  BY <1>20 DEF Quit
<1> QED
  BY <1>1, <1>2, <1>3, <1>4, <1>5, <1>6, <1>7, <1>8, <1>9, <1>10, <1>11, <1>12,
     <1>13, <1>14, <1>15, <1>16, <1>17, <1>18, <1>19, <1>20
     DEF Next, WorkerStep, ClientStep, ScheduleStep, Throw

(* Two processes are never between Lock and Release.                       *)
LEMMA NextInsideHolds ==
  ASSUME Throwers = {}, IInv, Next
  PROVE  InsideHolds'
<1> USE SchedulerAssumption DEF SchedulerAssumption, IInv, LockDiscipline, TypeOK, InsideHolds, Locked,
        Goto, Acquire, Release, Return, Procs, Workers,
        queueVars, lockVars, bodyVars, stopVars, deleteVars, envVars
<1>1. ASSUME NEW p \in Procs, ScheduleAgain(p) PROVE InsideHolds'
  BY <1>1 DEF ScheduleAgain
<1>2. ASSUME NEW p \in Procs, ScheduleLock(p) PROVE InsideHolds'
  BY <1>2 DEF ScheduleLock
<1>3. ASSUME NEW p \in Procs, SchedulePush(p) PROVE InsideHolds'
  BY <1>3 DEF SchedulePush
<1>4. ASSUME NEW t \in Workers, Enter(t) PROVE InsideHolds'
  BY <1>4 DEF Enter
<1>5. ASSUME NEW t \in Workers, LoopAgain(t) PROVE InsideHolds'
  BY <1>5 DEF LoopAgain
<1>6. ASSUME NEW t \in Workers, Leave(t) PROVE InsideHolds'
  BY <1>6 DEF Leave
<1>7. ASSUME NEW t \in Workers, TakeNext(t) PROVE InsideHolds'
  BY <1>7 DEF TakeNext
<1>8. ASSUME NEW t \in Workers, GoIdle(t) PROVE InsideHolds'
  BY <1>8 DEF GoIdle, DeleteFirst
<1>9. ASSUME NEW t \in Workers, EndSelect(t) PROVE InsideHolds'
  BY <1>9 DEF EndSelect
<1>10. ASSUME NEW t \in Workers, Emit(t) PROVE InsideHolds'
  BY <1>10 DEF Emit
<1>11. ASSUME NEW t \in Workers, EndRun(t) PROVE InsideHolds'
  BY <1>11 DEF EndRun
<1>12. ASSUME NEW t \in Workers, EndDispatch(t) PROVE InsideHolds'
  BY <1>12 DEF EndDispatch
<1>13. ASSUME NEW t \in Workers, BeginRestart(t) PROVE InsideHolds'
  BY <1>13 DEF BeginRestart
<1>14. ASSUME NEW t \in Workers, CancelOne(t) PROVE InsideHolds'
  BY <1>14 DEF CancelOne
<1>15. ASSUME NEW t \in Workers, EndRestart(t) PROVE InsideHolds'
  BY <1>15 DEF EndRestart
<1>16. ASSUME NEW t \in Workers, Die(t) PROVE InsideHolds'
  BY <1>16 DEF Die, CancellationPoint
<1>17. ASSUME NEW t \in Workers, Abort(t) PROVE InsideHolds'
  BY <1>17 DEF Abort, CancellationPoint
<1>18. ASSUME NEW c \in Clients, Request(c) PROVE InsideHolds'
  BY <1>18 DEF Request
<1>19. ASSUME NEW p \in Procs, RequestDelete(p) PROVE InsideHolds'
  BY <1>19 DEF RequestDelete
<1>20. CASE Quit
  BY <1>20 DEF Quit
<1> QED
  BY <1>1, <1>2, <1>3, <1>4, <1>5, <1>6, <1>7, <1>8, <1>9, <1>10, <1>11, <1>12,
     <1>13, <1>14, <1>15, <1>16, <1>17, <1>18, <1>19, <1>20
     DEF Next, WorkerStep, ClientStep, ScheduleStep, Throw

(* Whoever takes the lock is at a point that leads to Release.             *)
LEMMA NextHolderInside ==
  ASSUME Throwers = {}, IInv, Next
  PROVE  HolderInside'
<1> USE SchedulerAssumption DEF SchedulerAssumption, IInv, LockDiscipline, TypeOK, HolderInside, InsideHolds, StopAlone, Locked,
        Goto, Acquire, Release, Return, Procs, Workers,
        queueVars, lockVars, bodyVars, stopVars, deleteVars, envVars
<1>1. ASSUME NEW p \in Procs, ScheduleAgain(p) PROVE HolderInside'
  BY <1>1 DEF ScheduleAgain
<1>2. ASSUME NEW p \in Procs, ScheduleLock(p) PROVE HolderInside'
  BY <1>2 DEF ScheduleLock
<1>3. ASSUME NEW p \in Procs, SchedulePush(p) PROVE HolderInside'
  BY <1>3 DEF SchedulePush
<1>4. ASSUME NEW t \in Workers, Enter(t) PROVE HolderInside'
  BY <1>4 DEF Enter
<1>5. ASSUME NEW t \in Workers, LoopAgain(t) PROVE HolderInside'
  BY <1>5 DEF LoopAgain
<1>6. ASSUME NEW t \in Workers, Leave(t) PROVE HolderInside'
  BY <1>6 DEF Leave
<1>7. ASSUME NEW t \in Workers, TakeNext(t) PROVE HolderInside'
  BY <1>7 DEF TakeNext
<1>8. ASSUME NEW t \in Workers, GoIdle(t) PROVE HolderInside'
  BY <1>8 DEF GoIdle, DeleteFirst
<1>9. ASSUME NEW t \in Workers, EndSelect(t) PROVE HolderInside'
  BY <1>9 DEF EndSelect
<1>10. ASSUME NEW t \in Workers, Emit(t) PROVE HolderInside'
  BY <1>10 DEF Emit
<1>11. ASSUME NEW t \in Workers, EndRun(t) PROVE HolderInside'
  BY <1>11 DEF EndRun
<1>12. ASSUME NEW t \in Workers, EndDispatch(t) PROVE HolderInside'
  BY <1>12 DEF EndDispatch
<1>13. ASSUME NEW t \in Workers, BeginRestart(t) PROVE HolderInside'
  BY <1>13 DEF BeginRestart
<1>14. ASSUME NEW t \in Workers, CancelOne(t) PROVE HolderInside'
  BY <1>14 DEF CancelOne
<1>15. ASSUME NEW t \in Workers, EndRestart(t) PROVE HolderInside'
  BY <1>15 DEF EndRestart
<1>16. ASSUME NEW t \in Workers, Die(t) PROVE HolderInside'
  BY <1>16 DEF Die, CancellationPoint
<1>17. ASSUME NEW t \in Workers, Abort(t) PROVE HolderInside'
  BY <1>17 DEF Abort, CancellationPoint
<1>18. ASSUME NEW c \in Clients, Request(c) PROVE HolderInside'
  BY <1>18 DEF Request
<1>19. ASSUME NEW p \in Procs, RequestDelete(p) PROVE HolderInside'
  BY <1>19 DEF RequestDelete
<1>20. CASE Quit
  BY <1>20 DEF Quit
<1> QED
  BY <1>1, <1>2, <1>3, <1>4, <1>5, <1>6, <1>7, <1>8, <1>9, <1>10, <1>11, <1>12,
     <1>13, <1>14, <1>15, <1>16, <1>17, <1>18, <1>19, <1>20
     DEF Next, WorkerStep, ClientStep, ScheduleStep, Throw

(* The push sets a flag found clear, the pop clears it.                     *)
LEMMA NextQueueFlagAgree ==
  ASSUME Throwers = {}, IInv, Next
  PROVE  QueueFlagAgree'
<1> USE SchedulerAssumption DEF SchedulerAssumption, IInv, LockDiscipline, TypeOK, QueueFlagAgree, ScheduleArgs, Pending,
        Goto, Acquire, Release, Return, Procs, Workers,
        queueVars, lockVars, bodyVars, stopVars, deleteVars, envVars
<1>1. ASSUME NEW p \in Procs, ScheduleAgain(p) PROVE QueueFlagAgree'
  BY <1>1 DEF ScheduleAgain
<1>2. ASSUME NEW p \in Procs, ScheduleLock(p) PROVE QueueFlagAgree'
  BY <1>2 DEF ScheduleLock
<1>3. ASSUME NEW p \in Procs, SchedulePush(p) PROVE QueueFlagAgree'
  BY <1>3 DEF SchedulePush
<1>4. ASSUME NEW t \in Workers, Enter(t) PROVE QueueFlagAgree'
  BY <1>4 DEF Enter
<1>5. ASSUME NEW t \in Workers, LoopAgain(t) PROVE QueueFlagAgree'
  BY <1>5 DEF LoopAgain
<1>6. ASSUME NEW t \in Workers, Leave(t) PROVE QueueFlagAgree'
  BY <1>6 DEF Leave
<1>7. ASSUME NEW t \in Workers, TakeNext(t) PROVE QueueFlagAgree'
  BY <1>7 DEF TakeNext
<1>8. ASSUME NEW t \in Workers, GoIdle(t) PROVE QueueFlagAgree'
  BY <1>8 DEF GoIdle, DeleteFirst
<1>9. ASSUME NEW t \in Workers, EndSelect(t) PROVE QueueFlagAgree'
  BY <1>9 DEF EndSelect
<1>10. ASSUME NEW t \in Workers, Emit(t) PROVE QueueFlagAgree'
  BY <1>10 DEF Emit
<1>11. ASSUME NEW t \in Workers, EndRun(t) PROVE QueueFlagAgree'
  BY <1>11 DEF EndRun
<1>12. ASSUME NEW t \in Workers, EndDispatch(t) PROVE QueueFlagAgree'
  BY <1>12 DEF EndDispatch
<1>13. ASSUME NEW t \in Workers, BeginRestart(t) PROVE QueueFlagAgree'
  BY <1>13 DEF BeginRestart
<1>14. ASSUME NEW t \in Workers, CancelOne(t) PROVE QueueFlagAgree'
  BY <1>14 DEF CancelOne
<1>15. ASSUME NEW t \in Workers, EndRestart(t) PROVE QueueFlagAgree'
  BY <1>15 DEF EndRestart
<1>16. ASSUME NEW t \in Workers, Die(t) PROVE QueueFlagAgree'
  BY <1>16 DEF Die, CancellationPoint
<1>17. ASSUME NEW t \in Workers, Abort(t) PROVE QueueFlagAgree'
  BY <1>17 DEF Abort, CancellationPoint
<1>18. ASSUME NEW c \in Clients, Request(c) PROVE QueueFlagAgree'
  BY <1>18 DEF Request
<1>19. ASSUME NEW p \in Procs, RequestDelete(p) PROVE QueueFlagAgree'
  BY <1>19 DEF RequestDelete
<1>20. CASE Quit
  BY <1>20 DEF Quit
<1> QED
  BY <1>1, <1>2, <1>3, <1>4, <1>5, <1>6, <1>7, <1>8, <1>9, <1>10, <1>11, <1>12,
     <1>13, <1>14, <1>15, <1>16, <1>17, <1>18, <1>19, <1>20
     DEF Next, WorkerStep, ClientStep, ScheduleStep, Throw

(* The queue and its count change together.                                *)
LEMMA NextCountAgrees ==
  ASSUME Throwers = {}, IInv, Next
  PROVE  CountAgrees'
<1> USE SchedulerAssumption DEF IInv
<1>1. ASSUME NEW p \in Procs, SchedulePush(p) PROVE CountAgrees'
  <2>1. target[p] \in Activations /\ queue[target[p]] = 0
    BY <1>1 DEF SchedulePush, ScheduleArgs, QueueFlagAgree
  <2> QED
    BY <1>1, <2>1, PushCounts DEF SchedulePush, TypeOK, CountAgrees
<1>2. ASSUME NEW t \in Workers, TakeNext(t) PROVE CountAgrees'
  <2>1. PICK a \in Activations : queue[a] > 0 /\ queue' = [queue EXCEPT ![a] = @ - 1]
    BY <1>2 DEF TakeNext, Pending
  <2>2. queue[a] = 1
    BY <2>1 DEF QueueFlagAgree
  <2> QED
    BY <1>2, <2>1, <2>2, PopCounts DEF TakeNext, TypeOK, CountAgrees
<1>3. CASE UNCHANGED <<queue, numEvents>>
  BY <1>3 DEF CountAgrees, Pending
<1>4. \/ UNCHANGED <<queue, numEvents>>
      \/ \E p \in Procs : SchedulePush(p)
      \/ \E t \in Workers : TakeNext(t)
  BY DEF Next, WorkerStep, ClientStep, ScheduleStep, ScheduleAgain, ScheduleLock,
         Enter, LoopAgain, Leave, GoIdle, EndSelect, Emit, EndRun, EndDispatch, Throw,
         BeginRestart, CancelOne, EndRestart, Die, Abort, Request, RequestDelete, Quit,
         queueVars, Procs, Workers
<1> QED
  BY <1>1, <1>2, <1>3, <1>4

(* A stuttering step changes none of it.                                   *)
LEMMA StutterIInv ==
  ASSUME IInv, UNCHANGED vars
  PROVE  IInv'
BY DEF IInv, vars, TypeOK, ScheduleArgs, BodyPlaces, StopAlone, LockDiscipline,
       InsideHolds, HolderInside, QueueFlagAgree, CountAgrees, Pending

-----------------------------------------------------------------------------
(* IInv is an invariant of every behaviour.                                *)
THEOREM SpecIInv ==
  ASSUME Throwers = {}
  PROVE  Spec => []IInv
<1>1. IInv /\ [Next]_vars => IInv'
  BY StutterIInv, NextTypeOK, NextScheduleArgs, NextBodyPlaces, NextStopAlone,
     NextInsideHolds, NextHolderInside, NextQueueFlagAgree, NextCountAgrees
     DEF IInv, LockDiscipline
<1> QED
  BY InitIInv, <1>1, PTL DEF Spec

(* Type correctness.                                                       *)
THEOREM TypeCorrect ==
  ASSUME Throwers = {}
  PROVE  Spec => []TypeOK
BY SpecIInv, PTL DEF IInv

(* The lock is held exactly by the process at a point it protects: mutual  *)
(* exclusion of the queue, and no lock forgotten on any path.              *)
THEOREM Locking ==
  ASSUME Throwers = {}
  PROVE  Spec => []LockDiscipline
BY SpecIInv, PTL DEF IInv

(* An activation is in the queue once if its flag is set and never else.   *)
THEOREM Coalescing ==
  ASSUME Throwers = {}
  PROVE  Spec => []QueueFlagAgree
BY SpecIInv, PTL DEF IInv

(* xnumEvents is the length of the queue.                                  *)
THEOREM Counting ==
  ASSUME Throwers = {}
  PROVE  Spec => []CountAgrees
BY SpecIInv, PTL DEF IInv

(* A task thread at the inner loop holds the lock.                         *)
THEOREM TakingUnderLock ==
  ASSUME Throwers = {}
  PROVE  Spec => []TakesUnderLock
<1>1. IInv => TakesUnderLock
  BY DEF IInv, LockDiscipline, InsideHolds, TakesUnderLock, Locked, Procs
<1> QED
  BY <1>1, SpecIInv, PTL

-----------------------------------------------------------------------------
(* Every step of the scheduler is a step of WorkSet or changes neither the *)
(* set of requests nor what runs.                                          *)
LEMMA NextImplements ==
  ASSUME Throwers = {}, IInv, Next
  PROVE  [Abstract!Next]_(Abstract!wsVars)
<1> USE SchedulerAssumption DEF SchedulerAssumption
<1>1. ASSUME NEW p \in Procs, SchedulePush(p) PROVE Abstract!Next
  <2>1. target[p] \in Activations
    BY <1>1 DEF SchedulePush, IInv, ScheduleArgs
  <2>2. Pending' = Pending \cup {target[p]}
    BY <1>1, <2>1 DEF SchedulePush, Pending, IInv, TypeOK
  <2>3. Abstract!Ask(target[p])
    BY <1>1, <2>2 DEF SchedulePush, Abstract!Ask
  <2> QED
    BY <2>1, <2>3 DEF Abstract!Next
<1>2. ASSUME NEW t \in Workers, TakeNext(t) PROVE Abstract!Next
  <2>1. PICK a \in Pending :
          /\ \A b \in Pending : Order[a] <= Order[b]
          /\ queue' = [queue EXCEPT ![a] = @ - 1]
          /\ current' = [current EXCEPT ![t] = a]
    BY <1>2 DEF TakeNext
  <2>2. a \in Activations /\ queue[a] = 1
    BY DEF Pending, IInv, QueueFlagAgree
  <2>3. Pending' = Pending \ {a}
    BY <2>1, <2>2 DEF Pending, IInv, TypeOK
  <2>4. current[t] = None
    BY <1>2 DEF TakeNext, IInv, BodyPlaces
  <2>5. Abstract!Begin(t, a)
    BY <2>1, <2>3, <2>4 DEF Abstract!Begin
  <2> QED
    BY <2>2, <2>5 DEF Abstract!Next
<1>3. ASSUME NEW t \in Workers, EndRun(t) \/ Die(t)
      PROVE  [Abstract!Next]_(Abstract!wsVars)
  <2>1. Pending' = Pending /\ current' = [current EXCEPT ![t] = None]
    BY <1>3 DEF EndRun, Die, Pending, queueVars
  <2>2. CASE current[t] = None
    <3>1. current' = current
      BY <2>1, <2>2 DEF IInv, TypeOK
    <3> QED
      BY <2>1, <3>1 DEF Abstract!wsVars
  <2>3. CASE current[t] # None
    BY <2>1, <2>3 DEF Abstract!Next, Abstract!End
  <2> QED
    BY <2>2, <2>3
<1>4. CASE UNCHANGED <<queue, current>>
  BY <1>4 DEF Abstract!wsVars, Pending
<1>5. \/ UNCHANGED <<queue, current>>
      \/ \E p \in Procs : SchedulePush(p)
      \/ \E t \in Workers : TakeNext(t) \/ EndRun(t) \/ Die(t)
  BY DEF Next, WorkerStep, ClientStep, ScheduleStep, ScheduleAgain, ScheduleLock,
         Enter, LoopAgain, Leave, GoIdle, EndSelect, Emit, EndDispatch, Throw,
         BeginRestart, CancelOne, EndRestart, Abort, Request, RequestDelete, Quit,
         Return, queueVars, bodyVars, Procs, Workers
<1> QED
  BY <1>1, <1>2, <1>3, <1>4, <1>5

(* The scheduler implements the set of requests: nothing asked for is      *)
(* lost, nothing runs unasked, and the least Order goes first.             *)
THEOREM Implementation ==
  ASSUME Throwers = {}
  PROVE  Spec => ImplementsWorkSet
<1>1. Init => Abstract!Init
  BY SchedulerAssumption DEF Init, Abstract!Init, Abstract!Idle, Pending
<1>2. IInv /\ [Next]_vars => [Abstract!Next]_(Abstract!wsVars)
  <2>1. UNCHANGED vars => UNCHANGED Abstract!wsVars
    BY DEF vars, Abstract!wsVars, Pending
  <2> QED
    BY <2>1, NextImplements
<1> QED
  BY <1>1, <1>2, SpecIInv, PTL DEF Spec, ImplementsWorkSet, Abstract!Spec

-----------------------------------------------------------------------------
(***************************************************************************)
(* Deletion, with exceptions that leave a body: for one task thread, where *)
(* no process deletes what another client may be scheduling.  Neither the  *)
(* lock nor the flags take part in this argument.                          *)
(***************************************************************************)
OneWorker == Spares = {} /\ \A t, u \in Threads : t = u
OwnDeletes == \A c \in Clients : \A p \in Procs \ {c} : Inputs[c] \cap Doomed[p] = {}

DeleteTypes ==
  /\ queue \in [Activations -> Int]
  /\ pc \in [Procs -> Labels]
  /\ current \in [Workers -> Activations \cup {None}]
  /\ target \in [Procs -> Activations \cup {None}]
  /\ deleteQueue \in Seq(Activations)
  /\ live \subseteq Activations

(* The thread that deletes holds nothing itself.                           *)
CallPlaces ==
  /\ \A t \in Workers :
       current[t] # None => pc[t] \in {"run", "want", "push", "stop", "dead"}
  /\ \A p \in Procs : target[p] # None => pc[p] \in {"want", "push", "dead"}

(* What a client schedules is its own, and not about to be deleted.        *)
ClientKeeps ==
  \A c \in Clients :
    target[c] # None => target[c] \in (Inputs[c] \cap live) \ AwaitingDelete

DeleteInv == DeleteTypes /\ CallPlaces /\ ClientKeeps /\ NoUseAfterDelete

LEMMA InitDeleteInv == Init => DeleteInv
<1> SUFFICES ASSUME Init PROVE DeleteInv
  OBVIOUS
<1>1. DeleteTypes
  BY InitIInv DEF IInv, TypeOK, DeleteTypes
<1>2. CallPlaces /\ ClientKeeps
  BY SchedulerAssumption DEF SchedulerAssumption, Init, CallPlaces, ClientKeeps,
                             Procs, Workers
<1>3. NoUseAfterDelete
  BY SchedulerAssumption DEF SchedulerAssumption, Init, NoUseAfterDelete, Pending
<1> QED
  BY <1>1, <1>2, <1>3 DEF DeleteInv

(* Taking the first object from the queue or adding one at its end.        *)
LEMMA DeleteQueueStep ==
  ASSUME deleteQueue \in Seq(Activations)
  PROVE  /\ deleteQueue # <<>> =>
              /\ Head(deleteQueue) \in AwaitingDelete
              /\ Tail(deleteQueue) \in Seq(Activations)
              /\ deleteQueue' = Tail(deleteQueue) => AwaitingDelete' \subseteq AwaitingDelete
         /\ \A a \in Activations : deleteQueue' = Append(deleteQueue, a) =>
              /\ deleteQueue' \in Seq(Activations)
              /\ AwaitingDelete' = AwaitingDelete \cup {a}
<1>1. ASSUME deleteQueue # <<>>
      PROVE  /\ Head(deleteQueue) \in AwaitingDelete
             /\ Tail(deleteQueue) \in Seq(Activations)
             /\ deleteQueue' = Tail(deleteQueue) => AwaitingDelete' \subseteq AwaitingDelete
  <2>1. Head(deleteQueue) = deleteQueue[1] /\ 1 \in DOMAIN deleteQueue
    BY <1>1
  <2>2. \A i \in DOMAIN Tail(deleteQueue) :
          i + 1 \in DOMAIN deleteQueue /\ Tail(deleteQueue)[i] = deleteQueue[i + 1]
    BY <1>1
  <2> QED
    BY <1>1, <2>1, <2>2 DEF AwaitingDelete
<1>2. ASSUME NEW a \in Activations, deleteQueue' = Append(deleteQueue, a)
      PROVE  deleteQueue' \in Seq(Activations) /\ AwaitingDelete' = AwaitingDelete \cup {a}
  <2>1. /\ DOMAIN deleteQueue' = DOMAIN deleteQueue \cup {Len(deleteQueue) + 1}
        /\ Len(deleteQueue) + 1 \notin DOMAIN deleteQueue
        /\ deleteQueue'[Len(deleteQueue) + 1] = a
        /\ \A i \in DOMAIN deleteQueue : deleteQueue'[i] = deleteQueue[i]
    BY <1>2
  <2> QED
    BY <1>2, <2>1 DEF AwaitingDelete
<1> QED
  BY <1>1, <1>2

(* The idle branch deletes where nothing is queued, unless the program     *)
(* quits, and the only task thread runs nothing.                           *)
LEMMA IdleDeletes ==
  ASSUME OneWorker, DeleteInv, NEW t \in Workers, GoIdle(t)
  PROVE  DeleteInv'
<1> USE SchedulerAssumption DEF SchedulerAssumption
<1>1. /\ pc[t] = "inner" /\ pc' = [pc EXCEPT ![t] = "select"]
      /\ quit \/ Pending = {}
      /\ UNCHANGED <<queue, current, target, quit>>
  BY DEF GoIdle, Goto, queueVars, bodyVars, envVars
<1>2. /\ live' \subseteq live /\ deleteQueue' \in Seq(Activations)
      /\ AwaitingDelete' \subseteq AwaitingDelete
      /\ live \ AwaitingDelete \subseteq live'
  <2>1. CASE deleteQueue = <<>>
    BY <2>1 DEF GoIdle, DeleteFirst, deleteVars, AwaitingDelete, DeleteInv, DeleteTypes
  <2>2. CASE deleteQueue # <<>>
    BY <2>2, DeleteQueueStep DEF GoIdle, DeleteFirst, DeleteInv, DeleteTypes
  <2> QED
    BY <2>1, <2>2
<1>3. \A u \in Workers : current[u] = None /\ target[u] = None
  BY <1>1 DEF OneWorker, DeleteInv, CallPlaces, Procs, Workers
<1>4. DeleteTypes'
  BY <1>1, <1>2 DEF DeleteInv, DeleteTypes, Labels, Locked
<1>5. CallPlaces'
  BY <1>1, <1>3 DEF DeleteInv, DeleteTypes, CallPlaces, Procs
<1>6. ClientKeeps'
  BY <1>1, <1>2 DEF DeleteInv, ClientKeeps
<1>7. NoUseAfterDelete'
  <2>1. \A p \in Procs : target'[p] \in live' \cup {None}
    BY <1>1, <1>3, <1>6 DEF ClientKeeps, Procs
  <2>2. Pending' = Pending
    BY <1>1 DEF Pending
  <2> QED
    BY <1>1, <1>3, <2>1, <2>2 DEF NoUseAfterDelete
<1> QED
  BY <1>4, <1>5, <1>6, <1>7 DEF DeleteInv

(* A request to delete is for nothing another client is scheduling.        *)
LEMMA RequestKeeps ==
  ASSUME OwnDeletes, DeleteInv, NEW p \in Procs, RequestDelete(p)
  PROVE  DeleteInv'
<1> USE SchedulerAssumption DEF SchedulerAssumption
<1>1. PICK a \in (Doomed[p] \cap live) \ AwaitingDelete :
        deleteQueue' = Append(deleteQueue, a)
  BY DEF RequestDelete
<1>2. /\ pc[p] \in {"out", "dispatch"}
      /\ UNCHANGED <<queue, pc, current, target, live, quit>>
  BY DEF RequestDelete, queueVars, bodyVars, envVars
<1>3. deleteQueue' \in Seq(Activations) /\ AwaitingDelete' = AwaitingDelete \cup {a}
  BY <1>1, DeleteQueueStep DEF DeleteInv, DeleteTypes
<1>4. ASSUME NEW c \in Clients, target[c] # None PROVE target[c] # a
  <2>1. target[c] \in Inputs[c]
    BY <1>4 DEF DeleteInv, ClientKeeps
  <2>2. CASE p # c
    BY <1>1, <2>1, <2>2 DEF OwnDeletes
  <2>3. CASE p = c
    BY <1>2, <1>4, <2>3 DEF DeleteInv, CallPlaces
  <2> QED
    BY <2>2, <2>3
<1>5. ClientKeeps'
  BY <1>2, <1>3, <1>4 DEF DeleteInv, ClientKeeps
<1>6. Pending' = Pending
  BY <1>2 DEF Pending
<1> QED
  BY <1>2, <1>3, <1>5, <1>6 DEF DeleteInv, DeleteTypes, CallPlaces, NoUseAfterDelete

(* A step that schedules and takes nothing.                                *)
LEMMA QuietStep ==
  ASSUME DeleteInv, UNCHANGED <<queue, target, deleteQueue, live>>, quit => quit',
         pc' \in [Procs -> Labels], CallPlaces',
         \/ UNCHANGED current
         \/ \E t \in Workers : current' = [current EXCEPT ![t] = None]
  PROVE  DeleteInv'
<1>1. Pending' = Pending /\ AwaitingDelete' = AwaitingDelete
  BY DEF Pending, AwaitingDelete
<1>2. /\ current' \in [Workers -> Activations \cup {None}]
      /\ \A t \in Workers : current'[t] \in {current[t], None}
  BY DEF DeleteInv, DeleteTypes
<1> QED
  BY <1>1, <1>2 DEF DeleteInv, DeleteTypes, ClientKeeps, NoUseAfterDelete

LEMMA WorkerQuiet ==
  ASSUME OneWorker, DeleteInv, NEW t \in Workers,
         \/ Enter(t) \/ LoopAgain(t) \/ Leave(t) \/ EndSelect(t) \/ EndRun(t)
         \/ EndDispatch(t) \/ Throw(t) \/ BeginRestart(t) \/ CancelOne(t)
         \/ EndRestart(t) \/ Die(t) \/ Abort(t)
  PROVE  DeleteInv'
<1> USE SchedulerAssumption DEF SchedulerAssumption, Labels, Locked, Unlocked, Goto, Procs
<1>1. /\ pc \in [Procs -> Labels] /\ current \in [Workers -> Activations \cup {None}]
      /\ CallPlaces /\ None \notin Activations
  BY DEF DeleteInv, DeleteTypes
<1>2. /\ UNCHANGED <<queue, target, deleteQueue, live, quit>>
      /\ UNCHANGED current \/ current' = [current EXCEPT ![t] = None]
  BY DEF Enter, LoopAgain, Leave, EndSelect, EndRun, EndDispatch, Throw, BeginRestart,
         CancelOne, EndRestart, Die, Abort, queueVars, bodyVars, deleteVars, envVars
<1>3. CASE Enter(t) \/ LoopAgain(t) \/ Leave(t)
  <2>1. \E l \in {"outer", "inner", "done"} : pc' = [pc EXCEPT ![t] = l]
    BY <1>3 DEF Enter, LoopAgain, Leave
  <2>2. pc[t] \in {"enter", "outer"} /\ UNCHANGED current
    BY <1>3 DEF Enter, LoopAgain, Leave, bodyVars
  <2>3. pc' \in [Procs -> Labels] /\ CallPlaces'
    BY <1>1, <1>2, <2>1, <2>2 DEF CallPlaces
  <2> QED
    BY <1>2, <2>3, QuietStep
<1>4. CASE EndSelect(t) \/ EndDispatch(t)
  <2>1. \E l \in {"outer", "dispatch"} : pc' = [pc EXCEPT ![t] = l]
    BY <1>4 DEF EndSelect, EndDispatch
  <2>2. pc[t] \in {"select", "dispatch"} /\ UNCHANGED current
    BY <1>4 DEF EndSelect, EndDispatch, bodyVars
  <2>3. pc' \in [Procs -> Labels] /\ CallPlaces'
    BY <1>1, <1>2, <2>1, <2>2 DEF CallPlaces
  <2> QED
    BY <1>2, <2>3, QuietStep
<1>5. CASE EndRun(t) \/ Throw(t) \/ Die(t)
  <2>1. \E l \in {"inner", "outer", "dead"} : pc' = [pc EXCEPT ![t] = l]
    BY <1>5 DEF EndRun, Throw, Die
  <2>2. /\ pc[t] \in {"run", "select", "dispatch"}
        /\ current' = [current EXCEPT ![t] = None]
    BY <1>5 DEF EndRun, Throw, Die, CancellationPoint
  <2>3. pc' \in [Procs -> Labels] /\ CallPlaces'
    BY <1>1, <1>2, <2>1, <2>2 DEF CallPlaces
  <2> QED
    BY <1>2, <2>3, QuietStep
<1>6. CASE BeginRestart(t) \/ CancelOne(t)
  <2>1. \/ pc[t] = "run" /\ pc' = [pc EXCEPT ![t] = "stop"]
        \/ pc' = pc
    BY <1>6 DEF BeginRestart, CancelOne
  <2>2. UNCHANGED current
    BY <1>6 DEF BeginRestart, CancelOne, bodyVars
  <2>3. pc' \in [Procs -> Labels] /\ CallPlaces'
    BY <1>1, <1>2, <2>1, <2>2 DEF CallPlaces
  <2> QED
    BY <1>2, <2>3, QuietStep
<1>7. CASE EndRestart(t)
  <2>1. /\ pc[t] = "stop" /\ UNCHANGED current
        /\ pc' = [p \in Procs |-> IF p \in Spares THEN "enter"
                                  ELSE IF p = t THEN "run" ELSE pc[p]]
    BY <1>7 DEF EndRestart, bodyVars
  <2>2. pc' = [pc EXCEPT ![t] = "run"]
    BY <1>1, <2>1 DEF OneWorker
  <2>3. pc' \in [Procs -> Labels] /\ CallPlaces'
    BY <1>1, <1>2, <2>1, <2>2 DEF CallPlaces
  <2> QED
    BY <1>2, <2>3, QuietStep
<1>8. CASE Abort(t)
  <2>1. pc' = [p \in Procs |-> "dead"] /\ UNCHANGED current
    BY <1>8 DEF Abort, bodyVars
  <2>2. pc' \in [Procs -> Labels] /\ CallPlaces'
    BY <1>2, <2>1 DEF CallPlaces
  <2> QED
    BY <1>2, <2>2, QuietStep
<1> QED
  BY <1>3, <1>4, <1>5, <1>6, <1>7, <1>8

(* A call of Schedule returns, waits for the lock no longer, or pushes its *)
(* argument, which is live.                                                *)
LEMMA ScheduleKeeps ==
  ASSUME DeleteInv, NEW p \in Procs, ScheduleStep(p)
  PROVE  DeleteInv'
<1> USE SchedulerAssumption DEF SchedulerAssumption, Labels, Locked, Unlocked, Goto, Procs
<1>1. /\ pc \in [Procs -> Labels] /\ target \in [Procs -> Activations \cup {None}]
      /\ queue \in [Activations -> Int] /\ CallPlaces
  BY DEF DeleteInv, DeleteTypes
<1>2. UNCHANGED <<current, deleteQueue, live, quit>>
  BY DEF ScheduleStep, ScheduleAgain, ScheduleLock, SchedulePush, bodyVars,
         deleteVars, envVars
<1>3. CASE ScheduleLock(p)
  <2>1. /\ pc[p] = "want" /\ pc' = [pc EXCEPT ![p] = "push"]
        /\ UNCHANGED <<queue, target>>
    BY <1>3 DEF ScheduleLock, queueVars, bodyVars
  <2>2. pc' \in [Procs -> Labels] /\ CallPlaces'
    BY <1>1, <1>2, <2>1 DEF CallPlaces
  <2> QED
    BY <1>2, <2>1, <2>2, QuietStep
<1>4. CASE ScheduleAgain(p) \/ SchedulePush(p)
  <2>1. /\ pc[p] \in {"want", "push"} /\ target' = [target EXCEPT ![p] = None]
        /\ pc' = [pc EXCEPT ![p] = IF p \in Clients THEN "out"
                                   ELSE IF current[p] = None THEN "dispatch" ELSE "run"]
    BY <1>4 DEF ScheduleAgain, SchedulePush, Return
  <2>2. UNCHANGED queue \/ queue' = [queue EXCEPT ![target[p]] = @ + 1]
    BY <1>4 DEF ScheduleAgain, SchedulePush, queueVars
  <2>3. CallPlaces'
    BY <1>1, <1>2, <2>1 DEF CallPlaces
  <2>4. queue' \in [Activations -> Int] /\ Pending' \subseteq Pending \cup {target[p]}
    BY <1>1, <2>2 DEF Pending
  <2>5. DeleteTypes'
    BY <1>2, <2>1, <2>4 DEF DeleteInv, DeleteTypes
  <2>6. ClientKeeps'
    BY <1>2, <2>1 DEF DeleteInv, DeleteTypes, ClientKeeps, AwaitingDelete
  <2>7. NoUseAfterDelete'
    <3>1. Pending' \subseteq Activations
      BY DEF Pending
    <3>2. target[p] \in live \cup {None}
      BY DEF DeleteInv, NoUseAfterDelete
    <3>3. ~quit' => Pending' \subseteq live'
      BY <1>2, <2>4, <3>1, <3>2 DEF DeleteInv, NoUseAfterDelete
    <3> QED
      BY <1>2, <2>1, <3>3 DEF DeleteInv, DeleteTypes, NoUseAfterDelete
  <2> QED
    BY <2>3, <2>5, <2>6, <2>7 DEF DeleteInv
<1> QED
  BY <1>3, <1>4 DEF ScheduleStep

(* A body or a client sets a state: what it schedules is live.             *)
LEMMA CallKeeps ==
  ASSUME DeleteInv, NEW p \in Procs,
         (p \in Workers /\ Emit(p)) \/ (p \in Clients /\ Request(p))
  PROVE  DeleteInv'
<1> USE SchedulerAssumption DEF SchedulerAssumption, Labels, Locked, Unlocked, Goto, Procs
<1>1. /\ pc \in [Procs -> Labels] /\ target \in [Procs -> Activations \cup {None}]
      /\ CallPlaces /\ live \subseteq Activations
  BY DEF DeleteInv, DeleteTypes
<1>2. UNCHANGED <<queue, current, deleteQueue, live, quit>>
  BY DEF Emit, Request, queueVars, deleteVars, envVars
<1>3. CASE UNCHANGED <<target, pc>>
  <2>1. CallPlaces'
    BY <1>1, <1>2, <1>3 DEF CallPlaces
  <2> QED
    BY <1>1, <1>2, <1>3, <2>1, QuietStep
<1>4. CASE ~UNCHANGED <<target, pc>>
  <2>1. PICK a \in live :
          /\ target' = [target EXCEPT ![p] = a] /\ pc' = [pc EXCEPT ![p] = "want"]
          /\ pc[p] \in {"run", "dispatch", "out"}
          /\ p \in Clients => a \in Inputs[p] \ AwaitingDelete
    BY <1>4 DEF Emit, Request
  <2>2. CallPlaces'
    BY <1>1, <1>2, <2>1 DEF CallPlaces
  <2>3. DeleteTypes'
    BY <1>1, <1>2, <2>1 DEF DeleteInv, DeleteTypes
  <2>4. ClientKeeps'
    BY <1>2, <2>1 DEF DeleteInv, DeleteTypes, ClientKeeps, AwaitingDelete
  <2>5. NoUseAfterDelete'
    BY <1>2, <2>1 DEF DeleteInv, DeleteTypes, NoUseAfterDelete, Pending
  <2> QED
    BY <2>2, <2>3, <2>4, <2>5 DEF DeleteInv
<1> QED
  BY <1>3, <1>4

(* What is taken from the queue is live as long as the program goes on.    *)
LEMMA TakeKeeps ==
  ASSUME DeleteInv, NEW t \in Workers, TakeNext(t)
  PROVE  DeleteInv'
<1> USE SchedulerAssumption DEF SchedulerAssumption, Labels, Locked, Unlocked, Goto, Procs
<1>1. PICK a \in Pending : /\ queue' = [queue EXCEPT ![a] = @ - 1]
                           /\ current' = [current EXCEPT ![t] = a]
  BY DEF TakeNext
<1>2. /\ pc[t] = "inner" /\ ~quit /\ pc' = [pc EXCEPT ![t] = "run"]
      /\ UNCHANGED <<target, deleteQueue, live, quit>>
  BY DEF TakeNext, deleteVars, envVars
<1>3. a \in live /\ Pending' \subseteq Pending
  BY <1>1, <1>2 DEF DeleteInv, DeleteTypes, NoUseAfterDelete, Pending
<1>4. DeleteTypes'
  BY <1>1, <1>2, <1>3 DEF DeleteInv, DeleteTypes
<1>5. CallPlaces'
  BY <1>1, <1>2 DEF DeleteInv, DeleteTypes, CallPlaces
<1>6. ClientKeeps'
  BY <1>2 DEF DeleteInv, ClientKeeps, AwaitingDelete
<1>7. NoUseAfterDelete'
  BY <1>1, <1>2, <1>3 DEF DeleteInv, DeleteTypes, NoUseAfterDelete
<1> QED
  BY <1>4, <1>5, <1>6, <1>7 DEF DeleteInv

LEMMA StepDeleteInv ==
  ASSUME OneWorker, OwnDeletes, DeleteInv, [Next]_vars
  PROVE  DeleteInv'
<1>1. ASSUME NEW p \in Procs, ScheduleStep(p) PROVE DeleteInv'
  BY <1>1, ScheduleKeeps
<1>2. ASSUME NEW p \in Procs, RequestDelete(p) PROVE DeleteInv'
  BY <1>2, RequestKeeps
<1>3. ASSUME NEW t \in Workers, WorkerStep(t) PROVE DeleteInv'
  <2>1. t \in Procs
    BY DEF Procs
  <2> QED
    BY <1>1, <1>3, <2>1, IdleDeletes, TakeKeeps, CallKeeps, WorkerQuiet DEF WorkerStep
<1>4. ASSUME NEW c \in Clients, Request(c) PROVE DeleteInv'
  <2>1. c \in Procs
    BY DEF Procs
  <2> QED
    BY <1>4, <2>1, CallKeeps
<1>5. CASE Quit \/ UNCHANGED vars
  <2>1. /\ UNCHANGED <<queue, target, deleteQueue, live, pc, current>>
        /\ quit => quit'
    BY <1>5 DEF Quit, vars, queueVars, bodyVars, deleteVars
  <2>2. pc' \in [Procs -> Labels] /\ CallPlaces'
    BY <2>1 DEF DeleteInv, DeleteTypes, CallPlaces
  <2> QED
    BY <2>1, <2>2, QuietStep
<1> QED
  BY <1>1, <1>2, <1>3, <1>4, <1>5 DEF Next, ClientStep, Procs

(* With one task thread, nothing that was deleted is run, scheduled or     *)
(* queued, whatever exceptions leave the bodies: a second task thread, or  *)
(* a client whose transform another process deletes, takes that away.      *)
THEOREM DeletedUnused ==
  ASSUME OneWorker, OwnDeletes
  PROVE  Spec => []NoUseAfterDelete
<1>1. DeleteInv /\ [Next]_vars => DeleteInv'
  BY StepDeleteInv
<1>2. DeleteInv => NoUseAfterDelete
  BY DEF DeleteInv
<1> QED
  BY <1>1, <1>2, InitDeleteInv, PTL DEF Spec
=============================================================================
