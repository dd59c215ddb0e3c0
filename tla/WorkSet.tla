------------------------------ MODULE WorkSet ------------------------------
(***************************************************************************)
(* What ParallelScheduler and the task threads promise their clients, with *)
(* no queue, flag, lock or loop in sight.  Activations that have been      *)
(* asked for and not yet begun form a set; a worker begins an activation   *)
(* of least Order; a worker runs one activation at a time.  Only a worker  *)
(* that begins an activation takes it out of the set, so no request is     *)
(* dropped, and asking twice before the start is asking once.              *)
(***************************************************************************)
EXTENDS Integers

CONSTANTS Activations, Threads, Order, None

VARIABLES pending,   \* activations requested and not yet begun
          running    \* the activation each thread is running, or None

wsVars == <<pending, running>>

Idle == [t \in Threads |-> None]

Init ==
  /\ pending = {}
  /\ running = Idle

Ask(a) ==
  /\ pending' = pending \cup {a}
  /\ UNCHANGED running

Begin(t, a) ==
  /\ running[t] = None
  /\ a \in pending
  /\ \A b \in pending : Order[a] <= Order[b]
  /\ pending' = pending \ {a}
  /\ running' = [running EXCEPT ![t] = a]

End(t) ==
  /\ running[t] # None
  /\ running' = [running EXCEPT ![t] = None]
  /\ UNCHANGED pending

Next ==
  \/ \E a \in Activations : Ask(a)
  \/ \E t \in Threads, a \in Activations : Begin(t, a)
  \/ \E t \in Threads : End(t)

Spec == Init /\ [][Next]_wsVars
=============================================================================
