----------------------------- MODULE Rendezvous ----------------------------
(***************************************************************************)
(* What activations promise: each is a reusable barrier over its slots.  A *)
(* slot arrives once per round; when all have arrived, and only then, the  *)
(* activation fires and its next round begins.  Changing the number of     *)
(* slots never makes it fire.                                              *)
(***************************************************************************)
EXTENDS Naturals

CONSTANT Activations

VARIABLES size,      \* number of slots
          arrived,   \* slots that have arrived in this round
          round      \* flips when the activation fires

rvVars == <<size, arrived, round>>

Init ==
  /\ size = [a \in Activations |-> 0]
  /\ arrived = [a \in Activations |-> {}]
  /\ round = [a \in Activations |-> TRUE]

Arrive(a, i) ==
  /\ i \in (1 .. size[a]) \ arrived[a]
  /\ arrived' = [arrived EXCEPT ![a] = @ \cup {i}]
  /\ UNCHANGED <<size, round>>

Fire(a) ==
  /\ size[a] > 0
  /\ arrived[a] = 1 .. size[a]
  /\ arrived' = [arrived EXCEPT ![a] = {}]
  /\ round' = [round EXCEPT ![a] = ~@]
  /\ UNCHANGED size

(* One slot more; those that have arrived stay arrived.                    *)
Grow(a) ==
  /\ size' = [size EXCEPT ![a] = @ + 1]
  /\ UNCHANGED <<arrived, round>>

(* One slot less, and the round starts over.                               *)
Shrink(a) ==
  /\ size[a] > 0
  /\ size' = [size EXCEPT ![a] = @ - 1]
  /\ arrived' = [arrived EXCEPT ![a] = {}]
  /\ UNCHANGED round

(* The activation is deleted and another one constructed.                  *)
Renew(a) ==
  /\ size' = [size EXCEPT ![a] = 0]
  /\ arrived' = [arrived EXCEPT ![a] = {}]
  /\ round' = [round EXCEPT ![a] = TRUE]

Next ==
  \E a \in Activations :
    \/ \E i \in 1 .. size[a] : Arrive(a, i)
    \/ Fire(a) \/ Grow(a) \/ Shrink(a) \/ Renew(a)

Spec == Init /\ [][Next]_rvVars
=============================================================================
