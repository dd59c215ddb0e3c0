---------------------------- MODULE MCActivation ---------------------------
(***************************************************************************)
(* Two activations of different order over three states.                   *)
(***************************************************************************)
EXTENDS Activation

CONSTANTS first, second, x, y, z, t1, t2

MCOrder == [a \in Activations |-> IF a = first THEN 0 ELSE 1]
=============================================================================
