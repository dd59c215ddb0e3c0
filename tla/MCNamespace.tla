---------------------------- MODULE MCNamespace ----------------------------
(***************************************************************************)
(* Two containers and two other objects.  Names are interchangeable, and *)
(* so are the containers and the others.                                   *)
(***************************************************************************)
EXTENDS Namespace, TLC

CONSTANTS c1, c2, s1, s2, a, b

Symmetry == Permutations(Names) \cup Permutations({c1, c2})
              \cup Permutations({s1, s2})
=============================================================================
