----------------------------- MODULE LoopStack -----------------------------
(***************************************************************************)
(* The calls a recursive walk has still to make: a stack of the loops in   *)
(* progress, innermost first, each the set of the calls that are left to   *)
(* it.  A loop with no calls left is over and not on the stack.            *)
(***************************************************************************)
EXTENDS Naturals, Sequences

Push(loop, s) == IF loop = {} THEN s ELSE <<loop>> \o s

(* The stack after call c of the innermost loop is taken.                  *)
Pop(c, s) == Push(Head(s) \ {c}, Tail(s))

(* The stack holds call c.                                                 *)
InStack(c, s) == \E k \in 1 .. Len(s) : c \in s[k]
=============================================================================
