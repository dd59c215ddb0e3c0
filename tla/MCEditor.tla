------------------------------ MODULE MCEditor ------------------------------
(***************************************************************************)
(* Two generators, a transform with both kinds of terminal and a sink.     *)
(***************************************************************************)
EXTENDS Editor

CONSTANTS g, h, mid, snk, oG, oH, oMid, iMid, iSnk, int, list

MCOwner == [t \in Terminals |->
  IF t = oG THEN g ELSE IF t = oH THEN h ELSE IF t = iSnk THEN snk ELSE mid]
MCNoPatch == [p \in Patches |-> {}]
MCOutletType == [o \in Outlets |-> int]
MCSameType == [i \in Inlets |-> int]
MCTwoTypes == [i \in Inlets |-> IF i = iSnk THEN list ELSE int]
=============================================================================
