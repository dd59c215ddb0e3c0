--------------------------- MODULE MCPropagation ---------------------------
(***************************************************************************)
(* A patch p with one inlet and one outlet, the inlet and outlet           *)
(* transforms inside it, and a transform gen whose inlet is changeable and *)
(* whose outlet is an Outlet<Any>.  Every outlet may meet every inlet, so  *)
(* the graphs have cycles through the patch; time casts to double, nothing *)
(* else to anything.                                                       *)
(***************************************************************************)
EXTENDS Propagation

CONSTANTS gen, p, inT, outT, oAny, oTime, oSamples, iSamples, iTime, iVar,
  iDouble, samples, time, double, any, changeable

MCOutletType == [o \in Outlets |->
  IF o = oSamples THEN samples ELSE IF o = oTime THEN time ELSE any]
MCInletType == [i \in Inlets |->
  CASE i = iSamples -> samples [] i = iTime -> time [] i = iDouble -> double
    [] OTHER -> changeable]
MCCasts == {<<time, double>>}
MCHome == [x \in Inlets \cup Outlets |->
  CASE x \in {iVar, iDouble, oAny} -> gen [] x \in {iSamples, oTime} -> p
    [] x = iTime -> outT [] x = oSamples -> inT]
MCOwn == [q \in {p} |-> {iSamples, oTime}]
MCInside == [q \in {p} |-> {oSamples, iTime}]
MCEntry == [i \in {iSamples} |-> inT]
MCExit == [o \in {oTime} |-> outT]
=============================================================================
