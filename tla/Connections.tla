---------------------------- MODULE Connections ----------------------------
(***************************************************************************)
(* Connections between outlets and inlets (generic/oswTransform.cpp,       *)
(* include/oswInletOutlet.h, InletOutlet commands of oswInterface.cpp and  *)
(* oswTcl.cpp).  A connection is recorded three times: the sink's          *)
(* transform maps the inlet to its source, the source's transform maps the *)
(* outlet to its sink, and the outlet keeps a pointer it sends values      *)
(* through, directly or by way of an implicit cast.  Connect and Disconnect *)
(* write the three; the destructors of terminals repair them, except those *)
(* of the terminals of a patch that is destroyed.                          *)
(*                                                                         *)
(* A pointer to the memory of a terminal that was destroyed is Freed.      *)
(* Following it is undefined: the operations that would are not enabled.   *)
(***************************************************************************)
EXTENDS FiniteSets

CONSTANTS
  Inlets, Outlets,
  Types,
  OutletType,    \* type of each outlet
  InletType,     \* type an inlet is constructed with
  Changeable,    \* inlets that take the type of what is connected to them
  Casts,         \* pairs of types with an implicit cast
  AnyOutlets,    \* outlets of class Outlet<Any>, which take every inlet
  FreeEndsOnly,  \* whether clients connect only ends without a record
  Patches,
  Own,           \* terminals of each patch
  Inside,        \* terminals of the transforms in each patch, no patches
  Freed, None

ASSUME ConnectionsAssumption ==
  /\ OutletType \in [Outlets -> Types]
  /\ InletType \in [Inlets -> Types]
  /\ Changeable \subseteq Inlets
  /\ Casts \subseteq Types \X Types
  /\ AnyOutlets \subseteq Outlets
  /\ FreeEndsOnly \in BOOLEAN
  /\ Own \in [Patches -> SUBSET (Inlets \cup Outlets)]
  /\ Inside \in [Patches -> SUBSET (Inlets \cup Outlets)]
  /\ Inlets \cap Outlets = {}
  /\ None \notin Inlets \cup Outlets
  /\ Freed \notin Inlets \cup Outlets \cup {None}

VARIABLES
  liveInlets, liveOutlets,
  type,      \* current type of each inlet, at first the one it is made with
  source,    \* xinlets: the outlet recorded for each inlet
  sink,      \* xoutlets: the inlet recorded for each outlet
  wire       \* xconnect: the inlet an outlet sends to

vars == <<liveInlets, liveOutlets, type, source, sink, wire>>

Init ==
  /\ liveInlets = Inlets
  /\ liveOutlets = Outlets
  /\ type = InletType
  /\ source = [i \in Inlets |-> None]
  /\ sink = [o \in Outlets |-> None]
  /\ wire = [o \in Outlets |-> None]

(* Outlet<T>::Connect: an inlet of the type, or one with an implicit cast; *)
(* otherwise the outlet is left unconnected.                               *)
Accepts(o, t) ==
  o \in AnyOutlets \/ OutletType[o] = t \/ <<OutletType[o], t>> \in Casts

(* Pointers f when the terminals in D are destroyed and the entries of     *)
(* those in R are reset: the others that lead to D are left as they are.   *)
Freeing(f, D, R) ==
  [x \in DOMAIN f |-> IF x \in R THEN None ELSE IF f[x] \in D THEN Freed ELSE f[x]]

(* The inlets in D will be made anew. *)
Remade(D) == [i \in Inlets |-> IF i \in D THEN InletType[i] ELSE type[i]]

(* Outlet<T>::Connect and Disconnect call the inlet the outlet sends to,   *)
(* Outlet<Any>'s do not.                                                   *)
MayReset(o) == o # Freed /\ (o \in Outlets \ AnyOutlets => wire[o] # Freed)

-----------------------------------------------------------------------------
(* Mutant: a changeable inlet keeps its type.                              *)
ConnectSameType(o, i) ==
  /\ o \in liveOutlets
  /\ i \in liveInlets
  /\ FreeEndsOnly => sink[o] = None /\ source[i] = None
  /\ source' = [source EXCEPT ![i] = o]
  /\ sink' = [sink EXCEPT ![o] = i]
  /\ wire' = [wire EXCEPT ![o] = i]
  /\ UNCHANGED <<liveInlets, liveOutlets, type>>

(* Mutant: any inlet is replaced.                                          *)
ChangesAny(o, i) == type[i] # OutletType[o]

(* A changeable inlet of another type than the outlet's is to be replaced. *)
Changes(o, i) == i \in Changeable /\ type[i] # OutletType[o]

(* Transform::Connect.  A changeable inlet of another type is first        *)
(* replaced by one of the outlet's type, and deleting the old one breaks   *)
(* the connection recorded for it and no other.  The records are written   *)
(* before the outlet is asked, and stay when it refuses.                   *)
Connect(o, i) ==
  /\ o \in liveOutlets
  /\ i \in liveInlets
  /\ FreeEndsOnly => sink[o] = None /\ source[i] = None
  /\ type' = IF Changes(o, i) THEN [type EXCEPT ![i] = OutletType[o]] ELSE type
  /\ LET gone == IF Changes(o, i) THEN {i} ELSE {}
         told == {source[j] : j \in gone}
         wires == Freeing(wire, gone, told)
     IN  /\ \A p \in told : MayReset(p)
         /\ o \in AnyOutlets \/ wires[o] # Freed
         /\ source' = [source EXCEPT ![i] = o]
         /\ sink' = [Freeing(sink, gone, told) EXCEPT ![o] = i]
         /\ wire' = [wires EXCEPT ![o] = IF Accepts(o, type'[i]) THEN i ELSE None]
  /\ UNCHANGED <<liveInlets, liveOutlets>>

(* Mutant: BackDisconnect is not called.                                   *)
DisconnectOneSided(o) ==
  /\ o \in liveOutlets
  /\ sink[o] \in Inlets
  /\ sink' = [sink EXCEPT ![o] = None]
  /\ wire' = [wire EXCEPT ![o] = None]
  /\ UNCHANGED <<liveInlets, liveOutlets, type, source>>

(* Mutant: the outlet is not told.                                         *)
DisconnectRecords(o) ==
  /\ o \in liveOutlets
  /\ sink[o] \in Inlets
  /\ source' = [source EXCEPT ![sink[o]] = None]
  /\ sink' = [sink EXCEPT ![o] = None]
  /\ UNCHANGED <<liveInlets, liveOutlets, type, wire>>

(* Transform::Disconnect: clears whatever is recorded for the outlet's     *)
(* sink, without asking whether that is this outlet.                       *)
Disconnect(o) ==
  /\ o \in liveOutlets
  /\ sink[o] \in Inlets
  /\ source' = [source EXCEPT ![sink[o]] = None]
  /\ sink' = [sink EXCEPT ![o] = None]
  /\ wire' = [wire EXCEPT ![o] = None]
  /\ UNCHANGED <<liveInlets, liveOutlets, type>>

(* Inlet::~Inlet of a transform that is not a patch being destroyed:       *)
(* Transform::RemoveInlet disconnects the outlet recorded for the inlet.   *)
RemoveInlet(i) ==
  /\ i \in liveInlets
  /\ MayReset(source[i])
  /\ liveInlets' = liveInlets \ {i}
  /\ wire' = Freeing(wire, {i}, {source[i]})
  /\ sink' = Freeing(sink, {i}, {source[i]})
  /\ source' = [source EXCEPT ![i] = None]
  /\ type' = Remade({i})
  /\ UNCHANGED liveOutlets

(* Outlet::~Outlet, likewise: Transform::RemoveOutlet clears the record of *)
(* the sink.                                                               *)
RemoveOutlet(o) ==
  /\ o \in liveOutlets
  /\ sink[o] # Freed
  /\ liveOutlets' = liveOutlets \ {o}
  /\ source' = Freeing(source, {o}, {sink[o]})
  /\ sink' = [sink EXCEPT ![o] = None]
  /\ wire' = [wire EXCEPT ![o] = None]
  /\ UNCHANGED <<liveInlets, type>>

(* Transform::AddInlet and AddOutlet, for new terminals.                   *)
AddInlet(i) ==
  /\ i \in Inlets \ liveInlets
  /\ liveInlets' = liveInlets \cup {i}
  /\ source' = [source EXCEPT ![i] = None]
  /\ UNCHANGED <<liveOutlets, type, sink, wire>>

AddOutlet(o) ==
  /\ o \in Outlets \ liveOutlets
  /\ liveOutlets' = liveOutlets \cup {o}
  /\ sink' = [sink EXCEPT ![o] = None]
  /\ wire' = [wire EXCEPT ![o] = None]
  /\ UNCHANGED <<liveInlets, type, source>>

(* Mutant: nothing is repaired inside the patch either.                    *)
DestroyPatchUnrepaired(p) ==
  LET D == Own[p] \cup Inside[p]
  IN  /\ D \cap (liveInlets \cup liveOutlets) # {}
      /\ liveInlets' = liveInlets \ D
      /\ liveOutlets' = liveOutlets \ D
      /\ sink' = Freeing(sink, D, D)
      /\ wire' = Freeing(wire, D, D)
      /\ source' = Freeing(source, D, D)
      /\ type' = Remade(D)

(* Own and Inside are connected: the destructor of one end follows the     *)
(* pointer to the other, in an order of the members that is not modelled.  *)
Entangled(p) ==
  \E o \in Outlets, i \in Inlets :
    /\ sink[o] = i \/ source[i] = o
    /\ <<o, i>> \in (Own[p] \X Inside[p]) \cup (Inside[p] \X Own[p])

(* Container::~Container of a patch.  The terminals of the transforms in   *)
(* it are removed as above.  Those of the patch go when it is no longer a  *)
(* Transform: ~Inlet and ~Outlet skip RemoveInlet and RemoveOutlet, and    *)
(* what is recorded at the other end leads to freed memory.                *)
DestroyPatch(p) ==
  LET D == Own[p] \cup Inside[p]
      sources == {source[i] : i \in liveInlets \cap Inside[p]}
      sinks == {sink[o] : o \in liveOutlets \cap Inside[p]}
  IN  /\ D \cap (liveInlets \cup liveOutlets) # {}
      /\ ~Entangled(p)
      /\ \A o \in sources : MayReset(o)
      /\ Freed \notin sinks
      /\ liveInlets' = liveInlets \ D
      /\ liveOutlets' = liveOutlets \ D
      /\ sink' = Freeing(sink, D, D \cup sources)
      /\ wire' = Freeing(wire, D, D \cup sources)
      /\ source' = Freeing(source, D, D \cup sinks)
      /\ type' = Remade(D)

Next ==
  \/ \E o \in Outlets, i \in Inlets : Connect(o, i)
  \/ \E o \in Outlets : Disconnect(o) \/ RemoveOutlet(o) \/ AddOutlet(o)
  \/ \E i \in Inlets : RemoveInlet(i) \/ AddInlet(i)
  \/ \E p \in Patches : DestroyPatch(p)

Spec == Init /\ [][Next]_vars

-----------------------------------------------------------------------------
TypeOK ==
  /\ liveInlets \subseteq Inlets
  /\ liveOutlets \subseteq Outlets
  /\ type \in [Inlets -> Types]
  /\ \A i \in Inlets \ (Changeable \cap liveInlets) : type[i] = InletType[i]
  /\ source \in [Inlets -> Outlets \cup {Freed, None}]
  /\ sink \in [Outlets -> Inlets \cup {Freed, None}]
  /\ wire \in [Outlets -> Inlets \cup {Freed, None}]

(* The two maps are inverse to each other, whatever was refused, retyped   *)
(* or destroyed since, and where a patch left nothing but a freed pointer. *)
RecordsAgree == \A o \in Outlets, i \in Inlets : sink[o] = i <=> source[i] = o

(* What an outlet sends through is what is recorded for it.                *)
WireRecorded == \A o \in Outlets : wire[o] # None => sink[o] = wire[o]

(* No outlet sends to, and no map names, a terminal that has been deleted: *)
(* the next value, query or destructor would follow the pointer.  This     *)
(* holds where no connected patch is destroyed.                            *)
NoDangling ==
  /\ \A o \in Outlets : /\ sink[o] \in liveInlets \cup {None}
                        /\ wire[o] \in liveInlets \cup {None}
                        /\ wire[o] # None => o \in liveOutlets
  /\ \A i \in Inlets : source[i] \in liveOutlets \cup {None}

(* The live terminals whose records or wires lead to deleted ones.         *)
Dangling ==
  {o \in liveOutlets : ~({sink[o], wire[o]} \subseteq liveInlets \cup {None})}
    \cup {i \in liveInlets : source[i] \notin liveOutlets \cup {None}}

Partner(t) == IF t \in Outlets THEN sink[t] ELSE source[t]

(* A pointer is only left dangling by the destruction of a patch, at what  *)
(* was connected to the patch's own terminals: not at what was connected   *)
(* to the transforms in it, and by no other operation, so that a client    *)
(* that disconnects patches before it destroys them is safe.               *)
LeftByPatches ==
  [][\A t \in Dangling' \ Dangling :
       \E p \in Patches : DestroyPatch(p) /\ Partner(t) \in Own[p]]_vars

(* A value is only sent to an inlet that takes its type, although inlets   *)
(* change type while connections come and go.                              *)
WellTyped ==
  \A o \in Outlets, i \in Inlets : wire[o] = i => Accepts(o, type[i])

(* "There can be at most one connection leaving any outlet or entering any *)
(* inlet": no two outlets send to the same inlet.                          *)
AtMostOneEntering ==
  \A o, p \in Outlets : wire[o] = wire[p] /\ wire[o] \in Inlets => o = p

(* A connection is broken only by its own disconnection or the deletion of *)
(* one of its ends, never by an operation on other terminals.              *)
OthersUntouched ==
  [][\A o \in Outlets : wire[o] \in Inlets /\ wire'[o] # wire[o] =>
       Disconnect(o) \/ o \notin liveOutlets' \/ wire[o] \notin liveInlets']_vars
=============================================================================
