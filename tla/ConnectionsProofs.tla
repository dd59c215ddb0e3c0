------------------------- MODULE ConnectionsProofs -------------------------
(***************************************************************************)
(* Proofs about connections, for any terminals, types, casts and           *)
(* changeable inlets, when clients connect only ends without a connection  *)
(* (FreeEndsOnly): without that two outlets may send to one inlet, as the  *)
(* counterexample of EditGesture shows.                                    *)
(***************************************************************************)
EXTENDS Connections, TLAPS

(* Only live terminals have records, which lead to live ones if they do    *)
(* not lead to freed memory.                                               *)
Alive ==
  /\ \A o \in Outlets : /\ sink[o] \in liveInlets \cup {Freed, None}
                        /\ sink[o] # None => o \in liveOutlets
  /\ \A i \in Inlets : /\ source[i] \in liveOutlets \cup {Freed, None}
                       /\ source[i] # None => i \in liveInlets

IInv ==
  /\ TypeOK
  /\ RecordsAgree
  /\ WireRecorded
  /\ Alive
  /\ WellTyped

-----------------------------------------------------------------------------
(* The operators Connect is built from.                                    *)

(* The maps of the outlets and of the inlets, freed.                       *)
LEMMA Freeings ==
  ASSUME TypeOK, NEW D, NEW R
  PROVE  /\ Freeing(sink, D, R) \in [Outlets -> Inlets \cup {Freed, None}]
         /\ Freeing(wire, D, R) \in [Outlets -> Inlets \cup {Freed, None}]
         /\ Freeing(source, D, R) \in [Inlets -> Outlets \cup {Freed, None}]
         /\ \A o \in Outlets :
              /\ Freeing(sink, D, R)[o] =
                   IF o \in R THEN None ELSE IF sink[o] \in D THEN Freed ELSE sink[o]
              /\ Freeing(wire, D, R)[o] =
                   IF o \in R THEN None ELSE IF wire[o] \in D THEN Freed ELSE wire[o]
         /\ \A i \in Inlets : Freeing(source, D, R)[i] =
              IF i \in R THEN None ELSE IF source[i] \in D THEN Freed ELSE source[i]
<1>1. /\ sink \in [Outlets -> Inlets \cup {Freed, None}]
      /\ wire \in [Outlets -> Inlets \cup {Freed, None}]
      /\ source \in [Inlets -> Outlets \cup {Freed, None}]
  BY DEF TypeOK
<1> QED
  BY <1>1 DEF Freeing

(* Nothing is freed where nothing leads to what is destroyed.              *)
LEMMA NoneFreed ==
  ASSUME TypeOK, NEW D, \A o \in Outlets : sink[o] \notin D /\ wire[o] \notin D
  PROVE  Freeing(sink, D, {None}) = sink /\ Freeing(wire, D, {None}) = wire
         /\ Freeing(sink, D, {}) = sink /\ Freeing(wire, D, {}) = wire
<1> USE ConnectionsAssumption DEF ConnectionsAssumption
<1>1. \A o \in Outlets : o \notin {None}
  OBVIOUS
<1> QED
  BY <1>1 DEF Freeing, TypeOK

(* Connecting free ends changes the records of these two ends only.        *)
LEMMA ConnectFree ==
  ASSUME FreeEndsOnly, TypeOK, RecordsAgree, WireRecorded,
         NEW o \in Outlets, NEW i \in Inlets, Connect(o, i)
  PROVE  /\ o \in liveOutlets /\ i \in liveInlets
         /\ sink[o] = None /\ source[i] = None
         /\ type' = IF Changes(o, i) THEN [type EXCEPT ![i] = OutletType[o]] ELSE type
         /\ source' = [source EXCEPT ![i] = o]
         /\ sink' = [sink EXCEPT ![o] = i]
         /\ wire' = [wire EXCEPT ![o] = IF Accepts(o, type'[i]) THEN i ELSE None]
         /\ UNCHANGED <<liveInlets, liveOutlets>>
<1> USE ConnectionsAssumption DEF ConnectionsAssumption
<1> DEFINE gone == IF Changes(o, i) THEN {i} ELSE {}
           told == {source[j] : j \in gone}
<1>1. source[i] = None /\ sink[o] = None
  BY DEF Connect
<1>2. /\ source' = [source EXCEPT ![i] = o]
      /\ sink' = [Freeing(sink, gone, told) EXCEPT ![o] = i]
      /\ wire' = [Freeing(wire, gone, told) EXCEPT
                   ![o] = IF Accepts(o, type'[i]) THEN i ELSE None]
  BY DEF Connect
<1>3. \A p \in Outlets : sink[p] \notin gone /\ wire[p] \notin gone
  BY <1>1 DEF RecordsAgree, WireRecorded
<1>4. told \in {{None}, {}}
  BY <1>1
<1> HIDE DEF gone, told
<1>5. Freeing(sink, gone, told) = sink /\ Freeing(wire, gone, told) = wire
  BY <1>3, <1>4, NoneFreed
<1> QED
  BY <1>1, <1>2, <1>5 DEF Connect

-----------------------------------------------------------------------------
(* The invariant holds initially, and each action preserves it.            *)

LEMMA InitIInv == Init => IInv
BY ConnectionsAssumption
   DEF Init, IInv, TypeOK, RecordsAgree, WireRecorded, Alive, WellTyped,
       ConnectionsAssumption

LEMMA ConnectIInv ==
  ASSUME FreeEndsOnly, IInv, NEW o \in Outlets, NEW i \in Inlets, Connect(o, i)
  PROVE  IInv'
<1> USE ConnectionsAssumption DEF ConnectionsAssumption
<1>0. TypeOK /\ RecordsAgree /\ WireRecorded /\ Alive /\ WellTyped
  BY DEF IInv
<1>1. /\ o \in liveOutlets /\ i \in liveInlets
      /\ sink[o] = None /\ source[i] = None
      /\ type' = IF Changes(o, i) THEN [type EXCEPT ![i] = OutletType[o]] ELSE type
      /\ source' = [source EXCEPT ![i] = o]
      /\ sink' = [sink EXCEPT ![o] = i]
      /\ wire' = [wire EXCEPT ![o] = IF Accepts(o, type'[i]) THEN i ELSE None]
      /\ UNCHANGED <<liveInlets, liveOutlets>>
  BY <1>0, ConnectFree
<1>2. TypeOK'
  BY <1>0, <1>1 DEF TypeOK, Changes
<1>3. RecordsAgree'
  BY <1>0, <1>1 DEF TypeOK, RecordsAgree
<1>4. WireRecorded'
  BY <1>0, <1>1 DEF TypeOK, WireRecorded
<1>5. Alive'
  BY <1>0, <1>1 DEF TypeOK, Alive
<1>6. WellTyped'
  <2> SUFFICES ASSUME NEW p \in Outlets, NEW j \in Inlets, wire'[p] = j
               PROVE  Accepts(p, type'[j])
    BY DEF WellTyped, Accepts
  <2>1. CASE p = o
    BY <1>0, <1>1, <2>1 DEF TypeOK
  <2>2. CASE p # o
    <3>1. wire[p] = j
      BY <1>0, <1>1, <2>2 DEF TypeOK
    <3>2. source[j] = p
      BY <1>0, <3>1 DEF WireRecorded, RecordsAgree
    <3>3. type'[j] = type[j]
      BY <1>0, <1>1, <3>2 DEF TypeOK
    <3> QED
      BY <1>0, <3>1, <3>3 DEF WellTyped
  <2> QED
    BY <2>1, <2>2
<1> QED
  BY <1>2, <1>3, <1>4, <1>5, <1>6 DEF IInv

(* Disconnecting an outlet clears the three records of its connection.     *)
LEMMA DisconnectIInv ==
  ASSUME IInv, NEW o \in Outlets, Disconnect(o)
  PROVE  IInv'
<1> USE ConnectionsAssumption DEF ConnectionsAssumption
<1>1. TypeOK'
  BY DEF IInv, TypeOK, Disconnect
<1>2. RecordsAgree'
  BY DEF IInv, TypeOK, RecordsAgree, Disconnect
<1>3. WireRecorded'
  BY DEF IInv, TypeOK, WireRecorded, Disconnect
<1>4. Alive'
  BY DEF IInv, TypeOK, Alive, Disconnect
<1>5. WellTyped'
  BY DEF IInv, TypeOK, WellTyped, Accepts, Disconnect
<1> QED
  BY <1>1, <1>2, <1>3, <1>4, <1>5 DEF IInv

(* The record an inlet has is that of its only outlet.                     *)
LEMMA RemoveInletIInv ==
  ASSUME IInv, NEW i \in Inlets, RemoveInlet(i)
  PROVE  IInv'
<1> USE ConnectionsAssumption DEF ConnectionsAssumption
<1>0. /\ TypeOK /\ RecordsAgree /\ WireRecorded /\ Alive /\ WellTyped
      /\ i \in liveInlets /\ liveInlets' = liveInlets \ {i} /\ liveOutlets' = liveOutlets
      /\ source[i] # Freed
      /\ source' = [source EXCEPT ![i] = None]
      /\ type' \in [Inlets -> Types]
      /\ \A j \in Inlets : type'[j] = IF j = i THEN InletType[j] ELSE type[j]
  BY DEF IInv, TypeOK, RemoveInlet, MayReset, Remade
<1>1. /\ sink' \in [Outlets -> Inlets \cup {Freed, None}]
      /\ wire' \in [Outlets -> Inlets \cup {Freed, None}]
      /\ \A o \in Outlets :
           /\ sink'[o] = IF o = source[i] THEN None
                         ELSE IF sink[o] = i THEN Freed ELSE sink[o]
           /\ wire'[o] = IF o = source[i] THEN None
                         ELSE IF wire[o] = i THEN Freed ELSE wire[o]
  BY <1>0, Freeings DEF RemoveInlet
<1>2. \A o \in Outlets :
        /\ sink'[o] = IF sink[o] = i THEN None ELSE sink[o]
        /\ wire'[o] = IF sink[o] = i THEN None ELSE wire[o]
  BY <1>0, <1>1 DEF TypeOK, RecordsAgree, WireRecorded
<1>3. TypeOK'
  BY <1>0, <1>1 DEF TypeOK
<1>4. RecordsAgree'
  BY <1>0, <1>2 DEF TypeOK, RecordsAgree
<1>5. WireRecorded'
  BY <1>0, <1>2 DEF TypeOK, WireRecorded
<1>6. Alive'
  BY <1>0, <1>2 DEF TypeOK, Alive
<1>7. WellTyped'
  BY <1>0, <1>2 DEF TypeOK, WellTyped, WireRecorded, Accepts
<1> QED
  BY <1>3, <1>4, <1>5, <1>6, <1>7 DEF IInv

LEMMA RemoveOutletIInv ==
  ASSUME IInv, NEW o \in Outlets, RemoveOutlet(o)
  PROVE  IInv'
<1> USE ConnectionsAssumption DEF ConnectionsAssumption
<1>0. /\ TypeOK /\ RecordsAgree /\ WireRecorded /\ Alive /\ WellTyped
      /\ o \in liveOutlets /\ liveOutlets' = liveOutlets \ {o}
      /\ liveInlets' = liveInlets /\ type' = type
      /\ sink' = [sink EXCEPT ![o] = None] /\ wire' = [wire EXCEPT ![o] = None]
  BY DEF IInv, RemoveOutlet
<1>1. /\ source' \in [Inlets -> Outlets \cup {Freed, None}]
      /\ \A i \in Inlets : source'[i] = IF i = sink[o] THEN None
                                      ELSE IF source[i] = o THEN Freed ELSE source[i]
  BY <1>0, Freeings DEF RemoveOutlet
<1>2. \A i \in Inlets : source'[i] = IF source[i] = o THEN None ELSE source[i]
  BY <1>0, <1>1 DEF TypeOK, RecordsAgree
<1>3. TypeOK'
  BY <1>0, <1>1 DEF TypeOK
<1>4. RecordsAgree'
  BY <1>0, <1>2 DEF TypeOK, RecordsAgree
<1>5. WireRecorded'
  BY <1>0 DEF TypeOK, WireRecorded
<1>6. Alive'
  BY <1>0, <1>2 DEF TypeOK, Alive
<1>7. WellTyped'
  BY <1>0 DEF TypeOK, WellTyped, Accepts
<1> QED
  BY <1>3, <1>4, <1>5, <1>6, <1>7 DEF IInv

Members(p) == Own[p] \cup Inside[p]

(* What the destruction of a patch leaves of each record.  The records of  *)
(* the terminals inside are agreed upon by their partners.                 *)
LEMMA DestroyPatchEntries ==
  ASSUME IInv, NEW p \in Patches, DestroyPatch(p)
  PROVE  /\ sink' \in [Outlets -> Inlets \cup {Freed, None}]
         /\ wire' \in [Outlets -> Inlets \cup {Freed, None}]
         /\ source' \in [Inlets -> Outlets \cup {Freed, None}]
         /\ \A o \in Outlets :
              /\ sink'[o] = IF o \in Members(p) \/ sink[o] \in Inside[p] THEN None
                            ELSE IF sink[o] \in Own[p] THEN Freed ELSE sink[o]
              /\ wire'[o] = IF o \in Members(p) \/ sink[o] \in Inside[p] THEN None
                            ELSE IF wire[o] \in Own[p] THEN Freed ELSE wire[o]
         /\ \A i \in Inlets :
              source'[i] = IF i \in Members(p) \/ source[i] \in Inside[p] THEN None
                           ELSE IF source[i] \in Own[p] THEN Freed ELSE source[i]
<1> USE ConnectionsAssumption DEF ConnectionsAssumption
<1> DEFINE sources == {source[i] : i \in liveInlets \cap Inside[p]}
           sinks == {sink[o] : o \in liveOutlets \cap Inside[p]}
<1>0. TypeOK /\ RecordsAgree /\ WireRecorded /\ Alive
  BY DEF IInv
<1>1. /\ sink' = Freeing(sink, Members(p), Members(p) \cup sources)
      /\ wire' = Freeing(wire, Members(p), Members(p) \cup sources)
      /\ source' = Freeing(source, Members(p), Members(p) \cup sinks)
  BY DEF DestroyPatch, Members
<1>2. \A o \in Outlets : o \in sources <=> sink[o] \in Inside[p]
  <2> SUFFICES ASSUME NEW o \in Outlets PROVE o \in sources <=> sink[o] \in Inside[p]
    OBVIOUS
  <2>1. ASSUME o \in sources PROVE sink[o] \in Inside[p]
    <3>1. PICK i \in liveInlets \cap Inside[p] : source[i] = o
      BY <2>1
    <3> QED
      BY <1>0, <3>1 DEF TypeOK, RecordsAgree
  <2>2. ASSUME sink[o] \in Inside[p] PROVE o \in sources
    <3>1. sink[o] \in liveInlets \cap Inside[p]
      BY <1>0, <2>2 DEF TypeOK, Alive
    <3>2. source[sink[o]] = o
      BY <1>0, <3>1 DEF TypeOK, RecordsAgree
    <3> QED
      BY <3>1, <3>2
  <2> QED
    BY <2>1, <2>2
<1>3. \A i \in Inlets : i \in sinks <=> source[i] \in Inside[p]
  <2> SUFFICES ASSUME NEW i \in Inlets PROVE i \in sinks <=> source[i] \in Inside[p]
    OBVIOUS
  <2>1. ASSUME i \in sinks PROVE source[i] \in Inside[p]
    <3>1. PICK o \in liveOutlets \cap Inside[p] : sink[o] = i
      BY <2>1
    <3> QED
      BY <1>0, <3>1 DEF TypeOK, RecordsAgree
  <2>2. ASSUME source[i] \in Inside[p] PROVE i \in sinks
    <3>1. source[i] \in liveOutlets \cap Inside[p]
      BY <1>0, <2>2 DEF TypeOK, Alive
    <3>2. sink[source[i]] = i
      BY <1>0, <3>1 DEF TypeOK, RecordsAgree
    <3> QED
      BY <3>1, <3>2
  <2> QED
    BY <2>1, <2>2
<1> HIDE DEF sources, sinks
<1>4. \A o \in Outlets : wire[o] # None => sink[o] = wire[o]
  BY <1>0 DEF WireRecorded
<1>5. /\ sink' \in [Outlets -> Inlets \cup {Freed, None}]
      /\ wire' \in [Outlets -> Inlets \cup {Freed, None}]
      /\ source' \in [Inlets -> Outlets \cup {Freed, None}]
      /\ \A o \in Outlets :
           /\ sink'[o] = IF o \in Members(p) \cup sources THEN None
                         ELSE IF sink[o] \in Members(p) THEN Freed ELSE sink[o]
           /\ wire'[o] = IF o \in Members(p) \cup sources THEN None
                         ELSE IF wire[o] \in Members(p) THEN Freed ELSE wire[o]
      /\ \A i \in Inlets :
           source'[i] = IF i \in Members(p) \cup sinks THEN None
                        ELSE IF source[i] \in Members(p) THEN Freed ELSE source[i]
  BY <1>0, <1>1, Freeings
<1>6. None \notin Inside[p]
  OBVIOUS
<1>7. ASSUME NEW o \in Outlets
      PROVE  /\ sink'[o] = IF o \in Members(p) \/ sink[o] \in Inside[p] THEN None
                           ELSE IF sink[o] \in Own[p] THEN Freed ELSE sink[o]
             /\ wire'[o] = IF o \in Members(p) \/ sink[o] \in Inside[p] THEN None
                           ELSE IF wire[o] \in Own[p] THEN Freed ELSE wire[o]
  BY <1>2, <1>4, <1>5, <1>6 DEF Members
<1>8. ASSUME NEW i \in Inlets
      PROVE  source'[i] = IF i \in Members(p) \/ source[i] \in Inside[p] THEN None
                          ELSE IF source[i] \in Own[p] THEN Freed ELSE source[i]
  BY <1>3, <1>5 DEF Members
<1> QED
  BY <1>5, <1>7, <1>8

(* What was connected to the patch keeps a freed pointer, on either side.  *)
LEMMA DestroyPatchIInv ==
  ASSUME IInv, NEW p \in Patches, DestroyPatch(p)
  PROVE  IInv'
<1> USE ConnectionsAssumption DEF ConnectionsAssumption
<1>0. /\ TypeOK /\ RecordsAgree /\ WireRecorded /\ Alive /\ WellTyped
      /\ liveInlets' = liveInlets \ Members(p) /\ liveOutlets' = liveOutlets \ Members(p)
      /\ type' \in [Inlets -> Types]
      /\ \A i \in Inlets : type'[i] = IF i \in Members(p) THEN InletType[i] ELSE type[i]
  BY DEF IInv, TypeOK, DestroyPatch, Remade, Members
<1>1. /\ sink' \in [Outlets -> Inlets \cup {Freed, None}]
      /\ wire' \in [Outlets -> Inlets \cup {Freed, None}]
      /\ source' \in [Inlets -> Outlets \cup {Freed, None}]
      /\ \A o \in Outlets :
           /\ sink'[o] = IF o \in Members(p) \/ sink[o] \in Inside[p] THEN None
                         ELSE IF sink[o] \in Own[p] THEN Freed ELSE sink[o]
           /\ wire'[o] = IF o \in Members(p) \/ sink[o] \in Inside[p] THEN None
                         ELSE IF wire[o] \in Own[p] THEN Freed ELSE wire[o]
      /\ \A i \in Inlets :
           source'[i] = IF i \in Members(p) \/ source[i] \in Inside[p] THEN None
                        ELSE IF source[i] \in Own[p] THEN Freed ELSE source[i]
  BY DestroyPatchEntries
<1>2. TypeOK'
  BY <1>0, <1>1 DEF TypeOK
<1>3. RecordsAgree'
  <2> SUFFICES ASSUME NEW o \in Outlets, NEW i \in Inlets
               PROVE  sink'[o] = i <=> source'[i] = o
    BY DEF RecordsAgree
  <2>1. sink'[o] = i <=> o \notin Members(p) /\ sink[o] = i /\ i \notin Members(p)
    BY <1>1 DEF Members
  <2>2. source'[i] = o <=> i \notin Members(p) /\ source[i] = o /\ o \notin Members(p)
    BY <1>1 DEF Members
  <2>3. sink[o] = i <=> source[i] = o
    BY <1>0 DEF RecordsAgree
  <2> QED
    BY <2>1, <2>2, <2>3
<1>4. WireRecorded'
  BY <1>0, <1>1 DEF WireRecorded, Members
<1>5. Alive'
  BY <1>0, <1>1 DEF TypeOK, Alive, Members
<1>6. WellTyped'
  <2> SUFFICES ASSUME NEW o \in Outlets, NEW i \in Inlets, wire'[o] = i
               PROVE  Accepts(o, type'[i])
    BY DEF WellTyped, Accepts
  <2>1. wire[o] = i /\ i \notin Members(p)
    BY <1>0, <1>1 DEF WireRecorded, Members
  <2> QED
    BY <1>0, <2>1 DEF WellTyped
<1> QED
  BY <1>2, <1>3, <1>4, <1>5, <1>6 DEF IInv

(* A new terminal has no record to begin with: the records that name it    *)
(* went with its predecessor.                                              *)
LEMMA AddIInv ==
  ASSUME IInv, \/ \E i \in Inlets : AddInlet(i)
               \/ \E o \in Outlets : AddOutlet(o)
  PROVE  IInv'
<1> USE ConnectionsAssumption DEF ConnectionsAssumption
<1>1. ASSUME NEW i \in Inlets, AddInlet(i) PROVE IInv'
  <2>1. \A o \in Outlets : sink[o] # i /\ wire[o] # i
    BY <1>1 DEF IInv, Alive, WireRecorded, AddInlet
  <2>2. source' = source
    BY <1>1 DEF IInv, TypeOK, Alive, AddInlet
  <2>3. TypeOK'
    BY <1>1, <2>2 DEF IInv, TypeOK, AddInlet
  <2>4. RecordsAgree' /\ WireRecorded'
    BY <1>1, <2>2 DEF IInv, RecordsAgree, WireRecorded, AddInlet
  <2>5. Alive'
    BY <1>1, <2>2 DEF IInv, Alive, AddInlet
  <2>6. WellTyped'
    BY <1>1, <2>1 DEF IInv, TypeOK, WellTyped, Accepts, AddInlet
  <2> QED
    BY <2>3, <2>4, <2>5, <2>6 DEF IInv
<1>2. ASSUME NEW o \in Outlets, AddOutlet(o) PROVE IInv'
  <2>1. sink[o] = None /\ wire[o] = None
    BY <1>2 DEF IInv, Alive, WireRecorded, AddOutlet
  <2>2. sink' = sink /\ wire' = wire
    BY <1>2, <2>1 DEF IInv, TypeOK, AddOutlet
  <2>3. TypeOK'
    BY <1>2, <2>2 DEF IInv, TypeOK, AddOutlet
  <2>4. RecordsAgree' /\ WireRecorded'
    BY <1>2, <2>2 DEF IInv, RecordsAgree, WireRecorded, AddOutlet
  <2>5. Alive'
    BY <1>2, <2>2 DEF IInv, Alive, AddOutlet
  <2>6. WellTyped'
    BY <1>2, <2>2 DEF IInv, WellTyped, Accepts, AddOutlet
  <2> QED
    BY <2>3, <2>4, <2>5, <2>6 DEF IInv
<1> QED
  BY <1>1, <1>2

-----------------------------------------------------------------------------
(* The strengthened invariant holds of every behaviour.                    *)
THEOREM SpecIInv ==
  ASSUME FreeEndsOnly
  PROVE  Spec => []IInv
<1>1. IInv /\ [Next]_vars => IInv'
  <2> SUFFICES ASSUME IInv, [Next]_vars PROVE IInv'
    OBVIOUS
  <2>1. CASE Next
    BY <2>1, ConnectIInv, DisconnectIInv, RemoveInletIInv, RemoveOutletIInv, AddIInv,
       DestroyPatchIInv DEF Next
  <2>2. CASE UNCHANGED vars
    BY <2>2 DEF vars, IInv, TypeOK, RecordsAgree, WireRecorded, Alive, WellTyped,
                Accepts
  <2> QED
    BY <2>1, <2>2
<1> QED
  BY <1>1, InitIInv, PTL DEF Spec

(* Every variable keeps its type, and only changeable inlets change theirs.*)
THEOREM TypeCorrect ==
  ASSUME FreeEndsOnly
  PROVE  Spec => []TypeOK
BY SpecIInv, PTL DEF IInv

(* The map of the inlets and the map of the outlets stay inverse to each   *)
(* other through every connection, disconnection, retyping and deletion.   *)
THEOREM Records ==
  ASSUME FreeEndsOnly
  PROVE  Spec => []RecordsAgree
BY SpecIInv, PTL DEF IInv

(* An outlet sends only to an inlet that takes its type.                   *)
THEOREM Typing ==
  ASSUME FreeEndsOnly
  PROVE  Spec => []WellTyped
BY SpecIInv, PTL DEF IInv

(* No two outlets send to the same inlet.                                  *)
THEOREM OneEntering ==
  ASSUME FreeEndsOnly
  PROVE  Spec => []AtMostOneEntering
<1>1. IInv => AtMostOneEntering
  <2> SUFFICES ASSUME IInv, NEW o \in Outlets, NEW p \in Outlets,
                      wire[o] = wire[p], wire[o] \in Inlets
               PROVE  o = p
    BY DEF AtMostOneEntering
  <2>1. wire[o] \in Inlets /\ sink[o] = wire[o] /\ sink[p] = wire[o]
    BY ConnectionsAssumption DEF ConnectionsAssumption, IInv, TypeOK, WireRecorded
  <2>2. source[wire[o]] = o /\ source[wire[o]] = p
    BY <2>1 DEF IInv, RecordsAgree
  <2> QED
    BY <2>2
<1> QED
  BY <1>1, SpecIInv, PTL

(* A step that breaks a connection is its own disconnection or deletes one *)
(* of its ends.                                                            *)
THEOREM Undisturbed ==
  ASSUME FreeEndsOnly
  PROVE  Spec => OthersUntouched
<1> DEFINE Breaks(o) == wire[o] \in Inlets /\ wire'[o] # wire[o]
           Excused(o) ==
             Disconnect(o) \/ o \notin liveOutlets' \/ wire[o] \notin liveInlets'
<1>1. ASSUME IInv, [Next]_vars, NEW o \in Outlets, Breaks(o)
      PROVE  Excused(o)
  <2>1. ASSUME NEW p \in Outlets, NEW i \in Inlets, Connect(p, i) PROVE FALSE
    <3>1. /\ wire' = [wire EXCEPT ![p] = IF Accepts(p, type'[i]) THEN i ELSE None]
          /\ sink[p] = None
      BY <1>1, <2>1, ConnectFree DEF IInv
    <3>2. wire[p] = None
      BY <1>1, <3>1 DEF IInv, WireRecorded
    <3> QED
      BY <1>1, <3>1, <3>2, ConnectionsAssumption DEF ConnectionsAssumption, IInv, TypeOK
  <2>2. ASSUME NEW p \in Outlets, Disconnect(p) PROVE Excused(o)
    BY <1>1, <2>2 DEF Disconnect, IInv, TypeOK
  <2>3. ASSUME NEW p \in Outlets, RemoveOutlet(p) PROVE Excused(o)
    BY <1>1, <2>3 DEF RemoveOutlet, IInv, TypeOK
  <2>4. ASSUME NEW p \in Outlets, AddOutlet(p) PROVE FALSE
    <3>1. wire[p] = None
      BY <1>1, <2>4 DEF AddOutlet, IInv, Alive, WireRecorded
    <3> QED
      BY <1>1, <2>4, <3>1 DEF AddOutlet, IInv, TypeOK
  <2>5. ASSUME NEW i \in Inlets, RemoveInlet(i) PROVE Excused(o)
    <3>1. liveInlets' = liveInlets \ {i} /\ wire'[o] = IF o = source[i] THEN None
                           ELSE IF wire[o] = i THEN Freed ELSE wire[o]
      BY <1>1, <2>5, Freeings DEF RemoveInlet, IInv
    <3>2. wire[o] = i
      BY <1>1, <3>1 DEF IInv, TypeOK, RecordsAgree, WireRecorded
    <3> QED
      BY <3>1, <3>2
  <2>6. ASSUME NEW i \in Inlets, AddInlet(i) PROVE FALSE
    BY <1>1, <2>6 DEF AddInlet
  <2>7. CASE UNCHANGED vars
    BY <1>1, <2>7 DEF vars
  <2>8. ASSUME NEW p \in Patches, DestroyPatch(p) PROVE Excused(o)
    <3>1. wire'[o] = IF o \in Members(p) \/ sink[o] \in Inside[p] THEN None
                    ELSE IF wire[o] \in Own[p] THEN Freed ELSE wire[o]
      BY <1>1, <2>8, DestroyPatchEntries
    <3>2. sink[o] = wire[o]
      BY <1>1, ConnectionsAssumption DEF IInv, WireRecorded, ConnectionsAssumption
    <3>3. o \in Members(p) \/ wire[o] \in Members(p)
      BY <1>1, <3>1, <3>2 DEF Members
    <3> QED
      BY <2>8, <3>3 DEF DestroyPatch, Members
  <2> QED
    BY <1>1, <2>1, <2>2, <2>3, <2>4, <2>5, <2>6, <2>7, <2>8 DEF Next
<1>2. IInv /\ [Next]_vars =>
        [\A o \in Outlets : Breaks(o) => Excused(o)]_vars
  BY <1>1
<1> QED
  BY <1>2, SpecIInv, PTL DEF Spec, OthersUntouched

-----------------------------------------------------------------------------
(* What patches leave behind.                                              *)

(* The terminals with a freed pointer are those that dangle.               *)
LEMMA DanglingFreed ==
  ASSUME IInv
  PROVE  /\ Dangling \subseteq Inlets \cup Outlets
         /\ \A o \in Outlets : o \in Dangling <=> sink[o] = Freed
         /\ \A i \in Inlets : i \in Dangling <=> source[i] = Freed
<1> USE ConnectionsAssumption DEF ConnectionsAssumption
<1>1. liveInlets \subseteq Inlets /\ liveOutlets \subseteq Outlets
  BY DEF IInv, TypeOK
<1>2. ASSUME NEW o \in Outlets PROVE o \in Dangling <=> sink[o] = Freed
  <2>1. o \notin liveInlets
    BY <1>1
  <2>2. wire[o] = sink[o] \/ wire[o] = None
    BY DEF IInv, WireRecorded
  <2>3. sink[o] \in liveInlets \cup {Freed, None} /\ (sink[o] # None => o \in liveOutlets)
    BY DEF IInv, Alive
  <2>4. Freed \notin liveInlets /\ Freed # None
    BY <1>1
  <2> QED
    BY <2>1, <2>2, <2>3, <2>4 DEF Dangling
<1>3. ASSUME NEW i \in Inlets PROVE i \in Dangling <=> source[i] = Freed
  <2>1. i \notin liveOutlets
    BY <1>1
  <2>2. source[i] \in liveOutlets \cup {Freed, None} /\ (source[i] # None => i \in liveInlets)
    BY DEF IInv, Alive
  <2>3. Freed \notin liveOutlets /\ Freed # None
    BY <1>1
  <2> QED
    BY <2>1, <2>2, <2>3 DEF Dangling
<1> QED
  BY <1>1, <1>2, <1>3 DEF Dangling

(* No other step frees what a record leads to.                             *)
LEMMA FreedByPatch ==
  ASSUME FreeEndsOnly, IInv, Next
  PROVE  /\ \A o \in Outlets : sink'[o] = Freed /\ sink[o] # Freed =>
              \E p \in Patches : DestroyPatch(p) /\ sink[o] \in Own[p]
         /\ \A i \in Inlets : source'[i] = Freed /\ source[i] # Freed =>
              \E p \in Patches : DestroyPatch(p) /\ source[i] \in Own[p]
<1> USE ConnectionsAssumption DEF ConnectionsAssumption
<1> DEFINE Kept ==
      /\ \A o \in Outlets : sink'[o] = Freed => sink[o] = Freed
      /\ \A i \in Inlets : source'[i] = Freed => source[i] = Freed
<1>0. TypeOK /\ RecordsAgree /\ WireRecorded
  BY DEF IInv
<1>1. ASSUME NEW o \in Outlets, NEW i \in Inlets, Connect(o, i) PROVE Kept
  <2>1. source' = [source EXCEPT ![i] = o] /\ sink' = [sink EXCEPT ![o] = i]
    BY <1>0, <1>1, ConnectFree
  <2> QED
    BY <1>0, <2>1 DEF TypeOK
<1>2. ASSUME NEW o \in Outlets, Disconnect(o) \/ AddOutlet(o) PROVE Kept
  BY <1>0, <1>2 DEF Disconnect, AddOutlet, TypeOK
<1>3. ASSUME NEW i \in Inlets, AddInlet(i) PROVE Kept
  BY <1>0, <1>3 DEF AddInlet, TypeOK
<1>4. ASSUME NEW o \in Outlets, RemoveOutlet(o) PROVE Kept
  <2>1. \A i \in Inlets : source'[i] = IF i = sink[o] THEN None
                                    ELSE IF source[i] = o THEN Freed ELSE source[i]
    BY <1>0, <1>4, Freeings DEF RemoveOutlet
  <2>2. \A i \in Inlets : source'[i] = Freed => source[i] = Freed
    BY <1>0, <2>1 DEF RecordsAgree
  <2> QED
    BY <1>0, <1>4, <2>2 DEF RemoveOutlet, TypeOK
<1>5. ASSUME NEW i \in Inlets, RemoveInlet(i) PROVE Kept
  <2>1. \A o \in Outlets : sink'[o] = IF o = source[i] THEN None
                                    ELSE IF sink[o] = i THEN Freed ELSE sink[o]
    BY <1>0, <1>5, Freeings DEF RemoveInlet
  <2>2. \A o \in Outlets : sink'[o] = Freed => sink[o] = Freed
    BY <1>0, <2>1 DEF RecordsAgree
  <2> QED
    BY <1>0, <1>5, <2>2 DEF RemoveInlet, TypeOK
<1>6. ASSUME NEW p \in Patches, DestroyPatch(p)
      PROVE  /\ \A o \in Outlets : sink'[o] = Freed => sink[o] \in Own[p] \cup {Freed}
             /\ \A i \in Inlets : source'[i] = Freed => source[i] \in Own[p] \cup {Freed}
  BY <1>6, DestroyPatchEntries
<1> QED
  BY <1>1, <1>2, <1>3, <1>4, <1>5, <1>6 DEF Next

(* No step but the destruction of a patch leaves a record that leads to a  *)
(* deleted terminal, and that one only where the patch itself was          *)
(* connected.                                                              *)
THEOREM OnlyPatches ==
  ASSUME FreeEndsOnly
  PROVE  Spec => LeftByPatches
<1> DEFINE Left ==
      \A t \in Dangling' \ Dangling :
        \E p \in Patches : DestroyPatch(p) /\ Partner(t) \in Own[p]
    Freeds ==
      /\ Dangling \subseteq Inlets \cup Outlets
      /\ \A o \in Outlets : o \in Dangling <=> sink[o] = Freed
      /\ \A i \in Inlets : i \in Dangling <=> source[i] = Freed
<1>0. IInv => Freeds
  BY DanglingFreed
<1>1. ASSUME IInv, Freeds, Freeds', Next PROVE Left
  <2> SUFFICES ASSUME NEW t \in Dangling' \ Dangling
               PROVE  \E p \in Patches : DestroyPatch(p) /\ Partner(t) \in Own[p]
    OBVIOUS
  <2>1. t \in Inlets \cup Outlets
    BY <1>1
  <2>2. CASE t \in Outlets
    <3>1. sink'[t] = Freed /\ sink[t] # Freed
      BY <1>1, <2>2
    <3> QED
      BY <1>1, <2>2, <3>1, FreedByPatch DEF Partner
  <2>3. CASE t \in Inlets
    <3>1. source'[t] = Freed /\ source[t] # Freed
      BY <1>1, <2>3
    <3>2. t \notin Outlets
      BY <2>3, ConnectionsAssumption DEF ConnectionsAssumption
    <3> QED
      BY <1>1, <2>3, <3>1, <3>2, FreedByPatch DEF Partner
  <2> QED
    BY <2>1, <2>2, <2>3
<1>2. IInv /\ Freeds /\ Freeds' /\ [Next]_vars => [Left]_vars
  BY <1>1
<1> QED
  BY <1>0, <1>2, SpecIInv, PTL DEF Spec, LeftByPatches

(* Where no patch is destroyed, neither the records nor the outlets ever   *)
(* lead to a deleted terminal.                                             *)
THEOREM NothingDangles ==
  ASSUME FreeEndsOnly, Patches = {}
  PROVE  Spec => []NoDangling
<1> DEFINE Whole == Dangling = {}
<1>1. Init => Whole
  BY ConnectionsAssumption DEF Init, Dangling, ConnectionsAssumption
<1>2. Whole /\ [\A t \in Dangling' \ Dangling :
                  \E p \in Patches : DestroyPatch(p) /\ Partner(t) \in Own[p]]_vars => Whole'
  BY DEF vars, Dangling
<1>3. ASSUME IInv, Whole PROVE NoDangling
  <2>1. /\ \A o \in Outlets : sink[o] # Freed
        /\ \A i \in Inlets : source[i] # Freed
    BY <1>3, DanglingFreed
  <2> QED
    BY <1>3, <2>1 DEF NoDangling, IInv, Alive, WireRecorded
<1> QED
  BY <1>1, <1>2, <1>3, SpecIInv, OnlyPatches, PTL DEF Spec, LeftByPatches
=============================================================================
