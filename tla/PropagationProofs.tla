------------------------- MODULE PropagationProofs -------------------------
(***************************************************************************)
(* Proofs about the walks of sample rates and buffer sizes, for any graph, *)
(* patches, rates and sizes: that the walks leave connections to the       *)
(* clients, so that what ConnectionsProofs proves holds of this system     *)
(* too, and that no walk leaves two connected transforms behind that       *)
(* agreed before it.                                                       *)
(***************************************************************************)
EXTENDS Propagation, ConnectionsProofs, ListProofs

CallSet == [to : Transforms, via : Inlets \cup Outlets \cup Transforms]

PropTypeOK ==
  /\ TypeOK
  /\ rate \in [Transforms -> Nat \ {0}]
  /\ size \in [Transforms -> Int]
  /\ labelled \subseteq Transforms
  /\ calls \in Seq(SUBSET CallSet)
  /\ walk \in [kind : {"none", "rate", "size"}, rate : Nat \ {0}, size : Int]
  /\ calls # <<>> => NoDangling

(* What the walk changes, what it carries, and what a transform that it    *)
(* changes is given.                                                       *)
Values == IF walk.kind = "rate" THEN rate ELSE size
Carried == IF walk.kind = "rate" THEN walk.rate ELSE walk.size
Given(t) ==
  IF walk.kind = "rate" THEN walk.rate ELSE Converted(walk.size, walk.rate, rate[t])

(* The walk has made no call yet, and is to start at t.                    *)
Fresh(t) == labelled = {} /\ calls = <<{Call(t, t)}>>

(* With the values V, the labels L and the stack s: a has its new value,   *)
(* and the walk has still to call b, which has not heard of it.            *)
Awaits(V, L, s, a, b) ==
  /\ V[a] = Given(a)
  /\ a \in L /\ b \notin L
  /\ V[b] # Carried
  /\ \E c \in CallSet : InStack(c, s) /\ c.to = b

Settled(V, L, s, a, b) ==
  V[a] = V[b] \/ Awaits(V, L, s, a, b) \/ Awaits(V, L, s, b, a)

From(l) == Home[l[1]]
Onto(l) == Home[l[2]]

(* The half of an agreement that the walk does not touch.                  *)
OtherAgrees(l) ==
  IF walk.kind = "rate" THEN size[From(l)] = size[Onto(l)]
                        ELSE rate[From(l)] = rate[Onto(l)]

LinksInv ==
  \A l \in before :
    /\ l \in Links
    /\ OtherAgrees(l)
    /\ \/ Settled(Values, labelled, calls, From(l), Onto(l))
       \/ Fresh(From(l)) \/ Fresh(Onto(l))

LabelsInv == \A t \in labelled : Values[t] \in {Carried, Given(t)}

(* A call that names the starting point is the first one, or comes too     *)
(* late to matter.                                                         *)
StartInv ==
  /\ \A c \in CallSet :
       InStack(c, calls) /\ c.via \in Transforms => c.via \in labelled \/ Fresh(c.via)
  /\ \A t \in Transforms : Fresh(t) => rate[t] = walk.rate /\ size[t] = walk.size

WalkInv ==
  calls # <<>> => walk.kind \in {"rate", "size"} /\ LinksInv /\ LabelsInv /\ StartInv

-----------------------------------------------------------------------------
(* Connections under the walks.                                            *)

(* The walks change no terminal and no connection: this system implements  *)
(* Connections.                                                            *)
THEOREM Implementation == PropSpec => Spec
<1>1. PropInit => Init
  BY DEF PropInit
<1>2. [PropNext]_propVars => [Next]_vars
  BY DEF PropNext, propVars, EditConnections, Visit, SetSampleRate,
         SetNumberOfSamples, Begin
<1> QED
  BY <1>1, <1>2, PTL DEF PropSpec, Spec

(* While rates and sizes spread, the records of a connection agree, values *)
(* reach only inlets of their type, and no inlet is fed twice; and nothing *)
(* is left dangling but by a patch that is destroyed while connected.      *)
THEOREM ConnectionsKept ==
  ASSUME FreeEndsOnly
  PROVE  PropSpec => [](RecordsAgree /\ WellTyped /\ AtMostOneEntering) /\ LeftByPatches
<1>1. /\ Spec => []RecordsAgree
      /\ Spec => []WellTyped
      /\ Spec => []AtMostOneEntering
      /\ Spec => LeftByPatches
  BY Records, Typing, OneEntering, OnlyPatches
<1> QED
  BY <1>1, Implementation, PTL

-----------------------------------------------------------------------------
(* Types.                                                                  *)

LEMMA ConvertedInt ==
  ASSUME NEW n \in Int, NEW from \in Nat \ {0}, NEW to \in Nat \ {0}
  PROVE  Converted(n, from, to) \in Int
<1>1. n * to \in Int
  OBVIOUS
<1>2. (n * to) \div from \in Int
  BY <1>1
<1> QED
  BY <1>2 DEF Converted

(* The terminals keep their types whoever connects what.                   *)
LEMMA NextTypeOK == TypeOK /\ [Next]_vars => TypeOK'
<1> SUFFICES ASSUME TypeOK, [Next]_vars PROVE TypeOK'
  OBVIOUS
<1> USE ConnectionsAssumption DEF ConnectionsAssumption
<1>1. ASSUME NEW o \in Outlets, NEW i \in Inlets, Connect(o, i) PROVE TypeOK'
  <2> DEFINE gone == IF Changes(o, i) THEN {i} ELSE {}
             told == {source[j] : j \in gone}
  <2>1. /\ Freeing(sink, gone, told) \in [Outlets -> Inlets \cup {Freed, None}]
        /\ Freeing(wire, gone, told) \in [Outlets -> Inlets \cup {Freed, None}]
    BY Freeings
  <2>2. /\ source' = [source EXCEPT ![i] = o]
        /\ i \in liveInlets
        /\ sink' = [Freeing(sink, gone, told) EXCEPT ![o] = i]
        /\ wire' = [Freeing(wire, gone, told) EXCEPT
                     ![o] = IF Accepts(o, type'[i]) THEN i ELSE None]
        /\ type' = IF Changes(o, i) THEN [type EXCEPT ![i] = OutletType[o]] ELSE type
        /\ UNCHANGED <<liveInlets, liveOutlets>>
    BY <1>1 DEF Connect
  <2> HIDE DEF gone, told
  <2>3. type' \in [Inlets -> Types] /\ \A j \in Inlets \ (Changeable \cap liveInlets') : type'[j] = InletType[j]
    BY <2>2 DEF TypeOK, Changes
  <2>4. wire' \in [Outlets -> Inlets \cup {Freed, None}]
    BY <2>1, <2>2
  <2> QED
    BY <2>1, <2>2, <2>3, <2>4 DEF TypeOK
<1>2. ASSUME NEW o \in Outlets, Disconnect(o) \/ RemoveOutlet(o) \/ AddOutlet(o)
      PROVE  TypeOK'
  <2>1. Freeing(source, {o}, {sink[o]}) \in [Inlets -> Outlets \cup {Freed, None}]
    BY Freeings
  <2> QED
    BY <1>2, <2>1 DEF TypeOK, Disconnect, RemoveOutlet, AddOutlet
<1>3. ASSUME NEW i \in Inlets, RemoveInlet(i) \/ AddInlet(i) PROVE TypeOK'
  <2>1. /\ Freeing(sink, {i}, {source[i]}) \in [Outlets -> Inlets \cup {Freed, None}]
        /\ Freeing(wire, {i}, {source[i]}) \in [Outlets -> Inlets \cup {Freed, None}]
    BY Freeings
  <2> QED
    BY <1>3, <2>1 DEF TypeOK, RemoveInlet, AddInlet, Remade
<1>4. ASSUME NEW p \in Patches, DestroyPatch(p) PROVE TypeOK'
  <2>1. PICK D, R, S : /\ liveInlets' = liveInlets \ D /\ liveOutlets' = liveOutlets \ D
                       /\ sink' = Freeing(sink, D, R) /\ wire' = Freeing(wire, D, R)
                       /\ source' = Freeing(source, D, S) /\ type' = Remade(D)
    BY <1>4 DEF DestroyPatch
  <2>2. /\ sink' \in [Outlets -> Inlets \cup {Freed, None}]
        /\ wire' \in [Outlets -> Inlets \cup {Freed, None}]
        /\ source' \in [Inlets -> Outlets \cup {Freed, None}]
    BY <2>1, Freeings
  <2> QED
    BY <2>1, <2>2 DEF TypeOK, Remade
<1>5. CASE UNCHANGED vars
  BY <1>5 DEF vars, TypeOK
<1> QED
  BY <1>1, <1>2, <1>3, <1>4, <1>5 DEF Next

(* The calls a transform makes are to transforms, by way of terminals or   *)
(* of the starting point.                                                  *)
LEMMA CallsMade ==
  ASSUME PropTypeOK, calls # <<>>, NEW c \in CallSet
  PROVE  /\ Across(c.to) \in SUBSET CallSet /\ Within(c) \in SUBSET CallSet
         /\ Upward(c) \in SUBSET CallSet
         /\ \A d \in Across(c.to) \cup Within(c) \cup Upward(c) :
              d.via \in Transforms => d.via = c.via
<1> USE PropagationAssumption, ConnectionsAssumption
    DEF PropagationAssumption, ConnectionsAssumption
<1>1. \A d \in Across(c.to) : d \in CallSet /\ d.via \notin Transforms
  <2>1. /\ \A o \in Outlets : sink[o] \in Inlets \cup {None}
        /\ \A i \in Inlets : source[i] \in Outlets \cup {None}
    BY DEF PropTypeOK, TypeOK, NoDangling
  <2> QED
    BY <2>1 DEF Across, Call, CallSet
<1>2. \A d \in Within(c) : d \in CallSet /\ (d.via \in Transforms => d.via = c.via)
  BY DEF Within, Call, CallSet
<1>3. \A d \in Upward(c) : d \in CallSet /\ (d.via \in Transforms => d.via = c.via)
  BY DEF Upward, Call, CallSet
<1> QED
  BY <1>1, <1>2, <1>3

(* The stack after call c.                                                 *)
Rest(c) == Push(Upward(c), Pop(c, calls))
CallsAfter(c) ==
  IF GoesOn(c) THEN Push(Across(c.to), Push(Within(c), Rest(c))) ELSE Rest(c)

LEMMA CallsAfterHolds ==
  ASSUME PropTypeOK, calls # <<>>, NEW c \in Head(calls)
  PROVE  /\ c \in CallSet
         /\ CallsAfter(c) \in Seq(SUBSET CallSet)
         /\ \A d : InStack(d, CallsAfter(c)) =>
              InStack(d, calls) \/ d \in Across(c.to) \cup Within(c) \cup Upward(c)
         /\ \A d : d # c /\ InStack(d, calls) => InStack(d, CallsAfter(c))
         /\ GoesOn(c) => \A d \in Across(c.to) : InStack(d, CallsAfter(c))
<1> DEFINE inner == Push(Within(c), Rest(c))
<1>1. /\ c \in CallSet /\ InStack(c, calls)
      /\ Pop(c, calls) \in Seq(SUBSET CallSet)
      /\ \A d : InStack(d, Pop(c, calls)) => InStack(d, calls)
      /\ \A d : d # c /\ InStack(d, calls) => InStack(d, Pop(c, calls))
  BY PopHolds DEF PropTypeOK
<1>2. /\ Across(c.to) \in SUBSET CallSet /\ Within(c) \in SUBSET CallSet
      /\ Upward(c) \in SUBSET CallSet
  BY <1>1, CallsMade
<1>3. /\ Rest(c) \in Seq(SUBSET CallSet)
      /\ \A d : InStack(d, Rest(c)) <=> d \in Upward(c) \/ InStack(d, Pop(c, calls))
  BY <1>1, <1>2, PushHolds DEF Rest
<1>4. /\ inner \in Seq(SUBSET CallSet)
      /\ \A d : InStack(d, inner) <=> d \in Within(c) \/ InStack(d, Rest(c))
  BY <1>2, <1>3, PushHolds
<1>5. GoesOn(c) =>
        /\ CallsAfter(c) \in Seq(SUBSET CallSet)
        /\ \A d : InStack(d, CallsAfter(c)) <=> d \in Across(c.to) \/ InStack(d, inner)
  BY <1>2, <1>4, PushHolds DEF CallsAfter
<1>6. ~GoesOn(c) => CallsAfter(c) = Rest(c)
  BY DEF CallsAfter
<1> HIDE DEF inner
<1> QED
  BY <1>1, <1>3, <1>4, <1>5, <1>6

(* What a call does.                                                       *)
ValuesAfter(c) == IF GoesOn(c) THEN [Values EXCEPT ![c.to] = Given(c.to)] ELSE Values

LEMMA VisitCall ==
  ASSUME PropTypeOK, Visit, walk.kind \in {"rate", "size"}
  PROVE  \E c \in Head(calls) :
           /\ calls # <<>> /\ calls' = CallsAfter(c)
           /\ walk.kind = "rate" => rate' = ValuesAfter(c) /\ size' = size
           /\ walk.kind = "size" => size' = ValuesAfter(c) /\ rate' = rate
           /\ calls' # <<>> => /\ labelled' = labelled \cup {c.to}
                               /\ walk' = walk /\ before' = before
           /\ calls' = <<>> => labelled' = {} /\ walk' = NoWalk /\ before' = {}
           /\ UNCHANGED vars
<1>1. PICK c \in Head(calls) :
        /\ calls # <<>> /\ calls' = CallsAfter(c)
        /\ rate' = IF GoesOn(c) /\ walk.kind = "rate"
                   THEN [rate EXCEPT ![c.to] = walk.rate] ELSE rate
        /\ size' = IF GoesOn(c) /\ walk.kind = "size"
                   THEN [size EXCEPT ![c.to] = Converted(walk.size, walk.rate, rate[c.to])]
                   ELSE size
        /\ labelled' = IF calls' = <<>> THEN {} ELSE labelled \cup {c.to}
        /\ IF calls' = <<>> THEN walk' = NoWalk /\ before' = {}
                            ELSE UNCHANGED <<walk, before>>
        /\ UNCHANGED vars
  BY DEF Visit, CallsAfter, Rest
<1> QED
  BY <1>1 DEF ValuesAfter, Values, Given

LEMMA VisitTypeOK ==
  ASSUME PropTypeOK, Visit, walk.kind \in {"rate", "size"}
  PROVE  PropTypeOK'
<1>1. PICK c \in Head(calls) :
        /\ calls # <<>> /\ calls' = CallsAfter(c)
        /\ walk.kind = "rate" => rate' = ValuesAfter(c) /\ size' = size
        /\ walk.kind = "size" => size' = ValuesAfter(c) /\ rate' = rate
        /\ calls' # <<>> => labelled' = labelled \cup {c.to} /\ walk' = walk
        /\ calls' = <<>> => labelled' = {} /\ walk' = NoWalk
        /\ UNCHANGED vars
  BY VisitCall
<1>2. c \in CallSet /\ calls' \in Seq(SUBSET CallSet)
  BY <1>1, CallsAfterHolds
<1>3. c.to \in Transforms
  BY <1>2 DEF CallSet
<1>4. /\ walk.kind = "rate" => Given(c.to) \in Nat \ {0}
      /\ walk.kind = "size" => Given(c.to) \in Int
  BY <1>3, ConvertedInt DEF Given, PropTypeOK
<1>5. /\ walk.kind = "rate" => ValuesAfter(c) \in [Transforms -> Nat \ {0}]
      /\ walk.kind = "size" => ValuesAfter(c) \in [Transforms -> Int]
  BY <1>3, <1>4 DEF ValuesAfter, Values, PropTypeOK
<1>6. rate' \in [Transforms -> Nat \ {0}] /\ size' \in [Transforms -> Int]
  BY <1>1, <1>5 DEF PropTypeOK
<1>7. NoWalk \in [kind : {"none", "rate", "size"}, rate : Nat \ {0}, size : Int]
  BY PropagationAssumption DEF PropagationAssumption, NoWalk
<1>8. TypeOK' /\ NoDangling'
  BY <1>1 DEF PropTypeOK, TypeOK, NoDangling, vars
<1> QED
  BY <1>1, <1>2, <1>3, <1>6, <1>7, <1>8 DEF PropTypeOK

-----------------------------------------------------------------------------
(* One call of a walk.                                                     *)

LEMMA NewsIsNew ==
  ASSUME walk.kind \in {"rate", "size"}, NEW c
  PROVE  News(c) <=> StartsAt(c) \/ Values[c.to] # Carried
BY DEF News, Values, Carried

(* The two ends of a link call each other, and are given the same.         *)
LEMMA Neighbours ==
  ASSUME PropTypeOK, NEW l \in Links
  PROVE  /\ From(l) \in Transforms /\ Onto(l) \in Transforms
         /\ \E d \in Across(From(l)) : d.to = Onto(l)
         /\ \E d \in Across(Onto(l)) : d.to = From(l)
         /\ OtherAgrees(l) => Given(From(l)) = Given(Onto(l))
<1> USE PropagationAssumption, ConnectionsAssumption
    DEF PropagationAssumption, ConnectionsAssumption
<1>1. PICK o \in Outlets, i \in Inlets :
        /\ l[1] = o /\ l[2] = i /\ sink[o] = i /\ source[i] = o /\ type[i] \in TimeDomain
  BY DEF Links
<1>2. Call(Home[i], i) \in Across(Home[o]) /\ Call(Home[o], o) \in Across(Home[i])
  BY <1>1 DEF Across
<1>3. Call(Home[i], i).to = Home[i] /\ Call(Home[o], o).to = Home[o]
  BY DEF Call
<1>4. From(l) = Home[o] /\ Onto(l) = Home[i]
  BY <1>1 DEF From, Onto
<1>5. OtherAgrees(l) => Given(From(l)) = Given(Onto(l))
  BY DEF OtherAgrees, Given
<1> QED
  BY <1>2, <1>3, <1>4, <1>5

(* Where the walk starts, the given value is the one carried.              *)
LEMMA FreshGiven ==
  ASSUME WalkInv, NEW t \in Transforms, Fresh(t)
  PROVE  Given(t) = Carried /\ Values[t] = Carried
BY DEF WalkInv, StartInv, Fresh, Given, Carried, Converted, Values

(* The first call goes to the starting point.                              *)
LEMMA FreshCall ==
  ASSUME NEW t, Fresh(t), NEW c \in Head(calls)
  PROVE  c.to = t /\ c.via = t
BY DEF Fresh, Call

LEMMA StartIsFresh ==
  ASSUME PropTypeOK, WalkInv, calls # <<>>, NEW c \in Head(calls),
         StartsAt(c), c.to \notin labelled
  PROVE  Fresh(c.to)
<1>1. c \in CallSet /\ InStack(c, calls)
  BY PopHolds DEF PropTypeOK
<1> QED
  BY <1>1 DEF WalkInv, StartInv, StartsAt, CallSet

(* A call that awaits b stays on the stack while others are made.          *)
LEMMA StillAwaits ==
  ASSUME PropTypeOK, calls # <<>>, NEW c \in Head(calls),
         NEW V, V = ValuesAfter(c), NEW a, NEW b,
         Awaits(Values, labelled, calls, a, b), c.to # b,
         V[a] = Values[a], V[b] = Values[b]
  PROVE  Awaits(V, labelled \cup {c.to}, CallsAfter(c), a, b)
<1>1. PICK d \in CallSet : InStack(d, calls) /\ d.to = b
  BY DEF Awaits
<1>2. InStack(d, CallsAfter(c))
  BY <1>1, CallsAfterHolds
<1> QED
  BY <1>1, <1>2 DEF Awaits

(* The ends t and b of a link, where the call changes t.                   *)
LEMMA ChangedSettles ==
  ASSUME PropTypeOK, WalkInv, calls # <<>>, NEW c \in Head(calls), GoesOn(c),
         NEW t \in Transforms, t = c.to, NEW b \in Transforms, b # t,
         Given(t) = Given(b), \E d \in Across(t) : d.to = b,
         Settled(Values, labelled, calls, t, b) \/ Fresh(t)
  PROVE  Settled(ValuesAfter(c), labelled \cup {t}, CallsAfter(c), t, b)
<1> DEFINE V == ValuesAfter(c)
<1>1. walk.kind \in {"rate", "size"} /\ LabelsInv /\ t \notin labelled
  BY DEF WalkInv, GoesOn
<1>2. V[t] = Given(t) /\ V[b] = Values[b]
  BY DEF ValuesAfter, Values, PropTypeOK
<1>3. Fresh(t) \/ Values[t] # Carried
  BY <1>1, NewsIsNew, StartIsFresh DEF GoesOn
<1> HIDE DEF V
<1>4. CASE b \in labelled
  <2>1. ~Fresh(t) /\ Values[b] \in {Carried, Given(b)}
    BY <1>1, <1>4 DEF Fresh, LabelsInv
  <2>2. Values[b] = Given(b)
    BY <1>1, <1>3, <2>1 DEF Settled, Awaits
  <2> QED
    BY <1>2, <2>2 DEF Settled, V
<1>5. CASE b \notin labelled /\ Values[b] = Carried
  <2>1. Given(t) = Carried
    BY <1>1, <1>3, <1>5, FreshGiven DEF Settled, Awaits
  <2> QED
    BY <1>2, <1>5, <2>1 DEF Settled, V
<1>6. CASE b \notin labelled /\ Values[b] # Carried
  <2>1. PICK d \in Across(t) : d.to = b
    OBVIOUS
  <2>2. d \in CallSet /\ InStack(d, CallsAfter(c))
    BY <2>1, CallsAfterHolds, CallsMade
  <2>3. Awaits(V, labelled \cup {t}, CallsAfter(c), t, b)
    BY <1>2, <1>6, <2>1, <2>2 DEF Awaits
  <2> QED
    BY <2>3 DEF Settled, V
<1> QED
  BY <1>4, <1>5, <1>6

LEMMA SettledEitherWay ==
  ASSUME NEW V, NEW L, NEW s, NEW a, NEW b
  PROVE  Settled(V, L, s, a, b) <=> Settled(V, L, s, b, a)
BY DEF Settled

(* After any call, the ends of a link have the same value, or one of them  *)
(* is still to be called.                                                  *)
LEMMA VisitSettles ==
  ASSUME PropTypeOK, WalkInv, calls # <<>>, NEW c \in Head(calls), NEW l \in before
  PROVE  Settled(ValuesAfter(c), labelled \cup {c.to}, CallsAfter(c), From(l), Onto(l))
<1> DEFINE a == From(l)
           b == Onto(l)
           t == c.to
           V == ValuesAfter(c)
           Goal == Settled(V, labelled \cup {t}, CallsAfter(c), a, b)
<1>1. /\ walk.kind \in {"rate", "size"} /\ l \in Links /\ OtherAgrees(l)
      /\ Settled(Values, labelled, calls, a, b) \/ Fresh(a) \/ Fresh(b)
  BY DEF WalkInv, LinksInv
<1>2. /\ a \in Transforms /\ b \in Transforms /\ Given(a) = Given(b)
      /\ \E d \in Across(a) : d.to = b
      /\ \E d \in Across(b) : d.to = a
  BY <1>1, Neighbours
<1>3. c \in CallSet /\ t \in Transforms
  BY CallsAfterHolds DEF CallSet
<1> HIDE DEF a, b
<1>4. CASE ~GoesOn(c)
  <2>1. V = Values
    BY <1>4 DEF ValuesAfter
  <2>2. t \in labelled \/ (Values[t] = Carried /\ ~StartsAt(c))
    BY <1>1, <1>4, NewsIsNew DEF GoesOn
  <2>3. ~Fresh(a) /\ ~Fresh(b)
    BY <2>2, FreshCall DEF Fresh, StartsAt
  <2>4. Awaits(Values, labelled, calls, a, b) => t # b
    BY <2>2 DEF Awaits
  <2>5. Awaits(Values, labelled, calls, b, a) => t # a
    BY <2>2 DEF Awaits
  <2>6. Awaits(Values, labelled, calls, a, b) =>
          Awaits(V, labelled \cup {t}, CallsAfter(c), a, b)
    BY <2>1, <2>4, StillAwaits
  <2>7. Awaits(Values, labelled, calls, b, a) =>
          Awaits(V, labelled \cup {t}, CallsAfter(c), b, a)
    BY <2>1, <2>5, StillAwaits
  <2> QED
    BY <1>1, <2>1, <2>3, <2>6, <2>7 DEF Settled, a, b
<1>5. CASE GoesOn(c) /\ a # t /\ b # t
  <2>1. V[a] = Values[a] /\ V[b] = Values[b]
    BY <1>2, <1>3, <1>5 DEF ValuesAfter, Values, PropTypeOK
  <2>2. ~Fresh(a) /\ ~Fresh(b)
    BY <1>5, FreshCall
  <2>3. Awaits(Values, labelled, calls, a, b) =>
          Awaits(V, labelled \cup {t}, CallsAfter(c), a, b)
    BY <1>5, <2>1, StillAwaits
  <2>4. Awaits(Values, labelled, calls, b, a) =>
          Awaits(V, labelled \cup {t}, CallsAfter(c), b, a)
    BY <1>5, <2>1, StillAwaits
  <2> QED
    BY <1>1, <2>1, <2>2, <2>3, <2>4 DEF Settled, a, b
<1>6. CASE a = b
  BY <1>6 DEF Settled, a, b
<1>7. CASE GoesOn(c) /\ a = t /\ b # t
  <2>1. Settled(Values, labelled, calls, t, b) \/ Fresh(t)
    BY <1>1, <1>7, FreshCall
  <2>2. Settled(V, labelled \cup {t}, CallsAfter(c), t, b)
    BY <1>2, <1>3, <1>7, <2>1, ChangedSettles
  <2> QED
    BY <1>7, <2>2 DEF a, b
<1>8. CASE GoesOn(c) /\ b = t /\ a # t
  <2>1. Settled(Values, labelled, calls, t, a) \/ Fresh(t)
    BY <1>1, <1>8, FreshCall, SettledEitherWay
  <2>2. Settled(V, labelled \cup {t}, CallsAfter(c), t, a)
    BY <1>2, <1>3, <1>8, <2>1, ChangedSettles
  <2> QED
    BY <1>8, <2>2, SettledEitherWay DEF a, b
<1> QED
  BY <1>4, <1>5, <1>6, <1>7, <1>8

-----------------------------------------------------------------------------
(* The invariant.                                                          *)

(* Between walks nothing is asked of the invariant.                        *)
LEMMA InitWalk == PropInit => PropTypeOK /\ WalkInv
<1> SUFFICES ASSUME PropInit PROVE PropTypeOK /\ WalkInv
  OBVIOUS
<1>1. TypeOK
  BY InitIInv DEF PropInit, IInv
<1>2. NoWalk \in [kind : {"none", "rate", "size"}, rate : Nat \ {0}, size : Int]
  BY PropagationAssumption DEF PropagationAssumption, NoWalk
<1>3. PropTypeOK
  BY <1>1, <1>2, PropagationAssumption DEF PropagationAssumption, PropInit, PropTypeOK
<1> QED
  BY <1>3 DEF PropInit, WalkInv

(* A client's assignment changes one transform, which is then fresh.       *)
LEMMA BeginWalk ==
  ASSUME PropTypeOK, NEW t \in Transforms, NEW kind \in {"rate", "size"}, Begin(t, kind),
         \/ /\ kind = "rate" /\ UNCHANGED size
            /\ \E r \in Rates : rate' = [rate EXCEPT ![t] = r]
         \/ /\ kind = "size" /\ UNCHANGED rate
            /\ \E n \in Sizes : size' = [size EXCEPT ![t] = n]
  PROVE  PropTypeOK' /\ WalkInv'
<1> DEFINE first == Call(t, t)
<1>1. /\ labelled' = {} /\ calls' = <<{first}>> /\ UNCHANGED vars
      /\ walk' = [kind |-> kind, rate |-> rate'[t], size |-> size'[t]]
      /\ before' = {l \in Links : Agree(l)}
  BY DEF Begin
<1>2. rate' \in [Transforms -> Nat \ {0}] /\ size' \in [Transforms -> Int]
  BY PropagationAssumption DEF PropagationAssumption, PropTypeOK
<1>3. first \in CallSet
  BY DEF Call, CallSet
<1>4. TypeOK' /\ NoDangling'
  BY <1>1 DEF PropTypeOK, TypeOK, vars, Begin, NoDangling
<1>5. PropTypeOK'
  BY <1>1, <1>2, <1>3, <1>4 DEF PropTypeOK
<1>6. \A u \in Transforms : u # t => rate'[u] = rate[u] /\ size'[u] = size[u]
  BY DEF PropTypeOK
<1>7. Fresh(t)'
  BY <1>1 DEF Fresh
<1>8. walk'.kind = kind /\ walk'.rate = rate'[t] /\ walk'.size = size'[t]
  BY <1>1
<1>9. LinksInv'
  <2> SUFFICES ASSUME NEW l \in before'
               PROVE  /\ (l \in Links)' /\ OtherAgrees(l)'
                      /\ \/ Settled(Values, labelled, calls, From(l), Onto(l))'
                         \/ Fresh(From(l))' \/ Fresh(Onto(l))'
    BY DEF LinksInv
  <2>1. l \in Links /\ Agree(l) /\ From(l) \in Transforms /\ Onto(l) \in Transforms
    BY <1>1, Neighbours
  <2>2. Links' = Links
    BY <1>1 DEF vars, Links
  <2>3. rate[From(l)] = rate[Onto(l)] /\ size[From(l)] = size[Onto(l)]
    BY <2>1 DEF Agree, From, Onto
  <2>4. From(l)' = From(l) /\ Onto(l)' = Onto(l)
    BY DEF From, Onto
  <2>5. OtherAgrees(l)'
    BY <1>8, <2>3, <2>4 DEF OtherAgrees
  <2>6. CASE From(l) = t \/ Onto(l) = t
    BY <1>7, <2>1, <2>2, <2>4, <2>5, <2>6
  <2>7. CASE From(l) # t /\ Onto(l) # t
    <3>1. (Values[From(l)] = Values[Onto(l)])'
      BY <1>6, <2>1, <2>3, <2>4, <2>7 DEF Values
    <3> QED
      BY <2>1, <2>2, <2>5, <3>1 DEF Settled
  <2> QED
    BY <2>6, <2>7
<1>10. LabelsInv'
  BY <1>1 DEF LabelsInv
<1>11. StartInv'
  <2>1. \A c : InStack(c, calls') => c = first
    BY <1>1 DEF InStack
  <2>2. first.via = t /\ first.to = t
    BY DEF Call
  <2>3. \A u : Fresh(u)' => u = t
    <3>1. ASSUME NEW u, <<{Call(u, u)}>> = <<{first}>> PROVE u = t
      <4>1. {Call(u, u)} = {first}
        BY <3>1
      <4>2. Call(u, u) = first
        BY <4>1
      <4> QED
        BY <4>2 DEF Call
    <3> QED
      BY <1>1, <3>1 DEF Fresh
  <2> QED
    BY <1>7, <1>8, <2>1, <2>2, <2>3 DEF StartInv
<1> QED
  BY <1>5, <1>8, <1>9, <1>10, <1>11 DEF WalkInv

(* A step of a walk that goes on.                                          *)
LEMMA VisitWalk ==
  ASSUME PropTypeOK, WalkInv, Visit
  PROVE  WalkInv'
<1> SUFFICES ASSUME calls' # <<>>
             PROVE  /\ walk'.kind \in {"rate", "size"}
                    /\ LinksInv' /\ LabelsInv' /\ StartInv'
  BY DEF WalkInv
<1>0. calls # <<>> /\ walk.kind \in {"rate", "size"}
  BY DEF Visit, WalkInv
<1>1. PICK c \in Head(calls) :
        /\ calls' = CallsAfter(c)
        /\ walk.kind = "rate" => rate' = ValuesAfter(c) /\ size' = size
        /\ walk.kind = "size" => size' = ValuesAfter(c) /\ rate' = rate
        /\ labelled' = labelled \cup {c.to} /\ walk' = walk /\ before' = before
        /\ UNCHANGED vars
  BY <1>0, VisitCall
<1>2. c \in CallSet /\ InStack(c, calls)
  BY <1>0, PopHolds DEF PropTypeOK
<1>3. c.to \in Transforms
  BY <1>2 DEF CallSet
<1>4. Values' = ValuesAfter(c) /\ Carried' = Carried
  BY <1>0, <1>1 DEF Values, Carried
<1>5. \A t : Given(t)' = Given(t)
  BY <1>0, <1>1 DEF Given
<1>6. LinksInv'
  <2> SUFFICES ASSUME NEW l \in before
               PROVE  /\ (l \in Links)' /\ OtherAgrees(l)'
                      /\ Settled(Values, labelled, calls, From(l), Onto(l))'
    BY <1>1 DEF LinksInv
  <2>1. l \in Links /\ OtherAgrees(l)
    BY <1>0 DEF WalkInv, LinksInv
  <2>2. Links' = Links
    BY <1>1 DEF vars, Links
  <2>3. OtherAgrees(l)'
    BY <1>0, <1>1, <2>1 DEF OtherAgrees, From, Onto
  <2>4. Settled(ValuesAfter(c), labelled \cup {c.to}, CallsAfter(c), From(l), Onto(l))
    BY <1>0, VisitSettles
  <2>5. Settled(Values, labelled, calls, From(l), Onto(l))'
    BY <1>1, <1>4, <1>5, <2>4 DEF Settled, Awaits, From, Onto
  <2> QED
    BY <2>1, <2>2, <2>3, <2>5
<1>7. LabelsInv'
  <2> SUFFICES ASSUME NEW t \in labelled \cup {c.to}
               PROVE  ValuesAfter(c)[t] \in {Carried, Given(t)}
    BY <1>1, <1>4, <1>5 DEF LabelsInv
  <2>1. CASE GoesOn(c) /\ t = c.to
    BY <1>3, <2>1 DEF ValuesAfter, Values, PropTypeOK
  <2>2. CASE GoesOn(c) /\ t # c.to
    BY <1>0, <1>3, <2>2 DEF ValuesAfter, Values, PropTypeOK, WalkInv, LabelsInv
  <2>3. CASE ~GoesOn(c)
    BY <1>0, <2>3, NewsIsNew DEF ValuesAfter, GoesOn, WalkInv, LabelsInv
  <2> QED
    BY <2>1, <2>2, <2>3
<1>8. StartInv'
  <2>1. \A t : ~Fresh(t)'
    BY <1>1 DEF Fresh
  <2>2. ASSUME NEW d \in CallSet, InStack(d, calls), d.via \in Transforms
        PROVE  d.via \in labelled \cup {c.to}
    BY <1>0, <2>2, FreshCall DEF WalkInv, StartInv
  <2>3. ASSUME NEW d \in CallSet, InStack(d, CallsAfter(c)), d.via \in Transforms
        PROVE  d.via \in labelled \cup {c.to}
    <3>1. CASE InStack(d, calls)
      BY <2>2, <2>3, <3>1
    <3>2. CASE d \in Across(c.to) \cup Within(c) \cup Upward(c)
      BY <1>0, <1>2, <2>2, <2>3, <3>2, CallsMade
    <3> QED
      BY <1>0, <2>3, <3>1, <3>2, CallsAfterHolds
  <2> QED
    BY <1>1, <2>1, <2>3 DEF StartInv
<1> QED
  BY <1>0, <1>1, <1>6, <1>7, <1>8

LEMMA PropStep == PropTypeOK /\ WalkInv /\ [PropNext]_propVars => (PropTypeOK /\ WalkInv)'
<1> SUFFICES ASSUME PropTypeOK, WalkInv, [PropNext]_propVars
             PROVE  (PropTypeOK /\ WalkInv)'
  OBVIOUS
<1>1. CASE EditConnections
  <2>1. PICK gone :
          /\ rate' = [t \in Transforms |-> IF t \in gone THEN DefaultRate ELSE rate[t]]
          /\ size' = [t \in Transforms |-> IF t \in gone THEN DefaultSize ELSE size[t]]
    BY <1>1 DEF EditConnections
  <2>2. rate' \in [Transforms -> Nat \ {0}] /\ size' \in [Transforms -> Int]
    BY <2>1, PropagationAssumption DEF PropagationAssumption, PropTypeOK
  <2> QED
    BY <1>1, <2>2, NextTypeOK DEF EditConnections, PropTypeOK, WalkInv
<1>2. CASE Visit
  BY <1>2, VisitTypeOK, VisitWalk DEF Visit, WalkInv
<1>3. ASSUME NEW t \in Transforms, NEW r \in Rates, SetSampleRate(t, r)
      PROVE  (PropTypeOK /\ WalkInv)'
  BY <1>3, BeginWalk DEF SetSampleRate
<1>4. ASSUME NEW t \in Transforms, NEW n \in Sizes, SetNumberOfSamples(t, n)
      PROVE  (PropTypeOK /\ WalkInv)'
  BY <1>4, BeginWalk DEF SetNumberOfSamples
<1>5. CASE UNCHANGED propVars
  <2>1. UNCHANGED <<vars, rate, size, labelled, calls, walk, before>>
    BY <1>5 DEF propVars, walkVars
  <2>2. PropTypeOK'
    BY <2>1 DEF PropTypeOK, TypeOK, vars, NoDangling
  <2>3. WalkInv'
    BY <2>1 DEF WalkInv, LinksInv, LabelsInv, StartInv, Links, OtherAgrees, Settled,
                Awaits, Values, Carried, Given, Fresh, From, Onto, vars
  <2> QED
    BY <2>2, <2>3
<1> QED
  BY <1>1, <1>2, <1>3, <1>4, <1>5 DEF PropNext

THEOREM WalkInvariant == PropSpec => [](PropTypeOK /\ WalkInv)
BY InitWalk, PropStep, PTL DEF PropSpec

(* Whatever the graph, the patches, the rates and the sizes: two connected *)
(* transforms that agreed before a walk agree when it is over.             *)
THEOREM Agreement == PropSpec => AgreementKept
<1>1. PropTypeOK /\ WalkInv /\ [PropNext]_propVars =>
        [calls # <<>> /\ calls' = <<>> => \A l \in before : Agree(l)']_propVars
  <2> SUFFICES ASSUME PropTypeOK, WalkInv, PropNext, calls # <<>>, calls' = <<>>,
                      NEW l \in before
               PROVE  Agree(l)'
    OBVIOUS
  <2>1. Visit /\ walk.kind \in {"rate", "size"}
    BY DEF PropNext, EditConnections, SetSampleRate, SetNumberOfSamples, Begin, WalkInv
  <2>2. PICK c \in Head(calls) :
          /\ calls' = CallsAfter(c)
          /\ walk.kind = "rate" => rate' = ValuesAfter(c) /\ size' = size
          /\ walk.kind = "size" => size' = ValuesAfter(c) /\ rate' = rate
    BY <2>1, VisitCall
  <2>3. Settled(ValuesAfter(c), labelled \cup {c.to}, CallsAfter(c), From(l), Onto(l))
    BY VisitSettles
  <2>4. \A d : ~InStack(d, CallsAfter(c))
    BY <2>2 DEF InStack
  <2>5. ValuesAfter(c)[From(l)] = ValuesAfter(c)[Onto(l)]
    BY <2>3, <2>4 DEF Settled, Awaits
  <2>6. OtherAgrees(l)
    BY DEF WalkInv, LinksInv
  <2> QED
    BY <2>1, <2>2, <2>5, <2>6 DEF OtherAgrees, Agree, From, Onto
<1> QED
  BY <1>1, WalkInvariant, PTL DEF PropSpec, AgreementKept
=============================================================================
