---------------------------- MODULE EditorProofs ----------------------------
(***************************************************************************)
(* Proofs about the editor, for any transforms and terminals, when figures *)
(* are drawn around free terminals only, transforms are not destroyed      *)
(* before the editor has forgotten their terminals, and all terminals are  *)
(* of one type.                                                            *)
(***************************************************************************)
EXTENDS Editor, ConnectionsProofs, ListProofs

(* No connection is refused, and no inlet replaced.                        *)
OneType ==
  /\ Changeable = {}
  /\ \A o \in Outlets, i \in Inlets : Accepts(o, InletType[i])

Commands ==
  ({"unline", "forget", "make"} \X Terminals)
    \cup ({"connect", "draw"} \X Outlets \X Inlets)
    \cup ({"remove"} \X Transforms)

Ahead == ToSet(script)
Queued == ToSet(doomed)
Living == liveInlets \cup liveOutlets

(* A transform is deleted before another one, which may not be queued yet. *)
Before(tr, other) ==
  \E k \in DOMAIN doomed : doomed[k] = tr /\ \A j \in 1 .. k : doomed[j] # other

EditTypes ==
  /\ shown \subseteq Living
  /\ lines \subseteq shown \X shown
  /\ drag \in Outlets \cup {None}
  /\ script \in Seq(Commands)
  /\ doomed \in Seq(Transforms)

(* A wire drawn and its ends name each other.                              *)
Named ==
  /\ lines \subseteq Outlets \X Inlets
  /\ lineOf \in [Terminals -> (Outlets \X Inlets) \cup {None}]
  /\ \A l \in lines : lineOf[l[1]] = l /\ lineOf[l[2]] = l
  /\ \A t \in Terminals : lineOf[t] # None =>
       lineOf[t] \in lines /\ t \in {lineOf[t][1], lineOf[t][2]}

(* Nothing is refused; a recorded source leads to the inlet, not always    *)
(* the other way round; and what is drawn is connected.                    *)
Recorded ==
  /\ wire = sink
  /\ \A i \in Inlets : source[i] # None => sink[source[i]] = i
  /\ \A l \in lines : sink[l[1]] = l[2]

Base == TypeOK /\ NoDangling /\ Named /\ Recorded

(* The rest of a gesture that connects, or of the one before it.           *)
Dropping(o, i) == << <<"connect", o, i>>, <<"unline", i>>, <<"draw", o, i>> >>
Linking(o, i) == << <<"connect", o, i>>, <<"draw", o, i>> >>
Clearing(o, i) == << <<"unline", i>>, <<"draw", o, i>> >>
Drawing(o, i) == << <<"draw", o, i>> >>
Lifting(o) == << <<"unline", o>> >>

(* What is connected without being drawn is about to be drawn, or comes    *)
(* from an outlet that will be destroyed before the inlet.                 *)
Drawn ==
  \A o \in Outlets, i \in Inlets : sink[o] = i /\ <<o, i>> \notin lines =>
    \/ script \in {Clearing(o, i), Drawing(o, i)}
    \/ o \notin shown /\ Before(Owner[o], Owner[i])

(* The ends of a gesture that connects are free when it needs them so.     *)
Linked ==
  \A o \in Outlets, i \in Inlets :
    /\ script \in {Dropping(o, i), Linking(o, i)} => sink[o] = None
    /\ script \in {Clearing(o, i), Drawing(o, i)} =>
         lineOf[o] = None /\ (o \in liveOutlets => sink[o] = i)
    /\ script \in {Linking(o, i), Drawing(o, i)} => lineOf[i] = None
    /\ script \in {Dropping(o, i), Linking(o, i), Clearing(o, i), Drawing(o, i)} =>
         i \in shown /\ drag = None

Objects == {"forget", "make", "remove"}
Rebuilds(s) == \A k \in DOMAIN s : s[k][1] \in Objects

(* A gesture connects, gives up the wire of the outlet to be dragged, or   *)
(* deletes and makes terminals.                                            *)
Gestures ==
  \/ \E o \in Outlets, i \in Inlets :
       script \in {Dropping(o, i), Linking(o, i), Clearing(o, i), Drawing(o, i)}
  \/ drag \in Outlets \cap shown /\ script = Lifting(drag)
  \/ Rebuilds(script)

Dragged == drag # None => script = Lifting(drag) \/ sink[drag] = None

(* A terminal the editor has forgotten, or is about to, is of a transform  *)
(* that is queued for deletion, or about to be; the others are not.        *)
Leaving ==
  /\ \A t \in Living : t \notin shown \/ <<"forget", t>> \in Ahead =>
       Owner[t] \in Queued \/ <<"remove", Owner[t]>> \in Ahead
  /\ \A t \in shown : Owner[t] \in Queued \/ <<"remove", Owner[t]>> \in Ahead =>
       <<"forget", t>> \in Ahead
  /\ \A t \in Terminals : <<"make", t>> \in Ahead =>
       /\ Owner[t] \notin Queued /\ <<"remove", Owner[t]>> \notin Ahead
       /\ <<"forget", t>> \notin Ahead

RemovesOnce(s) ==
  \A j, k \in DOMAIN s : s[j][1] = "remove" /\ s[k][1] = "remove" => j = k

(* No transform is queued twice.                                           *)
QueuedOnce ==
  /\ IsInjective(doomed)
  /\ \A tr \in Transforms : <<"remove", tr>> \in Ahead => tr \notin Queued
  /\ RemovesOnce(script)

EInv ==
  /\ Base /\ EditTypes /\ Drawn /\ Linked
  /\ Gestures /\ Dragged /\ Leaving /\ QueuedOnce

-----------------------------------------------------------------------------
(* Scripts.                                                                *)

(* The sequence of a finite set holds the elements of the set.             *)
LEMMA ListedSet ==
  ASSUME NEW S, IsFiniteSet(S)
  PROVE  SetToSeq(S) \in Seq(S) /\ ToSet(SetToSeq(S)) = S
<1> DEFINE n == Cardinality(S)
<1>1. n \in Nat /\ ExistsBijection(1 .. n, S)
  BY FS_CardinalityType
<1>2. PICK f \in [1 .. n -> S] : IsInjective(f)
  BY <1>1 DEF ExistsBijection, Bijection, Injection
<1>3. SetToSeq(S) \in [1 .. n -> S] /\ IsInjective(SetToSeq(S))
  BY <1>2 DEF SetToSeq
<1> DEFINE g == SetToSeq(S)
<1>4. g \in Seq(S)
  BY <1>1, <1>3
<1>5. ASSUME NEW x \in S PROVE \E k \in 1 .. n : g[k] = x
  <2> SUFFICES ASSUME \A k \in 1 .. n : g[k] # x PROVE FALSE
    OBVIOUS
  <2> DEFINE T == S \ {x}
  <2>1. g \in [1 .. n -> T] /\ \A j, k \in 1 .. n : g[j] = g[k] => j = k
    BY <1>3 DEF IsInjective
  <2>2. g \in Injection(1 .. n, T)
    BY <2>1 DEF Injection, IsInjective
  <2>3. IsFiniteSet(T) /\ Cardinality(T) = n - 1
    BY FS_RemoveElement
  <2>4. Cardinality(1 .. n) = n /\ IsFiniteSet(1 .. n)
    BY <1>1, FS_Interval
  <2>5. Cardinality(1 .. n) <= Cardinality(T)
    BY <2>2, <2>3, <2>4, FS_Injection DEF ExistsInjection
  <2> QED
    BY <1>1, <2>3, <2>4, <2>5
<1>6. ToSet(g) = S
  BY <1>3, <1>5 DEF ToSet
<1> QED
  BY <1>4, <1>6

LEMMA TerminalsListed ==
  ASSUME NEW tr
  PROVE  /\ TerminalsOf(tr) \in Seq(Terminals)
         /\ ToSet(TerminalsOf(tr)) = {t \in Terminals : Owner[t] = tr}
<1> DEFINE I == {i \in Inlets : Owner[i] = tr}
           O == {o \in Outlets : Owner[o] = tr}
           p == SetToSeq(I)
           q == SetToSeq(O)
<1>1. IsFiniteSet(I) /\ IsFiniteSet(O)
  <2>1. I \in SUBSET Terminals /\ O \in SUBSET Terminals
    BY DEF Terminals
  <2> QED
    BY <2>1, EditorAssumption, FS_Subset DEF EditorAssumption
<1>2. p \in Seq(I) /\ ToSet(p) = I /\ q \in Seq(O) /\ ToSet(q) = O
  BY <1>1, ListedSet
<1>3. p \in Seq(Terminals) /\ q \in Seq(Terminals)
  BY <1>2 DEF Terminals
<1>4. TerminalsOf(tr) = p \o q
  BY DEF TerminalsOf
<1>5. I \cup O = {t \in Terminals : Owner[t] = tr}
  BY DEF Terminals
<1> HIDE DEF p, q
<1>6. p \o q \in Seq(Terminals) /\ ToSet(p \o q) = ToSet(p) \cup ToSet(q)
  BY <1>3, ConcatList
<1> QED
  BY <1>2, <1>4, <1>5, <1>6

LEMMA EachListed ==
  ASSUME NEW op \in {"forget", "make"}, NEW tr
  PROVE  /\ Each(op, TerminalsOf(tr)) \in Seq(Commands)
         /\ ToSet(Each(op, TerminalsOf(tr)))
              = {<<op, t>> : t \in {u \in Terminals : Owner[u] = tr}}
         /\ \A k \in DOMAIN Each(op, TerminalsOf(tr)) :
              Each(op, TerminalsOf(tr))[k][1] = op
<1> DEFINE s == TerminalsOf(tr)
           e == Each(op, s)
<1>1. /\ s \in Seq(Terminals) /\ ToSet(s) = {t \in Terminals : Owner[t] = tr}
  BY TerminalsListed
<1>2. DOMAIN e = 1 .. Len(s) /\ Len(s) \in Nat /\ DOMAIN s = 1 .. Len(s)
  BY <1>1 DEF Each
<1>3. \A k \in DOMAIN e : e[k] = <<op, s[k]>> /\ s[k] \in Terminals
  BY <1>1, <1>2 DEF Each
<1>4. \A k \in DOMAIN e : e[k] \in Commands
  BY <1>3 DEF Commands
<1>5. e \in Seq(Commands)
  <2>1. e = [k \in 1 .. Len(s) |-> e[k]]
    BY <1>2 DEF Each
  <2> QED
    BY <1>2, <1>4, <2>1
<1>6. ToSet(e) = {<<op, t>> : t \in ToSet(s)}
  BY <1>2, <1>3 DEF ToSet
<1>7. \A k \in DOMAIN e : e[k][1] = op
  BY <1>3
<1> QED
  BY <1>1, <1>5, <1>6, <1>7

(* The forms of a gesture that connects have different lengths and heads.  *)
LEMMA Forms ==
  ASSUME NEW o, NEW i, NEW p, NEW j
  PROVE  /\ Dropping(o, i) = Dropping(p, j) => o = p /\ i = j
         /\ Linking(o, i) = Linking(p, j) => o = p /\ i = j
         /\ Clearing(o, i) = Clearing(p, j) => o = p /\ i = j
         /\ Drawing(o, i) = Drawing(p, j) => o = p /\ i = j
         /\ Dropping(o, i) \notin {Linking(p, j), Clearing(p, j), Drawing(p, j), Lifting(p), <<>>}
         /\ Linking(o, i) \notin {Clearing(p, j), Drawing(p, j), Lifting(p), <<>>}
         /\ Clearing(o, i) \notin {Drawing(p, j), Lifting(p), <<>>}
         /\ Drawing(o, i) \notin {Lifting(p), <<>>}
         /\ Lifting(o) # <<>>
BY DEF Dropping, Linking, Clearing, Drawing, Lifting

(* None of them makes, forgets or removes anything.                        *)
LEMMA FormsRebuildNothing ==
  ASSUME NEW o, NEW i, NEW s \in {Dropping(o, i), Linking(o, i), Clearing(o, i), Drawing(o, i), Lifting(o)}
  PROVE  ~Rebuilds(s) /\ s # <<>> /\ \A k \in DOMAIN s : s[k][1] \notin Objects
<1>1. \A c \in {<<"connect", o, i>>, <<"unline", i>>, <<"unline", o>>, <<"draw", o, i>>} :
        c[1] \notin Objects
  BY DEF Objects
<1>2. CASE s = Dropping(o, i)
  BY <1>1, <1>2 DEF Rebuilds, Dropping
<1>3. CASE s = Linking(o, i)
  BY <1>1, <1>3 DEF Rebuilds, Linking
<1>4. CASE s = Clearing(o, i)
  BY <1>1, <1>4 DEF Rebuilds, Clearing
<1>5. CASE s = Drawing(o, i)
  BY <1>1, <1>5 DEF Rebuilds, Drawing
<1>6. CASE s = Lifting(o)
  BY <1>1, <1>6 DEF Rebuilds, Lifting
<1> QED
  BY <1>2, <1>3, <1>4, <1>5, <1>6

LEMMA RebuildsAll ==
  ASSUME NEW s
  PROVE  Rebuilds(s) <=> \A c \in ToSet(s) : c[1] \in Objects
BY DEF Rebuilds, ToSet

LEMMA RemovesOnceOf ==
  ASSUME NEW S, NEW s \in Seq(S), NEW t \in Seq(S),
         \/ RemovesOnce(s) /\ \A c \in ToSet(t) : c[1] # "remove"
         \/ RemovesOnce(t) /\ \A c \in ToSet(s) : c[1] # "remove"
  PROVE  RemovesOnce(s \o t)
<1> DEFINE u == s \o t
<1>1. /\ \A k \in 1 .. Len(s) : u[k] = s[k]
      /\ \A k \in 1 .. Len(t) : u[Len(s) + k] = t[k]
      /\ DOMAIN u = 1 .. Len(s) + Len(t) /\ DOMAIN s = 1 .. Len(s) /\ DOMAIN t = 1 .. Len(t)
      /\ Len(s) \in Nat /\ Len(t) \in Nat
  OBVIOUS
<1>2. \A k \in DOMAIN u : k \in DOMAIN s \/ k - Len(s) \in DOMAIN t
  BY <1>1
<1> HIDE DEF u
<1>3. \A k \in DOMAIN s : s[k] \in ToSet(s)
  BY DEF ToSet
<1>4. \A k \in DOMAIN t : t[k] \in ToSet(t)
  BY DEF ToSet
<1>5. \A k \in DOMAIN u : k \in Int /\ (k - Len(s) \in DOMAIN t => u[k] = t[k - Len(s)])
  BY <1>1
<1>6. \A k \in DOMAIN s : u[k] = s[k]
  BY <1>1
<1> SUFFICES ASSUME NEW j \in DOMAIN u, NEW k \in DOMAIN u,
                    u[j][1] = "remove", u[k][1] = "remove"
             PROVE  j = k
  BY DEF RemovesOnce, u
<1>7. CASE RemovesOnce(s) /\ \A c \in ToSet(t) : c[1] # "remove"
  BY <1>2, <1>4, <1>5, <1>6, <1>7 DEF RemovesOnce
<1>8. CASE RemovesOnce(t) /\ \A c \in ToSet(s) : c[1] # "remove"
  <2>1. j - Len(s) \in DOMAIN t /\ k - Len(s) \in DOMAIN t
    BY <1>2, <1>3, <1>6, <1>8
  <2>2. j - Len(s) = k - Len(s)
    BY <1>5, <1>8, <2>1 DEF RemovesOnce
  <2> QED
    BY <1>1, <1>5, <2>2
<1> QED
  BY <1>7, <1>8

LEMMA RemovesOnceTail ==
  ASSUME NEW S, NEW s \in Seq(S), s # <<>>, RemovesOnce(s)
  PROVE  /\ RemovesOnce(Tail(s))
         /\ Head(s)[1] = "remove" => \A c \in ToSet(Tail(s)) : c[1] # "remove"
<1> DEFINE t == Tail(s)
<1>1. /\ Head(s) = s[1] /\ \A k \in DOMAIN t : t[k] = s[k + 1]
      /\ DOMAIN s = 1 .. Len(s) /\ DOMAIN t = 1 .. Len(t)
      /\ Len(s) \in Nat /\ Len(t) = Len(s) - 1 /\ Len(s) # 0
  OBVIOUS
<1>2. 1 \in DOMAIN s /\ \A k \in DOMAIN t : k \in Nat /\ k # 0 /\ k + 1 \in DOMAIN s /\ t[k] = s[k + 1]
  BY <1>1
<1> HIDE DEF t
<1>3. RemovesOnce(t)
  BY <1>2 DEF RemovesOnce
<1>4. ASSUME Head(s)[1] = "remove", NEW k \in DOMAIN t PROVE t[k][1] # "remove"
  BY <1>1, <1>2, <1>4 DEF RemovesOnce
<1> QED
  BY <1>3, <1>4 DEF ToSet, t

LEMMA NothingAhead ==
  ASSUME Idle
  PROVE  Ahead = {}
<1>1. DOMAIN script = {}
  BY DEF Idle
<1> QED
  BY <1>1 DEF Ahead, ToSet

-----------------------------------------------------------------------------
(* Wires and connections.                                                  *)

(* Deleting the wire drawn at a terminal, if any, breaks its connection    *)
(* and touches no other.                                                   *)
LEMMA LineDeleted ==
  ASSUME Base, lines \subseteq liveOutlets \X Inlets,
         NEW t \in Terminals, DeleteLineAt(t)
  PROVE  /\ Base'
         /\ lines' = {l \in lines : t \notin {l[1], l[2]}}
         /\ lineOf'[t] = None
         /\ \A u \in Terminals : lineOf'[u] \in {lineOf[u], None}
         /\ \A o \in Outlets : /\ sink'[o] \in {sink[o], None}
                               /\ lineOf[o] = None => sink'[o] = sink[o]
         /\ \A o \in Outlets, i \in Inlets :
              sink'[o] = i /\ <<o, i>> \notin lines' =>
                sink[o] = i /\ <<o, i>> \notin lines
         /\ UNCHANGED <<liveInlets, liveOutlets, type>>
<1> USE ConnectionsAssumption DEF ConnectionsAssumption
<1>0. TypeOK /\ NoDangling /\ Named /\ Recorded
  BY DEF Base
<1>1. CASE lineOf[t] = None
  <2>1. UNCHANGED <<vars, lines, lineOf>>
    BY <1>1 DEF DeleteLineAt
  <2>2. \A l \in lines : t \notin {l[1], l[2]}
    BY <1>0, <1>1, EditorAssumption DEF Named, EditorAssumption
  <2>3. UNCHANGED <<liveInlets, liveOutlets, type, source, sink, wire>>
    BY <2>1 DEF vars
  <2>4. Base'
    BY <1>0, <2>1, <2>3 DEF Base, TypeOK, NoDangling, Named, Recorded
  <2> QED
    BY <1>1, <2>1, <2>2, <2>3, <2>4
<1>2. CASE lineOf[t] # None
  <2> DEFINE l == lineOf[t]
             o == l[1]
             i == l[2]
  <2>1. /\ l \in lines /\ DeleteLine(l) /\ t \in {o, i}
        /\ o \in Outlets /\ i \in Inlets /\ l = <<o, i>> /\ o \in liveOutlets
        /\ lineOf[o] = l /\ l # None
    BY <1>0, <1>2 DEF Named, DeleteLineAt
  <2>2. sink[o] = i /\ sink[o] # None
    BY <1>0, <2>1 DEF Recorded
  <2>3. /\ lines' = lines \ {l}
        /\ lineOf' = [lineOf EXCEPT ![o] = None, ![i] = None]
        /\ Disconnect(o)
    BY <2>1, <2>2 DEF DeleteLine
  <2>4. /\ source' = [source EXCEPT ![i] = None]
        /\ sink' = [sink EXCEPT ![o] = None]
        /\ wire' = [wire EXCEPT ![o] = None]
        /\ UNCHANGED <<liveInlets, liveOutlets, type>>
    BY <2>2, <2>3 DEF Disconnect
  <2>5. o \in Terminals /\ i \in Terminals /\ o # i
    BY <2>1, EditorAssumption DEF Terminals, EditorAssumption
  <2> HIDE DEF l, o, i
  <2>6. TypeOK' /\ NoDangling'
    BY <1>0, <2>1, <2>4 DEF TypeOK, NoDangling
  <2>7. \A m \in lines' : m \in lines /\ m[1] # o /\ m[2] # i
    <3> SUFFICES ASSUME NEW m \in lines, m # l PROVE m[1] # o /\ m[2] # i
      BY <2>3
    <3> QED
      BY <1>0, <2>1 DEF Named
  <2>8. lineOf' \in [Terminals -> (Outlets \X Inlets) \cup {None}]
    BY <1>0, <2>3 DEF Named
  <2>9. \A u \in Terminals : lineOf'[u] = IF u \in {o, i} THEN None ELSE lineOf[u]
    BY <1>0, <2>3, <2>5 DEF Named
  <2>10. Named'
    <3>1. \A m \in lines' : m[1] \in Terminals /\ m[2] \in Terminals
                            /\ m[1] \in Outlets /\ m[2] \in Inlets
      BY <1>0, <2>7 DEF Named, Terminals
    <3>2. \A m \in lines' : lineOf'[m[1]] = m /\ lineOf'[m[2]] = m
      <4> SUFFICES ASSUME NEW m \in lines' PROVE lineOf'[m[1]] = m /\ lineOf'[m[2]] = m
        OBVIOUS
      <4>1. m[1] # i /\ m[2] # o
        BY <2>1, <3>1, EditorAssumption DEF EditorAssumption
      <4> QED
        BY <1>0, <2>7, <2>9, <3>1, <4>1 DEF Named
    <3>3. ASSUME NEW u \in Terminals, lineOf'[u] # None
          PROVE  lineOf'[u] \in lines' /\ u \in {lineOf'[u][1], lineOf'[u][2]}
      <4>1. u \notin {o, i} /\ lineOf'[u] = lineOf[u]
        BY <2>9, <3>3
      <4>2. lineOf[u] \in lines /\ u \in {lineOf[u][1], lineOf[u][2]}
        BY <1>0, <3>3, <4>1 DEF Named
      <4>3. lineOf[u] # l
        BY <2>1, <4>1, <4>2
      <4> QED
        BY <2>3, <4>1, <4>2, <4>3
    <3> QED
      BY <1>0, <2>3, <2>8, <3>2, <3>3 DEF Named
  <2>11. Recorded'
    BY <1>0, <2>1, <2>4, <2>7 DEF Recorded, TypeOK, Named
  <2>12. lines' = {m \in lines : t \notin {m[1], m[2]}}
    <3>1. ASSUME NEW m \in lines, t \in {m[1], m[2]} PROVE m = l
      BY <1>0, <3>1 DEF Named, l
    <3> QED
      BY <2>1, <2>3, <3>1
  <2>13. \A p \in Outlets : /\ sink'[p] \in {sink[p], None}
                            /\ lineOf[p] = None => sink'[p] = sink[p]
    BY <1>0, <2>1, <2>4 DEF TypeOK
  <2>14. \A p \in Outlets, j \in Inlets :
           sink'[p] = j /\ <<p, j>> \notin lines' => sink[p] = j /\ <<p, j>> \notin lines
    BY <1>0, <2>1, <2>3, <2>4 DEF TypeOK
  <2> QED
    BY <2>1, <2>4, <2>6, <2>9, <2>10, <2>11, <2>12, <2>13, <2>14 DEF Base
<1> QED
  BY <1>1, <1>2

(* No record of the editor's transforms leads to freed memory.             *)
LEMMA NoneIsFreed ==
  ASSUME TypeOK, NoDangling
  PROVE  /\ \A o \in Outlets : sink[o] \in Inlets \cup {None} /\ wire[o] \in Inlets \cup {None}
         /\ \A i \in Inlets : source[i] \in Outlets \cup {None}
BY DEF TypeOK, NoDangling

(* With one type a free outlet that is connected to an inlet is recorded   *)
(* for it and sends to it, and no other outlet is touched.                 *)
LEMMA FreeOutletConnected ==
  ASSUME OneType, Base, NEW o \in Outlets, NEW i \in Inlets, sink[o] = None,
         Connect(o, i), UNCHANGED <<lines, lineOf>>
  PROVE  /\ Base'
         /\ sink' = [sink EXCEPT ![o] = i] /\ wire'[o] = i
         /\ UNCHANGED <<liveInlets, liveOutlets, type>>
<1> USE ConnectionsAssumption DEF ConnectionsAssumption
<1>0. TypeOK /\ NoDangling /\ Named /\ Recorded
  BY DEF Base
<1>1. ~Changes(o, i)
  BY DEF Changes, OneType
<1>2. /\ o \in liveOutlets /\ i \in liveInlets
      /\ UNCHANGED <<liveInlets, liveOutlets, type>>
      /\ source' = [source EXCEPT ![i] = o]
      /\ sink' = [Freeing(sink, {}, {}) EXCEPT ![o] = i]
      /\ wire' = [Freeing(wire, {}, {}) EXCEPT ![o] = IF Accepts(o, type'[i]) THEN i ELSE None]
  <2>1. {source[j] : j \in {}} = {}
    OBVIOUS
  <2> QED
    BY <1>1, <2>1 DEF Connect
<1>3. Freeing(sink, {}, {}) = sink /\ Freeing(wire, {}, {}) = wire
  BY <1>0, NoneFreed
<1>4. type'[i] = InletType[i]
  BY <1>0, <1>2 DEF TypeOK, OneType
<1>5. Accepts(o, type'[i])
  BY <1>4 DEF OneType
<1>6. sink' = [sink EXCEPT ![o] = i] /\ wire' = [wire EXCEPT ![o] = i]
  BY <1>2, <1>3, <1>5
<1>7. TypeOK' /\ NoDangling'
  <2>1. TypeOK'
    <3>1. /\ UNCHANGED <<liveInlets, liveOutlets, type>>
          /\ source' = [source EXCEPT ![i] = o]
      BY <1>2
    <3>2. source' \in [Inlets -> Outlets \cup {Freed, None}]
      BY <1>0, <3>1 DEF TypeOK
    <3>3. sink' \in [Outlets -> Inlets \cup {Freed, None}] /\ wire' \in [Outlets -> Inlets \cup {Freed, None}]
      BY <1>0, <1>6 DEF TypeOK
    <3> QED
      BY <1>0, <3>1, <3>2, <3>3 DEF TypeOK
  <2>2. wire = sink
    BY <1>0 DEF Recorded
  <2>3. NoDangling'
    BY <1>0, <1>2, <1>6, <2>2 DEF TypeOK, NoDangling
  <2> QED
    BY <2>1, <2>3
<1>8. Named'
  BY <1>0 DEF Named
<1>9. Recorded'
  <2>1. wire' = sink'
    BY <1>0, <1>6 DEF Recorded
  <2>2. ASSUME NEW j \in Inlets, source'[j] # None PROVE sink'[source'[j]] = j
    <3>1. CASE j = i
      BY <1>0, <1>2, <1>6, <3>1 DEF TypeOK
    <3>2. CASE j # i
      <4>1. source'[j] = source[j] /\ source[j] \in Outlets /\ sink[source[j]] = j
        BY <1>0, <1>2, <2>2, <3>2, NoneIsFreed DEF TypeOK, Recorded
      <4>2. source[j] # o
        BY <4>1
      <4> QED
        BY <1>0, <1>6, <4>1, <4>2 DEF TypeOK
    <3> QED
      BY <3>1, <3>2
  <2>3. ASSUME NEW l \in lines PROVE sink'[l[1]] = l[2]
    <3>1. l[1] \in Outlets /\ l[2] \in Inlets /\ sink[l[1]] = l[2]
      BY <1>0 DEF Named, Recorded
    <3>2. l[1] # o
      BY <3>1
    <3> QED
      BY <1>0, <1>6, <3>1, <3>2 DEF TypeOK
  <2> QED
    BY <2>1, <2>2, <2>3 DEF Recorded
<1>10. wire'[o] = i
  BY <1>0, <1>6 DEF TypeOK
<1> QED
  BY <1>2, <1>6, <1>7, <1>8, <1>9, <1>10 DEF Base

-----------------------------------------------------------------------------
(* What the user does.                                                     *)

LEMMA BaseStays ==
  ASSUME Base, UNCHANGED <<vars, lines, lineOf>>
  PROVE  Base'
BY DEF Base, vars, TypeOK, NoDangling, Named, Recorded

(* Between gestures.                                                       *)
LEMMA IdleFacts ==
  ASSUME EInv, Idle
  PROVE  /\ Ahead = {}
         /\ \A o \in Outlets, i \in Inlets : sink[o] = i /\ <<o, i>> \notin lines =>
              o \notin shown /\ Before(Owner[o], Owner[i])
         /\ drag # None => sink[drag] = None
         /\ \A t \in Living : t \notin shown <=> Owner[t] \in Queued
         /\ shown \subseteq Living
<1>1. Ahead = {}
  BY NothingAhead
<1>2. \A o, i : /\ script \notin {Clearing(o, i), Drawing(o, i)}
                /\ script # Lifting(o)
  BY Forms DEF Idle
<1>3. Drawn /\ Dragged /\ Leaving /\ EditTypes
  BY DEF EInv
<1>4. \A o \in Outlets, i \in Inlets : sink[o] = i /\ <<o, i>> \notin lines =>
        o \notin shown /\ Before(Owner[o], Owner[i])
  BY <1>2, <1>3 DEF Drawn
<1>5. drag # None => sink[drag] = None
  BY <1>2, <1>3 DEF Dragged
<1>6. \A t \in Living : t \notin shown <=> Owner[t] \in Queued
  BY <1>1, <1>3 DEF Leaving
<1> QED
  BY <1>1, <1>3, <1>4, <1>5, <1>6 DEF EditTypes

Gentle(s) == \A k \in DOMAIN s : s[k][1] \notin Objects

(* Scripts that make, forget and remove nothing leave alone who is queued. *)
LEMMA Bystanding ==
  ASSUME EInv, Gentle(script), Gentle(script'),
         UNCHANGED <<doomed, shown, liveInlets, liveOutlets>>
  PROVE  Leaving' /\ QueuedOnce'
<1>1. \A c \in Ahead \cup Ahead' : c[1] \notin Objects
  BY DEF Gentle, Ahead, ToSet
<1>2. \A t : /\ <<"forget", t>> \notin Ahead /\ <<"forget", t>> \notin Ahead'
             /\ <<"make", t>> \notin Ahead /\ <<"make", t>> \notin Ahead'
             /\ <<"remove", t>> \notin Ahead /\ <<"remove", t>> \notin Ahead'
  BY <1>1 DEF Objects
<1>3. Living' = Living /\ Queued' = Queued
  BY DEF Living, Queued
<1>4. Leaving'
  BY <1>2, <1>3 DEF EInv, Leaving
<1>5. RemovesOnce(script')
  BY DEF Gentle, RemovesOnce, Objects
<1> QED
  BY <1>2, <1>4, <1>5 DEF EInv, QueuedOnce

LEMMA IdleGentle ==
  ASSUME Idle
  PROVE  Gentle(script)
BY DEF Idle, Gentle

LEMMA StartInv ==
  ASSUME EInv, NEW o \in Outlets, StartConnection(o)
  PROVE  EInv'
<1>1. /\ Idle /\ o \in shown /\ drag' = o /\ script' = Lifting(o)
      /\ UNCHANGED <<vars, picture, doomed>>
  BY DEF StartConnection, Lifting
<1>2. UNCHANGED <<liveInlets, liveOutlets, sink, shown, lines, lineOf>>
  BY <1>1 DEF vars, picture
<1>3. Base'
  BY <1>1, <1>2, BaseStays DEF EInv
<1>4. EditTypes'
  <2>1. <<"unline", o>> \in Commands
    BY DEF Commands, Terminals
  <2>2. script' \in Seq(Commands)
    BY <1>1, <2>1 DEF Lifting
  <2> QED
    BY <1>1, <1>2, <2>2 DEF EInv, EditTypes, Living
<1>5. Drawn'
  BY <1>1, <1>2, IdleFacts DEF Drawn, Before
<1>6. Linked'
  BY <1>1, Forms DEF Linked
<1>7. Gestures' /\ Dragged'
  BY <1>1, <1>2 DEF Gestures, Dragged
<1>8. Leaving' /\ QueuedOnce'
  <2>1. Gentle(script')
    BY <1>1, FormsRebuildNothing DEF Gentle
  <2> QED
    BY <1>1, <1>2, <2>1, IdleGentle, Bystanding
<1> QED
  BY <1>3, <1>4, <1>5, <1>6, <1>7, <1>8 DEF EInv

LEMMA EstablishInv ==
  ASSUME EInv, NEW i \in Inlets, EstablishConnection(i)
  PROVE  EInv'
<1> DEFINE o == drag
<1>1. /\ Idle /\ o # None /\ i \in shown /\ drag' = None /\ script' = Dropping(o, i)
      /\ UNCHANGED <<vars, picture, doomed>>
  BY DEF EstablishConnection, Dropping
<1>2. UNCHANGED <<liveInlets, liveOutlets, sink, shown, lines, lineOf>>
  BY <1>1 DEF vars, picture
<1>3. Base'
  BY <1>1, <1>2, BaseStays DEF EInv
<1>4. o \in Outlets /\ sink[o] = None
  BY <1>1, IdleFacts DEF EInv, EditTypes
<1>5. EditTypes'
  <2>1. {<<"connect", o, i>>, <<"unline", i>>, <<"draw", o, i>>} \subseteq Commands
    BY <1>4 DEF Commands, Terminals
  <2>2. script' \in Seq(Commands)
    BY <1>1, <2>1 DEF Dropping
  <2> QED
    BY <1>1, <1>2, <2>2 DEF EInv, EditTypes, Living
<1>6. Drawn'
  BY <1>1, <1>2, IdleFacts DEF Drawn, Before
<1> HIDE DEF o
<1>7. Linked'
  BY <1>1, <1>2, <1>4, Forms DEF Linked
<1>8. Gestures' /\ Dragged'
  BY <1>1, <1>4 DEF Gestures, Dragged
<1>9. Leaving' /\ QueuedOnce'
  <2>1. Gentle(script')
    BY <1>1, FormsRebuildNothing DEF Gentle
  <2> QED
    BY <1>1, <1>2, <2>1, IdleGentle, Bystanding
<1> QED
  BY <1>3, <1>5, <1>6, <1>7, <1>8, <1>9 DEF EInv

(* An outlet that is shown and has no wire is not connected.               *)
LEMMA FreeAsShown ==
  ASSUME EInv, Idle, NEW o \in Outlets, o \in shown, lineOf[o] = None
  PROVE  sink[o] = None
<1> SUFFICES ASSUME sink[o] # None PROVE FALSE
  OBVIOUS
<1>1. sink[o] \in Inlets
  BY NoneIsFreed DEF EInv, Base
<1>2. <<o, sink[o]>> \in lines
  BY <1>1, IdleFacts
<1>3. lineOf[o] = <<o, sink[o]>>
  BY <1>2 DEF EInv, Base, Named
<1> QED
  BY <1>1, <1>3, EditorAssumption DEF EditorAssumption

LEMMA GestureInv ==
  ASSUME ~TakenGestures, EInv, NEW o \in Outlets, NEW i \in Inlets,
         DrawAndMakeConnection(o, i)
  PROVE  EInv'
<1>1. /\ Idle /\ drag = None /\ o \in shown /\ i \in shown
      /\ lineOf[o] = None /\ lineOf[i] = None
      /\ drag' = None /\ script' = Linking(o, i)
      /\ UNCHANGED <<vars, picture, doomed>>
  BY DEF DrawAndMakeConnection, Linking
<1>2. UNCHANGED <<liveInlets, liveOutlets, sink, shown, lines, lineOf>>
  BY <1>1 DEF vars, picture
<1>3. Base'
  BY <1>1, <1>2, BaseStays DEF EInv
<1>4. sink[o] = None
  BY <1>1, FreeAsShown
<1>5. EditTypes'
  <2>1. {<<"connect", o, i>>, <<"draw", o, i>>} \subseteq Commands
    BY DEF Commands
  <2>2. script' \in Seq(Commands)
    BY <1>1, <2>1 DEF Linking
  <2> QED
    BY <1>1, <1>2, <2>2 DEF EInv, EditTypes, Living
<1>6. Drawn'
  BY <1>1, <1>2, IdleFacts DEF Drawn, Before
<1>7. Linked'
  BY <1>1, <1>2, <1>4, Forms DEF Linked
<1>8. Gestures' /\ Dragged'
  BY <1>1 DEF Gestures, Dragged
<1>9. Leaving' /\ QueuedOnce'
  <2>1. Gentle(script')
    BY <1>1, FormsRebuildNothing DEF Gentle
  <2> QED
    BY <1>1, <1>2, <2>1, IdleGentle, Bystanding
<1> QED
  BY <1>3, <1>5, <1>6, <1>7, <1>8, <1>9 DEF EInv

(* Any gesture that makes, forgets or removes leaves the wires alone until *)
(* its commands are served.                                                *)
LEMMA RebuildBegins ==
  ASSUME EInv, Idle, script' \in Seq(Commands), Rebuilds(script'),
         UNCHANGED <<vars, picture, drag, doomed>>
  PROVE  /\ Base' /\ EditTypes' /\ Drawn' /\ Linked' /\ Gestures' /\ Dragged'
         /\ UNCHANGED <<shown, Living, Queued>>
<1>1. UNCHANGED <<liveInlets, liveOutlets, sink, shown, lines, lineOf>>
  BY DEF vars, picture
<1>2. Base'
  BY <1>1, BaseStays DEF EInv
<1>3. EditTypes'
  BY <1>1 DEF EInv, EditTypes, Living
<1>4. Drawn'
  BY <1>1, IdleFacts DEF Drawn, Before
<1>5. Linked'
  BY FormsRebuildNothing DEF Linked
<1>6. Gestures' /\ Dragged'
  BY <1>1, IdleFacts DEF Gestures, Dragged
<1> QED
  BY <1>1, <1>2, <1>3, <1>4, <1>5, <1>6 DEF Living, Queued

LEMMA DeleteInv ==
  ASSUME EInv, NEW tr \in Transforms, DeleteTransform(tr)
  PROVE  EInv'
<1> DEFINE F == Each("forget", TerminalsOf(tr))
           R == << <<"remove", tr>> >>
           of == {t \in Terminals : Owner[t] = tr}
<1>1. /\ Idle /\ \E t \in shown : Owner[t] = tr
      /\ script' = F \o R /\ UNCHANGED <<vars, picture, drag, doomed>>
  BY DEF DeleteTransform
<1>2. /\ F \in Seq(Commands) /\ ToSet(F) = {<<"forget", t>> : t \in of}
      /\ R \in Seq(Commands) /\ ToSet(R) = {<<"remove", tr>>}
  <2>1. <<"remove", tr>> \in Commands
    BY DEF Commands
  <2> QED
    BY <2>1, EachListed, OneCall
<1>3. RemovesOnce(R)
  BY DEF RemovesOnce
<1> HIDE DEF F, R
<1>4. /\ script' \in Seq(Commands) /\ Ahead' = ToSet(F) \cup ToSet(R)
  BY <1>1, <1>2, ConcatList DEF Ahead
<1>5. \A c \in ToSet(F) : c[1] = "forget"
  BY <1>2
<1>6. Rebuilds(script')
  BY <1>2, <1>4, <1>5, RebuildsAll DEF Ahead, Objects
<1>7. /\ Base' /\ EditTypes' /\ Drawn' /\ Linked' /\ Gestures' /\ Dragged'
      /\ UNCHANGED <<shown, Living, Queued>>
  BY <1>1, <1>4, <1>6, RebuildBegins
<1>8. /\ \A t : <<"forget", t>> \in Ahead' <=> t \in of
      /\ \A t : <<"remove", t>> \in Ahead' <=> t = tr
      /\ \A t : <<"make", t>> \notin Ahead'
  BY <1>2, <1>4
<1>9. /\ \A t \in Living : t \notin shown <=> Owner[t] \in Queued
      /\ shown \subseteq Living /\ Living \subseteq Terminals
  BY <1>1, IdleFacts DEF EInv, Base, TypeOK, Living, Terminals
<1>10. Leaving'
  BY <1>7, <1>8, <1>9 DEF Leaving
<1>11. QueuedOnce'
  <2>1. RemovesOnce(script')
    BY <1>1, <1>2, <1>3, <1>5, RemovesOnceOf
  <2>2. tr \notin Queued
    BY <1>1, <1>9
  <2> QED
    BY <1>1, <1>7, <1>8, <2>1, <2>2 DEF EInv, QueuedOnce
<1> QED
  BY <1>7, <1>10, <1>11 DEF EInv

LEMMA CreateInv ==
  ASSUME EInv, NEW tr \in Transforms, CreateTransform(tr)
  PROVE  EInv'
<1> DEFINE M == Each("make", TerminalsOf(tr))
           of == {t \in Terminals : Owner[t] = tr}
<1>1. /\ Idle /\ Gone(tr) /\ script' = M /\ UNCHANGED <<vars, picture, drag, doomed>>
  BY DEF CreateTransform
<1>2. M \in Seq(Commands) /\ ToSet(M) = {<<"make", t>> : t \in of}
  BY EachListed
<1> HIDE DEF M
<1>3. script' \in Seq(Commands) /\ Ahead' = ToSet(M)
  BY <1>1, <1>2 DEF Ahead
<1>4. \A c \in ToSet(M) : c[1] = "make"
  BY <1>2
<1>5. Rebuilds(script')
  BY <1>3, <1>4, RebuildsAll DEF Ahead, Objects
<1>6. /\ Base' /\ EditTypes' /\ Drawn' /\ Linked' /\ Gestures' /\ Dragged'
      /\ UNCHANGED <<shown, Living, Queued>>
  BY <1>1, <1>3, <1>5, RebuildBegins
<1>7. /\ \A t : <<"make", t>> \in Ahead' <=> t \in of
      /\ \A t : <<"remove", t>> \notin Ahead' /\ <<"forget", t>> \notin Ahead'
  BY <1>2, <1>3
<1>8. /\ \A t \in Living : t \notin shown <=> Owner[t] \in Queued
      /\ shown \subseteq Living
  BY <1>1, IdleFacts
<1>9. tr \notin Queued
  BY <1>1 DEF Gone, Queued, ToSet
<1>10. Leaving'
  BY <1>6, <1>7, <1>8, <1>9 DEF Leaving
<1>11. QueuedOnce'
  <2>1. RemovesOnce(script')
    BY <1>3, <1>4 DEF RemovesOnce, Ahead, ToSet
  <2> QED
    BY <1>1, <1>7, <2>1 DEF EInv, QueuedOnce
<1> QED
  BY <1>6, <1>10, <1>11 DEF EInv

LEMMA ReplaceInv ==
  ASSUME EInv, NEW old \in Transforms, NEW new \in Transforms,
         ReplaceTransform(old, new)
  PROVE  EInv'
<1> DEFINE R == << <<"remove", old>> >>
           F == Each("forget", TerminalsOf(old))
           M == Each("make", TerminalsOf(new))
           of(tr) == {t \in Terminals : Owner[t] = tr}
<1>1. /\ Idle /\ Gone(new) /\ \E t \in shown : Owner[t] = old
      /\ script' = R \o F \o M /\ UNCHANGED <<vars, picture, drag, doomed>>
  BY DEF ReplaceTransform
<1>2. /\ F \in Seq(Commands) /\ ToSet(F) = {<<"forget", t>> : t \in of(old)}
      /\ M \in Seq(Commands) /\ ToSet(M) = {<<"make", t>> : t \in of(new)}
      /\ R \in Seq(Commands) /\ ToSet(R) = {<<"remove", old>>}
  <2>1. <<"remove", old>> \in Commands
    BY DEF Commands
  <2> QED
    BY <2>1, EachListed, OneCall
<1>3. RemovesOnce(R)
  BY DEF RemovesOnce
<1> HIDE DEF F, R, M
<1>4. R \o F \in Seq(Commands) /\ ToSet(R \o F) = ToSet(R) \cup ToSet(F)
  BY <1>2, ConcatList
<1>5. /\ script' \in Seq(Commands) /\ Ahead' = ToSet(R) \cup ToSet(F) \cup ToSet(M)
  <2> DEFINE G == R \o F
  <2>1. script' = G \o M /\ G \in Seq(Commands) /\ ToSet(G) = ToSet(R) \cup ToSet(F)
    BY <1>1, <1>4
  <2> HIDE DEF G
  <2>2. G \o M \in Seq(Commands) /\ ToSet(G \o M) = ToSet(G) \cup ToSet(M)
    BY <1>2, <2>1, ConcatList
  <2> QED
    BY <2>1, <2>2 DEF Ahead
<1>6. /\ \A c \in ToSet(F) : c[1] = "forget"
      /\ \A c \in ToSet(M) : c[1] = "make"
  BY <1>2
<1>7. Rebuilds(script')
  BY <1>2, <1>5, <1>6, RebuildsAll DEF Ahead, Objects
<1>8. /\ Base' /\ EditTypes' /\ Drawn' /\ Linked' /\ Gestures' /\ Dragged'
      /\ UNCHANGED <<shown, Living, Queued>>
  BY <1>1, <1>5, <1>7, RebuildBegins
<1>9. /\ \A t : <<"forget", t>> \in Ahead' <=> t \in of(old)
      /\ \A t : <<"remove", t>> \in Ahead' <=> t = old
      /\ \A t : <<"make", t>> \in Ahead' <=> t \in of(new)
  BY <1>2, <1>5
<1>10. /\ \A t \in Living : t \notin shown <=> Owner[t] \in Queued
       /\ shown \subseteq Living /\ Living \subseteq Terminals
  BY <1>1, IdleFacts DEF EInv, Base, TypeOK, Living, Terminals
<1>11. new \notin Queued /\ new # old /\ old \notin Queued
  BY <1>1, <1>10 DEF Gone, Queued, ToSet
<1>12. Leaving'
  BY <1>8, <1>9, <1>10, <1>11 DEF Leaving
<1>13. QueuedOnce'
  <2>1. RemovesOnce(R \o F)
    BY <1>2, <1>3, <1>6, RemovesOnceOf
  <2>2. RemovesOnce(script')
    BY <1>1, <1>2, <1>4, <1>6, <2>1, RemovesOnceOf
  <2> QED
    BY <1>1, <1>8, <1>9, <1>11, <2>2 DEF EInv, QueuedOnce
<1> QED
  BY <1>8, <1>12, <1>13 DEF EInv

(* The wires between gestures, when one is deleted.                        *)
LEMMA DeleteWireInv ==
  ASSUME EInv, NEW l \in lines, DeleteWire(l)
  PROVE  EInv'
<1>0. Base /\ EditTypes /\ Named
  BY DEF EInv, Base
<1>1. Idle /\ DeleteLine(l) /\ UNCHANGED <<shown, drag, script, doomed>>
  BY DEF DeleteWire
<1>2. /\ l[1] \in Outlets /\ l[1] \in Terminals /\ lineOf[l[1]] = l /\ l # None
      /\ lines \subseteq liveOutlets \X Inlets
  <2>1. \A m \in lines : m[1] \in liveOutlets
    BY <1>0, ConnectionsAssumption DEF EditTypes, Named, Living, ConnectionsAssumption, Base, TypeOK
  <2> QED
    BY <1>0, <2>1, EditorAssumption DEF Named, Terminals, EditorAssumption
<1>3. DeleteLineAt(l[1])
  BY <1>1, <1>2 DEF DeleteLineAt
<1>4. /\ Base' /\ lines' \subseteq lines
      /\ \A o \in Outlets : sink'[o] \in {sink[o], None}
      /\ \A o \in Outlets, i \in Inlets :
           sink'[o] = i /\ <<o, i>> \notin lines' => sink[o] = i /\ <<o, i>> \notin lines
      /\ UNCHANGED <<liveInlets, liveOutlets>>
  BY <1>0, <1>2, <1>3, LineDeleted
<1>5. EditTypes'
  BY <1>0, <1>1, <1>4 DEF EditTypes, Living
<1>6. Drawn'
  BY <1>1, <1>4, IdleFacts DEF Drawn, Before
<1>7. \A o, i : script \notin {Dropping(o, i), Linking(o, i), Clearing(o, i), Drawing(o, i)}
  BY <1>1, Forms DEF Idle
<1>8. Linked'
  BY <1>1, <1>7 DEF Linked
<1>9. Gestures'
  BY <1>1 DEF Gestures, Rebuilds, EInv, Idle
<1>10. Dragged'
  BY <1>1, <1>4, IdleFacts DEF Dragged, EInv, EditTypes
<1>11. Leaving' /\ QueuedOnce'
  BY <1>1, <1>4, IdleGentle, Bystanding
<1> QED
  BY <1>4, <1>5, <1>6, <1>8, <1>9, <1>10, <1>11 DEF EInv

-----------------------------------------------------------------------------
(* The commands of a script.                                               *)

(* What the next command is and what is left after it.                     *)
LEMMA Turns ==
  ASSUME EInv, ~Idle
  PROVE  LET c == Head(script)
             rest == Tail(script)
         IN  \/ \E o \in Outlets, i \in Inlets :
                  \/ script = Dropping(o, i) /\ c = <<"connect", o, i>> /\ rest = Clearing(o, i)
                  \/ script = Linking(o, i) /\ c = <<"connect", o, i>> /\ rest = Drawing(o, i)
                  \/ script = Clearing(o, i) /\ c = <<"unline", i>> /\ rest = Drawing(o, i)
                  \/ script = Drawing(o, i) /\ c = <<"draw", o, i>> /\ rest = <<>>
             \/ /\ drag \in Outlets \cap shown /\ script = Lifting(drag)
                /\ c = <<"unline", drag>> /\ rest = <<>>
             \/ Rebuilds(script) /\ c[1] \in Objects /\ Rebuilds(rest)
<1>1. CASE \E o \in Outlets, i \in Inlets :
             script \in {Dropping(o, i), Linking(o, i), Clearing(o, i), Drawing(o, i)}
  <2>1. PICK o \in Outlets, i \in Inlets :
          script \in {Dropping(o, i), Linking(o, i), Clearing(o, i), Drawing(o, i)}
    BY <1>1
  <2>2. CASE script = Dropping(o, i)
    <3>1. Head(script) = <<"connect", o, i>> /\ Tail(script) = Clearing(o, i)
      BY <2>2 DEF Dropping, Clearing
    <3> QED
      BY <2>2, <3>1
  <2>3. CASE script = Linking(o, i)
    <3>1. Head(script) = <<"connect", o, i>> /\ Tail(script) = Drawing(o, i)
      BY <2>3 DEF Linking, Drawing
    <3> QED
      BY <2>3, <3>1
  <2>4. CASE script = Clearing(o, i)
    <3>1. Head(script) = <<"unline", i>> /\ Tail(script) = Drawing(o, i)
      BY <2>4 DEF Clearing, Drawing
    <3> QED
      BY <2>4, <3>1
  <2>5. CASE script = Drawing(o, i)
    <3>1. Head(script) = <<"draw", o, i>> /\ Tail(script) = <<>>
      BY <2>5 DEF Drawing
    <3> QED
      BY <2>5, <3>1
  <2> QED
    BY <2>1, <2>2, <2>3, <2>4, <2>5
<1>2. CASE drag \in Outlets \cap shown /\ script = Lifting(drag)
  BY <1>2 DEF Lifting
<1>3. CASE Rebuilds(script)
  <2>1. script \in Seq(Commands) /\ script # <<>>
    BY DEF EInv, EditTypes, Idle
  <2>2. ToSet(script) = {Head(script)} \cup ToSet(Tail(script))
    BY <2>1, HeadAndTail
  <2> QED
    BY <1>3, <2>2, RebuildsAll
<1> QED
  BY <1>1, <1>2, <1>3 DEF EInv, Gestures

(* The rest of a script is ahead, and nothing is removed twice.            *)
LEMMA RestAhead ==
  ASSUME EInv, ~Idle, script' = Tail(script)
  PROVE  /\ script' \in Seq(Commands) /\ Head(script) \in Commands
         /\ Ahead = {Head(script)} \cup Ahead'
         /\ RemovesOnce(script')
         /\ Head(script)[1] = "remove" => \A c \in Ahead' : c[1] # "remove"
<1>1. script \in Seq(Commands) /\ script # <<>> /\ RemovesOnce(script)
  BY DEF EInv, EditTypes, Idle, QueuedOnce
<1>2. Head(script) \in Commands /\ Ahead = {Head(script)} \cup Ahead'
  BY <1>1, HeadAndTail DEF Ahead
<1>3. script' \in Seq(Commands)
  BY <1>1, HeadAndTail
<1> QED
  BY <1>1, <1>2, <1>3, RemovesOnceTail DEF Ahead

(* All lines lead from an outlet that exists.                              *)
LEMMA LinesLive ==
  ASSUME EInv
  PROVE  lines \subseteq liveOutlets \X Inlets
<1>1. Base /\ EditTypes /\ Named
  BY DEF EInv, Base
<1>2. \A m \in lines : m[1] \in liveOutlets
  BY <1>1, ConnectionsAssumption DEF EditTypes, Named, Living, ConnectionsAssumption, Base, TypeOK
<1> QED
  BY <1>1, <1>2 DEF Named

LEMMA GentleForms ==
  ASSUME NEW o, NEW i
  PROVE  /\ Gentle(Dropping(o, i)) /\ Gentle(Linking(o, i)) /\ Gentle(Clearing(o, i))
         /\ Gentle(Drawing(o, i)) /\ Gentle(Lifting(o)) /\ Gentle(<<>>)
<1>1. Gentle(<<>>)
  BY DEF Gentle
<1> QED
  BY <1>1, FormsRebuildNothing DEF Gentle

LEMMA UnlineInv ==
  ASSUME EInv, Unline
  PROVE  EInv'
<1> DEFINE t == Head(script)[2]
<1>0. Base /\ EditTypes
  BY DEF EInv
<1>1. /\ ~Idle /\ Head(script)[1] = "unline" /\ DeleteLineAt(t)
      /\ script' = Tail(script) /\ UNCHANGED <<drag, shown, doomed>>
  BY DEF Unline, Command, Done
<1>2. \/ \E o \in Outlets, i \in Inlets :
           script = Clearing(o, i) /\ Head(script) = <<"unline", i>> /\ script' = Drawing(o, i)
      \/ /\ drag \in Outlets \cap shown /\ script = Lifting(drag)
         /\ Head(script) = <<"unline", drag>> /\ script' = <<>>
  BY <1>1, Turns DEF Objects
<1>3. t \in Terminals
  BY <1>2 DEF Terminals
<1>4. /\ Base' /\ lines' \subseteq lines /\ lineOf'[t] = None
      /\ \A u \in Terminals : lineOf'[u] \in {lineOf[u], None}
      /\ \A o \in Outlets : /\ sink'[o] \in {sink[o], None}
                            /\ lineOf[o] = None => sink'[o] = sink[o]
      /\ \A o \in Outlets, i \in Inlets :
           sink'[o] = i /\ <<o, i>> \notin lines' => sink[o] = i /\ <<o, i>> \notin lines
      /\ UNCHANGED <<liveInlets, liveOutlets>>
  BY <1>0, <1>1, <1>3, LinesLive, LineDeleted
<1>5. EditTypes'
  BY <1>0, <1>1, <1>4, RestAhead DEF EditTypes, Living
<1>6. Gentle(script) /\ Gentle(script')
  BY <1>2, GentleForms
<1>7. Leaving' /\ QueuedOnce'
  BY <1>1, <1>4, <1>6, Bystanding
<1>8. CASE \E o \in Outlets, i \in Inlets :
             script = Clearing(o, i) /\ Head(script) = <<"unline", i>> /\ script' = Drawing(o, i)
  <2>1. PICK o \in Outlets, i \in Inlets :
          script = Clearing(o, i) /\ t = i /\ script' = Drawing(o, i)
    BY <1>8
  <2>2. /\ lineOf[o] = None /\ (o \in liveOutlets => sink[o] = i)
        /\ i \in shown /\ drag = None
    BY <2>1 DEF EInv, Linked
  <2>3. /\ lineOf'[o] = None /\ lineOf'[i] = None
        /\ o \in liveOutlets' => sink'[o] = i
        /\ i \in shown' /\ drag' = None
    BY <1>1, <1>4, <2>1, <2>2 DEF Terminals
  <2>4. Linked'
    BY <2>1, <2>3, Forms DEF Linked
  <2>5. Drawn'
    <3> SUFFICES ASSUME NEW p \in Outlets, NEW j \in Inlets,
                        sink'[p] = j, <<p, j>> \notin lines'
                 PROVE  \/ script' \in {Clearing(p, j), Drawing(p, j)}
                        \/ p \notin shown' /\ Before(Owner[p], Owner[j])'
      BY DEF Drawn
    <3>1. sink[p] = j /\ <<p, j>> \notin lines
      BY <1>4
    <3>2. \/ script \in {Clearing(p, j), Drawing(p, j)}
          \/ p \notin shown /\ Before(Owner[p], Owner[j])
      BY <3>1 DEF EInv, Drawn
    <3>3. CASE script \in {Clearing(p, j), Drawing(p, j)}
      BY <2>1, <3>3, Forms
    <3>4. CASE p \notin shown /\ Before(Owner[p], Owner[j])
      BY <1>1, <3>4 DEF Before
    <3> QED
      BY <3>2, <3>3, <3>4
  <2>6. Gestures' /\ Dragged'
    BY <2>1, <2>3 DEF Gestures, Dragged
  <2> QED
    BY <1>4, <1>5, <1>7, <2>4, <2>5, <2>6 DEF EInv
<1>9. CASE /\ drag \in Outlets \cap shown /\ script = Lifting(drag)
           /\ Head(script) = <<"unline", drag>> /\ script' = <<>>
  <2>1. t = drag
    BY <1>9
  <2>2. \A o, i : script \notin {Clearing(o, i), Drawing(o, i)}
    BY <1>9, Forms
  <2>3. Linked'
    BY <1>9, Forms DEF Linked
  <2>4. Drawn'
    <3> SUFFICES ASSUME NEW p \in Outlets, NEW j \in Inlets,
                        sink'[p] = j, <<p, j>> \notin lines'
                 PROVE  p \notin shown' /\ Before(Owner[p], Owner[j])'
      BY DEF Drawn
    <3>1. sink[p] = j /\ <<p, j>> \notin lines
      BY <1>4
    <3>2. p \notin shown /\ Before(Owner[p], Owner[j])
      BY <2>2, <3>1 DEF EInv, Drawn
    <3> QED
      BY <1>1, <3>2 DEF Before
  <2>5. Gestures'
    BY <1>9 DEF Gestures, Rebuilds
  <2>6. sink'[drag] = None
    <3> SUFFICES ASSUME sink'[drag] # None PROVE FALSE
      OBVIOUS
    <3> DEFINE j == sink'[drag]
    <3>1. j \in Inlets
      <4>1. drag \in Outlets /\ sink'[drag] \in {sink[drag], None}
        BY <1>1, <1>4, <1>9
      <4> QED
        BY <4>1, NoneIsFreed DEF EInv, Base
    <3>2. <<drag, j>> \in lines'
      BY <1>1, <1>9, <2>4, <3>1, Forms DEF Drawn
    <3>3. lineOf'[drag] = <<drag, j>>
      BY <1>4, <3>2 DEF Base, Named
    <3> QED
      <4>1. lineOf'[drag] = None
        BY <1>4, <2>1
      <4>2. <<drag, j>> \in Outlets \X Inlets
        BY <1>9, <3>1
      <4> QED
        BY <3>3, <4>1, <4>2, EditorAssumption DEF EditorAssumption
  <2>7. Dragged'
    BY <1>1, <2>6 DEF Dragged
  <2> QED
    BY <1>4, <1>5, <1>7, <2>3, <2>4, <2>5, <2>7 DEF EInv
<1> QED
  BY <1>2, <1>8, <1>9

(* In a script that makes, forgets or removes.                             *)
LEMMA RebuildFacts ==
  ASSUME EInv, ~Idle, Head(script)[1] \in Objects
  PROVE  /\ Rebuilds(script) /\ Rebuilds(Tail(script))
         /\ \A o \in Outlets, i \in Inlets : sink[o] = i /\ <<o, i>> \notin lines =>
              o \notin shown /\ Before(Owner[o], Owner[i])
         /\ drag # None => sink[drag] = None
<1>1. Rebuilds(script) /\ Rebuilds(Tail(script))
  BY Turns DEF Objects
<1>2. \A o, i : script \notin {Clearing(o, i), Drawing(o, i), Lifting(o)}
  BY <1>1, FormsRebuildNothing
<1> QED
  BY <1>1, <1>2 DEF EInv, Drawn, Dragged

(* The conjuncts a command of such a script does not disturb.              *)
LEMMA RebuildGoesOn ==
  ASSUME EInv, ~Idle, Head(script)[1] \in Objects, script' = Tail(script),
         UNCHANGED drag, \A o \in Outlets : sink'[o] \in {sink[o], None}
  PROVE  Linked' /\ Gestures' /\ Dragged'
<1>1. Rebuilds(script')
  BY RebuildFacts
<1>2. Linked'
  BY <1>1, FormsRebuildNothing DEF Linked
<1>3. Gestures'
  BY <1>1 DEF Gestures
<1>4. Dragged'
  BY RebuildFacts DEF Dragged, EInv, EditTypes
<1> QED
  BY <1>2, <1>3, <1>4

LEMMA ForgetInv ==
  ASSUME EInv, Forget
  PROVE  EInv'
<1> DEFINE t == Head(script)[2]
<1>0. Base /\ EditTypes /\ Leaving /\ QueuedOnce
  BY DEF EInv
<1>1. /\ ~Idle /\ Head(script)[1] = "forget" /\ DeleteLineAt(t) /\ shown' = shown \ {t}
      /\ script' = Tail(script) /\ UNCHANGED <<drag, doomed>>
  BY DEF Forget, Command, Done
<1>2. /\ script' \in Seq(Commands) /\ Head(script) \in Commands
      /\ Ahead = {Head(script)} \cup Ahead' /\ RemovesOnce(script')
  BY <1>1, RestAhead
<1>3. t \in Terminals /\ Head(script) = <<"forget", t>>
  BY <1>1, <1>2 DEF Commands
<1>4. /\ Base' /\ lines' = {l \in lines : t \notin {l[1], l[2]}}
      /\ \A o \in Outlets : sink'[o] \in {sink[o], None}
      /\ \A o \in Outlets, i \in Inlets :
           sink'[o] = i /\ <<o, i>> \notin lines' => sink[o] = i /\ <<o, i>> \notin lines
      /\ UNCHANGED <<liveInlets, liveOutlets>>
  BY <1>0, <1>1, <1>3, LinesLive, LineDeleted
<1>5. EditTypes'
  BY <1>0, <1>1, <1>2, <1>4 DEF EditTypes, Living
<1>6. Drawn'
  <2> SUFFICES ASSUME NEW o \in Outlets, NEW i \in Inlets,
                      sink'[o] = i, <<o, i>> \notin lines'
               PROVE  o \notin shown' /\ Before(Owner[o], Owner[i])'
    BY DEF Drawn
  <2>1. o \notin shown /\ Before(Owner[o], Owner[i])
    BY <1>1, <1>4, RebuildFacts DEF Objects
  <2> QED
    BY <1>1, <2>1 DEF Before
<1>7. Linked' /\ Gestures' /\ Dragged'
  BY <1>1, <1>4, RebuildGoesOn DEF Objects
<1>8. Living' = Living /\ Queued' = Queued
  BY <1>1, <1>4 DEF Living, Queued
<1>9. /\ \A u : <<"remove", u>> \in Ahead' <=> <<"remove", u>> \in Ahead
      /\ \A u : <<"make", u>> \in Ahead' <=> <<"make", u>> \in Ahead
      /\ \A u : u # t => (<<"forget", u>> \in Ahead' <=> <<"forget", u>> \in Ahead)
      /\ <<"forget", t>> \in Ahead
      /\ \A u : <<"forget", u>> \in Ahead' => <<"forget", u>> \in Ahead
  BY <1>2, <1>3
<1>10. Leaving'
  BY <1>0, <1>1, <1>8, <1>9 DEF Leaving
<1>11. QueuedOnce'
  BY <1>0, <1>1, <1>2, <1>8, <1>9 DEF QueuedOnce
<1> QED
  BY <1>4, <1>5, <1>6, <1>7, <1>10, <1>11 DEF EInv

LEMMA DeferInv ==
  ASSUME EInv, Defer
  PROVE  EInv'
<1> DEFINE tr == Head(script)[2]
<1>0. Base /\ EditTypes /\ Leaving /\ QueuedOnce
  BY DEF EInv
<1>1. /\ ~Idle /\ Head(script)[1] = "remove" /\ doomed' = Append(doomed, tr)
      /\ script' = Tail(script) /\ UNCHANGED <<drag, vars, picture>>
  BY DEF Defer, Command, Done
<1>2. /\ script' \in Seq(Commands) /\ Head(script) \in Commands
      /\ Ahead = {Head(script)} \cup Ahead' /\ RemovesOnce(script')
      /\ \A c \in Ahead' : c[1] # "remove"
  BY <1>1, RestAhead
<1>3. tr \in Transforms /\ Head(script) = <<"remove", tr>>
  BY <1>1, <1>2 DEF Commands
<1> HIDE DEF tr
<1>4. UNCHANGED <<liveInlets, liveOutlets, sink, shown, lines, lineOf, Living>>
  BY <1>1 DEF vars, picture, Living
<1>5. /\ tr \notin Queued
      /\ doomed \in Seq(Transforms) /\ IsInjective(doomed)
  BY <1>0, <1>2, <1>3 DEF QueuedOnce, EditTypes
<1>6. /\ Queued' = Queued \cup {tr} /\ IsInjective(doomed')
      /\ doomed' \in Seq(Transforms)
  BY <1>1, <1>3, <1>5, AppendList DEF Queued
<1>7. Base'
  BY <1>0, <1>1, <1>4, BaseStays
<1>8. EditTypes'
  BY <1>0, <1>1, <1>2, <1>4, <1>6 DEF EditTypes
<1>9. Drawn'
  <2>1. ASSUME NEW a, NEW b, Before(a, b) PROVE Before(a, b)'
    <3>1. \A k \in DOMAIN doomed : k \in DOMAIN doomed' /\ doomed'[k] = doomed[k]
                                   /\ 1 .. k \subseteq DOMAIN doomed
      BY <1>1, <1>5
    <3> QED
      BY <2>1, <3>1 DEF Before
  <2>2. \A o \in Outlets, i \in Inlets : sink[o] = i /\ <<o, i>> \notin lines =>
          o \notin shown /\ Before(Owner[o], Owner[i])
    BY <1>1, RebuildFacts DEF Objects
  <2> QED
    BY <1>4, <2>1, <2>2 DEF Drawn
<1>10. Linked' /\ Gestures' /\ Dragged'
  BY <1>1, <1>4, RebuildGoesOn DEF Objects
<1>11. /\ \A u : <<"remove", u>> \notin Ahead'
       /\ \A u : <<"remove", u>> \in Ahead <=> u = tr
       /\ \A u : <<"make", u>> \in Ahead' <=> <<"make", u>> \in Ahead
       /\ \A u : <<"forget", u>> \in Ahead' <=> <<"forget", u>> \in Ahead
  BY <1>2, <1>3
<1>12. Leaving'
  BY <1>0, <1>4, <1>6, <1>11 DEF Leaving
<1>13. QueuedOnce'
  BY <1>2, <1>6, <1>11 DEF QueuedOnce
<1> QED
  BY <1>7, <1>8, <1>9, <1>10, <1>12, <1>13 DEF EInv

(* A new terminal has nothing left of its predecessor.                     *)
LEMMA TerminalMade ==
  ASSUME Base, NEW t \in Terminals, UNCHANGED <<lines, lineOf>>,
         IF t \in Inlets THEN AddInlet(t) ELSE AddOutlet(t)
  PROVE  /\ Base' /\ sink' = sink /\ t \notin Living /\ Living' = Living \cup {t}
<1> USE ConnectionsAssumption DEF ConnectionsAssumption
<1>0. TypeOK /\ NoDangling /\ Named /\ Recorded
  BY DEF Base
<1>1. CASE t \in Inlets
  <2>1. t \in Inlets \ liveInlets /\ AddInlet(t)
    BY <1>1 DEF AddInlet
  <2>2. /\ source' = [source EXCEPT ![t] = None] /\ liveInlets' = liveInlets \cup {t}
        /\ UNCHANGED <<liveOutlets, type, sink, wire>>
    BY <2>1 DEF AddInlet
  <2>3. TypeOK' /\ NoDangling'
    BY <1>0, <2>1, <2>2 DEF TypeOK, NoDangling
  <2>4. Named' /\ Recorded'
    BY <1>0, <2>2 DEF Named, Recorded, TypeOK
  <2>5. t \notin Living /\ Living' = Living \cup {t}
    BY <1>0, <2>1, <2>2, ConnectionsAssumption DEF Living, TypeOK, ConnectionsAssumption
  <2> QED
    BY <2>2, <2>3, <2>4, <2>5 DEF Base
<1>2. CASE t \notin Inlets
  <2>1. t \in Outlets \ liveOutlets /\ AddOutlet(t)
    BY <1>2 DEF AddOutlet, Terminals
  <2>2. sink[t] = None /\ wire[t] = None
    BY <1>0, <2>1 DEF NoDangling, Recorded
  <2>3. /\ sink' = sink /\ wire' = wire /\ liveOutlets' = liveOutlets \cup {t}
        /\ UNCHANGED <<liveInlets, type, source>>
    BY <1>0, <2>1, <2>2 DEF AddOutlet, TypeOK
  <2>4. TypeOK' /\ NoDangling'
    BY <1>0, <2>1, <2>3 DEF TypeOK, NoDangling
  <2>5. Named' /\ Recorded'
    BY <1>0, <2>3 DEF Named, Recorded
  <2>6. t \notin Living /\ Living' = Living \cup {t}
    BY <1>0, <1>2, <2>1, <2>3 DEF Living, TypeOK
  <2> QED
    BY <2>3, <2>4, <2>5, <2>6 DEF Base
<1> QED
  BY <1>1, <1>2

LEMMA MakeInv ==
  ASSUME EInv, Make
  PROVE  EInv'
<1> DEFINE t == Head(script)[2]
<1>0. Base /\ EditTypes /\ Leaving /\ QueuedOnce
  BY DEF EInv
<1>1. /\ ~Idle /\ Head(script)[1] = "make"
      /\ IF t \in Inlets THEN AddInlet(t) ELSE AddOutlet(t)
      /\ shown' = shown \cup {t}
      /\ script' = Tail(script) /\ UNCHANGED <<drag, lines, lineOf, doomed>>
  BY DEF Make, Command, Done
<1>2. /\ script' \in Seq(Commands) /\ Head(script) \in Commands
      /\ Ahead = {Head(script)} \cup Ahead' /\ RemovesOnce(script')
  BY <1>1, RestAhead
<1>3. t \in Terminals /\ Head(script) = <<"make", t>>
  BY <1>1, <1>2 DEF Commands
<1> HIDE DEF t
<1>4. Base' /\ sink' = sink /\ t \notin Living /\ Living' = Living \cup {t}
  BY <1>0, <1>1, <1>3, TerminalMade
<1>5. EditTypes'
  BY <1>0, <1>1, <1>2, <1>4 DEF EditTypes
<1>6. Drawn'
  <2> SUFFICES ASSUME NEW o \in Outlets, NEW i \in Inlets,
                      sink'[o] = i, <<o, i>> \notin lines'
               PROVE  o \notin shown' /\ Before(Owner[o], Owner[i])'
    BY DEF Drawn
  <2>1. o \notin shown /\ Before(Owner[o], Owner[i])
    BY <1>1, <1>4, RebuildFacts DEF Objects
  <2>2. o \in liveOutlets
    BY <1>0, <1>4, ConnectionsAssumption
       DEF Base, NoDangling, Recorded, ConnectionsAssumption
  <2>3. o # t
    BY <1>4, <2>2 DEF Living
  <2> QED
    BY <1>1, <2>1, <2>3 DEF Before
<1>7. Linked' /\ Gestures' /\ Dragged'
  BY <1>1, <1>4, RebuildGoesOn DEF Objects
<1>8. Queued' = Queued
  BY <1>1 DEF Queued
<1>9. /\ \A u : <<"remove", u>> \in Ahead' <=> <<"remove", u>> \in Ahead
      /\ \A u : <<"forget", u>> \in Ahead' <=> <<"forget", u>> \in Ahead
      /\ \A u : <<"make", u>> \in Ahead' => <<"make", u>> \in Ahead
      /\ <<"make", t>> \in Ahead
  BY <1>2, <1>3
<1>10. Leaving'
  BY <1>0, <1>1, <1>3, <1>4, <1>8, <1>9 DEF Leaving
<1>11. QueuedOnce'
  BY <1>0, <1>1, <1>2, <1>8, <1>9 DEF QueuedOnce
<1> QED
  BY <1>4, <1>5, <1>6, <1>7, <1>10, <1>11 DEF EInv

LEMMA FreeOutlet ==
  ASSUME Base, NEW o \in Outlets, sink[o] = None
  PROVE  lineOf[o] = None
<1> SUFFICES ASSUME lineOf[o] # None PROVE FALSE
  OBVIOUS
<1> DEFINE l == lineOf[o]
<1>1. o \in Terminals
  BY DEF Terminals
<1>2. l \in lines /\ o \in {l[1], l[2]} /\ l[1] \in Outlets /\ l[2] \in Inlets
  BY <1>1 DEF Base, Named
<1>3. l[1] = o
  BY <1>2, ConnectionsAssumption DEF ConnectionsAssumption
<1>4. sink[o] = l[2]
  BY <1>2, <1>3 DEF Base, Recorded
<1> QED
  BY <1>2, <1>4, ConnectionsAssumption DEF ConnectionsAssumption

LEMMA ConnectInv ==
  ASSUME OneType, EInv, ConnectEnds
  PROVE  EInv'
<1>0. Base /\ EditTypes
  BY DEF EInv
<1>1. ~Idle /\ Head(script)[1] = "connect" /\ UNCHANGED <<picture, drag, doomed>>
  BY DEF ConnectEnds, Command
<1>2. PICK o \in Outlets, i \in Inlets :
        /\ Head(script) = <<"connect", o, i>>
        /\ \/ script = Dropping(o, i) /\ Tail(script) = Clearing(o, i)
           \/ script = Linking(o, i) /\ Tail(script) = Drawing(o, i)
  BY <1>1, Turns DEF Objects
<1>3. /\ Head(script)[2] = o /\ Head(script)[3] = i
  BY <1>2
<1>4. /\ sink[o] = None /\ i \in shown /\ drag = None
      /\ script = Linking(o, i) => lineOf[i] = None
  BY <1>2 DEF EInv, Linked
<1>5. UNCHANGED <<shown, lines, lineOf, drag, doomed>>
  BY <1>1 DEF picture
<1>6. ASSUME NEW p, NEW j PROVE script \notin {Clearing(p, j), Drawing(p, j)}
  <2>1. script \in {Dropping(o, i), Linking(o, i)}
    BY <1>2
  <2> QED
    BY <2>1, Forms
<1>7. \A p \in Outlets, j \in Inlets : sink[p] = j /\ <<p, j>> \notin lines =>
        p \notin shown /\ Before(Owner[p], Owner[j])
  BY <1>6 DEF EInv, Drawn
<1>8. Gentle(script)
  BY <1>2, GentleForms
<1>9. CASE o \in liveOutlets /\ i \in liveInlets
  <2>1. Connect(o, i) /\ script' = IF wire'[o] = i THEN Tail(script) ELSE <<>>
    BY <1>3, <1>9 DEF ConnectEnds
  <2>2. /\ Base' /\ sink' = [sink EXCEPT ![o] = i] /\ wire'[o] = i
        /\ UNCHANGED <<liveInlets, liveOutlets, type>>
    BY <1>0, <1>4, <1>5, <2>1, FreeOutletConnected
  <2>3. script' = Tail(script)
    BY <2>1, <2>2
  <2>4. lineOf[o] = None
    BY <1>0, <1>4, FreeOutlet
  <2>5. EditTypes'
    BY <1>0, <1>1, <1>5, <2>2, <2>3, RestAhead DEF EditTypes, Living
  <2>6. /\ sink'[o] = i /\ \A p \in Outlets \ {o} : sink'[p] = sink[p]
    BY <1>0, <2>2 DEF Base, TypeOK
  <2>7. script' \in {Clearing(o, i), Drawing(o, i)}
    BY <1>2, <2>3
  <2>8. Drawn'
    <3> SUFFICES ASSUME NEW p \in Outlets, NEW j \in Inlets,
                        sink'[p] = j, <<p, j>> \notin lines'
                 PROVE  \/ script' \in {Clearing(p, j), Drawing(p, j)}
                        \/ p \notin shown' /\ Before(Owner[p], Owner[j])'
      BY DEF Drawn
    <3>1. CASE p = o
      BY <2>6, <2>7, <3>1
    <3>2. CASE p # o
      <4>1. p \notin shown /\ Before(Owner[p], Owner[j])
        BY <1>5, <1>7, <2>6, <3>2
      <4> QED
        BY <1>5, <4>1 DEF Before
    <3> QED
      BY <3>1, <3>2
  <2>9. script' = Drawing(o, i) => lineOf'[i] = None
    BY <1>2, <1>4, <1>5, <2>3, Forms
  <2>10. Linked'
    <3>1. \A p \in Outlets, j \in Inlets :
            /\ script' \notin {Dropping(p, j), Linking(p, j)}
            /\ script' \in {Clearing(p, j), Drawing(p, j)} => p = o /\ j = i
      BY <2>7, Forms
    <3> QED
      BY <1>4, <1>5, <2>4, <2>6, <2>9, <3>1 DEF Linked
  <2>11. Gestures' /\ Dragged'
    BY <1>4, <1>5, <2>7 DEF Gestures, Dragged
  <2>12. Gentle(script')
    BY <2>7, GentleForms
  <2>13. Leaving' /\ QueuedOnce'
    BY <1>5, <1>8, <2>2, <2>12, Bystanding
  <2> QED
    BY <2>2, <2>5, <2>8, <2>10, <2>11, <2>13 DEF EInv
<1>10. CASE ~(o \in liveOutlets /\ i \in liveInlets)
  <2>1. script' = <<>> /\ UNCHANGED vars
    BY <1>3, <1>10 DEF ConnectEnds
  <2>2. Base' /\ UNCHANGED <<liveInlets, liveOutlets, sink>>
    BY <1>0, <1>5, <2>1, BaseStays DEF vars
  <2>3. EditTypes'
    BY <1>0, <1>5, <2>1, <2>2 DEF EditTypes, Living
  <2>4. Drawn'
    BY <1>5, <1>7, <2>2 DEF Drawn, Before
  <2>5. Linked'
    BY <2>1, Forms DEF Linked
  <2>6. Gestures' /\ Dragged'
    BY <1>4, <1>5, <2>1 DEF Gestures, Rebuilds, Dragged
  <2>7. Leaving' /\ QueuedOnce'
    BY <1>5, <1>8, <2>1, <2>2, GentleForms, Bystanding
  <2> QED
    BY <2>2, <2>3, <2>4, <2>5, <2>6, <2>7 DEF EInv
<1> QED
  BY <1>9, <1>10

(* A wire drawn between two free terminals that are connected.             *)
LEMMA LineDrawn ==
  ASSUME Base, NEW o \in Outlets, NEW i \in Inlets, UNCHANGED vars,
         sink[o] = i, lineOf[o] = None, lineOf[i] = None,
         lines' = lines \cup {<<o, i>>},
         lineOf' = [lineOf EXCEPT ![o] = <<o, i>>, ![i] = <<o, i>>]
  PROVE  Base'
<1> DEFINE l == <<o, i>>
<1>0. TypeOK /\ NoDangling /\ Named /\ Recorded
  BY DEF Base
<1>1. /\ o \in Terminals /\ i \in Terminals /\ o # i
      /\ l \in Outlets \X Inlets /\ l # None
  BY ConnectionsAssumption, EditorAssumption
     DEF Terminals, ConnectionsAssumption, EditorAssumption
<1>2. UNCHANGED <<liveInlets, liveOutlets, type, source, sink, wire>>
  BY DEF vars
<1>3. TypeOK' /\ NoDangling'
  BY <1>0, <1>2 DEF TypeOK, NoDangling
<1>4. Recorded'
  BY <1>0, <1>2 DEF Recorded
<1>5. \A u \in Terminals : lineOf'[u] = IF u \in {o, i} THEN l ELSE lineOf[u]
  BY <1>0, <1>1 DEF Named
<1>6. lineOf' \in [Terminals -> (Outlets \X Inlets) \cup {None}]
  BY <1>0, <1>1 DEF Named
<1>7. ASSUME NEW m \in lines' PROVE lineOf'[m[1]] = m /\ lineOf'[m[2]] = m
  <2>1. CASE m = l
    BY <1>1, <1>5, <2>1
  <2>2. CASE m # l
    <3>1. /\ m \in lines /\ m \in Outlets \X Inlets /\ lineOf[m[1]] = m /\ lineOf[m[2]] = m
      BY <1>0, <1>7, <2>2 DEF Named
    <3>2. m[1] \in Terminals /\ m[2] \in Terminals /\ m # None
      BY <3>1, EditorAssumption DEF Terminals, EditorAssumption
    <3>3. m[1] \notin {o, i} /\ m[2] \notin {o, i}
      BY <3>1, <3>2
    <3> QED
      BY <1>5, <3>1, <3>2, <3>3
  <2> QED
    BY <2>1, <2>2
<1>8. ASSUME NEW u \in Terminals, lineOf'[u] # None
      PROVE  lineOf'[u] \in lines' /\ u \in {lineOf'[u][1], lineOf'[u][2]}
  <2>1. CASE u \in {o, i}
    <3>1. lineOf'[u] = l /\ l \in lines' /\ l[1] = o /\ l[2] = i
      BY <1>5, <2>1
    <3> HIDE DEF l
    <3> QED
      BY <2>1, <3>1
  <2>2. CASE u \notin {o, i}
    <3>1. lineOf'[u] = lineOf[u]
      BY <1>5, <2>2
    <3> QED
      BY <1>0, <1>8, <3>1 DEF Named
  <2> QED
    BY <2>1, <2>2
<1>9. lines' \subseteq Outlets \X Inlets
  BY <1>0, <1>1 DEF Named
<1> QED
  BY <1>3, <1>4, <1>6, <1>7, <1>8, <1>9 DEF Base, Named

LEMMA DrawInv ==
  ASSUME EInv, Draw
  PROVE  EInv'
<1>0. Base /\ EditTypes /\ Leaving
  BY DEF EInv
<1>1. /\ ~Idle /\ Head(script)[1] = "draw" /\ script' = Tail(script)
      /\ UNCHANGED <<vars, shown, drag, doomed>>
  BY DEF Draw, Command, Done
<1>2. PICK o \in Outlets, i \in Inlets :
        script = Drawing(o, i) /\ Head(script) = <<"draw", o, i>> /\ script' = <<>>
  BY <1>1, Turns DEF Objects
<1>3. IF {o, i} \subseteq shown
        THEN /\ lines' = lines \cup {<<o, i>>}
             /\ lineOf' = [lineOf EXCEPT ![o] = <<o, i>>, ![i] = <<o, i>>]
        ELSE UNCHANGED <<lines, lineOf>>
  <2> DEFINE l == Tail(Head(script))
  <2>1. IF {l[1], l[2]} \subseteq shown
          THEN /\ lines' = lines \cup {l}
               /\ lineOf' = [lineOf EXCEPT ![l[1]] = l, ![l[2]] = l]
          ELSE UNCHANGED <<lines, lineOf>>
    BY DEF Draw
  <2>2. Tail(<<"draw", o, i>>) = <<o, i>>
    OBVIOUS
  <2>3. l = <<o, i>>
    BY <1>2, <2>2
  <2> HIDE DEF l
  <2>4. l[1] = o /\ l[2] = i
    BY <2>3
  <2> QED
    BY <2>1, <2>3, <2>4
<1>4. /\ lineOf[o] = None /\ lineOf[i] = None /\ (o \in liveOutlets => sink[o] = i)
      /\ i \in shown /\ drag = None
  BY <1>2 DEF EInv, Linked
<1>5. UNCHANGED vars /\ UNCHANGED <<liveInlets, liveOutlets, sink>>
  BY <1>1 DEF vars
<1>14. script' \in Seq(Commands)
  BY <1>1, RestAhead
<1>6. \A p, j : p # o \/ j # i => script \notin {Clearing(p, j), Drawing(p, j)}
  BY <1>2, Forms
<1>7. \A p \in Outlets, j \in Inlets : (p # o \/ j # i) /\ sink[p] = j /\ <<p, j>> \notin lines =>
        p \notin shown /\ Before(Owner[p], Owner[j])
  BY <1>6 DEF EInv, Drawn
<1>8. Linked'
  BY <1>2, Forms DEF Linked
<1>9. Gestures' /\ Dragged'
  BY <1>1, <1>2, <1>4 DEF Gestures, Rebuilds, Dragged
<1>10. Leaving' /\ QueuedOnce'
  BY <1>1, <1>2, <1>5, GentleForms, Bystanding
<1>11. CASE o \in shown
  <2>1. /\ lines' = lines \cup {<<o, i>>}
        /\ lineOf' = [lineOf EXCEPT ![o] = <<o, i>>, ![i] = <<o, i>>]
    BY <1>3, <1>4, <1>11 DEF Draw
  <2>2. sink[o] = i
    <3>1. o \in liveOutlets
      BY <1>0, <1>11, ConnectionsAssumption DEF EditTypes, Living, Base, TypeOK, ConnectionsAssumption
    <3> QED
      BY <1>4, <3>1
  <2>3. Base'
    BY <1>0, <1>4, <1>5, <2>1, <2>2, LineDrawn
  <2>4. EditTypes'
    BY <1>0, <1>1, <1>4, <1>5, <1>11, <1>14, <2>1 DEF EditTypes, Living
  <2>5. Drawn'
    <3> SUFFICES ASSUME NEW p \in Outlets, NEW j \in Inlets,
                        sink'[p] = j, <<p, j>> \notin lines'
                 PROVE  p \notin shown' /\ Before(Owner[p], Owner[j])'
      BY DEF Drawn
    <3>1. p \notin shown /\ Before(Owner[p], Owner[j])
      BY <1>5, <1>7, <2>1
    <3> QED
      BY <1>1, <3>1 DEF Before
  <2> QED
    BY <1>8, <1>9, <1>10, <2>3, <2>4, <2>5 DEF EInv
<1>12. CASE o \notin shown
  <2>1. UNCHANGED <<lines, lineOf>>
    BY <1>3, <1>12 DEF Draw
  <2>2. Base'
    BY <1>0, <1>5, <2>1, BaseStays
  <2>3. EditTypes'
    BY <1>0, <1>1, <1>5, <1>14, <2>1 DEF EditTypes, Living
  <2>4. sink[o] = i => Before(Owner[o], Owner[i])
    <3> SUFFICES ASSUME sink[o] = i PROVE Before(Owner[o], Owner[i])
      OBVIOUS
    <3>1. o \in Living
      BY <1>0, ConnectionsAssumption
         DEF Base, NoDangling, Recorded, Living, ConnectionsAssumption
    <3>2. \A op \in Objects : \A u : <<op, u>> \notin Ahead
      <4>1. \A c \in Ahead : c[1] \notin Objects
        BY <1>2, GentleForms DEF Gentle, Ahead, ToSet
      <4> QED
        BY <4>1
    <3>3. Owner[o] \in Queued /\ Owner[i] \notin Queued
      BY <1>0, <1>4, <1>12, <3>1, <3>2 DEF Leaving, Objects
    <3>4. \A k \in DOMAIN doomed : 1 .. k \subseteq DOMAIN doomed
      BY <1>0 DEF EditTypes
    <3> QED
      BY <3>3, <3>4 DEF Queued, ToSet, Before
  <2>5. Drawn'
    <3> SUFFICES ASSUME NEW p \in Outlets, NEW j \in Inlets,
                        sink'[p] = j, <<p, j>> \notin lines'
                 PROVE  p \notin shown' /\ Before(Owner[p], Owner[j])'
      BY DEF Drawn
    <3>1. p \notin shown /\ Before(Owner[p], Owner[j])
      BY <1>5, <1>7, <1>12, <2>1, <2>4
    <3> QED
      BY <1>1, <3>1 DEF Before
  <2> QED
    BY <1>8, <1>9, <1>10, <2>2, <2>3, <2>5 DEF EInv
<1> QED
  BY <1>11, <1>12

-----------------------------------------------------------------------------
(* The server.                                                             *)

(* Nothing leads to an inlet whose transform is being destroyed: what is   *)
(* drawn has been deleted, what was never drawn has gone before.           *)
LEMMA NothingLeadsHere ==
  ASSUME EInv, NEW i \in Inlets, doomed # <<>>, Owner[i] = Head(doomed),
         \A u \in shown : Owner[u] # Head(doomed)
  PROVE  \A o \in Outlets : sink[o] # i
<1> SUFFICES ASSUME NEW o \in Outlets, sink[o] = i PROVE FALSE
  OBVIOUS
<1>1. i \notin shown
  OBVIOUS
<1>2. <<o, i>> \notin lines
  BY <1>1 DEF EInv, EditTypes
<1>3. script \notin {Clearing(o, i), Drawing(o, i)}
  BY <1>1 DEF EInv, Linked
<1>4. Before(Owner[o], Owner[i])
  BY <1>2, <1>3 DEF EInv, Drawn
<1>5. PICK k \in DOMAIN doomed : \A j \in 1 .. k : doomed[j] # Owner[i]
  BY <1>4 DEF Before
<1>6. doomed \in Seq(Transforms)
  BY DEF EInv, EditTypes
<1>7. k \in Nat /\ 1 \in 1 .. k /\ Head(doomed) = doomed[1]
  BY <1>6
<1> QED
  BY <1>5, <1>7

(* Destroying a terminal nobody sees changes no connection that is seen.   *)
LEMMA TerminalReaped ==
  ASSUME ~ReapsEarly, EInv, NEW t \in Terminals, Reap(t)
  PROVE  /\ Base' /\ t \notin shown
         /\ Living' = Living \ {t}
         /\ liveOutlets' \subseteq liveOutlets
         /\ \A o \in Outlets : /\ sink'[o] \in {sink[o], None}
                               /\ o \in liveOutlets' => sink'[o] = sink[o]
<1> USE ConnectionsAssumption DEF ConnectionsAssumption
<1>0. /\ TypeOK /\ NoDangling /\ Named /\ Recorded /\ EditTypes
      /\ Inlets \cap Outlets = {}
  BY EditorAssumption DEF EInv, Base, EditorAssumption
<1>1. /\ doomed # <<>> /\ Owner[t] = Head(doomed)
      /\ \A u \in shown : Owner[u] # Head(doomed)
      /\ UNCHANGED <<lines, lineOf>>
  BY DEF Reap, editor
<1>2. t \notin shown
  BY <1>1
<1>3. CASE t \in Inlets
  <2>1. RemoveInlet(t)
    BY <1>3 DEF Reap
  <2>2. \A o \in Outlets : sink[o] # t
    BY <1>1, <1>3, NothingLeadsHere
  <2>3. source[t] = None
    BY <1>0, <1>3, <2>2, NoneIsFreed DEF Recorded
  <2>4. Freeing(wire, {t}, {source[t]}) = wire /\ Freeing(sink, {t}, {source[t]}) = sink
    <3>1. \A o \in Outlets : sink[o] \notin {t} /\ wire[o] \notin {t}
      BY <1>0, <2>2 DEF Recorded
    <3> QED
      BY <1>0, <2>3, <3>1, NoneFreed
  <2>5. /\ liveInlets' = liveInlets \ {t} /\ wire' = wire /\ sink' = sink /\ source' = source
        /\ UNCHANGED liveOutlets /\ type' = Remade({t})
    BY <1>0, <2>1, <2>3, <2>4 DEF RemoveInlet, TypeOK
  <2>6. TypeOK' /\ NoDangling'
    <3>1. \A o \in Outlets : wire[o] # t
      BY <1>0, <2>2 DEF Recorded
    <3> QED
      BY <1>0, <2>2, <2>5, <3>1 DEF TypeOK, NoDangling, Remade
  <2>7. Named' /\ Recorded'
    BY <1>0, <1>1, <2>5 DEF Named, Recorded
  <2>8. Living' = Living \ {t}
    BY <1>0, <1>3, <2>5 DEF Living, TypeOK
  <2> QED
    BY <1>2, <2>5, <2>6, <2>7, <2>8 DEF Base
<1>4. CASE t \notin Inlets
  <2>1. RemoveOutlet(t) /\ t \in Outlets
    BY <1>4 DEF Reap, Terminals
  <2>2. /\ liveOutlets' = liveOutlets \ {t}
        /\ source' = [i \in Inlets |-> IF sink[t] = i THEN None ELSE source[i]]
        /\ sink' = [sink EXCEPT ![t] = None]
        /\ wire' = [wire EXCEPT ![t] = None]
        /\ UNCHANGED <<liveInlets, type>>
    <3>1. \A i \in Inlets : source[i] = t => sink[t] = i
      BY <1>0, <2>1 DEF Recorded
    <3>2. Freeing(source, {t}, {sink[t]}) =
            [i \in Inlets |-> IF sink[t] = i THEN None ELSE source[i]]
      BY <1>0, <3>1 DEF Freeing, TypeOK
    <3> QED
      BY <2>1, <3>2 DEF RemoveOutlet
  <2>3. TypeOK'
    BY <1>0, <2>2 DEF TypeOK
  <2>4. \A i \in Inlets : source'[i] # None =>
          source'[i] = source[i] /\ source[i] # t /\ source[i] \in Outlets
    BY <1>0, <2>2, NoneIsFreed DEF Recorded, TypeOK
  <2>5. NoDangling'
    BY <1>0, <2>1, <2>2, <2>4 DEF TypeOK, NoDangling
  <2>6. \A l \in lines : l[1] \in Outlets /\ l[1] # t
    BY <1>0, <1>2 DEF EditTypes, Named
  <2>7. Recorded'
    BY <1>0, <1>1, <2>1, <2>2, <2>4, <2>6 DEF Recorded, TypeOK
  <2>8. Named'
    BY <1>0, <1>1 DEF Named
  <2>9. Living' = Living \ {t}
    BY <1>0, <2>1, <2>2 DEF Living, TypeOK
  <2>10. \A o \in Outlets : /\ sink'[o] \in {sink[o], None}
                            /\ o \in liveOutlets' => sink'[o] = sink[o]
    BY <1>0, <2>1, <2>2 DEF TypeOK
  <2> QED
    BY <1>2, <2>2, <2>3, <2>5, <2>7, <2>8, <2>9, <2>10 DEF Base
<1> QED
  BY <1>3, <1>4

LEMMA ReapInv ==
  ASSUME ~ReapsEarly, EInv, NEW t \in Terminals, Reap(t)
  PROVE  EInv'
<1>0. EditTypes /\ Leaving /\ QueuedOnce
  BY DEF EInv
<1>1. UNCHANGED <<shown, lines, lineOf, drag, script, doomed>>
  BY DEF Reap, editor
<1>2. /\ Base' /\ t \notin shown
      /\ Living' = Living \ {t}
      /\ liveOutlets' \subseteq liveOutlets
      /\ \A o \in Outlets : /\ sink'[o] \in {sink[o], None}
                            /\ o \in liveOutlets' => sink'[o] = sink[o]
  BY TerminalReaped
<1>3. EditTypes'
  BY <1>0, <1>1, <1>2 DEF EditTypes
<1>4. Drawn'
  <2> SUFFICES ASSUME NEW o \in Outlets, NEW i \in Inlets,
                      sink'[o] = i, <<o, i>> \notin lines'
               PROVE  \/ script' \in {Clearing(o, i), Drawing(o, i)}
                      \/ o \notin shown' /\ Before(Owner[o], Owner[i])'
    BY DEF Drawn
  <2>1. sink[o] = i
    BY <1>2, ConnectionsAssumption DEF ConnectionsAssumption
  <2>2. \/ script \in {Clearing(o, i), Drawing(o, i)}
        \/ o \notin shown /\ Before(Owner[o], Owner[i])
    BY <1>1, <2>1 DEF EInv, Drawn
  <2>3. Before(Owner[o], Owner[i]) => Before(Owner[o], Owner[i])'
    BY <1>1 DEF Before
  <2> QED
    BY <1>1, <2>2, <2>3
<1>5. Linked'
  <2> SUFFICES ASSUME NEW o \in Outlets, NEW i \in Inlets
               PROVE
                 /\ script \in {Dropping(o, i), Linking(o, i)} => sink'[o] = None
                 /\ script \in {Clearing(o, i), Drawing(o, i)} =>
                      lineOf[o] = None /\ (o \in liveOutlets' => sink'[o] = i)
                 /\ script \in {Linking(o, i), Drawing(o, i)} => lineOf[i] = None
                 /\ script \in {Dropping(o, i), Linking(o, i), Clearing(o, i), Drawing(o, i)} =>
                      i \in shown /\ drag = None
    BY <1>1 DEF Linked
  <2> QED
    BY <1>2 DEF EInv, Linked
<1>6. Gestures'
  BY <1>1 DEF EInv, Gestures
<1>7. Dragged'
  BY <1>0, <1>1, <1>2 DEF EInv, Dragged, EditTypes
<1>8. Ahead' = Ahead /\ Queued' = Queued
  BY <1>1 DEF Ahead, Queued
<1>9. Leaving'
  BY <1>0, <1>1, <1>2, <1>8 DEF Leaving
<1>10. QueuedOnce'
  BY <1>0, <1>1, <1>8 DEF QueuedOnce
<1> QED
  BY <1>2, <1>3, <1>4, <1>5, <1>6, <1>7, <1>9, <1>10 DEF EInv

LEMMA EndReapInv ==
  ASSUME EInv, EndReap
  PROVE  EInv'
<1> USE ConnectionsAssumption DEF ConnectionsAssumption
<1> DEFINE tr == Head(doomed)
<1>0. Base /\ EditTypes /\ Leaving /\ QueuedOnce
  BY DEF EInv
<1>1. /\ doomed # <<>> /\ doomed' = Tail(doomed)
      /\ \A t \in Living : Owner[t] # tr
      /\ UNCHANGED <<vars, picture, drag, script>>
  BY DEF EndReap, Living
<1>2. UNCHANGED <<liveInlets, liveOutlets, sink, shown, lines, lineOf, drag, script, Living, Ahead>>
  BY <1>1 DEF vars, picture, Living, Ahead
<1>3. doomed \in Seq(Transforms) /\ IsInjective(doomed)
  BY <1>0 DEF EditTypes, QueuedOnce
<1>4. /\ doomed' \in Seq(Transforms) /\ IsInjective(doomed')
      /\ Queued = {tr} \cup Queued' /\ tr \notin Queued'
  BY <1>1, <1>3, HeadAndTail, HeadOnce DEF Queued
<1>5. Base'
  BY <1>0, <1>1, <1>2, BaseStays
<1>6. EditTypes'
  BY <1>0, <1>2, <1>4 DEF EditTypes
<1>7. Drawn'
  <2>1. ASSUME NEW a, NEW b, a # tr, Before(a, b) PROVE Before(a, b)'
    <3>1. /\ tr = doomed[1] /\ DOMAIN doomed = 1 .. Len(doomed) /\ Len(doomed) \in Nat
          /\ DOMAIN doomed' = 1 .. Len(doomed) - 1
          /\ \A k \in DOMAIN doomed' : doomed'[k] = doomed[k + 1]
      BY <1>1, <1>3
    <3>2. PICK k \in DOMAIN doomed : doomed[k] = a /\ \A j \in 1 .. k : doomed[j] # b
      BY <2>1 DEF Before
    <3>3. k - 1 \in DOMAIN doomed' /\ doomed'[k - 1] = a
      BY <2>1, <3>1, <3>2
    <3>4. ASSUME NEW j \in 1 .. k - 1 PROVE doomed'[j] # b
      <4>1. j \in DOMAIN doomed' /\ j + 1 \in 1 .. k
        BY <3>1
      <4> QED
        BY <3>1, <3>2, <4>1
    <3> QED
      BY <3>3, <3>4 DEF Before
  <2> SUFFICES ASSUME NEW o \in Outlets, NEW i \in Inlets,
                      sink'[o] = i, <<o, i>> \notin lines'
               PROVE  \/ script' \in {Clearing(o, i), Drawing(o, i)}
                      \/ o \notin shown' /\ Before(Owner[o], Owner[i])'
    BY DEF Drawn
  <2>2. \/ script \in {Clearing(o, i), Drawing(o, i)}
        \/ o \notin shown /\ Before(Owner[o], Owner[i])
    BY <1>2 DEF EInv, Drawn
  <2>3. Owner[o] # tr
    <3>1. sink[o] = i /\ o \in liveOutlets
      BY <1>0, <1>2 DEF Base, NoDangling, Recorded
    <3> QED
      BY <1>1, <3>1 DEF Living
  <2> QED
    BY <1>2, <2>1, <2>2, <2>3
<1>8. Linked' /\ Gestures' /\ Dragged'
  BY <1>2 DEF EInv, Linked, Gestures, Dragged
<1>9. Leaving'
  BY <1>0, <1>1, <1>2, <1>4 DEF Leaving
<1>10. QueuedOnce'
  BY <1>0, <1>2, <1>4 DEF QueuedOnce
<1> QED
  BY <1>5, <1>6, <1>7, <1>8, <1>9, <1>10 DEF EInv

-----------------------------------------------------------------------------
LEMMA EditInitInv == EditInit => EInv
<1> USE ConnectionsAssumption, EditorAssumption DEF ConnectionsAssumption, EditorAssumption
<1> SUFFICES ASSUME EditInit PROVE EInv
  OBVIOUS
<1>1. /\ Init /\ shown = Terminals /\ lines = {} /\ drag = None
      /\ lineOf = [t \in Terminals |-> None] /\ script = <<>> /\ doomed = <<>>
  BY DEF EditInit
<1>2. Base
  BY <1>1 DEF Init, Base, TypeOK, NoDangling, Named, Recorded
<1>3. EditTypes
  BY <1>1 DEF Init, EditTypes, Living, Terminals
<1>4. Drawn /\ Linked
  BY <1>1, Forms DEF Init, Drawn, Linked
<1>5. Gestures /\ Dragged
  BY <1>1 DEF Gestures, Dragged, Rebuilds
<1>6. Ahead = {} /\ Queued = {}
  BY <1>1 DEF Ahead, Queued, ToSet
<1>7. Leaving
  BY <1>1, <1>6 DEF Init, Leaving, Living, Terminals
<1>8. QueuedOnce
  BY <1>1, <1>6 DEF QueuedOnce, IsInjective, RemovesOnce
<1> QED
  BY <1>2, <1>3, <1>4, <1>5, <1>7, <1>8 DEF EInv

LEMMA StutterInv ==
  ASSUME EInv, UNCHANGED <<vars, editor>>
  PROVE  EInv'
<1>1. UNCHANGED <<vars, lines, lineOf, shown, drag, script, doomed>>
  BY DEF editor
<1>2. UNCHANGED <<liveInlets, liveOutlets, sink, Living, Ahead, Queued>>
  BY <1>1 DEF vars, Living, Ahead, Queued
<1>3. Base'
  BY <1>1, BaseStays DEF EInv
<1>4. EditTypes'
  BY <1>1, <1>2 DEF EInv, EditTypes
<1>5. Drawn'
  BY <1>1, <1>2 DEF EInv, Drawn, Before
<1>6. Linked' /\ Gestures' /\ Dragged'
  BY <1>1, <1>2 DEF EInv, Linked, Gestures, Dragged
<1>7. Leaving' /\ QueuedOnce'
  BY <1>1, <1>2 DEF EInv, Leaving, QueuedOnce
<1> QED
  BY <1>3, <1>4, <1>5, <1>6, <1>7 DEF EInv

(* What EditDrag runs with: figures are drawn around free terminals only,  *)
(* no transform is destroyed before the editor has forgotten it, and no    *)
(* connection is refused.                                                  *)
Orderly == ~TakenGestures /\ ~ReapsEarly /\ OneType

(* The editor's picture, the rest of the gesture under way, the queue and  *)
(* the connections agree in every state, whatever gestures are made and    *)
(* whenever the server destroys a transform in between.                    *)
THEOREM EditSpecInv ==
  ASSUME Orderly
  PROVE  EditSpec => []EInv
<1>1. EInv /\ [EditNext]_<<vars, editor>> => EInv'
  <2> SUFFICES ASSUME EInv, [EditNext]_<<vars, editor>> PROVE EInv'
    OBVIOUS
  <2>1. CASE UserStep
    BY <2>1, StartInv, EstablishInv, GestureInv, DeleteInv, CreateInv, ReplaceInv,
       DeleteWireInv DEF UserStep, Orderly
  <2>2. CASE CommandStep
    BY <2>2, UnlineInv, ForgetInv, ConnectInv, DrawInv, DeferInv, MakeInv
       DEF CommandStep, Orderly
  <2>3. CASE \E t \in Terminals : Reap(t)
    BY <2>3, ReapInv DEF Orderly
  <2>4. CASE EndReap
    BY <2>4, EndReapInv
  <2>5. CASE UNCHANGED <<vars, editor>>
    BY <2>5, StutterInv
  <2> QED
    BY <2>1, <2>2, <2>3, <2>4, <2>5 DEF EditNext
<1> QED
  BY <1>1, EditInitInv, PTL DEF EditSpec

(* The ends of every wire drawn have objects and both name it, so that     *)
(* deleting either end finds it; no transform is queued twice.             *)
THEOREM EditTypeCorrect ==
  ASSUME Orderly
  PROVE  EditSpec => []EditTypeOK
<1>1. EInv => EditTypeOK
  <2> SUFFICES ASSUME EInv PROVE EditTypeOK
    OBVIOUS
  <2>1. TypeOK /\ Named /\ EditTypes /\ QueuedOnce
    BY DEF EInv, Base
  <2>2. shown \subseteq Terminals
    BY <2>1 DEF EditTypes, TypeOK, Living, Terminals
  <2>3. \A t \in Terminals, l \in lines : t \in {l[1], l[2]} => lineOf[t] = l
    BY <2>1 DEF Named
  <2>4. \A t \in Terminals : lineOf[t] \in lines \cup {None}
    BY <2>1 DEF Named
  <2> QED
    BY <2>1, <2>2, <2>3, <2>4 DEF EditTypeOK, EditTypes, QueuedOnce
<1> QED
  BY <1>1, EditSpecInv, PTL

(* Between gestures, what is drawn is what is connected.                   *)
LEMMA IdleShown ==
  ASSUME EInv, Idle, NEW o \in Outlets \cap shown
  PROVE  /\ \A i \in Inlets : <<o, i>> \in lines <=> wire[o] = i
         /\ wire[o] \in (Inlets \cap shown) \cup {None}
<1>1. Base /\ EditTypes
  BY DEF EInv
<1>2. \A i \in Inlets : sink[o] = i => <<o, i>> \in lines
  BY IdleFacts
<1>3. \A i \in Inlets : <<o, i>> \in lines => sink[o] = i /\ i \in shown
  BY <1>1 DEF Base, Recorded, EditTypes
<1>4. wire[o] = sink[o] /\ sink[o] \in Inlets \cup {None}
  BY <1>1, NoneIsFreed DEF Base, Recorded
<1> QED
  BY <1>2, <1>3, <1>4

(* Between gestures a wire is drawn exactly where there is a connection,   *)
(* whatever was dragged, deleted, replaced or failed before.               *)
THEOREM Shown ==
  ASSUME Orderly
  PROVE  EditSpec => []ShownAsWired
<1>1. EInv => ShownAsWired
  BY IdleShown DEF ShownAsWired
<1> QED
  BY <1>1, EditSpecInv, PTL

(* Between gestures no two outlets shown send to one inlet.                *)
THEOREM OneWire ==
  ASSUME Orderly
  PROVE  EditSpec => []OneConnection
<1>1. EInv => OneConnection
  <2> SUFFICES ASSUME EInv, Idle, NEW o \in Outlets \cap shown, NEW p \in Outlets \cap shown,
                      wire[o] = wire[p], wire[o] \in Inlets
               PROVE  o = p
    BY DEF OneConnection
  <2> DEFINE i == wire[o]
  <2>1. i \in Inlets /\ <<o, i>> \in lines /\ <<p, i>> \in lines
    BY IdleShown
  <2>2. lineOf[i] = <<o, i>> /\ lineOf[i] = <<p, i>>
    BY <2>1 DEF EInv, Base, Named
  <2> HIDE DEF i
  <2> QED
    BY <2>2
<1> QED
  BY <1>1, EditSpecInv, PTL

(* Nothing leads to a destroyed terminal, although clients connect ends    *)
(* that are not free and deletions are served between any two commands.    *)
THEOREM NoneDangles ==
  ASSUME Orderly
  PROVE  EditSpec => []NoDangling
BY EditSpecInv, PTL DEF EInv, Base
==============================================================================
