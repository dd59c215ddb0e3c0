-------------------------- MODULE NamespaceProofs --------------------------
(***************************************************************************)
(* Proofs about the name space, for any objects, containers, names and     *)
(* depth.                                                                  *)
(*                                                                         *)
(* First: what Find returns exists and has the path it was found by, at    *)
(* every moment of every renaming and deletion.  Erasing an entry with an  *)
(* object is one half of it.  The other is that nothing enters the table   *)
(* that is gone: renaming a container enters its members, and these exist  *)
(* because deleting an object takes it off its container's list, unless    *)
(* the container is on its way out too.                                    *)
(*                                                                         *)
(* Then, under the divider "The tree": between commands containers and     *)
(* members know each other, paths lead through those of the containers,    *)
(* the queue has no dangling pointer and the tables list no ghosts.        *)
(*                                                                         *)
(* Then what is found: no entry of an object that stays is lost, although  *)
(* two objects may have one path.  Last what the two tables list, for      *)
(* which no object may be deleted twice.                                   *)
(***************************************************************************)
EXTENDS Namespace, ListProofs

CallSet ==
  [does : {"delete", "finish"}, obj : Objects]
    \cup [does : {"rename"}, obj : Objects, name : Names]

NamesTypeOK ==
  /\ live \subseteq made /\ made \subseteq Objects
  /\ container \in [Objects -> Objects \cup {None}]
  /\ path \in [Objects -> Seq(Names)]
  /\ \A o \in made : path[o] # <<>>
  /\ members \in [Objects -> Seq(Objects)]
  /\ queue \in Seq(Objects)
  /\ work \in Seq(CallSet)

(* The lists of members hold each object once, and only in its container's *)
(* list; what was not created has and is no member.                        *)
ListsOK ==
  \A c \in Objects :
    /\ IsInjective(members[c])
    /\ c \notin made => members[c] = <<>>
    /\ \A m \in ToSet(members[c]) : m \in made /\ container[m] \in {c, None}

(* The members of a container exist, unless ~Container has begun to delete *)
(* them.                                                                   *)
MembersExist ==
  \A c \in live : \A m \in ToSet(members[c]) :
    \/ m \in live /\ container[m] = c
    \/ Call("finish", c) \in ToSet(work)

(* While renaming there is nothing else to do, and what is renamed exists. *)
OnlyRenaming ==
  \A d \in ToSet(work) : d.does = "rename" =>
    /\ d.obj \in live
    /\ \A e \in ToSet(work) : e.does = "rename"

IInv == NamesTypeOK /\ ListsOK /\ MembersExist /\ OnlyRenaming /\ TableSound

-----------------------------------------------------------------------------
(* Tables.                                                                 *)

(* What is unregistered under its path has no other entry.                 *)
LEMMA Unregistered ==
  ASSUME TableSound, NEW o
  PROVE  \A q \in DOMAIN Unregister(path[o], o) :
           /\ q \in DOMAIN table
           /\ Unregister(path[o], o)[q] = table[q]
           /\ table[q] # o
<1>1. \A q \in DOMAIN table : table[q] = o => path[o] = q
  BY DEF TableSound
<1>2. CASE path[o] \in DOMAIN table /\ table[path[o]] = o
  BY <1>1, <1>2 DEF Unregister, Erase
<1>3. CASE ~(path[o] \in DOMAIN table /\ table[path[o]] = o)
  <2>1. Unregister(path[o], o) = table
    BY <1>3 DEF Unregister
  <2> QED
    BY <1>1, <1>3, <2>1
<1> QED
  BY <1>2, <1>3

-----------------------------------------------------------------------------
(* The steps.                                                              *)

LEMMA InitIInv == Init => IInv
<1> SUFFICES ASSUME Init PROVE IInv
  OBVIOUS
<1>1. NamesTypeOK
  BY DEF Init, NamesTypeOK
<1>2. \A c \in Objects : members[c] = <<>> /\ ToSet(members[c]) = {}
  BY DEF Init, ToSet
<1>3. ListsOK
  BY <1>2 DEF ListsOK, IsInjective
<1>4. MembersExist /\ OnlyRenaming /\ TableSound
  BY DEF Init, MembersExist, OnlyRenaming, TableSound, ToSet
<1> QED
  BY <1>1, <1>3, <1>4 DEF IInv

(* Without calls to make nothing is being deleted or renamed.              *)
LEMMA Idle ==
  ASSUME IInv, work = <<>>
  PROVE  /\ ToSet(work) = {}
         /\ \A c \in live : \A m \in ToSet(members[c]) : m \in live /\ container[m] = c
<1>1. ToSet(work) = {}
  BY DEF ToSet
<1> QED
  BY <1>1 DEF IInv, MembersExist

LEMMA CreateIInv ==
  ASSUME IInv, NEW o \in Objects, NEW c \in Containers \cup {None}, NEW n \in Names,
         Create(o, c, n)
  PROVE  IInv'
<1> USE NamespaceAssumption
<1>0. /\ work = <<>> /\ work' = <<>> /\ o \notin made /\ o \notin live
      /\ c = None \/ c \in live
      /\ c \in Objects \cup {None}
  BY DEF Create, IInv, NamesTypeOK
<1>1. PathIn(c, n) \in Seq(Names) /\ PathIn(c, n) # <<>>
  <2>1. CASE c = None
    BY <2>1 DEF PathIn
  <2>2. CASE c # None
    <3>1. path[c] \in Seq(Names)
      BY <1>0, <2>2 DEF IInv, NamesTypeOK
    <3> QED
      BY <2>2, <3>1 DEF PathIn
  <2> QED
    BY <2>1, <2>2
<1>2. ASSUME c # None
      PROVE  /\ Append(members[c], o) \in Seq(Objects)
             /\ ToSet(Append(members[c], o)) = ToSet(members[c]) \cup {o}
             /\ IsInjective(Append(members[c], o))
  <2>1. members[c] \in Seq(Objects) /\ IsInjective(members[c]) /\ o \notin ToSet(members[c])
    BY <1>0, <1>2 DEF IInv, NamesTypeOK, ListsOK
  <2> QED
    BY <2>1, AppendList
<1>3. NamesTypeOK'
  BY <1>0, <1>1, <1>2 DEF Create, IInv, NamesTypeOK
<1>4. ASSUME NEW d \in Objects
      PROVE  /\ members'[d] = IF d = c THEN Append(members[d], o) ELSE members[d]
             /\ members[o] = <<>> /\ ToSet(members[o]) = {}
             /\ o \notin ToSet(members[d])
             /\ container'[d] = IF d = o THEN c ELSE container[d]
  <2>1. members[o] = <<>> /\ o \notin ToSet(members[d])
    BY <1>0 DEF IInv, ListsOK
  <2>2. ToSet(members[o]) = {}
    BY <2>1 DEF ToSet
  <2> QED
    BY <1>0, <2>1, <2>2 DEF Create, IInv, NamesTypeOK
<1>5. ASSUME NEW d \in Objects
      PROVE  ToSet(members'[d]) = IF d = c THEN ToSet(members[d]) \cup {o} ELSE ToSet(members[d])
  BY <1>2, <1>4
<1>6. ListsOK'
  <2> SUFFICES ASSUME NEW d \in Objects
               PROVE  /\ IsInjective(members'[d])
                      /\ d \notin made' => members'[d] = <<>>
                      /\ \A m \in ToSet(members'[d]) :
                           m \in made' /\ container'[m] \in {d, None}
    BY DEF ListsOK
  <2>1. IsInjective(members'[d])
    BY <1>2, <1>4 DEF IInv, ListsOK
  <2>2. d \notin made' => members'[d] = <<>>
    BY <1>0, <1>4 DEF Create, IInv, NamesTypeOK, ListsOK
  <2>3. ASSUME NEW m \in ToSet(members'[d]) PROVE m \in made' /\ container'[m] \in {d, None}
    <3>1. CASE m = o
      BY <1>4, <1>5, <3>1 DEF Create
    <3>2. CASE m # o
      <4>1. m \in ToSet(members[d])
        BY <1>5, <3>2
      <4>2. m \in made /\ m \in Objects /\ container[m] \in {d, None}
        BY <4>1 DEF IInv, ListsOK, NamesTypeOK
      <4> QED
        BY <1>4, <3>2, <4>2 DEF Create
    <3> QED
      BY <3>1, <3>2
  <2> QED
    BY <2>1, <2>2, <2>3
<1>7. MembersExist'
  <2> SUFFICES ASSUME NEW d \in live', NEW m \in ToSet(members'[d])
               PROVE  m \in live' /\ container'[m] = d
    BY DEF MembersExist
  <2>1. d \in Objects /\ (d = o \/ d \in live)
    BY DEF Create, IInv, NamesTypeOK
  <2>2. CASE m = o
    BY <1>4, <1>5, <2>1, <2>2 DEF Create
  <2>3. CASE m # o
    <3>1. m \in ToSet(members[d])
      BY <1>5, <2>1, <2>3
    <3>2. d \in live
      BY <1>4, <2>1, <3>1
    <3>3. m \in live /\ container[m] = d /\ m \in Objects
      BY <1>0, <3>1, <3>2, Idle DEF IInv, NamesTypeOK
    <3> QED
      BY <1>4, <2>3, <3>3 DEF Create
  <2> QED
    BY <2>2, <2>3
<1>8. OnlyRenaming'
  BY <1>0 DEF OnlyRenaming, ToSet
<1>9. TableSound'
  <2> SUFFICES ASSUME NEW q \in DOMAIN table' PROVE table'[q] \in live' /\ path'[table'[q]] = q
    BY DEF TableSound
  <2>1. /\ path'[o] = PathIn(c, n) /\ live' = live \cup {o}
        /\ \A x \in Objects \ {o} : path'[x] = path[x]
        /\ table' = Put(table, path'[o], o)
    BY DEF Create, IInv, NamesTypeOK
  <2>2. CASE q = path'[o]
    BY <2>1, <2>2 DEF Put
  <2>3. CASE q # path'[o]
    <3>1. q \in DOMAIN table /\ table'[q] = table[q]
      BY <2>1, <2>3 DEF Put
    <3>2. table[q] \in live /\ path[table[q]] = q /\ table[q] \in Objects \ {o}
      BY <1>0, <3>1 DEF IInv, TableSound, NamesTypeOK
    <3> QED
      BY <2>1, <3>1, <3>2
  <2> QED
    BY <2>2, <2>3
<1> QED
  BY <1>3, <1>6, <1>7, <1>8, <1>9 DEF IInv

(* The first call of an idle moment.                                       *)
LEMMA FirstCallIInv ==
  ASSUME IInv, work = <<>>, NEW d \in CallSet, work' = <<d>>,
         d.does = "rename" => d.obj \in live, queue' \in Seq(Objects),
         UNCHANGED <<live, made, container, path, members, table>>
  PROVE  IInv'
<1>1. work' \in Seq(CallSet) /\ ToSet(work') = {d}
  BY OneCall
<1>2. NamesTypeOK'
  BY <1>1 DEF IInv, NamesTypeOK
<1>3. ListsOK'
  BY DEF IInv, ListsOK
<1>4. MembersExist'
  BY Idle DEF MembersExist
<1>5. OnlyRenaming'
  BY <1>1 DEF OnlyRenaming
<1>6. TableSound'
  BY DEF IInv, TableSound
<1> QED
  BY <1>2, <1>3, <1>4, <1>5, <1>6 DEF IInv

LEMMA BeginRenameIInv ==
  ASSUME IInv, NEW o \in Objects, NEW n \in Names, BeginRename(o, n)
  PROVE  IInv'
<1>1. ToRename(o, n) \in CallSet /\ ToRename(o, n).obj = o
  BY DEF ToRename, CallSet
<1>2. queue \in Seq(Objects)
  BY DEF IInv, NamesTypeOK
<1> QED
  BY <1>1, <1>2, FirstCallIInv DEF BeginRename

LEMMA DeleteIInv ==
  ASSUME IInv, DoOneDeferredDelete
  PROVE  IInv'
<1> DEFINE d == Call("delete", Head(queue))
<1>1. Head(queue) \in Objects /\ Tail(queue) \in Seq(Objects)
  BY HeadAndTail DEF IInv, NamesTypeOK, DoOneDeferredDelete
<1>2. d \in CallSet /\ d.does # "rename"
  BY <1>1 DEF Call, CallSet
<1>3. work = <<>> /\ work' = <<d>> /\ queue' \in Seq(Objects)
  BY <1>1 DEF DoOneDeferredDelete
<1> HIDE DEF d
<1> QED
  BY <1>2, <1>3, FirstCallIInv DEF DoOneDeferredDelete

LEMMA QuietIInv ==
  ASSUME IInv, queue' \in Seq(Objects),
         UNCHANGED <<live, made, container, path, members, table, work>>
  PROVE  IInv'
BY DEF IInv, NamesTypeOK, ListsOK, MembersExist, OnlyRenaming, TableSound

(* A call in the list of calls, and what is left when it is made.          *)
LEMMA NextCall ==
  ASSUME IInv, work # <<>>
  PROVE  /\ Head(work) \in CallSet /\ Head(work).obj \in Objects
         /\ Tail(work) \in Seq(CallSet)
         /\ ToSet(work) = {Head(work)} \cup ToSet(Tail(work))
         /\ Head(work).does # "rename" => \A d \in ToSet(work) : d.does # "rename"
<1>1. /\ Head(work) \in CallSet /\ Tail(work) \in Seq(CallSet)
      /\ ToSet(work) = {Head(work)} \cup ToSet(Tail(work))
  BY HeadAndTail DEF IInv, NamesTypeOK
<1>2. Head(work).obj \in Objects
  BY <1>1 DEF CallSet
<1> QED
  BY <1>1, <1>2 DEF IInv, OnlyRenaming

(* The calls made for the members of an object.                            *)
LEMMA CallsForMembers ==
  ASSUME IInv, NEW o \in Objects, NEW f, f \in [DOMAIN members[o] -> CallSet]
  PROVE  /\ f \in Seq(CallSet)
         /\ ToSet(f) = {f[k] : k \in DOMAIN members[o]}
         /\ \A k \in DOMAIN members[o] :
              members[o][k] \in Objects /\ members[o][k] \in ToSet(members[o])
<1>1. members[o] \in Seq(Objects)
  BY DEF IInv, NamesTypeOK
<1>2. DOMAIN members[o] = 1 .. Len(members[o]) /\ Len(members[o]) \in Nat
  BY <1>1
<1> QED
  BY <1>1, <1>2 DEF ToSet

(* Renaming an object calls for the renaming of its members, all of which  *)
(* exist and are in it.                                                    *)
LEMMA RenameCalls ==
  ASSUME IInv, work # <<>>, Rename(Head(work))
  PROVE  /\ Head(work) \in CallSet /\ Head(work).obj \in live /\ Head(work).name \in Names
         /\ \A e \in ToSet(work) : e.does = "rename"
         /\ \A d \in live : \A m \in ToSet(members[d]) : m \in live /\ container[m] = d
         /\ work' \in Seq(CallSet)
         /\ ToSet(Tail(work)) \subseteq ToSet(work')
         /\ \A e \in ToSet(work') :
              \/ e \in ToSet(Tail(work))
              \/ e.does = "rename" /\ e.obj \in ToSet(members[Head(work).obj])
         /\ \A m \in ToSet(members[Head(work).obj]) : \E e \in ToSet(work') : e.obj = m
<1> DEFINE c == Head(work)
           o == c.obj
           f == [k \in DOMAIN members[o] |->
                   ToRename(members[o][k], Last(path[members[o][k]]))]
<1>1. /\ c \in CallSet /\ o \in Objects /\ c.does = "rename"
      /\ Tail(work) \in Seq(CallSet)
      /\ ToSet(work) = {c} \cup ToSet(Tail(work))
  BY NextCall DEF Rename
<1>2. c.name \in Names
  BY <1>1 DEF CallSet
<1>3. o \in live /\ \A e \in ToSet(work) : e.does = "rename"
  BY <1>1 DEF IInv, OnlyRenaming
<1>4. \A d \in Objects : Call("finish", d) \notin ToSet(work)
  BY <1>3 DEF Call
<1>5. \A d \in live : \A m \in ToSet(members[d]) : m \in live /\ container[m] = d
  BY <1>4 DEF IInv, MembersExist, NamesTypeOK
<1>6. ASSUME NEW k \in DOMAIN members[o]
      PROVE  /\ members[o][k] \in live
             /\ f[k] \in CallSet /\ f[k].does = "rename" /\ f[k].obj = members[o][k]
  <2>1. members[o][k] \in ToSet(members[o])
    BY DEF ToSet
  <2>2. members[o][k] \in live /\ members[o][k] \in made /\ members[o][k] \in Objects
    BY <1>3, <1>5, <2>1 DEF IInv, NamesTypeOK
  <2>3. path[members[o][k]] \in Seq(Names) /\ path[members[o][k]] # <<>>
    BY <2>2 DEF IInv, NamesTypeOK
  <2>4. Last(path[members[o][k]]) \in Names
    BY <2>3 DEF Last
  <2>5. f[k] = ToRename(members[o][k], Last(path[members[o][k]]))
    OBVIOUS
  <2> HIDE DEF f
  <2> QED
    BY <2>2, <2>4, <2>5 DEF ToRename, CallSet
<1>7. f \in [DOMAIN members[o] -> CallSet]
  BY <1>6
<1>8. /\ path' = [path EXCEPT ![o] = PathIn(container[o], c.name)]
      /\ table' = Put(Unregister(path[o], o), path'[o], o)
      /\ work' = f \o Tail(work)
      /\ UNCHANGED <<live, made, container, members, queue>>
  BY DEF Rename
<1> HIDE DEF f
<1>9. f \in Seq(CallSet) /\ ToSet(f) = {f[k] : k \in DOMAIN members[o]}
  BY <1>1, <1>7, CallsForMembers
<1>10. /\ work' \in Seq(CallSet)
       /\ ToSet(work') = {f[k] : k \in DOMAIN members[o]} \cup ToSet(Tail(work))
  <2>1. /\ f \o Tail(work) \in Seq(CallSet)
        /\ ToSet(f \o Tail(work)) = ToSet(f) \cup ToSet(Tail(work))
    <3>1. f \in Seq(CallSet) /\ Tail(work) \in Seq(CallSet)
      BY <1>1, <1>9
    <3> QED
      BY <3>1, ConcatList, Zenon
  <2>2. work' = f \o Tail(work)
    BY <1>8
  <2> QED
    BY <1>9, <2>1, <2>2, Zenon
<1>11. \A m \in ToSet(members[o]) : \E k \in DOMAIN members[o] : members[o][k] = m
  BY DEF ToSet
<1>12. \A k \in DOMAIN members[o] :
         f[k].does = "rename" /\ f[k].obj = members[o][k] /\ f[k].obj \in ToSet(members[o])
  BY <1>6 DEF ToSet
<1> QED
  BY <1>1, <1>2, <1>3, <1>5, <1>10, <1>11, <1>12

LEMMA RenameIInv ==
  ASSUME IInv, work # <<>>, Rename(Head(work))
  PROVE  IInv'
<1> DEFINE c == Head(work)
           o == c.obj
<1>1. /\ c \in CallSet /\ o \in live /\ o \in Objects /\ c.name \in Names
      /\ ToSet(work) = {c} \cup ToSet(Tail(work))
      /\ \A e \in ToSet(work) : e.does = "rename"
      /\ \A d \in live : \A m \in ToSet(members[d]) : m \in live /\ container[m] = d
  BY RenameCalls, NextCall
<1>8. /\ path' = [path EXCEPT ![o] = PathIn(container[o], c.name)]
      /\ table' = Put(Unregister(path[o], o), path'[o], o)
      /\ UNCHANGED <<live, made, container, members, queue>>
  BY DEF Rename
<1>10. /\ work' \in Seq(CallSet)
       /\ \A e \in ToSet(work') :
            \/ e \in ToSet(Tail(work))
            \/ e.does = "rename" /\ e.obj \in ToSet(members[o])
  BY RenameCalls
<1> HIDE DEF c
<1>11. PathIn(container[o], c.name) \in Seq(Names) /\ PathIn(container[o], c.name) # <<>>
  <2>1. CASE container[o] = None
    BY <1>1, <2>1 DEF PathIn
  <2>2. CASE container[o] # None
    <3>1. path[container[o]] \in Seq(Names)
      BY <1>1, <2>2 DEF IInv, NamesTypeOK
    <3> QED
      BY <1>1, <2>2, <3>1 DEF PathIn
  <2> QED
    BY <2>1, <2>2
<1>12. NamesTypeOK'
  BY <1>1, <1>8, <1>10, <1>11 DEF IInv, NamesTypeOK
<1>13. ListsOK'
  BY <1>8 DEF IInv, ListsOK
<1>14. MembersExist'
  BY <1>1, <1>8 DEF MembersExist
<1>15. OnlyRenaming'
  <2>1. \A e \in ToSet(work') : e.does = "rename" /\ e.obj \in live
    <3>1. \A e \in ToSet(Tail(work)) : e.does = "rename" /\ e.obj \in live
      BY <1>1 DEF IInv, OnlyRenaming
    <3> QED
      BY <1>1, <1>10, <3>1
  <2> QED
    BY <1>8, <2>1 DEF OnlyRenaming
<1>16. TableSound'
  <2> SUFFICES ASSUME NEW q \in DOMAIN table' PROVE table'[q] \in live /\ path'[table'[q]] = q
    BY <1>8 DEF TableSound
  <2>1. CASE q = path'[o]
    BY <1>1, <1>8, <2>1 DEF Put, IInv, NamesTypeOK
  <2>2. CASE q # path'[o]
    <3>1. /\ q \in DOMAIN Unregister(path[o], o)
          /\ table'[q] = Unregister(path[o], o)[q]
      BY <1>8, <2>2 DEF Put
    <3>2. q \in DOMAIN table /\ table'[q] = table[q] /\ table[q] # o
      BY <3>1, Unregistered DEF IInv
    <3>3. table[q] \in live /\ table[q] \in Objects /\ path[table[q]] = q
      BY <3>2 DEF IInv, TableSound, NamesTypeOK
    <3> QED
      BY <1>8, <3>2, <3>3 DEF IInv, NamesTypeOK
  <2> QED
    BY <2>1, <2>2
<1> QED
  BY <1>12, <1>13, <1>14, <1>15, <1>16 DEF IInv

(* Deleting an object calls for the deletion of its members, and then for  *)
(* its own end.                                                            *)
LEMMA DeleteCalls ==
  ASSUME IInv, work # <<>>, BeginDelete(Head(work))
  PROVE  /\ Head(work) \in CallSet /\ Head(work).does = "delete" /\ Head(work).obj \in Objects
         /\ \A d \in ToSet(work) : d.does # "rename"
         /\ ToSet(work) = {Head(work)} \cup ToSet(Tail(work))
         /\ work' \in Seq(CallSet)
         /\ ToSet(work') = {Call("delete", m) : m \in ToSet(members[Head(work).obj])}
                            \cup {Call("finish", Head(work).obj)} \cup ToSet(Tail(work))
<1> USE NamespaceAssumption
<1> DEFINE o == Head(work).obj
           f == [k \in DOMAIN members[o] |-> Call("delete", members[o][k])]
           g == <<Call("finish", o)>>
           rest == Tail(work)
<1>1. /\ Head(work) \in CallSet /\ Head(work).does = "delete" /\ o \in Objects
      /\ rest \in Seq(CallSet)
      /\ ToSet(work) = {Head(work)} \cup ToSet(rest)
  BY NextCall DEF BeginDelete
<1>2. \A d \in ToSet(work) : d.does # "rename"
  BY <1>1, NextCall
<1>3. Call("finish", o) \in CallSet /\ Call("finish", o).does = "finish"
  BY <1>1 DEF Call, CallSet
<1>4. \A k \in DOMAIN members[o] :
        f[k] = Call("delete", members[o][k]) /\ members[o][k] \in Objects
  <2>1. members[o] \in Seq(Objects)
    BY <1>1 DEF IInv, NamesTypeOK
  <2> QED
    BY <2>1
<1>5. \A k \in DOMAIN members[o] : f[k] \in CallSet /\ f[k].does = "delete"
  BY <1>4 DEF Call, CallSet
<1>6. f \in [DOMAIN members[o] -> CallSet]
  BY <1>5
<1>7. /\ container' = [m \in Objects |-> IF m \in ToSet(members[o]) THEN None ELSE container[m]]
      /\ work' = f \o g \o rest
      /\ UNCHANGED <<live, made, path, members, table, queue>>
  BY DEF BeginDelete
<1>8. g \in Seq(CallSet) /\ ToSet(g) = {Call("finish", o)}
  BY <1>3, OneCall
<1> HIDE DEF f, g, rest
<1>9. f \in Seq(CallSet) /\ ToSet(f) = {f[k] : k \in DOMAIN members[o]}
  BY <1>1, <1>6, CallsForMembers
<1> HIDE DEF o
<1>10. work' \in Seq(CallSet) /\ ToSet(work') = ToSet(f) \cup ToSet(g) \cup ToSet(rest)
  <2>1. \A s, t \in Seq(CallSet) :
          s \o t \in Seq(CallSet) /\ ToSet(s \o t) = ToSet(s) \cup ToSet(t)
    BY ConcatList
  <2>2. f \in Seq(CallSet) /\ g \in Seq(CallSet) /\ rest \in Seq(CallSet)
    BY <1>1, <1>8, <1>9
  <2>3. f \o g \in Seq(CallSet) /\ ToSet(f \o g) = ToSet(f) \cup ToSet(g)
    BY <2>1, <2>2, Zenon
  <2>4. /\ (f \o g) \o rest \in Seq(CallSet)
        /\ ToSet((f \o g) \o rest) = ToSet(f \o g) \cup ToSet(rest)
    BY <2>1, <2>2, <2>3, Zenon
  <2>5. work' = (f \o g) \o rest
    BY <1>7
  <2> QED
    BY <2>3, <2>4, <2>5, Zenon
<1>11. ToSet(f) = {Call("delete", m) : m \in ToSet(members[o])}
  BY <1>4, <1>9 DEF ToSet
<1> QED
  BY <1>1, <1>2, <1>8, <1>10, <1>11 DEF o, rest

LEMMA BeginDeleteIInv ==
  ASSUME IInv, work # <<>>, BeginDelete(Head(work))
  PROVE  IInv'
<1> USE NamespaceAssumption
<1> DEFINE o == Head(work).obj
<1>1. /\ Head(work).does = "delete" /\ o \in Objects
      /\ ToSet(work) = {Head(work)} \cup ToSet(Tail(work))
      /\ \A d \in ToSet(work) : d.does # "rename"
      /\ work' \in Seq(CallSet)
  BY DeleteCalls
<1>7. /\ container' = [m \in Objects |-> IF m \in ToSet(members[o]) THEN None ELSE container[m]]
      /\ UNCHANGED <<live, made, path, members, table, queue>>
  BY DEF BeginDelete
<1>10. ToSet(work') = {Call("delete", m) : m \in ToSet(members[o])}
                        \cup {Call("finish", o)} \cup ToSet(Tail(work))
  BY DeleteCalls
<1> HIDE DEF o
<1>11. NamesTypeOK'
  BY <1>1, <1>7 DEF IInv, NamesTypeOK
<1>12. ASSUME NEW c \in Objects
       PROVE  \A m \in ToSet(members[c]) : m \in Objects /\ m \in made /\ container[m] \in {c, None}
  BY DEF IInv, NamesTypeOK, ListsOK
<1>13. ListsOK'
  <2>1. ASSUME NEW c \in Objects, NEW m \in ToSet(members[c])
        PROVE  container'[m] \in {c, None}
    BY <1>7, <1>12, <2>1
  <2> QED
    BY <1>7, <2>1 DEF IInv, ListsOK
<1>14. MembersExist'
  <2> SUFFICES ASSUME NEW c \in live, NEW m \in ToSet(members[c])
               PROVE  \/ m \in live /\ container'[m] = c
                      \/ Call("finish", c) \in ToSet(work')
    BY <1>7 DEF MembersExist
  <2>0. c \in Objects
    BY DEF IInv, NamesTypeOK
  <2>1. CASE c = o
    BY <1>10, <2>1
  <2>2. CASE c # o /\ Call("finish", c) \in ToSet(work)
    <3>1. Call("finish", c) # Head(work)
      BY <1>1 DEF Call
    <3> QED
      BY <1>1, <1>10, <2>2, <3>1
  <2>3. CASE c # o /\ m \in live /\ container[m] = c
    <3>1. m \notin ToSet(members[o])
      <4>1. m \in ToSet(members[o]) => container[m] \in {o, None}
        BY <1>1, <1>12
      <4>2. c # None
        BY <2>0
      <4> QED
        BY <2>3, <4>1, <4>2
    <3>2. m \in Objects
      BY <1>12, <2>0
    <3> QED
      BY <1>7, <2>3, <3>1, <3>2
  <2> QED
    BY <2>1, <2>2, <2>3 DEF IInv, MembersExist
<1>15. OnlyRenaming'
  <2>1. \A d \in ToSet(work') : d.does # "rename"
    BY <1>1, <1>10 DEF Call
  <2> QED
    BY <2>1 DEF OnlyRenaming
<1>16. TableSound'
  BY <1>7 DEF IInv, TableSound
<1> QED
  BY <1>11, <1>13, <1>14, <1>15, <1>16 DEF IInv

(* An object that is gone is in no list of an object that exists, unless   *)
(* that one is on its way out.                                             *)
LEMMA Delisted ==
  ASSUME IInv, NEW c \in Objects \cup {None}, NEW o \in Objects
  PROVE  /\ RemoveNameable(c, o) \in [Objects -> Seq(Objects)]
         /\ \A d \in Objects :
              /\ IsInjective(RemoveNameable(c, o)[d])
              /\ ToSet(RemoveNameable(c, o)[d]) \subseteq ToSet(members[d])
              /\ ToSet(members[d]) \subseteq ToSet(RemoveNameable(c, o)[d]) \cup {o}
              /\ members[d] = <<>> => RemoveNameable(c, o)[d] = <<>>
              /\ d = c => o \notin ToSet(RemoveNameable(c, o)[d])
<1> USE NamespaceAssumption
<1>1. members \in [Objects -> Seq(Objects)] /\ \A d \in Objects : IsInjective(members[d])
  BY DEF IInv, NamesTypeOK, ListsOK
<1>2. CASE c # None /\ o \in ToSet(members[c])
  <2> DEFINE k == CHOOSE j \in DOMAIN members[c] : members[c][j] = o
             s == RemoveAt(members[c], k)
  <2>1. k \in DOMAIN members[c] /\ members[c][k] = o
    BY <1>2 DEF ToSet
  <2>2. RemoveNameable(c, o) = [members EXCEPT ![c] = s]
    BY <1>2 DEF RemoveNameable
  <2> HIDE DEF k
  <2>3. members[c] \in Seq(Objects) /\ IsInjective(members[c]) /\ c \in Objects
    BY <1>1, <1>2
  <2>4. s \in Seq(Objects) /\ IsInjective(s) /\ ToSet(s) = ToSet(members[c]) \ {o}
    BY <2>1, <2>3, RemovedOnce
  <2>5. members[c] # <<>>
    BY <2>1
  <2> HIDE DEF s
  <2> QED
    BY <1>1, <2>2, <2>3, <2>4, <2>5
<1>3. CASE ~(c # None /\ o \in ToSet(members[c]))
  <2>1. RemoveNameable(c, o) = members
    BY <1>3 DEF RemoveNameable
  <2> QED
    BY <1>1, <1>3, <2>1
<1> QED
  BY <1>2, <1>3

LEMMA FinishIInv ==
  ASSUME IInv, work # <<>>, Finish(Head(work))
  PROVE  IInv'
<1> DEFINE o == Head(work).obj
           c == container[o]
<1>1. /\ Head(work) \in CallSet /\ Head(work).does = "finish" /\ o \in Objects
      /\ Tail(work) \in Seq(CallSet)
      /\ ToSet(work) = {Head(work)} \cup ToSet(Tail(work))
  BY NextCall DEF Finish
<1>2. \A d \in ToSet(work) : d.does # "rename"
  BY <1>1, NextCall
<1>3. Head(work) = Call("finish", o)
  BY <1>1 DEF Call, CallSet
<1>4. c \in Objects \cup {None}
  BY <1>1 DEF IInv, NamesTypeOK
<1>5. /\ members' = RemoveNameable(c, o) /\ live' = live \ {o} /\ work' = Tail(work)
      /\ table' = Unregister(path[o], o)
      /\ UNCHANGED <<made, container, path, queue>>
  BY DEF Finish
<1> HIDE DEF o, c
<1>6. /\ members' \in [Objects -> Seq(Objects)]
      /\ \A d \in Objects :
           /\ IsInjective(members'[d])
           /\ ToSet(members'[d]) \subseteq ToSet(members[d])
           /\ members[d] = <<>> => members'[d] = <<>>
           /\ d = c => o \notin ToSet(members'[d])
  <2>1. o \in Objects
    BY <1>1
  <2>2. /\ RemoveNameable(c, o) \in [Objects -> Seq(Objects)]
        /\ \A d \in Objects :
             /\ IsInjective(RemoveNameable(c, o)[d])
             /\ ToSet(RemoveNameable(c, o)[d]) \subseteq ToSet(members[d])
             /\ ToSet(members[d]) \subseteq ToSet(RemoveNameable(c, o)[d]) \cup {o}
             /\ members[d] = <<>> => RemoveNameable(c, o)[d] = <<>>
             /\ d = c => o \notin ToSet(RemoveNameable(c, o)[d])
    BY <1>4, <2>1, Delisted
  <2>3. members' = RemoveNameable(c, o)
    BY <1>5
  <2> QED
    BY <2>2, <2>3
<1>7. NamesTypeOK'
  BY <1>1, <1>5, <1>6 DEF IInv, NamesTypeOK
<1>8. ListsOK'
  BY <1>5, <1>6 DEF IInv, ListsOK
<1>9. MembersExist'
  <2> SUFFICES ASSUME NEW d \in live, d # o, NEW m \in ToSet(members'[d])
               PROVE  \/ m \in live' /\ container[m] = d
                      \/ Call("finish", d) \in ToSet(work')
    BY <1>5 DEF MembersExist
  <2>0. d \in Objects /\ m \in ToSet(members[d])
    BY <1>6 DEF IInv, NamesTypeOK
  <2>1. CASE Call("finish", d) \in ToSet(work)
    <3>1. Call("finish", d) # Head(work)
      BY <1>3 DEF Call
    <3> QED
      BY <1>1, <1>5, <2>1, <3>1
  <2>2. CASE m \in live /\ container[m] = d
    <3>1. m # o
      BY <1>6, <2>0, <2>2 DEF c
    <3> QED
      BY <1>5, <2>2, <3>1
  <2> QED
    BY <2>0, <2>1, <2>2 DEF IInv, MembersExist
<1>10. OnlyRenaming'
  BY <1>1, <1>2, <1>5 DEF OnlyRenaming
<1>11. TableSound'
  <2>1. \A q \in DOMAIN table' : q \in DOMAIN table /\ table'[q] = table[q] /\ table[q] # o
    BY <1>5, Unregistered DEF IInv
  <2> QED
    BY <1>5, <2>1 DEF IInv, TableSound
<1> QED
  BY <1>7, <1>8, <1>9, <1>10, <1>11 DEF IInv

-----------------------------------------------------------------------------
(* IInv is an invariant of the name space, for any objects, containers,    *)
(* names and depth.                                                        *)
THEOREM SpecIInv == Spec => []IInv
<1>1. IInv /\ [Next]_vars => IInv'
  <2> SUFFICES ASSUME IInv, [Next]_vars PROVE IInv'
    OBVIOUS
  <2>1. CASE UNCHANGED vars
    <3>1. queue' \in Seq(Objects)
      BY <2>1 DEF IInv, NamesTypeOK, vars
    <3> QED
      BY <2>1, <3>1, QuietIInv DEF vars
  <2>2. ASSUME NEW o \in Objects, NEW n \in Names, BeginRename(o, n) PROVE IInv'
    BY <2>2, BeginRenameIInv
  <2>3. ASSUME NEW o \in Objects, NEW n \in Names, NEW c \in Containers \cup {None},
               Create(o, c, n)
        PROVE  IInv'
    BY <2>3, CreateIInv
  <2>4. ASSUME NEW o \in Objects, Destroy(o) PROVE IInv'
    <3>1. queue' \in Seq(Objects)
      BY <2>4 DEF Destroy, IInv, NamesTypeOK
    <3> QED
      BY <2>4, <3>1, QuietIInv DEF Destroy
  <2>5. CASE DoOneDeferredDelete
    BY <2>5, DeleteIInv
  <2>6. CASE MakeCall
    BY <2>6, RenameIInv, BeginDeleteIInv, FinishIInv DEF MakeCall
  <2> QED
    BY <2>1, <2>2, <2>3, <2>4, <2>5, <2>6 DEF Next
<1> QED
  BY InitIInv, <1>1, PTL DEF Spec

(* What Find returns exists and has the path it was found by, at every     *)
(* moment of every renaming and deletion.                                  *)
THEOREM Sound == Spec => []TableSound
<1>1. IInv => TableSound
  BY DEF IInv
<1> QED
  BY <1>1, SpecIInv, PTL
-----------------------------------------------------------------------------
(***************************************************************************)
(* The tree, which is whole between commands.  While calls are still to be *)
(* made, what is not yet right is right again when they are.               *)
(***************************************************************************)

(* A call for o is still to be made.                                       *)
Awaits(o) == \E d \in ToSet(work) : d.obj = o

(* Objects that are being deleted.                                         *)
Leaving == {d.obj : d \in {e \in ToSet(work) : e.does # "rename"}}

(* A container exists and knows what is in it, until it begins to go.      *)
Homes ==
  \A o \in live : container[o] # None =>
    /\ container[o] \in live /\ container[o] # o
    /\ o \in ToSet(members[container[o]])
    /\ Call("finish", container[o]) \notin ToSet(work)

(* Who is still in a list and knows of no container is about to go.        *)
Orphaned ==
  \A c \in Objects : \A m \in ToSet(members[c]) \cap live :
    container[m] = c \/ m \in Leaving

(* A path leads through the container's path, or is going to.              *)
NestedAt(o) == path[o] = PathIn(container[o], Last(path[o]))
Nested == \A o \in live : NestedAt(o) \/ Awaits(o)

(* No object in the queue is inside another, or inside one that goes.      *)
QueueApart ==
  /\ IsInjective(queue) /\ ToSet(queue) \subseteq live
  /\ \A x \in ToSet(queue) : ToSet(queue) \cap Inside({x}) \subseteq {x}
  /\ \A x \in Leaving : ToSet(queue) \cap Inside({x}) = {}

(* Entries of the other two tables are those of their objects, or stale.   *)
Entries ==
  /\ \A p \in DOMAIN tops :
       \/ tops[p] \in renamed
       \/ tops[p] \in live /\ path[tops[p]] = p /\ container[tops[p]] = None
  /\ \A p \in DOMAIN containers :
       \/ containers[p] \in renamed
       \/ containers[p] \in live \cap Containers /\ path[containers[p]] = p

HomeInv == IInv /\ Homes /\ Orphaned
TreeInv == HomeInv /\ Nested /\ QueueApart /\ Entries

(* What is inside a set of objects is the least set that holds it.         *)
LEMMA InsideIsLeast ==
  ASSUME live \subseteq Objects, NEW S \in SUBSET Objects
  PROVE  /\ S \subseteq Inside(S) /\ Inside(S) \in SUBSET Objects /\ Holds(Inside(S))
         /\ \A T \in SUBSET Objects : S \subseteq T /\ Holds(T) => Inside(S) \subseteq T
BY DEF Inside, Holds

(* What is inside a part is inside the whole.                              *)
LEMMA InsideGrows ==
  ASSUME live \subseteq Objects, NEW S \in SUBSET Objects, NEW T \in SUBSET Objects,
         S \subseteq Inside(T)
  PROVE  Inside(S) \subseteq Inside(T)
<1>1. Inside(T) \in SUBSET Objects /\ Holds(Inside(T))
  BY InsideIsLeast
<1> QED
  BY <1>1, InsideIsLeast

(* Where objects go or lose their container, nothing comes inside.         *)
LEMMA InsideShrinks ==
  ASSUME live' \subseteq live, \A o \in live' : container'[o] \in {container[o], None},
         NEW S \in SUBSET Objects
  PROVE  Inside(S)' \subseteq Inside(S)
<1> USE NamespaceAssumption
<1>1. \A T \in SUBSET Objects : Holds(T) => Holds(T)'
  BY DEF Holds
<1> QED
  BY <1>1 DEF Inside

(* In what is gone there is nothing.                                       *)
LEMMA GoneIsEmpty ==
  ASSUME HomeInv, NEW o \in Objects \ live
  PROVE  Inside({o}) = {o}
<1> USE NamespaceAssumption
<1>1. live \subseteq Objects
  BY DEF HomeInv, IInv, NamesTypeOK
<1>2. Holds({o})
  BY DEF Holds, HomeInv, Homes
<1> QED
  BY <1>1, <1>2, InsideIsLeast

-----------------------------------------------------------------------------
(* Between commands no call is made.                                       *)
LEMMA IdleCalls ==
  ASSUME work = <<>>
  PROVE  ToSet(work) = {} /\ Leaving = {} /\ \A o : ~Awaits(o)
<1>1. ToSet(work) = {}
  BY DEF ToSet
<1> QED
  BY <1>1 DEF Leaving, Awaits

LEMMA CreateHome ==
  ASSUME HomeInv, NEW o \in Objects, NEW c \in Containers \cup {None}, NEW n \in Names,
         Create(o, c, n)
  PROVE  (Homes /\ Orphaned)'
<1> USE NamespaceAssumption
<1>1. /\ work' = work /\ work = <<>> /\ o \notin made /\ o \notin live
      /\ live' = live \cup {o} /\ live \subseteq Objects
      /\ container' = [container EXCEPT ![o] = c]
      /\ container \in [Objects -> Objects \cup {None}]
      /\ c = None \/ c \in live
  BY DEF Create, HomeInv, IInv, NamesTypeOK
<1>2. ToSet(work) = {} /\ Leaving = {} /\ Leaving' = {}
  BY <1>1, IdleCalls DEF Leaving
<1>3. \A d \in Objects :
        ToSet(members'[d]) = IF d = c THEN ToSet(members[d]) \cup {o} ELSE ToSet(members[d])
  <2>1. members \in [Objects -> Seq(Objects)]
    BY DEF HomeInv, IInv, NamesTypeOK
  <2>2. c # None => ToSet(Append(members[c], o)) = ToSet(members[c]) \cup {o}
    BY <1>1, <2>1, AppendList
  <2> QED
    BY <1>1, <2>1, <2>2 DEF Create
<1>4. \A d \in Objects : o \notin ToSet(members[d])
  BY <1>1 DEF HomeInv, IInv, ListsOK
<1>5. Homes'
  <2> SUFFICES ASSUME NEW x \in live', container'[x] # None
               PROVE  /\ container'[x] \in live' /\ container'[x] # x
                      /\ x \in ToSet(members'[container'[x]])
    BY <1>1, <1>2 DEF Homes
  <2>1. CASE x = o
    BY <1>1, <1>3, <2>1
  <2>2. CASE x # o
    <3>1. x \in live /\ container'[x] = container[x]
      BY <1>1, <2>2
    <3> QED
      BY <1>1, <1>3, <3>1 DEF HomeInv, Homes
  <2> QED
    BY <2>1, <2>2
<1>6. Orphaned'
  <2> SUFFICES ASSUME NEW d \in Objects, NEW m \in ToSet(members'[d]) \cap live'
               PROVE  container'[m] = d
    BY DEF Orphaned
  <2>1. CASE m = o
    BY <1>1, <1>3, <1>4, <2>1
  <2>2. CASE m # o
    <3>1. m \in ToSet(members[d]) \cap live
      BY <1>1, <1>3, <2>2
    <3>2. container[m] = d
      BY <1>2, <3>1 DEF HomeInv, Orphaned
    <3> QED
      BY <1>1, <2>2, <3>1, <3>2
  <2> QED
    BY <2>1, <2>2
<1> QED
  BY <1>5, <1>6

LEMMA RenameHome ==
  ASSUME HomeInv, work # <<>>, Rename(Head(work))
  PROVE  (Homes /\ Orphaned)'
<1> USE NamespaceAssumption
<1>1. /\ \A e \in ToSet(work) : e.does = "rename"
      /\ \A e \in ToSet(work') : e \in ToSet(Tail(work)) \/ e.does = "rename"
      /\ ToSet(work) = {Head(work)} \cup ToSet(Tail(work))
  BY RenameCalls, NextCall DEF HomeInv
<1>2. \A e \in ToSet(work') : e.does = "rename"
  BY <1>1
<1>3. Leaving = {} /\ Leaving' = {} /\ \A c : Call("finish", c) \notin ToSet(work')
  BY <1>1, <1>2 DEF Leaving, Call
<1> QED
  BY <1>3 DEF Rename, HomeInv, Homes, Orphaned

LEMMA BeginDeleteHome ==
  ASSUME HomeInv, work # <<>>, BeginDelete(Head(work))
  PROVE  /\ (Homes /\ Orphaned)'
         /\ Leaving' = Leaving \cup ToSet(members[Head(work).obj])
<1> USE NamespaceAssumption
<1> DEFINE o == Head(work).obj
<1>1. /\ Head(work).does = "delete" /\ o \in Objects
      /\ ToSet(work) = {Head(work)} \cup ToSet(Tail(work))
      /\ \A d \in ToSet(work) : d.does # "rename"
      /\ ToSet(work') = {Call("delete", m) : m \in ToSet(members[o])}
                            \cup {Call("finish", o)} \cup ToSet(Tail(work))
  BY DeleteCalls DEF HomeInv
<1>2. /\ container' = [m \in Objects |-> IF m \in ToSet(members[o]) THEN None ELSE container[m]]
      /\ UNCHANGED <<live, members>>
      /\ live \subseteq Objects
  BY DEF BeginDelete, HomeInv, IInv, NamesTypeOK
<1>3. Leaving' = Leaving \cup ToSet(members[o])
  <2>1. /\ Leaving = {d.obj : d \in ToSet(work)}
        /\ \A d \in ToSet(work') : d.does # "rename"
    BY <1>1 DEF Leaving, Call
  <2>2. Leaving' = {d.obj : d \in ToSet(work')}
    BY <2>1 DEF Leaving
  <2>3. \A x : Call("delete", x).obj = x /\ Call("finish", x).obj = x
    BY DEF Call
  <2>4. Leaving' \subseteq Leaving \cup ToSet(members[o])
    BY <1>1, <2>1, <2>2, <2>3
  <2>5. ToSet(members[o]) \subseteq Leaving'
    BY <1>1, <2>2, <2>3
  <2>6. o \in Leaving'
    BY <1>1, <2>2, <2>3
  <2>7. Leaving \subseteq Leaving'
    BY <1>1, <2>1, <2>2, <2>6
  <2> QED
    BY <2>4, <2>5, <2>7
<1>4. Homes'
  <2> SUFFICES ASSUME NEW x \in live, container'[x] # None
               PROVE  /\ container'[x] \in live /\ container'[x] # x
                      /\ x \in ToSet(members[container'[x]])
                      /\ Call("finish", container'[x]) \notin ToSet(work')
    BY <1>2 DEF Homes
  <2>1. x \notin ToSet(members[o]) /\ container'[x] = container[x]
    BY <1>2
  <2>2. /\ container[x] \in live /\ container[x] # x
        /\ x \in ToSet(members[container[x]])
        /\ Call("finish", container[x]) \notin ToSet(work)
    BY <2>1 DEF HomeInv, Homes
  <2>3. container[x] # o
    BY <2>1, <2>2
  <2>4. Call("finish", container[x]) \notin ToSet(work')
    BY <1>1, <2>2, <2>3 DEF Call
  <2> QED
    BY <2>1, <2>2, <2>4
<1>5. Orphaned'
  BY <1>2, <1>3 DEF HomeInv, Orphaned
<1> QED
  BY <1>3, <1>4, <1>5

LEMMA FinishHome ==
  ASSUME HomeInv, work # <<>>, Finish(Head(work))
  PROVE  /\ (Homes /\ Orphaned)'
         /\ Head(work).obj \in Leaving
         /\ Leaving' \subseteq Leaving /\ Leaving \subseteq Leaving' \cup {Head(work).obj}
<1> USE NamespaceAssumption
<1> DEFINE o == Head(work).obj
<1>1. /\ Head(work) \in CallSet /\ Head(work).does = "finish" /\ o \in Objects
      /\ ToSet(work) = {Head(work)} \cup ToSet(Tail(work))
  BY NextCall DEF Finish, HomeInv
<1>2. Head(work) = Call("finish", o)
  BY <1>1 DEF Call, CallSet
<1>3. /\ members' = RemoveNameable(container[o], o) /\ live' = live \ {o} /\ work' = Tail(work)
      /\ UNCHANGED container
      /\ live \subseteq Objects /\ container[o] \in Objects \cup {None}
      /\ container \in [Objects -> Objects \cup {None}]
  BY <1>1 DEF Finish, HomeInv, IInv, NamesTypeOK
<1> HIDE DEF o
<1>4. /\ o \in Leaving
      /\ Leaving' \subseteq Leaving /\ Leaving \subseteq Leaving' \cup {o}
  BY <1>1, <1>3 DEF Leaving, o
<1>5. \A d \in Objects :
        /\ ToSet(members'[d]) \subseteq ToSet(members[d])
        /\ ToSet(members[d]) \subseteq ToSet(members'[d]) \cup {o}
  BY <1>1, <1>3, Delisted DEF HomeInv
<1>6. Homes'
  <2> SUFFICES ASSUME NEW x \in live, x # o, container[x] # None
               PROVE  /\ container[x] \in live' /\ container[x] # x
                      /\ x \in ToSet(members'[container[x]])
                      /\ Call("finish", container[x]) \notin ToSet(work')
    BY <1>3 DEF Homes
  <2>1. /\ container[x] \in live /\ container[x] # x
        /\ x \in ToSet(members[container[x]])
        /\ Call("finish", container[x]) \notin ToSet(work)
    BY DEF HomeInv, Homes
  <2>2. container[x] # o
    BY <1>1, <1>2, <2>1
  <2> QED
    BY <1>1, <1>3, <1>5, <2>1, <2>2
<1>7. Orphaned'
  <2> SUFFICES ASSUME NEW c \in Objects, NEW m \in ToSet(members'[c]) \cap live'
               PROVE  container[m] = c \/ m \in Leaving'
    BY <1>3 DEF Orphaned
  <2>1. m \in ToSet(members[c]) \cap live /\ m # o
    BY <1>3, <1>5
  <2> QED
    BY <1>4, <2>1 DEF HomeInv, Orphaned
<1> QED
  BY <1>4, <1>6, <1>7 DEF o

-----------------------------------------------------------------------------
(* Paths: the name at their end, under the path of the container.          *)
LEMMA PathEnds ==
  ASSUME IInv, NEW c \in live \cup {None}, NEW n \in Names
  PROVE  Last(PathIn(c, n)) = n
<1>1. CASE c = None
  BY <1>1 DEF PathIn, Last
<1>2. CASE c # None
  <2>1. path[c] \in Seq(Names)
    BY <1>2 DEF IInv, NamesTypeOK
  <2> QED
    BY <1>2, <2>1 DEF PathIn, Last
<1> QED
  BY <1>1, <1>2

LEMMA CreateNests ==
  ASSUME HomeInv, Nested, NEW o \in Objects, NEW c \in Containers \cup {None}, NEW n \in Names,
         Create(o, c, n)
  PROVE  Nested'
<1> USE NamespaceAssumption
<1>1. /\ work' = work /\ o \notin live
      /\ live' = live \cup {o} /\ live \subseteq Objects
      /\ container' = [container EXCEPT ![o] = c]
      /\ path' = [path EXCEPT ![o] = PathIn(c, n)]
      /\ container \in [Objects -> Objects \cup {None}] /\ path \in [Objects -> Seq(Names)]
      /\ c \in live \cup {None}
  BY DEF Create, HomeInv, IInv, NamesTypeOK
<1>2. Last(PathIn(c, n)) = n
  BY <1>1, PathEnds DEF HomeInv
<1>3. \A x \in live : container[x] # None => container[x] \in live
  BY DEF HomeInv, Homes
<1>4. ASSUME NEW x \in live'
      PROVE  NestedAt(x)' \/ Awaits(x)'
  <2>1. CASE x = o
    <3>1. path'[x] = PathIn(c, n) /\ container'[x] = c /\ c # o
      BY <1>1, <2>1
    <3>2. PathIn(c, n) = IF c = None THEN <<n>> ELSE Append(path'[c], n)
      BY <1>1, <3>1 DEF PathIn
    <3> QED
      BY <1>2, <3>1, <3>2 DEF NestedAt, PathIn
  <2>2. CASE x # o
    <3>1. /\ x \in live /\ path'[x] = path[x] /\ container'[x] = container[x]
          /\ container[x] # None => path'[container[x]] = path[container[x]]
      BY <1>1, <1>3, <2>2
    <3>2. Awaits(x)' <=> Awaits(x)
      BY <1>1 DEF Awaits
    <3> QED
      BY <3>1, <3>2 DEF Nested, NestedAt, PathIn
  <2> QED
    BY <2>1, <2>2
<1> QED
  BY <1>4 DEF Nested

(* The renamed object is right, its members are called for.                *)
LEMMA RenameNests ==
  ASSUME HomeInv, Nested, work # <<>>, Rename(Head(work))
  PROVE  Nested'
<1> USE NamespaceAssumption
<1> DEFINE o == Head(work).obj
           n == Head(work).name
<1>1. /\ o \in live /\ n \in Names
      /\ ToSet(work) = {Head(work)} \cup ToSet(Tail(work))
      /\ ToSet(Tail(work)) \subseteq ToSet(work')
      /\ \A m \in ToSet(members[o]) : \E e \in ToSet(work') : e.obj = m
  BY RenameCalls, NextCall DEF HomeInv
<1>2. /\ path' = [path EXCEPT ![o] = PathIn(container[o], n)]
      /\ UNCHANGED <<live, container>>
      /\ live \subseteq Objects /\ path \in [Objects -> Seq(Names)]
  BY DEF Rename, HomeInv, IInv, NamesTypeOK
<1>3. \A x \in live : container[x] # None =>
        /\ container[x] \in live /\ container[x] # x
        /\ x \in ToSet(members[container[x]])
  BY DEF HomeInv, Homes
<1>4. \A x : Awaits(x) => x = o \/ Awaits(x)'
  BY <1>1 DEF Awaits
<1> HIDE DEF o, n
<1>5. Last(PathIn(container[o], n)) = n
  BY <1>1, <1>3, PathEnds DEF HomeInv
<1>6. ASSUME NEW x \in live
      PROVE  NestedAt(x)' \/ Awaits(x)'
  <2>1. CASE x = o
    <3>1. path'[o] = PathIn(container[o], n) /\ container[o] # o
      BY <1>1, <1>2, <1>3, NamespaceAssumption
    <3>2. container[o] # None => path'[container[o]] = path[container[o]]
      BY <1>2, <1>3, <2>1, <3>1
    <3> QED
      BY <1>2, <1>5, <2>1, <3>1, <3>2 DEF NestedAt, PathIn
  <2>2. CASE x # o /\ container[x] = o
    <3>1. x \in ToSet(members[o])
      BY <1>1, <1>2, <1>3, <2>2
    <3> QED
      BY <1>1, <3>1 DEF Awaits
  <2>3. CASE x # o /\ container[x] # o
    <3>1. /\ path'[x] = path[x]
          /\ container[x] # None => path'[container[x]] = path[container[x]]
      BY <1>2, <1>3, <2>3
    <3> QED
      BY <1>2, <1>4, <2>3, <3>1 DEF Nested, NestedAt, PathIn
  <2> QED
    BY <2>1, <2>2, <2>3
<1> QED
  BY <1>2, <1>6 DEF Nested

(* A member loses its container with a call for its deletion.              *)
LEMMA DeleteNests ==
  ASSUME HomeInv, Nested, work # <<>>, BeginDelete(Head(work)) \/ Finish(Head(work))
  PROVE  Nested'
<1> DEFINE o == Head(work).obj
<1>1. ToSet(work) = {Head(work)} \cup ToSet(Tail(work))
  BY NextCall DEF HomeInv
<1>2. CASE BeginDelete(Head(work))
  <2>1. /\ container' = [m \in Objects |-> IF m \in ToSet(members[o]) THEN None ELSE container[m]]
        /\ UNCHANGED <<live, path>>
        /\ live \subseteq Objects
    BY <1>2 DEF BeginDelete, HomeInv, IInv, NamesTypeOK
  <2>2. ToSet(work') = {Call("delete", m) : m \in ToSet(members[o])}
                         \cup {Call("finish", o)} \cup ToSet(Tail(work))
    BY <1>2, DeleteCalls DEF HomeInv
  <2>3. \A x : Awaits(x) \/ x \in ToSet(members[o]) => Awaits(x)'
    <3>1. \A x : Call("delete", x).obj = x /\ Call("finish", x).obj = x
      BY DEF Call
    <3>2. \A x \in ToSet(members[o]) : Call("delete", x) \in ToSet(work')
      BY <2>2
    <3>3. Call("finish", o) \in ToSet(work') /\ ToSet(Tail(work)) \subseteq ToSet(work')
      BY <2>2
    <3> QED
      BY <1>1, <3>1, <3>2, <3>3 DEF Awaits
  <2> HIDE DEF o
  <2>4. ASSUME NEW x \in live
        PROVE  NestedAt(x)' \/ Awaits(x)'
    <3>1. CASE x \in ToSet(members[o])
      BY <2>3, <3>1
    <3>2. CASE x \notin ToSet(members[o])
      <4>1. container'[x] = container[x]
        BY <2>1, <3>2
      <4> QED
        BY <2>1, <2>3, <4>1 DEF Nested, NestedAt, PathIn
    <3> QED
      BY <3>1, <3>2
  <2> QED
    BY <2>1, <2>4 DEF Nested
<1>3. CASE Finish(Head(work))
  <2>1. live' = live \ {o} /\ work' = Tail(work) /\ UNCHANGED <<path, container>>
    BY <1>3 DEF Finish
  <2>2. \A x : Awaits(x) /\ x # o => Awaits(x)'
    BY <1>1, <2>1 DEF Awaits
  <2> QED
    BY <2>1, <2>2 DEF Nested, NestedAt, PathIn
<1> QED
  BY <1>2, <1>3

-----------------------------------------------------------------------------
(* The delete queue.                                                       *)
LEMMA CreateApart ==
  ASSUME HomeInv, QueueApart, NEW o \in Objects, NEW c \in Containers \cup {None}, NEW n \in Names,
         Create(o, c, n)
  PROVE  QueueApart'
<1> USE NamespaceAssumption
<1>1. /\ work' = work /\ work = <<>> /\ o \notin live /\ queue' = queue
      /\ live' = live \cup {o} /\ live \subseteq Objects
      /\ container' = [container EXCEPT ![o] = c]
      /\ container \in [Objects -> Objects \cup {None}]
  BY DEF Create, HomeInv, IInv, NamesTypeOK
<1>2. Leaving' = {}
  BY <1>1, IdleCalls DEF Leaving
<1>3. ASSUME NEW S \in SUBSET Objects
      PROVE  Inside(S)' \subseteq Inside(S) \cup {o}
  <2>1. \A x \in live : container[x] # o
    BY <1>1 DEF HomeInv, Homes
  <2>2. \A T \in SUBSET Objects : Holds(T) =>
          T \cup {o} \in SUBSET Objects /\ Holds(T \cup {o})'
    BY <1>1, <2>1 DEF Holds
  <2> QED
    BY <2>2 DEF Inside
<1>4. ASSUME NEW x \in ToSet(queue), NEW y \in ToSet(queue), y \in Inside({x})'
      PROVE  y = x
  <2>1. y \in Inside({x}) \cup {o} /\ y # o
    BY <1>1, <1>3, <1>4 DEF QueueApart
  <2> QED
    BY <2>1 DEF QueueApart
<1>5. ToSet(queue') = ToSet(queue)
  BY <1>1
<1> QED
  BY <1>1, <1>2, <1>4, <1>5 DEF QueueApart

(* What is destroyed is not inside an object of the queue, nor the other   *)
(* way round.                                                              *)
LEMMA DestroyApart ==
  ASSUME HomeInv, QueueApart, NEW o \in Objects, Destroy(o)
  PROVE  QueueApart'
<1>1. /\ work' = work /\ work = <<>> /\ o \in live \ Doomed
      /\ Inside({o}) \cap Doomed = {} /\ queue' = Append(queue, o)
      /\ UNCHANGED <<live, container>>
      /\ live \subseteq Objects /\ queue \in Seq(Objects)
  BY DEF Destroy, HomeInv, IInv, NamesTypeOK
<1>2. Leaving' = {}
  BY <1>1, IdleCalls DEF Leaving
<1>3. ToSet(queue) \subseteq Objects
  BY <1>1 DEF QueueApart
<1>4. ToSet(queue) \subseteq Doomed /\ Doomed = Inside(ToSet(queue))
  BY <1>1, <1>3, InsideIsLeast DEF Doomed
<1>5. ToSet(queue') = ToSet(queue) \cup {o} /\ IsInjective(queue')
  <2>1. o \notin ToSet(queue)
    BY <1>1, <1>4
  <2> QED
    BY <1>1, <2>1, AppendList DEF QueueApart
<1>6. \A S : Inside(S)' = Inside(S)
  BY <1>1 DEF Inside, Holds
<1>7. ASSUME NEW x \in ToSet(queue) PROVE o \notin Inside({x})
  <2>1. Inside({x}) \subseteq Doomed
    BY <1>1, <1>3, <1>4, InsideGrows
  <2> QED
    BY <1>1, <2>1
<1>8. ASSUME NEW x \in ToSet(queue'), NEW y \in ToSet(queue'), y \in Inside({x})
      PROVE  y = x
  <2>1. CASE x \in ToSet(queue) /\ y \in ToSet(queue)
    BY <1>8, <2>1 DEF QueueApart
  <2>2. CASE x \in ToSet(queue) /\ y = o
    BY <1>7, <1>8, <2>2
  <2>3. CASE x = o /\ y # o
    BY <1>1, <1>4, <1>5, <1>8, <2>3
  <2> QED
    BY <1>5, <2>1, <2>2, <2>3
<1> QED
  BY <1>1, <1>2, <1>5, <1>6, <1>8 DEF QueueApart

(* The first of the queue begins to go.                                    *)
LEMMA DequeueApart ==
  ASSUME HomeInv, QueueApart, DoOneDeferredDelete
  PROVE  QueueApart'
<1> DEFINE h == Head(queue)
<1>1. /\ queue # <<>> /\ queue' = Tail(queue) /\ work' = <<Call("delete", h)>>
      /\ UNCHANGED <<live, container>>
      /\ queue \in Seq(Objects)
  BY DEF DoOneDeferredDelete, HomeInv, IInv, NamesTypeOK
<1>2. /\ IsInjective(queue') /\ h \notin ToSet(queue')
      /\ ToSet(queue) = {h} \cup ToSet(queue')
  BY <1>1, HeadAndTail, HeadOnce DEF QueueApart
<1> HIDE DEF h
<1>3. Leaving' = {h}
  <2>1. ToSet(work') = {Call("delete", h)}
    BY <1>1, OneCall
  <2>2. Call("delete", h).obj = h /\ Call("delete", h).does # "rename"
    BY DEF Call
  <2> QED
    BY <2>1, <2>2 DEF Leaving
<1>4. \A S : Inside(S)' = Inside(S)
  BY <1>1 DEF Inside, Holds
<1>5. ToSet(queue') \subseteq live' /\ ToSet(queue') \subseteq ToSet(queue)
  BY <1>1, <1>2 DEF QueueApart
<1>6. \A x \in ToSet(queue') : ToSet(queue') \cap Inside({x})' \subseteq {x}
  BY <1>2, <1>4 DEF QueueApart
<1>7. ASSUME NEW x \in Leaving' PROVE ToSet(queue') \cap Inside({x})' = {}
  <2>1. x = h /\ x \in ToSet(queue)
    BY <1>2, <1>3
  <2>2. ToSet(queue) \cap Inside({x}) \subseteq {x}
    BY <2>1 DEF QueueApart
  <2> QED
    BY <1>2, <1>4, <2>1, <2>2
<1> QED
  BY <1>2, <1>5, <1>6, <1>7 DEF QueueApart

(* Where nothing new goes and nothing comes inside, the queue is apart.    *)
LEMMA SameApart ==
  ASSUME HomeInv, QueueApart, UNCHANGED queue, live' \subseteq live,
         \A o \in live' : container'[o] \in {container[o], None},
         ToSet(queue) \subseteq live',
         \A x \in Leaving' : x \in Objects /\ ToSet(queue) \cap Inside({x}) = {}
  PROVE  QueueApart'
<1>1. ToSet(queue) \subseteq Objects /\ ToSet(queue') = ToSet(queue)
  BY DEF QueueApart, HomeInv, IInv, NamesTypeOK
<1>2. \A x \in Objects : Inside({x})' \subseteq Inside({x})
  BY InsideShrinks
<1>3. \A x \in ToSet(queue) : ToSet(queue) \cap Inside({x})' \subseteq {x}
  BY <1>1, <1>2 DEF QueueApart
<1>4. \A x \in Leaving' : ToSet(queue) \cap Inside({x})' = {}
  BY <1>2
<1> QED
  BY <1>1, <1>3, <1>4 DEF QueueApart

LEMMA LeavingObjects ==
  ASSUME IInv
  PROVE  Leaving \subseteq Objects
<1>1. \A d \in ToSet(work) : d \in CallSet
  BY DEF IInv, NamesTypeOK, ToSet
<1> QED
  BY <1>1 DEF Leaving, CallSet

LEMMA CallApart ==
  ASSUME HomeInv, QueueApart, MakeCall
  PROVE  QueueApart'
<1> USE NamespaceAssumption
<1>0. /\ live \subseteq Objects /\ Leaving \subseteq Objects
      /\ \A x \in Leaving : ToSet(queue) \cap Inside({x}) = {}
  BY LeavingObjects DEF HomeInv, IInv, NamesTypeOK, QueueApart
<1>1. CASE Rename(Head(work))
  <2>1. UNCHANGED <<live, container, queue>> /\ work # <<>>
    BY <1>1 DEF Rename, MakeCall
  <2>2. \A e \in ToSet(work') : e.does = "rename"
    <3>1. /\ \A e \in ToSet(work) : e.does = "rename"
          /\ \A e \in ToSet(work') : e \in ToSet(Tail(work)) \/ e.does = "rename"
          /\ ToSet(work) = {Head(work)} \cup ToSet(Tail(work))
      BY <1>1, <2>1, RenameCalls, NextCall DEF HomeInv
    <3> QED
      BY <3>1
  <2>3. Leaving' = {}
    BY <2>2 DEF Leaving
  <2> QED
    BY <2>1, <2>3, SameApart DEF QueueApart
<1>2. CASE BeginDelete(Head(work))
  <2> DEFINE o == Head(work).obj
  <2>1. /\ UNCHANGED <<live, members, queue>> /\ work # <<>>
        /\ container' = [m \in Objects |-> IF m \in ToSet(members[o]) THEN None ELSE container[m]]
    BY <1>2 DEF BeginDelete, MakeCall
  <2>2. Leaving' = Leaving \cup ToSet(members[o]) /\ o \in Leaving /\ o \in Objects
    <3>1. Head(work).does = "delete" /\ Head(work) \in ToSet(work) /\ o \in Objects
      BY <1>2, <2>1, DeleteCalls DEF HomeInv
    <3> QED
      BY <1>2, <2>1, <3>1, BeginDeleteHome DEF Leaving
  <2> HIDE DEF o
  <2>3. ASSUME NEW m \in ToSet(members[o])
        PROVE  m \in Objects /\ ToSet(queue) \cap Inside({m}) = {}
    <3>1. m \in Objects
      BY <2>2 DEF HomeInv, IInv, ListsOK, NamesTypeOK
    <3>2. CASE m \notin live
      <4>1. Inside({m}) = {m}
        BY <3>1, <3>2, GoneIsEmpty
      <4> QED
        BY <3>1, <3>2, <4>1 DEF QueueApart
    <3>3. CASE m \in live /\ container[m] = o
      <4>1. o \in Inside({o}) /\ Holds(Inside({o}))
        BY <1>0, <2>2, InsideIsLeast
      <4>2. m \in Inside({o})
        BY <3>3, <4>1 DEF Holds
      <4>3. Inside({m}) \subseteq Inside({o})
        BY <1>0, <2>2, <3>1, <4>2, InsideGrows
      <4> QED
        BY <1>0, <2>2, <3>1, <4>3
    <3>4. CASE m \in live /\ container[m] # o
      BY <1>0, <2>2, <3>1, <3>4 DEF HomeInv, Orphaned
    <3> QED
      BY <3>2, <3>3, <3>4
  <2> QED
    BY <1>0, <2>1, <2>2, <2>3, SameApart DEF QueueApart
<1>3. CASE Finish(Head(work))
  <2> DEFINE o == Head(work).obj
  <2>1. UNCHANGED <<container, queue>> /\ live' = live \ {o} /\ work # <<>>
    BY <1>3 DEF Finish, MakeCall
  <2>2. Leaving' \subseteq Leaving /\ o \in Leaving
    BY <1>3, <2>1, FinishHome
  <2>3. o \notin ToSet(queue)
    <3>1. o \in Inside({o})
      BY <1>0, <2>2, InsideIsLeast
    <3> QED
      BY <1>0, <2>2, <3>1
  <2> HIDE DEF o
  <2> QED
    BY <1>0, <2>1, <2>2, <2>3, SameApart DEF QueueApart
<1> QED
  BY <1>1, <1>2, <1>3 DEF MakeCall

-----------------------------------------------------------------------------
(* The tables of containers and of top-level objects.                      *)
LEMMA CreateEntries ==
  ASSUME HomeInv, Entries, NEW o \in Objects, NEW c \in Containers \cup {None}, NEW n \in Names,
         Create(o, c, n)
  PROVE  Entries'
<1>1. /\ o \notin live /\ live' = live \cup {o} /\ live \subseteq Objects
      /\ container' = [container EXCEPT ![o] = c]
      /\ path' = [path EXCEPT ![o] = PathIn(c, n)]
      /\ tops' = IF c = None THEN Put(tops, path'[o], o) ELSE tops
      /\ containers' = IF o \in Containers THEN Put(containers, path'[o], o) ELSE containers
      /\ renamed' = renamed
      /\ container \in [Objects -> Objects \cup {None}] /\ path \in [Objects -> Seq(Names)]
  BY DEF Create, HomeInv, IInv, NamesTypeOK
<1>2. /\ o \in live' /\ container'[o] = c
      /\ \A x \in live : x # o /\ x \in live' /\ path'[x] = path[x] /\ container'[x] = container[x]
  BY <1>1
<1>3. ASSUME NEW p \in DOMAIN tops'
      PROVE  \/ tops'[p] \in renamed'
             \/ tops'[p] \in live' /\ path'[tops'[p]] = p /\ container'[tops'[p]] = None
  <2>1. CASE c = None /\ p = path'[o]
    BY <1>1, <1>2, <2>1 DEF Put
  <2>2. CASE ~(c = None /\ p = path'[o])
    <3>1. p \in DOMAIN tops /\ tops'[p] = tops[p]
      BY <1>1, <1>3, <2>2 DEF Put
    <3> QED
      BY <1>1, <1>2, <3>1 DEF Entries
  <2> QED
    BY <2>1, <2>2
<1>4. ASSUME NEW p \in DOMAIN containers'
      PROVE  \/ containers'[p] \in renamed'
             \/ containers'[p] \in live' \cap Containers /\ path'[containers'[p]] = p
  <2>1. CASE o \in Containers /\ p = path'[o]
    BY <1>1, <1>2, <2>1 DEF Put
  <2>2. CASE ~(o \in Containers /\ p = path'[o])
    <3>1. p \in DOMAIN containers /\ containers'[p] = containers[p]
      BY <1>1, <1>4, <2>2 DEF Put
    <3> QED
      BY <1>1, <1>2, <3>1 DEF Entries
  <2> QED
    BY <2>1, <2>2
<1> QED
  BY <1>3, <1>4 DEF Entries

LEMMA CallEntries ==
  ASSUME HomeInv, Entries, MakeCall
  PROVE  Entries'
<1> DEFINE o == Head(work).obj
<1>1. o \in Objects /\ path \in [Objects -> Seq(Names)] /\ live \subseteq Objects
  BY NextCall DEF MakeCall, HomeInv, IInv, NamesTypeOK
<1>2. CASE Rename(Head(work))
  <2>1. /\ path' = [path EXCEPT ![o] = PathIn(container[o], Head(work).name)]
        /\ renamed' = renamed \cup {o}
        /\ UNCHANGED <<live, container, containers, tops>>
    BY <1>2 DEF Rename
  <2> HIDE DEF o
  <2>2. \A x \in live : x \in renamed' \/ path'[x] = path[x]
    BY <1>1, <2>1
  <2> QED
    BY <2>1, <2>2 DEF Entries
<1>3. CASE BeginDelete(Head(work))
  <2>1. /\ container' = [m \in Objects |-> IF m \in ToSet(members[o]) THEN None ELSE container[m]]
        /\ UNCHANGED <<live, path, containers, tops, renamed>>
    BY <1>3 DEF BeginDelete
  <2> HIDE DEF o
  <2>2. \A x \in live : container[x] = None => container'[x] = None
    BY <1>1, <2>1
  <2> QED
    BY <2>1, <2>2 DEF Entries
<1>4. CASE Finish(Head(work))
  <2>1. /\ containers' = UnregisterContainer(o)
        /\ tops' = IF container[o] = None THEN Erase(tops, path[o]) ELSE tops
        /\ live' = live \ {o}
        /\ UNCHANGED <<path, container, renamed>>
    BY <1>4 DEF Finish
  <2> HIDE DEF o
  <2>2. ASSUME NEW p \in DOMAIN tops'
        PROVE  \/ tops'[p] \in renamed
               \/ tops'[p] \in live' /\ path[tops'[p]] = p /\ container[tops'[p]] = None
    <3>1. /\ p \in DOMAIN tops /\ tops'[p] = tops[p]
          /\ container[o] = None => p # path[o]
      BY <2>1, <2>2 DEF Erase
    <3>2. \/ tops[p] \in renamed
          \/ tops[p] \in live /\ path[tops[p]] = p /\ container[tops[p]] = None
      BY <3>1 DEF Entries
    <3> QED
      BY <2>1, <3>1, <3>2
  <2>3. ASSUME NEW p \in DOMAIN containers'
        PROVE  \/ containers'[p] \in renamed
               \/ containers'[p] \in live' \cap Containers /\ path[containers'[p]] = p
    <3>1. /\ p \in DOMAIN containers /\ containers'[p] = containers[p]
          /\ o \in Containers => p # path[o]
      BY <2>1, <2>3 DEF UnregisterContainer, Erase
    <3>2. \/ containers[p] \in renamed
          \/ containers[p] \in live \cap Containers /\ path[containers[p]] = p
      BY <3>1 DEF Entries
    <3> QED
      BY <2>1, <3>1, <3>2
  <2> QED
    BY <2>1, <2>2, <2>3 DEF Entries
<1> QED
  BY <1>2, <1>3, <1>4 DEF MakeCall

-----------------------------------------------------------------------------
(* Commands that only make a call or queue an object.                      *)
LEMMA CommandsKeepTree ==
  ASSUME TreeInv, work = <<>>,
         UNCHANGED <<live, container, path, members, containers, tops, renamed>>,
         \A d \in Objects : Call("finish", d) \notin ToSet(work')
  PROVE  (Homes /\ Orphaned /\ Nested /\ Entries)'
<1> USE NamespaceAssumption
<1>1. Leaving = {} /\ \A x : ~Awaits(x)
  BY IdleCalls
<1>2. live \subseteq Objects
  BY DEF TreeInv, HomeInv, IInv, NamesTypeOK
<1>3. Homes'
  BY <1>2 DEF TreeInv, HomeInv, Homes
<1>4. Orphaned'
  BY <1>1 DEF TreeInv, HomeInv, Orphaned
<1>5. Nested'
  BY <1>1 DEF TreeInv, Nested, NestedAt, PathIn
<1>6. Entries'
  BY DEF TreeInv, Entries
<1> QED
  BY <1>3, <1>4, <1>5, <1>6

LEMMA InitTreeInv == Init => TreeInv
<1> SUFFICES ASSUME Init PROVE TreeInv
  OBVIOUS
<1>1. /\ live = {} /\ work = <<>> /\ queue = <<>> /\ tops = <<>> /\ containers = <<>>
  BY DEF Init
<1>2. Leaving = {} /\ ToSet(queue) = {} /\ IsInjective(queue)
  BY <1>1, IdleCalls DEF ToSet, IsInjective
<1>3. DOMAIN tops = {} /\ DOMAIN containers = {}
  BY <1>1
<1>4. IInv
  BY InitIInv
<1> QED
  BY <1>1, <1>2, <1>3, <1>4
     DEF TreeInv, HomeInv, Homes, Orphaned, Nested, QueueApart, Entries

LEMMA StepTreeInv == TreeInv /\ IInv' /\ [Next]_vars => TreeInv'
<1> SUFFICES ASSUME TreeInv, IInv', [Next]_vars PROVE TreeInv'
  OBVIOUS
<1>1. HomeInv /\ IInv /\ Nested /\ QueueApart /\ Entries
  BY DEF TreeInv, HomeInv
<1>2. CASE UNCHANGED vars
  BY <1>2 DEF vars, TreeInv, HomeInv, Homes, Orphaned, Nested, NestedAt, PathIn, Awaits,
              Leaving, QueueApart, Inside, Holds, Entries
<1>3. ASSUME NEW o \in Objects, NEW n \in Names, BeginRename(o, n) PROVE TreeInv'
  <2>1. /\ work = <<>> /\ work' = <<ToRename(o, n)>>
        /\ UNCHANGED <<live, container, path, members, containers, tops, queue, renamed>>
    BY <1>3 DEF BeginRename
  <2>2. ToSet(work') = {ToRename(o, n)} /\ ToRename(o, n).does = "rename"
    BY <2>1, OneCall DEF ToRename
  <2>3. Leaving' = {} /\ \A d \in Objects : Call("finish", d) \notin ToSet(work')
    BY <2>2 DEF Leaving, Call
  <2>4. (Homes /\ Orphaned /\ Nested /\ Entries)'
    BY <2>1, <2>3, CommandsKeepTree
  <2>5. ToSet(queue) \subseteq live'
    BY <1>1, <2>1 DEF QueueApart
  <2>6. QueueApart'
    BY <1>1, <2>1, <2>3, <2>5, SameApart
  <2> QED
    BY <2>4, <2>6 DEF TreeInv, HomeInv
<1>4. ASSUME NEW o \in Objects, NEW n \in Names, NEW c \in Containers \cup {None},
             Create(o, c, n)
      PROVE  TreeInv'
  BY <1>1, <1>4, CreateHome, CreateNests, CreateApart, CreateEntries DEF TreeInv, HomeInv
<1>5. ASSUME NEW o \in Objects, Destroy(o) PROVE TreeInv'
  <2>1. /\ work = <<>> /\ work' = <<>>
        /\ UNCHANGED <<live, container, path, members, containers, tops, renamed>>
    BY <1>5 DEF Destroy
  <2>2. \A d \in Objects : Call("finish", d) \notin ToSet(work')
    BY <2>1 DEF ToSet
  <2>3. (Homes /\ Orphaned /\ Nested /\ Entries)'
    BY <2>1, <2>2, CommandsKeepTree
  <2>4. QueueApart'
    BY <1>1, <1>5, DestroyApart
  <2> QED
    BY <2>3, <2>4 DEF TreeInv, HomeInv
<1>6. CASE DoOneDeferredDelete
  <2>1. /\ work = <<>> /\ work' = <<Call("delete", Head(queue))>>
        /\ UNCHANGED <<live, container, path, members, containers, tops, renamed>>
    BY <1>6 DEF DoOneDeferredDelete
  <2>2. ToSet(work') = {Call("delete", Head(queue))}
    BY <2>1, OneCall
  <2>3. \A d \in Objects : Call("finish", d) \notin ToSet(work')
    BY <2>2 DEF Call
  <2>4. (Homes /\ Orphaned /\ Nested /\ Entries)'
    BY <2>1, <2>3, CommandsKeepTree
  <2>5. QueueApart'
    BY <1>1, <1>6, DequeueApart
  <2> QED
    BY <2>4, <2>5 DEF TreeInv, HomeInv
<1>7. CASE MakeCall
  <2>1. work # <<>> /\ (Rename(Head(work)) \/ BeginDelete(Head(work)) \/ Finish(Head(work)))
    BY <1>7 DEF MakeCall
  <2>2. (Homes /\ Orphaned)'
    BY <1>1, <2>1, RenameHome, BeginDeleteHome, FinishHome
  <2>3. Nested'
    BY <1>1, <2>1, RenameNests, DeleteNests
  <2>4. QueueApart' /\ Entries'
    BY <1>1, <1>7, CallApart, CallEntries
  <2> QED
    BY <2>2, <2>3, <2>4 DEF TreeInv, HomeInv
<1> QED
  BY <1>2, <1>3, <1>4, <1>5, <1>6, <1>7 DEF Next

(* TreeInv is an invariant of the name space, for any objects, containers, *)
(* names and depth.                                                        *)
THEOREM SpecTreeInv == Spec => []TreeInv
<1> QED
  BY InitTreeInv, StepTreeInv, SpecIInv, PTL DEF Spec

(* Between commands a container and its members know each other, each      *)
(* member is listed once, and the queue holds existing objects, each once: *)
(* no deletion leaves a dangling pointer in a list or in the queue.        *)
THEOREM Tree == Spec => []TreeOK
<1>1. ASSUME TreeInv PROVE TreeOK
  <2>1. HomeInv /\ IInv /\ QueueApart
    BY <1>1 DEF TreeInv, HomeInv
  <2>2. /\ live \subseteq made /\ made \subseteq Objects
        /\ \A p \in DOMAIN table : table[p] \in Objects
    BY <2>1 DEF IInv, NamesTypeOK, TableSound
  <2>3. CASE work = <<>>
    <3>1. ToSet(work) = {} /\ Leaving = {}
      BY <2>3, IdleCalls
    <3>2. ASSUME NEW c \in live, NEW m \in ToSet(members[c])
          PROVE  m \in live /\ container[m] = c
      BY <2>1, <3>1 DEF IInv, MembersExist
    <3>3. ASSUME NEW o \in live, NEW c \in live, container[o] = c
          PROVE  o \in ToSet(members[c])
      BY <2>1, <2>2, <3>3, NamespaceAssumption DEF HomeInv, Homes
    <3>4. \A c \in live : ToSet(members[c]) \subseteq live /\ IsInjective(members[c])
      BY <2>1, <2>2, <3>2 DEF IInv, ListsOK
    <3> QED
      BY <2>1, <2>2, <3>2, <3>3, <3>4 DEF TreeOK, QueueApart
  <2> QED
    BY <2>2, <2>3 DEF TreeOK, Settled
<1> QED
  BY <1>1, SpecTreeInv, PTL

(* Between commands every path leads through the paths of the containers:  *)
(* renaming a container has renamed everything inside, at any depth.       *)
THEOREM Nesting == Spec => []PathsNest
<1>1. ASSUME TreeInv PROVE PathsNest
  <2>1. work = <<>> => \A x : ~Awaits(x)
    BY IdleCalls
  <2> QED
    BY <1>1, <2>1 DEF TreeInv, Nested, NestedAt, PathsNest, Settled
<1> QED
  BY <1>1, SpecTreeInv, PTL

(* At every moment an entry of the tables of containers and of top-level   *)
(* objects is that of an existing object, or of one that was renamed.      *)
THEOREM Ghosts == Spec => []NoGhosts
<1>1. TreeInv => NoGhosts
  BY DEF TreeInv, Entries, NoGhosts
<1> QED
  BY <1>1, SpecTreeInv, PTL

-----------------------------------------------------------------------------
(***************************************************************************)
(* What is found.  Two objects may have one path: when one of them is on   *)
(* its way out, the other may have taken its name, and then everything     *)
(* inside may have twice, too.  Renaming a container visits what is inside *)
(* in the order of the lists, so whoever stays is entered after those who  *)
(* go, and no entry of an object that stays and was visited is lost.       *)
(***************************************************************************)

(* Objects that are not on their way out.                                  *)
Bound == Inside(ToSet(queue) \cup Leaving)
Staying == live \ Bound

(* Objects with calls to rename them, and all they will reach.             *)
Renaming == {d.obj : d \in {e \in ToSet(work) : e.does = "rename"}}
Pending(o) == o \in Inside(Renaming)

Level(o) == IF container[o] = None THEN 1 ELSE Len(path[container[o]]) + 1

(* Renaming changes no level.                                              *)
Levels == \A o \in live : o \in Leaving \/ Len(path[o]) = Level(o)

StayingFound == \A o \in Staying : Found(o) \/ Pending(o)

(* Who takes the name of a sibling comes later in the list, and the        *)
(* sibling is on its way out.                                              *)
Newcomers ==
  \A c \in live : \A j, k \in DOMAIN members[c] :
    j < k /\ members[c][j] \in Staying =>
      Last(path[members[c][j]]) # Last(path[members[c][k]])

(* The name a call gives: the object's own, but for the first call, which  *)
(* gives one that no sibling has.                                          *)
NamesGiven ==
  \A d \in ToSet(work) : d.does = "rename" =>
    \/ d.name = Last(path[d.obj])
    \/ work = <<d>> /\ \A s \in Siblings(container[d.obj]) : Last(path[s]) # d.name

(* No object that stays and was visited has the path which an object still *)
(* to be visited will have, be it beside that or in another container.     *)
Unvisited ==
  \A d \in ToSet(work) : d.does = "rename" =>
    /\ \A o \in Staying \cap Siblings(container[d.obj]) :
         o # d.obj /\ Last(path[o]) = d.name => Pending(o)
    /\ container[d.obj] # None =>
         \A o \in Staying : o # container[d.obj] /\ path[o] = path[container[d.obj]] =>
           Pending(o)

(* The calls go from the inner to the outer ones, and among siblings in    *)
(* the order of the list.                                                  *)
CallOrder ==
  \A j, k \in DOMAIN work : j < k /\ work[j].does = "rename" =>
    LET x == work[j].obj
        y == work[k].obj
    IN  /\ Level(y) <= Level(x)
        /\ container[x] = container[y] /\ x \in Staying => work[j].name # work[k].name

Visits == NamesGiven /\ Unvisited /\ CallOrder

FindInv == TreeInv /\ Levels /\ StayingFound /\ Newcomers /\ Visits


-----------------------------------------------------------------------------
(* Who holds what is on its way out or still to be renamed.                *)
LEMMA Closed ==
  ASSUME HomeInv
  PROVE  /\ ToSet(queue) \cup Leaving \subseteq Bound
         /\ \A o \in Staying : container[o] # None => container[o] \in Staying
         /\ \A d \in ToSet(work) : d.does = "rename" => Pending(d.obj)
         /\ \A o \in live : Pending(container[o]) => Pending(o)
<1>1. live \subseteq Objects /\ ToSet(queue) \subseteq Objects /\ Leaving \subseteq Objects
  BY LeavingObjects DEF HomeInv, IInv, NamesTypeOK, ToSet
<1>2. Renaming \in SUBSET Objects
  <2>1. \A d \in ToSet(work) : d \in CallSet
    BY DEF HomeInv, IInv, NamesTypeOK, ToSet
  <2> QED
    BY <2>1 DEF Renaming, CallSet
<1>3. ToSet(queue) \cup Leaving \in SUBSET Objects
  BY <1>1
<1>4. ToSet(queue) \cup Leaving \subseteq Bound /\ Holds(Bound)
  BY <1>1, <1>3, InsideIsLeast DEF Bound
<1>5. Renaming \subseteq Inside(Renaming) /\ Holds(Inside(Renaming))
  BY <1>1, <1>2, InsideIsLeast
<1>6. \A o \in Staying : container[o] # None => container[o] \in Staying
  BY <1>4 DEF Staying, Holds, HomeInv, Homes
<1>7. \A d \in ToSet(work) : d.does = "rename" => d.obj \in Renaming
  BY DEF Renaming
<1> QED
  BY <1>4, <1>5, <1>6, <1>7 DEF Pending, Holds

(* While nothing is renamed nothing awaits it.                             *)
LEMMA NonePending ==
  ASSUME live \subseteq Objects, \A d \in ToSet(work) : d.does # "rename"
  PROVE  \A o : ~Pending(o)
<1>1. Renaming = {}
  BY DEF Renaming
<1>2. Holds({})
  BY DEF Holds
<1>3. Inside({}) \subseteq {}
  BY <1>2, InsideIsLeast
<1> QED
  BY <1>1, <1>3 DEF Pending

(* Between commands the objects that stay are found, so no two of them     *)
(* have one path.                                                          *)
LEMMA IdleFound ==
  ASSUME FindInv, work = <<>>
  PROVE  /\ Bound = Doomed
         /\ \A o \in Staying : Found(o)
         /\ \A o, p \in Staying : path[o] = path[p] => o = p
         /\ \A o \in live : NestedAt(o) /\ Len(path[o]) = Level(o)
<1>1. ToSet(work) = {} /\ Leaving = {} /\ \A o : ~Awaits(o)
  BY IdleCalls
<1>2. Bound = Doomed
  BY <1>1 DEF Bound, Doomed
<1>3. \A o : ~Pending(o)
  BY <1>1, NonePending DEF FindInv, TreeInv, HomeInv, IInv, NamesTypeOK
<1>4. \A o \in Staying : Found(o)
  BY <1>3 DEF FindInv, StayingFound
<1>5. \A o \in live : NestedAt(o) /\ Len(path[o]) = Level(o)
  BY <1>1 DEF FindInv, TreeInv, Nested, Levels
<1> QED
  BY <1>2, <1>4, <1>5 DEF Found

(* A path in c is one name longer than that of c.                          *)
LEMMA PathLength ==
  ASSUME IInv, NEW c \in live \cup {None}, NEW n \in Names
  PROVE  /\ Len(PathIn(c, n)) = IF c = None THEN 1 ELSE Len(path[c]) + 1
         /\ Len(PathIn(c, n)) = 1 <=> c = None
         /\ c # None => Len(path[c]) \in Nat \ {0}
<1>1. CASE c = None
  BY <1>1 DEF PathIn
<1>2. CASE c # None
  <2>1. path[c] \in Seq(Names) /\ path[c] # <<>>
    BY <1>2 DEF IInv, NamesTypeOK
  <2>2. Len(Append(path[c], n)) = Len(path[c]) + 1 /\ Len(path[c]) \in Nat \ {0}
    BY <2>1
  <2> QED
    BY <1>2, <2>2 DEF PathIn
<1> QED
  BY <1>1, <1>2

(* An object with the path of name n in c is in c under that name, or in   *)
(* another container which has the path of c.                              *)
LEMMA SamePath ==
  ASSUME IInv, NEW c \in live \cup {None}, NEW n \in Names,
         NEW o \in live, NestedAt(o), path[o] = PathIn(c, n),
         container[o] \in live \cup {None}
  PROVE  /\ Last(path[o]) = n
         /\ \/ container[o] = c
            \/ c # None /\ container[o] # None /\ path[container[o]] = path[c]
<1> USE NamespaceAssumption
<1> DEFINE e == container[o]
           m == Last(path[o])
<1>1. m = n
  BY PathEnds
<1>2. path[o] = PathIn(e, n)
  BY <1>1 DEF NestedAt
<1>3. live \subseteq Objects /\ \A x \in live : path[x] \in Seq(Names) /\ Len(path[x]) \in Nat \ {0}
  <2>1. live \subseteq Objects /\ \A x \in live : path[x] \in Seq(Names) /\ path[x] # <<>>
    BY DEF IInv, NamesTypeOK
  <2> QED
    BY <2>1
<1> HIDE DEF e, m
<1>4. e \in live \cup {None}
  BY DEF e
<1>5. PathIn(c, n) = PathIn(e, n)
  BY <1>2
<1>7. c = None <=> e = None
  <2>1. Len(PathIn(c, n)) = 1 <=> c = None
    BY PathLength
  <2>2. Len(PathIn(e, n)) = 1 <=> e = None
    BY <1>4, PathLength
  <2> QED
    BY <1>5, <2>1, <2>2, Zenon
<1>8. CASE c # None /\ e # None
  <2>1. Append(path[c], n) = Append(path[e], n) /\ path[c] \in Seq(Names) /\ path[e] \in Seq(Names)
    BY <1>3, <1>4, <1>5, <1>8 DEF PathIn
  <2>2. path[c] = path[e]
    BY <2>1
  <2> QED
    BY <1>1, <1>8, <2>2 DEF e, m
<1>9. CASE c = None /\ e = None
  BY <1>1, <1>9 DEF e, m
<1> QED
  BY <1>7, <1>8, <1>9

(* What was on its way out still is, but for the objects X that go.        *)
LEMMA BoundStays ==
  ASSUME live \subseteq Objects, NEW X \in SUBSET Objects,
         ToSet(queue) \cup Leaving \subseteq ToSet(queue') \cup Leaving' \cup X,
         live \ X \subseteq live',
         \A o \in live \ X : container'[o] = container[o] \/ o \in Leaving',
         \A o \in live \ X : container[o] \notin X
  PROVE  Bound \subseteq Bound' \cup X
<1>1. ASSUME NEW T \in SUBSET Objects, ToSet(queue') \cup Leaving' \subseteq T, Holds(T)'
      PROVE  Bound \subseteq T \cup X
  <2>1. Holds(T \cup X)
    <3> SUFFICES ASSUME NEW o \in live, container[o] \in T \cup X, o \notin X
                 PROVE  o \in T
      BY DEF Holds
    <3>1. container[o] \in T /\ o \in live'
      OBVIOUS
    <3> QED
      BY <1>1, <3>1 DEF Holds
  <2>2. T \cup X \in SUBSET Objects /\ ToSet(queue) \cup Leaving \subseteq T \cup X
    BY <1>1
  <2> QED
    BY <2>1, <2>2 DEF Bound, Inside
<1>2. ASSUME NEW o \in Bound, o \notin X
      PROVE  o \in Bound'
  <2>1. o \in Objects
    BY DEF Bound, Inside
  <2> QED
    BY <1>1, <1>2, <2>1 DEF Bound, Inside
<1> QED
  BY <1>2

(* Without calls to rename there is no order to keep.                      *)
LEMMA NoVisits ==
  ASSUME \A d \in ToSet(work') : d.does # "rename"
  PROVE  Visits'
<1>1. \A j \in DOMAIN work' : work'[j].does # "rename"
  BY DEF ToSet
<1> QED
  BY <1>1 DEF Visits, NamesGiven, Unvisited, CallOrder

-----------------------------------------------------------------------------
(* Commands.                                                               *)

(* What is created has a path that no object which stays has.              *)
LEMMA CreateFree ==
  ASSUME FindInv, NEW o \in Objects, NEW c \in Containers \cup {None}, NEW n \in Names,
         Create(o, c, n)
  PROVE  /\ Bound \subseteq Bound'
         /\ \A x \in live : x # o /\ path'[x] = path[x] /\ container'[x] = container[x]
         /\ live' = live \cup {o} /\ c \in live \cup {None}
         /\ path'[o] = PathIn(c, n) /\ container'[o] = c
         /\ \A x \in Staying : path[x] # PathIn(c, n)
<1> USE NamespaceAssumption
<1>1. HomeInv /\ IInv /\ Nested
  BY DEF FindInv, TreeInv, HomeInv
<1>2. /\ work = <<>> /\ work' = <<>> /\ queue' = queue
      /\ o \notin live /\ live' = live \cup {o} /\ live \subseteq Objects
      /\ container' = [container EXCEPT ![o] = c]
      /\ path' = [path EXCEPT ![o] = PathIn(c, n)]
      /\ container \in [Objects -> Objects \cup {None}] /\ path \in [Objects -> Seq(Names)]
      /\ c \in (live \ Doomed) \cup {None}
      /\ \A s \in Siblings(c) \ Doomed : path[s] # PathIn(c, n)
  BY <1>1 DEF Create, IInv, NamesTypeOK
<1>3. \A x \in live : x # o /\ path'[x] = path[x] /\ container'[x] = container[x]
  BY <1>2
<1>4. Leaving = {} /\ Leaving' = {}
  BY <1>2, IdleCalls DEF Leaving
<1>5. Bound \subseteq Bound' \cup {}
  <2>1. ToSet(queue) \cup Leaving \subseteq ToSet(queue') \cup Leaving' \cup {}
    BY <1>2, <1>4
  <2>2. live \ {} \subseteq live'
    BY <1>2
  <2> QED
    BY <1>2, <1>3, <2>1, <2>2, BoundStays
<1>6. ASSUME NEW x \in Staying, path[x] = PathIn(c, n)
      PROVE  FALSE
  <2>1. x \in live \ Doomed /\ NestedAt(x) /\ container[x] \in live \cup {None}
    BY <1>1, <1>2, IdleFound DEF Staying, HomeInv, Homes
  <2>2. /\ \/ container[x] = c
           \/ c # None /\ container[x] # None /\ path[container[x]] = path[c]
    BY <1>1, <1>2, <1>6, <2>1, SamePath
  <2>3. c # None => c \in Staying
    BY <1>2, IdleFound DEF Staying
  <2>4. container[x] # None => container[x] \in Staying
    BY <1>1, Closed
  <2>5. container[x] = c
    BY <1>2, <2>2, <2>3, <2>4, IdleFound
  <2> QED
    BY <1>2, <1>6, <2>1, <2>5 DEF Siblings
<1> QED
  BY <1>2, <1>3, <1>5, <1>6

LEMMA CreateNewcomer ==
  ASSUME FindInv, NEW o \in Objects, NEW c \in Containers \cup {None}, NEW n \in Names,
         Create(o, c, n)
  PROVE  Newcomers'
<1> USE NamespaceAssumption
<1>0. HomeInv /\ IInv
  BY DEF FindInv, TreeInv, HomeInv
<1>1. /\ Bound \subseteq Bound'
      /\ \A x \in live : x # o /\ path'[x] = path[x]
      /\ live' = live \cup {o} /\ c \in live \cup {None}
      /\ path'[o] = PathIn(c, n)
      /\ \A x \in Staying : path[x] # PathIn(c, n)
  BY CreateFree
<1>2. /\ work = <<>>
      /\ members' = IF c = None THEN members ELSE [members EXCEPT ![c] = Append(@, o)]
      /\ members \in [Objects -> Seq(Objects)] /\ live \subseteq Objects
      /\ o \notin made /\ members[o] = <<>>
  BY <1>0 DEF Create, IInv, NamesTypeOK, ListsOK
<1>3. \A d \in live : \A k \in DOMAIN members[d] :
        members[d][k] \in live /\ container[members[d][k]] = d
  BY <1>0, <1>2, Idle DEF ToSet
<1>4. Last(PathIn(c, n)) = n
  BY <1>0, <1>1, PathEnds
<1>5. \A x \in live : x \notin Bound' => x \in Staying
  BY <1>1 DEF Staying
<1>6. ASSUME NEW d \in live, NEW j \in DOMAIN members[d], NEW k \in DOMAIN members[d],
             j < k, members[d][j] \notin Bound'
      PROVE  Last(path'[members[d][j]]) # Last(path'[members[d][k]])
  <2>1. members[d][j] \in Staying
    BY <1>3, <1>5, <1>6
  <2>2. Last(path[members[d][j]]) # Last(path[members[d][k]])
    BY <1>6, <2>1 DEF FindInv, Newcomers
  <2> QED
    BY <1>1, <1>3, <2>2
<1>7. ASSUME NEW x \in Siblings(c), x \notin Bound'
      PROVE  Last(path'[x]) # Last(path'[o])
  <2>1. x \in Staying /\ path[x] # PathIn(c, n) /\ path'[x] = path[x]
    BY <1>1, <1>5, <1>7 DEF Siblings
  <2>2. path[x] = PathIn(c, Last(path[x]))
    BY <1>2, <1>7, IdleFound DEF NestedAt, Siblings
  <2> QED
    BY <1>1, <1>4, <2>1, <2>2
<1>8. ASSUME NEW d \in live', NEW j \in DOMAIN members'[d], NEW k \in DOMAIN members'[d],
             j < k, members'[d][j] \in Staying'
      PROVE  Last(path'[members'[d][j]]) # Last(path'[members'[d][k]])
  <2>0. members'[d][j] \notin Bound'
    BY <1>8 DEF Staying
  <2>1. CASE d = c
    <3>1. /\ members'[c] = Append(members[c], o) /\ members[c] \in Seq(Objects)
          /\ c \in live /\ d = c /\ Len(members[c]) \in Nat
      BY <1>1, <1>2, <1>8, <2>1
    <3>2. /\ DOMAIN members'[d] = 1 .. Len(members[c]) + 1
          /\ DOMAIN members[c] = 1 .. Len(members[c])
          /\ \A i \in 1 .. Len(members[c]) : members'[d][i] = members[c][i]
          /\ members'[d][Len(members[c]) + 1] = o
      BY <3>1
    <3>3. j \in DOMAIN members[c] /\ members'[d][j] = members[c][j]
      BY <1>8, <3>1, <3>2
    <3>4. CASE k \in DOMAIN members[c]
      BY <1>6, <1>8, <2>0, <3>1, <3>2, <3>3, <3>4
    <3>5. CASE k \notin DOMAIN members[c]
      <4>1. members'[d][k] = o
        BY <1>8, <3>1, <3>2, <3>5
      <4>2. members[c][j] \in Siblings(c)
        BY <1>3, <3>1, <3>3 DEF Siblings
      <4> QED
        BY <1>7, <2>0, <3>3, <4>1, <4>2
    <3> QED
      BY <3>4, <3>5
  <2>2. CASE d # c
    <3>1. members'[d] = members[d]
      BY <1>1, <1>2, <2>2
    <3>2. d \in live
      BY <1>1, <1>2, <1>8, <3>1
    <3> QED
      BY <1>6, <1>8, <2>0, <3>1, <3>2
  <2> QED
    BY <2>1, <2>2
<1> QED
  BY <1>8 DEF Newcomers

LEMMA CreateFind ==
  ASSUME FindInv, NEW o \in Objects, NEW c \in Containers \cup {None}, NEW n \in Names,
         Create(o, c, n)
  PROVE  (Levels /\ StayingFound /\ Newcomers /\ Visits)'
<1> USE NamespaceAssumption
<1>0. HomeInv /\ IInv
  BY DEF FindInv, TreeInv, HomeInv
<1>1. /\ Bound \subseteq Bound'
      /\ \A x \in live : x # o /\ path'[x] = path[x] /\ container'[x] = container[x]
      /\ live' = live \cup {o} /\ c \in live \cup {None}
      /\ path'[o] = PathIn(c, n) /\ container'[o] = c
      /\ \A x \in Staying : path[x] # PathIn(c, n)
  BY CreateFree
<1>2. work = <<>> /\ work' = <<>> /\ table' = Put(table, path'[o], o)
  BY DEF Create
<1>3. Visits'
  <2>1. ToSet(work') = {}
    BY <1>2 DEF ToSet
  <2> QED
    BY <2>1, NoVisits
<1>4. Levels'
  <2>1. \A x \in live : Len(path[x]) = Level(x)
    BY <1>2, IdleFound
  <2>2. \A x \in live : container[x] \in live \cup {None}
    BY <1>0 DEF HomeInv, Homes
  <2>3. Len(PathIn(c, n)) = IF c = None THEN 1 ELSE Len(path[c]) + 1
    BY <1>0, <1>1, PathLength
  <2>4. Len(path'[o]) = Level(o)'
    BY <1>1, <2>3 DEF Level
  <2>5. ASSUME NEW x \in live PROVE Len(path'[x]) = Level(x)'
    BY <1>1, <2>1, <2>2 DEF Level
  <2> QED
    BY <1>1, <2>4, <2>5 DEF Levels
<1>5. ASSUME NEW x \in Staying' PROVE Found(x)'
  <2>1. CASE x = o
    BY <1>2, <2>1 DEF Found, Put
  <2>2. CASE x # o
    <3>1. x \in Staying /\ x \in live
      BY <1>1, <2>2 DEF Staying
    <3>2. path[x] \in DOMAIN table /\ table[path[x]] = x /\ path[x] # path'[o] /\ path'[x] = path[x]
      BY <1>1, <1>2, <3>1, IdleFound DEF Found
    <3> QED
      BY <1>2, <3>2 DEF Found, Put
  <2> QED
    BY <2>1, <2>2
<1> QED
  BY <1>3, <1>4, <1>5, CreateNewcomer DEF StayingFound

(* The first call of a renaming: nothing has been visited, and no other    *)
(* object that stays has the path of the container or will have the name.  *)
LEMMA BeginRenameFind ==
  ASSUME FindInv, NEW o \in Objects, NEW n \in Names, BeginRename(o, n)
  PROVE  (Levels /\ StayingFound /\ Newcomers /\ Visits)' /\ Staying' \subseteq Staying
<1> USE NamespaceAssumption
<1> DEFINE d == ToRename(o, n)
<1>0. HomeInv /\ IInv
  BY DEF FindInv, TreeInv, HomeInv
<1>1. /\ work = <<>> /\ work' = <<d>> /\ o \in Staying /\ o \in live /\ live \subseteq Objects
      /\ \A s \in Siblings(container[o]) : path[s] # PathIn(container[o], n)
      /\ UNCHANGED <<live, container, path, members, table, queue>>
  BY <1>0, IdleFound DEF BeginRename, Staying, IInv, NamesTypeOK
<1>2. d.does = "rename" /\ d.obj = o /\ d.name = n
  BY DEF ToRename
<1> HIDE DEF d
<1>3. ToSet(work') = {d} /\ DOMAIN work' = {1}
  <2>1. work' = <<d>>
    BY <1>1
  <2>2. ToSet(work') = {d}
    BY <2>1, OneCall
  <2>3. DOMAIN work' = {1}
    BY <2>1
  <2> QED
    BY <2>2, <2>3
<1>4. Leaving = {} /\ Leaving' = {}
  BY <1>1, <1>2, <1>3, IdleCalls DEF Leaving
<1>5. Staying' = Staying
  BY <1>1, <1>4 DEF Staying, Bound, Inside, Holds
<1>6. StayingFound'
  BY <1>1, <1>5, IdleFound DEF StayingFound, Found
<1>7. Levels'
  BY <1>1, IdleFound DEF Levels, Level
<1>8. Newcomers'
  BY <1>1, <1>5 DEF FindInv, Newcomers
<1>9. \A s \in Siblings(container[o]) : Last(path[s]) # n
  BY <1>1, IdleFound DEF NestedAt, Siblings
<1>10. NamesGiven'
  BY <1>1, <1>2, <1>3, <1>9 DEF NamesGiven, Siblings
<1>11. Unvisited'
  <2>1. \A x \in Staying : container[o] # None /\ path[x] = path[container[o]] => x = container[o]
    BY <1>0, <1>1, Closed, IdleFound
  <2> QED
    BY <1>1, <1>2, <1>3, <1>5, <1>9, <2>1 DEF Unvisited, Siblings
<1>12. CallOrder'
  BY <1>3 DEF CallOrder
<1> QED
  BY <1>5, <1>6, <1>7, <1>8, <1>10, <1>11, <1>12 DEF Visits

(* Deletions and requests for them: nothing is renamed, fewer stay.        *)
LEMMA FewerStay ==
  ASSUME FindInv, \A d \in ToSet(work) \cup ToSet(work') : d.does # "rename",
         Staying' \subseteq Staying, UNCHANGED path,
         \A o \in Staying' : Found(o) => Found(o)'
  PROVE  (StayingFound /\ Visits)'
<1>1. \A o : ~Pending(o)
  BY NonePending DEF FindInv, TreeInv, HomeInv, IInv, NamesTypeOK
<1>2. StayingFound'
  BY <1>1 DEF FindInv, StayingFound
<1> QED
  BY <1>2, NoVisits

LEMMA DestroyFind ==
  ASSUME FindInv, NEW o \in Objects, Destroy(o)
  PROVE  (Levels /\ StayingFound /\ Newcomers /\ Visits)' /\ Staying' \subseteq Staying
<1>1. HomeInv /\ IInv
  BY DEF FindInv, TreeInv, HomeInv
<1>2. /\ work = <<>> /\ work' = <<>> /\ queue' = Append(queue, o)
      /\ UNCHANGED <<live, container, path, members, table>>
      /\ live \subseteq Objects /\ queue \in Seq(Objects)
  BY <1>1 DEF Destroy, IInv, NamesTypeOK
<1>3. ToSet(work) = {} /\ ToSet(work') = {} /\ Leaving = {} /\ Leaving' = {}
  BY <1>2, IdleCalls DEF Leaving
<1>4. ToSet(queue) \subseteq ToSet(queue')
  BY <1>2, AppendList
<1>5. Bound \subseteq Bound'
  BY <1>2, <1>3, <1>4, BoundStays
<1>6. Staying' \subseteq Staying
  BY <1>2, <1>5 DEF Staying
<1>7. (StayingFound /\ Visits)'
  BY <1>2, <1>3, <1>6, FewerStay DEF Found
<1>8. Levels' /\ Newcomers'
  BY <1>2, <1>3, <1>6 DEF FindInv, Levels, Level, Newcomers
<1> QED
  BY <1>6, <1>7, <1>8

LEMMA DequeueFind ==
  ASSUME FindInv, DoOneDeferredDelete
  PROVE  (Levels /\ StayingFound /\ Newcomers /\ Visits)' /\ Staying' \subseteq Staying
<1> DEFINE h == Head(queue)
<1>1. HomeInv /\ IInv
  BY DEF FindInv, TreeInv, HomeInv
<1>2. /\ work = <<>> /\ work' = <<Call("delete", h)>> /\ queue' = Tail(queue) /\ queue # <<>>
      /\ UNCHANGED <<live, container, path, members, table>>
      /\ live \subseteq Objects /\ queue \in Seq(Objects)
  BY <1>1 DEF DoOneDeferredDelete, IInv, NamesTypeOK
<1>3. ToSet(queue) = {h} \cup ToSet(queue')
  BY <1>2, HeadAndTail
<1> HIDE DEF h
<1>4. ToSet(work) = {} /\ Leaving = {} /\ ToSet(work') = {Call("delete", h)}
  BY <1>2, IdleCalls, OneCall
<1>5. Call("delete", h).does # "rename" /\ Call("delete", h).obj = h
  BY DEF Call
<1>6. Leaving' = {h}
  BY <1>4, <1>5 DEF Leaving
<1>7. Bound \subseteq Bound'
  BY <1>2, <1>3, <1>4, <1>6, BoundStays
<1>8. Staying' \subseteq Staying
  BY <1>2, <1>7 DEF Staying
<1>9. (StayingFound /\ Visits)'
  <2>1. \A d \in ToSet(work) \cup ToSet(work') : d.does # "rename"
    BY <1>4, <1>5
  <2>2. \A o \in Staying' : Found(o) => Found(o)'
    BY <1>2 DEF Found
  <2> QED
    BY <1>2, <1>8, <2>1, <2>2, FewerStay
<1>10. Levels' /\ Newcomers'
  BY <1>2, <1>4, <1>8 DEF FindInv, Levels, Level, Newcomers
<1> QED
  BY <1>8, <1>9, <1>10

LEMMA BeginDeleteFind ==
  ASSUME FindInv, work # <<>>, BeginDelete(Head(work))
  PROVE  (Levels /\ StayingFound /\ Newcomers /\ Visits)' /\ Staying' \subseteq Staying
<1> DEFINE o == Head(work).obj
<1>1. HomeInv /\ IInv
  BY DEF FindInv, TreeInv, HomeInv
<1>2. /\ container' = [m \in Objects |-> IF m \in ToSet(members[o]) THEN None ELSE container[m]]
      /\ UNCHANGED <<live, path, members, table, queue>>
      /\ live \subseteq Objects
  BY <1>1 DEF BeginDelete, IInv, NamesTypeOK
<1>3. Leaving' = Leaving \cup ToSet(members[o])
  BY <1>1, BeginDeleteHome
<1>4. \A d \in ToSet(work) \cup ToSet(work') : d.does # "rename"
  <2>1. /\ \A d \in ToSet(work) : d.does # "rename"
        /\ ToSet(work) = {Head(work)} \cup ToSet(Tail(work))
        /\ ToSet(work') = {Call("delete", m) : m \in ToSet(members[o])}
                              \cup {Call("finish", o)} \cup ToSet(Tail(work))
    BY <1>1, DeleteCalls
  <2> QED
    BY <2>1 DEF Call
<1> HIDE DEF o
<1>5. \A x \in live : x \in ToSet(members[o]) \/ container'[x] = container[x]
  BY <1>2
<1>6. Bound \subseteq Bound' \cup {}
  <2>1. /\ ToSet(queue) \cup Leaving \subseteq ToSet(queue') \cup Leaving' \cup {}
        /\ live \ {} \subseteq live'
        /\ \A x \in live \ {} : container'[x] = container[x] \/ x \in Leaving'
    BY <1>2, <1>3, <1>5
  <2> QED
    BY <1>2, <2>1, BoundStays
<1>7. Staying' \subseteq Staying
  BY <1>2, <1>6 DEF Staying
<1>8. (StayingFound /\ Visits)'
  BY <1>2, <1>4, <1>7, FewerStay DEF Found
<1>9. Levels'
  BY <1>2, <1>3, <1>5 DEF FindInv, Levels, Level
<1>10. Newcomers'
  BY <1>2, <1>7 DEF FindInv, Newcomers
<1> QED
  BY <1>7, <1>8, <1>9, <1>10

(* Taking one element off a list leaves the others in their order.         *)
LEMMA RemovedOrder ==
  ASSUME NEW S, NEW s \in Seq(S), NEW k \in DOMAIN s,
         NEW i \in DOMAIN RemoveAt(s, k), NEW j \in DOMAIN RemoveAt(s, k), i < j
  PROVE  \E p, q \in DOMAIN s :
           p < q /\ RemoveAt(s, k)[i] = s[p] /\ RemoveAt(s, k)[j] = s[q]
<1> DEFINE r == RemoveAt(s, k)
<1>1. /\ r \in Seq(S) /\ Len(r) = Len(s) - 1 /\ DOMAIN r = 1 .. Len(r)
      /\ \A x \in 1 .. Len(r) : r[x] = IF x < k THEN s[x] ELSE s[x + 1]
  BY RemovedItems
<1> HIDE DEF r
<1>2. DOMAIN s = 1 .. Len(s) /\ Len(s) \in Nat /\ i \in 1 .. Len(r) /\ j \in 1 .. Len(r)
  BY <1>1 DEF r
<1> DEFINE Old(x) == IF x < k THEN x ELSE x + 1
<1>3. /\ Old(i) \in DOMAIN s /\ Old(j) \in DOMAIN s /\ Old(i) < Old(j)
      /\ r[i] = s[Old(i)] /\ r[j] = s[Old(j)]
  BY <1>1, <1>2
<1> HIDE DEF Old
<1> QED
  BY <1>3 DEF r

LEMMA FinishFind ==
  ASSUME FindInv, work # <<>>, Finish(Head(work))
  PROVE  (Levels /\ StayingFound /\ Newcomers /\ Visits)' /\ Staying' \subseteq Staying
<1> USE NamespaceAssumption
<1> DEFINE o == Head(work).obj
<1>1. HomeInv /\ IInv
  BY DEF FindInv, TreeInv, HomeInv
<1>2. /\ Head(work) \in CallSet /\ Head(work).does = "finish" /\ o \in Objects
      /\ ToSet(work) = {Head(work)} \cup ToSet(Tail(work))
      /\ \A d \in ToSet(work) : d.does # "rename"
  BY <1>1, NextCall DEF Finish
<1>3. /\ members' = RemoveNameable(container[o], o) /\ live' = live \ {o} /\ work' = Tail(work)
      /\ table' = Unregister(path[o], o)
      /\ UNCHANGED <<container, path, queue>>
      /\ live \subseteq Objects /\ container[o] \in Objects \cup {None}
      /\ members \in [Objects -> Seq(Objects)]
  BY <1>1, <1>2 DEF Finish, IInv, NamesTypeOK
<1>4. Leaving' \subseteq Leaving /\ Leaving \subseteq Leaving' \cup {o}
  BY <1>1, FinishHome
<1>5. Head(work) = Call("finish", o)
  BY <1>2 DEF Call, CallSet
<1> HIDE DEF o
<1>6. \A x \in live : container[x] # o
  BY <1>1, <1>2, <1>5 DEF HomeInv, Homes
<1>7. Bound \subseteq Bound' \cup {o}
  <2>1. /\ ToSet(queue) \cup Leaving \subseteq ToSet(queue') \cup Leaving' \cup {o}
        /\ live \ {o} \subseteq live' /\ {o} \in SUBSET Objects
        /\ \A x \in live \ {o} : container'[x] = container[x] /\ container[x] \notin {o}
    BY <1>2, <1>3, <1>4, <1>6
  <2> QED
    BY <1>3, <2>1, BoundStays
<1>8. Staying' \subseteq Staying
  BY <1>3, <1>7 DEF Staying
<1>9. (StayingFound /\ Visits)'
  <2>1. \A d \in ToSet(work) \cup ToSet(work') : d.does # "rename"
    BY <1>2, <1>3
  <2>2. ASSUME NEW x \in Staying', Found(x) PROVE Found(x)'
    <3>1. x # o
      BY <1>3 DEF Staying
    <3>2. path[x] \in DOMAIN table' /\ table'[path[x]] = table[path[x]]
      BY <1>3, <2>2, <3>1 DEF Unregister, Erase, Found
    <3> QED
      BY <1>3, <2>2, <3>2 DEF Found
  <2> QED
    BY <1>3, <1>8, <2>1, <2>2, FewerStay
<1>10. Levels'
  BY <1>3, <1>4 DEF FindInv, Levels, Level
<1>11. ASSUME NEW d \in live', NEW i \in DOMAIN members'[d], NEW j \in DOMAIN members'[d],
              i < j, members'[d][i] \in Staying'
       PROVE  Last(path[members'[d][i]]) # Last(path[members'[d][j]])
  <2>1. \E p, q \in DOMAIN members[d] :
          p < q /\ members'[d][i] = members[d][p] /\ members'[d][j] = members[d][q]
    <3>1. CASE container[o] # None /\ o \in ToSet(members[container[o]]) /\ d = container[o]
      <4> DEFINE k == CHOOSE x \in DOMAIN members[d] : members[d][x] = o
      <4>1. k \in DOMAIN members[d]
        BY <3>1 DEF ToSet
      <4>2. members'[d] = RemoveAt(members[d], k)
        BY <1>3, <3>1 DEF RemoveNameable
      <4>3. members[d] \in Seq(Objects)
        BY <1>3
      <4> HIDE DEF k
      <4> QED
        BY <1>11, <4>1, <4>2, <4>3, RemovedOrder
    <3>2. CASE ~(container[o] # None /\ o \in ToSet(members[container[o]]) /\ d = container[o])
      <4>1. members'[d] = members[d]
        BY <1>3, <3>2 DEF RemoveNameable
      <4> QED
        BY <1>11, <4>1
    <3> QED
      BY <3>1, <3>2
  <2> QED
    BY <1>3, <1>8, <1>11, <2>1 DEF FindInv, Newcomers
<1>12. Newcomers'
  BY <1>3, <1>11 DEF Newcomers
<1> QED
  BY <1>8, <1>9, <1>10, <1>12

-----------------------------------------------------------------------------
(* One call of a renaming.                                                 *)

(* Its place is taken by the calls for the members, in their order.        *)
LEMMA RenameWork ==
  ASSUME IInv, work # <<>>, Rename(Head(work))
  PROVE  /\ \A j \in DOMAIN work' :
              \/ /\ j \in DOMAIN members[Head(work).obj]
                 /\ work'[j].obj = members[Head(work).obj][j]
                 /\ work'[j].name = Last(path[members[Head(work).obj][j]])
                 /\ work'[j].does = "rename"
              \/ /\ j \notin DOMAIN members[Head(work).obj]
                 /\ j - Len(members[Head(work).obj]) + 1 \in DOMAIN work \ {1}
                 /\ work'[j] = work[j - Len(members[Head(work).obj]) + 1]
         /\ DOMAIN work' \subseteq Nat
         /\ Len(members[Head(work).obj]) \in Nat
         /\ DOMAIN members[Head(work).obj] = 1 .. Len(members[Head(work).obj])
<1> DEFINE o == Head(work).obj
           s == members[o]
           f == [k \in DOMAIN s |-> ToRename(s[k], Last(path[s[k]]))]
           t == Tail(work)
<1>1. /\ o \in Objects /\ Head(work) \in CallSet /\ Head(work).does = "rename"
      /\ work \in Seq(CallSet)
  BY NextCall DEF Rename, IInv, NamesTypeOK
<1>2. s \in Seq(Objects)
  BY <1>1 DEF IInv, NamesTypeOK
<1>3. work' = f \o t
  BY DEF Rename
<1>4. /\ DOMAIN s = 1 .. Len(s) /\ Len(s) \in Nat
      /\ Len(t) = Len(work) - 1 /\ Len(work) \in Nat \ {0}
      /\ DOMAIN work = 1 .. Len(work)
      /\ t \in Seq(CallSet) /\ \A k \in 1 .. Len(t) : t[k] = work[k + 1]
  BY <1>1, <1>2
<1>5. f \in Seq({f[k] : k \in DOMAIN s}) /\ Len(f) = Len(s)
  BY <1>4
<1>6. \A k \in DOMAIN s : f[k] = ToRename(s[k], Last(path[s[k]]))
  OBVIOUS
<1> HIDE DEF f, t, s
<1>7. /\ DOMAIN work' = 1 .. Len(s) + Len(t)
      /\ \A j \in DOMAIN work' : work'[j] = IF j <= Len(s) THEN f[j] ELSE t[j - Len(s)]
  <2> DEFINE F == {f[k] : k \in DOMAIN s} \cup CallSet
  <2>1. f \in Seq(F) /\ t \in Seq(F)
    BY <1>4, <1>5
  <2> HIDE DEF F
  <2>2. /\ DOMAIN (f \o t) = 1 .. Len(f) + Len(t)
        /\ \A j \in 1 .. Len(f) + Len(t) :
             (f \o t)[j] = IF j <= Len(f) THEN f[j] ELSE t[j - Len(f)]
    BY <2>1
  <2> QED
    BY <1>3, <1>5, <2>2
<1>8. ASSUME NEW j \in DOMAIN work', j <= Len(s)
      PROVE  /\ j \in DOMAIN s /\ work'[j].obj = s[j] /\ work'[j].name = Last(path[s[j]])
             /\ work'[j].does = "rename"
  <2>1. j \in DOMAIN s /\ work'[j] = ToRename(s[j], Last(path[s[j]]))
    BY <1>4, <1>6, <1>7, <1>8
  <2> QED
    BY <2>1 DEF ToRename
<1>9. ASSUME NEW j \in DOMAIN work', ~(j <= Len(s))
      PROVE  /\ j \notin DOMAIN s /\ j - Len(s) + 1 \in DOMAIN work \ {1}
             /\ work'[j] = work[j - Len(s) + 1]
  <2>1. j \in 1 .. Len(s) + Len(t) /\ j - Len(s) \in 1 .. Len(t)
    BY <1>4, <1>7, <1>9
  <2> QED
    BY <1>4, <1>7, <1>9, <2>1
<1>10. DOMAIN work' \subseteq Nat
  BY <1>4, <1>7
<1> QED
  BY <1>4, <1>8, <1>9, <1>10 DEF s

(* The others keep their paths; who was to be visited still is.            *)
LEMMA RenameStays ==
  ASSUME FindInv, work # <<>>, Rename(Head(work))
  PROVE  /\ Head(work).obj \in live /\ Head(work).name \in Names /\ Head(work).does = "rename"
         /\ live \subseteq Objects /\ live' = live /\ container' = container
         /\ Staying' = Staying
         /\ path'[Head(work).obj] = PathIn(container[Head(work).obj], Head(work).name)
         /\ \A x \in Objects : x # Head(work).obj => path'[x] = path[x]
         /\ \A x : Pending(x) => x = Head(work).obj \/ Pending(x)'
         /\ \A x \in ToSet(members[Head(work).obj]) : Pending(x)'
<1> USE NamespaceAssumption
<1> DEFINE o == Head(work).obj
<1>1. HomeInv /\ IInv
  BY DEF FindInv, TreeInv, HomeInv
<1>2. /\ o \in live /\ Head(work).name \in Names
      /\ ToSet(work) = {Head(work)} \cup ToSet(Tail(work))
      /\ \A e \in ToSet(work) : e.does = "rename"
      /\ ToSet(Tail(work)) \subseteq ToSet(work')
      /\ \A e \in ToSet(work') : e \in ToSet(Tail(work)) \/ e.does = "rename"
      /\ \A m \in ToSet(members[o]) : \E e \in ToSet(work') : e.obj = m
      /\ work' \in Seq(CallSet)
  BY <1>1, RenameCalls, NextCall
<1>3. /\ path' = [path EXCEPT ![o] = PathIn(container[o], Head(work).name)]
      /\ UNCHANGED <<live, container, members, queue>>
      /\ live \subseteq Objects /\ path \in [Objects -> Seq(Names)]
  BY <1>1 DEF Rename, IInv, NamesTypeOK
<1>4. \A e \in ToSet(work') : e.does = "rename" /\ e \in CallSet
  BY <1>2 DEF ToSet
<1> HIDE DEF o
<1>5. Staying' = Staying
  <2>1. Leaving = {} /\ Leaving' = {}
    BY <1>2, <1>4 DEF Leaving
  <2> QED
    BY <1>3, <2>1 DEF Staying, Bound, Inside, Holds
<1>6. Renaming \subseteq Renaming' \cup {o} /\ ToSet(members[o]) \subseteq Renaming'
  <2>1. /\ \A e \in ToSet(work) : e.obj = o \/ e \in ToSet(work')
        /\ \A e \in ToSet(work') : e.does = "rename"
    BY <1>2, <1>4 DEF o
  <2> QED
    BY <1>2, <2>1 DEF Renaming
<1>7. ASSUME NEW T \in SUBSET Objects, Renaming' \subseteq T, Holds(T)'
      PROVE  Inside(Renaming) \subseteq T \cup {o}
  <2>1. Holds(T \cup {o})
    <3> SUFFICES ASSUME NEW x \in live, container[x] \in T \cup {o}
                 PROVE  x \in T
      BY DEF Holds
    <3>1. CASE container[x] \in T
      BY <1>3, <1>7, <3>1 DEF Holds
    <3>2. CASE container[x] = o
      <4>1. container[x] # None
        BY <1>2, <1>3, <3>2
      <4>2. x \in ToSet(members[o])
        BY <1>1, <3>2, <4>1 DEF HomeInv, Homes
      <4> QED
        BY <1>6, <1>7, <4>2
    <3> QED
      BY <3>1, <3>2
  <2>2. T \cup {o} \in SUBSET Objects /\ Renaming \subseteq T \cup {o}
    BY <1>2, <1>3, <1>6, <1>7
  <2> QED
    BY <2>1, <2>2 DEF Inside
<1>8. ASSUME NEW x, Pending(x), x # o
      PROVE  Pending(x)'
  <2>1. x \in Objects
    BY <1>8 DEF Pending, Inside
  <2> QED
    BY <1>7, <1>8, <2>1 DEF Pending, Inside
<1>9. ASSUME NEW x \in ToSet(members[o]) PROVE Pending(x)'
  <2>1. x \in Renaming' /\ x \in Objects
    <3>1. \A e \in ToSet(work') : e.obj \in Objects
      BY <1>4 DEF CallSet
    <3> QED
      BY <1>6, <3>1 DEF Renaming
  <2> QED
    BY <2>1 DEF Pending, Inside
<1> QED
  BY <1>2, <1>3, <1>5, <1>8, <1>9 DEF o, Rename

(* No object that stays and was visited has the path that is given.        *)
LEMMA RenameFree ==
  ASSUME FindInv, work # <<>>, Rename(Head(work)),
         NEW x \in Staying, x # Head(work).obj,
         path[x] = PathIn(container[Head(work).obj], Head(work).name)
  PROVE  Pending(x)
<1> USE NamespaceAssumption
<1> DEFINE o == Head(work).obj
           c == container[o]
           n == Head(work).name
<1>1. HomeInv /\ IInv
  BY DEF FindInv, TreeInv, HomeInv
<1>2. /\ o \in live /\ n \in Names /\ Head(work).does = "rename"
      /\ Head(work) \in ToSet(work)
      /\ \A e \in ToSet(work) : e.does = "rename"
  BY <1>1, RenameStays, RenameCalls, NextCall
<1> SUFFICES ASSUME ~Pending(x) PROVE FALSE
  OBVIOUS
<1>3. \A y \in live : Awaits(y) => Pending(y)
  BY <1>1, <1>2, Closed DEF Awaits
<1>4. x \in live /\ NestedAt(x)
  BY <1>3 DEF Staying, FindInv, TreeInv, Nested
<1>5. \A y \in live : container[y] \in live \cup {None}
  BY <1>1 DEF HomeInv, Homes
<1>6. /\ \A y \in Staying \cap Siblings(c) : y # o /\ Last(path[y]) = n => Pending(y)
      /\ c # None => \A y \in Staying : y # c /\ path[y] = path[c] => Pending(y)
  BY <1>2 DEF FindInv, Visits, Unvisited
<1> HIDE DEF o, c, n
<1>7. c \in live \cup {None}
  BY <1>2, <1>5 DEF c
<1>8. path[x] = PathIn(c, n)
  BY DEF o, c, n
<1>9. /\ Last(path[x]) = n
      /\ \/ container[x] = c
         \/ c # None /\ container[x] # None /\ path[container[x]] = path[c]
  BY <1>1, <1>2, <1>4, <1>5, <1>7, <1>8, SamePath
<1>10. CASE container[x] = c
  <2>1. x \in Siblings(c) /\ x # o
    BY <1>4, <1>10 DEF Siblings, o
  <2> QED
    BY <1>6, <1>9, <2>1
<1>11. CASE container[x] # c
  <2>1. c # None /\ container[x] # None /\ path[container[x]] = path[c]
    BY <1>9, <1>11
  <2>2. container[x] \in Staying
    BY <1>1, <2>1, Closed
  <2>3. Pending(container[x])
    BY <1>6, <1>11, <2>1, <2>2
  <2> QED
    BY <1>1, <1>4, <2>3, Closed
<1> QED
  BY <1>10, <1>11

(* No path gets longer or shorter, and all but the first call keep the     *)
(* name at its end.                                                        *)
LEMMA RenameKeeps ==
  ASSUME FindInv, work # <<>>, Rename(Head(work))
  PROVE  /\ \A x \in live : Len(path[x]) = Level(x) /\ Level(x)' = Level(x)
                              /\ Len(path[x]) \in Nat /\ Len(path'[x]) = Level(x)
         /\ Last(path'[Head(work).obj]) = Head(work).name
         /\ \/ \A x \in live : Last(path'[x]) = Last(path[x])
            \/ /\ DOMAIN work = {1}
               /\ \A s \in Siblings(container[Head(work).obj]) : Last(path[s]) # Head(work).name
<1> USE NamespaceAssumption
<1> DEFINE o == Head(work).obj
           c == container[o]
           n == Head(work).name
<1>1. HomeInv /\ IInv
  BY DEF FindInv, TreeInv, HomeInv
<1>2. /\ o \in live /\ n \in Names /\ Head(work).does = "rename"
      /\ live \subseteq Objects /\ live' = live /\ container' = container
      /\ path'[o] = PathIn(c, n)
      /\ \A x \in Objects : x # o => path'[x] = path[x]
  BY RenameStays
<1>3. Head(work) \in ToSet(work) /\ \A e \in ToSet(work) : e.does = "rename"
  BY <1>1, RenameCalls, NextCall
<1>4. \/ n = Last(path[o])
      \/ work = <<Head(work)>> /\ \A s \in Siblings(c) : Last(path[s]) # n
  BY <1>2, <1>3 DEF FindInv, Visits, NamesGiven
<1> HIDE DEF o, c, n
<1>5. \A x \in live : container[x] \in live \cup {None}
  BY <1>1 DEF HomeInv, Homes
<1>6. c \in live \cup {None}
  BY <1>2, <1>5 DEF c
<1>7. \A x \in live : Len(path[x]) = Level(x) /\ Len(path[x]) \in Nat
  <2>1. Leaving = {}
    BY <1>3 DEF Leaving
  <2>2. \A x \in live : path[x] \in Seq(Names)
    BY <1>1, <1>2 DEF IInv, NamesTypeOK
  <2>3. \A x \in live : Len(path[x]) \in Nat
    BY <2>2
  <2> QED
    BY <2>1, <2>3 DEF FindInv, Levels
<1>8. Len(path'[o]) = Level(o)
  <2>1. Len(PathIn(c, n)) = IF c = None THEN 1 ELSE Len(path[c]) + 1
    BY <1>1, <1>2, <1>6, PathLength
  <2> QED
    BY <1>2, <2>1 DEF Level, c
<1>9. \A x \in live : Len(path'[x]) = Len(path[x])
  BY <1>2, <1>7, <1>8
<1>10. \A x \in live : Level(x)' = Level(x)
  BY <1>2, <1>5, <1>9 DEF Level
<1>11. Last(path'[o]) = n
  BY <1>1, <1>2, <1>6, PathEnds
<1>12. \/ \A x \in live : Last(path'[x]) = Last(path[x])
       \/ work = <<Head(work)>> /\ \A s \in Siblings(c) : Last(path[s]) # n
  BY <1>2, <1>4, <1>11
<1>13. work = <<Head(work)>> => DOMAIN work = {1}
  <2> DEFINE h == Head(work)
  <2>1. ASSUME work = <<h>> PROVE DOMAIN work = {1}
    <3> HIDE DEF h
    <3> QED
      BY <2>1
  <2> QED
    BY <2>1
<1> QED
  BY <1>7, <1>9, <1>10, <1>11, <1>12, <1>13 DEF o, c, n

LEMMA RenameFound ==
  ASSUME FindInv, work # <<>>, Rename(Head(work))
  PROVE  (Levels /\ StayingFound /\ Newcomers)'
<1> DEFINE o == Head(work).obj
           n == Head(work).name
<1>1. HomeInv /\ IInv
  BY DEF FindInv, TreeInv, HomeInv
<1>2. /\ o \in live /\ live \subseteq Objects /\ live' = live /\ container' = container
      /\ Staying' = Staying
      /\ path'[o] = PathIn(container[o], n)
      /\ \A x \in Objects : x # o => path'[x] = path[x]
      /\ \A x : Pending(x) => x = o \/ Pending(x)'
  BY RenameStays
<1>3. /\ \A x \in live : Len(path[x]) = Level(x) /\ Level(x)' = Level(x)
                           /\ Len(path[x]) \in Nat /\ Len(path'[x]) = Level(x)
      /\ Last(path'[o]) = n
      /\ \/ \A x \in live : Last(path'[x]) = Last(path[x])
         \/ \A s \in Siblings(container[o]) : Last(path[s]) # n
  BY RenameKeeps
<1>4. \A x \in Staying : x # o /\ path[x] = PathIn(container[o], n) => Pending(x)
  BY RenameFree
<1>5. /\ table' = Put(Unregister(path[o], o), path'[o], o) /\ members' = members
      /\ \A d \in live : \A m \in ToSet(members[d]) : m \in live /\ container[m] = d
      /\ \A d \in live : IsInjective(members[d])
  BY <1>1, <1>2, RenameCalls DEF Rename, IInv, ListsOK
<1> HIDE DEF o, n
<1>6. Levels'
  BY <1>2, <1>3 DEF Levels
<1>7. StayingFound'
  <2> SUFFICES ASSUME NEW x \in Staying, ~(Pending(x)')
               PROVE  Found(x)'
    BY <1>2 DEF StayingFound
  <2>1. CASE x = o
    BY <1>5, <2>1 DEF Found, Put
  <2>2. CASE x # o
    <3>1. x \in live /\ ~Pending(x) /\ Found(x) /\ path[x] # path'[o] /\ path'[x] = path[x]
      BY <1>2, <1>4, <2>2 DEF Staying, FindInv, StayingFound
    <3>2. path[x] \in DOMAIN Unregister(path[o], o) /\ Unregister(path[o], o)[path[x]] = x
      BY <2>2, <3>1 DEF Found, Unregister, Erase
    <3> QED
      BY <1>5, <3>1, <3>2 DEF Found, Put
  <2> QED
    BY <2>1, <2>2
<1>8. ASSUME NEW d \in live, NEW j \in DOMAIN members[d], NEW k \in DOMAIN members[d],
             j < k, members[d][j] \in Staying
      PROVE  Last(path'[members[d][j]]) # Last(path'[members[d][k]])
  <2> DEFINE x == members[d][j]
             y == members[d][k]
  <2>1. /\ x \in live /\ y \in live /\ container[x] = d /\ container[y] = d
    BY <1>5 DEF ToSet
  <2>2. x # y
    <3>1. j # k
      <4>1. members[d] \in Seq(Objects)
        BY <1>1, <1>2 DEF IInv, NamesTypeOK
      <4>2. j \in Nat /\ k \in Nat
        BY <4>1
      <4> QED
        BY <1>8, <4>2
    <3> QED
      BY <1>5, <3>1 DEF IsInjective
  <2>3. Last(path[x]) # Last(path[y])
    BY <1>8 DEF FindInv, Newcomers
  <2> HIDE DEF x, y
  <2>4. CASE \A z \in live : Last(path'[z]) = Last(path[z])
    BY <2>1, <2>3, <2>4 DEF x, y
  <2>5. CASE \A s \in Siblings(container[o]) : Last(path[s]) # n
    <3>1. CASE x = o
      BY <1>2, <1>3, <2>1, <2>2, <2>5, <3>1 DEF Siblings, x, y
    <3>2. CASE y = o
      BY <1>2, <1>3, <2>1, <2>2, <2>5, <3>2 DEF Siblings, x, y
    <3>3. CASE x # o /\ y # o
      BY <1>2, <2>1, <2>3, <3>3 DEF x, y
    <3> QED
      BY <3>1, <3>2, <3>3
  <2> QED
    BY <1>3, <2>4, <2>5
<1> QED
  BY <1>2, <1>5, <1>6, <1>7, <1>8 DEF Newcomers

LEMMA RenameVisits ==
  ASSUME FindInv, work # <<>>, Rename(Head(work))
  PROVE  Visits'
<1> USE NamespaceAssumption
<1> DEFINE o == Head(work).obj
           n == Head(work).name
           s == members[o]
           Old(j) == j - Len(s) + 1
<1>1. HomeInv /\ IInv
  BY DEF FindInv, TreeInv, HomeInv
<1>2. /\ o \in live /\ live \subseteq Objects /\ live' = live /\ container' = container
      /\ Staying' = Staying
      /\ path'[o] = PathIn(container[o], n)
      /\ \A x \in Objects : x # o => path'[x] = path[x]
      /\ \A x : Pending(x) => x = o \/ Pending(x)'
      /\ \A x \in ToSet(s) : Pending(x)'
  BY RenameStays
<1>3. /\ \A x \in live : Len(path[x]) = Level(x) /\ Level(x)' = Level(x)
                           /\ Len(path[x]) \in Nat /\ Len(path'[x]) = Level(x)
      /\ Last(path'[o]) = n
      /\ \/ \A x \in live : Last(path'[x]) = Last(path[x])
         \/ DOMAIN work = {1}
  BY RenameKeeps
<1>4. \A x \in Staying : x # o /\ path[x] = PathIn(container[o], n) => Pending(x)
  BY RenameFree
<1>5. /\ \A d \in live : \A m \in ToSet(members[d]) : m \in live /\ container[m] = d
      /\ \A x \in live : container[x] = o => x \in ToSet(s)
      /\ container[o] # o
      /\ \A e \in ToSet(work) : e.does = "rename" /\ e.obj \in live
  BY <1>1, <1>2, RenameCalls DEF HomeInv, Homes, IInv, OnlyRenaming
<1>6. /\ \A j \in DOMAIN work' :
           \/ /\ j \in DOMAIN s /\ work'[j].obj = s[j]
              /\ work'[j].name = Last(path[s[j]]) /\ work'[j].does = "rename"
           \/ /\ j \notin DOMAIN s /\ Old(j) \in DOMAIN work \ {1}
              /\ work'[j] = work[Old(j)]
      /\ DOMAIN work' \subseteq Nat /\ Len(s) \in Nat /\ DOMAIN s = 1 .. Len(s)
  BY <1>1, RenameWork
<1>7. /\ 1 \in DOMAIN work /\ work[1].obj = o /\ work[1].name = n
      /\ \A i \in DOMAIN work : i \in Nat \ {0} /\ work[i] \in ToSet(work)
  <2>1. work \in Seq(CallSet) /\ Head(work) = work[1]
    BY <1>1 DEF IInv, NamesTypeOK
  <2>2. 1 \in DOMAIN work /\ \A i \in DOMAIN work : i \in Nat \ {0}
    BY <2>1
  <2> QED
    BY <2>1, <2>2 DEF ToSet
<1>8. \A i \in DOMAIN work \ {1} :
        /\ Level(work[i].obj) <= Level(o)
        /\ container[o] = container[work[i].obj] /\ o \in Staying => n # work[i].name
  BY <1>5, <1>7 DEF FindInv, Visits, CallOrder
<1> HIDE DEF o, n, s, Old
<1>9. \A j \in DOMAIN s : s[j] \in ToSet(s) /\ s[j] \in live /\ container[s[j]] = o /\ s[j] # o
  BY <1>2, <1>5 DEF ToSet, s
<1>10. \A i \in DOMAIN work \ {1} :
         work[i].does = "rename" /\ work[i].obj \in live /\ work[i].name = Last(path[work[i].obj])
  <2> SUFFICES ASSUME NEW i \in DOMAIN work \ {1} PROVE work[i].name = Last(path[work[i].obj])
    BY <1>5, <1>7
  <2>1. work[i] \in ToSet(work) /\ work[i].does = "rename"
    BY <1>5, <1>7
  <2>2. work # <<work[i]>>
    <3> DEFINE e == work[i]
    <3>1. ASSUME work = <<e>> PROVE DOMAIN work = {1}
      <4> HIDE DEF e
      <4> QED
        BY <3>1
    <3> QED
      BY <3>1
  <2> QED
    BY <2>1, <2>2 DEF FindInv, Visits, NamesGiven
<1>11. ASSUME NEW x \in Staying, x # o, path'[x] = path'[o]
       PROVE  Pending(x)'
  <2>1. path[x] = PathIn(container[o], n)
    BY <1>2, <1>11 DEF Staying
  <2> QED
    BY <1>2, <1>4, <1>11, <2>1
<1>12. NamesGiven'
  <2>1. ASSUME NEW j \in DOMAIN work' PROVE work'[j].name = Last(path'[work'[j].obj])
    <3>1. CASE j \in DOMAIN s
      BY <1>2, <1>6, <1>9, <3>1
    <3>2. CASE j \notin DOMAIN s
      <4>1. Old(j) \in DOMAIN work \ {1} /\ work'[j] = work[Old(j)]
        BY <1>6, <3>2
      <4> QED
        BY <1>3, <1>10, <4>1
    <3> QED
      BY <3>1, <3>2
  <2> QED
    BY <2>1 DEF NamesGiven, ToSet
<1>13. ASSUME NEW j \in DOMAIN work'
       PROVE  LET y == work'[j].obj
              IN  /\ \A x \in Staying \cap Siblings(container[y]) :
                       x # y /\ Last(path'[x]) = work'[j].name => Pending(x)'
                  /\ container[y] # None =>
                       \A x \in Staying : x # container[y] /\ path'[x] = path'[container[y]] =>
                         Pending(x)'
  <2>1. CASE j \in DOMAIN s
    <3>1. work'[j].obj = s[j] /\ container[s[j]] = o
      BY <1>6, <1>9, <2>1
    <3>2. \A x \in Siblings(o) : Pending(x)'
      BY <1>2, <1>5 DEF Siblings
    <3> QED
      BY <1>11, <3>1, <3>2
  <2>2. CASE j \notin DOMAIN s
    <3> DEFINE i == Old(j)
               y == work[i].obj
    <3>1. i \in DOMAIN work \ {1} /\ work'[j] = work[i] /\ work[i].does = "rename" /\ y \in live
      BY <1>6, <1>10, <2>2
    <3>2. /\ \A x \in Staying \cap Siblings(container[y]) :
               x # y /\ Last(path[x]) = work[i].name => Pending(x)
          /\ container[y] # None =>
               \A x \in Staying : x # container[y] /\ path[x] = path[container[y]] => Pending(x)
      BY <1>7, <3>1 DEF FindInv, Visits, Unvisited
    <3>3. /\ Level(y) <= Level(o)
          /\ container[o] = container[y] /\ o \in Staying => n # work[i].name
      BY <1>8, <3>1
    <3> HIDE DEF i, y
    <3>4. ASSUME NEW x \in Staying \cap Siblings(container[y]), x # y, Last(path'[x]) = work[i].name
          PROVE  Pending(x)'
      <4>1. CASE x = o
        BY <1>3, <3>3, <3>4, <4>1 DEF Siblings
      <4>2. CASE x # o
        BY <1>2, <3>2, <3>4, <4>2 DEF Staying
      <4> QED
        BY <4>1, <4>2
    <3>5. ASSUME container[y] # None, NEW x \in Staying, x # container[y],
                 path'[x] = path'[container[y]]
          PROVE  Pending(x)'
      <4>1. container[y] \in live /\ Level(y) = Len(path[container[y]]) + 1
        BY <1>1, <3>1, <3>5 DEF HomeInv, Homes, Level, y
      <4>2. CASE container[y] = o
        BY <1>11, <3>5, <4>2
      <4>3. CASE container[y] # o /\ x = o
        <5>1. path'[container[y]] = path[container[y]] /\ Len(path[container[y]]) \in Nat
          BY <1>2, <1>3, <4>1, <4>3
        <5>2. Len(path'[o]) = Len(path[container[y]]) /\ Len(path'[o]) = Level(o)
          BY <1>2, <1>3, <3>5, <4>3, <5>1
        <5> QED
          BY <3>3, <4>1, <5>1, <5>2
      <4>4. CASE container[y] # o /\ x # o
        <5>1. path[x] = path[container[y]]
          BY <1>2, <3>5, <4>1, <4>4 DEF Staying
        <5> QED
          BY <1>2, <3>2, <3>5, <4>4, <5>1
      <4> QED
        BY <4>2, <4>3, <4>4
    <3> QED
      BY <3>1, <3>4, <3>5 DEF i, y
  <2> QED
    BY <2>1, <2>2
<1>14. Unvisited'
  <2>1. ASSUME NEW d \in ToSet(work')
        PROVE  /\ \A x \in Staying \cap Siblings(container[d.obj]) :
                    x # d.obj /\ Last(path'[x]) = d.name => Pending(x)'
               /\ container[d.obj] # None =>
                    \A x \in Staying : x # container[d.obj] /\ path'[x] = path'[container[d.obj]] =>
                      Pending(x)'
    <3>1. PICK j \in DOMAIN work' : d = work'[j]
      BY DEF ToSet
    <3> QED
      BY <1>13, <3>1
  <2>2. \A c : Siblings(c)' = Siblings(c)
    BY <1>2 DEF Siblings
  <2> QED
    BY <1>2, <2>1, <2>2 DEF Unvisited
<1>15. ASSUME NEW j \in DOMAIN work', NEW k \in DOMAIN work', j < k
       PROVE  LET x == work'[j].obj
                  y == work'[k].obj
              IN  /\ x \in live /\ y \in live /\ Level(y) <= Level(x)
                  /\ container[x] = container[y] /\ x \in Staying => work'[j].name # work'[k].name
  <2>1. CASE j \in DOMAIN s /\ k \in DOMAIN s
    <3>1. /\ work'[j].obj = s[j] /\ work'[j].name = Last(path[s[j]])
          /\ work'[k].obj = s[k] /\ work'[k].name = Last(path[s[k]])
      BY <1>6, <2>1
    <3>2. /\ s[j] \in live /\ s[k] \in live /\ container[s[j]] = o /\ container[s[k]] = o
      BY <1>9, <2>1
    <3>3. Level(s[k]) = Level(s[j]) /\ Level(s[j]) \in Nat
      BY <1>3, <3>2 DEF Level
    <3>4. s[j] \in Staying => Last(path[s[j]]) # Last(path[s[k]])
      BY <1>2, <1>15, <2>1 DEF FindInv, Newcomers, s
    <3> QED
      BY <3>1, <3>2, <3>3, <3>4
  <2>2. CASE j \in DOMAIN s /\ k \notin DOMAIN s
    <3> DEFINE x == work'[j].obj
               y == work'[k].obj
    <3>1. x = s[j] /\ container[x] = o /\ x \in live
      BY <1>6, <1>9, <2>2
    <3>2. Old(k) \in DOMAIN work \ {1} /\ y = work[Old(k)].obj
      BY <1>6, <2>2
    <3>3. y \in live /\ Level(y) <= Level(o)
      BY <1>8, <1>10, <3>2
    <3> HIDE DEF x, y
    <3>4. Level(x) = Len(path[o]) + 1 /\ Len(path[o]) = Level(o) /\ Level(o) \in Nat
      BY <1>2, <1>3, <3>1 DEF Level
    <3>5. Level(y) \in Nat
      BY <1>3, <3>3
    <3>6. container[y] # o
      <4>1. ASSUME container[y] = o PROVE Level(y) = Len(path[o]) + 1
        BY <1>2, <4>1 DEF Level
      <4> QED
        BY <3>3, <3>4, <3>5, <4>1
    <3> QED
      BY <3>1, <3>3, <3>4, <3>5, <3>6 DEF x, y
  <2>3. CASE j \notin DOMAIN s /\ k \in DOMAIN s
    <3>1. j \in Nat /\ k \in Nat /\ k <= Len(s) /\ 1 <= k /\ ~(1 <= j /\ j <= Len(s))
      BY <1>6, <2>3
    <3>2. Old(j) >= 1
      BY <1>6, <1>7, <2>3
    <3> QED
      BY <1>6, <1>15, <3>1, <3>2 DEF Old
  <2>4. CASE j \notin DOMAIN s /\ k \notin DOMAIN s
    <3>1. /\ Old(j) \in DOMAIN work \ {1} /\ work'[j] = work[Old(j)]
          /\ Old(k) \in DOMAIN work \ {1} /\ work'[k] = work[Old(k)]
      BY <1>6, <2>4
    <3>2. Old(j) < Old(k)
      BY <1>6, <1>15 DEF Old
    <3> QED
      BY <1>10, <3>1, <3>2 DEF FindInv, Visits, CallOrder
  <2> QED
    BY <2>1, <2>2, <2>3, <2>4
<1>16. CallOrder'
  BY <1>2, <1>3, <1>15 DEF CallOrder
<1> QED
  BY <1>12, <1>14, <1>16 DEF Visits

LEMMA InitFindInv == Init => FindInv
<1> SUFFICES ASSUME Init PROVE FindInv
  OBVIOUS
<1>1. live = {} /\ work = <<>> /\ DOMAIN work = {}
  BY DEF Init
<1>2. ToSet(work) = {}
  BY <1>1 DEF ToSet
<1>3. Visits
  BY <1>1, <1>2 DEF Visits, NamesGiven, Unvisited, CallOrder
<1>4. Levels /\ StayingFound /\ Newcomers
  BY <1>1 DEF Levels, StayingFound, Newcomers, Staying
<1> QED
  BY <1>3, <1>4, InitTreeInv DEF FindInv

LEMMA StepFindInv == FindInv /\ TreeInv' /\ [Next]_vars => FindInv'
<1> SUFFICES ASSUME FindInv, TreeInv', [Next]_vars
             PROVE  (Levels /\ StayingFound /\ Newcomers /\ Visits)'
  BY DEF FindInv
<1>1. CASE UNCHANGED vars
  BY <1>1 DEF vars, FindInv, Levels, Level, StayingFound, Newcomers, Visits, NamesGiven,
              Unvisited, CallOrder, Staying, Bound, Leaving, Pending, Renaming, Inside, Holds,
              Found, Siblings
<1>2. CASE DoOneDeferredDelete
  BY <1>2, DequeueFind
<1>3. CASE MakeCall
  BY <1>3, RenameFound, RenameVisits, BeginDeleteFind, FinishFind DEF MakeCall
<1>4. CASE \E o \in Objects : Destroy(o)
  BY <1>4, DestroyFind
<1>5. CASE \E o \in Objects, n \in Names : BeginRename(o, n)
  BY <1>5, BeginRenameFind
<1>6. CASE \E o \in Objects, n \in Names, c \in Containers \cup {None} : Create(o, c, n)
  BY <1>6, CreateFind
<1> QED
  BY <1>1, <1>2, <1>3, <1>4, <1>5, <1>6 DEF Next

(* FindInv is an invariant of the name space, for any objects, containers, *)
(* names and depth.                                                        *)
THEOREM SpecFindInv == Spec => []FindInv
<1> QED
  BY InitFindInv, StepFindInv, SpecTreeInv, PTL DEF Spec

(* Between commands every object that is not on its way to be deleted is   *)
(* found by its path: also when it took the name of one that was queued,   *)
(* that one is deleted after, and containers around them are renamed in    *)
(* between.                                                                *)
THEOREM Finding == Spec => []AllFound
<1>1. ASSUME FindInv PROVE AllFound
  BY <1>1, IdleFound DEF AllFound, Settled, Staying
<1> QED
  BY <1>1, SpecFindInv, PTL

-----------------------------------------------------------------------------
(***************************************************************************)
(* What the other two tables list.  An object that stays and has its first *)
(* name, which was nobody's then, shares its path with none, so that its   *)
(* entries are not erased with another's.  What is erased is that of an    *)
(* existing object, because no object is deleted twice.                    *)
(***************************************************************************)

DeletedOnce ==
  /\ Leaving \subseteq live
  /\ \A o \in Leaving : container[o] \notin Inside(Leaving)
  /\ \A j, k \in DOMAIN work :
       work[j].does # "rename" /\ work[j].obj = work[k].obj => j = k

Original == Staying \ (renamed \cup heirs)

FirstNames ==
  \A o \in Original, z \in live : z # o /\ path[z] = path[o] => Pending(o)

Listed ==
  \A o \in Original :
    /\ container[o] = None => path[o] \in DOMAIN tops /\ tops[path[o]] = o
    /\ o \in Containers => path[o] \in DOMAIN containers /\ containers[path[o]] = o

EnumInv == FindInv /\ DeletedOnce /\ FirstNames /\ Listed

(* Two sequences, one after the other.                                     *)
LEMMA Joined ==
  ASSUME NEW S, NEW s \in Seq(S), NEW t \in Seq(S)
  PROVE  /\ DOMAIN (s \o t) = 1 .. Len(s) + Len(t)
         /\ \A j \in 1 .. Len(s) + Len(t) :
              (s \o t)[j] = IF j <= Len(s) THEN s[j] ELSE t[j - Len(s)]
OBVIOUS

(* The calls that delete the members of an object take the place of the    *)
(* one that deletes it, before the one that finishes it.                   *)
LEMMA DeleteWork ==
  ASSUME IInv, work # <<>>, BeginDelete(Head(work))
  PROVE  /\ \A j \in DOMAIN work' :
              \/ /\ j \in DOMAIN members[Head(work).obj]
                 /\ work'[j].obj = members[Head(work).obj][j]
              \/ /\ j \notin DOMAIN members[Head(work).obj]
                 /\ j - Len(members[Head(work).obj]) \in DOMAIN work
                 /\ work'[j].obj = work[j - Len(members[Head(work).obj])].obj
         /\ DOMAIN work' \subseteq Nat
         /\ Len(members[Head(work).obj]) \in Nat
<1> DEFINE o == Head(work).obj
           s == members[o]
           f == [k \in DOMAIN s |-> Call("delete", s[k])]
           g == <<Call("finish", o)>>
           t == Tail(work)
<1>1. o \in Objects /\ Head(work) \in CallSet /\ work \in Seq(CallSet)
  BY NextCall DEF IInv, NamesTypeOK
<1>2. s \in Seq(Objects)
  BY <1>1 DEF IInv, NamesTypeOK
<1>3. work' = f \o g \o t
  BY DEF BeginDelete
<1>4. /\ DOMAIN s = 1 .. Len(s) /\ Len(s) \in Nat
      /\ Len(t) = Len(work) - 1 /\ Len(work) \in Nat \ {0}
      /\ DOMAIN work = 1 .. Len(work) /\ work[1] = Head(work)
      /\ t \in Seq(CallSet) /\ \A k \in 1 .. Len(t) : t[k] = work[k + 1]
  BY <1>1, <1>2
<1>5. f \in Seq({f[k] : k \in DOMAIN s}) /\ Len(f) = Len(s)
  BY <1>4
<1>6. \A k \in DOMAIN s : f[k] = Call("delete", s[k])
  OBVIOUS
<1> DEFINE c == Call("finish", o)
<1>7. c.obj = o /\ \A x : Call("delete", x).obj = x
  BY DEF Call
<1>8. g = <<c>>
  OBVIOUS
<1> HIDE DEF f, g, t, s, c
<1>9. /\ DOMAIN work' = 1 .. Len(s) + 1 + Len(t)
      /\ \A j \in DOMAIN work' :
           work'[j] = IF j <= Len(s) THEN f[j] ELSE IF j = Len(s) + 1 THEN c
                      ELSE t[j - (Len(s) + 1)]
  <2> DEFINE F == {f[k] : k \in DOMAIN s} \cup {c} \cup CallSet
             u == f \o g
  <2>1. f \in Seq(F) /\ t \in Seq(F) /\ c \in F
    BY <1>4, <1>5
  <2> HIDE DEF F
  <2>2. /\ u \in Seq(F) /\ Len(u) = Len(f) + 1
        /\ \A j \in 1 .. Len(f) + 1 : u[j] = IF j <= Len(f) THEN f[j] ELSE c
    BY <1>8, <2>1
  <2>3. work' = u \o t
    BY <1>3
  <2> HIDE DEF u
  <2>4. /\ DOMAIN (u \o t) = 1 .. Len(u) + Len(t)
        /\ \A j \in 1 .. Len(u) + Len(t) :
             (u \o t)[j] = IF j <= Len(u) THEN u[j] ELSE t[j - Len(u)]
    BY <2>1, <2>2, Joined
  <2> QED
    BY <1>4, <1>5, <2>2, <2>3, <2>4
<1>10. ASSUME NEW j \in DOMAIN work', j <= Len(s)
       PROVE  j \in DOMAIN s /\ work'[j].obj = s[j]
  BY <1>4, <1>6, <1>7, <1>9, <1>10
<1>11. ASSUME NEW j \in DOMAIN work', ~(j <= Len(s))
       PROVE  j \notin DOMAIN s /\ j - Len(s) \in DOMAIN work /\ work'[j].obj = work[j - Len(s)].obj
  <2>1. CASE j = Len(s) + 1
    <3>1. j - Len(s) = 1 /\ work'[j] = c /\ 1 \in DOMAIN work /\ j \notin DOMAIN s
      BY <1>4, <1>9, <2>1
    <3> QED
      BY <1>4, <1>7, <3>1
  <2>2. CASE j # Len(s) + 1
    <3>1. j - (Len(s) + 1) \in 1 .. Len(t) /\ (j - (Len(s) + 1)) + 1 = j - Len(s)
      BY <1>4, <1>9, <1>11, <2>2
    <3>2. work'[j] = work[j - Len(s)] /\ j - Len(s) \in DOMAIN work /\ j \notin DOMAIN s
      BY <1>4, <1>9, <1>11, <2>2, <3>1
    <3> QED
      BY <3>2
  <2> QED
    BY <2>1, <2>2
<1>12. DOMAIN work' \subseteq Nat
  BY <1>4, <1>9
<1> QED
  BY <1>4, <1>10, <1>11, <1>12 DEF s

(* Nothing is deleted where there is no call to delete.                    *)
LEMMA NoneDeleted ==
  ASSUME \A d \in ToSet(work') : d.does = "rename"
  PROVE  DeletedOnce'
<1>1. Leaving' = {}
  BY DEF Leaving
<1>2. \A j \in DOMAIN work' : work'[j].does = "rename"
  BY DEF ToSet
<1> QED
  BY <1>1, <1>2 DEF DeletedOnce

(* The first call to delete: the container is not inside its member.       *)
LEMMA DequeueOnce ==
  ASSUME FindInv, DoOneDeferredDelete
  PROVE  DeletedOnce'
<1> USE NamespaceAssumption
<1> DEFINE h == Head(queue)
<1>1. HomeInv /\ IInv /\ QueueApart
  BY DEF FindInv, TreeInv, HomeInv
<1>2. /\ work = <<>> /\ work' = <<Call("delete", h)>> /\ queue # <<>>
      /\ UNCHANGED <<live, container, path>>
      /\ live \subseteq Objects /\ queue \in Seq(Objects)
  BY <1>1 DEF DoOneDeferredDelete, IInv, NamesTypeOK
<1>3. h \in live
  BY <1>1, <1>2, HeadAndTail DEF QueueApart
<1> HIDE DEF h
<1>4. ToSet(work') = {Call("delete", h)} /\ DOMAIN work' = {1}
  <2> DEFINE e == Call("delete", h)
  <2>1. work' = <<e>>
    BY <1>2
  <2> HIDE DEF e
  <2>2. DOMAIN work' = {1}
    BY <2>1
  <2> QED
    BY <1>2, <2>2, OneCall
<1>5. Leaving' = {h}
  <2>1. Call("delete", h).does # "rename" /\ Call("delete", h).obj = h
    BY DEF Call
  <2> QED
    BY <1>4, <2>1 DEF Leaving
<1>6. ASSUME container[h] \in Inside({h}) PROVE FALSE
  <2> DEFINE T == {x \in Objects : x \in live => Len(path[x]) >= Len(path[h])}
  <2>1. \A x \in live : Len(path[x]) = Level(x) /\ Len(path[x]) \in Nat
    <3>1. \A x \in live : path[x] \in Seq(Names)
      BY <1>1, <1>2 DEF IInv, NamesTypeOK
    <3>2. \A x \in live : Len(path[x]) \in Nat
      BY <3>1
    <3> QED
      BY <1>2, <3>2, IdleFound
  <2>2. \A x \in live : container[x] # None =>
          container[x] \in live /\ Len(path[x]) = Len(path[container[x]]) + 1
    BY <1>1, <2>1 DEF HomeInv, Homes, Level
  <2>3. Holds(T)
    <3> SUFFICES ASSUME NEW x \in live, container[x] \in T
                 PROVE  Len(path[x]) >= Len(path[h])
      BY <1>2 DEF Holds
    <3>1. container[x] # None
      OBVIOUS
    <3>2. container[x] \in live /\ Len(path[container[x]]) >= Len(path[h])
      BY <2>2, <3>1
    <3> QED
      BY <1>3, <2>1, <2>2, <3>1, <3>2
  <2>4. {h} \subseteq T /\ T \in SUBSET Objects
    BY <1>2, <1>3, <2>1
  <2>5. container[h] \in T
    BY <1>6, <2>3, <2>4 DEF Inside
  <2>6. container[h] # None
    BY <2>5
  <2> QED
    BY <1>3, <2>1, <2>2, <2>5, <2>6
<1>7. container'[h] \notin Inside(Leaving)'
  <2>1. \A T \in SUBSET Objects : Holds(T) => Holds(T)'
    BY <1>2 DEF Holds
  <2>2. Inside(Leaving)' \subseteq Inside({h})
    BY <1>5, <2>1 DEF Inside
  <2> QED
    BY <1>2, <1>6, <2>2
<1> QED
  BY <1>2, <1>3, <1>4, <1>5, <1>7 DEF DeletedOnce

LEMMA BeginDeleteOnce ==
  ASSUME FindInv, DeletedOnce, work # <<>>, BeginDelete(Head(work))
  PROVE  DeletedOnce'
<1> USE NamespaceAssumption
<1> DEFINE o == Head(work).obj
           s == members[o]
           Old(j) == j - Len(s)
<1>1. HomeInv /\ IInv
  BY DEF FindInv, TreeInv, HomeInv
<1>2. /\ container' = [m \in Objects |-> IF m \in ToSet(s) THEN None ELSE container[m]]
      /\ UNCHANGED <<live, members>>
      /\ live \subseteq Objects /\ work \in Seq(CallSet)
  BY <1>1 DEF BeginDelete, IInv, NamesTypeOK
<1>3. Leaving' = Leaving \cup ToSet(s)
  BY <1>1, BeginDeleteHome
<1>4. /\ Head(work).does = "delete" /\ Head(work) \in ToSet(work) /\ o \in Objects
      /\ \A d \in ToSet(work) : d.does # "rename"
  BY <1>1, DeleteCalls
<1>5. o \in Leaving /\ o \in live
  BY <1>4 DEF Leaving, DeletedOnce
<1>6. \A i, j \in DOMAIN work : work[i].obj = work[j].obj => i = j
  BY <1>4 DEF DeletedOnce, ToSet
<1>7. Call("finish", o) \notin ToSet(work)
  <2>1. Head(work) = work[1] /\ 1 \in DOMAIN work
    BY <1>2
  <2>2. \A i \in DOMAIN work : work[i].obj = o => work[i].does = "delete"
    BY <1>4, <1>6, <2>1
  <2>3. Call("finish", o).obj = o /\ Call("finish", o).does # "delete"
    BY DEF Call
  <2> QED
    BY <2>2, <2>3 DEF ToSet
<1>8. \A m \in ToSet(s) : m \in live /\ container[m] = o
  BY <1>1, <1>5, <1>7 DEF IInv, MembersExist
<1>9. Leaving \subseteq Objects /\ Leaving' \subseteq live
  BY <1>2, <1>3, <1>8 DEF DeletedOnce
<1> HIDE DEF o, s
<1>10. /\ Leaving \subseteq Inside(Leaving) /\ Holds(Inside(Leaving))
       /\ \A x \in Leaving : container[x] \notin Inside(Leaving)
  BY <1>2, <1>9, InsideIsLeast DEF DeletedOnce
<1>11. ASSUME NEW x \in Leaving' PROVE container'[x] \notin Inside(Leaving)'
  <2>1. ToSet(s) \subseteq Inside(Leaving)
    BY <1>5, <1>8, <1>10 DEF Holds
  <2>2. Leaving' \in SUBSET Objects /\ Leaving' \subseteq Inside(Leaving)
    BY <1>2, <1>3, <1>9, <1>10, <2>1
  <2>3. Inside(Leaving') \subseteq Inside(Leaving)
    BY <1>2, <1>9, <2>2, InsideGrows
  <2>4. \A S \in SUBSET Objects : Inside(S)' \subseteq Inside(S)
    BY <1>2, InsideShrinks
  <2>5. Inside(Leaving)' \subseteq Inside(Leaving')
    <3>1. \A T \in SUBSET Objects : Holds(T) => Holds(T)'
      BY <1>2 DEF Holds
    <3> QED
      BY <3>1 DEF Inside
  <2>6. CASE x \in ToSet(s)
    <3>1. container'[x] = None
      BY <1>2, <1>8, <2>6
    <3>2. None \notin Inside(Leaving)'
      BY DEF Inside
    <3> QED
      BY <3>1, <3>2
  <2>7. CASE x \notin ToSet(s)
    <3>1. x \in Leaving /\ container'[x] = container[x]
      BY <1>2, <1>3, <1>9, <1>11, <2>7
    <3> QED
      BY <1>10, <2>3, <2>5, <3>1
  <2> QED
    BY <2>6, <2>7
<1>12. /\ \A j \in DOMAIN work' :
            \/ j \in DOMAIN s /\ work'[j].obj = s[j]
            \/ j \notin DOMAIN s /\ Old(j) \in DOMAIN work /\ work'[j].obj = work[Old(j)].obj
       /\ DOMAIN work' \subseteq Nat /\ Len(s) \in Nat
  BY <1>1, DeleteWork DEF s, o
<1>13. ASSUME NEW i \in DOMAIN work PROVE work[i].obj \notin ToSet(s)
  <2>1. work[i].obj \in Leaving
    BY <1>4 DEF Leaving, ToSet
  <2>2. o \in Inside(Leaving)
    BY <1>5, <1>10
  <2> QED
    BY <1>8, <1>10, <2>1, <2>2
<1>14. ASSUME NEW j \in DOMAIN work', NEW k \in DOMAIN work', work'[j].obj = work'[k].obj
       PROVE  j = k
  <2>1. CASE j \in DOMAIN s /\ k \in DOMAIN s
    BY <1>1, <1>4, <1>12, <1>14, <2>1 DEF IInv, ListsOK, IsInjective, s, o
  <2>2. CASE j \in DOMAIN s /\ k \notin DOMAIN s
    BY <1>12, <1>13, <1>14, <2>2 DEF ToSet
  <2>3. CASE j \notin DOMAIN s /\ k \in DOMAIN s
    BY <1>12, <1>13, <1>14, <2>3 DEF ToSet
  <2>4. CASE j \notin DOMAIN s /\ k \notin DOMAIN s
    <3>1. Old(j) = Old(k)
      BY <1>6, <1>12, <1>14, <2>4
    <3>2. j \in Nat /\ k \in Nat /\ Len(s) \in Nat
      BY <1>12
    <3> QED
      BY <3>1, <3>2
  <2> QED
    BY <2>1, <2>2, <2>3, <2>4
<1> QED
  BY <1>2, <1>9, <1>11, <1>14 DEF DeletedOnce

LEMMA FinishOnce ==
  ASSUME FindInv, DeletedOnce, work # <<>>, Finish(Head(work))
  PROVE  DeletedOnce' /\ Head(work).obj \in live
<1> USE NamespaceAssumption
<1> DEFINE o == Head(work).obj
           t == Tail(work)
<1>1. HomeInv /\ IInv
  BY DEF FindInv, TreeInv, HomeInv
<1>2. /\ Head(work).does = "finish" /\ work \in Seq(CallSet)
      /\ \A d \in ToSet(work) : d.does # "rename"
      /\ live \subseteq Objects /\ live' = live \ {o} /\ work' = t /\ container' = container
  BY <1>1, NextCall DEF Finish, IInv, NamesTypeOK
<1>3. o \in Leaving /\ Leaving' \subseteq Leaving
  BY <1>1, FinishHome
<1>4. /\ Head(work) = work[1] /\ 1 \in DOMAIN work /\ DOMAIN t \subseteq Nat
      /\ \A k \in DOMAIN t : k + 1 \in DOMAIN work /\ t[k] = work[k + 1] /\ k + 1 # 1
  BY <1>2
<1>5. \A i, j \in DOMAIN work : work[i].obj = work[j].obj => i = j
  BY <1>2 DEF DeletedOnce, ToSet
<1> HIDE DEF t
<1>6. \A j, k \in DOMAIN t : t[j].obj = t[k].obj => j = k
  <2> SUFFICES ASSUME NEW j \in DOMAIN t, NEW k \in DOMAIN t, t[j].obj = t[k].obj
               PROVE  j = k
    OBVIOUS
  <2>1. j + 1 = k + 1
    BY <1>4, <1>5
  <2> QED
    BY <1>4, <2>1
<1>7. o \notin Leaving'
  <2>1. \A k \in DOMAIN t : t[k].obj # o
    BY <1>4, <1>5
  <2> QED
    BY <1>2, <2>1 DEF Leaving, ToSet
<1> HIDE DEF o
<1>8. Leaving' \subseteq live' /\ o \in live
  BY <1>2, <1>3, <1>7 DEF DeletedOnce
<1>9. \A x \in Leaving' : container'[x] \notin Inside(Leaving)'
  <2>1. Leaving \in SUBSET Objects
    BY <1>2 DEF DeletedOnce
  <2>2. Inside(Leaving)' \subseteq Inside(Leaving)
    <3>1. \A T \in SUBSET Objects : Holds(T) => Holds(T)'
      BY <1>2 DEF Holds
    <3>2. \A T : Leaving \subseteq T => Leaving' \subseteq T
      BY <1>3
    <3> QED
      BY <3>1, <3>2 DEF Inside
  <2> QED
    BY <1>2, <1>3, <2>2 DEF DeletedOnce
<1> QED
  BY <1>2, <1>6, <1>8, <1>9 DEF DeletedOnce, o

(* Where nothing is renamed and fewer stay, first names stay unshared.     *)
LEMMA NamesKept ==
  ASSUME FindInv, FirstNames, \A d \in ToSet(work) : d.does # "rename",
         live' \subseteq live, Staying' \subseteq Staying, UNCHANGED <<path, renamed, heirs>>
  PROVE  FirstNames' /\ \A o \in Original, z \in live : z # o => path[z] # path[o]
<1>1. \A o : ~Pending(o)
  BY NonePending DEF FindInv, TreeInv, HomeInv, IInv, NamesTypeOK
<1>2. \A o \in Original, z \in live : z # o => path[z] # path[o]
  BY <1>1 DEF FirstNames
<1>3. Original' \subseteq Original
  BY DEF Original
<1> QED
  BY <1>2, <1>3 DEF FirstNames

(* Where no entry changes, those who stay keep theirs.                     *)
LEMMA ListingKept ==
  ASSUME Listed, Staying' \subseteq Staying,
         UNCHANGED <<path, tops, containers, renamed, heirs>>,
         \A o \in Staying' : container'[o] = None => container[o] = None
  PROVE  Listed'
<1>1. Original' \subseteq Original /\ Original' \subseteq Staying'
  BY DEF Original
<1> QED
  BY <1>1 DEF Listed

LEMMA CreateEnum ==
  ASSUME EnumInv, NEW o \in Objects, NEW c \in Containers \cup {None}, NEW n \in Names,
         Create(o, c, n)
  PROVE  (DeletedOnce /\ FirstNames /\ Listed)'
<1>1. /\ FindInv /\ work = <<>> /\ work' = <<>> /\ UNCHANGED renamed
      /\ heirs' = IF \E s \in live : path[s] = path'[o] THEN heirs \cup {o} ELSE heirs
      /\ tops' = IF c = None THEN Put(tops, path'[o], o) ELSE tops
      /\ containers' = IF o \in Containers THEN Put(containers, path'[o], o) ELSE containers
  BY DEF Create, EnumInv
<1>2. /\ Bound \subseteq Bound'
      /\ \A x \in live : x # o /\ path'[x] = path[x] /\ container'[x] = container[x]
      /\ live' = live \cup {o}
      /\ path'[o] = PathIn(c, n) /\ container'[o] = c
      /\ \A x \in Staying : path[x] # PathIn(c, n)
  BY <1>1, CreateFree
<1>3. ToSet(work) = {} /\ \A x : ~Pending(x)
  <2>1. ToSet(work) = {}
    BY <1>1, IdleCalls
  <2> QED
    BY <1>1, <2>1, NonePending DEF FindInv, TreeInv, HomeInv, IInv, NamesTypeOK
<1>4. DeletedOnce'
  <2>1. ToSet(work') = {}
    BY <1>1, <1>3
  <2> QED
    BY <2>1, NoneDeleted
<1>5. ASSUME NEW x \in Original', x # o
      PROVE  x \in Original /\ x \in live /\ path'[x] = path[x] /\ path[x] # path'[o]
  <2>1. x \in live /\ x \in Staying
    BY <1>2, <1>5 DEF Original, Staying
  <2>2. x \in Original
    BY <1>1, <1>5, <2>1 DEF Original
  <2> QED
    BY <1>2, <2>1, <2>2
<1>6. FirstNames'
  <2> SUFFICES ASSUME NEW x \in Original', NEW z \in live', z # x, path'[z] = path'[x]
               PROVE  FALSE
    BY DEF FirstNames
  <2>1. CASE x = o
    <3>1. z \in live /\ path[z] = path'[o]
      BY <1>2, <2>1
    <3>2. o \in heirs'
      BY <1>1, <3>1
    <3> QED
      BY <2>1, <3>2 DEF Original
  <2>2. CASE x # o
    <3>1. z # o
      BY <1>5, <2>2
    <3>2. z \in live /\ path[z] = path[x] /\ x \in Original
      BY <1>2, <1>5, <2>2, <3>1
    <3> QED
      BY <1>3, <3>2 DEF EnumInv, FirstNames
  <2> QED
    BY <2>1, <2>2
<1>7. ASSUME NEW x \in Original'
      PROVE  /\ container'[x] = None => path'[x] \in DOMAIN tops' /\ tops'[path'[x]] = x
             /\ x \in Containers =>
                  path'[x] \in DOMAIN containers' /\ containers'[path'[x]] = x
  <2>1. CASE x = o
    BY <1>1, <1>2, <2>1 DEF Put
  <2>2. CASE x # o
    <3>1. x \in Original /\ x \in live /\ path'[x] = path[x] /\ path[x] # path'[o]
      BY <1>5, <2>2
    <3>2. container'[x] = container[x]
      BY <1>2, <3>1
    <3>3. /\ container[x] = None => path[x] \in DOMAIN tops /\ tops[path[x]] = x
          /\ x \in Containers => path[x] \in DOMAIN containers /\ containers[path[x]] = x
      BY <3>1 DEF EnumInv, Listed
    <3>4. container'[x] = None => path'[x] \in DOMAIN tops' /\ tops'[path'[x]] = x
      BY <1>1, <3>1, <3>2, <3>3 DEF Put
    <3>5. x \in Containers => path'[x] \in DOMAIN containers' /\ containers'[path'[x]] = x
      BY <1>1, <3>1, <3>3 DEF Put
    <3> QED
      BY <3>4, <3>5
  <2> QED
    BY <2>1, <2>2
<1>8. Listed'
  BY <1>7 DEF Listed
<1> QED
  BY <1>4, <1>6, <1>8

(* Who is renamed has no first name any more; who is still to be has not   *)
(* either, as soon as it is.                                               *)
LEMMA RenameEnum ==
  ASSUME EnumInv, work # <<>>, Rename(Head(work))
  PROVE  (DeletedOnce /\ FirstNames /\ Listed)'
<1> DEFINE o == Head(work).obj
<1>1. FindInv /\ IInv /\ UNCHANGED <<tops, containers, heirs>> /\ renamed' = renamed \cup {o}
  BY DEF Rename, EnumInv, FindInv, TreeInv, HomeInv
<1>2. /\ live \subseteq Objects /\ live' = live /\ container' = container /\ Staying' = Staying
      /\ path'[o] = PathIn(container[o], Head(work).name)
      /\ \A x \in Objects : x # o => path'[x] = path[x]
      /\ \A x : Pending(x) => x = o \/ Pending(x)'
  BY <1>1, RenameStays
<1>3. \A x \in Staying : x # o /\ path[x] = PathIn(container[o], Head(work).name) => Pending(x)
  BY <1>1, RenameFree
<1>4. DeletedOnce'
  <2>1. /\ \A e \in ToSet(work) : e.does = "rename"
        /\ ToSet(work) = {Head(work)} \cup ToSet(Tail(work))
        /\ \A e \in ToSet(work') : e \in ToSet(Tail(work)) \/ e.does = "rename"
    BY <1>1, RenameCalls, NextCall
  <2> QED
    BY <2>1, NoneDeleted
<1> HIDE DEF o
<1>5. ASSUME NEW x \in Original'
      PROVE  x \in Original /\ x \in Staying /\ x \in live /\ x # o /\ path'[x] = path[x]
  BY <1>1, <1>2, <1>5 DEF Original, Staying
<1>6. FirstNames'
  <2> SUFFICES ASSUME NEW x \in Original', NEW z \in live', z # x, path'[z] = path'[x]
               PROVE  Pending(x)'
    BY DEF FirstNames
  <2>1. x \in Original /\ x \in Staying /\ x # o /\ path'[x] = path[x]
    BY <1>5
  <2>2. CASE z = o
    BY <1>2, <1>3, <2>1, <2>2
  <2>3. CASE z # o
    <3>1. z \in live /\ path[z] = path[x]
      BY <1>2, <2>1, <2>3
    <3> QED
      BY <1>2, <2>1, <3>1 DEF EnumInv, FirstNames
  <2> QED
    BY <2>2, <2>3
<1>7. Listed'
  BY <1>1, <1>2, <1>5 DEF EnumInv, Listed
<1> QED
  BY <1>4, <1>6, <1>7

LEMMA DeleteEnum ==
  ASSUME EnumInv, work # <<>>, BeginDelete(Head(work))
  PROVE  (DeletedOnce /\ FirstNames /\ Listed)'
<1> DEFINE o == Head(work).obj
<1>1. /\ FindInv /\ IInv /\ HomeInv /\ live \subseteq Objects
      /\ container' = [m \in Objects |-> IF m \in ToSet(members[o]) THEN None ELSE container[m]]
      /\ UNCHANGED <<live, path, tops, containers, renamed, heirs>>
  BY DEF BeginDelete, EnumInv, FindInv, TreeInv, HomeInv, IInv, NamesTypeOK
<1>2. Staying' \subseteq Staying
  BY <1>1, BeginDeleteFind
<1>3. FirstNames'
  BY <1>1, <1>2, DeleteCalls, NamesKept DEF EnumInv
<1>4. ToSet(members[o]) \subseteq Leaving'
  BY <1>1, BeginDeleteHome
<1> HIDE DEF o
<1>5. ASSUME NEW x \in Staying', container'[x] = None PROVE container[x] = None
  <2>1. x \in Objects /\ x \notin Bound'
    BY <1>1 DEF Staying
  <2>2. x \notin Leaving'
    BY <2>1 DEF Bound, Inside
  <2> QED
    BY <1>1, <1>4, <1>5, <2>1, <2>2
<1>6. Listed'
  BY <1>1, <1>2, <1>5, ListingKept DEF EnumInv
<1> QED
  BY <1>1, <1>3, <1>6, BeginDeleteOnce DEF EnumInv

(* The entries erased are those of the object deleted: it exists, so none  *)
(* with its first name that stays has the same path.                       *)
LEMMA FinishEnum ==
  ASSUME EnumInv, work # <<>>, Finish(Head(work))
  PROVE  (DeletedOnce /\ FirstNames /\ Listed)'
<1> DEFINE o == Head(work).obj
<1>1. /\ FindInv /\ IInv
      /\ containers' = UnregisterContainer(o)
      /\ tops' = IF container[o] = None THEN Erase(tops, path[o]) ELSE tops
      /\ live' = live \ {o} /\ UNCHANGED <<container, path, renamed, heirs>>
  BY DEF Finish, EnumInv, FindInv, TreeInv, HomeInv
<1>2. Staying' \subseteq Staying
  BY <1>1, FinishFind
<1>3. \A d \in ToSet(work) : d.does # "rename"
  BY <1>1, NextCall DEF Finish
<1>4. FirstNames' /\ \A x \in Original, z \in live : z # x => path[z] # path[x]
  BY <1>1, <1>2, <1>3, NamesKept DEF EnumInv
<1>5. DeletedOnce' /\ o \in live
  BY <1>1, FinishOnce DEF EnumInv
<1> HIDE DEF o
<1>6. ASSUME NEW x \in Original' PROVE x \in Original /\ path[x] # path[o]
  <2>1. x \in Original /\ x # o
    BY <1>1, <1>2 DEF Original, Staying
  <2> QED
    BY <1>4, <1>5, <2>1
<1>7. Listed'
  BY <1>1, <1>6 DEF EnumInv, Listed, UnregisterContainer, Erase
<1> QED
  BY <1>4, <1>5, <1>7

(* Commands that only make a call or queue an object.                      *)
LEMMA CommandEnum ==
  ASSUME EnumInv, work = <<>>, Staying' \subseteq Staying, DeletedOnce',
         UNCHANGED <<live, container, path, tops, containers, renamed, heirs>>
  PROVE  (DeletedOnce /\ FirstNames /\ Listed)'
<1>1. \A d \in ToSet(work) : d.does # "rename"
  BY IdleCalls
<1>2. FirstNames'
  BY <1>1, NamesKept DEF EnumInv
<1>3. Listed'
  BY ListingKept DEF EnumInv
<1> QED
  BY <1>2, <1>3

LEMMA InitEnumInv == Init => EnumInv
<1> SUFFICES ASSUME Init PROVE EnumInv
  OBVIOUS
<1>1. live = {} /\ work = <<>> /\ DOMAIN work = {}
  BY DEF Init
<1>2. Leaving = {}
  BY <1>1, IdleCalls
<1>3. DeletedOnce /\ FirstNames /\ Listed
  BY <1>1, <1>2 DEF DeletedOnce, FirstNames, Listed, Original, Staying
<1> QED
  BY <1>3, InitFindInv DEF EnumInv

LEMMA StepEnumInv == EnumInv /\ FindInv' /\ [Next]_vars => EnumInv'
<1> SUFFICES ASSUME EnumInv, FindInv', [Next]_vars
             PROVE  (DeletedOnce /\ FirstNames /\ Listed)'
  BY DEF EnumInv
<1>0. FindInv
  BY DEF EnumInv
<1>1. CASE UNCHANGED vars
  BY <1>1 DEF vars, EnumInv, DeletedOnce, FirstNames, Listed, Original, Staying, Bound, Leaving,
              Pending, Renaming, Inside, Holds
<1>2. CASE DoOneDeferredDelete
  BY <1>0, <1>2, DequeueFind, DequeueOnce, CommandEnum DEF DoOneDeferredDelete
<1>3. CASE MakeCall
  BY <1>3, RenameEnum, DeleteEnum, FinishEnum DEF MakeCall
<1>4. ASSUME NEW o \in Objects, Destroy(o)
      PROVE  (DeletedOnce /\ FirstNames /\ Listed)'
  <2>1. work = <<>> /\ work' = <<>> /\ ToSet(work') = {}
    BY <1>4, IdleCalls DEF Destroy
  <2>2. DeletedOnce'
    BY <2>1, NoneDeleted
  <2> QED
    BY <1>0, <1>4, <2>1, <2>2, DestroyFind, CommandEnum DEF Destroy
<1>5. ASSUME NEW o \in Objects, NEW n \in Names, BeginRename(o, n)
      PROVE  (DeletedOnce /\ FirstNames /\ Listed)'
  <2>1. work = <<>> /\ work' = <<ToRename(o, n)>>
    BY <1>5 DEF BeginRename
  <2>2. ToSet(work') = {ToRename(o, n)} /\ ToRename(o, n).does = "rename"
    BY <2>1, OneCall DEF ToRename
  <2>3. DeletedOnce'
    BY <2>2, NoneDeleted
  <2> QED
    BY <1>0, <1>5, <2>1, <2>3, BeginRenameFind, CommandEnum DEF BeginRename
<1>6. CASE \E o \in Objects, n \in Names, c \in Containers \cup {None} : Create(o, c, n)
  BY <1>6, CreateEnum
<1> QED
  BY <1>1, <1>2, <1>3, <1>4, <1>5, <1>6 DEF Next

(* EnumInv is an invariant of the name space, for any objects, containers, *)
(* names and depth.                                                        *)
THEOREM SpecEnumInv == Spec => []EnumInv
<1> QED
  BY InitEnumInv, StepEnumInv, SpecFindInv, PTL DEF Spec

(* Between commands the tables the clients enumerate hold no ghosts, and   *)
(* they list every object that keeps its first name and did not take it    *)
(* from another.                                                           *)
THEOREM Enumerating == Spec => []Enumerated
<1>1. ASSUME EnumInv, NoGhosts, Settled PROVE Enumerated
  <2>1. Bound = Doomed
    BY <1>1, IdleFound DEF EnumInv, Settled
  <2>2. live \ (renamed \cup heirs \cup Doomed) \subseteq Original
    BY <2>1 DEF Original, Staying
  <2> QED
    BY <1>1, <2>2 DEF EnumInv, Listed, Enumerated
<1>2. ASSUME EnumInv, NoGhosts PROVE Enumerated
  BY <1>1, <1>2 DEF Enumerated
<1> QED
  BY <1>2, SpecEnumInv, Ghosts, PTL
=============================================================================
