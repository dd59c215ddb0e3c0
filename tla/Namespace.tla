----------------------------- MODULE Namespace -----------------------------
(***************************************************************************)
(* The hierarchical name space (Nameable in generic/oswNameable.cpp,       *)
(* Container in generic/oswContainer.cpp): the table from path names to    *)
(* objects, the tables of containers and of top-level objects, and the     *)
(* commands that create, rename and destroy objects by path.               *)
(*                                                                         *)
(* The code keeps every fact twice: an object knows its path and its       *)
(* container, the container its members, and the tables point back.        *)
(* Renaming and deleting are recursive; "work" is the stack of the calls   *)
(* still to be made, each step makes one.  One task thread does it all, so *)
(* no command runs until the stack is empty.                               *)
(***************************************************************************)
EXTENDS Naturals, Sequences, SequencesExt

CONSTANTS
  Objects, Containers,  \* all objects, created once each, and the containers
  Names,
  None,
  MaxDepth              \* bound on the length of a path

ASSUME NamespaceAssumption ==
  Containers \subseteq Objects /\ None \notin Objects /\ MaxDepth \in Nat \ {0}

VARIABLES
  live,        \* objects that exist
  made,        \* those that were created
  container,   \* xcontainer
  path,        \* xpath as the names on it; xname is the last of them
  members,     \* members of a container, in order of creation
  table,       \* xtable: path -> object
  containers,  \* xcontainer_table: path -> container
  tops,        \* xtoplevel_table: path -> object without a container
  queue,       \* deleteQueue
  work,        \* calls to make, innermost first
  renamed,     \* history: objects whose path was changed
  heirs        \* history: objects that took the name of one that existed

vars == <<live, made, container, path, members, table, containers, tops,
          queue, work, renamed, heirs>>

Init ==
  /\ live = {} /\ made = {}
  /\ container = [o \in Objects |-> None]
  /\ path = [o \in Objects |-> <<>>]
  /\ members = [o \in Objects |-> <<>>]
  /\ table = <<>> /\ containers = <<>> /\ tops = <<>>
  /\ queue = <<>> /\ work = <<>>
  /\ renamed = {} /\ heirs = {}

-----------------------------------------------------------------------------
(* hash_map's operator[] and erase.                                        *)
Put(t, p, o) == [q \in DOMAIN t \cup {p} |-> IF q = p THEN o ELSE t[q]]
Erase(t, p) == [q \in DOMAIN t \ {p} |-> t[q]]

(* Mutant: the entry of a name goes whoever has it.                        *)
UnregisterAnyone(p, o) == Erase(table, p)

(* Mutant: ~Nameable does not unregister.                                  *)
UnregisterNone(p, o) == table

(* The table without o at p; another object at p stays.                    *)
Unregister(p, o) ==
  IF p \in DOMAIN table /\ table[p] = o THEN Erase(table, p) ELSE table

(* Mutant: ~Container does not unregister.                                 *)
KeepContainer(o) == containers

UnregisterContainer(o) ==
  IF o \in Containers THEN Erase(containers, path[o]) ELSE containers

(* Mutant: ~Nameable leaves the list of its container as it is.            *)
RemoveNothing(c, o) == members

(* An object is in the list of its container once.                         *)
RemoveNameable(c, o) ==
  IF c # None /\ o \in ToSet(members[c])
  THEN [members EXCEPT ![c] = RemoveAt(@, CHOOSE k \in DOMAIN @ : @[k] = o)]
  ELSE members

Call(does, o) == [does |-> does, obj |-> o]
ToRename(o, n) == [does |-> "rename", obj |-> o, name |-> n]
PathIn(c, n) == IF c = None THEN <<n>> ELSE Append(path[c], n)
Found(o) == path[o] \in DOMAIN table /\ table[path[o]] = o

Siblings(c) == {o \in live : container[o] = c}

(* A set of objects with all that is inside them.                          *)
Holds(T) == \A o \in live : container[o] \in T => o \in T

(* The objects of S and all that is inside them, at any depth.             *)
Inside(S) == {o \in Objects :
                \A T \in SUBSET Objects : S \subseteq T /\ Holds(T) => o \in T}

(* Objects in the delete queue, and objects inside them.                   *)
Doomed == Inside(ToSet(queue))

(* The constructors of Nameable and Container.  The editor takes a name no *)
(* sibling has, or that of a sibling it has just queued for deletion.      *)
Create(o, c, n) ==
  /\ work = <<>>
  /\ o \notin made
  /\ c = None \/ (c \in Containers \cap (live \ Doomed) /\ Found(c))
  /\ \A s \in Siblings(c) \ Doomed : path[s] # PathIn(c, n)
  /\ Len(PathIn(c, n)) <= MaxDepth
  /\ made' = made \cup {o}
  /\ live' = live \cup {o}
  /\ container' = [container EXCEPT ![o] = c]
  /\ path' = [path EXCEPT ![o] = PathIn(c, n)]
  /\ table' = Put(table, path'[o], o)
  /\ members' = IF c = None THEN members
                ELSE [members EXCEPT ![c] = Append(@, o)]
  /\ tops' = IF c = None THEN Put(tops, path'[o], o) ELSE tops
  /\ containers' = IF o \in Containers THEN Put(containers, path'[o], o)
                   ELSE containers
  /\ heirs' = IF \E s \in live : path[s] = path'[o] THEN heirs \cup {o} ELSE heirs
  /\ UNCHANGED <<queue, work, renamed>>

(* Rename names an object by its path.  Its new name is free, also of the  *)
(* objects queued for deletion, and it is not itself on the way out.       *)
BeginRename(o, n) ==
  /\ work = <<>>
  /\ o \in live \ Doomed
  /\ Found(o)
  /\ \A s \in Siblings(container[o]) : path[s] # PathIn(container[o], n)
  /\ work' = <<ToRename(o, n)>>
  /\ UNCHANGED <<live, made, container, path, members, table, containers,
                 tops, queue, renamed, heirs>>

(* Mutant: Rename is not a member of Container, only of Nameable.          *)
RenameAlone(c) ==
  /\ c.does = "rename"
  /\ LET o == c.obj
     IN  /\ path' = [path EXCEPT ![o] = PathIn(container[o], c.name)]
         /\ table' = Put(Unregister(path[o], o), path'[o], o)
         /\ work' = Tail(work)
         /\ renamed' = renamed \cup {o}
  /\ UNCHANGED <<live, made, container, members, containers, tops, queue, heirs>>

(* Nameable::Rename, and Container::Rename for each member under its name. *)
(* The tables of containers and of top-level objects keep the old path.    *)
Rename(c) ==
  /\ c.does = "rename"
  /\ LET o == c.obj
     IN  /\ path' = [path EXCEPT ![o] = PathIn(container[o], c.name)]
         /\ table' = Put(Unregister(path[o], o), path'[o], o)
         /\ work' = [k \in DOMAIN members[o] |->
                       ToRename(members[o][k], Last(path[members[o][k]]))]
                      \o Tail(work)
         /\ renamed' = renamed \cup {o}
  /\ UNCHANGED <<live, made, container, members, containers, tops, queue, heirs>>

(* Destroy names an object by its path.  Nothing is destroyed twice, nor   *)
(* together with its container: that would leave a dangling pointer in the *)
(* queue.                                                                  *)
Destroy(o) ==
  /\ work = <<>>
  /\ o \in live \ Doomed
  /\ Found(o)
  /\ Inside({o}) \cap Doomed = {}
  /\ queue' = Append(queue, o)
  /\ UNCHANGED <<live, made, container, path, members, table, containers,
                 tops, work, renamed, heirs>>

(* An idle turn deletes the first object of the queue.                     *)
DoOneDeferredDelete ==
  /\ work = <<>>
  /\ queue # <<>>
  /\ work' = <<Call("delete", Head(queue))>>
  /\ queue' = Tail(queue)
  /\ UNCHANGED <<live, made, container, path, members, table, containers,
                 tops, renamed, heirs>>

(* ~Container begins: it deletes its members, which no longer know it.     *)
BeginDelete(c) ==
  /\ c.does = "delete"
  /\ container' = [m \in Objects |->
                     IF m \in ToSet(members[c.obj]) THEN None ELSE container[m]]
  /\ work' = [k \in DOMAIN members[c.obj] |-> Call("delete", members[c.obj][k])]
               \o <<Call("finish", c.obj)>> \o Tail(work)
  /\ UNCHANGED <<live, made, path, members, table, containers, tops, queue,
                 renamed, heirs>>

(* ~Container ends and ~Nameable runs.  Only xtable is asked whose entry   *)
(* it is before the entry is erased.                                       *)
Finish(c) ==
  /\ c.does = "finish"
  /\ LET o == c.obj
     IN  /\ containers' = UnregisterContainer(o)
         /\ table' = Unregister(path[o], o)
         /\ members' = RemoveNameable(container[o], o)
         /\ tops' = IF container[o] = None THEN Erase(tops, path[o]) ELSE tops
         /\ live' = live \ {o}
  /\ work' = Tail(work)
  /\ UNCHANGED <<made, container, path, queue, renamed, heirs>>

(* The next call is made.                                                  *)
MakeCall ==
  /\ work # <<>>
  /\ LET c == Head(work) IN Rename(c) \/ BeginDelete(c) \/ Finish(c)

Next ==
  \/ \E o \in Objects, n \in Names :
       BeginRename(o, n) \/ \E c \in Containers \cup {None} : Create(o, c, n)
  \/ \E o \in Objects : Destroy(o)
  \/ DoOneDeferredDelete \/ MakeCall

Spec == Init /\ [][Next]_vars

-----------------------------------------------------------------------------
Settled == work = <<>>

(* Every variable has its type; between commands containers and members    *)
(* know each other, and the queue holds objects that exist, each once.     *)
TreeOK ==
  /\ live \subseteq made /\ made \subseteq Objects
  /\ \A p \in DOMAIN table : table[p] \in Objects
  /\ Settled =>
       /\ \A o \in live, c \in live : o \in ToSet(members[c]) <=> container[o] = c
       /\ \A c \in live : ToSet(members[c]) \subseteq live /\ IsInjective(members[c])
       /\ ToSet(queue) \subseteq live /\ IsInjective(queue)

(* What Find returns exists and has the path it was found by, at every     *)
(* moment of a renaming or a deletion.                                     *)
TableSound == \A p \in DOMAIN table : table[p] \in live /\ path[table[p]] = p

(* Every object that is not on its way to be deleted is found by its path, *)
(* even when it took the name of one that was queued, when that one is     *)
(* deleted after, and when their container is renamed in between: the      *)
(* newcomer is later in the list of members and so is the last to be       *)
(* entered under the new path.                                             *)
AllFound == Settled => \A o \in live \ Doomed : Found(o)

(* A path leads through the paths of the containers: renaming a container  *)
(* renames everything inside.                                              *)
PathsNest ==
  Settled => \A o \in live : path[o] = PathIn(container[o], Last(path[o]))

(* The tables of containers and of top-level objects hold no object that   *)
(* is gone, unless it was renamed: a renamed object leaves its old entry   *)
(* behind, for good.                                                       *)
NoGhosts ==
  \A t \in {tops, containers} : \A p \in DOMAIN t : t[p] \in live \cup renamed

(* The clients enumerate these tables: they hold no ghosts, and they list  *)
(* every object that keeps its first name and did not take it from         *)
(* another, whose deletion takes the newcomer off the list.                *)
Enumerated ==
  Settled =>
    /\ NoGhosts
    /\ \A o \in live \ (renamed \cup heirs \cup Doomed) :
         /\ container[o] = None => path[o] \in DOMAIN tops /\ tops[path[o]] = o
         /\ o \in Containers =>
              path[o] \in DOMAIN containers /\ containers[path[o]] = o
=============================================================================
