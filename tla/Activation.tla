----------------------------- MODULE Activation ----------------------------
(***************************************************************************)
(* Activations and the states that trigger them (generic/oswActivation.cpp *)
(* and the registration part of generic/oswState.cpp).                     *)
(*                                                                         *)
(* An activation has a vector of slots, one per activator.  A slot whose   *)
(* mark equals the flag "on" has arrived; "count" is the number still      *)
(* awaited; at zero the flag flips, which clears all marks at once, and    *)
(* the activation is run or scheduled.  A state keeps the list of the      *)
(* activations it triggers, by ascending order.                            *)
(*                                                                         *)
(* SetActivation runs without a lock in whatever thread assigns the state, *)
(* so its accesses to the marks and the count are steps of their own.      *)
(* The handlers that edit the registrations are atomic and run when no     *)
(* assignment is in progress: the configuration with one thread.           *)
(***************************************************************************)
EXTENDS Integers, Sequences, FiniteSets, SequencesExt

CONSTANTS
  States,        \* state objects
  Activations,
  Order,         \* BaseActivation::xorder
  Getters,       \* activations that belong to a Get transform
  Setters,       \* threads that assign states
  MaxSlots,      \* bound on the slots of an activation
  None

ASSUME ActivationAssumption ==
  /\ Order \in [Activations -> Int]
  /\ Getters \subseteq Activations
  /\ MaxSlots \in Nat
  /\ None \notin States

VARIABLES
  slots,     \* xactivators: a state or None (a null pointer) per slot
  marks,     \* xstates
  on,        \* xon
  count,     \* xcount
  regs,      \* xactivations of each state
  alive,     \* states that exist
  toGet,     \* the state a Get transform watches; None once it is deleted,
             \* for a dangling pointer equals no slot
  pc,        \* where each thread is in State::SetActivations
  source,    \* the state it assigns
  walk,      \* activations it has yet to visit, the current one first
  word,      \* its copy of the packed vector of marks
  seen       \* its copy of the count

actVars == <<slots, marks, on, count>>
editVars == <<regs, alive, toGet>>
threadVars == <<pc, source, walk, word, seen>>
vars == <<slots, marks, on, count, regs, alive, toGet, pc, source, walk, word, seen>>

Quiet == \A t \in Setters : pc[t] = "idle"

Init ==
  /\ slots = [a \in Activations |-> <<>>]
  /\ marks = [a \in Activations |-> <<>>]
  /\ on = [a \in Activations |-> TRUE]
  /\ count = [a \in Activations |-> 0]
  /\ regs = [s \in States |-> <<>>]
  /\ alive = States
  /\ toGet = [a \in Getters |-> None]
  /\ pc = [t \in Setters |-> "idle"]
  /\ source = [t \in Setters |-> None]
  /\ walk = [t \in Setters |-> <<>>]
  /\ word = [t \in Setters |-> <<>>]
  /\ seen = [t \in Setters |-> 0]

-----------------------------------------------------------------------------
(* Assigning a state: State::SetActivations, which visits its activations. *)

SlotOf(l, s) == SelectInSeq(l, LAMBDA x : x = s)

Goto(t, l) == pc' = [pc EXCEPT ![t] = l]

Assign(t, s) ==
  /\ pc[t] = "idle"
  /\ s \in alive
  /\ Goto(t, "walk")
  /\ source' = [source EXCEPT ![t] = s]
  /\ walk' = [walk EXCEPT ![t] = regs[s]]
  /\ UNCHANGED <<actVars, editVars, word, seen>>

NextVisit(t) == walk' = [walk EXCEPT ![t] = Tail(@)] /\ Goto(t, "walk")

(* The first slot of the state has arrived already: nothing to do.         *)
Skip(t) ==
  /\ pc[t] = "walk"
  /\ walk[t] # <<>>
  /\ LET a == Head(walk[t])
         i == SlotOf(slots[a], source[t])
     IN  i = 0 \/ marks[a][i] = on[a]
  /\ NextVisit(t)
  /\ UNCHANGED <<actVars, editVars, source, word, seen>>

(* It has not: read the word of the bit vector that holds its mark.        *)
ReadMark(t) ==
  /\ pc[t] = "walk"
  /\ walk[t] # <<>>
  /\ LET a == Head(walk[t])
         i == SlotOf(slots[a], source[t])
     IN  /\ i # 0
         /\ marks[a][i] # on[a]
         /\ word' = [word EXCEPT ![t] = [marks[a] EXCEPT ![i] = on[a]]]
  /\ Goto(t, "mark")
  /\ UNCHANGED <<actVars, editVars, source, walk, seen>>

WriteMark(t) ==
  /\ pc[t] = "mark"
  /\ marks' = [marks EXCEPT ![Head(walk[t])] = word[t]]
  /\ Goto(t, "count")
  /\ UNCHANGED <<slots, on, count, editVars, source, walk, word, seen>>

ReadCount(t) ==
  /\ pc[t] = "count"
  /\ seen' = [seen EXCEPT ![t] = count[Head(walk[t])]]
  /\ Goto(t, "uncount")
  /\ UNCHANGED <<actVars, editVars, source, walk, word>>

(* Mutant: the count is tested before it is decremented.                   *)
WriteCountLate(t) ==
  /\ pc[t] = "uncount"
  /\ count' = [count EXCEPT ![Head(walk[t])] = seen[t] - 1]
  /\ IF seen[t] = 0 THEN Goto(t, "reset") /\ UNCHANGED walk ELSE NextVisit(t)
  /\ UNCHANGED <<slots, marks, on, editVars, source, word, seen>>

(* --xcount, and the test against zero.                                    *)
WriteCount(t) ==
  /\ pc[t] = "uncount"
  /\ count' = [count EXCEPT ![Head(walk[t])] = seen[t] - 1]
  /\ IF seen[t] = 1 THEN Goto(t, "reset") /\ UNCHANGED walk ELSE NextVisit(t)
  /\ UNCHANGED <<slots, marks, on, editVars, source, word, seen>>

(* Reset, then run or schedule the activation.                             *)
Reset(t) ==
  /\ pc[t] = "reset"
  /\ LET a == Head(walk[t])
     IN  /\ on' = [on EXCEPT ![a] = ~@]
         /\ count' = [count EXCEPT ![a] = Len(marks[a])]
  /\ NextVisit(t)
  /\ UNCHANGED <<slots, marks, editVars, source, word, seen>>

Assigned(t) ==
  /\ pc[t] = "walk"
  /\ walk[t] = <<>>
  /\ Goto(t, "idle")
  /\ source' = [source EXCEPT ![t] = None]
  /\ word' = [word EXCEPT ![t] = <<>>]
  /\ seen' = [seen EXCEPT ![t] = 0]
  /\ UNCHANGED <<actVars, editVars, walk>>

SetterStep(t) ==
  \/ Skip(t) \/ ReadMark(t) \/ WriteMark(t) \/ ReadCount(t) \/ WriteCount(t)
  \/ Reset(t) \/ Assigned(t)

-----------------------------------------------------------------------------
(* Editing the registrations.  A book holds what the handlers edit; each   *)
(* operator below is one method of the code, applied to a book.            *)

Book == [slots |-> slots, marks |-> marks, count |-> count, regs |-> regs]

Commit(b) ==
  /\ slots' = b.slots
  /\ marks' = b.marks
  /\ count' = b.count
  /\ regs' = b.regs

(* Mutant: always at the back.                                             *)
RegisterAtBack(l, a) == Append(l, a)

(* BaseState::RegisterActivation: behind the activations of equal order at *)
(* the back, otherwise before the first of equal or greater order.         *)
RegisterActivation(l, a) ==
  IF l = <<>> \/ Order[a] >= Order[Last(l)] THEN Append(l, a)
  ELSE InsertAt(l, SelectInSeq(l, LAMBDA b : Order[a] <= Order[b]), a)

(* Mutant: the new mark is FALSE whatever the flag.                        *)
AddToFalse(b, a, s) ==
  [b EXCEPT !.slots[a] = Append(@, s),
            !.marks[a] = Append(@, FALSE),
            !.count[a] = @ + 1,
            !.regs[s] = RegisterActivation(@, a)]

(* BaseActivation::AddActivator                                            *)
AddTo(b, a, s) ==
  [b EXCEPT !.slots[a] = Append(@, s),
            !.marks[a] = Append(@, ~on[a]),
            !.count[a] = @ + 1,
            !.regs[s] = RegisterActivation(@, a)]

(* BaseActivation::RemoveActivatorFast: the state is not told.             *)
RemoveActivatorFast(b, a, s) ==
  LET i == SlotOf(b.slots[a], s)
  IN  IF i = 0 THEN b ELSE [b EXCEPT !.slots[a][i] = None]

(* BaseActivation::RemoveActivator, which leaves an empty slot             *)
TakeFrom(b, a, s) ==
  LET i == SlotOf(b.slots[a], s)
  IN  IF i = 0 THEN b
      ELSE [b EXCEPT !.slots[a][i] = None, !.regs[s] = RemoveFirst(@, a)]

(* Mutant: the marks are not erased.                                       *)
CutFromSlotsOnly(b, a, s) ==
  LET i == SlotOf(b.slots[a], s)
  IN  IF i = 0 THEN b
      ELSE [b EXCEPT !.slots[a] = RemoveAt(@, i),
                     !.count[a] = Len(b.slots[a]) - 1,
                     !.regs[s] = RemoveFirst(@, a)]

(* Mutant: the other marks are kept, the count starts over.                *)
CutFromKeepingMarks(b, a, s) ==
  LET i == SlotOf(b.slots[a], s)
  IN  IF i = 0 THEN b
      ELSE [b EXCEPT !.slots[a] = RemoveAt(@, i),
                     !.marks[a] = RemoveAt(@, i),
                     !.count[a] = Len(b.slots[a]) - 1,
                     !.regs[s] = RemoveFirst(@, a)]

(* RemoveActivator with compress: the slot goes and the round starts over. *)
CutFrom(b, a, s) ==
  LET i == SlotOf(b.slots[a], s)
      n == Len(b.slots[a]) - 1
  IN  IF i = 0 THEN b
      ELSE [b EXCEPT !.slots[a] = RemoveAt(@, i),
                     !.marks[a] = [j \in 1 .. n |-> ~on[a]],
                     !.count[a] = n,
                     !.regs[s] = RemoveFirst(@, a)]

(* BaseActivation::ReplaceActivator, called with what RemoveActivator has  *)
(* just returned (0 for its -1): the slot is empty and keeps its mark.     *)
PutAt(b, a, i, s) ==
  IF i = 0 THEN b
  ELSE [b EXCEPT !.slots[a][i] = s, !.regs[s] = RegisterActivation(@, a)]

(* BaseState::~BaseState                                                   *)
Deregister(b, s) ==
  [FoldLeft(LAMBDA c, a : RemoveActivatorFast(c, a, s), b, b.regs[s])
     EXCEPT !.regs[s] = <<>>]

(* One turn of the loop of ChangeableInlet::Change.                        *)
Move(b, a, s, n) == PutAt(TakeFrom(b, a, s), a, SlotOf(b.slots[a], s), n)

(* A state is deleted: the pointers of Get transforms to it dangle.        *)
Forget(s) == toGet' = [a \in Getters |-> IF toGet[a] = s THEN None ELSE toGet[a]]

AddActivator(a, s) ==
  /\ Quiet
  /\ a \notin Getters
  /\ Len(slots[a]) < MaxSlots
  /\ s \in alive
  /\ Commit(AddTo(Book, a, s))
  /\ UNCHANGED <<on, alive, toGet, threadVars>>

RemoveActivator(a, s) ==
  /\ Quiet
  /\ a \notin Getters
  /\ s \in alive
  /\ SlotOf(slots[a], s) # 0
  /\ Commit(CutFrom(Book, a, s))
  /\ UNCHANGED <<on, alive, toGet, threadVars>>

(* ChangeableInlet::Change: every registration of the inlet s moves to its *)
(* replacement n, then s is deleted.                                       *)
Change(s, n) ==
  /\ Quiet
  /\ s \in alive
  /\ n \in States \ alive
  /\ Commit(Deregister(FoldLeft(LAMBDA b, a : Move(b, a, s, n), Book, regs[s]), s))
  /\ alive' = (alive \ {s}) \cup {n}
  /\ Forget(s)
  /\ UNCHANGED <<on, threadVars>>

(* FanOut::Connect and the like, when the type of the inlet s of a changes:*)
(* only a's own slot is given the replacement n.                           *)
Retype(a, s, n) ==
  /\ Quiet
  /\ a \notin Getters
  /\ s \in alive
  /\ n \in States \ alive
  /\ SlotOf(slots[a], s) # 0
  /\ Commit(PutAt(Deregister(TakeFrom(Book, a, s), s), a, SlotOf(slots[a], s), n))
  /\ alive' = (alive \ {s}) \cup {n}
  /\ Forget(s)
  /\ UNCHANGED <<on, threadVars>>

(* InternalGetTransform::getvarChangedExpr: watch another variable, which  *)
(* is created when no object has the name.                                 *)
GetVar(a, s) ==
  /\ Quiet
  /\ LET i == IF toGet[a] = None THEN 0 ELSE SlotOf(slots[a], toGet[a])
         b == IF i = 0 THEN Book ELSE TakeFrom(Book, a, toGet[a])
     IN  \/ i # 0 /\ Commit(PutAt(b, a, i, s))
         \/ i = 0 /\ Len(slots[a]) < MaxSlots /\ Commit(AddTo(b, a, s))
  /\ alive' = alive \cup {s}
  /\ toGet' = [toGet EXCEPT ![a] = s]
  /\ UNCHANGED <<on, threadVars>>

DeleteState(s) ==
  /\ Quiet
  /\ s \in alive
  /\ Commit(Deregister(Book, s))
  /\ alive' = alive \ {s}
  /\ Forget(s)
  /\ UNCHANGED <<on, threadVars>>

(* BaseActivation::~BaseActivation, and a new activation in its place.     *)
Renew(a) ==
  /\ Quiet
  /\ regs' = [s \in States |->
                FoldLeft(LAMBDA l, x : IF x = s THEN RemoveFirst(l, a) ELSE l,
                         regs[s], slots[a])]
  /\ slots' = [slots EXCEPT ![a] = <<>>]
  /\ marks' = [marks EXCEPT ![a] = <<>>]
  /\ on' = [on EXCEPT ![a] = TRUE]
  /\ count' = [count EXCEPT ![a] = 0]
  /\ toGet' = [b \in Getters |-> IF b = a THEN None ELSE toGet[b]]
  /\ UNCHANGED <<alive, threadVars>>

EditStep ==
  \/ \E a \in Activations, s \in States : AddActivator(a, s) \/ RemoveActivator(a, s)
  \/ \E s, n \in States : Change(s, n)
  \/ \E a \in Activations, s, n \in States : Retype(a, s, n)
  \/ \E a \in Getters, s \in States : GetVar(a, s)
  \/ \E s \in States : DeleteState(s)
  \/ \E a \in Activations : Renew(a)

Next ==
  \/ EditStep
  \/ \E t \in Setters : SetterStep(t) \/ \E s \in States : Assign(t, s)

Spec == Init /\ [][Next]_vars

(* A thread that is assigning a state goes on.                             *)
FairSpec == Spec /\ \A t \in Setters : WF_vars(SetterStep(t))

-----------------------------------------------------------------------------
TypeOK ==
  /\ slots \in [Activations -> Seq(States \cup {None})]
  /\ marks \in [Activations -> Seq(BOOLEAN)]
  /\ on \in [Activations -> BOOLEAN]
  /\ count \in [Activations -> Int]
  /\ regs \in [States -> Seq(Activations)]
  /\ alive \subseteq States
  /\ toGet \in [Getters -> States \cup {None}]
  /\ pc \in [Setters -> {"idle", "walk", "mark", "count", "uncount", "reset"}]
  /\ source \in [Setters -> States \cup {None}]
  /\ walk \in [Setters -> Seq(Activations)]
  /\ word \in [Setters -> Seq(BOOLEAN)]
  /\ seen \in [Setters -> Int]
  /\ \A a \in Activations : Len(marks[a]) = Len(slots[a])

Arrived(a) == {i \in DOMAIN marks[a] : marks[a][i] = on[a]}

(* Whatever was added, removed or replaced since, xcount is the number of  *)
(* slots whose mark is not on: the count and the marks never drift apart.  *)
CountsDown ==
  Quiet => \A a \in Activations :
             count[a] = Cardinality(DOMAIN marks[a] \ Arrived(a))

(* Registration is mutual: a state lists an activation as often as the     *)
(* activation has it in a slot, so no destructor leaves a dangling pointer *)
(* behind and no list::erase is given end().                               *)
Mutual ==
  /\ \A a \in Activations, s \in States :
       Cardinality({i \in DOMAIN slots[a] : slots[a][i] = s})
         = Cardinality({j \in DOMAIN regs[s] : regs[s][j] = a})
  /\ \A s \in States \ alive : regs[s] = <<>>

(* A state triggers its activations by ascending order, in whatever order  *)
(* they were registered.                                                   *)
ByOrder ==
  \A s \in States : \A i, j \in DOMAIN regs[s] :
    i < j => Order[regs[s][i]] <= Order[regs[s][j]]

(* Each activation is a reusable barrier over its slots.                   *)
Abstract == INSTANCE Rendezvous WITH
  size <- [a \in Activations |-> Len(slots[a])],
  arrived <- [a \in Activations |-> Arrived(a)],
  round <- on

ImplementsRendezvous == Abstract!Spec

(* When all slots have arrived the activation fires: it is never stuck     *)
(* with all its marks set and its count above zero.                        *)
Full(a) == slots[a] # <<>> /\ Arrived(a) = DOMAIN marks[a]

RendezvousFires == \A a \in Activations : Full(a) ~> ~Full(a)

(* A Get transform emits when the variable it watches changes: its         *)
(* activation waits for no other slot.                                     *)
GetHears ==
  \A a \in Getters : toGet[a] \in alive =>
    \A i \in DOMAIN slots[a] : slots[a][i] = toGet[a]
=============================================================================
