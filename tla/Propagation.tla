---------------------------- MODULE Propagation ----------------------------
(***************************************************************************)
(* How a sample rate or a buffer size spreads over connected transforms    *)
(* (TimeDomainTransform in generic/oswTransform.cpp, overridden by Patch   *)
(* and by the inlet and outlet transforms of a patch), while connections   *)
(* are made and broken as in Connections.                                  *)
(*                                                                         *)
(* The code is a recursive walk: a transform labels itself, stops if it    *)
(* had that label or that value, sets the value, and calls the transform   *)
(* at the other end of each of its time-domain terminals.  Here "calls" is *)
(* the stack of the loops in progress, each the calls it has still to      *)
(* make, and each step makes one call of the innermost loop, in any order  *)
(* (the code's is the order in which the terminals were made).  The thread *)
(* that walks does nothing else meanwhile.  A label is rand(), taken to    *)
(* differ from all labels in use: "labelled" is the set of transforms that *)
(* have it.                                                                *)
(***************************************************************************)
EXTENDS Connections, Integers, LoopStack

CONSTANTS
  Transforms,
  Home,        \* GetContainer: the transform of each terminal
  TimeDomain,  \* types registered with REGISTER_TIMEDOMAIN_TYPE
  Entry,       \* inlet of a patch -> the inlet transform inside
  Exit,        \* outlet of a patch -> the outlet transform inside
  Rates, Sizes,  \* values a client may assign
  DefaultRate, DefaultSize,
  MaxWalks     \* bound on the values clients assign, a size last

ASSUME PropagationAssumption ==
  /\ Home \in [Inlets \cup Outlets -> Transforms]
  /\ Transforms \cap (Inlets \cup Outlets) = {}
  /\ TimeDomain \subseteq Types
  /\ DOMAIN Entry \subseteq Inlets /\ \A i \in DOMAIN Entry : Entry[i] \in Transforms
  /\ DOMAIN Exit \subseteq Outlets /\ \A o \in DOMAIN Exit : Exit[o] \in Transforms
  /\ Rates \cup Sizes \cup {DefaultRate, DefaultSize} \subseteq Nat \ {0}
  /\ MaxWalks \in Nat

VARIABLES
  rate,      \* SampleRate
  size,      \* NumberOfSamples
  labelled,  \* transforms with the label of the current walk
  calls,     \* the calls to make, a set for each loop in progress
  walk,      \* what the calls carry: "rate" or "size", and both values
  before,    \* history: the links whose ends agreed when the walk began
  walks      \* the number of walks so far, or MaxWalks after one of a size

walkVars == <<rate, size, labelled, calls, walk, before, walks>>
propVars == <<vars, walkVars>>

Links == {l \in Outlets \X Inlets :
            sink[l[1]] = l[2] /\ source[l[2]] = l[1] /\ type[l[2]] \in TimeDomain}

Agree(l) ==
  /\ rate[Home[l[1]]] = rate[Home[l[2]]]
  /\ size[Home[l[1]]] = size[Home[l[2]]]

NoWalk == [kind |-> "none", rate |-> DefaultRate, size |-> DefaultSize]

PropInit ==
  /\ Init
  /\ rate = [t \in Transforms |-> DefaultRate]
  /\ size = [t \in Transforms |-> DefaultSize]
  /\ labelled = {}
  /\ calls = <<>>
  /\ walk = NoWalk
  /\ before = {}
  /\ walks = 0

-----------------------------------------------------------------------------
Call(t, x) == [to |-> t, via |-> x]

(* The starting point of a client's assignment is the state of the         *)
(* transform itself, for which the transform stands.                       *)
StartsAt(c) == c.via = c.to

(* The calls to the transforms at the other ends of t's terminals.         *)
Across(t) ==
  {Call(Home[source[i]], source[i]) :
     i \in {i \in Inlets : Home[i] = t /\ source[i] # None /\ type[i] \in TimeDomain}}
  \cup
  {Call(Home[sink[o]], sink[o]) :
     o \in {o \in Outlets : Home[o] = t /\ sink[o] # None /\ type[sink[o]] \in TimeDomain}}

(* The calls the overrides add when the ordinary walk has gone through the *)
(* transform: a patch calls the inlet or outlet transform of the terminal  *)
(* it was called at; an inlet transform calls its patch.                   *)
Within(c) ==
  {Call(Entry[i], i) :
     i \in {i \in DOMAIN Entry \cap liveInlets : i = c.via /\ Home[i] = c.to}}
  \cup
  {Call(Exit[o], o) :
     o \in {o \in DOMAIN Exit \cap liveOutlets : o = c.via /\ Home[o] = c.to}}
  \cup
  {Call(Home[i], c.via) : i \in {i \in DOMAIN Entry : Entry[i] = c.to}}

(* An outlet transform calls its patch in any case; the rate walk names    *)
(* the outlet of the patch, the size walk the terminal it came by.         *)
Upward(c) ==
  {Call(Home[o], IF walk.kind = "rate" THEN o ELSE c.via) :
     o \in {o \in DOMAIN Exit : Exit[o] = c.to}}

(* Mutant: the transform the walk starts at is not exempt.                 *)
NewsToAll(c) ==
  \/ walk.kind = "rate" /\ walk.rate # rate[c.to]
  \/ walk.kind = "size" /\ walk.size # size[c.to]

(* Whether the value is news to the transform; where the walk starts it is *)
(* set already.                                                            *)
News(c) ==
  \/ StartsAt(c)
  \/ walk.kind = "rate" /\ walk.rate # rate[c.to]
  \/ walk.kind = "size" /\ walk.size # size[c.to]

(* Mutant: no label.                                                       *)
UnlabelledGoesOn(c) == News(c)

GoesOn(c) == c.to \notin labelled /\ News(c)

(* A number of samples at one rate, as a number of samples at another: the *)
(* same time, truncated.                                                   *)
Converted(n, from, to) == IF from = to THEN n ELSE (n * to) \div from

(* One call of PropagateSampleRate or PropagateNumberOfSamples.            *)
Visit ==
  /\ calls # <<>>
  /\ \E c \in Head(calls) :
       LET t == c.to
           rest == Push(Upward(c), Pop(c, calls))
       IN  /\ rate' = IF GoesOn(c) /\ walk.kind = "rate"
                      THEN [rate EXCEPT ![t] = walk.rate] ELSE rate
           /\ size' = IF GoesOn(c) /\ walk.kind = "size"
                      THEN [size EXCEPT ![t] = Converted(walk.size, walk.rate, rate[t])]
                      ELSE size
           /\ calls' = IF GoesOn(c) THEN Push(Across(t), Push(Within(c), rest)) ELSE rest
           /\ labelled' = IF calls' = <<>> THEN {} ELSE labelled \cup {t}
  /\ IF calls' = <<>> THEN walk' = NoWalk /\ before' = {} ELSE UNCHANGED <<walk, before>>
  /\ UNCHANGED <<vars, walks>>

(* A transform without terminals is taken to be destroyed.                 *)
Existing == {Home[x] : x \in liveInlets \cup liveOutlets}

(* A client assigns a transform's sample_rate or num_samples.  A walk      *)
(* would follow a freed pointer: there is none where one begins.           *)
Begin(t, kind) ==
  /\ calls = <<>>
  /\ t \in Existing
  /\ NoDangling
  /\ walks < MaxWalks
  /\ walks' = IF kind = "size" THEN MaxWalks ELSE walks + 1
  /\ labelled' = {}
  /\ calls' = <<{Call(t, t)}>>
  /\ walk' = [kind |-> kind, rate |-> rate'[t], size |-> size'[t]]
  /\ before' = {l \in Links : Agree(l)}
  /\ UNCHANGED vars

SetSampleRate(t, r) == rate' = [rate EXCEPT ![t] = r] /\ UNCHANGED size /\ Begin(t, "rate")

SetNumberOfSamples(t, n) == size' = [size EXCEPT ![t] = n] /\ UNCHANGED rate /\ Begin(t, "size")

(* Terminals are connected, disconnected, made and deleted between walks.  *)
(* Connecting adjusts nothing: that part of the code is commented out; but *)
(* what is made in the place of a destroyed transform starts afresh.       *)
(* Clients stop after the last walk.                                       *)
EditConnections ==
  /\ calls = <<>>
  /\ walks < MaxWalks
  /\ Next
  /\ LET gone == Transforms \ Existing'
     IN  /\ rate' = [t \in Transforms |-> IF t \in gone THEN DefaultRate ELSE rate[t]]
         /\ size' = [t \in Transforms |-> IF t \in gone THEN DefaultSize ELSE size[t]]
  /\ UNCHANGED <<labelled, calls, walk, before, walks>>

PropNext ==
  \/ EditConnections
  \/ Visit
  \/ \E t \in Transforms :
       \/ \E r \in Rates : SetSampleRate(t, r)
       \/ \E n \in Sizes : SetNumberOfSamples(t, n)

PropSpec == PropInit /\ [][PropNext]_propVars /\ WF_propVars(Visit)

-----------------------------------------------------------------------------
(* A walk leaves no link behind: two connected transforms that agreed on   *)
(* rate and size before a walk agree after it, wherever it went, stopped   *)
(* at a transform that had the value, or crossed a patch.  Only links made *)
(* between transforms that differ can differ.                              *)
AgreementKept ==
  [][calls # <<>> /\ calls' = <<>> => \A l \in before : Agree(l)']_propVars

(* The recursion ends on every graph, whatever its cycles and whatever the *)
(* truncation does to the sizes.                                           *)
WalkEnds == calls # <<>> ~> calls = <<>>
=============================================================================
