-------------------------- MODULE AudioClockProofs --------------------------
(***************************************************************************)
(* Proofs about the audio loop, for any outputs, inputs, channels, time    *)
(* machines, patch and depth of nested waits: its types, that it stays     *)
(* alive while a user counts as on, that it waits in one frame at a time   *)
(* unless it was restarted from within its wait, that every block holds    *)
(* one block of each output, and that the users are counted right.         *)
(***************************************************************************)
EXTENDS AudioClock, FiniteSetTheorems, TLAPS

(* A frame that waits has taken checkStatus from the queue; where it is    *)
(* scheduled again the loop was restarted.  At the bound on nested waits   *)
(* nothing is left that could nest further.                                *)
StatusTaken ==
  /\ depth > 0 /\ "status" \in due => disturbed
  /\ depth = MaxDepth => "status" \notin due

IInv == AudioTypeOK /\ LoopAlive /\ WaitsOnce /\ StatusTaken

-----------------------------------------------------------------------------
(* What the assumption says of each constant.                              *)
LEMMA Constants ==
  /\ MaxOn \in Nat /\ MaxDepth \in Nat /\ Device \in Nat \ {0}
  /\ Garbage \subseteq Int /\ Marks \subseteq Int
  /\ \A u \in Users : Channels[u] \in Nat \ {0}
  /\ None \notin Machines /\ "implicit" \notin Machines /\ "status" \notin Machines
BY AudioAssumption DEF AudioAssumption

LEMMA InitIInv == Init => IInv
<1> SUFFICES ASSUME Init PROVE IInv
  OBVIOUS
<1>1. inDriver \in Int /\ inDriver - inDevice = inDriver
  BY Constants DEF Init
<1>2. AudioTypeOK
  <2>1. /\ inDriver \in Int /\ inDevice \in 0 .. Device
        /\ inDriver - inDevice \in Garbage /\ hiWater \in Marks
    BY <1>1, Constants DEF Init
  <2>2. /\ driverOn \in 0 .. MaxOn /\ depth \in 0 .. MaxDepth
        /\ written \in [Outputs -> 0 .. 2]
    BY Constants DEF Init
  <2> QED
    BY <2>1, <2>2 DEF Init, AudioTypeOK
<1>3. LoopAlive /\ WaitsOnce /\ StatusTaken
  BY Constants DEF Init, LoopAlive, WaitsOnce, StatusTaken
<1> QED
  BY <1>2, <1>3 DEF IInv

(* A step that takes an activation which only mixes: a time machine's, or  *)
(* the implicit time manager's.                                            *)
LEMMA MixStep ==
  ASSUME IInv, NEW a, a # "status", NEW S,
         Take(a), Mix(S), pc' = Resumed(depth),
         UNCHANGED <<on, driverOn, depth, device, patch, steady, disturbed, tidy>>
  PROVE  IInv'
<1>1. AudioTypeOK'
  <2>1. written' \in [Outputs -> 0 .. 2]
    BY DEF IInv, AudioTypeOK, Mix
  <2>2. pc' \in {"loop", "test", "event", "select"} /\ (pc' = "loop" <=> depth' = 0)
    BY DEF Resumed
  <2> QED
    BY <2>1, <2>2 DEF IInv, AudioTypeOK, Take, device, patch
<1>2. LoopAlive'
  BY DEF IInv, LoopAlive, Take
<1>3. (WaitsOnce /\ StatusTaken)'
  BY DEF IInv, WaitsOnce, StatusTaken, Take
<1> QED
  BY <1>1, <1>2, <1>3 DEF IInv

(* checkStatus enters its wait, or finds the driver off.                   *)
LEMMA StatusStep ==
  ASSUME IInv, RunStatus
  PROVE  IInv'
<1>1. "status" \in due /\ due' = due \ {"status"}
  BY DEF RunStatus, Take
<1>2. depth < MaxDepth /\ depth \in Nat /\ MaxDepth \in Nat
  BY <1>1, Constants DEF IInv, AudioTypeOK, StatusTaken
<1>3. AudioTypeOK'
  <2>1. CASE driverOn > 0
    BY <1>1, <1>2, <2>1 DEF RunStatus, IInv, AudioTypeOK, device, patch
  <2>2. CASE ~(driverOn > 0)
    BY <1>1, <2>2 DEF RunStatus, Resumed, IInv, AudioTypeOK, device, patch
  <2> QED
    BY <2>1, <2>2
<1>4. LoopAlive'
  BY <1>1, <1>2 DEF RunStatus, LoopAlive
<1>5. WaitsOnce'
  BY <1>1, <1>2 DEF RunStatus, WaitsOnce, IInv, StatusTaken
<1>6. StatusTaken'
  BY <1>1 DEF StatusTaken
<1> QED
  BY <1>3, <1>4, <1>5, <1>6 DEF IInv

(* A block is written and the clocks are assigned: what is left of the     *)
(* frames that wait was disturbed.                                         *)
LEMMA FlushStep ==
  ASSUME IInv, Flush
  PROVE  IInv'
<1>1. depth \in 1 .. MaxDepth /\ MaxDepth \in Nat
  BY Constants DEF Flush, IInv, AudioTypeOK
<1>2. /\ due' = Machines \cup {"implicit", "status"}
      /\ depth' = depth - 1
      /\ disturbed' = ~(depth = 1 /\ due = {})
  BY DEF Flush, ClocksAssigned
<1>3. AudioTypeOK'
  <2>1. inDevice' \in 0 .. Device /\ inDriver' \in Int
    BY Constants DEF Flush, IInv, AudioTypeOK
  <2>2. inDriver' - inDevice' = inDriver - inDevice
    <3>1. inDriver \in Int /\ inDevice \in Int
      BY Constants DEF IInv, AudioTypeOK
    <3> QED
      BY <3>1 DEF Flush
  <2>3. depth' \in 0 .. MaxDepth
    BY <1>1, <1>2
  <2>4. pc' \in {"loop", "test", "event", "select"} /\ (pc' = "loop" <=> depth' = 0)
    BY DEF Flush, Resumed
  <2>5. written' \in [Outputs -> 0 .. 2] /\ steady' \subseteq {u \in Users : on'[u]}
    BY DEF Flush, InputSent, Sending
  <2>6. /\ on' \in [Users -> BOOLEAN] /\ driverOn' \in 0 .. MaxOn
        /\ hiWater' \in Marks /\ inDriver' - inDevice' \in Garbage
        /\ master' \in [Machines -> Machines \cup {None}] /\ slave' \subseteq Machines
        /\ tidy' \in BOOLEAN
    BY <2>2 DEF Flush, IInv, AudioTypeOK, patch
  <2> QED
    BY <1>2, <2>1, <2>3, <2>4, <2>5, <2>6 DEF AudioTypeOK
<1>4. LoopAlive'
  BY <1>2 DEF LoopAlive
<1>5. WaitsOnce' /\ StatusTaken'
  <2>1. depth # 1 => disturbed'
    BY <1>2
  <2>2. depth' \in Nat /\ depth' < MaxDepth /\ (depth' > 0 => depth # 1)
    BY <1>1, <1>2
  <2> QED
    BY <1>1, <2>1, <2>2 DEF WaitsOnce, StatusTaken
<1> QED
  BY <1>3, <1>4, <1>5 DEF IInv

(* The first user that is turned on assigns the clocks; it counts as a     *)
(* disturbance where a frame waits.                                        *)
LEMMA TurnOnStep ==
  ASSUME IInv, NEW u \in Users, TurnOn(u)
  PROVE  IInv'
<1>1. /\ driverOn \in Nat /\ depth \in 0 .. MaxDepth /\ MaxDepth \in Nat
      /\ MaxOn \in Nat /\ Channels[u] \in Nat \ {0}
  BY Constants DEF IInv, AudioTypeOK
<1>2. driverOn' \in 0 .. MaxOn /\ driverOn' > 0
  BY <1>1 DEF TurnOn
<1>3. /\ due' \subseteq Machines \cup {"implicit", "status"}
      /\ disturbed' \in BOOLEAN
  <2>1. CASE driverOn = 0
    BY <2>1 DEF TurnOn, ClocksAssigned
  <2>2. CASE driverOn # 0
    BY <2>2 DEF TurnOn, IInv, AudioTypeOK
  <2> QED
    BY <2>1, <2>2
<1>4. AudioTypeOK'
  <2>1. on' \in [Users -> BOOLEAN] /\ steady' \subseteq {v \in Users : on'[v]}
    BY DEF TurnOn, IInv, AudioTypeOK
  <2>2. pc' \in {"loop", "test", "event", "select"} /\ (pc' = "loop" <=> depth' = 0)
    BY DEF TurnOn, Handler, IInv, AudioTypeOK
  <2>3. tidy' \in BOOLEAN
    BY DEF TurnOn
  <2> QED
    BY <1>2, <1>3, <2>1, <2>2, <2>3 DEF TurnOn, IInv, AudioTypeOK, device, patch
<1>5. LoopAlive' /\ WaitsOnce' /\ StatusTaken'
  <2>1. CASE driverOn = 0
    <3>1. "status" \in due' /\ depth' = depth /\ depth < MaxDepth
      BY <2>1 DEF TurnOn, ClocksAssigned
    <3>2. depth > 0 => disturbed'
      BY <2>1 DEF TurnOn
    <3> QED
      BY <1>1, <3>1, <3>2 DEF LoopAlive, WaitsOnce, StatusTaken
  <2>2. CASE driverOn # 0
    BY <1>1, <2>2 DEF TurnOn, IInv, LoopAlive, WaitsOnce, StatusTaken
  <2> QED
    BY <2>1, <2>2
<1> QED
  BY <1>4, <1>5 DEF IInv

(* Turning off and deleting leave the loop as it is.                       *)
LEMMA TurnOffStep ==
  ASSUME IInv, NEW u \in Users, TurnOff(u) \/ Delete(u)
  PROVE  IInv'
<1>1. driverOn' \in 0 .. MaxOn /\ (driverOn' > 0 => driverOn > 0)
  <2>1. driverOn \in 0 .. MaxOn /\ MaxOn \in Nat /\ Channels[u] \in Nat \ {0}
    BY Constants DEF IInv, AudioTypeOK
  <2> QED
    BY <2>1 DEF TurnOff, Delete
<1>2. UNCHANGED <<due, depth, device, patch, written, disturbed>>
  BY DEF TurnOff, Delete
<1>3. AudioTypeOK'
  <2>1. on' \in [Users -> BOOLEAN] /\ steady' \subseteq {v \in Users : on'[v]}
    BY DEF TurnOff, Delete, IInv, AudioTypeOK
  <2>2. pc' \in {"loop", "test", "event", "select"} /\ (pc' = "loop" <=> depth' = 0)
    BY DEF TurnOff, Delete, Handler, IInv, AudioTypeOK
  <2>3. tidy' \in BOOLEAN
    BY DEF TurnOff, Delete
  <2> QED
    BY <1>1, <1>2, <2>1, <2>2, <2>3 DEF IInv, AudioTypeOK, device, patch
<1>4. LoopAlive' /\ WaitsOnce' /\ StatusTaken'
  BY <1>1, <1>2 DEF IInv, LoopAlive, WaitsOnce, StatusTaken
<1> QED
  BY <1>3, <1>4 DEF IInv

(* Wires of time machines only disturb.                                    *)
LEMMA WireStep ==
  ASSUME IInv, NEW n \in Machines, NEW m \in Machines, Enslave(n, m) \/ Release(n)
  PROVE  IInv'
<1>1. /\ master' \in [Machines -> Machines \cup {None}] /\ slave' \subseteq Machines
      /\ pc' \in {"loop", "test", "event", "select"} /\ (pc' = "loop" <=> depth' = 0)
      /\ disturbed'
  BY DEF Enslave, Release, Handler, IInv, AudioTypeOK
<1>2. UNCHANGED <<on, driverOn, due, depth, device, written, steady, tidy>>
  BY DEF Enslave, Release
<1> QED
  BY <1>1, <1>2 DEF IInv, AudioTypeOK, LoopAlive, WaitsOnce, StatusTaken, device

(* A turn of the wait without an activation, and the sound card.           *)
LEMMA OtherStep ==
  ASSUME IInv, NotReady \/ Nothing \/ Play
  PROVE  IInv'
<1>1. CASE NotReady \/ Nothing
  BY <1>1 DEF NotReady, Nothing, IInv, AudioTypeOK, LoopAlive, WaitsOnce,
              StatusTaken, device, patch
<1>2. CASE Play
  <2>1. inDriver \in Int /\ inDevice \in 0 .. Device /\ Device \in Nat
    BY Constants DEF IInv, AudioTypeOK
  <2>2. /\ inDriver' \in Int /\ inDevice' \in 0 .. Device
        /\ inDriver' - inDevice' = inDriver - inDevice
    BY <1>2, <2>1 DEF Play
  <2> QED
    BY <1>2, <2>2 DEF Play, IInv, AudioTypeOK, LoopAlive, WaitsOnce, StatusTaken,
                      patch
<1> QED
  BY <1>1, <1>2

LEMMA StepIInv == IInv /\ [Next]_vars => IInv'
<1> SUFFICES ASSUME IInv, [Next]_vars PROVE IInv'
  OBVIOUS
<1>1. ASSUME NEW m \in Machines, RunMachine(m) PROVE IInv'
  <2>1. m # "status"
    BY Constants
  <2> QED
    BY <1>1, <2>1, MixStep DEF RunMachine
<1>2. CASE RunImplicit
  BY <1>2, MixStep DEF RunImplicit
<1>3. CASE RunStatus
  BY <1>3, StatusStep
<1>4. CASE Flush
  BY <1>4, FlushStep
<1>5. CASE NotReady \/ Nothing \/ Play
  BY <1>5, OtherStep
<1>6. ASSUME NEW u \in Users, TurnOn(u) \/ TurnOff(u) \/ Delete(u) PROVE IInv'
  BY <1>6, TurnOnStep, TurnOffStep
<1>7. ASSUME NEW n \in Machines, NEW m \in Machines, Enslave(n, m) \/ Release(n)
      PROVE  IInv'
  BY <1>7, WireStep
<1>8. CASE UNCHANGED vars
  BY <1>8 DEF vars, device, patch, IInv, AudioTypeOK, LoopAlive, WaitsOnce,
              StatusTaken
<1> QED
  BY <1>1, <1>2, <1>3, <1>4, <1>5, <1>6, <1>7, <1>8 DEF Next, LoopStep

-----------------------------------------------------------------------------
(* The strengthened invariant holds in every behaviour.                    *)
THEOREM SpecIInv == Spec => []IInv
<1>1. Init => IInv
  BY InitIInv
<1>2. IInv /\ [Next]_vars => IInv'
  BY StepIInv
<1> QED
  BY <1>1, <1>2, PTL DEF Spec

(* Every variable of the loop keeps its type, for any transforms.           *)
THEOREM TypeCorrect == Spec => []AudioTypeOK
<1>1. IInv => AudioTypeOK
  BY DEF IInv
<1> QED
  BY <1>1, SpecIInv, PTL

(* While a user counts as on, checkStatus is scheduled or waiting: no       *)
(* interleaving of turning on and off with nested waits loses it.           *)
THEOREM Alive == Spec => []LoopAlive
<1>1. IInv => LoopAlive
  BY DEF IInv
<1> QED
  BY <1>1, SpecIInv, PTL

(* The loop waits in one frame at a time unless restarted within its wait.  *)
THEOREM OneWait == Spec => []WaitsOnce
<1>1. IInv => WaitsOnce
  BY DEF IInv
<1> QED
  BY <1>1, SpecIInv, PTL
-----------------------------------------------------------------------------
(* What a tick reaches.                                                    *)
Orphans == {m \in slave : master[m] = None}

(* The machines of S are among those they lead, and what they lead is      *)
(* closed and the least such set.                                          *)
LEMMA LedIsClosure ==
  ASSUME NEW S \in SUBSET Machines, slave \subseteq Machines
  PROVE  /\ S \subseteq Led(S) /\ Led(S) \in SUBSET Machines /\ Closed(Led(S))
         /\ \A T \in SUBSET Machines : S \subseteq T /\ Closed(T) => Led(S) \subseteq T
BY DEF Led, Closed

LEMMA LedGrows ==
  ASSUME NEW S \in SUBSET Machines, NEW T \in SUBSET Machines, S \subseteq T,
         slave \subseteq Machines
  PROVE  Led(S) \subseteq Led(T)
<1>1. S \subseteq Led(T) /\ Led(T) \in SUBSET Machines /\ Closed(Led(T))
  BY LedIsClosure
<1> QED
  BY <1>1, LedIsClosure

(* Whoever is led is led by one of the machines at the start.              *)
LEMMA LedByOne ==
  ASSUME NEW S \in SUBSET Machines, slave \subseteq Machines
  PROVE  \A m \in Led(S) : \E r \in S : m \in Led({r})
<1> DEFINE T == {m \in Machines : \E r \in S : m \in Led({r})}
<1>1. ASSUME NEW r \in S
      PROVE  r \in Led({r}) /\ Led({r}) \in SUBSET Machines /\ Closed(Led({r}))
  BY LedIsClosure
<1>2. S \subseteq T
  BY <1>1
<1>3. Closed(T)
  <2> SUFFICES ASSUME NEW n \in slave, master[n] \in T PROVE n \in T
    BY DEF Closed
  <2>1. PICK r \in S : master[n] \in Led({r})
    OBVIOUS
  <2>2. n \in Led({r})
    BY <1>1, <2>1 DEF Closed
  <2> QED
    BY <2>2
<1>4. T \in SUBSET Machines
  OBVIOUS
<1> HIDE DEF T
<1>5. Led(S) \subseteq T
  BY <1>2, <1>3, <1>4, LedIsClosure
<1> QED
  BY <1>5 DEF T

(* Who is led, and not from the start, is a slave of one who is led.       *)
LEMMA LedByMaster ==
  ASSUME NEW S \in SUBSET Machines, slave \subseteq Machines,
         NEW n \in Led(S), n \notin S
  PROVE  n \in slave /\ master[n] \in Led(S)
<1> SUFFICES ASSUME ~(n \in slave /\ master[n] \in Led(S)) PROVE FALSE
  OBVIOUS
<1> DEFINE T == Led(S) \ {n}
<1>1. S \subseteq Led(S) /\ Led(S) \in SUBSET Machines /\ Closed(Led(S))
  BY LedIsClosure
<1>2. S \subseteq T /\ T \in SUBSET Machines
  BY <1>1
<1>3. Closed(T)
  BY <1>1 DEF Closed
<1> HIDE DEF T
<1>4. Led(S) \subseteq T
  BY <1>2, <1>3, LedIsClosure
<1> QED
  BY <1>4 DEF T

(* Each machine has one master, so no two sets of roots lead the same one. *)
LEMMA LedApart ==
  ASSUME NEW A \in SUBSET Roots, NEW B \in SUBSET Roots, A \cap B = {},
         slave \subseteq Machines, None \notin Machines
  PROVE  Led(A) \cap Led(B) = {}
<1> DEFINE T == Led(A) \ Led(B)
<1>0. Roots \subseteq Machines
  BY DEF Roots
<1>1. /\ A \subseteq Led(A) /\ Led(A) \in SUBSET Machines /\ Closed(Led(A))
      /\ Led(B) \in SUBSET Machines
  BY <1>0, LedIsClosure
<1>2. A \subseteq T
  <2> SUFFICES ASSUME NEW r \in A, r \in Led(B) PROVE FALSE
    BY <1>1
  <2>1. r \in slave /\ master[r] \in Led(B)
    BY <1>0, LedByMaster
  <2> QED
    BY <1>1, <2>1 DEF Roots
<1>3. Closed(T)
  <2> SUFFICES ASSUME NEW n \in slave, master[n] \in T PROVE n \in T
    BY DEF Closed
  <2>1. n \in Led(A)
    BY <1>1 DEF Closed
  <2>2. n \notin B
    BY <1>1 DEF Roots
  <2>3. n \notin Led(B)
    BY <1>0, <2>2, LedByMaster
  <2> QED
    BY <2>1, <2>3
<1>4. T \in SUBSET Machines
  BY <1>1
<1> HIDE DEF T
<1>5. Led(A) \subseteq T
  BY <1>0, <1>2, <1>3, <1>4, LedIsClosure
<1> QED
  BY <1>5 DEF T

(* An output has its block of this tick, or will have it: what drives it   *)
(* is still due.                                                           *)
Sounds(o) == Feed[o] \in {None} \cup steady \cup Led(Roots)
Awaited(o) ==
  \/ "implicit" \in due /\ Feed[o] \in {None} \cup Led(Orphans)
  \/ \E m \in due \cap Machines : Feed[o] \in Led({m} \ slave)
Served(o) == written[o] = IF Sounds(o) /\ ~Awaited(o) THEN 1 ELSE 0

(* While the loop waits undisturbed nothing is due.                        *)
QuietWait == ~disturbed /\ depth > 0 => due = {}
AllServed ==
  ~disturbed => \A o \in steady \cap Outputs : Feed[o] \in Inputs \ steady \/ Served(o)

BlockInv == IInv /\ QuietWait /\ AllServed

(* What the assumption says of an output's feed.                           *)
LEMMA Feeds ==
  ASSUME NEW o \in Outputs
  PROVE  /\ Feed[o] \in Machines \cup Inputs \cup {None}
         /\ Feed[o] \in Users => Feed[o] \in Inputs
         /\ Feed[o] \in Machines \cup {None} => Feed[o] \notin Users
BY AudioAssumption DEF AudioAssumption, Users

(* What the machines of S mix, and what is due after: a tick of m.         *)
LEMMA MachineServes ==
  ASSUME BlockInv, NEW m \in Machines, RunMachine(m)
  PROVE  (QuietWait /\ AllServed)'
<1>1. /\ m \in due /\ due' = due \ {m}
      /\ UNCHANGED <<depth, disturbed, steady, slave, master, on>>
  BY DEF RunMachine, Take, patch
<1>2. QuietWait'
  BY <1>1 DEF BlockInv, QuietWait
<1>3. AllServed'
  <2> SUFFICES ASSUME ~disturbed, NEW o \in steady \cap Outputs,
                      Feed[o] \notin Inputs \ steady, Served(o)
               PROVE  Served(o)'
    BY <1>1 DEF AllServed, BlockInv
  <2> DEFINE R(x) == {x} \ slave
  <2>0. /\ slave \subseteq Machines /\ None \notin Machines /\ "implicit" \notin Machines
        /\ steady \subseteq Users /\ on[o] /\ written[o] \in {0, 1}
    BY Constants DEF BlockInv, IInv, AudioTypeOK, Served
  <2>1. Sounds(o)' = Sounds(o)
    BY <1>1 DEF Sounds, Led, Closed, Roots
  <2>2. written'[o] = IF Feed[o] \in Led(R(m)) THEN written[o] + 1 ELSE written[o]
    BY <2>0 DEF RunMachine, Mix
  <2>3. Awaited(o)' <=> \/ "implicit" \in due /\ Feed[o] \in {None} \cup Led(Orphans)
                        \/ \E x \in (due \ {m}) \cap Machines : Feed[o] \in Led(R(x))
    <3>1. \A S : Led(S)' = Led(S)
      BY <1>1 DEF Led, Closed
    <3>2. Orphans' = Orphans
      BY <1>1 DEF Orphans
    <3> QED
      BY <1>1, <2>0, <3>1, <3>2 DEF Awaited
  <2>4. CASE Feed[o] \in Led(R(m))
    <3>1. R(m) \subseteq Roots /\ R(m) \subseteq Machines /\ Roots \subseteq Machines
      BY <2>0 DEF Roots
    <3>2. Sounds(o)
      BY <2>0, <2>4, <3>1, LedGrows DEF Sounds
    <3>3. Awaited(o)
      BY <1>1, <2>4 DEF Awaited
    <3>4. Feed[o] \in Machines /\ Feed[o] # None
      BY <2>0, <2>4 DEF Led
    <3>5. Feed[o] \notin Led(Orphans)
      <4>1. Orphans \subseteq Roots /\ R(m) \cap Orphans = {}
        BY DEF Orphans, Roots
      <4> QED
        BY <2>0, <2>4, <3>1, <4>1, LedApart
    <3>6. ASSUME NEW x \in (due \ {m}) \cap Machines PROVE Feed[o] \notin Led(R(x))
      <4>1. R(x) \subseteq Roots /\ R(m) \cap R(x) = {}
        BY DEF Roots
      <4> QED
        BY <2>0, <2>4, <3>1, <4>1, LedApart
    <3>7. ~Awaited(o)'
      BY <2>3, <3>4, <3>5, <3>6
    <3> QED
      BY <2>1, <2>2, <2>4, <3>2, <3>3, <3>7 DEF Served
  <2>5. CASE Feed[o] \notin Led(R(m))
    <3>1. Awaited(o)' <=> Awaited(o)
      BY <2>3, <2>5 DEF Awaited
    <3> QED
      BY <2>1, <2>2, <2>5, <3>1 DEF Served
  <2> QED
    BY <2>4, <2>5
<1> QED
  BY <1>2, <1>3

(* The implicit time manager serves those whose time has no leader.        *)
LEMMA ImplicitServes ==
  ASSUME BlockInv, RunImplicit
  PROVE  (QuietWait /\ AllServed)'
<1>1. /\ "implicit" \in due /\ due' = due \ {"implicit"}
      /\ UNCHANGED <<depth, disturbed, steady, slave, master, on>>
  BY DEF RunImplicit, Take, patch
<1>2. QuietWait'
  BY <1>1 DEF BlockInv, QuietWait
<1>3. AllServed'
  <2> SUFFICES ASSUME ~disturbed, NEW o \in steady \cap Outputs,
                      Feed[o] \notin Inputs \ steady, Served(o)
               PROVE  Served(o)'
    BY <1>1 DEF AllServed, BlockInv
  <2>0. /\ slave \subseteq Machines /\ None \notin Machines /\ "implicit" \notin Machines
        /\ steady \subseteq Users /\ on[o] /\ written[o] \in {0, 1}
    BY Constants DEF BlockInv, IInv, AudioTypeOK, Served
  <2>1. Sounds(o)' = Sounds(o)
    BY <1>1 DEF Sounds, Led, Closed, Roots
  <2>2. written'[o] = IF Feed[o] \in {None} \cup Led(Orphans)
                      THEN written[o] + 1 ELSE written[o]
    BY <2>0 DEF RunImplicit, Mix, Orphans
  <2>3. Awaited(o)' <=> \E x \in due \cap Machines : Feed[o] \in Led({x} \ slave)
    <3>1. \A S : Led(S)' = Led(S)
      BY <1>1 DEF Led, Closed
    <3> QED
      BY <1>1, <2>0, <3>1 DEF Awaited
  <2>4. CASE Feed[o] \in {None} \cup Led(Orphans)
    <3>1. Orphans \subseteq Roots /\ Roots \subseteq Machines
      BY <2>0 DEF Roots, Orphans
    <3>2. Sounds(o)
      BY <2>0, <2>4, <3>1, LedGrows DEF Sounds
    <3>3. Awaited(o)
      BY <1>1, <2>4 DEF Awaited
    <3>4. ASSUME NEW x \in due \cap Machines PROVE Feed[o] \notin Led({x} \ slave)
      <4>1. {x} \ slave \subseteq Roots /\ Orphans \cap ({x} \ slave) = {}
        BY DEF Roots, Orphans
      <4>2. Led(Orphans) \cap Led({x} \ slave) = {}
        BY <2>0, <3>1, <4>1, LedApart
      <4>3. None \notin Led({x} \ slave)
        BY <2>0 DEF Led
      <4> QED
        BY <2>4, <4>2, <4>3
    <3>5. ~Awaited(o)'
      BY <2>3, <3>4
    <3>6. written[o] = 0 /\ written'[o] = 1
      BY <2>0, <2>2, <2>4, <3>3 DEF Served
    <3> QED
      BY <2>1, <3>2, <3>5, <3>6 DEF Served
  <2>5. CASE Feed[o] \notin {None} \cup Led(Orphans)
    <3>1. Awaited(o)' <=> Awaited(o)
      BY <2>3, <2>5 DEF Awaited
    <3> QED
      BY <2>1, <2>2, <2>5, <3>1 DEF Served
  <2> QED
    BY <2>4, <2>5
<1> QED
  BY <1>2, <1>3

(* Every machine that is led from a root is led from an orphan or from a   *)
(* machine that is no slave: a tick reaches all that sound.                *)
LEMMA TickReaches ==
  ASSUME slave \subseteq Machines
  PROVE  \A n \in Led(Roots) : \/ n \in Led(Orphans)
                               \/ \E m \in Machines : n \in Led({m} \ slave)
<1> SUFFICES ASSUME NEW n \in Led(Roots)
             PROVE  \/ n \in Led(Orphans)
                    \/ \E m \in Machines : n \in Led({m} \ slave)
  OBVIOUS
<1>1. Roots \in SUBSET Machines /\ Orphans \in SUBSET Machines
  BY DEF Roots, Orphans
<1>2. PICK r \in Roots : n \in Led({r})
  BY <1>1, LedByOne
<1>3. CASE r \in Orphans
  <2>1. Led({r}) \subseteq Led(Orphans)
    BY <1>1, <1>3, LedGrows
  <2> QED
    BY <1>2, <2>1
<1>4. CASE r \notin Orphans
  <2>1. {r} \ slave = {r} /\ r \in Machines
    BY <1>4 DEF Roots, Orphans
  <2> QED
    BY <1>2, <2>1
<1> QED
  BY <1>3, <1>4

(* After a flush in the one frame that waits, every output is awaited or   *)
(* has what its input sent.                                                *)
LEMMA FlushServes ==
  ASSUME BlockInv, Flush
  PROVE  (QuietWait /\ AllServed)'
<1>1. CASE disturbed'
  BY <1>1 DEF QuietWait, AllServed
<1>2. CASE ~disturbed'
  <2>1. /\ depth' = 0 /\ due' = Machines \cup {"implicit", "status"}
        /\ written' = InputSent /\ steady' = {u \in Users : on[u]}
        /\ UNCHANGED <<slave, master>>
    <3>1. disturbed' = ~(depth = 1 /\ due = {})
      BY DEF Flush
    <3>2. depth = 1
      BY <1>2, <3>1
    <3> QED
      BY <3>2 DEF Flush, ClocksAssigned, patch
  <2>2. slave \subseteq Machines
    BY DEF BlockInv, IInv, AudioTypeOK
  <2>3. ASSUME NEW o \in steady' \cap Outputs, Feed[o] \notin Inputs \ steady'
        PROVE  Served(o)'
    <3>1. on[o] /\ Feed[o] \in steady' \cup Machines \cup {None}
      BY <2>1, <2>3, Feeds DEF Users
    <3>2. \A S : Led(S)' = Led(S)
      BY <2>1 DEF Led, Closed
    <3>3. Roots' = Roots /\ Orphans' = Orphans
      BY <2>1 DEF Roots, Orphans
    <3>4. Awaited(o)' <=> \/ Feed[o] \in {None} \cup Led(Orphans)
                          \/ \E m \in Machines : Feed[o] \in Led({m} \ slave)
      <4>1. "implicit" \in due' /\ due' \cap Machines = Machines
        BY <2>1, Constants
      <4> QED
        BY <2>1, <3>2, <3>3, <4>1 DEF Awaited
    <3>5. CASE Feed[o] \in steady'
      <4>1. Feed[o] \in Sending /\ Feed[o] \notin Machines \cup {None}
        BY <2>1, <3>5, Feeds DEF Sending, Users
      <4>2. ~Awaited(o)'
        BY <3>4, <4>1 DEF Led
      <4> QED
        BY <2>1, <3>1, <3>5, <4>1, <4>2 DEF Served, Sounds, InputSent
    <3>6. CASE Feed[o] \in Machines \cup {None}
      <4>1. Feed[o] \notin Sending /\ Feed[o] \notin steady'
        BY <2>1, <3>6, Feeds DEF Sending, Users
      <4>2. written'[o] = 0
        BY <2>1, <4>1 DEF InputSent
      <4>3. Sounds(o)' => Awaited(o)'
        <5>1. Sounds(o)' => Feed[o] \in {None} \cup Led(Roots)
          BY <3>2, <3>3, <4>1 DEF Sounds
        <5> QED
          BY <2>2, <3>4, <5>1, TickReaches
      <4> QED
        BY <4>2, <4>3 DEF Served
    <3> QED
      BY <3>1, <3>5, <3>6
  <2> QED
    BY <2>1, <2>3 DEF QuietWait, AllServed
<1> QED
  BY <1>1, <1>2

(* A user that is touched is not steady; the others are served as before.  *)
LEMMA UserServes ==
  ASSUME BlockInv, NEW u \in Users, steady' = steady \ {u},
         UNCHANGED <<due, depth, written, patch, disturbed>>
  PROVE  (QuietWait /\ AllServed)'
<1>1. ASSUME NEW o \in steady' \cap Outputs, Feed[o] \notin Inputs \ steady', Served(o)
      PROVE  Served(o)'
  <2>1. Feed[o] \in steady' <=> Feed[o] \in steady
    BY <1>1, Feeds
  <2>2. \A S : Led(S)' = Led(S)
    BY DEF Led, Closed, patch
  <2>3. Roots' = Roots /\ Orphans' = Orphans
    BY DEF Roots, Orphans, patch
  <2>4. Sounds(o)' <=> Sounds(o)
    BY <2>1, <2>2, <2>3 DEF Sounds
  <2>5. Awaited(o)' <=> Awaited(o)
    BY <2>2, <2>3 DEF Awaited, patch
  <2> QED
    BY <1>1, <2>4, <2>5 DEF Served
<1>2. QuietWait'
  BY DEF BlockInv, QuietWait
<1>3. AllServed'
  <2> SUFFICES ASSUME ~disturbed, NEW o \in steady' \cap Outputs,
                      Feed[o] \notin Inputs \ steady'
               PROVE  Served(o)'
    BY DEF AllServed
  <2>1. Served(o)
    BY DEF BlockInv, AllServed
  <2> QED
    BY <1>1, <2>1
<1> QED
  BY <1>2, <1>3

(* Where no block is mixed and no user touched, all are served as before,  *)
(* and checkStatus enters its wait only after everything that was due.     *)
LEMMA OtherServes ==
  ASSUME BlockInv, UNCHANGED <<written, steady, patch, disturbed>>,
         \/ UNCHANGED <<due, depth>>
         \/ due = {"status"} /\ due' = {}
  PROVE  (QuietWait /\ AllServed)'
<1>1. \A S : Led(S)' = Led(S)
  BY DEF Led, Closed, patch
<1>2. Roots' = Roots /\ Orphans' = Orphans
  BY DEF Roots, Orphans, patch
<1>3. "status" \notin Machines
  BY Constants
<1>4. \A o : Sounds(o)' <=> Sounds(o)
  BY <1>1, <1>2 DEF Sounds
<1>5. \A o : Awaited(o)' <=> Awaited(o)
  <2>1. "implicit" \in due' <=> "implicit" \in due
    OBVIOUS
  <2>2. due' \cap Machines = due \cap Machines
    BY <1>3
  <2> QED
    BY <1>1, <1>2, <2>1, <2>2 DEF Awaited, patch
<1>6. AllServed'
  BY <1>4, <1>5 DEF BlockInv, AllServed, Served
<1> QED
  BY <1>6 DEF BlockInv, QuietWait

LEMMA InitServes == Init => BlockInv
<1> SUFFICES ASSUME Init PROVE BlockInv
  OBVIOUS
<1>1. ~(depth > 0) /\ steady = {}
  BY DEF Init
<1> QED
  BY <1>1, InitIInv DEF BlockInv, QuietWait, AllServed

LEMMA StepBlockInv == BlockInv /\ [Next]_vars => BlockInv'
<1> SUFFICES ASSUME BlockInv, [Next]_vars PROVE (QuietWait /\ AllServed)'
  BY StepIInv DEF BlockInv
<1>1. ASSUME NEW m \in Machines, RunMachine(m) PROVE (QuietWait /\ AllServed)'
  BY <1>1, MachineServes
<1>2. CASE RunImplicit
  BY <1>2, ImplicitServes
<1>3. CASE RunStatus
  <2>1. due = {"status"}
    <3>1. "status" \in due /\ \A b \in due : Order(b) >= 1
      BY <1>3 DEF RunStatus, Take, Order, BlockInv, IInv, AudioTypeOK
    <3> QED
      BY <3>1 DEF Order
  <2> QED
    BY <1>3, <2>1, OtherServes DEF RunStatus, Take
<1>4. CASE Flush
  BY <1>4, FlushServes
<1>5. CASE NotReady \/ Nothing \/ Play
  BY <1>5, OtherServes DEF NotReady, Nothing, Play
<1>6. ASSUME NEW u \in Users, TurnOn(u) PROVE (QuietWait /\ AllServed)'
  <2>1. CASE driverOn = 0
    <3>1. disturbed' = (disturbed \/ depth > 0 \/ steady # {})
      BY <1>6, <2>1 DEF TurnOn
    <3>2. depth' = depth /\ steady' \subseteq steady
      BY <1>6 DEF TurnOn
    <3>3. ~disturbed' => ~(depth' > 0) /\ steady' = {}
      BY <3>1, <3>2
    <3> QED
      BY <3>3 DEF QuietWait, AllServed
  <2>2. CASE driverOn # 0
    BY <1>6, <2>2, UserServes DEF TurnOn
  <2> QED
    BY <2>1, <2>2
<1>7. ASSUME NEW u \in Users, TurnOff(u) \/ Delete(u) PROVE (QuietWait /\ AllServed)'
  BY <1>7, UserServes DEF TurnOff, Delete
<1>8. ASSUME NEW n \in Machines, NEW m \in Machines, Enslave(n, m) \/ Release(n)
      PROVE  (QuietWait /\ AllServed)'
  <2>1. disturbed'
    BY <1>8 DEF Enslave, Release
  <2> QED
    BY <2>1 DEF QuietWait, AllServed
<1>9. CASE UNCHANGED vars
  BY <1>9, OtherServes DEF vars, patch
<1> QED
  BY <1>1, <1>2, <1>3, <1>4, <1>5, <1>6, <1>7, <1>8, <1>9 DEF Next, LoopStep

(* Each output that has its turn undisturbed is served or still awaited, in *)
(* every behaviour: the ledger of a block.                                  *)
THEOREM SpecBlockInv == Spec => []BlockInv
<1>1. BlockInv /\ [Next]_vars => BlockInv'
  BY StepBlockInv
<1> QED
  BY <1>1, InitServes, PTL DEF Spec

(* Only a flush fills the device.                                          *)
LEMMA OnlyFlush ==
  ASSUME IInv, [Next]_vars, inDriver' > inDriver
  PROVE  Flush
<1>1. inDriver \in Int
  BY DEF IInv, AudioTypeOK
<1>2. ~(inDriver' = inDriver)
  BY <1>1
<1>3. ~Play
  BY <1>1 DEF Play
<1>4. ~(NotReady \/ Nothing \/ RunStatus \/ RunImplicit)
  BY <1>2 DEF NotReady, Nothing, RunStatus, RunImplicit, device
<1>5. \A m \in Machines : ~RunMachine(m)
  BY <1>2 DEF RunMachine, device
<1>6. \A u \in Users : ~(TurnOn(u) \/ TurnOff(u) \/ Delete(u))
  BY <1>2 DEF TurnOn, TurnOff, Delete, device
<1>7. \A n, m \in Machines : ~(Enslave(n, m) \/ Release(n))
  BY <1>2 DEF Enslave, Release, device
<1>8. ~UNCHANGED vars
  BY <1>2 DEF vars, device
<1> QED
  BY <1>3, <1>4, <1>5, <1>6, <1>7, <1>8 DEF Next, LoopStep

(* Every block written to the device holds exactly one block of each output *)
(* that was on and is not fed in a circle, for any patch of time machines   *)
(* and any order in which they and the implicit manager run.                *)
THEOREM OneBlock == Spec => OneBlockEach
<1>1. BlockInv /\ [Next]_vars =>
        (inDriver' > inDriver /\ ~disturbed =>
           \A o \in steady \cap Outputs :
             \/ Feed[o] \in Inputs \ steady
             \/ written[o] =
                  IF Feed[o] \in {None} \cup steady \cup Led(Roots) THEN 1 ELSE 0)
  <2> SUFFICES ASSUME BlockInv, [Next]_vars, inDriver' > inDriver, ~disturbed,
                      NEW o \in steady \cap Outputs, Feed[o] \notin Inputs \ steady
               PROVE  written[o] =
                  IF Feed[o] \in {None} \cup steady \cup Led(Roots) THEN 1 ELSE 0
    OBVIOUS
  <2>1. depth > 0
    BY OnlyFlush DEF BlockInv, IInv, AudioTypeOK, Flush
  <2>2. ~Awaited(o)
    BY <2>1 DEF BlockInv, QuietWait, Awaited
  <2>3. Served(o)
    BY DEF BlockInv, AllServed
  <2> QED
    BY <2>2, <2>3 DEF Served, Sounds
<1> QED
  BY <1>1, SpecBlockInv, PTL DEF Spec, OneBlockEach
-----------------------------------------------------------------------------
(* The count of users, a sum over channels: each channel is a slot of its  *)
(* user's.                                                                 *)
Slots(u) == {u} \X (1 .. Channels[u])

CountInv == IInv /\ IsFiniteSet(ChannelsOn) /\ CountMatches

LEMMA SlotsCounted ==
  ASSUME NEW u \in Users
  PROVE  IsFiniteSet(Slots(u)) /\ Cardinality(Slots(u)) = Channels[u]
<1>1. Channels[u] \in Nat \ {0}
  BY Constants
<1>2. IsFiniteSet(1 .. Channels[u]) /\ Cardinality(1 .. Channels[u]) = Channels[u]
  BY <1>1, FS_Interval
<1>3. IsFiniteSet({u}) /\ Cardinality({u}) = 1
  BY FS_Singleton
<1>4. /\ IsFiniteSet({u} \X (1 .. Channels[u]))
      /\ Cardinality({u} \X (1 .. Channels[u])) =
           Cardinality({u}) * Cardinality(1 .. Channels[u])
  BY <1>2, <1>3, FS_Product
<1>5. Cardinality({u}) * Cardinality(1 .. Channels[u]) = Channels[u]
  BY <1>1, <1>2, <1>3
<1> QED
  BY <1>4, <1>5 DEF Slots

(* Users have no slot in common.                                           *)
LEMMA SlotsApart ==
  /\ \A z : z \in ChannelsOn <=> \E v \in Users : on[v] /\ z \in Slots(v)
  /\ \A u, v, z : z \in Slots(u) /\ z \in Slots(v) => u = v
<1>1. \A z : z \in ChannelsOn <=> \E v \in Users : on[v] /\ z \in Slots(v)
  BY DEF ChannelsOn, Slots
<1>2. \A v, z : z \in Slots(v) => z[1] = v
  BY DEF Slots
<1> QED
  BY <1>1, <1>2

LEMMA SlotsTurned ==
  ASSUME NEW u \in Users, NEW b \in BOOLEAN, on \in [Users -> BOOLEAN],
         on' = [on EXCEPT ![u] = b]
  PROVE  /\ ChannelsOn' = IF b THEN ChannelsOn \cup Slots(u) ELSE ChannelsOn \ Slots(u)
         /\ on[u] => Slots(u) \subseteq ChannelsOn
         /\ ~on[u] => ChannelsOn \cap Slots(u) = {}
<1>1. \A z : z \in ChannelsOn' <=> \E v \in Users : on'[v] /\ z \in Slots(v)
  BY DEF ChannelsOn, Slots
<1> QED
  BY <1>1, SlotsApart

LEMMA TurnOnCounts ==
  ASSUME CountInv, NEW u \in Users, TurnOn(u)
  PROVE  IsFiniteSet(ChannelsOn)' /\ CountMatches'
<1>1. /\ on \in [Users -> BOOLEAN] /\ on' = [on EXCEPT ![u] = TRUE]
      /\ driverOn' = driverOn + Channels[u] /\ tidy' = (tidy /\ ~on[u])
  BY DEF TurnOn, CountInv, IInv, AudioTypeOK
<1>2. ChannelsOn' = ChannelsOn \cup Slots(u)
  BY <1>1, SlotsTurned
<1>3. /\ IsFiniteSet(ChannelsOn')
      /\ Cardinality(ChannelsOn') =
           Cardinality(ChannelsOn) + Channels[u] - Cardinality(ChannelsOn \cap Slots(u))
  BY <1>2, SlotsCounted, FS_Union DEF CountInv
<1>4. CASE tidy'
  <2>1. tidy /\ ~on[u]
    BY <1>1, <1>4
  <2>2. Cardinality(ChannelsOn \cap Slots(u)) = 0
    BY <1>1, <2>1, SlotsTurned, FS_EmptySet
  <2>3. driverOn = Cardinality(ChannelsOn) /\ driverOn \in Nat /\ Channels[u] \in Nat
    BY <2>1, Constants DEF CountInv, CountMatches, IInv, AudioTypeOK
  <2> QED
    BY <1>1, <1>3, <2>2, <2>3 DEF CountMatches
<1>5. CASE ~tidy'
  BY <1>3, <1>5 DEF CountMatches
<1> QED
  BY <1>4, <1>5, <1>3

LEMMA TurnOffCounts ==
  ASSUME CountInv, NEW u \in Users, TurnOff(u)
  PROVE  IsFiniteSet(ChannelsOn)' /\ CountMatches'
<1>1. /\ on \in [Users -> BOOLEAN] /\ on' = [on EXCEPT ![u] = FALSE]
      /\ driverOn' = IF driverOn > Channels[u] THEN driverOn - Channels[u] ELSE 0
      /\ tidy' = (tidy /\ on[u])
  BY DEF TurnOff, CountInv, IInv, AudioTypeOK
<1>2. ChannelsOn' = ChannelsOn \ Slots(u)
  BY <1>1, SlotsTurned
<1>3. /\ IsFiniteSet(ChannelsOn')
      /\ Cardinality(ChannelsOn') =
           Cardinality(ChannelsOn) - Cardinality(ChannelsOn \cap Slots(u))
  BY <1>2, FS_Difference DEF CountInv
<1>4. CASE tidy'
  <2>1. tidy /\ on[u]
    BY <1>1, <1>4
  <2>2. Slots(u) \subseteq ChannelsOn
    BY <1>1, <2>1, SlotsTurned
  <2>3. Cardinality(ChannelsOn \cap Slots(u)) = Channels[u]
    <3>1. ChannelsOn \cap Slots(u) = Slots(u)
      BY <2>2
    <3> QED
      BY <3>1, SlotsCounted
  <2>4. Channels[u] <= Cardinality(ChannelsOn)
    BY <2>2, SlotsCounted, FS_Subset DEF CountInv
  <2>5. driverOn = Cardinality(ChannelsOn) /\ driverOn \in Nat /\ Channels[u] \in Nat
    BY <2>1, Constants DEF CountInv, CountMatches, IInv, AudioTypeOK
  <2> QED
    BY <1>1, <1>3, <2>3, <2>4, <2>5 DEF CountMatches
<1>5. CASE ~tidy'
  BY <1>3, <1>5 DEF CountMatches
<1> QED
  BY <1>4, <1>5, <1>3

(* A destructor counts nothing off: right only for a user that was off.    *)
LEMMA DeleteCounts ==
  ASSUME CountInv, NEW u \in Users, Delete(u)
  PROVE  IsFiniteSet(ChannelsOn)' /\ CountMatches'
<1>1. /\ on \in [Users -> BOOLEAN] /\ on' = [on EXCEPT ![u] = FALSE]
      /\ driverOn' = driverOn /\ tidy' = (tidy /\ ~on[u])
  BY DEF Delete, CountInv, IInv, AudioTypeOK
<1>2. ChannelsOn' = ChannelsOn \ Slots(u)
  BY <1>1, SlotsTurned
<1>3. IsFiniteSet(ChannelsOn')
  BY <1>2, FS_Difference DEF CountInv
<1>4. CASE tidy'
  <2>1. tidy /\ ~on[u]
    BY <1>1, <1>4
  <2>2. ChannelsOn' = ChannelsOn
    BY <1>1, <1>2, <2>1, SlotsTurned
  <2> QED
    BY <1>1, <1>3, <2>1, <2>2 DEF CountInv, CountMatches
<1>5. CASE ~tidy'
  BY <1>3, <1>5 DEF CountMatches
<1> QED
  BY <1>4, <1>5

LEMMA InitCounts == Init => CountInv
<1> SUFFICES ASSUME Init PROVE CountInv
  OBVIOUS
<1>1. ChannelsOn = {}
  BY DEF Init, ChannelsOn
<1>2. IsFiniteSet(ChannelsOn) /\ Cardinality(ChannelsOn) = 0
  BY <1>1, FS_EmptySet
<1> QED
  BY <1>2, InitIInv DEF Init, CountInv, CountMatches

LEMMA StepCountInv == CountInv /\ [Next]_vars => CountInv'
<1> SUFFICES ASSUME CountInv, [Next]_vars PROVE IsFiniteSet(ChannelsOn)' /\ CountMatches'
  BY StepIInv DEF CountInv
<1>1. ASSUME UNCHANGED <<on, driverOn, tidy>>
      PROVE  IsFiniteSet(ChannelsOn)' /\ CountMatches'
  <2>1. ChannelsOn' = ChannelsOn
    BY <1>1 DEF ChannelsOn
  <2> QED
    BY <1>1, <2>1 DEF CountInv, CountMatches
<1>2. CASE \/ \E m \in Machines : RunMachine(m)
           \/ RunImplicit \/ RunStatus \/ NotReady \/ Flush \/ Nothing \/ Play
  BY <1>1, <1>2 DEF RunMachine, RunImplicit, RunStatus, NotReady, Flush, Nothing, Play
<1>3. ASSUME NEW u \in Users, TurnOn(u) \/ TurnOff(u) \/ Delete(u)
      PROVE  IsFiniteSet(ChannelsOn)' /\ CountMatches'
  BY <1>3, TurnOnCounts, TurnOffCounts, DeleteCounts
<1>4. ASSUME NEW n \in Machines, NEW m \in Machines, Enslave(n, m) \/ Release(n)
      PROVE  IsFiniteSet(ChannelsOn)' /\ CountMatches'
  BY <1>1, <1>4 DEF Enslave, Release
<1>5. CASE UNCHANGED vars
  BY <1>1, <1>5 DEF vars
<1> QED
  BY <1>2, <1>3, <1>4, <1>5 DEF Next, LoopStep

(* The driver counts exactly the channels that are on, for any number of    *)
(* channels, until an onoff is assigned the value it has or one that is on  *)
(* is deleted.                                                              *)
THEOREM Counted == Spec => []CountMatches
<1>1. CountInv /\ [Next]_vars => CountInv'
  BY StepCountInv
<1>2. CountInv => CountMatches
  BY DEF CountInv
<1> QED
  BY <1>1, <1>2, InitCounts, PTL DEF Spec
=============================================================================
