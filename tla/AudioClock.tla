----------------------------- MODULE AudioClock -----------------------------
(***************************************************************************)
(* The audio loop (AudioDriver in generic/oswAudio.cpp, its OSS driver in  *)
(* linux/oswLinuxOSSAudio.cpp, ClockSource in generic/oswClock.cpp and the *)
(* time machines of generic/oswTime.cpp), run by one task thread.          *)
(*                                                                         *)
(* The loop drives itself: an assignment of the clocks schedules the time  *)
(* machines, whose time runs the signal transforms up to the audio         *)
(* outputs, and, last of all, the driver's checkStatus.  It waits until    *)
(* the device has room, writes the block, lets the inputs send theirs and  *)
(* assigns the clocks again.                                               *)
(* While it waits it runs other activations and socket handlers on top of  *)
(* its own frame, which may reach checkStatus a second time.               *)
(* Amounts of samples are counted in blocks.                               *)
(***************************************************************************)
EXTENDS Integers, FiniteSets

CONSTANTS
  Outputs,   \* AudioOutput transforms
  Inputs,    \* AudioInput transforms, none where xhasInput is false
  Channels,  \* the number of channels of each of them
  Machines,  \* time machines on the main clock
  Feed,      \* the input an output is connected to, or the machine whose
             \* time its signal has, None: implicit
  None,
  Garbage,   \* what the uninitialized count of samples may hold
  Marks,     \* what the uninitialized mark may hold
  Device,    \* blocks the device takes before write() blocks
  MaxOn, MaxDepth  \* bounds on xdriverOn and on the waits that nest

(* The transforms that count as users of the driver.                       *)
Users == Outputs \cup Inputs

ASSUME AudioAssumption ==
  /\ Channels \in [Users -> Nat \ {0}]
  /\ Feed \in [Outputs -> Machines \cup Inputs \cup {None}]
  /\ (Machines \cup {None}) \cap Users = {} /\ Outputs \cap Inputs = {}
  /\ Machines \cap {None, "implicit", "status"} = {}
  /\ Garbage \subseteq Int /\ Marks \subseteq Int
  /\ Device \in Nat \ {0}
  /\ {MaxOn, MaxDepth} \subseteq Nat

VARIABLES
  on,         \* onoff of each output and input
  driverOn,   \* xdriverOn
  due,        \* scheduled: time machines, "implicit" and "status"
  depth,      \* frames of checkStatus that wait
  pc,         \* "loop", or in the innermost frame "test", "event", "select"
  inDriver,   \* xsamplesInDriver, up to date
  inDevice,   \* blocks the device has not played
  hiWater,
  master,     \* the machine connected to a machine's timeIn
  slave,      \* machines with xslave set
  written,    \* history: blocks an output mixed into the buffer
  steady,     \* history: users on and not touched since the last flush
  disturbed,  \* history: the patch or the loop was changed since then
  tidy        \* history: no onoff was assigned its own value, none deleted on

vars == <<on, driverOn, due, depth, pc, inDriver, inDevice, hiWater, master,
          slave, written, steady, disturbed, tidy>>
patch == <<master, slave>>
device == <<inDriver, inDevice, hiWater>>

(* Mutant: checkStatus is constructed with the order other activations have. *)
OrderDefault(a) == 0

(* checkStatus has the greatest order, every other activation here 0.      *)
Order(a) == IF a = "status" THEN 1 ELSE 0

(* Setting the sample rate at start-up assigns hiWater, which this driver  *)
(* refuses: hiWaterChangedExpr puts back xoldHiWater, never initialized.   *)
(* Nor are xsamplesInDriver and xoldPos.                                   *)
Init ==
  /\ on = [u \in Users |-> FALSE]
  /\ driverOn = 0
  /\ due = {}
  /\ depth = 0
  /\ pc = "loop"
  /\ inDriver \in Garbage
  /\ inDevice = 0
  /\ hiWater \in Marks
  /\ master = [m \in Machines |-> None]
  /\ slave = {}
  /\ written = [o \in Outputs |-> 0]
  /\ steady = {}
  /\ disturbed = FALSE
  /\ tidy = TRUE

-----------------------------------------------------------------------------
(* A set of machines with every machine its members lead.                  *)
Closed(T) == \A m \in slave : master[m] \in T => m \in T

(* The machines of S and those they lead, through wires from timeOut to    *)
(* timeIn: each assignment runs eventProc3 of the next at once.            *)
Led(S) == {m \in Machines :
             \A T \in SUBSET Machines : S \subseteq T /\ Closed(T) => m \in T}

(* The activation a is taken from the queue: least order first.            *)
Take(a) ==
  /\ pc \in {"loop", "event"}
  /\ a \in due
  /\ \A b \in due : Order(a) <= Order(b)
  /\ due' = due \ {a}

(* After an activation the waiting frame may poll the sockets.             *)
Resumed(d) == IF d = 0 THEN "loop" ELSE "select"

(* Outputs on write a block when their samples arrive.                     *)
Mix(outs) ==
  written' = [o \in Outputs |->
    IF o \in outs /\ on[o] /\ written[o] < 2 THEN written[o] + 1 ELSE written[o]]

RunMachine(m) ==
  /\ Take(m)
  /\ Mix({o \in Outputs : Feed[o] \in Led({m} \ slave)})
  /\ pc' = Resumed(depth)
  /\ UNCHANGED <<on, driverOn, depth, device, patch, steady, disturbed, tidy>>

(* The implicit time manager assigns the main clock to every time inlet    *)
(* that is not connected.  The test that should exempt time machines       *)
(* compares the types of two different pointers and always succeeds, so a  *)
(* machine that was a slave and has lost its master is led from here.      *)
RunImplicit ==
  /\ Take("implicit")
  /\ Mix({o \in Outputs : Feed[o] \in
            {None} \cup Led({m \in slave : master[m] = None})})
  /\ pc' = Resumed(depth)
  /\ UNCHANGED <<on, driverOn, depth, device, patch, steady, disturbed, tidy>>

(* Mutant: checkStatusExpr does not ask whether the driver is on.          *)
RunStatusAlways ==
  /\ Take("status")
  /\ depth' = depth + 1 /\ pc' = "test"
  /\ UNCHANGED <<on, driverOn, device, patch, written, steady, disturbed, tidy>>

(* checkStatusExpr enters WaitUntilReady.                                  *)
RunStatus ==
  /\ Take("status")
  /\ IF driverOn > 0 THEN depth' = depth + 1 /\ pc' = "test"
                     ELSE depth' = depth /\ pc' = Resumed(depth)
  /\ UNCHANGED <<on, driverOn, device, patch, written, steady, disturbed, tidy>>

(* The clocks are assigned: all that depends on them is scheduled.         *)
ClocksAssigned == due' = Machines \cup {"implicit", "status"}

(* Mutant: at the mark is above it.                                        *)
NotReadyAtMark ==
  /\ pc \in {"test", "select"}
  /\ inDriver >= hiWater
  /\ pc' = "event"
  /\ UNCHANGED <<on, driverOn, due, depth, device, patch, written, steady,
                 disturbed, tidy>>

(* SamplesInBuffer() > hiWater: DoOneEvent is called.                      *)
NotReady ==
  /\ pc \in {"test", "select"}
  /\ inDriver > hiWater
  /\ pc' = "event"
  /\ UNCHANGED <<on, driverOn, due, depth, device, patch, written, steady,
                 disturbed, tidy>>

(* The inputs that are activated after the flush.                          *)
Sending == {i \in Inputs : on[i]}

(* Their blocks, mixed into the emptied buffer by the outputs they feed.   *)
InputSent == [o \in Outputs |-> IF on[o] /\ Feed[o] \in Sending THEN 1 ELSE 0]

(* Mutant: AdvanceClock advances the main clock and not the driver's.      *)
FlushMainClockOnly ==
  /\ pc \in {"test", "select"}
  /\ inDriver <= hiWater
  /\ inDevice < Device
  /\ inDevice' = inDevice + 1
  /\ inDriver' = inDriver + 1
  /\ depth' = depth - 1
  /\ pc' = Resumed(depth')
  /\ due' = due \cup Machines \cup {"implicit"}
  /\ written' = InputSent
  /\ steady' = {u \in Users : on[u]}
  /\ disturbed' = ~(depth = 1 /\ due = {})
  /\ UNCHANGED <<on, driverOn, hiWater, patch, tidy>>

(* There is room: FlushSamples writes the block, the inputs that are on    *)
(* send theirs, which outputs mix into the next block at once, then        *)
(* AdvanceClock assigns both clocks and the frame returns.  write() waits  *)
(* for a full device.                                                      *)
Flush ==
  /\ pc \in {"test", "select"}
  /\ inDriver <= hiWater
  /\ inDevice < Device
  /\ inDevice' = inDevice + 1
  /\ inDriver' = inDriver + 1
  /\ depth' = depth - 1
  /\ pc' = Resumed(depth')
  /\ ClocksAssigned
  /\ written' = InputSent
  /\ steady' = {u \in Users : on[u]}
  /\ disturbed' = ~(depth = 1 /\ due = {})
  /\ UNCHANGED <<on, driverOn, hiWater, patch, tidy>>

(* DoOneEvent finds nothing scheduled.                                     *)
Nothing ==
  /\ pc = "event"
  /\ due = {}
  /\ pc' = "select"
  /\ UNCHANGED <<on, driverOn, due, depth, device, patch, written, steady,
                 disturbed, tidy>>

-----------------------------------------------------------------------------
(* Where a socket handler runs: the task thread is idle, or DoOneEvent has *)
(* run its activation.                                                     *)
Handler ==
  /\ (pc = "loop" /\ due = {}) \/ pc = "select"
  /\ pc' = IF pc = "loop" THEN "loop" ELSE "test"

(* Mutant: every user that is turned on starts the loop.                   *)
TurnOnStarting(u) ==
  /\ Handler
  /\ driverOn + Channels[u] <= MaxOn
  /\ on' = [on EXCEPT ![u] = TRUE]
  /\ driverOn' = driverOn + Channels[u]
  /\ depth < MaxDepth
  /\ ClocksAssigned
  /\ disturbed' = (disturbed \/ (driverOn = 0 /\ (depth > 0 \/ steady # {})))
  /\ steady' = steady \ {u}
  /\ tidy' = (tidy /\ ~on[u])
  /\ UNCHANGED <<depth, device, patch, written>>

(* A client assigns onoff.  activation3Expr counts each channel; the first *)
(* starts the loop by assigning the clocks their own values.               *)
TurnOn(u) ==
  /\ Handler
  /\ driverOn + Channels[u] <= MaxOn
  /\ on' = [on EXCEPT ![u] = TRUE]
  /\ driverOn' = driverOn + Channels[u]
  /\ IF driverOn = 0
     THEN /\ depth < MaxDepth
          /\ ClocksAssigned
          /\ disturbed' = (disturbed \/ depth > 0 \/ steady # {})
     ELSE UNCHANGED <<due, disturbed>>
  /\ steady' = steady \ {u}
  /\ tidy' = (tidy /\ ~on[u])
  /\ UNCHANGED <<depth, device, patch, written>>

(* Mutant: one channel is counted for the whole transform.                 *)
TurnOffOnce(u) ==
  /\ Handler
  /\ on' = [on EXCEPT ![u] = FALSE]
  /\ driverOn' = IF driverOn > 0 THEN driverOn - 1 ELSE 0
  /\ steady' = steady \ {u}
  /\ tidy' = (tidy /\ on[u])
  /\ UNCHANGED <<due, depth, device, patch, written, disturbed>>

(* Mutant: StopTransform without its test of zero.                         *)
TurnOffBelowZero(u) ==
  /\ Handler
  /\ on' = [on EXCEPT ![u] = FALSE]
  /\ driverOn' = driverOn - Channels[u]
  /\ steady' = steady \ {u}
  /\ tidy' = (tidy /\ on[u])
  /\ UNCHANGED <<due, depth, device, patch, written, disturbed>>

TurnOff(u) ==
  /\ Handler
  /\ on' = [on EXCEPT ![u] = FALSE]
  /\ driverOn' = IF driverOn > Channels[u] THEN driverOn - Channels[u] ELSE 0
  /\ steady' = steady \ {u}
  /\ tidy' = (tidy /\ on[u])
  /\ UNCHANGED <<due, depth, device, patch, written, disturbed>>

(* An idle turn deletes an output or an input from the delete queue; its   *)
(* destructor does not count it off.  Later steps of u are those of a new  *)
(* one in its place, which is off.                                         *)
Delete(u) ==
  /\ due = {}
  /\ \/ pc = "loop" /\ pc' = "loop"
     \/ pc = "event" /\ pc' = "select"
  /\ on' = [on EXCEPT ![u] = FALSE]
  /\ steady' = steady \ {u}
  /\ tidy' = (tidy /\ ~on[u])
  /\ UNCHANGED <<driverOn, due, depth, device, patch, written, disturbed>>

(* A client connects m's timeOut, by a fan-out, to n's timeIn.             *)
Enslave(n, m) ==
  /\ Handler
  /\ master[n] = None
  /\ master' = [master EXCEPT ![n] = m]
  /\ slave' = slave \cup {n}
  /\ disturbed' = TRUE
  /\ UNCHANGED <<on, driverOn, due, depth, device, written, steady, tidy>>

(* It is disconnected: TimeMachine::Connect is not called, xslave stays.   *)
Release(n) ==
  /\ Handler
  /\ master[n] # None
  /\ master' = [master EXCEPT ![n] = None]
  /\ disturbed' = TRUE
  /\ UNCHANGED <<on, driverOn, due, depth, device, slave, written, steady, tidy>>

(* The sound card consumes a block.                                        *)
Play ==
  /\ inDevice > 0
  /\ inDevice' = inDevice - 1
  /\ inDriver' = inDriver - 1
  /\ UNCHANGED <<on, driverOn, due, depth, pc, hiWater, patch, written, steady,
                 disturbed, tidy>>

LoopStep ==
  \/ \E m \in Machines : RunMachine(m)
  \/ RunImplicit \/ RunStatus \/ NotReady \/ Flush \/ Nothing

Next ==
  \/ LoopStep
  \/ Play
  \/ \E u \in Users : TurnOn(u) \/ TurnOff(u) \/ Delete(u)
  \/ \E n \in Machines : Release(n) \/ \E m \in Machines : Enslave(n, m)

Spec == Init /\ [][Next]_vars /\ WF_vars(LoopStep) /\ WF_vars(Play)

-----------------------------------------------------------------------------
(* Every variable has its type; a frame waits exactly when the task thread *)
(* is inside checkStatus, and the count of users is never below zero.      *)
AudioTypeOK ==
  /\ on \in [Users -> BOOLEAN]
  /\ driverOn \in 0 .. MaxOn
  /\ due \subseteq Machines \cup {"implicit", "status"}
  /\ depth \in 0 .. MaxDepth
  /\ pc \in {"loop", "test", "event", "select"}
  /\ pc = "loop" <=> depth = 0
  /\ inDriver \in Int /\ inDevice \in 0 .. Device
  /\ inDriver - inDevice \in Garbage /\ hiWater \in Marks
  /\ master \in [Machines -> Machines \cup {None}]
  /\ slave \subseteq Machines
  /\ written \in [Outputs -> 0 .. 2]
  /\ steady \subseteq {u \in Users : on[u]}
  /\ disturbed \in BOOLEAN /\ tidy \in BOOLEAN

(* While a user counts as on, the loop is alive: checkStatus is            *)
(* scheduled or one of its frames will assign the clocks again.  Nothing   *)
(* else would ever start it, for only the first user does.                 *)
LoopAlive == driverOn > 0 => "status" \in due \/ depth > 0

(* The channels of the users that are on.                                  *)
ChannelsOn == UNION {{u} \X (1 .. Channels[u]) : u \in {v \in Users : on[v]}}

(* The driver counts the channels of the outputs and inputs that are on,   *)
(* unless a client assigned an onoff the value it had or deleted one that  *)
(* was on: either is enough to leave the count wrong for ever.             *)
CountMatches ==
  tidy => driverOn = Cardinality(ChannelsOn)

(* The loop waits in one frame at a time, unless it was stopped and        *)
(* started again from within its own wait.                                 *)
WaitsOnce == depth > 1 => disturbed

(* The machines a tick of the main clock moves by itself: those that are   *)
(* no slaves, and the slaves without a master.                             *)
Roots == (Machines \ slave) \cup {m \in slave : master[m] = None}

(* Every block written to the device holds exactly one block of each       *)
(* output that was on: none is missing and none mixed in twice, however    *)
(* time machines were enslaved and released.  Only machines that lead each *)
(* other in a circle stand still, and with them their outputs.  An output  *)
(* connected to an input has the block that came in since the last one,    *)
(* provided the input was on throughout.                                   *)
OneBlockEach ==
  [][inDriver' > inDriver /\ ~disturbed =>
       \A o \in steady \cap Outputs :
         \/ Feed[o] \in Inputs \ steady
         \/ written[o] =
              IF Feed[o] \in {None} \cup steady \cup Led(Roots) THEN 1 ELSE 0]_vars

(* If the values the driver never initialized let the device run empty     *)
(* below the mark, then blocks are written for ever while a user stays on. *)
SoundGoesOn ==
  (<>[](driverOn > 0) /\ inDriver <= hiWater) => []<><<inDriver' > inDriver>>_vars

(* Under the same condition, when the last user is off the clocks stop     *)
(* and all frames return, unless one is turned on again.                   *)
FallsSilent ==
  (inDriver <= hiWater) =>
    (driverOn = 0 ~> (due = {} /\ depth = 0) \/ driverOn > 0)
=============================================================================
