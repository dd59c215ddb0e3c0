# Open Sound World: models and proofs of its run-time core

The repository is a small Phoenix application around `legacy/osw`, Open Sound
World (OSW): a C++ server, with a Tcl/Tk editor, that runs patches of connected
audio and control transforms. These modules model the part of OSW every patch
depends on: the scheduler and its threads, the activations that states
trigger, the connections between transforms and the rates that spread over
them, the audio loop and its clocks, the name space, and the editor's part in
it. Paths below are relative to
`src/legacy/osw/src/` unless they start with `html/` or `scripts/`, which are
in `src/legacy/osw/`.

## 1. The system

### Components

| component | state | operations | hard behaviour |
|---|---|---|---|
| Scheduler and task threads: `generic/oswSched.cpp`, `generic/oswThread.cpp`, `linux/oswLinuxThread.cpp`, `linux/oswLinuxSelect.cpp` | `xqueue`, `xscheduled` per activation, `xnumEvents`, one mutex, the threads, `xquit` | `Schedule`, `RawGetNextActivation`, `TaskLoop`, `StopThreads`, `InitializeThreads`, `Quit` | several threads under one lock that is dropped in mid-loop; exceptions; cancellation |
| Deferred deletion: `generic/oswDelete.cpp` | `deleteQueue`, `isQueueInUse` | `DeferredDelete`, `DoOneDeferredDelete` in the idle branch of the loop | deleting what is queued or running; an unlocked deque |
| Activations: `generic/oswActivation.cpp`, `generic/oswState.cpp` | per activation `xactivators`, `xstates`, `xon`, `xcount`; per state `xactivations` | `SetActivation`, `AddActivator`, `RemoveActivator`, `ReplaceActivator`, `RegisterActivation`, destructors | assignments from several threads; edits in the middle of a round |
| Connections: `generic/oswTransform.cpp`, `include/oswInletOutlet.h` | `xinlets`, `xoutlets`, `xconnect` | `Connect`, `Disconnect`, `AddInlet`, `AddOutlet`, destructors | one connection in three records; refusals; inlets that change type; a connected patch that is destroyed |
| State variables: `include/oswState.h` | `xval`, `xlock`, `xdirty`, `xdeferred` | `Lock`, `Unlock`, `SafeAssign`, `SetFromBytes` | deferral tested outside the semaphore |
| Sample rate and buffer size: `generic/oswTransform.cpp`, `oswPatch.cpp`, `oswInletOutletTransform.cpp` | rate, size and label per transform | `PropagateSampleRate`, `PropagateNumberOfSamples` | a labelled walk of a cyclic graph that stops at what is up to date, through patches, with truncation |
| Time and clocks: `generic/oswTime.cpp`, `oswClock.cpp` | sample counters, `owns_main_clock`, `xslave` | `AdvanceClock`, `eventProc1..3`, `TimeMachine::Connect` | who advances whom, and who once did |
| Audio drivers: `generic/oswAudio.cpp`, `linux/*Audio.cpp` | buffers, water marks, `xdriverOn`, list of transforms | `DoInputOutputThing`, `WaitUntilReady`, `WriteSamples`, `StartTransform`, `StopTransform` | a loop that drives itself and nests events in its wait; mixing of several writers; a count of users |
| Namespace: `generic/oswNameable.cpp`, `oswContainer.cpp` | path table, container and top-level tables, members | construct, delete, `Rename`, `Find` | a renamed container's children; a name taken again while its owner waits in the delete queue |
| Fan-in, fan-out, switches: `generic/oswFanin.cpp`, `oswFanout.cpp`, `oswBundle.cpp` | `numconnected`, automatic terminals | overrides of `Connect`, `BackConnect`, `Disconnect` | counts that drift |
| OSC server and queries: `generic/oswOSCServer.cpp`, `oswInterface.cpp` | clients, messages in progress | dispatch of one message, replies | one reply per message |
| Patch editor: `scripts/patch.tcl`, `scripts/transform.tcl`, `scripts/connections.tcl`, `generic/oswTcl.cpp` | an object per terminal and per wire, the wire being dragged | `StartConnection`, `EstablishConnection`, `InterpretDrawing`, `DeleteSelection`, `CreateTransform` | several server commands per gesture, while deferred deletions go on |
| Patches and cloning, start-up, MIDI, SDIF, expressions, types and casts, Tk drawing, externals, other ports, Phoenix shell | | | not modelled, see section 7 |

### How they interact

A task thread takes an activation from the scheduler and runs its body. The
body assigns outlets; an outlet assigns the inlet it is connected to; an inlet
marks itself in each activation it triggers; an activation all of whose slots
are marked is run in place, or scheduled when the inlet is parallel. Tcl
commands, OSC handlers and drivers enter at the same places: they assign
states, connect terminals and queue deletions. OSC handlers run in the task
threads, between `Release` and `Lock` of the idle branch.

### What makes each correct

- Scheduler: an activation is in the queue at most once, no request is lost,
  the least order goes first, only the holder of the lock touches the queue,
  every request is served, every thread leaves after `Quit`, a restart leads
  to a working pool.
- Deletion: nothing deleted is queued or running; every deletion happens.
- Activations: each is a barrier over its slots, whatever is added or removed;
  registration is mutual; activations are triggered by order.
- Connections: the three records agree, none dangles unless a connected patch
  was destroyed, values arrive only where their type is accepted, no two outlets
  feed one inlet.
- Editor: between gestures its picture is what is connected, and an inlet has
  one connection.
- State variables: an assignment under a lock takes effect at the last unlock.
- Propagation: it ends, and two connected transforms that agreed before a walk
  agree after it.
- Clocks and audio: the loop is alive while an output is on and stops after
  the last one, waits in one frame at a time, and each block holds one block
  of every output.
- Namespace: every live object is found under its own path, no deleted one is,
  also in the middle of a recursive renaming or deletion.
- OSC: one response per message, to the client that asked.

The hazards that follow from this, each at its line with the properties that
cover it, are in `PROJECT.json`.

## 2. Modules

| module | models | uses |
|---|---|---|
| `WorkSet` | what the scheduler promises: a set of requests and what each thread runs | |
| `Scheduler` | queue, lock, task threads, restart, deferred deletion, clients | `INSTANCE WorkSet` |
| `SchedulerProofs` | theorems about `Scheduler` | `Scheduler` |
| `Rendezvous` | what activations promise: a reusable barrier whose size may change | |
| `Activation` | marks, counts, registrations and the threads that assign states | `INSTANCE Rendezvous` |
| `ActivationProofs` | theorems about `Activation` | `Activation`, `ListProofs` |
| `Connections` | terminals, the three records, types and casts | |
| `ConnectionsProofs` | theorems about `Connections` | `Connections` |
| `Editor` | the editor's objects and gestures, and the delete queue, on the terminals of `Connections` | `EXTENDS Connections` |
| `EditorProofs` | theorems about `Editor` | `Editor`, `ConnectionsProofs`, `ListProofs` |
| `LoopStack` | the loops of a recursive walk in progress, as a stack of sets of calls | |
| `Propagation` | the walks that spread a rate or a size, over a changing graph | `EXTENDS Connections, LoopStack` |
| `PropagationProofs` | theorems about `Propagation` | `Propagation`, `ConnectionsProofs`, `ListProofs` |
| `AudioClock` | the OSS driver's loop, outputs and inputs, clocks and time machines | |
| `AudioClockProofs` | theorems about `AudioClock` | `AudioClock` |
| `Namespace` | objects, containers, their tables, the delete queue and the recursive calls | |
| `NamespaceProofs` | theorems about `Namespace` | `Namespace`, `ListProofs` |
| `ListProofs` | lemmas on numbers, lists, counting, folds and loop stacks, which all these proofs share | `LoopStack` |
| `MCScheduler`, `MCActivation`, `MCPropagation`, `MCEditor`, `MCAudioClock`, `MCNamespace` | small instances for TLC; `MCPropagation` serves `Connections` too | the module named |

Definitions introduced by "Mutant:" are plausible mistakes in the code, one
for each property; they take part in no specification, and show that the
property would notice.

### Scheduler

`queue` counts how often each activation is in `xqueue` (the priority queue's
order among equals is unspecified, so any least one may come out), `scheduled`
is `xscheduled`, `numEvents` is `xnumEvents`, `holder` the owner of
`xsemaphore`. `pc` follows `TaskLoop` and `Schedule` from one unlocked point
to the next; inside the lock the steps are still separate, so that losing the
lock matters. `Release` sets `holder` to `None` whoever calls it, as
`pthread_mutex_unlock` does on a default mutex: that is how a thread that
continues without the lock also frees another's.

A transform is identified with its single activation. A body schedules any
part of `Emits[a]`, one `Schedule` call at a time; a deleted activation is no
longer registered and is skipped. Sockets and clients make at most
`MaxRequests` requests. A handler may queue a deletion; the idle branch
deletes one object, with the lock held, before it polls.

`/osw-restart` runs in a body: `BeginRestart`, one `CancelOne` for each other
thread under the lock, `EndRestart` when the new pool is started. A cancelled
thread ends at a cancellation point it reaches, `select` among them, and keeps
its mutex (`Die`); or the unwinding meets `catch(...)` and the run-time ends
the process (`Abort`). Both are outcomes of real builds. `StopThreads` leaves
dangling pointers in its vector, so a second restart is not modelled.

### Activation

A slot is marked when `xstates[i] = xon`. `SetActivation` takes no lock, so it
is split into reading and writing the word of the packed bit vector, reading
and writing the count, and the reset. Edits of the registrations are single
steps and wait until no assignment is in progress (`Quiet`): they model a
server with one task thread, where handlers and bodies never overlap. With
several setters only assignments interleave. An assignment a body makes is a
later `Assign`. `toGet` is the pointer of a Get transform; dangling, it
equals no slot, and `None` stands for it.

### Connections

`source`, `sink` and `wire` are `xinlets`, `xoutlets` and `xconnect`. A cast
inlet, which lives only as long as its connection, is folded into `wire`.
`Connect` is the whole of `Transform::Connect`: the change of a changeable
inlet, whose old object breaks its recorded connection as it goes, then the
records, then the outlet's answer; a refusal leaves the records written, as
the code does. `FreeEndsOnly` says whether clients connect only ends without
a record. The code does not enforce it; the user's manual states it as a rule.

`RemoveInlet` and `RemoveOutlet` are the destructors of terminals whose
transform is still one when they run: those of an ordinary transform, and of a
patch whose terminal is deleted while the patch stays. `DestroyPatch` is the
destruction of a patch with all that is in it. The terminals of the transforms
inside (`Inside`) are removed as before. The patch's own (`Own`) are deleted in
`~Container`, when the patch is no longer a `Transform`, so `~Inlet` and
`~Outlet` skip `RemoveInlet` and `RemoveOutlet`
(`include/oswInletOutlet.h:86, 257`): the outlet and the inlet at the other ends
keep pointers to freed memory, `Freed` in the model. To follow one is undefined,
and no action does: where an operation would, it is not enabled, and the model
says nothing of what comes after. `LeftByPatches` says how far this goes: only
the destruction of a patch leaves such pointers, and only at what was connected
to the patch itself. A client that disconnects a patch before destroying it never
has one.

### Editor

A gesture is one Tcl command that runs to its end without another gesture, but
not without the server's task threads: `script` holds what is left of it, one
`oswConnect`, `oswPatch add` or `remove`, or edit of the editor's objects at a
time, and `Reap` destroys terminals of queued transforms in between. A failed
command ends its script. `lines` are the `Connection` objects, `lineOf` the
`-connection` of the `Inlet` and `Outlet` objects. The editor connects any
ends, so `FreeEndsOnly` is false here. `CancelConnection` is no action: it
rebinds the click on the widget around the canvas, so the canvas still
completes the connection at the next click on an inlet.

The records of `Connections` do go wrong here. Dragging onto an inlet that has
a wire first writes the new record and then, by deleting the old wire, erases
it (`scripts/patch.tcl:632-645`, `generic/oswTransform.cpp:211`). What keeps
the server from sending to a destroyed inlet is then that the editor deletes
a wire before the transform it leads to, and that deletions are served in
order; `NoDangling` shows that this suffices, for transforms that are no
patches. `ReapsEarly` lifts the first:
editing a transform's command queues the old one before its wires are deleted
(`scripts/transform.tcl:592-595`), and a thread that is quick enough leaves an
outlet with a dangling pointer. The passing run has it false; with it true
TLC finds the dangling pointer. So does a client that drags a second wire of
another type onto a changeable inlet whose record was erased: the inlet is
replaced and its outlet not told. The drags here are all of one type, and clients
of free ends never replace an inlet that has an outlet, so no property covers
that hazard.

### Propagation

Both walks of `TimeDomainTransform` are one action: `walk` says which it is
and carries the rate and the size every call is given. A recursive walk is a
stack of loops in progress; `calls` keeps for each the calls it has still to
make, and `Visit` makes one of the innermost loop. A loop may make its calls
in any order: the code's is that in which the terminals were made, so whatever
is shown holds for every such order. When a loop is over the next one goes on,
which is where the overrides come in: a patch goes on inside (`Within`) after
its ordinary walk, an inlet transform calls its patch only if it went on
itself, an outlet transform in any case (`Upward`). `Home` is `GetContainer`.
The walk uses `source` and `sink` of `Connections`, the records, as the code
does, and connections are edited between walks (`EditConnections`), which
adjusts nothing: the code that would is commented out
(`generic/oswTransform.cpp:486-502`). No walk begins while a record leads to
freed memory, since it would follow it (`Begin`). A transform without terminals
is taken to be destroyed: no walk begins there, and what is made in its place has
the default rate and size.

A label is `rand()`; two walks, or a walk and an uninitialized label, are
taken never to meet the same one. The division by the rate is taken as exact
and then truncated, where the code divides floats.

### AudioClock

`due` is the part of the scheduler's queue that matters here: time machines,
the implicit time manager and the driver's `checkStatus`, which comes last by
its order. `depth` counts the frames of `checkStatus` that wait, `pc` is where
the innermost one is: at the test of the mark, in `DoOneEvent`, or at the
sockets after it. One task thread runs everything, so handlers may turn
outputs and inputs on and off inside the wait; only so can a second frame come
up. Both count as users of the driver, one per channel. After a block is
written, in the same step, the inputs that are on send theirs, before the
clocks are assigned: an output connected to an input has mixed its part of the
next block before any other output is scheduled. Reading a block from the
device, which may wait for it, is part of that step.
Amounts are counted in blocks. `inDriver` is `xsamplesInDriver` as
`SamplesInBuffer` would update it; it starts uninitialized, as does the mark:
setting the sample rate assigns `hiWater`, the OSS driver refuses it, and
`hiWaterChangedExpr` puts back `xoldHiWater`, which nothing ever set
(`generic/oswAudio.cpp:158-170`). `Garbage` and `Marks` are what they may
hold, and the liveness properties say under which outcome they hold.

A machine runs when the main clock ticks, unless it is a slave; slaves run
when their master does (`Led`, the least set of machines that holds those and
is closed). A slave whose wire was cut keeps `xslave`. It
goes on only because the implicit time manager assigns the main clock to its
unconnected `timeIn`: the test that should exempt time machines compares two
types that are never the same. Machines that lead each other in a circle
stand still, and `OneBlockEach` says so.

A machine or an input that drives several others does so through FanOuts. The
first two outlets of one run what they are connected to in place; the outlet it
adds when these are taken makes the inlet at its other end parallel
(`generic/oswFanout.cpp:138-146`), so what is there is scheduled. It still comes
before `checkStatus` of the same block, and the model runs it in place as well.

An onoff assigned the value it has is counted again, and a transform deleted
while it is on is not counted off. `CountMatches` is what remains true, and holds
only until one of these happens; that the drift never strands the loop is what
`LoopAlive` says.

### Namespace

A path is the sequence of the names on it. `table`, `containers` and `tops`
are the three hash maps, `members` the lists. `Rename` and `~Container` call
themselves for their members; `work` is the stack of calls still to be made,
and each step makes one, so that the state between two calls can be looked at.
What is inside a container, at any depth, is the least set that holds its
members and theirs (`Inside`).
Lists are in order of creation, and that order matters: when an object has
taken the name of a queued sibling and their container is renamed, both are
entered under one path, and the newcomer wins because it comes later. With
members in any order TLC finds `AllFound` violated.

The tables of containers and of top-level objects are treated less carefully
than the path table: `Container::Rename` leaves them alone, and erasing does
not ask whose entry goes. `Enumerated` states what the clients that enumerate
them can rely on in spite of it.

Restrictions: each object is created once; a name is free, or taken by a
sibling in the delete queue, when an object is created, and free when one is
renamed, as the editor chooses names; nothing is destroyed twice or together
with its container.

## 3. Runs

| run | question | bounds |
|---|---|---|
| `SchedPool` | lock, flag, count, refinement, service and termination with concurrency | 2 threads, 1 spare, 1 client, 3 activations, 3 requests |
| `SchedSolo` | deletion and exceptions with one thread | 1 thread, 1 client, 2 activations, 3 requests |
| `SchedThrow` | is the lock always held where the queue is read? (no) | 2 threads |
| `SchedRestart` | does a restart lead to a working pool? (no) | 2 threads, 1 spare |
| `ActBook` | registrations and rounds with one assigning thread | 2 activations, one of them a Get's, 3 states, 2 slots |
| `ActRace` | does a full activation fire with two assigning threads? (no) | 1 activation, 2 states |
| `ActGet` | does Get hear its variable? (no) | 1 Get, 2 variables |
| `ConnFree` | connections of free ends, and walks over them | 3 outlets, 4 inlets, 5 types, one cast, 4 transforms of which one is a patch with an inlet and an outlet transform, which may be destroyed and made again, 1 new rate, 1 new size, 2 walks |
| `EditDrag` | editor, connections and deferred deletion together | 4 transforms with 3 outlets and 2 inlets, all of one type; gestures only at free ends, no early reaping |
| `EditGesture` | does a gesture keep one connection per inlet? (no) | the same, gestures anywhere |
| `AudioLoop` | is the loop alive, single, complete and able to stop? | a stereo output on the time of a machine and a mono one fed by an input, 2 time machines, a device of 2 blocks, `driverOn` up to 4, 2 nested waits; the uninitialized mark is below, equal to or above the count of samples |
| `Names` | are tables, members and paths right between and during calls? | 2 containers, 2 other objects, 2 names, paths of 3 names |

Why the bounds suffice. Two task threads and a client give every overlap of
two threads and a `Schedule` from outside; a third thread appears after a
restart. Three requests allow one to arrive while its activation is queued and
one while it runs. `src` feeds `snk` and has the smaller order, so order
matters. Two slots and three states allow a round to be half full when a slot
is added, removed or replaced, and both activations to share a state. The
types give every answer of an outlet: same type, cast, refusal, `Any`, and an
inlet that changes type.

In `ConnFree` any outlet may meet any inlet of its type, so the graphs include
cycles through the patch and a patch connected to itself. Two walks are needed:
one may set a rate at some transforms and the next a size, which is then
converted at the border; a walk after the first meets transforms that have
the value already. The walk of a size is the last, since walks of rates do not
look at sizes, and clients stop after the last walk. The patch may be destroyed while the outside transform `gen`
is connected to its inlet, its outlet or both, after which `gen` has freed
pointers; new terminals are made in the patch's place, so connections come and go
beside the pointers that stay.

In `AudioLoop` 4 is every user on at once, and lets the count drift by a
repeated onoff and return; only the difference of the two uninitialized values
matters, so the device never is ready, must be empty, or always is ready; two
waits suffice to show that a second one starts only after a stop and a start
inside the first. In `Names` two containers and paths of three names allow a
container in a container and an object in the inner one; two names, that a
name is taken again.

In `EditDrag` three outlets let an inlet be taken over twice, and one
transform with both kinds of terminal be source and sink. Types and changeable
inlets are left to `ConnFree`: a refused connection, or an inlet replaced
after its record was erased, leaves the editor with pointers to freed objects,
whose use is undefined.

`SchedPool` and `SchedSolo` do not report deadlock: after `Quit`, or when an
abort ends the process, the system stops. `Names` does not either: when every
object has been created and deleted there is nothing left to do. Nor does
`ConnFree`, whose clients may stop; that a walk never stops half way is
`WalkEnds`.

`NoUseAfterDelete` is checked, and proved, for one task thread. With two, the model finds
the idle thread deleting what the other is running: nothing in the code
prevents it, and no document promises it; it is listed as a hazard.

### What disagrees with the documentation

- `SchedThrow`: a body throws after `Release`; the handlers around the loop do
  not lock again (`generic/oswThread.cpp:211-221`), though
  `RawGetNextActivation` "assumes the caller has already locked".
- `SchedRestart`: a thread cancelled in `select` leaves the mutex locked, or
  the whole process ends, where a restart of the threads is announced.
- `ActRace`: `--xcount` by two threads, which in TLC's trace assign the same
  activator, loses a decrement, and the activation
  never fires again although all its states change.
- `ActGet`: after its variable was deleted, a Get given another one waits for
  an empty slot for ever.
- `EditGesture`: a figure drawn around an outlet and an inlet that has a wire
  leaves two outlets sending to that inlet, against
  "at most one connection ... entering any inlet".

## 4. Fairness

`FairSpec` of `Scheduler` gives weak fairness to each task thread and to a
client inside `Schedule`: a runnable thread is eventually run by the operating
system. Nothing is assumed of the mutex: a thread waiting for it may be
overtaken for ever. Nothing obliges clients or sockets to make requests.
`SchedRestart` uses `FairLockSpec`, strong fairness, which lets each waiting
thread have the mutex if it is free again and again: a stronger assumption
than the code justifies makes the refutation stronger.

`FairSpec` of `Activation`: a thread in the middle of an assignment goes on.

`PropSpec`: a walk, which is a recursion in one thread, goes on. `Spec` of
`AudioClock`: the task thread takes what is due and goes on in its wait
(`LoopStep`), and the sound card plays what it has (`Play`) and delivers what
it records. Handlers, edits
and deletions are never obliged to happen, and `SoundGoesOn` holds even if
they happen for ever.

`QueuedRuns` and `DeletesHappen` hold because bodies schedule finitely often:
in a patch with a cycle, activations of small order can starve others, and
the idle branch, by design. `Emits` in these runs has no cycle.

## 5. What is proved

All proofs are for arbitrary constants under the modules' named assumptions.
Every invariant and every action property that a passing run checks is a
theorem, and so is every refinement; where a theorem needs an assumption
besides, it is named here, with the run that shows what happens without it.

`SchedulerProofs`, assuming `Throwers = {}` (with throwers `SchedThrow` is a
counterexample): type correctness, `LockDiscipline`, `QueueFlagAgree`,
`CountAgrees`, `TakesUnderLock`, and that `Spec` implements `WorkSet`, for any
number of activations, threads, clients, restarts' victims and deletions. The
invariants are not inductive alone. The flag agrees with the queue only
because a process between the test and the push still finds the flag clear
(`ScheduleArgs`), which needs that no other process is inside the lock
(`LockDiscipline`); that in turn needs that a thread which stops others holds
no lock and is alone (`StopAlone`); the refinement needs that a thread at the
loop has no body on its stack (`BodyPlaces`). `CountAgrees` rests on two
lemmas on cardinalities, `PushCounts` and `PopCounts`. `IInv` is the
conjunction.

`NoUseAfterDelete` has an invariant of its own (`DeleteInv`), and allows
throwers. It assumes one task thread (`OneWorker`) and that no process deletes
what another client schedules (`OwnDeletes`): a client keeps a pointer from
before `Lock` to after the push, and nothing else protects it. Neither the
lock nor the flags take part: the idle branch is reached with an empty queue,
by the only thread that could be running something.

`ActivationProofs`: type correctness, `Mutual` and `ByOrder`, for any states,
activations, orders, slots and setters; and with one setter (`OneSetter`, for
which `ActRace` is the reason) `CountsDown` and that `Spec` implements
`Rendezvous`. `Mutual` is stronger inside a destructor: after each removal of
its loops an activation is in a state's list as often as the state is in its
slots, every slot has a mark, and lists are in order (`Good`). The loops are
folds; the proofs follow a fold over the places of its list. Besides, a dead
state lists no activation (`DeadUnlisted`), a Get's pointer is to a live state
or nothing (`Watched`), and an assignment in progress has an activation to go
on with and a word as long as its slots (`ThreadOK`), because edits wait for
assignments. For the count, the invariant `RInv` says what one setter may have
done so far (`Round`): between marking and counting the count is one more than
what is owed, at the reset nothing is owed, and everywhere else it is what is
owed. The refinement is a step lemma over that: the write of the word is an
arrival, the reset the firing, an edit changes the size or replaces an object,
and every other access is a stutter.

`ConnectionsProofs`, assuming `FreeEndsOnly` (without it `EditGesture` is a
counterexample): type correctness, `RecordsAgree`, `WellTyped`, `AtMostOneEntering` and the
action properties `OthersUntouched` and `LeftByPatches`, for any terminals,
patches, types, casts and changeable inlets; and, where there are no patches,
`NoDangling` (`NothingDangles`). With a patch, `ConnFree` reaches states in which
`NoDangling` is false. The strengthening is `WireRecorded`: what an outlet sends
through is recorded for it. Then two outlets with one target would both be that
target's recorded source. `Alive` says that only live terminals have records, and
that what these lead to is live unless it is freed; so a live terminal leads to a
deleted one exactly when its record is `Freed`, and `OnlyPatches` follows from
looking, action by action, at who writes `Freed` where it was not. Only
`DestroyPatch` does: what leads to the terminals inside is recorded for them
(`RecordsAgree`) and was told.

`EditorProofs`: type correctness, `ShownAsWired`, `OneConnection` and
`NoDangling`, for any transforms and terminals, under `Orderly`: gestures
start at free ends (else `EditGesture`), a transform is queued after its wires
are deleted (else TLC finds the dangling pointer), and all terminals have one
type (`OneType`), because a refused or replaced inlet leaves the editor with
pointers to freed objects, as said in section 3. `Connections`' own invariant
is of no use here, since a drag onto a wired inlet erases the record. What
remains is one-sided: a recorded source leads to its inlet, and what is drawn
is connected (`Recorded`). The rest says, for each point of a script, how far
the picture may be from the server: it lacks the wire about to be drawn, or
one from an outlet whose transform is destroyed before the inlet's (`Drawn`,
`Linked`); a script is the rest of a known gesture (`Gestures`, `Dragged`); a
terminal the editor forgot belongs to a transform that is queued, or about to
be (`Leaving`), and none is queued twice (`QueuedOnce`).

`PropagationProofs`: `Implementation`, a walk is a stutter of `Connections`,
so `ConnectionsKept` carries the invariants over, assuming `FreeEndsOnly`; and
`Agreement`, that `AgreementKept` holds for any graph of connections, patches,
rates and sizes, which needs no such assumption. While a walk goes on two
connected transforms that agreed before it may differ. Then one has its new
value and the label, the other has neither, does not hold the carried value,
and is still to be called (`Awaits`): when no call is left, none differ. To be
inductive this needs that a labelled transform holds the value the walk
carries or the one it was given (`LabelsInv`), that the call which starts the
walk, exempt from the test, comes first (`StartInv`, `Fresh`), and that taking
or pushing a call loses no other (`ListProofs`).

`AudioClockProofs`: type correctness, `LoopAlive`, `WaitsOnce`, `OneBlockEach`
and `CountMatches`, for any outputs, inputs, channels, machines, wires, device
and garbage. What `WaitsOnce` needs besides itself is `StatusTaken`:
`checkStatus` is not due during its own wait unless the loop was stopped and
started there. `OneBlockEach` follows from a ledger (`BlockInv`): an output has
mixed its block once, or what drives it, the implicit time manager or a
machine at the root of those that lead to it, is still due (`Served`,
`Awaited`). It needs that no two roots lead one machine, for each has one
master (`LedApart`), and that a tick reaches every root (`TickReaches`).
`CountMatches` is about a sum of channels, and rests on what turning one user
on or off does to it.

`NamespaceProofs`, for any objects, containers, names and depth, in four
layers.

- `TableSound` at every call. Erasing an entry with its object is half of it.
  The other half is that only what exists is entered: what is being renamed
  exists (`OnlyRenaming`), and so do its members (`MembersExist`), because an
  object that goes is taken off its container's list unless the container is
  already being deleted; that in turn needs the lists to hold each object once
  and only where its container is (`ListsOK`).
- `TreeOK`, `PathsNest` and `NoGhosts`, restated for the middle of a recursion
  (`TreeInv`): a container knows its members until it begins to go (`Homes`),
  who has lost its container is about to go (`Orphaned`), a path leads through
  the container's or there is a call to come (`Nested`), and the queue stays
  apart from all that is being deleted (`QueueApart`).
- `AllFound`. Two objects may have one path: one of them is on its way out, and
  so may all that is inside them. An object that stays is found or still to be
  renamed (`StayingFound`); whoever took the name of a sibling is later in the
  list (`Newcomers`); and no object that stays and was visited has a path that
  is still to be given (`Unvisited`, `CallOrder`, `NamesGiven`), so no entry of
  one is overwritten. Without the order of the lists `Newcomers` fails, and
  `AllFound` with it.
- `Enumerated`. Entries of the other two tables are erased without asking whose
  they are. So an object that keeps its first name, which was nobody's then,
  must share its path with none that exists (`FirstNames`), and what is erased
  must be that of an object that exists: none is deleted twice
  (`DeletedOnce`), because members are taken off before they are deleted and
  nothing being deleted is inside another such object.

Where a proof needs induction it is over sets of naturals: `NoDescent` and
the lemmas after it in `ListProofs` hold because a finite set is not mapped
into itself one to one and not onto. A fold (`FoldLeft`, `MapThenFoldSet`) is
expanded to the recursive function it is, and followed over its places. What
is inside an object, or led by a machine, is a least closed set, so facts about
it come from exhibiting a closed set.

Only model-checked: liveness (`QueuedRuns`, `QuitTerminates`,
`DeletesHappen`, `RendezvousFires`, `WalkEnds`, `SoundGoesOn`, `FallsSilent`),
which speaks of `ENABLED` and is out of the prover's reach.

## 6. Plan

In this order; the modules written so far come first because every patch runs
through them.

1. `Scheduler`, `Activation`, `Connections`, `Editor`, `Propagation`,
   `AudioClock`, `Namespace`, and the proofs of section 5, of all their safety
   properties (done).
2. Of what liveness rests on, the part that is safety: a measure that every
   call of a walk lowers, for `WalkEnds`; and for `RendezvousFires`, that an
   assignment in progress is never without a next step.
3. The overrides of `Connect` in FanOut, FanIn and AudioOutput, on top of
   `Connections`; with `Activation`, the duplicate slot of a reconnected
   AudioOutput.
4. `OSCDispatch`: one response per message, clients and disconnects.
5. A second driver (Jack), whose callback takes activations too.
6. The watchdog's counters, which are printed and cleared before they are sent.

The lock of a state (`Lock`, `Unlock`, `SafeAssign`) has been looked at and
left out: with one thread it is sequential, with two an assignment may be
lost, and nothing documented says what it should do then.

## 7. Not modelled

- In `Scheduler`: `idleThreads` and the counters of the watchdog, which decide
  nothing; exceptions of socket handlers; the data race on the deque of
  deferred deletions and a second request for the same object; null arguments;
  the loops of other ports (`Loop`, `UILoop`). `DoOneEvent`, which the audio
  driver's wait calls on Linux too, is in `AudioClock`.
- In `Activation`: whether an activation is run in place or scheduled
  (`xparallel`), which `Scheduler` covers from the other side; effects.
- In `Connections`: the overrides of `Connect`, `SetParallel`, and the values
  sent. For outlets of type `Any`, which accept every inlet and convert or
  refuse at each value, `WellTyped` says nothing. What a program does after it
  followed a freed pointer is undefined and not modelled; nor is the destruction
  of a patch one of whose own terminals is connected to a terminal inside it
  (`Entangled`), where it depends on the order of the members whether that
  happens, or of patches in patches.
- In `Propagation`: walks that a clock source starts at each of its
  transforms, transforms that answer a new rate by other changes, equal random
  labels, float rounding.
- In `AudioClock`: ALSA and Jack, the formats of samples, changing the
  settings of a running driver, several clock sources, the values of time.
- In `Namespace`: relative paths and `$` variables, the counters of instances,
  tables that are deleted when they become empty, two requests to destroy one
  object.
- State locks and OSC: see section 6.
- Patches and cloning, start-up, MIDI, SDIF, expression parser, lists, tables,
  numerics, externals, Tk drawing, the ports to Windows, Mac OS X and SGI, and
  the Phoenix shell: sequential, numeric, graphical or device I/O.
