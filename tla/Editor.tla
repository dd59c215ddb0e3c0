-------------------------------- MODULE Editor -------------------------------
(***************************************************************************)
(* The patch editor (scripts/patch.tcl, scripts/transform.tcl and          *)
(* scripts/connections.tcl) on top of the connections of the server.       *)
(*                                                                         *)
(* The editor has an object for each terminal and one for each wire drawn. *)
(* A terminal object names the wire drawn at it; the destructor of a wire  *)
(* clears both names and disconnects the outlet.  A gesture is a script of *)
(* server commands and edits of these objects; a command that fails ends   *)
(* its script.  Deletions are deferred: transforms wait in a queue, and    *)
(* the server destroys their terminals between any two commands.  The      *)
(* transforms are no patches.                                              *)
(***************************************************************************)
EXTENDS Connections, SequencesExt

CONSTANTS
  Transforms,
  Owner,          \* transform of each terminal
  TakenGestures,  \* whether figures are drawn around terminals with a wire
  ReapsEarly      \* whether the server destroys a transform whose wires the
                  \* editor is about to delete

Terminals == Inlets \cup Outlets

ASSUME EditorAssumption ==
  /\ Owner \in [Terminals -> Transforms]
  /\ TakenGestures \in BOOLEAN
  /\ ReapsEarly \in BOOLEAN
  /\ IsFiniteSet(Terminals)
  /\ None \notin Outlets \X Inlets

VARIABLES
  shown,    \* terminals with an editor object
  lines,    \* wires drawn, each a pair of an outlet and an inlet; two wires
            \* between the same terminals count as one
  lineOf,   \* "connection" of a terminal object
  drag,     \* oswConnectionSource while EstablishConnection is bound
  script,   \* rest of the gesture under way
  doomed    \* deleteQueue

picture == <<shown, lines, lineOf>>
editor == <<shown, lines, lineOf, drag, script, doomed>>

EditInit ==
  /\ Init
  /\ shown = Terminals
  /\ lines = {}
  /\ lineOf = [t \in Terminals |-> None]
  /\ drag = None
  /\ script = <<>>
  /\ doomed = <<>>

Idle == script = <<>>

(* The terminals of a transform, inlets first.                             *)
TerminalsOf(tr) ==
  SetToSeq({i \in Inlets : Owner[i] = tr}) \o
  SetToSeq({o \in Outlets : Owner[o] = tr})

Each(op, s) == [k \in DOMAIN s |-> <<op, s[k]>>]

-----------------------------------------------------------------------------
(* What the user does.                                                     *)

(* TransformWidget::StartConnection: a wire at the outlet is given up.     *)
StartConnection(o) ==
  /\ Idle
  /\ o \in shown
  /\ drag' = o
  /\ script' = << <<"unline", o>> >>
  /\ UNCHANGED <<vars, picture, doomed>>

(* Mutant: the old wire of the inlet stays.                                *)
EstablishBeside(i) ==
  /\ Idle
  /\ drag # None
  /\ i \in shown
  /\ drag' = None
  /\ script' = << <<"connect", drag, i>>, <<"draw", drag, i>> >>
  /\ UNCHANGED <<vars, picture, doomed>>

(* Patch::EstablishConnection, at a click on an inlet: the old wire of the *)
(* inlet is deleted after the new connection is made.  CancelConnection    *)
(* only erases the line dragged and leaves the click bound to this.        *)
EstablishConnection(i) ==
  /\ Idle
  /\ drag # None
  /\ i \in shown
  /\ drag' = None
  /\ script' = << <<"connect", drag, i>>, <<"unline", i>>, <<"draw", drag, i>> >>
  /\ UNCHANGED <<vars, picture, doomed>>

(* Patch::InterpretDrawing of a figure around an outlet and an inlet, which *)
(* looks at neither's wire.                                                *)
DrawAndMakeConnection(o, i) ==
  /\ Idle
  /\ drag = None
  /\ {o, i} \subseteq shown
  /\ TakenGestures \/ (lineOf[o] = None /\ lineOf[i] = None)
  /\ script' = << <<"connect", o, i>>, <<"draw", o, i>> >>
  /\ UNCHANGED <<vars, picture, drag, doomed>>

(* TransformWidget's destructor, from Patch::DeleteSelection.              *)
DeleteTransform(tr) ==
  /\ Idle
  /\ \E t \in shown : Owner[t] = tr
  /\ script' = Each("forget", TerminalsOf(tr)) \o << <<"remove", tr>> >>
  /\ UNCHANGED <<vars, picture, drag, doomed>>

Gone(tr) ==
  /\ \A k \in DOMAIN doomed : doomed[k] # tr
  /\ \A t \in shown : Owner[t] # tr

(* TransformWidget::CreateTransform of a new widget, ...                    *)
CreateTransform(tr) ==
  /\ Idle
  /\ Gone(tr)
  /\ script' = Each("make", TerminalsOf(tr))
  /\ UNCHANGED <<vars, picture, drag, doomed>>

(* ... and of one whose command is edited: the old transform is put in the *)
(* queue before its wires are deleted, then the new one is made.           *)
ReplaceTransform(old, new) ==
  /\ Idle
  /\ \E t \in shown : Owner[t] = old
  /\ Gone(new)
  /\ script' = << <<"remove", old>> >> \o Each("forget", TerminalsOf(old))
               \o Each("make", TerminalsOf(new))
  /\ UNCHANGED <<vars, picture, drag, doomed>>

-----------------------------------------------------------------------------
(* The commands of a script.                                               *)

Command(op) == ~Idle /\ Head(script)[1] = op
Done == script' = Tail(script) /\ UNCHANGED drag

(* Mutant: the server is not told.                                         *)
DeleteLineQuietly(l) ==
  /\ lines' = lines \ {l}
  /\ lineOf' = [lineOf EXCEPT ![l[1]] = None, ![l[2]] = None]
  /\ UNCHANGED vars

(* Connection's destructor: "oswConnect outlet none".                      *)
DeleteLine(l) ==
  /\ lines' = lines \ {l}
  /\ lineOf' = [lineOf EXCEPT ![l[1]] = None, ![l[2]] = None]
  /\ IF l[1] \in liveOutlets /\ sink[l[1]] # None
       THEN Disconnect(l[1])
       ELSE UNCHANGED vars

DeleteLineAt(t) ==
  IF lineOf[t] = None THEN UNCHANGED <<vars, lines, lineOf>> ELSE DeleteLine(lineOf[t])

Unline ==
  /\ Command("unline")
  /\ DeleteLineAt(Head(script)[2])
  /\ Done
  /\ UNCHANGED <<shown, doomed>>

(* Mutant: a terminal object goes without its wire.                        *)
ForgetAlone ==
  /\ Command("forget")
  /\ shown' = shown \ {Head(script)[2]}
  /\ Done
  /\ UNCHANGED <<vars, lines, lineOf, doomed>>

(* Inlet's and Outlet's destructors.                                       *)
Forget ==
  /\ Command("forget")
  /\ DeleteLineAt(Head(script)[2])
  /\ shown' = shown \ {Head(script)[2]}
  /\ Done
  /\ UNCHANGED doomed

(* "oswConnect outlet inlet" fails when an end is not found or the outlet  *)
(* refuses; what Transform::Connect has recorded by then stays.            *)
ConnectEnds ==
  /\ Command("connect")
  /\ LET o == Head(script)[2]
         i == Head(script)[3]
     IN  IF o \in liveOutlets /\ i \in liveInlets
           THEN /\ Connect(o, i)
                /\ script' = IF wire'[o] = i THEN Tail(script) ELSE <<>>
           ELSE script' = <<>> /\ UNCHANGED vars
  /\ UNCHANGED <<picture, drag, doomed>>

(* Mutant: the wire is drawn whatever has become of its ends.              *)
DrawAnyway ==
  /\ Command("draw")
  /\ LET l == Tail(Head(script))
     IN  /\ lines' = lines \cup {l}
         /\ lineOf' = [lineOf EXCEPT ![l[1]] = l, ![l[2]] = l]
  /\ Done
  /\ UNCHANGED <<vars, shown, doomed>>

(* Patch::MakeInternalConnection, which fails without both objects.        *)
Draw ==
  /\ Command("draw")
  /\ LET l == Tail(Head(script))
     IN  IF {l[1], l[2]} \subseteq shown
           THEN /\ lines' = lines \cup {l}
                /\ lineOf' = [lineOf EXCEPT ![l[1]] = l, ![l[2]] = l]
           ELSE UNCHANGED <<lines, lineOf>>
  /\ Done
  /\ UNCHANGED <<vars, shown, doomed>>

(* OSWTcl_Patch "remove": DeferredDelete.                                  *)
Defer ==
  /\ Command("remove")
  /\ doomed' = Append(doomed, Head(script)[2])
  /\ Done
  /\ UNCHANGED <<vars, picture>>

Make ==
  /\ Command("make")
  /\ LET t == Head(script)[2]
     IN  /\ IF t \in Inlets THEN AddInlet(t) ELSE AddOutlet(t)
         /\ shown' = shown \cup {t}
  /\ Done
  /\ UNCHANGED <<lines, lineOf, doomed>>

(* Patch::DeleteSelection of one wire.                                     *)
DeleteWire(l) ==
  /\ Idle
  /\ DeleteLine(l)
  /\ UNCHANGED <<shown, drag, script, doomed>>

-----------------------------------------------------------------------------
(* The server destroys the first transform of the queue.                   *)

Reap(t) ==
  /\ doomed # <<>>
  /\ Owner[t] = Head(doomed)
  /\ ReapsEarly \/ \A u \in shown : Owner[u] # Head(doomed)
  /\ IF t \in Inlets THEN RemoveInlet(t) ELSE RemoveOutlet(t)
  /\ UNCHANGED editor

EndReap ==
  /\ doomed # <<>>
  /\ \A t \in liveInlets \cup liveOutlets : Owner[t] # Head(doomed)
  /\ doomed' = Tail(doomed)
  /\ UNCHANGED <<vars, picture, drag, script>>

UserStep ==
  \/ \E o \in Outlets : StartConnection(o)
  \/ \E i \in Inlets : EstablishConnection(i)
  \/ \E o \in Outlets, i \in Inlets : DrawAndMakeConnection(o, i)
  \/ \E tr \in Transforms : DeleteTransform(tr) \/ CreateTransform(tr)
  \/ \E old, new \in Transforms : ReplaceTransform(old, new)
  \/ \E l \in lines : DeleteWire(l)

CommandStep == Unline \/ Forget \/ ConnectEnds \/ Draw \/ Defer \/ Make

EditNext ==
  \/ UserStep
  \/ CommandStep
  \/ \E t \in Terminals : Reap(t)
  \/ EndReap

EditSpec == EditInit /\ [][EditNext]_<<vars, editor>>

-----------------------------------------------------------------------------
(* The two ends of every wire drawn have objects, and both name it, so     *)
(* that deleting either end finds it; and the queue holds a transform once.*)
EditTypeOK ==
  /\ TypeOK
  /\ shown \subseteq Terminals
  /\ lines \subseteq shown \X shown
  /\ \A t \in Terminals, l \in lines : t \in {l[1], l[2]} => lineOf[t] = l
  /\ \A t \in Terminals : lineOf[t] \in lines \cup {None}
  /\ drag \in Outlets \cup {None}
  /\ IsInjective(doomed)

(* "There can be at most one connection leaving any outlet or entering any *)
(* inlet", between gestures, of the transforms in the picture.             *)
OneConnection ==
  Idle => \A o, p \in Outlets \cap shown :
            wire[o] = wire[p] /\ wire[o] \in Inlets => o = p

(* Between gestures a wire is drawn exactly where the server has a         *)
(* connection, whatever failed, was replaced or deleted on the way.        *)
ShownAsWired ==
  Idle => \A o \in Outlets \cap shown, i \in Inlets \cap shown :
            <<o, i>> \in lines <=> wire[o] = i
=============================================================================
