---------------------------- MODULE MCScheduler ----------------------------
(***************************************************************************)
(* Small patches for the scheduler: src feeds snk, and rst is the handler  *)
(* of an OSC command that may restart the threads.                         *)
(***************************************************************************)
EXTENDS Scheduler

CONSTANTS src, snk, rst, t1, t2, t3, c1

MCOrder == [a \in Activations |-> IF a = src THEN 0 ELSE 1]
MCEmits == [a \in Activations |-> IF a = src THEN {snk} ELSE {}]

(* Two task threads and one client: the client sets an input of src or of  *)
(* snk, sockets reach src and the restart command; nothing is deleted.     *)
PoolInputs == [p \in Procs |-> IF p \in Clients THEN {src, snk} ELSE {src, rst} \cap Activations]
NoDoomed == [p \in Procs |-> {}]

(* One task thread: sockets reach src, Tcl or an OSC handler deletes.      *)
SoloInputs == [p \in Procs |-> IF p \in Clients THEN {} ELSE {src}]
SoloDoomed == [p \in Procs |-> {src, snk}]
=============================================================================
