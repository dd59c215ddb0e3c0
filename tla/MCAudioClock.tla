---------------------------- MODULE MCAudioClock ----------------------------
(***************************************************************************)
(* A stereo output on the time of machine fast, a mono one connected to an *)
(* input, and a machine slow that may lead fast or be led by it.  What     *)
(* matters of the uninitialized ints is their difference: the driver waits *)
(* even for an empty device, until the device is empty, or not at all.     *)
(***************************************************************************)
EXTENDS AudioClock

CONSTANTS stereo, mono, mic, fast, slow

MCChannels == [u \in Users |-> IF u = stereo THEN 2 ELSE 1]
MCFeed == [o \in Outputs |-> IF o = stereo THEN fast ELSE mic]
MCGarbage == {0}
MCMarks == {-1, 0, 2}
=============================================================================
