----------------------------- MODULE BufferFill -----------------------------
(***************************************************************************)
(* What thread_runner shows its user: the threads fill the buffer from its *)
(* first byte to its last but one, each byte once and with the name of one *)
(* of them, and the buffer is reported when it is full and not before.     *)
(***************************************************************************)
EXTENDS Naturals, Sequences

CONSTANTS Workers,    \* the threads that write
          Capacity    \* bytes before the terminating NUL

VARIABLES filled,     \* the names written so far
          reported    \* post_processing() has read the buffer

vars == <<filled, reported>>

Init == filled = <<>> /\ reported = FALSE

Write(w) ==
  /\ Len(filled) < Capacity
  /\ filled' = Append(filled, w)
  /\ UNCHANGED reported

Report ==
  /\ Len(filled) = Capacity
  /\ ~ reported
  /\ reported' = TRUE
  /\ UNCHANGED filled

Next == (\E w \in Workers : Write(w)) \/ Report

Spec == Init /\ [][Next]_vars
============================================================================
