--------------------------- MODULE MCFilterLockTSO ---------------------------
(* An instance of FilterLockTSO for TLC. *)
EXTENDS FilterLockTSO

\* Each thread on a CPU of its own.
Apart == [t \in 1 .. N |-> t]
============================================================================
