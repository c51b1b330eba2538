--------------------------- MODULE PostProcessing ---------------------------
(***************************************************************************)
(* What T3/thread_runner.c makes of the full buffer: post_processing()     *)
(* counts the bytes of every thread and squeezes runs of one name to one   *)
(* character, in an allocation that doubles when it is full.               *)
(*                                                                         *)
(* Names are chars, signed and 8 bits wide on x86.                         *)
(***************************************************************************)
EXTENDS Integers, FiniteSets, Sequences

CONSTANT Inputs     \* records: thread_number, the argument of the program (not
                    \* 0), and ids, the ids below it of those who wrote each byte

----------------------------------------------------------------------------
(* Names of threads.                                                             *)

Char(x) == ((x + 128) % 256) - 128

get_th_name(id) == Char(65 + IF id > 25 THEN id + 7 ELSE id)

\* Faulty variant: the gap between 'Z' and the small letters is 6 wide.
get_th_id_gap6(name) == (IF name > 90 THEN Char(name - 6) ELSE name) - 65

get_th_id(name) == (IF name > 90 THEN Char(name - 7) ELSE name) - 65

----------------------------------------------------------------------------
VARIABLES
  thread_number, \* parameter of post_processing()
  buffer,     \* buffer[n], n < buff_size - 1: names of threads
  loop,       \* "loop" or "done"
  k,          \* curr_buff - buffer
  j,          \* local variable j
  size,       \* seq_buff_size
  seq,        \* seq_buff[n], n < seq_buff_size
  occ         \* th_occurrences[id]

Size == Cardinality(DOMAIN buffer)      \* buff_size - 1

postVars == <<thread_number, buffer, loop, k, j, size, seq, occ>>

\* Bytes malloc() and realloc() hand out hold anything; no name is 0.
Unset == 0

PostInit ==
  /\ \E in \in Inputs :
       /\ thread_number = in.thread_number
       /\ buffer = [n \in 0 .. Len(in.ids) - 1 |-> get_th_name(in.ids[n + 1])]
  /\ loop = "loop" /\ k = 0 /\ j = 0
  /\ size = thread_number
  /\ seq = [n \in 0 .. thread_number - 1 |-> Unset]
  /\ occ = [id \in 0 .. thread_number - 1 |-> 0]

\* The size of seq_buff once there is room for one more character.
Room == IF j = size THEN 2 * size ELSE size

\* Faulty variant: malloc() in the place of realloc().
GrownFresh == [n \in 0 .. Room - 1 |-> IF Room = size THEN seq[n] ELSE Unset]

\* realloc() keeps what was there.
Grown == [n \in 0 .. Room - 1 |-> IF n < size THEN seq[n] ELSE Unset]

Squeeze(c) ==
  IF j = 0 \/ seq[j - 1] # c
    THEN /\ size' = Room
         /\ seq' = [Grown EXCEPT ![j] = c]
         /\ j' = j + 1
    ELSE UNCHANGED <<size, seq, j>>

Count(c) == occ' = [occ EXCEPT ![get_th_id(c)] = @ + 1]

\* One iteration of the while loop.
Step ==
  /\ loop = "loop" /\ k < Size
  /\ Squeeze(buffer[k])
  /\ Count(buffer[k])
  /\ k' = k + 1
  /\ UNCHANGED <<thread_number, buffer, loop>>

\* The buffer, the squeezed runs and the counts are printed.
Finish ==
  /\ loop = "loop" /\ k = Size
  /\ loop' = "done"
  /\ UNCHANGED <<thread_number, buffer, k, j, size, seq, occ>>

PostNext == Step \/ Finish

PostSpec == PostInit /\ [][PostNext]_postVars

----------------------------------------------------------------------------

(* A name leads back to the thread it was made from ("The corresponding ID *)
(* for it's name", thread_runner.c:198), whose counter then exists.        *)
NamesLeadBack ==
  \A n \in 0 .. Size - 1 : /\ get_th_id(buffer[n]) \in DOMAIN occ
                           /\ get_th_name(get_th_id(buffer[n])) = buffer[n]

\* The bytes read that differ from the one before them.
RunStarts == {n \in 0 .. k - 1 : n = 0 \/ buffer[n - 1] # buffer[n]}

(* The squeezed characters are the first bytes of the runs, in order, all  *)
(* in the allocation, and each thread's counter is the number of its bytes *)
(* among those read.                                                       *)
Summarized ==
  /\ j = Cardinality(RunStarts) /\ j <= size /\ DOMAIN seq = 0 .. size - 1
  /\ \A n \in RunStarts : seq[Cardinality({m \in RunStarts : m < n})] = buffer[n]
  /\ \A id \in DOMAIN occ :
       occ[id] = Cardinality({n \in 0 .. k - 1 : buffer[n] = get_th_name(id)})
============================================================================
