--------------------------- MODULE MCKernelModules ---------------------------
(* The two modules of the kernel, which share nothing: a behaviour is      *)
(* simple_driver or sstf-iosched at work, the other one is not used.       *)
EXTENDS SSTF, SimpleDriver

VARIABLE used   \* the module that is at work

\* A short text, one of two digits, and one that does not fit.
FewLens == {3, 40, 300}

MCInit ==
  /\ used \in {"simple_driver", "sstf-iosched"}
  /\ Init /\ DInit
  /\ used = "simple_driver" => writer = CHOOSE q \in Queues : TRUE

MCNext ==
  /\ UNCHANGED used
  /\ \/ used = "simple_driver" /\ DNext /\ UNCHANGED vars
     \/ used = "sstf-iosched" /\ Next /\ UNCHANGED deviceVars

MCSpec == MCInit /\ [][MCNext]_<<used, vars, deviceVars>> /\ Fairness
============================================================================
