------------------------------ MODULE ProcInfo ------------------------------
(***************************************************************************)
(* T1/webmonitor/scripts/getprocinfo.sh: three awk commands in the         *)
(* background write the columns of a table, paste joins them, and the      *)
(* directory they meet in is removed.  f1 and f2 are named pipes; f3 is    *)
(* not, the redirection of the third awk creates it as a plain file.       *)
(*                                                                         *)
(* The commands are external.  A pipe opens when both its ends are opened; *)
(* a redirection to a plain file creates it; awk's few lines are written   *)
(* at once when it ends; rm -r removes the names it has listed.            *)
(***************************************************************************)
EXTENDS Naturals, Sequences

VARIABLES
  sh,       \* where the script is; "ended" before the first run and after each
  dir,      \* whether the directory of mktemp exists
  names,    \* the files in it
  listed,   \* those that rm has listed
  awk,      \* awk[f]: where the command that writes f is
  data,     \* the files whose data is there to be read
  paste,    \* how many of its files paste has been through
  opened,   \* those of them that it has open
  columns   \* the columns of its output that are there

scriptVars == <<sh, dir, names, listed, awk, data, paste, opened, columns>>

Fifos    == {"f1", "f2"}
Files    == {"f1", "f2", "f3"}

\* Faulty variant: the file that is no pipe comes first.
OperandsFileFirst == <<"f3", "f1", "f2">>
Operands          == <<"f1", "f2", "f3">>

ScriptInit ==
  /\ sh = "ended" /\ dir = FALSE
  /\ names = {} /\ listed = {} /\ data = {} /\ opened = {} /\ columns = {}
  /\ awk = [f \in Files |-> "done"] /\ paste = 0

----------------------------------------------------------------------------
(* The script.                                                             *)

\* execscript() starts it.
ScriptStart ==
  /\ sh' = "mktemp" /\ dir' = FALSE
  /\ names' = {} /\ listed' = {} /\ data' = {} /\ opened' = {} /\ columns' = {}
  /\ awk' = [f \in Files |-> "none"] /\ paste' = 0

Mktemp ==
  /\ sh = "mktemp" /\ sh' = "mkfifo"
  /\ dir' = TRUE
  /\ UNCHANGED <<names, listed, awk, data, paste, opened, columns>>

Mkfifo ==
  /\ sh = "mkfifo" /\ sh' = "fork"
  /\ names' = names \cup Fifos
  /\ UNCHANGED <<dir, listed, awk, data, paste, opened, columns>>

\* The three commands with & and then paste: each in a process of its own.
Fork ==
  /\ sh = "fork" /\ sh' = "paste"
  /\ awk' = [f \in Files |-> "open"]
  /\ UNCHANGED <<dir, names, listed, data, paste, opened, columns>>

\* Faulty variant: rm of the pipes and rmdir.
RemovePipes ==
  /\ \/ sh = "rm" /\ sh' = "unlink" /\ listed' = Fifos /\ UNCHANGED <<dir, names>>
     \/ sh = "unlink" /\ sh' = "rmdir" /\ names' = names \ listed
        /\ UNCHANGED <<dir, listed>>
     \/ sh = "rmdir" /\ sh' = "ended" /\ dir' = (names # {})
        /\ UNCHANGED <<names, listed>>
  /\ UNCHANGED <<awk, data, paste, opened, columns>>

Remove ==
  /\ \/ sh = "rm" /\ sh' = "unlink" /\ listed' = names /\ UNCHANGED <<dir, names>>
     \/ sh = "unlink" /\ sh' = "rmdir" /\ names' = names \ listed
        /\ UNCHANGED <<dir, listed>>
     \/ sh = "rmdir" /\ sh' = "ended" /\ dir' = (names # {})
        /\ UNCHANGED <<names, listed>>
  /\ UNCHANGED <<awk, data, paste, opened, columns>>

Script == Mktemp \/ Mkfifo \/ Fork \/ Remove

----------------------------------------------------------------------------
(* The commands.                                                           *)

\* The redirection of an awk to a plain file.
Redirect(f) ==
  /\ f \notin Fifos /\ awk[f] = "open"
  /\ IF dir THEN names' = names \cup {f} /\ awk' = [awk EXCEPT ![f] = "write"]
            ELSE awk' = [awk EXCEPT ![f] = "done"] /\ UNCHANGED names
  /\ UNCHANGED <<sh, dir, listed, data, paste, opened, columns>>

\* awk writes what it has and ends; a pipe that no one reads ends it too.
AwkWrites(f) ==
  /\ awk[f] = "write"
  /\ awk' = [awk EXCEPT ![f] = "done"]
  /\ data' = IF f \in Fifos /\ sh # "paste" THEN data ELSE data \cup {f}
  /\ UNCHANGED <<sh, dir, names, listed, paste, opened, columns>>

\* paste opens its next file.  If that is not there it may give up (then
\* nothing is printed) or go on without it.
PasteOpens ==
  /\ sh = "paste" /\ paste < Len(Operands)
  /\ LET f == Operands[paste + 1] IN
       \/ /\ f \in Fifos /\ awk[f] = "open"
          /\ awk' = [awk EXCEPT ![f] = "write"]
          /\ opened' = opened \cup {f} /\ paste' = paste + 1 /\ UNCHANGED sh
       \/ /\ f \in names \ Fifos
          /\ opened' = opened \cup {f} /\ paste' = paste + 1 /\ UNCHANGED <<sh, awk>>
       \/ /\ f \notin names
          /\ \/ sh' = "rm" /\ UNCHANGED paste
             \/ paste' = paste + 1 /\ UNCHANGED sh
          /\ UNCHANGED <<awk, opened>>
  /\ UNCHANGED <<dir, names, listed, data, columns>>

\* paste waits for what comes through a pipe, and takes of a plain file what
\* is there.
PasteReads ==
  /\ sh = "paste" /\ paste = Len(Operands)
  /\ \A f \in opened \cap Fifos : awk[f] = "done"
  /\ columns' = opened \cap data
  /\ sh' = "rm"
  /\ UNCHANGED <<dir, names, listed, awk, data, paste, opened>>

\* communicate() returns: the script has ended, and so has everyone who holds
\* the pipe of its standard error.
ScriptOver == sh = "ended" /\ \A f \in Files : awk[f] = "done"

ScriptNext == \/ Script \/ PasteOpens \/ PasteReads
              \/ \E f \in Files : Redirect(f) \/ AwkWrites(f)

\* Processes that can go on do.
ScriptFairness ==
  /\ WF_scriptVars(Script) /\ WF_scriptVars(PasteOpens) /\ WF_scriptVars(PasteReads)
  /\ \A f \in Files : WF_scriptVars(Redirect(f)) /\ WF_scriptVars(AwkWrites(f))

----------------------------------------------------------------------------
(* A run of the script that is over has shown nothing at all or the cores  *)
(* and the models of all processors, in whatever order the commands ran    *)
(* (the speeds, which come through a plain file, may be missing); and it   *)
(* leaves its directory behind only if it ended before the third awk had   *)
(* made its file, never if paste found the file there.                     *)
ScriptResult ==
  ScriptOver => /\ columns # {} => {"f1", "f2"} \subseteq columns
                /\ "f3" \in opened => ~ dir
============================================================================
