----------------------------- MODULE WebMonitor -----------------------------
(***************************************************************************)
(* T1/webmonitor: the init script S90webmonitor with its pid file, the     *)
(* server start.py it runs, and the page for which the server runs         *)
(* getprocinfo.sh (module ProcInfo).                                       *)
(*                                                                         *)
(* rcS and rcK call the script at boot and shutdown; administrators may    *)
(* call it at any time.  /var/run is a tmpfs: a boot finds it empty.       *)
(* The server takes one request at a time, and needs port 5000 for itself. *)
(***************************************************************************)
EXTENDS ProcInfo

CONSTANTS
  Callers,   \* those who call S90webmonitor
  MaxPid     \* bound of the model: no more processes of the server than this

ASSUME WebMonitorAssumption == MaxPid \in Nat

Pids == 1 .. MaxPid

NoFile == 0   \* the pid file is not there, or is empty: [ -s ] is false

VARIABLES
  pidfile,   \* the pid in /var/run/webmonitor.pid
  server,    \* server[p]: what became of python process p
  call,      \* call[c]: where in S90webmonitor caller c is
  pid,       \* pid[c]: its $!
  restart,   \* the callers that run it for restart
  request,   \* what became of the browser's request for the page
  raced      \* history: two starts have overlapped

initVars == <<pidfile, server, call, pid, restart>>
webVars  == <<scriptVars, initVars, request, raced>>

WebInit ==
  /\ ScriptInit
  /\ pidfile = NoFile
  /\ server = [p \in Pids |-> "none"]
  /\ call = [c \in Callers |-> "rest"] /\ pid = [c \in Callers |-> NoFile]
  /\ restart = {}
  /\ request = "none" /\ raced = FALSE

----------------------------------------------------------------------------
(* S90webmonitor.                                                          *)

Goto(c, place) == call' = [call EXCEPT ![c] = place]

Starting == {c \in Callers : call[c] \in {"launch", "open", "write"}}

Called(c) ==
  /\ call[c] = "rest"
  /\ \/ Goto(c, "start") /\ UNCHANGED restart
     \/ Goto(c, "stop") /\ UNCHANGED restart
     \/ Goto(c, "stop") /\ restart' = restart \cup {c}
  /\ UNCHANGED <<pidfile, server, pid, raced>>

Test(c) ==
  /\ call[c] = "start"
  /\ Goto(c, IF pidfile = NoFile THEN "launch" ELSE "rest")
  /\ raced' = (raced \/ (pidfile = NoFile /\ Starting # {}))
  /\ UNCHANGED <<pidfile, server, pid, restart>>

\* nohup python start.py &
Launch(c) == \E p \in Pids :
  /\ call[c] = "launch" /\ Goto(c, "open")
  /\ server[p] = "none" /\ \A q \in 1 .. p - 1 : server[q] # "none"
  /\ server' = [server EXCEPT ![p] = "starting"]
  /\ pid' = [pid EXCEPT ![c] = p]
  /\ UNCHANGED <<pidfile, restart, raced>>

\* echo $PID > ${pidfile} empties the file before it writes.
WritePid(c) ==
  /\ \/ call[c] = "open" /\ Goto(c, "write") /\ pidfile' = NoFile
     \/ call[c] = "write" /\ Goto(c, "rest") /\ pidfile' = pid[c]
  /\ UNCHANGED <<server, pid, restart, raced>>

AfterStop(c) == IF c \in restart THEN "start" ELSE "rest"

\* Faulty variant: the file is removed whether or not kill succeeded.
StopRemoves(c) ==
  /\ call[c] = "stop" /\ Goto(c, AfterStop(c))
  /\ restart' = restart \ {c}
  /\ pidfile' = NoFile
  /\ UNCHANGED <<server, pid, raced>>

\* kill gets the pid on its input, where it does not look, and no operand:
\* it fails, no process gets a signal, and the pid file stays.
Stop(c) ==
  /\ call[c] = "stop" /\ Goto(c, AfterStop(c))
  /\ restart' = restart \ {c}
  /\ UNCHANGED <<pidfile, server, pid, raced>>

InitScript(c) ==
  /\ Called(c) \/ Test(c) \/ Launch(c) \/ WritePid(c) \/ Stop(c)
  /\ UNCHANGED <<scriptVars, request>>

----------------------------------------------------------------------------
(* start.py.                                                               *)

Serving == {p \in Pids : server[p] = "serving"}

\* app.run() binds the port, or ends with an exception if it is taken.
Run(p) ==
  /\ server[p] = "starting"
  /\ server' = [server EXCEPT ![p] = IF Serving = {} THEN "serving" ELSE "dead"]
  /\ UNCHANGED <<scriptVars, pidfile, call, pid, restart, request, raced>>

\* A server dies of something else than the init script.
Crash(p) ==
  /\ server[p] \in {"starting", "serving"}
  /\ server' = [server EXCEPT ![p] = "dead"]
  /\ request' = IF server[p] = "serving" /\ request # "none" THEN "lost" ELSE request
  /\ UNCHANGED <<scriptVars, pidfile, call, pid, restart, raced>>

\* The browser asks for the page, and asks again when it has it.
Ask ==
  /\ request # "asked" /\ request # "run" /\ Serving # {}
  /\ request' = "asked"
  /\ UNCHANGED <<scriptVars, initVars, raced>>

\* get_procinfo() calls execscript().  A script that a dead server has left
\* runs to its end first: two runs share nothing, mktemp gives each its own.
Accept ==
  /\ request = "asked" /\ ScriptOver /\ request' = "run"
  /\ ScriptStart
  /\ UNCHANGED <<initVars, raced>>

Answer ==
  /\ request = "run" /\ ScriptOver /\ request' = "answered"
  /\ UNCHANGED <<scriptVars, initVars, raced>>

RunScript == ScriptNext /\ UNCHANGED <<initVars, request, raced>>

\* The power is switched off and on.
Reboot ==
  /\ pidfile' = NoFile
  /\ server' = [p \in Pids |-> "none"]
  /\ call' = [c \in Callers |-> "rest"] /\ pid' = [c \in Callers |-> NoFile]
  /\ restart' = {}
  /\ request' = IF request = "none" THEN "none" ELSE "lost"
  /\ raced' = FALSE
  /\ sh' = "ended" /\ dir' = FALSE
  /\ names' = {} /\ listed' = {} /\ data' = {} /\ opened' = {} /\ columns' = {}
  /\ awk' = [f \in Files |-> "done"] /\ paste' = 0

WebNext ==
  \/ \E c \in Callers : InitScript(c)
  \/ \E p \in Pids : Run(p) \/ Crash(p)
  \/ Ask \/ Accept \/ Answer \/ RunScript \/ Reboot

WebSpec == WebInit /\ [][WebNext]_webVars

\* The server's one thread goes on when it can.
WebFairness ==
  /\ ScriptFairness
  /\ WF_webVars(Accept) /\ WF_webVars(Answer)

WebFairSpec == WebSpec /\ WebFairness

----------------------------------------------------------------------------
Alive == {p \in Pids : server[p] \in {"starting", "serving"}}

(* As long as no two starts overlap, calls of start, stop and restart by   *)
(* whoever at whatever time leave no two processes of the server, and none *)
(* that the pid file does not name and is not about to name: what runs is  *)
(* what the next stop finds and what keeps the next start from launching.  *)
OneServer ==
  ~ raced =>
    /\ \A p, q \in Alive : p = q
    /\ \A p \in Alive : pidfile = p \/ \E c \in Starting : pid[c] = p

(* A stop that finds the pid file ends the process it names, as "Stopping  *)
(* Web Monitor... " says.  False of the code: kill gets no operand.        *)
StopStops ==
  [][\A c \in Callers :
       call[c] = "stop" /\ call'[c] # "stop" /\ pidfile # NoFile =>
         server'[pidfile] \notin {"starting", "serving"}]_webVars

(* A request is answered, however the commands of the script take turns,   *)
(* unless the server dies or the machine is switched off.                  *)
Answered == (request = "asked") ~> (request \in {"answered", "lost"})
============================================================================
