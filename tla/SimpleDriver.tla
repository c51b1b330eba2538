---------------------------- MODULE SimpleDriver ----------------------------
(***************************************************************************)
(* modules/simple_driver/simple_driver.c: a character device that keeps    *)
(* one message for all who open it, and the module's way in and out of the *)
(* kernel.                                                                 *)
(*                                                                         *)
(* The kernel runs the file operations of different processes at the same  *)
(* time and the driver takes no lock.  sprintf(), strlen() and             *)
(* copy_to_user() go over the bytes of message: each is a beginning and an *)
(* end here.  What two sprintf() that overlap leave is Mixed, and a scan   *)
(* that one of them overlaps may find the end of either text.              *)
(***************************************************************************)
EXTENDS Integers

CONSTANTS
  Clients,    \* the processes that use the device
  Lens,       \* the lengths of what they write
  Bytes,      \* sizeof(message)
  MaxOpens    \* bound of the model: no more calls of open() than this

\* What "(%zu letters)" adds: the digits of the length and ten characters.
Suffix(len) == 10 + (IF len < 10 THEN 1 ELSE IF len < 100 THEN 2 ELSE 3)

\* A text that fits sizeof(message) before sprintf() adds to it and not after
\* is left out: C gives the call no meaning.
ASSUME SimpleDriverAssumption ==
  /\ Lens \subseteq Nat /\ Bytes \in Nat /\ MaxOpens \in Nat
  /\ \A len \in Lens : len < Bytes => len + Suffix(len) < Bytes
  /\ Clients \cap {"(0 letters)", "empty", "mixed", "none"} = {}

\* What message may say: c's text and its length, "(0 letters)", ...
Text(c, len) == [by |-> c, len |-> len]
NoLetters    == Text("(0 letters)", 0)
Empty        == Text("empty", 0)
Mixed        == Text("mixed", 0)
NoText       == Text("none", 0)

Shorts == {len \in Lens : len < Bytes}
Texts  == {Text(c, len) : c \in Clients, len \in Shorts}

Total(len) == len + Suffix(len)

VARIABLES
  module,       \* "out", the call of the module that runs, "in", or "stuck"
  kernel,       \* what the module has in the kernel: "major", "class", "device"
  message, size_of_message, numberOpens,
  call,         \* call[c]: where in a file operation c is; "closed" without the file
  reg,          \* reg[c]: the value that operation has loaded, or its len
  dirty,        \* the clients whose pass over message overlaps a sprintf()
  mine,         \* history: the text c wrote, if nobody has made a call since
  met,          \* history: the last write began while another was under way
  opens         \* history: calls of open()

driver  == <<message, size_of_message, numberOpens>>
history == <<mine, met, opens>>
deviceVars == <<module, kernel, driver, call, reg, dirty, history>>

DInit ==
  /\ module = "out" /\ kernel = {}
  /\ message = Empty /\ size_of_message = 0 /\ numberOpens = 0
  /\ call = [c \in Clients |-> "closed"] /\ reg = [c \in Clients |-> 0]
  /\ dirty = {}
  /\ mine = [c \in Clients |-> NoText] /\ met = FALSE
  /\ opens = 0

----------------------------------------------------------------------------
(* insmod and rmmod.                                                       *)

KeepCalls == UNCHANGED <<driver, call, reg, dirty, history>>

\* Each registration succeeds, or what was registered before is given back.
RegisterChrdev ==
  /\ module = "out"
  /\ \/ module' = "class" /\ kernel' = {"major"}
     \/ UNCHANGED <<module, kernel>>
  /\ KeepCalls

ClassCreate ==
  /\ module = "class"
  /\ \/ module' = "device" /\ kernel' = kernel \cup {"class"}
     \/ module' = "out" /\ kernel' = kernel \ {"major"}
  /\ KeepCalls

\* Faulty variant: the class is not given back.
DeviceCreateKeepsClass ==
  /\ module = "device"
  /\ \/ module' = "in" /\ kernel' = kernel \cup {"device"}
     \/ module' = "out" /\ kernel' = kernel \ {"major"}
  /\ KeepCalls

DeviceCreate ==
  /\ module = "device"
  /\ \/ module' = "in" /\ kernel' = kernel \cup {"device"}
     \/ module' = "out" /\ kernel' = kernel \ {"major", "class"}
  /\ KeepCalls

\* simple_exit().  fops has no owner, so files that are open do not hold it up.
DeviceDestroy ==
  /\ module = "in" /\ module' = "unclass"
  /\ kernel' = kernel \ {"device"}
  /\ KeepCalls

ClassUnregister ==
  /\ module = "unclass" /\ module' = "unclass again"
  /\ kernel' = kernel \ {"class"}
  /\ KeepCalls

\* class_destroy() of a class that is gone: undefined, what it finds may do
\* no harm, or end rmmod on the spot.
ClassDestroy ==
  /\ module = "unclass again" /\ module' \in {"unregister", "stuck"}
  /\ UNCHANGED kernel
  /\ KeepCalls

\* The module's memory goes with it, and comes back as it was in the file.
UnregisterChrdev ==
  /\ module = "unregister" /\ module' = "out"
  /\ kernel' = kernel \ {"major"}
  /\ message' = Empty /\ size_of_message' = 0 /\ numberOpens' = 0
  /\ opens' = 0
  /\ call' = [c \in Clients |-> IF call[c] = "closed" THEN "closed" ELSE "stranded"]
  /\ dirty' = {} /\ reg' = [c \in Clients |-> 0]
  /\ mine' = [c \in Clients |-> NoText] /\ met' = FALSE

\* The next call on a file of a module that is gone ends its process.
Oops(c) ==
  /\ call[c] = "stranded" /\ call' = [call EXCEPT ![c] = "killed"]
  /\ UNCHANGED <<module, kernel, driver, reg, dirty, history>>

Module == \/ RegisterChrdev \/ ClassCreate \/ DeviceCreate \/ DeviceDestroy
          \/ ClassUnregister \/ ClassDestroy \/ UnregisterChrdev

----------------------------------------------------------------------------
(* dev_open() and dev_release().                                           *)

Goto(c, place) == call' = [call EXCEPT ![c] = place]

Keep == UNCHANGED <<module, kernel>>

\* The call of c returns; its local variables are gone.
Return(c) ==
  /\ Goto(c, "idle")
  /\ reg' = [reg EXCEPT ![c] = 0]
  /\ dirty' = dirty \ {c}
  /\ Keep

\* numberOpens++ loads ...
OpenLoad(c) ==
  /\ call[c] = "closed" /\ "device" \in kernel /\ opens < MaxOpens
  /\ Goto(c, "opening")
  /\ reg' = [reg EXCEPT ![c] = numberOpens]
  /\ opens' = opens + 1
  /\ Keep /\ UNCHANGED <<driver, dirty, mine, met>>

\* ... and stores.
OpenStore(c) ==
  /\ call[c] = "opening" /\ Return(c)
  /\ numberOpens' = reg[c] + 1
  /\ UNCHANGED <<message, size_of_message, history>>

Release(c) ==
  /\ call[c] = "idle" /\ Goto(c, "closed")
  /\ mine' = [mine EXCEPT ![c] = NoText]
  /\ Keep /\ UNCHANGED <<driver, reg, dirty, met, opens>>

----------------------------------------------------------------------------
(* dev_write() and dev_read().                                             *)

Printing  == {c \in Clients : call[c] \in {"print", "refuse"}}
Measuring == {c \in Clients : call[c] = "measure"}
Copying   == {c \in Clients : call[c] = "copy"}
Writing   == {c \in Clients : call[c] \in {"print", "measure", "store", "refuse"}}
Busy      == Writing \cup Copying

\* A call of c begins: what the others wrote may be gone when they read.
Undisturbed(c, text) ==
  mine' = [d \in Clients |-> IF d = c /\ Busy = {} THEN text ELSE NoText]

\* c begins to go over message: with sprintf() of others under way, or not.
Overlap(c) == IF Printing \ {c} = {} THEN dirty \ {c} ELSE dirty \cup {c}

\* sprintf() begins: with the text, or with "(0 letters)" if it is too long.
WriteBegin(c) == \E len \in Lens :
  /\ call[c] = "idle"
  /\ Goto(c, IF len < Bytes THEN "print" ELSE "refuse")
  /\ reg' = [reg EXCEPT ![c] = len]
  /\ dirty' = Overlap(c) \cup Printing \cup Measuring \cup Copying
  /\ message' = Mixed
  /\ met' = (Writing # {})
  /\ Undisturbed(c, IF len < Bytes THEN Text(c, len) ELSE NoText)
  /\ Keep /\ UNCHANGED <<size_of_message, numberOpens, opens>>

\* sprintf() ends, and strlen() begins.
Printed(c, text) == message' = IF c \in dirty THEN Mixed ELSE text

PrintEnd(c) ==
  /\ call[c] = "print" /\ Goto(c, "measure")
  /\ Printed(c, Text(c, reg[c]))
  /\ dirty' = Overlap(c)
  /\ Keep /\ UNCHANGED <<size_of_message, numberOpens, reg, history>>

\* What strlen() finds in message: of a text that stands still its length.
Lengths == {Total(len) : len \in Shorts} \cup {Suffix(0)}
Strlen(c) == IF c \notin dirty /\ message \in Texts THEN {Total(message.len)} ELSE Lengths

\* Faulty variant: the size is the len of the caller.
MeasureLen(c) ==
  /\ call[c] = "measure" /\ Goto(c, "store")
  /\ dirty' = dirty \ {c}
  /\ Keep /\ UNCHANGED <<driver, reg, history>>

\* strlen() returns ...
Measure(c) ==
  /\ call[c] = "measure" /\ Goto(c, "store")
  /\ \E length \in Strlen(c) : reg' = [reg EXCEPT ![c] = length]
  /\ dirty' = dirty \ {c}
  /\ Keep /\ UNCHANGED <<driver, history>>

\* ... and what it returned is stored.
StoreSize(c) ==
  /\ call[c] = "store" /\ Return(c)
  /\ size_of_message' = reg[c]
  /\ UNCHANGED <<message, numberOpens, history>>

\* The text is too long: size_of_message stays.
RefuseEnd(c) ==
  /\ call[c] = "refuse" /\ Return(c)
  /\ Printed(c, NoLetters)
  /\ UNCHANGED <<size_of_message, numberOpens, history>>

\* copy_to_user() begins, with the size it was given.
ReadBegin(c) ==
  /\ call[c] = "idle" /\ Goto(c, "copy")
  /\ reg' = [reg EXCEPT ![c] = size_of_message]
  /\ dirty' = Overlap(c)
  /\ Undisturbed(c, mine[c])
  /\ Keep /\ UNCHANGED <<driver, met, opens>>

\* It ends, and the message counts as read.
ReadEnd(c) ==
  /\ call[c] = "copy" /\ Return(c)
  /\ size_of_message' = 0
  /\ mine' = [mine EXCEPT ![c] = NoText]
  /\ UNCHANGED <<message, numberOpens, met, opens>>

\* Faulty variant: a read that fails empties the device too.
ReadFaultEmpties(c) ==
  /\ call[c] = "copy" /\ Return(c)
  /\ size_of_message' = 0
  /\ UNCHANGED <<message, numberOpens, history>>

\* The caller's buffer is not there (-EFAULT): the message stays.
ReadFault(c) ==
  /\ call[c] = "copy" /\ Return(c)
  /\ UNCHANGED <<driver, history>>

Call(c) == \/ OpenLoad(c) \/ OpenStore(c) \/ Release(c)
           \/ WriteBegin(c) \/ PrintEnd(c) \/ Measure(c) \/ StoreSize(c) \/ RefuseEnd(c)
           \/ ReadBegin(c) \/ ReadEnd(c) \/ ReadFault(c) \/ Oops(c)

DNext == Module \/ \E c \in Clients : Call(c)

DSpec == DInit /\ [][DNext]_deviceVars

----------------------------------------------------------------------------
(* What the module holds in the kernel is built up and taken down in       *)
(* layers, and an insmod that failed, at any point, or an rmmod that came  *)
(* to its end leaves nothing behind.                                       *)
NothingLeft ==
  /\ module = "out" => kernel = {}
  /\ "device" \in kernel => {"major", "class"} \subseteq kernel

(* What copy_to_user() sends to a client that wrote a text that fits is    *)
(* exactly that text, whole and in its length, if no other call came in    *)
(* between: also when the device held another message, or one that was     *)
(* refused, and also if some of the client's own reads failed before.      *)
OwnReply ==
  \A c \in Copying :
    mine[c] # NoText => /\ message = mine[c] /\ c \notin dirty
                        /\ reg[c] = Total(mine[c].len)

(* dev_write() stores "the length of the stored message": when no call is  *)
(* under way, a text in message that was not refused or mixed with another *)
(* goes with its own length or was read.  False of the code: strlen() may  *)
(* return before another write and its value be stored after it.           *)
SizeMatches ==
  Busy = {} /\ message \in Texts => size_of_message \in {0, Total(message.len)}

(* What two writes that overlap did to the message and to the size is over *)
(* with the next write that meets no other: from its end a text goes with  *)
(* its own length or was read, whatever reads of others overlap the write. *)
SizeUnlessMet ==
  Writing = {} /\ ~ met /\ message \in Texts =>
    size_of_message \in {0, Total(message.len)}
============================================================================
