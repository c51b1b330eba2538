------------------------------ MODULE Download ------------------------------
(***************************************************************************)
(* One archive in BR2_DL_DIR, which several builds share, as the script    *)
(* support/download/dl-wrapper puts it there.                              *)
(*                                                                         *)
(* DOWNLOAD_INNER of pkg-download.mk calls the wrapper once for each place *)
(* the archive may come from until a call succeeds; then the build unpacks *)
(* the archive.  Builds run at the same time, have their own directories   *)
(* for what is temporary, and may be killed.  The backends (wget, git ...) *)
(* and the commands are external.                                          *)
(***************************************************************************)
EXTENDS Naturals

CONSTANTS
  Builds,
  Places   \* how many places there are: primary site, site, backup site

ASSUME PlacesAssumption == Places \in Nat \ {0}

\* What a file is: not there, not whole, what the hashes say, or something else.
None    == "none"
Partial == "partial"
Good    == "good"
Bad     == "bad"

VARIABLES
  hashes,    \* the .hash file "has" the archive, "lacks" it, or there is "no"
             \*   file or need (type none, or BR_NO_CHECK_HASH_FOR when it lacks it)
  bare,      \* the place called without -H, the site of a bzr, cvs, hg or svn package
  first,     \* history: the archive before the first build
  output,    \* the archive
  pc,        \* pc[b]: where build b is
  place,     \* place[b]: the call of the wrapper b has come to
  tmpf,      \* tmpf[b][i]: the file in the temporary directory of b's call i,
  tmpd,      \*   and the calls that have the directory
  tmp_output, \* tmp_output[b][i]: its temporary file in BR2_DL_DIR
  unpacked,  \* unpacked[b]: the archive b has unpacked
  broken,    \* history: the calls killed, or ended by a mktemp or chmod that failed
  moved      \* history: whether a call has put an archive in place

vars == <<hashes, bare, first, output, pc, place, tmpf, tmpd, tmp_output, unpacked,
          broken, moved>>

Calls == Builds \X (1 .. Places)

Init ==
  /\ hashes \in {"has", "lacks", "no"}
  /\ bare \in 0 .. Places /\ (hashes # "has" => bare = 0)
  /\ first \in {None, Good, Bad} /\ output = first
  /\ pc = [b \in Builds |-> "call"] /\ place = [b \in Builds |-> 1]
  /\ tmpf = [c \in Calls |-> None] /\ tmpd = {}
  /\ tmp_output = [c \in Calls |-> None]
  /\ unpacked = [b \in Builds |-> None]
  /\ broken = {} /\ moved = FALSE

----------------------------------------------------------------------------
(* check-hash.                                                             *)

\* Its exit status in the call b has come to.
CheckHash(b, file) ==
  IF hashes = "no" \/ place[b] = bare THEN 0
  ELSE IF hashes = "lacks"             THEN 3
  ELSE IF file = Good                  THEN 0
                                       ELSE 2

----------------------------------------------------------------------------
(* dl-wrapper, for build b.                                                *)

Here(b) == <<b, place[b]>>

Goto(b, step) == pc' = [pc EXCEPT ![b] = step] /\ UNCHANGED place

\* exit 0, and exit 1: the next place, if there is one.
ExitOK(b) == Goto(b, "unpack")
ExitError(b) ==
  IF place[b] < Places
    THEN place' = [place EXCEPT ![b] = @ + 1] /\ pc' = [pc EXCEPT ![b] = "call"]
    ELSE Goto(b, "failed")

KeepFiles == UNCHANGED <<tmpf, tmpd, tmp_output>>
KeepWorld == UNCHANGED <<hashes, bare, first, unpacked>>

Test(b) ==
  /\ pc[b] = "call" /\ Goto(b, IF output = None THEN "fetch" ELSE "check")
  /\ KeepFiles /\ KeepWorld /\ UNCHANGED <<output, broken, moved>>

\* Faulty variant: an archive that is there is fetched again.
CheckAlways(b) ==
  /\ pc[b] = "check" /\ Goto(b, "remove")
  /\ KeepFiles /\ KeepWorld /\ UNCHANGED <<output, broken, moved>>

\* By now the archive may be gone.
Check(b) ==
  /\ pc[b] = "check"
  /\ CASE CheckHash(b, output) = 0 -> ExitOK(b)
       [] CheckHash(b, output) = 2 -> Goto(b, "remove")
       [] OTHER                 -> ExitError(b)
  /\ KeepFiles /\ KeepWorld /\ UNCHANGED <<output, broken, moved>>

RemoveOutput(b) ==
  /\ pc[b] = "remove" /\ Goto(b, "fetch")
  /\ output' = None
  /\ KeepFiles /\ KeepWorld /\ UNCHANGED <<broken, moved>>

\* mktemp -d, which may fail, and the backend begins.
Fetch(b) ==
  /\ pc[b] = "fetch"
  /\ \/ /\ Goto(b, "backend")
        /\ tmpd' = tmpd \cup {Here(b)}
        /\ tmpf' = [tmpf EXCEPT ![Here(b)] = Partial]
     \/ ExitError(b) /\ UNCHANGED <<tmpd, tmpf>>
  /\ KeepWorld /\ UNCHANGED <<output, tmp_output, broken, moved>>

\* rm -rf "${tmpd}"
Discard(b) == tmpd' = tmpd \ {Here(b)} /\ tmpf' = [tmpf EXCEPT ![Here(b)] = None]

\* The backend fails, or says it has the file.
Backend(b) ==
  /\ pc[b] = "backend"
  /\ \/ ExitError(b) /\ Discard(b)
     \/ /\ Goto(b, "verify") /\ UNCHANGED tmpd
        /\ \E f \in {Good, Bad} : tmpf' = [tmpf EXCEPT ![Here(b)] = f]
  /\ KeepWorld /\ UNCHANGED <<output, tmp_output, broken, moved>>

\* Faulty variant: what was fetched is taken as it is.
VerifyNothing(b) ==
  /\ pc[b] = "verify" /\ Goto(b, "mktemp")
  /\ KeepFiles /\ KeepWorld /\ UNCHANGED <<output, broken, moved>>

Verify(b) ==
  /\ pc[b] = "verify"
  /\ IF CheckHash(b, tmpf[Here(b)]) = 0 THEN Goto(b, "mktemp") /\ UNCHANGED <<tmpd, tmpf>>
                                     ELSE ExitError(b) /\ Discard(b)
  /\ KeepWorld /\ UNCHANGED <<output, tmp_output, broken, moved>>

\* mktemp in BR2_DL_DIR, and chmod of its file.  If one of them fails, set -e
\* ends the script on the spot.
Mktemp(b) ==
  /\ pc[b] = "mktemp"
  /\ \/ /\ Goto(b, "copy")
        /\ tmp_output' = [tmp_output EXCEPT ![Here(b)] = Partial]
        /\ UNCHANGED broken
     \/ /\ ExitError(b) /\ broken' = broken \cup {Here(b)}
        /\ \E f \in {None, Partial} : tmp_output' = [tmp_output EXCEPT ![Here(b)] = f]
  /\ KeepWorld /\ UNCHANGED <<output, tmpf, tmpd, moved>>

\* Faulty variant: when the disk is full what was copied stays.
CopyLeaves(b) ==
  /\ pc[b] = "copy"
  /\ \/ /\ Goto(b, "clean")
        /\ tmp_output' = [tmp_output EXCEPT ![Here(b)] = tmpf[Here(b)]]
        /\ UNCHANGED <<tmpd, tmpf>>
     \/ ExitError(b) /\ Discard(b) /\ UNCHANGED tmp_output
  /\ KeepWorld /\ UNCHANGED <<output, broken, moved>>

\* cat "${tmpf}" >>"${tmp_output}"
Copy(b) ==
  /\ pc[b] = "copy"
  /\ \/ /\ Goto(b, "clean")
        /\ tmp_output' = [tmp_output EXCEPT ![Here(b)] = tmpf[Here(b)]]
        /\ UNCHANGED <<tmpd, tmpf>>
     \/ /\ ExitError(b) /\ Discard(b)
        /\ tmp_output' = [tmp_output EXCEPT ![Here(b)] = None]
  /\ KeepWorld /\ UNCHANGED <<output, broken, moved>>

Clean(b) ==
  /\ pc[b] = "clean" /\ Goto(b, "move")
  /\ Discard(b)
  /\ KeepWorld /\ UNCHANGED <<output, tmp_output, broken, moved>>

\* mv -f "${tmp_output}" "${output}"
Move(b) ==
  /\ pc[b] = "move"
  /\ \/ ExitOK(b) /\ output' = tmp_output[Here(b)] /\ moved' = TRUE
     \/ ExitError(b) /\ UNCHANGED <<output, moved>>
  /\ tmp_output' = [tmp_output EXCEPT ![Here(b)] = None]
  /\ KeepWorld /\ UNCHANGED <<tmpf, tmpd, broken>>

Wrapper(b) == \/ Test(b) \/ Check(b) \/ RemoveOutput(b) \/ Fetch(b) \/ Backend(b) \/ Verify(b)
              \/ Mktemp(b) \/ Copy(b) \/ Clean(b) \/ Move(b)

----------------------------------------------------------------------------
(* The rest of build b.                                                    *)

\* INFLATE and TAR of .stamp_extracted.
Unpack(b) ==
  /\ pc[b] = "unpack" /\ Goto(b, IF output = None THEN "failed" ELSE "done")
  /\ unpacked' = [unpacked EXCEPT ![b] = output]
  /\ KeepFiles /\ UNCHANGED <<hashes, bare, first, output, broken, moved>>

Kill(b) ==
  /\ pc[b] \notin {"done", "failed", "killed"} /\ Goto(b, "killed")
  /\ broken' = broken \cup {Here(b)}
  /\ KeepFiles /\ KeepWorld /\ UNCHANGED <<output, moved>>

Next == \E b \in Builds : Wrapper(b) \/ Unpack(b) \/ Kill(b)

Spec == Init /\ [][Next]_vars

----------------------------------------------------------------------------
\* Whatever call gets the archive has it checked against its hashes.
Checks == hashes = "has" /\ bare = 0

(* Whatever fails, is killed or runs at the same time, no build ever finds *)
(* a part of an archive, and none unpacks or leaves behind one that does   *)
(* not match its hashes, unless a place is called without them.  An        *)
(* archive the .hash file does not list, and has to, stays as it is: it is *)
(* neither removed nor replaced from a later place.                        *)
WholeAndChecked ==
  /\ output # Partial
  /\ Checks => \A b \in Builds : unpacked[b] \in {None, Good}
  /\ Checks /\ moved => output \in {None, Good}
  /\ hashes = "lacks" => output = first

(* A call that has come to its end has removed what it made, however it    *)
(* went; only one that was killed or got no file in BR2_DL_DIR leaves some.*)
NothingLeftOver ==
  \A b \in Builds, i \in 1 .. Places :
    (\/ i < place[b]
     \/ i = place[b] /\ pc[b] \in {"unpack", "done", "failed"}) /\ <<b, i>> \notin broken
      => <<b, i>> \notin tmpd /\ tmp_output[<<b, i>>] = None

(* Builds that find no bad archive, and fetch none without its hashes, do  *)
(* not take one from each other: from the moment a build has it, it is     *)
(* there.                                                                  *)
KeptIfNotBad ==
  first # Bad /\ bare = 0 => \A b \in Builds : pc[b] \in {"unpack", "done"} => output # None
============================================================================
