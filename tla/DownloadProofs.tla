--------------------------- MODULE DownloadProofs ---------------------------
(***************************************************************************)
(* Proofs about the download of an archive, for every number of builds     *)
(* that share it and of places it may come from.                           *)
(***************************************************************************)
EXTENDS Download, TLAPS

----------------------------------------------------------------------------
(* The invariant.                                                          *)

Steps == {"call", "check", "remove", "fetch", "backend", "verify", "mktemp", "copy",
          "clean", "move", "unpack", "done", "failed", "killed"}

Fetching == {"backend", "verify", "mktemp", "copy", "clean"}   \* has its directory
Copying  == {"copy", "clean", "move"}                          \* has its file

Any == {None, Partial, Good, Bad}

TypeOK ==
  /\ hashes \in {"has", "lacks", "no"} /\ first \in {None, Good, Bad}
  /\ bare \in 0 .. Places /\ (hashes # "has" => bare = 0)
  /\ output \in {None, Good, Bad}
  /\ pc \in [Builds -> Steps] /\ place \in [Builds -> 1 .. Places]
  /\ tmpf \in [Calls -> Any] /\ tmpd \in SUBSET Calls /\ tmp_output \in [Calls -> Any]
  /\ unpacked \in [Builds -> {None, Good, Bad}]
  /\ broken \in SUBSET Calls /\ moved \in BOOLEAN

\* A whole file that check-hash lets through.
Accepted(b, f) == f \in {Good, Bad} /\ CheckHash(b, f) = 0

\* What a call has fetched, and what it has copied.
Fetched(b) ==
  /\ pc[b] = "verify" => tmpf[Here(b)] \in {Good, Bad}
  /\ pc[b] \in {"mktemp", "copy"} => Accepted(b, tmpf[Here(b)])
  /\ pc[b] \in {"clean", "move"} => Accepted(b, tmp_output[Here(b)])

\* An archive that check-hash turned down was there from the start.
Checked(b) ==
  /\ pc[b] = "remove" => hashes = "has" /\ (bare = 0 => first = Bad)
  /\ Checks /\ pc[b] = "unpack" => output \in {None, Good}
  /\ Checks => unpacked[b] \in {None, Good}
  /\ first # Bad /\ bare = 0 /\ pc[b] \in {"check", "unpack", "done"} => output # None

\* What of the archive does not change back.
Settled ==
  /\ Checks /\ (moved \/ first # Bad) => output \in {None, Good}
  /\ hashes = "lacks" => output = first

\* A call that has no more to do has nothing left.
Tidy(b, i) ==
  <<b, i>> \notin broken =>
    /\ <<b, i>> \in tmpd => i = place[b] /\ pc[b] \in Fetching
    /\ tmp_output[<<b, i>>] # None => i = place[b] /\ pc[b] \in Copying

IInv ==
  /\ TypeOK /\ Settled
  /\ \A b \in Builds : Fetched(b) /\ Checked(b)
  /\ \A b \in Builds, i \in 1 .. Places : Tidy(b, i)

----------------------------------------------------------------------------
(* Initially nothing is fetched.                                           *)
LEMMA Starts == Init => IInv
<1> SUFFICES ASSUME Init PROVE IInv
  OBVIOUS
<1> USE PlacesAssumption DEF Init, None, Partial, Good, Bad
<1>1. TypeOK
  <2>1. 1 \in 1 .. Places
    OBVIOUS
  <2>2. place \in [Builds -> 1 .. Places] /\ pc \in [Builds -> Steps]
    BY <2>1 DEF Steps
  <2>3. tmpf \in [Calls -> Any] /\ tmp_output \in [Calls -> Any]
    BY DEF Any
  <2> QED  BY <2>2, <2>3 DEF TypeOK
<1>2. Settled
  BY DEF Settled, Checks
<1>3. \A b \in Builds : Fetched(b) /\ Checked(b)
  BY DEF Fetched, Checked, Checks
<1>4. \A b \in Builds, i \in 1 .. Places : Tidy(b, i)
  BY DEF Tidy, Calls
<1> QED  BY <1>1, <1>2, <1>3, <1>4 DEF IInv

----------------------------------------------------------------------------
(* Steps of a build.                                                       *)

Step(b) == Wrapper(b) \/ Unpack(b) \/ Kill(b)

(* A file that is copied or moved is whole, so the archive is.             *)
LEMMA TypeKept == ASSUME IInv, NEW b \in Builds, Step(b) PROVE TypeOK'
<1> USE PlacesAssumption
    DEF IInv, TypeOK, None, Partial, Good, Bad, KeepFiles, KeepWorld, Goto, ExitOK, ExitError,
        Discard, CheckHash, Accepted, Checks
<1>0. Here(b) \in Calls /\ Here(b) = <<b, place[b]>>
  BY DEF Here, Calls
<1>1. CASE Test(b)
  BY <1>0, <1>1 DEF Test, Fetched, Steps, Any
<1>2. CASE Check(b)
  BY <1>0, <1>2 DEF Check, Fetched, Steps, Any
<1>3. CASE RemoveOutput(b)
  BY <1>0, <1>3 DEF RemoveOutput, Fetched, Steps, Any
<1>4. CASE Fetch(b)
  BY <1>0, <1>4 DEF Fetch, Fetched, Steps, Any
<1>5. CASE Backend(b)
  BY <1>0, <1>5 DEF Backend, Fetched, Steps, Any
<1>6. CASE Verify(b)
  BY <1>0, <1>6 DEF Verify, Fetched, Steps, Any
<1>7. CASE Mktemp(b)
  BY <1>0, <1>7 DEF Mktemp, Fetched, Steps, Any
<1>8. CASE Copy(b)
  <2>1. tmp_output' \in [Calls -> Any] /\ tmpf' \in [Calls -> Any] /\ tmpd' \in SUBSET Calls
    BY <1>0, <1>8 DEF Copy, Fetched, Any
  <2>2. pc' \in [Builds -> Steps] /\ place' \in [Builds -> 1 .. Places]
    BY <1>8 DEF Copy, Steps
  <2> QED  BY <1>8, <2>1, <2>2 DEF Copy
<1>9. CASE Clean(b)
  BY <1>0, <1>9 DEF Clean, Fetched, Steps, Any
<1>10. CASE Move(b)
  <2>1. output' \in {None, Good, Bad} /\ moved' \in BOOLEAN
    BY <1>0, <1>10 DEF Move, Fetched
  <2>2. tmp_output' \in [Calls -> Any]
    BY <1>0, <1>10 DEF Move, Any
  <2>3. pc' \in [Builds -> Steps] /\ place' \in [Builds -> 1 .. Places]
    BY <1>10 DEF Move, Steps
  <2> QED  BY <1>10, <2>1, <2>2, <2>3 DEF Move
<1>11. CASE Unpack(b)
  BY <1>0, <1>11 DEF Unpack, Fetched, Steps, Any
<1>12. CASE Kill(b)
  BY <1>0, <1>12 DEF Kill, Fetched, Steps, Any
<1> QED  BY <1>1, <1>2, <1>3, <1>4, <1>5, <1>6, <1>7, <1>8, <1>9, <1>10, <1>11, <1>12 DEF Step, Wrapper

(* What is removed was turned down and what is put in place was let        *)
(* through; an archive that is not listed is neither.                      *)
LEMMA SettledKept == ASSUME IInv, NEW b \in Builds, Step(b) PROVE Settled'
<1> USE PlacesAssumption
    DEF IInv, TypeOK, None, Partial, Good, Bad, KeepFiles, KeepWorld, Goto, ExitOK, ExitError,
        Discard, CheckHash, Accepted, Checks
<1>0. Here(b) \in Calls /\ Here(b) = <<b, place[b]>>
  BY DEF Here, Calls
<1>1. CASE Test(b)
  BY <1>0, <1>1 DEF Test, Settled, Fetched, Checked
<1>2. CASE Check(b)
  BY <1>0, <1>2 DEF Check, Settled, Fetched, Checked
<1>3. CASE RemoveOutput(b)
  BY <1>0, <1>3 DEF RemoveOutput, Settled, Fetched, Checked
<1>4. CASE Fetch(b)
  BY <1>0, <1>4 DEF Fetch, Settled, Fetched, Checked
<1>5. CASE Backend(b)
  BY <1>0, <1>5 DEF Backend, Settled, Fetched, Checked
<1>6. CASE Verify(b)
  BY <1>0, <1>6 DEF Verify, Settled, Fetched, Checked
<1>7. CASE Mktemp(b)
  BY <1>0, <1>7 DEF Mktemp, Settled, Fetched, Checked
<1>8. CASE Copy(b)
  BY <1>0, <1>8 DEF Copy, Settled, Fetched, Checked
<1>9. CASE Clean(b)
  BY <1>0, <1>9 DEF Clean, Settled, Fetched, Checked
<1>10. CASE Move(b)
  BY <1>0, <1>10 DEF Move, Settled, Fetched, Checked
<1>11. CASE Unpack(b)
  BY <1>0, <1>11 DEF Unpack, Settled, Fetched, Checked
<1>12. CASE Kill(b)
  BY <1>0, <1>12 DEF Kill, Settled, Fetched, Checked
<1> QED  BY <1>1, <1>2, <1>3, <1>4, <1>5, <1>6, <1>7, <1>8, <1>9, <1>10, <1>11, <1>12 DEF Step, Wrapper

(* What other builds fetch is in directories of their own.                 *)
LEMMA FetchedKept ==
  ASSUME IInv, NEW b \in Builds, Step(b), NEW c \in Builds PROVE Fetched(c)'
<1> USE PlacesAssumption
    DEF IInv, TypeOK, None, Partial, Good, Bad, KeepFiles, KeepWorld, Goto, ExitOK, ExitError,
        Discard, CheckHash, Accepted, Checks
<1>0. Here(b) \in Calls /\ Here(b) = <<b, place[b]>>
  BY DEF Here, Calls
<1>1. CASE Test(b)
  BY <1>0, <1>1 DEF Test, Fetched, Here, Calls
<1>2. CASE Check(b)
  BY <1>0, <1>2 DEF Check, Fetched, Here, Calls
<1>3. CASE RemoveOutput(b)
  BY <1>0, <1>3 DEF RemoveOutput, Fetched, Here, Calls
<1>4. CASE Fetch(b)
  BY <1>0, <1>4 DEF Fetch, Fetched, Here, Calls
<1>5. CASE Backend(b)
  BY <1>0, <1>5 DEF Backend, Fetched, Here, Calls
<1>6. CASE Verify(b)
  BY <1>0, <1>6 DEF Verify, Fetched, Here, Calls
<1>7. CASE Mktemp(b)
  BY <1>0, <1>7 DEF Mktemp, Fetched, Here, Calls
<1>8. CASE Copy(b)
  <2>1. CASE c = b
    <3>1. pc'[b] = "clean" => place' = place /\ tmp_output'[Here(b)] = tmpf[Here(b)]
      BY <1>0, <1>8 DEF Copy
    <3>2. pc'[b] \in {"clean", "call", "failed"} /\ Accepted(b, tmpf[Here(b)])
      BY <1>0, <1>8 DEF Copy, Fetched
    <3> QED  BY <1>8, <2>1, <3>1, <3>2 DEF Copy, Fetched, Here
  <2>2. CASE c # b
    <3>1. pc'[c] = pc[c] /\ place'[c] = place[c] /\ Here(c) \in Calls /\ Here(c) # Here(b)
      BY <1>8, <2>2 DEF Copy, Here, Calls
    <3>2. tmpf'[Here(c)] = tmpf[Here(c)] /\ tmp_output'[Here(c)] = tmp_output[Here(c)]
      BY <1>0, <1>8, <3>1 DEF Copy
    <3> QED  BY <1>8, <3>1, <3>2 DEF Copy, Fetched, Here
  <2> QED  BY <2>1, <2>2
<1>9. CASE Clean(b)
  BY <1>0, <1>9 DEF Clean, Fetched, Here, Calls
<1>10. CASE Move(b)
  BY <1>0, <1>10 DEF Move, Fetched, Here, Calls
<1>11. CASE Unpack(b)
  BY <1>0, <1>11 DEF Unpack, Fetched, Here, Calls
<1>12. CASE Kill(b)
  BY <1>0, <1>12 DEF Kill, Fetched, Here, Calls
<1> QED  BY <1>1, <1>2, <1>3, <1>4, <1>5, <1>6, <1>7, <1>8, <1>9, <1>10, <1>11, <1>12 DEF Step, Wrapper

(* The archive goes from one build only when another has found it bad.     *)
LEMMA CheckedKept ==
  ASSUME IInv, NEW b \in Builds, Step(b), NEW c \in Builds PROVE Checked(c)'
<1> USE PlacesAssumption
    DEF IInv, TypeOK, None, Partial, Good, Bad, KeepFiles, KeepWorld, Goto, ExitOK, ExitError,
        Discard, CheckHash, Accepted, Checks
<1>0. Here(b) \in Calls /\ Here(b) = <<b, place[b]>>
  BY DEF Here, Calls
<1>1. CASE Test(b)
  BY <1>0, <1>1 DEF Test, Checked, Fetched, Settled
<1>2. CASE Check(b)
  BY <1>0, <1>2 DEF Check, Checked, Fetched, Settled
<1>3. CASE RemoveOutput(b)
  BY <1>0, <1>3 DEF RemoveOutput, Checked, Fetched, Settled
<1>4. CASE Fetch(b)
  BY <1>0, <1>4 DEF Fetch, Checked, Fetched, Settled
<1>5. CASE Backend(b)
  BY <1>0, <1>5 DEF Backend, Checked, Fetched, Settled
<1>6. CASE Verify(b)
  BY <1>0, <1>6 DEF Verify, Checked, Fetched, Settled
<1>7. CASE Mktemp(b)
  BY <1>0, <1>7 DEF Mktemp, Checked, Fetched, Settled
<1>8. CASE Copy(b)
  BY <1>0, <1>8 DEF Copy, Checked, Fetched, Settled
<1>9. CASE Clean(b)
  BY <1>0, <1>9 DEF Clean, Checked, Fetched, Settled
<1>10. CASE Move(b)
  BY <1>0, <1>10 DEF Move, Checked, Fetched, Settled
<1>11. CASE Unpack(b)
  BY <1>0, <1>11 DEF Unpack, Checked, Fetched, Settled
<1>12. CASE Kill(b)
  BY <1>0, <1>12 DEF Kill, Checked, Fetched, Settled
<1> QED  BY <1>1, <1>2, <1>3, <1>4, <1>5, <1>6, <1>7, <1>8, <1>9, <1>10, <1>11, <1>12 DEF Step, Wrapper

(* A call that comes to its end on whatever path removes what it made.     *)
LEMMA TidyKept ==
  ASSUME IInv, NEW b \in Builds, Step(b), NEW c \in Builds, NEW i \in 1 .. Places
  PROVE  Tidy(c, i)'
<1> USE PlacesAssumption
    DEF IInv, TypeOK, None, Partial, Good, Bad, KeepFiles, KeepWorld, Goto, ExitOK, ExitError,
        Discard, CheckHash, Accepted, Checks
<1>0. Here(b) \in Calls /\ Here(b) = <<b, place[b]>>
  BY DEF Here, Calls
<1>1. CASE Test(b)
  BY <1>0, <1>1 DEF Test, Tidy, Here, Fetching, Copying, Calls
<1>2. CASE Check(b)
  BY <1>0, <1>2 DEF Check, Tidy, Here, Fetching, Copying, Calls
<1>3. CASE RemoveOutput(b)
  BY <1>0, <1>3 DEF RemoveOutput, Tidy, Here, Fetching, Copying, Calls
<1>4. CASE Fetch(b)
  BY <1>0, <1>4 DEF Fetch, Tidy, Here, Fetching, Copying, Calls
<1>5. CASE Backend(b)
  BY <1>0, <1>5 DEF Backend, Tidy, Here, Fetching, Copying, Calls
<1>6. CASE Verify(b)
  BY <1>0, <1>6 DEF Verify, Tidy, Here, Fetching, Copying, Calls
<1>7. CASE Mktemp(b)
  BY <1>0, <1>7 DEF Mktemp, Tidy, Here, Fetching, Copying, Calls
<1>8. CASE Copy(b)
  <2>1. /\ <<c, i>> \in Calls /\ broken' = broken
        /\ c # b => pc'[c] = pc[c] /\ place'[c] = place[c]
    BY <1>8 DEF Copy, Calls
  <2>2. CASE <<c, i>> # <<b, place[b]>>
    <3>1. /\ <<c, i>> \in tmpd' => <<c, i>> \in tmpd
          /\ tmp_output'[<<c, i>>] = tmp_output[<<c, i>>]
      BY <1>0, <1>8, <2>1, <2>2 DEF Copy
    <3> QED  BY <2>1, <2>2, <3>1 DEF Tidy, Fetching, Copying
  <2>3. CASE c = b /\ i = place[b]
    <3>1. CASE pc'[b] = "clean" /\ place' = place
      BY <2>3, <3>1 DEF Tidy, Fetching, Copying
    <3>2. CASE tmp_output'[<<c, i>>] = None /\ <<c, i>> \notin tmpd'
      BY <3>2 DEF Tidy
    <3> QED  BY <1>0, <1>8, <2>1, <2>3, <3>1, <3>2 DEF Copy
  <2> QED  BY <2>2, <2>3
<1>9. CASE Clean(b)
  BY <1>0, <1>9 DEF Clean, Tidy, Here, Fetching, Copying, Calls
<1>10. CASE Move(b)
  <2>1. /\ <<c, i>> \in Calls /\ broken' = broken
        /\ c # b => pc'[c] = pc[c] /\ place'[c] = place[c]
    BY <1>10 DEF Move, Calls
  <2>2. CASE <<c, i>> # <<b, place[b]>>
    <3>1. /\ <<c, i>> \in tmpd' => <<c, i>> \in tmpd
          /\ tmp_output'[<<c, i>>] = tmp_output[<<c, i>>]
      BY <1>0, <1>10, <2>1, <2>2 DEF Move
    <3> QED  BY <2>1, <2>2, <3>1 DEF Tidy, Fetching, Copying
  <2>3. CASE c = b /\ i = place[b]
    <3>1. tmp_output'[<<c, i>>] = None /\ tmpd' = tmpd /\ pc[c] = "move"
      BY <1>0, <1>10, <2>1, <2>3 DEF Move
    <3> QED  BY <2>1, <3>1 DEF Tidy, Fetching
  <2> QED  BY <2>2, <2>3
<1>11. CASE Unpack(b)
  BY <1>0, <1>11 DEF Unpack, Tidy, Here, Fetching, Copying, Calls
<1>12. CASE Kill(b)
  BY <1>0, <1>12 DEF Kill, Tidy, Here, Fetching, Copying, Calls
<1> QED  BY <1>1, <1>2, <1>3, <1>4, <1>5, <1>6, <1>7, <1>8, <1>9, <1>10, <1>11, <1>12 DEF Step, Wrapper

(* Nothing changes when no variable does.                                  *)
LEMMA StuttersKeep == IInv /\ UNCHANGED vars => IInv'
BY DEF IInv, TypeOK, Settled, Fetched, Checked, Tidy, vars, Here, Accepted, CheckHash, Checks, Calls

----------------------------------------------------------------------------
(* The theorems.                                                           *)

(* For every number of builds and of places the invariant holds.           *)
THEOREM Inductive == Spec => []IInv
<1>1. IInv /\ [Next]_vars => IInv'
  <2> SUFFICES ASSUME IInv, [Next]_vars PROVE IInv'
    OBVIOUS
  <2>1. ASSUME NEW b \in Builds, Step(b) PROVE IInv'
    BY <2>1, TypeKept, SettledKept, FetchedKept, CheckedKept, TidyKept DEF IInv
  <2> QED  BY <2>1, StuttersKeep DEF Next, Step
<1> QED  BY Starts, <1>1, PTL DEF Spec

(* No build finds a part of an archive, and none unpacks or leaves behind  *)
(* one that does not match its hashes; one that is not listed stays.       *)
THEOREM Whole == Spec => []WholeAndChecked
<1>1. IInv => WholeAndChecked
  BY DEF IInv, TypeOK, Settled, Checked, Checks, WholeAndChecked, None, Partial, Good, Bad
<1> QED  BY Inductive, <1>1, PTL

(* A call that was not killed and got its files leaves none of them.       *)
THEOREM LeavesNothing == Spec => []NothingLeftOver
<1>1. IInv => NothingLeftOver
  BY DEF IInv, TypeOK, Tidy, NothingLeftOver, Fetching, Copying
<1> QED  BY Inductive, <1>1, PTL

(* Builds that find no bad archive do not take one from each other.        *)
THEOREM Keeps == Spec => []KeptIfNotBad
<1>1. IInv => KeptIfNotBad
  BY DEF IInv, Checked, KeptIfNotBad
<1> QED  BY Inductive, <1>1, PTL
=============================================================================
