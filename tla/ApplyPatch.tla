------------------------------ MODULE ApplyPatch ------------------------------
(***************************************************************************)
(* The hunks of apply_patch calls on the files of a workspace.  The calls  *)
(* of one step run at the same time, and nothing serializes them: a hunk   *)
(* reads, opens, writes and removes files in steps of its own, and a hunk  *)
(* that fails leaves what the call has done before.  os.WriteFile empties  *)
(* the file when it opens it: a write that fails, or is killed, after that *)
(* leaves the file empty or cut short.                                     *)
(*                                                                         *)
(* A file is the sequence of the edits that made it; what an edit does to  *)
(* the lines is module PatchText.                                          *)
(***************************************************************************)
EXTENDS Naturals, Sequences

CONSTANTS
  Patches,   \* the apply_patch calls under way
  Paths,     \* the paths that hunks name
  Refused,   \* those of them that joinUnderWorkspace refuses
  MaxHunks   \* bound: hunks of one patch

ASSUME ApplyPatchAssumption ==
  Refused \subseteq Paths /\ MaxHunks \in Nat /\ "absent" \notin Patches

VARIABLES
  files,    \* the contents of each path
  hunk,     \* of each call: the hunk it works on, what it has read, how many it has begun
  whole,    \* history: the files if every hunk were one step
  crossed   \* history: two calls have worked on one path at a time

patchVars == <<files, hunk, whole, crossed>>

Absent == <<<<"absent", 0>>>>
NoHunk == [pc |-> "next", adds |-> FALSE, path |-> "none", dest |-> "none", read |-> Absent, n |-> 0]

\* What a write of call c that has not come to its end has left: nothing, or a part.
\* The call's hunks are numbered from 1.
Cut(c) == <<<<c, 0>>>>

PatchInit ==
  /\ files = [p \in Paths |-> IF p \in Refused THEN Absent ELSE <<>>]
  /\ hunk = [c \in Patches |-> NoHunk]
  /\ whole = files
  /\ crossed = FALSE

Allowed(p) == p \in Paths \ Refused
Edit(c) == <<c, hunk[c].n>>
Busy(c) == IF hunk[c].pc \in {"write", "fill", "remove"} THEN {hunk[c].path, hunk[c].dest} ELSE {}
Crosses(c, ps) == \E d \in Patches \ {c} : Busy(d) \cap ps # {}

\* The patch has another hunk, for these paths.
Begin(c, path, dest) ==
  /\ hunk[c].pc = "next" /\ hunk[c].n < MaxHunks
  /\ Allowed(path) /\ Allowed(dest)
  /\ crossed' = (crossed \/ Crosses(c, {path, dest}))

\* The new file is open, and empty.
AddFile(c, path) ==
  /\ Begin(c, path, path)
  /\ hunk' = [hunk EXCEPT ![c] = [pc |-> "fill", adds |-> TRUE, path |-> path, dest |-> path,
                                  read |-> <<>>, n |-> @.n + 1]]
  /\ files' = [files EXCEPT ![path] = Cut(c)]
  /\ UNCHANGED whole

DeleteFile(c, path) ==
  /\ Begin(c, path, path) /\ files[path] # Absent
  /\ hunk' = [hunk EXCEPT ![c].n = @ + 1]
  /\ files' = [files EXCEPT ![path] = Absent]
  /\ whole' = [whole EXCEPT ![path] = Absent]

\* An update, with or without Move to: the file is read and its new lines derived.
ReadFile(c, path, dest) ==
  /\ Begin(c, path, dest) /\ files[path] # Absent
  /\ hunk' = [hunk EXCEPT ![c] = [pc |-> "write", adds |-> FALSE, path |-> path, dest |-> dest,
                                  read |-> files[path], n |-> @.n + 1]]
  /\ UNCHANGED <<files, whole>>

RemoveThenOpen(c) ==          \* mutant: the source goes before the destination is there
  LET h == hunk[c] IN
  /\ h.pc = "write"
  /\ files' = [files EXCEPT ![h.path] = Absent, ![h.dest] = Cut(c)]
  /\ hunk' = [hunk EXCEPT ![c].pc = "fill"]
  /\ UNCHANGED <<whole, crossed>>

\* The new lines are there: the destination is opened, and emptied.
OpenFile(c) ==
  LET h == hunk[c] IN
  /\ h.pc = "write"
  /\ files' = [files EXCEPT ![h.dest] = Cut(c)]
  /\ hunk' = [hunk EXCEPT ![c].pc = "fill"]
  /\ UNCHANGED <<whole, crossed>>

\* The file that c has opened as the write leaves it.  Another call may have removed
\* the file since, or opened it too: then the one text, the other, or a mixture is there.
Written(c, text) ==
  LET there == files[hunk[c].dest] IN
  IF there = Cut(c) THEN {text} ELSE IF there = Absent THEN {Absent} ELSE {text, there, Cut(c)}

WriteFile(c) ==
  LET h == hunk[c] IN
  /\ h.pc = "fill"
  /\ \E text \in Written(c, Append(h.read, Edit(c))) : files' = [files EXCEPT ![h.dest] = text]
  /\ whole' = [whole EXCEPT ![h.dest] = Append(IF h.adds THEN <<>> ELSE whole[h.path], Edit(c))]
  /\ hunk' = [hunk EXCEPT ![c].pc = IF h.path = h.dest THEN "next" ELSE "remove"]
  /\ UNCHANGED crossed

RemoveSource(c) ==
  LET h == hunk[c] IN
  /\ h.pc = "remove" /\ files[h.path] # Absent
  /\ files' = [files EXCEPT ![h.path] = Absent]
  /\ whole' = [whole EXCEPT ![h.path] = Absent]
  /\ hunk' = [hunk EXCEPT ![c].pc = "next"]
  /\ UNCHANGED crossed

\* A path outside, a file that is not there, lines that are not found, a file that
\* cannot be opened or removed, or the last hunk: the call ends where it is.  A write
\* that fails, or a process that is killed in it, ends the call with the file cut.
EndPatch(c) ==
  /\ hunk[c].pc \notin {"over", "torn"}
  /\ hunk' = [hunk EXCEPT ![c].pc = IF @ = "fill" THEN "torn" ELSE "over"]
  /\ UNCHANGED <<files, whole, crossed>>

PatchNext == \E c \in Patches :
  \/ \E path \in Paths :
       \/ AddFile(c, path) \/ DeleteFile(c, path)
       \/ \E dest \in Paths : ReadFile(c, path, dest)
  \/ OpenFile(c) \/ WriteFile(c) \/ RemoveSource(c) \/ EndPatch(c)

PatchSpec == PatchInit /\ [][PatchNext]_patchVars

\* The type of every variable.
PatchType ==
  /\ DOMAIN files = Paths /\ DOMAIN whole = Paths /\ crossed \in BOOLEAN
  /\ \A c \in Patches :
       /\ hunk[c].pc \in {"next", "write", "fill", "remove", "over", "torn"}
       /\ hunk[c].n <= MaxHunks

\* A file that a call is writing, or that its failing write has cut, with the edits
\* made to it since, and wherever it has been moved.
Spoiled(text) ==
  \E c \in Patches : hunk[c].pc \in {"fill", "torn"} /\ text # <<>> /\ Head(text) = <<c, 0>>

\* While no two calls work on one path at a time, every file is what its finished
\* hunks make of it one after the other, at every step of every patch and wherever one
\* fails, but for the file whose write is under way or has failed: that one is cut.
\* No edit is lost in another file, no move leaves its contents in neither place.
EditsAreKept == ~crossed => \A p \in Paths : files[p] = whole[p] \/ Spoiled(files[p])
=============================================================================
