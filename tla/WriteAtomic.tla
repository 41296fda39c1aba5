---------------------------- MODULE WriteAtomic ----------------------------
(***************************************************************************)
(* write_atomic of crates/abora-update/src/apply.rs on the apply-request   *)
(* file, step by step: open and truncate <path>.tmp, write it, rename it   *)
(* over <path>.  The temporary name is fixed, so writers that run at the   *)
(* same time share the file behind it.                                     *)
(*                                                                         *)
(* Only the files behind the two names matter.  A writer's open descriptor *)
(* refers to the file behind "tmp", the one behind "target", or to a file  *)
(* that no longer has a name ("gone").                                     *)
(*                                                                         *)
(* The file is synced and the directory is not: a power failure may leave  *)
(* the name <path> with any file it has had since the directory was last   *)
(* certain to be on disk.                                                  *)
(***************************************************************************)

CONSTANTS
    Writers,    \* who may call write_atomic on this path
    Nil         \* filler for a file that holds no whole request

VARIABLES
    tmp, target, fd,
    past            \* what a power failure may bring back as the target

fileVars == <<tmp, target, fd, past>>

\* "empty": truncated.  "mixed": one request over the longer rest of another,
\* which no longer parses.
NoFile == [kind |-> "none", request |-> Nil]
Truncated == [kind |-> "empty", request |-> Nil]
Mixed == [kind |-> "mixed", request |-> Nil]
Whole(r) == [kind |-> "whole", request |-> r]

Exists(file) == file.kind # "none"

\* Every descriptor on the file called `from' now refers to `to'.
Moved(from, to) == [w \in Writers |-> IF fd[w] = from THEN to ELSE fd[w]]

\* open(O_CREAT | O_TRUNC) on <path>.tmp
OpenTmp(w) ==
    /\ tmp' = Truncated
    /\ fd' = [fd EXCEPT ![w] = "tmp"]
    /\ UNCHANGED <<target, past>>

\* What a file may hold after r was written at offset 0 over it.
Overlay(file, r) ==
    IF file.kind = "empty" THEN {Whole(r)} ELSE {Whole(r), Mixed}

\* write_all and sync_all through the descriptor.
WriteTmp(w, r) ==
    /\ IF fd[w] = "tmp" THEN tmp' \in Overlay(tmp, r) ELSE UNCHANGED tmp
    /\ IF fd[w] = "target"
       THEN target' \in Overlay(target, r) /\ past' = past \cup {target}
       ELSE UNCHANGED <<target, past>>
    /\ UNCHANGED fd

\* rename(<path>.tmp, path) moves whatever file has the name by now, and no sync
\* of the directory follows; the writer's own descriptor is closed when the call
\* returns.
RenameTmp(w) ==
    /\ Exists(tmp)
    /\ target' = tmp
    /\ past' = past \cup {target}
    /\ tmp' = NoFile
    /\ fd' = [x \in Writers |->
                 CASE x = w            -> "none"
                   [] x # w /\ fd[x] = "tmp"    -> "target"
                   [] x # w /\ fd[x] = "target" -> "gone"
                   [] OTHER            -> fd[x]]

\* The call fails (the disk, or a rename that finds no file): the temporary
\* file is removed, whoever it belongs to by now, as far as that is possible.
FailWrite(w) ==
    /\ \/ tmp' = NoFile /\ fd' = [Moved("tmp", "gone") EXCEPT ![w] = "none"]
       \/ tmp' = tmp /\ fd' = [fd EXCEPT ![w] = "none"]
    /\ UNCHANGED <<target, past>>

\* unlink(path)
RemoveTarget ==
    /\ target' = NoFile
    /\ past' = past \cup {target}
    /\ fd' = Moved("target", "gone")
    /\ UNCHANGED tmp

\* The process of the writers ends.
CloseAll ==
    /\ fd' = [w \in Writers |-> "none"]
    /\ UNCHANGED <<tmp, target, past>>

\* The machine is shut down in order: everything reaches the disk.
Unmount ==
    /\ fd' = [w \in Writers |-> "none"]
    /\ past' = {}
    /\ UNCHANGED <<tmp, target>>

\* The power fails: the last renames and removals may be undone.  What becomes
\* of the temporary file does not matter, the next open truncates it.
LosePower ==
    /\ fd' = [w \in Writers |-> "none"]
    /\ target' \in past \cup {target}
    /\ past' = {}
    /\ UNCHANGED tmp
============================================================================
