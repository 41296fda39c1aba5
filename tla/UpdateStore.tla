---------------------------- MODULE UpdateStore ----------------------------
(***************************************************************************)
(* The persistent update store, crates/abora-update/src/store.rs, with the *)
(* file system underneath it, process crashes and power failures between   *)
(* any two of its steps.                                                   *)
(*                                                                         *)
(* change() holds the mutex from the clone to the publication, and every   *)
(* reader takes the same mutex, so at most one call is under way: its      *)
(* progress is `pc', its copy of the data `next'.                          *)
(***************************************************************************)
EXTENDS StoreData

CONSTANTS
    MaxCalls,       \* bound on the number of change() calls explored
    DirSyncs        \* the file system lets a directory be opened and synced

ASSUME StoreAssumption == MaxCalls \in Nat /\ DirSyncs \in BOOLEAN

VARIABLES
    disk,       \* the state file as a process sees it
    durable,    \* the state file as a power failure would leave it
    tmp,        \* <state file>.tmp
    backup,     \* <state file>.corrupt
    safeBackup, \* the same, as a power failure would leave it
    mode,       \* the daemon: "down", "disk" (path is Some), "memory" (None)
    mem,        \* the data behind the mutex
    pc,         \* where change() is
    next,       \* the copy change() edits
    calls,      \* change() calls so far, the caller's clock
    acked       \* history variable: stamp of the last change reported saved

files == <<disk, durable, tmp, backup, safeBackup>>
vars == <<files, mode, mem, pc, next, calls, acked>>

\* "newer": of a newer schema, in a shape that this build can read all the same.
\* "foreign": of a newer schema, in another shape.
Unparsed == {"half", "garbage", "foreign"}
FileKinds == {"absent", "data", "newer"} \cup Unparsed
File == [kind: FileKinds, data: StoreData]
NoFile == [kind |-> "absent", data |-> EmptyData]
HalfFile == [kind |-> "half", data |-> EmptyData]
Garbage == [kind |-> "garbage", data |-> EmptyData]
NewerFile == [kind |-> "newer", data |-> EmptyData]
ForeignFile == [kind |-> "foreign", data |-> EmptyData]
FileOf(d) == [kind |-> "data", data |-> d]

\* A state file left by a build that kept more history than this one.
LongHistory == [i \in 1 .. MaxHistory + 1 |-> 0]
OldFile == FileOf([EmptyData EXCEPT !.history = LongHistory])

\* The data open() finds in a file it accepts.
Reopen(f) == IF f.kind = "data" THEN trim(f.data) ELSE EmptyData

Init ==
    /\ disk \in {NoFile, OldFile}
    /\ durable = disk
    /\ tmp = NoFile
    /\ backup = NoFile /\ safeBackup = NoFile
    /\ mode = "down"
    /\ mem = EmptyData
    /\ pc = "idle"
    /\ next = EmptyData
    /\ calls = 0
    /\ acked = 0

----------------------------------------------------------------------------
(* UpdateStore::open, and open_updates' fallback to in_memory()            *)

Started(m, d) ==
    /\ mode = "down"
    /\ mode' = m
    /\ mem' = d
    /\ UNCHANGED <<durable, safeBackup, tmp, pc, next, calls, acked>>

OpenFresh ==
    /\ disk.kind = "absent"
    /\ Started("disk", EmptyData)
    /\ UNCHANGED <<disk, backup>>

OpenLoaded ==
    /\ disk.kind = "data"
    /\ Started("disk", Reopen(disk))
    /\ UNCHANGED <<disk, backup>>

\* Mutant of OpenRecovered: a schema that is too new counts as damage.
OpenRecovered_Newer ==
    /\ disk.kind \in Unparsed \cup {"newer"}
    /\ disk' = NoFile
    /\ backup' = disk
    /\ Started("disk", EmptyData)

\* The file does not parse, whatever its schema: move it over the one that was
\* moved aside before, start empty.  No sync of the directory follows.
OpenRecovered ==
    /\ disk.kind \in Unparsed
    /\ disk' = NoFile
    /\ backup' = disk
    /\ Started("disk", EmptyData)

\* Mutant of OpenRefused: start empty on the same path.
OpenRefused_StartsEmpty ==
    /\ disk.kind = "newer"
    /\ Started("disk", EmptyData)
    /\ UNCHANGED <<disk, backup>>

\* NewerSchema, of a file that parses: it is left alone and nothing will be
\* saved.
OpenRefused ==
    /\ disk.kind = "newer"
    /\ Started("memory", EmptyData)
    /\ UNCHANGED <<disk, backup>>

\* The file cannot be read, or a damaged one cannot be moved aside.
OpenFails ==
    /\ disk.kind # "absent"
    /\ Started("memory", EmptyData)
    /\ UNCHANGED <<disk, backup>>

----------------------------------------------------------------------------
(* change() and save()                                                     *)

\* Mutant of BeginChange: edit the live data instead of a copy.
BeginChange_InPlace(kind) ==
    /\ mode # "down"
    /\ pc = "idle"
    /\ calls < MaxCalls
    /\ calls' = calls + 1
    /\ next' = trim(edit(mem, kind, calls + 1))
    /\ mem' = next'
    /\ pc' = IF mode = "disk" THEN "create" ELSE "publish"
    /\ UNCHANGED <<files, mode, acked>>

\* Mutant of BeginChange: edit a default instead of a clone.
BeginChange_FromDefault(kind) ==
    /\ mode # "down"
    /\ pc = "idle"
    /\ calls < MaxCalls
    /\ calls' = calls + 1
    /\ next' = trim(edit(EmptyData, kind, calls + 1))
    /\ pc' = IF mode = "disk" THEN "create" ELSE "publish"
    /\ UNCHANGED <<files, mode, mem, acked>>

\* Take the lock, clone, edit, trim.
BeginChange(kind) ==
    /\ mode # "down"
    /\ pc = "idle"
    /\ calls < MaxCalls
    /\ calls' = calls + 1
    /\ next' = trim(edit(mem, kind, calls + 1))
    /\ pc' = IF mode = "disk" THEN "create" ELSE "publish"
    /\ UNCHANGED <<files, mode, mem, acked>>

\* Mutant of CreateTmp: the rename comes before the bytes.
CreateTmp_RenamedEmpty ==
    /\ pc = "create"
    /\ tmp' = HalfFile
    /\ pc' = "rename"
    /\ UNCHANGED <<disk, durable, backup, safeBackup, mode, mem, next, calls,
                   acked>>

\* write_synced opens and truncates the temporary file ...
CreateTmp ==
    /\ pc = "create"
    /\ tmp' = HalfFile
    /\ pc' = "write"
    /\ UNCHANGED <<disk, durable, backup, safeBackup, mode, mem, next, calls,
                   acked>>

\* ... then writes and syncs it.
WriteTmp ==
    /\ pc = "write"
    /\ tmp' = FileOf(next)
    /\ pc' = "rename"
    /\ UNCHANGED <<disk, durable, backup, safeBackup, mode, mem, next, calls,
                   acked>>

RenameTmp ==
    /\ pc = "rename"
    /\ disk' = tmp
    /\ tmp' = NoFile
    /\ pc' = "sync"
    /\ UNCHANGED <<durable, backup, safeBackup, mode, mem, next, calls, acked>>

\* The directory is on disk as it is.
Synced == durable' = disk /\ safeBackup' = backup

\* Mutant of SyncDir: the directory is not synced.
SyncDir_Skipped ==
    /\ pc = "sync"
    /\ pc' = "publish"
    /\ UNCHANGED <<files, mode, mem, next, calls, acked>>

\* Best effort: the outcome of the directory sync is ignored.
SyncDir ==
    /\ pc = "sync"
    /\ IF DirSyncs THEN Synced ELSE UNCHANGED <<durable, safeBackup>>
    /\ pc' = "publish"
    /\ UNCHANGED <<disk, tmp, backup, mode, mem, next, calls, acked>>

\* *guard = next; Ok(())
Publish ==
    /\ pc = "publish"
    /\ mem' = next
    /\ pc' = "idle"
    /\ next' = EmptyData
    /\ acked' = IF mode = "disk" THEN next.rev ELSE acked
    /\ UNCHANGED <<files, mode, calls>>

\* Creating the directory, writing or renaming fails: the error is returned.
\* The temporary file is removed, as far as that is possible, unless it was
\* the directory that could not be created.
SaveFails ==
    /\ pc \in {"create", "write", "rename"}
    /\ tmp' \in {tmp, NoFile}
    /\ pc' = "idle"
    /\ next' = EmptyData
    /\ UNCHANGED <<disk, durable, backup, safeBackup, mode, mem, calls, acked>>

----------------------------------------------------------------------------
(* The environment                                                         *)

\* The kernel writes the directory back in its own time.
WriteBack ==
    /\ durable # disk
    /\ Synced
    /\ UNCHANGED <<disk, tmp, backup, mode, mem, pc, next, calls, acked>>

Down ==
    /\ mode' = "down"
    /\ mem' = EmptyData
    /\ pc' = "idle"
    /\ next' = EmptyData

\* The daemon stops or is killed between any two steps.
ProcessCrash ==
    /\ mode # "down"
    /\ Down
    /\ UNCHANGED <<files, calls, acked>>

\* A directory change that was not written back is lost.
PowerLoss ==
    /\ mode # "down" \/ disk # durable
    /\ disk' = durable /\ backup' = safeBackup
    /\ tmp' \in {tmp, HalfFile, NoFile}
    /\ Down
    /\ UNCHANGED <<durable, safeBackup, calls, acked>>

\* While the daemon is down the file is damaged, or replaced by a newer build
\* that this one is then installed over.
Replaced(f) ==
    /\ mode = "down"
    /\ disk.kind = "data"
    /\ disk' = f
    /\ durable' = f /\ safeBackup' = backup
    /\ acked' = 0
    /\ UNCHANGED <<tmp, backup, mode, mem, pc, next, calls>>

Damaged == Replaced(Garbage)
Upgraded == Replaced(NewerFile) \/ Replaced(ForeignFile)

----------------------------------------------------------------------------

Next ==
    \/ OpenFresh \/ OpenLoaded \/ OpenRecovered \/ OpenRefused \/ OpenFails
    \/ \E kind \in EditKinds : BeginChange(kind)
    \/ CreateTmp \/ WriteTmp \/ RenameTmp \/ SyncDir \/ Publish \/ SaveFails
    \/ WriteBack \/ ProcessCrash \/ PowerLoss \/ Damaged \/ Upgraded

Spec == Init /\ [][Next]_vars

----------------------------------------------------------------------------
(* Properties                                                              *)

\* Type correctness.  What was moved aside is a file that did not parse, and
\* nothing but this build writes the temporary file.
TypeOK ==
    /\ disk \in File /\ durable \in File
    /\ tmp \in File /\ tmp.kind \in {"absent", "half", "data"}
    /\ backup \in File /\ backup.kind \in {"absent"} \cup Unparsed
    /\ safeBackup \in File /\ safeBackup.kind \in {"absent"} \cup Unparsed
    /\ mode \in {"down", "disk", "memory"}
    /\ mem \in StoreData /\ next \in StoreData
    /\ pc \in {"idle", "create", "write", "rename", "sync", "publish"}
    /\ calls \in Nat /\ acked \in Nat

\* "A reader sees the old file or the new one, never half": whatever happens
\* while save() runs, the state file is never the truncated temporary file,
\* neither for a process nor after a power failure.
NeverHalf == disk.kind # "half" /\ durable.kind # "half"

\* "Nothing half-applied": while the store is backed by a file, what readers
\* see is exactly what a restart would load, except that a change already
\* renamed into place is not yet visible.  A failed save leaves both alone.
NothingHalfApplied ==
    mode = "disk" =>
        \/ Reopen(disk) = mem /\ disk.kind \in {"absent", "data"}
        \/ pc \in {"sync", "publish"} /\ disk = FileOf(next)

\* A change that change() reported as saved survives every later crash, power
\* failure and failed save: the file that would be left is at least as new.
AckedSurvives ==
    acked # 0 => /\ durable.kind = "data"
                 /\ durable.data.rev >= acked

OldestFirst(d) ==
    \A i, j \in DOMAIN d.history : i < j => d.history[i] <= d.history[j]

\* "Bounded": no matter how long a history the file holds, the live one and
\* every one being saved keeps at most MaxHistory entries, oldest first.
Bounded ==
    \A d \in {mem, next} : Len(d.history) <= MaxHistory /\ OldestFirst(d)

\* A file of a newer schema "is refused rather than overwritten", if it parses:
\* while it is in place no step of the daemon replaces it.  open() parses before
\* it looks at the schema, so one of another shape is given up like a damaged
\* file, but even that one is never written over where it is: the step that
\* takes it away leaves all of it in <state file>.corrupt.
NewerNeverOverwritten ==
    [][/\ disk.kind = "newer" => disk' = disk
       /\ disk.kind = "foreign" =>
              disk' = disk \/ (disk' = NoFile /\ backup' = disk)]_vars

----------------------------------------------------------------------------
(* The inductive invariant behind the theorems of UpdateStoreProofs.       *)

\* change() runs only in a live daemon, and saves only when there is a path.
LockInv ==
    /\ mode = "down" => pc = "idle"
    /\ pc \in {"create", "write", "rename", "sync"} => mode = "disk"

\* The copy being saved is newer than everything else, and trimmed.
CopyInv ==
    /\ pc # "idle" => next.rev = calls
    /\ Len(next.history) <= MaxHistory
    /\ Len(mem.history) <= MaxHistory
    /\ acked <= calls

\* What the files hold at each point of change().
FileInv ==
    /\ NeverHalf
    /\ disk.kind \in {"newer", "foreign"} => durable = disk
    /\ pc = "rename" => tmp = FileOf(next)
    /\ mode = "disk" =>
           IF pc \in {"sync", "publish"}
           THEN disk = FileOf(next)
           ELSE disk.kind \in {"absent", "data"} /\ Reopen(disk) = mem

\* Nothing acknowledged is missing from the file, seen or durable.
AckInv ==
    /\ acked # 0 => disk.kind = "data" /\ disk.data.rev >= acked
    /\ AckedSurvives
    /\ mode = "disk" /\ pc = "publish" => durable = disk

\* No history, in memory or in a file, has an entry that is newer than the last
\* call or out of order.
OrderInv ==
    \A d \in {mem, next, disk.data, durable.data, tmp.data} :
        OldestFirst(d) /\ \A i \in DOMAIN d.history : d.history[i] <= calls

\* The copy is one whole edit away from what readers see.
EditInv ==
    pc # "idle" => \E kind \in EditKinds, when \in 1 .. MaxCalls :
                       next = trim(edit(mem, kind, when))

IInv == TypeOK /\ LockInv /\ CopyInv /\ FileInv

----------------------------------------------------------------------------
(* The store implements AtomicStore.                                       *)

\* The value a reader sees, or would see after a start.
visible == IF mode = "disk" THEN mem ELSE Reopen(disk)

\* What a power failure would leave; a change that is already written back
\* but not yet published still counts as the old value.
survives ==
    IF mode = "disk" /\ pc \in {"sync", "publish"} /\ durable = disk
    THEN mem
    ELSE Reopen(durable)

Atomic == INSTANCE AtomicStore
              WITH val <- visible, safe <- survives, Stamps <- 1 .. MaxCalls

\* Every behaviour of the store is one of AtomicStore: readers only ever see
\* whole edits, in the order they were made.
ImplementsAtomicStore == Atomic!AbsSpec
============================================================================
