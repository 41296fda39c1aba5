------------------------- MODULE UpdateStoreProofs -------------------------
(* Theorems about UpdateStore, for every history limit and number of calls. *)
EXTENDS UpdateStore, SequenceTheorems, TLAPS

USE MaxHistoryAssumption, StoreAssumption

\* trim keeps the type and every field but the history, leaves a history that
\* fits, and does nothing to one that already fits.
LEMMA TrimLemma ==
    ASSUME NEW d \in StoreData
    PROVE  /\ trim(d) \in StoreData
           /\ Len(trim(d).history) <= MaxHistory
           /\ trim(d).rev = d.rev
           /\ Len(d.history) <= MaxHistory => trim(d) = d
  <1> DEFINE len == Len(d.history)
             kept == SubSeq(d.history, len - MaxHistory + 1, len)
  <1>1. d.history \in Seq(Nat) /\ len \in Nat /\ MaxHistory \in Nat
    BY DEF StoreData
  <1>2. CASE len > MaxHistory
    <2>1. kept \in Seq(Nat) /\ Len(kept) = MaxHistory
      BY <1>1, <1>2, SubSeqProperties
    <2>2. trim(d) = [d EXCEPT !.history = kept]
      BY <1>2 DEF trim
    <2> HIDE DEF kept
    <2>3. /\ trim(d).history = kept
          /\ trim(d).rev = d.rev
          /\ trim(d) \in StoreData
      BY <2>1, <2>2 DEF StoreData
    <2> QED
      BY <1>1, <1>2, <2>1, <2>3
  <1>3. CASE ~(len > MaxHistory)
    BY <1>1, <1>3 DEF trim, StoreData
  <1> QED
    BY <1>2, <1>3

\* An edit keeps the type and stamps the data with its own time.
LEMMA EditLemma ==
    ASSUME NEW d \in StoreData, NEW kind \in EditKinds, NEW when \in Nat
    PROVE  /\ edit(d, kind, when) \in StoreData
           /\ edit(d, kind, when).rev = when
  <1>1. Append(d.history, when) \in Seq(Nat)
    BY DEF StoreData
  <1> QED
    BY <1>1 DEF edit, StoreData

\* The special files and the file of any data are files.
LEMMA FileLemma ==
    /\ EmptyData \in StoreData
    /\ Len(EmptyData.history) = 0
    /\ \A f \in {NoFile, HalfFile, Garbage, NewerFile, ForeignFile, OldFile} : f \in File
    /\ \A d \in StoreData : FileOf(d) \in File /\ FileOf(d).kind = "data"
    /\ NoFile.kind = "absent" /\ HalfFile.kind = "half"
    /\ \A f \in File : Reopen(f) \in StoreData
    /\ \A f \in File : Len(Reopen(f).history) <= MaxHistory
  <1>1. EmptyData \in StoreData /\ Len(EmptyData.history) = 0
    BY DEF EmptyData, StoreData
  <1>2. LongHistory \in Seq(Nat)
    BY DEF LongHistory
  <1>3. [EmptyData EXCEPT !.history = LongHistory] \in StoreData
    BY <1>1, <1>2 DEF EmptyData, StoreData
  <1>4. \A d \in StoreData : FileOf(d) \in File /\ FileOf(d).kind = "data"
    BY DEF FileOf, File, FileKinds
  <1>5. \A f \in {NoFile, HalfFile, Garbage, NewerFile, ForeignFile, OldFile} : f \in File
    BY <1>1, <1>3, <1>4
    DEF NoFile, HalfFile, Garbage, NewerFile, ForeignFile, OldFile, File, FileKinds,
        Unparsed
  <1>6. \A f \in File : /\ Reopen(f) \in StoreData
                        /\ Len(Reopen(f).history) <= MaxHistory
    BY <1>1, TrimLemma DEF Reopen, File
  <1>7. NoFile.kind = "absent" /\ HalfFile.kind = "half"
    BY DEF NoFile, HalfFile
  <1> QED
    BY <1>1, <1>4, <1>5, <1>6, <1>7

----------------------------------------------------------------------------
(* The invariant of the lock, the copy and the files                       *)

\* The state a stopped daemon leaves behind satisfies the parts of IInv that
\* speak of a live one.
LEMMA DownLemma ==
    ASSUME TypeOK, NeverHalf, acked <= calls, Down,
           disk' \in File, durable' \in File,
           tmp' \in {tmp, HalfFile, NoFile},
           backup' \in {backup, safeBackup}, safeBackup' = safeBackup,
           UNCHANGED <<calls, acked>>,
           NeverHalf', (disk.kind \in {"newer", "foreign"} => durable = disk)'
    PROVE  IInv'
  BY FileLemma
  DEF IInv, TypeOK, LockInv, CopyInv, FileInv, Down

\* One step of the store preserves IInv.
LEMMA IInvStep == IInv /\ [Next]_vars => IInv'
  <1> SUFFICES ASSUME IInv, [Next]_vars PROVE IInv'
    OBVIOUS
  <1> USE DEF IInv, LockInv, CopyInv, FileInv, NeverHalf
  <1>1. CASE OpenFresh
    BY <1>1, FileLemma
    DEF OpenFresh, Started, TypeOK, Reopen
  <1>2. CASE OpenLoaded
    BY <1>2, FileLemma
    DEF OpenLoaded, Started, TypeOK
  <1>3. CASE OpenRecovered
    <2>1. NoFile.kind = "absent"
      BY DEF NoFile
    <2> QED
      BY <1>3, <2>1, FileLemma
      DEF OpenRecovered, Started, TypeOK, Reopen
  <1>4. CASE OpenRefused
    BY <1>4, FileLemma
    DEF OpenRefused, Started, TypeOK
  <1>5. CASE OpenFails
    BY <1>5, FileLemma
    DEF OpenFails, Started, TypeOK
  <1>6. ASSUME NEW kind \in EditKinds, BeginChange(kind) PROVE IInv'
    <2> DEFINE copy == trim(edit(mem, kind, calls + 1))
    <2>1. /\ copy \in StoreData
          /\ copy.rev = calls + 1
          /\ Len(copy.history) <= MaxHistory
      <3>1. mem \in StoreData /\ calls + 1 \in Nat
        BY DEF TypeOK
      <3>2. /\ edit(mem, kind, calls + 1) \in StoreData
            /\ edit(mem, kind, calls + 1).rev = calls + 1
        BY <3>1, EditLemma
      <3> QED
        BY <3>2, TrimLemma
    <2>2. next' = copy
      BY <1>6 DEF BeginChange
    <2> HIDE DEF copy
    <2> QED
      BY <1>6, <2>1, <2>2 DEF BeginChange, files, TypeOK
  <1>7. CASE CreateTmp
    BY <1>7, FileLemma DEF CreateTmp, TypeOK
  <1>8. CASE WriteTmp
    BY <1>8, FileLemma DEF WriteTmp, TypeOK
  <1>9. CASE RenameTmp
    BY <1>9, FileLemma DEF RenameTmp, TypeOK, FileOf
  <1>10. CASE SyncDir
    BY <1>10, FileLemma DEF SyncDir, Synced, TypeOK
  <1>11. CASE Publish
    <2>1. mode = "disk" => Reopen(disk) = next /\ disk.kind = "data"
      BY <1>11, TrimLemma DEF Publish, TypeOK, FileOf, Reopen
    <2>2. next.rev \in Nat /\ next.rev = calls
      BY <1>11 DEF Publish, TypeOK, StoreData
    <2> QED
      BY <1>11, <2>1, <2>2, FileLemma DEF Publish, files, TypeOK
  <1>12. CASE SaveFails
    BY <1>12, FileLemma DEF SaveFails, TypeOK
  <1>13. CASE WriteBack
    BY <1>13 DEF WriteBack, Synced, TypeOK
  <1>14. CASE ProcessCrash
    BY <1>14, DownLemma DEF ProcessCrash, files, TypeOK
  <1>15. CASE PowerLoss
    <2>1. disk' = durable /\ durable' = durable
      BY <1>15 DEF PowerLoss
    <2> QED
      BY <1>15, <2>1, DownLemma DEF PowerLoss, TypeOK
  <1>16. ASSUME NEW f \in {Garbage, NewerFile, ForeignFile}, Replaced(f) PROVE IInv'
    <2>1. f \in File /\ f.kind # "half"
      BY FileLemma DEF Garbage, NewerFile, ForeignFile
    <2> QED
      BY <1>16, <2>1 DEF Replaced, TypeOK
  <1>17. CASE UNCHANGED vars
    BY <1>17 DEF vars, files, TypeOK, Reopen
  <1> QED
    BY <1>1, <1>2, <1>3, <1>4, <1>5, <1>6, <1>7, <1>8, <1>9, <1>10, <1>11,
       <1>12, <1>13, <1>14, <1>15, <1>16, <1>17
    DEF Next, Damaged, Upgraded

\* IInv holds in every state the store can be in.
THEOREM Invariance == Spec => []IInv
  <1>1. Init => IInv
    <2> SUFFICES ASSUME Init PROVE IInv
      OBVIOUS
    <2>1. TypeOK
      BY FileLemma DEF Init, TypeOK
    <2>2. NoFile.kind = "absent" /\ OldFile.kind = "data"
      BY DEF NoFile, OldFile, FileOf
    <2>3. FileInv
      BY <2>2 DEF Init, FileInv, NeverHalf
    <2>4. LockInv /\ CopyInv
      BY FileLemma DEF Init, LockInv, CopyInv
    <2> QED
      BY <2>1, <2>3, <2>4 DEF IInv
  <1> QED
    BY <1>1, IInvStep, PTL DEF Spec

\* The type invariant holds for every history limit and number of calls.
THEOREM TypeCorrect == Spec => []TypeOK
  <1>1. IInv => TypeOK
    BY DEF IInv
  <1> QED
    BY <1>1, Invariance, PTL

\* No reader, and no restart after any crash, ever finds a half-written file.
THEOREM NeverHalfWritten == Spec => []NeverHalf
  <1>1. IInv => NeverHalf
    BY DEF IInv, FileInv
  <1> QED
    BY <1>1, Invariance, PTL

\* Memory and file agree, except for a change renamed into place that is about
\* to be published: a failed or interrupted save leaves nothing half-applied.
THEOREM MemoryMatchesFile == Spec => []NothingHalfApplied
  <1>1. IInv => NothingHalfApplied
    BY DEF IInv, FileInv, NothingHalfApplied
  <1> QED
    BY <1>1, Invariance, PTL

----------------------------------------------------------------------------
(* Durability, on a file system that syncs directories                     *)

\* One step of the store preserves AckInv.
LEMMA AckInvStep ==
    ASSUME DirSyncs
    PROVE  IInv /\ AckInv /\ [Next]_vars => AckInv'
  <1> SUFFICES ASSUME IInv, AckInv, [Next]_vars PROVE AckInv'
    OBVIOUS
  <1> USE DEF AckInv, AckedSurvives
  <1>0. TypeOK /\ acked \in Nat /\ calls \in Nat /\ acked <= calls
    BY DEF IInv, CopyInv, TypeOK
  <1>1. CASE OpenFresh \/ OpenLoaded \/ OpenRefused \/ OpenFails
    BY <1>1 DEF OpenFresh, OpenLoaded, OpenRefused, OpenFails, Started, IInv,
                LockInv
  <1>2. CASE OpenRecovered
    BY <1>2 DEF OpenRecovered, Unparsed, Started, IInv, LockInv
  <1>3. ASSUME NEW kind \in EditKinds, BeginChange(kind) PROVE AckInv'
    BY <1>3 DEF BeginChange, files
  <1>4. CASE CreateTmp \/ WriteTmp \/ SaveFails
    BY <1>4 DEF CreateTmp, WriteTmp, SaveFails
  <1>5. CASE RenameTmp
    BY <1>0, <1>5 DEF RenameTmp, IInv, CopyInv, FileInv, FileOf
  <1>6. CASE SyncDir
    BY <1>6 DEF SyncDir, Synced
  <1>7. CASE Publish
    <2>1. mode = "disk" => disk = FileOf(next)
      BY <1>7 DEF Publish, IInv, FileInv
    <2>2. next.rev = calls
      BY <1>7 DEF Publish, IInv, CopyInv
    <2> QED
      BY <1>0, <1>7, <2>1, <2>2 DEF Publish, files, FileOf
  <1>8. CASE WriteBack
    BY <1>8 DEF WriteBack, Synced
  <1>9. CASE ProcessCrash
    BY <1>9 DEF ProcessCrash, Down, files
  <1>10. CASE PowerLoss
    BY <1>10 DEF PowerLoss, Down
  <1>11. ASSUME NEW f, Replaced(f) PROVE AckInv'
    BY <1>11 DEF Replaced, IInv, LockInv
  <1>12. CASE UNCHANGED vars
    BY <1>12 DEF vars, files
  <1> QED
    BY <1>1, <1>2, <1>3, <1>4, <1>5, <1>6, <1>7, <1>8, <1>9, <1>10, <1>11,
       <1>12
    DEF Next, Damaged, Upgraded

\* Where directories can be synced, a change reported as saved survives every
\* later crash, power failure and failed save.
THEOREM AckedChangesSurvive ==
    ASSUME DirSyncs
    PROVE  Spec => []AckedSurvives
  <1>1. Init => AckInv
    BY DEF Init, AckInv, AckedSurvives
  <1>2. IInv /\ AckInv /\ [Next]_vars => AckInv'
    BY AckInvStep
  <1>3. AckInv => AckedSurvives
    BY DEF AckInv
  <1> QED
    BY <1>1, <1>2, <1>3, Invariance, PTL DEF Spec

\* No step of the store writes over a file of a newer schema: one that parses
\* stays where it is, one that does not is moved aside as a whole.
THEOREM NewerFileKept == Spec => NewerNeverOverwritten
  <1> DEFINE Kept == /\ disk.kind = "newer" => disk' = disk
                     /\ disk.kind = "foreign" =>
                            disk' = disk \/ (disk' = NoFile /\ backup' = disk)
  <1>1. IInv /\ [Next]_vars => [Kept]_vars
    <2> SUFFICES ASSUME IInv, Next, disk.kind \in {"newer", "foreign"} PROVE Kept
      OBVIOUS
    <2>1. ~ Damaged /\ ~ Upgraded
      BY DEF Damaged, Upgraded, Replaced
    <2>2. ~ RenameTmp
      BY DEF IInv, LockInv, FileInv, RenameTmp
    <2>3. CASE OpenRecovered
      BY <2>3 DEF OpenRecovered, Unparsed
    <2>4. CASE PowerLoss
      BY <2>4 DEF PowerLoss, IInv, FileInv
    <2> QED
      BY <2>1, <2>2, <2>3, <2>4
      DEF Next, OpenFresh, OpenLoaded, OpenRefused, OpenFails, BeginChange,
          CreateTmp, WriteTmp, SyncDir, Publish, SaveFails, WriteBack,
          ProcessCrash, files
  <1> QED
    BY <1>1, Invariance, PTL DEF Spec, NewerNeverOverwritten

----------------------------------------------------------------------------
(* The order of the history                                                *)

\* A history that is in order and not newer than a call.
OrderedUpTo(d, n) ==
    OldestFirst(d) /\ \A i \in DOMAIN d.history : d.history[i] <= n

\* trim keeps the order.
LEMMA TrimOrder ==
    ASSUME NEW d \in StoreData, NEW n \in Nat, OrderedUpTo(d, n)
    PROVE  OrderedUpTo(trim(d), n)
  <1> DEFINE h == d.history
             len == Len(h)
             cut == len - MaxHistory
             kept == SubSeq(h, cut + 1, len)
  <1>1. /\ h \in Seq(Nat) /\ len \in Nat /\ MaxHistory \in Nat
        /\ DOMAIN h = 1 .. len
    BY DEF StoreData
  <1>2. /\ \A i, j \in 1 .. len : i < j => h[i] <= h[j]
        /\ \A i \in 1 .. len : h[i] <= n
    BY <1>1 DEF OrderedUpTo, OldestFirst
  <1>3. CASE len > MaxHistory
    <2>1. trim(d) = [d EXCEPT !.history = kept]
      BY <1>3 DEF trim
    <2> HIDE DEF h
    <2>2. cut + 1 \in Int /\ len \in Int /\ \A i \in cut + 1 .. len : h[i] \in Nat
      BY <1>1, <1>3
    <2>3. /\ kept \in Seq(Nat)
          /\ Len(kept) = IF cut + 1 <= len THEN len - (cut + 1) + 1 ELSE 0
          /\ \A i \in 1 .. len - (cut + 1) + 1 : kept[i] = h[(cut + 1) + i - 1]
      BY <2>2, SubSeqProperties
    <2> HIDE DEF kept
    <2>4. trim(d).history = kept
      BY <2>1, <2>3 DEF StoreData
    <2> HIDE DEF len
    <2>5. /\ Len(kept) = MaxHistory
          /\ \A i \in 1 .. MaxHistory : kept[i] = h[cut + i] /\ cut + i \in 1 .. len
      <3>1. cut + 1 <= len /\ len - (cut + 1) + 1 = MaxHistory
        BY <1>1, <1>3
      <3>2. \A i \in 1 .. MaxHistory : (cut + 1) + i - 1 = cut + i /\ cut + i \in 1 .. len
        BY <1>1, <1>3
      <3> HIDE DEF cut
      <3> QED
        BY <2>3, <3>1, <3>2
    <2>6. DOMAIN kept = 1 .. MaxHistory
      BY <2>3, <2>5
    <2>7. \A i, j \in 1 .. MaxHistory : i < j => kept[i] <= kept[j]
      BY <1>1, <1>2, <1>3, <2>5
    <2>8. \A i \in 1 .. MaxHistory : kept[i] <= n
      BY <1>2, <2>5
    <2> QED
      BY <2>4, <2>6, <2>7, <2>8 DEF OrderedUpTo, OldestFirst
  <1>4. CASE ~(len > MaxHistory)
    BY <1>4 DEF trim
  <1> QED
    BY <1>3, <1>4

\* An edit with a newer stamp keeps the order.
LEMMA EditOrder ==
    ASSUME NEW d \in StoreData, NEW n \in Nat, OrderedUpTo(d, n),
           NEW kind \in EditKinds
    PROVE  OrderedUpTo(edit(d, kind, n + 1), n + 1)
  <1> DEFINE h == d.history
             longer == Append(h, n + 1)
  <1>1. h \in Seq(Nat) /\ Len(h) \in Nat /\ DOMAIN h = 1 .. Len(h) /\ n + 1 \in Nat
    BY DEF StoreData
  <1>2. /\ \A i, j \in DOMAIN h : i < j => h[i] <= h[j]
        /\ \A i \in DOMAIN h : h[i] <= n /\ h[i] \in Nat
    BY <1>1 DEF OrderedUpTo, OldestFirst
  <1>3. /\ DOMAIN longer = 1 .. Len(h) + 1
        /\ \A i \in 1 .. Len(h) : longer[i] = h[i]
        /\ longer[Len(h) + 1] = n + 1
    BY <1>1
  <1>4. edit(d, kind, n + 1).history \in {h, longer}
    BY DEF edit
  <1> HIDE DEF h, longer
  <1>5. CASE edit(d, kind, n + 1).history = h
    <2>1. \A i \in DOMAIN h : h[i] <= n + 1
      BY <1>2
    <2> QED
      BY <1>2, <1>5, <2>1 DEF OrderedUpTo, OldestFirst
  <1>6. CASE edit(d, kind, n + 1).history = longer
    <2>1. \A i \in 1 .. Len(h) + 1 : longer[i] <= n + 1
      BY <1>1, <1>2, <1>3
    <2>2. \A i, j \in 1 .. Len(h) + 1 : i < j => longer[i] <= longer[j]
      <3> TAKE i, j \in 1 .. Len(h) + 1
      <3> HAVE i < j
      <3>1. i \in 1 .. Len(h) /\ longer[i] = h[i]
        BY <1>1, <1>3
      <3>2. CASE j = Len(h) + 1
        BY <1>3, <2>1, <3>2
      <3>3. CASE j \in 1 .. Len(h)
        BY <1>1, <1>2, <1>3, <3>1, <3>3
      <3> QED
        BY <1>1, <3>2, <3>3
    <2> QED
      BY <1>3, <1>6, <2>1, <2>2 DEF OrderedUpTo, OldestFirst
  <1> QED
    BY <1>4, <1>5, <1>6

\* The special files hold an ordered history.
LEMMA FileOrder ==
    ASSUME NEW n \in Nat
    PROVE  /\ OrderedUpTo(EmptyData, n)
           /\ \A f \in {NoFile, HalfFile, Garbage, NewerFile, ForeignFile, OldFile} :
                  OrderedUpTo(f.data, n)
  <1>1. OrderedUpTo(EmptyData, n)
    BY DEF EmptyData, OrderedUpTo, OldestFirst
  <1>2. OrderedUpTo(OldFile.data, n)
    <2>1. OldFile.data.history = LongHistory
      BY DEF OldFile, FileOf, EmptyData
    <2>2. \A i \in DOMAIN LongHistory : LongHistory[i] = 0
      BY DEF LongHistory
    <2> QED
      BY <2>1, <2>2 DEF OrderedUpTo, OldestFirst
  <1> QED
    BY <1>1, <1>2 DEF NoFile, HalfFile, Garbage, NewerFile, ForeignFile

\* One step of the store preserves OrderInv.
LEMMA OrderInvStep == IInv /\ OrderInv /\ [Next]_vars => OrderInv'
  <1> SUFFICES ASSUME IInv, OrderInv, [Next]_vars PROVE OrderInv'
    OBVIOUS
  <1>0. /\ TypeOK /\ calls \in Nat /\ mem \in StoreData /\ disk.data \in StoreData
        /\ next \in StoreData
    BY DEF IInv, TypeOK, File
  <1>1. /\ OrderedUpTo(mem, calls) /\ OrderedUpTo(next, calls)
        /\ OrderedUpTo(disk.data, calls) /\ OrderedUpTo(durable.data, calls)
        /\ OrderedUpTo(tmp.data, calls)
    BY DEF OrderInv, OrderedUpTo
  <1> DEFINE Kept == /\ OrderedUpTo(mem', calls') /\ OrderedUpTo(next', calls')
                     /\ OrderedUpTo(disk'.data, calls')
                     /\ OrderedUpTo(durable'.data, calls')
                     /\ OrderedUpTo(tmp'.data, calls')
  <1>2. Kept => OrderInv'
    BY DEF OrderInv, OrderedUpTo, OldestFirst
  <1>3. /\ OrderedUpTo(EmptyData, calls)
        /\ \A f \in {NoFile, HalfFile, Garbage, NewerFile, ForeignFile, OldFile} :
               OrderedUpTo(f.data, calls)
        /\ OrderedUpTo(Reopen(disk), calls)
        /\ OrderedUpTo(FileOf(next).data, calls)
    BY <1>0, <1>1, FileOrder, TrimOrder DEF Reopen, FileOf
  <1>4. ASSUME OpenFresh \/ OpenLoaded \/ OpenRecovered \/ OpenRefused \/ OpenFails PROVE Kept
    BY <1>1, <1>3, <1>4
    DEF OpenFresh, OpenLoaded, OpenRecovered, OpenRefused, OpenFails, Started
  <1>5. ASSUME NEW kind \in EditKinds, BeginChange(kind) PROVE Kept
    <2>1. OrderedUpTo(next', calls')
      <3>1. edit(mem, kind, calls + 1) \in StoreData
        BY <1>0, EditLemma
      <3>2. OrderedUpTo(edit(mem, kind, calls + 1), calls + 1)
        BY <1>0, <1>1, EditOrder
      <3>3. OrderedUpTo(trim(edit(mem, kind, calls + 1)), calls + 1)
        BY <1>0, <3>1, <3>2, TrimOrder
      <3> QED
        BY <1>5, <3>3 DEF BeginChange
    <2>2. \A d \in {mem, disk.data, durable.data, tmp.data} :
              OrderedUpTo(d, calls + 1)
      <3>1. \A d \in StoreData : \A i \in DOMAIN d.history : d.history[i] \in Nat
        BY DEF StoreData
      <3>2. {mem, disk.data, durable.data, tmp.data} \subseteq StoreData
        BY DEF IInv, TypeOK, File
      <3> QED
        BY <1>0, <1>1, <3>1, <3>2 DEF OrderedUpTo
    <2> QED
      BY <1>5, <2>1, <2>2 DEF BeginChange, files
  <1>6. ASSUME CreateTmp \/ WriteTmp \/ RenameTmp \/ SyncDir \/ Publish \/ SaveFails PROVE Kept
    BY <1>1, <1>3, <1>6
    DEF CreateTmp, WriteTmp, RenameTmp, SyncDir, Synced, Publish, SaveFails, files
  <1>7. ASSUME WriteBack \/ ProcessCrash \/ PowerLoss PROVE Kept
    BY <1>1, <1>3, <1>7 DEF WriteBack, Synced, ProcessCrash, PowerLoss, Down,
                             files
  <1>8. ASSUME NEW f \in {Garbage, NewerFile, ForeignFile}, Replaced(f) PROVE Kept
    BY <1>1, <1>3, <1>8 DEF Replaced
  <1>9. ASSUME UNCHANGED vars PROVE Kept
    BY <1>1, <1>9 DEF vars, files
  <1> QED
    BY <1>2, <1>4, <1>5, <1>6, <1>7, <1>8, <1>9 DEF Next, Damaged, Upgraded

\* However long a history the file holds, the live one and every one being
\* saved keeps its bound and its order.
THEOREM HistoryBounded == Spec => []Bounded
  <1>1. Init => OrderInv
    <2> SUFFICES ASSUME Init PROVE OrderInv
      OBVIOUS
    <2>1. \A d \in {mem, next, disk.data, durable.data, tmp.data} :
              OrderedUpTo(d, 0)
      BY FileOrder DEF Init
    <2> QED
      BY <2>1 DEF OrderInv, OrderedUpTo, Init
  <1>2. IInv /\ OrderInv => Bounded
    BY DEF IInv, CopyInv, OrderInv, Bounded
  <1> QED
    BY <1>1, <1>2, OrderInvStep, Invariance, PTL DEF Spec

----------------------------------------------------------------------------
(* The refinement                                                          *)

\* The operators of StoreData mean the same on both levels.
LEMMA SameData ==
    /\ Atomic!StoreData = StoreData
    /\ Atomic!EmptyData = EmptyData
    /\ Atomic!EditKinds = EditKinds
    /\ \A d, kind, when : Atomic!trim(Atomic!edit(d, kind, when))
                              = trim(edit(d, kind, when))
  BY DEF Atomic!StoreData, StoreData, Atomic!EmptyData, EmptyData,
         Atomic!EditKinds, EditKinds, Atomic!trim, trim, Atomic!edit, edit

\* One step of the store preserves EditInv.
LEMMA EditInvStep == IInv /\ EditInv /\ [Next]_vars => EditInv'
  <1> SUFFICES ASSUME IInv, EditInv, [Next]_vars PROVE EditInv'
    OBVIOUS
  <1> USE DEF EditInv
  <1>1. CASE OpenFresh \/ OpenLoaded \/ OpenRecovered \/ OpenRefused \/ OpenFails
    BY <1>1 DEF OpenFresh, OpenLoaded, OpenRecovered, OpenRefused, OpenFails,
                Started, IInv, LockInv
  <1>2. ASSUME NEW kind \in EditKinds, BeginChange(kind) PROVE EditInv'
    <2>1. calls + 1 \in 1 .. MaxCalls
      BY <1>2 DEF BeginChange, IInv, TypeOK
    <2> QED
      BY <1>2, <2>1 DEF BeginChange
  <1>3. CASE CreateTmp \/ WriteTmp \/ RenameTmp \/ SyncDir \/ WriteBack
    BY <1>3 DEF CreateTmp, WriteTmp, RenameTmp, SyncDir, WriteBack
  <1>4. CASE Publish \/ SaveFails \/ ProcessCrash \/ PowerLoss
    BY <1>4 DEF Publish, SaveFails, ProcessCrash, PowerLoss, Down
  <1>5. ASSUME NEW f, Replaced(f) PROVE EditInv'
    BY <1>5 DEF Replaced, IInv, LockInv
  <1>6. CASE UNCHANGED vars
    BY <1>6 DEF vars
  <1> QED
    BY <1>1, <1>2, <1>3, <1>4, <1>5, <1>6 DEF Next, Damaged, Upgraded

\* What each abstract step looks like through the mapping.
LEMMA AbstractSteps ==
    /\ UNCHANGED <<visible, survives>> => [Atomic!AbsNext]_<<visible, survives>>
    /\ visible' = visible /\ survives' = visible
           => [Atomic!AbsNext]_<<visible, survives>>
    /\ visible' = survives /\ survives' = survives
           => [Atomic!AbsNext]_<<visible, survives>>
    /\ visible' = EmptyData /\ survives' = EmptyData
           => [Atomic!AbsNext]_<<visible, survives>>
    /\ (\E kind \in EditKinds, when \in 1 .. MaxCalls :
               visible' = trim(edit(visible, kind, when)))
       /\ survives' \in {survives, visible'}
           => [Atomic!AbsNext]_<<visible, survives>>
  BY SameData
  DEF Atomic!AbsNext, Atomic!Change, Atomic!Settle, Atomic!PowerFailure,
      Atomic!Lose

\* Every step of the store is a step of AtomicStore, or none.
LEMMA RefineStep ==
    IInv /\ EditInv /\ [Next]_vars => [Atomic!AbsNext]_<<visible, survives>>
  <1> SUFFICES ASSUME IInv, EditInv, [Next]_vars
               PROVE  [Atomic!AbsNext]_<<visible, survives>>
    OBVIOUS
  <1> DEFINE Goal == [Atomic!AbsNext]_<<visible, survives>>
             Renamed == pc \in {"sync", "publish"}
  <1> USE DEF visible, survives
  <1>0. /\ mode = "down" => pc = "idle"
        /\ pc \in {"create", "write", "rename", "sync"} => mode = "disk"
        /\ mode = "disk" /\ ~Renamed => Reopen(disk) = mem
        /\ mode = "disk" /\ Renamed => disk = FileOf(next)
        /\ Renamed => Reopen(FileOf(next)) = next
        /\ pc = "rename" => tmp = FileOf(next)
    BY TrimLemma DEF IInv, LockInv, CopyInv, FileInv, TypeOK, Reopen, FileOf
  <1>1. CASE OpenFresh \/ OpenLoaded \/ OpenRefused \/ OpenFails
    <2>1. OpenFresh => Reopen(disk) = EmptyData
      BY DEF OpenFresh, Reopen
    <2>2. UNCHANGED <<visible, survives>>
      BY <1>0, <1>1, <2>1
      DEF OpenFresh, OpenLoaded, OpenRefused, OpenFails, Started, Reopen
    <2> QED
      BY <2>2, AbstractSteps
  <1>2. CASE OpenRecovered
    <2>1. Reopen(disk) = EmptyData
      BY <1>2 DEF OpenRecovered, Unparsed, Reopen
    <2>2. UNCHANGED <<visible, survives>>
      BY <1>0, <1>2, <2>1 DEF OpenRecovered, Started, Reopen
    <2> QED
      BY <2>2, AbstractSteps
  <1>3. ASSUME NEW kind \in EditKinds, BeginChange(kind) PROVE Goal
    <2>1. UNCHANGED <<visible, survives>>
      BY <1>3 DEF BeginChange, files, Reopen
    <2> QED
      BY <2>1, AbstractSteps
  <1>4. CASE CreateTmp \/ WriteTmp \/ SaveFails
    <2>1. UNCHANGED <<visible, survives>>
      BY <1>4 DEF CreateTmp, WriteTmp, SaveFails, Reopen
    <2> QED
      BY <2>1, AbstractSteps
  <1>5. CASE RenameTmp
    <2>1. mode = "disk" /\ mode' = mode /\ pc = "rename" /\ pc' = "sync"
          /\ mem' = mem /\ durable' = durable
      BY <1>0, <1>5 DEF RenameTmp
    <2>2. visible' = visible /\ survives' \in {survives, visible}
      BY <2>1 DEF Reopen
    <2> QED
      BY <2>2, AbstractSteps
  <1>6. CASE SyncDir
    <2>1. mode = "disk" /\ mode' = mode /\ pc = "sync" /\ pc' = "publish"
          /\ mem' = mem /\ disk' = disk /\ durable' \in {disk, durable}
      BY <1>0, <1>6 DEF SyncDir, Synced
    <2>2. visible' = visible /\ survives' \in {survives, visible}
      BY <2>1 DEF Reopen
    <2> QED
      BY <2>2, AbstractSteps
  <1>7. CASE Publish
    <2>1. mode' = mode /\ pc = "publish" /\ pc' = "idle" /\ mem' = next
          /\ disk' = disk /\ durable' = durable
      BY <1>7 DEF Publish, files
    <2>2. CASE mode = "disk"
      <3>1. visible = mem /\ visible' = next
        BY <2>1, <2>2
      <3>2. survives' \in {survives, visible'}
        BY <1>0, <2>1, <2>2, <3>1 DEF Reopen
      <3>3. \E kind \in EditKinds, when \in 1 .. MaxCalls :
                visible' = trim(edit(visible, kind, when))
        BY <2>1, <3>1 DEF EditInv
      <3> QED
        BY <3>2, <3>3, AbstractSteps
    <2>3. CASE mode # "disk"
      <3>1. UNCHANGED <<visible, survives>>
        BY <2>1, <2>3 DEF Reopen
      <3> QED
        BY <3>1, AbstractSteps
    <2> QED
      BY <2>2, <2>3
  <1>8. CASE WriteBack
    <2>1. visible' = visible /\ survives' = visible
      BY <1>0, <1>8 DEF WriteBack, Synced, Reopen
    <2> QED
      BY <2>1, AbstractSteps
  <1>9. CASE ProcessCrash \/ PowerLoss
    <2>1. /\ mode' = "down" /\ durable' = durable
          /\ disk' \in {disk, durable}
          /\ PowerLoss => disk' = durable
          /\ ProcessCrash => disk' = disk
      BY <1>9 DEF ProcessCrash, PowerLoss, Down, files
    <2>2. visible' = Reopen(disk') /\ survives' = Reopen(durable)
      BY <2>1 DEF Reopen
    <2>3. CASE mode = "disk" /\ Renamed /\ disk' = disk
      <3>1. visible = mem /\ visible' = next
        BY <1>0, <2>2, <2>3
      <3>2. survives' \in {survives, visible'}
        BY <2>2, <2>3
      <3>3. \E kind \in EditKinds, when \in 1 .. MaxCalls :
                visible' = trim(edit(visible, kind, when))
        BY <2>3, <3>1 DEF EditInv
      <3> QED
        BY <3>2, <3>3, AbstractSteps
    <2>4. CASE mode = "disk" /\ Renamed /\ disk' # disk
      <3>1. survives = Reopen(durable) /\ visible' = Reopen(durable)
        BY <2>1, <2>2, <2>4
      <3> QED
        BY <2>2, <3>1, AbstractSteps
    <2>5. CASE ~(mode = "disk" /\ Renamed)
      <3>1. survives = Reopen(durable) /\ visible = Reopen(disk)
        BY <1>0, <2>5
      <3> QED
        BY <2>1, <2>2, <3>1, AbstractSteps
    <2> QED
      BY <2>3, <2>4, <2>5
  <1>10. ASSUME NEW f \in {Garbage, NewerFile, ForeignFile}, Replaced(f) PROVE Goal
    <2>1. disk' = f /\ durable' = f /\ mode' = "down"
      BY <1>10 DEF Replaced
    <2>2. Reopen(f) = EmptyData
      BY DEF Reopen, Garbage, NewerFile, ForeignFile
    <2>3. visible' = EmptyData /\ survives' = EmptyData
      BY <2>1, <2>2 DEF Reopen
    <2> QED
      BY <2>3, AbstractSteps
  <1>11. CASE UNCHANGED vars
    <2>1. UNCHANGED <<visible, survives>>
      BY <1>11 DEF vars, files, Reopen
    <2> QED
      BY <2>1, AbstractSteps
  <1> QED
    BY <1>1, <1>2, <1>3, <1>4, <1>5, <1>6, <1>7, <1>8, <1>9, <1>10, <1>11
    DEF Next, Damaged, Upgraded

\* The store, with its files, crashes and failures, implements AtomicStore:
\* readers only ever see whole edits, in the order in which they were made.
THEOREM StoreIsAtomic == Spec => ImplementsAtomicStore
  <1>1. Init => Atomic!AbsInit
    <2> SUFFICES ASSUME Init PROVE Atomic!AbsInit
      OBVIOUS
    <2>1. disk \in File /\ durable = disk /\ mode = "down"
      BY FileLemma DEF Init
    <2>2. visible = Reopen(disk) /\ survives = Reopen(disk)
      BY <2>1 DEF visible, survives
    <2> QED
      BY <2>1, <2>2, FileLemma, SameData DEF Atomic!AbsInit
  <1>2. Init => EditInv
    BY DEF Init, EditInv
  <1>3. IInv /\ EditInv /\ [Next]_vars => [Atomic!AbsNext]_Atomic!absVars
    BY RefineStep DEF Atomic!absVars
  <1> QED
    BY <1>1, <1>2, <1>3, EditInvStep, Invariance, PTL
    DEF Spec, ImplementsAtomicStore, Atomic!AbsSpec
============================================================================
