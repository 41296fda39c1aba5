---------------------------- MODULE ApplyProofs ----------------------------
(***************************************************************************)
(* Theorems about ApplyProtocol: for any packages, callers, configurations,*)
(* local times and bounds; with every fault, where a theorem does not say  *)
(* which ones it excludes.                                                 *)
(***************************************************************************)
EXTENDS ApplyProtocol, FiniteSetTheorems, TLAPS

USE ApplyAssumption

\* What the policy answers is made of truth values.
LEMMA PermissionsType ==
    ASSUME NEW c, NEW t
    PROVE  permissions(c, t) \in Permissions
  BY DEF permissions, Permissions

\* The neutral values have their types.
LEMMA Neutral ==
    /\ NoConfig \in Configs
    /\ NoRequest \in Requests
    /\ NoResult \in Results
    /\ NoPerms \in Permissions
    /\ IdleCall \in Calls
    /\ NoCalls \in [Writers -> Calls]
    /\ \A pc \in {"down", "sleep"} : NewSched(pc) \in SchedStates
    /\ Asleep \in SchedStates
    /\ NoRun \in HelperRuns
  <1>1. NoConfig \in Configs
    BY DEF NoConfig
  <1>2. NoRequest \in Requests
    BY DEF NoRequest, Requests, Ids, Writers
  <1>3. NoResult \in Results /\ NoPerms \in Permissions
    BY DEF NoResult, Results, Ids, NoPerms, Permissions
  <1>4. IdleCall \in Calls
    BY <1>1, <1>2 DEF IdleCall, Calls
  <1>5. NoCalls \in [Writers -> Calls]
    BY <1>4 DEF NoCalls
  <1>6. \A pc \in {"down", "sleep"} : NewSched(pc) \in SchedStates
    BY <1>1, <1>3 DEF NewSched, SchedStates
  <1>7. Asleep \in SchedStates
    BY <1>6 DEF Asleep, NewSched, SchedStates
  <1>8. NoRun \in HelperRuns
    BY <1>2, <1>3 DEF NoRun, HelperRuns
  <1> QED
    BY <1>1, <1>2, <1>3, <1>4, <1>5, <1>6, <1>7, <1>8

\* Files hold requests.
LEMMA FileTypes ==
    /\ File!NoFile \in Files /\ File!Truncated \in Files /\ File!Mixed \in Files
    /\ \A r \in Requests : File!Whole(r) \in Files
    /\ \A f \in Files, r \in Requests : File!Overlay(f, r) \subseteq Files
  <1>1. /\ File!NoFile \in Files /\ File!Truncated \in Files
        /\ File!Mixed \in Files
        /\ \A r \in Requests : File!Whole(r) \in Files
    BY Neutral DEF File!NoFile, File!Truncated, File!Mixed, File!Whole, Files
  <1> QED
    BY <1>1 DEF File!Overlay

\* Each operation on the request file keeps the types of its variables.
FileVarsType ==
    /\ tmp \in Files /\ target \in Files /\ fd \in [Writers -> Descriptors]
    /\ past \in SUBSET Files

LEMMA FileOpsType ==
    ASSUME FileVarsType, NEW w \in Writers, NEW r \in Requests,
           \/ File!OpenTmp(w) \/ File!WriteTmp(w, r) \/ File!RenameTmp(w)
           \/ File!FailWrite(w) \/ File!RemoveTarget \/ File!CloseAll
           \/ File!Unmount \/ File!LosePower
    PROVE  FileVarsType'
  <1>1. CASE File!OpenTmp(w)
    BY <1>1, FileTypes DEF FileVarsType, File!OpenTmp, Descriptors
  <1>2. CASE File!WriteTmp(w, r)
    BY <1>2, FileTypes DEF FileVarsType, File!WriteTmp, Descriptors
  <1>3. CASE File!RenameTmp(w)
    BY <1>3, FileTypes DEF FileVarsType, File!RenameTmp, Descriptors
  <1>4. CASE File!FailWrite(w)
    BY <1>4, FileTypes DEF FileVarsType, File!FailWrite, File!Moved, Descriptors
  <1>5. CASE File!RemoveTarget
    BY <1>5, FileTypes DEF FileVarsType, File!RemoveTarget, File!Moved,
                           Descriptors
  <1>6. CASE File!CloseAll \/ File!Unmount \/ File!LosePower
    BY <1>6 DEF FileVarsType, File!CloseAll, File!Unmount, File!LosePower,
                Descriptors
  <1> QED
    BY <1>1, <1>2, <1>3, <1>4, <1>5, <1>6

\* Reports of the helper have the type of a result.
LEMMA ReportType ==
    ASSUME TypeOK, NEW id \in Ids, NEW ok \in BOOLEAN, NEW pkgs \in SUBSET Pkgs,
           NEW reboot \in BOOLEAN, Report(id, ok, pkgs, reboot)
    PROVE  helper' \in HelperRuns
  <1> DEFINE o == [run |-> result.run + 1, id |-> id, ok |-> ok, pkgs |-> pkgs,
                   reboot |-> reboot]
  <1>1. o \in Results
    BY DEF TypeOK, FilesTypeOK, Results
  <1>2. helper' = [helper EXCEPT !.pc = "report", !.outcome = o]
    BY DEF Report
  <1> QED
    BY <1>1, <1>2 DEF TypeOK, HelperRuns

\* An entry more, and the oldest dropped when there are too many.
LEMMA RecordType ==
    ASSUME AboradTypeOK, NEW r \in Results, Record(r)
    PROVE  history' \in Seq(Results) /\ Len(history') <= MaxHistory
  <1> DEFINE h == Append(history, r)
  <1>1. h \in Seq(Results) /\ Len(h) = Len(history) + 1
    BY DEF AboradTypeOK
  <1>2. Tail(h) \in Seq(Results) /\ Len(Tail(h)) = Len(h) - 1
    BY <1>1, h # << >>
  <1> QED
    BY <1>1, <1>2 DEF AboradTypeOK, Record

\* Every step keeps the types, one case per action.
LEMMA TypeStep == TypeOK /\ [Next]_vars => TypeOK'
  <1> SUFFICES ASSUME TypeOK, [Next]_vars
               PROVE  TypeOK'
    OBVIOUS
  <1> USE Neutral DEF TypeOK, MachineTypeOK, FilesTypeOK, AboradTypeOK,
          GhostTypeOK, machineVars, requestVars, resultVars,
          aboradVars, ghostVars
  <1>1. ASSUME NEW c \in Callers, ReceiveApply(c)
       PROVE  TypeOK'
    BY <1>1 DEF ReceiveApply, Calls, Requests, Ids, Writers
  <1>2. ASSUME NEW w \in Writers, RefuseApply(w)
       PROVE  TypeOK'
    BY <1>2 DEF RefuseApply, Return
  <1>3. ASSUME NEW w \in Writers, PrepareRequest(w)
       PROVE  TypeOK'
    <2> DEFINE r == [call[w].request EXCEPT !.id = ids + 1]
    <2>1. r \in Requests
      <3>1. call[w].request \in Requests /\ ids + 1 \in Ids
        BY DEF Calls, Ids
      <3> QED
        BY <3>1 DEF Requests
    <2>2. call' \in [Writers -> Calls]
      BY <1>3, <2>1 DEF PrepareRequest, Calls
    <2> QED
      BY <1>3, <2>2 DEF PrepareRequest, Ids
  <1>4. ASSUME NEW w \in Writers, OpenRequest(w)
       PROVE  TypeOK'
    <2>1. FileVarsType'
      BY <1>4, FileOpsType DEF OpenRequest, FileVarsType
    <2> QED
      BY <1>4, <2>1 DEF OpenRequest, FileVarsType, Calls
  <1>5. ASSUME NEW w \in Writers, WriteRequest(w)
       PROVE  TypeOK'
    <2>1. call[w].request \in Requests
      BY DEF Calls
    <2>2. FileVarsType'
      BY <1>5, <2>1, FileOpsType DEF WriteRequest, FileVarsType
    <2> QED
      BY <1>5, <2>2 DEF WriteRequest, FileVarsType, Calls
  <1>6. ASSUME NEW w \in Writers, RenameRequest(w)
       PROVE  TypeOK'
    <2>1. FileVarsType'
      BY <1>6, FileOpsType DEF RenameRequest, FileVarsType
    <2>2. call[w].request.id \in Ids
      BY DEF Calls, Requests
    <2> QED
      BY <1>6, <2>1, <2>2 DEF RenameRequest, FileVarsType, Return, FileChanged
  <1>7. ASSUME NEW w \in Writers, RequestFails(w)
       PROVE  TypeOK'
    <2>1. FileVarsType'
      BY <1>7, FileOpsType DEF RequestFails, FileVarsType
    <2> QED
      BY <1>7, <2>1 DEF RequestFails, FileVarsType, Return, FileChanged
  <1>8. CASE Tick
    BY <1>8, PermissionsType DEF Tick, SchedStates
  <1>9. CASE Ingest
    <2>1. history' \in Seq(Results) /\ Len(history') <= MaxHistory
      BY <1>9, RecordType DEF Ingest
    <2> QED
      BY <1>9, <2>1 DEF Ingest, SchedStates
  <1>10. CASE IngestNothing
    BY <1>10 DEF IngestNothing, SchedStates
  <1>11. CASE Refresh
    BY <1>11 DEF Refresh, SchedStates
  <1>12. CASE NoRefresh
    BY <1>12 DEF NoRefresh, SchedStates
  <1>13. CASE AutoApply
    BY <1>13 DEF AutoApply, SchedStates, Calls, Requests, Ids, Writers
  <1>14. CASE NoAutoApply
    BY <1>14 DEF NoAutoApply
  <1>15. CASE StartHelper
    BY <1>15 DEF StartHelper, HelperRuns
  <1>16. CASE LoadConfigFails
    BY <1>16 DEF LoadConfigFails, HelperStep
  <1>17. CASE NothingWaiting
    BY <1>17 DEF NothingWaiting, HelperStep
  <1>18. CASE RefuseFile
    BY <1>18, ReportType DEF RefuseFile, refuse, HelperStep, Ids
  <1>19. CASE RefuseRequest
    <2>1. target.request.id \in Ids
      BY DEF Files, Requests
    <2> QED
      BY <1>19, <2>1, ReportType DEF RefuseRequest, refuse, HelperStep
  <1>20. CASE PermitRequest
    BY <1>20, PermissionsType DEF PermitRequest, HelperStep, HelperRuns, Files
  <1>21. CASE Simulate
    BY <1>21 DEF Simulate, HelperStep, HelperRuns, Requests
  <1>22. CASE NothingToDo
    <2>1. helper.request.id \in Ids
      BY DEF HelperRuns, Requests
    <2> QED
      BY <1>22, <2>1, ReportType DEF NothingToDo, HelperStep
  <1>23. CASE SimulateFails
    <2>1. helper.request.id \in Ids
      BY DEF HelperRuns, Requests
    <2> QED
      BY <1>23, <2>1, ReportType DEF SimulateFails, refuse, HelperStep
  <1>24. CASE Install
    <2>1. /\ helper.request.id \in Ids /\ helper.todo \in SUBSET Pkgs
          /\ helper.perms.reboot_permitted \in BOOLEAN
      BY DEF HelperRuns, Requests, Permissions
    <2>2. marker' \in BOOLEAN
      BY <1>24 DEF Install
    <2>3. helper' \in HelperRuns
      BY <1>24, <2>1, <2>2, ReportType DEF Install
    <2> QED
      BY <1>24, <2>1, <2>2, <2>3 DEF Install
  <1>25. CASE InstallFails
    <2>1. helper.request.id \in Ids
      BY DEF HelperRuns, Requests
    <2>2. helper' \in HelperRuns
      BY <1>25, <2>1, ReportType DEF InstallFails, refuse
    <2> QED
      BY <1>25, <2>2 DEF InstallFails
  <1>26. CASE WriteResult
    BY <1>26 DEF WriteResult, HelperRuns, Results
  <1>27. CASE WriteResultFails
    BY <1>27 DEF WriteResultFails, HelperStep
  <1>28. CASE RemoveRequest
    <2>1. FileVarsType'
      BY <1>28, FileOpsType DEF RemoveRequest, FileVarsType, Writers
    <2> QED
      BY <1>28, <2>1 DEF RemoveRequest, FileVarsType, AfterRemove, FileChanged,
                     HelperRuns
  <1>29. CASE RemoveFails
    BY <1>29 DEF RemoveFails, AfterRemove, HelperStep, HelperRuns
  <1>30. CASE HelperExits
    BY <1>30 DEF HelperExits, HelperStep
  <1>31. CASE RebootFails
    BY <1>31 DEF RebootFails, HelperStep
  <1>32. CASE HelperKilled
    BY <1>32 DEF HelperKilled, HelperStep
  <1>33. CASE Reboot \/ PowerFails
    <2>1. FileVarsType'
      BY <1>33, FileOpsType DEF Reboot, PowerFails, FileVarsType, Writers
    <2>2. result' \in Results /\ pastResults' = {}
      BY <1>33 DEF Reboot, PowerFails, MachineRestarts
    <2>3. lost' \in SUBSET Ids
      <3>1. InTarget \subseteq Ids
        BY DEF InTarget, IdIn, Files, Requests
      <3> QED
        BY <1>33, <3>1 DEF Reboot, PowerFails
    <2>4. aged' \in BOOLEAN
      BY <1>33 DEF Reboot, PowerFails
    <2>5. MachineTypeOK' /\ AboradTypeOK' /\ helper' \in HelperRuns
      BY <1>33 DEF Reboot, PowerFails, MachineRestarts, AboradGone
    <2>6. UNCHANGED <<ids, accepted, answered, listed, installs>>
      BY <1>33 DEF Reboot, PowerFails, MachineRestarts
    <2> QED
      BY <2>1, <2>2, <2>3, <2>4, <2>5, <2>6 DEF FileVarsType
  <1>34. CASE AboradStops
    <2>1. FileVarsType'
      BY <1>34, FileOpsType DEF AboradStops, AboradGone, FileVarsType, Writers
    <2> QED
      BY <1>34, <2>1 DEF AboradStops, AboradGone, FileVarsType, FileChanged
  <1>35. CASE StartAborad
    BY <1>35 DEF StartAborad
  <1>36. CASE Reload
    BY <1>36 DEF Reload
  <1>37. CASE EditConfig
    BY <1>37 DEF EditConfig
  <1>38. CASE TimePasses
    BY <1>38 DEF TimePasses
  <1>39. CASE NewVersion
    BY <1>39 DEF NewVersion
  <1>40. CASE GrowOld
    BY <1>40 DEF GrowOld
  <1>41. CASE UNCHANGED vars
    BY <1>41 DEF vars
  <1> QED
    BY <1>1, <1>2, <1>3, <1>4, <1>5, <1>6, <1>7, <1>8, <1>9, <1>10,
       <1>11, <1>12, <1>13, <1>14, <1>15, <1>16, <1>17, <1>18, <1>19,
       <1>20, <1>21, <1>22, <1>23, <1>24, <1>25, <1>26, <1>27, <1>28,
       <1>29, <1>30, <1>31, <1>32, <1>33, <1>34, <1>35, <1>36, <1>37,
       <1>38, <1>39, <1>40, <1>41
       DEF Next, RequestApply, SchedulerStep, HelperRun, Environment

\* Type correctness: every variable keeps its type and the history never
\* outgrows MAX_HISTORY, whatever fails and whoever calls.
THEOREM TypeCorrect == Spec => []TypeOK
  <1>1. Init => TypeOK
    <2> SUFFICES ASSUME Init PROVE TypeOK
      OBVIOUS
    <2>1. MachineTypeOK
      BY DEF Init, MachineTypeOK
    <2>2. FilesTypeOK
      BY Neutral, FileTypes DEF Init, FilesTypeOK, Descriptors
    <2>3. AboradTypeOK
      BY Neutral DEF Init, AboradTypeOK
    <2>4. GhostTypeOK
      BY DEF Init, GhostTypeOK, Ids
    <2> QED
      BY <2>1, <2>2, <2>3, <2>4, Neutral DEF Init, TypeOK
  <1> QED
    BY <1>1, TypeStep, PTL DEF Spec

----------------------------------------------------------------------------
(* Results, history, installations and the list they come from             *)

reportVars == <<result, pastResults, helper, answered, installs>>

\* The steps of the helper that only move it on, or stop it.
Moves ==
    \/ StartHelper \/ PermitRequest \/ Simulate
    \/ LoadConfigFails \/ NothingWaiting \/ WriteResultFails \/ HelperExits
    \/ RebootFails \/ HelperKilled \/ Reboot

Refusals == RefuseFile \/ RefuseRequest \/ SimulateFails \/ InstallFails

Removals == RemoveRequest \/ RemoveFails

\* Who may touch the result file, the helper's run and the installations.
LEMMA ReportFrame ==
    ASSUME [Next]_vars
    PROVE  \/ UNCHANGED reportVars
           \/ Moves \/ Refusals \/ Removals \/ NothingToDo \/ Install
           \/ WriteResult \/ PowerFails
  <1> USE DEF reportVars, machineVars, requestVars, resultVars,
          aboradVars, ghostVars
  <1>1. ASSUME NEW c \in Callers, ReceiveApply(c) PROVE UNCHANGED reportVars
    BY <1>1 DEF ReceiveApply
  <1>2. ASSUME NEW w \in Writers, RequestApply(w) PROVE UNCHANGED reportVars
    BY <1>2 DEF RequestApply, RefuseApply, PrepareRequest, OpenRequest,
                WriteRequest, RenameRequest, RequestFails
  <1>3. ASSUME SchedulerStep PROVE UNCHANGED reportVars
    BY <1>3 DEF SchedulerStep, Tick, Ingest, IngestNothing, Refresh, NoRefresh,
                AutoApply, NoAutoApply
  <1>4. ASSUME \/ StartAborad \/ Reload \/ AboradStops \/ EditConfig
               \/ TimePasses \/ NewVersion \/ GrowOld
        PROVE  UNCHANGED reportVars
    BY <1>4 DEF StartAborad, Reload, AboradStops, EditConfig, TimePasses,
                NewVersion, GrowOld
  <1>5. ASSUME UNCHANGED vars PROVE UNCHANGED reportVars
    BY <1>5 DEF vars
  <1> QED
    BY <1>1, <1>2, <1>3, <1>4, <1>5
       DEF Next, HelperRun, Environment, Moves, Refusals, Removals

\* What the moves of the helper do.
LEMMA MovesEffect ==
    ASSUME TypeOK, Moves
    PROVE  /\ UNCHANGED <<result, answered, installs>>
           /\ pastResults' \subseteq pastResults
           /\ helper'.pc \in {"off", "load", "simulate", "install"}
  <1> USE DEF HelperStep, NoRun, resultVars, ghostVars
  <1>1. CASE StartHelper
    BY <1>1 DEF StartHelper, TypeOK, HelperRuns
  <1>2. CASE PermitRequest
    BY <1>2 DEF PermitRequest, TypeOK, HelperRuns
  <1>3. CASE Simulate
    BY <1>3 DEF Simulate, TypeOK, HelperRuns
  <1>4. CASE LoadConfigFails \/ NothingWaiting \/ WriteResultFails
    BY <1>4 DEF LoadConfigFails, NothingWaiting, WriteResultFails
  <1>5. CASE HelperExits \/ RebootFails \/ HelperKilled
    BY <1>5 DEF HelperExits, RebootFails, HelperKilled
  <1>6. CASE Reboot
    BY <1>6 DEF Reboot, MachineRestarts
  <1> QED
    BY <1>1, <1>2, <1>3, <1>4, <1>5, <1>6 DEF Moves

\* A power failure ends the run of the helper and leaves this result or an earlier
\* one.
LEMMA PowerEffect ==
    ASSUME PowerFails
    PROVE  /\ UNCHANGED <<history, answered, installs>>
           /\ helper' = NoRun /\ helper'.pc = "off"
           /\ result' \in pastResults \cup {result} /\ pastResults' = {}
  BY DEF PowerFails, MachineRestarts, NoRun

\* A refusal claims no installation.
LEMMA RefusalsEffect ==
    ASSUME TypeOK, Refusals
    PROVE  /\ UNCHANGED <<result, pastResults, answered, installs>>
           /\ helper'.pc = "report" /\ ~helper'.outcome.ok
  <1>1. PICK id : refuse(id)
    BY DEF Refusals, RefuseFile, RefuseRequest, SimulateFails, InstallFails
  <1>2. helper'.pc = "report" /\ ~helper'.outcome.ok
    BY <1>1 DEF refuse, Report, TypeOK, HelperRuns
  <1>3. UNCHANGED <<result, pastResults, answered, installs>>
    BY DEF Refusals, RefuseFile, RefuseRequest, SimulateFails, InstallFails,
           HelperStep, resultVars, ghostVars
  <1> QED
    BY <1>2, <1>3

\* Removing the request leads to the reboot the report announces, or the end.
LEMMA RemovalsEffect ==
    ASSUME TypeOK, Removals
    PROVE  /\ UNCHANGED <<result, pastResults, answered, installs>>
           /\ helper.pc = "remove" /\ helper'.outcome = helper.outcome
           /\ helper'.pc = IF helper.outcome.reboot THEN "reboot" ELSE "exit"
  BY DEF Removals, RemoveRequest, RemoveFails, AfterRemove, HelperStep,
         resultVars, ghostVars, TypeOK, HelperRuns

LEMMA ReportStep ==
    TypeOK /\ ReportInv /\ [Next]_vars => ReportInv'
  <1> SUFFICES ASSUME TypeOK, ReportInv, [Next]_vars
               PROVE  ReportInv'
    OBVIOUS
  <1>1. CASE UNCHANGED reportVars
    BY <1>1 DEF ReportInv, reportVars
  <1>2. CASE Moves
    BY <1>2, MovesEffect DEF ReportInv
  <1>3. CASE Refusals
    BY <1>3, RefusalsEffect DEF ReportInv
  <1>4. CASE Removals
    BY <1>4, RemovalsEffect DEF ReportInv
  <1>5. CASE NothingToDo \/ Install
    <2>1. helper'.pc = "report"
      BY <1>5 DEF NothingToDo, Install, Report, TypeOK, HelperRuns
    <2> QED
      BY <2>1 DEF ReportInv
  <1>6. CASE WriteResult
    BY <1>6 DEF WriteResult, ReportInv, TypeOK, HelperRuns
  <1>7. CASE PowerFails
    BY <1>7, PowerEffect DEF ReportInv
  <1> QED
    BY <1>1, <1>2, <1>3, <1>4, <1>5, <1>6, <1>7, ReportFrame

\* The result file and the run of the helper agree.
LEMMA ReportInvariance == Spec => []ReportInv
  <1>1. Init => ReportInv
    BY DEF Init, ReportInv, NoRun
  <1> QED
    BY <1>1, ReportStep, TypeCorrect, PTL DEF Spec

\* A reboot of the helper's making comes only after the result of that run is
\* in the result file: run() of abora-apply writes it before it calls
\* systemctl, whatever fails in between.
THEOREM RebootOnlyAfterResult == Spec => RebootAfterResult
  <1>1. ReportInv => (Reboot => result = helper.outcome /\ result.reboot)
    BY DEF ReportInv, Reboot
  <1> QED
    BY <1>1, ReportInvariance, PTL DEF RebootAfterResult

\* Only Ingest writes the history.
LEMMA HistoryFrame ==
    ASSUME [Next]_vars
    PROVE  Ingest \/ UNCHANGED history
  <1> USE DEF machineVars, requestVars, resultVars,
          aboradVars, ghostVars
  <1>1. ASSUME NEW c \in Callers, ReceiveApply(c) PROVE UNCHANGED history
    BY <1>1 DEF ReceiveApply
  <1>2. ASSUME NEW w \in Writers, RequestApply(w) PROVE UNCHANGED history
    BY <1>2 DEF RequestApply, RefuseApply, PrepareRequest, OpenRequest,
                WriteRequest, RenameRequest, RequestFails
  <1>3. ASSUME SchedulerStep PROVE Ingest \/ UNCHANGED history
    BY <1>3 DEF SchedulerStep, Tick, IngestNothing, Refresh, NoRefresh,
                AutoApply, NoAutoApply
  <1>4. ASSUME \/ StartAborad \/ Reload \/ AboradStops \/ EditConfig
               \/ TimePasses \/ NewVersion \/ GrowOld \/ PowerFails
               \/ HelperKilled
        PROVE  UNCHANGED history
    BY <1>4, PowerEffect
       DEF StartAborad, Reload, AboradStops, EditConfig, TimePasses, NewVersion,
           GrowOld, HelperKilled, HelperStep
  <1>5. ASSUME HelperRun PROVE UNCHANGED history
    BY <1>5 DEF HelperRun, StartHelper, LoadConfigFails, NothingWaiting,
                RefuseFile, RefuseRequest, PermitRequest, Simulate, NothingToDo,
                SimulateFails, Install, InstallFails, WriteResult,
                WriteResultFails, RemoveRequest, RemoveFails, HelperExits,
                RebootFails, Reboot, MachineRestarts, HelperStep
  <1>6. ASSUME UNCHANGED vars PROVE UNCHANGED history
    BY <1>6 DEF vars
  <1> QED
    BY <1>1, <1>2, <1>3, <1>4, <1>5, <1>6 DEF Next, Environment

\* After a record, every entry is the new one, in last place, or an old one; the
\* old ones keep their order and their distance.
LEMMA RecordEntries ==
    ASSUME AboradTypeOK, NEW r \in Results, Record(r)
    PROVE  \E k \in 0 .. 1 :
               /\ Len(history') = Len(history) + 1 - k
               /\ \A i \in DOMAIN history' :
                      IF i = Len(history')
                      THEN history'[i] = r
                      ELSE i + k \in DOMAIN history
                           /\ history'[i] = history[i + k]
  <1> DEFINE h == Append(history, r)
  <1>1. /\ h \in Seq(Results) /\ Len(h) = Len(history) + 1
        /\ \A i \in 1 .. Len(h) : h[i] = IF i = Len(h) THEN r ELSE history[i]
        /\ history \in Seq(Results)
    BY DEF AboradTypeOK
  <1>2. CASE Len(h) > MaxHistory
    <2>1. /\ Tail(h) \in Seq(Results) /\ Len(Tail(h)) = Len(h) - 1
          /\ \A i \in 1 .. Len(Tail(h)) : Tail(h)[i] = h[i + 1]
      BY <1>1, h # << >>
    <2>2. history' = Tail(h)
      BY <1>2 DEF Record
    <2> HIDE DEF h
    <2>3. \A i \in DOMAIN history' :
              IF i = Len(history')
              THEN history'[i] = r
              ELSE i + 1 \in DOMAIN history /\ history'[i] = history[i + 1]
      BY <1>1, <2>1, <2>2
    <2> QED
      BY <1>1, <2>1, <2>2, <2>3
  <1>3. CASE ~(Len(h) > MaxHistory)
    <2>1. history' = h
      BY <1>3 DEF Record
    <2> HIDE DEF h
    <2>2. \A i \in DOMAIN history' :
              IF i = Len(history')
              THEN history'[i] = r
              ELSE i + 0 \in DOMAIN history /\ history'[i] = history[i + 0]
      BY <1>1, <2>1
    <2> QED
      BY <1>1, <2>1, <2>2
  <1> QED
    BY <1>2, <1>3

LEMMA TruthStep ==
    TypeOK /\ TruthInv /\ [Next]_vars => TruthInv'
  <1> SUFFICES ASSUME TypeOK, TruthInv, [Next]_vars
               PROVE  TruthInv'
    OBVIOUS
  <1> DEFINE ResultTruth ==
          \A r \in pastResults \cup {result} :
              r # NoResult => r.id \in answered /\ Truthful(r)
             RunTruth == helper.pc = "report" => Truthful(helper.outcome)
  <1>1. answered \subseteq answered' /\ installs \subseteq installs'
    <2>1. CASE UNCHANGED reportVars
      BY <2>1 DEF reportVars
    <2>2. CASE Moves \/ Refusals \/ Removals
      BY <2>2, MovesEffect, RefusalsEffect, RemovalsEffect
    <2>3. CASE NothingToDo \/ Install \/ WriteResult
      BY <2>3 DEF NothingToDo, Install, WriteResult, HelperStep, ghostVars
    <2> QED
      BY <2>1, <2>2, <2>3, PowerEffect, ReportFrame
  <1>2. HistoryTruth'
    <2>1. CASE UNCHANGED history
      BY <1>1, <2>1 DEF TruthInv, HistoryTruth, Truthful
    <2>2. CASE Ingest
      <3>1. result # NoResult /\ Record(result) /\ result \in Results
        BY <2>2 DEF Ingest, Fresh, TypeOK, FilesTypeOK
      <3>2. \A i \in DOMAIN history' :
                history'[i] = result
                    \/ \E j \in DOMAIN history : history'[i] = history[j]
        BY <3>1, RecordEntries DEF TypeOK
      <3>3. result.id \in answered /\ Truthful(result)
        BY <3>1 DEF TruthInv
      <3> QED
        BY <1>1, <3>2, <3>3 DEF TruthInv, HistoryTruth, Truthful
    <2> QED
      BY <2>1, <2>2, HistoryFrame
  <1>3. RunTruth' /\ ResultTruth'
    <2>0. RunTruth /\ ResultTruth
      BY DEF TruthInv
    <2>1. CASE UNCHANGED reportVars
      BY <2>0, <2>1 DEF reportVars, Truthful
    <2>2. CASE Moves
      BY <2>0, <2>2, MovesEffect DEF Truthful
    <2>3. CASE Refusals
      BY <2>0, <2>3, RefusalsEffect DEF Truthful
    <2>4. CASE Removals
      BY <2>0, <2>4, RemovalsEffect DEF Truthful
    <2>5. CASE NothingToDo
      BY <2>0, <2>5 DEF NothingToDo, Report, HelperStep, resultVars, ghostVars,
                        Truthful, TypeOK, HelperRuns
    <2>6. CASE Install
      BY <2>0, <2>6 DEF Install, Report, resultVars, ghostVars, Truthful, TypeOK,
                        HelperRuns
    <2>7. CASE WriteResult
      BY <2>0, <2>7 DEF WriteResult, Truthful, TypeOK, HelperRuns
    <2>8. CASE PowerFails
      BY <2>0, <2>8, PowerEffect DEF Truthful
    <2> QED
      BY <2>1, <2>2, <2>3, <2>4, <2>5, <2>6, <2>7, <2>8, ReportFrame
  <1> QED
    BY <1>2, <1>3 DEF TruthInv

\* What the helper reports and what the history says is true.
LEMMA TruthInvariance == Spec => []TruthInv
  <1>1. Init => TruthInv
    BY DEF Init, TruthInv, HistoryTruth, NoRun
  <1> QED
    BY <1>1, TruthStep, TypeCorrect, PTL DEF Spec

\* The update history never claims an installation that did not happen, and
\* names no request without a result, over every crash, failed command, failed
\* write and reboot of the two programs.
THEOREM HistoryIsTrue == Spec => []HistoryTruth
  <1>1. TruthInv => HistoryTruth
    BY DEF TruthInv
  <1> QED
    BY <1>1, TruthInvariance, PTL

----------------------------------------------------------------------------
(* Packages travel from a check to apt-get                                 *)

\* The request file, those it replaced and its temporary file hold only listed
\* packages, whichever writer's bytes ended up in them.
FilesListed ==
    \A f \in past \cup {tmp, target} : f.request.pkgs \subseteq listed

LEMMA FileOpsListed ==
    ASSUME FilesListed, UNCHANGED listed, NEW w \in Writers, NEW r,
           r.pkgs \subseteq listed,
           \/ File!OpenTmp(w) \/ File!WriteTmp(w, r) \/ File!RenameTmp(w)
           \/ File!FailWrite(w) \/ File!RemoveTarget \/ File!CloseAll
           \/ File!Unmount \/ File!LosePower
    PROVE  FilesListed'
  <1> USE DEF FilesListed, NoRequest, File!NoFile, File!Truncated, File!Mixed,
          File!Whole
  <1>1. CASE File!OpenTmp(w)
    BY <1>1 DEF File!OpenTmp
  <1>2. CASE File!WriteTmp(w, r)
    <2>1. \A f : \A g \in File!Overlay(f, r) : g.request.pkgs \subseteq listed
      BY DEF File!Overlay
    <2>2. /\ tmp' = tmp \/ tmp' \in File!Overlay(tmp, r)
          /\ target' = target \/ target' \in File!Overlay(target, r)
          /\ past' = past \/ past' = past \cup {target}
      BY <1>2 DEF File!WriteTmp
    <2>3. /\ tmp'.request.pkgs \subseteq listed
          /\ target'.request.pkgs \subseteq listed
          /\ \A f \in past' : f.request.pkgs \subseteq listed
      BY <2>1, <2>2
    <2> QED
      BY <2>3
  <1>3. CASE File!RenameTmp(w)
    BY <1>3 DEF File!RenameTmp
  <1>4. CASE File!FailWrite(w)
    BY <1>4 DEF File!FailWrite
  <1>5. CASE File!RemoveTarget
    BY <1>5 DEF File!RemoveTarget
  <1>6. CASE File!CloseAll \/ File!Unmount \/ File!LosePower
    BY <1>6 DEF File!CloseAll, File!Unmount, File!LosePower
  <1> QED
    BY <1>1, <1>2, <1>3, <1>4, <1>5, <1>6

listedVars == <<available, call, tmp, target, past, helper, listed, installs>>

LEMMA ListedStep ==
    TypeOK /\ ListedInv /\ [Next]_vars => ListedInv'
  <1> SUFFICES ASSUME TypeOK, ListedInv, [Next]_vars
               PROVE  ListedInv'
    OBVIOUS
  <1> USE DEF machineVars, requestVars, resultVars,
          aboradVars, ghostVars
  <1>a. /\ call \in [Writers -> Calls] /\ helper \in HelperRuns
        /\ FilesListed /\ Scheduler \in Writers
    BY DEF TypeOK, AboradTypeOK, ListedInv, FilesListed, Writers
  <1>b. \A w \in Writers : IdleCall.request.pkgs \subseteq listed
    BY DEF IdleCall, NoRequest
  <1>1. ASSUME NEW c \in Callers, ReceiveApply(c)
        PROVE  ListedInv'
    BY <1>a, <1>1 DEF ReceiveApply, ListedInv, OnlyListedInstalled, Writers
  <1>2. ASSUME NEW w \in Writers, RefuseApply(w)
        PROVE  ListedInv'
    BY <1>a, <1>b, <1>2 DEF RefuseApply, Return, ListedInv, OnlyListedInstalled
  <1>3. ASSUME NEW w \in Writers, PrepareRequest(w)
        PROVE  ListedInv'
    <2>1. \A x \in Writers : call'[x].request.pkgs = call[x].request.pkgs
      BY <1>a, <1>3 DEF PrepareRequest, Calls, Requests
    <2> QED
      BY <1>3, <2>1 DEF PrepareRequest, ListedInv, OnlyListedInstalled
  <1>4. ASSUME NEW w \in Writers, OpenRequest(w) \/ WriteRequest(w)
        PROVE  ListedInv'
    <2>1. FilesListed'
      BY <1>a, <1>4, FileOpsListed DEF OpenRequest, WriteRequest, ListedInv
    <2>2. \A x \in Writers : call'[x].request = call[x].request
      BY <1>a, <1>4 DEF OpenRequest, WriteRequest, Calls
    <2> QED
      BY <1>4, <2>1, <2>2 DEF OpenRequest, WriteRequest, ListedInv, FilesListed,
                              OnlyListedInstalled
  <1>5. ASSUME NEW w \in Writers, RenameRequest(w) \/ RequestFails(w)
        PROVE  ListedInv'
    <2>1. FilesListed'
      BY <1>a, <1>5, FileOpsListed DEF RenameRequest, RequestFails, ListedInv
    <2>2. \A x \in Writers : call'[x].request.pkgs \subseteq listed
      BY <1>a, <1>b, <1>5 DEF RenameRequest, RequestFails, Return, ListedInv
    <2> QED
      BY <1>5, <2>1, <2>2 DEF RenameRequest, RequestFails, ListedInv,
                              FilesListed, OnlyListedInstalled
  <1>6. CASE Refresh
    BY <1>6 DEF Refresh, ListedInv, OnlyListedInstalled
  <1>7. CASE Ingest
    BY <1>7 DEF Ingest, ListedInv, OnlyListedInstalled
  <1>8. CASE AutoApply
    BY <1>a, <1>8 DEF AutoApply, ListedInv, OnlyListedInstalled
  <1>9. CASE \/ Tick \/ IngestNothing \/ NoRefresh \/ NoAutoApply
             \/ StartAborad \/ Reload \/ EditConfig \/ TimePasses \/ NewVersion
             \/ GrowOld \/ UNCHANGED vars
    <2>1. UNCHANGED listedVars
      BY <1>9 DEF listedVars, Tick, IngestNothing, NoRefresh, NoAutoApply,
                  StartAborad, Reload, EditConfig, TimePasses, NewVersion,
                  GrowOld, vars
    <2> QED
      BY <2>1 DEF listedVars, ListedInv, OnlyListedInstalled
  <1>10. CASE PermitRequest \/ Simulate
    <2>1. /\ helper'.request.pkgs \subseteq listed
          /\ helper'.todo \subseteq listed
      BY <1>a, <1>10 DEF PermitRequest, Simulate, ListedInv, HelperRuns
    <2> QED
      BY <1>10, <2>1 DEF PermitRequest, Simulate, HelperStep, ListedInv,
                         OnlyListedInstalled
  <1>11. CASE Install
    BY <1>a, <1>11 DEF Install, Report, HelperRuns, ListedInv,
                       OnlyListedInstalled
  <1>12. CASE \/ StartHelper \/ RefuseFile \/ RefuseRequest \/ NothingToDo
              \/ SimulateFails \/ InstallFails \/ WriteResult \/ RemoveFails
    <2>1. helper'.request = helper.request /\ helper'.todo = helper.todo
      BY <1>a, <1>12 DEF StartHelper, RefuseFile, RefuseRequest, NothingToDo,
                         SimulateFails, InstallFails, WriteResult, RemoveFails,
                         AfterRemove, refuse, Report, HelperRuns
    <2>2. UNCHANGED <<available, call, tmp, target, past, listed, installs>>
      BY <1>12 DEF StartHelper, RefuseFile, RefuseRequest, NothingToDo,
                   SimulateFails, InstallFails, WriteResult, RemoveFails,
                   HelperStep
    <2> QED
      BY <2>1, <2>2 DEF ListedInv, OnlyListedInstalled
  <1>13. CASE RemoveRequest
    <2>1. FilesListed'
      BY <1>a, <1>13, FileOpsListed DEF RemoveRequest, ListedInv
    <2>2. helper'.request = helper.request /\ helper'.todo = helper.todo
      BY <1>a, <1>13 DEF RemoveRequest, AfterRemove, HelperRuns
    <2> QED
      BY <1>13, <2>1, <2>2 DEF RemoveRequest, ListedInv, FilesListed,
                               OnlyListedInstalled
  <1>14. CASE \/ LoadConfigFails \/ NothingWaiting \/ WriteResultFails
              \/ HelperExits \/ RebootFails \/ HelperKilled
    BY <1>14 DEF LoadConfigFails, NothingWaiting, WriteResultFails, HelperExits,
                 RebootFails, HelperKilled, HelperStep, NoRun, NoRequest,
                 ListedInv, OnlyListedInstalled
  <1>15. CASE Reboot \/ PowerFails \/ AboradStops
    <2>1. /\ UNCHANGED <<listed, installs>> /\ available' = {}
          /\ call' = NoCalls
          /\ helper' = NoRun \/ helper' = helper
          /\ File!Unmount \/ File!LosePower \/ File!CloseAll
      BY <1>15 DEF Reboot, PowerFails, MachineRestarts, AboradStops, AboradGone
    <2>2. FilesListed'
      <3>1. NoRequest.pkgs \subseteq listed
        BY DEF NoRequest
      <3> QED
        BY <1>a, <2>1, <3>1, FileOpsListed
    <2>3. \A x \in Writers : call'[x].request.pkgs \subseteq listed
      BY <1>b, <2>1 DEF NoCalls
    <2>4. /\ helper'.request.pkgs \subseteq listed
          /\ helper'.todo \subseteq listed
      BY <2>1 DEF NoRun, NoRequest, ListedInv
    <2> QED
      BY <2>1, <2>2, <2>3, <2>4 DEF ListedInv, FilesListed, OnlyListedInstalled
  <1> QED
    BY <1>1, <1>2, <1>3, <1>4, <1>5, <1>6, <1>7, <1>8, <1>9, <1>10, <1>11,
       <1>12, <1>13, <1>14, <1>15
       DEF Next, RequestApply, SchedulerStep, HelperRun, Environment

\* Root only ever installs packages that a check of the daemon had listed,
\* however many callers race on the request file, whatever it holds when the
\* helper reads it and whichever packages became upgradable meanwhile.
THEOREM OnlyListedPackages == Spec => []OnlyListedInstalled
  <1>1. Init => ListedInv
    BY DEF Init, ListedInv, OnlyListedInstalled, NoCalls, IdleCall, NoRequest,
           NoRun, File!NoFile
  <1>2. ListedInv => OnlyListedInstalled
    BY DEF ListedInv
  <1> QED
    BY <1>1, <1>2, ListedStep, TypeCorrect, PTL DEF Spec

----------------------------------------------------------------------------
(* An answered request is not applied again                                *)

\* A step after which requests are in fewer places keeps ReplayInv.
LEMMA FewerPlaces ==
    ASSUME ReplayInv, UNCHANGED <<ids, answered>>,
           InTmp' \subseteq InTmp, InTarget' \subseteq InTarget,
           InHelper' \subseteq InHelper,
           \A w \in Writers : InCall(w)' \subseteq InCall(w),
           helper.pc = "remove" => helper'.pc = "remove" \/ InTarget' = {}
    PROVE  ReplayInv'
  BY DEF ReplayInv

\* What a call, a file or the helper holds depends on nothing else.
LEMMA SamePlaces ==
    /\ call' = call => \A w \in Writers : InCall(w)' = InCall(w)
    /\ tmp' = tmp => InTmp' = InTmp
    /\ target' = target => InTarget' = InTarget
    /\ helper' = helper => InHelper' = InHelper
  BY DEF InCall, InTmp, InTarget, IdIn, InHelper

\* A report has the id it is made with.
LEMMA ReportId ==
    ASSUME helper \in HelperRuns, NEW id, NEW ok, NEW pkgs, NEW reboot,
           Report(id, ok, pkgs, reboot)
    PROVE  helper'.pc = "report" /\ helper'.outcome.id = id
  <1>1. helper' = [helper EXCEPT !.pc = "report", !.outcome =
                      [run |-> result.run + 1, id |-> id, ok |-> ok,
                       pkgs |-> pkgs, reboot |-> reboot]]
    BY DEF Report
  <1> QED
    BY <1>1 DEF HelperRuns

\* One step keeps ReplayInv if neither the helper is stopped nor the removal
\* of the request fails.
LEMMA ReplayStep ==
    ASSUME Faults \cap {"crash", "power", "remove"} = {}
    PROVE  TypeOK /\ ReplayInv /\ [Next]_vars => ReplayInv'
  <1> SUFFICES ASSUME TypeOK, ReplayInv, [Next]_vars
               PROVE  ReplayInv'
    OBVIOUS
  <1> USE DEF machineVars, requestVars, resultVars,
          aboradVars, ghostVars
  <1>a. /\ call \in [Writers -> Calls] /\ helper \in HelperRuns
        /\ ids \in Nat /\ Scheduler \in Writers
    BY DEF TypeOK, AboradTypeOK, GhostTypeOK, Writers, Ids
  <1>b. IdleCall.phase = "idle"
    BY DEF IdleCall
  <1>1. ASSUME NEW c \in Callers, ReceiveApply(c)
        PROVE  ReplayInv'
    <2>1. \A w \in Writers : InCall(w)' \subseteq InCall(w)
      BY <1>a, <1>1 DEF ReceiveApply, InCall
    <2> QED
      BY <1>1, <2>1, FewerPlaces, SamePlaces DEF ReceiveApply
  <1>2. ASSUME NEW w \in Writers, RefuseApply(w)
        PROVE  ReplayInv'
    <2>1. \A x \in Writers : InCall(x)' \subseteq InCall(x)
      BY <1>a, <1>b, <1>2 DEF RefuseApply, Return, InCall
    <2> QED
      BY <1>2, <2>1, FewerPlaces, SamePlaces DEF RefuseApply
  <1>3. ASSUME NEW w \in Writers, PrepareRequest(w)
        PROVE  ReplayInv'
    <2>1. /\ ids' = ids + 1
          /\ UNCHANGED <<tmp, target, helper, answered>>
      BY <1>3 DEF PrepareRequest
    <2>2. /\ InCall(w)' = {ids + 1}
          /\ \A x \in Writers \ {w} : InCall(x)' = InCall(x)
      BY <1>a, <1>3 DEF PrepareRequest, InCall, Calls, Requests
    <2>3. /\ 1 .. ids \subseteq 1 .. ids' /\ 0 .. ids \subseteq 0 .. ids'
          /\ ids + 1 \in 1 .. ids' /\ ids + 1 \notin 0 .. ids
          /\ ids + 1 \notin 1 .. ids
      BY <1>a, <2>1
    <2>4. InTmp' = InTmp /\ InTarget' = InTarget /\ InHelper' = InHelper
      BY <2>1, SamePlaces
    <2> QED
      BY <2>1, <2>2, <2>3, <2>4 DEF ReplayInv
  <1>4. ASSUME NEW w \in Writers, OpenRequest(w)
        PROVE  ReplayInv'
    <2>1. InTmp' = {} /\ UNCHANGED <<target, helper, ids, answered>>
      BY <1>4 DEF OpenRequest, File!OpenTmp, File!Truncated, InTmp, IdIn
    <2>2. \A x \in Writers : InCall(x)' = InCall(x)
      BY <1>a, <1>4 DEF OpenRequest, InCall, Calls
    <2> QED
      BY <2>1, <2>2, FewerPlaces, SamePlaces
  <1>5. ASSUME NEW w \in Writers, WriteRequest(w)
        PROVE  ReplayInv'
    <2> DEFINE r == call[w].request
    <2>1. /\ UNCHANGED <<helper, ids, answered>>
          /\ InCall(w) = {r.id} /\ InCall(w)' = {}
          /\ \A x \in Writers \ {w} : InCall(x)' = InCall(x)
      BY <1>a, <1>5 DEF WriteRequest, InCall, Calls
    <2>2. \/ tmp' \in File!Overlay(tmp, r) /\ target' = target
          \/ tmp' = tmp /\ target' \in File!Overlay(target, r)
          \/ tmp' = tmp /\ target' = target
      BY <1>5 DEF WriteRequest, File!WriteTmp
    <2>3. \A f : \A g \in File!Overlay(f, r) :
              g.kind = "whole" => g.request = r
      BY DEF File!Overlay, File!Whole, File!Mixed
    <2>4. \/ InTmp' \subseteq {r.id} /\ InTarget' = InTarget
          \/ InTmp' = InTmp /\ InTarget' \subseteq {r.id}
          \/ InTmp' = InTmp /\ InTarget' = InTarget
      BY <2>2, <2>3 DEF InTmp, InTarget, IdIn
    <2>5. InHelper' = InHelper
      BY <2>1, SamePlaces
    <2> HIDE DEF r
    <2> QED
      BY <2>1, <2>4, <2>5 DEF ReplayInv
  <1>6. ASSUME NEW w \in Writers, RenameRequest(w)
        PROVE  ReplayInv'
    <2>1. UNCHANGED <<helper, ids, answered>>
      BY <1>6 DEF RenameRequest
    <2>2. InTarget' = InTmp /\ InTmp' = {}
      BY <1>6 DEF RenameRequest, File!RenameTmp, File!NoFile, InTarget, InTmp,
                  IdIn
    <2>3. \A x \in Writers : InCall(x)' \subseteq InCall(x)
      BY <1>a, <1>b, <1>6 DEF RenameRequest, Return, InCall
    <2>4. InHelper' = InHelper
      BY <2>1, SamePlaces
    <2> QED
      BY <2>1, <2>2, <2>3, <2>4 DEF ReplayInv
  <1>7. ASSUME NEW w \in Writers, RequestFails(w)
        PROVE  ReplayInv'
    <2>1. InTmp' \subseteq InTmp /\ UNCHANGED <<target, helper, ids, answered>>
      BY <1>7 DEF RequestFails, File!FailWrite, File!NoFile, InTmp, IdIn
    <2>2. \A x \in Writers : InCall(x)' \subseteq InCall(x)
      BY <1>a, <1>b, <1>7 DEF RequestFails, Return, InCall
    <2> QED
      BY <2>1, <2>2, FewerPlaces, SamePlaces
  <1>8. CASE AutoApply
    <2>1. \A w \in Writers : InCall(w)' \subseteq InCall(w)
      BY <1>a, <1>8 DEF AutoApply, InCall
    <2> QED
      BY <1>8, <2>1, FewerPlaces, SamePlaces DEF AutoApply
  <1>9. CASE \/ Tick \/ Ingest \/ IngestNothing \/ Refresh \/ NoRefresh
             \/ NoAutoApply \/ StartAborad \/ Reload \/ EditConfig
             \/ TimePasses \/ NewVersion \/ GrowOld \/ UNCHANGED vars
    <2>1. UNCHANGED <<call, tmp, target, helper, ids, answered>>
      BY <1>9 DEF Tick, Ingest, IngestNothing, Refresh, NoRefresh, NoAutoApply,
                  StartAborad, Reload, EditConfig, TimePasses, NewVersion,
                  GrowOld, vars
    <2> QED
      BY <2>1, FewerPlaces, SamePlaces
  <1>10. CASE PermitRequest \/ RefuseRequest
    <2>1. /\ UNCHANGED <<call, tmp, target, ids, answered>>
          /\ helper.pc = "load" /\ target.kind = "whole"
      BY <1>10 DEF PermitRequest, RefuseRequest, ValidFile, HelperStep
    <2>2. InTarget = {target.request.id} /\ InHelper' \subseteq InTarget
      <3>1. PermitRequest => /\ helper'.pc = "simulate"
                             /\ helper'.request = target.request
        BY <1>a DEF PermitRequest, HelperRuns
      <3>2. RefuseRequest => /\ helper'.pc = "report"
                             /\ helper'.outcome.id = target.request.id
        BY <1>a, ReportId DEF RefuseRequest, refuse
      <3> QED
        BY <1>10, <2>1, <3>1, <3>2 DEF InTarget, IdIn, InHelper
    <2>3. InTarget \cap answered = {}
      BY <2>1 DEF ReplayInv
    <2>4. /\ InTmp' = InTmp /\ InTarget' = InTarget
          /\ \A w \in Writers : InCall(w)' = InCall(w)
      BY <2>1, SamePlaces
    <2> QED
      BY <2>1, <2>2, <2>3, <2>4 DEF ReplayInv
  <1>11. CASE \/ StartHelper \/ RefuseFile \/ Simulate \/ NothingToDo
              \/ SimulateFails \/ Install \/ InstallFails
              \/ LoadConfigFails \/ NothingWaiting \/ WriteResultFails
              \/ HelperExits \/ RebootFails
    <2>1. UNCHANGED <<call, tmp, target, ids, answered>> /\ helper.pc # "remove"
      BY <1>11 DEF StartHelper, RefuseFile, Simulate, NothingToDo, SimulateFails,
                   Install, InstallFails, LoadConfigFails, NothingWaiting,
                   WriteResultFails, HelperExits, RebootFails, HelperStep
    <2>2. CASE StartHelper \/ RefuseFile
      <3>1. StartHelper => helper'.pc = "load"
        BY <1>a DEF StartHelper, HelperRuns
      <3>2. RefuseFile => helper'.pc = "report" /\ helper'.outcome.id = 0
        BY <1>a, ReportId DEF RefuseFile, refuse
      <3>3. InHelper' = {}
        BY <2>2, <3>1, <3>2 DEF InHelper
      <3> QED
        BY <2>1, <3>3, FewerPlaces, SamePlaces
    <2>3. CASE Simulate \/ NothingToDo \/ SimulateFails \/ Install \/ InstallFails
      <3>1. /\ helper.pc \in {"simulate", "install"}
            /\ \/ helper'.pc = "install" /\ helper'.request = helper.request
               \/ helper'.pc = "report" /\ helper'.outcome.id = helper.request.id
        <4>1. Simulate => /\ helper.pc = "simulate" /\ helper'.pc = "install"
                          /\ helper'.request = helper.request
          BY <1>a DEF Simulate, HelperRuns
        <4>2. NothingToDo \/ SimulateFails \/ Install \/ InstallFails =>
                  /\ helper.pc \in {"simulate", "install"}
                  /\ helper'.pc = "report" /\ helper'.outcome.id = helper.request.id
          BY <1>a, ReportId
             DEF NothingToDo, SimulateFails, Install, InstallFails, refuse
        <4> QED
          BY <2>3, <4>1, <4>2
      <3>2. InHelper' \subseteq InHelper
        BY <3>1 DEF InHelper
      <3> QED
        BY <2>1, <3>2, FewerPlaces, SamePlaces
    <2>4. CASE \/ LoadConfigFails \/ NothingWaiting \/ WriteResultFails
               \/ HelperExits \/ RebootFails
      <3>1. InHelper' = {}
        BY <2>4 DEF LoadConfigFails, NothingWaiting, WriteResultFails,
                    HelperExits, RebootFails, NoRun, InHelper
      <3> QED
        BY <2>1, <3>1, FewerPlaces, SamePlaces
    <2> QED
      BY <1>11, <2>2, <2>3, <2>4
  <1>12. CASE WriteResult
    <2>1. /\ UNCHANGED <<call, tmp, target, ids>>
          /\ answered' = answered \cup {helper.outcome.id}
          /\ helper.pc = "report" /\ helper'.pc = "remove"
      BY <1>a, <1>12 DEF WriteResult, HelperRuns
    <2>2. InHelper' = {} /\ InHelper = {helper.outcome.id} \ {0}
      BY <2>1 DEF InHelper
    <2>3. /\ InTmp' = InTmp /\ InTarget' = InTarget
          /\ \A w \in Writers : InCall(w)' = InCall(w)
      BY <2>1, SamePlaces
    <2>4. 0 \in 0 .. ids /\ 1 .. ids \subseteq 0 .. ids /\ 0 \notin 1 .. ids
      BY <1>a
    <2>5. \A S : S \subseteq 1 .. ids /\ S \cap answered = {} /\ S \cap InHelper = {}
                  => S \cap answered' = {}
      BY <2>1, <2>2, <2>4
    <2>6. answered' \subseteq 0 .. ids'
      BY <2>1, <2>2, <2>4 DEF ReplayInv
    <2>7. InTmp' \cap answered' = {}
      <3>1. InTmp \subseteq 1 .. ids /\ InTmp \cap answered = {}
            /\ InTmp \cap InHelper = {}
        BY DEF ReplayInv
      <3> QED
        BY <2>3, <2>5, <3>1
    <2>8. \A w \in Writers : InCall(w)' \cap answered' = {}
      <3> TAKE w \in Writers
      <3>1. InCall(w) \subseteq 1 .. ids /\ InCall(w) \cap answered = {}
            /\ InCall(w) \cap InHelper = {}
        BY DEF ReplayInv
      <3> QED
        BY <2>3, <2>5, <3>1
    <2> QED
      BY <2>1, <2>2, <2>3, <2>6, <2>7, <2>8 DEF ReplayInv
  <1>13. CASE RemoveRequest
    <2>1. InTarget' = {} /\ UNCHANGED <<call, tmp, ids, answered>>
      BY <1>13 DEF RemoveRequest, File!RemoveTarget, File!NoFile, InTarget, IdIn
    <2>2. InHelper' = {}
      BY <1>a, <1>13 DEF RemoveRequest, AfterRemove, HelperRuns, InHelper
    <2> QED
      BY <2>1, <2>2, FewerPlaces, SamePlaces
  <1>14. CASE Reboot
    <2>1. /\ helper.pc = "reboot" /\ helper' = NoRun /\ call' = NoCalls
          /\ UNCHANGED <<tmp, target, ids, answered>>
      BY <1>14 DEF Reboot, MachineRestarts, AboradGone, File!Unmount
    <2>2. InHelper' = {} /\ \A w \in Writers : InCall(w)' = {}
      BY <1>b, <2>1 DEF InHelper, NoRun, InCall, NoCalls
    <2> QED
      BY <2>1, <2>2, FewerPlaces, SamePlaces
  <1>15. ~RemoveFails /\ ~HelperKilled /\ ~PowerFails /\ ~AboradStops
    BY DEF RemoveFails, HelperKilled, PowerFails, AboradStops
  <1> QED
    BY <1>1, <1>2, <1>3, <1>4, <1>5, <1>6, <1>7, <1>8, <1>9, <1>10, <1>11,
       <1>12, <1>13, <1>14, <1>15
       DEF Next, RequestApply, SchedulerStep, HelperRun, Environment

\* What the helper has answered is nowhere but in the file it is about to remove.
LEMMA ReplayInvariance ==
    ASSUME Faults \cap {"crash", "power", "remove"} = {}
    PROVE  Spec => []ReplayInv
  <1>1. Init => ReplayInv
    <2> SUFFICES ASSUME Init PROVE ReplayInv
      OBVIOUS
    <2>1. /\ InTmp = {} /\ InTarget = {} /\ InHelper = {}
          /\ \A w \in Writers : InCall(w) = {}
      BY DEF Init, InTmp, InTarget, IdIn, InHelper, InCall, File!NoFile, NoRun, NoCalls,
             IdleCall
    <2> QED
      BY <2>1 DEF Init, ReplayInv
  <1>2. TypeOK /\ ReplayInv /\ [Next]_vars => ReplayInv'
    BY ReplayStep
  <1> QED
    BY <1>1, <1>2, TypeCorrect, PTL DEF Spec

\* However many callers race on the request file, however late or often the
\* helper is started and whichever commands and writes fail, no request that
\* has a result is installed again, as long as the helper can finish its run
\* and remove the file.
THEOREM NothingReplayed ==
    ASSUME Faults \cap {"crash", "power", "remove"} = {}
    PROVE  Spec => NoReplay
  <1>1. ReplayInv => (Install => helper.request.id \notin answered)
    BY DEF ReplayInv, Install, InHelper
  <1>2. ReplayInv => [Install => helper.request.id \notin answered]_vars
    BY <1>1
  <1> QED
    BY <1>2, ReplayInvariance, PTL DEF NoReplay

----------------------------------------------------------------------------
(* One writer                                                              *)

\* One client, no automatic updates, and the helper is started in time.
OneWriter(c) ==
    /\ Callers = {c}
    /\ \A config \in Configs : ~config.automatic
    /\ "age" \notin Faults

\* A step that leaves calls, files and the helper's run alone.
LEMMA SingleFrame ==
    ASSUME NEW c, SingleInv(c), ~sched'.perms.installs_permitted,
           UNCHANGED <<call, tmp, target, fd, past, aged, helper, accepted,
                       answered, lost>>
    PROVE  SingleInv(c)'
  BY DEF SingleInv, Unanswered, InTarget, IdIn

\* One step keeps SingleInv.
LEMMA SingleStep ==
    ASSUME NEW c, OneWriter(c)
    PROVE  TypeOK /\ SingleInv(c) /\ [Next]_vars => SingleInv(c)'
  <1> SUFFICES ASSUME TypeOK, SingleInv(c), [Next]_vars
               PROVE  SingleInv(c)'
    OBVIOUS
  <1> USE DEF machineVars, requestVars, resultVars,
          aboradVars, ghostVars
  <1>a. /\ call \in [Writers -> Calls] /\ helper \in HelperRuns
        /\ sched \in SchedStates /\ fd \in [Writers -> Descriptors]
        /\ Writers = {c, Scheduler} /\ c # Scheduler
    BY DEF TypeOK, AboradTypeOK, FilesTypeOK, Writers, OneWriter
  <1>b. /\ IdleCall.phase = "idle"
        /\ \A config \in Configs :
               \A t : ~permissions(config, t).installs_permitted
        /\ ~Asleep.perms.installs_permitted
        /\ \A pc : ~NewSched(pc).perms.installs_permitted
    BY DEF IdleCall, permissions, OneWriter, Asleep, NewSched, NoPerms
  <1>1. ASSUME NEW w \in Callers, ReceiveApply(w)
        PROVE  SingleInv(c)'
    BY <1>a, <1>1 DEF ReceiveApply, SingleInv, Unanswered, InTarget, IdIn, OneWriter
  <1>2. ASSUME NEW w \in Writers, RefuseApply(w)
        PROVE  SingleInv(c)'
    <2>1. /\ UNCHANGED <<tmp, target, fd, past, aged, helper, accepted, answered,
                         lost>>
          /\ ~sched'.perms.installs_permitted
      BY <1>b, <1>2 DEF RefuseApply, Return, SingleInv
    <2>2. \A x \in Writers : call'[x] = call[x] \/ call'[x].phase = "idle"
      BY <1>a, <1>b, <1>2 DEF RefuseApply, Return
    <2> QED
      BY <1>a, <2>1, <2>2 DEF SingleInv, Unanswered, InTarget, IdIn
  <1>3. ASSUME NEW w \in Writers, PrepareRequest(w)
        PROVE  SingleInv(c)'
    <2>1. w = c /\ target.kind = "none"
      BY <1>a, <1>3 DEF PrepareRequest, SingleInv, Blocked, Conflict,
                        apply_pending, File!Exists
    <2>2. /\ UNCHANGED <<tmp, target, fd, past, aged, helper, accepted, answered,
                         lost, sched>>
          /\ call'[c].phase = "open" /\ call'[Scheduler] = call[Scheduler]
      BY <1>a, <1>3, <2>1 DEF PrepareRequest
    <2> QED
      BY <2>1, <2>2 DEF SingleInv, Unanswered, InTarget, IdIn
  <1>4. ASSUME NEW w \in Writers, OpenRequest(w)
        PROVE  SingleInv(c)'
    <2>1. w = c /\ call[c].phase = "open"
      BY <1>a, <1>4 DEF OpenRequest, SingleInv
    <2>2. /\ UNCHANGED <<target, past, aged, helper, accepted, answered, lost,
                         sched>>
          /\ call'[c].phase = "write" /\ call'[Scheduler] = call[Scheduler]
          /\ fd'[c] = "tmp" /\ tmp'.kind = "empty"
      BY <1>a, <1>4, <2>1 DEF OpenRequest, File!OpenTmp, File!Truncated, Calls
    <2> QED
      BY <2>1, <2>2 DEF SingleInv, Unanswered, InTarget, IdIn
  <1>5. ASSUME NEW w \in Writers, WriteRequest(w)
        PROVE  SingleInv(c)'
    <2>1. w = c /\ call[c].phase = "write" /\ fd[c] = "tmp" /\ tmp.kind = "empty"
      BY <1>a, <1>5 DEF WriteRequest, SingleInv
    <2>2. /\ UNCHANGED <<target, past, helper, accepted, answered, lost, sched>>
          /\ call'[c].phase = "rename" /\ call'[Scheduler] = call[Scheduler]
          /\ call'[c].request = call[c].request
          /\ ~aged'
      BY <1>a, <1>5, <2>1 DEF WriteRequest, File!WriteTmp, SingleInv, Calls
    <2>3. tmp' = File!Whole(call[c].request)
      BY <1>5, <2>1 DEF WriteRequest, File!WriteTmp, File!Overlay
    <2>4. tmp' = File!Whole(call'[c].request)
      BY <2>2, <2>3
    <2> QED
      BY <2>1, <2>2, <2>4 DEF SingleInv, Unanswered, InTarget, IdIn, File!Whole
  <1>6. ASSUME NEW w \in Writers, RenameRequest(w)
        PROVE  SingleInv(c)'
    <2>1. w = c /\ call[c].phase = "rename" /\ tmp = File!Whole(call[c].request)
          /\ target.kind = "none"
      BY <1>a, <1>6 DEF RenameRequest, SingleInv
    <2>2. /\ UNCHANGED <<helper, answered, lost>> /\ ~aged'
          /\ sched' = sched
          /\ call'[c].phase = "idle" /\ call'[Scheduler] = call[Scheduler]
          /\ target' = tmp /\ past' = past \cup {target}
          /\ accepted' = accepted \cup {call[c].request.id}
      BY <1>a, <1>b, <1>6, <2>1 DEF RenameRequest, File!RenameTmp, Return
    <2>3. target'.kind = "whole" /\ target'.request = call[c].request
      BY <2>1, <2>2 DEF File!Whole
    <2>4. InTarget = {} /\ InTarget' = {call[c].request.id}
      BY <2>1, <2>3 DEF InTarget, IdIn
    <2>5. helper.pc \notin {"simulate", "install", "report", "remove"}
      BY <2>4 DEF SingleInv
    <2> QED
      BY <2>2, <2>3, <2>4, <2>5 DEF SingleInv, Unanswered
  <1>7. ASSUME NEW w \in Writers, RequestFails(w)
        PROVE  SingleInv(c)'
    <2>1. /\ UNCHANGED <<target, past, aged, helper, accepted, answered, lost>>
          /\ ~sched'.perms.installs_permitted
      BY <1>b, <1>7 DEF RequestFails, File!FailWrite, Return, SingleInv
    <2>2. w = c /\ call'[c].phase = "idle" /\ call'[Scheduler] = call[Scheduler]
      BY <1>a, <1>b, <1>7 DEF RequestFails, Return, SingleInv
    <2> QED
      BY <2>1, <2>2 DEF SingleInv, Unanswered, InTarget, IdIn
  <1>8. CASE Tick \/ NoAutoApply \/ StartAborad
    <2>1. ~sched'.perms.installs_permitted
      <3>1. Tick => sched'.perms = permissions(dconf, now)
        BY <1>a DEF Tick, SchedStates
      <3>2. dconf \in Configs
        BY DEF TypeOK, AboradTypeOK
      <3> QED
        BY <1>b, <1>8, <3>1, <3>2 DEF NoAutoApply, StartAborad
    <2> QED
      BY <1>8, <2>1, SingleFrame DEF Tick, NoAutoApply, StartAborad
  <1>9. CASE Ingest \/ IngestNothing \/ Refresh \/ NoRefresh
    <2>1. sched'.perms = sched.perms
      BY <1>a, <1>9 DEF Ingest, IngestNothing, Refresh, NoRefresh, SchedStates
    <2> QED
      BY <1>9, <2>1, SingleFrame
         DEF Ingest, IngestNothing, Refresh, NoRefresh, SingleInv
  <1>10. ~AutoApply /\ ~GrowOld /\ ~RefuseFile
    BY DEF AutoApply, GrowOld, RefuseFile, SingleInv, OneWriter, apply_pending,
           File!Exists
  <1>11. CASE Reload \/ EditConfig \/ TimePasses \/ NewVersion \/ UNCHANGED vars
    BY <1>11, SingleFrame
       DEF Reload, EditConfig, TimePasses, NewVersion, vars, SingleInv
  <1>12. ASSUME UNCHANGED <<call, tmp, target, fd, past, aged, sched, accepted,
                           answered, lost>>,
                \/ helper'.pc \in {"off", "load", "reboot", "exit"}
                \/ /\ helper'.pc \in {"simulate", "install"}
                   /\ InTarget = {helper'.request.id}
                \/ helper'.pc = "report" /\ InTarget = {helper'.outcome.id}
         PROVE  SingleInv(c)'
    BY <1>12 DEF SingleInv, Unanswered, InTarget, IdIn
  <1>13. CASE \/ StartHelper \/ LoadConfigFails \/ NothingWaiting
              \/ WriteResultFails \/ RemoveFails \/ HelperExits \/ RebootFails
              \/ HelperKilled
    <2>1. helper'.pc \in {"off", "load", "reboot", "exit"}
      BY <1>a, <1>13 DEF StartHelper, LoadConfigFails, NothingWaiting,
                         WriteResultFails, RemoveFails, AfterRemove, HelperExits,
                         RebootFails, HelperKilled, NoRun, HelperRuns
    <2> QED
      BY <1>12, <1>13, <2>1
         DEF StartHelper, LoadConfigFails, NothingWaiting, WriteResultFails,
             RemoveFails, HelperExits, RebootFails, HelperKilled, HelperStep
  <1>14. CASE PermitRequest \/ RefuseRequest
    <2>1. InTarget = {target.request.id}
      BY <1>14 DEF PermitRequest, RefuseRequest, ValidFile, InTarget, IdIn
    <2>2. PermitRequest => /\ helper'.pc = "simulate"
                           /\ helper'.request = target.request
      BY <1>a DEF PermitRequest, HelperRuns
    <2>3. RefuseRequest => /\ helper'.pc = "report"
                           /\ helper'.outcome.id = target.request.id
      BY <1>a, ReportId DEF RefuseRequest, refuse
    <2> QED
      BY <1>12, <1>14, <2>1, <2>2, <2>3
         DEF PermitRequest, RefuseRequest, HelperStep
  <1>15. CASE Simulate \/ NothingToDo \/ SimulateFails \/ Install \/ InstallFails
    <2>1. InTarget = {helper.request.id}
      BY <1>15 DEF Simulate, NothingToDo, SimulateFails, Install, InstallFails,
                   SingleInv
    <2>2. Simulate => helper'.pc = "install" /\ helper'.request = helper.request
      BY <1>a DEF Simulate, HelperRuns
    <2>3. NothingToDo \/ SimulateFails \/ Install \/ InstallFails =>
              helper'.pc = "report" /\ helper'.outcome.id = helper.request.id
      BY <1>a, ReportId
         DEF NothingToDo, SimulateFails, Install, InstallFails, refuse
    <2> QED
      BY <1>12, <1>15, <2>1, <2>2, <2>3
         DEF Simulate, NothingToDo, SimulateFails, Install, InstallFails,
             HelperStep
  <1>16. CASE WriteResult
    <2>1. /\ UNCHANGED <<call, tmp, target, fd, past, aged, sched, accepted, lost>>
          /\ answered' = answered \cup {helper.outcome.id}
          /\ helper'.pc = "remove" /\ InTarget = {helper.outcome.id}
      BY <1>a, <1>16 DEF WriteResult, HelperRuns, SingleInv
    <2> QED
      BY <2>1 DEF SingleInv, Unanswered, InTarget, IdIn
  <1>17. CASE RemoveRequest
    <2>1. /\ UNCHANGED <<call, tmp, sched, accepted, answered, lost>>
          /\ target'.kind = "none" /\ ~aged' /\ past' = past \cup {target}
          /\ helper'.pc \in {"reboot", "exit"}
      BY <1>a, <1>17 DEF RemoveRequest, File!RemoveTarget, File!NoFile,
                         AfterRemove, HelperRuns
    <2>2. fd[c] = "tmp" => fd'[c] = "tmp"
      BY <1>a, <1>17 DEF RemoveRequest, File!RemoveTarget, File!Moved
    <2>3. Unanswered = {}
      BY <1>17 DEF RemoveRequest, SingleInv, Unanswered
    <2> QED
      BY <2>1, <2>2, <2>3 DEF SingleInv, Unanswered, InTarget, IdIn
  <1>18. CASE Reboot \/ PowerFails \/ AboradStops
    <2>1. /\ UNCHANGED <<accepted, answered>>
          /\ \A w \in Writers : call'[w].phase = "idle"
          /\ ~sched'.perms.installs_permitted
          /\ PowerFails \/ Reboot => helper' = NoRun
          /\ AboradStops => helper' = helper
      BY <1>b, <1>18 DEF Reboot, PowerFails, MachineRestarts, AboradStops,
                         AboradGone, NoCalls
    <2>2. ~aged'
      BY <1>18 DEF Reboot, PowerFails, AboradStops, SingleInv
    <2>3. CASE Reboot \/ AboradStops
      <3>1. UNCHANGED <<target, lost>> /\ past' \subseteq past
        BY <2>3 DEF Reboot, AboradStops, File!Unmount, File!CloseAll
      <3> QED
        BY <1>a, <2>1, <2>2, <2>3, <3>1
           DEF SingleInv, Unanswered, InTarget, IdIn, NoRun
    <2>4. CASE PowerFails
      <3>1. /\ target' \in past \cup {target} /\ past' = {}
            /\ lost' = lost \cup (InTarget \ IdIn(target'))
        BY <2>4 DEF PowerFails, File!LosePower
      <3>2. Unanswered' \subseteq InTarget'
        BY <2>1, <3>1 DEF SingleInv, Unanswered, InTarget, IdIn
      <3> QED
        BY <1>a, <2>1, <2>2, <2>4, <3>1, <3>2 DEF SingleInv, NoRun
    <2> QED
      BY <1>18, <2>3, <2>4
  <1> QED
    BY <1>1, <1>2, <1>3, <1>4, <1>5, <1>6, <1>7, <1>8, <1>9, <1>10, <1>11, <1>13,
       <1>14, <1>15, <1>16, <1>17, <1>18
       DEF Next, RequestApply, SchedulerStep, HelperRun, Environment

\* It holds at the start.
LEMMA SingleInit ==
    ASSUME NEW c, OneWriter(c)
    PROVE  Init => SingleInv(c)
  BY DEF Init, SingleInv, OneWriter, NewSched, NoPerms, NoCalls, IdleCall, Writers,
         File!NoFile, NoRun, Unanswered, InTarget

\* The invariant of one writer.
THEOREM SingleInvariance ==
    ASSUME NEW c, OneWriter(c)
    PROVE  Spec => []SingleInv(c)
  BY SingleInit, SingleStep, TypeCorrect, PTL DEF Spec

\* One client that waits for its answers has at most one request accepted and
\* not answered, whatever fails, crashes or goes missing; a request that a power
\* failure took out of the file, whose rename was not on disk yet, not counted.
THEOREM OneRequestAtATime ==
    ASSUME NEW c, OneWriter(c)
    PROVE  Spec => []OneAtATime
  <1>1. SingleInv(c) => OneAtATime
    <2> SUFFICES ASSUME SingleInv(c) PROVE OneAtATime
      OBVIOUS
    <2>1. Unanswered \subseteq {target.request.id}
      BY DEF SingleInv, Unanswered, InTarget, IdIn
    <2>2. IsFiniteSet({target.request.id}) /\ Cardinality({target.request.id}) = 1
      BY FS_Singleton
    <2>3. Cardinality(Unanswered) <= Cardinality({target.request.id})
      BY <2>1, <2>2, FS_Subset
    <2> QED
      BY <2>2, <2>3 DEF OneAtATime
  <1> QED
    BY <1>1, SingleInvariance, PTL
============================================================================
