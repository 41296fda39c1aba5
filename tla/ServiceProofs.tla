--------------------------- MODULE ServiceProofs ---------------------------
(***************************************************************************)
(* The apply protocol as a service: no result is passed over, the history  *)
(* is in order, a policy that forbids reboots is obeyed, and with one      *)
(* writer the protocol implements ApplyService, for the daemon alone and   *)
(* for its composition with the command line client.                       *)
(***************************************************************************)
EXTENDS ClientProofs

USE ApplyAssumption

----------------------------------------------------------------------------
(* No result is passed over                                                *)

\* A record leaves the new entry in last place, however short the history is.
LEMMA RecordLast ==
    ASSUME AboradTypeOK, NEW r \in Results, Record(r)
    PROVE  \E i \in DOMAIN history' : history'[i] = r
  <1>1. PICK k \in 0 .. 1 :
            /\ Len(history') = Len(history) + 1 - k
            /\ \A i \in DOMAIN history' :
                   i = Len(history') => history'[i] = r
    BY RecordEntries
  <1>2. history' \in Seq(Results) /\ Len(history) \in Nat
    BY RecordType DEF AboradTypeOK
  <1>3. Len(history') # 0
    <2>1. CASE Len(Append(history, r)) > MaxHistory
      <3> DEFINE h == Append(history, r)
      <3>1. h \in Seq(Results) /\ Len(h) > 1 /\ history' = Tail(h)
        BY <2>1 DEF AboradTypeOK, Record
      <3> QED
        BY <3>1, Len(Tail(h)) = Len(h) - 1
    <2>2. CASE ~(Len(Append(history, r)) > MaxHistory)
      BY <2>2 DEF AboradTypeOK, Record
    <2> QED
      BY <2>1, <2>2
  <1> QED
    BY <1>1, <1>2, <1>3

\* Only the helper's last step but one writes the result file, and only a power
\* failure changes it otherwise.
LEMMA ResultFrame ==
    ASSUME TypeOK, [Next]_vars
    PROVE  WriteResult \/ PowerFails \/ UNCHANGED result
  <1>1. CASE UNCHANGED reportVars
    BY <1>1 DEF reportVars
  <1>2. CASE Moves \/ Refusals \/ Removals
    BY <1>2, MovesEffect, RefusalsEffect, RemovalsEffect
  <1>3. CASE NothingToDo \/ Install
    BY <1>3 DEF NothingToDo, Install, HelperStep, resultVars
  <1> QED
    BY <1>1, <1>2, <1>3, ReportFrame

\* A new result has a new id, so no entry stands in its way.
LEMMA ShadowStep ==
    ASSUME "power" \notin Faults
    PROVE  TypeOK /\ TruthInv /\ ReplayInv /\ NothingShadowed /\ [Next]_vars
               => NothingShadowed'
  <1> SUFFICES ASSUME TypeOK, TruthInv, ReplayInv, NothingShadowed, [Next]_vars,
                      result'.id # 0
               PROVE  \/ Fresh(result)'
                      \/ \E i \in DOMAIN history' : history'[i] = result'
    BY DEF NothingShadowed
  <1>1. CASE WriteResult
    <2>1. /\ helper.pc = "report" /\ result' = helper.outcome
          /\ UNCHANGED history
      BY <1>1 DEF WriteResult, aboradVars
    <2>2. helper.outcome.id \notin answered
      BY <2>1 DEF ReplayInv, InHelper
    <2>3. \A i \in DOMAIN history : history[i].id # helper.outcome.id
      BY <2>2 DEF TruthInv, HistoryTruth
    <2>4. result' # NoResult
      BY DEF NoResult
    <2> QED
      BY <2>1, <2>3, <2>4 DEF Fresh, Recorded
  <1>2. CASE UNCHANGED result /\ Ingest
    <2>1. Record(result) /\ result \in Results /\ AboradTypeOK
      BY <1>2 DEF Ingest, TypeOK, FilesTypeOK
    <2> QED
      BY <1>2, <2>1, RecordLast
  <1>3. CASE UNCHANGED <<result, history>>
    BY <1>3 DEF NothingShadowed, Fresh, Recorded
  <1>4. ~PowerFails
    BY DEF PowerFails
  <1> QED
    BY <1>1, <1>2, <1>3, <1>4, ResultFrame, HistoryFrame

\* ingest_apply_result tells results apart by their ids, and that is enough:
\* with any number of racing writers and late starts of the helper, a result
\* that answers a request is in the history or still to be recorded, as long as
\* the helper can finish its run and remove the request.
THEOREM ResultsNotShadowed ==
    ASSUME Faults \cap {"crash", "power", "remove"} = {}
    PROVE  Spec => []NothingShadowed
  <1>1. Init => NothingShadowed
    BY DEF Init, NothingShadowed, NoResult
  <1>2. TypeOK /\ TruthInv /\ ReplayInv /\ NothingShadowed /\ [Next]_vars
            => NothingShadowed'
    BY ShadowStep
  <1> QED
    BY <1>1, <1>2, TypeCorrect, TruthInvariance, ReplayInvariance, PTL
    DEF Spec

----------------------------------------------------------------------------
(* The history is in the order of the results                              *)

\* What keeps HistoryInOrder: a report is numbered after the result file.
OrderInv ==
    /\ HistoryInOrder
    /\ helper.pc = "report" => helper.outcome.run = result.run + 1

\* A report is numbered by the result file it will replace.
LEMMA ReportNumbered ==
    ASSUME TypeOK, [Next]_vars, ~WriteResult, OrderInv
    PROVE  helper'.pc = "report" => helper'.outcome.run = result.run + 1
  <1>0. ASSUME NEW id, NEW ok, NEW pkgs, NEW reboot, Report(id, ok, pkgs, reboot)
        PROVE  helper'.outcome.run = result.run + 1
    BY <1>0 DEF Report, TypeOK, HelperRuns
  <1>1. CASE UNCHANGED reportVars
    BY <1>1 DEF reportVars, OrderInv
  <1>2. CASE Moves \/ Removals
    BY <1>2, MovesEffect, RemovalsEffect
  <1>3. CASE Refusals
    BY <1>0, <1>3, Zenon DEF Refusals, RefuseFile, RefuseRequest, SimulateFails,
                             InstallFails, refuse
  <1>4. CASE NothingToDo \/ Install
    BY <1>0, <1>4, Zenon DEF NothingToDo, Install
  <1>5. CASE PowerFails
    BY <1>5, PowerEffect
  <1> QED
    BY <1>1, <1>2, <1>3, <1>4, <1>5, ReportFrame

\* Recording a result that is newer than every entry keeps the order.
LEMMA RecordInOrder ==
    ASSUME AboradTypeOK, result \in Results, HistoryInOrder, Record(result),
           ~Recorded(result.id), UNCHANGED result
    PROVE  HistoryInOrder'
  <1>1. \A i \in DOMAIN history : history[i].run < result.run
    BY DEF HistoryInOrder, Recorded
  <1>2. PICK k \in 0 .. 1 :
            /\ Len(history') = Len(history) + 1 - k
            /\ \A i \in DOMAIN history' :
                   IF i = Len(history')
                   THEN history'[i] = result
                   ELSE i + k \in DOMAIN history /\ history'[i] = history[i + k]
    BY RecordEntries
  <1>3. /\ history' \in Seq(Results) /\ Len(history') \in Nat
        /\ DOMAIN history' = 1 .. Len(history')
    BY RecordType DEF AboradTypeOK
  <1>4. ASSUME NEW i \in DOMAIN history', NEW j \in DOMAIN history', i < j
        PROVE  history'[i].run < history'[j].run
    <2>1. i # Len(history') /\ i \in Nat /\ j \in Nat
      BY <1>3, <1>4
    <2>2. i + k \in DOMAIN history /\ history'[i] = history[i + k]
      BY <1>2, <2>1
    <2>3. CASE j = Len(history')
      BY <1>1, <1>2, <2>2, <2>3
    <2>4. CASE j # Len(history')
      <3>1. j + k \in DOMAIN history /\ history'[j] = history[j + k]
        BY <1>2, <2>4
      <3>2. i + k < j + k
        BY <1>4, <2>1
      <3> QED
        BY <2>2, <3>1, <3>2 DEF HistoryInOrder
    <2> QED
      BY <2>3, <2>4
  <1>5. \A i \in DOMAIN history' :
            history'[i] = result \/ history'[i].run < result.run
    BY <1>1, <1>2
  <1> QED
    BY <1>4, <1>5 DEF HistoryInOrder

\* Whoever races and whatever fails but the power, which may bring back an
\* earlier result file: ingest_apply_result records the results in the order in
\* which the helper wrote them, and each at most once for ever, also when its
\* entry has already made room for newer ones.
THEOREM HistoryChronological ==
    ASSUME "power" \notin Faults
    PROVE  Spec => []HistoryInOrder
  <1>1. Init => OrderInv
    BY DEF Init, OrderInv, HistoryInOrder, NoRun
  <1>2. TypeOK /\ OrderInv /\ [Next]_vars => OrderInv'
    <2> SUFFICES ASSUME TypeOK, OrderInv, [Next]_vars
                 PROVE  OrderInv'
      OBVIOUS
    <2>a. /\ AboradTypeOK /\ result \in Results /\ helper \in HelperRuns
          /\ \A i \in DOMAIN history : history[i].run \in Nat
      <3>1. history \in Seq(Results)
        BY DEF TypeOK, AboradTypeOK
      <3>2. \A i \in DOMAIN history : history[i] \in Results
        BY <3>1
      <3> QED
        BY <3>2 DEF TypeOK, FilesTypeOK, Results
    <2>1. CASE WriteResult
      <3>1. /\ helper.pc = "report" /\ result' = helper.outcome
            /\ helper'.pc # "report" /\ UNCHANGED history
        BY <2>1, <2>a DEF WriteResult, HelperRuns, aboradVars
      <3>2. result.run \in Nat /\ result'.run = result.run + 1
        BY <2>a, <3>1 DEF OrderInv, Results
      <3> QED
        BY <2>a, <3>1, <3>2 DEF OrderInv, HistoryInOrder
    <2>2. CASE ~WriteResult
      <3>1. UNCHANGED result
        BY <2>2, ResultFrame DEF PowerFails
      <3>2. HistoryInOrder'
        <4>1. CASE Ingest
          BY <2>a, <3>1, <4>1, RecordInOrder DEF Ingest, Fresh, OrderInv
        <4>2. CASE UNCHANGED history
          BY <3>1, <4>2 DEF OrderInv, HistoryInOrder
        <4> QED
          BY <4>1, <4>2, HistoryFrame
      <3> QED
        BY <2>2, <3>1, <3>2, ReportNumbered DEF OrderInv
    <2> QED
      BY <2>1, <2>2
  <1>3. OrderInv => HistoryInOrder
    BY DEF OrderInv
  <1> QED
    BY <1>1, <1>2, <1>3, TypeCorrect, PTL DEF Spec

----------------------------------------------------------------------------
(* A policy that forbids reboots is obeyed                                 *)

RebootsForbidden == conf.reboot_policy \notin {"always", "ask"}

\* While the policy forbids reboots, no run of the helper gets the permission.
LEMMA NoRebootAheadStep ==
    TypeOK /\ RebootsForbidden /\ NoRebootAhead /\ [Next]_vars => NoRebootAhead'
  <1> SUFFICES ASSUME TypeOK, RebootsForbidden, NoRebootAhead, [Next]_vars
               PROVE  NoRebootAhead'
    OBVIOUS
  <1>a. helper \in HelperRuns
    BY DEF TypeOK
  <1>1. CASE UNCHANGED reportVars
    BY <1>1 DEF reportVars, NoRebootAhead
  <1>2. CASE Moves
    <2>1. CASE PermitRequest
      <3>1. ~permissions(conf, now).reboot_permitted
        BY DEF permissions, RebootsForbidden
      <3> QED
        BY <1>a, <2>1, <3>1 DEF PermitRequest, NoRebootAhead, HelperRuns
    <2>2. CASE StartHelper \/ Simulate
      <3>1. CASE StartHelper
        <4>1. helper' = [helper EXCEPT !.pc = "load"]
          BY <3>1, Zenon DEF StartHelper
        <4> QED
          BY <1>a, <4>1 DEF NoRebootAhead, HelperRuns
      <3>2. CASE Simulate
        BY <1>a, <3>2 DEF Simulate, NoRebootAhead, HelperRuns
      <3> QED
        BY <2>2, <3>1, <3>2
    <2>3. CASE ~(PermitRequest \/ StartHelper \/ Simulate)
      <3>1. helper' = NoRun
        BY <1>2, <2>3, Zenon DEF Moves, LoadConfigFails, NothingWaiting,
           WriteResultFails, HelperExits, RebootFails, HelperKilled, Reboot,
           MachineRestarts
      <3> QED
        BY <3>1 DEF NoRun, NoRebootAhead
    <2> QED
      BY <2>1, <2>2, <2>3
  <1>3. CASE Refusals
    <2>1. PICK id : Report(id, FALSE, {}, FALSE)
      BY <1>3, Zenon DEF Refusals, RefuseFile, RefuseRequest, SimulateFails,
                         InstallFails, refuse
    <2> QED
      BY <1>a, <2>1 DEF Report, NoRebootAhead, HelperRuns
  <1>4. CASE Removals
    BY <1>4, RemovalsEffect DEF NoRebootAhead
  <1>5. CASE NothingToDo
    BY <1>a, <1>5 DEF NothingToDo, Report, NoRebootAhead, HelperRuns
  <1>6. CASE Install
    <2>1. ~(marker' /\ helper.perms.reboot_permitted)
      BY <1>6 DEF Install, NoRebootAhead
    <2> QED
      BY <1>a, <1>6, <2>1 DEF Install, Report, NoRebootAhead, HelperRuns
  <1>7. CASE WriteResult
    BY <1>a, <1>7 DEF WriteResult, NoRebootAhead, HelperRuns
  <1>8. CASE PowerFails
    BY <1>8, PowerEffect DEF NoRebootAhead
  <1> QED
    BY <1>1, <1>2, <1>3, <1>4, <1>5, <1>6, <1>7, <1>8, ReportFrame

\* An administrator who sets the policy to `never' while no run of the helper is
\* under way, and leaves it so, sees no reboot from then on, whatever callers ask
\* for and whatever fails.  The helper must be off: a run that has read another
\* policy keeps its permission.
THEOREM NeverMeansNever ==
    Spec => [](helper.pc = "off" /\ []RebootsForbidden => [][~Reboot]_vars)
  <1>1. helper.pc = "off" => NoRebootAhead
    BY DEF NoRebootAhead
  <1>2. TypeOK /\ RebootsForbidden /\ NoRebootAhead /\ [Next]_vars
            => NoRebootAhead'
    BY NoRebootAheadStep
  <1>3. NoRebootAhead => [~Reboot]_vars
    BY DEF NoRebootAhead, Reboot
  <1> QED
    BY <1>1, <1>2, <1>3, TypeCorrect, PTL DEF Spec

----------------------------------------------------------------------------
(* The protocol implements ApplyService                                    *)

\* A step that leaves requests and the helper alone.
LEMMA ServiceFrame ==
    ASSUME NEW c, ServiceInv(c),
           UNCHANGED <<call, target, past, helper, resultVars, ids, accepted>>
    PROVE  ServiceInv(c)'
  BY DEF ServiceInv, InTarget, IdIn, resultVars

\* A step of the helper that leaves the request file alone keeps ServiceInv if
\* the new state of the run does.
RunOK(run, file, res) ==
    /\ run.pc \in {"simulate", "install"} => run.request = file.request
    /\ run.pc = "install" => run.todo \subseteq run.request.pkgs
    /\ run.pc = "report" => run.outcome.run = res.run + 1

\* A step of the helper keeps ServiceInv if its run agrees with the files.
LEMMA ServiceRun ==
    ASSUME NEW c, ServiceInv(c), UNCHANGED <<call, target, past, ids, accepted>>,
           RunOK(helper', target, result'),
           helper'.pc = "remove" => InTarget = {result'.id},
           result' = result \/ result'.run > 0,
           pastResults' \subseteq pastResults \cup {result}
    PROVE  ServiceInv(c)'
  BY DEF ServiceInv, InTarget, IdIn, RunOK

\* A step of the client's call keeps ServiceInv if the call's id is still new.
LEMMA ServiceCall ==
    ASSUME NEW c, ServiceInv(c),
           UNCHANGED <<target, past, helper, resultVars, accepted>>,
           ids \in Nat, ids' \in Nat, ids <= ids',
           call'[c].phase \in {"open", "write", "rename"} =>
               call'[c].request.id \in (1 .. ids') \ accepted
    PROVE  ServiceInv(c)'
  <1>1. 1 .. ids \subseteq 1 .. ids'
    OBVIOUS
  <1>2. InTarget' = InTarget /\ \A f : IdIn(f)' = IdIn(f)
    BY DEF InTarget, IdIn
  <1> QED
    BY <1>1, <1>2 DEF ServiceInv, IdIn, resultVars

\* Every step keeps ServiceInv.
LEMMA ServiceStep ==
    ASSUME NEW c, OneWriter(c)
    PROVE  TypeOK /\ SingleInv(c) /\ ReportInv /\ ServiceInv(c) /\ [Next]_vars
               => ServiceInv(c)'
  <1> SUFFICES ASSUME TypeOK, SingleInv(c), ReportInv, ServiceInv(c), [Next]_vars
               PROVE  ServiceInv(c)'
    OBVIOUS
  <1> USE DEF machineVars, requestVars, resultVars, aboradVars, ghostVars
  <1>a. /\ call \in [Writers -> Calls] /\ helper \in HelperRuns
        /\ Writers = {c, Scheduler} /\ c # Scheduler /\ ids \in Nat
    BY DEF TypeOK, AboradTypeOK, GhostTypeOK, Ids, Writers, OneWriter
  <1>b. IdleCall.phase = "idle"
    BY DEF IdleCall
  <1>1. ASSUME NEW w \in Callers, ReceiveApply(w) PROVE ServiceInv(c)'
    BY <1>a, <1>1, ServiceCall DEF ReceiveApply, OneWriter
  <1>2. ASSUME NEW w \in Writers, RefuseApply(w) \/ RequestFails(w)
        PROVE  ServiceInv(c)'
    <2>1. UNCHANGED <<target, past, helper, resultVars, accepted, ids>>
      BY <1>2 DEF RefuseApply, RequestFails, File!FailWrite
    <2>2. call'[c] = call[c] \/ call'[c].phase = "idle"
      BY <1>a, <1>b, <1>2 DEF RefuseApply, RequestFails, Return
    <2> QED
      BY <1>a, <2>1, <2>2, ServiceCall DEF ServiceInv
  <1>3. ASSUME NEW w \in Writers, PrepareRequest(w) PROVE ServiceInv(c)'
    <2>1. w = c
      BY <1>a, <1>3 DEF PrepareRequest, SingleInv
    <2>2. /\ UNCHANGED <<target, past, helper, resultVars, accepted>>
          /\ ids' = ids + 1
          /\ call'[c].request.id = ids + 1
      BY <1>a, <1>3, <2>1 DEF PrepareRequest, Calls, Requests
    <2>3. ids + 1 \notin accepted
      BY <1>a DEF ServiceInv
    <2> QED
      BY <1>a, <2>2, <2>3, ServiceCall
  <1>4. ASSUME NEW w \in Writers, OpenRequest(w) \/ WriteRequest(w)
        PROVE  ServiceInv(c)'
    <2>1. w = c /\ call[c].phase \in {"open", "write"}
      BY <1>a, <1>4 DEF OpenRequest, WriteRequest, SingleInv
    <2>2. UNCHANGED <<helper, resultVars, accepted, ids>>
          /\ call'[c].request = call[c].request
      BY <1>a, <1>4, <2>1 DEF OpenRequest, WriteRequest, Calls
    <2>3. UNCHANGED <<target, past>>
      BY <1>4, <2>1 DEF OpenRequest, WriteRequest, File!OpenTmp, File!WriteTmp,
                        SingleInv
    <2> QED
      BY <1>a, <2>1, <2>2, <2>3, ServiceCall DEF ServiceInv
  <1>5. ASSUME NEW w \in Writers, RenameRequest(w) PROVE ServiceInv(c)'
    <2>1. w = c /\ call[c].phase = "rename" /\ tmp = File!Whole(call[c].request)
          /\ target.kind = "none"
      BY <1>a, <1>5 DEF RenameRequest, SingleInv
    <2>2. /\ UNCHANGED <<helper, resultVars, ids>>
          /\ call'[c].phase = "idle" /\ target' = tmp
          /\ past' = past \cup {target}
          /\ accepted' = accepted \cup {call[c].request.id}
      BY <1>a, <1>b, <1>5, <2>1 DEF RenameRequest, File!RenameTmp, Return
    <2>3. InTarget = {} /\ InTarget' = {call[c].request.id}
      BY <2>1, <2>2 DEF InTarget, IdIn, File!Whole
    <2>4. helper.pc \notin {"simulate", "install", "report", "remove"}
      BY <2>3 DEF SingleInv
    <2>5. call[c].request.id \in 1 .. ids
      BY <2>1 DEF ServiceInv
    <2>6. \A f \in past' \cup {target'} : IdIn(f) \subseteq 1 .. ids
      BY <2>2, <2>3, <2>5 DEF ServiceInv, InTarget, IdIn
    <2> QED
      BY <2>2, <2>3, <2>4, <2>5, <2>6 DEF ServiceInv, IdIn
  <1>6. CASE SchedulerStep
    <2>1. ~AutoApply
      BY DEF AutoApply, SingleInv
    <2>2. UNCHANGED <<call, target, past, helper, resultVars, ids, accepted>>
      BY <1>6, <2>1 DEF SchedulerStep, Tick, Ingest, IngestNothing, Refresh,
                        NoRefresh, NoAutoApply
    <2> QED
      BY <2>2, ServiceFrame
  <1>7. CASE \/ StartAborad \/ Reload \/ EditConfig \/ TimePasses \/ NewVersion
             \/ GrowOld \/ UNCHANGED vars
    BY <1>7, ServiceFrame
       DEF StartAborad, Reload, EditConfig, TimePasses, NewVersion, GrowOld, vars
  <1>8. CASE \/ StartHelper \/ LoadConfigFails \/ NothingWaiting
             \/ WriteResultFails \/ RemoveFails \/ HelperExits \/ RebootFails
             \/ HelperKilled
    <2>1. helper'.pc \in {"off", "load", "reboot", "exit"}
      BY <1>a, <1>8 DEF StartHelper, LoadConfigFails, NothingWaiting,
                        WriteResultFails, RemoveFails, AfterRemove, HelperExits,
                        RebootFails, HelperKilled, NoRun, HelperRuns
    <2>2. UNCHANGED <<call, target, past, ids, accepted, resultVars>>
      BY <1>8 DEF StartHelper, LoadConfigFails, NothingWaiting, WriteResultFails,
                  RemoveFails, HelperExits, RebootFails, HelperKilled, HelperStep
    <2> QED
      BY <2>1, <2>2, ServiceRun DEF RunOK
  <1>9. CASE PermitRequest
    <2>1. /\ helper'.pc = "simulate" /\ helper'.request = target.request
          /\ UNCHANGED <<call, target, past, ids, accepted, resultVars>>
      BY <1>a, <1>9 DEF PermitRequest, HelperStep, HelperRuns
    <2> QED
      BY <2>1, ServiceRun DEF RunOK
  <1>10. CASE Simulate
    <2>1. /\ helper.pc = "simulate" /\ helper'.pc = "install"
          /\ helper'.request = helper.request
          /\ helper'.todo \subseteq helper.request.pkgs
          /\ UNCHANGED <<call, target, past, ids, accepted, resultVars>>
      BY <1>a, <1>10 DEF Simulate, HelperStep, HelperRuns
    <2> QED
      BY <2>1, ServiceRun DEF RunOK, ServiceInv
  <1>11. CASE Refusals \/ NothingToDo \/ Install
    <2>1. PICK id, ok, pkgs, reboot : Report(id, ok, pkgs, reboot)
      BY <1>11 DEF Refusals, RefuseFile, RefuseRequest, SimulateFails,
                   InstallFails, refuse, NothingToDo, Install
    <2>2. helper'.pc = "report" /\ helper'.outcome.run = result.run + 1
      BY <1>a, <2>1 DEF Report, HelperRuns
    <2>3. UNCHANGED <<call, target, past, ids, accepted, resultVars>>
      BY <1>11 DEF Refusals, RefuseFile, RefuseRequest, SimulateFails,
                   InstallFails, NothingToDo, Install, HelperStep
    <2> QED
      BY <2>2, <2>3, ServiceRun DEF RunOK
  <1>12. CASE WriteResult
    <2>1. /\ helper.pc = "report" /\ helper'.pc = "remove"
          /\ result' = helper.outcome
          /\ pastResults' = pastResults \cup {result}
          /\ UNCHANGED <<call, target, past, ids, accepted>>
      BY <1>a, <1>12 DEF WriteResult, HelperRuns
    <2>2. InTarget = {helper.outcome.id}
      BY <2>1 DEF SingleInv
    <2>3. helper.outcome.run > 0
      BY <2>1 DEF ServiceInv, TypeOK, FilesTypeOK, Results
    <2> QED
      BY <2>1, <2>2, <2>3, ServiceRun DEF RunOK
  <1>13. CASE RemoveRequest
    <2>1. /\ UNCHANGED <<call, ids, accepted, resultVars>>
          /\ helper'.pc \in {"reboot", "exit"}
          /\ past' = past \cup {target} /\ target'.kind = "none"
      BY <1>a, <1>13 DEF RemoveRequest, File!RemoveTarget, File!NoFile,
                         AfterRemove, HelperRuns
    <2>2. \A f \in past' \cup {target'} : IdIn(f) \subseteq 1 .. ids
      BY <2>1 DEF ServiceInv, IdIn
    <2> QED
      BY <2>1, <2>2 DEF ServiceInv, IdIn
  <1>14. CASE Reboot \/ PowerFails
    <2>1. /\ UNCHANGED <<ids, accepted>> /\ call'[c].phase = "idle"
          /\ helper'.pc = "off"
          /\ result' \in pastResults \cup {result} /\ pastResults' = {}
      BY <1>a, <1>b, <1>14 DEF Reboot, PowerFails, MachineRestarts, AboradGone,
                               NoCalls, NoRun
    <2>2. target' \in past \cup {target} /\ past' = {}
      BY <1>14 DEF Reboot, PowerFails, File!Unmount, File!LosePower
    <2> QED
      BY <2>1, <2>2 DEF ServiceInv, IdIn
  <1>15. CASE AboradStops
    <2>1. /\ UNCHANGED <<target, past, helper, resultVars, ids, accepted>>
          /\ call'[c].phase = "idle"
      BY <1>a, <1>b, <1>15 DEF AboradStops, AboradGone, File!CloseAll, NoCalls
    <2> QED
      BY <1>a, <2>1, ServiceCall
  <1> QED
    BY <1>1, <1>2, <1>3, <1>4, <1>5, <1>6, <1>7, <1>8, <1>9, <1>10, <1>11, <1>12,
       <1>13, <1>14, <1>15
       DEF Next, RequestApply, HelperRun, Environment, Refusals

\* ServiceInv holds for one writer, under every failure but a late start.
LEMMA ServiceInvariance ==
    ASSUME NEW c, OneWriter(c)
    PROVE  Spec => []ServiceInv(c)
  <1>1. Init => ServiceInv(c)
    BY DEF Init, ServiceInv, OneWriter, Writers, NoCalls, IdleCall, NoRun,
           File!NoFile, InTarget, IdIn
  <1>2. TypeOK /\ SingleInv(c) /\ ReportInv /\ ServiceInv(c) /\ [Next]_vars
            => ServiceInv(c)'
    BY ServiceStep
  <1>3. Spec => []SingleInv(c)
    BY SingleInvariance
  <1> QED
    BY <1>1, <1>2, <1>3, ReportInvariance, TypeCorrect, PTL DEF Spec

\* The file holds a request with an id of its own, or none is under way.
LEMMA WaitingValue ==
    ASSUME NEW c, TypeOK, ServiceInv(c)
    PROVE  \A i : InTarget = {i} =>
               /\ RequestIn(target) = target.request
               /\ RequestIn(target) # NoRequest
               /\ RequestIn(target).id = i
  BY DEF ServiceInv, InTarget, IdIn, RequestIn, NoRequest

\* The steps that the client of the service does not see.
LEMMA ServiceUnseen ==
    ASSUME NEW c, OneWriter(c), TypeOK, SingleInv(c), [Next]_vars,
           \A w \in Writers : ~RenameRequest(w),
           ~Install, ~WriteResult, ~RemoveRequest, ~Ingest, ~Reboot, ~PowerFails
    PROVE  UNCHANGED <<accepted, target, past, installs, resultVars, history>>
  <1> DEFINE Same ==
                 UNCHANGED <<accepted, target, past, installs, resultVars, history>>
  <1> USE DEF machineVars, requestVars, resultVars, aboradVars, ghostVars
  <1>1. ASSUME NEW w \in Callers, ReceiveApply(w) PROVE Same
    BY <1>1 DEF ReceiveApply
  <1>2. ASSUME NEW w \in Writers, RequestApply(w) PROVE Same
    <2>1. CASE WriteRequest(w)
      <3>1. w = c /\ fd[w] = "tmp"
        BY <2>1 DEF WriteRequest, SingleInv, OneWriter, Writers
      <3> QED
        BY <2>1, <3>1 DEF WriteRequest, File!WriteTmp
    <2>2. CASE ~WriteRequest(w)
      BY <1>2, <2>2 DEF RequestApply, RefuseApply, PrepareRequest, OpenRequest,
                        RequestFails, File!OpenTmp, File!FailWrite
    <2> QED
      BY <2>1, <2>2
  <1>3. ASSUME SchedulerStep PROVE Same
    BY <1>3 DEF SchedulerStep, Tick, IngestNothing, Refresh, NoRefresh, AutoApply,
                NoAutoApply
  <1>4. ASSUME HelperRun PROVE Same
    BY <1>4 DEF HelperRun, StartHelper, LoadConfigFails, NothingWaiting,
                RefuseFile, RefuseRequest, PermitRequest, Simulate, NothingToDo,
                SimulateFails, InstallFails, WriteResultFails, RemoveFails,
                HelperExits, RebootFails, HelperStep
  <1>5. ASSUME StartAborad \/ Reload \/ Environment PROVE Same
    BY <1>5 DEF StartAborad, Reload, Environment, HelperKilled, AboradStops,
                AboradGone, File!CloseAll, EditConfig, TimePasses, NewVersion, GrowOld, HelperStep
  <1>6. ASSUME UNCHANGED vars PROVE Same
    BY <1>6 DEF vars
  <1> QED
    BY <1>1, <1>2, <1>3, <1>4, <1>5, <1>6 DEF Next

\* Every step of the protocol is a step of the service, or none.
LEMMA ServiceRefined ==
    ASSUME NEW c, OneWriter(c), TypeOK, SingleInv(c), TruthInv, ServiceInv(c),
           [Next]_vars
    PROVE  [Service!AbsNext]_(Service!absVars)
  <1> DEFINE Seen == Service!AbsNext
             Unseen == UNCHANGED Service!absVars
  <1> USE DEF machineVars, requestVars, resultVars, aboradVars, ghostVars
  <1>1. ASSUME NEW w \in Writers, RenameRequest(w) PROVE Seen
    <2>1. w = c /\ call[c].phase = "rename" /\ tmp = File!Whole(call[c].request)
          /\ target.kind = "none"
      BY <1>1 DEF RenameRequest, SingleInv, OneWriter, Writers
    <2>2. /\ target' = tmp /\ accepted' = accepted \cup {call[c].request.id}
          /\ past' = past \cup {target}
          /\ UNCHANGED <<installs, resultVars, history>>
      BY <1>1, <2>1 DEF RenameRequest, File!RenameTmp
    <2>3. /\ RequestIn(target) = NoRequest /\ RequestIn(target') = call[c].request
      BY <2>1, <2>2 DEF RequestIn, File!Whole
    <2>4. call[c].request \in Requests /\ call[c].request.id \notin accepted
      BY <1>1, <2>1 DEF TypeOK, AboradTypeOK, Calls, ServiceInv
    <2>5. {RequestIn(f) : f \in past'} = {RequestIn(f) : f \in past} \cup {RequestIn(target)}
      BY <2>2
    <2> QED
      BY <2>2, <2>3, <2>4, <2>5 DEF Service!AbsNext, Service!Accept
  <1>2. CASE Install
    <2>1. /\ InTarget = {helper.request.id} /\ helper.request = target.request
          /\ helper.todo \subseteq helper.request.pkgs
      BY <1>2 DEF Install, SingleInv, ServiceInv
    <2>2. /\ UNCHANGED <<accepted, target, past, resultVars, history>>
          /\ installs' = installs \cup {[id |-> helper.request.id,
                                          pkgs |-> helper.todo]}
      BY <1>2 DEF Install
    <2>3. RequestIn(target) = helper.request /\ RequestIn(target) # NoRequest
      BY <2>1, WaitingValue
    <2> QED
      BY <2>1, <2>2, <2>3 DEF Service!AbsNext, Service!CarryOut
  <1>3. CASE WriteResult
    <2>1. /\ InTarget = {helper.outcome.id}
          /\ helper.outcome.run = result.run + 1 /\ Truthful(helper.outcome)
      BY <1>3 DEF WriteResult, SingleInv, ServiceInv, TruthInv
    <2>2. result' = helper.outcome
          /\ pastResults' = pastResults \cup {result}
          /\ UNCHANGED <<accepted, target, past, installs, history>>
      BY <1>3 DEF WriteResult
    <2>3. RequestIn(target) # NoRequest /\ RequestIn(target).id = helper.outcome.id
      BY <2>1, WaitingValue
    <2> QED
      BY <2>1, <2>2, <2>3 DEF Truthful, Service!AbsNext, Service!Reply
  <1>4. CASE RemoveRequest
    <2>1. InTarget = {result.id}
      BY <1>4 DEF RemoveRequest, ServiceInv
    <2>2. /\ RequestIn(target') = NoRequest /\ past' = past \cup {target}
          /\ UNCHANGED <<accepted, installs, resultVars, history>>
      BY <1>4 DEF RemoveRequest, File!RemoveTarget, File!NoFile, RequestIn
    <2>3. RequestIn(target) # NoRequest /\ RequestIn(target).id = result.id
      BY <2>1, WaitingValue
    <2>4. {RequestIn(f) : f \in past'} = {RequestIn(f) : f \in past} \cup {RequestIn(target)}
      BY <2>2
    <2> QED
      BY <2>2, <2>3, <2>4 DEF Service!AbsNext, Service!Clear
  <1>5. CASE Ingest
    <2>1. /\ result.run > 0 /\ ~Recorded(result.id) /\ Record(result)
          /\ UNCHANGED <<accepted, target, past, installs, resultVars>>
      BY <1>5 DEF Ingest, Fresh, ServiceInv
    <2> QED
      BY <2>1 DEF Service!AbsNext, Service!Log, Recorded, Record
  <1>6. CASE Reboot \/ PowerFails
    <2>1. /\ UNCHANGED <<accepted, installs, history>>
          /\ result' \in pastResults \cup {result} /\ pastResults' = {}
      BY <1>6 DEF Reboot, PowerFails, MachineRestarts
    <2>2. target' \in past \cup {target} /\ past' = {}
      BY <1>6 DEF Reboot, PowerFails, File!Unmount, File!LosePower
    <2>3. /\ {RequestIn(f) : f \in past'} = {}
          /\ RequestIn(target') \in
                 {RequestIn(f) : f \in past} \cup {RequestIn(target)}
      BY <2>2
    <2> QED
      BY <2>1, <2>3 DEF Service!AbsNext, Service!Restart
  <1>7. ASSUME UNCHANGED <<accepted, target, past, installs, resultVars, history>>
        PROVE  Unseen
    BY <1>7 DEF Service!absVars
  <1> QED
    BY <1>1, <1>2, <1>3, <1>4, <1>5, <1>6, <1>7, ServiceUnseen

\* With one client that waits for its answers, the request file, the two
\* programs and their failures implement ApplyService: an accepted request is
\* kept until the last result is its own, only what it asked for is installed in
\* the meantime, however often the helper is killed or started again, and no
\* other request is accepted before.  A power failure takes the request and the
\* last result back to something they were since the machine started, and does
\* nothing else.
THEOREM ServiceImplemented ==
    ASSUME NEW c, OneWriter(c)
    PROVE  Spec => ImplementsApplyService
  <1>1. Init => Service!AbsInit
    BY DEF Init, Service!AbsInit, RequestIn, File!NoFile, NoResult
  <1>2. TypeOK /\ SingleInv(c) /\ TruthInv /\ ServiceInv(c) /\ [Next]_vars
            => [Service!AbsNext]_(Service!absVars)
    BY ServiceRefined
  <1>3. Spec => []SingleInv(c) /\ []ServiceInv(c)
    BY SingleInvariance, ServiceInvariance
  <1> QED
    BY <1>1, <1>2, <1>3, TypeCorrect, TruthInvariance, PTL
    DEF Spec, ImplementsApplyService, Service!AbsSpec

\* The same for the daemon composed with the command line client.
THEOREM ClientsAreServed ==
    ASSUME NEW c, OneWriter(c)
    PROVE  ClientSpec => ImplementsApplyService
  BY ServiceImplemented, ClientsFollowProtocol
============================================================================
