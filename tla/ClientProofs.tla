---------------------------- MODULE ClientProofs ----------------------------
(***************************************************************************)
(* Commands of the client follow the apply protocol, and what root         *)
(* installs for them was shown to their users.                             *)
(***************************************************************************)
EXTENDS UpdateClient, ApplyProofs

\* Every step of the composition is a step of the protocol, or none.
LEMMA ProtocolStep ==
    [ClientNext]_<<vars, clientVars>> => [Next]_vars
  <1> SUFFICES ASSUME ClientNext PROVE [Next]_vars
    BY DEF vars, clientVars
  <1>1. ASSUME NEW c \in Callers, ClientCommand(c)
        PROVE  [Next]_vars
    <2>1. CASE Post(c)
      BY <2>1 DEF Post, Next
    <2>2. CASE UNCHANGED vars
      BY <2>2
    <2> QED
      BY <1>1, <2>1, <2>2 DEF ClientCommand, ShowPlan, GiveUp, Command
  <1>2. ASSUME NEW w \in Writers, ClientRequest(w)
        PROVE  [Next]_vars
    BY <1>2 DEF ClientRequest, Prepare, Write, Accepted, Refused, Failed, Next,
                RequestApply
  <1>3. CASE AnswerLost \/ MachineGone \/ Check
    BY <1>3 DEF AnswerLost, MachineGone, Check, Next, Environment, HelperRun,
                SchedulerStep
  <1>4. CASE Elsewhere
    BY <1>4 DEF Elsewhere, Next, SchedulerStep, HelperRun, Environment
  <1> QED
    BY <1>1, <1>2, <1>3, <1>4 DEF ClientNext

\* The composition implements the protocol: with clients that plan, ask and
\* post, every theorem of ApplyProofs holds as it stands.
THEOREM ClientsFollowProtocol == ClientSpec => Spec
  <1>1. ClientInit => Init
    BY DEF ClientInit
  <1> QED
    BY <1>1, ProtocolStep, PTL DEF ClientSpec, Spec

----------------------------------------------------------------------------
(* Packages travel from the plan to apt-get                                *)

\* The request file, those it replaced and its temporary file hold only requests
\* that are covered, whichever writer's bytes ended up in them.
LEMMA FileOpsCovered ==
    ASSUME FilesCovered, UNCHANGED shown, NEW w \in Writers, NEW r, Covered(r),
           \/ File!OpenTmp(w) \/ File!WriteTmp(w, r) \/ File!RenameTmp(w)
           \/ File!FailWrite(w) \/ File!RemoveTarget
    PROVE  FilesCovered'
  <1> USE DEF FilesCovered, Covered, File!NoFile, File!Truncated, File!Mixed,
          File!Whole
  <1>1. CASE File!OpenTmp(w)
    BY <1>1 DEF File!OpenTmp
  <1>2. CASE File!WriteTmp(w, r)
    <2>1. \A f : \A g \in File!Overlay(f, r) :
              g.kind = "whole" => Covered(g.request)
      BY DEF File!Overlay
    <2>2. /\ tmp' = tmp \/ tmp' \in File!Overlay(tmp, r)
          /\ target' = target \/ target' \in File!Overlay(target, r)
          /\ past' = past \/ past' = past \cup {target}
      BY <1>2 DEF File!WriteTmp
    <2>3. /\ tmp'.kind = "whole" => Covered(tmp'.request)
          /\ target'.kind = "whole" => Covered(target'.request)
          /\ \A f \in past' : f.kind = "whole" => Covered(f.request)
      BY <2>1, <2>2
    <2> QED
      BY <2>3
  <1>3. CASE File!RenameTmp(w)
    BY <1>3 DEF File!RenameTmp
  <1>4. CASE File!FailWrite(w)
    BY <1>4 DEF File!FailWrite
  <1>5. CASE File!RemoveTarget
    BY <1>5 DEF File!RemoveTarget
  <1> QED
    BY <1>1, <1>2, <1>3, <1>4, <1>5

\* A new id leaves what was shown for the others alone.
LEMMA AppendCovers ==
    ASSUME shown \in Seq(SUBSET Pkgs), NEW p \in SUBSET Pkgs,
           shown' = Append(shown, p)
    PROVE  /\ shown' \in Seq(SUBSET Pkgs) /\ Len(shown') = Len(shown) + 1
           /\ shown'[Len(shown) + 1] = p
           /\ \A i \in DOMAIN shown : i \in DOMAIN shown' /\ shown'[i] = shown[i]
  <1>1. /\ shown' \in Seq(SUBSET Pkgs) /\ Len(shown') = Len(shown) + 1
        /\ shown'[Len(shown) + 1] = p
        /\ \A i \in 1 .. Len(shown) : shown'[i] = shown[i]
    OBVIOUS
  <1>2. DOMAIN shown = 1 .. Len(shown) /\ DOMAIN shown' = 1 .. Len(shown')
    BY <1>1
  <1> QED
    BY <1>1, <1>2

\* A command and its call stay together.
LEMMA CommandStep ==
    TypeOK /\ CommandInv /\ [ClientNext]_<<vars, clientVars>> => CommandInv'
  <1> SUFFICES ASSUME TypeOK, CommandInv, [ClientNext]_<<vars, clientVars>>
               PROVE  CommandInv'
    OBVIOUS
  <1> USE DEF CommandInv
  <1>a. /\ call \in [Writers -> Calls] /\ Callers \subseteq Writers
        /\ Scheduler \notin Callers /\ available \in SUBSET Pkgs
        /\ upgradable \in SUBSET Pkgs
    BY ApplyAssumption DEF TypeOK, AboradTypeOK, MachineTypeOK, Writers
  <1>b. /\ NoCommand \in Commands /\ NoCommand.pc = "idle"
    BY DEF NoCommand, Commands
  <1>1. ASSUME NEW c \in Callers, ClientCommand(c)
        PROVE  CommandInv'
    <2>1. CASE ShowPlan(c)
      <3>1. /\ UNCHANGED <<call, available>>
            /\ cli' = [cli EXCEPT ![c] = [pc |-> "confirm",
                                          expected |-> available]]
        BY <2>1 DEF ShowPlan, Command, Confirming, vars, aboradVars
      <3>2. call[c].phase = "idle"
        BY <2>1 DEF ShowPlan
      <3> QED
        BY <1>a, <3>1, <3>2 DEF Commands
    <2>2. CASE GiveUp(c)
      <3>1. /\ UNCHANGED <<call, available>>
            /\ cli' = [cli EXCEPT ![c] = NoCommand]
        BY <2>2 DEF GiveUp, Command, vars, aboradVars
      <3>2. call[c].phase = "idle"
        BY <2>2 DEF GiveUp
      <3> QED
        BY <1>a, <1>b, <3>1, <3>2
    <2>3. CASE Post(c)
      <3>1. /\ UNCHANGED available
            /\ cli[c].pc = "confirm"
            /\ cli' = [cli EXCEPT ![c].pc = "wait"]
            /\ \A x \in Callers : x # c => call'[x] = call[x]
            /\ call'[c].request.pkgs = available
        BY <1>a, <2>3 DEF Post, ReceiveApply
      <3> QED
        BY <1>a, <3>1 DEF Commands
    <2> QED
      BY <1>1, <2>1, <2>2, <2>3 DEF ClientCommand
  <1>2. ASSUME NEW w \in Writers, Prepare(w) \/ Write(w)
        PROVE  CommandInv'
    <2>1. UNCHANGED <<cli, available>>
      BY <1>2 DEF Prepare, Write, PrepareRequest, OpenRequest, WriteRequest,
                  clientVars
    <2>2. \A c \in Callers : call'[c] = call[c] \/ /\ call[c].phase # "idle"
                                                   /\ call'[c].phase # "decide"
      BY <1>a, <1>2 DEF Prepare, Write, PrepareRequest, OpenRequest, WriteRequest,
                        Calls
    <2> QED
      BY <1>a, <2>1, <2>2
  <1>3. ASSUME NEW w \in Writers, Accepted(w) \/ Refused(w) \/ Failed(w)
        PROVE  CommandInv'
    <2>1. /\ UNCHANGED available
          /\ call' = [call EXCEPT ![w] = IdleCall]
          /\ Told(w)
      BY <1>3 DEF Accepted, Refused, Failed, RenameRequest, RefuseApply,
                  RequestFails, Return
    <2>2. IdleCall.phase = "idle"
      BY DEF IdleCall
    <2>3. CASE w \in Callers
      BY <1>a, <1>b, <2>1, <2>2, <2>3 DEF Told
    <2>4. CASE w \notin Callers
      BY <1>a, <2>1, <2>4 DEF Told
    <2> QED
      BY <2>3, <2>4
  <1>4. CASE AnswerLost \/ MachineGone
    <2>1. \A c \in Callers : call'[c].phase = "idle"
      BY <1>a, <1>4 DEF AnswerLost, MachineGone, AboradStops, Reboot, PowerFails,
                        MachineRestarts, AboradGone, NoCalls, IdleCall
    <2>2. available' = {}
      BY <1>4 DEF AnswerLost, MachineGone, AboradStops, Reboot, PowerFails,
                  MachineRestarts, AboradGone
    <2>3. cli' \in [Callers -> Commands]
      BY <1>4, <1>b DEF AnswerLost, MachineGone
    <2> QED
      BY <2>1, <2>2, <2>3
  <1>5. CASE Check
    <2>1. UNCHANGED call /\ available' = upgradable
      BY <1>5 DEF Check, Refresh
    <2>2. \A c \in Callers :
              /\ cli'[c] \in Commands /\ cli'[c].pc = cli[c].pc
              /\ cli[c].pc # "confirm" => cli'[c] = cli[c]
              /\ cli[c].pc = "confirm" => upgradable \subseteq cli'[c].expected
      BY <1>a, <1>5 DEF Check, Commands
    <2>3. cli' \in [Callers -> Commands]
      BY <1>5, <2>2 DEF Check
    <2> QED
      BY <2>1, <2>2, <2>3
  <1>6. CASE Elsewhere \/ UNCHANGED <<vars, clientVars>>
    <2>1. /\ UNCHANGED cli
          /\ \A c \in Callers : call'[c] = call[c]
          /\ available' \subseteq available
      <3>1. CASE \/ Tick \/ Ingest \/ IngestNothing \/ NoRefresh \/ AutoApply
                 \/ NoAutoApply
        BY <1>6, <1>a, <3>1 DEF Elsewhere, clientVars, vars, aboradVars, Tick,
            Ingest, IngestNothing, NoRefresh, AutoApply, NoAutoApply
      <3>2. CASE \/ StartHelper \/ LoadConfigFails \/ NothingWaiting \/ RefuseFile
                 \/ RefuseRequest \/ PermitRequest \/ Simulate \/ NothingToDo
                 \/ SimulateFails \/ Install \/ InstallFails \/ WriteResult
                 \/ WriteResultFails \/ RemoveRequest \/ RemoveFails
                 \/ HelperExits \/ RebootFails \/ HelperKilled
        BY <1>6, <3>2 DEF Elsewhere, clientVars, vars, aboradVars, StartHelper,
            LoadConfigFails, NothingWaiting, RefuseFile, RefuseRequest,
            PermitRequest, Simulate, NothingToDo, SimulateFails, Install,
            InstallFails, WriteResult, WriteResultFails, RemoveRequest,
            RemoveFails, HelperExits, RebootFails, HelperKilled, HelperStep
      <3>3. CASE \/ StartAborad \/ Reload \/ EditConfig \/ TimePasses
                 \/ NewVersion \/ GrowOld \/ UNCHANGED <<vars, clientVars>>
        BY <1>6, <3>3 DEF Elsewhere, clientVars, vars, aboradVars, StartAborad,
            Reload, EditConfig, TimePasses, NewVersion, GrowOld
      <3> QED
        BY <1>6, <3>1, <3>2, <3>3 DEF Elsewhere
    <2> QED
      BY <2>1
  <1> QED
    BY <1>1, <1>2, <1>3, <1>4, <1>5, <1>6 DEF ClientNext, ClientRequest

coverVars == <<shown, ids, call, tmp, target, past, installs>>

\* What a step that leaves the calls, the files and the ids alone has to show:
\* the helper's request stays covered, and installations are covered.
LEMMA CoverFrame ==
    ASSUME CoverInv, UNCHANGED coverVars,
           helper'.pc \in {"simulate", "install"} => Covered(helper'.request),
           helper'.pc = "install" => helper'.todo \subseteq helper'.request.pkgs
    PROVE  CoverInv'
  BY DEF CoverInv, FilesCovered, Covered, coverVars

\* What a step that leaves the helper and the ids alone has to show.
LEMMA CoverFiles ==
    ASSUME CoverInv, UNCHANGED <<shown, ids, helper, installs>>, FilesCovered',
           \A w \in Writers : call'[w].phase \in {"open", "write", "rename"}
                                  => Covered(call'[w].request)
    PROVE  CoverInv'
  BY DEF CoverInv, Covered

\* Every request that has an id, wherever its bytes are by now, names only what
\* was shown for that id.
LEMMA CoverStep ==
    /\ TypeOK /\ CommandInv /\ CoverInv
    /\ [ClientNext]_<<vars, clientVars>>
    => CoverInv'
  <1> SUFFICES ASSUME TypeOK, CommandInv, CoverInv,
                      [ClientNext]_<<vars, clientVars>>
               PROVE  CoverInv'
    OBVIOUS
  <1> USE DEF machineVars, requestVars, resultVars, aboradVars, ghostVars,
          clientVars
  <1>a. /\ call \in [Writers -> Calls] /\ Callers \subseteq Writers
        /\ helper \in HelperRuns /\ target \in Files /\ Scheduler \in Writers
        /\ ids \in Nat /\ FilesCovered
    BY DEF TypeOK, AboradTypeOK, FilesTypeOK, GhostTypeOK, Ids, Writers, CoverInv
  <1>b. IdleCall.phase = "idle"
    BY DEF IdleCall
  <1>c. \A w \in Writers : call[w].phase \in {"open", "write", "rename"}
                               => Covered(call[w].request)
    BY DEF CoverInv
  <1>1. ASSUME NEW c \in Callers, ClientCommand(c)
        PROVE  CoverInv'
    <2>1. CASE Post(c)
      <3>1. UNCHANGED <<shown, ids, helper, installs, tmp, target, past>>
        BY <2>1 DEF Post, ReceiveApply
      <3>2. \A w \in Writers : call'[w] = call[w] \/ call'[w].phase = "decide"
        BY <1>a, <2>1 DEF Post, ReceiveApply
      <3>3. FilesCovered'
        BY <1>a, <3>1 DEF FilesCovered, Covered
      <3> QED
        BY <1>c, <3>1, <3>2, <3>3, CoverFiles
    <2>2. CASE UNCHANGED <<vars, shown>>
      BY <2>2 DEF vars, CoverInv, FilesCovered, Covered
    <2> QED
      BY <1>1, <2>1, <2>2 DEF ClientCommand, ShowPlan, GiveUp, Command
  <1>2. ASSUME NEW w \in Writers, Prepare(w)
        PROVE  CoverInv'
    <2> DEFINE p == IF w \in Callers THEN cli[w].expected ELSE Pkgs
    <2>1. /\ UNCHANGED <<tmp, target, past, helper, installs>> /\ ids' = ids + 1
          /\ shown' = Append(shown, p)
          /\ call[w].phase = "decide"
      BY <1>2 DEF Prepare, PrepareRequest
    <2>2. p \in SUBSET Pkgs /\ call[w].request.pkgs \subseteq p
      <3>1. CASE w \in Callers
        BY <2>1, <3>1 DEF CommandInv, Commands
      <3>2. CASE w \notin Callers
        BY <1>a, <3>2 DEF Calls, Requests
      <3> QED
        BY <3>1, <3>2
    <2>3. /\ shown' \in Seq(SUBSET Pkgs) /\ Len(shown') = ids + 1
          /\ shown'[ids + 1] = p /\ ids + 1 \in DOMAIN shown'
          /\ \A i \in DOMAIN shown : i \in DOMAIN shown' /\ shown'[i] = shown[i]
      <3>1. shown \in Seq(SUBSET Pkgs) /\ Len(shown) = ids
        BY DEF CoverInv
      <3>2. /\ shown' \in Seq(SUBSET Pkgs) /\ Len(shown') = ids + 1
            /\ shown'[ids + 1] = p
            /\ \A i \in DOMAIN shown : i \in DOMAIN shown' /\ shown'[i] = shown[i]
        BY <2>1, <2>2, <3>1, AppendCovers
      <3>3. DOMAIN shown' = 1 .. Len(shown')
        BY <3>2
      <3> QED
        BY <1>a, <3>2, <3>3
    <2>4. /\ \A x \in Writers : x # w => call'[x] = call[x]
          /\ call'[w].request.id = ids + 1
          /\ call'[w].request.pkgs = call[w].request.pkgs
      BY <1>a, <1>2 DEF Prepare, PrepareRequest, Calls, Requests
    <2>5. \A r : Covered(r) => r.id \in DOMAIN shown' /\ r.pkgs \subseteq shown'[r.id]
      BY <2>3 DEF Covered
    <2>6. \A x \in Writers : call'[x].phase \in {"open", "write", "rename"}
                                 => /\ call'[x].request.id \in DOMAIN shown'
                                    /\ call'[x].request.pkgs
                                           \subseteq shown'[call'[x].request.id]
      BY <1>c, <2>2, <2>3, <2>4, <2>5
    <2> HIDE DEF p
    <2> QED
      BY <2>1, <2>3, <2>5, <2>6 DEF CoverInv, FilesCovered, Covered
  <1>3. ASSUME NEW w \in Writers,
               Write(w) \/ Accepted(w) \/ Refused(w) \/ Failed(w)
        PROVE  CoverInv'
    <2>1. UNCHANGED <<shown, ids, helper, installs>>
      BY <1>3 DEF Write, Accepted, Refused, Failed, OpenRequest, WriteRequest,
                  RenameRequest, RefuseApply, RequestFails
    <2>2. FilesCovered'
      <3>1. CASE Refused(w)
        BY <1>a, <2>1, <3>1 DEF Refused, RefuseApply, FilesCovered, Covered
      <3>2. CASE Write(w) \/ Accepted(w) \/ Failed(w)
        <4>1. Covered(call[w].request)
          BY <1>c, <3>2 DEF Write, Accepted, Failed, OpenRequest, WriteRequest,
                            RenameRequest, RequestFails
        <4>2. \/ File!OpenTmp(w) \/ File!WriteTmp(w, call[w].request)
              \/ File!RenameTmp(w) \/ File!FailWrite(w)
          BY <3>2 DEF Write, Accepted, Failed, OpenRequest, WriteRequest,
                      RenameRequest, RequestFails
        <4> QED
          BY <1>a, <2>1, <4>1, <4>2, FileOpsCovered
      <3> QED
        BY <1>3, <3>1, <3>2
    <2>3. \A x \in Writers : call'[x].phase \in {"open", "write", "rename"}
                                 => Covered(call'[x].request)
      <3>1. CASE Write(w)
        <4>1. /\ call[w].phase \in {"open", "write", "rename"}
              /\ \A x \in Writers : /\ call'[x].request = call[x].request
                                    /\ x # w => call'[x] = call[x]
          BY <1>a, <3>1 DEF Write, OpenRequest, WriteRequest, Calls
        <4> QED
          BY <1>c, <2>1, <4>1 DEF Covered
      <3>2. CASE Accepted(w) \/ Refused(w) \/ Failed(w)
        BY <1>a, <1>b, <1>c, <3>2 DEF Accepted, Refused, Failed, RenameRequest,
                                     RefuseApply, RequestFails, Return
      <3> QED
        BY <1>3, <3>1, <3>2
    <2> QED
      BY <2>1, <2>2, <2>3, CoverFiles
  <1>4. CASE AnswerLost \/ MachineGone
    <2>1. /\ UNCHANGED <<shown, ids, installs, tmp>>
          /\ \A w \in Writers : call'[w].phase = "idle"
          /\ helper' = helper \/ helper'.pc = "off"
      BY <1>4, <1>b DEF AnswerLost, MachineGone, AboradStops, Reboot, PowerFails,
                  MachineRestarts, AboradGone, File!CloseAll, File!Unmount,
                  File!LosePower, NoCalls, NoRun
    <2>2. /\ target' \in past \cup {target}
          /\ past' \subseteq past
      BY <1>4 DEF AnswerLost, MachineGone, AboradStops, Reboot, PowerFails,
                  File!CloseAll, File!Unmount, File!LosePower
    <2>3. FilesCovered'
      BY <1>a, <2>1, <2>2 DEF FilesCovered, Covered
    <2> QED
      BY <2>1, <2>3 DEF CoverInv, Covered
  <1>5. CASE Check
    BY <1>5 DEF Check, Refresh, CoverInv, FilesCovered, Covered
  <1>6. CASE Elsewhere /\ AutoApply
    <2>1. UNCHANGED <<shown, ids, helper, installs, tmp, target, past>>
      BY <1>6 DEF Elsewhere, AutoApply
    <2>2. \A w \in Writers : call'[w] = call[w] \/ call'[w].phase = "decide"
      BY <1>a, <1>6 DEF AutoApply
    <2>3. FilesCovered'
      BY <1>a, <2>1 DEF FilesCovered, Covered
    <2> QED
      BY <1>c, <2>1, <2>2, <2>3, CoverFiles
  <1>7. CASE Elsewhere /\ PermitRequest
    <2>1. UNCHANGED coverVars
      BY <1>7 DEF Elsewhere, PermitRequest, HelperStep, coverVars
    <2>2. helper'.pc = "simulate" /\ Covered(helper'.request)
      BY <1>a, <1>7 DEF PermitRequest, ValidFile, HelperRuns, FilesCovered
    <2> QED
      BY <2>1, <2>2, CoverFrame
  <1>8. CASE Elsewhere /\ Simulate
    <2>1. UNCHANGED coverVars
      BY <1>8 DEF Elsewhere, Simulate, HelperStep, coverVars
    <2>2. /\ helper'.request = helper.request
          /\ helper'.todo \subseteq helper.request.pkgs
          /\ Covered(helper.request)
      BY <1>a, <1>8 DEF Simulate, HelperRuns, CoverInv
    <2> QED
      BY <2>1, <2>2, CoverFrame
  <1>9. CASE Elsewhere /\ Install
    <2>1. /\ UNCHANGED <<shown, ids, call, tmp, target, past>>
          /\ helper'.pc = "report"
          /\ installs' = installs \cup {[id |-> helper.request.id,
                                         pkgs |-> helper.todo]}
      BY <1>a, <1>9 DEF Elsewhere, Install, Report, HelperRuns
    <2>2. Covered(helper.request) /\ helper.todo \subseteq helper.request.pkgs
      BY <1>9 DEF Install, CoverInv
    <2>3. Covered([id |-> helper.request.id, pkgs |-> helper.todo])
      BY <2>2 DEF Covered
    <2> QED
      BY <2>1, <2>3 DEF CoverInv, FilesCovered, Covered
  <1>10. CASE Elsewhere /\ RemoveRequest
    <2>1. /\ UNCHANGED <<shown, ids, call, installs>>
          /\ helper'.pc \in {"reboot", "exit"}
          /\ File!RemoveTarget
      BY <1>a, <1>10 DEF Elsewhere, RemoveRequest, AfterRemove, HelperRuns
    <2>2. FilesCovered'
      BY <2>1, <1>a DEF File!RemoveTarget, File!NoFile, FilesCovered, Covered
    <2> QED
      BY <2>1, <2>2 DEF CoverInv, Covered
  <1>11. CASE Elsewhere
    <2> SUFFICES ASSUME ~AutoApply, ~PermitRequest, ~Simulate, ~Install,
                        ~RemoveRequest
                 PROVE  CoverInv'
      BY <1>6, <1>7, <1>8, <1>9, <1>10, <1>11
    <2>1. /\ UNCHANGED coverVars
          /\ helper' = helper \/ helper'.pc \notin {"simulate", "install"}
      <3>1. CASE \/ Tick \/ Ingest \/ IngestNothing \/ NoRefresh \/ NoAutoApply
                 \/ StartAborad \/ Reload \/ EditConfig \/ TimePasses
                 \/ NewVersion \/ GrowOld
        BY <1>11, <3>1 DEF Elsewhere, coverVars, vars, Tick, Ingest,
            IngestNothing, NoRefresh, NoAutoApply, StartAborad, Reload,
            EditConfig, TimePasses, NewVersion, GrowOld
      <3>2. CASE \/ StartHelper \/ RefuseFile \/ RefuseRequest \/ NothingToDo
                 \/ SimulateFails \/ InstallFails \/ WriteResult \/ RemoveFails
        <4>1. helper'.pc \notin {"simulate", "install"}
          BY <1>a, <3>2 DEF StartHelper, RefuseFile, RefuseRequest, NothingToDo,
              SimulateFails, InstallFails, WriteResult, RemoveFails, AfterRemove,
              refuse, Report, HelperRuns
        <4>2. UNCHANGED coverVars
          BY <1>11, <3>2 DEF Elsewhere, coverVars, vars, StartHelper, RefuseFile,
              RefuseRequest, NothingToDo, SimulateFails, InstallFails,
              WriteResult, RemoveFails, HelperStep
        <4> QED
          BY <4>1, <4>2
      <3>3. CASE \/ LoadConfigFails \/ NothingWaiting \/ WriteResultFails
                 \/ HelperExits \/ RebootFails \/ HelperKilled
        BY <1>11, <3>3 DEF Elsewhere, coverVars, vars, LoadConfigFails,
            NothingWaiting, WriteResultFails, HelperExits, RebootFails,
            HelperKilled, HelperStep, NoRun
      <3> QED
        BY <1>11, <3>1, <3>2, <3>3 DEF Elsewhere
    <2> QED
      BY <2>1, CoverFrame DEF CoverInv
  <1>12. CASE UNCHANGED <<vars, clientVars>>
    BY <1>12 DEF vars, CoverInv, FilesCovered, Covered
  <1> QED
    BY <1>1, <1>2, <1>3, <1>4, <1>5, <1>11, <1>12 DEF ClientNext, ClientRequest

\* "`apply` always shows the plan first": root installs for a client's request
\* nothing but what its user was shown, or a check has listed since; for any
\* number of clients, packages and requests, with every fault of the protocol.
THEOREM ConfirmedOnly == ClientSpec => []NothingUnconfirmed
  <1>1. ClientInit => CommandInv /\ CoverInv
    <2> SUFFICES ASSUME ClientInit PROVE CommandInv /\ CoverInv
      OBVIOUS
    <2>1. CommandInv
      BY ApplyAssumption DEF ClientInit, Init, CommandInv, Commands, NoCommand,
          NoCalls, IdleCall, Writers
    <2>2. shown \in Seq(SUBSET Pkgs) /\ Len(shown) = ids
      BY DEF ClientInit, Init
    <2> QED
      BY <2>1, <2>2 DEF ClientInit, Init, CoverInv, FilesCovered, NoCalls,
          IdleCall, NoRun, File!NoFile
  <1>2. CoverInv => NothingUnconfirmed
    BY DEF CoverInv, Covered, NothingUnconfirmed
  <1>3. ClientSpec => []TypeOK
    BY ClientsFollowProtocol, TypeCorrect, PTL
  <1> QED
    BY <1>1, <1>2, <1>3, CommandStep, CoverStep, PTL DEF ClientSpec

----------------------------------------------------------------------------
(* One client                                                              *)

\* While an accepted request of the only client has no result, the status says
\* installing, whatever fails or crashes; unless a power failure has undone the
\* rename of that very request.
THEOREM InstallingIsShown ==
    ASSUME NEW c, OneWriter(c)
    PROVE  ClientSpec => []InstallingShown
  <1>1. SingleInv(c) => InstallingShown
    BY DEF SingleInv, InTarget, IdIn, InstallingShown, apply_pending,
           File!Exists
  <1>2. Spec => []SingleInv(c)
    BY SingleInvariance
  <1> QED
    BY <1>1, <1>2, ClientsFollowProtocol, PTL

\* A step that neither hands out an id nor installs nor fails, and after which
\* no other request is on its way.
LEMMA DeniedFrame ==
    ASSUME NEW c, DeniedInv(c), UNCHANGED <<ids, installs, denied>>,
           InFiles' \subseteq InFiles,
           call'[c].phase \in {"open", "write", "rename"} =>
               /\ call[c].phase \in {"open", "write", "rename"}
               /\ call'[c].request = call[c].request
    PROVE  DeniedInv(c)'
  BY DEF DeniedInv

\* One step of the composition keeps DeniedInv.
LEMMA DeniedStep ==
    ASSUME NEW c, OneWriter(c)
    PROVE  TypeOK /\ SingleInv(c) /\ DeniedInv(c)
               /\ [ClientNext]_<<vars, clientVars>> => DeniedInv(c)'
  <1> SUFFICES ASSUME TypeOK, SingleInv(c), DeniedInv(c),
                      [ClientNext]_<<vars, clientVars>>
               PROVE  DeniedInv(c)'
    OBVIOUS
  <1> USE DEF machineVars, requestVars, resultVars, aboradVars, ghostVars,
          clientVars
  <1>a. /\ call \in [Writers -> Calls] /\ helper \in HelperRuns
        /\ ids \in Nat /\ c \in Writers /\ Writers = {c, Scheduler}
        /\ c # Scheduler
    BY ApplyAssumption
       DEF TypeOK, AboradTypeOK, GhostTypeOK, Writers, OneWriter, Ids
  <1>b. IdleCall.phase = "idle" /\ call[Scheduler].phase = "idle"
    BY DEF IdleCall, SingleInv
  <1>c. target' = target /\ past' = past => InFiles' = InFiles
    BY DEF InFiles, IdIn
  <1>1. ASSUME NEW x \in Callers, ClientCommand(x)
        PROVE  DeniedInv(c)'
    <2>1. CASE Post(x)
      <3>1. /\ UNCHANGED <<ids, installs, denied, target, past>>
            /\ call'[c].phase = "decide"
        BY <1>a, <2>1 DEF Post, ReceiveApply, OneWriter
      <3> QED
        BY <1>c, <3>1, DeniedFrame
    <2>2. CASE UNCHANGED <<vars, denied>>
      BY <1>c, <2>2, DeniedFrame DEF vars
    <2> QED
      BY <1>1, <2>1, <2>2 DEF ClientCommand, ShowPlan, GiveUp, Command
  <1>2. ASSUME NEW w \in Writers, Prepare(w)
        PROVE  DeniedInv(c)'
    <2>1. /\ w = c /\ ids' = ids + 1 /\ UNCHANGED <<target, past, installs, denied>>
          /\ call'[c].request.id = ids + 1
      BY <1>a, <1>b, <1>2 DEF Prepare, PrepareRequest, Calls, Requests
    <2>2. /\ 1 .. ids \subseteq 1 .. ids' /\ ids + 1 \in 1 .. ids'
          /\ ids + 1 \notin 1 .. ids
      BY <1>a, <2>1
    <2> QED
      BY <1>c, <2>1, <2>2 DEF DeniedInv
  <1>3. ASSUME NEW w \in Writers, Write(w)
        PROVE  DeniedInv(c)'
    <2>1. /\ w = c /\ UNCHANGED <<ids, installs, denied>>
          /\ call[c].phase \in {"open", "write"}
          /\ call'[c].request = call[c].request
      BY <1>a, <1>b, <1>3 DEF Write, OpenRequest, WriteRequest, Calls
    <2>2. target' = target /\ past' = past
      BY <1>3, <2>1 DEF Write, OpenRequest, WriteRequest, File!OpenTmp,
                        File!WriteTmp, SingleInv
    <2> QED
      BY <1>c, <2>1, <2>2, DeniedFrame
  <1>4. ASSUME NEW w \in Writers, Accepted(w)
        PROVE  DeniedInv(c)'
    <2>1. /\ w = c /\ UNCHANGED <<ids, installs, denied>>
          /\ call[c].phase = "rename" /\ call'[c].phase = "idle"
          /\ target' = tmp /\ tmp = File!Whole(call[c].request)
          /\ past' = past \cup {target}
      BY <1>a, <1>b, <1>4 DEF Accepted, RenameRequest, File!RenameTmp, Return,
                              SingleInv
    <2>2. InFiles' = InFiles \cup {call[c].request.id}
      BY <2>1 DEF InFiles, IdIn, File!Whole
    <2> QED
      BY <2>1, <2>2 DEF DeniedInv
  <1>5. ASSUME NEW w \in Writers, Refused(w)
        PROVE  DeniedInv(c)'
    <2>1. /\ w = c /\ UNCHANGED <<ids, installs, denied, target, past>>
          /\ call'[c].phase = "idle"
      BY <1>a, <1>b, <1>5 DEF Refused, RefuseApply, Return
    <2> QED
      BY <1>c, <2>1, DeniedFrame
  <1>6. ASSUME NEW w \in Writers, Failed(w)
        PROVE  DeniedInv(c)'
    <2>1. /\ w = c /\ UNCHANGED <<ids, installs, target, past>>
          /\ call[c].phase \in {"open", "write", "rename"}
          /\ call'[c].phase = "idle"
          /\ denied' = denied \cup {call[c].request.id}
      BY <1>a, <1>b, <1>6 DEF Failed, RequestFails, Return, File!FailWrite
    <2> QED
      BY <1>c, <2>1 DEF DeniedInv
  <1>7. CASE AnswerLost \/ MachineGone
    <2>1. /\ UNCHANGED <<ids, installs, denied>>
          /\ call'[c].phase = "idle"
      BY <1>a, <1>b, <1>7 DEF AnswerLost, MachineGone, AboradStops, Reboot,
                              PowerFails, MachineRestarts, AboradGone, NoCalls
    <2>2. target' \in past \cup {target} /\ past' \subseteq past
      BY <1>7 DEF AnswerLost, MachineGone, AboradStops, Reboot, PowerFails,
                  File!CloseAll, File!Unmount, File!LosePower
    <2>3. InFiles' \subseteq InFiles
      BY <2>2 DEF InFiles, IdIn
    <2> QED
      BY <2>1, <2>3, DeniedFrame
  <1>8. CASE Check
    BY <1>c, <1>8, DeniedFrame DEF Check, Refresh
  <1>9. CASE Elsewhere /\ Install
    <2>1. /\ UNCHANGED <<ids, call, denied, target, past>>
          /\ installs' = installs \cup {[id |-> helper.request.id,
                                         pkgs |-> helper.todo]}
      BY <1>9 DEF Elsewhere, Install
    <2>2. InTarget = {helper.request.id}
      BY <1>9 DEF Install, SingleInv
    <2>3. call[c].phase \notin {"open", "write", "rename"}
      BY <2>2 DEF SingleInv, InTarget, IdIn
    <2>4. helper.request.id \in InFiles
      BY <2>2 DEF InFiles, InTarget
    <2> QED
      BY <1>c, <2>1, <2>3, <2>4 DEF DeniedInv
  <1>10. CASE Elsewhere /\ RemoveRequest
    <2>1. UNCHANGED <<ids, installs, call, denied>> /\ InFiles' = InFiles
      BY <1>10 DEF Elsewhere, RemoveRequest, File!RemoveTarget, File!NoFile,
                   InFiles, IdIn
    <2> QED
      BY <2>1, DeniedFrame
  <1>11. CASE Elsewhere
    <2> SUFFICES ASSUME ~Install, ~RemoveRequest PROVE DeniedInv(c)'
      BY <1>9, <1>10, <1>11
    <2>1. ~AutoApply
      BY DEF AutoApply, SingleInv
    <2>2. UNCHANGED <<ids, installs, call, denied, target, past>>
      <3>1. CASE \/ Tick \/ Ingest \/ IngestNothing \/ NoRefresh \/ NoAutoApply
                 \/ StartAborad \/ Reload \/ EditConfig \/ TimePasses
                 \/ NewVersion \/ GrowOld
        BY <1>11, <3>1 DEF Elsewhere, Tick, Ingest, IngestNothing, NoRefresh,
            NoAutoApply, StartAborad, Reload, EditConfig, TimePasses, NewVersion,
            GrowOld
      <3>2. CASE \/ StartHelper \/ RefuseFile \/ RefuseRequest \/ NothingToDo
                 \/ SimulateFails \/ InstallFails \/ WriteResult \/ RemoveFails
                 \/ PermitRequest \/ Simulate
        BY <1>11, <3>2 DEF Elsewhere, StartHelper, RefuseFile, RefuseRequest,
            NothingToDo, SimulateFails, InstallFails, WriteResult, RemoveFails,
            PermitRequest, Simulate, HelperStep
      <3>3. CASE \/ LoadConfigFails \/ NothingWaiting \/ WriteResultFails
                 \/ HelperExits \/ RebootFails \/ HelperKilled
        BY <1>11, <3>3 DEF Elsewhere, LoadConfigFails, NothingWaiting,
            WriteResultFails, HelperExits, RebootFails, HelperKilled, HelperStep
      <3> QED
        BY <1>11, <2>1, <3>1, <3>2, <3>3 DEF Elsewhere
    <2> QED
      BY <1>c, <2>2, DeniedFrame
  <1>12. CASE UNCHANGED <<vars, clientVars>>
    BY <1>c, <1>12, DeniedFrame DEF vars
  <1> QED
    BY <1>1, <1>2, <1>3, <1>4, <1>5, <1>6, <1>7, <1>8, <1>11, <1>12
       DEF ClientNext, ClientRequest

\* A request whose client was told that it could not be handed over is not
\* carried out later, whatever is left of it in the files.
THEOREM ErrorsAreFinal ==
    ASSUME NEW c, OneWriter(c)
    PROVE  ClientSpec => []ErrorIsFinal
  <1>1. ClientInit => DeniedInv(c)
    BY DEF ClientInit, Init, DeniedInv, InFiles, IdIn, File!NoFile, NoCalls,
           IdleCall, Writers, OneWriter
  <1>2. DeniedInv(c) => ErrorIsFinal
    BY DEF DeniedInv, ErrorIsFinal
  <1>3. ClientSpec => [](TypeOK /\ SingleInv(c))
    <2>1. Spec => []SingleInv(c)
      BY SingleInvariance
    <2> QED
      BY <2>1, TypeCorrect, ClientsFollowProtocol, PTL
  <1>4. TypeOK /\ SingleInv(c) /\ DeniedInv(c)
            /\ [ClientNext]_<<vars, clientVars>> => DeniedInv(c)'
    BY DeniedStep
  <1> QED
    BY <1>1, <1>2, <1>3, <1>4, PTL DEF ClientSpec
============================================================================
