--------------------------- MODULE ApplyProtocol ---------------------------
(***************************************************************************)
(* How an update is asked for, applied and recorded.                       *)
(*                                                                         *)
(*   aborad       unprivileged.  Request handlers and the scheduler call   *)
(*                request_apply, which writes the request file; the        *)
(*                scheduler checks for updates and turns the result file   *)
(*                into a history entry                                     *)
(*   systemd      starts the helper when the request file changes          *)
(*   abora-apply  root.  Reads the request file, decides for itself, runs  *)
(*                apt-get, writes the result file, removes the request,    *)
(*                reboots                                                  *)
(*                                                                         *)
(* Sources: services/aborad/src/{state,scheduler,handlers}.rs,             *)
(* services/abora-apply/src/main.rs, crates/abora-update/src/apply.rs.     *)
(* systemd, apt-get and the clock are environment.                         *)
(***************************************************************************)
EXTENDS Naturals, Sequences, FiniteSets, UpdatePolicy

CONSTANTS
    Pkgs,           \* host packages
    Callers,        \* API clients, each with at most one request under way
    Scheduler,      \* the scheduler, as a caller of request_apply
    Configs,        \* configuration files the administrator may write
    Times,          \* local times, and possibly Unknown
    MaxIds,         \* bound: request ids handed out
    MaxHistory,     \* MAX_HISTORY of the store
    MaxPackages,    \* MAX_PACKAGES a request may name
    Faults          \* which failures may happen, a subset of AllFaults

AllFaults ==
    {"age",         \* the helper is started more than MAX_REQUEST_AGE late
     "command",     \* apt-get or systemctl fails
     "disk",        \* a request, result or store file cannot be written
     "remove",      \* the request file cannot be removed
     "crash",       \* aborad or the helper is killed
     "power",       \* the machine goes down without being asked to
     "missed"}      \* a systemd that does not watch while the helper runs

ASSUME ApplyAssumption ==
    /\ MaxIds \in Nat /\ MaxPackages \in Nat /\ MaxHistory \in Nat \ {0}
    /\ Faults \subseteq AllFaults
    /\ Scheduler \notin Callers
    /\ Configs # {}

ASSUME ConfigsAssumption ==
    \A config \in Configs : config.valid => validate_windows(config.windows)

Writers == Callers \cup {Scheduler}
Ids == Nat                  \* 0: "invalid", the id of a refused request file
Requests == [id: Ids, by: Writers, pkgs: SUBSET Pkgs]
NoRequest == [id |-> 0, by |-> Scheduler, pkgs |-> {}]

VARIABLES
    \* the machine
    now, upgradable, marker, conf, trigger,
    \* the request file (see WriteAtomic), its age, and the result file
    tmp, target, fd, past, aged, result,
    \* what a power failure may bring back as the result file
    pastResults,
    \* aborad: its configuration, what the last check found, the calls of
    \* request_apply under way, the scheduler's loop, the store's history
    dconf, available, call, sched, history,
    \* the helper's current run
    helper,
    \* history variables: ids handed out, ids answered 202, ids a result was
    \* written for, ids a power failure took out of the request file, packages
    \* a check ever listed, successful installs
    ids, accepted, answered, lost, listed, installs

File == INSTANCE WriteAtomic WITH Nil <- NoRequest

machineVars == <<now, upgradable, marker, conf>>
requestVars == <<tmp, target, fd, past, aged>>
resultVars == <<result, pastResults>>
aboradVars == <<dconf, available, call, sched, history>>
ghostVars == <<ids, accepted, answered, lost, listed, installs>>
vars == <<machineVars, trigger, requestVars, resultVars, aboradVars, helper,
          ghostVars>>

NoConfig == CHOOSE c \in Configs : TRUE
NoPerms == [apply_permitted |-> FALSE, installs_permitted |-> FALSE,
            reboot_permitted |-> FALSE]

\* A result; `run' numbers the helper's results, a history field.
NoResult == [run |-> 0, id |-> 0, ok |-> FALSE, pkgs |-> {}, reboot |-> FALSE]
Results == [run: Nat, id: Ids, ok: BOOLEAN, pkgs: SUBSET Pkgs, reboot: BOOLEAN]

\* request_apply: its snapshot of the configuration and of the package list.
IdleCall == [phase |-> "idle", config |-> NoConfig, request |-> NoRequest]
NoCalls == [w \in Writers |-> IdleCall]

NewSched(pc) ==
    [pc |-> pc, config |-> NoConfig, perms |-> NoPerms, must_check |-> TRUE]

Asleep == [NewSched("sleep") EXCEPT !.must_check = FALSE]

\* A run of the helper; `outcome' is what it will report.
NoRun == [pc |-> "off", request |-> NoRequest, perms |-> NoPerms,
          todo |-> {}, outcome |-> NoResult]

Init ==
    /\ now \in Times /\ upgradable \in SUBSET Pkgs /\ marker = FALSE
    /\ conf \in {c \in Configs : c.valid}
    /\ trigger = FALSE
    /\ tmp = File!NoFile /\ target = File!NoFile /\ aged = FALSE
    /\ fd = [w \in Writers |-> "none"] /\ past = {}
    /\ result = NoResult /\ pastResults = {}
    /\ dconf = conf
    /\ available = {}
    /\ call = NoCalls
    /\ sched = NewSched("sleep")
    /\ history = << >>
    /\ helper = NoRun
    /\ ids = 0 /\ accepted = {} /\ answered = {} /\ lost = {}
    /\ listed = {} /\ installs = {}

----------------------------------------------------------------------------
(* aborad: request_apply, called by a handler or by the scheduler          *)

apply_pending == File!Exists(target)

\* Bound: every call that may still take an id finds one.
IdsLeft ==
    ids + Cardinality({w \in Writers : call[w].phase = "decide"}) < MaxIds

\* The handler clones the configuration, request_apply the package list.
ReceiveApply(c) ==
    /\ sched.pc # "down"
    /\ call[c].phase = "idle"
    /\ IdsLeft
    /\ call' = [call EXCEPT ![c] =
                   [phase   |-> "decide",
                    config  |-> dconf,
                    request |-> [id |-> 0, by |-> c, pkgs |-> available]]]
    /\ UNCHANGED <<machineVars, trigger, requestVars, resultVars, dconf,
                   available, sched, history, helper, ghostVars>>

\* Mutant of Conflict: a request already waiting is no obstacle.
Conflict_IgnoresPending(config, pkgs) ==
    pkgs = {} \/ ~permissions(config, now).apply_permitted

\* Why request_apply would not ask for pkgs now: a conflict, or the plan of a
\* dry run that is not permitted.
Conflict(config, pkgs) ==
    \/ apply_pending
    \/ pkgs = {}
    \/ ~permissions(config, now).apply_permitted

Blocked(w) == Conflict(call[w].config, call[w].request.pkgs)

\* The scheduler goes back to sleep when its own call ends.
Return(w) ==
    /\ call' = [call EXCEPT ![w] = IdleCall]
    /\ sched' = IF w = Scheduler THEN Asleep ELSE sched

\* 409 Conflict
RefuseApply(w) ==
    /\ call[w].phase = "decide"
    /\ Blocked(w)
    /\ Return(w)
    /\ UNCHANGED <<machineVars, trigger, requestVars, resultVars, dconf,
                   available, history, helper, ghostVars>>

\* Not blocked: a fresh id.
PrepareRequest(w) ==
    /\ call[w].phase = "decide"
    /\ ~Blocked(w)
    /\ ids' = ids + 1
    /\ call' = [call EXCEPT ![w] =
                   [phase   |-> "open",
                    config  |-> call[w].config,
                    request |-> [call[w].request EXCEPT !.id = ids + 1]]]
    /\ UNCHANGED <<machineVars, trigger, requestVars, resultVars, dconf,
                   available, sched, history, helper, accepted, answered, lost,
                   listed, installs>>

OpenRequest(w) ==
    /\ call[w].phase = "open"
    /\ File!OpenTmp(w)
    /\ call' = [call EXCEPT ![w].phase = "write"]
    /\ UNCHANGED <<machineVars, trigger, aged, resultVars, dconf, available,
                   sched, history, helper, ghostVars>>

WriteRequest(w) ==
    /\ call[w].phase = "write"
    /\ File!WriteTmp(w, call[w].request)
    /\ aged' = (aged /\ fd[w] # "target")
    /\ call' = [call EXCEPT ![w].phase = "rename"]
    /\ UNCHANGED <<machineVars, trigger, resultVars, dconf, available, sched,
                   history, helper, ghostVars>>

\* systemd notices that the request file changed.  It is certain to while the
\* helper is not running; a systemd that stops watching while the helper runs
\* may miss the change.
FileChanged ==
    IF helper.pc = "off" \/ "missed" \notin Faults
    THEN trigger' = TRUE
    ELSE trigger' \in {trigger, TRUE}

\* 202 Accepted
RenameRequest(w) ==
    /\ call[w].phase = "rename"
    /\ File!RenameTmp(w)
    /\ aged' = FALSE
    /\ FileChanged
    /\ accepted' = accepted \cup {call[w].request.id}
    /\ Return(w)
    /\ UNCHANGED <<machineVars, resultVars, dconf, available, history, helper,
                   ids, answered, lost, listed, installs>>

\* Mutant of RequestFails: the error comes after the rename.
RequestFails_Late(w) ==
    /\ call[w].phase = "rename" /\ "disk" \in Faults
    /\ File!RenameTmp(w)
    /\ aged' = FALSE
    /\ FileChanged
    /\ Return(w)
    /\ UNCHANGED <<machineVars, resultVars, dconf, available, history, helper,
                   ghostVars>>

\* 500: another writer renamed the temporary file away, or the disk failed.
\* Closing a descriptor on the request file itself is a change of it.
RequestFails(w) ==
    /\ \/ call[w].phase = "rename" /\ ~File!Exists(tmp)
       \/ call[w].phase \in {"open", "write", "rename"} /\ "disk" \in Faults
    /\ File!FailWrite(w)
    /\ IF fd[w] = "target" THEN FileChanged ELSE UNCHANGED trigger
    /\ Return(w)
    /\ UNCHANGED <<machineVars, aged, resultVars, dconf, available, history,
                   helper, ghostVars>>

----------------------------------------------------------------------------
(* aborad: the scheduler's loop                                            *)

\* Top of the loop: the configuration and the permissions of this tick.
Tick ==
    /\ sched.pc = "sleep"
    /\ sched' = [sched EXCEPT !.pc = "ingest", !.config = dconf,
                              !.perms = permissions(dconf, now)]
    /\ UNCHANGED <<machineVars, trigger, requestVars, resultVars, dconf,
                   available, call, history, helper, ghostVars>>

Recorded(id) == \E i \in DOMAIN history : history[i].id = id

\* Mutant of Fresh: no look at the history.
Fresh_Always(r) == r # NoResult

\* Mutant of Fresh: only successes are worth an entry.
Fresh_OnlySuccess(r) == r # NoResult /\ r.ok /\ ~Recorded(r.id)

\* Mutant of Fresh: only ids beyond the last recorded one are new.
Fresh_Newer(r) == r # NoResult /\ \A i \in DOMAIN history : history[i].id < r.id

Fresh(r) == r # NoResult /\ ~Recorded(r.id)

\* Mutant of Record: the history is not trimmed.
Record_Untrimmed(r) == history' = Append(history, r)

\* Append to the history; trim drops the oldest entries.
Record(r) ==
    history' = LET h == Append(history, r)
               IN  IF Len(h) > MaxHistory THEN Tail(h) ELSE h

\* ingest_apply_result with a result the history does not name.
Ingest ==
    /\ sched.pc = "ingest"
    /\ Fresh(result)
    /\ Record(result)
    /\ available' = IF result.ok THEN available \ result.pkgs ELSE available
    /\ sched' = [sched EXCEPT !.pc = "check", !.must_check = TRUE]
    /\ UNCHANGED <<machineVars, trigger, requestVars, resultVars, dconf, call,
                   helper, ghostVars>>

\* Nothing new, or the store could not save the entry.
IngestNothing ==
    /\ sched.pc = "ingest"
    /\ Fresh(result) => "disk" \in Faults
    /\ sched' = [sched EXCEPT !.pc = "check"]
    /\ UNCHANGED <<machineVars, trigger, requestVars, resultVars, dconf,
                   available, call, history, helper, ghostVars>>

\* A check that is due, successful.
Refresh ==
    /\ sched.pc = "check"
    /\ available' = upgradable
    /\ listed' = listed \cup upgradable
    /\ sched' = [sched EXCEPT !.pc = "auto", !.must_check = FALSE]
    /\ UNCHANGED <<machineVars, trigger, requestVars, resultVars, dconf, call,
                   history, helper, ids, accepted, answered, lost, installs>>

\* A check that failed (apt-get, or the store), or one that is not due yet.
NoRefresh ==
    /\ sched.pc = "check"
    /\ sched.must_check => Faults \cap {"command", "disk"} # {}
    /\ sched' = [sched EXCEPT !.pc = "auto", !.must_check = FALSE]
    /\ UNCHANGED <<machineVars, trigger, requestVars, resultVars, dconf,
                   available, call, history, helper, ghostVars>>

\* should_auto_apply says yes: request_apply with this tick's configuration.
AutoApply ==
    /\ sched.pc = "auto"
    /\ sched.perms.installs_permitted
    /\ available # {}
    /\ ~apply_pending
    /\ IdsLeft
    /\ sched' = [sched EXCEPT !.pc = "request"]
    /\ call' = [call EXCEPT ![Scheduler] =
                   [phase   |-> "decide",
                    config  |-> sched.config,
                    request |-> [id |-> 0, by |-> Scheduler,
                                 pkgs |-> available]]]
    /\ UNCHANGED <<machineVars, trigger, requestVars, resultVars, dconf,
                   available, history, helper, ghostVars>>

\* It says no: the conditions above, or the last attempt is too recent.
NoAutoApply ==
    /\ sched.pc = "auto"
    /\ sched' = Asleep
    /\ UNCHANGED <<machineVars, trigger, requestVars, resultVars, dconf,
                   available, call, history, helper, ghostVars>>

----------------------------------------------------------------------------
(* abora-apply, started by systemd                                         *)

StartHelper ==
    /\ trigger
    /\ helper.pc = "off"
    /\ trigger' = FALSE
    /\ helper' = [helper EXCEPT !.pc = "load"]
    /\ UNCHANGED <<machineVars, requestVars, resultVars, aboradVars,
                   ghostVars>>

\* A step of the helper that touches only its own run.
HelperStep ==
    UNCHANGED <<machineVars, trigger, requestVars, resultVars, aboradVars,
                ghostVars>>

\* Mutant of Report: reboot first, report afterwards.
Report_RebootsFirst(id, ok, pkgs, reboot) ==
    helper' = [helper EXCEPT
                  !.pc = IF reboot THEN "reboot" ELSE "report",
                  !.outcome = [run |-> result.run + 1, id |-> id, ok |-> ok,
                               pkgs |-> pkgs, reboot |-> reboot]]

Report(id, ok, pkgs, reboot) ==
    helper' = [helper EXCEPT
                  !.pc = "report",
                  !.outcome = [run |-> result.run + 1, id |-> id, ok |-> ok,
                               pkgs |-> pkgs, reboot |-> reboot]]

refuse(id) == Report(id, FALSE, {}, FALSE)

\* The helper ends before it has looked at the request, which stays.
LoadConfigFails ==
    /\ helper.pc = "load"
    /\ ~conf.valid
    /\ helper' = NoRun
    /\ HelperStep

NothingWaiting ==
    /\ helper.pc = "load"
    /\ conf.valid
    /\ ~apply_pending
    /\ helper' = NoRun
    /\ HelperStep

\* Too old, or not a request: no id to answer.
RefuseFile ==
    /\ helper.pc = "load"
    /\ conf.valid
    /\ apply_pending
    /\ aged \/ target.kind # "whole"
    /\ refuse(0)
    /\ HelperStep

ValidFile ==
    /\ helper.pc = "load"
    /\ conf.valid
    /\ ~aged /\ target.kind = "whole"

validate_request(r) == r.pkgs # {} /\ Cardinality(r.pkgs) <= MaxPackages

\* Mutant of RefuseRequest: the helper just ends, without a result.
RefuseRequest_Silently ==
    /\ ValidFile
    /\ \/ ~validate_request(target.request)
       \/ ~permissions(conf, now).apply_permitted
    /\ helper' = NoRun
    /\ HelperStep

\* The configuration and the clock as the helper sees them now.
RefuseRequest ==
    /\ ValidFile
    /\ \/ ~validate_request(target.request)
       \/ ~permissions(conf, now).apply_permitted
    /\ refuse(target.request.id)
    /\ HelperStep

\* Mutant of PermitRequest: the request is taken away when it is read.
PermitRequest_Takes ==
    /\ ValidFile
    /\ validate_request(target.request)
    /\ permissions(conf, now).apply_permitted
    /\ helper' = [helper EXCEPT !.pc = "simulate", !.request = target.request,
                                !.perms = permissions(conf, now)]
    /\ File!RemoveTarget
    /\ UNCHANGED <<machineVars, trigger, aged, resultVars, aboradVars,
                   ghostVars>>

PermitRequest ==
    /\ ValidFile
    /\ validate_request(target.request)
    /\ permissions(conf, now).apply_permitted
    /\ helper' = [helper EXCEPT !.pc = "simulate", !.request = target.request,
                                !.perms = permissions(conf, now)]
    /\ HelperStep

\* Mutant of Simulate: upgrade everything that is upgradable.
Simulate_Everything ==
    /\ helper.pc = "simulate"
    /\ upgradable # {}
    /\ helper' = [helper EXCEPT !.pc = "install", !.todo = upgradable]
    /\ HelperStep

\* apt-get -s upgrade: what is upgradable right now.
Simulate ==
    /\ helper.pc = "simulate"
    /\ helper.request.pkgs \cap upgradable # {}
    /\ helper' = [helper EXCEPT !.pc = "install",
                                !.todo = helper.request.pkgs \cap upgradable]
    /\ HelperStep

NothingToDo ==
    /\ helper.pc = "simulate"
    /\ helper.request.pkgs \cap upgradable = {}
    /\ Report(helper.request.id, TRUE, {}, FALSE)
    /\ HelperStep

SimulateFails ==
    /\ helper.pc = "simulate"
    /\ "command" \in Faults
    /\ refuse(helper.request.id)
    /\ HelperStep

\* apt-get install; the packages may ask for a reboot by way of the marker.
Install ==
    /\ helper.pc = "install"
    /\ upgradable' = upgradable \ helper.todo
    /\ marker' \in {marker, TRUE}
    /\ Report(helper.request.id, TRUE, helper.todo,
              marker' /\ helper.perms.reboot_permitted)
    /\ installs' = installs \cup {[id |-> helper.request.id,
                                    pkgs |-> helper.todo]}
    /\ UNCHANGED <<now, conf, trigger, requestVars, resultVars, aboradVars,
                   ids, accepted, answered, lost, listed>>

\* Mutant of InstallFails: the exit code of apt-get is ignored.
InstallFails_Ignored ==
    /\ helper.pc = "install"
    /\ "command" \in Faults
    /\ \E done \in SUBSET helper.todo : upgradable' = upgradable \ done
    /\ marker' \in {marker, TRUE}
    /\ Report(helper.request.id, TRUE, helper.todo, FALSE)
    /\ UNCHANGED <<now, conf, trigger, requestVars, resultVars, aboradVars,
                   ghostVars>>

\* It may fail when some packages are already upgraded.
InstallFails ==
    /\ helper.pc = "install"
    /\ "command" \in Faults
    /\ \E done \in SUBSET helper.todo : upgradable' = upgradable \ done
    /\ marker' \in {marker, TRUE}
    /\ refuse(helper.request.id)
    /\ UNCHANGED <<now, conf, trigger, requestVars, resultVars, aboradVars,
                   ghostVars>>

WriteResult ==
    /\ helper.pc = "report"
    /\ result' = helper.outcome
    /\ pastResults' = pastResults \cup {result}
    /\ answered' = answered \cup {helper.outcome.id}
    /\ helper' = [helper EXCEPT !.pc = "remove"]
    /\ UNCHANGED <<machineVars, trigger, requestVars, aboradVars, ids,
                   accepted, lost, listed, installs>>

\* Mutant of WriteResultFails: the request is removed all the same.
WriteResultFails_Removes ==
    /\ helper.pc = "report"
    /\ "disk" \in Faults
    /\ File!RemoveTarget
    /\ helper' = NoRun
    /\ UNCHANGED <<machineVars, trigger, aged, resultVars, aboradVars,
                   ghostVars>>

\* The request stays.
WriteResultFails ==
    /\ helper.pc = "report"
    /\ "disk" \in Faults
    /\ helper' = NoRun
    /\ HelperStep

AfterRemove ==
    helper' = [helper EXCEPT !.pc = IF helper.outcome.reboot THEN "reboot"
                                    ELSE "exit"]

\* Mutant of RemoveRequest: the request is left where it is.
RemoveRequest_Forgotten ==
    /\ helper.pc = "remove"
    /\ AfterRemove
    /\ HelperStep

\* Whatever file has the request's name by now is removed.
RemoveRequest ==
    /\ helper.pc = "remove"
    /\ File!RemoveTarget
    /\ aged' = FALSE
    /\ FileChanged
    /\ AfterRemove
    /\ UNCHANGED <<machineVars, resultVars, aboradVars, ghostVars>>

\* The error is ignored.
RemoveFails ==
    /\ helper.pc = "remove"
    /\ "remove" \in Faults
    /\ AfterRemove
    /\ HelperStep

HelperExits ==
    /\ helper.pc = "exit"
    /\ helper' = NoRun
    /\ HelperStep

RebootFails ==
    /\ helper.pc = "reboot"
    /\ "command" \in Faults
    /\ helper' = NoRun
    /\ HelperStep

HelperKilled ==
    /\ "crash" \in Faults
    /\ helper.pc # "off"
    /\ helper' = NoRun
    /\ HelperStep

----------------------------------------------------------------------------
(* The machine, the daemon's life, the administrator                       *)

\* aborad's memory is gone; the files stay.
AboradGone ==
    /\ sched' = NewSched("down")
    /\ call' = NoCalls
    /\ available' = {}
    /\ dconf' = NoConfig

\* Everything is stopped.  abora-apply.path (PathChanged) is not triggered by
\* a request file it finds when the machine comes back.
MachineRestarts ==
    /\ AboradGone
    /\ helper' = NoRun
    /\ trigger' = FALSE
    /\ marker' = FALSE
    /\ pastResults' = {}
    /\ UNCHANGED <<now, upgradable, conf, history, ids, accepted, answered,
                   listed, installs>>

Reboot ==
    /\ helper.pc = "reboot"
    /\ MachineRestarts
    /\ File!Unmount
    /\ UNCHANGED <<aged, result, lost>>

\* The id in a file that holds a request.
IdIn(file) == IF file.kind = "whole" THEN {file.request.id} ELSE {}
InTarget == IdIn(target)

\* write_atomic does not sync the directory: each of the two files may be the
\* one that it replaced, or an earlier one.  The store syncs its directory.
PowerFails ==
    /\ "power" \in Faults
    /\ MachineRestarts
    /\ File!LosePower
    /\ result' \in pastResults \cup {result}
    /\ aged' = (aged /\ target' = target)
    /\ lost' = lost \cup (InTarget \ IdIn(target'))

AboradStops ==
    /\ "crash" \in Faults
    /\ sched.pc # "down"
    /\ AboradGone
    /\ File!CloseAll
    /\ IF \E w \in Writers : fd[w] = "target" THEN FileChanged
                                              ELSE UNCHANGED trigger
    /\ UNCHANGED <<machineVars, aged, resultVars, history, helper, ghostVars>>

StartAborad ==
    /\ sched.pc = "down"
    /\ conf.valid
    /\ sched' = NewSched("sleep")
    /\ dconf' = conf
    /\ UNCHANGED <<machineVars, trigger, requestVars, resultVars, available,
                   call, history, helper, ghostVars>>

\* The configuration watch loads a valid file.
Reload ==
    /\ sched.pc # "down"
    /\ conf.valid /\ dconf # conf
    /\ dconf' = conf
    /\ UNCHANGED <<machineVars, trigger, requestVars, resultVars, available,
                   call, sched, history, helper, ghostVars>>

EditConfig ==
    /\ conf' \in Configs \ {conf}
    /\ UNCHANGED <<now, upgradable, marker, trigger, requestVars, resultVars,
                   aboradVars, helper, ghostVars>>

TimePasses ==
    /\ now' \in Times \ {now}
    /\ UNCHANGED <<upgradable, marker, conf, trigger, requestVars, resultVars,
                   aboradVars, helper, ghostVars>>

\* The distribution publishes a newer version of a package.
NewVersion ==
    /\ \E p \in Pkgs \ upgradable : upgradable' = upgradable \cup {p}
    /\ UNCHANGED <<now, marker, conf, trigger, requestVars, resultVars,
                   aboradVars, helper, ghostVars>>

GrowOld ==
    /\ "age" \in Faults
    /\ apply_pending /\ ~aged
    /\ aged' = TRUE
    /\ UNCHANGED <<machineVars, trigger, tmp, target, fd, past, resultVars,
                   aboradVars, helper, ghostVars>>

----------------------------------------------------------------------------

RequestApply(w) ==
    \/ RefuseApply(w) \/ PrepareRequest(w) \/ OpenRequest(w)
    \/ WriteRequest(w) \/ RenameRequest(w) \/ RequestFails(w)

SchedulerStep ==
    \/ Tick \/ Ingest \/ IngestNothing \/ Refresh \/ NoRefresh
    \/ AutoApply \/ NoAutoApply

HelperRun ==
    \/ StartHelper \/ LoadConfigFails \/ NothingWaiting \/ RefuseFile
    \/ RefuseRequest \/ PermitRequest \/ Simulate \/ NothingToDo
    \/ SimulateFails \/ Install \/ InstallFails \/ WriteResult
    \/ WriteResultFails \/ RemoveRequest \/ RemoveFails \/ HelperExits
    \/ RebootFails \/ Reboot

Environment ==
    \/ HelperKilled \/ PowerFails \/ AboradStops \/ EditConfig \/ TimePasses
    \/ NewVersion \/ GrowOld

Next ==
    \/ \E c \in Callers : ReceiveApply(c)
    \/ \E w \in Writers : RequestApply(w)
    \/ SchedulerStep
    \/ HelperRun
    \/ StartAborad \/ Reload
    \/ Environment

Spec == Init /\ [][Next]_vars

\* Calls return, the scheduler's loop goes round, systemd starts the helper it
\* was asked to start, the helper's commands end (they have time limits) and
\* systemd restarts aborad.  Nobody has to ask for an update, and nothing has
\* to fail.
Fairness ==
    /\ \A w \in Writers : WF_vars(RequestApply(w))
    /\ WF_vars(SchedulerStep)
    /\ WF_vars(HelperRun)
    /\ WF_vars(StartAborad)
    /\ WF_vars(Reload)

FairSpec == Spec /\ Fairness

----------------------------------------------------------------------------
(* Properties                                                              *)

Files == [kind: {"none", "empty", "mixed", "whole"}, request: Requests]
Descriptors == {"none", "tmp", "target", "gone"}
Permissions == [apply_permitted: BOOLEAN, installs_permitted: BOOLEAN,
                reboot_permitted: BOOLEAN]
Calls == [phase: {"idle", "decide", "open", "write", "rename"},
          config: Configs, request: Requests]
SchedStates ==
    [pc: {"down", "sleep", "ingest", "check", "auto", "request"},
     config: Configs, perms: Permissions, must_check: BOOLEAN]
HelperRuns ==
    [pc: {"off", "load", "simulate", "install", "report", "remove", "reboot",
          "exit"},
     request: Requests, perms: Permissions, todo: SUBSET Pkgs,
     outcome: Results]

MachineTypeOK ==
    /\ now \in Times /\ upgradable \in SUBSET Pkgs /\ marker \in BOOLEAN
    /\ conf \in Configs /\ trigger \in BOOLEAN
FilesTypeOK ==
    /\ tmp \in Files /\ target \in Files /\ fd \in [Writers -> Descriptors]
    /\ past \in SUBSET Files /\ aged \in BOOLEAN
    /\ result \in Results /\ pastResults \in SUBSET Results
AboradTypeOK ==
    /\ dconf \in Configs /\ available \in SUBSET Pkgs
    /\ call \in [Writers -> Calls] /\ sched \in SchedStates
    /\ history \in Seq(Results) /\ Len(history) <= MaxHistory
GhostTypeOK ==
    /\ ids \in Ids /\ accepted \in SUBSET Ids /\ answered \in SUBSET Ids
    /\ lost \in SUBSET Ids /\ listed \in SUBSET Pkgs
    /\ installs \in SUBSET [id: Ids, pkgs: SUBSET Pkgs]

\* Type correctness, a history within MAX_HISTORY included.
TypeOK ==
    /\ MachineTypeOK /\ FilesTypeOK /\ AboradTypeOK /\ helper \in HelperRuns
    /\ GhostTypeOK

\* "Only one action exists: upgrade the packages the last check listed".  What
\* root installs was listed by some check of the unprivileged daemon, whatever
\* the helper finds in the request file and whatever became upgradable since.
OnlyListedInstalled == \A i \in installs : i.pkgs \subseteq listed

\* A result that claims an installation tells of one that took place.
Truthful(r) ==
    r.ok /\ r.pkgs # {} => [id |-> r.id, pkgs |-> r.pkgs] \in installs

\* An entry that claims success names exactly what that request's run
\* installed, and no entry names a request the helper never answered.
HistoryTruth ==
    \A i \in DOMAIN history :
        history[i].id \in answered /\ Truthful(history[i])

\* "A reboot is started only ... after the result is on disk": when the machine
\* goes down for it, the result file tells of this very run.
RebootAfterResult ==
    [][Reboot => result = helper.outcome /\ result.reboot]_vars

\* Nothing is replayed: once a result is written for a request, no later start
\* of the helper installs for it again.
NoReplay == [][Install => helper.request.id \notin answered]_vars

\* What is accepted and not answered, and was not lost with the power.
Unanswered == accepted \ (answered \cup lost)

\* "One at a time": while an accepted request has no result yet, no second one
\* is accepted; unless a power failure has taken the first out of the file.
OneAtATime == Cardinality(Unanswered) <= 1

\* The state of the service: the request in the file is the one under way.
RequestIn(file) == IF file.kind = "whole" THEN file.request ELSE NoRequest

Service ==
    INSTANCE ApplyService WITH
        None <- NoRequest, waiting <- RequestIn(target), done <- installs,
        answer <- result, log <- history,
        oldWaiting <- {RequestIn(f) : f \in past}, oldAnswers <- pastResults

\* What request_apply and the helper promise to one client: requests are taken
\* one at a time and kept until they are answered, only what was asked for is
\* done, answers are true, and a request with an entry gets no second one; a power
\* failure can take back what was under way, and what was answered, but nothing
\* else (see ApplyService).
ImplementsApplyService == Service!AbsSpec

\* ingest_apply_result looks only at the id.  An id in the history stands for
\* the very result that is in the file: no result of a request is passed over
\* because an earlier one had the same id.
NothingShadowed ==
    result.id # 0 => Fresh(result) \/ \E i \in DOMAIN history : history[i] = result

\* The history tells of the results in the order in which the helper wrote them,
\* and of each once: ingest_apply_result runs every tick on the same result file
\* and while the helper replaces it, but never goes back to an earlier result,
\* not even to one whose entry has already made room.
HistoryInOrder ==
    /\ \A i, j \in DOMAIN history : i < j => history[i].run < history[j].run
    /\ \A i \in DOMAIN history : history[i] = result \/ history[i].run < result.run

\* Every request whose change systemd has noticed is answered by a result of the
\* helper, also when the window is over or updates are switched off by the time
\* it looks, and when the helper is busy with the request before.
EveryRequestAnswered ==
    \A i \in 1 .. MaxIds : trigger /\ i \in InTarget ~> i \in answered

\* Every result reaches the history unless the helper replaced it by a newer
\* one before the scheduler came round.
EveryResultRecorded ==
    \A n \in 1 .. MaxIds :
        result.run = n ~> \/ result.run # n
                          \/ \E i \in DOMAIN history : history[i].run = n

\* While an apply runs the status is `installing', "then a history entry
\* appears": a waiting request does not stay there for ever.
PendingClears == apply_pending ~> ~apply_pending

\* Under `ask' the machine is never rebooted "outside a maintenance window".
NoRebootOutsideWindow ==
    [][Reboot /\ conf.reboot_policy = "ask"
           => permissions(conf, now).reboot_permitted]_vars

----------------------------------------------------------------------------
(* Strengthenings of the above that are inductive together with TypeOK     *)

\* Packages only ever travel from the list of a check through request_apply
\* and the request file to the helper.
ListedInv ==
    /\ available \subseteq listed
    /\ \A w \in Writers : call[w].request.pkgs \subseteq listed
    /\ \A f \in past \cup {tmp, target} : f.request.pkgs \subseteq listed
    /\ helper.request.pkgs \subseteq listed /\ helper.todo \subseteq listed
    /\ OnlyListedInstalled

\* What the helper is about to report, and what the result file says or may say
\* after a power failure, is true.
TruthInv ==
    /\ helper.pc = "report" => Truthful(helper.outcome)
    /\ \A r \in pastResults \cup {result} :
           r # NoResult => r.id \in answered /\ Truthful(r)
    /\ HistoryTruth

\* Once past the write, the result file is the report of this run.
ReportInv ==
    /\ helper.pc \in {"remove", "reboot", "exit"} => result = helper.outcome
    /\ helper.pc = "reboot" => helper.outcome.reboot

\* The ids in the places a request can still come from: a call that has not
\* written it yet, the two files, the run of the helper.
InCall(w) ==
    IF call[w].phase \in {"open", "write"} THEN {call[w].request.id} ELSE {}
InTmp == IdIn(tmp)
InHelper ==
    CASE helper.pc \in {"simulate", "install"} -> {helper.request.id}
      [] helper.pc = "report" -> {helper.outcome.id} \ {0}
      [] OTHER -> {}

\* Every request is written once, so a call and a file never have the same one;
\* and what the helper has answered is nowhere but in the file it is about to
\* remove.
ReplayInv ==
    /\ answered \subseteq 0 .. ids
    /\ InTmp \cup InTarget \cup InHelper \subseteq 1 .. ids
    /\ (InTmp \cup InHelper) \cap answered = {}
    /\ helper.pc # "remove" => InTarget \cap answered = {}
    /\ InTmp \cap (InTarget \cup InHelper) = {}
    /\ \A w \in Writers :
           /\ InCall(w) \subseteq 1 .. ids
           /\ InCall(w) \cap (answered \cup InTmp \cup InTarget \cup InHelper) = {}
           /\ \A v \in Writers \ {w} : InCall(v) \cap InCall(w) = {}

\* With c as the only writer: no request is prepared while one is there, the
\* temporary file is c's own, the helper works on the request that is there,
\* and what is accepted, not answered and not lost is that one.
SingleInv(c) ==
    /\ ~sched.perms.installs_permitted
    /\ call[Scheduler].phase = "idle"
    /\ ~aged
    /\ \A f \in past \cup {target} : f.kind \in {"none", "whole"}
    /\ call[c].phase \in {"open", "write", "rename"} => target.kind = "none"
    /\ call[c].phase = "write" => fd[c] = "tmp" /\ tmp.kind = "empty"
    /\ call[c].phase = "rename" => tmp = File!Whole(call[c].request)
    /\ helper.pc \in {"simulate", "install"} => InTarget = {helper.request.id}
    /\ helper.pc = "report" => InTarget = {helper.outcome.id}
    /\ helper.pc = "remove" => InTarget # {} /\ InTarget \subseteq answered
    /\ Unanswered \subseteq InTarget

\* Behind ImplementsApplyService: the ids of requests on their way are new, the
\* helper has the very request that waits, and removes it only when the result
\* file tells of it; results are counted.
ServiceInv(c) ==
    /\ accepted \subseteq 1 .. ids
    /\ \A f \in past \cup {target} : IdIn(f) \subseteq 1 .. ids
    /\ call[c].phase \in {"open", "write", "rename"} =>
           call[c].request.id \in (1 .. ids) \ accepted
    /\ helper.pc \in {"simulate", "install"} => helper.request = target.request
    /\ helper.pc = "install" => helper.todo \subseteq helper.request.pkgs
    /\ helper.pc = "report" => helper.outcome.run = result.run + 1
    /\ helper.pc = "remove" => InTarget = {result.id}
    /\ \A r \in pastResults \cup {result} : r = NoResult \/ r.run > 0

\* The run of the helper has no permission to reboot.
NoRebootAhead ==
    /\ helper.pc # "reboot"
    /\ helper.pc \in {"simulate", "install"} => ~helper.perms.reboot_permitted
    /\ helper.pc \in {"report", "remove"} => ~helper.outcome.reboot
============================================================================
